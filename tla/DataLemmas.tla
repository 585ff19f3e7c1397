----------------------------- MODULE DataLemmas -----------------------------
(***************************************************************************)
(* What the operators on sequences and sets that the models are built with *)
(* return.  The proofs about the components rest on these.                 *)
(***************************************************************************)
EXTENDS Naturals, Sequences, SequencesExt, SequenceTheorems,
        WellFoundedInduction, TLAPS

\* t is s with e at the place i: the elements ahead of it are where they were and
\* the others have moved by one.
IsInsertion(t, s, i, e) ==
    /\ Len(t) = Len(s) + 1
    /\ \A j \in 1 .. Len(s) + 1 : j < i => t[j] = s[j]
    /\ t[i] = e
    /\ \A j \in 1 .. Len(s) + 1 : i < j => t[j] = s[j - 1]

\* That is what InsertAt returns.
LEMMA InsertAtInserts ==
    ASSUME NEW S, NEW s \in Seq(S), NEW e \in S, NEW i \in 1 .. Len(s) + 1
    PROVE  /\ InsertAt(s, i, e) \in Seq(S)
           /\ IsInsertion(InsertAt(s, i, e), s, i, e)
<1> DEFINE front == SubSeq(s, 1, i - 1)
           back == SubSeq(s, i, Len(s))
<1>1. /\ front \in Seq(S) /\ Len(front) = i - 1
      /\ \A j \in 1 .. i - 1 : front[j] = s[j]
  BY SubSeqProperties, LenProperties, ElementOfSeq
<1>2. /\ back \in Seq(S) /\ Len(back) = Len(s) - i + 1
      /\ \A j \in 1 .. Len(s) - i + 1 : back[j] = s[i + j - 1]
  BY SubSeqProperties, LenProperties, ElementOfSeq
<1>3. <<e>> \in Seq(S) /\ Len(<<e>>) = 1 /\ <<e>>[1] = e
  OBVIOUS
<1> HIDE DEF front, back
<1>4. /\ front \o <<e>> \in Seq(S) /\ Len(front \o <<e>>) = i
      /\ \A j \in 1 .. i : (front \o <<e>>)[j] = IF j < i THEN s[j] ELSE e
  <2>1. /\ front \o <<e>> \in Seq(S) /\ Len(front \o <<e>>) = Len(front) + 1
        /\ \A j \in 1 .. Len(front) + 1 : (front \o <<e>>)[j] =
              IF j <= Len(front) THEN front[j] ELSE <<e>>[j - Len(front)]
    BY <1>1, <1>3, ConcatProperties
  <2> QED
    BY <1>1, <1>3, <2>1
<1> DEFINE head == front \o <<e>>
<1> HIDE DEF head
<1>5. /\ head \o back \in Seq(S) /\ Len(head \o back) = Len(s) + 1
      /\ \A j \in 1 .. Len(s) + 1 : (head \o back)[j] =
            IF j <= i THEN head[j] ELSE back[j - i]
  <2>1. head \in Seq(S) /\ Len(head) = i
    BY <1>4 DEF head
  <2>2. /\ head \o back \in Seq(S) /\ Len(head \o back) = Len(head) + Len(back)
        /\ \A j \in 1 .. Len(head) + Len(back) : (head \o back)[j] =
              IF j <= Len(head) THEN head[j] ELSE back[j - Len(head)]
    BY <1>2, <2>1, ConcatProperties
  <2> QED
    BY <1>2, <2>1, <2>2, LenProperties
<1>6. InsertAt(s, i, e) = head \o back
  BY DEF InsertAt, head, front, back
<1>7. \A j \in 1 .. Len(s) + 1 : j < i => (head \o back)[j] = s[j]
  BY <1>4, <1>5 DEF head
<1>8. (head \o back)[i] = e
  BY <1>4, <1>5 DEF head
<1>9. \A j \in 1 .. Len(s) + 1 : i < j => (head \o back)[j] = s[j - 1]
  <2> TAKE j \in 1 .. Len(s) + 1
  <2> HAVE i < j
  <2>1. (head \o back)[j] = back[j - i]
    BY <1>5, LenProperties
  <2>2. j - i \in 1 .. Len(s) - i + 1 /\ i + (j - i) - 1 = j - 1
    BY LenProperties
  <2> QED
    BY <1>2, <2>1, <2>2
<1> QED
  BY <1>5, <1>6, <1>7, <1>8, <1>9 DEF IsInsertion

\* The same, said of the operator.
LEMMA InsertAtProperties ==
    ASSUME NEW S, NEW s \in Seq(S), NEW e \in S, NEW i \in 1 .. Len(s) + 1
    PROVE  /\ InsertAt(s, i, e) \in Seq(S)
           /\ Len(InsertAt(s, i, e)) = Len(s) + 1
           /\ \A j \in 1 .. Len(s) + 1 : j < i => InsertAt(s, i, e)[j] = s[j]
           /\ InsertAt(s, i, e)[i] = e
           /\ \A j \in 1 .. Len(s) + 1 :
                 i < j => InsertAt(s, i, e)[j] = s[j - 1]
<1>1. InsertAt(s, i, e) \in Seq(S) /\ IsInsertion(InsertAt(s, i, e), s, i, e)
  BY InsertAtInserts
<1> QED
  BY <1>1 DEF IsInsertion

\* InsertAt behind the last element is Append.
LEMMA InsertAtEnd ==
    ASSUME NEW S, NEW s \in Seq(S), NEW e \in S
    PROVE  InsertAt(s, Len(s) + 1, e) = Append(s, e)
<1> DEFINE t == InsertAt(s, Len(s) + 1, e)
           u == Append(s, e)
<1>0. Len(s) \in Nat
  BY LenProperties
<1>1. /\ t \in Seq(S) /\ Len(t) = Len(s) + 1
      /\ \A j \in 1 .. Len(s) + 1 : j < Len(s) + 1 => t[j] = s[j]
      /\ t[Len(s) + 1] = e
  BY <1>0, InsertAtProperties
<1>2. /\ u \in Seq(S) /\ Len(u) = Len(s) + 1
      /\ \A j \in 1 .. Len(s) : u[j] = s[j]
      /\ u[Len(s) + 1] = e
  BY <1>0, AppendProperties
<1> HIDE DEF t, u
<1>3. \A j \in 1 .. Len(t) : t[j] = u[j]
  BY <1>0, <1>1, <1>2
<1>4. t = u
  BY <1>1, <1>2, <1>3, SeqEqual
<1> QED
  BY <1>4 DEF t, u

\* RemoveAt leaves the elements ahead of the place where they are and moves the
\* others by one.
LEMMA RemoveAtProperties ==
    ASSUME NEW S, NEW s \in Seq(S), NEW i \in 1 .. Len(s)
    PROVE  /\ RemoveAt(s, i) \in Seq(S)
           /\ Len(RemoveAt(s, i)) = Len(s) - 1
           /\ \A j \in 1 .. Len(s) - 1 :
                 RemoveAt(s, i)[j] = IF j < i THEN s[j] ELSE s[j + 1]
<1> DEFINE front == SubSeq(s, 1, i - 1)
           back == SubSeq(s, i + 1, Len(s))
<1>0. Len(s) \in Nat /\ i \in Nat
  BY LenProperties
<1>1. /\ front \in Seq(S) /\ Len(front) = i - 1
      /\ \A j \in 1 .. i - 1 : front[j] = s[j]
  BY <1>0, SubSeqProperties, ElementOfSeq
<1>2. /\ back \in Seq(S) /\ Len(back) = Len(s) - i
      /\ \A j \in 1 .. Len(s) - i : back[j] = s[i + j]
  <2>1. \A j \in i + 1 .. Len(s) : s[j] \in S
    BY <1>0, ElementOfSeq
  <2>2. /\ back \in Seq(S)
        /\ Len(back) = IF i + 1 <= Len(s) THEN Len(s) - (i + 1) + 1 ELSE 0
        /\ \A j \in 1 .. Len(s) - (i + 1) + 1 : back[j] = s[(i + 1) + j - 1]
    BY <1>0, <2>1, SubSeqProperties
  <2>3. \A j \in 1 .. Len(s) - i : (i + 1) + j - 1 = i + j
    BY <1>0
  <2> HIDE DEF back
  <2> QED
    BY <1>0, <2>2, <2>3
<1> HIDE DEF front, back
<1>3. /\ front \o back \in Seq(S)
      /\ Len(front \o back) = Len(front) + Len(back)
      /\ \A j \in 1 .. Len(front) + Len(back) : (front \o back)[j] =
            IF j <= Len(front) THEN front[j] ELSE back[j - Len(front)]
  BY <1>1, <1>2, ConcatProperties
<1>4. RemoveAt(s, i) = front \o back
  BY DEF RemoveAt, front, back
<1>5. \A j \in 1 .. Len(s) - 1 :
         (front \o back)[j] = IF j < i THEN s[j] ELSE s[j + 1]
  <2> TAKE j \in 1 .. Len(s) - 1
  <2>1. CASE j < i
    BY <1>0, <1>1, <1>2, <1>3, <2>1
  <2>2. CASE ~(j < i)
    <3>1. j - (i - 1) \in 1 .. Len(s) - i /\ i + (j - (i - 1)) = j + 1
      BY <1>0, <2>2
    <3>2. j \in Nat /\ j \in 1 .. Len(front) + Len(back) /\ ~(j <= Len(front))
      BY <1>0, <1>1, <1>2, <2>2
    <3>3. (front \o back)[j] = back[j - (i - 1)]
      BY <1>1, <1>3, <3>2
    <3>4. back[j - (i - 1)] = s[j + 1]
      BY <1>2, <3>1
    <3> QED
      BY <1>0, <2>2, <3>3, <3>4
  <2> QED
    BY <2>1, <2>2, Zenon
<1>6. Len(front) + Len(back) = Len(s) - 1
  BY <1>0, <1>1, <1>2
<1> QED
  BY <1>3, <1>4, <1>5, <1>6

\* Taking away the only element leaves nothing.
LEMMA RemoveOnly ==
    ASSUME NEW S, NEW s \in Seq(S), Len(s) = 1
    PROVE  RemoveAt(s, 1) = <<>>
<1>1. 1 \in 1 .. Len(s) /\ Len(s) - 1 = 0
  OBVIOUS
<1>2. RemoveAt(s, 1) \in Seq(S) /\ Len(RemoveAt(s, 1)) = Len(s) - 1
  BY <1>1, RemoveAtProperties, Zenon
<1> QED
  BY <1>1, <1>2, EmptySeq

-----------------------------------------------------------------------------
(***************************************************************************)
(* Sequences read through a function: the operations in the blocks whose   *)
(* addresses a message queue holds                                         *)
(***************************************************************************)

\* The image of a sequence is a sequence of its length.
LEMMA ImageIsSeq ==
    ASSUME NEW S, NEW T, NEW s \in Seq(S), NEW f \in [S -> T]
    PROVE  /\ [i \in 1 .. Len(s) |-> f[s[i]]] \in Seq(T)
           /\ Len([i \in 1 .. Len(s) |-> f[s[i]]]) = Len(s)
<1> DEFINE t == [i \in 1 .. Len(s) |-> f[s[i]]]
<1>1. Len(s) \in Nat /\ \A i \in 1 .. Len(s) : s[i] \in S
  BY LenProperties, ElementOfSeq
<1>2. t \in [1 .. Len(s) -> T]
  BY <1>1
<1> QED
  BY <1>1, <1>2, SeqDef

\* What is appended to a sequence is appended to its image.
LEMMA ImageOfAppend ==
    ASSUME NEW S, NEW T, NEW s \in Seq(S), NEW f \in [S -> T], NEW e \in S
    PROVE  [i \in 1 .. Len(Append(s, e)) |-> f[Append(s, e)[i]]]
              = Append([i \in 1 .. Len(s) |-> f[s[i]]], f[e])
<1> DEFINE a == Append(s, e)
           t == [i \in 1 .. Len(s) |-> f[s[i]]]
           u == [i \in 1 .. Len(a) |-> f[a[i]]]
           v == Append(t, f[e])
<1>1. /\ a \in Seq(S) /\ Len(a) = Len(s) + 1
      /\ \A i \in 1 .. Len(s) : a[i] = s[i]
      /\ a[Len(s) + 1] = e
  BY AppendProperties, LenProperties
<1>2. t \in Seq(T) /\ Len(t) = Len(s) /\ \A i \in 1 .. Len(s) : t[i] = f[s[i]]
  BY ImageIsSeq
<1>3. f[e] \in T /\ Len(s) \in Nat
  BY LenProperties
<1> HIDE DEF a, t
<1>4. u \in Seq(T) /\ Len(u) = Len(a) /\ \A i \in 1 .. Len(a) : u[i] = f[a[i]]
  BY <1>1, ImageIsSeq
<1>5. /\ v \in Seq(T) /\ Len(v) = Len(s) + 1
      /\ \A i \in 1 .. Len(s) : v[i] = t[i]
      /\ v[Len(s) + 1] = f[e]
  BY <1>2, <1>3, AppendProperties
<1> HIDE DEF u, v
<1>6. ASSUME NEW i \in 1 .. Len(u) PROVE u[i] = v[i]
  <2>1. i \in 1 .. Len(s) \/ i = Len(s) + 1
    BY <1>1, <1>3, <1>4
  <2>2. u[i] = f[a[i]]
    BY <1>4
  <2>3. CASE i \in 1 .. Len(s)
    BY <1>1, <1>2, <1>5, <2>2, <2>3
  <2>4. CASE i = Len(s) + 1
    BY <1>1, <1>5, <2>2, <2>4
  <2> QED
    BY <2>1, <2>3, <2>4
<1>7. u = v
  BY <1>1, <1>4, <1>5, <1>6, SeqEqual
<1> QED
  BY <1>7 DEF u, v, t, a

\* The image of a sequence begins with that of its head.
LEMMA ImageOfTail ==
    ASSUME NEW S, NEW T, NEW s \in Seq(S), NEW f \in [S -> T], s # <<>>
    PROVE  [i \in 1 .. Len(s) |-> f[s[i]]]
              = <<f[Head(s)]>> \o [i \in 1 .. Len(Tail(s)) |-> f[Tail(s)[i]]]
<1> DEFINE a == Tail(s)
           h == <<f[Head(s)]>>
           t == [i \in 1 .. Len(s) |-> f[s[i]]]
           u == [i \in 1 .. Len(a) |-> f[a[i]]]
           v == h \o u
<1>1. /\ Head(s) \in S /\ Head(s) = s[1]
      /\ a \in Seq(S) /\ Len(a) = Len(s) - 1
      /\ \A i \in 1 .. Len(a) : a[i] = s[i + 1]
      /\ Len(s) \in Nat \ {0}
  BY HeadTailProperties, EmptySeq
<1>2. t \in Seq(T) /\ Len(t) = Len(s) /\ \A i \in 1 .. Len(s) : t[i] = f[s[i]]
  BY ImageIsSeq
<1>3. h \in Seq(T) /\ Len(h) = 1 /\ h[1] = f[Head(s)]
  BY <1>1
<1> HIDE DEF a, t, h
<1>4. u \in Seq(T) /\ Len(u) = Len(a) /\ \A i \in 1 .. Len(a) : u[i] = f[a[i]]
  BY <1>1, ImageIsSeq
<1> HIDE DEF u
<1>a. h \in Seq(T) /\ u \in Seq(T)
  BY <1>3, <1>4
<1>5. /\ v \in Seq(T) /\ Len(v) = Len(h) + Len(u)
      /\ \A i \in 1 .. Len(h) + Len(u) :
            v[i] = IF i <= Len(h) THEN h[i] ELSE u[i - Len(h)]
  BY <1>a, ConcatProperties
<1> HIDE DEF v
<1>6. ASSUME NEW i \in 1 .. Len(t) PROVE t[i] = v[i]
  <2>1. t[i] = f[s[i]] /\ i \in 1 .. Len(h) + Len(u)
    BY <1>1, <1>2, <1>3, <1>4
  <2>2. CASE i = 1
    BY <1>1, <1>3, <1>5, <2>1, <2>2
  <2>3. CASE i # 1
    <3>1. i - 1 \in 1 .. Len(a) /\ (i - 1) + 1 = i /\ ~(i <= Len(h))
      BY <1>1, <1>2, <1>3, <2>3
    <3>2. v[i] = u[i - 1]
      BY <1>3, <1>5, <2>1, <3>1
    <3>3. u[i - 1] = f[a[i - 1]] /\ a[i - 1] = s[(i - 1) + 1]
      BY <1>1, <1>4, <3>1
    <3> QED
      BY <2>1, <3>1, <3>2, <3>3
  <2> QED
    BY <2>2, <2>3
<1>7. t = v
  BY <1>1, <1>2, <1>3, <1>4, <1>5, <1>6, SeqEqual
<1> QED
  BY <1>7 DEF v, u, t, h, a

\* Appending to the second part appends to the whole.
LEMMA ConcatAppend ==
    ASSUME NEW S, NEW s \in Seq(S), NEW t \in Seq(S), NEW e \in S
    PROVE  s \o Append(t, e) = Append(s \o t, e)
<1>1. <<e>> \in Seq(S)
  OBVIOUS
<1>2. (s \o t) \o <<e>> = s \o (t \o <<e>>)
  BY <1>1, ConcatAssociative
<1>3. s \o t \in Seq(S)
  BY ConcatProperties
<1>4. Append(t, e) = t \o <<e>> /\ Append(s \o t, e) = (s \o t) \o <<e>>
  BY <1>3, AppendIsConcat
<1> QED
  BY <1>2, <1>4

\* What comes first in a sequence is its head, and the rest its tail.
LEMMA ConcatFirst ==
    ASSUME NEW S, NEW t \in Seq(S), NEW e \in S
    PROVE  /\ <<e>> \o t \in Seq(S) /\ <<e>> \o t # <<>>
           /\ Head(<<e>> \o t) = e /\ Tail(<<e>> \o t) = t
<1> DEFINE h == <<e>>
           v == h \o t
<1>1. h \in Seq(S) /\ Len(h) = 1 /\ h[1] = e /\ Len(t) \in Nat
  BY LenProperties
<1> HIDE DEF h
<1>2. /\ v \in Seq(S) /\ Len(v) = 1 + Len(t)
      /\ \A i \in 1 .. Len(h) + Len(t) :
            v[i] = IF i <= Len(h) THEN h[i] ELSE t[i - Len(h)]
  BY <1>1, ConcatProperties
<1> HIDE DEF v
<1>3. v # <<>>
  BY <1>1, <1>2, EmptySeq
<1>4. v[1] = e /\ Head(v) = v[1]
  BY <1>1, <1>2
<1>5. /\ Tail(v) \in Seq(S) /\ Len(Tail(v)) = Len(v) - 1
      /\ \A i \in 1 .. Len(Tail(v)) : Tail(v)[i] = v[i + 1]
  BY <1>2, <1>3, HeadTailProperties
<1>6. ASSUME NEW i \in 1 .. Len(t) PROVE Tail(v)[i] = t[i]
  <2>1. i \in 1 .. Len(Tail(v)) /\ i + 1 \in 1 .. Len(h) + Len(t)
    BY <1>1, <1>2, <1>5
  <2>2. ~(i + 1 <= Len(h)) /\ (i + 1) - Len(h) = i
    BY <1>1
  <2> QED
    BY <1>2, <1>5, <2>1, <2>2
<1>7. Tail(v) = t
  BY <1>1, <1>2, <1>5, <1>6, SeqEqual
<1> QED
  BY <1>2, <1>3, <1>4, <1>7 DEF v, h

-----------------------------------------------------------------------------
(***************************************************************************)
(* Sets of numbers                                                         *)
(***************************************************************************)

\* Every set of naturals that is not empty has a minimum.
LEMMA HasMinimum ==
    ASSUME NEW S \in SUBSET Nat, S # {}
    PROVE  \E x \in S : \A y \in S : x <= y
<1> DEFINE R == OpToRel(<, Nat)
<1>1. PICK x \in S : \A y \in S : ~(<<y, x>> \in R)
  BY NatLessThanWellFounded, WFMin
<1>2. ASSUME NEW y \in S, y < x PROVE FALSE
  <2> DEFINE p == <<y, x>>
  <2>1. p \in Nat \X Nat /\ p[1] < p[2]
    BY <1>2
  <2>2. p \in R
    BY <2>1 DEF OpToRel
  <2> QED
    BY <1>1, <2>2
<1> QED
  BY <1>2

\* What the Min of the community modules returns.
LEMMA MinProperties ==
    ASSUME NEW S \in SUBSET Nat, S # {}
    PROVE  Min(S) \in S /\ \A y \in S : Min(S) <= y
BY HasMinimum DEF Min
=============================================================================
