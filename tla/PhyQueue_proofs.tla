--------------------------- MODULE PhyQueue_proofs ---------------------------
(***************************************************************************)
(* Proofs about PhyQueue, for any number of clients, operations and blocks *)
(* and any priorities.                                                     *)
(***************************************************************************)
EXTENDS PhyQueue, DataLemmas, FiniteSetTheorems, TLAPS

-----------------------------------------------------------------------------
(***************************************************************************)
(* The order of the list                                                   *)
(***************************************************************************)

\* The list stays sorted when a node goes in where the walk stops.
LEMMA InsertKeepsSorted ==
    ASSUME NEW s \in Seq(Ops), Sorted(s), NEW op \in Ops,
           NEW i \in 1 .. Len(s) + 1, StopsAt(s, op, i)
    PROVE  Sorted(InsertAt(s, i, op))
<1> DEFINE t == InsertAt(s, i, op)
<1>1. /\ Len(s) \in Nat
      /\ Len(t) = Len(s) + 1
      /\ \A j \in 1 .. Len(s) + 1 : j < i => t[j] = s[j]
      /\ t[i] = op
      /\ \A j \in 1 .. Len(s) + 1 : i < j => t[j] = s[j - 1]
  BY InsertAtProperties, LenProperties
<1>2. /\ Priority[op] \in Nat
      /\ \A j \in 1 .. Len(s) : Priority[s[j]] \in Nat
  BY QueueAssumption, ElementOfSeq
<1>3. /\ \A j \in 1 .. Len(s) : j < i => Priority[s[j]] >= Priority[op]
      /\ \A j \in 1 .. Len(s) : j >= i => Priority[op] >= Priority[s[j]]
  BY <1>1, <1>2 DEF StopsAt, Sorted
<1> HIDE DEF t
<1>4. ASSUME NEW j \in 1 .. Len(t), NEW k \in 1 .. Len(t), j < k
      PROVE  Priority[t[j]] >= Priority[t[k]]
  <2>1. CASE k < i
    BY <1>1, <1>4, <2>1 DEF Sorted
  <2>2. CASE k = i
    BY <1>1, <1>3, <1>4, <2>2
  <2>3. CASE j <= i /\ i < k
    <3>1. k - 1 \in 1 .. Len(s) /\ k - 1 >= i /\ t[k] = s[k - 1]
      BY <1>1, <1>4, <2>3
    <3>2. Priority[op] >= Priority[t[k]]
      BY <1>3, <3>1
    <3>3. Priority[t[j]] >= Priority[op]
      BY <1>1, <1>2, <1>3, <1>4, <2>3
    <3>4. Priority[t[j]] \in Nat /\ Priority[t[k]] \in Nat
      BY <1>1, <1>2, <1>4, <2>3, <3>1
    <3> QED
      BY <1>2, <3>2, <3>3, <3>4
  <2>4. CASE i < j
    BY <1>1, <1>4, <2>4 DEF Sorted
  <2> QED
    BY <1>1, <1>4, <2>1, <2>2, <2>3, <2>4
<1> QED
  BY <1>4 DEF Sorted, t

-----------------------------------------------------------------------------
(***************************************************************************)
(* The inductive invariant                                                 *)
(***************************************************************************)

\* MAX_ITEMS is a positive number.
LEMMA MaxItemsNat == MaxItems \in Nat \ {0}
BY QueueAssumption, FS_CardinalityType, FS_EmptySet DEF MaxItems

\* What K_SEM_DEFINE, K_MEM_SLAB_DEFINE and the others set up satisfies the
\* invariant.
LEMMA InitIInv == Init => IInv
<1> SUFFICES ASSUME Init PROVE IInv
  OBVIOUS
<1>1. TypeOK
  BY QueueAssumption, MaxItemsNat DEF Init, TypeOK, PutPcs, ExecPcs
<1>2. HandsFull /\ BlocksOwnedOnce
  BY QueueAssumption DEF Init, HandsFull, BlocksOwnedOnce, Sent
<1>3. NodesAccounted /\ ItemSemCountsList /\ ListOwned /\ OneToken
  BY DEF Init, NodesAccounted, ItemSemCountsList, ListOwned, OneToken, One
<1>4. QueueSorted
  BY DEF Init, QueueSorted, Sorted
<1> QED
  BY <1>1, <1>2, <1>3, <1>4 DEF IInv

\* Each part of the invariant is shown apart.  A step names the actions that
\* can disturb the part; the others leave its variables alone.

\* The variables keep their types: the count of nodes and queue_item_sem stay in
\* range because of what they count.
LEMMA TypeOKStep == IInv /\ [Next]_vars => TypeOK'
<1> SUFFICES ASSUME IInv, [Next]_vars PROVE TypeOK'
  OBVIOUS
<1> USE MaxItemsNat, QueueAssumption
<1> USE DEF IInv, TypeOK, PutPcs, ExecPcs, vars, clientVars, putVars, listVars,
            execVars, PutTo, ExecTo
<1>1. ASSUME NEW c \in Clients, NEW op \in Ops, PutAlloc(c, op) PROVE TypeOK'
  <2> PICK b \in Blocks \ item_used :
        /\ item_used' = item_used \cup {b}
        /\ item_slab' = [item_slab EXCEPT ![b] = op]
        /\ held' = [held EXCEPT ![c] = b]
    BY <1>1 DEF PutAlloc
  <2> QED
    BY <1>1 DEF PutAlloc
<1>2. ASSUME NEW c \in Clients, PutSubmit(c) PROVE TypeOK'
  <2>1. held[c] \in Blocks
    BY <1>2 DEF PutSubmit
  <2> QED
    BY <1>2, <2>1 DEF PutSubmit
<1>3. CASE PutGet
  BY <1>3 DEF PutGet
<1>4. CASE PutCopy
  BY <1>4 DEF PutCopy, HandsFull
<1>5. CASE PutFree \/ PutLock \/ PutUnlock
  BY <1>5 DEF PutFree, PutLock, PutUnlock
<1>6. CASE PutNodeAlloc \/ PutNodeAllocFails
  BY <1>6 DEF PutNodeAlloc, PutNodeAllocFails
<1>7. CASE PutInsert
  <2>1. CASE queue' = queue
    BY <1>7, <2>1 DEF PutInsert
  <2>2. CASE queue' # queue
    <3>1. put_op \in Ops
      BY <1>7 DEF PutInsert, HandsFull
    <3>2. queue' \in Seq(Ops)
      BY <1>7, <2>2, <3>1, InsertAtProperties DEF PutInsert
    <3> QED
      BY <1>7, <3>2 DEF PutInsert
  <2> QED
    BY <2>1, <2>2
<1>8. CASE PutGive
  BY <1>8 DEF PutGive, ItemSemGive
<1>9. CASE ExecTakePhy \/ ExecTakeItem \/ ExecLock \/ ExecUnlock \/ ExecRun
  BY <1>9 DEF ExecTakePhy, ExecTakeItem, ExecLock, ExecUnlock, ExecRun
<1>10. CASE ExecDequeue
  BY <1>10 DEF ExecDequeue
<1>11. CASE ExecKeepPermanent
  <2>1. local_node \in Ops
    BY <1>11 DEF ExecKeepPermanent, HandsFull
  <2> QED
    BY <1>11, <2>1 DEF ExecKeepPermanent, ItemSemGive
<1>12. CASE ExecFreeNode
  BY <1>12 DEF ExecFreeNode, NodesAccounted, One
<1>13. CASE PhyDone
  BY <1>13 DEF PhyDone
<1>14. CASE UNCHANGED vars
  BY <1>14
<1> QED
  BY <1>1, <1>2, <1>3, <1>4, <1>5, <1>6, <1>7, <1>8, <1>9, <1>10, <1>11, <1>12,
     <1>13, <1>14
  DEF Next, Client, PutRefused, PutThread, ExecThread

\* What the threads hold follows from where they are.
LEMMA HandsFullStep == IInv /\ [Next]_vars => HandsFull'
<1> SUFFICES ASSUME IInv, [Next]_vars PROVE HandsFull'
  OBVIOUS
<1> USE QueueAssumption
<1> USE DEF IInv, TypeOK, HandsFull, vars, clientVars, putVars, listVars,
            execVars, PutTo, ExecTo
<1>1. ASSUME NEW c \in Clients, Client(c) PROVE HandsFull'
  BY <1>1 DEF Client, PutAlloc, PutRefused, PutSubmit
<1>2. CASE PutGet \/ PutCopy \/ PutFree
  BY <1>2 DEF PutGet, PutCopy, PutFree, BlocksOwnedOnce
<1>3. CASE PutLock \/ PutNodeAlloc \/ PutNodeAllocFails \/ PutUnlock \/ PutGive
  BY <1>3 DEF PutLock, PutNodeAlloc, PutNodeAllocFails, PutUnlock, PutGive
<1>4. CASE PutInsert
  BY <1>4 DEF PutInsert
<1>5. CASE ExecThread
  BY <1>5 DEF ExecThread, ExecTakePhy, ExecTakeItem, ExecLock, ExecDequeue,
              ExecKeepPermanent, ExecFreeNode, ExecUnlock, ExecRun
<1>6. CASE PhyDone \/ UNCHANGED vars
  BY <1>6 DEF PhyDone
<1> QED
  BY <1>1, <1>2, <1>3, <1>4, <1>5, <1>6 DEF Next, PutThread

\* The blocks: PutAlloc takes one that nobody owns, PutSubmit and PutGet pass
\* it on, PutFree returns it.
LEMMA BlocksStep == IInv /\ [Next]_vars => BlocksOwnedOnce'
<1> SUFFICES ASSUME IInv, [Next]_vars PROVE BlocksOwnedOnce'
  OBVIOUS
<1> USE QueueAssumption
<1> USE DEF IInv, TypeOK, HandsFull, BlocksOwnedOnce, Sent
<1>1. ASSUME NEW c \in Clients, NEW op \in Ops, PutAlloc(c, op)
      PROVE  BlocksOwnedOnce'
  <2> PICK b \in Blocks \ item_used :
        /\ item_used' = item_used \cup {b}
        /\ held' = [held EXCEPT ![c] = b]
    BY <1>1 DEF PutAlloc
  <2>1. ~Sent(b) /\ b # put_item /\ \A d \in Clients : held[d] # b
    OBVIOUS
  <2>2. /\ held[c] = NoBlock /\ msgq' = msgq /\ put_item' = put_item
        /\ held'[c] = b /\ \A d \in Clients \ {c} : held'[d] = held[d]
    BY <1>1 DEF PutAlloc, putVars
  <2>3. \A d, e \in Clients :
           held'[d] = held'[e] /\ held'[d] # NoBlock => d = e
    BY <2>1, <2>2
  <2>4. /\ \A i, j \in 1 .. Len(msgq') : msgq'[i] = msgq'[j] => i = j
        /\ \A d \in Clients : ~Sent(held[d])'
        /\ ~Sent(put_item)'
        /\ \A d \in Clients : held'[d] = put_item' => put_item' = NoBlock
    BY <2>1, <2>2
  <2>5. \A x \in Blocks : x \in item_used' <=>
           (\E d \in Clients : held'[d] = x) \/ Sent(x)' \/ x = put_item'
    BY <2>1, <2>2
  <2> QED
    BY <2>3, <2>4, <2>5
<1>2. ASSUME NEW c \in Clients, PutSubmit(c) PROVE BlocksOwnedOnce'
  <2>1. /\ held[c] \in Blocks /\ ~Sent(held[c])
        /\ held'[c] = NoBlock /\ \A d \in Clients \ {c} : held'[d] = held[d]
        /\ msgq' = Append(msgq, held[c])
        /\ put_item' = put_item /\ item_used' = item_used
    BY <1>2 DEF PutSubmit, putVars
  <2>2. \A b : Sent(b)' <=> Sent(b) \/ b = held[c]
    BY <2>1
  <2>3. \A i, j \in 1 .. Len(msgq') : msgq'[i] = msgq'[j] => i = j
    BY <2>1
  <2>4. /\ \A d, e \in Clients :
              held'[d] = held'[e] /\ held'[d] # NoBlock => d = e
        /\ \A d \in Clients : held'[d] = put_item' => put_item' = NoBlock
    <3>1. \A d \in Clients : held'[d] # NoBlock => held'[d] = held[d]
      BY <2>1
    <3>2. \A d, e \in Clients :
             held[d] = held[e] /\ held[d] # NoBlock => d = e
      OBVIOUS
    <3>3. \A d \in Clients : held[d] = put_item => put_item = NoBlock
      OBVIOUS
    <3> QED
      BY <2>1, <3>1, <3>2, <3>3
  <2>5. /\ \A d \in Clients : ~Sent(held[d])'
        /\ ~Sent(put_item)'
    <3>1. ~Sent(NoBlock)
      BY ElementOfSeq
    <3>2. \A d \in Clients : held'[d] # held[c] \/ held'[d] = NoBlock
      BY <2>1
    <3> QED
      BY <2>1, <2>2, <3>1, <3>2
  <2>6. \A x \in Blocks : x \in item_used' <=>
           (\E d \in Clients : held'[d] = x) \/ Sent(x)' \/ x = put_item'
    <3> TAKE x \in Blocks
    <3>1. x \in item_used' <=>
             (\E d \in Clients : held[d] = x) \/ Sent(x) \/ x = put_item'
      BY <2>1
    <3>2. (\E d \in Clients : held[d] = x) <=>
             (\E d \in Clients : held'[d] = x) \/ x = held[c]
      <4>1. \A d \in Clients :
               held[d] = x <=> held'[d] = x \/ (d = c /\ x = held[c])
        BY <2>1
      <4> QED
        BY <4>1
    <3> QED
      BY <2>2, <3>1, <3>2
  <2> QED
    BY <2>3, <2>4, <2>5, <2>6
<1>3. CASE PutGet
  <2>1. /\ msgq # <<>> /\ msgq' = Tail(msgq) /\ put_item' = Head(msgq)
        /\ put_item = NoBlock
        /\ held' = held /\ item_used' = item_used
    BY <1>3 DEF PutGet, PutTo
  <2>2. /\ Head(msgq) = msgq[1] /\ Len(msgq') = Len(msgq) - 1
        /\ \A i \in 1 .. Len(msgq') : msgq'[i] = msgq[i + 1]
    BY <2>1, HeadTailProperties
  <2>3. ~Sent(put_item)'
    BY <2>1, <2>2
  <2>4. \A b : Sent(b) <=> Sent(b)' \/ b = put_item'
    <3>1. \A i \in 1 .. Len(msgq) :
             i = 1 \/ (i - 1 \in 1 .. Len(msgq') /\ msgq'[i - 1] = msgq[i])
      BY <2>1, <2>2
    <3>2. \A i \in 1 .. Len(msgq') : i + 1 \in 1 .. Len(msgq)
      BY <2>2
    <3>3. put_item' = msgq[1] /\ 1 \in 1 .. Len(msgq)
      BY <2>1, <2>2
    <3> HIDE DEF IInv
    <3> QED
      BY <2>2, <3>1, <3>2, <3>3
  <2>5. \A i, j \in 1 .. Len(msgq') : msgq'[i] = msgq'[j] => i = j
    BY <2>1, <2>2
  <2>6. /\ \A d, e \in Clients :
              held'[d] = held'[e] /\ held'[d] # NoBlock => d = e
        /\ \A d \in Clients : held'[d] = put_item' => put_item' = NoBlock
        /\ \A d \in Clients : ~Sent(held[d])'
        /\ ~Sent(put_item)'
    BY <2>1, <2>3, <2>4
  <2>7. \A x \in Blocks : x \in item_used' <=>
           (\E d \in Clients : held'[d] = x) \/ Sent(x)' \/ x = put_item'
    BY <2>1, <2>4
  <2> QED
    BY <2>5, <2>6, <2>7
<1>4. CASE PutFree
  <2>1. /\ item_used' = item_used \ {put_item} /\ put_item' = NoBlock
        /\ held' = held /\ msgq' = msgq
    BY <1>4 DEF PutFree
  <2> QED
    BY <2>1
<1>5. CASE UNCHANGED <<item_used, held, msgq, put_item>>
  BY <1>5
<1> QED
  BY <1>1, <1>2, <1>3, <1>4, <1>5
  DEF Next, Client, PutRefused, PutThread, PutCopy, PutLock, PutNodeAlloc,
      PutNodeAllocFails, PutInsert, PutUnlock, PutGive, ExecThread, ExecTakePhy,
      ExecTakeItem, ExecLock, ExecDequeue, ExecKeepPermanent, ExecFreeNode,
      ExecUnlock, ExecRun, PhyDone, vars, clientVars, putVars, listVars, execVars

\* The nodes and queue_item_sem.  A give is never lost: there are at least as
\* many nodes as the semaphore counts.
LEMMA CountsStep ==
    IInv /\ [Next]_vars => NodesAccounted' /\ ItemSemCountsList'
<1> SUFFICES ASSUME IInv, [Next]_vars
             PROVE  NodesAccounted' /\ ItemSemCountsList'
  OBVIOUS
<1> USE MaxItemsNat
<1> USE DEF IInv, TypeOK, NodesAccounted, ItemSemCountsList, One, vars,
            clientVars, putVars, listVars, execVars, PutTo, ExecTo
<1>1. ASSUME NEW c \in Clients, Client(c)
      PROVE  NodesAccounted' /\ ItemSemCountsList'
  BY <1>1 DEF Client, PutAlloc, PutRefused, PutSubmit
<1>2. CASE PutGet \/ PutCopy \/ PutFree \/ PutLock
  BY <1>2 DEF PutGet, PutCopy, PutFree, PutLock
<1>3. CASE PutNodeAlloc
  BY <1>3 DEF PutNodeAlloc
<1>4. CASE PutNodeAllocFails
  BY <1>4 DEF PutNodeAllocFails
<1>5. CASE PutUnlock
  BY <1>5 DEF PutUnlock
<1>6. CASE PutInsert
  <2>1. Len(queue) < MaxItems
    BY <1>6 DEF PutInsert
  <2>2. put_op \in Ops
    BY <1>6 DEF PutInsert, HandsFull
  <2>3. Len(queue') = Len(queue) + 1
    BY <1>6, <2>1, <2>2, InsertAtProperties DEF PutInsert
  <2> QED
    BY <1>6, <2>1, <2>3 DEF PutInsert
<1>7. CASE PutGive
  BY <1>7 DEF PutGive, ItemSemGive
<1>8. CASE ExecTakePhy
  BY <1>8 DEF ExecTakePhy
<1>9. CASE ExecTakeItem
  BY <1>9 DEF ExecTakeItem
<1>10. CASE ExecLock
  BY <1>10 DEF ExecLock
<1>11. CASE ExecUnlock \/ ExecRun
  BY <1>11 DEF ExecUnlock, ExecRun
<1>12. CASE ExecDequeue
  BY <1>12 DEF ExecDequeue
<1>13. CASE ExecKeepPermanent
  BY <1>13 DEF ExecKeepPermanent, ItemSemGive
<1>14. CASE ExecFreeNode
  BY <1>14 DEF ExecFreeNode
<1>15. CASE PhyDone \/ UNCHANGED vars
  BY <1>15 DEF PhyDone
<1> QED
  BY <1>1, <1>2, <1>3, <1>4, <1>5, <1>6, <1>7, <1>8, <1>9, <1>10,
     <1>11, <1>12, <1>13, <1>14, <1>15
  DEF Next, PutThread, ExecThread

\* queue_mutex and the token of phy_layer_sem.
LEMMA OwnersStep == IInv /\ [Next]_vars => ListOwned' /\ OneToken'
<1> SUFFICES ASSUME IInv, [Next]_vars PROVE ListOwned' /\ OneToken'
  OBVIOUS
<1> USE QueueAssumption, MaxItemsNat
<1> USE DEF IInv, TypeOK, HandsFull, ListOwned, OneToken, One, vars,
            clientVars, putVars, listVars, execVars, PutTo, ExecTo
<1>1. ASSUME NEW c \in Clients, Client(c) PROVE ListOwned' /\ OneToken'
  BY <1>1 DEF Client, PutAlloc, PutRefused, PutSubmit
<1>2. CASE PutThread /\ ~PutInsert
  BY <1>2 DEF PutThread, PutGet, PutCopy, PutFree, PutLock, PutNodeAlloc,
              PutNodeAllocFails, PutUnlock, PutGive
<1>3. CASE PutInsert
  <2>1. Len(queue) < MaxItems
    BY <1>3 DEF PutInsert, NodesAccounted
  <2> QED
    BY <1>3, <2>1 DEF PutInsert
<1>4. CASE ExecThread
  BY <1>4 DEF ExecThread, ExecTakePhy, ExecTakeItem, ExecLock, ExecDequeue,
              ExecKeepPermanent, ExecFreeNode, ExecUnlock, ExecRun
<1>5. CASE PhyDone \/ UNCHANGED vars
  BY <1>5 DEF PhyDone
<1> QED
  BY <1>1, <1>2, <1>3, <1>4, <1>5 DEF Next

\* The order of the list: a node goes in where the walk stops, the first one
\* goes out, and a permanent one, of the lowest priority, goes to the end.
LEMMA SortedStep == IInv /\ [Next]_vars => QueueSorted'
<1> SUFFICES ASSUME IInv, [Next]_vars PROVE QueueSorted'
  OBVIOUS
<1> USE QueueAssumption
<1> USE DEF IInv, TypeOK, QueueSorted
<1>1. CASE PutInsert /\ queue' # queue
  <2>1. put_op \in Ops
    BY <1>1 DEF PutInsert, HandsFull
  <2>2. PICK i \in 1 .. Len(queue) + 1 :
          StopsAt(queue, put_op, i) /\ queue' = InsertAt(queue, i, put_op)
    BY <1>1 DEF PutInsert
  <2> QED
    BY <2>1, <2>2, InsertKeepsSorted
<1>2. CASE ExecDequeue
  BY <1>2 DEF ExecDequeue, Sorted
<1>3. CASE ExecKeepPermanent
  <2>1. local_node \in Ops /\ Priority[local_node] = 0
    BY <1>3 DEF ExecKeepPermanent, ExecTo, HandsFull, IsPermanent,
                PRIORITY_PERMANENT
  <2>2. queue' = Append(queue, local_node)
    BY <1>3 DEF ExecKeepPermanent
  <2> QED
    BY <2>1, <2>2, ElementOfSeq DEF Sorted
<1>4. CASE UNCHANGED queue
  BY <1>4 DEF Sorted
<1> QED
  BY <1>1, <1>2, <1>3, <1>4
  DEF Next, Client, PutAlloc, PutRefused, PutSubmit, PutThread, PutGet, PutCopy,
      PutFree, PutLock, PutNodeAlloc, PutNodeAllocFails, PutUnlock, PutGive,
      ExecThread, ExecTakePhy, ExecTakeItem, ExecLock, ExecFreeNode, ExecUnlock,
      ExecRun, PhyDone, vars, clientVars, putVars, listVars, execVars

\* The invariant holds: blocks, nodes, list, mutex and semaphores of the queue
\* agree at every step of every thread, for any number of clients and blocks.
THEOREM InductiveInvariant == Spec => []IInv
<1>1. IInv /\ [Next]_vars => IInv'
  BY TypeOKStep, HandsFullStep, BlocksStep, CountsStep, OwnersStep, SortedStep
  DEF IInv
<1> QED
  BY InitIInv, <1>1, PTL DEF Spec

-----------------------------------------------------------------------------
(***************************************************************************)
(* What follows from it                                                    *)
(***************************************************************************)

\* Every variable of the queue has its type: in particular queue_item_sem and
\* the count of nodes stay within what the slab holds.
THEOREM TypeCorrect == Spec => []TypeOK
BY InductiveInvariant, PTL DEF IInv

\* queue_item_sem counts the nodes that are in the list for the exec thread.
THEOREM ItemSemIsCount == Spec => []ItemSemCountsList
BY InductiveInvariant, PTL DEF IInv

\* No node of the slab is lost or in two places.
THEOREM NodesAreAccounted == Spec => []NodesAccounted
BY InductiveInvariant, PTL DEF IInv

\* No block is given to a second client before the put thread is done with it.
THEOREM BlocksAreOwnedOnce == Spec => []BlocksOwnedOnce
BY InductiveInvariant, PTL DEF IInv

\* The exec thread never dereferences the NULL of an empty list.
THEOREM ExecFindsNode == Spec => []DequeueFindsNode
<1>1. IInv => DequeueFindsNode
  BY MaxItemsNat DEF IInv, TypeOK, ItemSemCountsList, One, DequeueFindsNode
<1> QED
  BY InductiveInvariant, <1>1, PTL

\* The put thread that got a node never meets a full list.
THEOREM InsertFindsRoom == Spec => []ListHasRoom
<1>1. IInv => ListHasRoom
  BY MaxItemsNat DEF IInv, TypeOK, NodesAccounted, One, ListHasRoom
<1> QED
  BY InductiveInvariant, <1>1, PTL

\* At most one operation is with the PHY.
THEOREM OneOperationAtATime == Spec => []OneToken
BY InductiveInvariant, PTL DEF IInv

\* The list is always sorted by priority.
THEOREM ListAlwaysSorted == Spec => []QueueSorted
BY InductiveInvariant, PTL DEF IInv

\* dect_phy_queue_put never waits for room in the message queue: the blocks in
\* it are distinct, and differ from the one the caller holds.
THEOREM PutIsNonBlocking == Spec => []PutNeverBlocks
<1>1. IInv => PutNeverBlocks
  <2> SUFFICES ASSUME IInv, NEW c \in Clients, held[c] # NoBlock
               PROVE  Len(msgq) < MaxItems
    BY DEF PutNeverBlocks
  <2> DEFINE others == Blocks \ {held[c]}
  <2>1. held[c] \in Blocks /\ Len(msgq) \in Nat
    BY DEF IInv, TypeOK
  <2>2. IsFiniteSet(others) /\ Cardinality(others) = MaxItems - 1
    BY <2>1, QueueAssumption, FS_RemoveElement DEF MaxItems
  <2>3. msgq \in [1 .. Len(msgq) -> others]
    BY <2>1 DEF IInv, TypeOK, BlocksOwnedOnce, Sent
  <2>4. msgq \in Injection(1 .. Len(msgq), others)
    BY <2>3 DEF IInv, BlocksOwnedOnce, Injection, IsInjective
  <2>5. Cardinality(1 .. Len(msgq)) <= Cardinality(others)
    BY <2>2, <2>4, FS_Injection
  <2>6. Cardinality(1 .. Len(msgq)) = Len(msgq)
    BY <2>1, FS_Interval, SMTT(20)
  <2> QED
    BY <2>1, <2>2, <2>5, <2>6, MaxItemsNat
<1> QED
  BY InductiveInvariant, <1>1, PTL

-----------------------------------------------------------------------------
(***************************************************************************)
(* The put thread survives a load the slabs can hold                       *)
(***************************************************************************)

NodeLoad ==
    Cardinality(item_used) + One(put_pc \in {"lock", "alloc"}) + node_used

LoadBounded == NodeLoad <= MaxLoad

\* As no node is lost or doubled, the nodes can be counted for the operations
\* they carry.
LEMMA LoadIsNodeLoad == IInv => Load = NodeLoad
<1> SUFFICES ASSUME IInv PROVE Load = NodeLoad
  OBVIOUS
<1> DEFINE used == Cardinality(item_used)
           kept == One(exec_pc = "keep")
<1>1. used \in Nat /\ Len(queue) \in Nat /\ kept \in Nat
  BY QueueAssumption, FS_Subset, FS_CardinalityType DEF IInv, TypeOK, One
<1>2. node_used = Len(queue) + One(put_pc = "insert") + kept
  BY DEF IInv, NodesAccounted
<1>3. One(put_pc \in {"lock", "alloc", "insert"})
         = One(put_pc \in {"lock", "alloc"}) + One(put_pc = "insert")
  BY DEF One
<1>4. One(put_pc \in {"lock", "alloc"}) \in Nat /\ One(put_pc = "insert") \in Nat
  BY DEF One
<1> HIDE DEF used, kept
<1>5. Load = used + One(put_pc \in {"lock", "alloc", "insert"}) + Len(queue) + kept
  BY DEF Load, used, kept
<1>6. NodeLoad = used + One(put_pc \in {"lock", "alloc"}) + node_used
  BY DEF NodeLoad, used
<1> QED
  BY <1>1, <1>2, <1>3, <1>4, <1>5, <1>6

\* An operation on its way is counted once: when its block is freed it is in
\* the hands of the put thread, and then it is a node.
LEMMA LoadStep ==
    IInv /\ LoadBounded /\ [Next]_vars => LoadBounded' 
<1> SUFFICES ASSUME IInv, LoadBounded, [Next]_vars PROVE LoadBounded'
  OBVIOUS
<1> DEFINE used == Cardinality(item_used)
<1>0. /\ IsFiniteSet(item_used) /\ used \in Nat /\ node_used \in Nat
      /\ MaxLoad \in Nat
  BY QueueAssumption, MaxItemsNat, FS_Subset, FS_CardinalityType DEF IInv, TypeOK
<1> USE DEF LoadBounded, NodeLoad, One
<1>1. ASSUME NEW c \in Clients, NEW op \in Ops, PutAlloc(c, op)
      PROVE  LoadBounded'
  <2> PICK b \in Blocks \ item_used : item_used' = item_used \cup {b}
    BY <1>1 DEF PutAlloc
  <2>1. Cardinality(item_used') = used + 1
    BY <1>0, FS_AddElement
  <2>2. Load < MaxLoad /\ put_pc' = put_pc /\ node_used' = node_used
    BY <1>1 DEF PutAlloc, putVars, listVars
  <2> QED
    BY <1>0, <2>1, <2>2, LoadIsNodeLoad
<1>2. CASE PutFree
  <2>1. put_item \in item_used /\ put_pc = "free" /\ put_pc' = "lock"
        /\ item_used' = item_used \ {put_item} /\ node_used' = node_used
    BY <1>2 DEF PutFree, PutTo, listVars, IInv, TypeOK, HandsFull,
                BlocksOwnedOnce
  <2>2. Cardinality(item_used') = used - 1
    BY <1>0, <2>1, FS_RemoveElement
  <2> QED
    BY <1>0, <2>1, <2>2
<1>3. CASE PutLock \/ PutNodeAlloc \/ PutNodeAllocFails
  BY <1>0, <1>3 DEF PutLock, PutNodeAlloc, PutNodeAllocFails, PutTo, clientVars,
                    listVars
<1>4. CASE ExecFreeNode
  <2>1. node_used' = node_used - 1 /\ item_used' = item_used /\ put_pc' = put_pc
    BY <1>4 DEF ExecFreeNode, clientVars, putVars
  <2> QED
    BY <1>0, <2>1
<1>5. CASE /\ UNCHANGED <<item_used, node_used>>
           /\ put_pc' \in {"lock", "alloc"} => put_pc' = put_pc
  BY <1>0, <1>5
<1> QED
  BY <1>1, <1>2, <1>3, <1>4, <1>5
  DEF Next, Client, PutRefused, PutSubmit, PutThread, PutGet, PutCopy, PutInsert,
      PutUnlock, PutGive, ExecThread, ExecTakePhy, ExecTakeItem, ExecLock,
      ExecDequeue, ExecKeepPermanent, ExecUnlock, ExecRun, PhyDone, PutTo, vars,
      clientVars, putVars, listVars, execVars

\* With no more operations on their way than MAX_ITEMS the put thread always
\* finds a node, so that it never returns with queue_mutex locked.
THEOREM PutThreadNeverEnds == Spec => []PutThreadSurvives
<1>1. Init => LoadBounded /\ PutThreadSurvives
  BY QueueAssumption, FS_EmptySet DEF Init, LoadBounded, NodeLoad, One, PutThreadSurvives
<1>2. IInv /\ LoadBounded /\ PutThreadSurvives /\ [Next]_vars
        => PutThreadSurvives'
  <2> SUFFICES ASSUME IInv, LoadBounded, PutThreadSurvives, [Next]_vars,
                      MaxLoad <= MaxItems
               PROVE  put_pc' # "ended"
    BY DEF PutThreadSurvives
  <2>1. /\ Cardinality(item_used) \in Nat /\ node_used \in Nat
        /\ MaxItems \in Nat /\ MaxLoad \in Nat
    BY QueueAssumption, MaxItemsNat, FS_Subset, FS_CardinalityType
    DEF IInv, TypeOK
  <2>2. ~PutNodeAllocFails
    BY <2>1 DEF LoadBounded, NodeLoad, One, PutNodeAllocFails, PutTo
  <2>3. PutInsert => put_pc' = "unlock"
    BY MaxItemsNat DEF IInv, TypeOK, NodesAccounted, One, PutInsert
  <2>4. put_pc # "ended"
    BY DEF PutThreadSurvives
  <2>5. CASE PutThread
    BY <2>2, <2>3, <2>5
    DEF PutThread, PutGet, PutCopy, PutFree, PutLock, PutNodeAlloc, PutUnlock,
        PutGive, PutTo
  <2>6. CASE UNCHANGED put_pc
    BY <2>4, <2>6
  <2> QED
    BY <2>5, <2>6
    DEF Next, Client, PutAlloc, PutRefused, PutSubmit, ExecThread, ExecTakePhy,
        ExecTakeItem, ExecLock, ExecDequeue, ExecKeepPermanent, ExecFreeNode,
        ExecUnlock, ExecRun, PhyDone, vars, putVars
<1> QED
  BY <1>1, <1>2, InductiveInvariant, LoadStep, PTL DEF Spec

-----------------------------------------------------------------------------
(***************************************************************************)
(* The threads implement OpQueue                                           *)
(***************************************************************************)

\* The operations in the message queue, oldest first.
Sending == [i \in 1 .. Len(msgq) |-> item_slab[msgq[i]]]

\* The place of a permanent operation is the end of the list.
LEMMA PermanentFiledLast ==
    ASSUME NEW s \in Seq(Ops), NEW op \in Ops, IsPermanent(op)
    PROVE  Abs!Filed(s, op, Append(s, op))
<1> DEFINE i == Len(s) + 1
<1>1. Len(s) \in Nat /\ i \in 1 .. Len(s) + 1
  BY LenProperties
<1>2. Priority[op] = 0
  BY DEF IsPermanent, PRIORITY_PERMANENT
<1>3. ASSUME NEW j \in 1 .. Len(s)
      PROVE  (j < i) <=> (Priority[s[j]] >= Priority[op])
  <2>1. s[j] \in Ops
    BY ElementOfSeq
  <2>2. Priority[s[j]] \in Nat
    BY <2>1, QueueAssumption
  <2> QED
    BY <1>1, <1>2, <2>2
<1>4. Append(s, op) = Abs!InsertAt(s, i, op)
  BY InsertAtEnd DEF InsertAt, Abs!InsertAt
<1> HIDE DEF i
<1> QED
  BY <1>1, <1>3, <1>4 DEF Abs!Filed

\* Where the walk over a sorted list stops is the place of the operation.
LEMMA StopsWhereFiled ==
    ASSUME NEW s \in Seq(Ops), Sorted(s), NEW op \in Ops,
           NEW i \in 1 .. Len(s) + 1, StopsAt(s, op, i)
    PROVE  Abs!Filed(s, op, InsertAt(s, i, op))
<1>1. /\ Len(s) \in Nat /\ Priority[op] \in Nat
      /\ \A j \in 1 .. Len(s) : Priority[s[j]] \in Nat
  BY QueueAssumption, LenProperties, ElementOfSeq
<1>2. ASSUME NEW j \in 1 .. Len(s)
      PROVE  (j < i) <=> (Priority[s[j]] >= Priority[op])
  <2>1. CASE j < i
    BY <1>1, <2>1 DEF StopsAt
  <2>2. CASE ~(j < i)
    <3>1. i \in 1 .. Len(s) /\ Priority[s[i]] < Priority[op]
      BY <1>1, <2>2 DEF StopsAt
    <3>2. Priority[s[i]] >= Priority[s[j]]
      BY <1>1, <2>2, <3>1 DEF Sorted
    <3> QED
      BY <1>1, <2>2, <3>1, <3>2
  <2> QED
    BY <2>1, <2>2
<1>3. InsertAt(s, i, op) = Abs!InsertAt(s, i, op)
  BY DEF InsertAt, Abs!InsertAt
<1> QED
  BY <1>2, <1>3 DEF Abs!Filed

\* What is accepted consists of operations: every block that was sent is filled.
LEMMA AcceptedOps ==
    ASSUME IInv
    PROVE  /\ item_slab \in [Blocks -> Ops \cup {NoOp}] /\ msgq \in Seq(Blocks)
           /\ Sending \in Seq(Ops \cup {NoOp})
           /\ InHand \in Seq(Ops \cup {NoOp})
           /\ Accepted = InHand \o Sending
           /\ \A c \in Clients : held[c] # NoBlock => item_slab[held[c]] \in Ops
<1>1. /\ item_slab \in [Blocks -> Ops \cup {NoOp}] /\ msgq \in Seq(Blocks)
      /\ put_item \in Blocks \cup {NoBlock} /\ put_op \in Ops \cup {NoOp}
  BY DEF IInv, TypeOK
<1>2. Sending \in Seq(Ops \cup {NoOp})
  BY <1>1, ImageIsSeq DEF Sending
<1>3. put_pc = "copy" => put_item \in Blocks
  BY <1>1 DEF IInv, HandsFull
<1>4. InHand \in Seq(Ops \cup {NoOp})
  <2>1. CASE put_pc = "copy"
    BY <1>1, <1>3, <2>1 DEF InHand
  <2>2. CASE put_pc \in {"free", "lock", "alloc", "insert", "ended"}
    BY <1>1, <2>2 DEF InHand
  <2>3. CASE put_pc \notin {"copy", "free", "lock", "alloc", "insert", "ended"}
    BY <2>3, EmptySeq DEF InHand
  <2> QED
    BY <2>1, <2>2, <2>3
<1>5. ASSUME NEW c \in Clients, held[c] # NoBlock PROVE item_slab[held[c]] \in Ops
  <2>1. held[c] \in Blocks /\ held[c] \in item_used
    BY <1>5 DEF IInv, TypeOK, BlocksOwnedOnce
  <2> QED
    BY <1>1, <2>1 DEF IInv, HandsFull
<1> QED
  BY <1>1, <1>2, <1>4, <1>5 DEF Accepted, Sending

\* A client that fills a block, or the put thread that takes one from the
\* message queue or copies it, changes nothing of what is accepted.
LEMMA AcceptedKept ==
    ASSUME IInv,
           \/ \E c \in Clients, op \in Ops : PutAlloc(c, op)
           \/ PutGet \/ PutCopy \/ PutFree \/ PutLock \/ PutNodeAlloc
           \/ PutNodeAllocFails \/ PutUnlock \/ PutGive
           \/ UNCHANGED <<clientVars, putVars>>
    PROVE  Accepted' = Accepted
<1> USE DEF clientVars, putVars, listVars, execVars, PutTo
<1>1. /\ item_slab \in [Blocks -> Ops \cup {NoOp}] /\ msgq \in Seq(Blocks)
      /\ Accepted = InHand \o Sending /\ Sending \in Seq(Ops \cup {NoOp})
  BY AcceptedOps
<1>2. Accepted' = InHand' \o Sending'
  BY DEF Accepted, Sending
<1>3. ASSUME NEW c \in Clients, NEW op \in Ops, PutAlloc(c, op)
      PROVE  Accepted' = Accepted
  <2> PICK b \in Blocks \ item_used : item_slab' = [item_slab EXCEPT ![b] = op]
    BY <1>3 DEF PutAlloc
  <2>1. UNCHANGED <<msgq, put_pc, put_item, put_op>>
    BY <1>3 DEF PutAlloc
  <2>2. ~Sent(b) /\ b # put_item
    BY DEF IInv, BlocksOwnedOnce
  <2>3. Sending' = Sending
    <3>1. \A i \in 1 .. Len(msgq) : item_slab'[msgq[i]] = item_slab[msgq[i]]
      BY <1>1, <2>2 DEF Sent
    <3> QED
      BY <2>1, <3>1 DEF Sending
  <2>4. InHand' = InHand
    BY <1>1, <2>1, <2>2 DEF InHand
  <2> QED
    BY <1>1, <1>2, <2>3, <2>4
<1>4. CASE PutGet
  <2>1. msgq # <<>> /\ msgq' = Tail(msgq) /\ item_slab' = item_slab
    BY <1>4 DEF PutGet
  <2>2. InHand = <<>> /\ InHand' = <<item_slab[Head(msgq)]>>
    BY <1>4 DEF PutGet, InHand
  <2>3. Sending = <<item_slab[Head(msgq)]>> \o Sending'
    BY <1>1, <2>1, ImageOfTail DEF Sending
  <2>4. <<>> \o Sending = Sending
    BY <1>1, ConcatEmptySeq
  <2> QED
    BY <1>1, <1>2, <2>2, <2>3, <2>4
<1>5. CASE \/ PutCopy \/ PutFree \/ PutLock \/ PutNodeAlloc \/ PutNodeAllocFails
           \/ PutUnlock \/ PutGive \/ UNCHANGED <<clientVars, putVars>>
  <2>1. Sending' = Sending
    BY <1>5 DEF PutCopy, PutFree, PutLock, PutNodeAlloc, PutNodeAllocFails,
                PutUnlock, PutGive, Sending
  <2>2. InHand' = InHand
    BY <1>5 DEF PutCopy, PutFree, PutLock, PutNodeAlloc, PutNodeAllocFails,
                PutUnlock, PutGive, InHand
  <2> QED
    BY <1>1, <1>2, <2>1, <2>2
<1> QED
  BY <1>3, <1>4, <1>5

\* PutSubmit accepts an operation, PutInsert files it, ExecDequeue starts one
\* and PhyDone finishes it.  The other steps change nothing that OpQueue sees.
LEMMA QueueStep ==
    ASSUME IInv, [Next]_vars
    PROVE  [Abs!Next]_(Abs!qvars)
<1> USE DEF clientVars, putVars, listVars, execVars, PutTo, ExecTo
<1>0. /\ TypeOK /\ HandsFull /\ ListOwned /\ OneToken /\ QueueSorted
      /\ NoOp \notin Ops
  BY QueueAssumption DEF IInv
<1>1. ASSUME UNCHANGED <<queue, execVars>>
      PROVE  Pending' = Pending /\ Running' = Running
  BY <1>1 DEF Pending, Running
<1>2. ASSUME NEW c \in Clients, PutSubmit(c) PROVE Abs!Next
  <2>1. held[c] \in Blocks /\ item_slab[held[c]] \in Ops
    BY <1>0, <1>2, AcceptedOps DEF PutSubmit, TypeOK
  <2>2. UNCHANGED <<item_slab, put_pc, put_item, put_op>>
    BY <1>2 DEF PutSubmit
  <2>3. Sending' = Append(Sending, item_slab[held[c]])
    <3>1. msgq' = Append(msgq, held[c])
      BY <1>2 DEF PutSubmit
    <3> QED
      BY <2>1, <2>2, <3>1, AcceptedOps, ImageOfAppend DEF Sending
  <2>4. InHand' = InHand
    BY <2>2 DEF InHand
  <2>5. Accepted' = InHand' \o Sending'
    BY DEF Accepted, Sending
  <2>6. Accepted' = Append(Accepted, item_slab[held[c]])
    <3>1. item_slab[held[c]] \in Ops \cup {NoOp}
      BY <2>1
    <3>2. InHand \o Append(Sending, item_slab[held[c]])
             = Append(InHand \o Sending, item_slab[held[c]])
      BY <3>1, AcceptedOps, ConcatAppend
    <3> QED
      BY <2>3, <2>4, <2>5, <3>2, AcceptedOps
  <2>7. Pending' = Pending /\ Running' = Running
    BY <1>1, <1>2 DEF PutSubmit
  <2> QED
    BY <2>1, <2>6, <2>7 DEF Abs!Accept, Abs!Next
<1>3. CASE PutInsert
  <2>1. /\ put_pc = "insert" /\ put_op \in Ops /\ exec_pc # "keep"
        /\ ~(Len(queue) >= MaxItems)
    BY <1>0, <1>3, MaxItemsNat
    DEF PutInsert, HandsFull, TypeOK, ListOwned, IInv, NodesAccounted, One
  <2>2. PICK i \in 1 .. Len(queue) + 1 :
           StopsAt(queue, put_op, i) /\ queue' = InsertAt(queue, i, put_op)
    BY <1>3, <2>1 DEF PutInsert
  <2>3. Pending = queue /\ Pending' = queue' /\ Running' = Running
    BY <1>3, <2>1 DEF PutInsert, Pending, Running
  <2>4. Abs!Filed(Pending, put_op, Pending')
    BY <1>0, <2>1, <2>2, <2>3, StopsWhereFiled DEF TypeOK, QueueSorted
  <2>5. Accepted = <<put_op>> \o Sending
    BY <2>1, AcceptedOps DEF InHand
  <2>6. Accepted' = Sending
    <3>1. Accepted' = <<>> \o Sending
      BY <1>3, <2>1 DEF PutInsert, Accepted, InHand, Sending
    <3> QED
      BY <3>1, AcceptedOps, ConcatEmptySeq
  <2>7. Accepted # <<>> /\ Head(Accepted) = put_op /\ Tail(Accepted) = Sending
    BY <2>1, <2>5, AcceptedOps, ConcatFirst
  <2> QED
    BY <2>3, <2>4, <2>6, <2>7 DEF Abs!File, Abs!Next
<1>4. CASE ExecDequeue
  <2>1. /\ Head(queue) \in Ops /\ Tail(queue) \in Seq(Ops) /\ queue # <<>>
        /\ local_node' = Head(queue) /\ queue' = Tail(queue)
        /\ exec_pc = "dequeue" /\ exec_pc' = "keep" /\ running' = running
    BY <1>0, <1>4, HeadTailProperties DEF ExecDequeue, TypeOK
  <2>2. running = NoOp
    BY <1>0, <2>1 DEF OneToken, One, TypeOK
  <2>3. Pending = queue /\ Running = NoOp
    BY <1>0, <2>1, <2>2 DEF Pending, Running, HandsFull
  <2>4. Running' = Head(queue)
    BY <1>0, <2>1 DEF Running
  <2>5. IF Abs!IsPermanent(Head(queue))
        THEN Abs!Filed(Tail(queue), Head(queue), Pending')
        ELSE Pending' = Tail(queue)
    BY <2>1, PermanentFiledLast
    DEF Pending, IsPermanent, PRIORITY_PERMANENT, Abs!IsPermanent,
        Abs!PRIORITY_PERMANENT
  <2>6. Accepted' = Accepted
    BY <1>4, AcceptedKept DEF ExecDequeue
  <2> QED
    BY <2>1, <2>3, <2>4, <2>5, <2>6 DEF Abs!Start, Abs!Next
<1>5. CASE PhyDone
  <2>1. local_node = NoOp
    BY <1>0, <1>5 DEF PhyDone, OneToken, One, HandsFull, TypeOK
  <2>2. Running # NoOp /\ Running' = NoOp /\ Pending' = Pending
    BY <1>5, <2>1 DEF PhyDone, Running, Pending
  <2>3. Accepted' = Accepted
    BY <1>5, AcceptedKept DEF PhyDone
  <2> QED
    BY <2>2, <2>3 DEF Abs!Finish, Abs!Next
<1>6. CASE ExecTakePhy \/ ExecTakeItem \/ ExecLock \/ ExecUnlock
  <2>1. Pending' = Pending /\ Running' = Running
    BY <1>0, <1>6 DEF ExecTakePhy, ExecTakeItem, ExecLock, ExecUnlock, Pending,
                      Running
  <2>2. Accepted' = Accepted
    BY <1>6, AcceptedKept DEF ExecTakePhy, ExecTakeItem, ExecLock, ExecUnlock
  <2> QED
    BY <2>1, <2>2 DEF Abs!qvars
<1>7. CASE ExecKeepPermanent \/ ExecFreeNode
  <2>1. Pending' = Pending /\ Running' = Running
    BY <1>0, <1>7 DEF ExecKeepPermanent, ExecFreeNode, Pending, Running
  <2>2. Accepted' = Accepted
    BY <1>7, AcceptedKept DEF ExecKeepPermanent, ExecFreeNode
  <2> QED
    BY <2>1, <2>2 DEF Abs!qvars
<1>8. CASE ExecRun
  <2>1. Pending' = Pending /\ Running' = Running
    BY <1>0, <1>8 DEF ExecRun, HandsFull, Pending, Running
  <2>2. Accepted' = Accepted
    BY <1>8, AcceptedKept DEF ExecRun
  <2> QED
    BY <2>1, <2>2 DEF Abs!qvars
<1>9. CASE \/ \E c \in Clients, op \in Ops : PutAlloc(c, op)
           \/ PutGet \/ PutCopy \/ PutFree \/ PutLock \/ PutNodeAlloc
           \/ PutNodeAllocFails \/ PutUnlock \/ PutGive \/ UNCHANGED vars
  <2>1. Accepted' = Accepted
    BY <1>9, AcceptedKept DEF vars
  <2>2. UNCHANGED <<queue, execVars>>
    BY <1>9 DEF PutAlloc, PutGet, PutCopy, PutFree, PutLock, PutNodeAlloc,
                PutNodeAllocFails, PutUnlock, PutGive, vars
  <2> QED
    BY <1>1, <2>1, <2>2 DEF Abs!qvars
<1> QED
  BY <1>2, <1>3, <1>4, <1>5, <1>6, <1>7, <1>8, <1>9
  DEF Next, Client, PutRefused, PutThread, ExecThread

\* No operation is lost, doubled or overtaken by one of its own priority, and
\* one is with the PHY at a time.
THEOREM ThreadsRefineOpQueue == Spec => ImplementsOpQueue
<1>1. Init => Abs!Init
  <2> SUFFICES ASSUME Init PROVE Abs!Init
    OBVIOUS
  <2>1. Sending = <<>> /\ InHand = <<>>
    BY EmptySeq DEF Init, Sending, InHand
  <2>2. Accepted = <<>> \o Sending
    BY <2>1 DEF Accepted, Sending
  <2>3. Accepted = <<>>
    BY <2>1, <2>2, EmptySeq, ConcatEmptySeq
  <2> QED
    BY <2>3 DEF Init, Pending, Running, Abs!Init
<1>2. IInv /\ [Next]_vars => [Abs!Next]_(Abs!qvars)
  BY QueueStep
<1> QED
  BY InductiveInvariant, <1>1, <1>2, PTL DEF Spec, ImplementsOpQueue, Abs!Spec
=============================================================================
