------------------------------ MODULE OpQueue ------------------------------
(***************************************************************************)
(* What the PHY handler queue promises to the code that calls              *)
(* dect_phy_queue_put, without threads, semaphores, slabs or a mutex.      *)
(*                                                                         *)
(* An accepted operation first waits, in order of arrival, to be filed     *)
(* among the pending ones.  The pending operations are kept by priority,   *)
(* first come first served inside one priority.  One operation runs at a   *)
(* time; a permanent one is filed again as soon as it is picked.           *)
(*                                                                         *)
(* PhyQueue is the detailed specification that implements this one.        *)
(***************************************************************************)
EXTENDS Naturals, Sequences, SequencesExt

CONSTANTS
    Ops,        \* the operations users put
    NoOp,       \* no operation, not one of Ops
    Priority    \* [Ops -> Nat]

PRIORITY_PERMANENT == 0

IsPermanent(op) == Priority[op] = PRIORITY_PERMANENT

VARIABLES
    accepted,   \* operations put and not yet filed, oldest first
    pending,    \* operations filed, the next one to run first
    running     \* the operation the PHY works on, or NoOp

qvars == <<accepted, pending, running>>

(***************************************************************************)
(* t is s with op filed behind every operation of at least its priority    *)
(* and ahead of every other one.                                           *)
(***************************************************************************)
Filed(s, op, t) ==
    \E i \in 1 .. Len(s) + 1 :
        /\ \A j \in 1 .. Len(s) : (j < i) <=> (Priority[s[j]] >= Priority[op])
        /\ t = InsertAt(s, i, op)

-----------------------------------------------------------------------------
Init ==
    /\ accepted = <<>>
    /\ pending = <<>>
    /\ running = NoOp

Accept(op) ==
    /\ accepted' = Append(accepted, op)
    /\ UNCHANGED <<pending, running>>

File ==
    /\ accepted # <<>>
    /\ accepted' = Tail(accepted)
    /\ Filed(pending, Head(accepted), pending')
    /\ UNCHANGED running

Start ==
    /\ running = NoOp
    /\ pending # <<>>
    /\ running' = Head(pending)
    /\ IF IsPermanent(Head(pending))
       THEN Filed(Tail(pending), Head(pending), pending')
       ELSE pending' = Tail(pending)
    /\ UNCHANGED accepted

Finish ==
    /\ running # NoOp
    /\ running' = NoOp
    /\ UNCHANGED <<accepted, pending>>

Next ==
    \/ \E op \in Ops : Accept(op)
    \/ File
    \/ Start
    \/ Finish

Spec == Init /\ [][Next]_qvars
=============================================================================
