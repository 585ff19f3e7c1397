------------------------------ MODULE PhyQueue ------------------------------
(***************************************************************************)
(* The PHY handler queue (dect_mac_phy_handler_queue.c).                   *)
(*                                                                         *)
(* Clients (threads, and callbacks in interrupt context) call              *)
(* dect_phy_queue_put: they take a block of the item slab, fill it and     *)
(* send its address through a message queue.  The put thread copies and    *)
(* frees the block and inserts a node, by priority, in a linked list       *)
(* protected by queue_mutex, then gives queue_item_sem.  The exec thread   *)
(* waits for phy_layer_sem and queue_item_sem, takes the first node, puts  *)
(* it back at the end if it is permanent, and starts the operation, whose  *)
(* completion callback gives phy_layer_sem.                                *)
(*                                                                         *)
(* What starting an operation does, and its callbacks, are the business    *)
(* of module PhyHandler: here an operation that runs completes.            *)
(***************************************************************************)
EXTENDS Naturals, Sequences, FiniteSets, SequencesExt

CONSTANTS
    Clients,    \* the contexts that call dect_phy_queue_put
    Ops,        \* the operations they put
    NoOp,       \* no operation
    Priority,   \* [Ops -> Nat], the priority each operation is put with
    Blocks,     \* the blocks of the item slab
    NoBlock,    \* no block
    MaxLoad     \* bound: how many operations may be on their way at once

\* DECT_MAC_PHY_HANDLER_QUEUE_MAX_ITEMS sizes both slabs, the message queue,
\* the limit of queue_item_sem and the length of the list.
MaxItems == Cardinality(Blocks)

ASSUME QueueAssumption ==
    /\ IsFiniteSet(Blocks) /\ Blocks # {} /\ NoBlock \notin Blocks
    /\ NoOp \notin Ops
    /\ Priority \in [Ops -> Nat]
    /\ MaxLoad \in Nat

PRIORITY_PERMANENT == 0

IsPermanent(op) == Priority[op] = PRIORITY_PERMANENT

VARIABLES
    \* the way in: dect_phy_queue_put
    item_slab,      \* what each block of the item slab holds
    item_used,      \* the blocks allocated
    held,           \* the block each client has filled and not yet sent
    msgq,           \* dect_mac_phy_handler_queue_msgq
    \* the put thread
    put_pc, put_item, put_op,
    \* the list
    queue_mutex,    \* who holds it
    node_used,      \* how many nodes of the node slab are allocated
    queue,          \* dect_mac_phy_handler_queue
    queue_item_sem,
    \* the exec thread
    exec_pc, local_node,
    phy_layer_sem,
    running         \* the operation the PHY works on

clientVars == <<item_slab, item_used, held, msgq>>
putVars    == <<put_pc, put_item, put_op>>
listVars   == <<queue_mutex, node_used, queue, queue_item_sem>>
execVars   == <<exec_pc, local_node, phy_layer_sem, running>>
vars       == <<clientVars, putVars, listVars, execVars>>

PutPcs  == {"get", "copy", "free", "lock", "alloc", "insert", "unlock", "give",
            "ended"}
ExecPcs == {"phy", "item", "lock", "dequeue", "keep", "unlock", "run"}

TypeOK ==
    /\ item_slab \in [Blocks -> Ops \cup {NoOp}]
    /\ item_used \subseteq Blocks
    /\ held \in [Clients -> Blocks \cup {NoBlock}]
    /\ msgq \in Seq(Blocks)
    /\ put_pc \in PutPcs
    /\ put_item \in Blocks \cup {NoBlock}
    /\ put_op \in Ops \cup {NoOp}
    /\ queue_mutex \in {"free", "put", "exec"}
    /\ node_used \in 0 .. MaxItems
    /\ queue \in Seq(Ops)
    /\ queue_item_sem \in 0 .. MaxItems
    /\ exec_pc \in ExecPcs
    /\ local_node \in Ops \cup {NoOp}
    /\ phy_layer_sem \in 0 .. 1
    /\ running \in Ops \cup {NoOp}

Init ==
    /\ item_slab = [b \in Blocks |-> NoOp]
    /\ item_used = {}
    /\ held = [c \in Clients |-> NoBlock]
    /\ msgq = <<>>
    /\ put_pc = "get" /\ put_item = NoBlock /\ put_op = NoOp
    /\ queue_mutex = "free"
    /\ node_used = 0
    /\ queue = <<>>
    /\ queue_item_sem = 0
    /\ exec_pc = "phy" /\ local_node = NoOp
    /\ phy_layer_sem = 1
    /\ running = NoOp

-----------------------------------------------------------------------------
(***************************************************************************)
(* dect_phy_queue_put.  Nothing in the code limits how many operations are *)
(* on their way: MaxLoad is a bound on the environment.                    *)
(***************************************************************************)

One(b) == IF b THEN 1 ELSE 0

\* Operations on their way: in a block until the put thread frees it, then in
\* its hands, in the list, and with the exec thread until it is kept or freed.
Load ==
    Cardinality(item_used) + One(put_pc \in {"lock", "alloc", "insert"})
        + Len(queue) + One(exec_pc = "keep")

PutAlloc(c, op) ==
    /\ held[c] = NoBlock
    /\ Load < MaxLoad
    /\ \E b \in Blocks \ item_used :
          /\ item_used' = item_used \cup {b}
          /\ item_slab' = [item_slab EXCEPT ![b] = op]
          /\ held' = [held EXCEPT ![c] = b]
    /\ UNCHANGED <<msgq, putVars, listVars, execVars>>

\* k_mem_slab_alloc fails: NO_MEM_SLAB, the caller's operation is refused.
PutRefused(c) ==
    /\ held[c] = NoBlock
    /\ item_used = Blocks
    /\ UNCHANGED vars

\* A bug to catch: the sender frees the block once its address is sent.
SubmitAndFree(c) ==
    /\ held[c] # NoBlock
    /\ Len(msgq) < MaxItems
    /\ msgq' = Append(msgq, held[c])
    /\ held' = [held EXCEPT ![c] = NoBlock]
    /\ item_used' = item_used \ {held[c]}
    /\ UNCHANGED <<item_slab, putVars, listVars, execVars>>

\* k_msgq_put(K_FOREVER) blocks while the message queue is full.
PutSubmit(c) ==
    /\ held[c] # NoBlock
    /\ Len(msgq) < MaxItems
    /\ msgq' = Append(msgq, held[c])
    /\ held' = [held EXCEPT ![c] = NoBlock]
    /\ UNCHANGED <<item_slab, item_used, putVars, listVars, execVars>>

Client(c) == (\E op \in Ops : PutAlloc(c, op)) \/ PutRefused(c) \/ PutSubmit(c)

-----------------------------------------------------------------------------
(***************************************************************************)
(* dect_mac_phy_handler_queue_put_thread                                   *)
(***************************************************************************)

PutTo(from, to) == put_pc = from /\ put_pc' = to

\* A bug to catch: the block is freed before it is copied.
GetAndFree ==
    /\ PutTo("get", "copy")
    /\ msgq # <<>>
    /\ put_item' = Head(msgq)
    /\ item_used' = item_used \ {Head(msgq)}
    /\ msgq' = Tail(msgq)
    /\ UNCHANGED <<item_slab, held, put_op, listVars, execVars>>

PutGet ==
    /\ PutTo("get", "copy")
    /\ msgq # <<>>
    /\ put_item' = Head(msgq)
    /\ msgq' = Tail(msgq)
    /\ UNCHANGED <<item_slab, item_used, held, put_op, listVars, execVars>>

PutCopy ==
    /\ PutTo("copy", "free")
    /\ put_op' = item_slab[put_item]
    /\ UNCHANGED <<clientVars, put_item, listVars, execVars>>

PutFree ==
    /\ PutTo("free", "lock")
    /\ item_used' = item_used \ {put_item}
    /\ put_item' = NoBlock
    /\ UNCHANGED <<item_slab, held, msgq, put_op, listVars, execVars>>

PutLock ==
    /\ PutTo("lock", "alloc")
    /\ queue_mutex = "free"
    /\ queue_mutex' = "put"
    /\ UNCHANGED <<clientVars, put_item, put_op, node_used, queue,
                   queue_item_sem, execVars>>

PutNodeAlloc ==
    /\ PutTo("alloc", "insert")
    /\ node_used < MaxItems
    /\ node_used' = node_used + 1
    /\ UNCHANGED <<clientVars, put_item, put_op, queue_mutex, queue,
                   queue_item_sem, execVars>>

\* The node slab is exhausted: the thread returns, queue_mutex still locked.
PutNodeAllocFails ==
    /\ PutTo("alloc", "ended")
    /\ node_used = MaxItems
    /\ UNCHANGED <<clientVars, put_item, put_op, listVars, execVars>>

\* Bugs to catch: the walk stops at a node of the same priority, or at one of
\* higher priority.
StopsAtEquals(s, op, i) ==
    /\ \A j \in 1 .. i - 1 : Priority[s[j]] > Priority[op]
    /\ i <= Len(s) => Priority[s[i]] <= Priority[op]

StopsAtHigher(s, op, i) ==
    /\ \A j \in 1 .. i - 1 : Priority[s[j]] <= Priority[op]
    /\ i <= Len(s) => Priority[s[i]] > Priority[op]

\* The walk over the list stops at the first node of lower priority, or at the
\* end.
StopsAt(s, op, i) ==
    /\ \A j \in 1 .. i - 1 : Priority[s[j]] >= Priority[op]
    /\ i <= Len(s) => Priority[s[i]] < Priority[op]

\* If the list is already full the thread returns, the node lost but the
\* mutex unlocked.
PutInsert ==
    /\ put_pc = "insert"
    /\ IF Len(queue) >= MaxItems
       THEN /\ put_pc' = "ended"
            /\ queue_mutex' = "free"
            /\ UNCHANGED <<queue, put_op>>
       ELSE /\ put_pc' = "unlock"
            /\ \E i \in 1 .. Len(queue) + 1 :
                  StopsAt(queue, put_op, i) /\ queue' = InsertAt(queue, i, put_op)
            /\ put_op' = NoOp
            /\ UNCHANGED queue_mutex
    /\ UNCHANGED <<clientVars, put_item, node_used, queue_item_sem, execVars>>

PutUnlock ==
    /\ PutTo("unlock", "give")
    /\ queue_mutex' = "free"
    /\ UNCHANGED <<clientVars, put_item, put_op, node_used, queue,
                   queue_item_sem, execVars>>

\* A bug to catch: queue_item_sem is binary.
BinarySemGive == queue_item_sem' = 1

\* k_sem_give: a give at the limit of the semaphore is lost.
ItemSemGive ==
    queue_item_sem' = IF queue_item_sem < MaxItems THEN queue_item_sem + 1
                                                   ELSE queue_item_sem

PutGive ==
    /\ PutTo("give", "get")
    /\ ItemSemGive
    /\ UNCHANGED <<clientVars, put_item, put_op, queue_mutex, node_used, queue,
                   execVars>>

PutThread ==
    \/ PutGet \/ PutCopy \/ PutFree \/ PutLock
    \/ PutNodeAlloc \/ PutNodeAllocFails \/ PutInsert
    \/ PutUnlock \/ PutGive

-----------------------------------------------------------------------------
(***************************************************************************)
(* dect_mac_phy_handler_queue_exec_thread                                  *)
(***************************************************************************)

ExecTo(from, to) == exec_pc = from /\ exec_pc' = to

ExecTakePhy ==
    /\ ExecTo("phy", "item")
    /\ phy_layer_sem = 1
    /\ phy_layer_sem' = 0
    /\ UNCHANGED <<clientVars, putVars, listVars, local_node, running>>

ExecTakeItem ==
    /\ ExecTo("item", "lock")
    /\ queue_item_sem > 0
    /\ queue_item_sem' = queue_item_sem - 1
    /\ UNCHANGED <<clientVars, putVars, queue_mutex, node_used, queue,
                   local_node, phy_layer_sem, running>>

ExecLock ==
    /\ ExecTo("lock", "dequeue")
    /\ queue_mutex = "free"
    /\ queue_mutex' = "exec"
    /\ UNCHANGED <<clientVars, putVars, node_used, queue, queue_item_sem,
                   local_node, phy_layer_sem, running>>

\* sys_slist_get.  On an empty list it returns NULL, which the code goes on to
\* dereference; that has no meaning here, and DequeueFindsNode excludes it.
ExecDequeue ==
    /\ ExecTo("dequeue", "keep")
    /\ queue # <<>>
    /\ local_node' = Head(queue)
    /\ queue' = Tail(queue)
    /\ UNCHANGED <<clientVars, putVars, queue_mutex, node_used, queue_item_sem,
                   phy_layer_sem, running>>

\* Bugs to catch: the node goes back without a give, or goes back and is freed
\* as well.
KeepSilently ==
    /\ ExecTo("keep", "unlock")
    /\ IsPermanent(local_node)
    /\ queue' = Append(queue, local_node)
    /\ UNCHANGED <<clientVars, putVars, queue_mutex, node_used, queue_item_sem,
                   local_node, phy_layer_sem, running>>

KeepAndFree ==
    /\ ExecTo("keep", "unlock")
    /\ IsPermanent(local_node)
    /\ queue' = Append(queue, local_node)
    /\ ItemSemGive
    /\ node_used' = node_used - 1
    /\ UNCHANGED <<clientVars, putVars, queue_mutex, local_node,
                   phy_layer_sem, running>>

ExecKeepPermanent ==
    /\ ExecTo("keep", "unlock")
    /\ IsPermanent(local_node)
    /\ queue' = Append(queue, local_node)
    /\ ItemSemGive
    /\ UNCHANGED <<clientVars, putVars, queue_mutex, node_used, local_node,
                   phy_layer_sem, running>>

\* Bugs to catch: a give for every node taken, a node never freed.
FreeAndGive ==
    /\ ExecTo("keep", "unlock")
    /\ ~IsPermanent(local_node)
    /\ node_used' = node_used - 1
    /\ ItemSemGive
    /\ UNCHANGED <<clientVars, putVars, queue_mutex, queue, local_node,
                   phy_layer_sem, running>>

ForgetNode ==
    /\ ExecTo("keep", "unlock")
    /\ ~IsPermanent(local_node)
    /\ UNCHANGED <<clientVars, putVars, listVars, local_node, phy_layer_sem,
                   running>>

ExecFreeNode ==
    /\ ExecTo("keep", "unlock")
    /\ ~IsPermanent(local_node)
    /\ node_used' = node_used - 1
    /\ UNCHANGED <<clientVars, putVars, queue_mutex, queue, queue_item_sem,
                   local_node, phy_layer_sem, running>>

ExecUnlock ==
    /\ ExecTo("unlock", "run")
    /\ queue_mutex' = "free"
    /\ UNCHANGED <<clientVars, putVars, node_used, queue, queue_item_sem,
                   local_node, phy_layer_sem, running>>

ExecRun ==
    /\ ExecTo("run", "phy")
    /\ running' = local_node
    /\ local_node' = NoOp
    /\ UNCHANGED <<clientVars, putVars, listVars, phy_layer_sem>>

ExecThread ==
    \/ ExecTakePhy \/ ExecTakeItem \/ ExecLock \/ ExecDequeue
    \/ ExecKeepPermanent \/ ExecFreeNode \/ ExecUnlock \/ ExecRun

-----------------------------------------------------------------------------
\* The completion callback of the operation gives phy_layer_sem.
PhyDone ==
    /\ running # NoOp
    /\ running' = NoOp
    /\ phy_layer_sem' = 1
    /\ UNCHANGED <<clientVars, putVars, listVars, exec_pc, local_node>>

Next ==
    \/ \E c \in Clients : Client(c)
    \/ PutThread
    \/ ExecThread
    \/ PhyDone

Spec == Init /\ [][Next]_vars

-----------------------------------------------------------------------------
(***************************************************************************)
(* Fairness.  The threads are scheduled and the modem completes what it    *)
(* was given.  k_mutex_unlock hands a contended mutex to the thread that   *)
(* waits for it, so a thread that keeps waiting for queue_mutex gets it:   *)
(* strong fairness of the two lock actions.                                *)
(***************************************************************************)
Fairness ==
    /\ \A c \in Clients : WF_vars(PutSubmit(c))
    /\ WF_vars(PutThread) /\ SF_vars(PutLock)
    /\ WF_vars(ExecThread) /\ SF_vars(ExecLock)
    /\ WF_vars(PhyDone)

FairSpec == Spec /\ Fairness

-----------------------------------------------------------------------------
(***************************************************************************)
(* Safety                                                                  *)
(***************************************************************************)

\* queue_item_sem counts the nodes of the list that the exec thread has not
\* been promised yet: one was inserted and not announced between PutInsert and
\* PutGive, one was promised between ExecTakeItem and ExecDequeue.
ItemSemCountsList ==
    Len(queue) = queue_item_sem + One(put_pc \in {"unlock", "give"})
                                + One(exec_pc \in {"lock", "dequeue"})

\* sys_slist_get never returns the NULL that the exec thread would dereference.
DequeueFindsNode == exec_pc = "dequeue" => queue # <<>>

\* Every node of the slab is in the list or in the hands of one of the two
\* threads: none is lost, none is in two places.
NodesAccounted ==
    node_used = Len(queue) + One(put_pc = "insert") + One(exec_pc = "keep")

\* The put thread never gets a node for a list that is full: the branch that
\* would lose the node is dead.
ListHasRoom == put_pc = "insert" => Len(queue) < MaxItems

\* A client that holds a block finds room in the message queue, so the
\* K_FOREVER of dect_phy_queue_put never blocks: it is legal in a callback.
PutNeverBlocks == \A c \in Clients : held[c] # NoBlock => Len(msgq) < MaxItems

\* A block is not given to a second client before the put thread is done with
\* it: the clients, the message queue and the put thread own distinct blocks,
\* and a block that none of them owns is free again.
Sent(b) == \E i \in 1 .. Len(msgq) : msgq[i] = b

BlocksOwnedOnce ==
    /\ \A c, d \in Clients : held[c] = held[d] /\ held[c] # NoBlock => c = d
    /\ \A i, j \in 1 .. Len(msgq) : msgq[i] = msgq[j] => i = j
    /\ \A c \in Clients : ~Sent(held[c])
    /\ ~Sent(put_item)
    /\ \A c \in Clients : held[c] = put_item => put_item = NoBlock
    /\ \A b \in Blocks :
          b \in item_used <=>
             (\E c \in Clients : held[c] = b) \/ Sent(b) \/ b = put_item

\* The threads hold what their place in the code says, and every allocated
\* block was filled.
HandsFull ==
    /\ \A b \in item_used : item_slab[b] # NoOp
    /\ put_item # NoBlock <=> put_pc \in {"copy", "free"}
    /\ put_op # NoOp <=> put_pc \in {"free", "lock", "alloc", "insert", "ended"}
    /\ local_node # NoOp <=> exec_pc \in {"keep", "unlock", "run"}

\* The list is walked and changed by the owner of queue_mutex only, and the two
\* threads are never both inside.
ListOwned ==
    /\ queue_mutex = "put" <=> put_pc \in {"alloc", "insert", "unlock", "ended"}
    /\ queue_mutex = "exec" <=> exec_pc \in {"dequeue", "keep", "unlock"}

\* The one token of phy_layer_sem is the PHY's: it is in the semaphore, with
\* the exec thread or with the operation that runs, so that at most one
\* operation runs and none is started before it completed.
OneToken ==
    phy_layer_sem + One(exec_pc # "phy") + One(running # NoOp) = 1

\* The list is kept by decreasing priority, so a permanent operation runs only
\* when nothing else waits.
Sorted(s) ==
    \A i, j \in 1 .. Len(s) : i < j => Priority[s[i]] >= Priority[s[j]]

QueueSorted == Sorted(queue)

\* What is inductive: the invariants above that the others follow from.
IInv ==
    /\ TypeOK /\ HandsFull /\ BlocksOwnedOnce /\ NodesAccounted
    /\ ItemSemCountsList /\ ListOwned /\ OneToken /\ QueueSorted

\* As long as there are never more operations on their way than the slabs hold
\* the put thread never runs out of nodes.
PutThreadSurvives == MaxLoad <= MaxItems => put_pc # "ended"

-----------------------------------------------------------------------------
(***************************************************************************)
(* The operations as OpQueue sees them                                     *)
(***************************************************************************)

\* The operation the put thread has taken from the message queue.
InHand ==
    CASE put_pc = "copy" -> <<item_slab[put_item]>>
      [] put_pc \in {"free", "lock", "alloc", "insert", "ended"} -> <<put_op>>
      [] OTHER -> <<>>

Accepted == InHand \o [i \in 1 .. Len(msgq) |-> item_slab[msgq[i]]]

\* A permanent operation is pending again as soon as it is picked.
Pending ==
    IF exec_pc = "keep" /\ IsPermanent(local_node)
    THEN Append(queue, local_node) ELSE queue

Running == IF local_node # NoOp THEN local_node ELSE running

Abs == INSTANCE OpQueue WITH
    accepted <- Accepted, pending <- Pending, running <- Running

\* The threads, slabs and semaphores implement the queue OpQueue describes:
\* no operation is lost, doubled or overtaken by one of its own priority.
ImplementsOpQueue == Abs!Spec

-----------------------------------------------------------------------------
(***************************************************************************)
(* Liveness                                                                *)
(***************************************************************************)
Quiet == item_used = {} /\ put_pc = "get"

Waiting(op) == \E i \in 1 .. Len(Accepted \o queue) : (Accepted \o queue)[i] = op

Urgent == {op \in Ops : \A p \in Ops : Priority[op] >= Priority[p]}

\* An operation of the highest priority that was accepted runs, however many
\* are put after it.
UrgentOpsRun == \A op \in Urgent : Waiting(op) ~> running = op

\* Once nothing more is put, every operation gets its turn, the permanent ones
\* included.
EveryOpRuns == <>[]Quiet => \A op \in Ops : Waiting(op) ~> running = op

\* A permanent operation reschedules itself indefinitely.
PermanentOpsRecur ==
    <>[][\A c \in Clients, op \in Ops : ~PutAlloc(c, op)]_vars =>
        \A op \in Ops : IsPermanent(op) /\ Waiting(op) ~> running = op
=============================================================================
