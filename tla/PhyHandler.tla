----------------------------- MODULE PhyHandler -----------------------------
(***************************************************************************)
(* The way to the PHY: the exec thread and function_execute                *)
(* (dect_mac_phy_handler_queue.c), the handler functions that start an     *)
(* operation (dect_mac_phy_handler.c) and the callbacks that end it        *)
(* (dect_mac_phy_handler_cb.c).                                            *)
(*                                                                         *)
(* phy_layer_sem lets one operation at a time through: the exec thread     *)
(* takes it, the callback of the operation gives it back.  An operation    *)
(* that came too late for its start time is started again by a timer.  A   *)
(* TX_RX completes twice and keeps the PHY the first time.  The reply to a *)
(* HARQ request is sent past the queue, and a PLACEHOLDER that starts      *)
(* nothing is put in the queue for it.                                     *)
(*                                                                         *)
(* The list itself is that of OpQueue, which PhyQueue implements.  The     *)
(* modem is external: modem holds what it was given and not yet reported   *)
(* as complete.                                                            *)
(***************************************************************************)
EXTENDS Naturals, Sequences, FiniteSets, SequencesExt

CONSTANTS
    Ops,            \* the operations
    NoOp,           \* no operation
    Fn,             \* [Ops -> Functions], the function of each
    Priority,       \* [Ops -> Nat]
    Users,          \* the operations users put: not the next two
    reply,          \* the TX_HARQ that dect_mac_harq_request sends
    placeholder,    \* the PLACEHOLDER it puts
    Outcomes,       \* how the modem may answer, a subset of {"ok", "late",
                    \* "failed", "refused"}
    Requests,       \* whether other nodes send HARQ requests
    Prompt,         \* whether the threads are done before the modem's next event
    MaxRetry,       \* DECT_MAC_PHY_HANDLER_QUEUE_MAX_RETRY
    MaxLoad,        \* bound: operations put and not yet picked
    MaxModem        \* bound: operations in the modem

\* enum dect_mac_phy_function.  CAPABILITY_GET stands for INIT, DEINIT and
\* TIME_GET too, whose handlers and callbacks do the same.
Functions == {"PLACEHOLDER", "CAPABILITY_GET", "RX", "TX", "TX_HARQ", "TX_RX",
              "RSSI", "RX_STOP", "LINK_CONFIG"}

ASSUME HandlerAssumption ==
    /\ NoOp \notin Ops
    /\ Fn \in [Ops -> Functions]
    /\ Priority \in [Ops -> Nat]
    /\ Users \subseteq Ops \ {reply, placeholder}
    /\ {reply, placeholder} \subseteq Ops
    /\ Fn[reply] = "TX_HARQ" /\ Fn[placeholder] = "PLACEHOLDER"
    /\ {Requests, Prompt} \subseteq BOOLEAN
    /\ {MaxRetry, MaxLoad, MaxModem} \subseteq Nat

VARIABLES
    accepted, pending,  \* the queue, see OpQueue
    exec_pc,            \* where the exec thread is
    local_node,         \* what it picked
    phy_layer_sem,
    current_state,
    current_node,       \* the operation that would be tried again
    failed_counter,     \* ..._operation_failed_counter
    failed_timer,       \* whether ..._operation_failed_timer runs
    modem               \* the operations the modem works on

vars == <<accepted, pending, exec_pc, local_node, phy_layer_sem, current_state,
          current_node, failed_counter, failed_timer, modem>>

queueVars == <<accepted, pending>>
execVars  == <<exec_pc, local_node>>
retryVars == <<current_node, failed_counter, failed_timer>>

\* An operation in the modem: the half of a TX_RX it is in, and whether it has
\* received a frame or, for RSSI, reported a measurement.
Halves == {"whole", "tx", "rx"}
Activity == [op : Ops, half : Halves, heard : BOOLEAN]

States == {"IDLING", "GETTING_CAPABILITY", "TRANSMITTING", "RECEIVING",
           "MEASURING_RSSI", "STOPPING_RECEPTION", "UNKNOWN"}

TypeOK ==
    /\ accepted \in Seq(Ops) /\ pending \in Seq(Ops)
    /\ exec_pc \in {"phy", "item", "reset", "save", "execute"}
    /\ local_node \in Ops \cup {NoOp}
    /\ phy_layer_sem \in 0 .. 1
    /\ current_state \in States
    /\ current_node \in Ops \cup {NoOp}
    /\ failed_counter \in Nat
    /\ failed_timer \in BOOLEAN
    /\ modem \in Seq(Activity)

Init ==
    /\ accepted = <<>> /\ pending = <<>>
    /\ exec_pc = "phy" /\ local_node = NoOp
    /\ phy_layer_sem = 1
    /\ current_state = "IDLING"
    /\ current_node = NoOp /\ failed_counter = 0 /\ failed_timer = FALSE
    /\ modem = <<>>

-----------------------------------------------------------------------------
(***************************************************************************)
(* The queue                                                               *)
(***************************************************************************)

\* The operation that has the PHY: picked and being started, or started and
\* not followed by a give of phy_layer_sem.
Running ==
    CASE local_node # NoOp                     -> local_node
      [] exec_pc = "phy" /\ phy_layer_sem = 0  -> current_node
      [] OTHER                                 -> NoOp

Queue == INSTANCE OpQueue WITH running <- Running

IsPermanent(op) == Queue!IsPermanent(op)

\* A user puts an operation; main puts the permanent one once.
Put(op) ==
    /\ Len(accepted) + Len(pending) < MaxLoad
    /\ IsPermanent(op) => op \notin Range(accepted \o pending)
    /\ accepted' = Append(accepted, op)
    /\ UNCHANGED <<pending, execVars, phy_layer_sem, current_state, retryVars,
                   modem>>

\* A bug to catch: operations are served in the order they come.
FileLast ==
    /\ accepted # <<>>
    /\ accepted' = Tail(accepted)
    /\ pending' = Append(pending, Head(accepted))
    /\ UNCHANGED <<execVars, phy_layer_sem, current_state, retryVars, modem>>

\* The put thread.
File ==
    /\ accepted # <<>>
    /\ accepted' = Tail(accepted)
    /\ Queue!Filed(pending, Head(accepted), pending')
    /\ UNCHANGED <<execVars, phy_layer_sem, current_state, retryVars, modem>>

-----------------------------------------------------------------------------
(***************************************************************************)
(* dect_mac_phy_handler_queue_function_execute and the handler functions   *)
(***************************************************************************)

\* The state a handler function sets; the others leave current_state alone.
StateOf(fn) ==
    CASE fn = "CAPABILITY_GET"  -> "GETTING_CAPABILITY"
      [] fn \in {"TX", "TX_RX"} -> "TRANSMITTING"
      [] fn = "RX"              -> "RECEIVING"
      [] fn = "RSSI"            -> "MEASURING_RSSI"
      [] fn = "RX_STOP"         -> "STOPPING_RECEPTION"
      [] fn = "PLACEHOLDER"     -> "UNKNOWN"
      [] OTHER                  -> current_state

Started(op) ==
    [op    |-> op,
     half  |-> IF Fn[op] = "TX_RX" THEN "tx" ELSE "whole",
     heard |-> FALSE]

\* A PLACEHOLDER starts nothing, LINK_CONFIG is not implemented, and when the
\* modem refuses an operation the handler logs it and returns.
FunctionExecute(op) ==
    /\ Len(modem) < MaxModem
    /\ current_state' = StateOf(Fn[op])
    /\ \/ /\ Fn[op] \notin {"PLACEHOLDER", "LINK_CONFIG"}
          /\ modem' = Append(modem, Started(op))
       \/ /\ Fn[op] \in {"PLACEHOLDER", "LINK_CONFIG"} \/ "refused" \in Outcomes
          /\ modem' = modem

-----------------------------------------------------------------------------
(***************************************************************************)
(* dect_mac_phy_handler_queue_exec_thread                                  *)
(***************************************************************************)
ExecTo(from, to) == exec_pc = from /\ exec_pc' = to

TakePhy ==
    /\ ExecTo("phy", "item")
    /\ phy_layer_sem = 1
    /\ phy_layer_sem' = 0
    /\ current_state' = "IDLING"
    /\ UNCHANGED <<queueVars, local_node, retryVars, modem>>

\* A bug to catch: a permanent operation is not put back.
PickForGood ==
    /\ ExecTo("item", "reset")
    /\ pending # <<>>
    /\ local_node' = Head(pending)
    /\ pending' = Tail(pending)
    /\ UNCHANGED <<accepted, phy_layer_sem, current_state, retryVars, modem>>

Pick ==
    /\ ExecTo("item", "reset")
    /\ pending # <<>>
    /\ local_node' = Head(pending)
    /\ pending' = IF IsPermanent(Head(pending))
                  THEN Append(Tail(pending), Head(pending)) ELSE Tail(pending)
    /\ UNCHANGED <<accepted, phy_layer_sem, current_state, retryVars, modem>>

\* Bugs to catch: the counter is not reset, the operation is not saved.
SkipReset ==
    /\ ExecTo("reset", "save")
    /\ UNCHANGED <<queueVars, local_node, phy_layer_sem, current_state,
                   retryVars, modem>>

SkipSave ==
    /\ ExecTo("save", "execute")
    /\ UNCHANGED <<queueVars, local_node, phy_layer_sem, current_state,
                   retryVars, modem>>

ResetCounter ==
    /\ ExecTo("reset", "save")
    /\ failed_counter' = 0
    /\ UNCHANGED <<queueVars, local_node, phy_layer_sem, current_state,
                   current_node, failed_timer, modem>>

SaveNode ==
    /\ ExecTo("save", "execute")
    /\ current_node' = local_node
    /\ UNCHANGED <<queueVars, local_node, phy_layer_sem, current_state,
                   failed_counter, failed_timer, modem>>

Execute ==
    /\ ExecTo("execute", "phy")
    /\ FunctionExecute(local_node)
    /\ local_node' = NoOp
    /\ UNCHANGED <<queueVars, phy_layer_sem, retryVars>>

ExecThread == TakePhy \/ Pick \/ ResetCounter \/ SaveNode \/ Execute

\* The threads wait: nothing to file, and no PHY or no operation to pick.
ThreadsIdle ==
    /\ accepted = <<>>
    /\ \/ exec_pc = "phy" /\ phy_layer_sem = 0
       \/ exec_pc = "item" /\ pending = <<>>

Event == Prompt => ThreadsIdle

-----------------------------------------------------------------------------
(***************************************************************************)
(* The callbacks.  Each runs in interrupt context: one step.               *)
(***************************************************************************)

\* k_sem_give(&phy_layer_sem), whose limit is 1.
PhySemGive == phy_layer_sem' = 1

\* Bit 27 of the handle: function_execute sets it for the operations that
\* transmit or receive, dect_mac_harq_request for its reply.

\* A bug to catch: the bit is not set for the reply.
FromQueueNoReply(op) == Fn[op] \in {"RX", "TX", "TX_RX"}

FromQueue(op) == Fn[op] \in {"RX", "TX", "TX_HARQ", "TX_RX"}

Completes(i) == Fn[modem[i].op] \in {"RX", "TX", "TX_HARQ", "TX_RX", "RSSI"}

\* Bugs to catch: the semaphore is given at the switch, the state is not changed.
SwitchAndGive(i) ==
    /\ Event
    /\ "ok" \in Outcomes
    /\ Fn[modem[i].op] = "TX_RX" /\ current_state = "TRANSMITTING"
    /\ current_state' = "RECEIVING"
    /\ PhySemGive
    /\ modem' = IF modem[i].half = "tx" THEN [modem EXCEPT ![i].half = "rx"]
                                        ELSE RemoveAt(modem, i)
    /\ UNCHANGED <<queueVars, execVars, retryVars>>

SwitchSilently(i) ==
    /\ Event
    /\ "ok" \in Outcomes
    /\ Fn[modem[i].op] = "TX_RX" /\ current_state = "TRANSMITTING"
    /\ modem' = IF modem[i].half = "tx" THEN [modem EXCEPT ![i].half = "rx"]
                                        ELSE RemoveAt(modem, i)
    /\ UNCHANGED <<queueVars, execVars, phy_layer_sem, current_state, retryVars>>

\* op_complete_cb without error, when the transmission of a TX_RX ends.
SwitchToRx(i) ==
    /\ Event
    /\ "ok" \in Outcomes
    /\ Fn[modem[i].op] = "TX_RX" /\ current_state = "TRANSMITTING"
    /\ current_state' = "RECEIVING"
    /\ modem' = IF modem[i].half = "tx" THEN [modem EXCEPT ![i].half = "rx"]
                                        ELSE RemoveAt(modem, i)
    /\ UNCHANGED <<queueVars, execVars, phy_layer_sem, retryVars>>

\* op_complete_cb without error otherwise.  The reception of a TX_RX goes on
\* when its transmission ends, whatever current_state is.
OpComplete(i) ==
    /\ Event
    /\ "ok" \in Outcomes
    /\ Completes(i)
    /\ Fn[modem[i].op] = "RSSI" => modem[i].heard
    /\ ~(Fn[modem[i].op] = "TX_RX" /\ current_state = "TRANSMITTING")
    /\ IF FromQueue(modem[i].op) THEN PhySemGive ELSE UNCHANGED phy_layer_sem
    /\ modem' = IF modem[i].half = "tx" THEN [modem EXCEPT ![i].half = "rx"]
                                        ELSE RemoveAt(modem, i)
    /\ UNCHANGED <<queueVars, execVars, current_state, retryVars>>

\* Bugs to catch: the semaphore is given for every failure, for none.
LateGives(i) ==
    /\ Event
    /\ "late" \in Outcomes
    /\ Completes(i) /\ modem[i].half # "rx" /\ ~modem[i].heard
    /\ failed_counter' = failed_counter + 1
    /\ PhySemGive
    /\ failed_timer' = (failed_counter' <= MaxRetry)
    /\ modem' = RemoveAt(modem, i)
    /\ UNCHANGED <<queueVars, execVars, current_state, current_node>>

LateGivesUp(i) ==
    /\ Event
    /\ "late" \in Outcomes
    /\ Completes(i) /\ modem[i].half # "rx" /\ ~modem[i].heard
    /\ failed_counter' = failed_counter + 1
    /\ failed_timer' = (failed_counter' <= MaxRetry)
    /\ modem' = RemoveAt(modem, i)
    /\ UNCHANGED <<queueVars, execVars, phy_layer_sem, current_state,
                   current_node>>

\* op_complete_cb with NRF_MODEM_DECT_PHY_ERR_INVALID_START_TIME: ..._retry.
\* The reception of a TX_RX then fails with COMBINED_OP_FAILED, which the
\* callback ignores.
Late(i) ==
    /\ Event
    /\ "late" \in Outcomes
    /\ Completes(i) /\ modem[i].half # "rx" /\ ~modem[i].heard
    /\ failed_counter' = failed_counter + 1
    /\ IF failed_counter' > MaxRetry
       THEN PhySemGive /\ UNCHANGED failed_timer
       ELSE failed_timer' = TRUE /\ UNCHANGED phy_layer_sem
    /\ modem' = RemoveAt(modem, i)
    /\ UNCHANGED <<queueVars, execVars, current_state, current_node>>

\* Any other error is logged.
Failed(i) ==
    /\ Event
    /\ "failed" \in Outcomes
    /\ modem' = RemoveAt(modem, i)
    /\ UNCHANGED <<queueVars, execVars, phy_layer_sem, current_state, retryVars>>

\* capability_get_cb; init_cb, deinit_cb and time_get_cb do the same.
CapabilityGot(i) ==
    /\ Event
    /\ "ok" \in Outcomes
    /\ Fn[modem[i].op] = "CAPABILITY_GET"
    /\ PhySemGive
    /\ modem' = RemoveAt(modem, i)
    /\ UNCHANGED <<queueVars, execVars, current_state, retryVars>>

\* rssi_cb: once or more for one measurement, before OpComplete ends it.
RssiReport(i) ==
    /\ Event
    /\ "ok" \in Outcomes
    /\ Fn[modem[i].op] = "RSSI"
    /\ PhySemGive
    /\ modem' = [modem EXCEPT ![i].heard = TRUE]
    /\ UNCHANGED <<queueVars, execVars, current_state, retryVars>>

\* rx_stop_cb gives nothing.
RxStopped(i) ==
    /\ Event
    /\ "ok" \in Outcomes
    /\ Fn[modem[i].op] = "RX_STOP"
    /\ modem' = RemoveAt(modem, i)
    /\ UNCHANGED <<queueVars, execVars, phy_layer_sem, current_state, retryVars>>

\* A bug to catch: no PLACEHOLDER is put.
ReplyOnly(i) ==
    /\ Event
    /\ Requests /\ Len(accepted) + Len(pending) < MaxLoad
    /\ Fn[modem[i].op] = "RX" \/ modem[i].half = "rx"
    /\ ~modem[i].heard
    /\ modem' = Append([modem EXCEPT ![i].heard = TRUE], Started(reply))
    /\ UNCHANGED <<queueVars, execVars, phy_layer_sem, current_state, retryVars>>

\* pcc_cb for a HARQ request: dect_mac_harq_request sends the reply at once and
\* puts a PLACEHOLDER.  A reception is single shot: it hears one frame.
HarqRequest(i) ==
    /\ Event
    /\ Requests /\ Len(accepted) + Len(pending) < MaxLoad
    /\ Fn[modem[i].op] = "RX" \/ modem[i].half = "rx"
    /\ ~modem[i].heard
    /\ modem' = Append([modem EXCEPT ![i].heard = TRUE], Started(reply))
    /\ accepted' = Append(accepted, placeholder)
    /\ UNCHANGED <<pending, execVars, phy_layer_sem, current_state, retryVars>>

\* ..._operation_failed_timer expires: current_node is executed again.
TimerExpires ==
    /\ Event
    /\ failed_timer
    /\ failed_timer' = FALSE
    /\ FunctionExecute(current_node)
    /\ UNCHANGED <<queueVars, execVars, phy_layer_sem, current_node,
                   failed_counter>>

\* A button calls dect_mac_phy_handler_rx_stop past the queue (Startup).  The
\* reception it names ends by OpComplete, as it may at any time; rx_stop_cb does
\* nothing.
StopRx ==
    /\ current_state' = "STOPPING_RECEPTION"
    /\ UNCHANGED <<queueVars, execVars, phy_layer_sem, retryVars, modem>>

Answer == \E i \in 1 .. Len(modem) :
    \/ SwitchToRx(i) \/ OpComplete(i) \/ Late(i) \/ Failed(i)
    \/ CapabilityGot(i) \/ RssiReport(i) \/ RxStopped(i)

Next ==
    \/ \E op \in Users : Put(op)
    \/ File
    \/ ExecThread
    \/ Answer
    \/ \E i \in 1 .. Len(modem) : HarqRequest(i)
    \/ TimerExpires

Spec == Init /\ [][Next]_vars

\* The threads are scheduled, the timer expires, the modem answers.
Fairness ==
    WF_vars(File) /\ WF_vars(ExecThread) /\ WF_vars(Answer) /\ WF_vars(TimerExpires)

FairSpec == Spec /\ Fairness

-----------------------------------------------------------------------------
(***************************************************************************)
(* The token of phy_layer_sem                                              *)
(***************************************************************************)
One(b) == IF b THEN 1 ELSE 0

\* The gives to come: one for each operation in the modem whose callback gives,
\* and one for the operation the timer will start again.
GivesToCome ==
    Cardinality({i \in 1 .. Len(modem) :
                    /\ Fn[modem[i].op] # "RX_STOP"
                    /\ Fn[modem[i].op] = "RSSI" => ~modem[i].heard})
        + One(failed_timer)

PlaceholdersToCome ==
    Cardinality({i \in 1 .. Len(accepted \o pending) :
                    (accepted \o pending)[i] = placeholder})
        + One(local_node = placeholder)

Tokens == phy_layer_sem + One(exec_pc # "phy") + GivesToCome

\* There is one token: in the semaphore, with the exec thread, or to be given
\* by a callback.  A reply will give one more, and its PLACEHOLDER takes it.
TokenBalance == Tokens = 1 + PlaceholdersToCome

\* Whatever the modem answers, the PHY is never released twice for one
\* operation,
TokenNeverDoubled == Tokens <= 1 + PlaceholdersToCome

\* and a reception stopped by a button never takes the token away.
TokenNeverLost == Tokens >= 1 + PlaceholdersToCome

\* phy_layer_sem is given when the operation is done, not before.
SemMeansDone == phy_layer_sem = 1 => modem = <<>> /\ ~failed_timer

\* The modem never has two transmissions to make at a time: while the reply to
\* a HARQ request is in the air the exec thread holds its PLACEHOLDER.
Transmits(i) == Fn[modem[i].op] \in {"TX", "TX_HARQ"} \/ modem[i].half = "tx"

OneTransmission ==
    \A i, j \in 1 .. Len(modem) : Transmits(i) /\ Transmits(j) => i = j

-----------------------------------------------------------------------------
(***************************************************************************)
(* Two-phase operations and retries                                        *)
(***************************************************************************)

\* op_complete_cb tells the halves of a TX_RX apart by current_state, which
\* therefore says which half it is in.
StateTellsHalf ==
    \A i \in 1 .. Len(modem) :
        /\ modem[i].half = "tx" => current_state = "TRANSMITTING"
        /\ modem[i].half = "rx" => current_state # "TRANSMITTING"

\* The operation that came too late is the one that is tried again.
RetryRepeatsFailedOp ==
    [][\A i \in 1 .. Len(modem) : Late(i) => modem[i].op = current_node]_vars

\* Every operation is given MAX_RETRY retries, whatever the one before it used.
RetriesBounded ==
    /\ failed_counter <= MaxRetry + 1
    /\ failed_timer => failed_counter \in 1 .. MaxRetry
    /\ exec_pc \in {"save", "execute"} => failed_counter = 0 /\ ~failed_timer

\* The exec thread and the callbacks serve the queue as OpQueue says: what is
\* pending is neither lost nor reordered, and one operation has the PHY.
ImplementsOpQueue == Queue!Spec

\* Whoever has the PHY releases it.
PhyReleased == phy_layer_sem = 0 /\ exec_pc = "phy" ~> phy_layer_sem = 1
=============================================================================
