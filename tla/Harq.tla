-------------------------------- MODULE Harq --------------------------------
(***************************************************************************)
(* The sending side of HARQ (dect_mac_harq.c): the processes, the first    *)
(* transmission of a message, its retransmissions by a delayable work, and *)
(* the responses of the other node, with the part of op_complete_cb that   *)
(* schedules the work (dect_mac_phy_handler_cb.c).                         *)
(*                                                                         *)
(* A user's thread takes a process, copies the message to the heap and     *)
(* puts a TX_RX operation in the PHY queue.  When its transmission ends    *)
(* the retransmission work is scheduled.  A response releases the process  *)
(* or reschedules the work at once; the work puts the operation again or,  *)
(* when the message was sent often enough, releases the process.           *)
(*                                                                         *)
(* The work is scheduled in one place only, so an operation that ends      *)
(* otherwise abandons its process: it stays occupied and nothing sends its *)
(* message again.                                                          *)
(*                                                                         *)
(* The queue of the PHY and the PHY itself are those of PhyQueue and       *)
(* PhyHandler, here one operation at a time by priority.  The other node   *)
(* and the radio are external.  The initial state is the one               *)
(* dect_mac_harq_initialize leaves.                                        *)
(***************************************************************************)
EXTENDS Naturals, Sequences, FiniteSets

CONSTANTS
    ProcessCount,       \* CONFIG_HARQ_PROCESS_COUNT
    MaxTransmissions,   \* CONFIG_HARQ_MAX_TRANSMISSIONS
    Buffers,            \* the heap blocks k_malloc can return
    NULL,
    LateReplies,        \* whether a response may come after the delay of the work
    Requests,           \* whether other nodes send HARQ requests
    Faults,             \* what may go wrong, a subset of the kinds below
    MaxQueue            \* bound: the operations in the queue

Procs == 0 .. ProcessCount - 1

\* What a TX_RX operation copies of its process, and the half the PHY is in.
Op == [proc : Procs, data : Buffers \cup {NULL}, rv : 0 .. 3, ndi : BOOLEAN]
\* After an error it does nothing more ("lost").
Working == [half : {"tx", "rx", "lost"}, op : Op]

\* k_malloc finds no memory; dect_phy_queue_put refuses an operation; the PHY gives
\* an operation up after too many late starts; it refuses or fails an operation;
\* rx_stop of another button press falls into a transmission.
FaultKinds == {"malloc", "put", "late", "error", "stop"}

ASSUME HarqAssumption ==
    /\ Faults \subseteq FaultKinds
    /\ ProcessCount \in 1 .. 8
    /\ MaxTransmissions \in 1 .. 255
    /\ NULL \notin Buffers /\ NULL \notin Working
    /\ {LateReplies, Requests} \subseteq BOOLEAN
    /\ MaxQueue \in Nat \ {0}

VARIABLES
    \* struct dect_mac_harq_process and harq_process_occupied
    occupied, data, transmission_count, redundancy_version, new_data_indication,
    retransmission_work,    \* "idle", "delayed" or "submitted"
    \* the rest of the program
    heap,                   \* the blocks allocated
    sender,                 \* the user's thread in dect_mac_harq_transmit
    worker,                 \* the thread of dect_mac_harq_work_queue
    queue,                  \* the TX_RX operations in the PHY queue
    phy,                    \* the operation the PHY works on
    reply,                  \* the response on its way for each process
    sent,                   \* history: how often the message was sent
    abandoned               \* history: whether the last operation of each process
                            \* ended and left nothing to send it again

processVars == <<data, transmission_count, redundancy_version>>
vars == <<occupied, processVars, new_data_indication, retransmission_work, heap,
          sender, worker, queue, phy, reply, sent, abandoned>>

Replies == {"none", "ack", "nack", "format6"}

TypeOK ==
    /\ occupied \in [Procs -> BOOLEAN]
    /\ data \in [Procs -> Buffers \cup {NULL}]
    /\ transmission_count \in [Procs -> 0 .. 255]
    /\ redundancy_version \in [Procs -> 0 .. 3]
    /\ new_data_indication \in [Procs -> BOOLEAN]
    /\ retransmission_work \in [Procs -> {"idle", "delayed", "submitted"}]
    /\ heap \subseteq Buffers
    /\ sender \in [pc : {"idle", "malloc", "fill", "put"}, proc : Procs,
                   data : Buffers \cup {NULL}]
    /\ worker \in [pc : {"idle", "check", "again", "put", "give", "forget"},
                   proc : Procs]
    /\ queue \in [{"HIGH", "MEDIUM"} -> Seq(Op)]
    /\ phy \in Working \cup {NULL}
    /\ reply \in [Procs -> Replies]
    /\ sent \in [Procs -> 0 .. MaxTransmissions + 1]
    /\ abandoned \in [Procs -> BOOLEAN]

Init ==
    /\ occupied = [p \in Procs |-> FALSE]
    /\ data = [p \in Procs |-> NULL]
    /\ transmission_count = [p \in Procs |-> 0]
    /\ redundancy_version = [p \in Procs |-> 0]
    /\ new_data_indication = [p \in Procs |-> TRUE]
    /\ retransmission_work = [p \in Procs |-> "idle"]
    /\ heap = {}
    /\ sender = [pc |-> "idle", proc |-> 0, data |-> NULL]
    /\ worker = [pc |-> "idle", proc |-> 0]
    /\ queue = [prio \in {"HIGH", "MEDIUM"} |-> <<>>]
    /\ phy = NULL
    /\ reply = [p \in Procs |-> "none"]
    /\ sent = [p \in Procs |-> 0]
    /\ abandoned = [p \in Procs |-> FALSE]

-----------------------------------------------------------------------------
(***************************************************************************)
(* The processes                                                           *)
(***************************************************************************)

\* A bug to catch: the pointer to what was freed is kept.
ResetKeepsData(p) ==
    /\ data' = data
    /\ transmission_count' = [transmission_count EXCEPT ![p] = 0]
    /\ redundancy_version' = [redundancy_version EXCEPT ![p] = 0]

\* dect_mac_harq_init_process once the data is freed,
ResetProcess(p) ==
    /\ data' = [data EXCEPT ![p] = NULL]
    /\ transmission_count' = [transmission_count EXCEPT ![p] = 0]
    /\ redundancy_version' = [redundancy_version EXCEPT ![p] = 0]

\* and the whole of it; k_free(NULL) does nothing.
InitProcess(p) == heap' = heap \ {data[p]} /\ ResetProcess(p)

\* A bug to catch: the work is not cancelled.
ForgetKeepsWork(p) ==
    /\ ResetProcess(p)
    /\ occupied' = [occupied EXCEPT ![p] = FALSE]
    /\ abandoned' = [abandoned EXCEPT ![p] = FALSE]
    /\ UNCHANGED retransmission_work

\* dect_mac_harq_give_process once the data is freed,
ForgetProcess(p) ==
    /\ ResetProcess(p)
    /\ occupied' = [occupied EXCEPT ![p] = FALSE]
    /\ abandoned' = [abandoned EXCEPT ![p] = FALSE]
    /\ retransmission_work' = [retransmission_work EXCEPT ![p] = "idle"]

\* and the whole of it, for callbacks and for a process without data.
GiveProcess(p) == heap' = heap \ {data[p]} /\ ForgetProcess(p)

\* A bug to catch: the version does not wrap.
NextByTwo == [rv \in 0 .. 3 |-> rv + 2]

\* dect_mac_harq_increment_redundancy_version.
NextVersion == [rv \in 0 .. 3 |-> CASE rv = 0 -> 2 [] rv = 2 -> 3
                                    [] rv = 3 -> 1 [] rv = 1 -> 0]

\* Nothing is left that would send the message of process p again.
Abandon(p) == abandoned' = [abandoned EXCEPT ![p] = TRUE]

\* The TX_RX operation for process p, built and put with the priority of its
\* kind.  dect_phy_queue_put may refuse it: the caller returns the error, and the
\* process stays as it is.
PutOp(p, prio) ==
    LET op == [proc |-> p,
               data |-> data[p],
               rv   |-> redundancy_version[p],
               ndi  |-> new_data_indication[p]]
    IN  \/ /\ Len(queue["HIGH"]) + Len(queue["MEDIUM"]) < MaxQueue
           /\ queue' = [queue EXCEPT ![prio] = Append(@, op)]
           /\ UNCHANGED abandoned
        \/ "put" \in Faults /\ Abandon(p) /\ UNCHANGED queue

-----------------------------------------------------------------------------
(***************************************************************************)
(* dect_mac_harq_transmit.  Buttons call it from the system work queue,    *)
(* which is cooperative: callbacks may come in between its steps, but not  *)
(* the thread of dect_mac_harq_work_queue.                                 *)
(***************************************************************************)

\* A bug to catch: the new data indication stays as it is.
TakeNoToggle ==
    /\ sender.pc = "idle"
    /\ \E p \in Procs :
          /\ ~occupied[p] /\ \A q \in Procs : q < p => occupied[q]
          /\ occupied' = [occupied EXCEPT ![p] = TRUE]
          /\ sender' = [sender EXCEPT !.pc = "malloc", !.proc = p]
          /\ sent' = [sent EXCEPT ![p] = 0]
    /\ UNCHANGED <<processVars, new_data_indication, retransmission_work, heap,
                   worker, queue, phy, reply, abandoned>>

\* dect_mac_harq_take_process: the first process that is not occupied.
TakeProcess ==
    /\ sender.pc = "idle"
    /\ \E p \in Procs :
          /\ ~occupied[p] /\ \A q \in Procs : q < p => occupied[q]
          /\ occupied' = [occupied EXCEPT ![p] = TRUE]
          /\ new_data_indication' = [new_data_indication EXCEPT ![p] = ~@]
          /\ sender' = [sender EXCEPT !.pc = "malloc", !.proc = p]
          /\ sent' = [sent EXCEPT ![p] = 0]
    /\ UNCHANGED <<processVars, retransmission_work, heap, worker, queue, phy,
                   reply, abandoned>>

\* k_malloc and memcpy; without memory the process is given back.
Malloc ==
    /\ sender.pc = "malloc"
    /\ \E b \in Buffers \ heap :
          /\ heap' = heap \cup {b}
          /\ sender' = [sender EXCEPT !.pc = "fill", !.data = b]
    /\ UNCHANGED <<occupied, processVars, new_data_indication,
                   retransmission_work, worker, queue, phy, reply, sent,
                   abandoned>>

MallocFails ==
    /\ sender.pc = "malloc"
    /\ heap = Buffers \/ "malloc" \in Faults
    /\ GiveProcess(sender.proc)
    /\ sender' = [sender EXCEPT !.pc = "idle"]
    /\ UNCHANGED <<new_data_indication, worker, queue, phy, reply, sent>>

Fill ==
    /\ sender.pc = "fill"
    /\ data' = [data EXCEPT ![sender.proc] = sender.data]
    /\ transmission_count' = [transmission_count EXCEPT ![sender.proc] = 1]
    /\ sender' = [sender EXCEPT !.pc = "put", !.data = NULL]
    /\ UNCHANGED <<occupied, redundancy_version, new_data_indication,
                   retransmission_work, heap, worker, queue, phy, reply, sent,
                   abandoned>>

PutFirst ==
    /\ sender.pc = "put"
    /\ PutOp(sender.proc, "HIGH")
    /\ sender' = [sender EXCEPT !.pc = "idle"]
    /\ UNCHANGED <<occupied, processVars, new_data_indication,
                   retransmission_work, heap, worker, phy, reply, sent>>

Sender == TakeProcess \/ Malloc \/ MallocFails \/ Fill \/ PutFirst

-----------------------------------------------------------------------------
(***************************************************************************)
(* dect_mac_harq_retransmission_work_handler and _retransmit               *)
(***************************************************************************)

WorkStarts(p) ==
    /\ sender.pc = "idle" /\ worker.pc = "idle"
    /\ retransmission_work[p] = "submitted"
    /\ retransmission_work' = [retransmission_work EXCEPT ![p] = "idle"]
    /\ worker' = [pc |-> "check", proc |-> p]
    /\ UNCHANGED <<occupied, processVars, new_data_indication, heap, sender,
                   queue, phy, reply, sent, abandoned>>

\* A bug to catch: one transmission too many.
WorkChecksAtMost ==
    /\ sender.pc = "idle" /\ worker.pc = "check"
    /\ worker' = [worker EXCEPT !.pc =
         IF transmission_count[worker.proc] <= MaxTransmissions THEN "again"
                                                                ELSE "give"]
    /\ UNCHANGED <<occupied, processVars, new_data_indication,
                   retransmission_work, heap, sender, queue, phy, reply, sent,
                   abandoned>>

WorkChecks ==
    /\ sender.pc = "idle" /\ worker.pc = "check"
    /\ worker' = [worker EXCEPT !.pc =
         IF transmission_count[worker.proc] < MaxTransmissions THEN "again"
                                                               ELSE "give"]
    /\ UNCHANGED <<occupied, processVars, new_data_indication,
                   retransmission_work, heap, sender, queue, phy, reply, sent,
                   abandoned>>

WorkCounts ==
    /\ sender.pc = "idle" /\ worker.pc = "again"
    /\ transmission_count' =
         [transmission_count EXCEPT ![worker.proc] = (@ + 1) % 256]
    /\ worker' = [worker EXCEPT !.pc = "put"]
    /\ UNCHANGED <<occupied, data, redundancy_version, new_data_indication,
                   retransmission_work, heap, sender, queue, phy, reply, sent,
                   abandoned>>

WorkPuts ==
    /\ sender.pc = "idle" /\ worker.pc = "put"
    /\ PutOp(worker.proc, "MEDIUM")
    /\ worker' = [worker EXCEPT !.pc = "idle"]
    /\ UNCHANGED <<occupied, processVars, new_data_indication,
                   retransmission_work, heap, sender, phy, reply, sent>>

\* dect_mac_harq_give_process in the work's thread: callbacks may come between
\* k_free and the rest.
WorkFrees ==
    /\ sender.pc = "idle" /\ worker.pc = "give"
    /\ heap' = heap \ {data[worker.proc]}
    /\ worker' = [worker EXCEPT !.pc = "forget"]
    /\ UNCHANGED <<occupied, processVars, new_data_indication,
                   retransmission_work, sender, queue, phy, reply, sent,
                   abandoned>>

WorkForgets ==
    /\ sender.pc = "idle" /\ worker.pc = "forget"
    /\ ForgetProcess(worker.proc)
    /\ worker' = [worker EXCEPT !.pc = "idle"]
    /\ UNCHANGED <<new_data_indication, heap, sender, queue, phy, reply, sent>>

Worker ==
    \/ \E p \in Procs : WorkStarts(p)
    \/ WorkChecks \/ WorkCounts \/ WorkPuts \/ WorkFrees \/ WorkForgets

-----------------------------------------------------------------------------
(***************************************************************************)
(* The PHY and the callbacks                                               *)
(***************************************************************************)

Transmit(prio) ==
    /\ phy = NULL
    /\ queue[prio] # <<>>
    /\ prio = "MEDIUM" => queue["HIGH"] = <<>>
    /\ phy' = [half |-> "tx", op |-> Head(queue[prio])]
    /\ queue' = [queue EXCEPT ![prio] = Tail(@)]
    /\ UNCHANGED <<occupied, processVars, new_data_indication,
                   retransmission_work, heap, sender, worker, reply, sent,
                   abandoned>>

\* Bugs to catch: the work is submitted without a delay; it is not scheduled.
ScheduleNow(p) ==
    retransmission_work' = [retransmission_work EXCEPT ![p] = "submitted"]

ScheduleNothing(p) == UNCHANGED retransmission_work

\* k_work_schedule_for_queue does nothing to a work that is delayed or submitted.
Schedule(p) ==
    retransmission_work' = [retransmission_work EXCEPT ![p] =
                               IF @ = "idle" THEN "delayed" ELSE @]

\* The frame of process p has left.  The other node may have something to say.
Leaves(p) ==
    /\ \E r \in Replies : reply' = [reply EXCEPT ![p] = r]
    /\ sent' = [sent EXCEPT ![p] = IF @ <= MaxTransmissions THEN @ + 1 ELSE @]

\* op_complete_cb at the end of the transmission: CONFIG_HARQ_RX_WAITING_TIME_MS
\* from now the work is submitted.
TxDone ==
    /\ phy # NULL /\ phy.half = "tx"
    /\ Schedule(phy.op.proc) /\ Leaves(phy.op.proc)
    /\ phy' = [phy EXCEPT !.half = "rx"]
    /\ UNCHANGED <<occupied, processVars, new_data_indication, heap, sender,
                   worker, queue, abandoned>>

\* The same when rx_stop has overwritten current_state meanwhile: op_complete_cb
\* takes the end of the transmission for the end of the operation.  It gives the PHY
\* back and schedules nothing.  What else that leads to when the next operation
\* starts before the reception is over is the subject of Startup; here the
\* reception ends first.
TxStopped ==
    /\ "stop" \in Faults
    /\ phy # NULL /\ phy.half = "tx"
    /\ Abandon(phy.op.proc) /\ Leaves(phy.op.proc)
    /\ phy' = [phy EXCEPT !.half = "rx"]
    /\ UNCHANGED <<occupied, processVars, new_data_indication,
                   retransmission_work, heap, sender, worker, queue>>

\* The operation starts too late more than DECT_MAC_PHY_HANDLER_QUEUE_MAX_RETRY
\* times, which frees the PHY.  The starts before that change nothing here.
TxLate ==
    /\ "late" \in Faults
    /\ phy # NULL /\ phy.half = "tx"
    /\ Abandon(phy.op.proc)
    /\ phy' = NULL
    /\ UNCHANGED <<occupied, processVars, new_data_indication,
                   retransmission_work, heap, sender, worker, queue, reply, sent>>

\* The modem refuses the operation, or the transmission ends with another error:
\* that is logged, and nobody gives the PHY back.
TxFails ==
    /\ "error" \in Faults
    /\ phy # NULL /\ phy.half = "tx"
    /\ Abandon(phy.op.proc)
    /\ phy' = [phy EXCEPT !.half = "lost"]
    /\ UNCHANGED <<occupied, processVars, new_data_indication,
                   retransmission_work, heap, sender, worker, queue, reply, sent>>

RxDone ==
    /\ phy # NULL /\ phy.half = "rx"
    /\ phy' = NULL
    /\ UNCHANGED <<occupied, processVars, new_data_indication,
                   retransmission_work, heap, sender, worker, queue, reply,
                   sent, abandoned>>

\* The reception ends with an error.
RxFails ==
    /\ "error" \in Faults
    /\ phy # NULL /\ phy.half = "rx"
    /\ phy' = [phy EXCEPT !.half = "lost"]
    /\ UNCHANGED <<occupied, processVars, new_data_indication,
                   retransmission_work, heap, sender, worker, queue, reply,
                   sent, abandoned>>

\* The delay of the work is over.  LateReplies decides whether a response that
\* is still on its way may come after that.
DelayElapses(p) ==
    /\ retransmission_work[p] = "delayed"
    /\ ~LateReplies => reply[p] = "none"
    /\ retransmission_work' = [retransmission_work EXCEPT ![p] = "submitted"]
    /\ UNCHANGED <<occupied, processVars, new_data_indication, heap, sender,
                   worker, queue, phy, reply, sent, abandoned>>

\* A bug to catch: transmission_feedback is not looked at.
AckAny(p) ==
    /\ reply[p] \in {"ack", "nack"}
    /\ reply' = [reply EXCEPT ![p] = "none"]
    /\ GiveProcess(p)
    /\ UNCHANGED <<new_data_indication, sender, worker, queue, phy, sent>>

\* dect_mac_harq_response.  It knows the process by the number in the header.
Ack(p) ==
    /\ reply[p] = "ack"
    /\ reply' = [reply EXCEPT ![p] = "none"]
    /\ GiveProcess(p)
    /\ UNCHANGED <<new_data_indication, sender, worker, queue, phy, sent>>

\* k_work_reschedule_for_queue with K_NO_WAIT.
Resubmit(p) ==
    retransmission_work' = [retransmission_work EXCEPT ![p] = "submitted"]

Nack(p) ==
    /\ reply[p] \in {"nack", "format6"}
    /\ reply' = [reply EXCEPT ![p] = "none"]
    /\ redundancy_version' = [redundancy_version EXCEPT ![p] =
                                 IF reply[p] = "nack" THEN NextVersion[@] ELSE 0]
    /\ Resubmit(p)
    /\ abandoned' = [abandoned EXCEPT ![p] = FALSE]
    /\ UNCHANGED <<occupied, data, transmission_count, new_data_indication, heap,
                   sender, worker, queue, phy, sent>>

ReplyLost(p) ==
    /\ reply[p] # "none"
    /\ reply' = [reply EXCEPT ![p] = "none"]
    /\ UNCHANGED <<occupied, processVars, new_data_indication,
                   retransmission_work, heap, sender, worker, queue, phy, sent,
                   abandoned>>


\* dect_mac_harq_request: the number in the header is a process of the other
\* node, and the process of that number is initialised here.
HarqRequest(p) ==
    /\ Requests
    /\ InitProcess(p)
    /\ UNCHANGED <<occupied, new_data_indication, retransmission_work, sender,
                   worker, queue, phy, reply, sent, abandoned>>

Radio ==
    \/ \E prio \in {"HIGH", "MEDIUM"} : Transmit(prio)
    \/ TxDone \/ TxStopped \/ TxLate \/ TxFails
    \/ RxDone \/ RxFails

Next ==
    \/ Sender
    \/ Worker
    \/ Radio
    \/ \E p \in Procs :
          \/ DelayElapses(p) \/ Ack(p) \/ Nack(p) \/ ReplyLost(p)
          \/ HarqRequest(p)

Spec == Init /\ [][Next]_vars

\* The threads and the PHY serve what waits for them, time passes, and a
\* response on its way arrives or is lost.  Nobody has to send.  The work's
\* thread takes the works in the order they were submitted and runs whenever the
\* sender stops, and the PHY takes an operation as soon as it is done with
\* another: these are ready at moments that come again and again rather than all
\* the time.
Fairness ==
    /\ WF_vars(Malloc \/ MallocFails \/ Fill \/ PutFirst)
    /\ SF_vars(Worker) /\ \A p \in Procs : SF_vars(WorkStarts(p))
    /\ WF_vars(Radio) /\ SF_vars(Transmit("MEDIUM"))
    /\ \A p \in Procs : /\ WF_vars(DelayElapses(p))
                        /\ WF_vars(Ack(p) \/ Nack(p) \/ ReplyLost(p))

FairSpec == Spec /\ Fairness

-----------------------------------------------------------------------------
(***************************************************************************)
(* What HARQ promises                                                      *)
(***************************************************************************)
One(b) == IF b THEN 1 ELSE 0

\* The operations not yet transmitted.
InAir == IF phy # NULL /\ phy.half = "tx" THEN <<phy.op>> ELSE <<>>
ToTransmit == queue["HIGH"] \o queue["MEDIUM"] \o InAir

\* What keeps the message of process p going.
Drivers(p) ==
    Cardinality({i \in 1 .. Len(ToTransmit) : ToTransmit[i].proc = p})
        + One(sender.pc # "idle" /\ sender.proc = p)
        + One(worker.pc # "idle" /\ worker.proc = p)
        + One(retransmission_work[p] # "idle")

\* Exactly one thing keeps the message of an occupied process going - the sender,
\* an operation to transmit, the retransmission work or its handler - unless the
\* last operation was refused or ended without its retransmission work: then nothing
\* does, and no other path of the code leaves a process so.  Nothing is left behind
\* of a process that is free.  take_process, the callbacks, the work and
\* give_process hand it on to each other.
ProcessDrivenOnce ==
    \A p \in Procs : Drivers(p) = One(occupied[p] /\ ~abandoned[p])

\* An operation carries the data, the redundancy version and the new data
\* indication its process has when it is transmitted, and its data is allocated:
\* dect_phy_queue_put copies the pointer, not the data.
OpIsCurrent ==
    \A i \in 1 .. Len(ToTransmit) :
        LET op == ToTransmit[i]
        IN  /\ op.data \in heap /\ op.data = data[op.proc]
            /\ op.rv = redundancy_version[op.proc]
            /\ op.ndi = new_data_indication[op.proc]

\* "Maximum number of transmissions for a HARQ transmission" (Kconfig:55): no
\* message is sent more than CONFIG_HARQ_MAX_TRANSMISSIONS times.
TransmissionsBounded == \A p \in Procs : sent[p] <= MaxTransmissions

\* The heap holds the data of the processes and of the sender, each block once:
\* nothing leaks and nothing is used after k_free.  What the work's thread has just
\* freed and not yet forgotten is the exception, and then no response that would
\* free it again is on its way.
HeapAccounted ==
    LET Holders == {p \in Procs : data[p] # NULL
                                  /\ ~(worker.pc = "forget" /\ worker.proc = p)}
    IN  /\ heap = ({data[p] : p \in Holders} \cup {sender.data}) \ {NULL}
        /\ \A p \in Holders :
              data[p] # sender.data /\ \A q \in Holders : data[q] = data[p] => p = q
        /\ worker.pc = "forget" => reply[worker.proc] # "ack"

\* A message does not keep its process for ever: it is acknowledged or it is sent
\* often enough, and the process is free again, unless an operation of it was refused
\* or ended without its retransmission work.  First transmissions go before
\* retransmissions, so this is said of users that let the PHY become free of them
\* again and again.
EveryMessageEnds ==
    []<>(phy = NULL /\ queue["HIGH"] = <<>>) =>
        \A p \in Procs : []<>(~occupied[p] \/ abandoned[p])
=============================================================================
