------------------------------ MODULE HarqLink ------------------------------
(***************************************************************************)
(* Harq with a node that answers: the frames of the sender cross a radio   *)
(* that may lose them, the other node takes them as dect_mac_harq_request  *)
(* does (dect_mac_harq.c), and its feedback, packed and unpacked as in     *)
(* Frames, becomes the response to the process it names.                   *)
(*                                                                         *)
(* Whether the CRC of a packet is right, and the MCS the node table has    *)
(* while it is configured, are free.                                       *)
(***************************************************************************)
EXTENDS Harq

CONSTANTS
    NetworkId, McsMax, SoftBufSize,     \* as in Frames
    Size                                \* the size of every message

ASSUME LinkAssumption == Size \in 1 .. 700 /\ ~LateReplies

Frame == INSTANCE Frames

VARIABLES
    air,    \* the new data indication of the frame of each process in the air
    got     \* history: whether the other node has the message of each process

linkVars == <<air, got>>
allVars  == <<vars, linkVars>>

LinkTypeOK ==
    /\ TypeOK
    /\ air \in [Procs -> BOOLEAN \cup {NULL}]
    /\ got \in [Procs -> BOOLEAN]

LinkInit ==
    /\ Init
    /\ air = [p \in Procs |-> NULL]
    /\ got = [p \in Procs |-> FALSE]

-----------------------------------------------------------------------------
(***************************************************************************)
(* The sender                                                              *)
(***************************************************************************)

LinkTake ==
    /\ TakeProcess
    /\ got' = [got EXCEPT ![sender'.proc] = FALSE]
    /\ UNCHANGED air

LinkSender ==
    /\ Malloc \/ MallocFails \/ Fill \/ PutFirst
    /\ UNCHANGED linkVars

LinkWorkStarts(p) == WorkStarts(p) /\ UNCHANGED linkVars

LinkWorker == Worker /\ UNCHANGED linkVars

LinkTransmit(prio) == Transmit(prio) /\ UNCHANGED linkVars

\* The frame has left, and nothing has answered it yet.
LinkTxDone ==
    /\ TxDone \/ TxStopped
    /\ LET p == phy.op.proc
       IN  /\ reply'[p] = "none"
           /\ air' = [air EXCEPT ![p] = phy.op.ndi]
    /\ UNCHANGED got

\* No frame leaves.
LinkTxFails == (TxLate \/ TxFails) /\ UNCHANGED linkVars

LinkRxDone == (RxDone \/ RxFails) /\ UNCHANGED linkVars

LinkRadio ==
    \/ \E prio \in {"HIGH", "MEDIUM"} : LinkTransmit(prio)
    \/ LinkTxDone \/ LinkTxFails \/ LinkRxDone

\* CONFIG_HARQ_RX_WAITING_TIME_MS is much longer than a frame and its response.
LinkDelayElapses(p) ==
    /\ DelayElapses(p)
    /\ air[p] = NULL
    /\ UNCHANGED linkVars

LinkResponse(p) == (Ack(p) \/ Nack(p) \/ ReplyLost(p)) /\ UNCHANGED linkVars

-----------------------------------------------------------------------------
(***************************************************************************)
(* The radio and the other node                                            *)
(***************************************************************************)
FrameLost(p) ==
    /\ air[p] # NULL
    /\ air' = [air EXCEPT ![p] = NULL]
    /\ UNCHANGED <<vars, got>>

\* What tx_config may end with for the message.
MessageSearches == UNION {Frame!Searches(Size, mcs, FALSE) : mcs \in Frame!NodeMcs}

\* The feedback to a packet of process p.
FeedbackFor(p, search, crc) ==
    LET header == Frame!TxConfig(0, search, "HARQ", Size, 1, p, Frame!NoFeedback)
        bytes  == Frame!BytesFromPacketLength(header.packet_length, header.df_mcs)
        space  == Frame!RemoveBufferSpace(Frame!BufferSize, bytes)
        nack   == Frame!RequestFeedback(header.harq_process, bytes, space, 0)
    IN  IF crc THEN Frame!WithAck(nack) ELSE nack

FeedbackTo == [p \in Procs |-> [crc \in BOOLEAN |->
                 {FeedbackFor(p, search, crc) : search \in MessageSearches}]]

\* How dect_mac_harq_response reads it.
Response(feedback) ==
    CASE feedback.format = 6                 -> "format6"
      [] Frame!BitIn(feedback) = Frame!ACK   -> "ack"
      [] OTHER                               -> "nack"

PeerHears(p) ==
    /\ air[p] # NULL
    /\ air' = [air EXCEPT ![p] = NULL]
    /\ \E crc \in BOOLEAN : \E feedback \in FeedbackTo[p][crc] :
          /\ reply' = [reply EXCEPT ![Frame!ProcessIn(feedback)] = Response(feedback)]
          /\ got' = [got EXCEPT ![p] = @ \/ crc]
    /\ UNCHANGED <<occupied, processVars, new_data_indication,
                   retransmission_work, heap, sender, worker, queue, phy, sent,
                   abandoned>>

LinkNext ==
    \/ LinkTake \/ LinkSender \/ LinkWorker \/ LinkRadio
    \/ \E p \in Procs :
          \/ LinkDelayElapses(p) \/ LinkResponse(p)
          \/ FrameLost(p) \/ PeerHears(p)

LinkSpec == LinkInit /\ [][LinkNext]_allVars

\* As in Harq.  A frame in the air arrives or is lost, then the same happens to its
\* response, and then the delay can elapse: one of these waits at a time.
LinkFairness ==
    /\ WF_allVars(LinkSender)
    /\ SF_allVars(LinkWorker) /\ \A p \in Procs : SF_allVars(LinkWorkStarts(p))
    /\ WF_allVars(LinkRadio) /\ SF_allVars(LinkTransmit("MEDIUM"))
    /\ \A p \in Procs : WF_allVars(\/ FrameLost(p) \/ PeerHears(p)
                                   \/ LinkResponse(p) \/ LinkDelayElapses(p))

FairLinkSpec == LinkSpec /\ LinkFairness

-----------------------------------------------------------------------------
(***************************************************************************)
(* What the link promises                                                  *)
(***************************************************************************)

\* A process is given back when the receiver has the message or after
\* MaxTransmissions transmissions, never before, and nothing of the message is sent
\* or received after that.
Promise == INSTANCE Delivery WITH
    Processes <- Procs,
    busy      <- occupied,
    received  <- got

ImplementsDelivery == Promise!Spec
=============================================================================
