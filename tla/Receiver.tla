------------------------------ MODULE Receiver ------------------------------
(***************************************************************************)
(* What the nodes of a network make of the frames they hear: pcc_cb        *)
(* (dect_mac_phy_handler_cb.c), dect_mac_harq_request with the accounting  *)
(* of the soft buffers and its reply (dect_mac_harq.c), and the way a      *)
(* response comes back to the node that asked for it.                      *)
(*                                                                         *)
(* One frame is in the air at a time.  Every other node hears it, in any   *)
(* order; the replies follow one after the other.  What a response does to *)
(* a process of the sender is in Harq, losses are in HarqLink.             *)
(***************************************************************************)
EXTENDS Frames, FiniteSets

CONSTANTS
    Ids,            \* the device ids
    NoFrame,
    Sizes,          \* the data sizes that are sent
    Cqis            \* bound: the channel qualities a node may report

Procs == 0 .. ProcessCount - 1

ASSUME ReceiverAssumption ==
    /\ Ids \subseteq Nat /\ \A id \in Ids : id < Broadcast
    /\ Sizes \subseteq Nat /\ \A size \in Sizes : size < 32768
    /\ Cqis \subseteq 0 .. 15

VARIABLES
    air,            \* the header in the air, or NoFrame
    sent,           \* history: the parameters it was made of
    began,          \* history: the MCS its search began with, and whether the
                    \* node was left alone meanwhile
    listening,      \* the nodes still to hear it
    taken,          \* what each node took it for
    replies,        \* the replies handed to the modem and not yet sent
    buffer_size     \* harq_processes[.].buffer_size of each node

vars == <<air, sent, began, listening, taken, replies, buffer_size>>

\* The parameters of an operation; request is, for a reply, the request it
\* answers and whether the CRC of its data was right.
Message(from, to, usage, data_size, process, feedback, request) ==
    [from |-> from, to |-> to, usage |-> usage, data_size |-> data_size,
     process |-> process, feedback |-> feedback, request |-> request]

Init ==
    /\ air = NoFrame /\ sent = NoFrame /\ began = NoFrame
    /\ listening = {}
    /\ taken = [id \in Ids |-> "nothing"]
    /\ replies = {}
    /\ buffer_size = [id \in Ids |-> [p \in Procs |-> 0]]

-----------------------------------------------------------------------------
\* The modem sends what tx_config made, beginning with the MCS the node table has.
Send(message, mcs, left_alone) ==
    /\ listening = {}
    /\ \E search \in Searches(message.data_size, mcs, left_alone) :
          air' = TxConfig(message.from, search, message.usage, message.data_size,
                          message.to, message.process, message.feedback)
    /\ sent' = message
    /\ began' = [mcs |-> mcs, left_alone |-> left_alone]
    /\ listening' = Ids \ {message.from}
    /\ taken' = [id \in Ids |-> "nothing"]

\* A user sends data, with HARQ or without.
SendData ==
    /\ air = NoFrame
    /\ \E from \in Ids, usage \in Usages, size \in Sizes, p \in Procs,
          mcs \in NodeMcs, left_alone \in BOOLEAN :
          \E to \in (Ids \cup {Broadcast}) \ {from} :
             /\ usage # "HARQ" => p = 0
             /\ Send(Message(from, to, usage, size, p, NoFeedback, NoFrame), mcs,
                     left_alone)
    /\ UNCHANGED <<replies, buffer_size>>

\* dect_mac_phy_handler_tx_harq: no data, and the feedback.
SendReply ==
    /\ \E r \in replies : Send(r, 0, TRUE) /\ replies' = replies \ {r}
    /\ UNCHANGED buffer_size

\* A bug to catch: the status is told before the packet is taken from the buffer.
RequestTellsFirst(id, cqi, crc) ==
    LET bytes == BytesFromPacketLength(air.packet_length, air.df_mcs)
        reply == RequestFeedback(air.harq_process, bytes, BufferSize, cqi)
    IN  /\ buffer_size' = [buffer_size EXCEPT ![id][air.harq_process] =
                               RemoveBufferSpace(BufferSize, bytes)]
        /\ replies' = replies \cup
             {Message(id, air.transmitter_id, "NO_HARQ", 0, 0,
                      IF crc THEN WithAck(reply) ELSE reply,
                      [asked |-> sent, bytes |-> bytes, crc |-> crc])}

\* dect_mac_harq_request: init_process gives the process its whole buffer, the
\* packet is taken from it, and the reply goes to the modem, which acknowledges
\* data it could decode.
HarqRequest(id, cqi, crc) ==
    LET bytes == BytesFromPacketLength(air.packet_length, air.df_mcs)
        space == RemoveBufferSpace(BufferSize, bytes)
        reply == RequestFeedback(air.harq_process, bytes, space, cqi)
    IN  /\ buffer_size' = [buffer_size EXCEPT ![id][air.harq_process] = space]
        /\ replies' = replies \cup
             {Message(id, air.transmitter_id, "NO_HARQ", 0, 0,
                      IF crc THEN WithAck(reply) ELSE reply,
                      [asked |-> sent, bytes |-> bytes, crc |-> crc])}

\* pcc_cb of a node.
Hear(id) ==
    /\ id \in listening
    /\ listening' = listening \ {id}
    /\ \/ /\ IsRequest(air, id)
          /\ \E cqi \in Cqis, crc \in BOOLEAN : HarqRequest(id, cqi, crc)
          /\ taken' = [taken EXCEPT ![id] = "request"]
       \/ /\ ~IsRequest(air, id)
          /\ taken' = [taken EXCEPT ![id] =
                          IF IsResponse(air, id) THEN "response" ELSE "nothing"]
          /\ UNCHANGED <<replies, buffer_size>>
    /\ UNCHANGED <<air, sent, began>>

\* Everybody has heard it and nobody has to answer.
Silence ==
    /\ air # NoFrame /\ listening = {} /\ replies = {}
    /\ air' = NoFrame /\ sent' = NoFrame /\ began' = NoFrame
    /\ taken' = [id \in Ids |-> "nothing"]
    /\ UNCHANGED <<listening, replies, buffer_size>>

Next == SendData \/ SendReply \/ Silence \/ \E id \in Ids : Hear(id)

Spec == Init /\ [][Next]_vars

-----------------------------------------------------------------------------
(***************************************************************************)
(* What the frames promise                                                 *)
(***************************************************************************)
TypeOK ==
    /\ listening \subseteq Ids
    /\ taken \in [Ids -> {"nothing", "request", "response"}]
    /\ buffer_size \in [Ids -> [Procs -> 0 .. BufferSize]]

\* A frame means to every node that has heard it what its sender meant: a HARQ
\* message asks its receiver for a response, or all when it is broadcast, a reply
\* is a response to the node that asked, and anything else is for nobody.
FrameTakenAsMeant ==
    air # NoFrame => \A id \in Ids \ (listening \cup {sent.from}) :
        LET addressed == sent.to \in {id, Broadcast}
        IN  /\ taken[id] = "request"  <=> addressed /\ sent.usage = "HARQ"
            /\ taken[id] = "response" <=> addressed /\ sent.feedback # NoFeedback

Fits(mcs) == \E l \in Lengths : BytePerMcsAndLength[mcs][l] >= sent.data_size

\* What the receiver reads in the header is right, whatever became of the MCS of the
\* node while tx_config raised it and read it back: the packet holds the data and no
\* shorter one of its MCS does, or none of its MCS does and its length is 0, the mark
\* of a packet that is too big.  Left alone, tx_config marks no data that fits the
\* MCS it began with, a higher one it may use, or mcs_max.  The exception is an MCS of
\* -1 that the lookup takes: it goes out as one that no receiver knows.
PacketHoldsData ==
    air # NoFrame /\ air.df_mcs \in Mcs =>
        /\ IF Fits(air.df_mcs)
           THEN /\ BytesFromPacketLength(air.packet_length, air.df_mcs) >= sent.data_size
                /\ \A l \in 0 .. air.packet_length - 1 :
                      BytesFromPacketLength(l, air.df_mcs) < sent.data_size
           ELSE air.packet_length = 0
        /\ /\ began.left_alone
           /\ \E mcs \in Mcs \cap ({began.mcs, McsMax} \cup began.mcs .. McsMax) : Fits(mcs)
           => Fits(air.df_mcs)

IsReply == air # NoFrame /\ sent.request # NoFrame

\* A response that comes back names the process its request came from, and says
\* whether the packet was decoded, or that it is too big for the buffer: the
\* feedback is packed into two fields of the header and the bit is set by the modem.
ResponseTellsOutcome ==
    IsReply =>
        LET request  == sent.request
            too_big  == request.bytes > BufferSize
        IN  /\ ProcessIn(air.feedback) = request.asked.process
            /\ air.feedback.format = IF too_big THEN 6 ELSE 1
            /\ ~too_big => BitIn(air.feedback) = IF request.crc THEN ACK ELSE NACK

\* The buffer status of a response is never below the space the packet leaves, and
\* for a packet of up to 255 bytes, which a uint8_t can count, not above it either.
StatusTellsSpace ==
    IsReply /\ sent.request.bytes <= BufferSize =>
        LET left   == BufferSize - sent.request.bytes
            status == StatusIn(air.feedback)
        IN  /\ status < 15 => left <= (IF status = 0 THEN 0 ELSE 2^(status + 3))
            /\ sent.request.bytes < 256 /\ status > 1 => left > 2^(status + 2)
=============================================================================
