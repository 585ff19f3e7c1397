------------------------------- MODULE Frames -------------------------------
(***************************************************************************)
(* What goes over the air: the length of a packet (dect_mac_utils.c), the  *)
(* header that dect_mac_phy_handler_tx_config writes, how pcc_cb sorts the *)
(* headers it hears (dect_mac_phy_handler_cb.c), and the feedback of HARQ  *)
(* with the buffer status in it (dect_mac_harq.c).                         *)
(*                                                                         *)
(* No state: Receiver and HarqLink are built from these operators.         *)
(* Addresses are numbers of 16 bits, which a header has as two bytes.      *)
(* Power, time stamps and the fields that are always 0 are left out.       *)
(***************************************************************************)
EXTENDS Integers, Sequences, FiniteSetsExt

CONSTANTS
    NetworkId,      \* CONFIG_NETWORK_ID
    ProcessCount,   \* CONFIG_HARQ_PROCESS_COUNT
    McsMax,         \* capabilities.mcs_max
    SoftBufSize     \* capabilities.harq_soft_buf_size, in bits

ASSUME FramesAssumption ==
    /\ NetworkId \in Nat \ {0}
    /\ ProcessCount \in 1 .. 8
    /\ McsMax \in 0 .. 4
    /\ SoftBufSize \in Nat

-----------------------------------------------------------------------------
(***************************************************************************)
(* The length of a packet                                                  *)
(***************************************************************************)
Mcs     == 0 .. 4
Lengths == 0 .. 15

\* How many bytes a packet of each MCS and length holds; -1: there is none.
BytePerMcsAndLength == [mcs \in Mcs |-> [length \in Lengths |->
  << << 0,  17,  33,  50,  67,  83,  99, 115, 133, 149, 165, 181, 197, 213, 233, 249>>,
     << 4,  37,  69, 103, 137, 169, 201, 233, 263, 295, 327, 359, 391, 423, 463, 495>>,
     << 7,  57, 107, 157, 205, 253, 295, 343, 399, 447, 495, 540, 596, 644, 692,  -1>>,
     <<11,  77, 141, 209, 271, 335, 399, 463, 532, 596, 660,  -1,  -1,  -1,  -1,  -1>>,
     <<18, 117, 217, 311, 407, 503, 604, 700,  -1,  -1,  -1,  -1,  -1,  -1,  -1,  -1>> >>
      [mcs + 1][length + 1]]]

\* A size_t cast to int16_t.
AsInt16(n) == ((n + 32768) % 65536) - 32768

\* A bug to catch: the data must be shorter than the packet.
HoldsMore(length, mcs, data_size) ==
    BytePerMcsAndLength[mcs][length] > AsInt16(data_size)

Holds(length, mcs, data_size) ==
    BytePerMcsAndLength[mcs][length] >= AsInt16(data_size)

\* The loop's counter when it ends: the first length that holds the data, or
\* 16, one past the last, when none does (PACKET_TOO_BIG).
TooBig == 16

PacketLength(data_size, mcs) ==
    Min({l \in Lengths : Holds(l, mcs, data_size)} \cup {TooBig})

\* What dect_mac_node_get_mcs may give: dect_mac_node_optimize stores -1 for a
\* channel that is too noisy, and does not heed mcs_max.
NodeMcs == -1 .. 4

\* What get_packet_length finds for an MCS.  -1 becomes an unsigned index and reads
\* what lies in front of the table.
Lookup(data_size, mcs) ==
    {[mcs |-> mcs, length |-> l] :
        l \in IF mcs \in Mcs THEN {PacketLength(data_size, mcs)}
                             ELSE Lengths \cup {TooBig}}

\* The MCS that the loop of tx_config ends with when nobody else touches the node: it
\* goes up one by one until the data fits or mcs_max cuts it.
Raised(data_size, mcs) ==
    Min({m \in mcs + 1 .. McsMax : PacketLength(data_size, m) # TooBig} \cup {McsMax})

\* What tx_config may end with.  Its loop raises the MCS and reads it back in
\* sections of their own: unless it is left alone, a retransmission may lower the
\* MCS in between, and the cleaner may delete the node, which comes back with
\* mcs_max.  So it may end with any MCS of this device, and with one that is too low
\* when mcs_max has cut it.  NodeTable has the loop step by step.
Searches(data_size, mcs, left_alone) ==
    LET first == Lookup(data_size, mcs)
        again == UNION {Lookup(data_size, m) :
                    m \in IF left_alone THEN {Raised(data_size, mcs)} ELSE 0 .. McsMax}
    IN  {c \in first : c.length # TooBig} \cup
        (IF \E c \in first : c.length = TooBig THEN again ELSE {})

\* The bytes the receiver makes of the header; -1 comes out as a uint16_t.
BytesFromPacketLength(length, mcs) ==
    IF mcs \in Mcs /\ length \in Lengths
    THEN BytePerMcsAndLength[mcs][length] % 65536 ELSE 0

-----------------------------------------------------------------------------
(***************************************************************************)
(* Feedback                                                                *)
(***************************************************************************)
NACK == 0
ACK  == 1

NoFeedback == [format |-> 0, hi |-> 0, lo |-> 0]

\* A bug to catch: the process number is put over the bit.
FeedbackUnshifted(format, bit, process, cqi, status) ==
    [format |-> format, hi |-> bit + process, lo |-> cqi + 16 * status]

\* union feedback_info in formats 1 and 6, as the two fields of the header: one
\* bit (ACK or reserved), three of the process number, then in the other byte the
\* channel quality and the buffer status.
Feedback(format, bit, process, cqi, status) ==
    [format |-> format, hi |-> bit + 2 * process, lo |-> cqi + 16 * status]

ProcessIn(feedback) == feedback.hi \div 2
BitIn(feedback)     == feedback.hi % 2
StatusIn(feedback)  == feedback.lo \div 16

\* The modem sets the bit of format 1 when the CRC of the data is right.
WithAck(feedback) ==
    IF feedback.format = 1 THEN [feedback EXCEPT !.hi = 2 * ProcessIn(feedback) + ACK]
                           ELSE feedback

-----------------------------------------------------------------------------
(***************************************************************************)
(* The buffer of a process                                                 *)
(***************************************************************************)

\* What init_process gives to each process, in bytes.
BufferSize == (SoftBufSize \div 8) \div ProcessCount

\* dect_mac_harq_remove_buffer_space: the argument is a uint8_t.  Too many bytes
\* (BUFFER_TOO_SMALL) leave the buffer alone.
RemoveBufferSpace(buffer_size, bytes) ==
    LET byte_count == bytes % 256
    IN  IF buffer_size < byte_count THEN buffer_size ELSE buffer_size - byte_count

\* dect_mac_harq_get_buffer_status: 0 when it is empty, s up to 2^(s+3) bytes.
BufferStatus(buffer_size) ==
    IF buffer_size = 0 THEN 0
    ELSE Min({s \in 1 .. 14 : buffer_size <= 2^(s + 3)} \cup {15})

\* The feedback dect_mac_harq_request makes, from the space that is left.
RequestFeedback(process, bytes, buffer_size, cqi) ==
    Feedback(IF bytes > BufferSize THEN 6 ELSE 1, NACK, process, cqi,
             BufferStatus(buffer_size))

-----------------------------------------------------------------------------
(***************************************************************************)
(* Headers                                                                 *)
(***************************************************************************)
Hi(id) == id \div 256
Lo(id) == id % 256

Broadcast == 65535

Usages == {"NO_HARQ", "HARQ", "BEACON"}

\* dect_mac_phy_handler_tx_config, from the address of the device, what the search
\* for an MCS found and the parameters of the operation.  packet_length has four
\* bits: a packet that is too big goes out with length 0.  df_mcs has three bits in
\* type 1 and four in type 2.
TxConfig(device_id, search, usage, data_size, receiver_id, process, feedback) ==
    [type           |-> IF usage = "BEACON" THEN 1 ELSE 2,
     header_format  |-> IF usage = "NO_HARQ" THEN 1 ELSE 0,
     short_network  |-> NetworkId % 256,
     transmitter_id |-> device_id,
     receiver_hi    |-> Hi(receiver_id),
     receiver_lo    |-> Lo(receiver_id),
     df_mcs         |-> IF data_size = 0 THEN 0
                        ELSE search.mcs % (IF usage = "BEACON" THEN 8 ELSE 16),
     packet_length  |-> IF data_size = 0 THEN 0 ELSE search.length % 16,
     harq_process   |-> IF usage = "HARQ" THEN process ELSE 0,
     feedback       |-> feedback]

\* A bug to catch: only the low byte of the address is compared.
LowByte(header, device_id) == header.receiver_lo = Lo(device_id)

ForDevice(header, device_id) ==
    header.receiver_hi = Hi(device_id) /\ header.receiver_lo = Lo(device_id)

Ours(header) == header.type = 2 /\ header.short_network = NetworkId % 256

\* pcc_cb: header format 000 asks for a response, from this device or from all.
IsRequest(header, device_id) ==
    /\ Ours(header) /\ header.header_format = 0
    /\ \/ ForDevice(header, device_id)
       \/ header.receiver_hi = 255 /\ header.receiver_lo = 255

\* Header format 001 with feedback 1 or 6 is a response.  The code compares the
\* high byte twice where it means "broadcast".
IsResponse(header, device_id) ==
    /\ Ours(header) /\ header.header_format = 1
    /\ header.feedback.format \in {1, 6}
    /\ \/ ForDevice(header, device_id)
       \/ header.receiver_hi = 255 /\ header.receiver_hi = 255
=============================================================================
