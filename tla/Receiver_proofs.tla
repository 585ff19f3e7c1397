--------------------------- MODULE Receiver_proofs ---------------------------
(***************************************************************************)
(* Theorems about Receiver, for any devices, data, capabilities and        *)
(* order of reception: what a frame is taken for, and what a response says *)
(* of the request it answers.                                              *)
(***************************************************************************)
EXTENDS Receiver, DataLemmas

-----------------------------------------------------------------------------
(***************************************************************************)
(* The inductive invariant                                                 *)
(***************************************************************************)

\* The parameters of a message of a user,
IsData(message) ==
    /\ message.from \in Ids
    /\ message.to \in (Ids \cup {Broadcast}) \ {message.from}
    /\ message.usage \in Usages
    /\ message.data_size \in Sizes
    /\ message.process \in Procs
    /\ message.feedback = NoFeedback
    /\ message.request = NoFrame

\* and of a reply, whose feedback is made of the request it answers.
IsReplyMessage(message) ==
    /\ message.from \in Ids /\ message.to \in Ids
    /\ message.usage = "NO_HARQ" /\ message.data_size = 0
    /\ message.request.asked.process \in Procs
    /\ message.request.bytes \in Nat /\ message.request.crc \in BOOLEAN
    /\ \E cqi \in 0 .. 15 :
          LET bytes == message.request.bytes
              reply == RequestFeedback(message.request.asked.process, bytes,
                           RemoveBufferSpace(BufferSize, bytes), cqi)
          IN  message.feedback =
                  IF message.request.crc THEN WithAck(reply) ELSE reply

\* Who has something to hear hears the header that was made of the parameters.
MadeOfSent ==
    air # NoFrame \/ listening # {} =>
        /\ IsData(sent) \/ IsReplyMessage(sent)
        /\ began \in [mcs : NodeMcs, left_alone : BOOLEAN]
        /\ \E search \in Searches(sent.data_size, began.mcs, began.left_alone) :
              air = TxConfig(sent.from, search, sent.usage, sent.data_size,
                             sent.to, sent.process, sent.feedback)

RepliesMade == \A r \in replies : IsReplyMessage(r)

IInv == TypeOK /\ MadeOfSent /\ RepliesMade

-----------------------------------------------------------------------------
(***************************************************************************)
(* Addresses                                                               *)
(***************************************************************************)

\* Two addresses are the same when both of their bytes are.
LEMMA BytesTellAddress ==
    ASSUME NEW a \in Int, NEW b \in Int
    PROVE  Hi(a) = Hi(b) /\ Lo(a) = Lo(b) <=> a = b
BY SMT DEF Hi, Lo

\* Both bytes of the broadcast address are 255, and of no other.
LEMMA BytesTellBroadcast ==
    ASSUME NEW a \in Int
    PROVE  Hi(a) = 255 /\ Lo(a) = 255 <=> a = Broadcast
<1>1. Hi(Broadcast) = 255 /\ Lo(Broadcast) = 255 /\ Broadcast \in Int
  BY SMT DEF Hi, Lo, Broadcast
<1> QED
  BY <1>1, BytesTellAddress, SMT

\* Device ids are numbers.
LEMMA IdsAreInt == Ids \cup {Broadcast} \subseteq Int
BY ReceiverAssumption, SMT DEF Broadcast

-----------------------------------------------------------------------------
(***************************************************************************)
(* The length of a packet and the buffer                                   *)
(***************************************************************************)

\* The table has numbers.
LEMMA TableIsInt ==
    ASSUME NEW mcs \in Mcs, NEW length \in Lengths
    PROVE  BytePerMcsAndLength[mcs][length] \in Int
BY SMT DEF BytePerMcsAndLength, Mcs, Lengths

\* What the receiver makes of a header is a number of bytes.
LEMMA BytesAreNat ==
    ASSUME NEW length, NEW mcs
    PROVE  BytesFromPacketLength(length, mcs) \in Nat
<1>1. \A n \in Int : n % 65536 \in Nat
  BY SMT
<1>2. CASE mcs \in Mcs /\ length \in Lengths
  <2> DEFINE n == BytePerMcsAndLength[mcs][length]
  <2>1. n \in Int
    BY <1>2, TableIsInt
  <2>2. BytesFromPacketLength(length, mcs) = n % 65536
    BY <1>2, SMT DEF BytesFromPacketLength
  <2> HIDE DEF n
  <2> QED
    BY <1>1, <2>1, <2>2, SMT
<1>3. CASE ~(mcs \in Mcs /\ length \in Lengths)
  BY <1>3, SMT DEF BytesFromPacketLength
<1> QED
  BY <1>2, <1>3, Zenon

\* The buffer of a process has a size.
LEMMA BufferSizeIsNat == BufferSize \in Nat
<1>1. SoftBufSize \div 8 \in Nat
  BY FramesAssumption
<1> DEFINE bytes == SoftBufSize \div 8
<1> HIDE DEF bytes
<1>2. bytes \in Nat => bytes \div ProcessCount \in Nat
  BY FramesAssumption
<1> QED
  BY <1>1, <1>2 DEF BufferSize, bytes

\* What is left of a buffer is part of it.
LEMMA SpaceInBuffer ==
    ASSUME NEW size \in Nat, NEW bytes \in Nat
    PROVE  RemoveBufferSpace(size, bytes) \in 0 .. size
<1>1. bytes % 256 \in 0 .. 255
  OBVIOUS
<1> QED
  BY <1>1 DEF RemoveBufferSpace
\* The status is 0 for an empty buffer, and otherwise the least s in 1 .. 14 for
\* which 2^(s+3) bytes hold the buffer, or 15.
LEMMA StatusBounds ==
    ASSUME NEW size \in Nat
    PROVE  /\ BufferStatus(size) \in 0 .. 15
           /\ BufferStatus(size) = 0 <=> size = 0
           /\ BufferStatus(size) \in 1 .. 14 => size <= 2^(BufferStatus(size) + 3)
           /\ BufferStatus(size) \in 2 .. 15 => size > 2^(BufferStatus(size) + 2)
<1> DEFINE status == BufferStatus(size)
           S == {s \in 1 .. 14 : size <= 2^(s + 3)} \cup {15}
<1>1. CASE size = 0
  BY <1>1 DEF BufferStatus
<1>2. CASE size # 0
  <2>1. status = Min(S)
    BY <1>2 DEF BufferStatus
  <2>2. S \in SUBSET Nat /\ S # {} /\ S \subseteq 1 .. 15
    OBVIOUS
  <2> HIDE DEF status, S
  <2>3. status \in S /\ \A s \in S : status <= s
    BY <2>1, <2>2, MinProperties
  <2>4. status \in 1 .. 15
    BY <2>2, <2>3
  <2>5. status \in 1 .. 14 => size <= 2^(status + 3)
    BY <2>3 DEF S
  <2>6. ASSUME status \in 2 .. 15 PROVE size > 2^(status + 2)
    <3>1. PICK s \in 1 .. 14 : s = status - 1
      BY <2>6
    <3>2. s \notin S
      BY <2>3, <2>4, <3>1
    <3>3. ~(size <= 2^(s + 3)) /\ 2^(s + 3) \in Int
      BY <3>2 DEF S
    <3>4. s + 3 = status + 2
      BY <2>4, <3>1
    <3> QED
      BY <3>3, <3>4
  <2> QED
    BY <1>2, <2>4, <2>5, <2>6 DEF status
<1> QED
  BY <1>1, <1>2

-----------------------------------------------------------------------------
(***************************************************************************)
(* Feedback                                                                *)
(***************************************************************************)

\* The fields that are packed into the bytes of the header come out again, and
\* the modem's acknowledgement changes nothing but the bit of format 1.
LEMMA FeedbackFields ==
    ASSUME NEW format \in {1, 6}, NEW process \in Procs, NEW cqi \in 0 .. 15,
           NEW status \in 0 .. 15
    PROVE  LET g == Feedback(format, NACK, process, cqi, status)
           IN  /\ g.format = format /\ WithAck(g).format = format
               /\ ProcessIn(g) = process /\ ProcessIn(WithAck(g)) = process
               /\ StatusIn(g) = status /\ StatusIn(WithAck(g)) = status
               /\ BitIn(g) = NACK
               /\ format = 1 => BitIn(WithAck(g)) = ACK
<1>1. process \in 0 .. 7
  BY FramesAssumption DEF Procs
<1> DEFINE g == Feedback(format, NACK, process, cqi, status)
<1>2. /\ g = [format |-> format, hi |-> 2 * process, lo |-> cqi + 16 * status]
      /\ ProcessIn(g) = process /\ BitIn(g) = NACK /\ StatusIn(g) = status
  BY <1>1 DEF Feedback, ProcessIn, BitIn, StatusIn, NACK
<1>3. CASE format = 1
  <2>1. WithAck(g) = [format |-> 1, hi |-> 2 * process + 1, lo |-> cqi + 16 * status]
    BY <1>2, <1>3 DEF WithAck, ACK
  <2> QED
    BY <1>1, <1>2, <1>3, <2>1 DEF ProcessIn, BitIn, StatusIn, ACK
<1>4. CASE format # 1
  BY <1>2, <1>4 DEF WithAck
<1> QED
  BY <1>3, <1>4

-----------------------------------------------------------------------------
(***************************************************************************)
(* The invariant is inductive                                              *)
(***************************************************************************)

\* A request asks for a response to its process, and has its sender's address.
LEMMA RequestNamesProcess ==
    ASSUME IInv, NEW id \in Ids, id \in listening, IsRequest(air, id)
    PROVE  /\ IsData(sent) /\ sent.usage = "HARQ"
           /\ air.harq_process = sent.process
           /\ air.transmitter_id = sent.from
<1>1. /\ IsData(sent) \/ IsReplyMessage(sent)
      /\ \E search \in Searches(sent.data_size, began.mcs, began.left_alone) :
            air = TxConfig(sent.from, search, sent.usage, sent.data_size,
                           sent.to, sent.process, sent.feedback)
  BY DEF IInv, MadeOfSent
<1>2. /\ air.type = IF sent.usage = "BEACON" THEN 1 ELSE 2
      /\ air.header_format = IF sent.usage = "NO_HARQ" THEN 1 ELSE 0
      /\ air.harq_process = IF sent.usage = "HARQ" THEN sent.process ELSE 0
      /\ air.transmitter_id = sent.from
  BY <1>1 DEF TxConfig
<1>3. air.type = 2 /\ air.header_format = 0
  BY DEF IsRequest, Ours
<1> QED
  BY <1>1, <1>2, <1>3 DEF IsData, IsReplyMessage, Usages

\* dect_mac_harq_request answers with a reply made of the request, and leaves a
\* part of its buffer to the process.
LEMMA RequestStep ==
    ASSUME IInv, NEW id \in Ids, id \in listening, IsRequest(air, id),
           NEW cqi \in Cqis, NEW crc \in BOOLEAN, HarqRequest(id, cqi, crc)
    PROVE  /\ \A r \in replies' : IsReplyMessage(r)
           /\ buffer_size' \in [Ids -> [Procs -> 0 .. BufferSize]]
<1> DEFINE bytes == BytesFromPacketLength(air.packet_length, air.df_mcs)
           space == RemoveBufferSpace(BufferSize, bytes)
           reply == RequestFeedback(air.harq_process, bytes, space, cqi)
           answer == Message(id, air.transmitter_id, "NO_HARQ", 0, 0,
                             IF crc THEN WithAck(reply) ELSE reply,
                             [asked |-> sent, bytes |-> bytes, crc |-> crc])
<1>1. IsData(sent) /\ air.harq_process = sent.process
      /\ air.transmitter_id = sent.from
  BY RequestNamesProcess
<1>2. bytes \in Nat /\ space \in 0 .. BufferSize
  BY BytesAreNat, BufferSizeIsNat, SpaceInBuffer
<1>3. cqi \in 0 .. 15
  BY ReceiverAssumption
<1>4. /\ buffer_size' = [buffer_size EXCEPT ![id][air.harq_process] = space]
      /\ replies' = replies \cup {answer}
  BY DEF HarqRequest
<1>5. IsReplyMessage(answer)
  <2>1. /\ answer.from = id /\ answer.to = sent.from
        /\ answer.usage = "NO_HARQ" /\ answer.data_size = 0
        /\ answer.request = [asked |-> sent, bytes |-> bytes, crc |-> crc]
        /\ answer.feedback = IF crc THEN WithAck(reply) ELSE reply
    BY <1>1 DEF Message
  <2>2. sent.from \in Ids /\ sent.process \in Procs
    BY <1>1 DEF IsData
  <2>3. /\ answer.request.asked = sent /\ answer.request.bytes = bytes
        /\ answer.request.crc = crc
    BY <2>1
  <2>4. reply = RequestFeedback(sent.process, bytes,
                                RemoveBufferSpace(BufferSize, bytes), cqi)
    BY <1>1
  <2> HIDE DEF answer, reply, bytes
  <2> QED
    BY <1>2, <1>3, <2>1, <2>2, <2>3, <2>4 DEF IsReplyMessage
<1> HIDE DEF space, answer
<1>6. \A r \in replies' : IsReplyMessage(r)
  BY <1>4, <1>5 DEF IInv, RepliesMade
<1>7. buffer_size' \in [Ids -> [Procs -> 0 .. BufferSize]]
  <2>1. buffer_size \in [Ids -> [Procs -> 0 .. BufferSize]] /\ air.harq_process \in Procs
    BY <1>1 DEF IInv, TypeOK, IsData
  <2> QED
    BY <1>2, <1>4, <2>1
<1> QED
  BY <1>6, <1>7

\* What is sent is heard with the header that is made of it.
LEMMA SendStep ==
    ASSUME NEW message, NEW mcs \in NodeMcs, NEW left_alone \in BOOLEAN,
           Send(message, mcs, left_alone), IsData(message) \/ IsReplyMessage(message)
    PROVE  MadeOfSent' /\ listening' \subseteq Ids
           /\ taken' \in [Ids -> {"nothing", "request", "response"}]
<1>1. /\ sent' = message /\ began' = [mcs |-> mcs, left_alone |-> left_alone]
      /\ \E search \in Searches(message.data_size, mcs, left_alone) :
            air' = TxConfig(message.from, search, message.usage, message.data_size,
                            message.to, message.process, message.feedback)
  BY DEF Send
<1>2. IsData(sent)' \/ IsReplyMessage(sent)'
  BY <1>1 DEF IsData, IsReplyMessage
<1>3. MadeOfSent'
  BY <1>1, <1>2 DEF MadeOfSent
<1> QED
  BY <1>3 DEF Send

\* A message of a user is one.
LEMMA DataIsData ==
    ASSUME NEW from \in Ids, NEW usage \in Usages, NEW size \in Sizes,
           NEW to \in (Ids \cup {Broadcast}) \ {from}, NEW p \in Procs
    PROVE  IsData(Message(from, to, usage, size, p, NoFeedback, NoFrame))
BY DEF IsData, Message

\* The invariant is inductive.
THEOREM InductiveInvariant == Spec => []IInv
<1>1. Init => IInv
  <2>1. 0 \in 0 .. BufferSize
    BY BufferSizeIsNat
  <2> QED
    BY <2>1 DEF Init, IInv, TypeOK, MadeOfSent, RepliesMade
<1>2. IInv /\ [Next]_vars => IInv'
  <2> SUFFICES ASSUME IInv, [Next]_vars PROVE IInv'
    OBVIOUS
  <2> USE DEF IInv
  <2>1. CASE SendData
    <3> PICK from \in Ids, usage \in Usages, size \in Sizes, p \in Procs,
             mcs \in NodeMcs, left_alone \in BOOLEAN :
           \E to \in (Ids \cup {Broadcast}) \ {from} :
              Send(Message(from, to, usage, size, p, NoFeedback, NoFrame), mcs,
                   left_alone)
      BY <2>1 DEF SendData
    <3>1. PICK to \in (Ids \cup {Broadcast}) \ {from} :
             Send(Message(from, to, usage, size, p, NoFeedback, NoFrame), mcs,
                  left_alone)
      OBVIOUS
    <3>2. MadeOfSent' /\ listening' \subseteq Ids
          /\ taken' \in [Ids -> {"nothing", "request", "response"}]
      BY <3>1, DataIsData, SendStep
    <3> QED
      BY <2>1, <3>2 DEF SendData, TypeOK, RepliesMade
  <2>2. CASE SendReply
    <3>1. PICK r \in replies : Send(r, 0, TRUE) /\ replies' = replies \ {r}
      BY <2>2 DEF SendReply
    <3>2. MadeOfSent' /\ listening' \subseteq Ids
          /\ taken' \in [Ids -> {"nothing", "request", "response"}]
      <4>1. 0 \in NodeMcs
        BY DEF NodeMcs
      <4> QED
        BY <3>1, <4>1, SendStep DEF RepliesMade
    <3> QED
      BY <2>2, <3>1, <3>2 DEF SendReply, TypeOK, RepliesMade
  <2>3. CASE Silence
    BY <2>3 DEF Silence, TypeOK, MadeOfSent, RepliesMade
  <2>4. ASSUME NEW id \in Ids, Hear(id) PROVE IInv'
    <3>1. /\ id \in listening /\ listening' = listening \ {id}
          /\ UNCHANGED <<air, sent, began>>
      BY <2>4 DEF Hear
    <3>2. MadeOfSent'
      BY <3>1 DEF MadeOfSent, IsData, IsReplyMessage
    <3>3. taken' \in [Ids -> {"nothing", "request", "response"}]
      BY <2>4 DEF Hear, TypeOK
    <3>4. RepliesMade' /\ buffer_size' \in [Ids -> [Procs -> 0 .. BufferSize]]
      <4>1. CASE IsRequest(air, id)
        <5>1. PICK cqi \in Cqis, crc \in BOOLEAN : HarqRequest(id, cqi, crc)
          BY <2>4, <4>1 DEF Hear
        <5> QED
          BY <3>1, <4>1, <5>1, RequestStep DEF RepliesMade
      <4>2. CASE ~IsRequest(air, id)
        BY <2>4, <4>2 DEF Hear, RepliesMade, TypeOK
      <4> QED
        BY <4>1, <4>2
    <3> QED
      BY <3>1, <3>2, <3>3, <3>4 DEF TypeOK
  <2>5. CASE UNCHANGED vars
    BY <2>5 DEF vars, TypeOK, MadeOfSent, RepliesMade, IsData, IsReplyMessage
  <2> QED
    BY <2>1, <2>2, <2>3, <2>4, <2>5 DEF Next
<1> QED
  BY <1>1, <1>2, PTL DEF Spec

-----------------------------------------------------------------------------
(***************************************************************************)
(* What the frames promise                                                 *)
(***************************************************************************)

\* The feedback of a reply: its format, process and bit tell the outcome, and
\* its status is that of the space the packet leaves.
LEMMA ReplyTells ==
    ASSUME NEW r, IsReplyMessage(r)
    PROVE  /\ ProcessIn(r.feedback) = r.request.asked.process
           /\ r.feedback.format = IF r.request.bytes > BufferSize THEN 6 ELSE 1
           /\ ~(r.request.bytes > BufferSize) =>
                 BitIn(r.feedback) = IF r.request.crc THEN ACK ELSE NACK
           /\ StatusIn(r.feedback) =
                 BufferStatus(RemoveBufferSpace(BufferSize, r.request.bytes))
<1> DEFINE bytes == r.request.bytes
           process == r.request.asked.process
           space == RemoveBufferSpace(BufferSize, bytes)
           format == IF bytes > BufferSize THEN 6 ELSE 1
           crc == r.request.crc
<1>1. PICK cqi \in 0 .. 15 :
         LET reply == RequestFeedback(process, bytes, space, cqi)
         IN  r.feedback = IF crc THEN WithAck(reply) ELSE reply
  BY DEF IsReplyMessage
<1>2. bytes \in Nat /\ process \in Procs /\ crc \in BOOLEAN /\ format \in {1, 6}
  BY DEF IsReplyMessage
<1>3. BufferStatus(space) \in 0 .. 15
  <2>1. space \in 0 .. BufferSize
    BY <1>2, BufferSizeIsNat, SpaceInBuffer
  <2> HIDE DEF space
  <2>2. space \in Nat
    BY <2>1, BufferSizeIsNat
  <2> QED
    BY <2>2, StatusBounds
<1>4. r.feedback =
         IF crc THEN WithAck(Feedback(format, NACK, process, cqi, BufferStatus(space)))
                ELSE Feedback(format, NACK, process, cqi, BufferStatus(space))
  BY <1>1 DEF RequestFeedback
<1> DEFINE status == BufferStatus(space)
           f == r.feedback
<1> HIDE DEF format, process, space, bytes, crc, status, f
<1>5. /\ status \in 0 .. 15
      /\ f = IF crc THEN WithAck(Feedback(format, NACK, process, cqi, status))
                    ELSE Feedback(format, NACK, process, cqi, status)
  BY <1>3, <1>4 DEF status, f
<1>6. /\ f.format = format /\ ProcessIn(f) = process /\ StatusIn(f) = status
      /\ format = 1 => BitIn(f) = IF crc THEN ACK ELSE NACK
  <2> DEFINE g == Feedback(format, NACK, process, cqi, status)
  <2>1. /\ g.format = format /\ WithAck(g).format = format
        /\ ProcessIn(g) = process /\ ProcessIn(WithAck(g)) = process
        /\ StatusIn(g) = status /\ StatusIn(WithAck(g)) = status
        /\ BitIn(g) = NACK
        /\ format = 1 => BitIn(WithAck(g)) = ACK
    BY <1>2, <1>5, FeedbackFields
  <2>2. crc => f = WithAck(g)
    BY <1>5
  <2>3. ~crc => f = g
    BY <1>5
  <2> HIDE DEF g
  <2>4. CASE crc
    BY <2>1, <2>2, <2>4
  <2>5. CASE ~crc
    BY <2>1, <2>3, <2>5
  <2> QED
    BY <2>4, <2>5
<1> QED
  BY <1>6 DEF format, process, space, bytes, crc, status, f

\* A response that comes back names the process its request came from and says
\* whether the packet was decoded, for any number of processes and any buffer.
THEOREM ResponsesTellOutcome == Spec => []ResponseTellsOutcome
<1>1. IInv => ResponseTellsOutcome
  <2> SUFFICES ASSUME IInv, IsReply PROVE ResponseTellsOutcome
    BY DEF ResponseTellsOutcome
  <2>1. IsReplyMessage(sent) /\ air.feedback = sent.feedback
    BY DEF IInv, MadeOfSent, IsReply, IsData, TxConfig
  <2> QED
    BY <2>1, ReplyTells DEF ResponseTellsOutcome
<1> QED
  BY <1>1, InductiveInvariant, PTL

\* The buffer status of a response is never below the space the packet leaves,
\* and for a packet of up to 255 bytes not above it: for every size of the buffer.
THEOREM StatusTellsSpaceLeft == Spec => []StatusTellsSpace
<1>1. IInv => StatusTellsSpace
  <2> SUFFICES ASSUME IInv, IsReply, sent.request.bytes <= BufferSize
               PROVE  StatusTellsSpace
    BY DEF StatusTellsSpace
  <2> DEFINE bytes == sent.request.bytes
             left == BufferSize - bytes
             space == RemoveBufferSpace(BufferSize, bytes)
             status == StatusIn(air.feedback)
  <2>1. IsReplyMessage(sent) /\ air.feedback = sent.feedback
    BY DEF IInv, MadeOfSent, IsReply, IsData, TxConfig
  <2>2. /\ bytes \in Nat /\ BufferSize \in Nat /\ bytes <= BufferSize
        /\ left \in Nat
    BY <2>1, BufferSizeIsNat DEF IsReplyMessage
  <2>3. status = BufferStatus(space)
    BY <2>1, ReplyTells
  <2>4. /\ space \in Nat /\ left <= space
        /\ bytes < 256 => space = left
    BY <2>2 DEF RemoveBufferSpace
  <2>5. /\ status \in 0 .. 15
        /\ status = 0 => space = 0
        /\ status \in 1 .. 14 => space <= 2^(status + 3)
        /\ status \in 2 .. 15 => space > 2^(status + 2)
    BY <2>3, <2>4, StatusBounds
  <2>6. status < 15 => left <= (IF status = 0 THEN 0 ELSE 2^(status + 3))
    <3> HIDE DEF status, space, left
    <3> QED
      BY <2>2, <2>4, <2>5
  <2>7. bytes < 256 /\ status > 1 => left > 2^(status + 2)
    <3> HIDE DEF status, space, left, bytes
    <3> QED
      BY <2>4, <2>5
  <2> QED
    BY <2>6, <2>7, Zenon DEF StatusTellsSpace
<1> QED
  BY <1>1, InductiveInvariant, PTL


\* What pcc_cb makes of a header is what the sender meant, for a device whose
\* address has not 255 in its high byte.
LEMMA HeaderTellsMeaning ==
    ASSUME IInv, NEW id \in Ids, id \in listening, \A i \in Ids : Hi(i) # 255
    PROVE  /\ IsRequest(air, id) <=> sent.to \in {id, Broadcast} /\ sent.usage = "HARQ"
           /\ IsResponse(air, id) <=>
                 sent.to \in {id, Broadcast} /\ sent.feedback # NoFeedback
<1>1. /\ IsData(sent) \/ IsReplyMessage(sent)
      /\ \E search \in Searches(sent.data_size, began.mcs, began.left_alone) :
            air = TxConfig(sent.from, search, sent.usage, sent.data_size,
                           sent.to, sent.process, sent.feedback)
  BY DEF IInv, MadeOfSent
<1>2. /\ air.type = IF sent.usage = "BEACON" THEN 1 ELSE 2
      /\ air.header_format = IF sent.usage = "NO_HARQ" THEN 1 ELSE 0
      /\ air.short_network = NetworkId % 256
      /\ air.receiver_hi = Hi(sent.to) /\ air.receiver_lo = Lo(sent.to)
      /\ air.feedback = sent.feedback
  BY <1>1 DEF TxConfig
<1>3. sent.to \in Ids \cup {Broadcast}
  BY <1>1 DEF IsData, IsReplyMessage
<1>4. sent.to \in Int /\ id \in Int
  BY <1>3, IdsAreInt
<1>5. ForDevice(air, id) <=> sent.to = id
  BY <1>2, <1>4, BytesTellAddress DEF ForDevice
<1>6. air.receiver_hi = 255 /\ air.receiver_lo = 255 <=> sent.to = Broadcast
  BY <1>2, <1>4, BytesTellBroadcast
<1>7. IsRequest(air, id) <=> sent.to \in {id, Broadcast} /\ sent.usage = "HARQ"
  <2>1. Ours(air) /\ air.header_format = 0 <=> sent.usage = "HARQ"
    BY <1>1, <1>2 DEF Ours, IsData, IsReplyMessage, Usages
  <2> QED
    BY <1>5, <1>6, <2>1 DEF IsRequest
<1>8. CASE IsData(sent)
  <2>1. sent.feedback = NoFeedback /\ air.feedback.format = 0
    BY <1>2, <1>8 DEF IsData, NoFeedback
  <2> QED
    BY <1>7, <2>1 DEF IsResponse
<1>9. CASE IsReplyMessage(sent)
  <2>1. sent.to \in Ids /\ sent.usage = "NO_HARQ"
    BY <1>9 DEF IsReplyMessage
  <2>2. Ours(air) /\ air.header_format = 1
    BY <1>2, <2>1 DEF Ours
  <2>3. air.feedback.format \in {1, 6} /\ sent.feedback # NoFeedback
    BY <1>2, <1>9, ReplyTells DEF NoFeedback
  <2>4. air.receiver_hi # 255 /\ sent.to # Broadcast
    BY <1>2, <1>4, <2>1, BytesTellBroadcast
  <2> QED
    BY <1>5, <1>7, <2>2, <2>3, <2>4 DEF IsResponse
<1> QED
  BY <1>1, <1>8, <1>9

\* A frame means to every node what its sender meant, whatever order the nodes
\* hear it in, as long as no address has 255 in its high byte: pcc_cb takes a
\* response to such an address for one to all.
THEOREM FramesTakenAsMeant ==
    ASSUME \A id \in Ids : Hi(id) # 255
    PROVE  Spec => []FrameTakenAsMeant
<1>1. Init => FrameTakenAsMeant
  BY DEF Init, FrameTakenAsMeant
<1>2. IInv /\ FrameTakenAsMeant /\ [Next]_vars => FrameTakenAsMeant'
  <2> SUFFICES ASSUME IInv, FrameTakenAsMeant, [Next]_vars
               PROVE  FrameTakenAsMeant'
    OBVIOUS
  <2>1. ASSUME NEW message, NEW mcs, NEW left_alone, Send(message, mcs, left_alone)
        PROVE  FrameTakenAsMeant'
    <3>1. Ids \ (listening' \cup {sent'.from}) = {}
      BY <2>1 DEF Send
    <3> QED
      BY <3>1 DEF FrameTakenAsMeant
  <2>2. CASE SendData \/ SendReply
    BY <2>1, <2>2 DEF SendData, SendReply
  <2>3. CASE Silence
    BY <2>3 DEF Silence, FrameTakenAsMeant
  <2>4. ASSUME NEW id \in Ids, Hear(id) PROVE FrameTakenAsMeant'
    <3>1. /\ id \in listening /\ listening' = listening \ {id}
          /\ air' = air /\ sent' = sent
      BY <2>4 DEF Hear
    <3>2. taken \in [Ids -> {"nothing", "request", "response"}]
      BY DEF IInv, TypeOK
    <3>3. /\ \A i \in Ids \ {id} : taken'[i] = taken[i]
          /\ taken'[id] = "request" <=> IsRequest(air, id)
          /\ taken'[id] = "response" <=> ~IsRequest(air, id) /\ IsResponse(air, id)
      BY <2>4, <3>2 DEF Hear
    <3>4. IsResponse(air, id) => ~IsRequest(air, id)
      BY DEF IsResponse, IsRequest
    <3>5. /\ taken'[id] = "request" <=>
                sent.to \in {id, Broadcast} /\ sent.usage = "HARQ"
          /\ taken'[id] = "response" <=>
                sent.to \in {id, Broadcast} /\ sent.feedback # NoFeedback
      BY <3>1, <3>3, <3>4, HeaderTellsMeaning
    <3> QED
      BY <3>1, <3>3, <3>5 DEF FrameTakenAsMeant
  <2>5. CASE UNCHANGED vars
    BY <2>5 DEF vars, FrameTakenAsMeant
  <2> QED
    BY <2>2, <2>3, <2>4, <2>5 DEF Next
<1> QED
  BY <1>1, <1>2, InductiveInvariant, PTL DEF Spec

-----------------------------------------------------------------------------
(***************************************************************************)
(* A packet holds its data                                                 *)
(***************************************************************************)

\* The table: a row grows with the length, and ends with lengths there are not.
LEMMA RowsGrow ==
    ASSUME NEW mcs \in Mcs, NEW l \in Lengths, NEW k \in Lengths, k <= l
    PROVE  /\ BytePerMcsAndLength[mcs][l] \in -1 .. 700
           /\ BytePerMcsAndLength[mcs][l] # -1 =>
                 BytePerMcsAndLength[mcs][k] \in 0 .. BytePerMcsAndLength[mcs][l]
<1> DEFINE Grows(m) == /\ BytePerMcsAndLength[m][l] \in -1 .. 700
                       /\ BytePerMcsAndLength[m][l] # -1 =>
                             BytePerMcsAndLength[m][k] \in 0 .. BytePerMcsAndLength[m][l]
<1>0. Grows(0)
  BY SMTT(60) DEF BytePerMcsAndLength, Mcs, Lengths
<1>1. Grows(1)
  BY SMTT(60) DEF BytePerMcsAndLength, Mcs, Lengths
<1>2. Grows(2)
  BY SMTT(60) DEF BytePerMcsAndLength, Mcs, Lengths
<1>3. Grows(3)
  BY SMTT(60) DEF BytePerMcsAndLength, Mcs, Lengths
<1>4. Grows(4)
  BY SMTT(60) DEF BytePerMcsAndLength, Mcs, Lengths
<1> HIDE DEF Grows
<1>5. mcs = 0 \/ mcs = 1 \/ mcs = 2 \/ mcs = 3 \/ mcs = 4
  BY DEF Mcs
<1>6. Grows(mcs)
  BY <1>0, <1>1, <1>2, <1>3, <1>4, <1>5, SMTT(30)
<1> QED
  BY <1>6, SMTT(30) DEF Grows

\* What get_packet_length finds: the first length that holds the data, or none.
LEMMA PacketLengthHolds ==
    ASSUME NEW mcs \in Mcs, NEW size \in Nat, AsInt16(size) = size, NEW length,
           length = PacketLength(size, mcs)
    PROVE  /\ length \in Lengths \/ length = TooBig
           /\ length \in Lengths => BytePerMcsAndLength[mcs][length] >= size
           /\ \A l \in Lengths : l < length => BytePerMcsAndLength[mcs][l] < size
<1> DEFINE S == {l \in Lengths : Holds(l, mcs, size)} \cup {TooBig}
<1>1. length = Min(S)
  BY DEF PacketLength
<1>2. S \in SUBSET Nat /\ S # {}
  BY DEF Lengths, TooBig
<1>3. length \in S /\ \A l \in S : length <= l
  BY <1>1, <1>2, MinProperties
<1>5. ASSUME NEW l \in Lengths
      PROVE  /\ BytePerMcsAndLength[mcs][l] \in Int
             /\ l \in S <=> BytePerMcsAndLength[mcs][l] >= size
  BY TableIsInt, SMT DEF Holds, Lengths, TooBig
<1>6. length \in Lengths => BytePerMcsAndLength[mcs][length] >= size
  BY <1>3, <1>5
<1>7. ASSUME NEW l \in Lengths, l < length PROVE BytePerMcsAndLength[mcs][l] < size
  <2>1. l \notin S
    BY <1>3, <1>7 DEF Lengths, TooBig
  <2> QED
    BY <1>5, <2>1
<1> QED
  BY <1>3, <1>6, <1>7

\* The MCS of the loop when it is left alone is one of this device,
LEMMA RaisedInRange ==
    ASSUME NEW size, NEW mcs \in NodeMcs
    PROVE  Raised(size, mcs) \in 0 .. McsMax
<1> DEFINE S == {k \in mcs + 1 .. McsMax : PacketLength(size, k) # TooBig} \cup {McsMax}
<1>1. S \in SUBSET Nat /\ S # {} /\ S \subseteq 0 .. McsMax
  BY FramesAssumption DEF NodeMcs
<1>2. Raised(size, mcs) = Min(S)
  BY DEF Raised
<1> HIDE DEF S
<1> QED
  BY <1>1, <1>2, MinProperties

\* and the data fits it when it fits a higher one than the loop began with or
\* mcs_max.
LEMMA RaisedFits ==
    ASSUME NEW size, NEW mcs \in NodeMcs, NEW m \in (mcs + 1 .. McsMax) \cup {McsMax},
           PacketLength(size, m) # TooBig
    PROVE  PacketLength(size, Raised(size, mcs)) # TooBig
<1> DEFINE S == {k \in mcs + 1 .. McsMax : PacketLength(size, k) # TooBig}
           c == Raised(size, mcs)
<1>1. c = Min(S \cup {McsMax})
  BY DEF Raised
<1>2. S \cup {McsMax} \in SUBSET Int /\ S \cup {McsMax} # {}
      /\ \A k \in S \cup {McsMax} : k \in Nat
  BY FramesAssumption DEF NodeMcs
<1>3. c \in S \cup {McsMax} /\ \A k \in S \cup {McsMax} : c <= k
  BY <1>1, <1>2, MinProperties
<1>4. c \in S \/ c = m
  BY <1>2, <1>3
<1> QED
  BY <1>4

\* get_bytes_from_packet_length undoes get_packet_length: the receiver counts at
\* least the bytes of the data, and fewer for every shorter packet.
LEMMA BytesOfPacket ==
    ASSUME NEW mcs \in Mcs, NEW size \in Nat, AsInt16(size) = size, NEW length,
           length = PacketLength(size, mcs), length # TooBig
    PROVE  /\ BytesFromPacketLength(length, mcs) >= size
           /\ \A l \in 0 .. length - 1 : BytesFromPacketLength(l, mcs) < size
<1>1. /\ length \in Lengths /\ BytePerMcsAndLength[mcs][length] >= size
      /\ \A l \in Lengths : l < length => BytePerMcsAndLength[mcs][l] < size
  BY PacketLengthHolds
<1>2. ASSUME NEW l \in Lengths, l <= length
      PROVE  BytesFromPacketLength(l, mcs) = BytePerMcsAndLength[mcs][l]
  <2> DEFINE n == BytePerMcsAndLength[mcs][l]
             last == BytePerMcsAndLength[mcs][length]
  <2>1. last \in -1 .. 700 /\ (last # -1 => n \in 0 .. last)
    BY <1>1, <1>2, RowsGrow
  <2>2. last >= size
    BY <1>1
  <2>3. BytesFromPacketLength(l, mcs) = n % 65536
    BY SMT DEF BytesFromPacketLength
  <2> HIDE DEF n, last
  <2>4. n \in 0 .. 700
    BY <2>1, <2>2
  <2>5. n % 65536 = n
    BY <2>4, SMT
  <2> QED
    BY <2>3, <2>5 DEF n
<1>3. \A l \in 0 .. length - 1 : l \in Lengths /\ l < length /\ l <= length
  BY <1>1 DEF Lengths
<1>4. length <= length
  BY <1>1 DEF Lengths
<1> QED
  BY <1>1, <1>2, <1>3, <1>4

\* The data fits an MCS when get_packet_length finds a length for it.
LEMMA FitsMeansFound ==
    ASSUME NEW mcs \in Mcs, sent.data_size \in Nat,
           AsInt16(sent.data_size) = sent.data_size
    PROVE  Fits(mcs) <=> PacketLength(sent.data_size, mcs) # TooBig
<1> DEFINE size == sent.data_size
           length == PacketLength(size, mcs)
<1>1. /\ length \in Lengths \/ length = TooBig
      /\ length \in Lengths => BytePerMcsAndLength[mcs][length] >= size
      /\ \A l \in Lengths : l < length => BytePerMcsAndLength[mcs][l] < size
  BY PacketLengthHolds
<1>2. \A l \in Lengths : BytePerMcsAndLength[mcs][l] \in Int /\ l < TooBig
  BY TableIsInt DEF Lengths, TooBig
<1>3. TooBig \notin Lengths
  BY DEF Lengths, TooBig
<1> HIDE DEF length
<1>4. CASE length = TooBig
  <2>1. \A l \in Lengths : ~(BytePerMcsAndLength[mcs][l] >= size)
    BY <1>1, <1>2, <1>4
  <2> QED
    BY <1>4, <2>1, Zenon DEF Fits, length
<1>5. CASE length # TooBig
  BY <1>1, <1>5, Zenon DEF Fits, length
<1> QED
  BY <1>4, <1>5

\* What the receiver reads in a header is right, for any sizes, any highest MCS and
\* any order of the others that touch the node: the packet holds the data and no
\* shorter one of its MCS does, or none of its MCS does and it says so.  If nobody
\* touches the node while tx_config raises its MCS, no data that fits is marked.
THEOREM PacketsHoldData == Spec => []PacketHoldsData
<1>1. IInv => PacketHoldsData
  <2> SUFFICES ASSUME IInv, air # NoFrame, air.df_mcs \in Mcs
               PROVE  PacketHoldsData
    BY Zenon DEF PacketHoldsData
  <2> DEFINE size == sent.data_size
             mcs == began.mcs
  <2>1. /\ began \in [mcs : NodeMcs, left_alone : BOOLEAN]
        /\ IsData(sent) \/ IsReplyMessage(sent)
        /\ \E search \in Searches(size, mcs, began.left_alone) :
              air = TxConfig(sent.from, search, sent.usage, size,
                             sent.to, sent.process, sent.feedback)
    BY DEF IInv, MadeOfSent
  <2>2. PICK search \in Searches(size, mcs, began.left_alone) :
              air = TxConfig(sent.from, search, sent.usage, size,
                             sent.to, sent.process, sent.feedback)
    BY <2>1
  <2>3. /\ air.df_mcs = IF size = 0 THEN 0
                        ELSE search.mcs % (IF sent.usage = "BEACON" THEN 8 ELSE 16)
        /\ air.packet_length = IF size = 0 THEN 0 ELSE search.length % 16
    BY <2>2 DEF TxConfig
  <2>4. size \in Nat /\ AsInt16(size) = size
    <3>1. CASE IsData(sent)
      <4>1. size \in Sizes
        BY <3>1 DEF IsData
      <4> HIDE DEF size
      <4>2. size \in Int /\ 0 <= size /\ size < 32768
        BY <4>1, ReceiverAssumption, SMT
      <4> QED
        BY <4>2, SMT DEF AsInt16
    <3>2. CASE IsReplyMessage(sent)
      <4>1. size = 0
        BY <3>2 DEF IsReplyMessage
      <4> QED
        BY <4>1, SMT DEF AsInt16
    <3> QED
      BY <2>1, <3>1, <3>2
  <2>5. mcs \in NodeMcs
    BY <2>1
  <2> HIDE DEF mcs
  <2>6. PICK m \in NodeMcs :
           /\ search \in Lookup(size, m)
           /\ \/ m = mcs /\ search.length # TooBig
              \/ /\ \E c \in Lookup(size, mcs) : c.length = TooBig
                 /\ m \in IF began.left_alone THEN {Raised(size, mcs)} ELSE 0 .. McsMax
    <3>1. Raised(size, mcs) \in 0 .. McsMax
      BY <2>5, RaisedInRange
    <3>2. 0 .. McsMax \subseteq NodeMcs
      BY FramesAssumption DEF NodeMcs
    <3> HIDE DEF size
    <3> QED
      BY <2>2, <2>5, <3>1, <3>2, Zenon DEF Searches
  <2>7. CASE size = 0
    <3>1. 0 \in Mcs /\ BytePerMcsAndLength[0][0] = 0 /\ 0 \in Lengths
      BY DEF Mcs, Lengths, BytePerMcsAndLength
    <3>2. BytesFromPacketLength(0, 0) \in Nat
      BY BytesAreNat
    <3>3. 0 .. 0 - 1 = {}
      OBVIOUS
    <3>4. Fits(0)
      BY <2>7, <3>1 DEF Fits
    <3> QED
      BY <2>3, <2>7, <3>2, <3>3, <3>4 DEF PacketHoldsData
  <2>8. CASE size # 0
    <3>1. search.mcs = m /\ m \in Mcs
      <4>1. search.mcs = m
        BY <2>6, SMT DEF Lookup
      <4>2. m # -1
        BY <2>3, <2>8, <4>1, SMT DEF Mcs
      <4> QED
        BY <4>1, <4>2 DEF NodeMcs, Mcs
    <3>2. search.length = PacketLength(size, m)
      BY <2>6, <3>1, SMT DEF Lookup
    <3>3. air.df_mcs = m
      BY <2>3, <2>8, <3>1, SMT DEF Mcs
    <3>4. Fits(m) <=> search.length # TooBig
      BY <2>4, <3>1, <3>2, FitsMeansFound
    <3>5. CASE search.length # TooBig
      <4>1. search.length \in Lengths
        BY <2>4, <3>1, <3>2, <3>5, PacketLengthHolds
      <4>2. air.packet_length = search.length
        BY <2>3, <2>8, <4>1, SMT DEF Lengths
      <4>3. /\ BytesFromPacketLength(search.length, m) >= size
            /\ \A k \in 0 .. search.length - 1 : BytesFromPacketLength(k, m) < size
        BY <2>4, <3>1, <3>2, <3>5, BytesOfPacket
      <4> QED
        BY <3>3, <3>4, <3>5, <4>2, <4>3, Zenon DEF PacketHoldsData
    <3>6. CASE search.length = TooBig
      <4>1. air.packet_length = 0
        BY <2>3, <2>8, <3>6, SMT DEF TooBig
      <4>2. ASSUME began.left_alone,
                   NEW n \in Mcs \cap ({mcs, McsMax} \cup mcs .. McsMax), Fits(n)
            PROVE  FALSE
        <5>1. PacketLength(size, n) # TooBig
          BY <2>4, <4>2, FitsMeansFound
        <5>2. /\ \E c \in Lookup(size, mcs) : c.length = TooBig
              /\ m = Raised(size, mcs)
          BY <2>6, <3>6, <4>2
        <5>3. n # mcs
          BY <4>2, <5>1, <5>2, SMT DEF Lookup
        <5>4. n \in (mcs + 1 .. McsMax) \cup {McsMax}
          BY <2>5, <4>2, <5>3, FramesAssumption DEF NodeMcs, Mcs
        <5>5. PacketLength(size, m) # TooBig
          BY <2>5, <5>1, <5>2, <5>4, RaisedFits
        <5> QED
          BY <3>2, <3>6, <5>5
      <4> QED
        BY <3>3, <3>4, <3>6, <4>1, <4>2, Zenon DEF PacketHoldsData, mcs
    <3> QED
      BY <3>5, <3>6
  <2> QED
    BY <2>7, <2>8
<1> QED
  BY <1>1, InductiveInvariant, PTL
=============================================================================
