--------------------------- MODULE HarqLink_proofs ---------------------------
(***************************************************************************)
(* Proofs about HarqLink, for any number of processes, blocks and          *)
(* transmissions, any frames and any faults.                               *)
(***************************************************************************)
EXTENDS HarqLink, DataLemmas, FiniteSetTheorems, TLAPS

-----------------------------------------------------------------------------
(***************************************************************************)
(* The inductive invariant                                                 *)
(***************************************************************************)
Prios == {"HIGH", "MEDIUM"}

\* What may keep a process going.
InQueue(p) == \E prio \in Prios :
                 \E i \in 1 .. Len(queue[prio]) : queue[prio][i].proc = p
InPhy(p)     == phy # NULL /\ phy.half = "tx" /\ phy.op.proc = p
Sending(p)   == sender.pc # "idle" /\ sender.proc = p
Resending(p) == worker.pc # "idle" /\ worker.proc = p
Scheduled(p) == retransmission_work[p] # "idle"

\* A process has one operation in the queue at most.
OneOp ==
    \A prio1, prio2 \in Prios :
        \A i \in 1 .. Len(queue[prio1]), j \in 1 .. Len(queue[prio2]) :
            queue[prio1][i].proc = queue[prio2][j].proc => prio1 = prio2 /\ i = j

\* These exclude each other,
Exclusive(p) ==
    /\ InQueue(p)   => ~InPhy(p) /\ ~Sending(p) /\ ~Resending(p) /\ ~Scheduled(p)
    /\ InPhy(p)     => ~Sending(p) /\ ~Resending(p) /\ ~Scheduled(p)
    /\ Sending(p)   => ~Resending(p) /\ ~Scheduled(p)
    /\ Resending(p) => ~Scheduled(p)
    /\ abandoned[p] => /\ ~InQueue(p) /\ ~InPhy(p) /\ ~Sending(p)
                       /\ ~Resending(p) /\ ~Scheduled(p)

\* a process is occupied when one of them keeps it going or it was abandoned, and
\* only then.
Driven(p) ==
    occupied[p] <=> \/ InQueue(p) \/ InPhy(p) \/ Sending(p) \/ Resending(p)
                    \/ Scheduled(p) \/ abandoned[p]

\* A frame of a process or its response is on the way.
Pending(p) == air[p] # NULL \/ reply[p] # "none"

\* The delay of the work is not over then, unless nobody scheduled it.
Awaited(p) ==
    /\ Pending(p) => retransmission_work[p] = "delayed" \/ abandoned[p]
    /\ air[p] # NULL => reply[p] = "none"

DriveInv ==
    /\ LinkTypeOK
    /\ OneOp
    /\ \A p \in Procs : Exclusive(p) /\ Driven(p) /\ Awaited(p)

\* What the operation of a process has to carry.
Current(op) ==
    /\ op.data # NULL /\ op.data = data[op.proc]
    /\ op.rv = redundancy_version[op.proc]
    /\ op.ndi = new_data_indication[op.proc]

OpsCurrent ==
    /\ \A prio \in Prios :
          \A i \in 1 .. Len(queue[prio]) : Current(queue[prio][i])
    /\ phy # NULL /\ phy.half = "tx" => Current(phy.op)

\* Whose message is where: with the process once the sender has filled it.
DataKnown(p) ==
    data[p] # NULL <=>
        occupied[p] /\ ~(Sending(p) /\ sender.pc \in {"malloc", "fill"})

SenderHolds == sender.data # NULL <=> sender.pc = "fill"

\* The count is one ahead of the transmissions until the operation is sent.
CountAhead(p) ==
    transmission_count[p] = sent[p] + 1 /\ sent[p] < MaxTransmissions
CountMeets(p) ==
    /\ transmission_count[p] = sent[p]
    /\ 1 <= sent[p] /\ sent[p] <= MaxTransmissions

Counted(p) ==
    /\ sent[p] <= MaxTransmissions
    /\ Sending(p) => sent[p] = 0
    /\ Sending(p) /\ sender.pc = "put" => transmission_count[p] = 1
    /\ InQueue(p) \/ InPhy(p) => CountAhead(p)
    /\ Scheduled(p) \/ Pending(p) => CountMeets(p)
    /\ Resending(p) => IF worker.pc = "put" THEN CountAhead(p) ELSE CountMeets(p)
    /\ Resending(p) /\ worker.pc = "again" => sent[p] < MaxTransmissions
    /\ Resending(p) /\ worker.pc \in {"give", "forget"} =>
          sent[p] = MaxTransmissions

\* Who answers for a block of the heap: the sender, or the process that has it,
\* until the work's thread frees it.
Holds(p) == data[p] # NULL /\ ~(worker.pc = "forget" /\ worker.proc = p)

HeapKnown ==
    /\ \A b \in Buffers :
          b \in heap <=> sender.data = b \/ \E p \in Procs : Holds(p) /\ data[p] = b
    /\ \A p \in Procs : Holds(p) => data[p] # sender.data
    /\ \A p, q \in Procs : Holds(p) /\ Holds(q) /\ data[p] = data[q] => p = q

\* A response says what the other node made of the frame.
AckMeansGot(p) == reply[p] = "ack" => got[p]

IInv ==
    /\ DriveInv
    /\ OpsCurrent
    /\ SenderHolds
    /\ \A p \in Procs : DataKnown(p) /\ Counted(p) /\ AckMeansGot(p)
    /\ HeapKnown

-----------------------------------------------------------------------------
(***************************************************************************)
(* The queue                                                               *)
(***************************************************************************)

\* The operation PutOp builds for process p.
OpOf(p) == [proc |-> p, data |-> data[p], rv |-> redundancy_version[p],
            ndi |-> new_data_indication[p]]

\* It is an operation.
LEMMA OpOfType ==
    ASSUME TypeOK, NEW p \in Procs
    PROVE  OpOf(p) \in Op /\ OpOf(p).proc = p
BY Zenon DEF TypeOK, OpOf, Op

\* What PutOp leaves in the queue: what was there and perhaps the operation of p.
LEMMA PutOpQueue ==
    ASSUME TypeOK, OneOp, NEW p \in Procs, ~InQueue(p), NEW prio \in Prios,
           PutOp(p, prio)
    PROVE  /\ queue' \in [Prios -> Seq(Op)]
           /\ OneOp'
           /\ \/ InQueue(p)' /\ UNCHANGED abandoned
              \/ ~InQueue(p)' /\ Abandon(p)
           /\ \A q \in Procs : InQueue(q) => InQueue(q)'
           /\ \A q \in Procs : q # p /\ InQueue(q)' => InQueue(q)
           /\ \A prio2 \in Prios : \A i \in 1 .. Len(queue'[prio2]) :
                 \/ i \in 1 .. Len(queue[prio2])
                    /\ queue'[prio2][i] = queue[prio2][i]
                 \/ queue'[prio2][i] = OpOf(p)
<1> DEFINE s == queue[prio]
           t == Append(s, OpOf(p))
<1>1. OpOf(p) \in Op /\ OpOf(p).proc = p
  BY OpOfType
<1>2. queue \in [Prios -> Seq(Op)] /\ s \in Seq(Op)
  BY DEF TypeOK, Prios
<1>3. CASE UNCHANGED queue /\ Abandon(p)
  BY <1>2, <1>3 DEF OneOp, InQueue
<1>4. CASE queue' = [queue EXCEPT ![prio] = t] /\ UNCHANGED abandoned
  <2>1. /\ t \in Seq(Op) /\ Len(t) = Len(s) + 1 /\ Len(s) \in Nat
        /\ \A i \in 1 .. Len(s) : t[i] = s[i]
        /\ t[Len(s) + 1] = OpOf(p)
    BY <1>1, <1>2, AppendProperties, LenProperties
  <2> HIDE DEF t
  <2>2. /\ queue' \in [Prios -> Seq(Op)] /\ queue'[prio] = t
        /\ \A prio2 \in Prios : prio2 # prio => queue'[prio2] = queue[prio2]
    BY <1>2, <1>4, <2>1
  <2>3. ASSUME NEW prio2 \in Prios, NEW i \in 1 .. Len(queue'[prio2])
        PROVE  \/ i \in 1 .. Len(queue[prio2])
                  /\ queue'[prio2][i] = queue[prio2][i]
               \/ /\ prio2 = prio /\ i = Len(s) + 1
                  /\ queue'[prio2][i] = OpOf(p)
    <3>1. CASE prio2 # prio
      BY <2>2, <3>1
    <3>2. CASE prio2 = prio
      <4>1. i \in 1 .. Len(s) \/ i = Len(s) + 1
        BY <2>1, <2>2, <3>2
      <4> QED
        BY <2>1, <2>2, <3>2, <4>1
    <3> QED
      BY <3>1, <3>2
  <2>4. ASSUME NEW prio2 \in Prios, NEW i \in 1 .. Len(queue[prio2])
        PROVE  i \in 1 .. Len(queue'[prio2])
               /\ queue'[prio2][i] = queue[prio2][i]
    <3>1. CASE prio2 # prio
      BY <2>2, <3>1
    <3>2. CASE prio2 = prio
      <4>1. i \in 1 .. Len(s) /\ i \in 1 .. Len(s) + 1
        BY <2>1, <3>2
      <4> QED
        BY <2>1, <2>2, <3>2, <4>1
    <3> QED
      BY <3>1, <3>2
  <2>5. InQueue(p)'
    <3>1. Len(s) + 1 \in 1 .. Len(t)
      BY <2>1
    <3> QED
      BY <1>1, <2>1, <2>2, <3>1, Zenon DEF InQueue
  <2>6. OneOp'
    <3> SUFFICES ASSUME NEW prio1 \in Prios, NEW prio2 \in Prios,
                        NEW i \in 1 .. Len(queue'[prio1]),
                        NEW j \in 1 .. Len(queue'[prio2]),
                        queue'[prio1][i].proc = queue'[prio2][j].proc
                 PROVE  prio1 = prio2 /\ i = j
      BY DEF OneOp
    <3>1. \A prio3 \in Prios : \A k \in 1 .. Len(queue[prio3]) :
             queue[prio3][k].proc # p
      BY DEF InQueue
    <3>2. CASE i \in 1 .. Len(queue[prio1])
               /\ queue'[prio1][i] = queue[prio1][i]
      <4>1. queue'[prio1][i].proc # p
        BY <3>1, <3>2
      <4>2. /\ j \in 1 .. Len(queue[prio2])
            /\ queue'[prio2][j] = queue[prio2][j]
        BY <1>1, <2>3, <4>1
      <4>3. queue[prio1][i].proc = queue[prio2][j].proc
        BY <3>2, <4>2
      <4> QED
        BY <3>2, <4>2, <4>3 DEF OneOp
    <3>3. CASE prio1 = prio /\ i = Len(s) + 1 /\ queue'[prio1][i] = OpOf(p)
      BY <1>1, <2>3, <3>1, <3>3
    <3> QED
      BY <2>3, <3>2, <3>3
  <2>7. \A q \in Procs : InQueue(q) => InQueue(q)'
    BY <2>4, Zenon DEF InQueue
  <2>8. ASSUME NEW q \in Procs, q # p, InQueue(q)'
        PROVE  InQueue(q)
    <3>1. PICK prio2 \in Prios : \E i \in 1 .. Len(queue'[prio2]) :
                                    queue'[prio2][i].proc = q
      BY <2>8 DEF InQueue
    <3>2. PICK i \in 1 .. Len(queue'[prio2]) : queue'[prio2][i].proc = q
      BY <3>1
    <3>3. /\ i \in 1 .. Len(queue[prio2])
          /\ queue[prio2][i].proc = q
      BY <1>1, <2>3, <2>8, <3>2
    <3> QED
      BY <3>3, Zenon DEF InQueue
  <2>9. \A prio2 \in Prios : \A i \in 1 .. Len(queue'[prio2]) :
           \/ i \in 1 .. Len(queue[prio2])
              /\ queue'[prio2][i] = queue[prio2][i]
           \/ queue'[prio2][i] = OpOf(p)
    BY <2>3, Zenon
  <2> QED
    BY <1>4, <2>2, <2>5, <2>6, <2>7, <2>8, <2>9, Zenon
<1> QED
  BY <1>3, <1>4 DEF PutOp, OpOf

\* What Transmit takes from the queue: the operation the PHY gets, and nothing
\* else of its process is there.
LEMMA TransmitQueue ==
    ASSUME TypeOK, OneOp, NEW prio \in Prios, Transmit(prio)
    PROVE  /\ queue' \in [Prios -> Seq(Op)]
           /\ OneOp'
           /\ 1 \in 1 .. Len(queue[prio])
           /\ phy' = [half |-> "tx", op |-> queue[prio][1]]
           /\ queue[prio][1] \in Op
           /\ \A q \in Procs : q = queue[prio][1].proc => ~InQueue(q)'
           /\ \A q \in Procs : InQueue(q)' => InQueue(q)
           /\ \A q \in Procs :
                 InQueue(q) => InQueue(q)' \/ q = queue[prio][1].proc
           /\ \A prio2 \in Prios : \A i \in 1 .. Len(queue'[prio2]) :
                 \E j \in 1 .. Len(queue[prio2]) :
                    queue'[prio2][i] = queue[prio2][j]
<1> DEFINE s == queue[prio]
           t == Tail(s)
<1>1. queue \in [Prios -> Seq(Op)] /\ s \in Seq(Op) /\ s # <<>>
  BY DEF TypeOK, Prios, Transmit
<1>2. /\ Head(s) = s[1] /\ Head(s) \in Op
      /\ t \in Seq(Op) /\ Len(t) = Len(s) - 1
      /\ \A i \in 1 .. Len(t) : t[i] = s[i + 1]
      /\ Len(s) \in Nat \ {0}
  BY <1>1, HeadTailProperties, EmptySeq
<1> HIDE DEF t
<1>3. /\ queue' = [queue EXCEPT ![prio] = t]
      /\ phy' = [half |-> "tx", op |-> Head(s)]
  BY DEF Transmit, t
<1>4. /\ queue' \in [Prios -> Seq(Op)] /\ queue'[prio] = t
      /\ \A prio2 \in Prios : prio2 # prio => queue'[prio2] = queue[prio2]
  BY <1>1, <1>2, <1>3
<1> DEFINE Shift(prio2, i) == IF prio2 = prio THEN i + 1 ELSE i
<1>5. ASSUME NEW prio2 \in Prios, NEW i \in 1 .. Len(queue'[prio2])
      PROVE  /\ Shift(prio2, i) \in 1 .. Len(queue[prio2])
             /\ prio2 # prio \/ Shift(prio2, i) # 1
             /\ queue'[prio2][i] = queue[prio2][Shift(prio2, i)]
  <2>1. CASE prio2 # prio
    BY <1>4, <2>1
  <2>2. CASE prio2 = prio
    <3>1. i \in 1 .. Len(t) /\ i + 1 \in 1 .. Len(s) /\ i + 1 # 1
      BY <1>2, <1>4, <2>2
    <3> QED
      BY <1>2, <1>4, <2>2, <3>1
  <2> QED
    BY <2>1, <2>2
<1>6. OneOp'
  <2> SUFFICES ASSUME NEW prio1 \in Prios, NEW prio2 \in Prios,
                      NEW i \in 1 .. Len(queue'[prio1]),
                      NEW j \in 1 .. Len(queue'[prio2]),
                      queue'[prio1][i].proc = queue'[prio2][j].proc
               PROVE  prio1 = prio2 /\ i = j
    BY DEF OneOp
  <2> DEFINE k == Shift(prio1, i)
             l == Shift(prio2, j)
  <2>1. /\ k \in 1 .. Len(queue[prio1]) /\ queue'[prio1][i] = queue[prio1][k]
        /\ l \in 1 .. Len(queue[prio2]) /\ queue'[prio2][j] = queue[prio2][l]
    BY <1>5
  <2>2. queue[prio1][k].proc = queue[prio2][l].proc
    BY <2>1
  <2>3. i \in Int /\ j \in Int
    OBVIOUS
  <2>4. prio1 = prio2 /\ k = l
    <3> HIDE DEF k, l
    <3> QED
      BY <2>1, <2>2 DEF OneOp
  <2> QED
    BY <2>3, <2>4
<1>7. 1 \in 1 .. Len(s)
  BY <1>2
<1>8. ASSUME NEW q \in Procs, q = s[1].proc, InQueue(q)'
      PROVE  FALSE
  <2>1. PICK prio2 \in Prios : \E i \in 1 .. Len(queue'[prio2]) :
                                  queue'[prio2][i].proc = q
    BY <1>8 DEF InQueue
  <2>2. PICK i \in 1 .. Len(queue'[prio2]) : queue'[prio2][i].proc = q
    BY <2>1
  <2> DEFINE k == Shift(prio2, i)
  <2>3. /\ k \in 1 .. Len(queue[prio2])
        /\ queue[prio2][k].proc = queue[prio][1].proc
        /\ prio2 # prio \/ k # 1
    BY <1>5, <1>8, <2>2
  <2> HIDE DEF k
  <2>4. prio2 = prio /\ k = 1
    BY <1>7, <2>3 DEF OneOp
  <2> QED
    BY <2>3, <2>4
<1>9. ASSUME NEW q \in Procs, InQueue(q)'
      PROVE  InQueue(q)
  <2>1. PICK prio2 \in Prios : \E i \in 1 .. Len(queue'[prio2]) :
                                  queue'[prio2][i].proc = q
    BY <1>9 DEF InQueue
  <2>2. PICK i \in 1 .. Len(queue'[prio2]) : queue'[prio2][i].proc = q
    BY <2>1
  <2> DEFINE k == Shift(prio2, i)
  <2>3. k \in 1 .. Len(queue[prio2]) /\ queue[prio2][k].proc = q
    BY <1>5, <2>2
  <2> HIDE DEF k
  <2> QED
    BY <2>3, Zenon DEF InQueue
<1>10. ASSUME NEW q \in Procs, InQueue(q), q # s[1].proc
       PROVE  InQueue(q)'
  <2>1. PICK prio2 \in Prios : \E i \in 1 .. Len(queue[prio2]) :
                                  queue[prio2][i].proc = q
    BY <1>10 DEF InQueue
  <2>2. PICK i \in 1 .. Len(queue[prio2]) : queue[prio2][i].proc = q
    BY <2>1
  <2>3. CASE prio2 # prio
    BY <1>4, <2>2, <2>3, Zenon DEF InQueue
  <2>4. CASE prio2 = prio
    <3>1. i # 1
      BY <1>10, <2>2, <2>4
    <3>2. i - 1 \in 1 .. Len(t) /\ (i - 1) + 1 = i
      BY <1>2, <2>4, <3>1
    <3>3. t[i - 1] = s[i]
      BY <1>2, <3>2
    <3> QED
      BY <1>4, <2>2, <2>4, <3>2, <3>3, Zenon DEF InQueue
  <2> QED
    BY <2>3, <2>4
<1>11. \A prio2 \in Prios : \A i \in 1 .. Len(queue'[prio2]) :
          \E j \in 1 .. Len(queue[prio2]) : queue'[prio2][i] = queue[prio2][j]
  BY <1>5, Zenon
<1> QED
  BY <1>2, <1>3, <1>4, <1>6, <1>7, <1>8, <1>9, <1>10, <1>11, Zenon

-----------------------------------------------------------------------------
(***************************************************************************)
(* The feedback                                                            *)
(***************************************************************************)

\* The feedback to the frame of a process names that process, and it is an
\* acknowledgement only when the CRC of the frame was right.
LEMMA FeedbackNamesProcess ==
    ASSUME NEW p \in Procs, NEW crc \in BOOLEAN, NEW feedback \in FeedbackTo[p][crc]
    PROVE  /\ Frame!ProcessIn(feedback) = p
           /\ Response(feedback) \in {"ack", "nack", "format6"}
           /\ Response(feedback) = "ack" => crc
<1>0. PICK search \in MessageSearches : feedback = FeedbackFor(p, search, crc)
  BY Zenon DEF FeedbackTo
<1> DEFINE header == Frame!TxConfig(0, search, "HARQ", Size, 1, p, Frame!NoFeedback)
           bytes  == Frame!BytesFromPacketLength(header.packet_length,
                                                 header.df_mcs)
           space  == Frame!RemoveBufferSpace(Frame!BufferSize, bytes)
           status == Frame!BufferStatus(space)
           format == IF bytes > Frame!BufferSize THEN 6 ELSE 1
           nack   == Frame!RequestFeedback(p, bytes, space, 0)
           back   == IF crc THEN Frame!WithAck(nack) ELSE nack
<1>1. header.harq_process = p
  BY DEF Frame!TxConfig
<1>2. feedback = back
  BY <1>0, <1>1, Zenon DEF FeedbackFor
<1>3. nack = [format |-> format, hi |-> 2 * p, lo |-> 0 + 16 * status]
  BY HarqAssumption DEF Frame!RequestFeedback, Frame!Feedback, Frame!NACK, Procs
<1>4. format \in {1, 6}
  OBVIOUS
<1>5. p \in Nat /\ (2 * p) \div 2 = p /\ (2 * p + 1) \div 2 = p
      /\ (2 * p) % 2 = 0 /\ (2 * p + 1) % 2 = 1
  BY HarqAssumption DEF Procs
<1> HIDE DEF header, bytes, space, status, format, nack
<1>6. /\ Frame!WithAck(nack).format = format
      /\ Frame!WithAck(nack).hi = IF format = 1 THEN 2 * p + 1 ELSE 2 * p
  BY <1>3, <1>4, <1>5 DEF Frame!WithAck, Frame!ProcessIn, Frame!ACK
<1>7. /\ back.format = format
      /\ back.hi \in {2 * p, 2 * p + 1}
      /\ ~crc => back.hi = 2 * p
  BY <1>3, <1>6
<1> HIDE DEF back
<1>8. Frame!ProcessIn(back) = p
  BY <1>5, <1>7 DEF Frame!ProcessIn
<1>9. ~crc => Frame!BitIn(back) = 0
  BY <1>5, <1>7 DEF Frame!BitIn
<1>10. Response(back) \in {"ack", "nack", "format6"}
       /\ (Response(back) = "ack" => crc)
  BY <1>9 DEF Response, Frame!ACK
<1> QED
  BY <1>2, <1>8, <1>10, Zenon

-----------------------------------------------------------------------------
(***************************************************************************)
(* The steps                                                               *)
(***************************************************************************)

\* Every step of HarqLink, and the request of another node.
Moves ==
    \/ LinkNext
    \/ \E p \in Procs : HarqRequest(p) /\ UNCHANGED linkVars

\* dect_mac_harq_init_process leaves the process without data.
LEMMA ResetTypes ==
    ASSUME TypeOK, NEW p \in Procs, ResetProcess(p)
    PROVE  /\ data' \in [Procs -> Buffers \cup {NULL}]
           /\ transmission_count' \in [Procs -> 0 .. 255]
           /\ redundancy_version' \in [Procs -> 0 .. 3]
<1>1. data' \in [Procs -> Buffers \cup {NULL}]
  BY DEF TypeOK, ResetProcess
<1>2. transmission_count' \in [Procs -> 0 .. 255]
  BY DEF TypeOK, ResetProcess
<1>3. redundancy_version' \in [Procs -> 0 .. 3]
  BY DEF TypeOK, ResetProcess
<1> QED
  BY <1>1, <1>2, <1>3

\* dect_mac_harq_give_process frees the process.
LEMMA ForgetTypes ==
    ASSUME TypeOK, NEW p \in Procs, ForgetProcess(p)
    PROVE  /\ data' \in [Procs -> Buffers \cup {NULL}]
           /\ transmission_count' \in [Procs -> 0 .. 255]
           /\ redundancy_version' \in [Procs -> 0 .. 3]
           /\ occupied' \in [Procs -> BOOLEAN]
           /\ abandoned' \in [Procs -> BOOLEAN]
           /\ retransmission_work' \in [Procs -> {"idle", "delayed", "submitted"}]
<1>1. occupied' \in [Procs -> BOOLEAN] /\ abandoned' \in [Procs -> BOOLEAN]
  BY DEF TypeOK, ForgetProcess
<1>2. retransmission_work' \in [Procs -> {"idle", "delayed", "submitted"}]
  BY DEF TypeOK, ForgetProcess
<1> QED
  BY <1>1, <1>2, ResetTypes DEF ForgetProcess

\* dect_mac_harq_increment_transmission_count keeps the count in its eight bits.
LEMMA CountsType ==
    ASSUME TypeOK, WorkCounts
    PROVE  transmission_count' \in [Procs -> 0 .. 255]
<1>1. \A c \in 0 .. 255 : (c + 1) % 256 \in 0 .. 255
  OBVIOUS
<1>2. worker.proc \in Procs /\ transmission_count \in [Procs -> 0 .. 255]
  BY DEF TypeOK
<1>3. transmission_count' =
        [transmission_count EXCEPT ![worker.proc] =
            (transmission_count[worker.proc] + 1) % 256]
  BY DEF WorkCounts
<1> DEFINE n == (transmission_count[worker.proc] + 1) % 256
<1>4. n \in 0 .. 255
  BY <1>1, <1>2
<1>5. transmission_count' = [transmission_count EXCEPT ![worker.proc] = n]
  BY <1>3
<1> HIDE DEF n
<1> QED
  BY <1>2, <1>4, <1>5

\* The types are kept.
LEMMA TypeStep ==
    ASSUME DriveInv, [Moves]_allVars
    PROVE  LinkTypeOK'
<1> USE DEF LinkTypeOK, TypeOK, linkVars, processVars
<1>1. CASE UNCHANGED allVars
  BY <1>1 DEF DriveInv, allVars, vars
<1>2. CASE LinkTake
  <2>1. PICK p \in Procs :
           /\ occupied' = [occupied EXCEPT ![p] = TRUE]
           /\ new_data_indication' = [new_data_indication EXCEPT ![p] = ~@]
           /\ sender' = [sender EXCEPT !.pc = "malloc", !.proc = p]
           /\ sent' = [sent EXCEPT ![p] = 0]
    BY <1>2 DEF LinkTake, TakeProcess
  <2>2. occupied' \in [Procs -> BOOLEAN]
        /\ new_data_indication' \in [Procs -> BOOLEAN]
    BY <2>1 DEF DriveInv
  <2>3. sender' \in [pc : {"idle", "malloc", "fill", "put"}, proc : Procs,
                     data : Buffers \cup {NULL}]
    BY <2>1 DEF DriveInv
  <2>4. sent' \in [Procs -> 0 .. MaxTransmissions + 1]
    <3>1. 0 \in 0 .. MaxTransmissions + 1
      BY HarqAssumption
    <3>2. sent \in [Procs -> 0 .. MaxTransmissions + 1]
      BY DEF DriveInv
    <3> HIDE DEF LinkTypeOK, TypeOK
    <3> QED
      BY <2>1, <3>1, <3>2
  <2>5. got' \in [Procs -> BOOLEAN]
    BY <1>2 DEF DriveInv, LinkTake
  <2> QED
    BY <1>2, <2>2, <2>3, <2>4, <2>5 DEF DriveInv, LinkTake, TakeProcess
<1>3. CASE Malloc /\ UNCHANGED linkVars
  BY <1>3 DEF DriveInv, Malloc
<1>4. CASE MallocFails /\ UNCHANGED linkVars
  <2>1. sender.proc \in Procs /\ ForgetProcess(sender.proc) /\ TypeOK
    BY <1>4 DEF DriveInv, MallocFails, GiveProcess
  <2> QED
    BY <1>4, <2>1, ForgetTypes DEF DriveInv, MallocFails, GiveProcess
<1>5. CASE Fill /\ UNCHANGED linkVars
  <2>1. transmission_count' \in [Procs -> 0 .. 255]
    BY <1>5 DEF DriveInv, Fill
  <2>2. data' \in [Procs -> Buffers \cup {NULL}]
    BY <1>5 DEF DriveInv, Fill
  <2> QED
    BY <1>5, <2>1, <2>2 DEF DriveInv, Fill
<1>6. CASE PutFirst /\ UNCHANGED linkVars
  <2>1. queue' \in [Prios -> Seq(Op)]
    <3>1. sender.proc \in Procs /\ ~InQueue(sender.proc) /\ "HIGH" \in Prios
      BY <1>6 DEF DriveInv, PutFirst, Exclusive, Sending, Prios
    <3>2. PutOp(sender.proc, "HIGH") /\ TypeOK /\ OneOp
      BY <1>6 DEF DriveInv, PutFirst
    <3> QED
      BY <3>1, <3>2, PutOpQueue
  <2>2. abandoned' \in [Procs -> BOOLEAN]
    BY <1>6 DEF DriveInv, PutFirst, PutOp, Abandon
  <2> QED
    BY <1>6, <2>1, <2>2 DEF DriveInv, PutFirst, Prios
<1>7. CASE \E p \in Procs : WorkStarts(p) /\ UNCHANGED linkVars
  BY <1>7 DEF DriveInv, WorkStarts
<1>8. CASE WorkChecks /\ UNCHANGED linkVars
  BY <1>8 DEF DriveInv, WorkChecks
<1>9. CASE WorkCounts /\ UNCHANGED linkVars
  <2>1. TypeOK
    BY DEF DriveInv
  <2>2. transmission_count' \in [Procs -> 0 .. 255]
    BY <1>9, <2>1, CountsType
  <2>3. worker' \in [pc : {"idle", "check", "again", "put", "give", "forget"},
                     proc : Procs]
    BY <1>9 DEF DriveInv, WorkCounts
  <2>4. UNCHANGED <<occupied, data, redundancy_version, new_data_indication,
                    retransmission_work, heap, sender, queue, phy, reply, sent,
                    abandoned, air, got>>
    BY <1>9 DEF WorkCounts
  <2> QED
    BY <2>2, <2>3, <2>4 DEF DriveInv
<1>10. CASE WorkPuts /\ UNCHANGED linkVars
  <2>1. queue' \in [Prios -> Seq(Op)]
    <3>1. worker.proc \in Procs /\ ~InQueue(worker.proc) /\ "MEDIUM" \in Prios
      BY <1>10 DEF DriveInv, WorkPuts, Exclusive, Resending, Prios
    <3>2. PutOp(worker.proc, "MEDIUM") /\ TypeOK /\ OneOp
      BY <1>10 DEF DriveInv, WorkPuts
    <3> QED
      BY <3>1, <3>2, PutOpQueue
  <2>2. abandoned' \in [Procs -> BOOLEAN]
    BY <1>10 DEF DriveInv, WorkPuts, PutOp, Abandon
  <2> QED
    BY <1>10, <2>1, <2>2 DEF DriveInv, WorkPuts, Prios
<1>11. CASE WorkFrees /\ UNCHANGED linkVars
  BY <1>11 DEF DriveInv, WorkFrees
<1>12. CASE WorkForgets /\ UNCHANGED linkVars
  <2>1. worker.proc \in Procs /\ ForgetProcess(worker.proc) /\ TypeOK
    BY <1>12 DEF DriveInv, WorkForgets
  <2> QED
    BY <1>12, <2>1, ForgetTypes DEF DriveInv, WorkForgets
<1>13. CASE \E prio \in Prios : LinkTransmit(prio)
  <2>1. PICK prio \in Prios : LinkTransmit(prio)
    BY <1>13
  <2>2. Transmit(prio) /\ TypeOK /\ OneOp
    BY <2>1 DEF DriveInv, LinkTransmit
  <2>3. queue' \in [Prios -> Seq(Op)]
    BY <2>2, TransmitQueue
  <2>4. phy' \in Working
    <3>1. /\ queue[prio][1] \in Op
          /\ phy' = [half |-> "tx", op |-> queue[prio][1]]
      BY <2>2, TransmitQueue
    <3> QED
      BY <3>1, Zenon DEF Working
  <2> QED
    BY <2>1, <2>3, <2>4 DEF DriveInv, LinkTransmit, Transmit, Prios
<1>14. CASE LinkTxDone
  <2>1. phy \in Working /\ phy.op \in Op /\ phy.op.proc \in Procs
        /\ phy.op.ndi \in BOOLEAN
    BY <1>14 DEF DriveInv, LinkTxDone, TxDone, TxStopped, Working, Op
  <2>2. phy' \in Working
    BY <1>14, <2>1 DEF LinkTxDone, TxDone, TxStopped, Working
  <2>3. air' \in [Procs -> BOOLEAN \cup {NULL}]
    BY <1>14, <2>1 DEF LinkTxDone, DriveInv
  <2>4. reply' \in [Procs -> Replies]
    BY <1>14, <2>1 DEF LinkTxDone, DriveInv, TxDone, TxStopped, Leaves
  <2>5. sent' \in [Procs -> 0 .. MaxTransmissions + 1]
    <3>1. \A n \in 0 .. MaxTransmissions + 1 :
             (IF n <= MaxTransmissions THEN n + 1 ELSE n)
                \in 0 .. MaxTransmissions + 1
      BY HarqAssumption
    <3>2. sent \in [Procs -> 0 .. MaxTransmissions + 1]
      BY DEF DriveInv
    <3>3. sent' = [sent EXCEPT ![phy.op.proc] =
                      IF @ <= MaxTransmissions THEN @ + 1 ELSE @]
      BY <1>14 DEF LinkTxDone, TxDone, TxStopped, Leaves
    <3> HIDE DEF LinkTypeOK, TypeOK
    <3> QED
      BY <2>1, <3>1, <3>2, <3>3
  <2>6. retransmission_work' \in [Procs -> {"idle", "delayed", "submitted"}]
    BY <1>14, <2>1 DEF LinkTxDone, DriveInv, TxDone, TxStopped, Schedule
  <2>7. abandoned' \in [Procs -> BOOLEAN]
    BY <1>14, <2>1 DEF LinkTxDone, DriveInv, TxDone, TxStopped, Abandon
  <2>8. UNCHANGED <<occupied, data, transmission_count, redundancy_version,
                    new_data_indication, heap, sender, worker, queue, got>>
    BY <1>14 DEF LinkTxDone, TxDone, TxStopped
  <2> QED
    BY <2>2, <2>3, <2>4, <2>5, <2>6, <2>7, <2>8 DEF DriveInv
<1>15. CASE LinkRxDone \/ LinkTxFails
  <2>1. phy \in Working /\ phy.op \in Op /\ phy.op.proc \in Procs
    BY <1>15
       DEF DriveInv, LinkRxDone, RxDone, RxFails, LinkTxFails, TxLate, TxFails,
           Working, Op
  <2>2. phy' \in Working \cup {NULL} /\ abandoned' \in [Procs -> BOOLEAN]
    BY <1>15, <2>1
       DEF DriveInv, LinkRxDone, RxDone, RxFails, LinkTxFails, TxLate, TxFails,
           Working, Abandon
  <2>3. UNCHANGED <<occupied, data, transmission_count, redundancy_version,
                    new_data_indication, retransmission_work, heap, sender, worker,
                    queue, reply, sent, air, got>>
    BY <1>15 DEF LinkRxDone, RxDone, RxFails, LinkTxFails, TxLate, TxFails
  <2> QED
    BY <2>2, <2>3 DEF DriveInv
<1>16. CASE \E p \in Procs : LinkDelayElapses(p)
  BY <1>16 DEF DriveInv, LinkDelayElapses, DelayElapses
<1>17. CASE \E p \in Procs : Ack(p) /\ UNCHANGED linkVars
  <2>1. PICK p \in Procs : Ack(p) /\ UNCHANGED linkVars
    BY <1>17
  <2>2. ForgetProcess(p) /\ TypeOK
    BY <2>1 DEF DriveInv, Ack, GiveProcess
  <2>3. reply' \in [Procs -> Replies]
    BY <2>1 DEF DriveInv, Ack, Replies
  <2>4. /\ data' \in [Procs -> Buffers \cup {NULL}]
        /\ transmission_count' \in [Procs -> 0 .. 255]
        /\ redundancy_version' \in [Procs -> 0 .. 3]
        /\ occupied' \in [Procs -> BOOLEAN]
        /\ abandoned' \in [Procs -> BOOLEAN]
        /\ retransmission_work' \in [Procs -> {"idle", "delayed", "submitted"}]
    BY <2>2, ForgetTypes
  <2>5. heap' \subseteq Buffers
    BY <2>1 DEF DriveInv, Ack, GiveProcess
  <2> QED
    BY <2>1, <2>3, <2>4, <2>5 DEF DriveInv, Ack
<1>18. CASE \E p \in Procs : Nack(p) /\ UNCHANGED linkVars
  <2>1. PICK p \in Procs : Nack(p) /\ UNCHANGED linkVars
    BY <1>18
  <2>2. \A rv \in 0 .. 3 : NextVersion[rv] \in 0 .. 3
    BY DEF NextVersion
  <2>3. redundancy_version' \in [Procs -> 0 .. 3]
    <3> DEFINE rv == IF reply[p] = "nack"
                     THEN NextVersion[redundancy_version[p]] ELSE 0
    <3>1. rv \in 0 .. 3
      <4>1. redundancy_version[p] \in 0 .. 3
        BY DEF DriveInv
      <4> HIDE DEF LinkTypeOK, TypeOK
      <4> QED
        BY <2>2, <4>1
    <3>2. redundancy_version' = [redundancy_version EXCEPT ![p] = rv]
      BY <2>1 DEF DriveInv, Nack
    <3> HIDE DEF rv
    <3> QED
      BY <3>1, <3>2 DEF DriveInv
  <2>4. reply' \in [Procs -> Replies]
        /\ retransmission_work' \in [Procs -> {"idle", "delayed", "submitted"}]
        /\ abandoned' \in [Procs -> BOOLEAN]
    BY <2>1 DEF DriveInv, Nack, Resubmit, Replies
  <2> QED
    BY <2>1, <2>3, <2>4 DEF DriveInv, Nack
<1>19. CASE \E p \in Procs : ReplyLost(p) /\ UNCHANGED linkVars
  BY <1>19 DEF DriveInv, ReplyLost, Replies
<1>20. CASE \E p \in Procs : FrameLost(p)
  <2>1. PICK p \in Procs : FrameLost(p)
    BY <1>20
  <2>2. air' \in [Procs -> BOOLEAN \cup {NULL}]
    BY <2>1 DEF DriveInv, FrameLost
  <2>3. UNCHANGED vars /\ UNCHANGED got
    BY <2>1 DEF FrameLost
  <2> QED
    BY <2>2, <2>3 DEF DriveInv, vars
<1>21. CASE \E p \in Procs : PeerHears(p)
  <2>1. PICK p \in Procs : PeerHears(p)
    BY <1>21
  <2>2a. PICK crc \in BOOLEAN : \E feedback \in FeedbackTo[p][crc] :
            /\ reply' = [reply EXCEPT ![Frame!ProcessIn(feedback)] =
                             Response(feedback)]
            /\ got' = [got EXCEPT ![p] = @ \/ crc]
    BY <2>1, Zenon DEF PeerHears
  <2>2. PICK feedback \in FeedbackTo[p][crc] :
           /\ reply' = [reply EXCEPT ![Frame!ProcessIn(feedback)] =
                            Response(feedback)]
           /\ got' = [got EXCEPT ![p] = @ \/ crc]
    BY <2>2a, Zenon
  <2> DEFINE r == Response(feedback)
  <2>3. reply' = [reply EXCEPT ![p] = r] /\ r \in {"ack", "nack", "format6"}
    BY <2>2, FeedbackNamesProcess
  <2> HIDE DEF r
  <2>4. reply' \in [Procs -> Replies]
    BY <2>3 DEF DriveInv, Replies
  <2>5. got' \in [Procs -> BOOLEAN]
    BY <2>2 DEF DriveInv
  <2> QED
    BY <2>1, <2>4, <2>5 DEF DriveInv, PeerHears
<1>22. CASE \E p \in Procs : HarqRequest(p) /\ UNCHANGED linkVars
  <2>1. PICK p \in Procs : HarqRequest(p) /\ UNCHANGED linkVars
    BY <1>22
  <2>2. /\ data' \in [Procs -> Buffers \cup {NULL}]
        /\ transmission_count' \in [Procs -> 0 .. 255]
        /\ redundancy_version' \in [Procs -> 0 .. 3]
    BY <2>1, ResetTypes DEF DriveInv, HarqRequest, InitProcess
  <2>3. heap' \subseteq Buffers
    BY <2>1 DEF DriveInv, HarqRequest, InitProcess
  <2> QED
    BY <2>1, <2>2, <2>3 DEF DriveInv, HarqRequest
<1> QED
  BY <1>1, <1>2, <1>3, <1>4, <1>5, <1>6, <1>7, <1>8, <1>9, <1>10, <1>11, <1>12,
     <1>13, <1>14, <1>15, <1>16, <1>17, <1>18, <1>19, <1>20, <1>21, <1>22
     DEF Moves, LinkNext, LinkSender, LinkWorker, Worker, LinkRadio, LinkResponse,
         Prios

\* What keeps the processes going is handed on from one to the next.
LEMMA DriveStep ==
    ASSUME DriveInv, [Moves]_allVars
    PROVE  DriveInv'
<1> DEFINE Kept(p) == (Exclusive(p) /\ Driven(p) /\ Awaited(p))'
<1>0. /\ LinkTypeOK' /\ LinkTypeOK /\ TypeOK /\ OneOp
      /\ \A p \in Procs : Exclusive(p) /\ Driven(p) /\ Awaited(p)
  BY TypeStep, Zenon DEF DriveInv, LinkTypeOK
<1> SUFFICES ASSUME [Moves]_allVars
             PROVE  OneOp' /\ \A p \in Procs : Kept(p)
  BY <1>0, Zenon DEF DriveInv
<1>a. ASSUME UNCHANGED queue
      PROVE  OneOp' /\ \A p \in Procs : InQueue(p)' <=> InQueue(p)
  BY <1>0, <1>a DEF OneOp, InQueue
<1> USE DEF Exclusive, Driven, Awaited, Pending, InPhy, Sending, Resending,
            Scheduled, linkVars, processVars
<1> HIDE DEF Kept
<1>1. CASE UNCHANGED allVars
  <2>1. OneOp' /\ \A p \in Procs : InQueue(p)' <=> InQueue(p)
    BY <1>1, <1>a DEF allVars, vars
  <2> QED
    BY <1>0, <1>1, <2>1 DEF allVars, vars, Kept
<1>2. CASE LinkTake
  <2>1. OneOp' /\ \A p \in Procs : InQueue(p)' <=> InQueue(p)
    BY <1>2, <1>a DEF LinkTake, TakeProcess
  <2> QED
    BY <1>0, <1>2, <2>1 DEF LinkTake, TakeProcess, Kept, LinkTypeOK, TypeOK
<1>3. CASE Malloc /\ UNCHANGED linkVars
  <2>1. OneOp' /\ \A p \in Procs : InQueue(p)' <=> InQueue(p)
    BY <1>3, <1>a DEF Malloc
  <2> QED
    BY <1>0, <1>3, <2>1 DEF Malloc, Kept, LinkTypeOK, TypeOK
<1>4. CASE MallocFails /\ UNCHANGED linkVars
  <2>1. OneOp' /\ \A p \in Procs : InQueue(p)' <=> InQueue(p)
    BY <1>4, <1>a DEF MallocFails
  <2> QED
    BY <1>0, <1>4, <2>1
       DEF MallocFails, GiveProcess, ForgetProcess, Kept, LinkTypeOK, TypeOK
<1>5. CASE Fill /\ UNCHANGED linkVars
  <2>1. OneOp' /\ \A p \in Procs : InQueue(p)' <=> InQueue(p)
    BY <1>5, <1>a DEF Fill
  <2> QED
    BY <1>0, <1>5, <2>1 DEF Fill, Kept, LinkTypeOK, TypeOK
<1>6. CASE PutFirst /\ UNCHANGED linkVars
  <2>0. PICK p \in Procs : p = sender.proc
    BY <1>0 DEF TypeOK
  <2>1. p \in Procs /\ ~InQueue(p) /\ "HIGH" \in Prios
    BY <1>0, <1>6, <2>0 DEF PutFirst, Prios, TypeOK
  <2>2. /\ OneOp'
        /\ \/ InQueue(p)' /\ UNCHANGED abandoned
           \/ ~InQueue(p)' /\ abandoned' = [abandoned EXCEPT ![p] = TRUE]
        /\ \A q \in Procs : InQueue(q) => InQueue(q)'
        /\ \A q \in Procs : q # p /\ InQueue(q)' => InQueue(q)
    BY <1>0, <1>6, <2>0, <2>1, PutOpQueue DEF PutFirst, Abandon
  <2> QED
    BY <1>0, <1>6, <2>0, <2>1, <2>2 DEF PutFirst, Kept, LinkTypeOK, TypeOK
<1>7. CASE \E p \in Procs : WorkStarts(p) /\ UNCHANGED linkVars
  <2>1. OneOp' /\ \A p \in Procs : InQueue(p)' <=> InQueue(p)
    BY <1>7, <1>a DEF WorkStarts
  <2> QED
    BY <1>0, <1>7, <2>1 DEF WorkStarts, Kept, LinkTypeOK, TypeOK
<1>8. CASE WorkChecks /\ UNCHANGED linkVars
  <2>1. OneOp' /\ \A p \in Procs : InQueue(p)' <=> InQueue(p)
    BY <1>8, <1>a DEF WorkChecks
  <2> QED
    BY <1>0, <1>8, <2>1 DEF WorkChecks, Kept, LinkTypeOK, TypeOK
<1>9. CASE WorkCounts /\ UNCHANGED linkVars
  <2>1. OneOp' /\ \A p \in Procs : InQueue(p)' <=> InQueue(p)
    BY <1>9, <1>a DEF WorkCounts
  <2> QED
    BY <1>0, <1>9, <2>1 DEF WorkCounts, Kept, LinkTypeOK, TypeOK
<1>10. CASE WorkPuts /\ UNCHANGED linkVars
  <2>0. PICK p \in Procs : p = worker.proc
    BY <1>0 DEF TypeOK
  <2>1. p \in Procs /\ ~InQueue(p) /\ "MEDIUM" \in Prios
    BY <1>0, <1>10, <2>0 DEF WorkPuts, Prios, TypeOK
  <2>2. /\ OneOp'
        /\ \/ InQueue(p)' /\ UNCHANGED abandoned
           \/ ~InQueue(p)' /\ abandoned' = [abandoned EXCEPT ![p] = TRUE]
        /\ \A q \in Procs : InQueue(q) => InQueue(q)'
        /\ \A q \in Procs : q # p /\ InQueue(q)' => InQueue(q)
    BY <1>0, <1>10, <2>0, <2>1, PutOpQueue DEF WorkPuts, Abandon
  <2> QED
    BY <1>0, <1>10, <2>0, <2>1, <2>2 DEF WorkPuts, Kept, LinkTypeOK, TypeOK
<1>11. CASE WorkFrees /\ UNCHANGED linkVars
  <2>1. OneOp' /\ \A p \in Procs : InQueue(p)' <=> InQueue(p)
    BY <1>11, <1>a DEF WorkFrees
  <2> QED
    BY <1>0, <1>11, <2>1 DEF WorkFrees, Kept, LinkTypeOK, TypeOK
<1>12. CASE WorkForgets /\ UNCHANGED linkVars
  <2>1. OneOp' /\ \A p \in Procs : InQueue(p)' <=> InQueue(p)
    BY <1>12, <1>a DEF WorkForgets
  <2> QED
    BY <1>0, <1>12, <2>1
       DEF WorkForgets, ForgetProcess, Kept, LinkTypeOK, TypeOK
<1>13. CASE \E prio \in Prios : LinkTransmit(prio)
  <2>1. PICK prio \in Prios : LinkTransmit(prio)
    BY <1>13
  <2> DEFINE op == queue[prio][1]
  <2>2. /\ OneOp' /\ op \in Op /\ phy' = [half |-> "tx", op |-> op]
        /\ 1 \in 1 .. Len(queue[prio])
        /\ \A q \in Procs : q = op.proc => ~InQueue(q)'
        /\ \A q \in Procs : InQueue(q)' => InQueue(q)
        /\ \A q \in Procs : InQueue(q) => InQueue(q)' \/ q = op.proc
    BY <1>0, <2>1, TransmitQueue DEF LinkTransmit
  <2>3. op.proc \in Procs /\ InQueue(op.proc) /\ phy'.half = "tx" /\ phy'.op = op
    BY <2>2 DEF InQueue, Op
  <2>4. phy' # NULL
    BY <2>2, HarqAssumption DEF Working
  <2> HIDE DEF op
  <2> QED
    BY <1>0, <2>1, <2>2, <2>3, <2>4
       DEF LinkTransmit, Transmit, Kept, LinkTypeOK, TypeOK
<1>14. CASE LinkTxDone
  <2>1. OneOp' /\ \A p \in Procs : InQueue(p)' <=> InQueue(p)
    BY <1>14, <1>a DEF LinkTxDone, TxDone, TxStopped
  <2>2. PICK p \in Procs : InPhy(p) /\ p = phy.op.proc
    BY <1>0, <1>14
       DEF LinkTxDone, TxDone, TxStopped, LinkTypeOK, TypeOK, Working, Op
  <2>3. phy' # NULL /\ phy'.half = "rx"
    <3>1. phy \in Working /\ phy' = [phy EXCEPT !.half = "rx"]
      BY <1>0, <1>14 DEF LinkTxDone, TxDone, TxStopped, TypeOK
    <3>2. phy' \in Working /\ phy'.half = "rx"
      BY <3>1 DEF Working
    <3> QED
      BY <3>2, HarqAssumption
  <2>4. \/ Schedule(p) /\ UNCHANGED abandoned
        \/ Abandon(p) /\ UNCHANGED retransmission_work
    BY <1>14, <2>2 DEF LinkTxDone, TxDone, TxStopped
  <2>5. /\ reply'[p] = "none" /\ \A q \in Procs : q # p => reply'[q] = reply[q]
        /\ \A q \in Procs : q # p => air'[q] = air[q]
        /\ UNCHANGED <<occupied, sender, worker>>
    BY <1>0, <1>14, <2>2
       DEF LinkTxDone, TxDone, TxStopped, Leaves, LinkTypeOK, TypeOK
  <2> QED
    BY <1>0, <2>1, <2>2, <2>3, <2>4, <2>5
       DEF Schedule, Abandon, Kept, LinkTypeOK, TypeOK
<1>15. CASE LinkRxDone
  <2>1. OneOp' /\ \A p \in Procs : InQueue(p)' <=> InQueue(p)
    BY <1>15, <1>a DEF LinkRxDone, RxDone, RxFails
  <2>2. \A p \in Procs : ~InPhy(p) /\ ~InPhy(p)'
    BY <1>0, <1>15, HarqAssumption
       DEF LinkRxDone, RxDone, RxFails, LinkTypeOK, TypeOK, Working
  <2>3. UNCHANGED <<occupied, sender, worker, retransmission_work, abandoned, air,
                    reply>>
    BY <1>15 DEF LinkRxDone, RxDone, RxFails
  <2> HIDE DEF InPhy
  <2> QED
    BY <1>0, <2>1, <2>2, <2>3 DEF Kept
<1>15a. CASE LinkTxFails
  <2>1. OneOp' /\ \A p \in Procs : InQueue(p)' <=> InQueue(p)
    BY <1>15a, <1>a DEF LinkTxFails, TxLate, TxFails
  <2>2. PICK p \in Procs : InPhy(p) /\ p = phy.op.proc
    BY <1>0, <1>15a
       DEF LinkTxFails, TxLate, TxFails, LinkTypeOK, TypeOK, Working, Op
  <2>3. \A q \in Procs : ~InPhy(q)'
    BY <1>0, <1>15a
       DEF LinkTxFails, TxLate, TxFails, LinkTypeOK, TypeOK, Working
  <2>4. /\ abandoned' = [abandoned EXCEPT ![p] = TRUE]
        /\ UNCHANGED <<occupied, sender, worker, retransmission_work, air, reply>>
    BY <1>15a, <2>2 DEF LinkTxFails, TxLate, TxFails, Abandon
  <2>5. \A q \in Procs : q # p => ~InPhy(q)
    BY <2>2
  <2> HIDE DEF InPhy
  <2> QED
    BY <1>0, <2>1, <2>2, <2>3, <2>4, <2>5 DEF Kept, LinkTypeOK, TypeOK
<1>16. CASE \E p \in Procs : LinkDelayElapses(p)
  <2>1. OneOp' /\ \A p \in Procs : InQueue(p)' <=> InQueue(p)
    BY <1>16, <1>a DEF LinkDelayElapses, DelayElapses
  <2> QED
    BY <1>0, <1>16, <2>1, LinkAssumption
       DEF LinkDelayElapses, DelayElapses, Kept, LinkTypeOK, TypeOK
<1>17. CASE \E p \in Procs : Ack(p) /\ UNCHANGED linkVars
  <2>1. OneOp' /\ \A p \in Procs : InQueue(p)' <=> InQueue(p)
    BY <1>17, <1>a DEF Ack
  <2> QED
    BY <1>0, <1>17, <2>1
       DEF Ack, GiveProcess, ForgetProcess, Kept, LinkTypeOK, TypeOK
<1>18. CASE \E p \in Procs : Nack(p) /\ UNCHANGED linkVars
  <2>1. OneOp' /\ \A p \in Procs : InQueue(p)' <=> InQueue(p)
    BY <1>18, <1>a DEF Nack
  <2> QED
    BY <1>0, <1>18, <2>1 DEF Nack, Resubmit, Kept, LinkTypeOK, TypeOK
<1>19. CASE \E p \in Procs : ReplyLost(p) /\ UNCHANGED linkVars
  <2>1. OneOp' /\ \A p \in Procs : InQueue(p)' <=> InQueue(p)
    BY <1>19, <1>a DEF ReplyLost
  <2> QED
    BY <1>0, <1>19, <2>1 DEF ReplyLost, Kept, LinkTypeOK, TypeOK
<1>20. CASE \E p \in Procs : FrameLost(p)
  <2>1. OneOp' /\ \A p \in Procs : InQueue(p)' <=> InQueue(p)
    BY <1>20, <1>a DEF FrameLost, vars
  <2> QED
    BY <1>0, <1>20, <2>1 DEF FrameLost, vars, Kept, LinkTypeOK, TypeOK
<1>21. CASE \E p \in Procs : PeerHears(p)
  <2>1. OneOp' /\ \A p \in Procs : InQueue(p)' <=> InQueue(p)
    BY <1>21, <1>a DEF PeerHears
  <2>2. PICK p \in Procs : PeerHears(p)
    BY <1>21
  <2>3. \A q \in Procs : q # p => reply'[q] = reply[q]
    BY <1>0, <2>2, FeedbackNamesProcess DEF PeerHears, LinkTypeOK, TypeOK
  <2> QED
    BY <1>0, <2>1, <2>2, <2>3 DEF PeerHears, Kept, LinkTypeOK, TypeOK
<1>22. CASE \E p \in Procs : HarqRequest(p) /\ UNCHANGED linkVars
  <2>1. OneOp' /\ \A p \in Procs : InQueue(p)' <=> InQueue(p)
    BY <1>22, <1>a DEF HarqRequest
  <2> QED
    BY <1>0, <1>22, <2>1 DEF HarqRequest, Kept, LinkTypeOK, TypeOK
<1> QED
  BY <1>1, <1>2, <1>3, <1>4, <1>5, <1>6, <1>7, <1>8, <1>9, <1>10, <1>11, <1>12,
     <1>13, <1>14, <1>15, <1>15a, <1>16, <1>17, <1>18, <1>19, <1>20, <1>21, <1>22,
     Zenon
     DEF Moves, LinkNext, LinkSender, LinkWorker, Worker, LinkRadio, LinkResponse,
         Prios

-----------------------------------------------------------------------------
(***************************************************************************)
(* The messages                                                            *)
(***************************************************************************)

\* What an operation copies of process p.
Copied(p) == <<data[p], redundancy_version[p], new_data_indication[p]>>

\* The operations stay current when their processes do.
LEMMA OpsKept ==
    ASSUME TypeOK, OpsCurrent, NEW p \in Procs, ~InQueue(p), ~InPhy(p),
           UNCHANGED <<queue, phy>>,
           \A q \in Procs : q # p => Copied(q)' = Copied(q)
    PROVE  OpsCurrent'
<1>1. ASSUME NEW op \in Op, Current(op), op.proc # p
      PROVE  Current(op)'
  BY <1>1 DEF Current, Copied, Op
<1>2. ASSUME NEW prio \in Prios, NEW i \in 1 .. Len(queue[prio])
      PROVE  Current(queue[prio][i])'
  <2>1. queue[prio] \in Seq(Op)
    BY DEF TypeOK, Prios
  <2>2. queue[prio][i] \in Op
    BY <2>1, ElementOfSeq
  <2>3. Current(queue[prio][i]) /\ queue[prio][i].proc # p
    BY DEF OpsCurrent, InQueue
  <2> QED
    BY <2>2, <2>3, <1>1
<1>3. ASSUME phy # NULL, phy.half = "tx"
      PROVE  Current(phy.op)'
  <2>1. phy.op \in Op /\ Current(phy.op) /\ phy.op.proc # p
    BY <1>3 DEF TypeOK, Working, OpsCurrent, InPhy
  <2> QED
    BY <2>1, <1>1
<1> QED
  BY <1>2, <1>3 DEF OpsCurrent, Current

\* So they stay current when no process changes.
LEMMA OpsSame ==
    ASSUME OpsCurrent, UNCHANGED <<data, redundancy_version, new_data_indication,
                                   queue, phy>>
    PROVE  OpsCurrent'
BY DEF OpsCurrent, Current

\* An operation that is put is current.
LEMMA OpsPut ==
    ASSUME TypeOK, OneOp, OpsCurrent, NEW p \in Procs, ~InQueue(p),
           NEW prio \in Prios, PutOp(p, prio), data[p] # NULL,
           UNCHANGED <<data, redundancy_version, new_data_indication, phy>>
    PROVE  OpsCurrent'
<1>1. Current(OpOf(p))
  BY DEF Current, OpOf
<1>2. ASSUME NEW prio2 \in Prios, NEW i \in 1 .. Len(queue'[prio2])
      PROVE  Current(queue'[prio2][i])
  <2>1. \/ i \in 1 .. Len(queue[prio2]) /\ queue'[prio2][i] = queue[prio2][i]
        \/ queue'[prio2][i] = OpOf(p)
    BY PutOpQueue
  <2> QED
    BY <1>1, <2>1, Zenon DEF OpsCurrent
<1> QED
  BY <1>2 DEF OpsCurrent, Current

\* Operations carry what their processes have.
LEMMA OpsStep ==
    ASSUME DriveInv, OpsCurrent, \A p \in Procs : DataKnown(p), [LinkNext]_allVars
    PROVE  OpsCurrent'
<1>0. /\ LinkTypeOK /\ TypeOK /\ OneOp
      /\ \A p \in Procs : Exclusive(p) /\ Driven(p) /\ Awaited(p)
  BY Zenon DEF DriveInv, LinkTypeOK
<1>1. CASE UNCHANGED allVars
  BY <1>1, OpsSame DEF allVars, vars, processVars
<1>2. CASE LinkTake
  <2>1. PICK p \in Procs :
           /\ ~occupied[p]
           /\ new_data_indication' = [new_data_indication EXCEPT ![p] = ~@]
    BY <1>2 DEF LinkTake, TakeProcess
  <2>2. ~InQueue(p) /\ ~InPhy(p)
    BY <1>0, <2>1 DEF Driven
  <2>3. /\ UNCHANGED <<queue, phy>>
        /\ \A q \in Procs : q # p => Copied(q)' = Copied(q)
    BY <1>0, <1>2, <2>1
       DEF LinkTake, TakeProcess, processVars, Copied, TypeOK
  <2> QED
    BY <1>0, <2>2, <2>3, OpsKept
<1>3. CASE Malloc
  BY <1>3, OpsSame DEF Malloc, processVars
<1>4. CASE MallocFails
  <2> DEFINE p == sender.proc
  <2>1. p \in Procs /\ ~InQueue(p) /\ ~InPhy(p)
    BY <1>0, <1>4 DEF MallocFails, Exclusive, Sending, TypeOK
  <2>2. /\ UNCHANGED <<queue, phy>>
        /\ \A q \in Procs : q # p => Copied(q)' = Copied(q)
    BY <1>0, <1>4
       DEF MallocFails, GiveProcess, ForgetProcess, ResetProcess, Copied, TypeOK
  <2> QED
    BY <1>0, <2>1, <2>2, OpsKept
<1>5. CASE Fill
  <2> DEFINE p == sender.proc
  <2>1. p \in Procs /\ ~InQueue(p) /\ ~InPhy(p)
    BY <1>0, <1>5 DEF Fill, Exclusive, Sending, TypeOK
  <2>2. /\ UNCHANGED <<queue, phy>>
        /\ \A q \in Procs : q # p => Copied(q)' = Copied(q)
    BY <1>0, <1>5 DEF Fill, Copied, TypeOK
  <2> QED
    BY <1>0, <2>1, <2>2, OpsKept
<1>6. CASE PutFirst
  <2> DEFINE p == sender.proc
  <2>1. p \in Procs /\ ~InQueue(p) /\ "HIGH" \in Prios /\ PutOp(p, "HIGH")
    BY <1>0, <1>6 DEF PutFirst, Exclusive, Sending, Prios, TypeOK
  <2>2. data[p] # NULL
    BY <1>0, <1>6 DEF PutFirst, DataKnown, Driven, Sending, TypeOK
  <2> QED
    BY <1>0, <1>6, <2>1, <2>2, OpsPut DEF PutFirst, processVars
<1>7. CASE \E p \in Procs : WorkStarts(p)
  BY <1>7, OpsSame DEF WorkStarts, processVars
<1>8. CASE WorkChecks \/ WorkCounts \/ WorkFrees
  BY <1>8, OpsSame DEF WorkChecks, WorkCounts, WorkFrees, processVars
<1>9. CASE WorkPuts
  <2> DEFINE p == worker.proc
  <2>1. p \in Procs /\ ~InQueue(p) /\ "MEDIUM" \in Prios /\ PutOp(p, "MEDIUM")
    BY <1>0, <1>9 DEF WorkPuts, Exclusive, Resending, Prios, TypeOK
  <2>2. data[p] # NULL
    BY <1>0, <1>9 DEF WorkPuts, DataKnown, Driven, Resending, Sending, TypeOK
  <2> QED
    BY <1>0, <1>9, <2>1, <2>2, OpsPut DEF WorkPuts, processVars
<1>10. CASE WorkForgets
  <2> DEFINE p == worker.proc
  <2>1. p \in Procs /\ ~InQueue(p) /\ ~InPhy(p)
    BY <1>0, <1>10 DEF WorkForgets, Exclusive, Resending, TypeOK
  <2>2. /\ UNCHANGED <<queue, phy>>
        /\ \A q \in Procs : q # p => Copied(q)' = Copied(q)
    BY <1>0, <1>10 DEF WorkForgets, ForgetProcess, ResetProcess, Copied, TypeOK
  <2> QED
    BY <1>0, <2>1, <2>2, OpsKept
<1>11. CASE \E prio \in Prios : LinkTransmit(prio)
  <2>1. PICK prio \in Prios : LinkTransmit(prio)
    BY <1>11
  <2>2. /\ 1 \in 1 .. Len(queue[prio])
        /\ phy' = [half |-> "tx", op |-> queue[prio][1]]
        /\ \A prio2 \in Prios : \A i \in 1 .. Len(queue'[prio2]) :
              \E j \in 1 .. Len(queue[prio2]) :
                 queue'[prio2][i] = queue[prio2][j]
    BY <1>0, <2>1, TransmitQueue DEF LinkTransmit
  <2>3. phy'.op = queue[prio][1] /\ Current(phy'.op)
    BY <2>2 DEF OpsCurrent
  <2>4. ASSUME NEW prio2 \in Prios, NEW i \in 1 .. Len(queue'[prio2])
        PROVE  Current(queue'[prio2][i])
    <3>1. PICK j \in 1 .. Len(queue[prio2]) :
             queue'[prio2][i] = queue[prio2][j]
      BY <2>2
    <3> QED
      BY <3>1 DEF OpsCurrent
  <2>5. UNCHANGED <<data, redundancy_version, new_data_indication>>
    BY <2>1 DEF LinkTransmit, Transmit, processVars
  <2> QED
    BY <2>3, <2>4, <2>5 DEF OpsCurrent, Current
<1>12. CASE LinkTxDone \/ LinkTxFails \/ LinkRxDone
  <2>1. phy' = NULL \/ phy'.half # "tx"
    BY <1>0, <1>12
       DEF LinkTxDone, TxDone, TxStopped, LinkTxFails, TxLate, TxFails, LinkRxDone,
           RxDone, RxFails, TypeOK, Working
  <2>2. UNCHANGED <<data, redundancy_version, new_data_indication, queue>>
    BY <1>12
       DEF LinkTxDone, TxDone, TxStopped, LinkTxFails, TxLate, TxFails, LinkRxDone,
           RxDone, RxFails, processVars
  <2> QED
    BY <2>1, <2>2 DEF OpsCurrent, Current
<1>13. CASE \E p \in Procs : Ack(p)
  <2>1. PICK p \in Procs : Ack(p)
    BY <1>13
  <2>2. ~InQueue(p) /\ ~InPhy(p)
    BY <1>0, <2>1 DEF Ack, Exclusive, Awaited, Pending, Scheduled
  <2>3. /\ UNCHANGED <<queue, phy>>
        /\ \A q \in Procs : q # p => Copied(q)' = Copied(q)
    BY <1>0, <2>1
       DEF Ack, GiveProcess, ForgetProcess, ResetProcess, Copied, TypeOK
  <2> QED
    BY <1>0, <2>2, <2>3, OpsKept
<1>14. CASE \E p \in Procs : Nack(p)
  <2>1. PICK p \in Procs : Nack(p)
    BY <1>14
  <2>2. ~InQueue(p) /\ ~InPhy(p)
    BY <1>0, <2>1 DEF Nack, Exclusive, Awaited, Pending, Scheduled
  <2>3. /\ UNCHANGED <<queue, phy>>
        /\ \A q \in Procs : q # p => Copied(q)' = Copied(q)
    BY <1>0, <2>1 DEF Nack, Copied, TypeOK
  <2> QED
    BY <1>0, <2>2, <2>3, OpsKept
<1>15. CASE \E p \in Procs : \/ LinkDelayElapses(p) \/ ReplyLost(p)
                             \/ FrameLost(p) \/ PeerHears(p)
  BY <1>15, OpsSame
     DEF LinkDelayElapses, DelayElapses, ReplyLost, FrameLost, PeerHears, vars,
         processVars
<1> QED
  BY <1>1, <1>2, <1>3, <1>4, <1>5, <1>6, <1>7, <1>8, <1>9, <1>10, <1>11, <1>12,
     <1>13, <1>14, <1>15, Zenon
     DEF LinkNext, LinkSender, LinkWorker, Worker, LinkRadio, LinkResponse, Prios

-----------------------------------------------------------------------------
(***************************************************************************)
(* The data                                                                *)
(***************************************************************************)

\* A process has data from the time the sender filled it until it is given back.
LEMMA DataStep ==
    ASSUME DriveInv, SenderHolds, \A p \in Procs : DataKnown(p),
           [LinkNext]_allVars
    PROVE  SenderHolds' /\ \A p \in Procs : DataKnown(p)'
<1>0. /\ LinkTypeOK /\ TypeOK
      /\ \A p \in Procs : Exclusive(p) /\ Driven(p) /\ Awaited(p) /\ DataKnown(p)
  BY Zenon DEF DriveInv, LinkTypeOK
<1> USE DEF SenderHolds, DataKnown, Sending
<1>1. CASE UNCHANGED <<data, occupied, sender>>
  BY <1>0, <1>1
<1>2. CASE LinkTake
  BY <1>0, <1>2 DEF LinkTake, TakeProcess, processVars, TypeOK, Driven
<1>3. CASE Malloc
  BY <1>0, <1>3, HarqAssumption DEF Malloc, processVars, TypeOK
<1>4. CASE MallocFails
  BY <1>0, <1>4
     DEF MallocFails, GiveProcess, ForgetProcess, ResetProcess, TypeOK, Driven
<1>5. CASE Fill
  BY <1>0, <1>5 DEF Fill, TypeOK, Driven
<1>6. CASE PutFirst
  BY <1>0, <1>6 DEF PutFirst, processVars, TypeOK, Driven
<1>7. CASE WorkForgets
  BY <1>0, <1>7
     DEF WorkForgets, ForgetProcess, ResetProcess, TypeOK, Exclusive, Resending
<1>8. CASE \E p \in Procs : Ack(p)
  BY <1>0, <1>8
     DEF Ack, GiveProcess, ForgetProcess, ResetProcess, TypeOK, Exclusive,
         Scheduled, Awaited, Pending
<1>9. CASE \E p \in Procs : WorkStarts(p)
  BY <1>0, <1>9 DEF WorkStarts, processVars
<1>10. CASE WorkChecks \/ WorkCounts \/ WorkPuts \/ WorkFrees
  BY <1>0, <1>10 DEF WorkChecks, WorkCounts, WorkPuts, WorkFrees, processVars
<1>11. CASE LinkRadio
  BY <1>0, <1>11
     DEF LinkRadio, LinkTransmit, Transmit, LinkTxDone, TxDone, TxStopped,
         LinkTxFails, TxLate, TxFails, LinkRxDone, RxDone, RxFails, processVars
<1>12. CASE \E p \in Procs : \/ LinkDelayElapses(p) \/ Nack(p) \/ ReplyLost(p)
                             \/ FrameLost(p) \/ PeerHears(p)
  BY <1>0, <1>12
     DEF LinkDelayElapses, DelayElapses, Nack, ReplyLost, FrameLost, PeerHears,
         vars, processVars
<1> QED
  BY <1>1, <1>2, <1>3, <1>4, <1>5, <1>6, <1>7, <1>8, <1>9, <1>10, <1>11, <1>12,
     Zenon
     DEF LinkNext, LinkSender, LinkWorker, Worker, LinkResponse, allVars, vars,
         processVars

-----------------------------------------------------------------------------
(***************************************************************************)
(* The transmissions                                                       *)
(***************************************************************************)

\* The count of a process follows the transmissions of its message.
LEMMA CountStep ==
    ASSUME DriveInv, \A p \in Procs : Counted(p), [LinkNext]_allVars
    PROVE  \A p \in Procs : Counted(p)'
<1>0. /\ LinkTypeOK /\ TypeOK /\ OneOp
      /\ \A p \in Procs : Exclusive(p) /\ Awaited(p) /\ Counted(p)
      /\ \A p \in Procs : /\ InQueue(p) \/ InPhy(p) \/ Sending(p) \/ Resending(p) =>
                                 ~Pending(p)
                          /\ retransmission_work[p] = "submitted" => ~Pending(p)
                          /\ ~occupied[p] => ~Pending(p)
  <2>1. LinkTypeOK /\ TypeOK /\ OneOp
    BY DEF DriveInv, LinkTypeOK
  <2>2. \A p \in Procs : Exclusive(p) /\ Awaited(p) /\ Counted(p) /\ Driven(p)
    BY DEF DriveInv
  <2> QED
    BY <2>1, <2>2 DEF Exclusive, Awaited, Driven, Scheduled
<1>a. /\ sent \in [Procs -> 0 .. MaxTransmissions + 1]
      /\ transmission_count \in [Procs -> 0 .. 255]
      /\ MaxTransmissions \in 1 .. 255
      /\ sender.proc \in Procs /\ worker.proc \in Procs
  BY <1>0, HarqAssumption DEF TypeOK
<1> DEFINE Stays == \A p \in Procs : /\ InQueue(p)' <=> InQueue(p)
                                     /\ Pending(p)' => Pending(p)
<1>b. ASSUME UNCHANGED queue
      PROVE  \A p \in Procs : InQueue(p)' <=> InQueue(p)
  BY <1>b DEF InQueue
<1>c. ASSUME UNCHANGED linkVars, UNCHANGED reply
      PROVE  \A p \in Procs : Pending(p)' <=> Pending(p)
  BY <1>c DEF Pending, linkVars
<1> USE DEF Counted, CountAhead, CountMeets, Sending, Resending, Scheduled, InPhy
<1>1. CASE UNCHANGED allVars
  <2>1. Stays
    BY <1>1, <1>b, <1>c DEF vars, allVars
  <2> QED
    BY <1>0, <1>1, <2>1 DEF allVars, vars, processVars
<1>2. CASE LinkTake
  <2>1. PICK p \in Procs :
           /\ ~occupied[p]
           /\ sender' = [sender EXCEPT !.pc = "malloc", !.proc = p]
           /\ sent' = [sent EXCEPT ![p] = 0]
    BY <1>2 DEF LinkTake, TakeProcess
  <2>2. ~InQueue(p) /\ ~InPhy(p) /\ ~Resending(p) /\ ~Scheduled(p) /\ ~Pending(p)
    BY <1>0, <2>1, Zenon DEF DriveInv, Driven
  <2>3. sender'.pc = "malloc" /\ sender'.proc = p
    BY <1>0, <2>1 DEF TypeOK
  <2>4. Stays
    BY <1>2, <1>b DEF LinkTake, TakeProcess, Pending
  <2>5. /\ UNCHANGED <<transmission_count, worker, phy, retransmission_work>>
        /\ sender.pc = "idle"
    BY <1>2 DEF LinkTake, TakeProcess, processVars
  <2> QED
    BY <1>0, <1>a, <2>1, <2>2, <2>3, <2>4, <2>5
<1>3. CASE Malloc /\ UNCHANGED linkVars
  <2>1. Stays
    BY <1>3, <1>b, <1>c DEF Malloc
  <2> QED
    BY <1>0, <1>3, <2>1 DEF Malloc, processVars, TypeOK
<1>4. CASE MallocFails /\ UNCHANGED linkVars
  <2>1. Stays
    BY <1>4, <1>b, <1>c DEF MallocFails
  <2> QED
    BY <1>0, <1>4, <2>1
       DEF MallocFails, GiveProcess, ForgetProcess, ResetProcess, TypeOK, Exclusive
<1>5. CASE Fill /\ UNCHANGED linkVars
  <2>1. Stays
    BY <1>5, <1>b, <1>c DEF Fill
  <2> QED
    BY <1>0, <1>5, <2>1 DEF Fill, TypeOK, Exclusive
<1>6. CASE PutFirst /\ UNCHANGED linkVars
  <2> DEFINE p == sender.proc
  <2>1. p \in Procs /\ ~InQueue(p) /\ "HIGH" \in Prios /\ PutOp(p, "HIGH")
    BY <1>0, <1>6 DEF PutFirst, Exclusive, Prios, TypeOK
  <2>2. \A q \in Procs : q # p /\ InQueue(q)' => InQueue(q)
    BY <1>0, <2>1, PutOpQueue
  <2>3. \A q \in Procs : Pending(q)' => Pending(q)
    BY <1>6, <1>c DEF PutFirst
  <2> QED
    <3>1. /\ sender'.pc = "idle" /\ sender.pc = "put"
          /\ UNCHANGED <<transmission_count, sent, worker, phy,
                         retransmission_work>>
      BY <1>0, <1>6 DEF PutFirst, processVars, TypeOK
    <3>2. /\ ~InPhy(p) /\ ~Resending(p) /\ ~Scheduled(p)
          /\ sent[p] = 0 /\ transmission_count[p] = 1 /\ ~Pending(p)
      BY <1>0, <2>1, <3>1 DEF Exclusive
    <3> HIDE DEF p
    <3> QED
      BY <1>0, <1>a, <2>1, <2>2, <2>3, <3>1, <3>2
<1>7. CASE \E p \in Procs : WorkStarts(p) /\ UNCHANGED linkVars
  <2>1. Stays
    BY <1>7, <1>b, <1>c DEF WorkStarts
  <2> QED
    BY <1>0, <1>7, <2>1 DEF WorkStarts, processVars, TypeOK, Exclusive
<1>8. CASE WorkChecks /\ UNCHANGED linkVars
  <2>1. Stays
    BY <1>8, <1>b, <1>c DEF WorkChecks
  <2> QED
    <3> DEFINE p == worker.proc
    <3>1. /\ worker.pc = "check" /\ worker'.proc = p
          /\ worker'.pc = IF transmission_count[p] < MaxTransmissions
                          THEN "again" ELSE "give"
          /\ UNCHANGED <<transmission_count, sent, sender, phy,
                         retransmission_work>>
      BY <1>0, <1>8 DEF WorkChecks, processVars, TypeOK
    <3>2. CountMeets(p)
      BY <1>0, <1>a, <3>1
    <3>3. /\ worker'.pc \in {"again", "give"}
          /\ worker'.pc = "again" => sent[p] < MaxTransmissions
          /\ worker'.pc = "give" => sent[p] = MaxTransmissions
      BY <1>a, <3>1, <3>2
    <3> HIDE DEF p
    <3> QED
      BY <1>0, <1>a, <2>1, <3>1, <3>2, <3>3
<1>9. CASE WorkCounts /\ UNCHANGED linkVars
  <2>1. Stays
    BY <1>9, <1>b, <1>c DEF WorkCounts
  <2> DEFINE p == worker.proc
             c == transmission_count[p]
  <2>2. /\ ~InQueue(p) /\ ~InPhy(p) /\ ~Sending(p) /\ ~Scheduled(p)
        /\ c = sent[p] /\ 1 <= sent[p] /\ sent[p] < MaxTransmissions
        /\ ~Pending(p)
    BY <1>0, <1>a, <1>9 DEF WorkCounts, Exclusive
  <2>3. (c + 1) % 256 = sent[p] + 1
    <3>1. c \in 0 .. 254 /\ c = sent[p]
      BY <1>a, <2>2
    <3> HIDE DEF c
    <3> QED
      BY <3>1
  <2>4. transmission_count' = [transmission_count EXCEPT ![p] = (c + 1) % 256]
    BY <1>9 DEF WorkCounts
  <2>5. worker'.pc = "put" /\ worker'.proc = p
    BY <1>0, <1>9 DEF WorkCounts, TypeOK
  <2>6. worker.pc = "again"
        /\ UNCHANGED <<sender, phy, retransmission_work, sent>>
    BY <1>9 DEF WorkCounts
  <2> HIDE DEF c
  <2> QED
    BY <1>0, <1>a, <2>1, <2>2, <2>3, <2>4, <2>5, <2>6
<1>10. CASE WorkPuts /\ UNCHANGED linkVars
  <2> DEFINE p == worker.proc
  <2>1. p \in Procs /\ ~InQueue(p) /\ "MEDIUM" \in Prios /\ PutOp(p, "MEDIUM")
    BY <1>0, <1>10 DEF WorkPuts, Exclusive, Prios, TypeOK
  <2>2. \A q \in Procs : q # p /\ InQueue(q)' => InQueue(q)
    BY <1>0, <2>1, PutOpQueue
  <2>3. \A q \in Procs : Pending(q)' => Pending(q)
    BY <1>10, <1>c DEF WorkPuts
  <2> QED
    BY <1>0, <1>a, <1>10, <2>3, <2>1, <2>2
       DEF WorkPuts, processVars, TypeOK, Exclusive
<1>11. CASE WorkFrees /\ UNCHANGED linkVars
  <2>1. Stays
    BY <1>11, <1>b, <1>c DEF WorkFrees
  <2> QED
    BY <1>0, <1>11, <2>1 DEF WorkFrees, processVars, TypeOK
<1>12. CASE WorkForgets /\ UNCHANGED linkVars
  <2>1. Stays
    BY <1>12, <1>b, <1>c DEF WorkForgets
  <2> QED
    BY <1>0, <1>12, <2>1
       DEF WorkForgets, ForgetProcess, ResetProcess, TypeOK, Exclusive
<1>13. CASE \E prio \in Prios : LinkTransmit(prio)
  <2>1. PICK prio \in Prios : LinkTransmit(prio)
    BY <1>13
  <2> DEFINE op == queue[prio][1]
  <2>2. /\ op \in Op /\ phy' = [half |-> "tx", op |-> op]
        /\ 1 \in 1 .. Len(queue[prio])
        /\ \A q \in Procs : InQueue(q)' => InQueue(q)
    BY <1>0, <2>1, TransmitQueue DEF LinkTransmit
  <2>3. op.proc \in Procs /\ InQueue(op.proc) /\ phy'.op = op
    BY <2>2 DEF InQueue, Op
  <2> HIDE DEF op
  <2>4. /\ \A q \in Procs : Pending(q)' => Pending(q)
        /\ UNCHANGED <<transmission_count, sent, sender, worker,
                       retransmission_work>>
    BY <2>1, <1>c DEF LinkTransmit, Transmit, processVars
  <2> QED
    BY <1>0, <2>2, <2>3, <2>4
<1>14. CASE LinkTxDone
  <2> DEFINE p == phy.op.proc
  <2>1. \A q \in Procs : InQueue(q)' <=> InQueue(q)
    BY <1>14, <1>b DEF LinkTxDone, TxDone, TxStopped
  <2>2. phy'.half = "rx" /\ p \in Procs /\ InPhy(p)
    BY <1>0, <1>14 DEF LinkTxDone, TxDone, TxStopped, TypeOK, Working, Op
  <2>3. ~InQueue(p) /\ ~Sending(p) /\ ~Resending(p) /\ CountAhead(p)
    BY <1>0, <2>2 DEF Exclusive
  <2>4. sent' = [sent EXCEPT ![p] = sent[p] + 1]
    BY <1>14, <1>a, <2>3 DEF LinkTxDone, TxDone, TxStopped, Leaves
  <2>5. \A q \in Procs : q # p =>
           /\ retransmission_work'[q] = retransmission_work[q]
           /\ Pending(q)' => Pending(q)
    BY <1>0, <1>14, <2>2
       DEF LinkTxDone, TxDone, TxStopped, Leaves, Schedule, LinkTypeOK, TypeOK,
           Pending
  <2>6. UNCHANGED <<transmission_count, sender, worker>>
    BY <1>14 DEF LinkTxDone, TxDone, TxStopped, processVars
  <2> HIDE DEF p
  <2> QED
    BY <1>0, <1>a, <2>1, <2>2, <2>3, <2>4, <2>5, <2>6
<1>15. CASE LinkRxDone \/ LinkTxFails
  <2>1. Stays
    BY <1>15, <1>b, <1>c
       DEF LinkRxDone, RxDone, RxFails, LinkTxFails, TxLate, TxFails
  <2>2. /\ UNCHANGED <<transmission_count, sent, sender, worker,
                       retransmission_work>>
        /\ \A q \in Procs : ~InPhy(q)'
    <3>1. phy' # NULL => phy'.half # "tx"
      BY <1>0, <1>15
         DEF LinkRxDone, RxDone, RxFails, LinkTxFails, TxLate, TxFails, TypeOK,
             Working
    <3> QED
      BY <1>15, <3>1
         DEF LinkRxDone, RxDone, RxFails, LinkTxFails, TxLate, TxFails,
             processVars
  <2> HIDE DEF InPhy
  <2> QED
    BY <1>0, <2>1, <2>2
<1>16. CASE \E p \in Procs : LinkDelayElapses(p)
  <2>1. Stays
    BY <1>16, <1>b, <1>c DEF LinkDelayElapses, DelayElapses
  <2>2. PICK p \in Procs : LinkDelayElapses(p)
    BY <1>16
  <2>3. /\ UNCHANGED <<transmission_count, sent, sender, worker, phy>>
        /\ \A q \in Procs : Scheduled(q)' => Scheduled(q)
    BY <1>0, <2>2 DEF LinkDelayElapses, DelayElapses, processVars, TypeOK
  <2> HIDE DEF Scheduled
  <2> QED
    BY <1>0, <2>1, <2>3
<1>17. CASE \E p \in Procs : Ack(p) /\ UNCHANGED linkVars
  <2>0. PICK p \in Procs : Ack(p) /\ UNCHANGED linkVars
    BY <1>17
  <2>1. Stays
    BY <1>0, <2>0, <1>b DEF Ack, Pending, linkVars, TypeOK
  <2>2. /\ ~InQueue(p) /\ ~InPhy(p) /\ ~Sending(p) /\ ~Resending(p)
        /\ reply[p] # "none" /\ reply'[p] = "none"
    BY <1>0, <2>0 DEF Ack, Exclusive, Awaited, Pending, TypeOK
  <2>3. ~Pending(p)'
    BY <1>0, <2>0, <2>2 DEF Awaited, Pending, linkVars
  <2>4. /\ UNCHANGED <<sent, sender, worker, phy>>
        /\ retransmission_work'[p] = "idle"
        /\ \A q \in Procs : q # p =>
              /\ retransmission_work'[q] = retransmission_work[q]
              /\ transmission_count'[q] = transmission_count[q]
    BY <1>0, <2>0
       DEF Ack, GiveProcess, ForgetProcess, ResetProcess, TypeOK
  <2> QED
    BY <1>0, <1>a, <2>1, <2>2, <2>3, <2>4
<1>18. CASE \E p \in Procs : Nack(p) /\ UNCHANGED linkVars
  <2>0. PICK p \in Procs : Nack(p) /\ UNCHANGED linkVars
    BY <1>18
  <2>1. Stays
    BY <1>0, <2>0, <1>b DEF Nack, Pending, linkVars, TypeOK
  <2>2. Pending(p)
    BY <2>0 DEF Nack, Pending
  <2>3. /\ UNCHANGED <<transmission_count, sent, sender, worker, phy>>
        /\ \A q \in Procs : Scheduled(q)' => Scheduled(q) \/ q = p
    BY <1>0, <2>0 DEF Nack, Resubmit, TypeOK
  <2> HIDE DEF Scheduled
  <2> QED
    BY <1>0, <2>1, <2>2, <2>3
<1>19. CASE \E p \in Procs : \/ ReplyLost(p) /\ UNCHANGED linkVars
                             \/ PeerHears(p)
  <2>1. UNCHANGED <<transmission_count, sent, sender, worker, phy, queue,
                    retransmission_work>>
    BY <1>19 DEF ReplyLost, PeerHears, processVars
  <2>2. \A q \in Procs : Pending(q)' => Pending(q)
    <3>1. CASE \E p \in Procs : ReplyLost(p) /\ UNCHANGED linkVars
      BY <1>0, <3>1 DEF ReplyLost, Pending, linkVars, TypeOK
    <3>2. CASE \E p \in Procs : PeerHears(p)
      <4>1. PICK p \in Procs : PeerHears(p)
        BY <3>2
      <4>2. PICK r \in {"ack", "nack", "format6"} : reply' = [reply EXCEPT ![p] = r]
        <5>1. PICK crc \in BOOLEAN : \E feedback \in FeedbackTo[p][crc] :
                 reply' = [reply EXCEPT ![Frame!ProcessIn(feedback)] =
                              Response(feedback)]
          BY <4>1, Zenon DEF PeerHears
        <5> QED
          BY <5>1, FeedbackNamesProcess
      <4>3. air[p] # NULL /\ air' = [air EXCEPT ![p] = NULL]
        BY <4>1 DEF PeerHears
      <4> QED
        BY <1>0, <4>2, <4>3 DEF Pending, LinkTypeOK, TypeOK
    <3> QED
      BY <1>19, <3>1, <3>2
  <2>3. Stays
    BY <1>b, <2>1, <2>2
  <2> QED
    BY <1>0, <2>1, <2>3
<1>20. CASE \E p \in Procs : FrameLost(p)
  <2>1. UNCHANGED <<transmission_count, sent, sender, worker, phy, queue, reply,
                    retransmission_work>>
    BY <1>20 DEF FrameLost, vars, processVars
  <2>2. Stays
    BY <1>0, <1>20, <1>b, <2>1 DEF FrameLost, Pending, LinkTypeOK
  <2> QED
    BY <1>0, <2>1, <2>2
<1> QED
  BY <1>1, <1>2, <1>3, <1>4, <1>5, <1>6, <1>7, <1>8, <1>9, <1>10, <1>11, <1>12,
     <1>13, <1>14, <1>15, <1>16, <1>17, <1>18, <1>19, <1>20, Zenon
     DEF LinkNext, LinkSender, LinkWorker, Worker, LinkRadio, LinkResponse,
         allVars, Prios

-----------------------------------------------------------------------------
(***************************************************************************)
(* The responses                                                           *)
(***************************************************************************)

\* An acknowledgement is on its way only when the other node has the message.
LEMMA AckStep ==
    ASSUME DriveInv, \A p \in Procs : AckMeansGot(p), [LinkNext]_allVars
    PROVE  \A p \in Procs : AckMeansGot(p)'
<1>0. /\ LinkTypeOK /\ TypeOK
      /\ \A p \in Procs : Driven(p) /\ Awaited(p) /\ AckMeansGot(p)
  BY Zenon DEF DriveInv, LinkTypeOK
<1> USE DEF AckMeansGot, linkVars
<1>1. CASE UNCHANGED <<reply, got>>
  BY <1>0, <1>1
<1>2. CASE LinkTake
  <2>1. PICK p \in Procs :
           /\ ~occupied[p]
           /\ sender' = [sender EXCEPT !.pc = "malloc", !.proc = p]
    BY <1>2 DEF LinkTake, TakeProcess
  <2>2. sender'.proc = p /\ reply[p] # "ack"
    BY <1>0, <2>1 DEF TypeOK, Driven, Awaited, Pending, Scheduled
  <2>3. got' = [got EXCEPT ![p] = FALSE] /\ reply' = reply
    BY <1>2, <2>2 DEF LinkTake, TakeProcess
  <2> QED
    BY <1>0, <2>2, <2>3 DEF LinkTypeOK
<1>3. CASE LinkSender
  BY <1>0, <1>3 DEF LinkSender, Malloc, MallocFails, Fill, PutFirst
<1>4. CASE LinkWorker
  BY <1>0, <1>4
     DEF LinkWorker, Worker, WorkStarts, WorkChecks, WorkCounts, WorkPuts,
         WorkFrees, WorkForgets
<1>5. CASE LinkTxDone
  <2>1. phy.op.proc \in Procs
    BY <1>0, <1>5 DEF LinkTxDone, TxDone, TxStopped, TypeOK, Working, Op
  <2> QED
    BY <1>0, <1>5, <2>1 DEF LinkTxDone, TxDone, TxStopped, Leaves, TypeOK
<1>6. CASE LinkTxFails \/ LinkRxDone \/ \E prio \in Prios : LinkTransmit(prio)
  BY <1>0, <1>6
     DEF LinkTxFails, TxLate, TxFails, LinkRxDone, RxDone, RxFails, LinkTransmit,
         Transmit
<1>7. CASE \E p \in Procs : LinkDelayElapses(p) \/ LinkResponse(p)
  BY <1>0, <1>7
     DEF LinkDelayElapses, DelayElapses, LinkResponse, Ack, Nack, ReplyLost, TypeOK
<1>8. CASE \E p \in Procs : FrameLost(p)
  BY <1>1, <1>8 DEF FrameLost, vars
<1>9. CASE \E p \in Procs : PeerHears(p)
  <2>1. PICK p \in Procs : PeerHears(p)
    BY <1>9
  <2>2a. PICK crc \in BOOLEAN : \E feedback \in FeedbackTo[p][crc] :
            /\ reply' = [reply EXCEPT ![Frame!ProcessIn(feedback)] =
                             Response(feedback)]
            /\ got' = [got EXCEPT ![p] = @ \/ crc]
    BY <2>1, Zenon DEF PeerHears
  <2>2. PICK feedback \in FeedbackTo[p][crc] :
           /\ reply' = [reply EXCEPT ![Frame!ProcessIn(feedback)] =
                            Response(feedback)]
           /\ got' = [got EXCEPT ![p] = @ \/ crc]
    BY <2>2a, Zenon
  <2> DEFINE r == Response(feedback)
  <2>3. reply' = [reply EXCEPT ![p] = r] /\ (r = "ack" => crc)
    BY <2>2, FeedbackNamesProcess
  <2> HIDE DEF r
  <2> QED
    BY <1>0, <2>2, <2>3 DEF LinkTypeOK, TypeOK
<1> QED
  BY <1>1, <1>2, <1>3, <1>4, <1>5, <1>6, <1>7, <1>8, <1>9, Zenon
     DEF LinkNext, LinkRadio, Prios, allVars, vars

-----------------------------------------------------------------------------
(***************************************************************************)
(* The heap                                                                *)
(***************************************************************************)

\* A block is answered for until it is freed, by one only.
LEMMA HeapStep ==
    ASSUME DriveInv, SenderHolds, \A p \in Procs : DataKnown(p), HeapKnown,
           [LinkNext]_allVars
    PROVE  HeapKnown'
<1>0. /\ LinkTypeOK /\ TypeOK
      /\ \A p \in Procs : Exclusive(p) /\ Driven(p) /\ Awaited(p) /\ DataKnown(p)
  BY Zenon DEF DriveInv, LinkTypeOK
<1>a. /\ sender.proc \in Procs /\ worker.proc \in Procs /\ NULL \notin Buffers
      /\ data \in [Procs -> Buffers \cup {NULL}] /\ heap \subseteq Buffers
      /\ sender.data \in Buffers \cup {NULL}
  BY <1>0, HarqAssumption DEF TypeOK
<1> USE DEF HeapKnown, Holds
<1>1. ASSUME UNCHANGED <<data, heap>>, sender'.data = sender.data,
             \A p \in Procs : Holds(p)' <=> Holds(p)
      PROVE  HeapKnown'
  BY <1>1
<1>2. ASSUME UNCHANGED <<data, heap, sender, worker>>
      PROVE  HeapKnown'
  BY <1>2
<1>3. CASE LinkTake
  BY <1>0, <1>1, <1>3 DEF LinkTake, TakeProcess, processVars, TypeOK
<1>4. CASE Malloc
  <2>1. PICK b \in Buffers \ heap :
           /\ heap' = heap \cup {b}
           /\ sender'.data = b
    BY <1>0, <1>4 DEF Malloc, TypeOK
  <2>2. sender.data = NULL /\ UNCHANGED <<data, worker>>
    BY <1>4 DEF Malloc, SenderHolds, processVars
  <2> QED
    BY <1>a, <2>1, <2>2
<1>5. CASE MallocFails
  <2> DEFINE p == sender.proc
  <2>1. data[p] = NULL
    BY <1>0, <1>a, <1>5 DEF MallocFails, DataKnown, Sending
  <2>2. data' = data /\ heap' = heap
    BY <1>a, <1>5, <2>1 DEF MallocFails, GiveProcess, ForgetProcess, ResetProcess
  <2>3. sender'.data = sender.data /\ worker' = worker
    BY <1>0, <1>5 DEF MallocFails, TypeOK
  <2> QED
    BY <1>1, <2>2, <2>3
<1>6. CASE Fill
  <2>0. PICK p \in Procs : p = sender.proc
    BY <1>a
  <2>1. /\ data[p] = NULL /\ sender.data # NULL
        /\ ~(worker.pc = "forget" /\ worker.proc = p)
    BY <1>0, <1>a, <1>6, <2>0
       DEF Fill, DataKnown, Sending, SenderHolds, Exclusive, Resending
  <2>2. /\ data'[p] = sender.data
        /\ \A q \in Procs : q # p => data'[q] = data[q]
        /\ sender'.data = NULL
        /\ UNCHANGED <<heap, worker>>
    BY <1>0, <1>a, <1>6, <2>0 DEF Fill, TypeOK
  <2>3. /\ Holds(p)'
        /\ \A q \in Procs : q # p => (Holds(q)' <=> Holds(q))
        /\ ~Holds(p)
    BY <2>1, <2>2
  <2>4. \A b \in Buffers : b \in heap' <=>
           sender'.data = b \/ \E q \in Procs : Holds(q)' /\ data'[q] = b
    <3> TAKE b \in Buffers
    <3>1. b \in heap <=>
             sender.data = b \/ \E q \in Procs : Holds(q) /\ data[q] = b
      OBVIOUS
    <3> HIDE DEF HeapKnown, Holds
    <3> QED
      BY <1>a, <2>2, <2>3, <3>1
  <2>5. \A q, q2 \in Procs :
           Holds(q)' /\ Holds(q2)' /\ data'[q] = data'[q2] => q = q2
    BY <2>2, <2>3
  <2>6. \A q \in Procs : Holds(q)' => data'[q] # sender'.data
    BY <2>2
  <2> QED
    BY <2>4, <2>5, <2>6
<1>7. CASE PutFirst
  BY <1>0, <1>1, <1>7 DEF PutFirst, processVars, TypeOK
<1>8. CASE \E p \in Procs : WorkStarts(p)
  <2>1. /\ worker.pc = "idle" /\ worker'.pc = "check"
        /\ UNCHANGED <<data, heap, sender>>
    BY <1>8 DEF WorkStarts, processVars
  <2> QED
    BY <1>1, <2>1
<1>9. CASE WorkChecks \/ WorkCounts \/ WorkPuts
  <2>1. /\ worker.pc # "forget" /\ worker'.pc # "forget"
        /\ UNCHANGED <<data, heap, sender>>
    BY <1>0, <1>9 DEF WorkChecks, WorkCounts, WorkPuts, processVars, TypeOK
  <2> QED
    BY <1>1, <2>1
<1>10. CASE WorkFrees
  <2>0. PICK p \in Procs : p = worker.proc
    BY <1>a
  <2>1. /\ worker.pc = "give" /\ worker'.pc = "forget" /\ worker'.proc = p
        /\ heap' = heap \ {data[p]}
        /\ UNCHANGED <<data, sender>>
    BY <1>0, <1>10, <2>0 DEF WorkFrees, processVars, TypeOK
  <2>2. data[p] # NULL
    BY <1>0, <1>a, <1>10, <2>0
       DEF WorkFrees, DataKnown, Resending, Sending, Exclusive, Driven
  <2>3. Holds(p) /\ ~Holds(p)' /\ \A q \in Procs : q # p => (Holds(q)' <=> Holds(q))
    BY <2>0, <2>1, <2>2
  <2> QED
    BY <1>a, <2>1, <2>3
<1>11. CASE WorkForgets
  <2>0. PICK p \in Procs : p = worker.proc
    BY <1>a
  <2>1. /\ worker.pc = "forget" /\ worker'.pc = "idle" /\ data'[p] = NULL
        /\ \A q \in Procs : q # p => data'[q] = data[q]
        /\ UNCHANGED <<heap, sender>>
    BY <1>0, <1>11, <2>0 DEF WorkForgets, ForgetProcess, ResetProcess, TypeOK
  <2>2. ~Holds(p) /\ ~Holds(p)' /\ \A q \in Procs : q # p => (Holds(q)' <=> Holds(q))
    BY <2>0, <2>1
  <2> HIDE DEF Holds
  <2> QED
    BY <1>a, <2>1, <2>2
<1>12. CASE \E p \in Procs : Ack(p)
  <2>1. PICK p \in Procs : Ack(p)
    BY <1>12
  <2>2. ~Resending(p) /\ ~Sending(p) /\ occupied[p]
    BY <1>0, <2>1 DEF Ack, Exclusive, Awaited, Pending, Scheduled, Driven
  <2>3. data[p] # NULL /\ Holds(p)
    BY <1>0, <2>2 DEF DataKnown, Resending
  <2>4. /\ data'[p] = NULL /\ heap' = heap \ {data[p]}
        /\ \A q \in Procs : q # p => data'[q] = data[q]
        /\ UNCHANGED <<sender, worker>>
    BY <1>0, <2>1 DEF Ack, GiveProcess, ForgetProcess, ResetProcess, TypeOK
  <2>5. ~Holds(p)' /\ \A q \in Procs : q # p => (Holds(q)' <=> Holds(q))
    BY <2>4
  <2> HIDE DEF Holds
  <2> QED
    BY <1>a, <2>3, <2>4, <2>5
<1>13. CASE UNCHANGED allVars \/ LinkRadio
  BY <1>2, <1>13
     DEF LinkRadio, LinkTransmit, Transmit, LinkTxDone, TxDone, TxStopped,
         LinkTxFails, TxLate, TxFails, LinkRxDone, RxDone, RxFails, allVars, vars,
         processVars
<1>14. CASE \E p \in Procs : \/ LinkDelayElapses(p) \/ Nack(p) \/ ReplyLost(p)
                             \/ FrameLost(p) \/ PeerHears(p)
  BY <1>2, <1>14
     DEF LinkDelayElapses, DelayElapses, Nack, ReplyLost, FrameLost, PeerHears,
         vars, processVars
<1> QED
  BY <1>3, <1>4, <1>5, <1>6, <1>7, <1>8, <1>9, <1>10, <1>11, <1>12, <1>13, <1>14,
     Zenon
     DEF LinkNext, LinkSender, LinkWorker, Worker, LinkResponse

-----------------------------------------------------------------------------
(***************************************************************************)
(* The operations to transmit                                              *)
(***************************************************************************)

\* They are those of the queue and the one the PHY transmits, in this order.
LEMMA TransmitPlaces ==
    ASSUME TypeOK
    PROVE  LET h == queue["HIGH"]
               m == queue["MEDIUM"]
               a == InAir
           IN  /\ {Len(h), Len(m)} \subseteq Nat
               /\ Len(ToTransmit) = Len(h) + Len(m) + Len(a)
               /\ phy # NULL /\ phy.half = "tx" => Len(a) = 1
               /\ ~(phy # NULL /\ phy.half = "tx") => Len(a) = 0
               /\ \A i \in 1 .. Len(ToTransmit) : ToTransmit[i] =
                     IF i <= Len(h) THEN h[i]
                     ELSE IF i <= Len(h) + Len(m) THEN m[i - Len(h)]
                     ELSE phy.op
<1> DEFINE h == queue["HIGH"]
           m == queue["MEDIUM"]
           a == InAir
           t == h \o m
<1>1. h \in Seq(Op) /\ m \in Seq(Op)
  BY DEF TypeOK
<1>2. /\ a \in Seq(Op) /\ Len(a) \in {0, 1}
      /\ phy # NULL /\ phy.half = "tx" => Len(a) = 1 /\ a[1] = phy.op
      /\ ~(phy # NULL /\ phy.half = "tx") => Len(a) = 0
  <2>1. CASE phy # NULL /\ phy.half = "tx"
    <3>1. phy.op \in Op /\ a = <<phy.op>>
      BY <2>1 DEF TypeOK, Working, InAir
    <3> HIDE DEF a
    <3> QED
      BY <2>1, <3>1
  <2>2. CASE ~(phy # NULL /\ phy.half = "tx")
    <3>1. a = <<>>
      BY <2>2 DEF InAir
    <3> HIDE DEF a
    <3> QED
      BY <2>2, <3>1
  <2> QED
    BY <2>1, <2>2
<1> HIDE DEF h, m, a
<1>3. /\ t \in Seq(Op) /\ Len(t) = Len(h) + Len(m)
      /\ \A i \in 1 .. Len(h) + Len(m) :
            t[i] = IF i <= Len(h) THEN h[i] ELSE m[i - Len(h)]
  BY <1>1, ConcatProperties
<1>4. Len(h) \in Nat /\ Len(m) \in Nat
  BY <1>1, LenProperties
<1> HIDE DEF t
<1>5. t \in Seq(Op) /\ a \in Seq(Op)
  BY <1>2, <1>3
<1>6. /\ Len(t \o a) = Len(t) + Len(a)
      /\ \A i \in 1 .. Len(t) + Len(a) :
            (t \o a)[i] = IF i <= Len(t) THEN t[i] ELSE a[i - Len(t)]
  BY <1>5, ConcatProperties
<1>7. ToTransmit = t \o a
  BY DEF ToTransmit, t, h, m, a
<1>8. ASSUME NEW i \in 1 .. Len(ToTransmit)
      PROVE  ToTransmit[i] = IF i <= Len(h) THEN h[i]
                             ELSE IF i <= Len(h) + Len(m) THEN m[i - Len(h)]
                             ELSE phy.op
  <2>1. i \in 1 .. Len(h) + Len(m) + Len(a)
    BY <1>3, <1>6, <1>7
  <2>2. ToTransmit[i] = IF i <= Len(h) + Len(m) THEN t[i]
                        ELSE a[i - (Len(h) + Len(m))]
    BY <1>3, <1>6, <1>7, <2>1
  <2>3. CASE i <= Len(h) + Len(m)
    <3>1. i \in 1 .. Len(h) + Len(m)
      BY <1>4, <2>1, <2>3
    <3>2. t[i] = IF i <= Len(h) THEN h[i] ELSE m[i - Len(h)]
      BY <1>3, <3>1
    <3> QED
      BY <1>4, <2>2, <2>3, <3>1, <3>2
  <2>4. CASE ~(i <= Len(h) + Len(m))
    <3>1. i - (Len(h) + Len(m)) = 1 /\ Len(a) = 1
      <4>1. Len(a) = 1
        <5>1. CASE Len(a) = 0
          BY <1>4, <2>1, <2>4, <5>1
        <5> QED
          BY <1>2, <5>1
      <4>2. i \in 1 .. Len(h) + Len(m) + 1
        BY <2>1, <4>1
      <4> QED
        BY <1>4, <2>4, <4>1, <4>2
    <3>2. ToTransmit[i] = phy.op
      BY <1>2, <2>2, <2>4, <3>1
    <3> QED
      BY <1>4, <2>1, <2>4, <3>2
  <2> QED
    BY <2>3, <2>4
<1>9. Len(ToTransmit) = Len(h) + Len(m) + Len(a)
  BY <1>3, <1>6, <1>7
<1> QED
  BY <1>2, <1>4, <1>8, <1>9 DEF h, m, a

\* Those of a process are in the queue or with the PHY.
LEMMA TransmitHas ==
    ASSUME TypeOK, NEW i \in 1 .. Len(ToTransmit)
    PROVE  \/ \E prio \in Prios : \E j \in 1 .. Len(queue[prio]) :
                 ToTransmit[i] = queue[prio][j]
           \/ phy # NULL /\ phy.half = "tx" /\ ToTransmit[i] = phy.op
<1> DEFINE h == queue["HIGH"]
           m == queue["MEDIUM"]
           a == InAir
<1>1. /\ Len(h) \in Nat /\ Len(m) \in Nat
      /\ Len(ToTransmit) = Len(h) + Len(m) + Len(a)
      /\ ~(phy # NULL /\ phy.half = "tx") => Len(a) = 0
      /\ ToTransmit[i] = IF i <= Len(h) THEN h[i]
                         ELSE IF i <= Len(h) + Len(m) THEN m[i - Len(h)]
                         ELSE phy.op
  BY TransmitPlaces
<1> HIDE DEF h, m, a
<1>2. CASE i <= Len(h)
  BY <1>1, <1>2 DEF h, Prios
<1>3. CASE ~(i <= Len(h)) /\ i <= Len(h) + Len(m)
  <2>1. i - Len(h) \in 1 .. Len(m) /\ ToTransmit[i] = m[i - Len(h)]
    BY <1>1, <1>3
  <2> QED
    BY <2>1 DEF m, Prios
<1>4. CASE ~(i <= Len(h)) /\ ~(i <= Len(h) + Len(m))
  <2>1. Len(a) # 0 /\ ToTransmit[i] = phy.op
    BY <1>1, <1>4
  <2> QED
    BY <1>1, <2>1
<1> QED
  BY <1>2, <1>3, <1>4

\* A process has one of them when it has an operation in the queue or with the PHY,
\* and otherwise none.
LEMMA TransmitOne ==
    ASSUME TypeOK, OneOp, \A q \in Procs : Exclusive(q), NEW p \in Procs
    PROVE  Cardinality({i \in 1 .. Len(ToTransmit) : ToTransmit[i].proc = p})
              = One(InQueue(p) \/ InPhy(p))
<1> DEFINE h == queue["HIGH"]
           m == queue["MEDIUM"]
           a == InAir
           Mine == {i \in 1 .. Len(ToTransmit) : ToTransmit[i].proc = p}
<1>1. /\ Len(h) \in Nat /\ Len(m) \in Nat
      /\ Len(ToTransmit) = Len(h) + Len(m) + Len(a)
      /\ phy # NULL /\ phy.half = "tx" => Len(a) = 1
      /\ ~(phy # NULL /\ phy.half = "tx") => Len(a) = 0
      /\ \A i \in 1 .. Len(ToTransmit) : ToTransmit[i] =
            IF i <= Len(h) THEN h[i]
            ELSE IF i <= Len(h) + Len(m) THEN m[i - Len(h)]
            ELSE phy.op
  BY TransmitPlaces
<1>2. /\ \A i, j \in 1 .. Len(h) : h[i].proc = p /\ h[j].proc = p => i = j
      /\ \A i, j \in 1 .. Len(m) : m[i].proc = p /\ m[j].proc = p => i = j
      /\ \A i \in 1 .. Len(h), j \in 1 .. Len(m) : h[i].proc # p \/ m[j].proc # p
  BY DEF OneOp, Prios
<1>3. InPhy(p) => /\ \A i \in 1 .. Len(h) : h[i].proc # p
                  /\ \A i \in 1 .. Len(m) : m[i].proc # p
  BY DEF Exclusive, InQueue, Prios
<1>4. InQueue(p) <=> \/ \E i \in 1 .. Len(h) : h[i].proc = p
                     \/ \E i \in 1 .. Len(m) : m[i].proc = p
  BY DEF InQueue, Prios
<1> HIDE DEF h, m, a
<1>5. ASSUME NEW i \in Mine
      PROVE  \/ i \in 1 .. Len(h) /\ h[i].proc = p
             \/ /\ i > Len(h) /\ i - Len(h) \in 1 .. Len(m)
                /\ m[i - Len(h)].proc = p
             \/ i = Len(h) + Len(m) + 1 /\ InPhy(p)
  <2>1. CASE i <= Len(h)
    BY <1>1, <1>5, <2>1
  <2>2. CASE ~(i <= Len(h)) /\ i <= Len(h) + Len(m)
    BY <1>1, <1>5, <2>2
  <2>3. CASE ~(i <= Len(h)) /\ ~(i <= Len(h) + Len(m))
    <3>1. /\ i \in 1 .. Len(h) + Len(m) + Len(a)
          /\ ToTransmit[i].proc = p /\ ToTransmit[i] = phy.op
      BY <1>1, <1>5, <2>3
    <3>2. Len(a) # 0
      BY <1>1, <2>3, <3>1
    <3>3. phy # NULL /\ phy.half = "tx" /\ Len(a) = 1
      BY <1>1, <3>2
    <3>4. i = Len(h) + Len(m) + 1
      BY <1>1, <2>3, <3>1, <3>3
    <3> QED
      BY <3>1, <3>3, <3>4 DEF InPhy
  <2> QED
    BY <2>1, <2>2, <2>3
<1>6. \A i, j \in Mine : i = j
  <2> TAKE i, j \in Mine
  <2>1. i \in Int /\ j \in Int
    OBVIOUS
  <2> HIDE DEF Mine
  <2>2. CASE i \in 1 .. Len(h) /\ h[i].proc = p
    BY <1>1, <1>2, <1>3, <1>5, <2>1, <2>2
  <2>3. CASE i > Len(h) /\ i - Len(h) \in 1 .. Len(m) /\ m[i - Len(h)].proc = p
    <3>1. ~InPhy(p) /\ ~(\E k \in 1 .. Len(h) : h[k].proc = p)
      BY <1>2, <1>3, <2>3
    <3>2. j - Len(h) \in 1 .. Len(m) /\ m[j - Len(h)].proc = p
      BY <1>5, <3>1
    <3>3. i - Len(h) = j - Len(h)
      BY <1>2, <2>3, <3>2
    <3> QED
      BY <1>1, <2>1, <3>3
  <2>4. CASE i = Len(h) + Len(m) + 1 /\ InPhy(p)
    BY <1>3, <1>5, <2>4
  <2> QED
    BY <1>5, <2>2, <2>3, <2>4
<1>7. CASE InQueue(p) \/ InPhy(p)
  <2>1. Mine # {}
    <3>1. CASE \E i \in 1 .. Len(h) : h[i].proc = p
      <4>1. PICK i \in 1 .. Len(h) : h[i].proc = p
        BY <3>1
      <4>2. i \in 1 .. Len(ToTransmit) /\ ToTransmit[i] = h[i]
        <5>1. i \in 1 .. Len(ToTransmit) /\ i <= Len(h)
          BY <1>1
        <5> QED
          BY <1>1, <5>1
      <4> QED
        BY <4>1, <4>2
    <3>2. CASE \E i \in 1 .. Len(m) : m[i].proc = p
      <4>1. PICK i \in 1 .. Len(m) : m[i].proc = p
        BY <3>2
      <4>2. /\ Len(h) + i \in 1 .. Len(ToTransmit)
            /\ ToTransmit[Len(h) + i] = m[i]
        <5>1. /\ Len(h) + i \in 1 .. Len(ToTransmit)
              /\ ~(Len(h) + i <= Len(h)) /\ Len(h) + i <= Len(h) + Len(m)
              /\ (Len(h) + i) - Len(h) = i
          BY <1>1
        <5> QED
          BY <1>1, <5>1
      <4> QED
        BY <4>1, <4>2
    <3>3. CASE InPhy(p)
      <4> DEFINE i == Len(h) + Len(m) + 1
      <4>1. /\ i \in 1 .. Len(ToTransmit)
            /\ ~(i <= Len(h)) /\ ~(i <= Len(h) + Len(m))
        <5>1. Len(a) = 1
          BY <1>1, <3>3 DEF InPhy
        <5> QED
          BY <1>1, <5>1
      <4> HIDE DEF i
      <4>2. ToTransmit[i] = phy.op /\ phy.op.proc = p
        BY <1>1, <3>3, <4>1 DEF InPhy
      <4> QED
        BY <4>1, <4>2
    <3> QED
      BY <1>4, <1>7, <3>1, <3>2, <3>3
  <2>2. PICK i \in Mine : Mine = {i}
    <3> HIDE DEF Mine
    <3> QED
      BY <1>6, <2>1
  <2>3. Cardinality(Mine) = 1
    BY <2>2, FS_Singleton, Zenon
  <2> QED
    BY <1>7, <2>3 DEF One
<1>8. CASE ~(InQueue(p) \/ InPhy(p))
  <2>1. Mine = {}
    <3> HIDE DEF Mine
    <3> QED
      BY <1>4, <1>5, <1>8
  <2>2. Cardinality(Mine) = 0
    BY <2>1, FS_EmptySet, Zenon
  <2> QED
    BY <1>8, <2>2 DEF One
<1> QED
  BY <1>7, <1>8, Zenon

-----------------------------------------------------------------------------
(***************************************************************************)
(* The theorems                                                            *)
(***************************************************************************)

\* The invariant holds at first.
LEMMA InitIInv == LinkInit => IInv
<1> SUFFICES ASSUME LinkInit PROVE IInv
  OBVIOUS
<1>1. /\ 0 \in Procs /\ MaxTransmissions \in 1 .. 255
      /\ queue = [prio \in {"HIGH", "MEDIUM"} |-> <<>>]
      /\ \A prio \in Prios : queue[prio] = <<>> /\ Len(queue[prio]) = 0
  BY HarqAssumption DEF LinkInit, Init, Procs, Prios
<1>2. TypeOK
  <2>1. queue \in [{"HIGH", "MEDIUM"} -> Seq(Op)]
    <3>1. <<>> \in Seq(Op)
      OBVIOUS
    <3> QED
      BY <1>1, <3>1
  <2>2. sent \in [Procs -> 0 .. MaxTransmissions + 1]
    BY <1>1 DEF LinkInit, Init
  <2>3. sender \in [pc : {"idle", "malloc", "fill", "put"}, proc : Procs,
                    data : Buffers \cup {NULL}]
        /\ worker \in [pc : {"idle", "check", "again", "put", "give", "forget"},
                       proc : Procs]
    BY <1>1 DEF LinkInit, Init
  <2>4. reply \in [Procs -> Replies]
    BY DEF LinkInit, Init, Replies
  <2> QED
    BY <2>1, <2>2, <2>3, <2>4 DEF LinkInit, Init, TypeOK
<1>3. LinkTypeOK
  BY <1>2 DEF LinkTypeOK, LinkInit
<1>4. \A p \in Procs : ~InQueue(p)
  BY <1>1 DEF InQueue
<1>5. OneOp
  BY <1>1 DEF OneOp
<1>6. \A p \in Procs : ~InPhy(p) /\ ~Sending(p) /\ ~Resending(p) /\ ~Scheduled(p)
  BY DEF InPhy, Sending, Resending, Scheduled, LinkInit, Init
<1>7. \A p \in Procs : Exclusive(p) /\ Driven(p) /\ Awaited(p)
  BY <1>4, <1>6 DEF Exclusive, Driven, Awaited, Pending, LinkInit, Init
<1>8. OpsCurrent
  BY <1>1 DEF OpsCurrent, LinkInit, Init
<1>9. SenderHolds /\ \A p \in Procs : DataKnown(p) /\ AckMeansGot(p)
  BY DEF SenderHolds, DataKnown, AckMeansGot, LinkInit, Init
<1>10. \A p \in Procs : Counted(p)
  BY <1>1, <1>4, <1>6 DEF Counted, Pending, LinkInit, Init
<1>11. HeapKnown
  BY HarqAssumption DEF HeapKnown, Holds, LinkInit, Init
<1> QED
  BY <1>3, <1>5, <1>7, <1>8, <1>9, <1>10, <1>11, Zenon DEF IInv, DriveInv

\* Every step keeps it.
LEMMA NextIInv == IInv /\ [LinkNext]_allVars => IInv'
<1> SUFFICES ASSUME IInv, [LinkNext]_allVars PROVE IInv'
  OBVIOUS
<1>1. [Moves]_allVars
  BY DEF Moves
<1>2. DriveInv'
  BY <1>1, DriveStep DEF IInv
<1>3. OpsCurrent'
  BY OpsStep DEF IInv
<1>4. SenderHolds' /\ \A p \in Procs : DataKnown(p)'
  BY DataStep DEF IInv
<1>5. \A p \in Procs : Counted(p)'
  BY CountStep DEF IInv
<1>6. \A p \in Procs : AckMeansGot(p)'
  BY AckStep DEF IInv
<1>7. HeapKnown'
  BY HeapStep DEF IInv
<1> QED
  BY <1>2, <1>3, <1>4, <1>5, <1>6, <1>7, Zenon DEF IInv

\* The inductive invariant: what keeps a process going, what its operation and the
\* heap hold of it, and how its count follows its transmissions
\* (dect_mac_harq_transmit, the retransmission work and dect_mac_harq_response).
THEOREM InductiveInvariant == LinkSpec => []IInv
BY InitIInv, NextIInv, PTL DEF LinkSpec

\* Every variable keeps its type: the counts, versions and process numbers of
\* struct dect_mac_harq_process stay in range.
THEOREM TypeCorrect == LinkSpec => []LinkTypeOK
<1>1. IInv => LinkTypeOK
  BY DEF IInv, DriveInv
<1> QED
  BY <1>1, InductiveInvariant, PTL

\* No message is sent more than CONFIG_HARQ_MAX_TRANSMISSIONS times, whatever
\* the other node answers and whichever calls fail.
THEOREM SentAtMostMax == LinkSpec => []TransmissionsBounded
<1>1. IInv => TransmissionsBounded
  BY Zenon DEF IInv, Counted, TransmissionsBounded
<1> QED
  BY <1>1, InductiveInvariant, PTL

\* The heap holds the messages of the processes and of the sender, each block
\* once: none leaks, and none is freed twice or used after k_free.
THEOREM HeapIsAccounted == LinkSpec => []HeapAccounted
<1>1. ASSUME IInv PROVE HeapAccounted
  <2>1. /\ heap \subseteq Buffers /\ NULL \notin Buffers
        /\ sender.data \in Buffers \cup {NULL}
        /\ data \in [Procs -> Buffers \cup {NULL}] /\ worker.proc \in Procs
    BY <1>1, HarqAssumption DEF IInv, DriveInv, LinkTypeOK, TypeOK
  <2>2. HeapKnown
    BY <1>1 DEF IInv
  <2> DEFINE Holders == {p \in Procs : data[p] # NULL
                             /\ ~(worker.pc = "forget" /\ worker.proc = p)}
  <2>3. heap = ({data[p] : p \in Holders} \cup {sender.data}) \ {NULL}
    BY <2>1, <2>2 DEF HeapKnown, Holds
  <2>4. \A p \in Holders :
           data[p] # sender.data /\ \A q \in Holders : data[q] = data[p] => p = q
    BY <2>2 DEF HeapKnown, Holds
  <2>5. worker.pc = "forget" => reply[worker.proc] # "ack"
    BY <1>1, <2>1 DEF IInv, DriveInv, Exclusive, Resending, Scheduled, Awaited, Pending
  <2> QED
    BY <2>3, <2>4, <2>5 DEF HeapAccounted
<1> QED
  BY <1>1, InductiveInvariant, PTL

\* Of the drivers of a process one is there when it is occupied and was not
\* abandoned, and otherwise none.
LEMMA DriveMeansOnce ==
    ASSUME DriveInv
    PROVE  ProcessDrivenOnce
<1> SUFFICES ASSUME NEW p \in Procs
             PROVE  Drivers(p) = One(occupied[p] /\ ~abandoned[p])
  BY DEF ProcessDrivenOnce
<1>1. /\ TypeOK /\ OneOp /\ \A q \in Procs : Exclusive(q)
      /\ Exclusive(p) /\ Driven(p)
  BY Zenon DEF DriveInv, LinkTypeOK
<1> DEFINE n == One(InQueue(p) \/ InPhy(p))
           s == One(Sending(p))
           w == One(Resending(p))
           d == One(Scheduled(p))
           o == One(occupied[p] /\ ~abandoned[p])
<1>2. Drivers(p) = n + s + w + d
  BY <1>1, TransmitOne DEF Drivers, Sending, Resending, Scheduled
<1>3. /\ n \in {0, 1} /\ s \in {0, 1} /\ w \in {0, 1} /\ d \in {0, 1}
      /\ o \in {0, 1}
  BY DEF One
<1>4. /\ (n = 1 <=> InQueue(p) \/ InPhy(p)) /\ (s = 1 <=> Sending(p))
      /\ (w = 1 <=> Resending(p)) /\ (d = 1 <=> Scheduled(p))
      /\ (o = 1 <=> occupied[p] /\ ~abandoned[p])
  BY DEF One
<1> HIDE DEF n, s, w, d, o
<1>5. /\ n = 1 => s # 1 /\ w # 1 /\ d # 1
      /\ s = 1 => w # 1 /\ d # 1
      /\ w = 1 => d # 1
  BY <1>1, <1>4, Zenon DEF Exclusive
<1>6. o = 1 <=> n = 1 \/ s = 1 \/ w = 1 \/ d = 1
  BY <1>1, <1>4, Zenon DEF Driven, Exclusive
<1>7. n + s + w + d = o
  BY <1>3, <1>5, <1>6
<1> QED
  BY <1>2, <1>7 DEF o

\* Exactly one thing keeps the message of an occupied process going, and no two
\* hands work on a process (take_process, op_complete_cb, the retransmission work,
\* give_process).  A process with nothing to keep it going is one whose last
\* operation the queue refused, or the PHY refused, failed or gave up, or rx_stop cut
\* off from its retransmission work: no other path of the code forgets a process.
THEOREM DrivenOnce == LinkSpec => []ProcessDrivenOnce
<1>1. IInv => ProcessDrivenOnce
  BY DriveMeansOnce DEF IInv
<1> QED
  BY <1>1, InductiveInvariant, PTL

\* An operation in the queue or with the PHY carries what its process has, and its
\* data is allocated: dect_phy_queue_put copies a pointer that stays good until the
\* transmission.
THEOREM OpsAreCurrent == LinkSpec => []OpIsCurrent
<1>1. ASSUME IInv PROVE OpIsCurrent
  <2>0. TypeOK /\ OpsCurrent /\ HeapKnown /\ \A p \in Procs : Exclusive(p)
    BY <1>1, Zenon DEF IInv, DriveInv, LinkTypeOK
  <2> SUFFICES ASSUME NEW i \in 1 .. Len(ToTransmit)
               PROVE  LET op == ToTransmit[i]
                      IN  /\ op.data \in heap /\ op.data = data[op.proc]
                          /\ op.rv = redundancy_version[op.proc]
                          /\ op.ndi = new_data_indication[op.proc]
    BY DEF OpIsCurrent
  <2> DEFINE op == ToTransmit[i]
  <2>1. op \in Op /\ Current(op) /\ (InQueue(op.proc) \/ InPhy(op.proc))
    <3>1. CASE \E prio \in Prios : \E j \in 1 .. Len(queue[prio]) :
                  op = queue[prio][j]
      <4>1. PICK prio \in Prios : \E j \in 1 .. Len(queue[prio]) :
                  op = queue[prio][j]
        BY <3>1
      <4>2. PICK j \in 1 .. Len(queue[prio]) : op = queue[prio][j]
        BY <4>1
      <4>3. queue[prio] \in Seq(Op)
        BY <2>0 DEF TypeOK, Prios
      <4>4. op \in Op
        BY <4>2, <4>3, ElementOfSeq
      <4> QED
        BY <2>0, <4>2, <4>4 DEF OpsCurrent, InQueue
    <3>2. CASE phy # NULL /\ phy.half = "tx" /\ op = phy.op
      BY <2>0, <3>2 DEF OpsCurrent, InPhy, TypeOK, Working
    <3> QED
      BY <2>0, <3>1, <3>2, TransmitHas
  <2> HIDE DEF op
  <2>2. op.proc \in Procs /\ data[op.proc] \in Buffers /\ op.data = data[op.proc]
        /\ data[op.proc] # NULL
    BY <2>0, <2>1 DEF Current, Op, TypeOK
  <2>3. Holds(op.proc)
    BY <2>0, <2>1, <2>2 DEF Holds, Exclusive, Resending
  <2>4. op.data \in heap
    BY <2>0, <2>2, <2>3 DEF HeapKnown
  <2> QED
    BY <2>1, <2>4 DEF Current, op
<1> QED
  BY <1>1, InductiveInvariant, PTL

\* HARQ keeps its promise: a process is given back when the receiver has the
\* message, when there is no memory for it, or after MaxTransmissions transmissions.
\* Each step of the program is one of Delivery or changes nothing there.
THEOREM LinkRefinesDelivery == LinkSpec => ImplementsDelivery
<1>1. LinkInit => Promise!Init
  BY DEF LinkInit, Init, Promise!Init
<1>2. ASSUME IInv, [LinkNext]_allVars
      PROVE  [Promise!Next]_(Promise!vars)
  <2>0. /\ LinkTypeOK /\ TypeOK
        /\ \A p \in Procs : Exclusive(p) /\ Driven(p) /\ Awaited(p)
    BY <1>2, Zenon DEF IInv, DriveInv, LinkTypeOK
  <2>a. \A p \in Procs : Counted(p) /\ AckMeansGot(p)
    BY <1>2 DEF IInv
  <2>b. /\ sender.proc \in Procs /\ worker.proc \in Procs
        /\ sent \in [Procs -> 0 .. MaxTransmissions + 1]
        /\ got \in [Procs -> BOOLEAN] /\ MaxTransmissions \in 1 .. 255
    BY <2>0, HarqAssumption DEF LinkTypeOK, TypeOK
  <2>c. ASSUME NEW p \in Procs,
               \/ Promise!Accept(p) \/ Promise!Refuse(p) \/ Promise!Send(p)
               \/ Promise!Receive(p) \/ Promise!Confirm(p) \/ Promise!GiveUp(p)
        PROVE  Promise!Next
    BY <2>c DEF Promise!Next
  <2>1. CASE UNCHANGED <<occupied, sent, got>>
    BY <2>1 DEF Promise!vars
  <2>2. CASE LinkTake
    <3>1. PICK p \in Procs :
             /\ ~occupied[p]
             /\ occupied' = [occupied EXCEPT ![p] = TRUE]
             /\ sender' = [sender EXCEPT !.pc = "malloc", !.proc = p]
             /\ sent' = [sent EXCEPT ![p] = 0]
      BY <2>2 DEF LinkTake, TakeProcess
    <3>2. sender'.proc = p
      BY <2>0, <3>1 DEF TypeOK
    <3>3. got' = [got EXCEPT ![p] = FALSE]
      BY <2>2, <3>2 DEF LinkTake
    <3>4. Promise!Accept(p)
      BY <3>1, <3>3 DEF Promise!Accept
    <3> QED
      BY <2>c, <3>4
  <2>3. CASE MallocFails /\ UNCHANGED linkVars
    <3>1. PICK p \in Procs : p = sender.proc
      BY <2>b
    <3>2. /\ Sending(p) /\ occupied' = [occupied EXCEPT ![p] = FALSE]
          /\ UNCHANGED <<sent, got>>
      BY <2>3, <3>1
         DEF MallocFails, GiveProcess, ForgetProcess, Sending, linkVars
    <3>3. occupied[p]
      BY <2>0, <3>2 DEF Driven
    <3>4. sent[p] = 0
      BY <2>a, <3>2 DEF Counted
    <3>5. Promise!Refuse(p)
      BY <3>2, <3>3, <3>4 DEF Promise!Refuse, Promise!Ends
    <3> QED
      BY <2>c, <3>5
  <2>4. CASE WorkForgets /\ UNCHANGED linkVars
    <3>1. PICK p \in Procs : p = worker.proc
      BY <2>b
    <3>2. /\ Resending(p) /\ worker.pc = "forget"
          /\ occupied' = [occupied EXCEPT ![p] = FALSE]
          /\ UNCHANGED <<sent, got>>
      BY <2>4, <3>1 DEF WorkForgets, ForgetProcess, Resending, linkVars
    <3>3. occupied[p]
      BY <2>0, <3>2 DEF Driven
    <3>4. sent[p] = MaxTransmissions
      BY <2>a, <3>2 DEF Counted
    <3>5. Promise!GiveUp(p)
      BY <3>2, <3>3, <3>4 DEF Promise!GiveUp, Promise!Ends
    <3> QED
      BY <2>c, <3>5
  <2>5. CASE LinkTxDone
    <3>1. PICK p \in Procs : p = phy.op.proc /\ InPhy(p)
      BY <2>0, <2>5 DEF LinkTxDone, TxDone, TxStopped, TypeOK, Working, Op, InPhy
    <3>2. occupied[p]
      BY <2>0, <3>1 DEF Driven
    <3>3. sent[p] < MaxTransmissions
      BY <2>a, <3>1 DEF Counted, CountAhead
    <3>4. sent[p] <= MaxTransmissions
      BY <2>b, <3>3
    <3>5. /\ sent' = [sent EXCEPT ![p] = @ + 1]
          /\ UNCHANGED <<occupied, got>>
      BY <2>5, <3>1, <3>4 DEF LinkTxDone, TxDone, TxStopped, Leaves
    <3>6. Promise!Send(p)
      BY <3>2, <3>3, <3>5 DEF Promise!Send
    <3> QED
      BY <2>c, <3>6
  <2>6. CASE \E p \in Procs : Ack(p) /\ UNCHANGED linkVars
    <3>1. PICK p \in Procs : Ack(p) /\ UNCHANGED linkVars
      BY <2>6
    <3>2. /\ reply[p] = "ack" /\ occupied' = [occupied EXCEPT ![p] = FALSE]
          /\ UNCHANGED <<sent, got>>
      BY <3>1 DEF Ack, GiveProcess, ForgetProcess, linkVars
    <3>3. occupied[p] /\ got[p]
      BY <2>0, <2>a, <3>2 DEF Driven, Awaited, Pending, Scheduled, AckMeansGot
    <3>4. Promise!Confirm(p)
      BY <3>2, <3>3 DEF Promise!Confirm, Promise!Ends
    <3> QED
      BY <2>c, <3>4
  <2>7. CASE \E p \in Procs : PeerHears(p)
    <3>1. PICK p \in Procs : PeerHears(p)
      BY <2>7
    <3>2. PICK crc \in BOOLEAN : got' = [got EXCEPT ![p] = @ \/ crc]
      BY <3>1 DEF PeerHears
    <3>3. air[p] # NULL /\ UNCHANGED <<occupied, sent>>
      BY <3>1 DEF PeerHears
    <3>4. CASE crc
      <4>1. got' = [got EXCEPT ![p] = TRUE]
        BY <3>2, <3>4
      <4>2. occupied[p] /\ Pending(p)
        BY <2>0, <3>3 DEF Driven, Awaited, Pending, Scheduled
      <4>3. sent[p] > 0
        BY <2>a, <2>b, <4>2 DEF Counted, CountMeets
      <4>4. Promise!Receive(p)
        BY <3>3, <4>1, <4>2, <4>3 DEF Promise!Receive
      <4> QED
        BY <2>c, <4>4
    <3>5. CASE ~crc
      <4>1. got' = got
        BY <2>b, <3>2, <3>5
      <4> QED
        BY <2>1, <3>3, <4>1
    <3> QED
      BY <3>4, <3>5
  <2>8. CASE UNCHANGED allVars \/ \E p \in Procs : FrameLost(p)
    BY <2>1, <2>8 DEF allVars, linkVars, FrameLost, vars
  <2>9. CASE (Malloc \/ Fill \/ PutFirst) /\ UNCHANGED linkVars
    BY <2>1, <2>9 DEF Malloc, Fill, PutFirst, linkVars
  <2>10. CASE /\ \/ \E p \in Procs : WorkStarts(p)
                 \/ WorkChecks \/ WorkCounts \/ WorkPuts \/ WorkFrees
              /\ UNCHANGED linkVars
    BY <2>1, <2>10
       DEF WorkStarts, WorkChecks, WorkCounts, WorkPuts, WorkFrees, linkVars
  <2>11. CASE LinkTxFails \/ LinkRxDone \/ \E prio \in Prios : LinkTransmit(prio)
    BY <2>1, <2>11
       DEF LinkTxFails, TxLate, TxFails, LinkRxDone, RxDone, RxFails, LinkTransmit,
           Transmit, linkVars
  <2>12. CASE \E p \in Procs : /\ DelayElapses(p) \/ Nack(p) \/ ReplyLost(p)
                               /\ UNCHANGED linkVars
    BY <2>1, <2>12 DEF DelayElapses, Nack, ReplyLost, linkVars
  <2> QED
    BY <1>2, <2>2, <2>3, <2>4, <2>5, <2>6, <2>7, <2>8, <2>9, <2>10, <2>11, <2>12,
       Zenon
       DEF LinkNext, LinkSender, LinkWorker, Worker, LinkRadio, LinkResponse,
           LinkDelayElapses, Prios
<1>3. IInv /\ [LinkNext]_allVars => [Promise!Next]_(Promise!vars)
  BY <1>2
<1> QED
  BY <1>1, <1>3, InductiveInvariant, PTL
     DEF LinkSpec, ImplementsDelivery, Promise!Spec
=============================================================================
