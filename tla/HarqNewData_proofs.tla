------------------------- MODULE HarqNewData_proofs -------------------------
(***************************************************************************)
(* Proofs about HarqNewData.  Other nodes may send HARQ requests and calls *)
(* may fail, so of the invariant of HarqLink only the part about what      *)
(* keeps a process going is left (DriveInv).                               *)
(***************************************************************************)
EXTENDS HarqNewData, HarqLink_proofs

-----------------------------------------------------------------------------
(***************************************************************************)
(* The inductive invariant                                                 *)
(***************************************************************************)

\* The operations and the frames in the air carry the indication their process has.
OpsNdi ==
    /\ \A prio \in Prios : \A i \in 1 .. Len(queue[prio]) :
          queue[prio][i].ndi = new_data_indication[queue[prio][i].proc]
    /\ phy # NULL /\ phy.half = "tx" =>
          phy.op.ndi = new_data_indication[phy.op.proc]

AirNdi(p) == air[p] # NULL => air[p] = new_data_indication[p]

\* The peer was told that indication when it heard the message, and if not, it was
\* last told another one, or nothing.
Told(p) ==
    IF heard[p] THEN told[p] = new_data_indication[p]
                ELSE told[p] = NULL \/ told[p] # new_data_indication[p]

NewDataIInv ==
    /\ DriveInv
    /\ NewDataTypeOK
    /\ OpsNdi
    /\ \A p \in Procs : AirNdi(p) /\ Told(p)

-----------------------------------------------------------------------------
(***************************************************************************)
(* The steps                                                               *)
(***************************************************************************)

\* Every step is one of HarqLink or the request of another node.
LEMMA NewDataMoves == [NewDataNext]_newDataVars => [Moves]_allVars
BY Zenon DEF NewDataNext, NewDataTake, NewDataHeard, newDataVars, Moves, LinkNext

\* The types of the history are kept.
LEMMA NewDataTypeStep ==
    ASSUME DriveInv, NewDataTypeOK, [NewDataNext]_newDataVars
    PROVE  NewDataTypeOK'
<1>0. LinkTypeOK' /\ LinkTypeOK /\ TypeOK
  BY NewDataMoves, TypeStep DEF DriveInv, LinkTypeOK
<1>1. CASE UNCHANGED <<heard, told>>
  BY <1>0, <1>1 DEF NewDataTypeOK
<1>2. CASE NewDataTake
  BY <1>0, <1>2 DEF NewDataTake, NewDataTypeOK
<1>3. CASE \E p \in Procs : NewDataHeard(p)
  BY <1>0, <1>3 DEF NewDataHeard, NewDataTypeOK, LinkTypeOK
<1> QED
  BY <1>1, <1>2, <1>3 DEF NewDataNext, newDataVars

\* Only take_process touches the indication.
LEMMA NdiKept ==
    ASSUME [NewDataNext]_newDataVars
    PROVE  NewDataTake \/ UNCHANGED new_data_indication
BY DEF NewDataNext, newDataVars, allVars, vars, NewDataHeard, PeerHears, LinkSender,
       Malloc, MallocFails, Fill, PutFirst, LinkWorker, Worker, WorkStarts,
       WorkChecks, WorkCounts, WorkPuts, WorkFrees, WorkForgets, LinkRadio,
       LinkTransmit, Transmit, LinkTxDone, TxDone, TxStopped, LinkTxFails, TxLate,
       TxFails, LinkRxDone, RxDone, RxFails, LinkDelayElapses, DelayElapses,
       LinkResponse, Ack, Nack, ReplyLost, FrameLost, HarqRequest

\* The queue and the PHY keep the indications of what they have.
LEMMA OpsNdiStep ==
    ASSUME DriveInv, OpsNdi, [NewDataNext]_newDataVars
    PROVE  OpsNdi'
<1>0. /\ LinkTypeOK /\ TypeOK /\ OneOp
      /\ \A p \in Procs : Exclusive(p) /\ Driven(p) /\ Awaited(p)
  BY Zenon DEF DriveInv, LinkTypeOK
<1>1. CASE UNCHANGED <<queue, phy, new_data_indication>>
  BY <1>1 DEF OpsNdi
<1>2. CASE NewDataTake
  <2>1. PICK p \in Procs :
           /\ ~occupied[p]
           /\ new_data_indication' = [new_data_indication EXCEPT ![p] = ~@]
    BY <1>2 DEF NewDataTake, LinkTake, TakeProcess
  <2>2. ~InQueue(p) /\ ~InPhy(p)
    BY <1>0, <2>1 DEF Driven
  <2>3. UNCHANGED <<queue, phy>>
    BY <1>2 DEF NewDataTake, LinkTake, TakeProcess
  <2>4. \A q \in Procs : q # p =>
           new_data_indication'[q] = new_data_indication[q]
    BY <1>0, <2>1 DEF TypeOK
  <2>5. ASSUME NEW prio \in Prios, NEW i \in 1 .. Len(queue[prio])
        PROVE  queue[prio][i].ndi = new_data_indication'[queue[prio][i].proc]
    <3>1. queue[prio] \in Seq(Op)
      BY <1>0 DEF TypeOK, Prios
    <3>2. queue[prio][i].proc \in Procs
      <4>1. queue[prio][i] \in Op
        BY <3>1, ElementOfSeq
      <4> QED
        BY <4>1 DEF Op
    <3>3. queue[prio][i].proc # p
      BY <2>2 DEF InQueue
    <3> QED
      BY <2>4, <3>2, <3>3 DEF OpsNdi
  <2>6. phy # NULL /\ phy.half = "tx" =>
           phy.op.ndi = new_data_indication'[phy.op.proc]
    BY <1>0, <2>2, <2>4 DEF OpsNdi, InPhy, TypeOK, Working, Op
  <2> QED
    BY <2>3, <2>5, <2>6 DEF OpsNdi
<1>3. ASSUME NEW p \in Procs, NEW prio \in Prios, PutOp(p, prio), ~InQueue(p),
             UNCHANGED <<phy, new_data_indication>>
      PROVE  OpsNdi'
  <2>1. OpOf(p).proc = p /\ OpOf(p).ndi = new_data_indication[p]
    BY DEF OpOf
  <2>2. ASSUME NEW prio2 \in Prios, NEW i \in 1 .. Len(queue'[prio2])
        PROVE  queue'[prio2][i].ndi = new_data_indication[queue'[prio2][i].proc]
    <3>1. \/ i \in 1 .. Len(queue[prio2]) /\ queue'[prio2][i] = queue[prio2][i]
          \/ queue'[prio2][i] = OpOf(p)
      BY <1>0, <1>3, PutOpQueue
    <3> QED
      BY <2>1, <3>1 DEF OpsNdi
  <2> QED
    BY <1>3, <2>2 DEF OpsNdi
<1>4. CASE PutFirst
  <2>1. PICK p \in Procs : p = sender.proc
    BY <1>0 DEF TypeOK
  <2>2. ~InQueue(p) /\ "HIGH" \in Prios /\ PutOp(p, "HIGH")
    BY <1>0, <1>4, <2>1 DEF PutFirst, Exclusive, Sending, Prios
  <2> QED
    BY <1>3, <1>4, <2>2 DEF PutFirst
<1>5. CASE WorkPuts
  <2>1. PICK p \in Procs : p = worker.proc
    BY <1>0 DEF TypeOK
  <2>2. ~InQueue(p) /\ "MEDIUM" \in Prios /\ PutOp(p, "MEDIUM")
    BY <1>0, <1>5, <2>1 DEF WorkPuts, Exclusive, Resending, Prios
  <2> QED
    BY <1>3, <1>5, <2>2 DEF WorkPuts
<1>6. CASE \E prio \in Prios : LinkTransmit(prio)
  <2>1. PICK prio \in Prios : LinkTransmit(prio)
    BY <1>6
  <2>2. /\ 1 \in 1 .. Len(queue[prio])
        /\ phy' = [half |-> "tx", op |-> queue[prio][1]]
        /\ \A prio2 \in Prios : \A i \in 1 .. Len(queue'[prio2]) :
              \E j \in 1 .. Len(queue[prio2]) :
                 queue'[prio2][i] = queue[prio2][j]
    BY <1>0, <2>1, TransmitQueue DEF LinkTransmit
  <2>3. /\ phy'.op = queue[prio][1]
        /\ phy'.op.ndi = new_data_indication[phy'.op.proc]
    BY <2>2 DEF OpsNdi
  <2>4. ASSUME NEW prio2 \in Prios, NEW i \in 1 .. Len(queue'[prio2])
        PROVE  queue'[prio2][i].ndi = new_data_indication[queue'[prio2][i].proc]
    <3>1. PICK j \in 1 .. Len(queue[prio2]) :
             queue'[prio2][i] = queue[prio2][j]
      BY <2>2
    <3> QED
      BY <3>1 DEF OpsNdi
  <2>5. UNCHANGED new_data_indication
    BY <2>1 DEF LinkTransmit, Transmit
  <2> QED
    BY <2>3, <2>4, <2>5 DEF OpsNdi
<1>7. CASE LinkTxDone
  <2>1. phy'.half = "rx" /\ UNCHANGED <<queue, new_data_indication>>
    BY <1>0, <1>7 DEF LinkTxDone, TxDone, TxStopped, TypeOK, Working
  <2> QED
    BY <2>1 DEF OpsNdi
<1>8. CASE LinkRxDone \/ LinkTxFails
  <2>1. /\ phy' # NULL => phy'.half # "tx"
        /\ UNCHANGED <<queue, new_data_indication>>
    BY <1>0, <1>8
       DEF LinkRxDone, RxDone, RxFails, LinkTxFails, TxLate, TxFails, TypeOK,
           Working
  <2> QED
    BY <2>1 DEF OpsNdi
<1>9. CASE Malloc \/ MallocFails \/ Fill
  BY <1>1, <1>9 DEF Malloc, MallocFails, Fill
<1>10. CASE \/ \E p \in Procs : WorkStarts(p)
            \/ WorkChecks \/ WorkCounts \/ WorkFrees \/ WorkForgets
  BY <1>1, <1>10 DEF WorkStarts, WorkChecks, WorkCounts, WorkFrees, WorkForgets
<1>11. CASE \E p \in Procs : \/ LinkDelayElapses(p) \/ LinkResponse(p)
                             \/ FrameLost(p) \/ PeerHears(p) \/ HarqRequest(p)
  BY <1>1, <1>11
     DEF LinkDelayElapses, DelayElapses, LinkResponse, Ack, Nack, ReplyLost,
         FrameLost, PeerHears, HarqRequest, vars
<1>12. CASE UNCHANGED newDataVars
  BY <1>1, <1>12 DEF newDataVars, allVars, vars
<1> QED
  BY <1>2, <1>4, <1>5, <1>6, <1>7, <1>8, <1>9, <1>10, <1>11, <1>12, Zenon
     DEF NewDataNext, NewDataHeard, LinkSender, LinkWorker, Worker, LinkRadio, Prios

\* A frame carries the indication of its operation.
LEMMA AirNdiStep ==
    ASSUME DriveInv, OpsNdi, \A p \in Procs : AirNdi(p),
           [NewDataNext]_newDataVars
    PROVE  \A p \in Procs : AirNdi(p)'
<1>0. /\ LinkTypeOK /\ TypeOK
      /\ \A p \in Procs : Driven(p) /\ Awaited(p) /\ AirNdi(p)
  BY Zenon DEF DriveInv, LinkTypeOK
<1>1. CASE UNCHANGED <<air, new_data_indication>>
  BY <1>0, <1>1 DEF AirNdi
<1>2. CASE NewDataTake
  <2>1. PICK p \in Procs :
           /\ ~occupied[p]
           /\ new_data_indication' = [new_data_indication EXCEPT ![p] = ~@]
    BY <1>2 DEF NewDataTake, LinkTake, TakeProcess
  <2>2. air[p] = NULL /\ air' = air
    BY <1>0, <1>2, <2>1
       DEF Driven, Awaited, Pending, Scheduled, NewDataTake, LinkTake
  <2> QED
    BY <1>0, <2>1, <2>2 DEF AirNdi, TypeOK
<1>3. CASE LinkTxDone
  <2>1. PICK p \in Procs : p = phy.op.proc
    BY <1>0, <1>3 DEF LinkTxDone, TxDone, TxStopped, TypeOK, Working, Op
  <2>2. /\ air' = [air EXCEPT ![p] = new_data_indication[p]]
        /\ UNCHANGED new_data_indication
    BY <1>3, <2>1 DEF LinkTxDone, TxDone, TxStopped, OpsNdi
  <2> QED
    BY <1>0, <2>2 DEF AirNdi, LinkTypeOK
<1>4. CASE \E p \in Procs : FrameLost(p) \/ PeerHears(p)
  <2>1. PICK p \in Procs : FrameLost(p) \/ PeerHears(p)
    BY <1>4
  <2>2. /\ air' = [air EXCEPT ![p] = NULL]
        /\ UNCHANGED new_data_indication
    BY <2>1 DEF FrameLost, PeerHears, vars
  <2> QED
    BY <1>0, <2>2 DEF AirNdi, LinkTypeOK
<1>5. CASE /\ \/ LinkSender \/ LinkWorker \/ LinkRxDone \/ LinkTxFails
              \/ \E prio \in Prios : LinkTransmit(prio)
              \/ \E p \in Procs : LinkDelayElapses(p) \/ LinkResponse(p)
              \/ \E p \in Procs : HarqRequest(p) /\ UNCHANGED linkVars
           /\ UNCHANGED new_data_indication
  BY <1>1, <1>5
     DEF LinkSender, LinkWorker, LinkRxDone, LinkTxFails, LinkTransmit,
         LinkDelayElapses, LinkResponse, linkVars
<1>6. CASE UNCHANGED newDataVars
  BY <1>1, <1>6 DEF newDataVars, allVars, vars, linkVars
<1> QED
  BY <1>2, <1>3, <1>4, <1>5, <1>6, NdiKept, Zenon
     DEF NewDataNext, NewDataHeard, LinkRadio, Prios

\* What the peer was told last tells a new message from a repeated one.
LEMMA ToldStep ==
    ASSUME DriveInv, NewDataTypeOK, \A p \in Procs : AirNdi(p) /\ Told(p),
           [NewDataNext]_newDataVars
    PROVE  \A p \in Procs : Told(p)'
<1>0. /\ LinkTypeOK /\ TypeOK
      /\ \A p \in Procs : AirNdi(p) /\ Told(p)
      /\ heard \in [Procs -> BOOLEAN] /\ told \in [Procs -> BOOLEAN \cup {NULL}]
      /\ new_data_indication \in [Procs -> BOOLEAN]
  BY Zenon DEF DriveInv, LinkTypeOK, TypeOK, NewDataTypeOK
<1>1. CASE UNCHANGED <<heard, told, new_data_indication>>
  BY <1>0, <1>1 DEF Told
<1>2. CASE NewDataTake
  <2>1. PICK p \in Procs :
           /\ new_data_indication' = [new_data_indication EXCEPT ![p] = ~@]
           /\ sender' = [sender EXCEPT !.pc = "malloc", !.proc = p]
    BY <1>2 DEF NewDataTake, LinkTake, TakeProcess
  <2>2. sender'.proc = p
    BY <1>0, <2>1 DEF TypeOK
  <2>3. /\ heard' = [heard EXCEPT ![p] = FALSE]
        /\ told' = IF heard[p] THEN told ELSE [told EXCEPT ![p] = NULL]
    BY <1>2, <2>2 DEF NewDataTake
  <2>4. ASSUME NEW q \in Procs, q # p PROVE Told(q)'
    BY <1>0, <2>1, <2>3, <2>4 DEF Told
  <2>5. Told(p)'
    <3>1. ~heard'[p] /\ new_data_indication'[p] = ~new_data_indication[p]
      BY <1>0, <2>1, <2>3
    <3>2. CASE heard[p]
      <4>1. told'[p] = new_data_indication[p]
        BY <1>0, <2>3, <3>2 DEF Told
      <4> QED
        BY <1>0, <3>1, <4>1 DEF Told
    <3>3. CASE ~heard[p]
      <4>1. told'[p] = NULL
        BY <1>0, <2>3, <3>3
      <4> QED
        BY <3>1, <4>1 DEF Told
    <3> QED
      BY <3>2, <3>3
  <2> QED
    BY <2>4, <2>5
<1>3. CASE \E p \in Procs : NewDataHeard(p)
  <2>1. PICK p \in Procs : NewDataHeard(p)
    BY <1>3
  <2>2. /\ heard' = [heard EXCEPT ![p] = TRUE]
        /\ told' = [told EXCEPT ![p] = new_data_indication[p]]
        /\ UNCHANGED new_data_indication
    BY <1>0, <2>1 DEF NewDataHeard, PeerHears, AirNdi
  <2> QED
    BY <1>0, <2>2 DEF Told
<1> QED
  BY <1>1, <1>2, <1>3, NdiKept
     DEF NewDataNext, newDataVars, allVars, vars

-----------------------------------------------------------------------------
(***************************************************************************)
(* The theorems                                                            *)
(***************************************************************************)

\* What keeps a process going and what the indication tells stays so while other
\* nodes send requests and any of the faults happens.
THEOREM NewDataInvariant == NewDataSpec => []NewDataIInv
<1>1. NewDataInit => NewDataIInv
  <2> SUFFICES ASSUME NewDataInit PROVE NewDataIInv
    OBVIOUS
  <2>1. LinkInit /\ IInv
    BY InitIInv DEF NewDataInit
  <2>2. DriveInv /\ LinkTypeOK
    BY <2>1, Zenon DEF IInv, DriveInv
  <2>3. NewDataTypeOK
    BY <2>2 DEF NewDataTypeOK, NewDataInit
  <2>4. OpsNdi
    <3>1. \A prio \in Prios : Len(queue[prio]) = 0
      BY <2>1 DEF LinkInit, Init, Prios
    <3> QED
      <4>1. \A prio \in Prios : \A i \in 1 .. Len(queue[prio]) : FALSE
        BY <3>1
      <4>2. phy = NULL
        BY <2>1 DEF LinkInit, Init
      <4> QED
        BY <4>1, <4>2 DEF OpsNdi
  <2>5. \A p \in Procs : AirNdi(p) /\ Told(p)
    BY <2>1 DEF AirNdi, Told, NewDataInit, LinkInit
  <2> QED
    BY <2>2, <2>3, <2>4, <2>5 DEF NewDataIInv
<1>2. NewDataIInv /\ [NewDataNext]_newDataVars => NewDataIInv'
  <2> SUFFICES ASSUME NewDataIInv, [NewDataNext]_newDataVars
               PROVE  NewDataIInv'
    OBVIOUS
  <2>1. DriveInv'
    BY NewDataMoves, DriveStep DEF NewDataIInv
  <2>2. NewDataTypeOK'
    BY NewDataTypeStep DEF NewDataIInv
  <2>3. OpsNdi'
    BY OpsNdiStep DEF NewDataIInv
  <2>4. \A p \in Procs : AirNdi(p)'
    BY AirNdiStep DEF NewDataIInv
  <2>5. \A p \in Procs : Told(p)'
    BY ToldStep DEF NewDataIInv
  <2> QED
    BY <2>1, <2>2, <2>3, <2>4, <2>5, Zenon DEF NewDataIInv
<1> QED
  BY <1>1, <1>2, PTL DEF NewDataSpec

\* Requests of other nodes take no process out of the hands it is in and leave none
\* behind: a process has exactly one driver, or its last operation was refused or
\* ended without the retransmission work (dect_mac_harq_request initialises a process
\* of this node, but leaves harq_process_occupied and the work alone).
THEOREM RequestsLeaveDrivers == NewDataSpec => []ProcessDrivenOnce
<1>1. NewDataIInv => ProcessDrivenOnce
  BY DriveMeansOnce DEF NewDataIInv
<1> QED
  BY <1>1, NewDataInvariant, PTL

\* The peer can tell a new message from a repeated one by the new data indication,
\* for any number of processes and whatever became of the messages before it
\* (take_process, dect_mac_harq.c).
THEOREM IndicationTellsNew == NewDataSpec => []PeerTellsNew
<1>1. ASSUME NewDataIInv PROVE PeerTellsNew
  BY <1>1 DEF NewDataIInv, PeerTellsNew, AirNdi, Told
<1> QED
  BY <1>1, NewDataInvariant, PTL
=============================================================================
