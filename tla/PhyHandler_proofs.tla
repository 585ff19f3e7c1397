-------------------------- MODULE PhyHandler_proofs --------------------------
(***************************************************************************)
(* Proofs about PhyHandler, for any operations, retries and bounds.        *)
(*                                                                         *)
(* The first are about a handler whose token nothing takes past the queue: *)
(* no other node asks for a reply, and no RSSI measurement, whose reports  *)
(* each give the token, is put.  The priorities are any, and so are the    *)
(* answers of the modem: refusals, late starts and other errors included.  *)
(*                                                                         *)
(* The last two are about replies that go past the queue (Replying).       *)
(***************************************************************************)
EXTENDS PhyHandler, DataLemmas, FiniteSetTheorems, TLAPS

Undisturbed == ~Requests /\ \A op \in Users : Fn[op] # "RSSI"

-----------------------------------------------------------------------------
(***************************************************************************)
(* The inductive invariant                                                 *)
(***************************************************************************)

\* Only what users put is on its way or in the modem.
UsersOnly ==
    /\ accepted \in Seq(Users) /\ pending \in Seq(Users)
    /\ modem \in Seq([op : Users, half : Halves, heard : BOOLEAN])
    /\ local_node # NoOp => local_node \in Users
    /\ current_node # NoOp => current_node \in Users

\* The token is in the semaphore, with the exec thread, with the modem or with
\* the timer, or lost.  So the modem has one operation at most.
OneHolder ==
    /\ modem = <<>> \/ Len(modem) = 1
    /\ phy_layer_sem = 1 => exec_pc = "phy"
    /\ phy_layer_sem = 1 \/ exec_pc # "phy" => ~failed_timer
    /\ phy_layer_sem = 1 \/ exec_pc # "phy" \/ failed_timer => modem = <<>>

\* The thread holds an operation while it starts it, and it is saved before it
\* is started: what the modem or the timer has is current_node.
NodeSaved ==
    /\ local_node # NoOp <=> exec_pc \in {"reset", "save", "execute"}
    /\ exec_pc = "execute" => current_node = local_node
    /\ failed_timer => current_node # NoOp
    /\ Len(modem) = 1 => modem[1].op = current_node

\* The halves of the operation in the modem, and the state that tells them apart.
\* Nothing listens in its first half.
HalfKnown ==
    Len(modem) = 1 =>
        /\ modem[1].half = "whole" <=> Fn[modem[1].op] # "TX_RX"
        /\ modem[1].half = "tx" => current_state = "TRANSMITTING"
        /\ modem[1].half = "rx" => current_state # "TRANSMITTING"

\* An operation that is tried has retries left, or was not tried before.
RetriesLeft ==
    /\ RetriesBounded
    /\ Len(modem) = 1 => failed_counter <= MaxRetry

IInv ==
    /\ TypeOK /\ UsersOnly /\ OneHolder /\ NodeSaved /\ HalfKnown /\ RetriesLeft

-----------------------------------------------------------------------------
(***************************************************************************)
(* What the steps do                                                       *)
(***************************************************************************)

\* function_execute with an idle modem gives it the operation or nothing.
LEMMA ExecuteStarts ==
    ASSUME NEW op \in Users, modem = <<>>, FunctionExecute(op)
    PROVE  /\ modem' \in Seq([op : Users, half : Halves, heard : BOOLEAN])
           /\ \/ modem' = <<>> /\ Len(modem') = 0
              \/ Len(modem') = 1 /\ modem'[1] = Started(op)
           /\ current_state' = StateOf(Fn[op])
<1>1. Started(op) \in [op : Users, half : Halves, heard : BOOLEAN]
  BY DEF Started, Halves
<1> DEFINE S == [op : Users, half : Halves, heard : BOOLEAN]
           e == Started(op)
<1>2. <<>> \in Seq(S) /\ Len(<<>>) = 0
  BY EmptySeq
<1>3. e \in S
  BY <1>1
<1> HIDE DEF S, e
<1>4. /\ Append(<<>>, e) \in Seq(S) /\ Len(Append(<<>>, e)) = 1
      /\ Append(<<>>, e)[1] = e
  BY <1>2, <1>3
<1>5. modem' = Append(<<>>, e) \/ modem' = <<>>
  BY DEF FunctionExecute, e
<1> QED
  BY <1>2, <1>4, <1>5 DEF FunctionExecute, S, e

\* The callbacks start the second half of a TX_RX, end the operation the modem
\* has, have it tried again or give it up.  Only the second and the last let go
\* of the PHY.
Switches ==
    /\ Fn[modem[1].op] = "TX_RX" /\ modem[1].half = "tx"
    /\ current_state' = "RECEIVING"
    /\ modem' = [modem EXCEPT ![1].half = "rx"]
    /\ UNCHANGED <<phy_layer_sem, failed_counter, failed_timer>>

Ends ==
    /\ modem' = <<>>
    /\ phy_layer_sem' \in {phy_layer_sem, 1}
    /\ UNCHANGED <<current_state, failed_counter, failed_timer>>

TriesAgain ==
    /\ modem' = <<>>
    /\ failed_counter' = failed_counter + 1 /\ failed_counter' <= MaxRetry
    /\ failed_timer' = TRUE
    /\ UNCHANGED <<phy_layer_sem, current_state>>

GivesUp ==
    /\ modem' = <<>>
    /\ failed_counter' = failed_counter + 1
    /\ phy_layer_sem' = 1
    /\ UNCHANGED <<current_state, failed_timer>>

\* With one operation in the modem, no RSSI measurement and no HARQ request a
\* callback does one of these, and leaves the queue and the thread alone.
LEMMA AnswerCases ==
    ASSUME Undisturbed, IInv, Answer
    PROVE  /\ Len(modem) = 1 /\ modem[1].op \in Users
           /\ UNCHANGED <<accepted, pending, exec_pc, local_node, current_node>>
           /\ Switches \/ Ends \/ TriesAgain \/ GivesUp
<1>0. PICK i \in 1 .. Len(modem) :
        \/ SwitchToRx(i) \/ OpComplete(i) \/ Late(i) \/ Failed(i)
        \/ CapabilityGot(i) \/ RssiReport(i) \/ RxStopped(i)
  BY DEF Answer
<1>1. Len(modem) = 1 /\ i = 1
  <2>1. Len(modem) = 0 \/ Len(modem) = 1
    BY EmptySeq DEF IInv, OneHolder
  <2>2. i \in 1 .. 0 \/ i \in 1 .. 1
    BY <2>1, Zenon
  <2> QED
    BY <2>1, <2>2
<1>2. /\ modem[1] \in [op : Users, half : Halves, heard : BOOLEAN]
      /\ RemoveAt(modem, 1) = <<>>
  BY <1>1, ElementOfSeq, RemoveOnly DEF IInv, UsersOnly
<1>3. /\ modem[1].half = "whole" <=> Fn[modem[1].op] # "TX_RX"
      /\ modem[1].half = "tx" => current_state = "TRANSMITTING"
      /\ modem[1].half = "rx" => current_state # "TRANSMITTING"
  BY <1>1 DEF IInv, HalfKnown
<1>4. modem[1].op \in Users /\ modem[1].half \in Halves
  BY <1>2
<1>5. Fn[modem[1].op] # "RSSI"
  BY <1>4 DEF Undisturbed
<1>6. failed_counter \in Nat /\ MaxRetry \in Nat
  BY HandlerAssumption DEF IInv, TypeOK
<1> USE DEF queueVars, execVars, retryVars, PhySemGive
<1>7. CASE SwitchToRx(1)
  BY <1>1, <1>2, <1>3, <1>4, <1>7 DEF SwitchToRx, Switches, Halves
<1>8. CASE OpComplete(1)
  BY <1>1, <1>2, <1>3, <1>4, <1>8 DEF OpComplete, Ends, Halves
<1>9. CASE Late(1)
  BY <1>1, <1>2, <1>4, <1>6, <1>9 DEF Late, TriesAgain, GivesUp
<1>10. CASE Failed(1) \/ CapabilityGot(1) \/ RxStopped(1)
  BY <1>1, <1>2, <1>4, <1>10 DEF Failed, CapabilityGot, RxStopped, Ends
<1>11. CASE RssiReport(1)
  BY <1>5, <1>11 DEF RssiReport
<1> QED
  BY <1>0, <1>1, <1>7, <1>8, <1>9, <1>10, <1>11

\* The second half is that of the same operation.
LEMMA SwitchKeepsOp ==
    ASSUME UsersOnly, Len(modem) = 1, Switches
    PROVE  /\ modem' \in Seq([op : Users, half : Halves, heard : BOOLEAN])
           /\ Len(modem') = 1
           /\ modem'[1].op = modem[1].op /\ modem'[1].half = "rx"
<1> DEFINE S == [op : Users, half : Halves, heard : BOOLEAN]
           e == [modem[1] EXCEPT !.half = "rx"]
<1>1. modem \in Seq(S) /\ 1 \in 1 .. Len(modem)
  BY DEF UsersOnly
<1>2. modem[1] \in S
  BY <1>1, ElementOfSeq
<1>3. e \in S /\ e.op = modem[1].op /\ e.half = "rx"
  BY <1>2 DEF Halves
<1>4. modem' = [modem EXCEPT ![1] = e]
  BY DEF Switches
<1> HIDE DEF S, e
<1>5. modem' \in Seq(S) /\ Len(modem') = Len(modem)
  <2>1. modem' \in Seq(S)
    BY <1>1, <1>3, <1>4, ExceptSeq
  <2>2. DOMAIN modem' = DOMAIN modem
    BY <1>4
  <2>3. DOMAIN modem = 1 .. Len(modem)
    BY <1>1, LenProperties
  <2>4. DOMAIN modem' = 1 .. Len(modem') /\ Len(modem') \in Nat
    BY <2>1, LenProperties
  <2> QED
    BY <2>1, <2>2, <2>3, <2>4
<1>6. modem'[1] = e
  <2>1. 1 \in DOMAIN modem
    BY <1>1, LenProperties
  <2> QED
    BY <1>4, <2>1
<1> QED
  BY <1>3, <1>5, <1>6 DEF S

-----------------------------------------------------------------------------
(***************************************************************************)
(* The invariant is inductive                                              *)
(***************************************************************************)

\* What main sets up satisfies the invariant.
LEMMA InitIInv == Init => IInv
<1> SUFFICES ASSUME Init PROVE IInv
  OBVIOUS
<1>1. TypeOK
  <2>1. /\ accepted \in Seq(Ops) /\ pending \in Seq(Ops)
        /\ modem \in Seq(Activity)
    BY EmptySeq DEF Init
  <2>2. failed_timer \in BOOLEAN /\ failed_counter \in Nat
    BY DEF Init
  <2>3. /\ exec_pc \in {"phy", "item", "reset", "save", "execute"}
        /\ current_state \in States
    BY DEF Init, States
  <2>4. local_node \in Ops \cup {NoOp} /\ current_node \in Ops \cup {NoOp}
    BY DEF Init
  <2>5. phy_layer_sem \in 0 .. 1
    BY DEF Init
  <2> QED
    BY <2>1, <2>2, <2>3, <2>4, <2>5 DEF TypeOK
<1>2. UsersOnly
  BY EmptySeq DEF Init, UsersOnly
<1>3. OneHolder /\ NodeSaved
  BY EmptySeq DEF Init, OneHolder, NodeSaved
<1>4. HalfKnown /\ RetriesLeft
  BY HandlerAssumption, EmptySeq DEF Init, HalfKnown, RetriesLeft, RetriesBounded
<1> QED
  BY <1>1, <1>2, <1>3, <1>4 DEF IInv

\* The queue, the thread and the modem only pass on what users put.
LEMMA UsersOnlyStep ==
    ASSUME Undisturbed, IInv, [Next]_vars
    PROVE  UsersOnly'
<1> USE DEF UsersOnly, queueVars, execVars, retryVars, ExecTo
<1>0. UsersOnly /\ OneHolder /\ NodeSaved
  BY DEF IInv
<1>1. ASSUME NEW op \in Users, Put(op) PROVE UsersOnly'
  BY <1>0, <1>1 DEF Put
<1>2. CASE File
  <2>1. Head(accepted) \in Users /\ accepted' \in Seq(Users)
    BY <1>0, <1>2, HeadTailProperties DEF File
  <2>2. PICK i \in 1 .. Len(pending) + 1 :
           pending' = InsertAt(pending, i, Head(accepted))
    <3>1. Queue!Filed(pending, Head(accepted), pending')
      BY <1>2 DEF File
    <3> QED
      BY <3>1, Zenon DEF Queue!Filed, Queue!InsertAt, InsertAt
  <2>3. pending' \in Seq(Users)
    BY <1>0, <2>1, <2>2, InsertAtProperties
  <2> QED
    BY <1>0, <1>2, <2>1, <2>3 DEF File
<1>3. CASE Pick
  <2>1. Head(pending) \in Users /\ Tail(pending) \in Seq(Users)
    BY <1>0, <1>3, HeadTailProperties DEF Pick
  <2>2. pending' \in Seq(Users)
    BY <1>3, <2>1 DEF Pick
  <2> QED
    BY <1>0, <1>3, <2>1, <2>2 DEF Pick
<1>4. CASE TakePhy \/ ResetCounter \/ SaveNode
  BY <1>0, <1>4 DEF TakePhy, ResetCounter, SaveNode
<1>5. CASE Execute
  <2>1. local_node \in Users /\ modem = <<>>
    BY <1>0, <1>5 DEF Execute, NodeSaved, OneHolder
  <2>2. modem' \in Seq([op : Users, half : Halves, heard : BOOLEAN])
    BY <1>5, <2>1, ExecuteStarts DEF Execute
  <2> QED
    BY <1>0, <1>5, <2>2 DEF Execute
<1>6. CASE TimerExpires
  <2>1. current_node \in Users /\ modem = <<>>
    BY <1>0, <1>6 DEF TimerExpires, NodeSaved, OneHolder
  <2>2. modem' \in Seq([op : Users, half : Halves, heard : BOOLEAN])
    BY <1>6, <2>1, ExecuteStarts DEF TimerExpires
  <2> QED
    BY <1>0, <1>6, <2>2 DEF TimerExpires
<1>7. CASE Answer
  <2>0. /\ Len(modem) = 1
        /\ UNCHANGED <<accepted, pending, local_node, current_node>>
        /\ Switches \/ Ends \/ TriesAgain \/ GivesUp
    BY <1>7, AnswerCases
  <2>1. CASE Ends \/ TriesAgain \/ GivesUp
    BY <1>0, <2>0, <2>1, EmptySeq DEF Ends, TriesAgain, GivesUp
  <2>2. CASE Switches
    BY <1>0, <2>0, <2>2, SwitchKeepsOp
  <2> QED
    BY <2>0, <2>1, <2>2
<1>8. CASE \E i \in 1 .. Len(modem) : HarqRequest(i)
  BY <1>8 DEF HarqRequest, Undisturbed
<1>9. CASE UNCHANGED vars
  BY <1>0, <1>9 DEF vars
<1> QED
  BY <1>1, <1>2, <1>3, <1>4, <1>5, <1>6, <1>7, <1>8, <1>9 DEF Next, ExecThread

\* The variables keep their types.
LEMMA TypeOKStep ==
    ASSUME Undisturbed, IInv, [Next]_vars
    PROVE  TypeOK'
<1> USE DEF queueVars, execVars, retryVars, ExecTo
<1>0. /\ TypeOK /\ OneHolder /\ NodeSaved /\ UsersOnly
      /\ UsersOnly'
  BY UsersOnlyStep DEF IInv
<1>1. /\ accepted' \in Seq(Ops) /\ pending' \in Seq(Ops)
      /\ modem' \in Seq(Activity)
  <2>1. /\ Users \subseteq Ops
        /\ [op : Users, half : Halves, heard : BOOLEAN] \subseteq Activity
    BY HandlerAssumption DEF Activity
  <2> QED
    BY <1>0, <2>1, SeqMonotonic DEF UsersOnly
<1>2. local_node' \in Ops \cup {NoOp} /\ current_node' \in Ops \cup {NoOp}
  BY <1>0, HandlerAssumption DEF UsersOnly
<1> DEFINE Rest == /\ exec_pc \in {"phy", "item", "reset", "save", "execute"}
                   /\ phy_layer_sem \in 0 .. 1
                   /\ current_state \in States
                   /\ failed_counter \in Nat
                   /\ failed_timer \in BOOLEAN
<1>3. Rest
  BY <1>0 DEF TypeOK
<1>4. Rest'
  <2>1. ASSUME NEW op \in Users, Put(op) PROVE Rest'
    BY <1>3, <2>1 DEF Put
  <2>2. CASE File
    BY <1>3, <2>2 DEF File
  <2>3. CASE TakePhy \/ Pick \/ ResetCounter \/ SaveNode
    BY <1>3, <2>3 DEF TakePhy, Pick, ResetCounter, SaveNode, States
  <2>4. CASE Execute
    BY <1>3, <2>4 DEF Execute, FunctionExecute, StateOf, States
  <2>5. CASE TimerExpires
    BY <1>3, <2>5 DEF TimerExpires, FunctionExecute, StateOf, States
  <2>6. CASE Answer
    <3>1. UNCHANGED exec_pc
      BY <2>6, AnswerCases
    <3>2. CASE Switches
      BY <1>3, <3>1, <3>2 DEF Switches, States
    <3>3. CASE Ends
      BY <1>3, <3>1, <3>3 DEF Ends
    <3>4. CASE TriesAgain
      BY <1>3, <3>1, <3>4 DEF TriesAgain
    <3>5. CASE GivesUp
      BY <1>3, <3>1, <3>5 DEF GivesUp
    <3> QED
      BY <2>6, <3>2, <3>3, <3>4, <3>5, AnswerCases
  <2>7. CASE \E i \in 1 .. Len(modem) : HarqRequest(i)
    BY <2>7 DEF HarqRequest, Undisturbed
  <2>8. CASE UNCHANGED vars
    BY <1>3, <2>8 DEF vars
  <2> QED
    BY <2>1, <2>2, <2>3, <2>4, <2>5, <2>6, <2>7, <2>8 DEF Next, ExecThread
<1> QED
  BY <1>1, <1>2, <1>4 DEF TypeOK

\* The token passes from one holder to the next.
LEMMA OneHolderStep ==
    ASSUME Undisturbed, IInv, [Next]_vars
    PROVE  OneHolder'
<1> USE DEF OneHolder, queueVars, execVars, retryVars, ExecTo
<1>0. OneHolder
  BY DEF IInv
<1>1. ASSUME NEW op \in Users, Put(op) PROVE OneHolder'
  BY <1>0, <1>1 DEF Put
<1>2. CASE File \/ UNCHANGED vars
  BY <1>0, <1>2 DEF File, vars
<1>3. CASE TakePhy
  BY <1>0, <1>3 DEF TakePhy
<1>4. CASE Pick \/ ResetCounter \/ SaveNode
  BY <1>0, <1>4 DEF Pick, ResetCounter, SaveNode
<1>5. CASE Execute
  <2>1. local_node \in Users /\ modem = <<>>
    BY <1>0, <1>5 DEF Execute, IInv, NodeSaved, UsersOnly
  <2>2. modem' = <<>> \/ Len(modem') = 1
    BY <1>5, <2>1, ExecuteStarts DEF Execute
  <2> QED
    BY <1>0, <1>5, <2>2 DEF Execute
<1>6. CASE TimerExpires
  <2>1. current_node \in Users /\ modem = <<>>
    BY <1>0, <1>6 DEF TimerExpires, IInv, NodeSaved, UsersOnly
  <2>2. modem' = <<>> \/ Len(modem') = 1
    BY <1>6, <2>1, ExecuteStarts DEF TimerExpires
  <2> QED
    BY <1>0, <1>6, <2>2 DEF TimerExpires
<1>7. CASE Answer
  <2>1. /\ modem # <<>> /\ Len(modem) = 1
        /\ exec_pc = "phy" /\ exec_pc' = exec_pc /\ ~failed_timer
        /\ phy_layer_sem # 1
        /\ Switches \/ Ends \/ TriesAgain \/ GivesUp
    BY <1>0, <1>7, AnswerCases, EmptySeq
  <2>2. CASE Switches
    BY <2>1, <2>2, ExceptSeq DEF Switches
  <2>3. CASE Ends \/ GivesUp
    BY <2>1, <2>3 DEF Ends, GivesUp
  <2>4. CASE TriesAgain
    BY <2>1, <2>4 DEF TriesAgain
  <2> QED
    BY <2>1, <2>2, <2>3, <2>4
<1>8. CASE \E i \in 1 .. Len(modem) : HarqRequest(i)
  BY <1>8 DEF HarqRequest, Undisturbed
<1> QED
  BY <1>1, <1>2, <1>3, <1>4, <1>5, <1>6, <1>7, <1>8 DEF Next, ExecThread

\* SaveNode comes before Execute, and nothing else writes current_node.
LEMMA NodeSavedStep ==
    ASSUME Undisturbed, IInv, [Next]_vars
    PROVE  NodeSaved'
<1> USE DEF NodeSaved, queueVars, execVars, retryVars, ExecTo
<1>0. NodeSaved /\ OneHolder /\ UsersOnly /\ NoOp \notin Users
  BY HandlerAssumption DEF IInv
<1>1. ASSUME NEW op \in Users, Put(op) PROVE NodeSaved'
  BY <1>0, <1>1 DEF Put
<1>2. CASE File \/ UNCHANGED vars
  BY <1>0, <1>2 DEF File, vars
<1>3. CASE TakePhy \/ ResetCounter
  BY <1>0, <1>3 DEF TakePhy, ResetCounter
<1>4. CASE Pick
  <2>1. Head(pending) \in Users
    BY <1>0, <1>4, HeadTailProperties DEF Pick, UsersOnly
  <2>2. modem' = <<>> /\ ~failed_timer' /\ local_node' # NoOp
    BY <1>0, <1>4, <2>1 DEF Pick, OneHolder
  <2> QED
    BY <1>0, <1>4, <2>2, EmptySeq DEF Pick
<1>5. CASE SaveNode
  BY <1>0, <1>5, EmptySeq DEF SaveNode, OneHolder
<1>6. CASE Execute
  <2>1. local_node \in Users /\ modem = <<>> /\ current_node = local_node
    BY <1>0, <1>6 DEF Execute, UsersOnly, OneHolder
  <2>2. Len(modem') = 1 => modem'[1].op = local_node
    BY <1>6, <2>1, ExecuteStarts, EmptySeq DEF Execute, Started
  <2> QED
    BY <1>0, <1>6, <2>1, <2>2 DEF Execute, UsersOnly
<1>7. CASE TimerExpires
  <2>1. current_node \in Users /\ modem = <<>>
    BY <1>0, <1>7 DEF TimerExpires, UsersOnly, OneHolder
  <2>2. Len(modem') = 1 => modem'[1].op = current_node
    BY <1>7, <2>1, ExecuteStarts, EmptySeq DEF TimerExpires, Started
  <2> QED
    BY <1>0, <1>7, <2>1, <2>2 DEF TimerExpires
<1>8. CASE Answer
  <2>1. /\ Len(modem) = 1 /\ modem[1].op = current_node
        /\ current_node \in Users
        /\ UNCHANGED <<exec_pc, local_node, current_node>>
        /\ Switches \/ Ends \/ TriesAgain \/ GivesUp
    BY <1>0, <1>8, AnswerCases
  <2>2. CASE Switches
    <3>1. modem'[1].op = modem[1].op
      BY <1>0, <2>1, <2>2, SwitchKeepsOp
    <3> QED
      BY <1>0, <2>1, <2>2, <3>1 DEF Switches
  <2>3. CASE Ends \/ TriesAgain \/ GivesUp
    BY <1>0, <2>1, <2>3, EmptySeq DEF Ends, TriesAgain, GivesUp
  <2> QED
    BY <2>1, <2>2, <2>3
<1>9. CASE \E i \in 1 .. Len(modem) : HarqRequest(i)
  BY <1>9 DEF HarqRequest, Undisturbed
<1> QED
  BY <1>1, <1>2, <1>3, <1>4, <1>5, <1>6, <1>7, <1>8, <1>9 DEF Next, ExecThread

\* Execute and the timer start a TX_RX with its transmission, for which they set
\* current_state; nothing else sets it while the modem works.
LEMMA HalfKnownStep ==
    ASSUME Undisturbed, IInv, [Next]_vars
    PROVE  HalfKnown'
<1> USE DEF HalfKnown, queueVars, execVars, retryVars, ExecTo
<1>0. HalfKnown /\ OneHolder /\ NodeSaved /\ UsersOnly
  BY DEF IInv
<1>1. ASSUME NEW op \in Users, Put(op) PROVE HalfKnown'
  BY <1>0, <1>1 DEF Put
<1>2. CASE File \/ UNCHANGED vars
  BY <1>0, <1>2 DEF File, vars
<1>3. CASE TakePhy
  <2>1. Len(modem') # 1
    BY <1>0, <1>3, EmptySeq DEF TakePhy, OneHolder
  <2> QED
    BY <2>1
<1>4. CASE Pick \/ ResetCounter \/ SaveNode
  BY <1>0, <1>4 DEF Pick, ResetCounter, SaveNode
<1>5. ASSUME NEW op \in Users, modem = <<>>, FunctionExecute(op)
      PROVE  HalfKnown'
  <2>1. CASE modem' = <<>>
    BY <2>1, EmptySeq
  <2>2. CASE modem'[1] = Started(op) /\ current_state' = StateOf(Fn[op])
    BY <2>2 DEF Started, StateOf
  <2> QED
    BY <1>5, <2>1, <2>2, ExecuteStarts
<1>6. CASE Execute
  BY <1>0, <1>5, <1>6 DEF Execute, NodeSaved, OneHolder, UsersOnly
<1>7. CASE TimerExpires
  BY <1>0, <1>5, <1>7 DEF TimerExpires, NodeSaved, OneHolder, UsersOnly
<1>8. CASE Answer
  <2>1. Len(modem) = 1 /\ (Switches \/ Ends \/ TriesAgain \/ GivesUp)
    BY <1>8, AnswerCases
  <2>2. CASE Switches
    BY <1>0, <2>1, <2>2, SwitchKeepsOp DEF Switches
  <2>3. CASE Ends \/ TriesAgain \/ GivesUp
    BY <2>3, EmptySeq DEF Ends, TriesAgain, GivesUp
  <2> QED
    BY <2>1, <2>2, <2>3
<1>9. CASE \E i \in 1 .. Len(modem) : HarqRequest(i)
  BY <1>9 DEF HarqRequest, Undisturbed
<1> QED
  BY <1>1, <1>2, <1>3, <1>4, <1>6, <1>7, <1>8, <1>9 DEF Next, ExecThread

\* The counter is reset for every operation that is picked, and grows only when
\* the operation in the modem comes too late.
LEMMA RetriesLeftStep ==
    ASSUME Undisturbed, IInv, [Next]_vars
    PROVE  RetriesLeft'
<1> USE DEF RetriesLeft, RetriesBounded, queueVars, execVars, retryVars, ExecTo
<1>0. RetriesLeft /\ OneHolder /\ failed_counter \in Nat /\ MaxRetry \in Nat
  BY HandlerAssumption DEF IInv, TypeOK
<1>1. ASSUME NEW op \in Users, Put(op) PROVE RetriesLeft'
  BY <1>0, <1>1 DEF Put
<1>2. CASE File \/ UNCHANGED vars
  BY <1>0, <1>2 DEF File, vars
<1>3. CASE TakePhy \/ Pick \/ SaveNode
  BY <1>0, <1>3 DEF TakePhy, Pick, SaveNode
<1>4. CASE ResetCounter
  BY <1>0, <1>4 DEF ResetCounter, OneHolder
<1>5. CASE Execute
  BY <1>0, <1>5 DEF Execute
<1>6. CASE TimerExpires
  BY <1>0, <1>6 DEF TimerExpires
<1>7. CASE Answer
  <2>1. /\ Len(modem) = 1 /\ failed_counter <= MaxRetry
        /\ exec_pc' = "phy" /\ ~failed_timer
        /\ Switches \/ Ends \/ TriesAgain \/ GivesUp
    BY <1>0, <1>7, AnswerCases, EmptySeq DEF OneHolder
  <2>2. CASE Switches
    BY <1>0, <2>1, <2>2 DEF Switches
  <2>3. CASE Ends
    BY <1>0, <2>1, <2>3 DEF Ends
  <2>4. CASE TriesAgain
    BY <1>0, <2>1, <2>4, EmptySeq DEF TriesAgain
  <2>5. CASE GivesUp
    BY <1>0, <2>1, <2>5, EmptySeq DEF GivesUp
  <2> QED
    BY <2>1, <2>2, <2>3, <2>4, <2>5
<1>8. CASE \E i \in 1 .. Len(modem) : HarqRequest(i)
  BY <1>8 DEF HarqRequest, Undisturbed
<1> QED
  BY <1>1, <1>2, <1>3, <1>4, <1>5, <1>6, <1>7, <1>8 DEF Next, ExecThread

\* The handler keeps the invariant.
THEOREM InductiveInvariant ==
    ASSUME Undisturbed
    PROVE  Spec => []IInv
<1>1. IInv /\ [Next]_vars => IInv'
  BY TypeOKStep, UsersOnlyStep, OneHolderStep, NodeSavedStep, HalfKnownStep,
     RetriesLeftStep
  DEF IInv
<1> QED
  BY InitIInv, <1>1, PTL DEF Spec

-----------------------------------------------------------------------------
(***************************************************************************)
(* What follows from it                                                    *)
(***************************************************************************)

\* Every variable of the handler has its type.
THEOREM TypeCorrect ==
    ASSUME Undisturbed
    PROVE  Spec => []TypeOK
<1>1. Spec => []IInv
  BY InductiveInvariant
<1> QED
  BY <1>1, PTL DEF IInv

\* The halves of a TX_RX are told apart as they should.
THEOREM HalvesTold ==
    ASSUME Undisturbed
    PROVE  Spec => []StateTellsHalf
<1>1. Spec => []IInv
  BY InductiveInvariant
<1>2. IInv => StateTellsHalf
  <2> SUFFICES ASSUME IInv, NEW i \in 1 .. Len(modem)
               PROVE  /\ modem[i].half = "tx" => current_state = "TRANSMITTING"
                      /\ modem[i].half = "rx" => current_state # "TRANSMITTING"
    BY DEF StateTellsHalf
  <2>1. Len(modem) = 0 \/ Len(modem) = 1
    BY EmptySeq DEF IInv, OneHolder
  <2>2. i \in 1 .. 0 \/ i \in 1 .. 1
    BY <2>1, Zenon
  <2>3. Len(modem) = 1 /\ i = 1
    BY <2>1, <2>2
  <2> QED
    BY <2>3 DEF IInv, HalfKnown
<1> QED
  BY <1>1, <1>2, PTL

\* The semaphore is not given before the operation is done.
THEOREM SemGivenWhenDone ==
    ASSUME Undisturbed
    PROVE  Spec => []SemMeansDone
<1>1. Spec => []IInv
  BY InductiveInvariant
<1>2. IInv => SemMeansDone
  BY DEF IInv, OneHolder, SemMeansDone
<1> QED
  BY <1>1, <1>2, PTL

\* No operation is tried more than MAX_RETRY times again.
THEOREM RetriesAreBounded ==
    ASSUME Undisturbed
    PROVE  Spec => []RetriesBounded
<1>1. Spec => []IInv
  BY InductiveInvariant
<1>2. IInv => RetriesBounded
  BY DEF IInv, RetriesLeft
<1> QED
  BY <1>1, <1>2, PTL

\* The operation that came too late is the one that was saved.
THEOREM RetryIsOfFailedOp ==
    ASSUME Undisturbed
    PROVE  Spec => RetryRepeatsFailedOp
<1>1. Spec => []IInv
  BY InductiveInvariant
<1>2. IInv => \A i \in 1 .. Len(modem) : Late(i) => modem[i].op = current_node
  <2> SUFFICES ASSUME IInv, NEW i \in 1 .. Len(modem)
               PROVE  modem[i].op = current_node
    OBVIOUS
  <2>1. Len(modem) = 0 \/ Len(modem) = 1
    BY EmptySeq DEF IInv, OneHolder
  <2>2. i \in 1 .. 0 \/ i \in 1 .. 1
    BY <2>1, Zenon
  <2>3. Len(modem) = 1 /\ i = 1
    BY <2>1, <2>2
  <2> QED
    BY <2>3 DEF IInv, NodeSaved
<1> QED
  BY <1>1, <1>2, PTL DEF RetryRepeatsFailedOp

\* Whatever the modem answers, one token is all there is.
THEOREM TokenNotDoubled ==
    ASSUME Undisturbed
    PROVE  Spec => []TokenNeverDoubled
<1>1. Spec => []IInv
  BY InductiveInvariant
<1>2. IInv => TokenNeverDoubled
  <2> SUFFICES ASSUME IInv PROVE Tokens <= 1 + PlaceholdersToCome
    BY DEF TokenNeverDoubled
  <2> DEFINE
        gives  == {i \in 1 .. Len(modem) :
                      /\ Fn[modem[i].op] # "RX_STOP"
                      /\ Fn[modem[i].op] = "RSSI" => ~modem[i].heard}
        places == {i \in 1 .. Len(accepted \o pending) :
                      (accepted \o pending)[i] = placeholder}
        g == Cardinality(gives)
        e == One(exec_pc # "phy")
        t == One(failed_timer)
  <2>1. Cardinality(places) \in Nat
    <3>1. accepted \o pending \in Seq(Ops)
      BY ConcatProperties DEF IInv, TypeOK
    <3>2. Len(accepted \o pending) \in Nat
      BY <3>1, LenProperties
    <3>3. IsFiniteSet(1 .. Len(accepted \o pending))
      BY <3>2, FS_Interval
    <3> QED
      BY <3>3, FS_Subset, FS_CardinalityType
  <2>2. PlaceholdersToCome \in Nat
    <3>1. PlaceholdersToCome
             = Cardinality(places) + One(local_node = placeholder)
      BY DEF PlaceholdersToCome
    <3>2. One(local_node = placeholder) \in Nat
      BY DEF One
    <3> HIDE DEF places
    <3> QED
      BY <2>1, <3>1, <3>2
  <2>3. g \in Nat /\ g <= Len(modem)
    <3>1. Len(modem) \in Nat
      BY LenProperties DEF IInv, TypeOK
    <3>2. /\ IsFiniteSet(1 .. Len(modem))
          /\ Cardinality(1 .. Len(modem)) = Len(modem)
      <4>1. \A n \in Nat : IsFiniteSet(1 .. n) /\ Cardinality(1 .. n) = n
        BY FS_Interval
      <4> QED
        BY <3>1, <4>1
    <3> QED
      BY <3>2, FS_Subset, FS_CardinalityType
  <2>4. e \in 0 .. 1 /\ (exec_pc = "phy" => e = 0)
    BY DEF One
  <2>5. t \in 0 .. 1 /\ (~failed_timer => t = 0)
    BY DEF One
  <2>6. Tokens = phy_layer_sem + e + (g + t)
    BY DEF Tokens, GivesToCome
  <2> HIDE DEF g, e, t
  <2>7. phy_layer_sem \in 0 .. 1 /\ (Len(modem) = 0 \/ Len(modem) = 1)
    BY EmptySeq DEF IInv, TypeOK, OneHolder
  <2>8. phy_layer_sem = 1 => e = 0 /\ t = 0 /\ Len(modem) = 0
    BY <2>4, <2>5, EmptySeq DEF IInv, OneHolder
  <2>9. e = 1 => t = 0 /\ Len(modem) = 0
    BY <2>4, <2>5, EmptySeq DEF IInv, OneHolder
  <2>10. t = 1 => Len(modem) = 0
    BY <2>5, EmptySeq DEF IInv, OneHolder
  <2>11. phy_layer_sem + e + (g + t) <= 1
    BY <2>3, <2>4, <2>5, <2>7, <2>8, <2>9, <2>10
  <2> QED
    BY <2>2, <2>6, <2>11
<1> QED
  BY <1>1, <1>2, PTL

-----------------------------------------------------------------------------
(***************************************************************************)
(* The handler serves the queue as OpQueue says                            *)
(***************************************************************************)

\* The place of a permanent operation is the end of the list.
LEMMA PermanentFiledLast ==
    ASSUME NEW s \in Seq(Ops), NEW op \in Ops, IsPermanent(op)
    PROVE  Queue!Filed(s, op, Append(s, op))
<1> DEFINE i == Len(s) + 1
<1>1. Len(s) \in Nat /\ i \in 1 .. Len(s) + 1
  BY LenProperties
<1>2. Priority[op] = 0
  BY DEF IsPermanent, Queue!IsPermanent, Queue!PRIORITY_PERMANENT
<1>3. ASSUME NEW j \in 1 .. Len(s)
      PROVE  (j < i) <=> (Priority[s[j]] >= Priority[op])
  <2>1. s[j] \in Ops
    BY ElementOfSeq
  <2>2. Priority[s[j]] \in Nat
    BY <2>1, HandlerAssumption
  <2> QED
    BY <1>1, <1>2, <2>2
<1>4. Append(s, op) = Queue!InsertAt(s, i, op)
  BY InsertAtEnd DEF InsertAt, Queue!InsertAt
<1> HIDE DEF i
<1> QED
  BY <1>1, <1>3, <1>4 DEF Queue!Filed

\* An operation has the PHY from the step that picks it to the one that gives
\* the semaphore.
LEMMA QueueStep ==
    ASSUME Undisturbed, IInv, [Next]_vars
    PROVE  [Queue!Next]_(Queue!qvars)
<1> USE DEF queueVars, execVars, retryVars, ExecTo
<1>0. /\ TypeOK /\ UsersOnly /\ OneHolder /\ NodeSaved
      /\ NoOp \notin Users /\ Users \subseteq Ops
  BY HandlerAssumption DEF IInv
<1>1. ASSUME NEW op \in Users, Put(op) PROVE Queue!Next
  <2>1. Queue!Accept(op)
    BY <1>1 DEF Put, Running, Queue!Accept
  <2> QED
    BY <1>0, <2>1 DEF Queue!Next
<1>2. CASE File
  BY <1>2 DEF File, Running, Queue!File, Queue!Next
<1>3. CASE TakePhy
  BY <1>0, <1>3 DEF TakePhy, NodeSaved, Running, Queue!qvars
<1>4. CASE Pick
  <2>1. /\ Head(pending) \in Users /\ Tail(pending) \in Seq(Users)
        /\ Tail(pending) \in Seq(Ops)
    BY <1>0, <1>4, HeadTailProperties DEF Pick, UsersOnly, TypeOK
  <2>2. Running = NoOp
    BY <1>0, <1>4 DEF Pick, NodeSaved, Running
  <2>3. Running' = Head(pending)
    BY <1>0, <1>4, <2>1 DEF Pick, Running
  <2>4. IF Queue!IsPermanent(Head(pending))
        THEN Queue!Filed(Tail(pending), Head(pending), pending')
        ELSE pending' = Tail(pending)
    BY <1>0, <1>4, <2>1, PermanentFiledLast DEF Pick, IsPermanent
  <2> QED
    BY <1>4, <2>2, <2>3, <2>4 DEF Pick, Queue!Start, Queue!Next
<1>5. CASE ResetCounter \/ SaveNode
  BY <1>0, <1>5 DEF ResetCounter, SaveNode, NodeSaved, Running, Queue!qvars
<1>6. CASE Execute
  <2>1. /\ local_node # NoOp /\ exec_pc = "execute"
        /\ local_node' = NoOp /\ exec_pc' = "phy"
        /\ phy_layer_sem' = 0 /\ current_node' = local_node
        /\ UNCHANGED <<accepted, pending>>
    BY <1>0, <1>6 DEF Execute, NodeSaved, OneHolder, TypeOK
  <2> QED
    BY <2>1 DEF Running, Queue!qvars
<1>7. CASE TimerExpires
  BY <1>7 DEF TimerExpires, Running, Queue!qvars
<1>8. CASE Answer
  <2>1. /\ Len(modem) = 1 /\ modem[1].op \in Users
        /\ UNCHANGED <<accepted, pending, exec_pc, local_node, current_node>>
        /\ Switches \/ Ends \/ TriesAgain \/ GivesUp
    BY <1>8, AnswerCases
  <2>2. modem # <<>> /\ current_node # NoOp
    BY <1>0, <2>1, EmptySeq DEF NodeSaved
  <2>3. exec_pc = "phy" /\ local_node = NoOp /\ phy_layer_sem = 0
    BY <1>0, <2>2 DEF OneHolder, NodeSaved, TypeOK
  <2>4. Running = current_node
    BY <2>3 DEF Running
  <2>5. CASE phy_layer_sem' = 0
    BY <2>1, <2>3, <2>5 DEF Running, Queue!qvars
  <2>6. CASE phy_layer_sem' = 1
    <3>1. Running' = NoOp
      BY <2>1, <2>3, <2>6 DEF Running
    <3> QED
      BY <2>1, <2>2, <2>4, <3>1 DEF Queue!Finish, Queue!Next
  <2> QED
    BY <2>1, <2>3, <2>5, <2>6 DEF Switches, Ends, TriesAgain, GivesUp
<1>9. CASE \E i \in 1 .. Len(modem) : HarqRequest(i)
  BY <1>9 DEF HarqRequest, Undisturbed
<1>10. CASE UNCHANGED vars
  BY <1>10 DEF vars, Running, Queue!qvars
<1> QED
  BY <1>1, <1>2, <1>3, <1>4, <1>5, <1>6, <1>7, <1>8, <1>9, <1>10
  DEF Next, ExecThread

\* What is pending is neither lost nor reordered, and one operation has the PHY
\* at a time.
THEOREM HandlerRefinesOpQueue ==
    ASSUME Undisturbed
    PROVE  Spec => ImplementsOpQueue
<1>1. Spec => []IInv
  BY InductiveInvariant
<1>2. Init => Queue!Init
  BY DEF Init, Running, Queue!Init
<1>3. IInv /\ [Next]_vars => [Queue!Next]_(Queue!qvars)
  BY QueueStep
<1> QED
  BY <1>1, <1>2, <1>3, PTL DEF Spec, ImplementsOpQueue, Queue!Spec

-----------------------------------------------------------------------------
(***************************************************************************)
(* Replies that go past the queue                                          *)
(***************************************************************************)

\* The threads are done before the modem's next event, the modem does what it is
\* asked to, users put operations whose completion gives the token once, and of
\* these only the ones without a radio are as urgent as a PLACEHOLDER.
Replying ==
    /\ Prompt /\ Outcomes \subseteq {"ok"}
    /\ Priority[placeholder] # Queue!PRIORITY_PERMANENT
    /\ \A op \in Users :
          /\ Fn[op] \notin {"PLACEHOLDER", "LINK_CONFIG", "RX_STOP", "RSSI"}
          /\ Priority[op] >= Priority[placeholder] => Fn[op] = "CAPABILITY_GET"

QueueOps == Users \cup {placeholder}
ModemOps == Users \cup {reply}
Work     == [op : ModemOps, half : Halves, heard : BOOLEAN]

Waits(s) == \E j \in 1 .. Len(s) : s[j] = placeholder
Once(s)  == \A j, k \in 1 .. Len(s) :
                s[j] = placeholder /\ s[k] = placeholder => j = k

\* A PLACEHOLDER is on its way, waiting, or picked.
Due == Waits(accepted) \/ Waits(pending) \/ local_node = placeholder

\* The token is in the semaphore or with the exec thread.
Held == phy_layer_sem = 1 \/ exec_pc # "phy"

ReplyTypes ==
    /\ accepted \in Seq(QueueOps) /\ pending \in Seq(QueueOps)
    /\ modem \in Seq(Work)
    /\ local_node \in QueueOps \cup {NoOp}
    /\ local_node # NoOp <=> exec_pc \in {"reset", "save", "execute"}
    /\ phy_layer_sem \in 0 .. 1 /\ ~failed_timer

\* There is one PLACEHOLDER, and while it is on its way the exec thread waits.
OnePlaceholder ==
    /\ Once(accepted) /\ Once(pending)
    /\ Waits(accepted) =>
          /\ ~Waits(pending) /\ local_node # placeholder
          /\ exec_pc = "phy" /\ phy_layer_sem = 0
    /\ Waits(pending) => local_node # placeholder

\* Only operations without a radio are ahead of it.
NothingOvertakes ==
    \A j, k \in 1 .. Len(pending) :
        pending[k] = placeholder /\ j < k => Fn[pending[j]] = "CAPABILITY_GET"

\* The modem has one operation more than the token would let it while a
\* PLACEHOLDER is due.
Balanced ==
    /\ phy_layer_sem = 1 => exec_pc = "phy"
    /\ Len(modem) = IF Due THEN IF Held THEN 1 ELSE 2
                           ELSE IF Held THEN 0 ELSE 1

\* While it is due only the reply transmits, and nothing listens.
QuietWhileDue ==
    Due => /\ \A i \in 1 .. Len(modem) :
                 \/ modem[i].op = reply \/ modem[i].heard
                 \/ Fn[modem[i].op] = "CAPABILITY_GET"
           /\ local_node \in Users => Fn[local_node] = "CAPABILITY_GET"

OneReply ==
    \A i, j \in 1 .. Len(modem) : modem[i].op = reply /\ modem[j].op = reply => i = j

HeardKnown ==
    \A i \in 1 .. Len(modem) :
        modem[i].heard => Fn[modem[i].op] = "RX" \/ modem[i].half = "rx"

HalvesKnown ==
    \A i \in 1 .. Len(modem) :
        /\ modem[i].half = "whole" <=> Fn[modem[i].op] # "TX_RX"
        /\ modem[i].half = "tx" => current_state = "TRANSMITTING"
        /\ modem[i].half = "rx" => current_state # "TRANSMITTING"

ReplyInv ==
    /\ ReplyTypes /\ OnePlaceholder /\ NothingOvertakes /\ Balanced
    /\ QuietWhileDue /\ OneReply /\ HeardKnown /\ HalvesKnown

-----------------------------------------------------------------------------
(***************************************************************************)
(* The one PLACEHOLDER                                                     *)
(***************************************************************************)

\* An operation is put at the end,
LEMMA WaitsAppend ==
    ASSUME NEW S, NEW s \in Seq(S), NEW e \in S
    PROVE  /\ Append(s, e) \in Seq(S)
           /\ Waits(Append(s, e)) <=> Waits(s) \/ e = placeholder
           /\ Once(s) /\ (Waits(s) => e # placeholder) => Once(Append(s, e))
<1> DEFINE t == Append(s, e)
           n == Len(s)
<1>1. /\ t \in Seq(S) /\ Len(t) = n + 1 /\ n \in Nat /\ t[n + 1] = e
      /\ \A j \in 1 .. n : t[j] = s[j]
  BY AppendProperties, LenProperties
<1> HIDE DEF t, n
<1>2. Waits(t) <=> Waits(s) \/ e = placeholder
  BY <1>1 DEF Waits, n
<1>3. ASSUME Once(s), Waits(s) => e # placeholder PROVE Once(t)
  BY <1>1, <1>3 DEF Waits, Once, n
<1> QED
  BY <1>1, <1>2, <1>3 DEF t

\* taken from the front,
LEMMA WaitsTail ==
    ASSUME NEW S, NEW s \in Seq(S), s # <<>>
    PROVE  /\ Tail(s) \in Seq(S) /\ Head(s) \in S
           /\ Waits(s) <=> Waits(Tail(s)) \/ Head(s) = placeholder
           /\ Once(s) => Once(Tail(s))
           /\ Once(s) /\ Waits(Tail(s)) => Head(s) # placeholder
<1> DEFINE t == Tail(s)
           h == Head(s)
           n == Len(s)
<1>1. /\ t \in Seq(S) /\ h \in S /\ Len(t) = n - 1 /\ n \in Nat /\ n >= 1
      /\ h = s[1] /\ \A j \in 1 .. n - 1 : t[j] = s[j + 1]
  BY HeadTailProperties, LenProperties, EmptySeq
<1> HIDE DEF t, h, n
<1>2. \A j \in 1 .. n : j = 1 \/ (j - 1 \in 1 .. n - 1 /\ s[j] = t[j - 1])
  BY <1>1
<1>3. Waits(t) => Waits(s)
  BY <1>1 DEF Waits, n
<1>4. h = placeholder => Waits(s)
  <2>1. 1 \in 1 .. n
    BY <1>1
  <2> QED
    BY <1>1, <2>1 DEF Waits, n
<1>5. Waits(s) => Waits(t) \/ h = placeholder
  <2> SUFFICES ASSUME NEW j \in 1 .. n, s[j] = placeholder, h # placeholder
               PROVE  Waits(t)
    BY DEF Waits, n
  <2>1. j - 1 \in 1 .. Len(t) /\ t[j - 1] = placeholder
    BY <1>1, <1>2
  <2> QED
    BY <2>1 DEF Waits
<1>6. ASSUME Once(s) PROVE Once(t) /\ (Waits(t) => h # placeholder)
  BY <1>1, <1>6 DEF Waits, Once, n
<1> QED
  BY <1>1, <1>3, <1>4, <1>5, <1>6 DEF t, h

\* or filed anywhere.
LEMMA WaitsInsert ==
    ASSUME NEW S, NEW s \in Seq(S), NEW e \in S, NEW i \in 1 .. Len(s) + 1
    PROVE  /\ InsertAt(s, i, e) \in Seq(S)
           /\ Waits(InsertAt(s, i, e)) <=> Waits(s) \/ e = placeholder
           /\ Once(s) /\ (Waits(s) => e # placeholder) => Once(InsertAt(s, i, e))
<1> DEFINE t == InsertAt(s, i, e)
           n == Len(s)
<1>0. t \in Seq(S) /\ IsInsertion(t, s, i, e)
  BY InsertAtInserts
<1> HIDE DEF t
<1>1. /\ t \in Seq(S) /\ Len(t) = n + 1
      /\ \A j \in 1 .. n + 1 : j < i => t[j] = s[j]
      /\ t[i] = e
      /\ \A j \in 1 .. n + 1 : i < j => t[j] = s[j - 1]
  BY <1>0 DEF IsInsertion
<1>2. n \in Nat /\ i \in 1 .. n + 1
  BY LenProperties
<1> HIDE DEF n
<1>3. \A j \in 1 .. n : IF j < i THEN t[j] = s[j] ELSE t[j + 1] = s[j]
  <2>1. ASSUME NEW j \in 1 .. n, ~(j < i) PROVE t[j + 1] = s[j]
    <3>1. j + 1 \in 1 .. n + 1 /\ i < j + 1 /\ (j + 1) - 1 = j
      BY <1>2, <2>1
    <3> QED
      BY <1>1, <3>1
  <2> QED
    BY <1>1, <1>2, <2>1 DEF n
<1>4. Waits(s) => Waits(t)
  <2> SUFFICES ASSUME NEW j \in 1 .. n, s[j] = placeholder PROVE Waits(t)
    BY DEF Waits, n
  <2>1. t[j] = placeholder \/ t[j + 1] = placeholder
    BY <1>3
  <2>2. j \in 1 .. Len(t) /\ j + 1 \in 1 .. Len(t)
    BY <1>1, <1>2
  <2> QED
    BY <2>1, <2>2 DEF Waits
<1>5. e = placeholder => Waits(t)
  BY <1>1, <1>2 DEF Waits
<1>6. Waits(t) => Waits(s) \/ e = placeholder
  <2> SUFFICES ASSUME NEW j \in 1 .. n + 1, t[j] = placeholder, e # placeholder
               PROVE  Waits(s)
    BY <1>1 DEF Waits
  <2>1. CASE j < i
    BY <1>1, <1>2, <2>1 DEF Waits, n
  <2>2. CASE i < j
    <3>1. j - 1 \in 1 .. n /\ s[j - 1] = placeholder
      BY <1>1, <1>2, <2>2
    <3> QED
      BY <3>1 DEF Waits, n
  <2> QED
    BY <1>1, <1>2, <2>1, <2>2
<1>7. ASSUME Once(s), Waits(s) => e # placeholder PROVE Once(t)
  <2>1. SUFFICES ASSUME NEW j \in 1 .. n + 1, NEW k \in 1 .. n + 1,
                        t[j] = placeholder, t[k] = placeholder
                 PROVE  j = k
    BY <1>1 DEF Once
  <2>2. CASE e = placeholder
    <3>1. ~Waits(s)
      BY <1>7, <2>2
    <3>2. \A m \in 1 .. n + 1 : t[m] = placeholder => m = i
      <4> SUFFICES ASSUME NEW m \in 1 .. n + 1, m # i PROVE t[m] # placeholder
        OBVIOUS
      <4>1. CASE m < i
        BY <1>1, <1>2, <3>1, <4>1 DEF Waits, n
      <4>2. CASE i < m
        <5>1. m - 1 \in 1 .. n /\ t[m] = s[m - 1]
          BY <1>1, <1>2, <4>2
        <5> QED
          BY <3>1, <5>1 DEF Waits, n
      <4> QED
        BY <1>2, <4>1, <4>2
    <3> QED
      BY <2>1, <3>2
  <2>3. CASE e # placeholder
    <3>1. \A m \in 1 .. n + 1 : t[m] = placeholder =>
             \/ m < i /\ m \in 1 .. n /\ s[m] = placeholder
             \/ i < m /\ m - 1 \in 1 .. n /\ s[m - 1] = placeholder
      BY <1>1, <1>2, <2>3
    <3>2. \A a, b \in 1 .. n : s[a] = placeholder /\ s[b] = placeholder => a = b
      BY <1>7 DEF Once, n
    <3>3. /\ \/ j < i /\ j \in 1 .. n /\ s[j] = placeholder
             \/ i < j /\ j - 1 \in 1 .. n /\ s[j - 1] = placeholder
          /\ \/ k < i /\ k \in 1 .. n /\ s[k] = placeholder
             \/ i < k /\ k - 1 \in 1 .. n /\ s[k - 1] = placeholder
      BY <2>1, <3>1
    <3>4. CASE j < i /\ k < i
      BY <3>2, <3>3, <3>4, <1>2
    <3>5. CASE i < j /\ i < k
      <4>1. j - 1 = k - 1
        BY <3>2, <3>3, <3>5, <1>2
      <4> QED
        BY <4>1
    <3>6. CASE j < i /\ i < k
      <4>1. j = k - 1
        BY <3>2, <3>3, <3>6, <1>2
      <4> QED
        BY <1>2, <3>6, <4>1
    <3>7. CASE k < i /\ i < j
      <4>1. k = j - 1
        BY <3>2, <3>3, <3>7, <1>2
      <4> QED
        BY <1>2, <3>7, <4>1
    <3> QED
      BY <3>3, <3>4, <3>5, <3>6, <3>7
  <2> QED
    BY <2>2, <2>3
<1> QED
  BY <1>1, <1>4, <1>5, <1>6, <1>7 DEF t

-----------------------------------------------------------------------------
(***************************************************************************)
(* The steps with replies                                                  *)
(***************************************************************************)

\* What the assumptions say of the operations.
LEMMA ReplyOps ==
    ASSUME Replying
    PROVE  /\ placeholder \notin ModemOps /\ reply \notin QueueOps
           /\ NoOp \notin QueueOps /\ placeholder # reply
           /\ Fn[reply] = "TX_HARQ" /\ Fn[placeholder] = "PLACEHOLDER"
           /\ \A op \in ModemOps : Fn[op] \notin {"PLACEHOLDER", "LINK_CONFIG",
                                                  "RX_STOP", "RSSI"}
           /\ \A op \in QueueOps : Priority[op] \in Nat
BY HandlerAssumption DEF Replying, ModemOps, QueueOps

\* What a step leaves alone when it touches neither the modem nor current_state.
LEMMA ModemStays ==
    ASSUME OneReply, HeardKnown, HalvesKnown, UNCHANGED <<modem, current_state>>
    PROVE  OneReply' /\ HeardKnown' /\ HalvesKnown'
BY DEF OneReply, HeardKnown, HalvesKnown

\* While a PLACEHOLDER is due nothing is in the first half of a TX_RX, and only
\* the reply transmits.
LEMMA QuietMeansReply ==
    ASSUME ReplyInv, Due, NEW i \in 1 .. Len(modem)
    PROVE  modem[i].half # "tx" /\ (Transmits(i) => modem[i].op = reply)
<1>1. \/ modem[i].op = reply \/ modem[i].heard
      \/ Fn[modem[i].op] = "CAPABILITY_GET"
  BY DEF ReplyInv, QuietWhileDue
<1>2. modem[i].heard => Fn[modem[i].op] = "RX" \/ modem[i].half = "rx"
  BY DEF ReplyInv, HeardKnown
<1>3. modem[i].half = "whole" <=> Fn[modem[i].op] # "TX_RX"
  BY DEF ReplyInv, HalvesKnown
<1>4. Fn[reply] = "TX_HARQ"
  BY HandlerAssumption
<1> QED
  BY <1>1, <1>2, <1>3, <1>4 DEF Transmits

\* When the modem has its next event the exec thread waits for it.
LEMMA EventFindsThreadsIdle ==
    ASSUME Replying, ReplyInv, Event, NEW i \in 1 .. Len(modem)
    PROVE  /\ accepted = <<>> /\ ~Waits(accepted)
           /\ exec_pc = "phy" /\ phy_layer_sem = 0 /\ local_node = NoOp
<1>1. ThreadsIdle
  BY DEF Event, Replying
<1>2. accepted = <<>> /\ ~Waits(accepted)
  <2>1. accepted = <<>> /\ Len(accepted) = 0
    BY <1>1, EmptySeq DEF ThreadsIdle
  <2> QED
    BY <2>1 DEF Waits
<1>3. ~(exec_pc = "item" /\ pending = <<>>)
  <2> SUFFICES ASSUME exec_pc = "item", pending = <<>> PROVE FALSE
    OBVIOUS
  <2>1. Len(pending) = 0 /\ ~Waits(pending)
    BY EmptySeq DEF Waits
  <2>2. local_node # placeholder
    BY ReplyOps DEF ReplyInv, ReplyTypes, QueueOps
  <2>3. Len(modem) = 0
    BY <1>2, <2>1, <2>2 DEF ReplyInv, Balanced, Due, Held
  <2>4. i \in 1 .. 0
    BY <2>3
  <2> QED
    BY <2>4
<1>4. exec_pc = "phy" /\ phy_layer_sem = 0
  BY <1>1, <1>3 DEF ThreadsIdle
<1> QED
  BY <1>2, <1>4 DEF ReplyInv, ReplyTypes

\* A user puts an operation.
LEMMA PutKeepsBalance ==
    ASSUME Replying, ReplyInv, NEW op \in Users, Put(op)
    PROVE  ReplyInv'
<1> USE DEF execVars, retryVars
<1>1. /\ accepted' = Append(accepted, op)
      /\ UNCHANGED <<pending, exec_pc, local_node, phy_layer_sem, current_state,
                     failed_timer, modem>>
  BY DEF Put
<1>2. op \in QueueOps /\ op # placeholder /\ accepted \in Seq(QueueOps)
  BY ReplyOps DEF QueueOps, ModemOps, ReplyInv, ReplyTypes
<1>3. /\ accepted' \in Seq(QueueOps)
      /\ Waits(accepted') <=> Waits(accepted)
      /\ Once(accepted) => Once(accepted')
  BY <1>1, <1>2, WaitsAppend
<1>4. Due' <=> Due
  BY <1>1, <1>3 DEF Due, Waits
<1>5. Held' <=> Held
  BY <1>1 DEF Held
<1>6. ReplyTypes'
  BY <1>1, <1>3 DEF ReplyInv, ReplyTypes
<1>7. OnePlaceholder'
  BY <1>1, <1>3 DEF ReplyInv, OnePlaceholder, Waits, Once
<1>8. NothingOvertakes' /\ Balanced' /\ QuietWhileDue'
  BY <1>1, <1>4, <1>5 DEF ReplyInv, NothingOvertakes, Balanced, QuietWhileDue
<1>9. OneReply' /\ HeardKnown' /\ HalvesKnown'
  BY <1>1, ModemStays DEF ReplyInv
<1> QED
  BY <1>6, <1>7, <1>8, <1>9 DEF ReplyInv

\* The put thread files a PLACEHOLDER behind operations without a radio only.
LEMMA FileOvertakes ==
    ASSUME Replying, ReplyInv, NEW op \in QueueOps, NEW k \in 1 .. Len(pending) + 1,
           op = placeholder => ~Waits(pending),
           \A j \in 1 .. Len(pending) :
              (j < k) <=> (Priority[pending[j]] >= Priority[op]),
           pending' = InsertAt(pending, k, op)
    PROVE  NothingOvertakes'
<1>0. pending \in Seq(QueueOps) /\ Len(pending) \in Nat
  BY LenProperties DEF ReplyInv, ReplyTypes
<1>1. IsInsertion(InsertAt(pending, k, op), pending, k, op)
  BY <1>0, InsertAtInserts
<1> DEFINE n == Len(pending)
<1>2. /\ Len(pending') = n + 1 /\ n \in Nat
      /\ \A j \in 1 .. n + 1 : j < k => pending'[j] = pending[j]
      /\ pending'[k] = op
      /\ \A j \in 1 .. n + 1 : k < j => pending'[j] = pending[j - 1]
  BY <1>0, <1>1 DEF IsInsertion
<1>3. \A j \in 1 .. n : pending[j] \in QueueOps
  BY <1>0, ElementOfSeq
<1>4. /\ \A p \in QueueOps : Priority[p] \in Nat
      /\ \A p \in QueueOps : Priority[p] >= Priority[placeholder] /\ p # placeholder
            => Fn[p] = "CAPABILITY_GET"
  BY ReplyOps DEF Replying, QueueOps
<1>5. placeholder \in QueueOps
  BY DEF QueueOps
<1>6. \A a, b \in 1 .. n :
         pending[b] = placeholder /\ a < b => Fn[pending[a]] = "CAPABILITY_GET"
  BY DEF ReplyInv, NothingOvertakes
<1> SUFFICES ASSUME NEW a \in 1 .. n + 1, NEW b \in 1 .. n + 1,
                    pending'[b] = placeholder, a < b
             PROVE  Fn[pending'[a]] = "CAPABILITY_GET"
  BY <1>2 DEF NothingOvertakes
<1>7. CASE b = k
  <2>1. op = placeholder /\ ~Waits(pending)
    BY <1>2, <1>7
  <2>2. a \in 1 .. n /\ pending'[a] = pending[a]
    BY <1>2, <1>7
  <2>3. pending[a] # placeholder
    BY <2>1, <2>2 DEF Waits
  <2>4. Priority[pending[a]] >= Priority[placeholder]
    BY <1>7, <2>1, <2>2
  <2> QED
    BY <1>3, <1>4, <2>2, <2>3, <2>4
<1>8. CASE b < k
  <2>1. /\ a \in 1 .. n /\ b \in 1 .. n
        /\ pending'[a] = pending[a] /\ pending'[b] = pending[b]
    BY <1>2, <1>8
  <2> QED
    BY <1>6, <2>1
<1>9. CASE k < b
  <2>1. b - 1 \in 1 .. n /\ pending[b - 1] = placeholder
    BY <1>2, <1>9
  <2>2. CASE a < k
    <3>1. a \in 1 .. n /\ a < b - 1 /\ pending'[a] = pending[a]
      BY <1>2, <1>9, <2>2
    <3> QED
      BY <1>6, <2>1, <3>1
  <2>3. CASE a = k
    <3>1. ~(Priority[placeholder] >= Priority[op])
      <4>1. ~(b - 1 < k)
        BY <1>9
      <4> QED
        BY <2>1, <4>1
    <3>2. Priority[op] >= Priority[placeholder] /\ op # placeholder
      BY <1>4, <1>5, <3>1
    <3> QED
      BY <1>2, <1>4, <2>3, <3>2
  <2>4. CASE k < a
    <3>1. a - 1 \in 1 .. n /\ a - 1 < b - 1 /\ pending'[a] = pending[a - 1]
      BY <1>2, <2>4
    <3> QED
      BY <1>6, <2>1, <3>1
  <2> QED
    BY <2>2, <2>3, <2>4
<1> QED
  BY <1>7, <1>8, <1>9

\* The put thread files an operation.
LEMMA FileKeepsBalance ==
    ASSUME Replying, ReplyInv, File
    PROVE  ReplyInv'
<1> USE DEF execVars, retryVars
<1> DEFINE op == Head(accepted)
<1>1. /\ accepted # <<>> /\ accepted' = Tail(accepted)
      /\ Queue!Filed(pending, op, pending')
      /\ UNCHANGED <<exec_pc, local_node, phy_layer_sem, current_state,
                     failed_timer, modem>>
  BY DEF File
<1>2. accepted \in Seq(QueueOps) /\ pending \in Seq(QueueOps)
  BY DEF ReplyInv, ReplyTypes
<1>3. /\ accepted' \in Seq(QueueOps) /\ op \in QueueOps
      /\ Waits(accepted) <=> Waits(accepted') \/ op = placeholder
      /\ Once(accepted')
      /\ Waits(accepted') => op # placeholder
  BY <1>1, <1>2, WaitsTail DEF ReplyInv, OnePlaceholder
<1>4. op = placeholder => ~Waits(pending)
  BY <1>3 DEF ReplyInv, OnePlaceholder
<1>5. PICK k \in 1 .. Len(pending) + 1 :
         /\ \A j \in 1 .. Len(pending) :
               (j < k) <=> (Priority[pending[j]] >= Priority[op])
         /\ pending' = Queue!InsertAt(pending, k, op)
  BY <1>1 DEF Queue!Filed
<1>6. pending' = InsertAt(pending, k, op)
  BY <1>5 DEF InsertAt, Queue!InsertAt
<1> HIDE DEF op
<1>7. /\ pending' \in Seq(QueueOps)
      /\ Waits(pending') <=> Waits(pending) \/ op = placeholder
      /\ Once(pending')
  BY <1>2, <1>3, <1>4, <1>6, WaitsInsert DEF ReplyInv, OnePlaceholder
<1>8. NothingOvertakes'
  BY <1>3, <1>4, <1>5, <1>6, FileOvertakes
<1>9. (Due' <=> Due) /\ (Held' <=> Held)
  BY <1>1, <1>3, <1>7 DEF Due, Held, Waits
<1>10. ReplyTypes'
  BY <1>1, <1>3, <1>7 DEF ReplyInv, ReplyTypes
<1>11. OnePlaceholder'
  <2>1. /\ Waits(accepted)' <=> Waits(accepted')
        /\ Waits(pending)' <=> Waits(pending')
        /\ Once(accepted)' <=> Once(accepted')
        /\ Once(pending)' <=> Once(pending')
    BY DEF Waits, Once
  <2> QED
    BY <1>1, <1>3, <1>4, <1>7, <2>1 DEF ReplyInv, OnePlaceholder
<1>12. Balanced' /\ QuietWhileDue'
  BY <1>1, <1>9 DEF ReplyInv, Balanced, QuietWhileDue
<1>13. OneReply' /\ HeardKnown' /\ HalvesKnown'
  BY <1>1, ModemStays DEF ReplyInv
<1> QED
  BY <1>8, <1>10, <1>11, <1>12, <1>13 DEF ReplyInv

\* The exec thread takes the semaphore, and goes on with what it picked.
LEMMA ThreadKeepsBalance ==
    ASSUME Replying, ReplyInv, TakePhy \/ ResetCounter \/ SaveNode
    PROVE  ReplyInv'
<1> USE DEF queueVars, execVars, retryVars, ExecTo
<1>1. /\ UNCHANGED <<accepted, pending, local_node, failed_timer, modem>>
      /\ \/ /\ phy_layer_sem = 1 /\ phy_layer_sem' = 0
            /\ exec_pc = "phy" /\ exec_pc' = "item"
            /\ current_state' = "IDLING"
         \/ /\ exec_pc \in {"reset", "save"} /\ exec_pc' \in {"save", "execute"}
            /\ UNCHANGED <<phy_layer_sem, current_state>>
  BY DEF TakePhy, ResetCounter, SaveNode
<1>2. Held /\ Held' /\ (Due' <=> Due)
  BY <1>1 DEF Held, Due, Waits
<1>3. ReplyTypes' /\ OnePlaceholder' /\ NothingOvertakes'
  <2>1. ReplyTypes'
    BY <1>1 DEF ReplyInv, ReplyTypes
  <2>2. OnePlaceholder'
    BY <1>1 DEF ReplyInv, OnePlaceholder, Waits, Once
  <2>3. NothingOvertakes'
    BY <1>1 DEF ReplyInv, NothingOvertakes
  <2> QED
    BY <2>1, <2>2, <2>3
<1>4. phy_layer_sem' = 1 => exec_pc' = "phy"
  BY <1>1 DEF ReplyInv, Balanced
<1>5. Balanced' /\ QuietWhileDue'
  BY <1>1, <1>2, <1>4 DEF ReplyInv, Balanced, QuietWhileDue
<1>6. \A i \in 1 .. Len(modem) : modem[i].half = "tx" => current_state' = current_state
  <2>1. CASE Due
    BY <2>1, QuietMeansReply
  <2>2. CASE ~Due
    <3>1. Len(modem) = 0
      BY <1>2, <2>2 DEF ReplyInv, Balanced
    <3>2. \A i \in 1 .. 0 : FALSE
      OBVIOUS
    <3> QED
      BY <3>1, <3>2
  <2> QED
    BY <2>1, <2>2
<1>7. OneReply' /\ HeardKnown'
  BY <1>1 DEF ReplyInv, OneReply, HeardKnown
<1>8. HalvesKnown'
  <2>1. current_state' \in {current_state, "IDLING"}
    BY <1>1
  <2> QED
    BY <1>1, <1>6, <2>1 DEF ReplyInv, HalvesKnown
<1> QED
  BY <1>3, <1>5, <1>7, <1>8 DEF ReplyInv

\* It picks the first operation, and puts it back when it is permanent.
LEMMA PickKeepsBalance ==
    ASSUME Replying, ReplyInv, Pick
    PROVE  ReplyInv'
<1> USE DEF ExecTo, retryVars
<1> DEFINE h == Head(pending)
           t == Tail(pending)
           n == Len(t)
<1>1. /\ exec_pc = "item" /\ exec_pc' = "reset" /\ pending # <<>>
      /\ local_node' = h
      /\ pending' = IF IsPermanent(h) THEN Append(t, h) ELSE t
      /\ UNCHANGED <<accepted, phy_layer_sem, current_state, failed_timer, modem>>
  BY DEF Pick
<1>2. pending \in Seq(QueueOps) /\ local_node = NoOp
  BY <1>1 DEF ReplyInv, ReplyTypes
<1>3. /\ t \in Seq(QueueOps) /\ h \in QueueOps
      /\ Waits(pending) <=> Waits(t) \/ h = placeholder
      /\ Once(t)
      /\ Waits(t) => h # placeholder
  BY <1>1, <1>2, WaitsTail DEF ReplyInv, OnePlaceholder
<1>4. /\ n \in Nat /\ Len(pending) = n + 1 /\ h = pending[1]
      /\ \A j \in 1 .. n : t[j] = pending[j + 1]
  BY <1>1, <1>2, HeadTailProperties, LenProperties, EmptySeq
<1>5. IsPermanent(h) => h # placeholder
  BY DEF IsPermanent, Queue!IsPermanent, Replying
<1>6. /\ Append(t, h) \in Seq(QueueOps)
      /\ Waits(Append(t, h)) <=> Waits(t) \/ h = placeholder
      /\ (Waits(t) => h # placeholder) => Once(Append(t, h))
  BY <1>3, WaitsAppend
<1>7. /\ Len(Append(t, h)) = n + 1 /\ Append(t, h)[n + 1] = h
      /\ \A j \in 1 .. n : Append(t, h)[j] = t[j]
  BY <1>3, <1>4, AppendProperties
<1> HIDE DEF h, t, n
<1>8. /\ pending' \in Seq(QueueOps)
      /\ Waits(pending') <=> Waits(t)
      /\ Once(pending')
  BY <1>1, <1>3, <1>5, <1>6
<1>9. NothingOvertakes'
  <2> SUFFICES ASSUME NEW a \in 1 .. Len(pending'), NEW b \in 1 .. Len(pending'),
                      pending'[b] = placeholder, a < b
               PROVE  Fn[pending'[a]] = "CAPABILITY_GET"
    BY DEF NothingOvertakes
  <2>1. b \in 1 .. n /\ t[b] = placeholder /\ a \in 1 .. n /\ pending'[a] = t[a]
    <3>1. CASE pending' = t
      BY <1>4, <3>1 DEF n
    <3>2. CASE pending' = Append(t, h) /\ h # placeholder
      <4>1. /\ Len(pending') = n + 1 /\ pending'[n + 1] = h
            /\ \A j \in 1 .. n : pending'[j] = t[j]
        BY <1>7, <3>2
      <4>2. b # n + 1
        BY <3>2, <4>1
      <4>3. a \in 1 .. n /\ b \in 1 .. n
        BY <1>4, <4>1, <4>2
      <4> QED
        BY <4>1, <4>3
    <3> QED
      BY <1>1, <1>5, <3>1, <3>2
  <2>2. /\ a + 1 \in 1 .. Len(pending) /\ b + 1 \in 1 .. Len(pending)
        /\ pending[b + 1] = placeholder /\ a + 1 < b + 1
        /\ pending'[a] = pending[a + 1]
    BY <1>4, <2>1
  <2> QED
    BY <2>2 DEF ReplyInv, NothingOvertakes
<1>10. Waits(t) => Fn[h] = "CAPABILITY_GET"
  <2> SUFFICES ASSUME NEW j \in 1 .. n, t[j] = placeholder
               PROVE  Fn[h] = "CAPABILITY_GET"
    BY DEF Waits, n
  <2>1. /\ 1 \in 1 .. Len(pending) /\ j + 1 \in 1 .. Len(pending)
        /\ pending[j + 1] = placeholder /\ 1 < j + 1
    BY <1>4
  <2> QED
    BY <1>4, <2>1 DEF ReplyInv, NothingOvertakes
<1>11. ~Waits(accepted) /\ ~Waits(accepted')
  BY <1>1 DEF ReplyInv, OnePlaceholder
<1>12. h # NoOp /\ NoOp # placeholder /\ placeholder \notin Users
  BY <1>3, ReplyOps DEF QueueOps, ModemOps
<1>13. /\ Waits(accepted)' <=> Waits(accepted')
       /\ Waits(pending)' <=> Waits(pending')
       /\ Once(accepted)' <=> Once(accepted')
       /\ Once(pending)' <=> Once(pending')
  BY DEF Waits, Once
<1>14. (Due' <=> Due) /\ Held /\ Held'
  <2>1. Due <=> Waits(t) \/ h = placeholder
    BY <1>2, <1>3, <1>11, <1>12 DEF Due
  <2>2. Due' <=> Waits(t) \/ h = placeholder
    BY <1>1, <1>8, <1>11, <1>13 DEF Due
  <2>3. Held /\ Held'
    BY <1>1 DEF Held
  <2> QED
    BY <2>1, <2>2, <2>3
<1>15. ReplyTypes'
  BY <1>1, <1>3, <1>8, <1>12 DEF ReplyInv, ReplyTypes
<1>16. OnePlaceholder'
  BY <1>1, <1>3, <1>8, <1>11, <1>13 DEF ReplyInv, OnePlaceholder
<1>17. Balanced'
  BY <1>1, <1>14 DEF ReplyInv, Balanced
<1>18. QuietWhileDue'
  <2>1. Due' => Waits(t) \/ h = placeholder
    BY <1>1, <1>8, <1>11, <1>13 DEF Due
  <2>2. Due' => (h \in Users => Fn[h] = "CAPABILITY_GET")
    BY <1>10, <1>12, <2>1
  <2> QED
    BY <1>1, <1>14, <2>2 DEF ReplyInv, QuietWhileDue
<1>19. OneReply' /\ HeardKnown' /\ HalvesKnown'
  BY <1>1, ModemStays DEF ReplyInv
<1> QED
  BY <1>9, <1>15, <1>16, <1>17, <1>18, <1>19 DEF ReplyInv

\* The modem takes what it is given.
LEMMA WorkAppended ==
    ASSUME modem \in Seq(Work), NEW op \in ModemOps,
           modem' = Append(modem, Started(op))
    PROVE  /\ modem' \in Seq(Work) /\ Len(modem') = Len(modem) + 1
           /\ \A j \in 1 .. Len(modem) : modem'[j] = modem[j]
           /\ modem'[Len(modem) + 1] = Started(op)
<1>1. Started(op) \in Work
  BY DEF Started, Work, Halves
<1> QED
  BY <1>1, AppendProperties

\* The exec thread starts an operation, or nothing when it is a PLACEHOLDER.
LEMMA ExecuteKeepsBalance ==
    ASSUME Replying, ReplyInv, Execute
    PROVE  ReplyInv'
<1> USE DEF ExecTo, queueVars, retryVars
<1> DEFINE op == local_node
           n == Len(modem)
<1>1. /\ exec_pc = "execute" /\ exec_pc' = "phy" /\ local_node' = NoOp
      /\ UNCHANGED <<accepted, pending, phy_layer_sem, failed_timer>>
      /\ FunctionExecute(op)
  BY DEF Execute
<1>2. /\ phy_layer_sem = 0 /\ phy_layer_sem' = 0
      /\ Held /\ ~Held'
  BY <1>1 DEF ReplyInv, ReplyTypes, Balanced, Held
<1>3. op \in QueueOps /\ NoOp # placeholder /\ placeholder \notin ModemOps
      /\ modem \in Seq(Work) /\ n \in Nat
  <2>1. op \in QueueOps /\ modem \in Seq(Work)
    BY <1>1 DEF ReplyInv, ReplyTypes
  <2>2. NoOp # placeholder /\ placeholder \notin ModemOps
    BY ReplyOps DEF QueueOps
  <2> QED
    BY <2>1, <2>2, LenProperties
<1>4. ~Waits(accepted) /\ ~Waits(accepted')
  BY <1>1 DEF ReplyInv, OnePlaceholder
<1>5. (Waits(accepted)' <=> Waits(accepted')) /\ (Waits(pending)' <=> Waits(pending))
  BY <1>1 DEF Waits
<1>6. (Due <=> Waits(pending) \/ op = placeholder) /\ (Due' <=> Waits(pending))
      /\ (Waits(pending) => op # placeholder)
  BY <1>1, <1>3, <1>4, <1>5 DEF Due, ReplyInv, OnePlaceholder
<1>7. n = IF Due THEN 1 ELSE 0
  BY <1>2 DEF ReplyInv, Balanced
<1>8. OnePlaceholder' /\ NothingOvertakes'
  BY <1>1, <1>3, <1>4 DEF ReplyInv, OnePlaceholder, NothingOvertakes, Once, Waits
<1>9. modem' \in Seq(Work) => ReplyTypes'
  BY <1>1 DEF ReplyInv, ReplyTypes
<1> HIDE DEF n
<1>10. CASE op = placeholder
  <2>1. modem' = modem /\ current_state' = "UNKNOWN"
    BY <1>1, <1>10, ReplyOps DEF FunctionExecute, StateOf, Replying
  <2>2. Due /\ ~Due' /\ n = 1
    BY <1>6, <1>7, <1>10
  <2>3. \A i \in 1 .. Len(modem) : modem[i].half # "tx"
    BY <2>2, QuietMeansReply
  <2>4. Balanced' /\ QuietWhileDue'
    BY <1>1, <1>2, <2>1, <2>2 DEF Balanced, QuietWhileDue, n
  <2>5. OneReply' /\ HeardKnown'
    BY <2>1 DEF ReplyInv, OneReply, HeardKnown
  <2>6. HalvesKnown'
    BY <2>1, <2>3 DEF ReplyInv, HalvesKnown
  <2> QED
    BY <1>3, <1>8, <1>9, <2>1, <2>4, <2>5, <2>6 DEF ReplyInv
<1>11. CASE op # placeholder
  <2>1. op \in Users /\ op \in ModemOps /\ op # reply
    BY <1>3, <1>11, ReplyOps DEF QueueOps, ModemOps
  <2>2. Fn[op] \notin {"PLACEHOLDER", "LINK_CONFIG"} /\ "refused" \notin Outcomes
    BY <2>1, ReplyOps DEF Replying
  <2>3. /\ modem' = Append(modem, Started(op))
        /\ current_state' = StateOf(Fn[op])
    BY <1>1, <2>2 DEF FunctionExecute
  <2>4. /\ modem' \in Seq(Work) /\ Len(modem') = n + 1
        /\ \A j \in 1 .. n : modem'[j] = modem[j]
        /\ modem'[n + 1] = Started(op)
    BY <1>3, <2>1, <2>3, WorkAppended DEF n
  <2>5. /\ Started(op).op = op /\ ~Started(op).heard
        /\ Started(op).half = IF Fn[op] = "TX_RX" THEN "tx" ELSE "whole"
    BY DEF Started
  <2>6. Due' <=> Due
    BY <1>6, <1>11
  <2>7. Due => Fn[op] = "CAPABILITY_GET"
    BY <2>1 DEF ReplyInv, QuietWhileDue
  <2>8. \A i \in 1 .. n + 1 : i = n + 1 \/ i \in 1 .. n
    BY <1>3
  <2>9. Balanced'
    BY <1>1, <1>2, <1>7, <2>4, <2>6 DEF Balanced
  <2>10. QuietWhileDue'
    <3>1. local_node' \notin Users
      BY <1>1, ReplyOps DEF QueueOps
    <3>2. ASSUME Due, NEW i \in 1 .. Len(modem')
          PROVE  \/ modem'[i].op = reply \/ modem'[i].heard
                 \/ Fn[modem'[i].op] = "CAPABILITY_GET"
      <4>1. CASE i = n + 1
        BY <2>4, <2>5, <2>7, <3>2, <4>1
      <4>2. CASE i \in 1 .. n
        BY <2>4, <3>2, <4>2 DEF ReplyInv, QuietWhileDue, n
      <4> QED
        BY <2>4, <2>8, <4>1, <4>2
    <3> QED
      BY <2>6, <3>1, <3>2 DEF QuietWhileDue
  <2>11. OneReply'
    <3> SUFFICES ASSUME NEW i \in 1 .. n + 1, NEW j \in 1 .. n + 1,
                        modem'[i].op = reply, modem'[j].op = reply
                 PROVE  i = j
      BY <2>4 DEF OneReply
    <3>1. i \in 1 .. n /\ j \in 1 .. n
      BY <2>1, <2>4, <2>5, <2>8
    <3> QED
      BY <2>4, <3>1 DEF ReplyInv, OneReply, n
  <2>12. HeardKnown'
    <3> SUFFICES ASSUME NEW i \in 1 .. n + 1, modem'[i].heard
                 PROVE  Fn[modem'[i].op] = "RX" \/ modem'[i].half = "rx"
      BY <2>4 DEF HeardKnown
    <3>1. i \in 1 .. n
      BY <2>4, <2>5, <2>8
    <3> QED
      BY <2>4, <3>1 DEF ReplyInv, HeardKnown, n
  <2>13. HalvesKnown'
    <3> SUFFICES ASSUME NEW i \in 1 .. n + 1
                 PROVE  /\ modem'[i].half = "whole" <=> Fn[modem'[i].op] # "TX_RX"
                        /\ modem'[i].half = "tx" => current_state' = "TRANSMITTING"
                        /\ modem'[i].half = "rx" => current_state' # "TRANSMITTING"
      BY <2>4 DEF HalvesKnown
    <3>1. CASE i = n + 1
      BY <2>3, <2>4, <2>5, <3>1 DEF StateOf
    <3>2. CASE i \in 1 .. n
      <4>1. Due
        <5>1. ~Due => n = 0
          BY <1>7
        <5>2. n = 0 => i \in 1 .. 0
          BY <3>2
        <5> QED
          BY <5>1, <5>2
      <4>2. current_state' = "GETTING_CAPABILITY" /\ modem[i].half # "tx"
        BY <2>3, <2>7, <3>2, <4>1, QuietMeansReply DEF StateOf, n
      <4>3. modem[i].half = "whole" <=> Fn[modem[i].op] # "TX_RX"
        BY <3>2 DEF ReplyInv, HalvesKnown, n
      <4> QED
        BY <2>4, <3>2, <4>2, <4>3
    <3> QED
      BY <2>8, <3>1, <3>2
  <2> QED
    BY <1>8, <1>9, <2>4, <2>9, <2>10, <2>11, <2>12, <2>13 DEF ReplyInv
<1> QED
  BY <1>10, <1>11

\* What the modem answers when it does what it is asked to: the first half of a
\* TX_RX goes over into the second, or an operation ends and gives the token.
TurnsRound(i) ==
    /\ Fn[modem[i].op] = "TX_RX" /\ modem[i].half = "tx"
    /\ current_state' = "RECEIVING" /\ phy_layer_sem' = phy_layer_sem
    /\ modem' = [modem EXCEPT ![i].half = "rx"]

IsDone(i) ==
    /\ phy_layer_sem' = 1 /\ current_state' = current_state
    /\ modem' = RemoveAt(modem, i)

\* The modem does one or the other.
LEMMA GoodAnswers ==
    ASSUME Replying, ReplyInv, Answer
    PROVE  \E i \in 1 .. Len(modem) :
              /\ Event
              /\ UNCHANGED <<accepted, pending, exec_pc, local_node, failed_timer>>
              /\ TurnsRound(i) \/ IsDone(i)
<1> USE DEF queueVars, execVars, retryVars, PhySemGive
<1>1. PICK i \in 1 .. Len(modem) :
         \/ SwitchToRx(i) \/ OpComplete(i) \/ Late(i) \/ Failed(i)
         \/ CapabilityGot(i) \/ RssiReport(i) \/ RxStopped(i)
  BY DEF Answer
<1>2. modem[i] \in Work
  BY ElementOfSeq DEF ReplyInv, ReplyTypes
<1>3. modem[i].op \in ModemOps /\ modem[i].half \in Halves
  BY <1>2 DEF Work
<1>4. Fn[modem[i].op] \notin {"RX_STOP", "RSSI"}
  BY <1>3, ReplyOps
<1>5. /\ modem[i].half = "whole" <=> Fn[modem[i].op] # "TX_RX"
      /\ modem[i].half = "tx" => current_state = "TRANSMITTING"
      /\ modem[i].half = "rx" => current_state # "TRANSMITTING"
  BY DEF ReplyInv, HalvesKnown
<1>6. CASE SwitchToRx(i)
  <2>1. modem[i].half = "tx"
    BY <1>3, <1>5, <1>6 DEF SwitchToRx, Halves
  <2> QED
    BY <1>6, <2>1 DEF SwitchToRx, TurnsRound
<1>7. CASE OpComplete(i)
  <2>1. modem[i].half # "tx"
    BY <1>5, <1>7 DEF OpComplete
  <2>2. FromQueue(modem[i].op)
    BY <1>4, <1>7 DEF OpComplete, Completes, FromQueue
  <2> QED
    BY <1>7, <2>1, <2>2 DEF OpComplete, IsDone
<1>8. CASE CapabilityGot(i)
  BY <1>8 DEF CapabilityGot, IsDone
<1>9. ~Late(i) /\ ~Failed(i) /\ ~RssiReport(i) /\ ~RxStopped(i)
  BY <1>4 DEF Late, Failed, RssiReport, RxStopped, Replying
<1> QED
  BY <1>1, <1>6, <1>7, <1>8, <1>9

\* The modem turns from transmitting to receiving.
LEMMA TurnKeepsBalance ==
    ASSUME Replying, ReplyInv, Event, NEW i \in 1 .. Len(modem), TurnsRound(i),
           UNCHANGED <<accepted, pending, exec_pc, local_node, failed_timer>>
    PROVE  ReplyInv'
<1>1. /\ exec_pc = "phy" /\ phy_layer_sem = 0 /\ local_node = NoOp
  BY EventFindsThreadsIdle
<1>2. ~Due /\ ~Held /\ ~Due' /\ ~Held'
  <2>1. ~Due
    BY QuietMeansReply DEF TurnsRound
  <2>2. ~Held /\ ~Held'
    BY <1>1 DEF Held, TurnsRound
  <2>3. Due' <=> Due
    BY DEF Due, Waits
  <2> QED
    BY <2>1, <2>2, <2>3
<1>3. Len(modem) = 1 /\ i = 1
  <2>1. Len(modem) = 1
    BY <1>2 DEF ReplyInv, Balanced
  <2>2. i \in 1 .. 1
    BY <2>1
  <2> QED
    BY <2>1, <2>2
<1> DEFINE e == [modem[1] EXCEPT !.half = "rx"]
<1>4. modem \in Seq(Work) /\ 1 \in DOMAIN modem /\ modem[1] \in Work
  BY <1>3, ElementOfSeq, LenProperties DEF ReplyInv, ReplyTypes
<1>5. e \in Work /\ e.op = modem[1].op /\ e.half = "rx" /\ e.heard = modem[1].heard
  BY <1>4 DEF Work, Halves
<1>6. modem' = [modem EXCEPT ![1] = e]
  BY <1>3 DEF TurnsRound
<1> HIDE DEF e
<1>7. modem' \in Seq(Work) /\ Len(modem') = 1 /\ modem'[1] = e
  <2>1. modem' \in Seq(Work)
    BY <1>4, <1>5, <1>6, ExceptSeq
  <2>2. DOMAIN modem' = 1 .. 1 /\ modem'[1] = e
    BY <1>3, <1>4, <1>6, LenProperties
  <2>3. Len(modem') = 1
    BY <1>3, <1>4, <1>6, <2>1, LenProperties
  <2> QED
    BY <2>1, <2>2, <2>3
<1>8. \A j \in 1 .. Len(modem') : j = 1
  <2>1. \A j \in 1 .. 1 : j = 1
    OBVIOUS
  <2> QED
    BY <1>7, <2>1
<1>9. ReplyTypes' /\ OnePlaceholder' /\ NothingOvertakes'
  <2>1. ReplyTypes'
    BY <1>7 DEF ReplyInv, ReplyTypes, TurnsRound
  <2>2. OnePlaceholder'
    BY DEF ReplyInv, OnePlaceholder, TurnsRound, Waits, Once
  <2>3. NothingOvertakes'
    BY DEF ReplyInv, NothingOvertakes
  <2> QED
    BY <2>1, <2>2, <2>3
<1>10. Balanced' /\ QuietWhileDue'
  BY <1>1, <1>2, <1>7 DEF Balanced, QuietWhileDue, TurnsRound
<1>11. OneReply' /\ HeardKnown'
  BY <1>5, <1>7, <1>8 DEF OneReply, HeardKnown
<1>12. HalvesKnown'
  <2>1. Fn[e.op] = "TX_RX" /\ current_state' = "RECEIVING"
    BY <1>3, <1>5 DEF TurnsRound
  <2> QED
    BY <1>5, <1>7, <1>8, <2>1 DEF HalvesKnown
<1> QED
  BY <1>9, <1>10, <1>11, <1>12 DEF ReplyInv

\* An operation ends.
LEMMA EndKeepsBalance ==
    ASSUME Replying, ReplyInv, Event, NEW i \in 1 .. Len(modem), IsDone(i),
           UNCHANGED <<accepted, pending, exec_pc, local_node, failed_timer>>
    PROVE  ReplyInv'
<1>1. /\ ~Waits(accepted) /\ exec_pc = "phy" /\ phy_layer_sem = 0
      /\ local_node = NoOp
  BY EventFindsThreadsIdle
<1>2. modem \in Seq(Work) /\ Len(modem) \in Nat
  BY LenProperties DEF ReplyInv, ReplyTypes
<1>3. /\ modem' \in Seq(Work) /\ Len(modem') = Len(modem) - 1
      /\ \A j \in 1 .. Len(modem) - 1 :
            modem'[j] = IF j < i THEN modem[j] ELSE modem[j + 1]
  BY <1>2, RemoveAtProperties DEF IsDone
<1>4. (Due' <=> Due) /\ ~Held /\ Held'
  BY <1>1 DEF Due, Held, Waits, IsDone
<1>5. \A j \in 1 .. Len(modem') :
         \E k \in 1 .. Len(modem) : modem'[j] = modem[k]
  <2> SUFFICES ASSUME NEW j \in 1 .. Len(modem')
               PROVE  \E k \in 1 .. Len(modem) : modem'[j] = modem[k]
    OBVIOUS
  <2>1. j \in 1 .. Len(modem) /\ j + 1 \in 1 .. Len(modem)
    BY <1>2, <1>3
  <2>2. modem'[j] = modem[j] \/ modem'[j] = modem[j + 1]
    BY <1>3
  <2> QED
    BY <2>1, <2>2
<1>6. Len(modem') = IF Due THEN 1 ELSE 0
  BY <1>3, <1>4 DEF ReplyInv, Balanced
<1>7. ReplyTypes' /\ OnePlaceholder' /\ NothingOvertakes'
  <2>1. ReplyTypes'
    BY <1>3 DEF ReplyInv, ReplyTypes, IsDone
  <2>2. OnePlaceholder'
    BY <1>1 DEF ReplyInv, OnePlaceholder, Waits, Once
  <2>3. NothingOvertakes'
    BY DEF ReplyInv, NothingOvertakes
  <2> QED
    BY <2>1, <2>2, <2>3
<1>8. Balanced'
  BY <1>1, <1>4, <1>6 DEF Balanced
<1>9. QuietWhileDue' /\ HeardKnown'
  <2>1. HeardKnown'
    BY <1>5 DEF ReplyInv, HeardKnown
  <2>2. Due => \A k \in 1 .. Len(modem) :
           \/ modem[k].op = reply \/ modem[k].heard
           \/ Fn[modem[k].op] = "CAPABILITY_GET"
    BY DEF ReplyInv, QuietWhileDue
  <2>3. Due => \A j \in 1 .. Len(modem') :
           \/ modem'[j].op = reply \/ modem'[j].heard
           \/ Fn[modem'[j].op] = "CAPABILITY_GET"
    BY <1>5, <2>2
  <2>4. local_node' \notin Users
    BY <1>1, ReplyOps DEF QueueOps
  <2> QED
    BY <1>4, <2>1, <2>3, <2>4 DEF QuietWhileDue
<1>10. HalvesKnown'
  BY <1>5 DEF ReplyInv, HalvesKnown, IsDone
<1>11. OneReply'
  <2>1. \A j \in 1 .. 1 : j = 1
    OBVIOUS
  <2>2. \A j \in 1 .. 0 : j = 1
    OBVIOUS
  <2>3. \A j \in 1 .. Len(modem') : j = 1
    BY <1>6, <2>1, <2>2
  <2> QED
    BY <2>3 DEF OneReply
<1> QED
  BY <1>7, <1>8, <1>9, <1>10, <1>11 DEF ReplyInv

\* Another node asks for a reply: it is sent at once, and its PLACEHOLDER is put.
LEMMA RequestKeepsBalance ==
    ASSUME Replying, ReplyInv, NEW i \in 1 .. Len(modem), HarqRequest(i)
    PROVE  ReplyInv'
<1> USE DEF execVars, retryVars
<1>1. /\ Event /\ ~modem[i].heard
      /\ Fn[modem[i].op] = "RX" \/ modem[i].half = "rx"
      /\ modem' = Append([modem EXCEPT ![i].heard = TRUE], Started(reply))
      /\ accepted' = Append(accepted, placeholder)
      /\ UNCHANGED <<pending, exec_pc, local_node, phy_layer_sem, current_state,
                     failed_timer>>
  BY DEF HarqRequest
<1>2. /\ accepted = <<>> /\ ~Waits(accepted)
      /\ exec_pc = "phy" /\ phy_layer_sem = 0 /\ local_node = NoOp
  BY <1>1, EventFindsThreadsIdle
<1>3. /\ Fn[modem[i].op] \in {"RX", "TX_RX"}
      /\ modem[i].half = "whole" <=> Fn[modem[i].op] # "TX_RX"
      /\ modem[i].half = "tx" => current_state = "TRANSMITTING"
      /\ modem[i].half = "rx" => current_state # "TRANSMITTING"
  BY <1>1 DEF ReplyInv, HalvesKnown
<1>4. modem[i].op # reply
  BY <1>3, ReplyOps
<1>5. ~Due /\ ~Held /\ ~Held'
  <2>1. ~Due
    BY <1>1, <1>3, <1>4 DEF ReplyInv, QuietWhileDue
  <2> QED
    BY <1>1, <1>2, <2>1 DEF Held
<1>6. Len(modem) = 1 /\ i = 1
  <2>1. Len(modem) = 1
    BY <1>5 DEF ReplyInv, Balanced
  <2>2. i \in 1 .. 1
    BY <2>1
  <2> QED
    BY <2>1, <2>2
<1> DEFINE e == [modem[1] EXCEPT !.heard = TRUE]
           m == [modem EXCEPT ![1] = e]
           r == Started(reply)
<1>7. modem \in Seq(Work) /\ 1 \in DOMAIN modem /\ modem[1] \in Work
  BY <1>6, ElementOfSeq, LenProperties DEF ReplyInv, ReplyTypes
<1>8. /\ e \in Work /\ e.op = modem[1].op /\ e.half = modem[1].half /\ e.heard
  BY <1>7 DEF Work
<1>9. /\ r \in Work /\ r.op = reply /\ r.half = "whole" /\ ~r.heard
      /\ Fn[r.op] = "TX_HARQ"
  BY ReplyOps DEF Started, Work, ModemOps, Halves
<1>10. modem' = Append(m, r)
  BY <1>1, <1>6
<1> HIDE DEF e, r
<1>11. m \in Seq(Work) /\ Len(m) = 1 /\ m[1] = e
  <2>1. m \in Seq(Work)
    BY <1>7, <1>8, ExceptSeq
  <2>2. m[1] = e
    BY <1>7
  <2>3. Len(m) = 1
    BY <1>6, <1>7, <2>1, LenProperties
  <2> QED
    BY <2>1, <2>2, <2>3
<1> HIDE DEF m
<1>12. modem' \in Seq(Work) /\ Len(modem') = 2 /\ modem'[1] = e /\ modem'[2] = r
  <2>1. /\ Append(m, r) \in Seq(Work) /\ Len(Append(m, r)) = Len(m) + 1
        /\ \A j \in 1 .. Len(m) : Append(m, r)[j] = m[j]
        /\ Append(m, r)[Len(m) + 1] = r
    <3>1. m \in Seq(Work) /\ r \in Work
      BY <1>9, <1>11
    <3> QED
      BY <3>1, AppendProperties
  <2> QED
    BY <1>10, <1>11, <2>1
<1>13. \A j \in 1 .. Len(modem') : j = 1 \/ j = 2
  <2>1. \A j \in 1 .. 2 : j = 1 \/ j = 2
    OBVIOUS
  <2> QED
    BY <1>12, <2>1
<1>14. accepted' \in Seq(QueueOps) /\ Waits(accepted') /\ Once(accepted')
  <2>1. placeholder \in QueueOps /\ accepted \in Seq(QueueOps) /\ Once(accepted)
    BY DEF QueueOps, ReplyInv, ReplyTypes, OnePlaceholder
  <2> QED
    BY <1>1, <1>2, <2>1, WaitsAppend
<1>15. /\ Waits(accepted)' <=> Waits(accepted')
       /\ Once(accepted)' <=> Once(accepted')
       /\ Waits(pending)' <=> Waits(pending)
       /\ Once(pending)' <=> Once(pending)
  BY <1>1 DEF Waits, Once
<1>16. ~Waits(pending) /\ NoOp # placeholder
  BY <1>5, ReplyOps DEF Due, QueueOps
<1>17. ReplyTypes'
  BY <1>1, <1>12, <1>14 DEF ReplyInv, ReplyTypes
<1>18. OnePlaceholder'
  BY <1>1, <1>2, <1>14, <1>15, <1>16 DEF ReplyInv, OnePlaceholder
<1>19. NothingOvertakes'
  BY <1>1 DEF ReplyInv, NothingOvertakes
<1>20. Balanced'
  <2>1. Due'
    BY <1>14, <1>15 DEF Due
  <2> QED
    BY <1>1, <1>2, <1>5, <1>12, <2>1 DEF Balanced
<1>21. QuietWhileDue' /\ OneReply' /\ HeardKnown'
  <2>1. local_node' \notin Users
    BY <1>1, <1>2, ReplyOps DEF QueueOps
  <2>2. QuietWhileDue'
    BY <1>8, <1>9, <1>12, <1>13, <2>1 DEF QuietWhileDue
  <2>3. OneReply'
    BY <1>4, <1>6, <1>8, <1>12, <1>13 DEF OneReply
  <2>4. HeardKnown'
    BY <1>1, <1>6, <1>8, <1>9, <1>12, <1>13 DEF HeardKnown
  <2> QED
    BY <2>2, <2>3, <2>4
<1>22. HalvesKnown'
  BY <1>1, <1>3, <1>6, <1>8, <1>9, <1>12, <1>13 DEF HalvesKnown
<1> QED
  BY <1>17, <1>18, <1>19, <1>20, <1>21, <1>22 DEF ReplyInv

\* What main sets up satisfies the invariant.
LEMMA InitReplyInv ==
    ASSUME Init
    PROVE  ReplyInv
<1>1. /\ Len(accepted) = 0 /\ Len(pending) = 0 /\ Len(modem) = 0
      /\ \A j \in 1 .. 0 : FALSE
  BY EmptySeq DEF Init
<1>2. ~Waits(accepted) /\ ~Waits(pending) /\ Once(accepted) /\ Once(pending)
  BY <1>1 DEF Waits, Once
<1>3. NoOp # placeholder
  BY HandlerAssumption
<1>4. ReplyTypes
  BY EmptySeq DEF Init, ReplyTypes
<1>5. OnePlaceholder /\ NothingOvertakes
  BY <1>1, <1>2 DEF OnePlaceholder, NothingOvertakes
<1>6. ~Due
  BY <1>2, <1>3 DEF Init, Due
<1>7. Balanced /\ QuietWhileDue
  BY <1>1, <1>6 DEF Init, Balanced, QuietWhileDue, Held
<1>8. OneReply /\ HeardKnown /\ HalvesKnown
  BY <1>1 DEF OneReply, HeardKnown, HalvesKnown
<1> QED
  BY <1>4, <1>5, <1>7, <1>8 DEF ReplyInv

\* Every step keeps the invariant.
LEMMA ReplyStep ==
    ASSUME Replying, ReplyInv, [Next]_vars
    PROVE  ReplyInv'
<1>1. CASE \E op \in Users : Put(op)
  BY <1>1, PutKeepsBalance
<1>2. CASE File
  BY <1>2, FileKeepsBalance
<1>3. CASE ExecThread
  BY <1>3, ThreadKeepsBalance, PickKeepsBalance, ExecuteKeepsBalance DEF ExecThread
<1>4. CASE Answer
  BY <1>4, GoodAnswers, TurnKeepsBalance, EndKeepsBalance
<1>5. CASE \E i \in 1 .. Len(modem) : HarqRequest(i)
  BY <1>5, RequestKeepsBalance
<1>6. CASE TimerExpires
  BY <1>6 DEF TimerExpires, ReplyInv, ReplyTypes
<1>7. CASE UNCHANGED vars
  BY <1>7 DEF vars, ReplyInv, ReplyTypes, OnePlaceholder, NothingOvertakes,
              Balanced, QuietWhileDue, OneReply, HeardKnown, HalvesKnown, Due,
              Held, Waits, Once
<1> QED
  BY <1>1, <1>2, <1>3, <1>4, <1>5, <1>6, <1>7 DEF Next

\* The balance of the token is an invariant of the handler.
THEOREM ReplyInvariant ==
    ASSUME Replying
    PROVE  Spec => []ReplyInv
<1>1. Init => ReplyInv
  BY InitReplyInv
<1>2. ReplyInv /\ [Next]_vars => ReplyInv'
  BY ReplyStep
<1> QED
  BY <1>1, <1>2, PTL DEF Spec

-----------------------------------------------------------------------------
(***************************************************************************)
(* What the balance says                                                   *)
(***************************************************************************)

\* A PLACEHOLDER that waits in one of the two lists is the only one in both.
LEMMA OnePlace ==
    ASSUME NEW S, NEW s \in Seq(S), NEW t \in Seq(S), Once(s), Once(t),
           ~(Waits(s) /\ Waits(t)),
           NEW places,
           places = {i \in 1 .. Len(s \o t) : (s \o t)[i] = placeholder}
    PROVE  /\ Waits(s) \/ Waits(t) => Cardinality(places) = 1
           /\ ~Waits(s) /\ ~Waits(t) => Cardinality(places) = 0
<1> DEFINE u == s \o t
           n == Len(s)
           m == Len(t)
<1>0. /\ Len(s \o t) = Len(s) + Len(t)
      /\ \A i \in 1 .. Len(s) + Len(t) :
            (s \o t)[i] = IF i <= Len(s) THEN s[i] ELSE t[i - Len(s)]
  BY ConcatProperties
<1>1. /\ n \in Nat /\ m \in Nat /\ Len(u) = n + m
      /\ \A i \in 1 .. n + m : u[i] = IF i <= n THEN s[i] ELSE t[i - n]
  BY <1>0, LenProperties
<1> HIDE DEF u, n, m
<1>2. places = {i \in 1 .. n + m : u[i] = placeholder}
  BY <1>1 DEF u
<1>3. \A i \in places :
         \/ i \in 1 .. n /\ s[i] = placeholder
         \/ i - n \in 1 .. m /\ t[i - n] = placeholder /\ i \in Nat
  BY <1>1, <1>2
<1>4. \A i, j \in places : i = j
  <2> SUFFICES ASSUME NEW i \in places, NEW j \in places PROVE i = j
    OBVIOUS
  <2>1. CASE Waits(s)
    <3>1. \A k \in 1 .. m : t[k] # placeholder
      BY <2>1 DEF Waits, m
    <3>2. i \in 1 .. n /\ s[i] = placeholder /\ j \in 1 .. n /\ s[j] = placeholder
      BY <1>3, <3>1
    <3> QED
      BY <3>2 DEF Once, n
  <2>2. CASE ~Waits(s)
    <3>1. \A k \in 1 .. n : s[k] # placeholder
      BY <2>2 DEF Waits, n
    <3>2. /\ i - n \in 1 .. m /\ t[i - n] = placeholder /\ i \in Nat
          /\ j - n \in 1 .. m /\ t[j - n] = placeholder /\ j \in Nat
      BY <1>3, <3>1
    <3>3. i - n = j - n
      BY <3>2 DEF Once, m
    <3> QED
      BY <1>1, <3>2, <3>3
  <2> QED
    BY <2>1, <2>2
<1>5. Waits(s) \/ Waits(t) => places # {}
  <2>1. ASSUME NEW k \in 1 .. n, s[k] = placeholder PROVE k \in places
    <3>1. k \in 1 .. n + m /\ k <= n
      BY <1>1
    <3>2. u[k] = s[k]
      BY <1>1, <3>1
    <3> QED
      BY <1>2, <2>1, <3>1, <3>2
  <2>2. ASSUME NEW k \in 1 .. m, t[k] = placeholder PROVE n + k \in places
    <3>1. n + k \in 1 .. n + m /\ ~(n + k <= n) /\ (n + k) - n = k
      BY <1>1
    <3>2. u[n + k] = t[k]
      BY <1>1, <3>1
    <3> QED
      BY <1>2, <2>2, <3>1, <3>2
  <2> QED
    BY <2>1, <2>2 DEF Waits, n, m
<1>6. ~Waits(s) /\ ~Waits(t) => places = {}
  BY <1>3 DEF Waits, n, m
<1>7. ASSUME places # {} PROVE Cardinality(places) = 1
  <2>1. PICK x : x \in places
    BY <1>7
  <2>2. places = {x}
    BY <1>4, <2>1
  <2> QED
    BY <2>2, FS_Singleton
<1>8. places = {} => Cardinality(places) = 0
  BY FS_EmptySet
<1> QED
  BY <1>5, <1>6, <1>7, <1>8

\* There is one token, and one more while the reply to a HARQ request is in the
\* air and its PLACEHOLDER is due.
THEOREM TokensBalance ==
    ASSUME Replying
    PROVE  Spec => []TokenBalance
<1>1. Spec => []ReplyInv
  BY ReplyInvariant
<1>2. ReplyInv => TokenBalance
  <2> SUFFICES ASSUME ReplyInv PROVE Tokens = 1 + PlaceholdersToCome
    BY DEF TokenBalance
  <2> DEFINE
        gives  == {i \in 1 .. Len(modem) :
                      /\ Fn[modem[i].op] # "RX_STOP"
                      /\ Fn[modem[i].op] = "RSSI" => ~modem[i].heard}
        places == {i \in 1 .. Len(accepted \o pending) :
                      (accepted \o pending)[i] = placeholder}
        g == Cardinality(gives)
        p == Cardinality(places)
        e == One(exec_pc # "phy")
        t == One(failed_timer)
        l == One(local_node = placeholder)
  <2>1. /\ Waits(accepted) \/ Waits(pending) => p = 1
        /\ ~Waits(accepted) /\ ~Waits(pending) => p = 0
    <3>1. /\ accepted \in Seq(QueueOps) /\ pending \in Seq(QueueOps)
          /\ Once(accepted) /\ Once(pending)
          /\ ~(Waits(accepted) /\ Waits(pending))
      BY DEF ReplyInv, ReplyTypes, OnePlaceholder
    <3> QED
      BY <3>1, OnePlace
  <2>2. g = Len(modem) /\ Len(modem) \in Nat
    <3>1. modem \in Seq(Work) /\ Len(modem) \in Nat
      BY LenProperties DEF ReplyInv, ReplyTypes
    <3>2. ASSUME NEW i \in 1 .. Len(modem)
          PROVE  Fn[modem[i].op] \notin {"RX_STOP", "RSSI"}
      <4>1. modem[i] \in Work
        BY <3>1, ElementOfSeq
      <4>2. modem[i].op \in ModemOps
        BY <4>1 DEF Work
      <4> QED
        BY <4>2, ReplyOps
    <3>3. gives = 1 .. Len(modem)
      BY <3>2
    <3>4. \A n \in Nat : Cardinality(1 .. n) = n
      BY FS_Interval
    <3> HIDE DEF gives
    <3> QED
      BY <3>1, <3>3, <3>4
  <2>3. (exec_pc = "phy" => e = 0) /\ (exec_pc # "phy" => e = 1)
    BY DEF One
  <2>4. t = 0
    BY DEF One, ReplyInv, ReplyTypes
  <2>5. (local_node = placeholder => l = 1) /\ (local_node # placeholder => l = 0)
    BY DEF One
  <2>6. Tokens = phy_layer_sem + e + (g + t) /\ PlaceholdersToCome = p + l
    BY DEF Tokens, GivesToCome, PlaceholdersToCome
  <2> HIDE DEF g, p, e, t, l
  <2>7. IF Due THEN p + l = 1 ELSE p + l = 0
    <3>1. ~((Waits(accepted) \/ Waits(pending)) /\ local_node = placeholder)
      BY DEF ReplyInv, OnePlaceholder
    <3>2. CASE Waits(accepted) \/ Waits(pending)
      BY <2>1, <2>5, <3>1, <3>2 DEF Due
    <3>3. CASE ~Waits(accepted) /\ ~Waits(pending)
      BY <2>1, <2>5, <3>3 DEF Due
    <3> QED
      BY <3>2, <3>3
  <2>8. IF Held THEN phy_layer_sem + e = 1 ELSE phy_layer_sem + e = 0
    <3>1. phy_layer_sem \in 0 .. 1 /\ (phy_layer_sem = 1 => exec_pc = "phy")
      BY DEF ReplyInv, ReplyTypes, Balanced
    <3> QED
      BY <2>3, <3>1 DEF Held
  <2>9. Len(modem) = IF Due THEN IF Held THEN 1 ELSE 2
                            ELSE IF Held THEN 0 ELSE 1
    BY DEF ReplyInv, Balanced
  <2>10. (phy_layer_sem + e) + Len(modem) = 1 + (p + l)
    BY <2>7, <2>8, <2>9
  <2> QED
    BY <2>2, <2>4, <2>6, <2>10
<1> QED
  BY <1>1, <1>2, PTL

\* The modem never has two transmissions to make at a time.
THEOREM OneTransmissionAtATime ==
    ASSUME Replying
    PROVE  Spec => []OneTransmission
<1>1. Spec => []ReplyInv
  BY ReplyInvariant
<1>2. ReplyInv => OneTransmission
  <2> SUFFICES ASSUME ReplyInv, NEW i \in 1 .. Len(modem), NEW j \in 1 .. Len(modem),
                      Transmits(i), Transmits(j)
               PROVE  i = j
    BY DEF OneTransmission
  <2>1. CASE Due
    <3>1. modem[i].op = reply /\ modem[j].op = reply
      BY <2>1, QuietMeansReply
    <3> QED
      BY <3>1 DEF ReplyInv, OneReply
  <2>2. CASE ~Due
    <3>1. Len(modem) = 0 \/ Len(modem) = 1
      BY <2>2 DEF ReplyInv, Balanced
    <3>2. i \in 1 .. 0 \/ (i \in 1 .. 1 /\ j \in 1 .. 1)
      BY <3>1, Zenon
    <3> QED
      BY <3>2
  <2> QED
    BY <2>1, <2>2
<1> QED
  BY <1>1, <1>2, PTL
=============================================================================
