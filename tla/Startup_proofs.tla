--------------------------- MODULE Startup_proofs ---------------------------
(***************************************************************************)
(* Theorems about Startup, for any operations of users, bounds and         *)
(* retries: the order of the queue alone starts the modem before it is     *)
(* used, and the token of phy_layer_sem is never lost.                     *)
(***************************************************************************)
EXTENDS Startup, DataLemmas, FiniteSetTheorems

\* Nothing comes before the two operations of start_modem: they are
\* PRIORITY_CRITICAL, the highest, and no button is pressed before main is done.
StartComesFirst ==
    /\ ~Impatient
    /\ Priority[capability_get] = Priority[init]
    /\ Priority[init] # Queue!PRIORITY_PERMANENT
    /\ \A op \in Ops : Priority[op] <= Priority[init]

\* The modem reports no error but that an operation came too late, and users put
\* operations whose callbacks give the token.
EveryOpGives ==
    /\ "failed" \notin Outcomes
    /\ \A op \in Users : Fn[op] \notin {"PLACEHOLDER", "LINK_CONFIG", "RX_STOP"}

-----------------------------------------------------------------------------
(***************************************************************************)
(* The inductive invariant of start-up                                     *)
(***************************************************************************)

\* The operations that are put, by main, the buttons and users.
PutOps == {capability_get, init, scan, message} \cup Users

OnlyPut ==
    /\ accepted \in Seq(PutOps) /\ pending \in Seq(PutOps)
    /\ modem \in Seq([op : PutOps, half : Halves, heard : BOOLEAN])
    /\ {local_node, current_node} \subseteq PutOps \cup {NoOp}
    /\ phy_layer_sem \in 0 .. 1

\* What main has still to put to start the modem.
Due ==
    IF main_pc \in {"scan", "done"} THEN <<>>
    ELSE IF main_pc = "init" THEN <<init>> ELSE <<capability_get, init>>

\* op is the i-th operation to be picked, if nothing is put before it.
Nth(i, op) ==
    LET filed  == Len(pending)
        waits  == filed + Len(accepted)
    IN  \/ i <= filed /\ pending[i] = op
        \/ filed < i /\ i <= waits /\ accepted[i - filed] = op
        \/ waits < i /\ i <= waits + Len(Due) /\ Due[i - waits] = op

\* The exec thread waits, and the modem and the timer have nothing to do.
AtRest ==
    /\ modem = <<>> /\ ~failed_timer
    /\ exec_pc = "phy" \/ (exec_pc = "item" /\ phy_layer_sem = 0)

\* The exec thread, or the modem, is at op and nothing else.  The modem may have
\* refused it or failed: then the semaphore is not given again.
Serves(op) ==
    /\ phy_layer_sem = 0 /\ ~failed_timer
    /\ \/ exec_pc \in {"reset", "save", "execute"} /\ local_node = op /\ modem = <<>>
       \/ /\ exec_pc = "phy"
          /\ modem = <<>> \/ (Len(modem) = 1 /\ modem[1].op = op)

\* The modem is started in five phases.
StartPhase ==
    \/ AtRest /\ Nth(1, capability_get) /\ Nth(2, init)
    \/ Serves(capability_get) /\ Nth(1, init)
    \/ capabilities /\ AtRest /\ Nth(1, init)
    \/ capabilities /\ Serves(init)
    \/ capabilities /\ ready

\* The exec thread and the timer have an operation to execute.
HasNode ==
    /\ local_node # NoOp <=> exec_pc \in {"reset", "save", "execute"}
    /\ exec_pc = "execute" => current_node = local_node
    /\ modem # <<>> \/ failed_timer => current_node # NoOp

StartInv == OnlyPut /\ HasNode /\ StartPhase

-----------------------------------------------------------------------------
(***************************************************************************)
(* The inductive invariant of the token                                    *)
(***************************************************************************)

\* Before main puts anything nothing moves, and afterwards the library has its
\* callbacks.
NothingPutYet ==
    IF main_pc \in {"init", "scan", "done"} THEN library = "callbacks"
    ELSE /\ AtRest /\ accepted = <<>> /\ pending = <<>>
         /\ main_pc = "capability" => library = "callbacks"

\* The modem will give the token for this operation.
Gives(activity) ==
    /\ Fn[activity.op] # "RX_STOP"
    /\ Fn[activity.op] = "RSSI" => ~activity.heard

\* Who has the token when the modem has not.
HeldOutside == phy_layer_sem = 1 \/ exec_pc # "phy" \/ failed_timer

\* Somebody has the token, and when op_complete_cb would take the end of a
\* reception for a switch the token is not with that reception alone.
TokenHeld ==
    /\ HeldOutside \/ \E i \in 1 .. Len(modem) : Gives(modem[i])
    /\ current_state = "TRANSMITTING" =>
          \/ HeldOutside
          \/ \E i \in 1 .. Len(modem) : Gives(modem[i]) /\ modem[i].half # "rx"

\* A TX_RX is always in one of its halves.
HalvesKnown ==
    \A i \in 1 .. Len(modem) : Fn[modem[i].op] = "TX_RX" => modem[i].half # "whole"

TokenInv == StartInv /\ NothingPutYet /\ HalvesKnown /\ TokenHeld

-----------------------------------------------------------------------------
(***************************************************************************)
(* The order of the queue                                                  *)
(***************************************************************************)

\* What the assumptions say of the operations that are put.
LEMMA PutOpsKnown ==
    /\ PutOps \subseteq Ops /\ NoOp \notin PutOps
    /\ {reply, placeholder} \cap PutOps = {}
    /\ capability_get # init
    /\ Fn[capability_get] = "CAPABILITY_GET" /\ Fn[init] = "CAPABILITY_GET"
<1>1. {capability_get, init, scan, message} \subseteq Ops
  BY StartupAssumption
<1>2. Users \subseteq Ops /\ {reply, placeholder} \cap Users = {} /\ NoOp \notin Ops
  BY HandlerAssumption
<1>3. /\ Fn[reply] = "TX_HARQ" /\ Fn[placeholder] = "PLACEHOLDER"
      /\ Fn[scan] = "RX" /\ Fn[message] = "TX_RX"
  BY HandlerAssumption, StartupAssumption
<1>4. Fn[capability_get] = "CAPABILITY_GET" /\ Fn[init] = "CAPABILITY_GET"
  <2>1. {Fn[capability_get], Fn[init]} = {"CAPABILITY_GET"}
    BY StartupAssumption
  <2> QED
    BY <2>1
<1>5. capability_get # init
  <2>1. SUFFICES ASSUME capability_get = init PROVE FALSE
    OBVIOUS
  <2>2. {capability_get, init, scan, message} = {init, scan, message}
    BY <2>1
  <2>3. Cardinality({init, scan, message}) = 4
    BY <2>2, StartupAssumption
  <2>4. /\ IsFiniteSet({init}) /\ Cardinality({init}) = 1
    BY FS_Singleton
  <2>5. /\ IsFiniteSet({init} \cup {scan})
        /\ Cardinality({init} \cup {scan}) <= 2
    BY <2>4, FS_AddElement
  <2>6. Cardinality(({init} \cup {scan}) \cup {message}) <= 3
    <3> DEFINE S == {init} \cup {scan}
    <3>1. Cardinality(S) \in Nat /\ IsFiniteSet(S) /\ Cardinality(S) <= 2
      BY <2>5, FS_CardinalityType
    <3> HIDE DEF S
    <3>2. Cardinality(S \cup {message}) <= 3
      BY <3>1, FS_AddElement
    <3> QED
      BY <3>2 DEF S
  <2>7. ({init} \cup {scan}) \cup {message} = {init, scan, message}
    OBVIOUS
  <2> QED
    BY <2>3, <2>6, <2>7
<1> QED
  BY <1>1, <1>2, <1>3, <1>4, <1>5 DEF PutOps

\* An operation that is put, by main when it is due or by others when nothing is
\* due, comes behind what was to be picked before.
LEMMA PutKeepsOrder ==
    ASSUME OnlyPut, NEW op \in PutOps, Put(op),
           NEW i \in 1 .. 2, NEW x, Nth(i, x),
           \/ Due = <<>> /\ Due' = <<>>
           \/ Due = <<capability_get, init>> /\ Due' = <<init>> /\ op = capability_get
           \/ Due = <<init>> /\ Due' = <<>> /\ op = init
    PROVE  Nth(i, x)' /\ OnlyPut'
<1>1. /\ accepted' = Append(accepted, op)
      /\ UNCHANGED <<pending, modem, local_node, current_node, phy_layer_sem>>
  BY DEF Put, execVars, retryVars
<1>2. /\ accepted \in Seq(PutOps) /\ Len(accepted) \in Nat
      /\ pending \in Seq(PutOps) /\ Len(pending) \in Nat
  BY LenProperties DEF OnlyPut
<1>3. /\ accepted' \in Seq(PutOps)
      /\ Len(accepted') = Len(accepted) + 1
      /\ \A j \in 1 .. Len(accepted) : accepted'[j] = accepted[j]
      /\ accepted'[Len(accepted) + 1] = op
  BY <1>1, <1>2, AppendProperties
<1>4. OnlyPut'
  BY <1>1, <1>3 DEF OnlyPut
<1>5. Nth(i, x)'
  <2> DEFINE filed == Len(pending)
             waits == filed + Len(accepted)
  <2>1. waits \in Nat /\ filed \in Nat
    BY <1>2
  <2>2. CASE i <= filed /\ pending[i] = x
    BY <1>1, <2>2 DEF Nth
  <2>3. CASE filed < i /\ i <= waits /\ accepted[i - filed] = x
    <3>1. i - filed \in 1 .. Len(accepted)
      BY <1>2, <2>3
    <3> QED
      BY <1>1, <1>2, <1>3, <2>3, <3>1 DEF Nth
  <2>4. CASE waits < i /\ i <= waits + Len(Due) /\ Due[i - waits] = x
    <3>1. CASE i = waits + 1
      <4>1. op = x
        BY <2>1, <2>4, <3>1
      <4>2. i - filed = Len(accepted) + 1 /\ filed < i
        BY <1>2, <3>1
      <4> QED
        BY <1>1, <1>2, <1>3, <3>1, <4>1, <4>2 DEF Nth
    <3>2. CASE i # waits + 1
      <4>1. waits = 0 /\ i = 2 /\ Due = <<capability_get, init>>
        BY <2>1, <2>4, <3>2
      <4>2. /\ Len(pending)' = 0 /\ Len(accepted)' = 1
            /\ x = init /\ Due' = <<init>>
        BY <1>1, <1>2, <1>3, <2>4, <4>1
      <4> QED
        BY <4>1, <4>2 DEF Nth
    <3> QED
      BY <3>1, <3>2
  <2> QED
    BY <2>2, <2>3, <2>4 DEF Nth
<1> QED
  BY <1>4, <1>5

\* Filing an operation leaves those that are first where they are, when none is
\* more urgent.
LEMMA FileKeepsOrder ==
    ASSUME StartComesFirst, OnlyPut, File, UNCHANGED Due,
           NEW i \in 1 .. 2, NEW x,
           \A j \in 1 .. i : \E op \in {capability_get, init} : Nth(j, op),
           Nth(i, x)
    PROVE  Nth(i, x)'
<1> DEFINE n == Len(pending)
           op == Head(accepted)
<1>1. /\ accepted \in Seq(PutOps) /\ Len(accepted) \in Nat /\ accepted # <<>>
      /\ pending \in Seq(PutOps) /\ n \in Nat
      /\ accepted' = Tail(accepted) /\ Queue!Filed(pending, op, pending')
  BY LenProperties DEF OnlyPut, File
<1>2. /\ op \in PutOps /\ op = accepted[1] /\ Len(accepted) >= 1
      /\ Tail(accepted) \in Seq(PutOps)
      /\ Len(accepted') = Len(accepted) - 1
      /\ \A j \in 1 .. Len(accepted) - 1 : accepted'[j] = accepted[j + 1]
  BY <1>1, HeadTailProperties, EmptySeq
<1>3. PICK k \in 1 .. n + 1 :
         /\ \A j \in 1 .. n : (j < k) <=> (Priority[pending[j]] >= Priority[op])
         /\ pending' = Queue!InsertAt(pending, k, op)
  BY <1>1 DEF Queue!Filed
<1>4. /\ pending' \in Seq(PutOps) /\ Len(pending') = n + 1
      /\ \A j \in 1 .. n + 1 : j < k => pending'[j] = pending[j]
      /\ pending'[k] = op
  <2>1. pending' = InsertAt(pending, k, op)
    BY <1>3 DEF InsertAt, Queue!InsertAt
  <2>2. pending \in Seq(PutOps) /\ op \in PutOps /\ k \in 1 .. Len(pending) + 1
    BY <1>1, <1>2
  <2>3. ASSUME NEW s \in Seq(PutOps), NEW e \in PutOps, NEW m \in 1 .. Len(s) + 1
        PROVE  /\ InsertAt(s, m, e) \in Seq(PutOps)
               /\ Len(InsertAt(s, m, e)) = Len(s) + 1
               /\ \A j \in 1 .. Len(s) + 1 : j < m => InsertAt(s, m, e)[j] = s[j]
               /\ InsertAt(s, m, e)[m] = e
    BY InsertAtProperties
  <2> HIDE DEF op
  <2>4. /\ InsertAt(pending, k, op) \in Seq(PutOps)
        /\ Len(InsertAt(pending, k, op)) = n + 1
        /\ \A j \in 1 .. n + 1 : j < k => InsertAt(pending, k, op)[j] = pending[j]
        /\ InsertAt(pending, k, op)[k] = op
    BY <2>2, <2>3
  <2> QED
    BY <2>1, <2>4
<1>5. ASSUME NEW j \in 1 .. n, j <= i PROVE j < k /\ pending'[j] = pending[j]
  <2>1. pending[j] \in {capability_get, init}
    BY <1>1, <1>5 DEF Nth
  <2>2. Priority[pending[j]] >= Priority[op]
    <3>1. op \in Ops
      BY <1>2, PutOpsKnown
    <3>2. Priority[pending[j]] = Priority[init] /\ Priority[op] <= Priority[init]
      BY <2>1, <3>1 DEF StartComesFirst
    <3>3. Priority[op] \in Nat /\ Priority[init] \in Nat
      BY <3>1, HandlerAssumption, StartupAssumption
    <3> HIDE DEF op
    <3> QED
      BY <3>2, <3>3
  <2> QED
    BY <1>1, <1>3, <1>4, <2>2
<1> DEFINE waits == n + Len(accepted)
<1>6. /\ Len(pending)' = n + 1 /\ Len(accepted)' = Len(accepted) - 1
      /\ Len(pending)' + Len(accepted)' = waits
      /\ waits \in Nat
  BY <1>1, <1>2, <1>4
<1>7. CASE i <= n /\ pending[i] = x
  BY <1>1, <1>5, <1>6, <1>7 DEF Nth
<1>8. CASE n < i /\ i <= waits /\ accepted[i - n] = x
  <2>1. CASE i = n + 1
    <3>1. k = n + 1
      <4>1. CASE n = 0
        BY <1>3, <4>1
      <4>2. CASE n # 0
        <5>1. n \in 1 .. n /\ n <= i
          BY <1>1, <2>1, <4>2
        <5>2. n < k
          BY <1>5, <5>1
        <5> QED
          BY <1>1, <1>3, <5>2
      <4> QED
        BY <4>1, <4>2
    <3>2. x = op /\ pending'[i] = op
      BY <1>1, <1>2, <1>4, <1>8, <2>1, <3>1
    <3> QED
      BY <1>6, <2>1, <3>2 DEF Nth
  <2>2. CASE i # n + 1
    <3>1. /\ n + 1 < i /\ i <= waits
          /\ accepted'[i - (n + 1)] = x
      BY <1>1, <1>2, <1>8, <2>2
    <3> QED
      BY <1>6, <3>1 DEF Nth
  <2> QED
    BY <2>1, <2>2
<1>9. CASE waits < i /\ i <= waits + Len(Due) /\ Due[i - waits] = x
  BY <1>6, <1>9 DEF Nth
<1> QED
  BY <1>7, <1>8, <1>9 DEF Nth

\* Picking takes the first operation, and the second becomes the first.
LEMMA PickTakesFirst ==
    ASSUME OnlyPut, Pick, UNCHANGED Due, NEW x, Nth(1, x), ~IsPermanent(x)
    PROVE  /\ local_node' = x /\ OnlyPut'
           /\ \A y : Nth(2, y) => Nth(1, y)'
<1>1. /\ pending \in Seq(PutOps) /\ Len(pending) \in Nat /\ pending # <<>>
      /\ Len(pending) >= 1 /\ Len(accepted) \in Nat
  BY LenProperties, EmptySeq DEF OnlyPut, Pick
<1>2. /\ Head(pending) = pending[1] /\ Head(pending) \in PutOps
      /\ Tail(pending) \in Seq(PutOps)
      /\ Len(Tail(pending)) = Len(pending) - 1
      /\ \A j \in 1 .. Len(pending) - 1 : Tail(pending)[j] = pending[j + 1]
  BY <1>1, HeadTailProperties
<1>3. Head(pending) = x
  BY <1>1, <1>2 DEF Nth
<1>4. /\ local_node' = x /\ pending' = Tail(pending)
      /\ UNCHANGED <<accepted, modem, current_node, phy_layer_sem>>
  BY <1>3 DEF Pick, retryVars
<1>5. OnlyPut'
  BY <1>2, <1>3, <1>4 DEF OnlyPut
<1>6. ASSUME NEW y, Nth(2, y) PROVE Nth(1, y)'
  <2> DEFINE n == Len(pending)
             waits == n + Len(accepted)
  <2>1. Len(pending)' = n - 1 /\ Len(accepted)' = Len(accepted) /\ n \in Nat
    BY <1>1, <1>2, <1>4
  <2>2. CASE 2 <= n /\ pending[2] = y
    BY <1>1, <1>2, <1>4, <2>1, <2>2 DEF Nth
  <2>3. CASE n < 2 /\ 2 <= waits /\ accepted[2 - n] = y
    BY <1>1, <1>4, <2>1, <2>3 DEF Nth
  <2>4. CASE waits < 2 /\ 2 <= waits + Len(Due) /\ Due[2 - waits] = y
    BY <1>1, <1>4, <2>1, <2>4 DEF Nth
  <2> QED
    BY <1>6, <2>2, <2>3, <2>4 DEF Nth
<1> QED
  BY <1>4, <1>5, <1>6

-----------------------------------------------------------------------------
(***************************************************************************)
(* What the steps do                                                       *)
(***************************************************************************)

\* What main does before it puts anything.
Prepares ==
    /\ UNCHANGED <<vars, ready, capabilities>>
    /\ main_pc \in {"buttons", "leds", "library", "callbacks"}
    /\ main_pc' \in {"leds", "library", "callbacks", "capability", "failed"}
    /\ main_pc' = "capability" => library' = "callbacks"

\* What main, the buttons and users put, and when.
Puts(op) ==
    /\ Put(op)
    /\ UNCHANGED <<library, ready, capabilities>>
    /\ \/ op = capability_get /\ main_pc = "capability" /\ main_pc' = "init"
       \/ op = init /\ main_pc = "init" /\ main_pc' = "scan"
       \/ op = scan /\ main_pc = "scan" /\ main_pc' = "done"
       \/ main_pc = "done" /\ main_pc' = "done"

\* The steps of start-up, when no button is pressed before main is done.
LEMMA StepCases ==
    ASSUME ~Impatient, [StartupNext]_allVars
    PROVE  \/ Prepares
           \/ \E op \in PutOps : Puts(op)
           \/ StopRx /\ UNCHANGED <<main_pc, library, ready, capabilities>>
           \/ (Threads \/ Timer) /\ UNCHANGED startVars
           \/ Callbacks /\ UNCHANGED <<main_pc, library>>
           \/ UNCHANGED <<vars, main_pc, library, ready, capabilities>>
<1>1. CASE Main
  <2>1. CASE \/ InitInputs("buttons", "leds") \/ InitInputs("leds", "library")
             \/ Bring("library", "on", "callbacks")
             \/ Bring("callbacks", "callbacks", "capability")
    <3>1. Prepares
      BY <2>1 DEF InitInputs, Bring, MainTo, Prepares
    <3> QED
      BY <3>1
  <2>2. CASE \/ MainPuts("capability", capability_get, "init")
             \/ MainPuts("init", init, "scan") \/ MainPuts("scan", scan, "done")
    <3>1. Puts(capability_get) \/ Puts(init) \/ Puts(scan)
      BY <2>2 DEF MainPuts, MainTo, Puts
    <3> QED
      BY <3>1 DEF PutOps
  <2> QED
    BY <1>1, <2>1, <2>2 DEF Main
<1>2. CASE PressTransmits
  <2>1. CASE Put(message)
    <3>1. Puts(message)
      BY <1>2, <2>1 DEF PressTransmits, PressesNow, Puts
    <3> QED
      BY <3>1 DEF PutOps
  <2>2. CASE UNCHANGED vars
    BY <1>2, <2>2 DEF PressTransmits
  <2> QED
    BY <1>2, <2>1, <2>2 DEF PressTransmits
<1>3. CASE PressStops
  BY <1>3 DEF PressStops
<1>4. CASE UserPuts
  <2>1. PICK op \in Users : Puts(op)
    BY <1>4 DEF UserPuts, Puts
  <2> QED
    BY <2>1 DEF PutOps
<1>5. CASE Threads \/ Timer
  BY <1>5 DEF Threads, Timer
<1>6. CASE Callbacks
  BY <1>6 DEF Callbacks, Callback, StartAnswered, startVars
<1>7. CASE UNCHANGED allVars
  BY <1>7 DEF allVars, startVars
<1> QED
  BY <1>1, <1>2, <1>3, <1>4, <1>5, <1>6, <1>7 DEF StartupNext

\* function_execute starts an operation that was put, or nothing.
LEMMA ExecuteStarts ==
    ASSUME OnlyPut, NEW op \in PutOps, FunctionExecute(op)
    PROVE  /\ modem' \in Seq([op : PutOps, half : Halves, heard : BOOLEAN])
           /\ \/ modem' = modem
              \/ /\ Len(modem') = Len(modem) + 1
                 /\ modem'[Len(modem) + 1] = Started(op)
                 /\ \A i \in 1 .. Len(modem) : modem'[i] = modem[i]
<1> DEFINE S == [op : PutOps, half : Halves, heard : BOOLEAN]
           e == Started(op)
<1>1. e \in S
  BY DEF Started, Halves
<1>2. modem \in Seq(S)
  BY DEF OnlyPut
<1>3. modem' = modem \/ modem' = Append(modem, e)
  BY DEF FunctionExecute
<1> HIDE DEF S, e
<1>4. /\ Append(modem, e) \in Seq(S)
      /\ Len(Append(modem, e)) = Len(modem) + 1
      /\ Append(modem, e)[Len(modem) + 1] = e
      /\ \A i \in 1 .. Len(modem) : Append(modem, e)[i] = modem[i]
  BY <1>1, <1>2, AppendProperties
<1> QED
  BY <1>2, <1>3, <1>4 DEF S, e

\* A callback marks an operation, or takes it out of the modem.
Marks(i) ==
    /\ Len(modem') = Len(modem)
    /\ \A j \in 1 .. Len(modem) : j # i => modem'[j] = modem[j]
    /\ modem'[i].op = modem[i].op /\ modem'[i].half \in {modem[i].half, "rx"}

Removes(i) ==
    /\ Len(modem') = Len(modem) - 1
    /\ \A j \in 1 .. Len(modem) - 1 :
          modem'[j] = IF j < i THEN modem[j] ELSE modem[j + 1]

\* What the callbacks leave alone.
LEMMA CallbackKeeps ==
    ASSUME OnlyPut, NEW i \in 1 .. Len(modem), Callback(i)
    PROVE  /\ modem' \in Seq([op : PutOps, half : Halves, heard : BOOLEAN])
           /\ UNCHANGED <<accepted, pending, exec_pc, local_node, current_node>>
           /\ phy_layer_sem' \in {phy_layer_sem, 1}
           /\ Marks(i) \/ Removes(i)
<1> USE DEF queueVars, execVars, retryVars, PhySemGive
<1> DEFINE S == [op : PutOps, half : Halves, heard : BOOLEAN]
           e == modem[i]
<1>1. modem \in Seq(S) /\ e \in S /\ Len(modem) \in Nat
  BY ElementOfSeq, LenProperties DEF OnlyPut
<1>2. \/ modem' = RemoveAt(modem, i)
      \/ modem' = [modem EXCEPT ![i].half = "rx"]
      \/ modem' = [modem EXCEPT ![i].heard = TRUE]
  BY DEF Callback, StartAnswered, SwitchToRx, OpComplete, Late, Failed,
         CapabilityGot, RssiReport, RxStopped
<1>3. /\ UNCHANGED <<accepted, pending, exec_pc, local_node, current_node>>
      /\ phy_layer_sem' \in {phy_layer_sem, 1}
  BY DEF Callback, StartAnswered, SwitchToRx, OpComplete, Late, Failed,
         CapabilityGot, RssiReport, RxStopped
<1>4. CASE modem' = RemoveAt(modem, i)
  <2>1. modem' \in Seq(S) /\ Removes(i)
    <3> HIDE DEF S
    <3> QED
      BY <1>1, <1>4, RemoveAtProperties DEF Removes
  <2> QED
    BY <1>3, <2>1
<1>5. CASE \/ modem' = [modem EXCEPT ![i].half = "rx"]
           \/ modem' = [modem EXCEPT ![i].heard = TRUE]
  <2> DEFINE v == modem'[i]
  <2>1. v \in S /\ v.op = modem[i].op /\ v.half \in {modem[i].half, "rx"}
    <3>1. v = [e EXCEPT !.half = "rx"] \/ v = [e EXCEPT !.heard = TRUE]
      <4>1. i \in DOMAIN modem
        BY <1>1, LenProperties
      <4>2. CASE modem' = [modem EXCEPT ![i].half = "rx"]
        BY <4>1, <4>2, Zenon
      <4>3. CASE modem' = [modem EXCEPT ![i].heard = TRUE]
        BY <4>1, <4>3, Zenon
      <4> QED
        BY <1>5, <4>2, <4>3
    <3>2. "rx" \in Halves
      BY DEF Halves
    <3> HIDE DEF v, e
    <3>3. v \in S /\ v.op = e.op /\ v.half \in {e.half, "rx"}
      BY <1>1, <3>1, <3>2
    <3> QED
      BY <3>3 DEF e
  <2>2. modem' = [modem EXCEPT ![i] = v]
    BY <1>1, <1>5
  <2> HIDE DEF S, v
  <2>3. /\ modem' \in Seq(S) /\ Len(modem') = Len(modem)
        /\ \A j \in 1 .. Len(modem) : j # i => modem'[j] = modem[j]
    BY <1>1, <2>1, <2>2, ExceptSeq
  <2> QED
    BY <1>3, <2>1, <2>3 DEF Marks, S, v
<1> QED
  BY <1>2, <1>4, <1>5

\* A thread, or the timer, takes one step.
LEMMA ThreadCases ==
    ASSUME Threads \/ Timer
    PROVE  File \/ TakePhy \/ Pick \/ ResetCounter \/ SaveNode \/ Execute \/ TimerExpires
BY DEF Threads, Timer

\* Whatever happens, only what is put is on its way or in the modem, and who
\* executes an operation has one.
LEMMA HasNodeStep ==
    ASSUME OnlyPut, HasNode, ~Impatient, [StartupNext]_allVars
    PROVE  OnlyPut' /\ HasNode'
<1> USE DEF queueVars, execVars, retryVars, ExecTo
<1>0. NoOp \notin PutOps
  BY PutOpsKnown
<1>1. CASE Prepares \/ UNCHANGED <<vars, main_pc, library, ready, capabilities>>
  BY <1>1 DEF Prepares, allVars, vars, OnlyPut, HasNode
<1>2. ASSUME NEW op \in PutOps, Puts(op) PROVE OnlyPut' /\ HasNode'
  <2>1. /\ accepted' = Append(accepted, op)
        /\ UNCHANGED <<pending, exec_pc, local_node, phy_layer_sem, current_node,
                       failed_timer, modem>>
    BY <1>2 DEF Puts, Put
  <2>2. accepted' \in Seq(PutOps)
    BY <2>1, AppendProperties DEF OnlyPut
  <2> QED
    BY <2>1, <2>2 DEF OnlyPut, HasNode
<1>3. CASE StopRx
  BY <1>3 DEF StopRx, OnlyPut, HasNode
<1>4. CASE File
  <2>1. /\ accepted # <<>> /\ accepted' = Tail(accepted)
        /\ Queue!Filed(pending, Head(accepted), pending')
        /\ UNCHANGED <<exec_pc, local_node, phy_layer_sem, current_node,
                       failed_timer, modem>>
    BY <1>4 DEF File
  <2>2. accepted \in Seq(PutOps) /\ pending \in Seq(PutOps)
    BY DEF OnlyPut
  <2>3. Head(accepted) \in PutOps /\ Tail(accepted) \in Seq(PutOps)
    BY <2>1, <2>2, HeadTailProperties
  <2>4. PICK k \in 1 .. Len(pending) + 1 :
           pending' = Queue!InsertAt(pending, k, Head(accepted))
    BY <2>1 DEF Queue!Filed
  <2>5. pending' = InsertAt(pending, k, Head(accepted))
    BY <2>4 DEF InsertAt, Queue!InsertAt
  <2>6. pending' \in Seq(PutOps)
    BY <2>2, <2>3, <2>5, InsertAtProperties
  <2> QED
    BY <2>1, <2>3, <2>6 DEF OnlyPut, HasNode
<1>5. CASE TakePhy
  BY <1>5 DEF TakePhy, OnlyPut, HasNode
<1>6. CASE Pick
  <2>1. /\ pending # <<>> /\ local_node' = Head(pending)
        /\ exec_pc' = "reset"
        /\ pending' \in {Tail(pending), Append(Tail(pending), Head(pending))}
        /\ UNCHANGED <<accepted, phy_layer_sem, current_node, failed_timer, modem>>
    BY <1>6 DEF Pick
  <2>2. Head(pending) \in PutOps /\ Tail(pending) \in Seq(PutOps)
    BY <2>1, HeadTailProperties DEF OnlyPut
  <2>3. pending' \in Seq(PutOps)
    <3>1. Append(Tail(pending), Head(pending)) \in Seq(PutOps)
      BY <2>2, AppendProperties, Zenon
    <3> QED
      BY <2>1, <2>2, <3>1, Zenon
  <2> QED
    BY <1>0, <2>1, <2>2, <2>3 DEF OnlyPut, HasNode
<1>7. CASE ResetCounter
  BY <1>7 DEF ResetCounter, OnlyPut, HasNode
<1>8. CASE SaveNode
  BY <1>8 DEF SaveNode, OnlyPut, HasNode
<1>9. CASE Execute
  <2>1. local_node \in PutOps /\ current_node = local_node
    BY <1>9 DEF Execute, HasNode, OnlyPut
  <2>2. modem' \in Seq([op : PutOps, half : Halves, heard : BOOLEAN])
    BY <1>9, <2>1, ExecuteStarts DEF Execute
  <2> QED
    BY <1>0, <1>9, <2>1, <2>2 DEF Execute, OnlyPut, HasNode
<1>10. CASE TimerExpires
  <2>1. current_node \in PutOps
    BY <1>10 DEF TimerExpires, HasNode, OnlyPut
  <2>2. modem' \in Seq([op : PutOps, half : Halves, heard : BOOLEAN])
    BY <1>10, <2>1, ExecuteStarts DEF TimerExpires
  <2> QED
    BY <1>0, <1>10, <2>1, <2>2 DEF TimerExpires, OnlyPut, HasNode
<1>11. CASE Callbacks
  <2>1. PICK i \in 1 .. Len(modem) : Callback(i)
    BY <1>11 DEF Callbacks
  <2>2. /\ modem' \in Seq([op : PutOps, half : Halves, heard : BOOLEAN])
        /\ UNCHANGED <<accepted, pending, exec_pc, local_node, current_node>>
        /\ phy_layer_sem' \in {phy_layer_sem, 1}
    BY <2>1, CallbackKeeps
  <2>3. modem # <<>>
    BY <2>1, EmptySeq
  <2> QED
    BY <2>2, <2>3 DEF OnlyPut, HasNode
<1> QED
  BY <1>1, <1>2, <1>3, <1>4, <1>5, <1>6, <1>7, <1>8, <1>9, <1>10, <1>11,
     StepCases, ThreadCases

-----------------------------------------------------------------------------
(***************************************************************************)
(* The modem is started before it is used                                  *)
(***************************************************************************)

\* While the modem has nothing but an operation of start-up, no callback gives
\* the token but the one that ends it, which tells that it is done.
LEMMA StartAnswer ==
    ASSUME OnlyPut, NEW op \in {capability_get, init}, Serves(op),
           NEW i \in 1 .. Len(modem), Callback(i)
    PROVE  \/ Serves(op)' /\ UNCHANGED <<capabilities, ready>>
           \/ /\ AtRest'
              /\ capabilities' = (capabilities \/ op = capability_get)
              /\ ready' = (ready \/ op = init)
<1> USE DEF queueVars, execVars, retryVars
<1>1. Len(modem) = 1 /\ i = 1 /\ modem[1].op = op
      /\ exec_pc = "phy" /\ phy_layer_sem = 0 /\ ~failed_timer
  <2>1. CASE modem = <<>>
    <3>1. i \in 1 .. 0
      BY <2>1, EmptySeq
    <3> QED
      BY <3>1
  <2>2. CASE modem # <<>>
    <3>1. /\ Len(modem) = 1 /\ modem[1].op = op
          /\ exec_pc = "phy" /\ phy_layer_sem = 0 /\ ~failed_timer
      BY <2>2 DEF Serves
    <3>2. i \in 1 .. 1
      BY <3>1
    <3> QED
      BY <3>1, <3>2
  <2> QED
    BY <2>1, <2>2
<1>2. Fn[modem[i].op] = "CAPABILITY_GET"
  BY <1>1, PutOpsKnown
<1>3. modem \in Seq([op : PutOps, half : Halves, heard : BOOLEAN])
  BY DEF OnlyPut
<1>4. RemoveAt(modem, i) = <<>>
  BY <1>1, <1>3, RemoveOnly
<1>5. CASE StartAnswered(i)
  BY <1>1, <1>4, <1>5 DEF StartAnswered, CapabilityGot, AtRest
<1>6. CASE Failed(i) /\ UNCHANGED startVars
  BY <1>1, <1>4, <1>6 DEF Failed, startVars, Serves
<1>7. ~(SwitchToRx(i) \/ OpComplete(i) \/ Late(i) \/ RssiReport(i) \/ RxStopped(i))
  BY <1>2 DEF SwitchToRx, OpComplete, Late, RssiReport, RxStopped, Completes
<1> QED
  BY <1>5, <1>6, <1>7 DEF Callback

\* What waits to be picked is the same when nothing is put, filed or picked.
LEMMA OrderUnchanged ==
    ASSUME UNCHANGED <<accepted, pending, Due>>, NEW i, NEW x, Nth(i, x)
    PROVE  Nth(i, x)'
BY DEF Nth

\* main has what it puts behind it, and nothing else is put before main is done.
LEMMA PutInOrder ==
    ASSUME OnlyPut, NEW op \in PutOps, Puts(op), NEW i \in 1 .. 2, NEW x, Nth(i, x)
    PROVE  Nth(i, x)'
<1>1. \/ Due = <<>> /\ Due' = <<>>
      \/ Due = <<capability_get, init>> /\ Due' = <<init>> /\ op = capability_get
      \/ Due = <<init>> /\ Due' = <<>> /\ op = init
  BY DEF Puts, Due
<1> QED
  BY <1>1, PutKeepsOrder DEF Puts

\* The steps of the thread and the timer while the modem is being started.
LEMMA PhaseOfThreads ==
    ASSUME StartComesFirst, StartInv, Threads \/ Timer, UNCHANGED startVars
    PROVE  StartPhase'
<1> USE DEF queueVars, execVars, retryVars, ExecTo
<1>0. /\ OnlyPut /\ HasNode /\ UNCHANGED <<Due, capabilities, ready>>
      /\ capability_get \in PutOps /\ init \in PutOps
  BY DEF StartInv, startVars, Due, PutOps
<1>1. CASE File
  <2>1. UNCHANGED <<exec_pc, local_node, phy_layer_sem, failed_timer, modem>>
    BY <1>1 DEF File
  <2>2. /\ AtRest => AtRest'
        /\ \A op : Serves(op) => Serves(op)'
    BY <2>1 DEF AtRest, Serves
  <2>3. ASSUME Nth(1, capability_get), Nth(2, init)
        PROVE  Nth(1, capability_get)' /\ Nth(2, init)'
    <3>1. \A j \in 1 .. 1 : \E op \in {capability_get, init} : Nth(j, op)
      BY <2>3
    <3>2. \A j \in 1 .. 2 : \E op \in {capability_get, init} : Nth(j, op)
      BY <2>3
    <3>3. Nth(1, capability_get)'
      BY <1>0, <1>1, <2>3, <3>1, FileKeepsOrder
    <3>4. Nth(2, init)'
      BY <1>0, <1>1, <2>3, <3>2, FileKeepsOrder
    <3> QED
      BY <3>3, <3>4
  <2>4. ASSUME Nth(1, init) PROVE Nth(1, init)'
    <3>1. \A j \in 1 .. 1 : \E op \in {capability_get, init} : Nth(j, op)
      BY <2>4
    <3> QED
      BY <1>0, <1>1, <2>4, <3>1, FileKeepsOrder
  <2> QED
    BY <1>0, <2>2, <2>3, <2>4 DEF StartInv, StartPhase
<1>2. CASE TakePhy
  <2>1. /\ UNCHANGED <<accepted, pending, failed_timer, modem>>
        /\ exec_pc = "phy" /\ phy_layer_sem = 1
        /\ exec_pc' = "item" /\ phy_layer_sem' = 0
    BY <1>2 DEF TakePhy
  <2>2. AtRest => AtRest'
    BY <2>1 DEF AtRest
  <2>3. \A op : ~Serves(op)
    BY <2>1 DEF Serves
  <2> QED
    BY <1>0, <2>1, <2>2, <2>3, OrderUnchanged DEF StartInv, StartPhase
<1>3. CASE Pick
  <2>1. /\ exec_pc = "item" /\ exec_pc' = "reset"
        /\ UNCHANGED <<phy_layer_sem, failed_timer, modem>>
    BY <1>3 DEF Pick
  <2>2. \A op : ~Serves(op)
    BY <2>1 DEF Serves
  <2>3. ASSUME NEW op \in {capability_get, init}, AtRest, Nth(1, op)
        PROVE  Serves(op)' /\ \A y : Nth(2, y) => Nth(1, y)'
    <3>1. ~IsPermanent(op)
      BY <2>3 DEF StartComesFirst, IsPermanent, Queue!IsPermanent
    <3>2. local_node' = op /\ \A y : Nth(2, y) => Nth(1, y)'
      BY <1>0, <1>3, <2>3, <3>1, PickTakesFirst
    <3> QED
      BY <2>1, <2>3, <3>2 DEF AtRest, Serves
  <2> QED
    BY <1>0, <2>2, <2>3 DEF StartInv, StartPhase
<1>4. CASE ResetCounter \/ SaveNode
  <2>1. /\ UNCHANGED <<accepted, pending, local_node, phy_layer_sem, failed_timer,
                       modem>>
        /\ exec_pc \in {"reset", "save"} /\ exec_pc' \in {"save", "execute"}
    BY <1>4 DEF ResetCounter, SaveNode
  <2>2. ~AtRest /\ \A op : Serves(op) => Serves(op)'
    BY <2>1 DEF AtRest, Serves
  <2> QED
    BY <1>0, <2>1, <2>2, OrderUnchanged DEF StartInv, StartPhase
<1>5. CASE Execute
  <2>1. /\ UNCHANGED <<accepted, pending, phy_layer_sem, failed_timer>>
        /\ exec_pc = "execute" /\ exec_pc' = "phy"
        /\ FunctionExecute(local_node)
    BY <1>5 DEF Execute
  <2>2. ~AtRest
    BY <2>1 DEF AtRest
  <2>3. ASSUME NEW op \in {capability_get, init}, Serves(op) PROVE Serves(op)'
    <3>1. local_node = op /\ modem = <<>> /\ phy_layer_sem = 0 /\ ~failed_timer
      BY <2>1, <2>3 DEF Serves
    <3>2. \/ modem' = <<>>
          \/ Len(modem') = 1 /\ modem'[1] = Started(op)
      <4>1. Len(modem) = 0
        BY <3>1, EmptySeq
      <4>2. \/ modem' = modem
            \/ /\ Len(modem') = Len(modem) + 1
               /\ modem'[Len(modem) + 1] = Started(op)
        BY <1>0, <2>1, <3>1, ExecuteStarts
      <4> QED
        BY <3>1, <4>1, <4>2
    <3>3. Started(op).op = op
      BY DEF Started
    <3> QED
      BY <2>1, <3>1, <3>2, <3>3 DEF Serves
  <2> QED
    BY <1>0, <2>1, <2>2, <2>3, OrderUnchanged DEF StartInv, StartPhase
<1>6. CASE TimerExpires
  <2>1. failed_timer
    BY <1>6 DEF TimerExpires
  <2>2. ~AtRest /\ \A op : ~Serves(op)
    BY <2>1 DEF AtRest, Serves
  <2> QED
    BY <1>0, <2>2 DEF StartInv, StartPhase
<1> QED
  BY <1>1, <1>2, <1>3, <1>4, <1>5, <1>6, ThreadCases

\* Every step keeps to the phases.
LEMMA PhaseStep ==
    ASSUME StartComesFirst, StartInv, [StartupNext]_allVars
    PROVE  StartPhase'
<1>0. OnlyPut /\ HasNode /\ StartPhase /\ ~Impatient
  BY DEF StartInv, StartComesFirst
<1>1. CASE Prepares \/ UNCHANGED <<vars, main_pc, library, ready, capabilities>>
  <2>1. UNCHANGED <<accepted, pending, exec_pc, local_node, phy_layer_sem,
                    failed_timer, modem, capabilities, ready, Due>>
    BY <1>1 DEF Prepares, allVars, startVars, vars, Due
  <2> QED
    BY <1>0, <2>1, OrderUnchanged DEF StartPhase, AtRest, Serves
<1>2. ASSUME NEW op \in PutOps, Puts(op) PROVE StartPhase'
  <2>1. UNCHANGED <<exec_pc, local_node, phy_layer_sem, failed_timer, modem,
                    capabilities, ready>>
    BY <1>2 DEF Puts, Put, execVars, retryVars
  <2>2. \A i \in 1 .. 2 : \A x : Nth(i, x) => Nth(i, x)'
    BY <1>0, <1>2, PutInOrder
  <2>3. 1 \in 1 .. 2 /\ 2 \in 1 .. 2
    OBVIOUS
  <2> QED
    BY <1>0, <2>1, <2>2, <2>3 DEF StartPhase, AtRest, Serves
<1>3. CASE StopRx /\ UNCHANGED <<main_pc, library, ready, capabilities>>
  <2>1. UNCHANGED <<accepted, pending, exec_pc, local_node, phy_layer_sem,
                    failed_timer, modem, capabilities, ready, Due>>
    BY <1>3 DEF StopRx, queueVars, execVars, retryVars, Due
  <2> QED
    BY <1>0, <2>1, OrderUnchanged DEF StartPhase, AtRest, Serves
<1>4. CASE (Threads \/ Timer) /\ UNCHANGED startVars
  BY <1>4, PhaseOfThreads
<1>5. CASE Callbacks /\ UNCHANGED <<main_pc, library>>
  <2>1. PICK i \in 1 .. Len(modem) : Callback(i)
    BY <1>5 DEF Callbacks
  <2>2. ~AtRest
    BY <2>1, EmptySeq DEF AtRest
  <2>3. UNCHANGED <<accepted, pending, Due>>
    BY <1>0, <1>5, <2>1, CallbackKeeps DEF Due
  <2>4. CASE Serves(capability_get) /\ Nth(1, init)
    BY <1>0, <2>1, <2>3, <2>4, StartAnswer, OrderUnchanged DEF StartPhase
  <2>5. CASE capabilities /\ Serves(init)
    BY <1>0, <2>1, <2>5, StartAnswer DEF StartPhase
  <2>6. CASE capabilities /\ ready
    <3>1. capabilities' /\ ready'
      BY <2>1, <2>6 DEF Callback, StartAnswered, startVars
    <3> QED
      BY <3>1 DEF StartPhase
  <2> QED
    BY <1>0, <2>2, <2>4, <2>5, <2>6 DEF StartPhase
<1> QED
  BY <1>0, <1>1, <1>2, <1>3, <1>4, <1>5, StepCases

\* Before anything but the operations of start_modem is executed INIT is done and
\* the capabilities are known, although nobody waits for them: their priority
\* keeps them first in the queue, and the token keeps the rest from the modem
\* until the callbacks came, whatever else fails.
THEOREM ModemStartedBeforeUsed ==
    ASSUME StartComesFirst
    PROVE  StartupSpec => []StartedBeforeUsed
<1>1. StartupInit => StartInv
  <2> SUFFICES ASSUME StartupInit PROVE StartInv
    OBVIOUS
  <2>1. /\ accepted = <<>> /\ pending = <<>> /\ modem = <<>>
        /\ exec_pc = "phy" /\ local_node = NoOp /\ current_node = NoOp
        /\ phy_layer_sem = 1 /\ ~failed_timer /\ main_pc = "buttons"
    BY DEF StartupInit, Init
  <2>2. OnlyPut /\ HasNode
    BY <2>1, EmptySeq DEF OnlyPut, HasNode
  <2>3. AtRest
    BY <2>1 DEF AtRest
  <2>4. Nth(1, capability_get) /\ Nth(2, init)
    <3>1. Len(accepted) = 0 /\ Len(pending) = 0 /\ Due = <<capability_get, init>>
      BY <2>1, EmptySeq DEF Due
    <3> QED
      BY <3>1 DEF Nth
  <2> QED
    BY <2>2, <2>3, <2>4 DEF StartInv, StartPhase
<1>2. StartInv /\ [StartupNext]_allVars => StartInv'
  BY HasNodeStep, PhaseStep DEF StartInv, StartComesFirst
<1>3. StartInv => StartedBeforeUsed
  BY DEF StartInv, StartPhase, AtRest, Serves, StartedBeforeUsed
<1> QED
  BY <1>1, <1>2, <1>3, PTL DEF StartupSpec

-----------------------------------------------------------------------------
(***************************************************************************)
(* The token is never lost                                                 *)
(***************************************************************************)

\* While main has put nothing nothing happens, and then the library has its
\* callbacks.
LEMMA NothingPutStep ==
    ASSUME StartInv, NothingPutYet, ~Impatient, [StartupNext]_allVars
    PROVE  NothingPutYet'
<1> USE DEF queueVars, execVars, retryVars, ExecTo
<1>1. CASE Prepares
  BY <1>1 DEF Prepares, NothingPutYet, vars, AtRest
<1>2. ASSUME NEW op \in PutOps, Puts(op) PROVE NothingPutYet'
  BY <1>2 DEF Puts, NothingPutYet
<1>3. CASE StopRx /\ UNCHANGED <<main_pc, library, ready, capabilities>>
  BY <1>3 DEF StopRx, NothingPutYet, AtRest
<1>4. CASE (Threads \/ Timer) /\ UNCHANGED startVars
  <2>1. CASE main_pc \in {"init", "scan", "done"}
    BY <1>4, <2>1 DEF NothingPutYet, startVars
  <2>2. CASE main_pc \notin {"init", "scan", "done"}
    <3>1. AtRest /\ accepted = <<>> /\ pending = <<>>
      BY <2>2 DEF NothingPutYet
    <3>2. TakePhy
      BY <1>4, <3>1, ThreadCases
      DEF AtRest, File, Pick, ResetCounter, SaveNode, Execute, TimerExpires
    <3>3. AtRest' /\ UNCHANGED <<accepted, pending, main_pc, library>>
      BY <1>4, <3>1, <3>2 DEF TakePhy, AtRest, startVars
    <3> QED
      BY <2>2, <3>1, <3>3 DEF NothingPutYet
  <2> QED
    BY <2>1, <2>2
<1>5. CASE Callbacks /\ UNCHANGED <<main_pc, library>>
  <2>1. ~AtRest
    BY <1>5, EmptySeq DEF Callbacks, AtRest
  <2> QED
    BY <1>5, <2>1 DEF NothingPutYet
<1>6. CASE UNCHANGED <<vars, main_pc, library, ready, capabilities>>
  BY <1>6 DEF allVars, vars, startVars, NothingPutYet, AtRest
<1> QED
  BY <1>1, <1>2, <1>3, <1>4, <1>5, <1>6, StepCases

\* The modem takes every operation that is executed, and will give the token for
\* it.
LEMMA ExecuteGives ==
    ASSUME EveryOpGives, TokenInv, NEW op \in PutOps,
           (exec_pc = "execute" /\ op = local_node) \/ failed_timer,
           FunctionExecute(op), StartsAsTaken(op)
    PROVE  /\ HalvesKnown'
           /\ \E i \in 1 .. Len(modem') : Gives(modem'[i]) /\ modem'[i].half # "rx"
<1>1. OnlyPut /\ StartPhase /\ NothingPutYet /\ HalvesKnown
  BY DEF TokenInv, StartInv
<1>2. Fn[op] \notin {"PLACEHOLDER", "LINK_CONFIG", "RX_STOP"}
  BY PutOpsKnown, StartupAssumption DEF EveryOpGives, PutOps
<1>3. ~AtRest
  BY DEF AtRest
<1>4. library = "callbacks"
  BY <1>1, <1>3 DEF NothingPutYet
<1>5. op \in {capability_get, init} \/ ready
  BY <1>1, <1>3 DEF StartPhase, Serves
<1>6. Len(modem') > Len(modem)
  BY <1>2, <1>4, <1>5 DEF StartsAsTaken, Takes
<1>7. Len(modem) \in Nat
  BY <1>1, LenProperties DEF OnlyPut
<1> DEFINE n == Len(modem) + 1
<1>8. /\ Len(modem') = n /\ modem'[n] = Started(op) /\ n \in 1 .. n
      /\ \A i \in 1 .. Len(modem) : modem'[i] = modem[i]
  BY <1>1, <1>6, <1>7, ExecuteStarts
<1>9. /\ Started(op).op = op /\ ~Started(op).heard
      /\ Started(op).half = IF Fn[op] = "TX_RX" THEN "tx" ELSE "whole"
  BY DEF Started
<1>10. Gives(modem'[n]) /\ modem'[n].half # "rx"
  BY <1>2, <1>8, <1>9 DEF Gives
<1>11. ASSUME NEW i \in 1 .. Len(modem'), Fn[modem'[i].op] = "TX_RX"
       PROVE  modem'[i].half # "whole"
  <2>1. CASE i = n
    BY <1>8, <1>9, <1>11, <2>1
  <2>2. CASE i # n
    <3>1. i \in 1 .. Len(modem)
      BY <1>7, <1>8, <2>2
    <3> QED
      BY <1>1, <1>8, <1>11, <3>1 DEF HalvesKnown
  <2> QED
    BY <2>1, <2>2
<1> QED
  BY <1>8, <1>10, <1>11 DEF HalvesKnown

\* What a callback does not speak of stays in the modem.
LEMMA OthersStay ==
    ASSUME OnlyPut, NEW i \in 1 .. Len(modem), Callback(i),
           NEW j \in 1 .. Len(modem), j # i
    PROVE  \E k \in 1 .. Len(modem') : modem'[k] = modem[j]
<1>1. Len(modem) \in Nat
  BY LenProperties DEF OnlyPut
<1>2. CASE Marks(i)
  BY <1>2 DEF Marks
<1>3. CASE Removes(i)
  <2>1. CASE j < i
    BY <1>1, <1>3, <2>1 DEF Removes
  <2>2. CASE j > i
    <3>1. j - 1 \in 1 .. Len(modem) - 1 /\ ~(j - 1 < i) /\ (j - 1) + 1 = j
      BY <1>1, <2>2
    <3> QED
      BY <1>3, <3>1 DEF Removes
  <2> QED
    BY <2>1, <2>2
<1> QED
  BY <1>2, <1>3, CallbackKeeps

\* The halves of what is in the modem stay known.
LEMMA HalvesStay ==
    ASSUME OnlyPut, HalvesKnown, NEW i \in 1 .. Len(modem), Callback(i)
    PROVE  HalvesKnown'
<1>1. Len(modem) \in Nat
  BY LenProperties DEF OnlyPut
<1>2. CASE Marks(i)
  BY <1>2 DEF Marks, HalvesKnown
<1>3. CASE Removes(i)
  <2>1. ASSUME NEW j \in 1 .. Len(modem) - 1
        PROVE  \E k \in 1 .. Len(modem) : modem'[j] = modem[k]
    BY <1>1, <1>3 DEF Removes
  <2>2. Len(modem)' = Len(modem) - 1
    BY <1>3 DEF Removes
  <2> QED
    BY <2>1, <2>2 DEF HalvesKnown
<1> QED
  BY <1>2, <1>3, CallbackKeeps

\* A callback of an operation that will not give the token leaves it where it is.
LEMMA OthersHold ==
    ASSUME OnlyPut, TokenHeld, NEW i \in 1 .. Len(modem), Callback(i),
           ~Gives(modem[i]),
           UNCHANGED <<phy_layer_sem, exec_pc, failed_timer, current_state>>
    PROVE  TokenHeld'
<1>1. HeldOutside => HeldOutside'
  BY DEF HeldOutside
<1>2. ASSUME NEW j \in 1 .. Len(modem), Gives(modem[j])
      PROVE  \E k \in 1 .. Len(modem') : modem'[k] = modem[j]
  <2>1. j # i
    BY <1>2
  <2> QED
    BY <2>1, OthersStay
<1>3. ASSUME \E j \in 1 .. Len(modem) : Gives(modem[j])
      PROVE  \E k \in 1 .. Len(modem') : Gives(modem'[k])
  <2>1. PICK j \in 1 .. Len(modem) : Gives(modem[j])
    BY <1>3
  <2>2. PICK k \in 1 .. Len(modem') : modem'[k] = modem[j]
    BY <1>2, <2>1
  <2> QED
    BY <2>1, <2>2 DEF Gives
<1>4. ASSUME \E j \in 1 .. Len(modem) : Gives(modem[j]) /\ modem[j].half # "rx"
      PROVE  \E k \in 1 .. Len(modem') : Gives(modem'[k]) /\ modem'[k].half # "rx"
  <2>1. PICK j \in 1 .. Len(modem) : Gives(modem[j]) /\ modem[j].half # "rx"
    BY <1>4
  <2>2. PICK k \in 1 .. Len(modem') : modem'[k] = modem[j]
    BY <1>2, <2>1
  <2> QED
    BY <2>1, <2>2 DEF Gives
<1> DEFINE G == \E j \in 1 .. Len(modem) : Gives(modem[j])
           H == \E j \in 1 .. Len(modem) : Gives(modem[j]) /\ modem[j].half # "rx"
<1>5. /\ G' <=> \E k \in 1 .. Len(modem') : Gives(modem'[k])
      /\ H' <=> \E k \in 1 .. Len(modem') : Gives(modem'[k]) /\ modem'[k].half # "rx"
  BY DEF Gives
<1>6. (G => G') /\ (H => H')
  BY <1>3, <1>4, <1>5
<1>7. TokenHeld <=> /\ HeldOutside \/ G
                    /\ current_state = "TRANSMITTING" => HeldOutside \/ H
  BY DEF TokenHeld
<1>8. TokenHeld' <=> /\ HeldOutside' \/ G'
                     /\ current_state' = "TRANSMITTING" => HeldOutside' \/ H'
  BY DEF TokenHeld
<1> HIDE DEF G, H
<1> QED
  BY <1>1, <1>6, <1>7, <1>8

\* A callback gives the token, or leaves it with what is in the modem still.
LEMMA CallbackHolds ==
    ASSUME EveryOpGives, TokenInv, NEW i \in 1 .. Len(modem), Callback(i)
    PROVE  TokenHeld'
<1> USE DEF queueVars, execVars, retryVars, PhySemGive
<1>1. OnlyPut /\ HalvesKnown /\ TokenHeld
  BY DEF TokenInv, StartInv
<1>2. CASE SwitchToRx(i)
  <2>1. /\ Fn[modem[i].op] = "TX_RX" /\ current_state = "TRANSMITTING"
        /\ current_state' = "RECEIVING"
        /\ UNCHANGED <<phy_layer_sem, exec_pc, failed_timer>>
    BY <1>2 DEF SwitchToRx
  <2>2. HeldOutside => HeldOutside'
    BY <2>1 DEF HeldOutside
  <2>3. ASSUME NEW j \in 1 .. Len(modem), Gives(modem[j]), modem[j].half # "rx"
        PROVE  \E k \in 1 .. Len(modem') : Gives(modem'[k])
    <3>1. CASE j # i
      <4>1. PICK k \in 1 .. Len(modem') : modem'[k] = modem[j]
        BY <1>1, <3>1, OthersStay
      <4> QED
        BY <2>3, <4>1 DEF Gives
    <3>2. CASE j = i
      <4>1. modem[i].half = "tx"
        <5>1. modem[i] \in [op : PutOps, half : Halves, heard : BOOLEAN]
          BY <1>1, ElementOfSeq DEF OnlyPut
        <5>2. modem[i].half # "whole"
          BY <1>1, <2>1 DEF HalvesKnown
        <5> QED
          BY <2>3, <3>2, <5>1, <5>2 DEF Halves
      <4>2. modem' = [modem EXCEPT ![i].half = "rx"]
        BY <1>2, <4>1 DEF SwitchToRx
      <4>3. modem \in Seq([op : PutOps, half : Halves, heard : BOOLEAN])
        BY <1>1 DEF OnlyPut
      <4>4. i \in 1 .. Len(modem') /\ modem'[i].op = modem[i].op
        BY <4>2, <4>3
      <4> QED
        BY <2>1, <4>4 DEF Gives
    <3> QED
      BY <3>1, <3>2
  <2>4. HeldOutside \/ \E k \in 1 .. Len(modem') : Gives(modem'[k])
    BY <1>1, <2>1, <2>3 DEF TokenHeld
  <2> QED
    BY <2>1, <2>2, <2>4 DEF TokenHeld, Gives
<1>3. CASE OpComplete(i)
  <2>1. UNCHANGED <<exec_pc, failed_timer, current_state>>
    BY <1>3 DEF OpComplete
  <2>2. CASE FromQueue(modem[i].op)
    BY <1>3, <2>2 DEF OpComplete, TokenHeld, HeldOutside
  <2>3. CASE ~FromQueue(modem[i].op)
    <3>1. UNCHANGED phy_layer_sem /\ ~Gives(modem[i])
      BY <1>3, <2>3 DEF OpComplete, Completes, FromQueue, Gives
    <3> QED
      BY <1>1, <2>1, <3>1, OthersHold
  <2> QED
    BY <2>2, <2>3
<1>4. CASE Late(i)
  BY <1>4 DEF Late, TokenHeld, HeldOutside
<1>5. CASE CapabilityGot(i) \/ RssiReport(i)
  BY <1>5 DEF CapabilityGot, RssiReport, TokenHeld, HeldOutside
<1>6. CASE RxStopped(i)
  <2>1. /\ ~Gives(modem[i])
        /\ UNCHANGED <<phy_layer_sem, exec_pc, failed_timer, current_state>>
    BY <1>6 DEF RxStopped, Gives
  <2> QED
    BY <1>1, <2>1, OthersHold
<1>7. ~Failed(i)
  BY DEF Failed, EveryOpGives
<1> QED
  BY <1>2, <1>3, <1>4, <1>5, <1>6, <1>7 DEF Callback, StartAnswered

\* Every step keeps the token somewhere.
LEMMA TokenHeldStep ==
    ASSUME StartComesFirst, EveryOpGives, TokenInv, [StartupNext]_allVars
    PROVE  TokenHeld' /\ HalvesKnown'
<1> USE DEF queueVars, execVars, retryVars, ExecTo
<1>0. /\ OnlyPut /\ HasNode /\ HalvesKnown /\ TokenHeld /\ ~Impatient
      /\ NoOp \notin PutOps
  BY PutOpsKnown DEF TokenInv, StartInv, StartComesFirst
<1>1. ASSUME UNCHANGED modem,
             HeldOutside => HeldOutside',
             current_state' = "TRANSMITTING" => current_state = "TRANSMITTING"
      PROVE  TokenHeld' /\ HalvesKnown'
  BY <1>0, <1>1 DEF TokenHeld, HalvesKnown, Gives
<1>2. CASE Prepares \/ UNCHANGED <<vars, main_pc, library, ready, capabilities>>
  BY <1>1, <1>2 DEF Prepares, allVars, vars, HeldOutside
<1>3. ASSUME NEW op \in PutOps, Puts(op) PROVE TokenHeld' /\ HalvesKnown'
  BY <1>1, <1>3 DEF Puts, Put, HeldOutside
<1>4. CASE StopRx
  BY <1>1, <1>4 DEF StopRx, HeldOutside
<1>5. CASE File
  BY <1>1, <1>5 DEF File, HeldOutside
<1>6. CASE TakePhy
  BY <1>1, <1>6 DEF TakePhy, HeldOutside
<1>7. CASE Pick
  BY <1>1, <1>7 DEF Pick, HeldOutside
<1>8. CASE ResetCounter \/ SaveNode
  BY <1>1, <1>8 DEF ResetCounter, SaveNode, HeldOutside
<1>9. CASE Execute /\ StartsAsTaken(local_node)
  <2>1. local_node \in PutOps /\ exec_pc = "execute"
    BY <1>0, <1>9 DEF Execute, HasNode, OnlyPut
  <2>2. /\ HalvesKnown'
        /\ \E i \in 1 .. Len(modem') : Gives(modem'[i]) /\ modem'[i].half # "rx"
    BY <1>9, <2>1, ExecuteGives DEF Execute
  <2> QED
    BY <2>2 DEF TokenHeld, Gives
<1>10. CASE TimerExpires /\ StartsAsTaken(current_node)
  <2>1. current_node \in PutOps /\ failed_timer
    BY <1>0, <1>10 DEF TimerExpires, HasNode, OnlyPut
  <2>2. /\ HalvesKnown'
        /\ \E i \in 1 .. Len(modem') : Gives(modem'[i]) /\ modem'[i].half # "rx"
    BY <1>10, <2>1, ExecuteGives DEF TimerExpires
  <2> QED
    BY <2>2 DEF TokenHeld, Gives
<1>11. CASE Threads \/ Timer
  BY <1>5, <1>6, <1>7, <1>8, <1>9, <1>10, <1>11 DEF Threads, Timer
<1>12. CASE Callbacks
  <2>1. PICK i \in 1 .. Len(modem) : Callback(i)
    BY <1>12 DEF Callbacks
  <2> QED
    BY <1>0, <2>1, CallbackHolds, HalvesStay
<1> QED
  BY <1>0, <1>2, <1>3, <1>4, <1>11, <1>12, StepCases

\* A set of numbers of the modem's operations that is not empty counts.
LEMMA SomeCount ==
    ASSUME NEW n \in Nat, NEW G \in SUBSET (1 .. n), G # {}
    PROVE  Cardinality(G) \in Nat /\ Cardinality(G) >= 1
<1>1. IsFiniteSet(G)
  <2>1. IsFiniteSet(1 .. n)
    BY FS_Interval
  <2> QED
    BY <2>1, FS_Subset
<1>2. Cardinality(G) \in Nat
  BY <1>1, FS_CardinalityType
<1>3. Cardinality(G) # 0
  BY <1>1, FS_EmptySet
<1> DEFINE c == Cardinality(G)
<1> HIDE DEF c
<1>4. c \in Nat /\ c # 0 => c >= 1
  OBVIOUS
<1> QED
  BY <1>2, <1>3, <1>4 DEF c

\* No PLACEHOLDER is put, for nobody asks for a reply.
LEMMA NoPlaceholders ==
    ASSUME OnlyPut
    PROVE  PlaceholdersToCome = 0
<1>1. placeholder \notin PutOps /\ placeholder # NoOp
  BY PutOpsKnown, HandlerAssumption
<1>2. accepted \o pending \in Seq(PutOps)
  BY ConcatProperties DEF OnlyPut
<1>3. {i \in 1 .. Len(accepted \o pending) :
         (accepted \o pending)[i] = placeholder} = {}
  BY <1>1, <1>2, ElementOfSeq
<1>4. Cardinality({}) = 0
  BY FS_EmptySet
<1>5. local_node # placeholder
  BY <1>1 DEF OnlyPut
<1> QED
  BY <1>3, <1>4, <1>5 DEF PlaceholdersToCome, One

\* A button may stop any reception, at any time, and operations may come too late
\* and be tried again until they are given up: the token is never lost, so that
\* the exec thread is never left to wait for a give that does not come.
THEOREM TokenIsNeverLost ==
    ASSUME StartComesFirst, EveryOpGives
    PROVE  StartupSpec => []TokenNeverLost
<1>1. StartupInit => TokenInv
  <2> SUFFICES ASSUME StartupInit PROVE TokenInv
    OBVIOUS
  <2>1. /\ accepted = <<>> /\ pending = <<>> /\ modem = <<>>
        /\ exec_pc = "phy" /\ local_node = NoOp /\ current_node = NoOp
        /\ phy_layer_sem = 1 /\ ~failed_timer /\ main_pc = "buttons"
    BY DEF StartupInit, Init
  <2>2. OnlyPut /\ HasNode
    BY <2>1, EmptySeq DEF OnlyPut, HasNode
  <2>3. AtRest /\ NothingPutYet
    BY <2>1 DEF AtRest, NothingPutYet
  <2>4. Nth(1, capability_get) /\ Nth(2, init)
    <3>1. Len(accepted) = 0 /\ Len(pending) = 0 /\ Due = <<capability_get, init>>
      BY <2>1, EmptySeq DEF Due
    <3> QED
      BY <3>1 DEF Nth
  <2>5. HalvesKnown
    <3>1. Len(modem) = 0
      BY <2>1, EmptySeq
    <3> QED
      BY <3>1 DEF HalvesKnown
  <2>6. TokenHeld
    BY <2>1 DEF TokenHeld, HeldOutside
  <2> QED
    BY <2>2, <2>3, <2>4, <2>5, <2>6 DEF TokenInv, StartInv, StartPhase
<1>2. TokenInv /\ [StartupNext]_allVars => TokenInv'
  BY HasNodeStep, PhaseStep, NothingPutStep, TokenHeldStep
  DEF TokenInv, StartInv, StartComesFirst
<1>3. TokenInv => TokenNeverLost
  <2> SUFFICES ASSUME TokenInv PROVE Tokens >= 1 + PlaceholdersToCome
    BY DEF TokenNeverLost
  <2>0. OnlyPut /\ TokenHeld
    BY DEF TokenInv, StartInv
  <2> DEFINE
        gives == {i \in 1 .. Len(modem) :
                     /\ Fn[modem[i].op] # "RX_STOP"
                     /\ Fn[modem[i].op] = "RSSI" => ~modem[i].heard}
        g == Cardinality(gives)
        e == One(exec_pc # "phy")
        t == One(failed_timer)
  <2>1. PlaceholdersToCome = 0
    BY <2>0, NoPlaceholders
  <2>2. Len(modem) \in Nat
    BY <2>0, LenProperties DEF OnlyPut
  <2>3. g \in Nat
    <3>1. IsFiniteSet(1 .. Len(modem))
      BY <2>2, FS_Interval
    <3> QED
      BY <3>1, FS_Subset, FS_CardinalityType
  <2>4. (\E i \in 1 .. Len(modem) : Gives(modem[i])) => g >= 1
    <3>1. (\E i \in 1 .. Len(modem) : Gives(modem[i])) => gives # {}
      BY DEF Gives
    <3>2. gives \in SUBSET (1 .. Len(modem))
      OBVIOUS
    <3> HIDE DEF gives
    <3> QED
      BY <2>2, <3>1, <3>2, SomeCount
  <2>5. e \in 0 .. 1 /\ (exec_pc # "phy" => e = 1)
    BY DEF One
  <2>6. t \in 0 .. 1 /\ (failed_timer => t = 1)
    BY DEF One
  <2>7. Tokens = phy_layer_sem + e + (g + t)
    BY DEF Tokens, GivesToCome
  <2>8. phy_layer_sem \in 0 .. 1
    BY <2>0 DEF OnlyPut
  <2> HIDE DEF g, e, t
  <2>9. phy_layer_sem = 1 \/ e = 1 \/ t = 1 \/ g >= 1
    BY <2>0, <2>4, <2>5, <2>6 DEF TokenHeld, HeldOutside
  <2>10. phy_layer_sem + e + (g + t) >= 1
    BY <2>3, <2>5, <2>6, <2>8, <2>9
  <2> QED
    BY <2>1, <2>7, <2>10
<1> QED
  BY <1>1, <1>2, <1>3, PTL DEF StartupSpec
=============================================================================
