------------------------------- MODULE Startup -------------------------------
(***************************************************************************)
(* The application around the PHY handler: main (main.c) with              *)
(* dect_mac_phy_handler_start_modem (dect_mac_phy_handler.c), and the      *)
(* buttons, which send a message and stop the reception in progress.       *)
(*                                                                         *)
(* main registers the button handler, brings up the modem library, puts    *)
(* CAPABILITY_GET and INIT, and then the permanent reception.  Nothing     *)
(* waits for these to complete: that the modem is ready and its            *)
(* capabilities are known when they are needed rests on the order of the   *)
(* queue.                                                                  *)
(*                                                                         *)
(* A button's handler runs in the system work queue, which is cooperative: *)
(* main and the threads of the queue do not run in the middle of it.       *)
(***************************************************************************)
EXTENDS PhyHandler

CONSTANTS
    capability_get, init,   \* the operations of start_modem
    scan,                   \* the permanent reception of main
    message,                \* the TX_RX of dect_mac_harq_transmit
    Impatient,              \* whether a button is pressed before main is done
    MaxPuts                 \* bound: presses of buttons and operations of users

ASSUME StartupAssumption ==
    /\ {capability_get, init, scan, message} \subseteq Ops
    /\ Cardinality({capability_get, init, scan, message}) = 4
    /\ {capability_get, init, scan, message} \cap Users = {}
    /\ {Fn[capability_get], Fn[init]} = {"CAPABILITY_GET"}
    /\ Fn[scan] = "RX" /\ Fn[message] = "TX_RX"
    /\ "refused" \in Outcomes
    /\ Impatient \in BOOLEAN
    /\ MaxPuts \in Nat

VARIABLES
    main_pc,        \* where main is; "failed" after a return with an error
    library,        \* "off", "on", or with "callbacks"
    ready,          \* the modem did INIT
    capabilities,   \* whether they are known
    button,         \* "idle", or "stop": the message is put
    puts            \* presses and operations put by users

startVars == <<main_pc, library, ready, capabilities, button, puts>>
allVars   == <<vars, startVars>>

StartupTypeOK ==
    /\ TypeOK
    /\ main_pc \in {"buttons", "leds", "library", "callbacks", "capability",
                    "init", "scan", "done", "failed"}
    /\ library \in {"off", "on", "callbacks"}
    /\ {ready, capabilities} \subseteq BOOLEAN
    /\ button \in {"idle", "stop"}
    /\ puts \in 0 .. MaxPuts

StartupInit ==
    /\ Init
    /\ main_pc = "buttons" /\ library = "off"
    /\ ready = FALSE /\ capabilities = FALSE
    /\ button = "idle" /\ puts = 0

-----------------------------------------------------------------------------
(***************************************************************************)
(* main                                                                    *)
(***************************************************************************)
MainTo(from, to) == button = "idle" /\ main_pc = from /\ main_pc' = to

\* dk_buttons_init and dk_leds_init: what they return is not kept, and the err
\* that is tested is not initialised, so main may go on or return.
InitInputs(from, to) ==
    /\ \E next \in {to, "failed"} : MainTo(from, next)
    /\ UNCHANGED <<vars, library, ready, capabilities, button, puts>>

\* A call of start_modem that may fail, and then start_modem and main return.
Bring(from, state, to) ==
    /\ \/ MainTo(from, to) /\ library' = state
       \/ MainTo(from, "failed") /\ UNCHANGED library
    /\ UNCHANGED <<vars, ready, capabilities, button, puts>>

MainPuts(from, op, to) ==
    /\ MainTo(from, to)
    /\ Put(op)
    /\ UNCHANGED <<library, ready, capabilities, button, puts>>

\* A bug to catch: the reception is put before the modem is told to start.
MainScansFirst ==
    \/ InitInputs("buttons", "leds")
    \/ InitInputs("leds", "library")
    \/ Bring("library", "on", "callbacks")
    \/ Bring("callbacks", "callbacks", "capability")
    \/ MainPuts("capability", scan, "init")
    \/ MainPuts("init", capability_get, "scan")
    \/ MainPuts("scan", init, "done")

Main ==
    \/ InitInputs("buttons", "leds")
    \/ InitInputs("leds", "library")
    \/ Bring("library", "on", "callbacks")
    \/ Bring("callbacks", "callbacks", "capability")
    \/ MainPuts("capability", capability_get, "init")
    \/ MainPuts("init", init, "scan")
    \/ MainPuts("scan", scan, "done")

-----------------------------------------------------------------------------
(***************************************************************************)
(* The buttons, and other users of the queue                               *)
(***************************************************************************)
PressesNow ==
    \/ main_pc = "done"
    \/ Impatient /\ main_pc # "buttons"

\* button1_pressed and button2_pressed: dect_mac_harq_transmit puts the message,
\* or fails, which nobody looks at,
PressTransmits ==
    /\ button = "idle" /\ PressesNow /\ puts < MaxPuts
    /\ Put(message) \/ UNCHANGED vars
    /\ button' = "stop" /\ puts' = puts + 1
    /\ UNCHANGED <<main_pc, library, ready, capabilities>>

\* then rx_stop goes to the modem past the queue.
PressStops ==
    /\ button = "stop"
    /\ StopRx
    /\ button' = "idle"
    /\ UNCHANGED <<main_pc, library, ready, capabilities, puts>>

\* Code that uses the queue once the modem is started.
UserPuts ==
    /\ button = "idle" /\ main_pc = "done" /\ puts < MaxPuts
    /\ \E op \in Users : Put(op)
    /\ puts' = puts + 1
    /\ UNCHANGED <<main_pc, library, ready, capabilities, button>>

-----------------------------------------------------------------------------
(***************************************************************************)
(* The threads and the callbacks, with a modem that has to be started      *)
(***************************************************************************)

\* The modem takes an operation when the library has its callbacks and, but for
\* the two operations that start it, INIT is done.  A modem that refuses what it
\* could take is not modelled here: nobody would give phy_layer_sem back.
Takes(op) ==
    /\ Fn[op] \notin {"PLACEHOLDER", "LINK_CONFIG"}
    /\ library = "callbacks"
    /\ op \in {capability_get, init} \/ ready

StartsAsTaken(op) == Takes(op) <=> Len(modem') > Len(modem)

Threads ==
    /\ button = "idle"
    /\ \/ File \/ TakePhy \/ Pick \/ ResetCounter \/ SaveNode
       \/ Execute /\ StartsAsTaken(local_node)
    /\ UNCHANGED startVars

Timer ==
    /\ TimerExpires
    /\ StartsAsTaken(current_node)
    /\ UNCHANGED startVars

\* capability_get_cb saves the capabilities; the callback of INIT says it is done.
StartAnswered(i) ==
    /\ CapabilityGot(i)
    /\ capabilities' = (capabilities \/ modem[i].op = capability_get)
    /\ ready' = (ready \/ modem[i].op = init)
    /\ UNCHANGED <<main_pc, library, button, puts>>

Callback(i) ==
    \/ StartAnswered(i)
    \/ /\ SwitchToRx(i) \/ OpComplete(i) \/ Late(i) \/ Failed(i)
          \/ RssiReport(i) \/ RxStopped(i)
       /\ UNCHANGED startVars

Callbacks == \E i \in 1 .. Len(modem) : Callback(i)

StartupNext ==
    \/ Main
    \/ PressTransmits \/ PressStops \/ UserPuts
    \/ Threads \/ Timer \/ Callbacks

StartupSpec == StartupInit /\ [][StartupNext]_allVars

\* main runs, and a button that was pressed is served; the rest as in PhyHandler.
StartupFairness ==
    /\ WF_allVars(Main) /\ WF_allVars(PressStops)
    /\ WF_allVars(Threads) /\ WF_allVars(Timer) /\ WF_allVars(Callbacks)

FairStartupSpec == StartupSpec /\ StartupFairness

-----------------------------------------------------------------------------
(***************************************************************************)
(* What start-up promises                                                  *)
(***************************************************************************)

\* "the modem should be started when using the other commands"
\* (dect_mac_phy_handler.h:11): when anything but the two operations of
\* start_modem is executed, INIT is done and the capabilities are known, although
\* nobody waits for their callbacks.
StartedBeforeUsed ==
    exec_pc = "execute" /\ local_node \notin {capability_get, init} =>
        ready /\ capabilities

\* Once main is done the device listens again and again, whatever the buttons and
\* late operations do in between.
Scanning == \E i \in 1 .. Len(modem) : modem[i].op = scan

ScanRecurs == [](main_pc = "done" => <>Scanning)
=============================================================================
