----------------------------- MODULE MCStartup -----------------------------
(***************************************************************************)
(* Instances of Startup for TLC.                                           *)
(***************************************************************************)
EXTENDS Startup

CONSTANTS rssi

\* The operations of main, of the buttons, and a measurement.
MCFn == [op \in Ops |->
    CASE op \in {capability_get, init} -> "CAPABILITY_GET"
      [] op = scan                     -> "RX"
      [] op = message                  -> "TX_RX"
      [] op = rssi                     -> "RSSI"
      [] op = reply                    -> "TX_HARQ"
      [] op = placeholder              -> "PLACEHOLDER"]

\* PRIORITY_CRITICAL for start-up, PRIORITY_HIGH for messages.
MCPriority == [op \in Ops |->
    CASE op = scan                                  -> 0
      [] op \in {capability_get, init, placeholder} -> 3
      [] OTHER                                      -> 2]
=============================================================================
