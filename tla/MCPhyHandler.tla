---------------------------- MODULE MCPhyHandler ----------------------------
(***************************************************************************)
(* Instances of PhyHandler for TLC.                                        *)
(***************************************************************************)
EXTENDS PhyHandler

CONSTANTS scan, msg, get, rssi, stop, link

\* main's permanent reception, a HARQ message, and one operation of each other
\* sort the queue may be given.
MCFn == [op \in Ops |->
    CASE op = scan        -> "RX"
      [] op = msg         -> "TX_RX"
      [] op = get         -> "CAPABILITY_GET"
      [] op = rssi        -> "RSSI"
      [] op = stop        -> "RX_STOP"
      [] op = link        -> "LINK_CONFIG"
      [] op = reply       -> "TX_HARQ"
      [] op = placeholder -> "PLACEHOLDER"]

MCPriority == [op \in Ops |->
    CASE op = scan -> 0 [] op = placeholder -> 3 [] op = get -> 1 [] OTHER -> 2]
=============================================================================
