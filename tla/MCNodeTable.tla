---------------------------- MODULE MCNodeTable ----------------------------
(***************************************************************************)
(* An instance of NodeTable for TLC: a modem that knows the MCS up to 1, a *)
(* header that asks for full power and MCS 1, and one that asks for less   *)
(* power over a channel too noisy for any MCS.                             *)
(***************************************************************************)
EXTENDS NodeTable

MCRssiTarget == -90

MCReceptions ==
    {[level |-> 13, rssi |-> -90, snr |-> 6], [level |-> 13, rssi |-> -90, snr |-> 2]}
=============================================================================
