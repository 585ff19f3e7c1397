----------------------------- MODULE MCReceiver -----------------------------
(***************************************************************************)
(* Instances of Receiver for TLC.                                          *)
(***************************************************************************)
EXTENDS Receiver

\* The ends of the table's rows and their neighbours, and what no packet holds.
Boundaries == {0, 1, 17, 18, 117, 249, 250, 495, 496, 700, 701}

\* The two receivers that main.c sends to, and a node whose address has the low
\* byte of the first.
Addresses == {14231, 29054, 17559}

\* A request gives the process its whole buffer before it takes the packet from it,
\* so nothing depends on the space an earlier one left.
Exchange == <<air, sent, began, listening, taken, replies>>
=============================================================================
