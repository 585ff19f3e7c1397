------------------------------ MODULE Delivery ------------------------------
(***************************************************************************)
(* What HARQ promises to the user of dect_mac_harq_transmit: a message     *)
(* occupies a process until the receiver is known to have it, or until it  *)
(* was sent as often as CONFIG_HARQ_MAX_TRANSMISSIONS allows.              *)
(***************************************************************************)
EXTENDS Naturals

CONSTANTS
    Processes,
    MaxTransmissions

VARIABLES
    busy,       \* whether a process has a message
    sent,       \* how often it was sent
    received    \* whether the receiver has it

vars == <<busy, sent, received>>

Init ==
    /\ busy = [p \in Processes |-> FALSE]
    /\ sent = [p \in Processes |-> 0]
    /\ received = [p \in Processes |-> FALSE]

Ends(p) == busy' = [busy EXCEPT ![p] = FALSE] /\ UNCHANGED <<sent, received>>

Accept(p) ==
    /\ ~busy[p]
    /\ busy' = [busy EXCEPT ![p] = TRUE]
    /\ sent' = [sent EXCEPT ![p] = 0]
    /\ received' = [received EXCEPT ![p] = FALSE]

\* There is no memory for the message.
Refuse(p) == busy[p] /\ sent[p] = 0 /\ Ends(p)

Send(p) ==
    /\ busy[p] /\ sent[p] < MaxTransmissions
    /\ sent' = [sent EXCEPT ![p] = @ + 1]
    /\ UNCHANGED <<busy, received>>

Receive(p) ==
    /\ busy[p] /\ sent[p] > 0
    /\ received' = [received EXCEPT ![p] = TRUE]
    /\ UNCHANGED <<busy, sent>>

Confirm(p) == busy[p] /\ received[p] /\ Ends(p)

\* The sender does not know whether a message it gives up was received.
GiveUp(p) == busy[p] /\ sent[p] = MaxTransmissions /\ Ends(p)

Next == \E p \in Processes :
    Accept(p) \/ Refuse(p) \/ Send(p) \/ Receive(p) \/ Confirm(p) \/ GiveUp(p)

Spec == Init /\ [][Next]_vars
=============================================================================
