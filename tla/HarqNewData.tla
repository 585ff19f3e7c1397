---------------------------- MODULE HarqNewData ----------------------------
(***************************************************************************)
(* HarqLink with what the new data indication tells the other node, while  *)
(* other nodes send HARQ requests (Requests).                              *)
(***************************************************************************)
EXTENDS HarqLink

VARIABLES
    heard,      \* history: whether the peer heard a frame of the current message
    told        \* history: the new data indication of the last frame it heard,
                \* NULL before the first and when a whole message went by since

newDataVars == <<allVars, heard, told>>

NewDataTypeOK ==
    /\ LinkTypeOK
    /\ heard \in [Procs -> BOOLEAN]
    /\ told \in [Procs -> BOOLEAN \cup {NULL}]

NewDataInit ==
    /\ LinkInit
    /\ heard = [p \in Procs |-> FALSE]
    /\ told = [p \in Procs |-> NULL]

NewDataTake ==
    /\ LinkTake
    /\ LET p == sender'.proc
       IN  /\ heard' = [heard EXCEPT ![p] = FALSE]
           /\ told' = IF heard[p] THEN told ELSE [told EXCEPT ![p] = NULL]

NewDataHeard(p) ==
    /\ PeerHears(p)
    /\ heard' = [heard EXCEPT ![p] = TRUE]
    /\ told' = [told EXCEPT ![p] = air[p]]

NewDataNext ==
    \/ NewDataTake
    \/ \E p \in Procs : NewDataHeard(p)
    \/ /\ \/ LinkSender \/ LinkWorker \/ LinkRadio
          \/ \E p \in Procs :
                LinkDelayElapses(p) \/ LinkResponse(p) \/ FrameLost(p)
       /\ UNCHANGED <<heard, told>>
    \/ \E p \in Procs : HarqRequest(p) /\ UNCHANGED <<linkVars, heard, told>>

NewDataSpec == NewDataInit /\ [][NewDataNext]_newDataVars

\* The peer tells a new message from a repeated one by the new data indication: a
\* frame of a message it has heard before repeats what it heard last, and the first
\* one it hears of another differs from it, unless a whole message went by unheard.
\* take_process toggles the indication whatever became of the last message, also
\* when there was no memory for it, and nothing else touches it.
PeerTellsNew ==
    \A p \in Procs : air[p] # NULL =>
        IF heard[p] THEN air[p] = told[p] ELSE air[p] # told[p]
=============================================================================
