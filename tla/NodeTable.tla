----------------------------- MODULE NodeTable -----------------------------
(***************************************************************************)
(* The table of the nodes this device talks to (dect_mac_node.c), with     *)
(* what reads and changes it: the configuration of a transmission          *)
(* (dect_mac_phy_handler_tx_config), the optimisation of the link when a   *)
(* header is received (dect_mac_node_optimize), a retransmission           *)
(* (dect_mac_harq_retransmit) and the thread that deletes unused nodes.    *)
(*                                                                         *)
(* A section under node_mutex is one step.  The PHY is one actor: an       *)
(* operation is configured, then it is in the air and headers come in.     *)
(* The two do not overlap as long as phy_layer_sem does its work, which is *)
(* what SemMeansDone and TokenBalance say in PhyHandler.                   *)
(*                                                                         *)
(* The hash map and the heap are external: k_malloc finds memory, the map  *)
(* may refuse an insertion.                                                *)
(***************************************************************************)
EXTENDS Integers, FiniteSets, FiniteSetsExt, Functions

CONSTANTS
    Addresses,
    Cells,              \* the memory a node may be allocated in
    NoCell,             \* NULL
    Elsewhere,          \* any other memory
    NoAddress,
    Sizes,              \* the data sizes that are sent
    Receptions,         \* what may be received: [level, rssi, snr]
    InsertMayFail,      \* whether the hash map may refuse a node
    TxPower,            \* CONFIG_TX_POWER
    TxPowerMargin,      \* CONFIG_TX_POWER_MARGIN_DBM
    RssiTarget,         \* CONFIG_RSSI_TARGET
    McsMax,             \* capabilities.mcs_max
    MaxTransmissions,   \* CONFIG_HARQ_MAX_TRANSMISSIONS
    MaxWorks            \* bound: retransmission works scheduled at once

Reception == [level : 0 .. 15, rssi : Int, snr : Int]

ASSUME TableAssumption ==
    /\ {NoCell, Elsewhere} \cap Cells = {} /\ NoCell # Elsewhere /\ NoAddress \notin Addresses
    /\ Sizes \subseteq Nat
    /\ Receptions \subseteq Reception
    /\ InsertMayFail \in BOOLEAN
    /\ TxPower \in 0 .. 13 /\ McsMax \in 0 .. 4
    /\ {TxPowerMargin, RssiTarget} \subseteq Int
    /\ MaxTransmissions \in 1 .. 255 /\ MaxWorks \in Nat

VARIABLES
    node_hashmap,   \* the cell of each address, or NoCell
    cell,           \* what the cells hold
    allocated,      \* the cells in use
    \* the PHY
    phy_pc,
    creating,       \* a getter found no node and left node_mutex
    dest, size,     \* the receiver and the data size of the operation
    found,          \* whether the data fits, found_packet_length
    can_augment,    \* can_augment_mcs
    \* the harq work queue
    works,          \* retransmission works scheduled
    reducing,       \* the receiver between add_power and reduce_mcs
    \* the cleaner
    clean_pc,
    current,        \* delete_iterator: the node it looks at
    following,      \* iterator: the node it looks at next
    unset,          \* current is the value of an iterator that never moved
    visited         \* the addresses the iterator has passed

tableVars   == <<node_hashmap, cell, allocated>>
phyVars     == <<phy_pc, creating, dest, size, found, can_augment>>
workVars    == <<works, reducing>>
cleanerVars == <<clean_pc, current, following, unset, visited>>
vars        == <<tableVars, phyVars, workVars, cleanerVars>>

Node == [address : Addresses, used : BOOLEAN, tx_power : 0 .. 13, mcs : -1 .. 4]

Free == [address |-> NoAddress]

PhyPcs == {"idle", "power", "mcs", "augment", "boost", "mcs_again",
           "power_again", "air"}

CleanPcs == {"sleep", "next", "test", "visit", "delete", "fault"}

TypeOK ==
    /\ node_hashmap \in [Addresses -> Cells \cup {NoCell}]
    /\ allocated \subseteq Cells
    /\ cell \in [Cells -> Node \cup {Free}]
    /\ \A c \in allocated : cell[c] \in Node
    /\ phy_pc \in PhyPcs
    /\ {creating, found, can_augment} \subseteq BOOLEAN
    /\ dest \in Addresses \cup {NoAddress} /\ size \in Sizes \cup {0}
    /\ works \in 0 .. MaxWorks /\ reducing \in Addresses \cup {NoAddress}
    /\ clean_pc \in CleanPcs /\ unset \in BOOLEAN
    /\ current \in Cells \cup {NoCell, Elsewhere} /\ following \in Cells \cup {NoCell}
    /\ visited \subseteq Addresses

Init ==
    /\ node_hashmap = [a \in Addresses |-> NoCell]
    /\ cell = [c \in Cells |-> Free] /\ allocated = {}
    /\ phy_pc = "idle" /\ creating = FALSE
    /\ dest = NoAddress /\ size = 0 /\ found = FALSE /\ can_augment = FALSE
    /\ works = 0 /\ reducing = NoAddress
    /\ clean_pc = "sleep" /\ current = NoCell /\ following = NoCell
    /\ unset = FALSE /\ visited = {}

-----------------------------------------------------------------------------
(***************************************************************************)
(* Power and MCS                                                           *)
(***************************************************************************)

\* tx_power is a uint8_t: a sum below 0 wraps and is then cut to the maximum.
\* A bug to catch: the sum is not cut.
AddedPowerUncut(power, n) == (power + n) % 256

AddedPower(power, n) ==
    LET sum == (power + n) % 256 IN IF sum > TxPower THEN TxPower ELSE sum

ReducedMcs(mcs, n) ==
    CASE mcs - n < 0      -> 0
      [] mcs - n > McsMax -> McsMax
      [] OTHER            -> mcs - n

\* dect_mac_node_reduce_mcs returns OK when the result needs no correction.
\* A bug to catch: OK at the maximum as well.
ReduceAlwaysOk(mcs, n) == mcs - n >= 0

ReduceOk(mcs, n) == mcs - n \in 0 .. McsMax

\* The levels of transmit power, in dBm: ETSI TS 103 636-4, table 6.2.1-3.
Dbm == [level \in 0 .. 15 |->
    <<-40, -30, -20, -16, -12, -8, -4, 0, 4, 7, 10, 13, 16, 19, 21, 23>>[level + 1]]

\* The lowest level that reaches the target, within what this device can do.
Levels == 2 .. 13

WantedPower(r) ==
    LET wanted == Dbm[r.level] - (r.rssi - RssiTarget - TxPowerMargin)
    IN Min({l \in Levels : Dbm[l] >= wanted} \cup {13})

\* The signal to noise ratio each MCS needs.
SnrOf == [mcs \in 0 .. 4 |-> <<4, 6, 8, 10, 14>>[mcs + 1]]

WantedMcs(r) == Max({m \in 0 .. 4 : SnrOf[m] <= r.snr} \cup {-1})

\* The most data a packet holds with each MCS.  A longer packet with a higher
\* MCS does not always hold more.
Capacity == [mcs \in 0 .. 4 |-> <<249, 495, 692, 660, 700>>[mcs + 1]]

\* dect_mac_utils_get_packet_length.  With an MCS of -1 it reads what lies
\* beyond the table.
Fits(mcs, bytes) == IF mcs \in 0 .. 4 THEN {bytes <= Capacity[mcs]} ELSE BOOLEAN

-----------------------------------------------------------------------------
(***************************************************************************)
(* The table                                                               *)
(***************************************************************************)
Known(a) == node_hashmap[a] # NoCell

NodeOf(a) == cell[node_hashmap[a]]

\* Every access to a node that is known marks it as used.
Set(a, node) ==
    /\ cell' = [cell EXCEPT ![node_hashmap[a]] = [node EXCEPT !.used = TRUE]]
    /\ UNCHANGED <<node_hashmap, allocated>>

\* dect_mac_node_create_node: a node of the address that is already there is
\* overwritten, not freed.  The code does not test what k_malloc returns;
\* without memory it has no meaning here.
Insert(a, power, mcs, used) ==
    LET c == CHOOSE c \in Cells : c \notin allocated IN
    /\ allocated # Cells
    /\ allocated' = allocated \cup {c}
    /\ cell' = [cell EXCEPT ![c] = [address |-> a, used |-> used,
                                    tx_power |-> power, mcs |-> mcs]]
    /\ node_hashmap' = [node_hashmap EXCEPT ![a] = c]

CreateNode(a) ==
    \/ Insert(a, TxPower, McsMax, FALSE)
    \/ InsertMayFail /\ UNCHANGED tableVars

-----------------------------------------------------------------------------
(***************************************************************************)
(* dect_mac_phy_handler_tx_config, in the exec thread or, for a retry, in  *)
(* the timer.  The data is tried with the MCS of the node, then with       *)
(* higher ones.                                                            *)
(***************************************************************************)

\* The execution of an operation that transmits, or that only receives.
Begin(a, bytes) ==
    /\ phy_pc = "idle" /\ phy_pc' = "power"
    /\ dest' = a /\ size' = bytes
    /\ UNCHANGED <<tableVars, creating, found, can_augment, workVars, cleanerVars>>

BeginReception ==
    /\ phy_pc = "idle" /\ phy_pc' = "air"
    /\ UNCHANGED <<tableVars, creating, dest, size, found, can_augment, workVars,
                   cleanerVars>>

\* After a getter: the length is looked up once the MCS is known, and the loop
\* goes on as long as the MCS can be augmented and the data does not fit.
Got(mcs) ==
    /\ \/ phy_pc = "power" /\ phy_pc' = "mcs" /\ UNCHANGED found
       \/ /\ phy_pc = "mcs" /\ found' \in Fits(mcs, size)
          /\ phy_pc' = IF found' THEN "air" ELSE "augment"
       \/ phy_pc = "mcs_again" /\ phy_pc' = "power_again" /\ found' \in Fits(mcs, size)
       \/ /\ phy_pc = "power_again" /\ UNCHANGED found
          /\ phy_pc' = IF can_augment /\ ~found THEN "augment" ELSE "air"
    /\ UNCHANGED <<dest, size, can_augment, workVars, cleanerVars>>

Getting == phy_pc \in {"power", "mcs", "mcs_again", "power_again"}

\* dect_mac_node_get_tx_power and dect_mac_node_get_mcs find the node,
GetKnown ==
    /\ Getting /\ ~creating /\ Known(dest)
    /\ Set(dest, NodeOf(dest))
    /\ Got(NodeOf(dest).mcs)
    /\ UNCHANGED creating

\* or do not and leave node_mutex,
GetUnknown ==
    /\ Getting /\ ~creating /\ ~Known(dest)
    /\ creating' = TRUE
    /\ UNCHANGED <<tableVars, phy_pc, dest, size, found, can_augment, workVars,
                   cleanerVars>>

\* to create it with the default power and MCS, which they return.
GetCreates ==
    /\ creating /\ creating' = FALSE
    /\ CreateNode(dest)
    /\ Got(McsMax)

\* dect_mac_node_reduce_mcs(receiver, -1)
Augment ==
    /\ phy_pc = "augment" /\ phy_pc' = "boost"
    /\ IF Known(dest)
       THEN /\ can_augment' = ReduceOk(NodeOf(dest).mcs, -1)
            /\ Set(dest, [NodeOf(dest) EXCEPT !.mcs = ReducedMcs(@, -1)])
       ELSE can_augment' = FALSE /\ UNCHANGED tableVars
    /\ UNCHANGED <<creating, dest, size, found, workVars, cleanerVars>>

\* dect_mac_node_add_power(receiver, 1)
Boost ==
    /\ phy_pc = "boost" /\ phy_pc' = "mcs_again"
    /\ IF Known(dest)
       THEN Set(dest, [NodeOf(dest) EXCEPT !.tx_power = AddedPower(@, 1)])
       ELSE UNCHANGED tableVars
    /\ UNCHANGED <<creating, dest, size, found, can_augment, workVars, cleanerVars>>

Config == GetKnown \/ GetUnknown \/ GetCreates \/ Augment \/ Boost

\* What pcc_cb leaves in a node: the power and the MCS dect_mac_node_optimize
\* wants.  If it replies and the MCS is -1, the lookup of the length may fail
\* and tx_config augments the MCS once.
Links(r) ==
    {[tx_power |-> WantedPower(r), mcs |-> WantedMcs(r)]} \cup
    IF WantedMcs(r) = -1
    THEN {[tx_power |-> AddedPower(WantedPower(r), 1), mcs |-> 0]} ELSE {}

\* An unknown node is created first; if that fails, a reply tries again and has
\* the defaults.  In all cases the node was used.
Hear(a, r) ==
    IF Known(a)
    THEN \E link \in Links(r) :
            Set(a, [NodeOf(a) EXCEPT !.tx_power = link.tx_power, !.mcs = link.mcs])
    ELSE \/ \E link \in Links(r) : Insert(a, link.tx_power, link.mcs, TRUE)
         \/ InsertMayFail /\ Insert(a, TxPower, McsMax, TRUE)
         \/ InsertMayFail /\ UNCHANGED tableVars

\* A bug to catch: headers are handled while an operation is configured.
ReceiveAnytime(a, r) ==
    /\ Hear(a, r)
    /\ UNCHANGED <<phyVars, workVars, cleanerVars>>

\* pcc_cb, with the configuration of the reply it may send.
Receive(a, r) ==
    /\ phy_pc = "air"
    /\ Hear(a, r)
    /\ UNCHANGED <<phyVars, workVars, cleanerVars>>

\* A transmission that ends schedules the retransmission work.
Schedule ==
    /\ phy_pc = "air" /\ works < MaxWorks
    /\ works' = works + 1
    /\ UNCHANGED <<tableVars, phyVars, reducing, cleanerVars>>

Complete ==
    /\ phy_pc = "air" /\ phy_pc' = "idle"
    /\ dest' = NoAddress /\ size' = 0 /\ found' = FALSE /\ can_augment' = FALSE
    /\ UNCHANGED <<tableVars, creating, workVars, cleanerVars>>

Phy ==
    \/ \E a \in Addresses, bytes \in Sizes : Begin(a, bytes)
    \/ BeginReception
    \/ Config
    \/ \E a \in Addresses, r \in Receptions : Receive(a, r)
    \/ Schedule
    \/ Complete

-----------------------------------------------------------------------------
(***************************************************************************)
(* dect_mac_harq_retransmit: more power, then a lower MCS                  *)
(***************************************************************************)
WorkAddsPower(a, count) ==
    /\ works > 0 /\ works' = works - 1
    /\ reducing = NoAddress /\ reducing' = a
    /\ IF Known(a)
       THEN Set(a, [NodeOf(a) EXCEPT !.tx_power = AddedPower(@, count)])
       ELSE UNCHANGED tableVars
    /\ UNCHANGED <<phyVars, cleanerVars>>

WorkReducesMcs ==
    /\ reducing # NoAddress /\ reducing' = NoAddress
    /\ IF Known(reducing)
       THEN Set(reducing, [NodeOf(reducing) EXCEPT !.mcs = ReducedMcs(@, 1)])
       ELSE UNCHANGED tableVars
    /\ UNCHANGED <<works, phyVars, cleanerVars>>

Work ==
    \/ \E a \in Addresses, count \in 2 .. MaxTransmissions : WorkAddsPower(a, count)
    \/ WorkReducesMcs

-----------------------------------------------------------------------------
(***************************************************************************)
(* dect_mac_node_clean_unused_nodes.  The iterator is one node ahead of    *)
(* the node that is looked at, so the last one is dealt with after the     *)
(* loop.  Neither the walk nor the test of used holds node_mutex.          *)
(***************************************************************************)
Unvisited == {a \in Addresses : Known(a)} \ visited

\* The iterator goes to any entry it has not passed: nothing said of the order.
IteratorNext ==
    IF Unvisited = {} THEN following' = NoCell /\ UNCHANGED visited
    ELSE \E a \in Unvisited :
            following' = node_hashmap[a] /\ visited' = visited \cup {a}

\* The iterator of an empty table does not move.
WakeUp ==
    /\ clean_pc = "sleep" /\ clean_pc' = IF Unvisited = {} THEN "test" ELSE "next"
    /\ IteratorNext
    /\ UNCHANGED <<tableVars, phyVars, workVars, current, unset>>

\* Bugs to catch: the last node is left out, the iterator stays where it is.
CleanNextButLast ==
    /\ clean_pc = "next" /\ following # NoCell
    /\ IteratorNext
    /\ \/ following' # NoCell /\ clean_pc' = "visit" /\ current' = following
       \/ following' = NoCell /\ clean_pc' = "next" /\ UNCHANGED current
    /\ UNCHANGED <<tableVars, phyVars, workVars, unset>>

CleanNextStays ==
    /\ clean_pc = "next" /\ following # NoCell /\ clean_pc' = "visit"
    /\ current' = following
    /\ UNCHANGED <<tableVars, phyVars, workVars, following, unset, visited>>

CleanNext ==
    /\ clean_pc = "next" /\ following # NoCell /\ clean_pc' = "visit"
    /\ current' = following
    /\ IteratorNext
    /\ UNCHANGED <<tableVars, phyVars, workVars, unset>>

\* After the loop the table is not empty as long as the last node is in it.
\* After a walk that found no node it is tested as well, and a node may have
\* come in: the value of the iterator, which was never set, is then used.
CleanTests ==
    /\ clean_pc = "test"
    /\ IF \E a \in Addresses : Known(a)
       THEN clean_pc' = "visit" /\ unset' = TRUE /\ current' \in Cells \cup {Elsewhere}
       ELSE clean_pc' = "sleep" /\ UNCHANGED <<unset, current>>
    /\ UNCHANGED <<tableVars, phyVars, workVars, following, visited>>

CleanEnds ==
    /\ clean_pc = "next" /\ following = NoCell /\ clean_pc' = "sleep"
    /\ visited' = {}
    /\ UNCHANGED <<tableVars, phyVars, workVars, current, following, unset>>

\* What is read through a pointer: memory that is no node may hold anything.
UsedAt(c) == IF c \in allocated THEN {cell[c].used} ELSE BOOLEAN

AddressAt(c) ==
    IF c \in allocated THEN {cell[c].address} ELSE Addresses \cup {NoAddress}

\* A node that was used is kept and must be used again to be kept once more.
CleanVisit ==
    /\ clean_pc = "visit"
    /\ \/ /\ TRUE \in UsedAt(current)
          /\ cell' = [c \in Cells |-> IF c = current /\ c \in allocated
                                     THEN [cell[c] EXCEPT !.used = FALSE] ELSE cell[c]]
          /\ clean_pc' = "next" /\ current' = NoCell /\ unset' = FALSE
       \/ /\ FALSE \in UsedAt(current)
          /\ clean_pc' = "delete" /\ UNCHANGED <<cell, current, unset>>
    /\ UNCHANGED <<node_hashmap, allocated, phyVars, workVars, following, visited>>

\* Memory that is no node may not be there: the processor faults, and nothing
\* runs any more.
CleanFaults ==
    /\ clean_pc = "visit" /\ current = Elsewhere /\ clean_pc' = "fault"
    /\ current' = NoCell /\ unset' = FALSE
    /\ UNCHANGED <<tableVars, phyVars, workVars, following, visited>>

\* dect_mac_node_delete_node: what the map holds at that address is freed.
CleanDelete ==
    /\ clean_pc = "delete" /\ clean_pc' = "next"
    /\ current' = NoCell /\ unset' = FALSE
    /\ \E a \in AddressAt(current) :
          IF a \in Addresses /\ Known(a)
          THEN /\ node_hashmap' = [node_hashmap EXCEPT ![a] = NoCell]
               /\ allocated' = allocated \ {node_hashmap[a]}
               /\ cell' = [cell EXCEPT ![node_hashmap[a]] = Free]
          ELSE UNCHANGED tableVars
    /\ UNCHANGED <<phyVars, workVars, following, visited>>

Cleaner ==
    \/ WakeUp \/ CleanNext \/ CleanTests \/ CleanEnds
    \/ CleanVisit \/ CleanFaults \/ CleanDelete

Running == clean_pc # "fault"

Halted == ~Running /\ UNCHANGED vars

Next == (Running /\ (Phy \/ Work \/ Cleaner)) \/ Halted

Spec == Init /\ [][Next]_vars

\* The threads are scheduled; sleeping threads wake up.
Fairness ==
    /\ WF_vars(Running /\ Config)
    /\ WF_vars(Running /\ Work)
    /\ WF_vars(Cleaner)

FairSpec == Spec /\ Fairness

-----------------------------------------------------------------------------
(***************************************************************************)
(* Properties                                                              *)
(***************************************************************************)

\* Every node that was allocated is in the table, at its own address, and every
\* entry of the table is a node that was not freed: a getter that creates a
\* node after it left node_mutex does not overwrite one created meanwhile.
NodesAccounted ==
    /\ allocated = {node_hashmap[a] : a \in Addresses} \ {NoCell}
    /\ \A a \in Addresses : Known(a) => NodeOf(a).address = a

\* The cleaner holds pointers to nodes outside node_mutex, and none of them is
\* freed under it.  There is one pointer nothing is said of: the one it takes,
\* when a node comes in between a walk over an empty table and the test that
\* follows it, from an iterator that never moved (node.c:54-56).
CleanerReadsLiveNode ==
    {following} \cup (IF unset THEN {} ELSE {current}) \subseteq allocated \cup {NoCell}

\* A node that is used by nobody any more is deleted, the last of the table
\* like the others, unless the processor faulted.
Touched(a) ==
    /\ node_hashmap'[a] # NoCell
    /\ Known(a) => ~NodeOf(a).used /\ cell'[node_hashmap'[a]].used

ForgottenNodesGo ==
    \A a \in Addresses : <>[][~Touched(a)]_vars => <>[](Known(a) => ~Running)

\* tx_config ends, although retransmissions lower the MCS it raises and the
\* cleaner deletes the node it works on, unless the processor faults.
ConfigEnds == phy_pc \notin {"idle", "air"} ~> phy_pc = "air" \/ ~Running
=============================================================================
