-------------------------- MODULE NodeTable_proofs --------------------------
(***************************************************************************)
(* Theorems about NodeTable: for any addresses, memory, sizes and          *)
(* receptions, no node is lost, and the cleaner reads no node that was     *)
(* freed.                                                                  *)
(***************************************************************************)
EXTENDS NodeTable, DataLemmas, TLAPS

\* A getter between its two sections under node_mutex has no node yet, and it
\* is the only one to insert nodes.
CreatesUnknown ==
    creating => /\ phy_pc \in {"power", "mcs", "mcs_again", "power_again"}
                /\ ~Known(dest)

\* A node the cleaner holds a pointer to is the one the table has at its
\* address, and that address was visited.
Held(c) ==
    /\ c \in allocated
    /\ cell[c].address \in visited
    /\ node_hashmap[cell[c].address] = c

CleanerHolds ==
    /\ current # NoCell /\ ~unset => Held(current)
    /\ following # NoCell => Held(following)
    /\ current # NoCell => current # following
    /\ current # NoCell <=> clean_pc \in {"visit", "delete"}
    /\ unset => following = NoCell /\ current # NoCell
    /\ clean_pc \in {"sleep", "test", "fault"} => following = NoCell

\* Whoever configures a transmission has a receiver.
HasReceiver == phy_pc \notin {"idle", "air"} => dest \in Addresses

IInv ==
    /\ TypeOK /\ HasReceiver /\ NodesAccounted /\ CreatesUnknown /\ CleanerHolds

-----------------------------------------------------------------------------
(***************************************************************************)
(* Power and MCS stay in range                                             *)
(***************************************************************************)

\* The power that is asked for is one this device can transmit with.
LEMMA WantedPowerInRange == ASSUME NEW r \in Reception PROVE WantedPower(r) \in 2 .. 13
<1> DEFINE wanted == Dbm[r.level] - (r.rssi - RssiTarget - TxPowerMargin)
           S == {l \in Levels : Dbm[l] >= wanted} \cup {13}
<1>1. S \in SUBSET Nat /\ S # {} /\ S \subseteq 2 .. 13
  BY DEF Levels
<1>2. Min(S) \in S
  BY <1>1, MinProperties
<1> QED
  BY <1>1, <1>2 DEF WantedPower

\* Max(S), for a set between -1 and 4, is in S.
LEMMA WantedMcsInRange == ASSUME NEW r \in Reception PROVE WantedMcs(r) \in -1 .. 4
<1> DEFINE S == {m \in 0 .. 4 : SnrOf[m] <= r.snr} \cup {-1}
           T == {4 - m : m \in S}
<1>1. T \in SUBSET Nat /\ T # {} /\ S \subseteq -1 .. 4
  OBVIOUS
<1>2. PICK x \in T : \A y \in T : x <= y
  BY <1>1, HasMinimum
<1>3. PICK m \in S : x = 4 - m
  OBVIOUS
<1>4. \A n \in S : 4 - n \in T
  OBVIOUS
<1>5. \A n \in S : m >= n
  <2> TAKE n \in S
  <2>1. x <= 4 - n
    BY <1>2, <1>4
  <2> QED
    BY <1>1, <1>3, <2>1
<1>6. Max(S) \in S
  BY <1>5 DEF Max
<1> QED
  BY <1>1, <1>6 DEF WantedMcs

\* More power, or less than none, is power this device can transmit with.
LEMMA AddedPowerInRange ==
    ASSUME NEW power \in 0 .. 13, NEW n \in Int
    PROVE  AddedPower(power, n) \in 0 .. 13
BY TableAssumption DEF AddedPower

\* An MCS that is changed is still one of the standard.
LEMMA ReducedMcsInRange ==
    ASSUME NEW mcs \in -1 .. 4, NEW n \in Int
    PROVE  ReducedMcs(mcs, n) \in -1 .. 4
BY TableAssumption DEF ReducedMcs

\* So are those of every link.
LEMMA LinksInRange ==
    ASSUME NEW r \in Receptions, NEW link \in Links(r)
    PROVE  link.tx_power \in 0 .. 13 /\ link.mcs \in -1 .. 4
<1>1. r \in Reception
  BY TableAssumption
<1>2. WantedPower(r) \in 0 .. 13 /\ WantedMcs(r) \in -1 .. 4
  BY <1>1, WantedPowerInRange, WantedMcsInRange
<1>3. AddedPower(WantedPower(r), 1) \in 0 .. 13
  BY <1>2, AddedPowerInRange
<1> QED
  BY <1>2, <1>3 DEF Links

-----------------------------------------------------------------------------
(***************************************************************************)
(* What the PHY and the works do to the table                              *)
(***************************************************************************)
TableType ==
    /\ node_hashmap \in [Addresses -> Cells \cup {NoCell}]
    /\ allocated \subseteq Cells
    /\ cell \in [Cells -> Node \cup {Free}]
    /\ \A c \in allocated : cell[c] \in Node

\* A step of theirs leaves the table sound, and the nodes the cleaner holds
\* where they are.
Kept == TableType' /\ NodesAccounted' /\ (\A c : Held(c) => Held(c)')

\* The cell of a known node is one of its own.
LEMMA KnownNode ==
    ASSUME TableType, NodesAccounted, NEW a \in Addresses, Known(a)
    PROVE  /\ node_hashmap[a] \in allocated /\ node_hashmap[a] \in Cells
           /\ NodeOf(a) \in Node /\ NodeOf(a).address = a
           /\ \A b \in Addresses : node_hashmap[b] = node_hashmap[a] => a = b
BY DEF TableType, NodesAccounted, Known, NodeOf

\* A section that changes a node it found keeps the table.
LEMMA SetKeeps ==
    ASSUME TableType, NodesAccounted, NEW a \in Addresses, Known(a),
           NEW node \in Node, node.address = a, Set(a, node), visited' = visited
    PROVE  Kept /\ node_hashmap' = node_hashmap
<1> DEFINE used == [node EXCEPT !.used = TRUE]
<1>1. used \in Node /\ used.address = a
  BY DEF Node
<1>2. /\ node_hashmap' = node_hashmap /\ allocated' = allocated
      /\ cell' = [cell EXCEPT ![node_hashmap[a]] = used]
  BY DEF Set
<1>3. node_hashmap[a] \in allocated /\ node_hashmap[a] \in Cells
  BY KnownNode
<1> HIDE DEF used
<1>4. TableType'
  BY <1>1, <1>2, <1>3 DEF TableType
<1>5. \A c \in Cells : cell'[c].address = cell[c].address \/ c = node_hashmap[a]
  BY <1>2 DEF TableType
<1>6. cell'[node_hashmap[a]].address = a /\ cell[node_hashmap[a]].address = a
  BY <1>1, <1>2, <1>3, KnownNode DEF TableType, NodeOf
<1>7. NodesAccounted'
  BY <1>2, <1>5, <1>6 DEF NodesAccounted, TableType, Known, NodeOf
<1>8. \A c : Held(c) => Held(c)'
  BY <1>2, <1>5, <1>6 DEF Held, TableType
<1> QED
  BY <1>2, <1>4, <1>7, <1>8 DEF Kept

\* A section that creates a node keeps it, if the address has none yet.
LEMMA InsertKeeps ==
    ASSUME TableType, NodesAccounted, NEW a \in Addresses, ~Known(a),
           NEW power \in 0 .. 13, NEW mcs \in -1 .. 4, NEW used \in BOOLEAN,
           Insert(a, power, mcs, used), visited' = visited
    PROVE  Kept
<1> DEFINE c == CHOOSE c \in Cells : c \notin allocated
           node == [address |-> a, used |-> used, tx_power |-> power, mcs |-> mcs]
<1>1. c \in Cells /\ c \notin allocated
  BY DEF Insert, TableType
<1>2. node \in Node /\ node.address = a
  BY DEF Node
<1>3. /\ allocated' = allocated \cup {c}
      /\ cell' = [cell EXCEPT ![c] = node]
      /\ node_hashmap' = [node_hashmap EXCEPT ![a] = c]
  BY DEF Insert
<1>4. c # NoCell /\ node_hashmap[a] = NoCell
  BY <1>1, TableAssumption DEF Known
<1> HIDE DEF c, node
<1>5. TableType'
  BY <1>1, <1>2, <1>3 DEF TableType
<1>6. /\ cell'[c].address = a /\ node_hashmap'[a] = c
      /\ \A d \in Cells \ {c} : cell'[d] = cell[d]
      /\ \A b \in Addresses \ {a} : node_hashmap'[b] = node_hashmap[b]
  BY <1>1, <1>2, <1>3 DEF TableType
<1>7. \A b \in Addresses \ {a} : node_hashmap[b] # c
  BY <1>1, <1>4 DEF NodesAccounted
<1>8. NodesAccounted'
  <2>1. allocated' = {node_hashmap'[b] : b \in Addresses} \ {NoCell}
    BY <1>3, <1>4, <1>6 DEF NodesAccounted
  <2>2. \A b \in Addresses :
           node_hashmap'[b] # NoCell => cell'[node_hashmap'[b]].address = b
    BY <1>6, <1>7 DEF NodesAccounted, TableType, Known, NodeOf
  <2> QED
    BY <2>1, <2>2 DEF NodesAccounted, Known, NodeOf
<1>9. \A d : Held(d) => Held(d)'
  <2> SUFFICES ASSUME NEW d, Held(d) PROVE Held(d)'
    OBVIOUS
  <2>1. d \in Cells /\ d # c /\ cell[d] \in Node
    BY <1>1 DEF Held, TableType
  <2>2. cell[d].address # a
    BY <1>4, <2>1, TableAssumption DEF Held
  <2>3. cell[d].address \in Addresses
    BY <2>1 DEF Node
  <2> QED
    BY <1>3, <1>6, <2>1, <2>2, <2>3 DEF Held
<1> QED
  BY <1>5, <1>8, <1>9 DEF Kept

\* A section that finds no node keeps the table.
LEMMA NothingKeeps ==
    ASSUME TableType, NodesAccounted, UNCHANGED tableVars, visited' = visited
    PROVE  Kept
BY DEF TableType, NodesAccounted, Known, NodeOf, Held, Kept, tableVars

\* A getter, which only marks the node it found as used, keeps the table.
LEMMA GetKeeps ==
    ASSUME IInv, GetKnown
    PROVE  Kept /\ node_hashmap' = node_hashmap
<1>1. TableType /\ NodesAccounted /\ dest \in Addresses
  BY DEF IInv, TypeOK, TableType, HasReceiver, GetKnown, Getting
<1>2. Known(dest) /\ Set(dest, NodeOf(dest)) /\ visited' = visited
  BY DEF GetKnown, Got, cleanerVars
<1>3. NodeOf(dest) \in Node /\ NodeOf(dest).address = dest
  BY <1>1, <1>2, KnownNode
<1> QED
  BY <1>1, <1>2, <1>3, SetKeeps

\* So does one that found none: nobody created it meanwhile.
LEMMA CreateKeeps ==
    ASSUME IInv, GetCreates
    PROVE  Kept
<1>1. TableType /\ NodesAccounted /\ dest \in Addresses /\ ~Known(dest)
  BY DEF IInv, TypeOK, TableType, HasReceiver, CreatesUnknown, GetCreates
<1>2. CreateNode(dest) /\ visited' = visited
  BY DEF GetCreates, Got, cleanerVars
<1>3. TxPower \in 0 .. 13 /\ McsMax \in -1 .. 4
  BY TableAssumption
<1>4. CASE UNCHANGED tableVars
  BY <1>1, <1>2, <1>4, NothingKeeps
<1>5. CASE Insert(dest, TxPower, McsMax, FALSE)
  BY <1>1, <1>2, <1>3, <1>5, InsertKeeps
<1> QED
  BY <1>2, <1>4, <1>5 DEF CreateNode

\* A node whose power or MCS changes keeps its address.
LEMMA ChangeKeeps ==
    ASSUME TableType, NodesAccounted, NEW a \in Addresses, Known(a),
           NEW power \in 0 .. 13, NEW mcs \in -1 .. 4,
           Set(a, [NodeOf(a) EXCEPT !.tx_power = power, !.mcs = mcs]),
           visited' = visited
    PROVE  Kept /\ node_hashmap' = node_hashmap
<1> DEFINE node == [NodeOf(a) EXCEPT !.tx_power = power, !.mcs = mcs]
<1>1. NodeOf(a) \in Node /\ NodeOf(a).address = a
  BY KnownNode
<1>2. node \in Node /\ node.address = a
  BY <1>1 DEF Node
<1> QED
  BY <1>2, SetKeeps

\* What is raised or lowered in a node keeps the table.
LEMMA PowerKeeps ==
    ASSUME TableType, NodesAccounted, NEW a \in Addresses, Known(a), NEW n \in Int,
           Set(a, [NodeOf(a) EXCEPT !.tx_power = AddedPower(@, n)]),
           visited' = visited
    PROVE  Kept /\ node_hashmap' = node_hashmap
<1> DEFINE node == [NodeOf(a) EXCEPT !.tx_power = AddedPower(@, n)]
<1>1. NodeOf(a) \in Node /\ NodeOf(a).address = a
  BY KnownNode
<1>2. AddedPower(NodeOf(a).tx_power, n) \in 0 .. 13
  BY <1>1, AddedPowerInRange DEF Node
<1>3. node \in Node /\ node.address = a
  BY <1>1, <1>2 DEF Node
<1> QED
  BY <1>3, SetKeeps

LEMMA McsKeeps ==
    ASSUME TableType, NodesAccounted, NEW a \in Addresses, Known(a), NEW n \in Int,
           Set(a, [NodeOf(a) EXCEPT !.mcs = ReducedMcs(@, n)]),
           visited' = visited
    PROVE  Kept /\ node_hashmap' = node_hashmap
<1> DEFINE node == [NodeOf(a) EXCEPT !.mcs = ReducedMcs(@, n)]
<1>1. NodeOf(a) \in Node /\ NodeOf(a).address = a
  BY KnownNode
<1>2. ReducedMcs(NodeOf(a).mcs, n) \in -1 .. 4
  BY <1>1, ReducedMcsInRange DEF Node
<1>3. node \in Node /\ node.address = a
  BY <1>1, <1>2 DEF Node
<1> QED
  BY <1>3, SetKeeps

\* A header that comes in keeps the table.
LEMMA HearKeeps ==
    ASSUME TableType, NodesAccounted, NEW a \in Addresses, NEW r \in Receptions,
           Hear(a, r), visited' = visited
    PROVE  Kept
<1>1. TxPower \in 0 .. 13 /\ McsMax \in -1 .. 4
  BY TableAssumption
<1>2. CASE Known(a)
  <2>1. PICK link \in Links(r) :
          Set(a, [NodeOf(a) EXCEPT !.tx_power = link.tx_power, !.mcs = link.mcs])
    BY <1>2 DEF Hear
  <2> QED
    BY <1>2, <2>1, LinksInRange, ChangeKeeps
<1>3. CASE ~Known(a)
  <2>1. CASE \E link \in Links(r) : Insert(a, link.tx_power, link.mcs, TRUE)
    BY <1>3, <2>1, LinksInRange, InsertKeeps
  <2>2. CASE Insert(a, TxPower, McsMax, TRUE)
    BY <1>1, <1>3, <2>2, InsertKeeps
  <2>3. CASE UNCHANGED tableVars
    BY <2>3, NothingKeeps
  <2> QED
    BY <1>3, <2>1, <2>2, <2>3 DEF Hear
<1> QED
  BY <1>2, <1>3

\* Every step of the PHY and of a work keeps the table, and leaves the cleaner
\* alone.
LEMMA TableKept ==
    ASSUME IInv, Phy \/ Work
    PROVE  Kept /\ UNCHANGED cleanerVars
<1>1. TableType /\ NodesAccounted /\ TypeOK
  BY DEF IInv, TypeOK, TableType
<1>2. UNCHANGED cleanerVars
  BY DEF Phy, Config, Work, Begin, BeginReception, Got, GetKnown, GetUnknown,
     GetCreates, Augment, Boost, Receive, Schedule, Complete, WorkAddsPower,
     WorkReducesMcs
<1>3. visited' = visited
  BY <1>2 DEF cleanerVars
<1>4. CASE UNCHANGED tableVars
  BY <1>1, <1>2, <1>3, <1>4, NothingKeeps
<1>5. CASE GetKnown
  BY <1>2, <1>5, GetKeeps
<1>6. CASE GetCreates
  BY <1>2, <1>6, CreateKeeps
<1>7. CASE Augment
  <2>1. dest \in Addresses
    BY <1>7 DEF Augment, IInv, HasReceiver
  <2>2. CASE Known(dest)
    <3>1. Set(dest, [NodeOf(dest) EXCEPT !.mcs = ReducedMcs(@, -1)])
      BY <1>7, <2>2 DEF Augment
    <3> QED
      BY <1>1, <1>2, <1>3, <2>1, <2>2, <3>1, McsKeeps
  <2> QED
    BY <1>4, <1>7, <2>2 DEF Augment
<1>8. CASE Boost
  <2>1. dest \in Addresses
    BY <1>8 DEF Boost, IInv, HasReceiver
  <2>2. CASE Known(dest)
    <3>1. Set(dest, [NodeOf(dest) EXCEPT !.tx_power = AddedPower(@, 1)])
      BY <1>8, <2>2 DEF Boost
    <3> QED
      BY <1>1, <1>2, <1>3, <2>1, <2>2, <3>1, PowerKeeps
  <2> QED
    BY <1>4, <1>8, <2>2 DEF Boost
<1>9. CASE \E a \in Addresses, r \in Receptions : Receive(a, r)
  BY <1>1, <1>2, <1>3, <1>9, HearKeeps DEF Receive
<1>10. CASE \E a \in Addresses, count \in 2 .. MaxTransmissions : WorkAddsPower(a, count)
  <2>1. PICK a \in Addresses, count \in 2 .. MaxTransmissions : WorkAddsPower(a, count)
    BY <1>10
  <2>2. count \in Int
    BY TableAssumption
  <2>3. CASE Known(a)
    <3>1. Set(a, [NodeOf(a) EXCEPT !.tx_power = AddedPower(@, count)])
      BY <2>1, <2>3 DEF WorkAddsPower
    <3> QED
      BY <1>1, <1>2, <1>3, <2>2, <2>3, <3>1, PowerKeeps
  <2> QED
    BY <1>4, <2>1, <2>3 DEF WorkAddsPower
<1>11. CASE WorkReducesMcs
  <2>1. reducing \in Addresses
    BY <1>1, <1>11 DEF WorkReducesMcs, TypeOK
  <2>2. CASE Known(reducing)
    <3>1. Set(reducing, [NodeOf(reducing) EXCEPT !.mcs = ReducedMcs(@, 1)])
      BY <1>11, <2>2 DEF WorkReducesMcs
    <3> QED
      BY <1>1, <1>2, <1>3, <2>1, <2>2, <3>1, McsKeeps
  <2> QED
    BY <1>4, <1>11, <2>2 DEF WorkReducesMcs
<1> QED
  BY <1>4, <1>5, <1>6, <1>7, <1>8, <1>9, <1>10, <1>11
     DEF Phy, Config, Work, Begin, BeginReception, GetUnknown, Schedule, Complete

-----------------------------------------------------------------------------
(***************************************************************************)
(* The cleaner                                                             *)
(***************************************************************************)

\* The node the iterator goes to is in the table, at an address it had not
\* passed before, and it is passed now.
LEMMA IteratorHolds ==
    ASSUME TableType, NodesAccounted, visited \subseteq Addresses, IteratorNext
    PROVE  /\ visited \subseteq visited' /\ visited' \subseteq Addresses
           /\ following' \in Cells \cup {NoCell}
           /\ following' # NoCell =>
                 /\ following' \in allocated
                 /\ node_hashmap[cell[following'].address] = following'
                 /\ cell[following'].address \in visited'
                 /\ cell[following'].address \notin visited
<1>1. CASE following' = NoCell /\ UNCHANGED visited
  BY <1>1
<1>2. CASE \E a \in Unvisited :
              following' = node_hashmap[a] /\ visited' = visited \cup {a}
  <2>1. PICK a \in Unvisited : following' = node_hashmap[a] /\ visited' = visited \cup {a}
    BY <1>2
  <2>2. a \in Addresses /\ Known(a) /\ a \notin visited
    BY <2>1 DEF Unvisited
  <2>3. /\ node_hashmap[a] \in allocated /\ node_hashmap[a] \in Cells
        /\ cell[node_hashmap[a]].address = a
    BY <2>2, KnownNode DEF NodeOf
  <2> QED
    BY <2>1, <2>2, <2>3
<1> QED
  BY <1>1, <1>2 DEF IteratorNext

\* What a step of the cleaner must preserve.
CleanInv ==
    /\ TableType /\ NodesAccounted /\ CleanerHolds
    /\ clean_pc \in CleanPcs /\ unset \in BOOLEAN
    /\ current \in Cells \cup {NoCell, Elsewhere} /\ following \in Cells \cup {NoCell}
    /\ visited \subseteq Addresses

\* The iterator is one node ahead and never on a node it has passed: a walk
\* deletes the node behind it, and no other.
LEMMA CleanerKeeps ==
    ASSUME CleanInv, Cleaner
    PROVE  CleanInv' /\ UNCHANGED <<phyVars, workVars>>
           /\ \A a \in Addresses : ~Known(a) => ~Known(a)'
<1> USE DEF CleanInv, CleanPcs
<1>1. ASSUME UNCHANGED tableVars
      PROVE  TableType' /\ NodesAccounted' /\ \A a \in Addresses : ~Known(a) => ~Known(a)'
  BY <1>1 DEF TableType, NodesAccounted, Known, NodeOf, tableVars
<1>2. CASE WakeUp
  <2>1. UNCHANGED <<tableVars, current, unset>> /\ current = NoCell /\ ~unset
    BY <1>2 DEF WakeUp, CleanerHolds
  <2>2. clean_pc' \in {"next", "test"} /\ (clean_pc' = "test" => following' = NoCell)
    BY <1>2 DEF WakeUp, IteratorNext
  <2>3. CleanerHolds'
    BY <1>2, <2>1, <2>2, IteratorHolds DEF WakeUp, CleanerHolds, Held, tableVars
  <2> QED
    BY <1>1, <1>2, <2>1, <2>2, <2>3, IteratorHolds DEF WakeUp
<1>3. CASE CleanNext
  <2>1. UNCHANGED tableVars /\ current' = following /\ following \in Cells /\ ~unset'
    BY <1>3 DEF CleanNext, CleanerHolds
  <2>2. CleanerHolds'
    <3>1. Held(current)' /\ cell[current'].address \in visited
      BY <1>3, <2>1, IteratorHolds DEF CleanNext, CleanerHolds, Held, tableVars
    <3>2. following' # NoCell => Held(following)' /\ current' # following'
      BY <1>3, <2>1, <3>1, IteratorHolds DEF CleanNext, Held, tableVars
    <3> QED
      BY <1>3, <2>1, <3>1, <3>2, TableAssumption DEF CleanNext, CleanerHolds
  <2> QED
    BY <1>1, <1>3, <2>1, <2>2, IteratorHolds DEF CleanNext
<1>4. CASE CleanEnds
  <2>1. CleanerHolds'
    BY <1>4 DEF CleanEnds, CleanerHolds
  <2> QED
    BY <1>1, <1>4, <2>1 DEF CleanEnds
<1>5. CASE CleanTests
  <2>1. UNCHANGED <<tableVars, phyVars, workVars, following, visited>>
        /\ following = NoCell /\ current = NoCell /\ ~unset
    BY <1>5 DEF CleanTests, CleanerHolds
  <2>2. CASE \E a \in Addresses : Known(a)
    <3>1. clean_pc' = "visit" /\ unset' = TRUE /\ current' \in Cells \cup {Elsewhere}
      BY <1>5, <2>2 DEF CleanTests
    <3>2. CleanerHolds'
      BY <2>1, <3>1, TableAssumption DEF CleanerHolds
    <3> QED
      BY <1>1, <2>1, <3>1, <3>2
  <2>3. CASE ~\E a \in Addresses : Known(a)
    <3>1. clean_pc' = "sleep" /\ UNCHANGED <<unset, current>>
      BY <1>5, <2>3 DEF CleanTests
    <3>2. CleanerHolds'
      BY <2>1, <3>1 DEF CleanerHolds
    <3> QED
      BY <1>1, <2>1, <3>1, <3>2
  <2> QED
    BY <2>2, <2>3
<1>6. CASE CleanVisit
  <2>1. current # NoCell /\ (unset \/ Held(current))
        /\ (unset => following = NoCell)
        /\ UNCHANGED <<node_hashmap, allocated, following, visited, phyVars, workVars>>
    BY <1>6 DEF CleanVisit, CleanerHolds
  <2>2. CASE /\ cell' = [c \in Cells |-> IF c = current /\ c \in allocated
                                        THEN [cell[c] EXCEPT !.used = FALSE] ELSE cell[c]]
             /\ clean_pc' = "next" /\ current' = NoCell /\ unset' = FALSE
    <3> DEFINE Cleared(c) == [cell[c] EXCEPT !.used = FALSE]
    <3>1. \A c \in allocated : Cleared(c) \in Node /\ Cleared(c).address = cell[c].address
      BY DEF TableType, Node
    <3>2. cell' = [c \in Cells |-> IF c = current /\ c \in allocated
                                 THEN Cleared(c) ELSE cell[c]]
      BY <2>2
    <3> HIDE DEF Cleared
    <3>3. TableType'
      BY <2>1, <3>1, <3>2 DEF TableType
    <3>4. \A c \in Cells : cell'[c].address = cell[c].address
      BY <3>1, <3>2
    <3>5. NodesAccounted'
      BY <2>1, <3>4 DEF NodesAccounted, Known, NodeOf, TableType
    <3>6. following # NoCell => Held(following)'
      BY <2>1, <3>4 DEF CleanerHolds, Held
    <3>7. CleanerHolds'
      BY <2>1, <2>2, <3>6 DEF CleanerHolds
    <3> QED
      BY <2>1, <2>2, <3>3, <3>5, <3>7 DEF Known
  <2>3. CASE clean_pc' = "delete" /\ UNCHANGED <<cell, current, unset>>
    <3>1. CleanerHolds'
      BY <1>6, <2>1, <2>3 DEF CleanVisit, CleanerHolds, Held
    <3> QED
      BY <1>1, <2>1, <2>3, <3>1 DEF tableVars
  <2> QED
    BY <1>6, <2>2, <2>3 DEF CleanVisit
<1>7. CASE CleanFaults
  <2>1. UNCHANGED tableVars /\ UNCHANGED <<phyVars, workVars, following, visited>>
        /\ clean_pc' = "fault" /\ current' = NoCell /\ unset' = FALSE
    BY <1>7 DEF CleanFaults
  <2>2. unset /\ following = NoCell
    BY <1>7, TableAssumption DEF CleanFaults, CleanerHolds, Held, TableType
  <2>3. CleanerHolds'
    BY <2>1, <2>2 DEF CleanerHolds
  <2> QED
    BY <1>1, <2>1, <2>3
<1>8. CASE CleanDelete /\ UNCHANGED tableVars
  <2>1. /\ UNCHANGED <<phyVars, workVars, following, visited>>
        /\ clean_pc' = "next" /\ current' = NoCell /\ unset' = FALSE
    BY <1>8 DEF CleanDelete
  <2>2. CleanerHolds'
    BY <1>8, <2>1 DEF CleanerHolds, Held, tableVars
  <2> QED
    BY <1>1, <1>8, <2>1, <2>2
<1>9. CASE CleanDelete /\ ~UNCHANGED tableVars
  <2>1. PICK a \in AddressAt(current) :
           /\ a \in Addresses /\ Known(a)
           /\ node_hashmap' = [node_hashmap EXCEPT ![a] = NoCell]
           /\ allocated' = allocated \ {node_hashmap[a]}
           /\ cell' = [cell EXCEPT ![node_hashmap[a]] = Free]
    BY <1>9 DEF CleanDelete
  <2> DEFINE gone == node_hashmap[a]
  <2>2. /\ clean_pc' = "next" /\ current' = NoCell /\ unset' = FALSE
        /\ UNCHANGED <<phyVars, workVars, following, visited>>
    BY <1>9 DEF CleanDelete
  <2>3. gone \in allocated /\ gone \in Cells /\ gone # NoCell
    BY <2>1, KnownNode, TableAssumption
  <2>4. following = NoCell \/ gone = current
    <3> SUFFICES ASSUME following # NoCell PROVE gone = current
      OBVIOUS
    <3>1. Held(current)
      BY <1>9 DEF CleanDelete, CleanerHolds
    <3> QED
      BY <2>1, <3>1 DEF Held, AddressAt
  <2> HIDE DEF gone
  <2>5. TableType'
    BY <2>1, <2>3 DEF TableType, gone
  <2>6. /\ \A b \in Addresses \ {a} :
             node_hashmap'[b] = node_hashmap[b] /\ node_hashmap[b] # gone
        /\ node_hashmap'[a] = NoCell
    BY <2>1, <2>3, KnownNode DEF TableType, gone
  <2>7. NodesAccounted'
    <3>1. allocated' = {node_hashmap'[b] : b \in Addresses} \ {NoCell}
      BY <2>1, <2>3, <2>6 DEF NodesAccounted, gone
    <3>2. \A b \in Addresses :
             node_hashmap'[b] # NoCell => cell'[node_hashmap'[b]].address = b
      BY <2>1, <2>6 DEF NodesAccounted, TableType, Known, NodeOf, gone
    <3> QED
      BY <3>1, <3>2 DEF NodesAccounted, Known, NodeOf
  <2>8. following # NoCell => Held(following)'
    <3> SUFFICES ASSUME following # NoCell PROVE Held(following)'
      OBVIOUS
    <3>1. Held(following) /\ following # gone /\ following \in Cells
      BY <1>9, <2>4 DEF CleanDelete, CleanerHolds
    <3>2. cell'[following] = cell[following] /\ cell[following] \in Node
      BY <2>1, <3>1 DEF TableType, Held, gone
    <3>3. cell[following].address \in Addresses \ {a}
      BY <2>1, <3>1, <3>2 DEF Node, Held, gone
    <3> QED
      BY <2>1, <2>2, <2>6, <3>1, <3>2, <3>3 DEF Held, gone
  <2>9. CleanerHolds'
    BY <2>2, <2>8 DEF CleanerHolds
  <2>10. \A b \in Addresses : ~Known(b) => ~Known(b)'
    BY <2>6 DEF Known
  <2> QED
    BY <2>2, <2>5, <2>7, <2>9, <2>10
<1> QED
  BY <1>2, <1>3, <1>4, <1>5, <1>6, <1>7, <1>8, <1>9 DEF Cleaner

-----------------------------------------------------------------------------
(***************************************************************************)
(* The invariant and what it gives                                         *)
(***************************************************************************)

\* The invariant, apart from the table and the cleaner.
PhyInv ==
    /\ phy_pc \in PhyPcs
    /\ {creating, found, can_augment} \subseteq BOOLEAN
    /\ dest \in Addresses \cup {NoAddress} /\ size \in Sizes \cup {0}
    /\ works \in 0 .. MaxWorks /\ reducing \in Addresses \cup {NoAddress}

\* A packet holds the data or it does not.
LEMMA FitsBoolean ==
    ASSUME NEW mcs, size \in Sizes \cup {0}
    PROVE  Fits(mcs, size) \subseteq BOOLEAN
<1>1. CASE mcs \in 0 .. 4
  <2>1. Capacity[mcs] \in Int /\ size \in Int
    BY <1>1, TableAssumption DEF Capacity
  <2>2. (size <= Capacity[mcs]) \in BOOLEAN
    BY <2>1
  <2> QED
    BY <1>1, <2>2, Zenon DEF Fits
<1> QED
  BY <1>1, Zenon DEF Fits

\* A reduction is OK or it is not.
LEMMA ReduceBoolean == ASSUME NEW mcs, NEW n PROVE ReduceOk(mcs, n) \in BOOLEAN
BY DEF ReduceOk

\* The steps of the PHY and of the works follow the order of their own calls.
LEMMA PhyType ==
    ASSUME PhyInv, HasReceiver, Phy \/ Work
    PROVE  PhyInv' /\ HasReceiver'
<1> USE TableAssumption DEF PhyInv, HasReceiver, PhyPcs, phyVars, workVars
<1>1. ASSUME NEW mcs, Got(mcs), creating' \in BOOLEAN
      PROVE  PhyInv' /\ HasReceiver'
  <2>1. Fits(mcs, size) \subseteq BOOLEAN
    BY FitsBoolean
  <2>2. found' \in BOOLEAN
    BY <1>1, <2>1 DEF Got
  <2>3. phy_pc' \in PhyPcs /\ phy_pc \in {"power", "mcs", "mcs_again", "power_again"}
    BY <1>1 DEF Got
  <2>4. UNCHANGED <<dest, size, can_augment, works, reducing>>
    BY <1>1 DEF Got
  <2> QED
    BY <1>1, <2>2, <2>3, <2>4
<1>2. CASE GetKnown
  BY <1>1, <1>2 DEF GetKnown
<1>3. CASE GetCreates
  BY <1>1, <1>3 DEF GetCreates
<1>4. CASE GetUnknown
  BY <1>4 DEF GetUnknown
<1>5. CASE Augment
  <2>1. ReduceOk(NodeOf(dest).mcs, -1) \in BOOLEAN
    BY ReduceBoolean
  <2>2. can_augment' \in BOOLEAN
    BY <1>5, <2>1 DEF Augment
  <2>3. /\ phy_pc' = "boost" /\ dest \in Addresses
        /\ UNCHANGED <<creating, dest, size, found, workVars>>
    BY <1>5 DEF Augment
  <2> QED
    BY <2>2, <2>3
<1>6. CASE Boost
  BY <1>6 DEF Boost
<1>7. CASE \E a \in Addresses, bytes \in Sizes : Begin(a, bytes)
  BY <1>7 DEF Begin
<1>8. CASE BeginReception
  BY <1>8 DEF BeginReception
<1>9. CASE \E a \in Addresses, r \in Receptions : Receive(a, r)
  BY <1>9 DEF Receive
<1>10. CASE Schedule
  BY <1>10 DEF Schedule
<1>11. CASE Complete
  BY <1>11 DEF Complete
<1>12. CASE \E a \in Addresses, count \in 2 .. MaxTransmissions : WorkAddsPower(a, count)
  BY <1>12 DEF WorkAddsPower
<1>13. CASE WorkReducesMcs
  BY <1>13 DEF WorkReducesMcs
<1> QED
  BY <1>2, <1>3, <1>4, <1>5, <1>6, <1>7, <1>8, <1>9, <1>10, <1>11, <1>12, <1>13
     DEF Phy, Config, Work

\* Between the two sections of a getter nobody creates the node: headers come
\* in when no operation is configured.
LEMMA CreatesAlone ==
    ASSUME IInv, Phy \/ Work, TableType'
    PROVE  CreatesUnknown'
<1> USE DEF CreatesUnknown
<1>1. creating => phy_pc \in {"power", "mcs", "mcs_again", "power_again"} /\ ~Known(dest)
  BY DEF IInv
<1>2. CASE GetUnknown
  BY <1>2 DEF GetUnknown, Getting, Known, tableVars
<1>3. CASE GetKnown \/ GetCreates
  BY <1>3 DEF GetKnown, GetCreates
<1>4. CASE Augment \/ Boost
  BY <1>1, <1>4 DEF Augment, Boost
<1>5. CASE \E a \in Addresses, bytes \in Sizes : Begin(a, bytes)
  BY <1>1, <1>5 DEF Begin
<1>6. CASE BeginReception \/ Schedule \/ Complete
  BY <1>1, <1>6 DEF BeginReception, Schedule, Complete, phyVars
<1>7. CASE \E a \in Addresses, r \in Receptions : Receive(a, r)
  BY <1>1, <1>7 DEF Receive, phyVars
<1>8. CASE Work
  <2>1. node_hashmap' = node_hashmap /\ UNCHANGED phyVars
    BY <1>8 DEF Work, WorkAddsPower, WorkReducesMcs, Set, tableVars
  <2> QED
    BY <1>1, <2>1 DEF phyVars, Known
<1> QED
  BY <1>2, <1>3, <1>4, <1>5, <1>6, <1>7, <1>8 DEF Phy, Config

\* The invariant is the conjunction of its parts.
LEMMA IInvParts ==
    IInv <=> PhyInv /\ HasReceiver /\ CreatesUnknown /\ CleanInv
BY DEF IInv, PhyInv, CleanInv, TypeOK, TableType

\* The first state has no node.
LEMMA InitHolds == Init => IInv
<1> SUFFICES ASSUME Init PROVE IInv
  OBVIOUS
<1> USE TableAssumption DEF Init
<1>1. TypeOK
  <2>1. {creating, found, can_augment} \subseteq BOOLEAN
    BY Zenon
  <2>2. phy_pc \in PhyPcs /\ clean_pc \in CleanPcs /\ unset \in BOOLEAN
    BY DEF PhyPcs, CleanPcs
  <2>3. TableType
    BY DEF TableType
  <2>4. /\ dest \in Addresses \cup {NoAddress} /\ size \in Sizes \cup {0}
        /\ works \in 0 .. MaxWorks /\ reducing \in Addresses \cup {NoAddress}
        /\ current \in Cells \cup {NoCell, Elsewhere} /\ following \in Cells \cup {NoCell}
        /\ visited \subseteq Addresses
    OBVIOUS
  <2> QED
    BY <2>1, <2>2, <2>3, <2>4, Zenon DEF TypeOK, TableType
<1>2. NodesAccounted
  BY DEF NodesAccounted, Known
<1>3. HasReceiver /\ CreatesUnknown
  BY DEF HasReceiver, CreatesUnknown
<1>4. CleanerHolds
  BY DEF CleanerHolds
<1> QED
  BY <1>1, <1>2, <1>3, <1>4 DEF IInv

\* Every step keeps the invariant.
LEMMA StepHolds == IInv /\ [Next]_vars => IInv'
<1> SUFFICES ASSUME IInv, [Next]_vars PROVE IInv'
  OBVIOUS
<1>1. CASE Phy \/ Work
  <2>1. Kept /\ UNCHANGED cleanerVars
    BY <1>1, TableKept
  <2>2. PhyInv' /\ HasReceiver' /\ CreatesUnknown'
    BY <1>1, <2>1, PhyType, CreatesAlone, IInvParts DEF Kept
  <2>3. CleanerHolds'
    BY <2>1 DEF IInv, CleanerHolds, Kept, cleanerVars
  <2>4. CleanInv'
    BY <2>1, <2>3, IInvParts DEF CleanInv, Kept, cleanerVars
  <2> QED
    BY <2>2, <2>4 DEF IInv, PhyInv, CleanInv, TypeOK, TableType
<1>2. CASE Cleaner
  <2>1. CleanInv' /\ UNCHANGED <<phyVars, workVars>>
        /\ \A a \in Addresses : ~Known(a) => ~Known(a)'
    BY <1>2, CleanerKeeps, IInvParts
  <2>2. PhyInv' /\ HasReceiver'
    BY <2>1, IInvParts DEF PhyInv, HasReceiver, phyVars, workVars
  <2>3. CreatesUnknown'
    <3>1. creating => dest \in Addresses
      BY DEF IInv, CreatesUnknown, HasReceiver
    <3> QED
      BY <2>1, <3>1 DEF IInv, CreatesUnknown, phyVars, Known
  <2> QED
    BY <2>1, <2>2, <2>3 DEF IInv, PhyInv, CleanInv, TypeOK, TableType
<1>3. CASE UNCHANGED vars
  BY <1>3 DEF IInv, TypeOK, HasReceiver, NodesAccounted, CreatesUnknown, CleanerHolds,
     Held, Known, NodeOf, vars, tableVars, phyVars, workVars, cleanerVars
<1> QED
  BY <1>1, <1>2, <1>3 DEF Next, Halted

\* The invariant holds in every state.
LEMMA Invariant == Spec => []IInv
BY InitHolds, StepHolds, PTL DEF Spec

\* No counter, level or MCS (-1 is one of them) leaves its range, and the table, the memory and the
\* nodes fit together, for every target and margin of the configuration.
THEOREM TypeCorrect == Spec => []TypeOK
<1>1. IInv => TypeOK
  BY DEF IInv
<1> QED
  BY <1>1, Invariant, PTL

\* No node is lost and no entry dangles, whatever the cleaner deletes between
\* the two sections of a getter.
THEOREM NodesAreAccounted == Spec => []NodesAccounted
<1>1. IInv => NodesAccounted
  BY DEF IInv
<1> QED
  BY <1>1, Invariant, PTL

\* The pointers the cleaner keeps from one step to the next are to nodes that
\* were not freed, except the one it may take from an iterator that never moved.
THEOREM CleanerReadsLiveNodes == Spec => []CleanerReadsLiveNode
<1>1. IInv => CleanerReadsLiveNode
  BY DEF IInv, TypeOK, CleanerHolds, Held, CleanerReadsLiveNode
<1> QED
  BY <1>1, Invariant, PTL
=============================================================================
