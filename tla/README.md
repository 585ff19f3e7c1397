# DECT NR+ HARQ: specifications, model checking and proofs

TLA+ modules of the MAC layer in `src/` (Zephyr, C): the queue that gives the PHY
API one operation at a time, the handler and the callbacks around it, HARQ on top with
the node that answers, what the frames say, the application that starts it all, and the
table of the nodes it talks to. TLC checks small instances, TLAPS proves the safety
properties and the refinements for every size, under assumptions that section 4 names.

## 1. Inventory

The program runs in these contexts: `main` and the system work queue (buttons), the
put thread (priority 9), the exec thread (10), the thread of
`dect_mac_harq_work_queue` (8), the node cleaner (1), and interrupt context, where
the modem's callbacks and the timer run.

| Component | State | Operations | Works with |
|---|---|---|---|
| PHY handler queue, `dect_mac_phy_handler_queue.c` | item slab, message queue, node slab, sorted list, `queue_mutex`, `queue_item_sem`, `phy_layer_sem` | `dect_phy_queue_put` (any context), put thread, exec thread | called by everybody, calls the handler |
| Retry, same file | `current_node`, failure counter, timer | `..._operation_failed_retry`, timer callback | called by `op_complete_cb`, calls the handler from interrupt context |
| PHY handler, `dect_mac_phy_handler.c` | `current_state`, `device_id` | one function for each PHY operation, `start_modem`, `stop_modem`, `tx_config`, `rx_config` | calls the modem; reads and changes the node table |
| Callbacks, `dect_mac_phy_handler_cb.c` | `capabilities` | one for each event of the modem | give `phy_layer_sem`, schedule the retransmission work, call HARQ and the node table |
| HARQ, `dect_mac_harq.c` | `harq_processes`, `harq_process_occupied`, the works | `transmit`, the work handler, `retransmit`, `response`, `request`, take, give and init process | puts TX_RX operations; replies past the queue |
| Node table, `dect_mac_node.c` | hash map, mutex | create, delete, get and set, `optimize`, the cleaning thread | used by `tx_config`, `retransmit`, `pcc_cb` |
| HARQ, receiving side, same file | `buffer_size` of each process | `request`, soft buffer accounting, buffer status | called by `pcc_cb`, replies past the queue |
| Utilities, `dect_mac_utils.c` | the last modem time | packet length, modem time | used by the handler and HARQ |
| Application, `main.c` | - | `main`, `start_modem`, buttons, the permanent reception | puts operations, calls `rx_stop` |

What each must guarantee, and what makes it hard:

* **Queue.** No accepted operation is lost, doubled or overtaken by one of its own
  or a lower priority; the two semaphores agree with the list at every interleaving
  of clients, put thread and exec thread; slabs, message queue and list have the
  same size and none overflows; a put in interrupt context never waits.
* **Handler and callbacks.** The token of `phy_layer_sem` belongs to one operation
  from the exec thread's take to the callback that ends it: through the two halves
  of a TX_RX (told apart by a global variable that others write), through retries by
  a timer, and beside a reply that goes past the queue.
* **HARQ.** An occupied process is driven by exactly one thing, whatever the order
  of responses, delays and ends of transmissions; the data an operation points to is
  alive when it is sent; the number of transmissions is bounded; every message ends;
  the new data indication tells new messages from retransmissions.
* **Node table.** No node is lost or used after it was deleted; power and MCS stay
  in range.
* **Frames and the receiving side.** Every node takes a frame for what its sender meant;
  the length in the header is the smallest that holds the data, and the receiver reads the
  same table; a response tells the outcome, the process and the space that is left,
  through a `uint8_t`, a table of powers of two and two fields of a header.
* **Application.** Nobody waits for CAPABILITY_GET and INIT: that nothing else is
  executed before them rests on the order of the queue. The device listens again and
  again, whatever the buttons do.

`PROJECT.json` lists the hazards line by line with the properties that cover them.

## 2. Modules

| Module | Contents |
|---|---|
| `OpQueue` | abstract specification: what the queue promises to who puts operations |
| `PhyQueue` | the queue, one action for each step of a thread between two points where another may run; implements `OpQueue` |
| `DataLemmas` | facts about lists and minima that the proofs of several modules need |
| `PhyQueue_proofs` | the inductive invariant of `PhyQueue`, the theorems that follow, and that it implements `OpQueue` |
| `PhyHandler` | exec thread, `function_execute`, handler functions, callbacks, retry, reply; implements `OpQueue` too |
| `PhyHandler_proofs` | the same for `PhyHandler` |
| `Startup` | `PhyHandler` under `main`, `start_modem` and the buttons, with a modem that has to be started |
| `Startup_proofs` | that the modem is started before it is used, and that the token is never lost |
| `Frames` | packet lengths, headers, how `pcc_cb` sorts them, feedback and buffer status: operators only |
| `Receiver` | nodes that send, hear and answer frames, built from `Frames` |
| `Receiver_proofs` | what a frame is taken for and what a response says |
| `Delivery` | abstract specification: what HARQ promises to who sends a message |
| `Harq` | the sender's processes, retransmission work, responses |
| `HarqLink` | `Harq` with the radio and the node that answers, through `Frames`; implements `Delivery` |
| `HarqLink_proofs` | the inductive invariant of `HarqLink`, the theorems that follow, and that it implements `Delivery` |
| `HarqNewData` | `HarqLink` while others send requests, and what the new data indication tells the peer |
| `HarqNewData_proofs` | what of this survives the requests of others, and the indication |
| `NodeTable` | the hash map of nodes and all that reads and changes it, with the cleaning thread; power and MCS as operators |
| `NodeTable_proofs` | the inductive invariant of `NodeTable` and the theorems that follow |
| `MCPhyQueue`, `MCPhyHandler`, `MCStartup`, `MCReceiver`, `MCHarqNewData`, `MCNodeTable` | instances for TLC |

`PhyQueue` and `PhyHandler` both implement `OpQueue`: the first shows that the threads, slabs
and semaphores make a queue, the second uses that queue and shows that the callbacks serve
it. `Startup` extends `PhyHandler`, `HarqLink` extends `Harq` and takes the frames from
`Frames`.

### PhyQueue and the code

A client's `dect_phy_queue_put` is two steps: `PutAlloc` (slab and filling of the
block) and `PutSubmit` (message queue); `PutRefused` is the `NO_MEM_SLAB` return. The
put thread's `put_pc` follows its loop: get, copy, free, lock, alloc, insert, unlock,
give; `ended` is after one of its two `return`s, with or without the mutex. The exec
thread's `exec_pc`: phy, item, lock, dequeue, keep, unlock, run. `queue_item_sem`
loses a give at its limit. `PhyDone` stands for the callback that ends an operation;
what happens in between is the subject of `PhyHandler`. The blocks hold their
contents (`item_slab`), so a block reused too early would change an operation.

### PhyHandler and the code

The list is that of `OpQueue`. The exec thread's take, pick, reset of the counter,
save of `current_node` and start are separate steps, because callbacks come in
between. `modem` holds what the modem was given; `Answer` is any callback it may
make: completion (`SwitchToRx`, `OpComplete`), `INVALID_START_TIME` (`Late`), another
error (`Failed`), `CapabilityGot`, `RssiReport`, `RxStopped`. `CAPABILITY_GET` stands
for INIT, DEINIT and TIME_GET as well, whose handlers and callbacks have the same
shape. `FunctionExecute` may be refused by the modem, which the handlers only log.
`HarqRequest` is `pcc_cb` with a request: the reply goes straight to the modem and a
PLACEHOLDER, which starts nothing and so keeps the token until the reply's own
completion gives it back, goes to the queue. `StopRx` is what a button's `rx_stop` does
past the queue; it is part of `Startup`.

### Startup and the code

`main` is a sequence of its calls (`main_pc`). `dk_buttons_init` and `dk_leds_init` return
a value that is dropped, and the `err` that is tested after them was never set (main.c:119
to 131): `InitInputs` may go on or return, whatever they did. `Bring` is a call of
`start_modem` that may fail. The put of CAPABILITY_GET, INIT and the reception are
`MainPuts`; both of the first two answer like a `CAPABILITY_GET` of `PhyHandler`, and
`StartAnswered` notes what they brought. `Takes` says which operations the modem takes
before INIT; it takes them all after it, as a refusal keeps the PHY for ever (section 3).
A button is `PressTransmits`, whose message may be put or not, then `PressStops`: its handler runs in the
cooperative system work queue, so callbacks may come in between and the threads may not.

### Frames, Receiver and the code

`TxConfig` is the header `tx_config` writes, with the MCS and the length its search ends
with; a packet that is too big has length 16, which the four bits of the header make 0.
`Searches` says what the search may end with. It begins with any MCS the node table may
hold (`NodeMcs`, -1 and more than `mcs_max` included), and what the table of lengths says
of an MCS of -1 is anything. Its loop raises the MCS and reads it back in sections of their
own (handler.c:314 and 316): unless the node is left alone meanwhile (`left_alone`), a
retransmission lowers it or the cleaner deletes the node in between, and the search ends
with any MCS of the device, also one too low for data that would fit. An MCS of -1 that
the lookup takes goes out as 15 or 7. `IsRequest` and
`IsResponse` are the conditions of `pcc_cb`. `Feedback` packs what `union feedback_info`
has, and `ProcessIn`, `BitIn` and `StatusIn` read it. `RemoveBufferSpace` takes the bytes
modulo 256, as its `uint8_t` does.

In `Receiver` one frame is in the air at a time (`SendData`, `SendReply`); every other node
hears it (`Hear`), and a request makes it reply (`HarqRequest`). The channel quality and
whether the CRC is right are free. `sent` keeps what the sender meant.

### Harq and the code

`dect_mac_harq_transmit` is `TakeProcess`, `Malloc` or `MallocFails`, `Fill`,
`PutFirst`; the work handler is `WorkStarts`, `WorkChecks`, then `WorkCounts` and
`WorkPuts`, or `WorkFrees` and `WorkForgets`. Callbacks (`TxDone`, `Ack`, `Nack`,
`HarqRequest`) come in between. The work is scheduled in one place, at the switch of a
TX_RX to its reception (cb.c:60). An operation that never gets there leaves its process
occupied with nothing to send its message again: one that `dect_phy_queue_put` refuses
(`PutOp`), that comes too late more than `MAX_RETRY` times (`TxLate`, queue.c:273), that the
modem refuses or fails (`TxFails`, cb.c:33 and handler.c:217), or whose switch comes after
the `rx_stop` of another button press changed `current_state` (`TxStopped`, handler.c:251 and
cb.c:64). `Faults` says which of these may happen; `abandoned`, which is history, says for
which process the last operation ended so. A NACK that still comes revives it. After
`TxFails` and `RxFails` the PHY is not released either, and nothing more is sent. The buttons call `transmit` from the system work queue,
which is cooperative, so the work's thread does not run in the middle of it. An operation
in the queue is a copy of what the process said when it was put, with a pointer to its
data; `heap` says which blocks are allocated. In the thread of the work `give_process` is
two steps: `k_free`, and all the rest. The thread that could take the process before the
work is cancelled finds an idle work, and neither the put nor the exec thread can run
before the higher work queue thread goes on. Between the two steps a callback that
initialises the same process would free the data again (harq.c:361). `heap` is a set, in
which freeing twice leaves no trace, so `HeapAccounted`, which makes an exception for this
moment, also says that no response that would free the block is on its way then. With
requests of other nodes nothing keeps one from coming. `sent` is history.

### HarqLink, HarqNewData, Delivery and the code

The end of a transmission puts its frame in the `air`. It is lost, or the peer hears it:
`FeedbackTo` computes the feedback `dect_mac_harq_request` sends for a packet of `Size`
bytes with any MCS the search of `tx_config` may end with, `Response` reads it as `dect_mac_harq_response` does, and the response
goes to the process the feedback names. `LinkTxDone` is an end of transmission after
which the frame is in the air, `LinkTxFails` one after which none is. So the number of the process travels from the
operation through the header, the feedback and back. `got` says whether the peer has the
message. `Delivery` hides all of this: a message is accepted, sent up to `MaxTransmissions`
times, perhaps received, and its process is given back when the peer has it, when it was
sent often enough, or at once when there is no memory.

`HarqNewData` adds what the peer last heard of each process (`told`). The new data
indication alternates with the messages and not with what the peer hears: one message
that the peer misses, or that got no memory and so no frame, makes the next one look
like the last it heard. `told` is therefore forgotten when a message goes by unheard, and
`PeerTellsNew` promises nothing about the next one. This is a limit of a one bit
indication toggled at take_process (harq.c:332).

### NodeTable and the code

A section under `node_mutex` is one step. A getter of an unknown node is two,
`GetUnknown` and `GetCreates`, because the mutex is released in between.
`tx_config` is the sequence of its calls: power, MCS and first length, then the loop
`Augment`, `Boost`, MCS and length again, power again. `pcc_cb` is one step (`Receive`):
it optimises the node and, if it replies, reads it; `Links` says what it leaves. The PHY
is one actor, since `tx_config` runs with the token of `phy_layer_sem` and headers come
in while an operation is in the air. Where `PhyHandler` shows that token given early
(`Startup_early_give`), two getters could create the same node and the first one
would be lost: this is what the mutant `ReceiveAnytime` does to `NodesAccounted`.

A work of HARQ changes power and MCS in two steps. The cleaner (`WakeUp`, `CleanNext`,
`CleanVisit`, `CleanDelete`, `CleanTests`, `CleanEnds`) walks without the mutex, one node ahead of the
one it looks at, and tests `used` before it locks; its two visits, in the loop and after
it, have the same code and are the same actions. The iterator may go to any entry that
it has not passed, also one inserted meanwhile. An MCS of -1 indexes the table of lengths
out of bounds: `Fits` then returns anything.
After the loop the code tests whether the map is empty and, if not, uses the value of the
iterator (node.c:54-56). That value is the last node, except after a walk over an empty map
when a node came in before the test (`CleanTests`): the iterator never moved, and its value
is what the stack holds. `current` is then any cell, allocated or not, or other memory
(`Elsewhere`), and `unset` says so. What is read there is anything: the cleaner may clear a
flag, delete the node of any address, or fault (`CleanFaults`), which ends everything
(`Halted`). A write to other memory is left out: it is one byte made 0, of which the table
would know only by chance. `tx_power` is a `uint8_t`, so its sums are
taken modulo 256. Heap and hash map are external: `k_malloc` finds memory (the code does
not look at what it returns), the map may refuse an insertion.

## 3. Runs

| Run | Question | States |
|---|---|---|
| `PhyQueue_overload` | When the slabs run out, do blocks, nodes, list, mutex and semaphores agree, and is it still the queue of `OpQueue`? | 188,147 |
| `PhyQueue_nominal` | Within the load the slabs are made for, does every operation run? | 3,918 |
| `PhyHandler_faults` | With refusals, late answers and errors, is the token never given twice or early, do the halves of a TX_RX keep apart, does every operation get its own retries? | 33,568 |
| `PhyHandler_reply` | Do a reply past the queue and its PLACEHOLDER balance, and is the PHY always released? | 3,838 |
| `Startup_core` | Is the modem ready before it is used, can buttons, an RSSI measurement or retries take the token away, does the device listen again and again? | 129,950 |
| `HarqLink_core` | Over a radio that loses frames and responses, with puts refused and operations late for good: one driver for each process that was not cut off so, no freed data, bounded, ending, and the promise of `Delivery`? | 263,337 |
| `Harq_faults` | With requests of other nodes, no memory and all that may go wrong with an operation: still one driver, and does the peer tell new data from repeated? | 15,684 |
| `Receiver_core` | Is every frame taken as meant, does the packet hold its data or say that it does not, whatever MCS the table has and others make of it, does the response tell what happened? | 459,649 |
| `NodeTable_core` | While nodes are configured, heard, retransmitted to and cleaned at once: is none lost or read after its deletion, do unused ones go, does the loop over the MCS end? | 462,792 |

Three runs end in a counterexample; each shows a disagreement between the code and a
sentence of the repository, quoted in `findings`:

| Run | What the code does |
|---|---|
| `PhyQueue_exhausted` | node slab exhausted: the put thread returns with `queue_mutex` locked, everything stops |
| `Startup_early_give` | a second press of a button while the first message is transmitted: `rx_stop` overwrites `current_state`, the PHY is released at the switch of the TX_RX |
| `Harq_request` | a request resets the count of the local process of that number |

The constants that say what the environment does lead to further counterexamples; the
configurations above assume them away and a change of one line brings them back:

| Change | Violated | What the code does |
|---|---|---|
| `PhyHandler_reply`: `"late"` in `Outcomes` | `RetryRepeatsFailedOp`; the PHY is never released | a late reply makes the timer start `current_node`, another operation (queue.c:286) |
| `PhyHandler_reply`: `"refused"` in `Outcomes` | `TokenBalance`; never released | an operation the modem refuses is logged and never releases the PHY (handler.c:217), where `phy_handler_queue_exec.puml` retries it and gives back the semaphore |
| `PhyHandler_reply`: `stop` in `Users` | `TokenBalance`; never released | `rx_stop_cb` gives nothing (cb.c:85) |
| `PhyHandler_reply`: `Prompt = FALSE` | `TokenBalance`; never released | the second of two completions is lost at the limit of the semaphore (cb.c:69) |
| `PhyHandler_faults`: `rssi` in `Users` | `SemMeansDone` | the first report of a measurement releases the PHY (cb.c:82) |
| `Startup_core`: `Impatient = TRUE` | `StartedBeforeUsed` | a button pressed before `main` put CAPABILITY_GET is executed on a modem that is not started (main.c:122) |
| `Harq_request`: `LateReplies = TRUE`, `Requests = FALSE`, two blocks | `ProcessDrivenOnce`, `OpIsCurrent`, `HeapAccounted` | a late ACK frees data that a queued retransmission points to (harq.c:80) |
| `Harq_faults`: `OpIsCurrent` as an invariant | `OpIsCurrent` | a request frees the data of the local process of its number (harq.c:361) |
| `HarqLink_core` or `Harq_faults`: `ProcessDrivenOnce` or `EveryMessageEnds` without `abandoned` | both | a put that is refused (harq.c:142, 190), an operation given up (queue.c:273), refused (handler.c:217), failed (cb.c:45) or cut off by `rx_stop` (handler.c:251, cb.c:64) leaves its process occupied with nothing to drive it |
| `NodeTable_core`: `CleanerReadsLiveNode` without `unset` | `CleanerReadsLiveNode` | a node that comes in right after a walk over an empty map makes the cleaner use an iterator that never moved (node.c:54-56) |
| `Receiver_core`: `PacketHoldsData` without `left_alone` | `PacketHoldsData` | a retransmission lowers the MCS between handler.c:314 and 316, and data that would fit goes out with length 0 |
| `MCReceiver`: an address 0xff05 (65285) in `Addresses` | `FrameTakenAsMeant` | the test for a broadcast compares the high byte twice: a response to any address 0xffXX is taken by every node (cb.c:145) |
| `Receiver_core`: `McsMax = 3`, a size of 692 in `Boundaries` and `0 .. McsMax` for the MCS in the last part of the property | `PacketHoldsData` | MCS 2 holds 692 bytes, MCS 3 only 660: for data in between `tx_config`, which raises the MCS until the data fits, from MCS 3 finds none and writes length 0 (utils.c:38) |

### Bounds

* `PhyQueue`: two clients (two contexts that interleave in a put), two to four
  operations with a permanent one (in `overload` two of one priority, to tell which came
  first), two blocks. `MaxLoad` bounds the operations on
  their way (in a block, in the hands of a thread or in the list). At 4 with 2 blocks every limit is hit: message queue, both slabs,
  semaphore; at 2 (`nominal`) none is. Nothing in the code bounds the load.
* `PhyHandler`: one operation of each sort of function. `MaxRetry` is 1 or 2 instead
  of 10: the first, the last and, with 2, a retry between them. `MaxLoad` 3 gives an
  operation that runs, one that follows and one that overtakes. `MaxModem` bounds the
  operations in the modem; a reply, a TX_RX and one more fit. `FunctionExecute` waits
  at the bound, so it only cuts behaviours short.
* `Startup`: three puts after start-up, so that two buttons overlap with each other and
  with a measurement, and one retry. `MaxLoad` 4 holds what `main` puts and one more.
* `Harq`: two transmissions for each message: first, last, and both outcomes of the check;
  three in `Harq_faults`, where one is neither. `HarqLink_core` has two processes and two
  blocks. `Harq_faults` has one process, two blocks and a queue of two, so that an outdated
  operation and a new one of the process coexist. Processes share the heap, the queue and
  the two threads only, which `HarqLink_core` covers. `SoftBufSize` makes packets of the
  higher MCS too big for a process's buffer and those of the lower fit, so formats 1 and 6
  both occur. `Harq_faults` has all of `Faults`. `HarqLink_core` has a put
  that is refused and an operation that is given up, after which the PHY goes on; with
  `rx_stop` as well its properties hold too, on 492,657 states. It sets
  `CHECK_DEADLOCK FALSE` because the system may really stop: once every process is abandoned
  `take_process` finds none and nothing is left to happen.
* `Receiver`: the two addresses of `main.c` and a third that shares the low byte of the
  first; the sizes at and next to the ends of the rows of the table, 0 and one no packet
  holds; all MCS and four processes as in `prj.conf`. A request gives the process its whole
  buffer first, so no later frame depends on `buffer_size` and a VIEW leaves it out.
* `NodeTable`: two addresses, so that the iterator has a node behind it and a last one,
  and two cells, as many as the table may hold, so that one lost shows. `McsMax` 1, `Sizes` of 400 bytes,
  which fits an MCS of 1 only, and 750, which fits none, so the loop ends both ways. One
  work scheduled at once (`MaxWorks`), which adds a power of 2. One reception asks for
  full power and MCS 1, the other for less power and MCS -1.

### Fairness

Threads that can run do; the modem answers what it was given; timers expire.
`k_mutex_unlock` gives a contended mutex to the thread that waits, hence strong
fairness of the two lock steps of `PhyQueue`. In `Startup` main goes on and a button
that was pressed is served. In `Harq` and `HarqLink` the work queue is first in, first
out and runs when the cooperative sender stops, hence strong fairness of its steps; the PHY
takes a retransmission when it becomes free again and again. For each process one thing
waits at a time: its frame, the response to it, or the delay of its work. The delay elapses
after the other two (`LateReplies = FALSE`): `prj.conf` waits 200 ms, a frame and the
response that follows it take a few. In `NodeTable` the configuration goes on, the work queue runs and the cleaner wakes
up again and again: weak fairness of each. Nobody has to put, send or receive anything.
Strict priority does not promise that an operation of low priority runs while others
keep coming: `EveryOpRuns` is stated of systems in which puts stop and
`EveryMessageEnds` of users that let the PHY become free of first transmissions again
and again. `PhyHandler_reply` assumes `Prompt`: the
threads finish what they can before the next event of the modem. Without it, the
completions of a reception and of the reply may both come before the exec thread
runs, and the second give is lost at the limit of the semaphore (see the table above).

## 4. Proofs

Each `*_proofs` module names an inductive invariant, proves in a lemma for each of its
parts that every step keeps it, and derives the properties the runs check. TLC checked
every part on the instance of the run before it was proved. All invariants of the
passing runs are theorems, and so are the action property `RetryRepeatsFailedOp` and the three refinements.

| Module | Theorems | Assumed of the constants |
|---|---|---|
| `PhyQueue_proofs` | `DequeueFindsNode`, `ItemSemCountsList`, `NodesAccounted`, `BlocksOwnedOnce`, `QueueSorted`, `PutNeverBlocks`, `ImplementsOpQueue` | nothing beyond `QueueAssumption` |
| | `PutThreadSurvives` | `MaxLoad <= MaxItems`, which the property says itself |
| `PhyHandler_proofs` | `StateTellsHalf`, `SemMeansDone`, `RetriesBounded`, `RetryRepeatsFailedOp`, `TokenNeverDoubled`, `ImplementsOpQueue` | `Undisturbed` |
| | `TokenBalance`, `OneTransmission` | `Replying` |
| `Startup_proofs` | `StartedBeforeUsed` | `StartComesFirst` |
| | `TokenNeverLost` | `StartComesFirst`, `EveryOpGives` |
| `HarqLink_proofs` | `LinkTypeOK`, `TransmissionsBounded`, `HeapAccounted`, `OpIsCurrent`, `ProcessDrivenOnce`, `ImplementsDelivery` | nothing beyond `LinkAssumption` |
| `HarqNewData_proofs` | `PeerTellsNew`, `ProcessDrivenOnce` | nothing beyond `LinkAssumption` |
| `Receiver_proofs` | `ResponseTellsOutcome`, `StatusTellsSpace`, `PacketHoldsData` | nothing beyond `ReceiverAssumption` |
| | `FrameTakenAsMeant` | no address has the high byte 0xff |
| `NodeTable_proofs` | `TypeOK`, `NodesAccounted`, `CleanerReadsLiveNode` | nothing beyond `TableAssumption` |

Each assumption of the last column is the absence of a behaviour that the table of
changes in section 3 shows to break the property in the code as it is:

* `Undisturbed`: no other node asks for a reply and no RSSI measurement is put. Each report
  of a measurement gives `phy_layer_sem`, and a reply gives it beside the queue, so the
  token is balanced only by a PLACEHOLDER that comes in time. The modem may refuse an
  operation, answer late or with any error.
* `Replying`: the threads are done before the modem's next event, the modem answers "ok",
  users put operations whose completion gives the token once, and of these only
  those without a radio have the priority of a PLACEHOLDER. `dect_mac_harq_request` puts it
  with `PRIORITY_CRITICAL`, which the code gives otherwise only to INIT, DEINIT and
  CAPABILITY_GET.
* `StartComesFirst`: no button is pressed before `main` is done, and no operation has a
  higher priority than the two of `start_modem`, which are `PRIORITY_CRITICAL`, the
  highest there is.
* `EveryOpGives`: the modem reports no error but that an operation came too late, and
  nobody puts `RX_STOP`, `LINK_CONFIG` or a PLACEHOLDER, whose completion gives nothing. No
  code of the repository puts one of these except `dect_mac_harq_request` its PLACEHOLDER.
* The high byte 0xff, see the row of that address.

Three properties name their own exceptions instead, as the code leaves them no other way:
`ProcessDrivenOnce` a process whose operation was `abandoned`, `CleanerReadsLiveNode` the
pointer that is `unset`, and the last part of `PacketHoldsData` a node that was not left
alone. The rows of the table of changes show each exception to be real; the theorems say that
there is no other. A proof of `PacketHoldsData` that asked for the longest data any MCS of the
device holds did not go through for `McsMax = 3`, and the row for the MCS 2 and 3 shows why.

### The queue

That the exec thread finds a node (`DequeueFindsNode`) is not
inductive as it stands: it needs the count of `queue_item_sem` against the length of
the list (`ItemSemCountsList`), that no give is lost, which in turn needs the
semaphore below its limit and hence the count of nodes (`NodesAccounted`,
`node_used <= MaxItems`), and that the two threads are never both in the list
(`ListOwned`). The order of the list (`QueueSorted`) needs a lemma on `InsertAt`
(`InsertAtProperties`, `InsertKeepsSorted`). That `k_msgq_put` never waits follows
from `BlocksOwnedOnce`: the blocks in the message queue are distinct and are not the
caller's, so there are fewer of them than blocks. `PutThreadSurvives` adds one more
invariant, `LoadBounded`: an operation is counted once from the allocation of its
block to the release of its node, and because no node is lost or doubled the nodes can
be counted for the operations (`LoadIsNodeLoad`).

That the threads implement `OpQueue` is proved step by step: `PutSubmit` is an `Accept`,
`PutInsert` a `File`, the step that takes a node a `Start`, `PhyDone` a `Finish`; the rest
stutters. The list of what was accepted is spread over the message queue and the hands of
the put thread, so the step that matters is that of a block which changes hands: what it
holds must be what was put in it, which is `BlocksOwnedOnce` again.

`ListHasRoom` (`InsertFindsRoom`) and `OneToken` (`OneOperationAtATime`) are proved
although no run lists them.

### The handler and start-up

`IInv` of `PhyHandler_proofs` follows the token: it is in the semaphore, with the exec
thread, with the timer or with the one operation in the modem (`OneHolder`), and what the
modem or the timer has is `current_node` (`NodeSaved`). From the two follows that a retry is
of the operation that failed, that `current_state` speaks of the operation that
completes (`HalfKnown`) and that the counter is its own (`RetriesLeft`).

`OneHolder` fails with replies: the modem then has two operations. `ReplyInv` counts them
instead (`Balanced`): one if the token is neither in the semaphore nor with the exec thread,
and one more while a PLACEHOLDER is `Due`. The count is kept because

* no give is lost at the limit of the semaphore: the modem's next event finds the exec
  thread waiting for a token (`EventFindsThreadsIdle`);
* there is one PLACEHOLDER at a time (`OnePlaceholder`): while it is due nothing in the
  modem can hear another request (`QuietWhileDue`);
* nothing that transmits or listens is started ahead of it (`NothingOvertakes`), for the
  put thread files it behind operations without a radio only.

`Startup_proofs` cannot use `OneHolder` either: a button may overwrite `current_state`, the token
is then given early, and two operations are in the modem. What holds until the modem is started is
`StartPhase`: five phases, from waiting to put CAPABILITY_GET to both callbacks heard, in
each of which the operation that is next in the queue (`Nth`) or being served (`Serves`)
is known. If the modem refuses or fails one of the two, start-up stays in its phase for ever and nothing is
executed. What holds after it is `TokenHeld`: somebody has the token, and while
`current_state` says that a TX_RX transmits it is not with a reception alone, for the end of
that reception would be taken for the switch to it (cb.c:48), which gives nothing.

### HARQ

`DriveInv` says for each process that the operation in the queue, the one in the PHY, the
sender, the work's thread and the delay exclude each other (`Exclusive`), that one of them
is there if and only if it is occupied and not abandoned (`Driven`), and that the delay still runs while a frame or
its response is on the way (`Awaited`): this last part is what keeps an ACK from coming
while a retransmission is queued. On top of it `OpsCurrent` ties the operations to the
process, `Counted` ties the count of the process to the transmissions that were made, one
ahead from the step that increments it to the one that sends, and `HeapKnown` says who
answers for each block. With requests of other nodes only `DriveInv` is left, which
`HarqNewData_proofs` shows by extending the steps, and to which it adds what the peer was told.

That `HarqLink` implements `Delivery` rests on `AckMeansGot`, that an ACK is answered only for a
message the other node has, and on `Counted` for the steps that give up.

### Frames

`MadeOfSent` says that the header in the air was made of the parameters that `sent` keeps, and
`RepliesMade` that a reply answers a request that was heard. The theorems are then about
operators: that two bytes tell an address (`BytesTellAddress`), how the feedback is
packed and read, what the `uint8_t` keeps of a length, and a walk over the table of lengths
(`RaisedFits`: the first MCS that holds the data, or `mcs_max`).

### The node table

`NodesAccounted` and `CleanerReadsLiveNode` need more than they say:

* `CreatesUnknown`: between the two sections of a getter the node is still unknown, as
  nobody else inserts one and the cleaner only removes;
* `CleanerHolds`: a node the cleaner points to is the one the table has at its address,
  and that address was passed. So the node that is deleted, which is looked up by its
  address, is the one that was looked at, and the iterator, which goes to addresses that
  were not passed, never stands on it. While the pointer is `unset` there is no iterator
  (`following` is `NoCell`), so whatever it makes the cleaner delete leaves nothing dangling.

`Kept` says what the sections of the PHY and of the works have in common: the table stays
sound and the nodes the cleaner holds stay where they are. Every such section is shown to
be a change of one node (`SetKeeps`), an insertion at a free address (`InsertKeeps`) or
nothing.

### Left to model checking

* Liveness under fairness (`PhyReleased`, `ScanRecurs`, `EveryOpRuns`, `UrgentOpsRun`,
  `EveryMessageEnds`, `ForgottenNodesGo`, `ConfigEnds`), which is out of the prover's reach.

## 5. Not modelled

* Modem time (`dect_mac_utils.c`): every callback saves the time and keeps the latest;
  `dect_mac_utils_modem_time_now` has no caller, so nothing depends on it.
* `dect_mac_phy_handler_stop_modem` and `dect_mac_node_full_power` are called by nobody.
* The contents of messages and what the receiver does with data (it logs it), log
  messages, LEDs, time stamps, and the fields of headers that carry power, redundancy
  version and constants.
* `k_mutex_lock` in interrupt context (node.c:112 through `pcc_cb`) is undefined in Zephyr:
  a section under the mutex is one step of the model.
* A reply to a request that the modem refuses (handler.c:168) and a PLACEHOLDER that
  `dect_phy_queue_put` refuses (harq.c:60): each upsets the balance of the token as the rows
  of section 3 on refusals do. `HarqRequest` of `PhyHandler` has a reply that is taken and a
  PLACEHOLDER that is put.
* What an operation does that starts while the reception of a TX_RX cut off by `rx_stop`
  still goes on: in `Harq` that reception ends first; that the PHY is given early is in
  `Startup` and `Startup_early_give`.
* Process numbers at or above `CONFIG_HARQ_PROCESS_COUNT` in a received header
  (harq.c:16): all nodes are taken to have the same count.

## 6. Plan

1. Done: all modules of section 2, the runs, and the proofs of section 4.
2. Every safety invariant and refinement of the runs is proved. What is left is to ask
   less of the constants where a proof allows it, as `Undisturbed` does for
   `StateTellsHalf`, whose run has neither requests nor measurements.
