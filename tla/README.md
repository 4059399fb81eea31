# Bluetooth offload on the watch's DSP: specification and proofs

The repository holds the low power side of a watch. Three processors share a
Bluetooth controller: the application processor (Android, with the Bluetooth HALs),
the ADSP (`src/non_HLOS/adsp_proc`) and the watch processor
(`src/non_HLOS/wm_proc`, Zephyr). The program's own core is *offload*: a Bluetooth socket
or a GATT session opened by Android is handed to the ADSP, whose small Bluetooth stack (the
*microstack*) carries its data to and from a *microapp* on the watch processor,
while the application processor sleeps. This directory specifies, in TLA+, that protocol and
what it runs on: the data path, Bluetooth on and off, the arbiter that lets two
hosts use one controller, and the scheduler of the microstack. The specifications are checked
with TLC, and the invariants that matter most are proved with TLAPS.

Paths below are relative to `src/non_HLOS`; `bt` is `adsp_proc/bt`, `wm` is
`wm_proc/productsw/btsw/bt`.

## Inventory

| Component | State it keeps | Operations | Talks to | Hard behaviour | What makes it correct |
|---|---|---|---|---|---|
| Offload manager: `bt/offload_mgr/main`, `sm`, `socket_mgr` | `offload_instances[9]`: state of a table-driven machine, socket id, connection id, endpoint | open, close, confirmations of the BMM, answers of microapps | one QuRT pipe in; BMM, transport and HAL out | requests, confirmations and answers in any order; lookups by ids that go stale | each socket in one instance; lookups find it; every request answered |
| Profile managers for LE CoC and RFCOMM: `bt/offload_mgr/profile_mgr/src` | none | translate requests and confirmations | offload manager, BMM | an indication without a case | never assert |
| Endpoint manager: `bt/offload_mgr/endpt_mgr` | none | messages of the microapps | offload manager | answers that name no socket | every answer finds its instance |
| GATT profile manager: `bt/offload_mgr/profile_mgr/gatt` | endpoints, services, sessions, one pending operation each | register, unregister, clear, operations | same instances; GATT task, watch, HAL | three tables pointing into each other; answers to sessions that are gone | tables, instances and microstack correspond; every context answered once |
| GATT task: `bt/microstack/bt/core_stack/gatt` (offload) | offloaded services, a queue for each connection | enable, disable, operations | offload manager, remote device | requests behind an operation; link loss | each service has the list last asked for |
| GATT managers of the watch: `wm/lpai_bt_app_mgr/gatt` | sessions, buffers in use | offload, unoffload, responses | microapps, offload manager | a context is the address of a buffer | nothing freed twice, never NULL |
| BMM: `bt/microstack/bt/microstack_mgr` | `gBmm.socket[4]`, subscriptions | offload, close, set parameters, stop | pipe of the offload manager, L2CAP, RFCOMM, HCI arbiter | reuse of entries and ids; link violations | table consistent; nothing closed from under its owner |
| BMM data path: `bmm_data.c`, with `core_stack/l2cap` | transmit window, receive queue, credits | write, confirm, read, acknowledge | L2CAP, RFCOMM | window full, credits at zero, segmentation | no lost or doubled data, credits conserved |
| Bluetooth state manager: `bt/offload_mgr/bt_state_mgr`, `bmm_btoff_event.c`, `bt_main.c` | `bt_on_mode`, retry count | on, off, subsystem restart | everything | three threads, stop polled by a timer | an off ends in everything stopped, once |
| HCI arbiter and shim: `bt/microstack/bt/hci` | three locks, saved commands, scan state machine | command, event, house cleaning | both hosts, controller | commands crossing answers; one scan for two hosts | one host at a time; each answer to its asker; nothing stranded |
| Scheduler: `bt/microstack/frw/gsp/src/sched` | task queues, external queue, event bits, timer list | put, get, timers, background interrupts, stop | all tasks and foreign threads | wake-ups lost between check and wait; a clock that wraps | no message lost, none late or early |
| Application manager: `wm/lpai_bt_app_mgr` | registered endpoints | route to the microapp | transport | unknown endpoint | every open answered |
| Microapps: `wm/lpai_bt_microapps` | two slots and a count each | opened, closed, deinit | application manager | Bluetooth off with sockets open | count equals slots, nothing survives an off |
| LPAI transport: `bt/glink`, `wm/lpai_transport` | channel states | open, send, receive | glink | remote restart, retries | in-order, reopened after a crash |
| Transport shim: `offload_mgr_transport_shim.c` | one shared buffer, pointer to the arbiter | frame, send | HALs, arbiter | pointer cleared while it is used | nobody posts to a stopped stack |
| LE advertising and scan managers | sets, filters | enable, disable | HCI | out-of-order HCI events | one owner per set |
| H4 in-band sleep, IPC | link state, rings | wake, sleep | controller | both sides wake at once | nothing is sent to a sleeper |
| Display and watch offload managers | handshake | offload display | glink router | lost handshake | both sides agree who draws |
| Heap, island, WLAN GPIO, drivers, Android | | | | | out of scope, see `PROJECT.json` |

The components, with their sources and what is modelled of each, are listed in `PROJECT.json`; so
are the hazards, at the line where each bites.

### The socket protocol in one page

    HAL                 offload manager           BMM            microapp
     | open                  |                     |                 |
     |---------------------->| OffloadReq          |                 |
     |                       |---- OFFLOAD_REQ --->|                 |
     |                       |<--- OFFLOAD_CFM ----| (connection id) |
     |                       | ToMicrostackSuccess |                 |
     |                       |------------- OPEN_REQ --------------->|
     |                       |<------------ OPEN_RES ----------------|
     |                       | ToMicroappSuccess   |                 |
     |<---- open rsp --------|-- SET_PARAMS_REQ -->|                 |
     | close                 |                     |                 |
     |---------------------->| FromHAL             |                 |
     |                       |------------- CLOSE_REQ -------------->|
     |                       | ReqToMicrostack     |                 |
     |                       |----- CLOSE_REQ ---->|                 |
     |                       |<---- CLOSE_CFM -----|                 |
     |<---- close rsp -------| UnoffloadSuccess, then Idle           |

A refusal of the BMM leads to `OffloadFailure`; a refusal of the microapp first
closes the connection (`OffloadToMicroappFailure`). A GATT session goes through the same
states of the same table: the service is enabled at the microstack in place of the offload request,
and the close of the watch processor is confirmed, not mocked.

## Modules

| Module | Models | Shape |
|---|---|---|
| `OffloadMgrSm` | the transition table of an offload instance | constant definitions, used by sockets and GATT alike |
| `OffloadChannels` | the four queues of socket offload and their messages, connection ids | constants, message sets, types |
| `OffloadMgr` | instances of sockets, handlers | one action per pipe message; `Enter` is the run to completion |
| `Bmm` | socket table | one action per primitive, and `LinkViolation` |
| `MicroApps` | slots, counts, application manager | one action per request and outcome |
| `SocketOffload` | the whole of socket offload, with the HAL | composition, properties, fairness |
| `OffloadService` | what the HAL is promised | abstract specification, refined by `SocketOffload` |
| `MicroAppPower` | the microapps over Bluetooth off and on | `MicroApps` with a small environment |
| `BmmTransmit` | transmit path of a socket: windows of the BMM for RFCOMM and LE CoC, segmentation, credits and confirmations of L2CAP | one action per message or per branch of its handler |
| `LecocReceive` | receive path of an LE CoC socket: reassembly and the two credit counts of L2CAP, receive queue of the BMM, answers of the offload manager | the same |
| `BtState` | Bluetooth on, off, subsystem restart and the crash of the HAL, over the glink thread, the offload manager thread and the microstack thread | one action per message or callback; a thread that blocks has a named place to wait in |
| `HciCmdArb` | the HCI command arbiter, the LE scan arbitration, the routing of events | one action per message of the arbiter task and of the DM_HCI task; both hosts and the controller external |
| `SchedTimers` | timers of the scheduler on a clock that wraps | one action per call and per step of the scheduler's loop |
| `SchedMessages` | messages, event bits, background interrupts and stop of the scheduler | one action per critical section |
| `GattChannels`, `GattMgr`, `GattStack`, `GattOffload` | GATT offload: queues; tables and instances of the profile manager; offloaded services of the GATT task; the watch processor, the HAL and the whole | one action per message; composition and properties in `GattOffload` |
| `MCSocketOffload`, `MCGattOffload` | offers, endpoints and buffers for TLC | the modules the runs use |
| `SocketOffloadProofs` | proofs about `SocketOffload` and that it refines `OffloadService` | theorems and lemmas |
| `BmmTransmitProofs`, `LecocReceiveProofs` | proofs about the two directions of the data path | theorems and lemmas |
| `BtStateProofs` | proofs about Bluetooth on and off | theorems and lemmas |
| `HciCmdArbProofs` | proofs about the HCI arbiter | theorems and lemmas |
| `SchedTimersProofs`, `SchedMessagesProofs` | proofs about the scheduler | theorems and lemmas |
| `DataLemmas` | what those proofs need of data: induction up to a bound, loops as recursive functions, counting the places of a sequence | lemmas |

How they fit together. The socket modules and the data path modules meet in the socket table: `Bmm` has the life of an
entry, `BmmTransmit` and `LecocReceive` what is in it while it is open. They are not composed, since the data
path never changes an entry but to mark it in error, which `Bmm` has as `LinkViolation`. Sockets and GATT
sessions share `OffloadMgrSm` and the pool of instances, but an instance of either kind
takes nothing from the other except its place in the pool; running out of it is in the runs of both. `BtState` reduces all
of that to one flag, `live`, and asks who may wipe the tables when. The queues of all these modules
are those of `SchedMessages` (within the microstack), the pipe, or glink.

### How the state corresponds to the code

Sockets:

* `state[i]`, `socketId[i]`, `pseudoId[i]`, `socketType[i]`, `epId[i]` are the fields of
  `offload_instances[i]` (`offload_instance.h:110-119`). Going idle does not clear
  `socketId` and `pseudoId` in the code, nor does it in the model; that is where the stale ids come
  from. Indices start at 1.
* The machine runs to completion: an entry function that raises an event from
  inside enters the next state before it returns. `Rest(s)` is the state
  in which this ends, `ToBmm`, `ToUapp` and `ToHal` what is sent on the way. The close of the
  microapp is answered by a mock in `socket_mgr_unoffload_req_to_microapp`
  (`socket_mgr.c:228-243`), so `UnOffloadReqFromHAL` is never at rest.
* A connection id is the record of its three fields; `IdSpace` is 2^16 in the
  code, a small number in the runs so that ids can collide.
* `sock[k]` is `gBmm.socket[k]`. Buffers, filters, MTUs and credits in number are abstracted; the
  checks of the request's parameters are the choice between
  `HandleOffloadReq` and `RefuseOffloadReq`.
* `slot[a]`, `inUse[a]` are `socketDetails` and `socketsInUse` of a microapp.
* `hal[s]` is external: the HAL is not in the repository. It opens a socket it does not hold,
  closes one it holds once, and reads answers in order. With `EarlyClose` it may close before
  its open is answered, which the offload manager provides for
  (rows `OffloadReq`/`UNOFFLOAD_REQ` and `OffloadToMicrostackSuccess`/`UNOFFLOAD_REQ`).

Data path:

* In `BmmTransmit`, `sock` is one `gBmm.socket[k]` with its `BmmLecocConnInst` or
  `BmmRfcommConnInst`, which differ in that only the former counts confirmed lengths per slot. `pending` is
  `txPendingContext`; `sduQ` is the list at `cb_flow->tx_head`, `txQ` and `txDone` the queues of
  the same names of the connection, `txCredits` is `cb_flow->tx_credits`. Lengths are in segments, and so is the MTU: a request of RFCOMM fits into one
  frame, one of LE CoC into `Mtu` segments, and the BMM refuses a longer one (`MTU_VIOLATION`). RFCOMM reports each frame it passes on
  with a confirmation of status `RFC_DATAWRITE_PENDING`, which the BMM ignores. `LOCAL_ABORTED` (`bmm_data.c:284`) cannot occur: L2CAP gives it to data above
  the MTU, which does not get so far, and to a list of aborted data that nobody fills. A
  completed segment is confirmed with its own length; a flushed one with the
  whole SDU or with nothing, as `CB_FLOW_FlushQueue` and `CH_FlushPendingQueueWithCid` do.
  `txCount` keeps its 16 bits, and `WindowAssumption` says that the window fits into them.
* In `LecocReceive`, `flow` is `CB_FLOWINFO_T`: `rx`, `app` and `tot` are `rx_credits`, `app_rx_credits`
  and `tot_rx_credits`, `packets` the frames of the SDU being put together. `app` is only
  reduced when an SDU is complete, and its sum wraps at 16 bits before it is compared with
  `tot`, both as in the code. `grant` is what was granted and has not arrived. The peer is external;
  `peer.honest` records that it has kept to the rules so far.

Bluetooth on and off (`BtState`):

* `thread` says where the offload manager thread waits, for instance in `MicroStackStop` until the scheduler's thread has
  ended; `inst` is `schedInstance` with the state of its thread; `glink` is "past the test" between the two
  reads of the arbiter pointer in `offload_mgr_transport_shim.c:228`, `arbiter` that pointer.
* `chnlState[c]` is `channel->chnl_state`. The event in the pipe holds a pointer to the channel, so
  its state is read when the event is handled, not when it was posted (`lpai_transport.c:504`). `link` is what glink knows.
* The modes keep the numbers of their enumeration because `offload_mgr_client_interface_init` casts one to `bool`.
* `hal` is external. It may ask for a mode that is none (`HalAsksOther`), which on and off ignore without an answer. A HAL that replaces a dead one enables Bluetooth only after the DSP has handled what the dead one asked for (`HalEnables`). Without
  this assumption two enables can be in the pipe at once and `NothingLeftOver` fails with a third life of the HAL, one more than in the run.
* `timers` and `retryCount` are the polling of the stop in `bmm_btoff_event.c`; the count is static and survives the microstack.

HCI arbiter (`HciCmdArb`):

* `arb` is `hciCmdArbData` and `hciBleScanArb`: `micro`, `primary`, `spl` are the three locks, `count` the counted one
  (`uint8_t`), `saved` the two queues of saved commands, `sm` the scan state machine. `arbq` and `dmq` are the queues of the two
  tasks, so a command that arrives while an answer is between them is seen where it really is.
* `for` in a message names who asked. The code does not know it, no guard reads it, and the properties compare it with where the
  answer goes.
* `seen` is a history variable: an event that answers no command released a lock (`early`), the primary stack had several commands under
  way (`pipelined`), the byte that counts their locks came round to zero (`wrapped`), it sent a peripheral command (`peri`), the loop that restores saved commands did not end (`hung`), the scan state machine ran
  (`arbitrated`). The properties say from which of these each guarantee is excepted.

Scheduler (`SchedTimers`, `SchedMessages`):

* `timerList`, `lastNow`, `currentWrapCount` are the thread's; `now` is the clock modulo `Period`. `epoch`, `seen` and the field `due` of a timer are
  history: the wraps that really happened, which the code can only infer by comparing the clock with its last look.
  `active` is the flag of a container, `timerFreeList` the free ones.
* `bits` is the event of the thread and `taken` what the last wait returned; `extMsgQueue` and `messageQueue` are the queues; `signalling` holds
  the outside threads between the unlock of the queue and the set of the event bit. `handler[i]` is `bgint[i].handler`. `sent`, `handled`,
  `passedOver`, `owed` and `badCall` are history.

GATT (`GattMgr`, `GattStack`, `GattOffload`):

* `uapp` is `gatt_uapp`, `svc` the `svc_list` of each endpoint, `sess` the sessions of each service, `inst[i]` an offload instance: its state and the slot that
  `gatt_session` points at. A session stands for its characteristics: an enable request carries the set of the
  sessions whose characteristics the service is to have. `sess[x].ctx` is `uapp_ctx`, the address of a buffer on the watch processor.
* `line[a]` is the queue of a connection of the GATT task, with the operation in progress at its head. An enable request that
  waited there is validated by whatever message is being handled when it gets its turn
  (`gatt_offload.c:321`); the model lets it succeed or fail.
* `live` are the operations a microapp has unanswered, `fault` that the watch processor stopped on a NULL context.

The queues are ordered and lose nothing: the pipe (`offload_mgr_thread.c`), the
scheduler's queue, and glink between processors each are. Only `BtState` has the bound of the pipe, where a poster waits while it is full;
elsewhere the number of sockets under way bounds it far below.

## Runs

| Run | What it asks | Result |
|---|---|---|
| `patient` | a HAL that waits for its answers; RFCOMM links fail; an open of either protocol, towards a microapp that may refuse. Parts agree at rest, confirmations find their instance, no connection is closed from under its owner, no instance is left behind, the abstract service is implemented: every request answered, and truly | holds |
| `early_close` | a HAL that closes when it likes, more sockets than instances, unknown endpoints. Each request in one place, counts of the microapps match their slots | holds |
| `lecoc_power` | Bluetooth off and on. The LE CoC microapp keeps nothing | holds |
| `transmit` | a user that may send without waiting, peers that withhold credits or break rules, lost RFCOMM links. Segments under way are those expected, nothing is confirmed twice or in another's place, every request is confirmed | holds |
| `receive` | peers that keep to their credits and such that do not. Order, credits of both ends, credit of the application, no false accusation, every SDU arrives | holds |
| `bt_state` | on, off and restart over three threads, with crashes of the HAL and of the controller. Nobody posts to a microstack that is gone, an on is real, tables are wiped only while their owner waits, a stop leaves nothing over, an off is answered, channels reopen | holds |
| `hci_arb` | two hosts, two command credits, an event that answers nothing. One host at a time, every command in one place, none stranded, none overtaken, the scan runs exactly when wanted | holds, up to the named exceptions |
| `sched_timers` | timers set, fired, cancelled (also in their own function) on a clock that wraps twice. None early, list in real order, containers in one place, a wait not too long | holds |
| `sched_messages` | messages from tasks and threads, background interrupts, a stop. Once and in order, fair among tasks, no removed handler called, everything handled, the stop returns | holds |
| `gatt` | two microapps, three sessions, a connection that may be lost. Each session has one slot and one instance; microstack, microapps, HAL and tables agree at rest; no context answered twice or dead; nobody left waiting | holds |
| `stale_close` | may a close take down another socket | it may |
| `gatt_late_answer` | may the real answer of an operation follow the error given in its place | it may, and stops the watch processor |

The last two are disagreements between the code and what its own comments
say; `PROJECT.json` quotes both sides under `findings`.

**Properties as exceptions.** `OneStackAtATime`, `EveryCommandAccounted`, `NoCommandStranded` and `ScanServed` have a
hypothesis about `seen`. Without it each of them fails, for the reasons under "Observed while modelling". With it they say that
these are the *only* ways to lose the guarantee, which is what somebody who repairs one of them needs to know. In the same way
`NoOneLeftWaiting` excepts a session whose removal from a service the microstack refused.

**Bounds.**

* Sockets: two are enough for every interaction of two lives of instances, ids and
  entries; in `early_close` they share one instance, so the pool runs out. Instances, entries, connections per
  protocol and slots are 1 or 2, so that each limit is reached. Sockets 1 and 6 of `patient` differ modulo
  `IdSpace` = 4, and 6 is greater than 4, so that an id that was not truncated is seen.
  `QueueBound` limits only when the HAL opens: a closed loop keeps
  all the other queues finite, and only closes nobody answers can pile up towards the microapps.
* `transmit`: the window is 2 (8 in the code) and there are 3 requests of one to three segments with an MTU of one for RFCOMM, of two for LE CoC, so that requests are refused, the
  window is full with one request behind it, the ring of slots wraps, and a credit may come in
  the middle of a request. `receive`: the peer starts with 1 credit and gets 1 more, an SDU may take two, and there are three
  SDUs, so that one is with the offload manager, one waits and one is on its way.
* `bt_state`: one channel, two lives of the HAL, two enables, one packet, socket message or request for an unknown mode, two crashes. A second life is what
  leftovers of the first need to show. The pipe has room (9) for all of that.
* `hci_arb`: two credits of the controller, so that the primary stack can pipeline; three commands of each stack are one more than the scan state machine
  and one saved command need.
* `sched_timers`: a clock of 8 ticks that wraps twice, delays of nothing, less than and as much as the longest wait, three containers, and at most 3 ticks of work between two looks. All
  of a list on one side of a wrap, split by it, and beyond it occur.
* `sched_messages`: two tasks, which take one message each time they run, as all handlers of the tree do, an outside thread with three messages, one message of the tasks, two interrupt lines and two registrations, so that a line is given again.
* `gatt`: sessions 1 and 2 in one service, 3 in another endpoint, one connection, so that a service is enabled again with and without a session, and a
  clear takes three at once. Two buffers for session 1, so that an operation meets a pending one.

**Assumptions on the environment of GATT.** `OneAtATime`: sessions of one endpoint change one at a time. `OpsFirst`: a session is
given up by HAL or microapp only without operations under way, as `csr_bt_gatt_lib.h:2935` asks; the run
`gatt_late_answer` is what happens without it. The HAL clears a connection only
while no session of it is being registered. `NumInst` exceeds the number of sessions since ids begin at 1 and must be
below `MAX_OFFLOAD_INSTANCES`.

**Deadlock.** `patient` and `lecoc_power` never stop, and TLC checks that. The others say `CHECK_DEADLOCK FALSE`: `early_close` and `stale_close` may end with
every instance waiting for an answer that does not come; in `transmit`, `receive`, `hci_arb`, `gatt` and `gatt_late_answer` all that the bounded users, hosts and peers send may have been served; in `bt_state` the HAL may
stay down; in `sched_timers` the bounded clock ends; in `sched_messages` the thread has ended after a stop.

**Fairness.** Each thread is a loop that blocks on its queue and runs when there is something in it
(`Offload_Mgr_Task_Handler`, the scheduler, the message queue of the application manager, the glink
callback of the HAL), so each has weak fairness as a whole. Requests of the HAL and violations of
the peer have none. Which outcome an acceptable request gets is not fair either: a
refusal is always possible.

* On the data path the BMM and L2CAP are tasks of one scheduler, which takes messages in turn;
  the controller sends what it was given, a peer returns credits and ends an SDU it has begun. Nobody
  has to send a request or begin an SDU, and links need neither fail nor stay.
* In `BtState` the offload manager thread and the microstack thread run (the latter includes its timers), a glink callback that has
  begun ends, glink tells what happened to a channel and that the transport is active, and a live controller answers. Neither the HAL nor a crash is fair.
* In `SchedMessages` the scheduler's thread runs, an outside thread signals what it queued, a driver's thread sets the interrupt it was about to set, and the
  thread in the stop goes on. Nothing makes a thread send.
* `HciCmdArb` and `GattOffload` have no fairness. Their liveness is stated at rest: when no message is under way, nobody waits
  (`NoCommandStranded`, `NoOneLeftWaiting`).

## Proofs

All theorems hold for every value of the constants that satisfies the named assumptions of the modules. Where a theorem has a hypothesis of its own, it
is one on the constants, a run has constants that satisfy it, and what happens without it is told here. The invariants of the
runs were checked with TLC before they were proved.

**Socket offload** (`SocketOffloadProofs`).

* `TypeCorrect`: `Spec => []TypeOK`. The type invariant is inductive once it says that a busy
  instance has a real socket id and protocol, which the messages it sends take from it.
* `HolderUnique`, `LookupFindsHolder`, `NoInstanceLeaks`. The invariant is
  `OneHolder /\ LowestHolder` together with `TypeOK`. `OneHolder` counts where
  the life of a socket is: an unread open request, a busy instance, or an unread final
  answer, exactly one of them while the HAL waits or holds, none when it is closed. It is inductive
  because each step moves the token: reading an open makes an instance busy, an instance that goes idle
  sends the final answer, the HAL reads it. `LowestHolder` says no earlier instance has the
  id of a busy one, though it may be idle and stale: an instance is taken only as
  the *first* idle one, so any stale entry with the same id before it would have been taken
  instead, and an entry that is busy keeps the id of its own socket. This is why the scan order of
  `offload_mgr_sm_find_idle_offload_instance` matters and not only its result.
* `CountsMatchSlots` needs that slots of one microapp, counted by
  cardinality, change by one with the count, also at the wrap of the `uint8_t`.
  `TableConsistent` needs that an entry taken is free and its socket in no other entry.
* `LivesInOrder`: `Life`, ten conjuncts, relates each kind of message on its way about a socket to what the offload manager, the BMM and
  the microapp hold of it. `Requests`: an instance is in `OffloadReq` exactly while its request or its confirmation is under way, once.
  `Entries`: an entry of the socket table belongs to an instance that offers it, to one whose close request is in the queue, or to a
  confirmation under way. `Answers`, `Drops`, `Leaving`: the same for the microapp's answer, the close of the connection, the close of the slot; a
  close of a socket lies ahead of its next open. `HalKnows`, `Slots`, `Granted`: what the HAL, the slots and the credits have to be in each state. `Conns`: no
  earlier instance has the connection id of one that offers it, which needs the order of requests of instances whose ids agree in the truncated bits. No part is inductive
  without the others; each has a lemma for each step that disturbs it.
* From it follow `DataFindsInstance` (`PseudoIdLookup`), `FreesForOwner` (`CloseIsOwned`), `PartsAgree` (`QuiescentAgreement`), and `ServiceKept`: the
  initial states are initial states of `OffloadService`, and every step is one of its steps or does not show, under the mapping of `SocketOffload`.
* These five assume `PatientHal`: the HAL closes no socket whose open was not answered, no two socket ids agree modulo `IdSpace`, and none is
  `UnknownEndpointId`, the 255 an unknown endpoint is answered with. The run `stale_close` is what happens without the first of them; the other two are under "Observed while
  modelling". `PartsAgree` also assumes that the HAL names microapps (`RegisteredOffers`), since an open to an endpoint nobody registered is never answered
  and its instance stays. `patient` is a run with constants of this kind.

**Receive path** (`LecocReceiveProofs`).

* `ReceiveTypeCorrect`, `CreditsStayConserved`, `HonestPeerStaysTrusted`. The inductive
  invariant is `CreditInv == TypeOK /\ CreditsConserved /\ HonestPeerTrusted`; neither of the last two is inductive
  alone. A frame on its way is counted among the credits L2CAP thinks the peer has, so
  `rx_credits` is at least one when it arrives and an honest peer is not accused. And a grant
  raises the count by exactly what it sends. That needs `rx < app` in the guard
  of `CB_Flow_AttemptToSendCredits`, or the difference would wrap, and that both stay within
  `tot_rx_credits`, which is `Within` in `TypeOK`. The assumption is that the initial and the added
  credits fit 16 bits together.
* `CreditOrIndicationKept`: each of the `AppCredit` credits is with the BMM, in an indication or in an answer, and while one is left nothing waits. It is inductive
  with `TypeOK`.
* `SdusInOrder` rests on it. `OrderInv` numbers the places an SDU passes through: what was received, the pipe, the receive queue, the queue of the BMM,
  the air, the peer; each goes on where the one before it ends. An SDU that arrives goes straight to the pipe if there is a credit, past the receive queue; that
  keeps the order only because `CreditOrIndication` says that the queue is then empty.

**Transmit path** (`BmmTransmitProofs`).

* `TransmitTyped`, `SegmentsKept`. The invariant `FlowInv` is `TypeOK`, `SegmentsConserved` and two facts the handlers need: while the channel is there a confirmation on its way is of one segment
  (`MsgsFine`), and the slots of `segInfo` in use are those from `dequeueIdx` up to `enqueueIdx`, going round, none of them confirmed to its end (`RingOf`). What the
  BMM expects is a sum over that part of the ring, so a confirmation of a segment takes one from the first slot, and the slot leaves the ring when
  nothing remains. `txCount` is not counted below zero because a confirmation in the queue is a part of the balance, so something is expected when it is handled. Sums are loops over
  a sequence; what they do when an element is appended or taken is proved by the induction of `DataLemmas`.
* `RequestsConfirmedOnce`. `OnceInv` adds where the requests without an answer are: one is in `txPendingContext`, exactly when the window is full, those not yet sent, and those in
  the queue of the BMM, each once and different from the pending one. It assumes that no LE CoC link goes (`"LECOC" \notin LossyLinks`, as in the run): the zero-length confirmations of
  its flush complete requests that are not confirmed, and bring `txCount` of 16 bits below zero. The loss of RFCOMM links, rule violations and closes are allowed.

**Bluetooth on and off** (`BtStateProofs`): `BtStateTyped`, `SendersFindAStack`, `OnIsKept`, `StopIsClean`, `WipedWhileOwnerWaits`. A microstack lives through phases: there is none,
it boots, it has told that it is up, it stops. `Phases` says of each which messages may be in the pipe and in the queue of the BMM, where the threads may be, and what the mode, the pointer and
the tables are. The order of the pipe is part of it: what a HAL asked for comes before the end of its stop, and that before what the next HAL asks for. `SendersFindAStack` is the race of
`offload_mgr_transport_shim.c:228`, whose thread may be past its test: there is still an instance, since all that begins a stop, a BT_DISABLE or the loss of a channel, comes in over the same
thread, one callback at a time, so that nothing of a stop is under way while it stands there (`NoStop`).

**HCI arbiter** (`HciCmdArbProofs`): `TypeCorrect`, `OneStack`, `Accounting`, `NothingStranded`, `ScanIsServed`, `InTurn`. The invariant `HciInv` counts, for each stack and each
operation, the commands in the queue of the arbiter, among the saved, at the controller and among the events, and the house cleaning messages that follow
an answer. A lock is held exactly while one of them is under way; the count of the primary stack's lock is their number, until a peripheral command takes it. The loop that restores saved commands is a recursive
function over the queue, of which the proof shows that it sends or saves each of them again. As in the runs, the properties say up to which unusual events
they hold; the proof found one the runs were too small for, 256 commands of the primary stack under way (`wrapped`).

**Timers** (`SchedTimersProofs`).

* `TimersTyped`, `DeadlinesStayEncoded`, `TimersNeverEarly`, `HeadIsEarliest`, `ContainersKept`. The code
  orders deadlines by a pair, the count of wraps and the time, where the count is one the thread keeps by itself: it goes up by one when a look
  at the clock finds it behind the last look. That is right only if at most one wrap happens between two looks while a timer is pending, which
  `GapBounded` in the invariant `IInv` says and which follows from `(WaitInfinite - 1) * Ms + MaxBusy < Period`: the longest wait of
  the thread and the work around it fit in one period. From it follows `DeadlinesEncoded`: the code's count and the real
  one differ by the same amount for the clock and for every timer, so comparing pairs compares real
  deadlines. The list is then `Ordered` by real deadlines, its head is the earliest (`HeadIsEarliest`) and what has expired by the code's
  comparison has really expired (`NeverEarly`). `ContainersKept` adds (`PInv`) that the identifiers of the pending timers, the
  free containers and the one being fired are distinct and together all that were allocated.
* `WaitsEndInTime`: with an up to date count of wraps, the wait computed from the head of the list ends less than one unit of the timeout after the first real deadline. It is arithmetic over `IInv`,
  with the rounding of the division and the cap of the wait.

**Messages** (`SchedMessagesProofs`).

* `WakeupsKept`: a thread that sleeps with no bit set has nothing in its external queue unless the sender of it is between the queue and
  the signal. The invariant `WakeupInv` says the same of every place of the loop: a thread that has taken the bits and not
  yet emptied the queue still holds the bit in `taken`. `HandlersAreThere`: with `BgintInv`, an interrupt that is set, taken or
  about to be set is a registered one with a handler; assumes that no driver sets an interrupt after it was unregistered (`~LateSetters`). `TasksTakeTurns`: by
  `TurnInv`, the messages by which a waiting task was passed over and the distance of the turn from it are together less than the number of tasks.
* `MessagesInOrder`: until a stop, what is on its way from a sender to a task are exactly the messages put and not handled, in the order they were put. The external queue is emptied by a loop that
  puts each message at the end of its task's queue, and the proof follows it round by round.

**Data** (`DataLemmas`). The library's induction theorems take an operator as a parameter, which the installed provers cannot instantiate. The inductions needed here are
proved without it, over sets: a set of naturals that is not empty has a least element (from the well-foundedness of `<`), so a set with 0 and with the successor of each of its numbers has them all
(`InductionOnSet`, `InductionUpTo`), and a function of the rounds of a loop exists (`LoopExists`). For this reason the modules with theorems write loops as recursive functions over a number of rounds; they have no recursive
operators, for which the provers have no support.

**Only model-checked.**

* The five invariants of `gatt`. Each rests, as `Life` does for sockets, on an invariant over all messages of the protocol, of three tables and two kinds of contexts; that was not attempted. `NothingLeftOver` of the microapps, a property
  of a small machine of its own, is checked over its whole state space.
* All liveness: `RequestsConfirmed`, `SduReceived`, `OffAnswered`, `ChannelReopened`, `AllServed`, and the fairness part of `ServiceSpec`. Liveness under fairness and ENABLED are out of
  the reach of the installed provers.
* The two disagreements, which are counterexamples.

## Observed while modelling

Behaviours of the code that have no run of their own. Those marked (m) are in the model, and removing the named hypothesis or changing the
named constant shows them; the others are outside it.

* Sockets. The RFCOMM microapp does not reset `socketsInUse` at deinit as the LE CoC one does (`lpai_bt_rfcomm_app.c:60`, `lpai_bt_lecoc_app.c:90`); with `App = {"RFCOMM"}`
  `NothingLeftOver` fails (m). A failed close confirmation raises no event (`offload_mgr_sm.c:510`), so a close of an unanswered open may
  stay unanswered (m). An open to an endpoint nobody registered is refused in the name of socket 255 (`app_mgr_rpc.c:85`) and never answered (m). Two socket
  ids that agree in 16 bits and take the same table entry in turn get one connection id (`bmm_utils.c:25`) (m: `SocketId = {1, 5}`, `NumSock = 1`).
  An error indication for an LE CoC socket falls to the default case of `microstack_lecoc_cb`, an assertion (`profile_mgr_lecoc.c:165`) (m: `"LECOC" \in LinkFaults` makes `fatal` true);
  for this reason links fail only for RFCOMM in `patient`.
* Data. The zero-length confirmations of a lost link take `txCount` of a segmented LE CoC request below zero (`bmm_data.c:299`) (m: `"LECOC" \in LossyLinks`).
  `app_rx_credits` goes down only at the end of an SDU (`l2cap_flow.c:89`, 366-368), so more frames may be held than there are credits for (m).
* On and off. BT_DISABLE twice or while off reaches a NULL instance, and so a HAL that disables once is assumed. Activation that failed is told as success. `retryCount` survives a stop (m). A microstack thread that posts to a full pipe waits for
  the offload manager thread, which may be waiting for it in `MicroStackStop`. `bt_on_mode` is set late (`bt_state_mgr.c:311`) (m). A HAL that crashes in offload mode
  leaves the client interface up, since `offload_mgr_client_interface_deinit` compares a mode cast to `bool` (`bt_state_mgr.c:201-208`) (m). A
  mocked off after a BT_DISABLE prepares a second stop with the same `retryCount`.
* HCI arbiter. An event that answers no command releases the primary lock (`hci_arbiter_event.c:186`) (m: `early`), and its count may go below zero, to 255 (m). With 256 commands of the primary stack under way the count is zero, too (m: `wrapped`, beyond the
  bounds of the run; the proof of the count found it). The loop that restores
  the saved commands does not end if one of them cannot be sent (m: `hung`). `HasPrimaryStackTaken` never matches the lock of a peripheral command, after which
  the microstack is not served (m: `peri`), and it may starve while the primary stack pipelines (m). A failing status in the scan arbitration
  leaves the third lock taken. The end of an arbitration releases the lock of the primary stack and leaves its saved commands where they are, so that its next
  command overtakes them (m: `arbitrated`). After an arbitration the next disable of the primary stack stops the scan of the microstack, too, against the comment at `hci_ble_scan_arb.c:356` (m: `arbitrated`).
* Scheduler. If the clock wraps between the last look and the wait, the wait is computed from the old count (`csr_sched.c:969-983`) and takes up to the longest wait, 65.5 s,
  instead of what is left, so the timer is late (m: `WaitEndsInTime` has an up to date count as its hypothesis). A background interrupt set by a thread after its driver
  unregistered calls a handler that is gone (`csr_sched.c:667`, 679) (m: `LateSetters = TRUE` breaks `HandlerIsThere`). `CsrSchedIsQueueEmpty` does not look at the external queue (478-502).
* GATT. Two registrations under way on one service free and overwrite `svc->buf`, and the second is never sent to the microapp (m: `OneAtATime = FALSE`).
  Without an idle instance a registration is refused and its session slot leaks (m: fewer instances than sessions). Without memory for its message it is refused when slot and instance are already
  taken, and both leak (`profile_mgr_gatt.c:979-984`); the model has memory enough. A failed re-enable raises no event (`profile_mgr_gatt.c:1858`), and the unregister or
  the refusal it belongs to is never answered (m). A clear while a registration waits for its connection information leads to an
  enable confirmation for a cleared instance. Removing an app clears its endpoint under live sessions (`lpai_bt_gatt_common.c:519`). `find_acl_handle_by_btconn_id` ignores its argument. A request of a session that is gone is dropped without
  an answer. Concurrent unregisters of one service enable each other's session again (m).

## Not modelled

See the components with status `not_modelled`, with reasons, in `PROJECT.json`. Of the modelled ones the following is left out.

* Sockets: capabilities, endpoint discovery and close indications, because none changes the state modelled here.
* Data path: the receive side of RFCOMM, whose credits are those of the
  RFCOMM core, what the microapps do with data, and the
  retransmission mode of L2CAP, which no offloaded socket uses.
* GATT: notifications, indications and requests that come unasked from the remote device, the removal of an app, capabilities. Of an error indication
  there is only that operations are answered at once after it: answers carry no result.
* HCI: ACL data, ATT sequencing, filters, the passthrough mode, the deinit of the arbiter and its three special opcodes.
* On and off: the patch download, logging, a BT_DISABLE while off, a restart before the first stop has ended.
* Scheduler: the wrappers that log, the profiling service, and a second scheduler thread, which this product does not have.
* Where the code has undefined behaviour (the stale message of a restored GATT request) the model has every outcome the
  build can produce. The one buffer of the transport shim is left out, and so is whether two threads can meet in it.

Most lines of the tree are protocol stacks, headers of primitives, vendored and generated code; they are not the
program's own logic, and `PROJECT.json` says so for each.

## Plan

Built in this order: socket offload with its proofs, the power cycle of the microapps, the data path with the proofs of the credits,
Bluetooth on and off, the HCI command arbiter, the scheduler with its proofs, GATT offload; then the proofs of the refinement, of both directions of the data
path, of Bluetooth on and off and of the arbiter. What is left:

1. Proofs: the five invariants of `gatt`, beginning with `SessionHeldOnce`; `NothingLeftOver` of the microapps.
2. What comes unasked from a GATT server and the removal of a GATT app.
3. The receive side of RFCOMM; a bounded FIFO as the abstract specification of both directions of the data path.
4. The sleep handshake of H4, the rings of the IPC transport, the LE advertising and scan managers, the display offload handshake.
