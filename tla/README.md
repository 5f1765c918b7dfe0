# Verification of Protolib, MGEN and SMF of protean-packages

The repository packages the network research software of NRL's PROTocol
Engineering Advanced Networking group: **Protolib** (the C++ toolkit everything
else is built on), **MGEN** (traffic generator), **SMF** (simplified multicast
forwarding), **RAPR**, **SDT** and **TRPR**. This directory holds TLA+ models of
the parts whose correctness depends on order and interleaving, TLC runs over
small instances of them, and TLAPS proofs for all instances. `PROJECT.json` maps
every definition to the lines it models. All paths below are relative to
`src/unpacked/`.

## 1. Inventory

### 1.1 Protolib: timers (`protolib/src/common/protoTimer.cpp`, `include/protoTimer.h`)

* State: per timer `interval`, `repeat`, `repeat_count`, `timeout`, `is_precise`
  and its links; per manager the short and the long list, `pulse_timer`,
  `pulse_mark`, `update_pending`, the installed system timer
  (`timeout_scheduled`, `scheduled_timeout`) and `invoked_timer`.
* Operations: activate, deactivate (also by destruction), reschedule, scale, set
  interval; `OnSystemTimeout`, which calls listeners; `OnPulseTimeout`;
  `Update`, which keeps the one system timer in step with the first timer.
* Interaction: the dispatcher (or a simulation agent) derives from the manager,
  implements `UpdateSystemTimer` and calls `OnSystemTimeout`. Listeners are user
  code and call every operation, on the timer being fired as well.
* Hard: changes to the list while it is walked; `now` read once before callbacks
  that take time; the system timer held back while `update_pending`; long timers
  counted in pulses that may be late.
* Correct when: lists sorted and without double links; the pulse runs exactly
  while it is needed; never asleep past a timer; no timer early (or by how much);
  every timer expires or is stopped; each activation expires at most repeat + 1
  times, never after it was stopped.

### 1.2 Protolib: dispatcher (`protolib/src/common/protoDispatcher.cpp`, `include/protoDispatcher.h`)

* State: `thread_id`, `thread_started`, `run`; `suspend_mutex` with
  `thread_master` and `suspend_count`; `signal_mutex` with `signal_count`; the
  break descriptor; the stream table; `prompt_set`; the latched `timer_delay`;
  the descriptor sets and status of the last `Wait`.
* Operations: `StartThread`, `Run` (its loop: latch timeout, open the suspend
  window, `Wait`, close the window, prompt, `Dispatch`), `Stop`, `SuspendThread`
  / `ResumeThread`, `SignalThread` / `UnsignalThread`, `PromptThread`, installing
  and removing input notification, timer changes through `UpdateSystemTimer`.
* Interaction: other threads control the dispatcher's thread through the two
  mutexes and the break; callbacks run in the dispatcher's thread and call the
  same operations, for which suspension is then void.
* Hard: the two mutexes are taken in opposite orders; nested and mixed locks;
  changes between two of the thread's reads; `select` results that are stale when
  used; the spin on `thread_started`; restarts.
* Correct when: a suspended thread runs no callback; a signaled one is outside
  `Wait`; counts and mutexes agree; no deadlock; no change goes unnoticed; no
  event reaches a removed descriptor; calls return, prompts and input are served.

### 1.3 Protolib: `ProtoDispatcher::Controller` (`protoDispatcher.cpp`, `src/wx/wxProtoApp.cpp`)

* State: `lock_a`, `lock_b`, `use_lock_a`, the dispatcher's `controller` pointer, the
  cues in the controller's own event queue.
* Operations: `DoDispatch` (the thread opens a turn and waits for its end),
  `OnDispatch` (the controller dispatches and closes the turn), `OnThreadStop`.
* Interaction: a GUI or script thread dispatches for the dispatcher's thread. The two
  hand the locks back and forth; both read `use_lock_a`, which no lock protects.
  The controller also changes what the thread waits for, and stops it.
* Correct when: one `Wait` is followed by one dispatch and no two overlap; a mutex
  is unlocked by its holder; each turn and each handler ends.

Not modelled of Protolib: sockets, channels and pipes (wrappers of the operating
system, whose notification flags become installs and removals in the dispatcher);
containers (`ProtoList`, `ProtoQueue`, `ProtoTree`, `ProtoGraph`); `ProtoBitmask`;
packet and address formats; routing, capture and simulation glue.

### 1.4 MGEN (`src-mgen-5.02c/src/common`)

* State: a flow's `flow_transport`, `tx_timer`, `pending_messages`, `message_limit`,
  `off_pending`, `socket_error` and its links; a transport's pending list,
  reference count, output notification, `messages_sent`; of a TCP transport the
  message being sent (`tx_` members) and the message being received (`rx_`).
* Operations: the script's ON, MOD and OFF (`MgenFlow::Update`), a flow's
  transmission timer, `SendMessage`, the socket's output event
  (`SendPendingMessage`), and for TCP the loops that cut a message into fragments
  and buffers and find it again in the bytes that arrive.
* Interaction: one thread, three sources of calls (script, timers, sockets). Flows
  share a transport; a flow is a member of the transport's list while it waits.
* Hard: OFF while messages are pending, a list walked while its members leave it,
  refused sends, COUNT kept on the transport, reads and writes that end anywhere.
* Correct when: the list is a list; a flow with pending messages is on it; the
  socket is open exactly while a flow uses it; OFF stops a flow once its messages are
  sent; timers that were stopped come back; the receiver logs the fragments
  of the sender.

### 1.5 SMF (`smf-1.1b2/common`)

`SmfSlidingWindow` (which sequence numbers were seen, wrapping numbers),
`SmfDuplicateTree` (a window per flow, oldest flows pruned), `SmfSequenceMgr`
(sequence numbers for resequenced flows), `Smf` and `nrlsmf` (the forwarding
decision per interface, packet I/O). Hard: wrap-around, reordering beyond the
window, flows pruned while their packets are under way.

### 1.6 RAPR, SDT, TRPR, packaging

RAPR interprets behaviour scripts on top of MGEN; SDT is a Java viewer fed by
socket threads; TRPR and hcat are filters that parse traces. The rest of the
repository is vendored code, older copies of Protolib and packaging.

## 2. Modules

| module | what it is |
| --- | --- |
| `ProtoTimerMgr` | the timer manager, one action per operation and per step of `OnSystemTimeout` |
| `TimerService` | the abstract promise of a timer manager: activate, expire, stop |
| `ProtoDispatcher` | the threaded dispatcher and the threads that control it |
| `DispatchController` | the dispatcher's thread and the thread that dispatches for it, lock by lock |
| `SlidingMask` | `ProtoSlidingMask` as pure operators on records |
| `ProtoSlidingMask` | one such mask under every sequence of calls, next to the set it stands for |
| `SmfDuplicateTree` | SMF's sliding window and duplicate tree, on top of `SlidingMask` |
| `Smf` | one nrlsmf node and, as its environment, the network around it |
| `PacketRelay` | the abstract promise of a relay: what is done about a packet is done once on each interface |
| `MgenPendingList` | the transport's list of flows, with its pointers, as pure operators |
| `MgenFlow` | MGEN flows on one UDP transport: script, timers, output events |
| `MgenTcpTransport` | a TCP connection of MGEN: fragments, buffers, bytes, and back |
| `SlidingMask_proofs` | lemmas: what each operator of `SlidingMask` does to the indices a mask holds |
| `ProtoTimerMgr_proofs`, `ProtoDispatcher_proofs`, `DispatchController_proofs`, `ProtoSlidingMask_proofs`, `MgenFlow_proofs` (with the list of `MgenPendingList`), `MgenTcpTransport_proofs`, `Smf_proofs` | the theorems |
| `MCProtoTimerMgr`, `MCProtoDispatcher`, `MCProtoSlidingMask`, `MCSmf`, `MCMgenFlow` | instances, symmetry and views for TLC |

The definitions before which a comment says "Mutant of X" are plausible mistakes
in X. No specification uses them; they show which property would catch the
mistake.

`Smf` composes bottom up: `SlidingMask` < `SmfDuplicateTree` < `Smf`, and so does
`MgenFlow`: `MgenPendingList` < `MgenFlow`. The timer
manager and the dispatcher are composed by abstraction: `ProtoDispatcher` keeps
of the timers only the time of the next one (`deadline`), and `ProtoTimerMgr`
sees of the dispatcher only that `OnSystemTimeout` is called, late perhaps, at
the time it was scheduled for and also after other events (`DispatchTimeouts`).
`DispatchController` repeats of `ProtoDispatcher` what the hand-over touches: the
window around `Wait`, the two mutexes, the break, and `run`.

### 2.1 `ProtoTimerMgr` and the code

* `mgr.short` and `mgr.long` are the two linked lists, `mgr.timeout` the timers'
  timeouts, `mgr.pulseMark` is `pulse_mark`; `sys` is the system timer the
  dispatcher was told to install. Time is in ticks, one of which is longer than
  the tolerances of the code (1 microsecond, 10 milliseconds).
* `OnSystemTimeout` is a loop over several actions: `EnterLoop` (in
  `SystemTimeout` and `DispatchTimeouts`), `FireTimer` up to the listener's
  call, `CallbackReturn` from there on, `FirePulse`, `PulseMove`, `PulseReturn`
  for the pulse, `LeaveLoop`. Between `FireTimer` and `CallbackReturn` the user
  may take any operation on any timer.
* `Activate`, `Deactivate`, `SetInterval`, `Reschedule`, `Scale` are the user's
  operations, `Tick` the clock. `due` and `byPulse` are history: when the timer
  ought to fire at the earliest and whether the pulse ever timed it.
* External: the clock only. `SetRepeat` on an active timer takes effect at its next
  activation in the model; deletion is `Deactivate`.

### 2.2 `ProtoDispatcher` and the code

* Each lock, each unlock and each access to data that both sides use is a step
  of its own. `pc[c]` says where a controlling thread is in its call, `tpc` where
  the dispatcher's thread is in `Run`. `SuspendThread`, `ResumeThread`,
  `SignalThread`, `UnsignalThread` nest, and the other calls (`PromptThread`,
  timer changes, installing and removing notification, `Stop`) are made of them
  as in the code.
* `LatchTimeout`, `OpenWindow`, `BuildSets`, `WaitEvents` / `WaitTimeout` /
  `WaitInterrupted`, `CloseWindow`, `PromptReturns`, `Notify`, `NotifyReturns`,
  `ResetBreak`, `TimeoutsReturn`, `DispatchError` are the parts of one round of
  `Run`. `CallbackStep` is what callbacks do in the thread itself.
* External: input that arrives (`Arrive`), what callbacks choose to do.
* Callers keep the discipline the header documents: every suspension and signal
  is mirrored by the thread that made it, and `Stop` is called by the thread that
  started the dispatcher while no other thread calls it.

### 2.3 `SlidingMask`, `ProtoSlidingMask` and the code

* A mask is `[bits, start, end, offset]`; `bits` is the set of ring places whose
  bit is set. What the code does to bytes is "add or remove these places", and
  its search through the bytes is "the nearest place that is set". Where an
  `ASSERT` would fail, the code goes on as it does when compiled without them.
* The operators return the new mask; the functions' results are `CanSet`,
  `CanSetBits`, `NoIndex`. They agree with the C++ class on long random sequences of
  calls, those included that lie outside its contract.
* `ProtoSlidingMask` adds `members`, the set that was meant. Its guards
  (`InReach`, `Meets`) state what callers have to respect for the class to
  work. The window of SMF does: it sets at most `num_bits - 1` before its first
  index, and its ranges end where the set indices are.
* SMF is built with an older copy of the class
  (`smf-1.1b2/protolib/common/protoBitmask.cpp`). It differs in comparisons at the
  bounds that the window never reaches.

### 2.4 `SmfDuplicateTree`, `Smf` and the code

* A tree is a record of `flow_list` (keys, the flow that changed last first), and
  by key the window and the update time. `After` is the tree after
  `SmfDuplicateTree::IsDuplicate`, `Prune` after `Prune`; `SmfSequenceMgr` keeps
  its list with the same operators. `Flow::Init` has no return statement on its
  good path; `inits` is what its caller sees, chosen freely in `Init`.
* `ProcessPacket` is `Smf::ProcessPacket` for a packet that passed the filters
  at its top: numbering (`ProcessAndResequence`, `ProcessAsIs`), the marking of
  the tree of the interface it was heard on, the loop over the associates.
  `OnPruneTimeout`, `SetRelayEnabled`, `SetRelaySelected`, `SetSelectorList`,
  `SetNeighborList` are the other handlers. A command line is a member of
  `Configs`.
* A packet is its stream, its number there, the identifier the node sees, and
  `fate`, the history of what became of it on each interface. Interface and
  neighbours are external: copies of a packet may be heard any number of times
  and in any order, from its source and, where the node forwarded it to a
  network of relays (`Manet`), from the neighbours that forward it.
* The network and the command lines are taken to be reasonable; `Orderly` says how,
  and the theorems about forwarding and the refinement assume it. `MCSmf` has TLC
  confirm that the instance of `smf_dpd` is orderly (`SetupsAreOrderly`). Its parts:
  * A packet is less than a window behind the last one of its stream (`Spread <
    NumBits`) and under way for at most one prune more than flows are kept
    (`Lifetime <= AgeMax + 1`). With `Spread = 3` or `Lifetime = 4` TLC finds a packet
    of the instance forwarded twice: the code has no defence there.
  * A stream has at most `RangeSize + 1 - WindowPastMax` packets (`quota`). A tree that
    was shown none of them for so long, because the relay was switched off, say,
    would compare the next with a window from one turn of the range ago. The
    bound is sharp: with one packet more (7 of 8 numbers, window 3) TLC finds
    `ForwardedOnce` violated. What matters to the code is how many packets pass
    while one window is neither shown any nor pruned.
  * A stream is resequenced wherever it is heard, or nowhere, and no two streams share a
    key: a pair of addresses has one source of unmarked packets, and one tagger
    (`smf_taggers` shows what happens with two).
  * An interface that resequences uses CF and is no MANET interface, and what it passes
    to a MANET interface may come back and be passed on only to where it has been.
    nrlsmf's `rpush` and `rmerge` associate with CF (`nrlsmf.cpp:955-1050`); that such
    interfaces are not chained further is left to who writes the command line.
  * What was forwarded to a wired interface is not forwarded back by others (`Manet`).
* `PacketRelay` says what a network may rely on, and leaves the relay algorithm
  open; `ImplementsPacketRelay` maps a node to it (section 5).
* Left out: header parsing and the filters, the counters, the length of
  `dstIfArray`, truncated lists, memory exhaustion. IPv4 and IPv6 have one
  sequence manager each, of which the model has one. Identifiers of 16 and 32
  bits share one range.

### 2.5 `DispatchController` and the code

* The thread's places (`tpc`) are those of `Run` between `DoThreadStart` and the end
  of its loop, and those of `DoDispatch` (`call` to `retake`); the controller's
  (`cpc`) are those of `OnDispatch` (op `dispatch`), of a handler that calls
  `SignalThread` and `UnsignalThread` (`update`), and of `Stop`. Each lock,
  unlock and access to shared data is a step.
* The controller is `wxProtoApp`: `SignalDispatchReady` posts an event to its own
  queue (`posted`). With the X11 or pipe variants the queue is another, with the
  same calls.
* `undispatched` and `breakSeen` are history: Waits whose events were not dispatched
  yet, and whether the last `Wait` saw the break.
* After `Stop` nothing is claimed: see section 6.

### 2.6 `MgenTcpTransport` and the code

* A byte is its fragment and its place there. `tx` holds the `tx_` members,
  `rx` the `rx_` members, the checksum as the number of bytes that were summed
  and kept. Each turn of the send and receive loops is a step that takes
  any number of bytes the socket may take or give.
* External: TCP, which keeps the bytes in order, holds `Capacity` of them, and may
  break; `Reconnect` stands for what the code does on both sides then.
* `Splits` says where a read may end: inside the two bytes of the length, and a
  second time inside the checksum. With either, the code fails (section 6), so the
  run leaves them out, and says so.
* Sink transports, the choice of a connection for an event, and what a message says
  apart from its number and length are left out.

### 2.7 `MgenPendingList`, `MgenFlow` and the code

* A list is the three pointers and the links of all flows, as in the code: the
  operators assign the pointers the C++ functions assign, dangling ones included.
  `Holds` says what a list is by the sequence of its flows.
* A handler is a step, and each turn of `SendPendingMessage`'s loop; the operators
  map a state of flows, list and transport to the next one. The result of a send is
  chosen: accepted, blocked, or failed.
* A script keeps to the order that `ValidateEvent` asks for: ON, then MODs, then
  OFF. `moved` says whether an ON or MOD changes the destination.
* Flows keep their source port, so there is one transport and `old_transport` plays
  no part; RAPR's callbacks, sequence numbers and patterns other than a rate, or
  none, are left out.

## 3. Runs

TLC visits every state of the instances below; each takes between a second and a
two minutes with two workers. Deadlock is checked in `sliding_mask`,
where the system never stops; the others end by their bounds (the clock, the
load, the number of packets or messages), by `Stop`, or when every flow is off.

| run | question | instance | states |
| --- | --- | --- | --- |
| `timers` | do the lists, the pulse and the system timer stay sound when callbacks change them, and how early may a timer fire? | two timers, intervals 1 (short) and 4 (long), once or for ever, threshold 3, factor 2 | 802,850 |
| `timer_service` | does every timer expire, the loop end, and is `TimerService` implemented? | one timer, intervals 0, 1 and 4, repeat 0, 1, -1 | 532,371 |
| `dispatcher` | are the two mutexes sound, is nothing missed, no event stale; do calls return, `Stop` end, prompts and input get served? | two controlling threads that nest twice, one descriptor, one timeout, a load of four | 136,044 |
| `dispatcher_restart` | can it be started again? (not safely) | one controlling thread, restarts | |
| `controller` | do the turns exclude one another and end, without deadlock? | one thread, one controller, two Waits that `Stop` left undispatched | 2,519 |
| `sliding_mask` | does the mask stand for the set that was meant, and do searches find the nearest? | 5 bits, 16 indices | 1,296 |
| `mask_unset` | does `UnsetBits` keep the ends right? (not for all ranges) | the same | |
| `smf_dpd` | is a packet forwarded once, never dropped as a false duplicate, never echoed, are flows pruned in order, and is `PacketRelay` implemented? | two interfaces; a gateway and relays of three kinds, up to four packets of a stream | 223,274 |
| `smf_taggers` | do two taggers of one pair of addresses disturb each other? (they do) | one relay, two streams | |
| `mgen_tcp` | does the receiver find the fragments of the sender, and does each arrive? | two messages of 4 to 23 bytes, one broken connection, no read that ends inside a length or twice inside a checksum | 24,582 |
| `mgen_flow` | is the pending list a list, are references counted, does OFF stop a flow, do timers come back (unless a failed send left output notification off)? | three flows in three mixtures of queue, rate, count and sends that fail | 13,258 |
| `mgen_count` | does OFF stop a flow with a queue and a COUNT? (not always) | two counted flows | |

### 3.1 The bounds and why they are enough

* Timers: `PulseInterval = 2` is the smallest pulse with an inside; intervals lie on
  both sides of `PrecisionThreshold`; `Horizon` leaves time for a long timer to be
  moved, fired and started again while another is active; `MaxLag = 3` lets the
  service be later than a pulse, which the earliness results depend on. Two timers
  interact (one stops the other in its callback); `timer_service` follows one through
  its repeats, and `MaxTime = 14` leaves it room to expire after the last user
  operation. `SetInterval` turns a negative interval into 0, and only then is there no
  time between two timeouts; `timer_service` has such a timer, `timers` has not (the
  invariants are proved for it as well). If it repeats for ever, `OnSystemTimeout` never
  returns; `LoopEnds` excepts that, and other timers would then wait for ever.
* Dispatcher: two controlling threads compete for both mutexes while one nests,
  which is where order matters; a third would wait in the same places. One
  descriptor and one timeout are enough for "changed since I looked". Progress is
  about what happens when the load ends (`Cost = 1`, `MaxLoad = 4`): four calls are a
  nested pair in each thread. The safety invariants hold for any load, by proof.
* Controller: nothing but `undispatched` counts, and it is 0 or 1 until `Stop`.
* Mask: five bits in a range of sixteen leave indices beyond both ends on which the
  operations must do nothing; the state space is complete, every sequence of calls
  is in it. The range wraps at 16, the ring at 5, so that both wrap at different
  places.
* SMF: windows of three packets over eight numbers, sequences that start at 6 and
  wrap, or at 1 and 6 after `rand`; four packets with a reordering of two slide the
  window, leave gaps in it and clear it; four prunes with `AgeMax = 2` let a
  flow go stale and come back. `Spread` and `Lifetime` are as large as the
  properties allow.
* MGEN over TCP: the sizes are those of the code (8192, 65535, 76 and 4 bytes) made
  small with their order kept, so that `Sizes` has a message of one buffer (4), one
  whose checksum would be split (9), one of three buffers (17), and one whose rest
  would be a fragment below the minimum (23). `Capacity = 5` is less than a
  buffer: sends are partial, and block.
* MGEN flows: three flows are needed for a member in the middle of the list; the
  setups are the kinds that the handlers tell apart (queue none, limited,
  unlimited; rate or none; COUNT). Sends of a flow with a limited queue may fail, and
  so may those of a flow without a rate, next to queued flows in one setup and next to
  a flow with COUNT and another without a rate in the other, so `SocketError` and
  the handlers' branches on `socket_error` are taken. `MaxRefusals` and `MaxPending`
  bound what a socket refuses, each at one: a second refused message of a flow finds it
  on the list and changes its count only (the properties hold with `MaxPending = 2`
  for the setup with queued flows, too).

## 4. Fairness

* `ProtoTimerMgr`: the clock goes on, an installed system timer fires, and
  `OnSystemTimeout` continues to its end, listeners included: weak fairness of
  three groups of actions. The dispatcher calls `OnSystemTimeout` when `select`
  times out, and the loop is sequential code. The user's operations are not fair.
* `ProtoDispatcher`: every thread takes a step if it can go on taking one (weak
  fairness of `ThreadStep` and, for each controlling thread, of the call in
  progress), and a caller mirrors what it has suspended or signaled, as the header
  asks. No fairness among the threads that wait for a mutex is assumed (the code
  uses plain mutexes), so progress is claimed when a finite load is over.
  `WaitInterrupted`, callbacks and arrivals are not fair.
* `DispatchController`: here the load does not end, the controller may go on calling
  handlers. So the thread's steps are strongly fair: the event loop of a GUI
  sleeps between two handlers, longer than a waiting thread needs to get a mutex
  that is free. `TakeCue` is strongly fair because the event queue is served in
  its order. `select` returns when the break is set; without a break it need
  not. Handlers, once begun, go on (weak fairness).
* `MgenTcpTransport`: weak fairness of the loops on both sides, of output
  notification and of the reconnection. Messages and breaks are not fair.
* `MgenFlow`: a script has a last event (`<>[][~ScriptEvent]_vars`). `ProtoDispatcher`
  serves timers that are due and sockets that are ready in each round, so a timer
  that is due again and again fires (strong fairness of `TxTimeout(f)`), and the
  loop of `SendPendingMessage` goes on. A socket that is tried again and again, by a
  timer or because it is reported ready, accepts a message again and again: the strong
  fairness of `TxTimeout(f)` is that of its parts with `TxSend(f, "OK")`, and
  `Turn("OK")` is strongly fair. No socket fails for ever. Messages without a rate fill
  it again and again (`Turn("BLOCKED")`), without which the loop for such a flow
  need not end.
* The mask and SMF have safety properties only.

## 5. Proofs

`tlapm` proves the theorems of the `_proofs` modules for all values of the constants
that satisfy the assumptions named in the modules: any set of timers, intervals,
repeats and factors, any pulse that is shorter than the threshold; any number of
controlling threads, descriptors and timeouts, any nesting, with and without
restarts; any sizes of buffers, fragments and messages in the order of the code's,
reads that may be split anywhere, with and without checksums; any finite number of
flows of any kind; masks of any size in a range of any even size that is at least
`3 * NumBits - 2` (`RangeIsWide`); any streams,
interfaces, associations and relay algorithms of an SMF node. The bounds on time,
load, refusals and so on are constants like the others.

**Timer manager.** Lists, pulse and system timer are not inductive one by one: that the
system timer is right after `LeaveLoop` needs what holds inside the loop. `IInv`
adds to the invariants

* `ShortPromise`: a timer that was only ever in the short list waits there for
  its full interval (the reason for `ShortNeverEarly`); and
* `LoopState`: what each phase of `OnSystemTimeout` knows: `loopNow` is in the past,
  `invoked` is none, the pulse or a timer whose timeout has come, and an installed
  system timer is never later than its timeout.

The proof goes from sequences to lists to operations: first what inserting and
removing do to the set of a sequence, to injectivity and to order; then
`InsertSorted` and `Unlink` keep a list sound (`Good`); `ActivateTimer`,
`ReactivateTimer`, `DeactivateTimer` keep both lists and the pulse; one lemma
(`UserStep`) shares what all user operations have in common; and there is one lemma per
action. `LongIsFar` and `BoundedEarliness` rest on a second invariant, `Timing`,
which relates timeouts to the pulse: the pulse is at most `MaxLag` late, the mark
is in the past, and a timer in the long list is due after the next pulse.

**Refinement.** `Refinement` states that `ProtoTimerMgr` implements `TimerService`
under the mapping that `ImplementsTimerService` uses (a timer is active when it is
in one of the lists). Activation, deactivation and the two halves of an expiry map
to the abstract steps; the pulse, the system timer, `Tick` and what only moves a
timer between the lists map to stutters, because a timer that changes lists stays
in their union.

**Dispatcher.** `IInv` adds `ThreadLocks` (which mutex the thread holds follows
from where it is), `CallShape` (which call may be where), `StopIsAlone` and
`ChangesBreak` (a prompt or a deadline the thread has not seen comes with a
break that is set or about to be). `LocksAreCounted` is the core: the two counts are
the sum of what the calls in progress and their nesting account for, so at most
one thread has any (`Owning`), and an unlock is made by the outermost call and by
no other. `NothingUnnoticed` follows from `ChangesBreak`, `SuspendedMeansAsleep`
and `ThreadNeverBlocksOnSignal` from the locks and the thread's place.

**Controller.** Who holds which of the four mutexes follows from the two places:
the invariant says it for `lock_a` and `lock_b` in terms of `use_lock_a`, with the
one moment, between the controller's unlock and the thread's flip, where the two
sides see it differently. `UnlocksItsOwn` is then immediate, and
`OneDispatchPerWait` follows because the cue, the turn and `undispatched` go
together.

**MGEN over TCP.** The invariant is the account of the sender: `offset` is where
the current fragment begins plus the buffers taken of it, `fragment` and `buffer` are
what is left, and the fragments begun tile the message up to there. The
arithmetic of the size functions is in lemmas of its own (what
`GetNextTxFragmentSize` leaves is nothing, or at least the minimum; what
`NextBufferSize` leaves is nothing, or has room for a checksum). For the receiver,
`OnTheWay` follows the bytes on the wire by their places (number of the fragment,
place in it): they begin where the receiver stands, each is followed by the next one
of its fragment or the first of the next fragment, and on a standing connection they
end where the sender stands. So a read within the length asked for takes bytes
of one fragment (`TrackRun`), the two bytes of a length give that length
(`DivideAndRest`), and the counts of summed and kept bytes come out right however
the reads are cut (`KeptMore`). `FragmentsAreReceived` assumes `Splits = {}`, as the
run does: with a read that ends inside a length, or two inside a checksum, the code
takes a wrong length or checksum, and the property does not hold (section 6).

**MGEN flows.** The first part of `MgenFlow_proofs` shows, for each list operator and
the sequence a list holds, the sequence it holds afterwards; the pointer that
`RemoveFlow` leaves behind is harmless because nobody reads the tail of an empty
list. The second calls a state `Good` if its list is linked, pending flows are
listed, listed flows are bound and references are counted; each operator of
`MgenFlow` keeps a state good, and each handler is a composition of them.

**Sliding mask.** The code computes with places in a ring of `NumBits` bits and with
signed differences of indices; the properties speak of indices. `Turn(a, b)`, the
distance from `a` forward to `b` in the range, links the two: an index is held
(`Holds`) when its turn from `offset` is that of a set bit. `Sound` says that start
and end are bits that are set and that every set bit lies between them; with it,
`Difference` between indices the mask holds is the difference of their turns.
`SlidingMask_proofs` has a lemma per operator: which indices the result holds and that
it is sound again, with one lemma for each way in which `Set` and `SetBits` extend a
mask (before the first, after the last, in between) and in which `UnsetBits` cuts one
(front, back, middle, all), the ring wrapped around or not. The searches
of a ring are minima and maxima over at most two runs of bits (`NextIs`, `PrevIs`).
`ProtoSlidingMask_proofs` then needs one invariant only: the mask is sound and
`members` is what it holds.

The theorems assume `RangeIsWide`, `3 * NumBits - 2 <= RangeSize`, as every use in the
repository satisfies (SMF's windows, far smaller than the range of their numbers). It is
needed: in a smaller range `SetBits` accepts a range of indices that begins far ahead
and ends, around the circle, just before the first index, although the two do not
fit into the mask together. TLC finds `HoldsWhatWasSet` violated for 3 bits and 6
indices, 4 and 8, 7 and 16, 7 and 18.

**SMF: lists.** A prune walks a list from its tail. `ListOK` says that a list has no key
twice, is sorted by update time, newest first, and has no time in the future.
`RemoveFirst` keeps the order of what it leaves and `ToHead` puts the newest before it;
`Pruned` keeps a front of the list, and the key at which it stops is not stale, so
that nothing before it is (`PruneIsComplete`). `IInv` says this of each tree and of
the sequence manager, with a sound mask in each window that is set exactly when its flow
is listed; a received packet, an originated one and the prune keep it whatever the
network does. `TypeCorrect` and `ListsAreSorted` follow, without `Orderly`.

**SMF: forwarding.** That a packet is forwarded once, and its first copy is, is no
invariant by itself: it depends on what each window has seen of the packet's stream.
`TrackInv` relates four things.

* A window is no further than its stream (`WindowsBehind`): its last index lies less
  than the packets sent so far behind the head, the last number given (`Within`).
* For each packet under way and each interface (`Tracked`, `Entered`): something became
  of the packet there exactly if the window has its number, at or after the window's
  last index (`Noted`), and the flow is no older than the packet. The packet's
  distance from the head (`Turn`) is the number of packets that came after it.
* The sequence of a pair lives as long as what was numbered from it (`Numbered`,
  `WindowsNumbered`): a prune that drops it finds no window of its stream set and no
  packet of it under way, so a new random start cannot meet old numbers.
* A resequenced packet is in the tree of the interface it came from, and once it was
  sent anywhere it is in all the trees its echo could be shown to (`CameFrom`).

The lemmas follow the window from the bit up: `WindowTakes` gives the four outcomes of
`SmfSlidingWindow::IsDuplicate` for a new number (started, restarted, filled in, moved
on); `DuplicateIsNoted` says that for a packet less than a window late the window
calls duplicate what it has noted, no more and no less, which is where the number of
packets in a stream must leave room (`HasRoom`); `StreamTakes` that taking a
number loses none of the others that may still come; `HeadMoves` that the
stream's next packet changes nothing. `Shown`, `OthersStay`, `PruneStays` lift
these to a tree, `ShownToAll` to the loop over the associates; then there is one lemma
per action. `ForwardsOnce`, `ForwardsFresh` and `SendsNoEcho` are read off `TrackInv`.

**SMF: refinement.** `PacketRelay` knows packets by their stream and number, has no
windows, identifiers, keys, times or prunes, and handles a copy by what became of this
very packet on each interface. `Refinement` (`Orderly /\ Spec => ImplementsPacketRelay`)
says that a node does the same. `Named` forgets a packet's identifier and age. A copy
of a packet under way maps to `Repeat`, an originated or resequenced packet to
`Begin`, in which older packets of its stream may cease to be under way, a prune to
`End`, and `SetRelayEnabled` to `Switch`; the lists of selectors and
neighbours and `SetRelaySelected` only influence which choices `Repeat` makes later, and
map to stutters. The core is `RelayedImplements`: with `TrackInv` before and after,
each tree in the loop of `ProcessPacket` answers "duplicate" just when something
became of the packet on its interface (or its flows cannot be initialized, `works`),
whatever is sent is sent with the relay enabled, and all else stays. `Once` makes
the mapping injective on the packets under way, so that replacing one packet replaces
one. `ForwardedOnce` and `FreshIsForwarded` follow: `PacketRelay` knows no "again", and
"missed" only where it does not work. So `smf_dpd` checks the first and the
refinement, and `FreshIsForwarded` has a run only where it fails (`smf_taggers`, two
taggers, not orderly). The packets of `PacketRelay` are numbered upwards and never
come back after `End`, which makes "once" mean once, and not once between two prunes.

**Only model-checked.** All liveness (`EveryTimerExpires`, `LoopEnds`, `CallsReturn`,
`StopReturns`, `PromptIsServed`, `InputIsServed`, `TurnEnds`, `HandlersReturn`,
`EveryFragmentArrives`, `OffStopsUnlessLeftOff`, `TimerComesBackUnlessLeftOff`), which needs fairness and
`ENABLED`. Every safety property of a passing run is proved. The properties of the
violation runs (`UnsetBitsKeepsEnds` among them) do not hold.

## 6. Where code and comments differ

Shown by a run, and listed under `findings`:

* `StopReturns` with restarts (`threadExample.cpp:17`): nothing resets
  `thread_started`, so `Stop` may be overtaken by the start of the new thread.
* `UnsetBitsKeepsEnds` (`protoBitmask.cpp:1020`): for a range that begins after
  the last index, and for one that covers all of them from before, `UnsetBits` leaves a mask
  whose ends are not set, or clears what lies outside the range. SMF never makes
  such a call.
* `FreshIsForwarded` with two taggers (`smf.cpp:72`): the copy of the source address
  overwrites the tagger in the duplicate key.
* `OffStopsFlow` with COUNT and a queue (`mgen-tech.xml:579`, `mgenFlow.cpp:787`): a flow
  that has reached its count with a message pending neither sends it nor stops after
  OFF. `messages_sent` belongs to the transport, so another flow may use the count
  up.

Met while modelling, and shown by no run:

* `protoTimer.h:104`: a timer of eight seconds or more may fire early, by as much as the
  service was late when it was activated. `BoundedEarliness` states the bound.
* `PromptThread` (`protoDispatcher.cpp:1010`) "will block until the work is done": it
  returns before its prompt is handled. `PromptIsServed` is what holds.
* `Stop` in the controller's thread clears `controller` between the test in `Run`
  (`protoDispatcher.cpp:877`) and the call (883): `CallThroughNull` in the model.
* `Stop` in the dispatcher's own callback does not join, and destroys `suspend_mutex`
  while it is held (1157); `SetBreak` failing is ignored by the callers of
  `SignalThread` (1063); `InstallGenericOutput` uses the result of
  `FindGenericStream` without a test (646).
* A system timer that cannot be installed (`protoTimer.cpp:343`) is not tried again
  until the next change of the head.
* `Flow::Init`, `Interface::Init` and `Smf::Init` have no return statement on their
  good path. The model's node starts, and `inits` covers both results of the first;
  with `FALSE` nothing is ever forwarded. `smf.cpp:291` lacks a `break`: a packet id of
  three bytes is read as one of four.
* TCP reception (`mgenTransport.cpp:1533`, 1431): a read that ends inside the two bytes of
  the length loses its high byte; two reads that end inside one checksum sum up
  bytes beyond the buffer. `Splits` admits either; both break `ReceivedInOrder`.
* TCP flows (`mgenFlow.cpp:758`): `Shutdown` and `Close` each take a reference back. A
  blocked TCP message stays in flight, but the flow counts it as pending and uses its
  sequence number again.
* `mgenFlow.cpp:397` "flow is removed from transport": `RemoveFlow` is commented out at
  414, so a moved flow stays on the list with nothing pending. Harmless for flows of one
  transport (`Move`); with two, its one pair of links joins both lists.
* `pending_messages` exceeds `queue_limit` after retries that block and after ON and MOD
  (`mgenFlow.cpp:952`).
* A flow without a rate whose send fails turns output notification off for the whole
  transport (`mgenFlow.cpp:970`) and relies on its own timer to try again. If it is stopped
  first, nobody turns output notification on: a flow with an OFF pending never sends what
  is pending and never stops (against `mgen-tech.xml:579`), and a flow whose timer a full
  queue turned off is silent until its next MOD or OFF (against `mgen-tech.xml:557`).
  Only an event of another flow helps: a refused send, OFF, or a timer that finds flows
  pending turns it on. `OffStopsUnlessLeftOff` and `TimerComesBackUnlessLeftOff` claim the
  rest: they except the behaviours in which output notification stays off for ever after
  such a stop (`[]LeftOff`), and no other. With `Setups <- QueueAndFailing` in
  `MCMgenFlowCount.cfg` TLC finds `OffStopsFlow` violated in seven
  states: the send of a flow with a queue is blocked, and the flow is switched off; the
  send of a flow without a rate fails, and that flow is stopped.
* `mgenFlow.cpp:605` says of a flow with a socket error that it should "notice the
  off_pending when it tries to send the next message"; the code falls through to
  `StopFlow` at once.
* `mgenFlow.cpp:527` asserts that an ON event finds the timer inactive. OFF with a message
  pending turns it off, but `SendPendingMessage` sends the message and starts it again
  (`mgenTransport.cpp:238`) without a look at `off_pending`; an ON event that comes before
  the timer fails the assertion. The makefiles for UNIX compile with `PROTO_DEBUG`, where
  that ends the program. `On` goes on as a build without assertions does.
* `GetPrevSet` (`protoBitmask.cpp:1235`): where nothing is set before an index, which takes
  a mask whose first bit is not set, its last loop counts an unsigned index past zero and
  reads outside the mask. The model answers "none"; only after ranges such as those
  of `mask_unset` can a mask be in that state.
* `Smf::Interface::AddAssociate` (`smf.cpp:36`, "TBD") takes an interface twice. nrlsmf asks
  `FindAssociate` first (`nrlsmf.cpp:996`), which the assumption `AssociatedOnce` says.
* `messages_sent` is not initialized by one of the transport's constructors
  (`mgenTransport.cpp:95`). It is compared only for flows with COUNT, which sets it to
  zero first, so the model starts at zero.

## 7. What is not modelled

* `ProtoTimerMgr`: a system timer that cannot be installed.
* `ProtoDispatcher`: `Stop` in the thread's own callback; a prompt set by the
  thread itself; `SetBreak` that fails; output notification; priorities; WIN32, epoll and
  kqueue.
* `DispatchController`: what follows `Stop` is modelled, and nothing claimed of it; a
  `SignalDispatchReady` that fails.
* `ProtoSlidingMask`: operations on two masks, `Resize`, an unlimited range
  (`range_mask = 0`); `ProtoBitmask`.
* SMF: packet parsing and capture, tapping, command processing, and the network as a set of
  nodes (the relay sets it needs are computed by another program).
* MGEN: flows on two transports or on TCP, the reception of UDP messages, multicast
  groups, sinks, RAPR's callbacks, command parsing, message packing, logging, the
  random patterns.
* RAPR interprets a script in one thread, SDT passes text commands to a viewer, TRPR and
  hcat filter traces; Protolib's containers, packets, sockets and routing parse,
  store or wrap the operating system. They have little that depends on order, and
  most of their lines are parsing and drawing.
* The simulator files under `opnet` (the largest of the repository) are generated or
  vendored copies of simulator process models; the rest are older copies and packaging.

## 8. Plan

The order is: what everything else stands on first.

1. Done: `ProtoTimerMgr` with `TimerService` and the refinement, runs `timers`,
   `timer_service`, theorems.
2. Done: `ProtoDispatcher`, runs `dispatcher`, `dispatcher_restart`, theorems.
3. Done: `SlidingMask`, `ProtoSlidingMask`, runs `sliding_mask`, `mask_unset`.
4. Done: `SmfDuplicateTree`, `Smf`, runs `smf_dpd`, `smf_taggers`.
5. Done: `DispatchController`, run `controller`, theorems.
6. Done: `MgenPendingList`, `MgenFlow`, `MgenTcpTransport`, runs `mgen_flow`, `mgen_count`,
   `mgen_tcp`, theorems.
7. Open: flows that move between two transports (`old_transport`), with a pair of links
   that both lists use; TCP flows on `MgenTcpTransport`.
8. Done: `PacketRelay`, which `Smf` implements for reasonable networks. Open: a few
   nodes, each a `PacketRelay`, with S_MPR, and a packet that has to reach all of them.
9. Done: theorems about the mask and about what SMF forwards.
10. Done: the refinement of `PacketRelay`, which rests on `TrackInv`.
