# Bao VirtIO device model: specifications

TLA+ specifications, model-checking configurations and proofs for the device
model in `src/`: a user-space process that serves virtio devices to a guest of
the Bao hypervisor, either itself ("virtio" data plane), through the kernel
("vhost") or through another process ("vhost_user").

## 1. The system

### Components

| Component | State it keeps | Operations | Source (under `src/src/`) |
|---|---|---|---|
| `Vmm` | VMs, thread handles | `try_from`, `run`, `Drop` (joins) | `vmm/src/vmm.rs` |
| `Vm` | one device, device manager, device model, optional event manager | `add_device`, `run_io`, `run_event_manager` | `vmm/src/vm.rs` |
| `BaoDeviceModel` | file descriptors of the hypervisor's driver | attach, complete, register ioeventfd / irqfd (ioctls) | `api/src/device_model.rs` |
| `VirtioDeviceCommon` | virtio configuration, irqfd, memory regions | `new`, `prepare_activate`, `mem` | `virtio/src/device.rs` |
| seven devices | the above and a backend | `new`, `activate`, `reset` (empty), register access | `virtio/src/*/*/device.rs` |
| signalling | interrupt status, irqfd | `signal_used_queue` | `virtio/src/device.rs` |
| block queue | ring position, disk | `process`, `process_queue`, `process_chain` | `virtio/src/block/virtio/` |
| net queues | two ring positions, frame in hand, tap | `process_tap`, `process_rxq`, `process_txq` | `virtio/src/net/virtio/` |
| console queues | two ring positions, input buffer, socket, pseudo-terminal | `process_input_queue`, `process_output_queue`, `PtyHandler::process` | `virtio/src/console/virtio/` |
| vhost, vhost-user devices | backend handle | set-up in `activate`, `negotiate_driver_features`, `interrupt_status`, `read_config` | `virtio/src/{net,vsock,fs}/vhost*/` |
| vsock packet handler | (unreachable stub) | | `virtio/src/vsock/virtio/` |
| tap | the file of a host interface | `open_named`, `set_offload`, `set_vnet_hdr_size`, read, write | `virtio/src/net/virtio/tap.rs` |
| configuration, CLI, ioctl numbers, MMIO range | none after start-up | | `api/src/`, `main.rs`, `virtio/src/mmio.rs` |

### How they interact

A VM has an *io thread* (`run_io`) and, on the virtio data plane, an
*event-manager thread*. A guest CPU that touches a device register traps; the
io thread obtains the access by an ioctl made under the device-model mutex,
dispatches it under the device-manager mutex, and completes it. The write that
sets DRIVER_OK runs the device's `activate()` inside that dispatch:
it registers one ioeventfd per queue (device-model mutex again), takes guest
memory, builds the queue handlers, and posts them to the event-manager thread
with `call_blocking`. From the registration on, the hypervisor turns queue
notifications into eventfd writes that bypass the io thread. The event-manager
thread sleeps in epoll, runs one handler at a time, and signals the guest by
setting a status bit and then writing the irqfd. The guest and the device share
the rings without a lock.

### What is hard

* notification suppression: both sides decide from shared flags whether to
  signal, while the other side changes the ring;
* one status bit and one irqfd for several queues and completions;
* edge-triggered sources (tap, pseudo-terminal, socket) that have to be drained;
* one thread for several sources, blocking on one of them;
* rings handed over to a backend one call at a time, while the driver already uses
  them, and a backend that cannot set the interrupt status;
* activation in the middle of a dispatch, across two threads and two mutexes,
  with a failure possible at each call, and again after a reset that does
  nothing;
* one owner for the guest memory and for the descriptor of every request, which
  changes hands during activation;
* errors that stop a queue for good; panics that stop a thread for good.

`PROJECT.json` lists each hazard at its line, with the properties that cover
it or the reason none does.

## 2. Modules

| Module | Models |
|---|---|
| `BlkRequest` | a request chain and its used element |
| `InOrderService` | abstract: what the block device promises its driver |
| `BlockQueue` | the block request queue, in full detail |
| `Virtqueues` | a receive and a transmit queue, their driver, the operations of `virtio_queue::Queue`, signalling |
| `FrameService` | abstract: what the net device promises the tap and its driver |
| `NetQueues` | extends `Virtqueues` with the net device |
| `ConsoleService` | abstract: what the console device promises whoever types, and its driver |
| `ConsoleQueues` | extends `Virtqueues` with the console device |
| `VhostRings` | extends `Virtqueues` with the hand-over of the rings to a vhost backend |
| `DeviceKinds` | the seven devices: what builds them, their queues and features, the calls of their `new()` and `activate()` |
| `VmThreads` | io thread, event-manager thread, guest CPUs; negotiation, activation and reset of each device |
| `VmmLifecycle` | the process: main builds, starts and joins the VMs; who owns each VM, its memory and its descriptor |
| `*Proofs` | proofs about the module of that name (`VirtqueuesProofs`, `DeviceKindsProofs`: the lemmas the others share) |

`BlockQueue`, `NetQueues` and `ConsoleQueues` show the data plane of one device;
`VmThreads` and `VmmLifecycle` take a handler as one subscriber and show how it comes
to be attached and how it ends.

### Correspondence with the code

Each access by the device to something another party can see (ring index, used
flags, eventfd, status bit, mutex, tap) is one action; code between two of them
touches only local data and is folded into one of them. `dpc` / `pc` is the
position in `process` and below it; its values are named for the call that comes
next: `read` (eventfd), `disable`, `pop`, `exec`/`fill`/`flush` (the work on a
chain), `add` (`add_used`), `needs`, `status`, `irq`, `enable`, `recheck` (the
value `enable_notification` returns). `Fail` is any call followed by `?` that
returns an error, together with what `process` then does with it.

In `NetQueues` a failed read of the tap ends the loop of `process_tap` without an error,
whatever its reason (`simple_handler.rs:120`). When the reason is not EAGAIN, frames stay
in the tap with the edge consumed; `leftBehind` remembers it, and `NoStalledFrame` excepts
exactly that case, until a read succeeds again. Two failures of the event itself are
actions of their own: `RefuseEvent` (an event set that is not `IN`) and `ReadTxEventFails`,
after which the code stops watching and yet goes on into `process_txq` for one last run
(`Serving`).

`BlockQueue` keeps the rings as sequences of chains, never shortened, so that
"in order", "each once" and the refinement can be stated; the indices are the
lengths. `Virtqueues` keeps ring indices modulo `IdxMod`, as the 16-bit indices
are, and no contents: behaviours do not end and indices wrap.

`FrameService` sees of the net device only counts: frames that arrived and are in no
buffer (the tap's and the one in `rxbuf`), buffers lent for receiving, buffers
queued for sending, and whether an error has stopped the handler. A frame and a
receive buffer leave together in one step, `add_used`; a frame that waits in
`rxbuf` over several runs of `process_tap` is neither lost nor delivered twice.

`ConsoleService` counts in the same way: chunks typed that are in no receive buffer
(`input`: the pseudo-terminal's and `inbuf`), chunks printed that the terminal has not
got (`output`: the socket), buffers lent and queued. Filling a receive buffer and giving
it back are two steps, as `write_slice` and `add_used` are, with the pseudo-terminal free
to move in between; `done` is the queue of the buffer that was filled or printed. A
receive buffer without room for a byte is dropped by the code and never used: in the
service it stays lent for ever. An error of the queues (`stopped`) and a panic of
`PtyHandler` (`dead`) are different ends: after the first the terminal still shows what
is in the socket.

Definitions commented as a faulty variant are not part of any specification:
each is an operation with a plausible bug, used to show that a property would
notice it.

In `VmThreads`, `Activate[kind]` is the list of calls of a device's
`activate()` that can fail or that another party can see; `step` is the position
in it. `onError` says whether the code returns the error (`?`; the access is
completed, the device stays inactive) or panics (`unwrap`; the io thread dies
with its locks). `held` is the set of mutexes the io thread holds. Registering
an ioeventfd that is registered already changes nothing: the only activations
that reach that point a second time panic at their next call. Two feature bits are
followed from the offer over the driver's acknowledgement to the backend: VERSION_1,
which `prepare_activate` asks for, and the event indices, on which the rings depend.
The file of a tap (`tap`) belongs to `activate()` until a handler or the kernel takes
it; every early return and every panic drops it. `HandleQueue` is a whole run of a queue
handler, with the ways it can end seen from outside: it returns, it stops watching, it
panics (the `expect` of the signal to the driver and of a second `handle_error`; the
pseudo-terminal's `unwrap`), or, for the console, it never returns (`evm = "blocked"`, the
write that `console_flush` is about). `Unserved` collects the ends after which a kick has
no handler. `WorkLeft` is a bound on the steps the
io thread still takes for the access in hand.

`VmThreads` and `VmmLifecycle` describe the same threads at two levels, and
`FollowsLifecycle` checks that they agree: `Lifecycle` is an instance of `VmmLifecycle`
with one VM, main waiting at its join, in which `Position` (the call `activate()` is at),
`Owner` (who has the guest memory) and `Holders` (who holds the `Arc<Vm>`) are computed
from the state of `VmThreads`. Only steps are compared: `VmThreads` begins when the device
is built, long after the initial state of the process. A call posted to the event-manager
thread is at its call until the subscriber is added; the return of `call_blocking` is a
stutter.

`VhostRings` splits what is one step in `VmThreads` (`StartBackend`) into the calls the
rings see. `calls` is what `activate()` has still to do: the registration of each
ioeventfd, `set_vring_base` with the available index of that moment, the start of each
ring, and the return. All the while the io thread is busy and the guest's accesses to
registers wait, but another CPU than the one that wrote DRIVER_OK adds buffers and rings
doorbells (`RingDoorbell`): the ioeventfd keeps one that is registered, and before that
the access traps (`trapped`) until the io thread is free and `queue_notify`, which is
empty, swallows it (`QueueNotify`). In flags mode nothing is lost by that: whatever was
announced so was added before `set_vring_base`, and the next buffer rings again. With
event indices the index that is asked for stays, until the backend is woken a first time,
that of a buffer whose doorbell was swallowed, and the driver sees no reason to ring for
the later ones. `ignored` remembers it and `KickIgnored` is the exception in `NoLostKick`.
A failing call leaves the io thread dead. From the start of a ring on the backend serves
it and writes the irqfd by itself; the status is set by `interrupt_status()` when the
driver reads it.

`VmmLifecycle` follows several VMs from the start of the process to its end and uses the
same lists of calls (`DeviceNew`, `Activate`), but keeps of a VM only what outlives a
call: who holds the `Arc<Vm>` (`refs`), and who owns the guest memory (`memory`): the
regions of the device, the local variables of `activate()` (`inHand`), a handler or
backend, or nobody any more. `VirtioDeviceCommon::new` gives the mapping ownership of
`devmodel_fd`, so `closed` means that the requests of the io thread would go to a closed
descriptor. `prepare_activate` can end in three ways: it returns the descriptors, an error
of its own, or it panics on a registration (`RegisterFails`). Every thread ends by a
panic, which the `unwrap` in `Drop` turns into the end of the process. A spawn that fails
panics with the mutex of the handles held, and `Drop` panics on the poisoned mutex: the
process aborts. Whether `prepare_activate` returns its error is left open on each
activation; `VmThreads` follows the flags it depends on, for one VM.

### Assumptions about what is not in `src/`

* `virtio_queue`: `enable_notification` publishes the flag (or event index), then
  looks at the available index; without event indices `needs_notification` is
  always true. Event indices are on or off on both sides at once (`EventIdx`);
  `VirtioNet` offers them, `VirtioBlock` and `VirtioConsole` do not, the vhost devices do.
* Atomic accesses with the barriers of both sides are sequentially consistent.
* The driver follows the virtio specification: publish, barrier, look at the
  flags; acknowledge the interrupt before consuming completions; with event
  indices, re-arm and look again; acknowledge only offered features, the second page of
  them first. It may post buffers before DRIVER_OK, but rings doorbells only from that
  write on. A driver of a net or vsock device may do so on one CPU while another waits for
  the write to be answered; the drivers of block, fs and console are taken to wait. (Linux
  drivers that used a queue before the write itself did so with the same effect as a
  doorbell trapped before its registration: `queue_notify` ignores it.) A console driver
  that did not wait could block the event-manager thread between its two subscriptions.
* The event manager's own calls do not fail: `run().unwrap()` (`vm.rs:250`), the `.expect`
  on the additions in `init`, and the `unwrap` of the result of `call_blocking`. They fail only
  where epoll does. So the event-manager thread ends, or blocks, inside a handler only, on
  which `IoNeverStuck` and `IoIsNeverStuck` rest.
* The transport (an external fork of `virtio-device`) calls `activate()` on
  DRIVER_OK; whether it clears `device_activated` on a reset is left open, and the
  properties hold either way. Reading and acknowledging the interrupt status traps to
  the io thread.
* A vhost kernel device accepts `set_owner` once; every backend supports VERSION_1; a tap
  interface takes one file at a time.
* A backend, in the kernel or in another process, suppresses and re-checks
  notifications as the virtio specification asks. It is external and appears in
  `VhostRings` so that the hand-over can be checked against somebody.
* epoll reports a level-triggered descriptor while it is readable, an
  edge-triggered one after each new arrival.
* `PtyHandler` and `Console` share a blocking socket pair; the writer blocks when
  it is full.

## 3. What is checked

The type invariants are not among the properties of the runs: they are part of the
inductive invariants and proved for every module (section 4). All safety properties hold
without fairness. CHECK_DEADLOCK is off everywhere: the
guest may stop submitting, and threads end by error.

| Run | Bounds | Question | Result |
|---|---|---|---|
| `block` | 2 CPUs, 2 heads, 3 requests | kicks, interrupts, order, ownership, refinement of `InOrderService`; every request returned unless the queue stopped | holds |
| `net_flags` | rings 1+1, indices mod 2, bursts of 2, flags | both queues on one thread, one interrupt, refinement of `FrameService` | holds |
| `net_rx` | ring 1, mod 4, bursts of 2, event indices | batches are signalled, a frame waiting in `rxbuf` is delivered | holds |
| `net_tx` | ring 2, mod 4, event indices | every buffer is transmitted unless an error stopped the handler | holds |
| `console_safety` | rings 1+1, mod 2, 2 chunks typed, 2 in the buffer, 1 in the socket | two subscribers, two writers of one ioeventfd, refinement of `ConsoleService` | holds |
| `console_live` | ring 1, mod 2 | typed data moves on | holds |
| `console_flush` | ring 1, socket of 1 | the flush of an output chain ends | **violated** |
| `vm` | 2 CPUs, 2 resets, all 7 devices | activation, failure, reset, re-activation; a failed activation is undone, the io thread is never stuck and each of its steps brings the access nearer to its end, no kick is trapped in vain once a handler is attached, every access is answered while the io thread lives, every kick handled unless the handler is gone; every step is one of `VmmLifecycle` | holds |
| `vm_regions` | 1 CPU, no reset | `mem()` leaves the regions in place | **violated** |
| `vm_features` | 1 CPU, no reset | a backend gets the features the driver acknowledged | **violated** |
| `vhost` | receive ring 1, transmit ring 2, mod 3, flags | the hand-over of the rings, with doorbells rung at each point of it: kicks, interrupts, which buffers are lost, service | holds |
| `vmm` | 2 VMs, every pair of the 7 devices | start and end of the process, ownership of the memory and its descriptor, activation before the event manager runs | holds |

**Bounds.** Two CPUs give one that is between publishing and kicking while the other
publishes. Three requests on two heads reuse a head while its completion is unseen. A ring
of one descriptor is always full or empty, which is where suppression matters; rings of
two add a chain that comes while one is in hand. `IdxMod` exceeds the ring size by at
least one, as 2^16 does. `MaxBurst` bounds the frames in one run of `process_tap`; with
event indices `MaxBurst + 1` must stay below `IdxMod`, as the code needs fewer than 2^16
completions between two signals (see the hazard at `simple_handler.rs:134`). Two resets
allow a failed re-activation and another. Two VMs give a last one, whose threads main
waits for, and another one; the VMs share nothing else. Capacities of one and two chunks
let the buffer and the socket be empty, part full and full. `vhost` runs both rings, so
that the first one works while the second is set up, with flags; event indices, and the
exception they bring, are covered by the proofs, which bound nothing. That holds for every
invariant of the runs: section 4 proves each of them for all values of the constants, so
the bounds matter only for what is model-checked alone.

**Fairness.** A thread that can take a step takes it in the end; epoll reports
every ready descriptor before it reports one twice (strong fairness of the wake-up
actions of the net and console handlers); the hypervisor hands out every trapped
access in the end (strong fairness per CPU). A CPU about to ring a doorbell and
an interrupt handler that has begun are scheduled. Nobody is bound to submit, type,
send or reset, and in the console no call is bound to fail. In `vhost` the backend is
scheduled, a run of received data ends in the end (strong fairness of leaving the
receive loop), and kicks of the transmit ring are reported; activation itself is not
bound to end, so `Served` speaks only of a transmit ring that is started. In `vmm`, main and the
event managers are scheduled (a vhost-user backend shows up or the connection fails),
and no thread is bound to die.

Two starvations of the net device lie outside the liveness runs. Each direction is run
without the other: with both, TLC shows `FrameDelivered` violated, because `process_txq`
goes on as long as the driver keeps posting frames. In the same way, without `MaxBurst` an
endless flow of received frames would keep `process_tap` from returning. `PROJECT.json`
lists both as one hazard no property covers. `console_live`, too, runs without the output
queue: a steady flow of output, or the deadlock below, starves the input.

### Disagreements with the code's own comments

* `RegionsKept` (`vm_regions`). `device.rs:230` says `mem()` creates the memory
  "from the regions without removing them"; line 231 drains them. The vhost
  devices call it in their constructor, the others in `activate`; none calls it
  twice in a successful run, but a re-activation after a reset panics there.
  `OneBackend` depends on that panic: were the regions kept, a second handler
  would be attached to the same rings (this is the faulty variant `CopyMem`).
* `BackendNegotiated` (`vm_features`). The comment at `vsock/vhost_user/device.rs:216`
  calls `negotiate_driver_features` crucial for handlers outside the VMM, "vhost or
  vhost-user". Only the vhost-user devices implement it. `VhostNet` and `VhostVsock` give
  the kernel what they offered, as far as it supports it (`net/vhost/device.rs:184`),
  whatever the driver acknowledged: a driver that declines the event indices is served
  with them. For the vhost-user devices the comment holds, and is proved
  (`VhostUserIsNegotiated`).
* `Flushed` (`console_flush`). `console_handler.rs:81` says the output is flushed "to
  the referenced address". The write goes to the blocking end of a socket pair
  that is read by `PtyHandler` on the same thread: a run of chains larger than the
  socket's buffer blocks the thread, and all queues of the device, for ever.

## 4. What is proved

Every property of the passing runs that speaks of no fairness is a theorem, for every
value of the constants: the invariants, the refinements of `InOrderService`,
`FrameService` and `ConsoleService`, the agreement of `VmThreads` with `VmmLifecycle`, and
the action properties `KicksReachHandler`, `IoAdvances` and `EndedByLastThread`. Three
more are theorems without a run: the type of every module's variables,
`VhostUserIsNegotiated`, and that the comparison of event indices is exact. The assumptions are
those the modules state: `MaxRequests`, the capacities and `MaxResets` are natural
numbers, each ring is smaller than `IdxMod`, and there is at least one VM. One
theorem has another: `NetQueuesProofs!InterruptsAreNotLost` asks for
`MaxBurst + 1 < IdxMod` when event indices are in use, and is false without it.

**`BlockQueueProofs`.** The inductive invariant `IInv` is the conjunction of `TypeOK`,
`NoLostKick`, `NoLostInterrupt`, `InOrder` and four auxiliary parts:

* `GaveUp`: a thread that stopped watching its ioeventfd sleeps for ever;
* `FlagClear`: while the thread sleeps on a watched ioeventfd, notifications are
  enabled, otherwise a kick could be suppressed with nobody awake to look again;
* `InHand`: the chain in hand is the last one popped, which ties `cur` to the rings;
* `SeenBound`: the guest consumes only what was used;
* `DistinctHeads`: outstanding chains have distinct heads, which ownership needs.

`NoLostKick` is not inductive by itself: a CPU in `check` with the flag still set is
harmless only because the thread is then awake and will clear the flag and look
at the ring. Each part has a lemma (`KickStep`, `InterruptStep`, `OrderStep`,
`DistinctStep`, ...) with one case per action. `ImplementsService` maps each step to
`Submit` (guest `Submit`), `Complete` (`AddUsed`), `Observe` (`Reap`), `Stop`
(`Fail`) or a stutter.

**`VirtqueuesProofs`** holds what the three devices with two queues share. First the
arithmetic of indices modulo `IdxMod`: `Steps` (what a step of either index does to a
distance), `Between`, `Back`, and from these `NeedEventIsExact`: the comparison `new -
(event + 1) < new - old` of 16-bit indices holds exactly when `event` is among the indices
passed from `old` to `new`, also at zero and around the wrap. Then what each operation
does to the order of the indices (`PostOrder`, `ReapOrder`, `PopOrder`, `UseOrder`) and to
the buffers lent (`PostOwes`, `UseOwes`). Two ideas carry the notification proofs:

* `Waking(q)`: a kick of `q` is coming, or the ring is empty and its next buffer will be
  kicked. The guest alone never breaks it (`GuestWaking`), nor does work on the other
  queue (`OtherWaking`), and asking for notifications on an empty ring establishes it
  (`EnabledWaking`): this is why the device must look again after it has asked.
* `Told(q, n)`: an interrupt is coming, or at most `n` completions are unseen. With
  event indices it needs `Armed`: a driver that has left its handler asked for the
  completion after the last it saw. `WantedIfUnseen` then says that `needs_notification`
  is true whenever the driver waits for one of the last `num_added` completions.

**`NetQueuesProofs`.** `ControlInv` says with what each position of the thread comes
(a frame in hand from `pop` to `recheck` of the receive queue), `TapInv` and `TxInv`
that the thread will look before it sleeps or is `Waking`, `BatchInv` that `num_added`
counts the current batch, which is no longer than the burst, and `SignalInv` that
everything before the batch is told. `NoStalledFrame` alone is not inductive, as it
says nothing of a thread that is awake. Kicks, types and order need no bound on bursts
(`KickInvariance`). `ImplementsService` maps `FrameArrives` to `Arrive`, `Post` to `Lend`
or `Queue`, `AddUsed` to `Receive` or `Send`, `Fail` to `Stop`, and all else to a stutter.

**`ConsoleQueuesProofs`.** The same parts, with `SourceInv` (data at the
pseudo-terminal or in the socket has an edge to come, or its handler runs) and
`InputInv`: typed data is looked at, or about to be announced by `PtyHandler`, or
`Waking("rx")` holds, although two parties ring that ioeventfd. `ImplementsService` maps
`FillChain` to `Fill`, `FlushChain` to `Emit`, `AddUsed` to `Return`, `Fail` to `Stop`,
typing, the two moves of `PtyHandler` and the posting of buffers to `Type`, `Show` (or
`Overflow`), `Lend` and `Queue`; a chain without room, and all notifications, to a stutter.
It needs `ControlInv` and `InHandIsOwed`: between `pop` and `add_used` the device has at least
one buffer of the queue it is at.

**`VhostRingsProofs`.** `CallsInv` says of the calls still to come what the two lists have
in common (`ListsOfCalls`): DRIVER_OK is first and nothing is trapped until it, no ring is
set up after it was started, and the ioeventfd of the transmit queue is registered before
`set_vring_base`. `HandInv` ties the backend to the rings that were started. `TxInv` is
`Waking` again, and holds from before the hand-over, so a kick made during it is found
afterwards. What could break it is `queue_notify`, which takes a doorbell away: `TrapInv`
says that a trapped one announces only buffers that `set_vring_base` has passed over by the
time the io thread is free. `Reached(q, n)` replaces `Told`: since each read of the status
sets it, an interrupt that was taken is as good as one that is pending.

**`VmThreadsProofs`.** The parts of `IInv`:

* `CallInv`: which ioeventfds are registered at each call of `activate()`, and that a
  device marked activated is not activated again;
* `AttachInv`: nothing is attached while the regions hold the memory; an activation
  has attached what its calls so far attach, or it is a second one and still
  before the call that no second one passes (`mem()`, or `set_owner`);
* `AccessInv`: the io thread has the access of a blocked CPU, and only one CPU is in the
  middle of an initialisation step;
* `FeatureInv`: a vhost-user backend knows what the driver acknowledged;
* `LockInv`: which mutex the io thread holds where: never two, none outside the attach ioctl
  and the dispatch of DRIVER_OK;
* `ConsoleInv`: while a console's activation has not attached both handlers, no doorbell is
  rung;
* `FreshInv`: up to the call that no second activation passes, a device is either fully
  attached or as it was made.

`ActivationIsAllOrNothing` follows from `FreshInv` because every call whose error is
returned comes before that call (`Here`), a fact about seven lists. `IoIsNeverStuck` needs
`LockInv` and, for the call to the event-manager thread, that this thread dies or blocks
only with all subscribers attached (`AttachInv`). A console has two: its first handler
runs only after a doorbell, and `ConsoleInv` says that its driver rings none before both
are. `IoThreadAdvances` shows that each step of the io thread lowers `WorkLeft`, and that
no other step raises it. Together they are the safety content of `Answered`: the io thread
is never blocked for good and does not go round in circles. What is left to TLC is the
step from there to "in the end", which needs fairness and ENABLED.

`IsAVmOfTheProcess` has one case per action. `ThreadsSeen` and `Unseen` say when a
step changes nothing `VmmLifecycle` sees; `CallSeen` and `ReturnSeen` map the call and its
return; `IoDeathSeen` and `EvmDeathSeen` the death of a thread, with what becomes of the
memory it had. An error returned while the memory is in hand would close the descriptor:
`FreshInv` and `ReturnedError` exclude it. The attempt to prove this found an omission:
`VmmLifecycle` had no panic at the registration of an ioeventfd.

`OneBackend` is not inductive: that a second activation fails is known only from who has
the memory. The facts about the seven lists of calls are in `DeviceKindsProofs`.

**`VmmLifecycleProofs`.**

* `OnlyLastThreadEnds` rests on `HandlesInv`: when main starts to join, the last handle is
  that of the thread spawned last.
* `AllIsBuiltFirst` rests on `BuildInv`: the constructors of all VMs before `cur`, and
  the calls before `step` of its own, are done, and nothing runs yet.
* `DescriptorStaysOpen` rests on `MemoryInv`. It follows the memory through its owners:
  mapped when a constructor is done; with an io thread alive in the regions, in hand or
  with the backend; in hand only between `mem()` and the very next call; with the
  backend once something is attached, until the last thread drops the Vm. Two facts about
  every device enter (`DeviceNewMaps`, `ActivateCalls`): no constructor asks for the descriptor
  a second time, and after `mem()` an `activate()` makes no call whose error it returns.
* `TypeCorrect` adds `CountInv` (the length of the list of handles at each point of
  `run`), `MadeInv` (what the constructors have made) and `Slots` (as `AttachInv` above, for
  every VM).

**Only model-checked:** liveness (`Served` of the block queue and of the vhost rings,
`Transmitted`, `FrameDelivered`, `InputDelivered`, `Answered`, `KickHandled`,
`LastDeathNoticed`, `CallAnswered`), because it rests on fairness and ENABLED, which are
beyond the provers used. The three properties the code violates are refuted by their runs.

## 5. Not modelled

* contents and lengths of frames, requests and configuration space; truncation of a frame
  that is larger than its chain, short writes to the pseudo-terminal;
* the register file (external transport), and all feature bits but the two that the rings
  depend on;
* vhost and vhost-user backends beyond what `VhostRings` assumes of them; the memory
  table they are given;
* the address and length of the mapping of the guest memory;
* the vsock packet handler, which nothing builds: `add_device` has no case for it, and
  its packet handling is a stub;
* configuration, command line, ioctl numbers, error types: sequential, no state after
  start-up;
* weak memory effects.

## 6. Plan

Done: the block queue, the net and the console device with their abstract services, the
hand-over of the rings to a backend, the threads of a VM with negotiation and activation
of all devices, the life of the process and its agreement with the threads; proofs of all
their invariants, action properties and refinements.

What could follow:

1. Sizes: a frame and a chain each of a few units, for the truncation at
   `simple_handler.rs:102` and the short write at `pty_handler.rs:105`.
2. The start of the process against `VmThreads` as well: what the constructors leave
   behind is its initial state.
3. An abstract service for the vhost rings, of the buffers that were not there before the
   hand-over.
4. A property for VMs that are added while others run, should `try_from` and `run` ever
   be split that way: the descriptor in `Vmm.fd` is stale by then.
