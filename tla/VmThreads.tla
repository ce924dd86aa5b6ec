------------------------------ MODULE VmThreads ------------------------------
(* The threads of one VM's device model and the guest they serve.            *)
(*                                                                           *)
(* The io thread (Vm::run_io) fetches one trapped access of a CPU at a time  *)
(* from the hypervisor, dispatches it to the device and completes it; the    *)
(* access that sets DRIVER_OK activates the device.  The event-manager       *)
(* thread runs the queue handlers and the calls that activate() posts to it. *)
(* The hypervisor turns a queue notification into an eventfd write once the  *)
(* queue's ioeventfd is registered, and into a trapped access before that.   *)
EXTENDS FiniteSets, DeviceKinds

CONSTANTS
    Cpus,           \* CPUs of the guest
    MaxResets       \* bound on the resets of a behaviour

ASSUME MaxResetsAssumption == MaxResets \in Nat

Ops == {"register", "notify", "features", "driverOk", "reset", "invalid"}

VARIABLES
    kind,           \* the device of this VM
    access,         \* the access each CPU is blocked on, or "none"
    driver,         \* life cycle of the driver
    acked,          \* VirtioConfig.driver_features
    supported,      \* what the backend supports, in the kernel or elsewhere
    ringFeatures,   \* what the backend was told to serve the rings with
    resets,         \* resets so far
    iopc,           \* where the io thread is
    hand,           \* the CPU whose access it has attached
    step,           \* position in Activate[kind]
    held,           \* mutexes the io thread holds
    activated,      \* VirtioConfig.device_activated
    regions,        \* how many regions VirtioDeviceCommon holds
    queues,         \* queues left in VirtioConfig.queues
    tap,            \* a file is attached to the tap interface (net)
    ioeventfds,     \* queues whose ioeventfd is registered
    attached,       \* subscribers and backends attached to the queues
    watched,        \* queues whose ioeventfd is watched for events
    endpoint,       \* state of the remote endpoint's call
    evm,            \* the event-manager thread: in its loop, blocked, dead
    doorbell        \* queues whose ioeventfd is readable

guest   == <<access, driver, acked, resets>>
ioLocal == <<iopc, hand, step, held>>
fixed   == <<kind, supported>>
Kept    == <<activated, regions, queues, ioeventfds, ringFeatures>>
device  == <<Kept, tap>>
evmSide == <<attached, watched, endpoint, evm, doorbell>>
vars    == <<fixed, guest, ioLocal, device, evmSide>>

Nobody == "nobody"

Init ==
    /\ kind \in Kinds
    /\ access = [c \in Cpus |-> "none"]
    /\ driver = "init" /\ acked = {} /\ resets = 0
    /\ supported \in BackendFeatures(kind) /\ ringFeatures = {}
    /\ iopc = "idle" /\ hand = Nobody /\ step = 1 /\ held = {}
    /\ activated = FALSE /\ regions = InitialRegions(kind)
    /\ queues = QueuesOf(kind) /\ ioeventfds = {} /\ tap = FALSE
    /\ attached = 0 /\ watched = {} /\ endpoint = "free" /\ doorbell = {}
    /\ evm = IF HasEventManager(kind) THEN "epoll" ELSE "absent"

-----------------------------------------------------------------------------
(* The guest. *)

(* A CPU reads or writes a register and blocks until the access is completed.*)
(* An access is invalid that misses the device or has an unknown direction.  *)
Trap(c) ==
    /\ access[c] = "none"
    /\ \E op \in {"register", "invalid"} :
        access' = [access EXCEPT ![c] = op]
    /\ UNCHANGED <<fixed, driver, acked, resets, ioLocal, device, evmSide>>

(* The driver acknowledges some of the features it was offered, page 0 last. *)
WriteFeatures(c) ==
    /\ access[c] = "none" /\ driver = "init"
    /\ driver' = "negotiating"
    /\ acked' \in SUBSET Offered(kind, supported)
    /\ access' = [access EXCEPT ![c] = "features"]
    /\ UNCHANGED <<fixed, resets, ioLocal, device, evmSide>>

(* It ends its initialisation. *)
WriteDriverOk(c) ==
    /\ access[c] = "none" /\ driver = "negotiated"
    /\ driver' = "starting"
    /\ access' = [access EXCEPT ![c] = "driverOk"]
    /\ UNCHANGED <<fixed, acked, resets, ioLocal, device, evmSide>>

(* The driver resets the device. *)
WriteReset(c) ==
    /\ access[c] = "none" /\ driver = "live" /\ resets < MaxResets
    /\ driver' = "resetting" /\ resets' = resets + 1
    /\ access' = [access EXCEPT ![c] = "reset"]
    /\ UNCHANGED <<fixed, acked, ioLocal, device, evmSide>>

(* A driver notifies a queue once it is live. Those of net and vsock may, on *)
(* one CPU, already while another waits for its write of DRIVER_OK.          *)
MayNotify ==
    driver = "live" \/ (driver = "starting" /\ TypeOf(kind) \in {"net", "vsock"})

Notify(c) ==
    /\ access[c] = "none" /\ MayNotify
    /\ \E q \in QueuesOf(kind) :
        IF q \in ioeventfds
        THEN doorbell' = doorbell \cup {q} /\ UNCHANGED access
        ELSE access' = [access EXCEPT ![c] = "notify"] /\ UNCHANGED doorbell
    /\ UNCHANGED <<fixed, driver, acked, resets, ioLocal, device,
                   attached, watched, endpoint, evm>>

-----------------------------------------------------------------------------
(* The io thread. *)

Free(lock) == lock \notin held

(* The tap is closed with the local variables of activate(), unless a        *)
(* handler or the kernel has it by then.                                     *)
DropTap == tap' = (tap /\ attached > 0) /\ UNCHANGED Kept

(* The thread panics or returns an error that its closure unwraps. *)
IoDies ==
    /\ iopc' = "dead"
    /\ DropTap
    /\ UNCHANGED <<fixed, guest, hand, step, held, evmSide>>

(* It locks the device model for the duration of the attach ioctl. *)
LockDeviceModel ==
    /\ iopc = "idle" /\ Free("device_model")
    /\ held' = held \cup {"device_model"}
    /\ iopc' = "attach"
    /\ UNCHANGED <<fixed, guest, hand, step, device, evmSide>>

(* Faulty variant: keeps the mutex while it dispatches the access. *)
AttachKeepsLock ==
    /\ iopc = "attach"
    /\ hand' \in {c \in Cpus : access[c] # "none"}
    /\ iopc' = "dispatch"
    /\ UNCHANGED <<fixed, guest, step, held, device, evmSide>>

(* The ioctl blocks until a CPU is blocked on an access. *)
AttachIoClient ==
    /\ iopc = "attach"
    /\ \/ /\ \E c \in Cpus : access[c] # "none" /\ hand' = c
          /\ held' = held \ {"device_model"}
          /\ iopc' = "dispatch"
          /\ UNCHANGED <<fixed, guest, step, device, evmSide>>
       \/ IoDies

(* negotiate_driver_features, which the vhost-user devices implement: the    *)
(* backend is told what the driver acknowledged, of what it supports. An     *)
(* error of the request panics.                                              *)
NegotiateDriverFeatures ==
    \/ /\ ringFeatures' = IF PlaneOf(kind) = "vhost_user"
                         THEN acked \cap supported
                         ELSE ringFeatures
       /\ iopc' = "complete"
       /\ UNCHANGED <<fixed, guest, hand, step, held, activated, regions, queues,
                      ioeventfds, tap, evmSide>>
    \/ /\ PlaneOf(kind) = "vhost_user"
       /\ IoDies

(* mmio_read and mmio_write of the device manager: an address of no device   *)
(* and an unknown direction are errors; the registers of the device never    *)
(* are.  reset() does nothing; whether the register file of the transport    *)
(* clears device_activated by itself is not determined by this source.       *)
Dispatch ==
    /\ iopc = "dispatch" /\ Free("device_manager")
    /\ LET op == access[hand] IN
       \/ /\ op = "invalid"
          /\ IoDies
       \/ /\ op \in {"register", "notify"}
          /\ iopc' = "complete"
          /\ UNCHANGED <<fixed, guest, hand, step, held, device, evmSide>>
       \/ /\ op = "features"
          /\ NegotiateDriverFeatures
       \/ /\ op = "reset"
          /\ activated' \in {activated, FALSE}
          /\ iopc' = "complete"
          /\ UNCHANGED <<fixed, guest, hand, step, held, regions, queues,
                         ioeventfds, ringFeatures, tap, evmSide>>
       \/ /\ op = "driverOk"
          /\ held' = held \cup {"device_manager"}
          /\ iopc' = "activate" /\ step' = 1
          /\ UNCHANGED <<fixed, guest, hand, device, evmSide>>

-----------------------------------------------------------------------------
(* activate(), one call at a time. *)

At(name) == iopc = "activate" /\ Activate[kind][step].name = name

(* Faulty variant: the tap outlives a failed activation. *)
CallFailsTapKept ==
    IF Activate[kind][step].onError = "panic"
    THEN IoDies
    ELSE /\ iopc' = "complete"
         /\ held' = held \ {"device_manager"}
         /\ UNCHANGED <<fixed, guest, hand, step, device, evmSide>>

(* Faulty variant: activates again instead of returning the error. *)
CallFailsRetried ==
    IF Activate[kind][step].onError = "panic"
    THEN IoDies
    ELSE /\ step' = 1 /\ iopc' = "activate"
         /\ DropTap
         /\ UNCHANGED <<fixed, guest, hand, held, evmSide>>

(* The call failed: an error returned by activate() ends the access. *)
CallFails ==
    IF Activate[kind][step].onError = "panic"
    THEN IoDies
    ELSE /\ iopc' = "complete"
         /\ held' = held \ {"device_manager"}
         /\ DropTap
         /\ UNCHANGED <<fixed, guest, hand, step, evmSide>>

CallReturns ==
    /\ step' = step + 1
    /\ iopc' = "activate"
    /\ UNCHANGED <<fixed, guest, hand, held>>

(* Opening the file, socket pair or pseudo-terminal. *)
Open ==
    /\ At("open")
    /\ \/ CallReturns /\ UNCHANGED <<device, evmSide>>
       \/ CallFails

(* Tap::open_named: the interface takes one file. *)
OpenTap ==
    /\ At("open_tap")
    /\ \/ ~tap /\ tap' = TRUE /\ CallReturns /\ UNCHANGED <<Kept, evmSide>>
       \/ CallFails

(* set_offload and set_vnet_hdr_size of the open tap. *)
ConfigureTap ==
    /\ At("configure_tap")
    /\ \/ CallReturns /\ UNCHANGED <<device, evmSide>>
       \/ CallFails

(* prepare_activate: its two checks, *)
PrepareActivate ==
    /\ At("prepare")
    /\ IF activated \/ "VERSION_1" \notin acked
       THEN CallFails
       ELSE /\ iopc' = "register"
            /\ UNCHANGED <<fixed, guest, hand, step, held, device, evmSide>>

(* Faulty variant: registers the first queue only. *)
RegisterFirstOnly ==
    /\ iopc = "register"
    /\ \/ /\ 0 \notin ioeventfds
          /\ ioeventfds' = {0}
          /\ UNCHANGED <<fixed, guest, ioLocal, activated, regions, queues,
                         ringFeatures, tap, evmSide>>
       \/ /\ 0 \in ioeventfds
          /\ CallReturns
          /\ UNCHANGED <<device, evmSide>>

(* then one ioeventfd for each queue left in the configuration, registered   *)
(* under the device-model mutex.                                             *)
RegisterIoeventfd ==
    /\ iopc = "register"
    /\ \/ \E q \in queues \ ioeventfds :
           /\ Free("device_model")
           /\ \A p \in queues \ ioeventfds : q <= p
           /\ ioeventfds' = ioeventfds \cup {q}
           /\ UNCHANGED <<fixed, guest, ioLocal, activated, regions, queues,
                          ringFeatures, tap, evmSide>>
       \/ /\ queues \subseteq ioeventfds
          /\ CallReturns
          /\ UNCHANGED <<device, evmSide>>
       \/ queues # {} /\ IoDies

(* Faulty variant: copies the regions and leaves them in place. *)
CopyMem ==
    /\ At("mem")
    /\ queues' = IF TakesQueues(kind) THEN {} ELSE queues
    /\ CallReturns
    /\ UNCHANGED <<activated, regions, ioeventfds, ringFeatures, tap, evmSide>>

(* mem() hands out the regions; there is no memory without a region. The     *)
(* block and console devices then move their queues into the handler.        *)
TakeMem ==
    /\ At("mem")
    /\ IF regions = 0
       THEN IoDies
       ELSE /\ regions' = 0
            /\ queues' = IF TakesQueues(kind) THEN {} ELSE queues
            /\ CallReturns
            /\ UNCHANGED <<activated, ioeventfds, ringFeatures, tap, evmSide>>

(* call_blocking: posts the closure and waits for the event manager. *)
CallBlocking ==
    /\ At("subscribe")
    /\ \/ /\ endpoint = "free"
          /\ endpoint' = "posted"
          /\ UNCHANGED <<ioLocal, fixed, guest>>
       \/ /\ endpoint = "answered"
          /\ endpoint' = "free"
          /\ CallReturns
    /\ UNCHANGED <<device, attached, watched, evm, doorbell>>

(* Setting up the vhost or vhost-user backend. It starts with set_owner, for *)
(* which the in-kernel backend of a device accepts one owner only. That      *)
(* backend gets the features the device offered, as far as it supports them. *)
StartBackend ==
    /\ At("backend")
    /\ \/ /\ PlaneOf(kind) = "vhost" => attached = 0
          /\ attached' = attached + 1
          /\ watched' = ServedQueues(kind)
          /\ ringFeatures' = IF PlaneOf(kind) = "vhost"
                             THEN DeviceFeatures[kind] \cap supported
                             ELSE ringFeatures
          /\ CallReturns
          /\ UNCHANGED <<activated, regions, queues, ioeventfds, tap,
                         endpoint, evm, doorbell>>
       \/ CallFails

SetActivated ==
    /\ At("done")
    /\ activated' = TRUE
    /\ iopc' = "complete"
    /\ held' = held \ {"device_manager"}
    /\ UNCHANGED <<fixed, guest, hand, step, regions, queues, ioeventfds,
                   ringFeatures, tap, evmSide>>

(* notify_io_completed lets the CPU run again. *)
NotifyIoCompleted ==
    /\ iopc = "complete" /\ Free("device_model")
    /\ \/ /\ access' = [access EXCEPT ![hand] = "none"]
          /\ driver' = CASE access[hand] = "features" -> "negotiated"
                         [] access[hand] = "driverOk" -> "live"
                         [] access[hand] = "reset"    -> "init"
                         [] OTHER                     -> driver
          /\ iopc' = "idle" /\ hand' = Nobody /\ step' = 1
          /\ UNCHANGED <<fixed, acked, resets, held, device, evmSide>>
       \/ IoDies

-----------------------------------------------------------------------------
(* The event-manager thread, or the backend process or kernel thread. *)

(* Faulty variant: init adds the first queue only. *)
AddFirstQueueOnly ==
    /\ evm = "epoll" /\ endpoint = "posted"
    /\ endpoint' = "answered"
    /\ attached' = attached + 1
    /\ watched' = {0}
    /\ UNCHANGED <<fixed, guest, ioLocal, device, evm, doorbell>>

AddSubscriber ==
    /\ evm = "epoll" /\ endpoint = "posted"
    /\ endpoint' = "answered"
    /\ attached' = attached + 1
    /\ watched' = IF attached = 0 THEN ServedQueues(kind) ELSE watched
    /\ UNCHANGED <<fixed, guest, ioLocal, device, evm, doorbell>>

(* The handler of a queue reads its ioeventfd and processes the queue. On an *)
(* error it stops watching its queues. The signal to the driver, and a second*)
(* handle_error, panic when they fail. The console's handler may wait for    *)
(* ever for room in a socket that only its own thread empties.               *)
HandleQueue ==
    /\ evm = "epoll"
    /\ \E q \in doorbell \cap watched : doorbell' = doorbell \ {q}
    /\ \/ watched' \in {watched, {}} /\ UNCHANGED evm
       \/ evm' = "dead" /\ UNCHANGED watched
       \/ kind = "VirtioConsole" /\ evm' = "blocked" /\ UNCHANGED watched
    /\ UNCHANGED <<fixed, guest, ioLocal, device, attached, endpoint>>

(* The handler of the pseudo-terminal unwraps what it enqueues and writes.   *)
PtyHandlerPanics ==
    /\ evm = "epoll" /\ kind = "VirtioConsole" /\ attached = 2
    /\ evm' = "dead"
    /\ UNCHANGED <<fixed, guest, ioLocal, device, attached, watched, endpoint,
                   doorbell>>

BackendHandlesQueue ==
    /\ evm = "absent"
    /\ \E q \in doorbell \cap watched : doorbell' = doorbell \ {q}
    /\ UNCHANGED <<fixed, guest, ioLocal, device, attached, watched, endpoint, evm>>

-----------------------------------------------------------------------------
Guest(c) == Trap(c) \/ WriteFeatures(c) \/ WriteDriverOk(c) \/ WriteReset(c) \/ Notify(c)

RunIo ==
    \/ LockDeviceModel \/ AttachIoClient \/ Dispatch
    \/ Open \/ OpenTap \/ ConfigureTap \/ PrepareActivate \/ RegisterIoeventfd \/ TakeMem
    \/ CallBlocking \/ StartBackend \/ SetActivated
    \/ NotifyIoCompleted

RunEventManager == AddSubscriber \/ HandleQueue \/ PtyHandlerPanics

Next ==
    \/ \E c \in Cpus : Guest(c)
    \/ RunIo
    \/ RunEventManager
    \/ BackendHandlesQueue

Spec == Init /\ [][Next]_vars

(* The host schedules its threads; the hypervisor hands out every access in  *)
(* the end; epoll reports every readable ioeventfd in the end. The guest is  *)
(* free to stop.                                                             *)
Fairness ==
    /\ WF_vars(RunIo)
    /\ \A c \in Cpus : SF_vars(AttachIoClient /\ hand' = c)
    /\ WF_vars(AddSubscriber)
    /\ \A q \in {0, 1} :
        WF_vars((HandleQueue \/ BackendHandlesQueue) /\ q \notin doorbell')

FairSpec == Spec /\ Fairness

-----------------------------------------------------------------------------
(* Properties. *)

(* Every variable has its type. *)
TypeOK ==
    /\ kind \in Kinds
    /\ access \in [Cpus -> Ops \cup {"none"}]
    /\ supported \subseteq Features /\ ringFeatures \subseteq Features
    /\ driver \in {"init", "negotiating", "negotiated", "starting", "live", "resetting"}
    /\ acked \subseteq Features /\ resets \in 0 .. MaxResets
    /\ iopc \in {"idle", "attach", "dispatch", "activate", "register",
                 "complete", "dead"}
    /\ hand \in Cpus \cup {Nobody}
    /\ step \in DOMAIN Activate[kind]
    /\ held \subseteq {"device_model", "device_manager"}
    /\ activated \in BOOLEAN /\ tap \in BOOLEAN /\ regions \in {0, 1}
    /\ queues \subseteq QueuesOf(kind) /\ ioeventfds \subseteq QueuesOf(kind)
    /\ attached \in Nat /\ watched \subseteq ServedQueues(kind)
    /\ endpoint \in {"free", "posted", "answered"}
    /\ evm \in {"absent", "epoll", "blocked", "dead"}
    /\ doorbell \subseteq QueuesOf(kind)

(* A ring is never served twice: however often the driver resets and starts  *)
(* the device, and whatever the transport does with device_activated, at most*)
(* one handler set or backend is attached to the queues.                     *)
OneBackend == attached <= Attachments(kind)

(* A device that says it is activated is ready: every ioeventfd is registered*)
(* and every handler attached. An activation cut short by an error or a panic*)
(* never leaves the flag set.                                                *)
ActivatedMeansReady ==
    activated => attached = Attachments(kind) /\ QueuesOf(kind) \subseteq ioeventfds

(* A failed activation gives the tap interface back: it takes one file only, *)
(* so a file left behind would fail every later activation.                  *)
TapReleased == tap => attached > 0 \/ iopc \in {"activate", "register"}

(* An activation is all or nothing: unless the io thread died of it, one that *)
(* is over has attached everything, or has left the tap, the regions and the *)
(* queues as it found them, so that the driver can try again.                *)
AllOrNothing ==
    iopc \notin {"activate", "register", "dead"} =>
        \/ attached = Attachments(kind)
        \/ /\ attached = 0 /\ ~tap
           /\ regions = InitialRegions(kind) /\ queues = QueuesOf(kind)

(* The io thread never waits for itself or for a thread that is gone: each   *)
(* mutex it is about to lock is free, and call_blocking finds the event      *)
(* manager in its loop. That thread ends, or blocks, in a handler only; its  *)
(* calls to epoll, and the additions of init, are taken not to fail.         *)
IoNeverStuck ==
    /\ iopc \in {"idle", "register", "complete"} => Free("device_model")
    /\ iopc = "dispatch" => Free("device_manager")
    /\ At("subscribe") /\ endpoint # "answered" => evm = "epoll"

(* The most steps one call of activate() takes: the checks of                *)
(* prepare_activate, an ioeventfd for each of three queues, the return.      *)
CallSteps == 5

(* A bound on what the io thread still does for the access in hand. *)
WorkLeft ==
    LET calls == Len(Activate[kind]) IN
    CASE iopc = "attach"   -> CallSteps * calls + 3
      [] iopc = "dispatch" -> CallSteps * calls + 2
      [] iopc = "activate" ->
            CallSteps * (calls - step) + (IF endpoint = "free" THEN 6 ELSE 5)
      [] iopc = "register" ->
            CallSteps * (calls - step) + 2 + Cardinality(queues \ ioeventfds)
      [] iopc = "complete" -> 1
      [] OTHER             -> 0

(* Once it has begun to fetch an access, each step of the io thread brings   *)
(* the access nearer to its completion, and no step of another thread puts   *)
(* it off: neither a failing call nor the loop over the queues starts over.  *)
IoAdvances ==
    [][iopc # "idle" =>
        IF RunIo THEN WorkLeft' < WorkLeft ELSE WorkLeft' = WorkLeft]_vars

(* This VM as VmmLifecycle sees it while main waits at its join. Who holds   *)
(* the VM and who owns its memory follow from the threads, the regions and   *)
(* what is attached; an activation is past a subscription once answered.     *)
ThreadState ==
    [io  |-> IF iopc = "dead" THEN "dead" ELSE "live",
     evm |-> [epoll |-> "live", blocked |-> "live", dead |-> "dead",
              absent |-> "none"][evm]]

Holders == {role \in {"io", "evm"} : ThreadState[role] = "live"}

Owner ==
    IF Holders = {} THEN "closed"
    ELSE IF regions = 1 THEN "regions"
    ELSE IF attached > 0 \/ InitialRegions(kind) = 0 THEN "backend"
    ELSE IF iopc = "dead" THEN "closed" ELSE "inHand"

Position ==
    IF iopc \in {"activate", "register"}
    THEN step + (IF endpoint = "answered" THEN 1 ELSE 0)
    ELSE 0

Lifecycle == INSTANCE VmmLifecycle WITH
    NumVms     <- 1,
    kinds      <- [v \in 1 .. 1 |-> kind],
    main       <- "join",
    cur        <- 1,
    step       <- 1,
    dispatcher <- FALSE,
    made       <- [v \in 1 .. 1 |-> {"get_info"} \cup
                    {DeviceNew[kind][i] : i \in DOMAIN DeviceNew[kind]}],
    refs       <- [v \in 1 .. 1 |-> Holders],
    memory     <- [v \in 1 .. 1 |-> Owner],
    thread     <- [t \in (1 .. 1) \X {"io", "evm"} |-> ThreadState[t[2]]],
    handles    <- IF HasEventManager(kind)
                  THEN <<<<1, "io">>, <<1, "evm">>>> ELSE <<<<1, "io">>>>,
    pos        <- [v \in 1 .. 1 |-> Position],
    attached   <- [v \in 1 .. 1 |-> attached]

(* The two views of a VM agree: every step of its threads is a step that     *)
(* VmmLifecycle allows, or changes nothing it sees. In particular the memory *)
(* changes hands only by the calls and deaths it names there.                *)
FollowsLifecycle == [][Lifecycle!Next]_(Lifecycle!vars)

(* A kick made while a handler is attached goes to its ioeventfd, also one   *)
(* made while activate() still attaches others: it is not trapped, where     *)
(* queue_notify would ignore it, as it does before the registration.         *)
KicksReachHandler ==
    [][\A c \in Cpus :
        access'[c] = "notify" /\ access[c] = "none" => attached = 0]_vars

StartsBackend == attached' # attached /\ ~HasEventManager(kind)

(* A vhost-user backend starts with exactly the features its driver has      *)
(* acknowledged: the negotiation has reached it by the time DRIVER_OK does.  *)
VhostUserNegotiated ==
    [][StartsBackend /\ PlaneOf(kind) = "vhost_user" => ringFeatures' = acked]_vars

(* "The frontend device needs to negotiate the features with the backend     *)
(* device", vhost or vhost-user: a backend starts with the features that the *)
(* driver acknowledged.                                                      *)
BackendNegotiated == [][StartsBackend => ringFeatures' = acked]_vars

(* mem() creates the guest memory "from the regions without removing them".  *)
RegionsKept == [][At("mem") /\ iopc' # "dead" => regions' = regions]_vars

(* Every access of a CPU is completed, unless the io thread died: no step of *)
(* dispatch, of activate() or of the event manager waits for ever.           *)
Answered ==
    \A c \in Cpus :
        (access[c] # "none") ~> (access[c] = "none" \/ iopc = "dead")

(* The queues have no handler, and will not have one again: it gave up, its  *)
(* thread died or is blocked, or the io thread died before it attached one.  *)
Unserved ==
    \/ evm \in {"blocked", "dead"}
    \/ attached > 0 /\ watched = {}
    \/ attached = 0 /\ iopc = "dead"

(* A kick on a served queue is handled, also one that arrives between the    *)
(* registration of the ioeventfd and that of the subscriber: the eventfd     *)
(* keeps it. A console's handler need not come back from the kick before it. *)
KickHandled ==
    \A q \in {0, 1} : (q \in doorbell) ~> (q \notin doorbell \/ Unserved)
=============================================================================
