----------------------------- MODULE BlockQueue -----------------------------
(* The request queue of the virtio block device, from the doorbell to the    *)
(* interrupt handler of the guest.                                           *)
(*                                                                           *)
(* Three kinds of process share the ring: the CPUs of the guest, which make  *)
(* chains available and ring the doorbell (an ioeventfd); the event-manager  *)
(* thread of the device model, which runs QueueHandler::process; and the     *)
(* interrupt handler of the guest, woken through the irqfd.  Each atomic     *)
(* access of the device to shared memory or to an eventfd is a step.         *)
EXTENDS Naturals, Sequences, BlkRequest

CONSTANTS
    Cpus,           \* CPUs of the guest that submit requests
    MaxRequests     \* bound on the requests of a behaviour

ASSUME MaxRequestsAssumption == MaxRequests \in Nat

VARIABLES
    avail,          \* available ring: chains in the order they were published
    used,           \* used ring: completions in the order they were added
    noNotify,       \* VRING_USED_F_NO_NOTIFY in the flags of the used ring
    next,           \* Queue.next_avail: how many chains the device has popped
    cur,            \* the chain process_chain is working on
    dpc,            \* where the event-manager thread is
    doorbell,       \* the ioeventfd is readable
    registered,     \* the event manager still watches the ioeventfd
    intStatus,      \* VIRTIO_MMIO_INT_VRING in the interrupt status register
    irq,            \* the irqfd was written, the interrupt is not yet taken
    gpc,            \* where each CPU is
    ipc,            \* where the interrupt handler of the guest is
    seen            \* how many completions the guest has consumed

ring    == <<avail, used, noNotify, next, cur>>
signals == <<doorbell, registered, intStatus, irq>>
guest   == <<gpc, ipc, seen>>
vars    == <<ring, dpc, signals, guest>>

DevicePCs == {"wait", "read", "disable", "pop", "exec", "add",
              "status", "irq", "enable", "recheck"}
GuestPCs  == {"idle", "check", "kick"}
IrqPCs    == {"idle", "status", "ack", "reap"}

NoChain == [head |-> 0, wellFormed |-> FALSE]

(* Chains the guest has published and not yet got back. *)
Outstanding == {avail[i].head : i \in seen + 1 .. Len(avail)}

Init ==
    /\ avail = <<>> /\ used = <<>> /\ noNotify = FALSE /\ next = 0
    /\ cur = NoChain /\ dpc = "wait"
    /\ doorbell = FALSE /\ registered = TRUE
    /\ intStatus = FALSE /\ irq = FALSE
    /\ gpc = [c \in Cpus |-> "idle"] /\ ipc = "idle" /\ seen = 0

-----------------------------------------------------------------------------
(* The CPUs of the guest. *)

(* A CPU publishes a chain whose head descriptor is free. *)
Submit(c) ==
    /\ gpc[c] = "idle"
    /\ Len(avail) < MaxRequests
    /\ \E chain \in Chain :
        /\ chain.head \notin Outstanding
        /\ avail' = Append(avail, chain)
    /\ gpc' = [gpc EXCEPT ![c] = "check"]
    /\ UNCHANGED <<used, noNotify, next, cur, dpc, signals, ipc, seen>>

(* After a barrier it reads the flags of the used ring. *)
KickPrepare(c) ==
    /\ gpc[c] = "check"
    /\ gpc' = [gpc EXCEPT ![c] = IF noNotify THEN "idle" ELSE "kick"]
    /\ UNCHANGED <<ring, dpc, signals, ipc, seen>>

(* The write to QueueNotify, turned by the hypervisor into an ioeventfd      *)
(* write because it matches address and queue index.                         *)
Kick(c) ==
    /\ gpc[c] = "kick"
    /\ doorbell' = TRUE
    /\ gpc' = [gpc EXCEPT ![c] = "idle"]
    /\ UNCHANGED <<ring, dpc, registered, intStatus, irq, ipc, seen>>

-----------------------------------------------------------------------------
(* The event-manager thread. *)

(* epoll_wait returns: the ioeventfd is watched level-triggered. *)
Wake ==
    /\ dpc = "wait" /\ registered /\ doorbell
    /\ dpc' = "read"
    /\ UNCHANGED <<ring, signals, guest>>

ReadEvent ==
    /\ dpc = "read"
    /\ doorbell' = FALSE
    /\ dpc' = "disable"
    /\ UNCHANGED <<ring, registered, intStatus, irq, guest>>

DisableNotification ==
    /\ dpc = "disable"
    /\ noNotify' = TRUE
    /\ dpc' = "pop"
    /\ UNCHANGED <<avail, used, next, cur, signals, guest>>

(* Faulty variant: takes the newest chain. *)
PopNewest ==
    /\ dpc = "pop"
    /\ IF next < Len(avail)
       THEN cur' = avail[Len(avail)] /\ next' = next + 1 /\ dpc' = "exec"
       ELSE dpc' = "enable" /\ UNCHANGED <<next, cur>>
    /\ UNCHANGED <<avail, used, noNotify, signals, guest>>

(* Faulty variant: does not advance next_avail. *)
PopWithoutAdvance ==
    /\ dpc = "pop"
    /\ IF next < Len(avail)
       THEN cur' = avail[next + 1] /\ dpc' = "exec"
       ELSE dpc' = "enable" /\ UNCHANGED cur
    /\ UNCHANGED <<avail, used, noNotify, next, signals, guest>>

PopChain ==
    /\ dpc = "pop"
    /\ IF next < Len(avail)
       THEN /\ cur' = avail[next + 1]
            /\ next' = next + 1
            /\ dpc' = "exec"
       ELSE /\ dpc' = "enable"
            /\ UNCHANGED <<next, cur>>
    /\ UNCHANGED <<avail, used, noNotify, signals, guest>>

(* Request::parse, and process_request when it parses. *)
ProcessRequest ==
    /\ dpc = "exec"
    /\ dpc' = "add"
    /\ UNCHANGED <<ring, signals, guest>>

(* add_used; needs_notification is TRUE because EVENT_IDX is not offered. *)
AddUsed ==
    /\ dpc = "add"
    /\ used' = Append(used, UsedElem(cur))
    /\ dpc' = "status"
    /\ UNCHANGED <<avail, noNotify, next, cur, signals, guest>>

SetInterruptStatus ==
    /\ dpc = "status"
    /\ intStatus' = TRUE
    /\ dpc' = "irq"
    /\ UNCHANGED <<ring, doorbell, registered, irq, guest>>

WriteIrqfd ==
    /\ dpc = "irq"
    /\ irq' = TRUE
    /\ dpc' = "pop"
    /\ UNCHANGED <<ring, doorbell, registered, intStatus, guest>>

(* Faulty variant: the two accesses in the other order. *)
SignalIrqfdFirst ==
    \/ /\ dpc = "status" /\ irq' = TRUE /\ dpc' = "irq"
       /\ UNCHANGED <<ring, doorbell, registered, intStatus, guest>>
    \/ /\ dpc = "irq" /\ intStatus' = TRUE /\ dpc' = "pop"
       /\ UNCHANGED <<ring, doorbell, registered, irq, guest>>

(* Signal the driver: the status bit first, then the irqfd. *)
SignalUsedQueue == SetInterruptStatus \/ WriteIrqfd

(* Faulty variant: leaves the flag set. *)
EnableForgotten ==
    /\ dpc = "enable"
    /\ dpc' = "recheck"
    /\ UNCHANGED <<ring, signals, guest>>

EnableNotification ==
    /\ dpc = "enable"
    /\ noNotify' = FALSE
    /\ dpc' = "recheck"
    /\ UNCHANGED <<avail, used, next, cur, signals, guest>>

(* Faulty variant: does not look at the ring again. *)
RecheckSkipped ==
    /\ dpc = "recheck"
    /\ dpc' = "wait"
    /\ UNCHANGED <<ring, signals, guest>>

(* enable_notification says whether chains came in meanwhile. *)
Recheck ==
    /\ dpc = "recheck"
    /\ dpc' = IF next # Len(avail) THEN "disable" ELSE "wait"
    /\ UNCHANGED <<ring, signals, guest>>

(* Faulty variant: an error ends this run of process only. *)
FailAndContinue ==
    /\ \/ dpc \in {"disable", "pop", "add", "enable", "recheck"}
       \/ dpc = "exec" /\ cur.wellFormed
    /\ dpc' = "wait"
    /\ UNCHANGED <<ring, signals, guest>>

(* One of the calls followed by `?` fails: process removes the ioeventfd from*)
(* the event manager, and nothing ever puts it back. The failures are those  *)
(* of the rings in guest memory and of the request's backend; a request that *)
(* does not parse reaches no backend.                                        *)
Fail ==
    /\ \/ dpc \in {"disable", "pop", "add", "enable", "recheck"}
       \/ dpc = "exec" /\ cur.wellFormed
    /\ registered' = FALSE
    /\ dpc' = "wait"
    /\ UNCHANGED <<ring, doorbell, intStatus, irq, guest>>

-----------------------------------------------------------------------------
(* The interrupt handler of the guest. *)

TakeInterrupt ==
    /\ ipc = "idle" /\ irq
    /\ irq' = FALSE
    /\ ipc' = "status"
    /\ UNCHANGED <<ring, dpc, doorbell, registered, intStatus, gpc, seen>>

ReadInterruptStatus ==
    /\ ipc = "status"
    /\ ipc' = IF intStatus THEN "ack" ELSE "idle"
    /\ UNCHANGED <<ring, dpc, signals, gpc, seen>>

AckInterrupt ==
    /\ ipc = "ack"
    /\ intStatus' = FALSE
    /\ ipc' = "reap"
    /\ UNCHANGED <<ring, dpc, doorbell, registered, irq, gpc, seen>>

Reap ==
    /\ ipc = "reap"
    /\ IF seen < Len(used)
       THEN seen' = seen + 1 /\ UNCHANGED ipc
       ELSE ipc' = "idle" /\ UNCHANGED seen
    /\ UNCHANGED <<ring, dpc, signals, gpc>>

-----------------------------------------------------------------------------
Device ==
    \/ Wake \/ ReadEvent \/ DisableNotification \/ PopChain
    \/ ProcessRequest \/ AddUsed \/ SignalUsedQueue
    \/ EnableNotification \/ Recheck \/ Fail

Cpu(c) == Submit(c) \/ KickPrepare(c) \/ Kick(c)

InterruptHandler ==
    TakeInterrupt \/ ReadInterruptStatus \/ AckInterrupt \/ Reap

Next == Device \/ InterruptHandler \/ \E c \in Cpus : Cpu(c)

Spec == Init /\ [][Next]_vars

(* The operating systems of host and guest schedule the event-manager thread,*)
(* a CPU that is about to ring the doorbell and the interrupt handler; no    *)
(* one is bound to submit.                                                   *)
Fairness ==
    /\ WF_vars(Device)
    /\ WF_vars(InterruptHandler)
    /\ \A c \in Cpus : WF_vars(KickPrepare(c) \/ Kick(c))

FairSpec == Spec /\ Fairness

-----------------------------------------------------------------------------
(* Properties. *)

(* Every variable has its type. *)
TypeOK ==
    /\ avail \in Seq(Chain)
    /\ used \in Seq(Completion)
    /\ noNotify \in BOOLEAN /\ next \in Nat
    /\ cur \in Chain \cup {NoChain}
    /\ dpc \in {"exec", "add"} => cur \in Chain
    /\ dpc \in DevicePCs
    /\ doorbell \in BOOLEAN /\ registered \in BOOLEAN
    /\ intStatus \in BOOLEAN /\ irq \in BOOLEAN
    /\ gpc \in [Cpus -> GuestPCs] /\ ipc \in IrqPCs /\ seen \in Nat

(* No lost kick: whenever the thread sleeps on a watched ioeventfd with an   *)
(* unprocessed chain in the ring, the doorbell has rung or a CPU is certain  *)
(* to ring it. This is what the loop around enable_notification is for.      *)
NoLostKick ==
    dpc = "wait" /\ registered /\ next < Len(avail)
        => \/ doorbell
           \/ \E c \in Cpus : gpc[c] = "kick"
           \/ ~noNotify /\ \E c \in Cpus : gpc[c] = "check"

(* No lost interrupt: while a completion is unseen, the device is about to   *)
(* signal it, or the handler has yet to look at the ring, or the status bit  *)
(* is set and an interrupt that will read it is on its way. It is why        *)
(* signal_used_queue sets the bit before it writes the irqfd.                *)
NoLostInterrupt ==
    seen < Len(used)
        => \/ dpc = "status"
           \/ ipc \in {"ack", "reap"}
           \/ intStatus /\ (dpc = "irq" \/ irq \/ ipc = "status")

(* VIRTIO_F_IN_ORDER, which device_features offers: the completions are those*)
(* of the chains in available order, none skipped, none returned twice, and  *)
(* at most one popped chain is not completed, the one in hand or the one an  *)
(* error of process_chain left behind.                                       *)
InOrder ==
    /\ Len(used) <= next /\ next <= Len(used) + 1 /\ next <= Len(avail)
    /\ \A i \in 1 .. Len(used) : used[i] = UsedElem(avail[i])
    /\ registered => (next = Len(used) + 1 <=> dpc \in {"exec", "add"})

(* The device works only on a chain the driver has lent it: a chain in hand  *)
(* is outstanding and is not in the part of the used ring the driver has yet *)
(* to consume.                                                               *)
ChainOwnership ==
    dpc \in {"exec", "add"}
        => /\ cur.head \in Outstanding
           /\ \A i \in seen + 1 .. Len(used) : used[i].head # cur.head

(* Every published chain is returned to the driver, unless an error stopped  *)
(* the queue.                                                                *)
Served ==
    \A i \in 1 .. MaxRequests :
        (Len(avail) >= i) ~> (seen >= i \/ ~registered)

(* The queue implements an in-order service that stops at the first error.   *)
Service == INSTANCE InOrderService
    WITH submitted <- avail, completed <- used,
         observed <- seen, stopped <- ~registered

ServiceSpec == Service!Spec
=============================================================================
