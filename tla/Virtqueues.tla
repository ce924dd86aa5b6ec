------------------------------ MODULE Virtqueues ------------------------------
(* A receive queue and a transmit queue of one virtio device, the guest that *)
(* drives them and the signals between the two: an ioeventfd per queue, one  *)
(* interrupt for both.  The device modules extend this one with what they do *)
(* between two calls of the Queue objects.                                   *)
(*                                                                           *)
(* Ring indices count modulo IdxMod, as the 16-bit indices of the rings do,  *)
(* so behaviours have no end.  EventIdx says whether VIRTIO_F_RING_EVENT_IDX *)
(* is in use between the driver and the Queue objects.                       *)
EXTENDS Integers

CONSTANTS
    RxSize, TxSize, \* descriptors of the two rings
    IdxMod,         \* the ring indices wrap here (2^16 in the code)
    EventIdx        \* notifications by event index, not by flags

ASSUME RingAssumption ==
    /\ {RxSize, TxSize, IdxMod} \subseteq Nat
    /\ RxSize < IdxMod /\ TxSize < IdxMod
    /\ EventIdx \in BOOLEAN

VARIABLES
    avail, next,    \* per queue: available index, Queue.next_avail
    used, seen,     \* per queue: used index, completions the guest consumed
    noNotify,       \* per queue: VRING_USED_F_NO_NOTIFY
    availEvent,     \* per queue: index whose addition the device wants to hear
    usedEvent,      \* per queue: index whose use the driver wants to hear
    added,          \* per queue: Queue.num_added
    kick,           \* per queue: the ioeventfd is readable
    gpc,            \* per queue: where the CPU that adds buffers is
    intStatus, irq, \* interrupt status bit, interrupt not yet taken
    ipc             \* where the interrupt handler of the guest is

rings  == <<avail, next, used, seen>>
events == <<noNotify, availEvent, usedEvent, added>>
intr   == <<intStatus, irq, ipc>>
queueVars == <<rings, events, kick, gpc, intr>>

Queues == {"rx", "tx"}
RingSize(q) == IF q = "rx" THEN RxSize ELSE TxSize

Idx == 0 .. IdxMod - 1
Inc(i) == (i + 1) % IdxMod
Dist(i, j) == (i - j) % IdxMod      \* how far i is ahead of j

(* Faulty variant: off by one. *)
NeedEventOffByOne(event, new, old) == Dist(new, event) < Dist(new, old)

(* An event index asks to hear of the step from old to new. *)
NeedEvent(event, new, old) == Dist(new, Inc(event)) < Dist(new, old)

QueuesInit ==
    /\ avail = [q \in Queues |-> 0] /\ next = avail
    /\ used = avail /\ seen = avail
    /\ noNotify = [q \in Queues |-> FALSE]
    /\ availEvent = avail /\ usedEvent = avail /\ added = avail
    /\ kick = [q \in Queues |-> FALSE] /\ gpc = [q \in Queues |-> "idle"]
    /\ intStatus = FALSE /\ irq = FALSE /\ ipc = "idle"

-----------------------------------------------------------------------------
(* The guest adds buffers. *)

Post(q) ==
    /\ gpc[q] = "idle"
    /\ Dist(avail[q], seen[q]) < RingSize(q)
    /\ avail' = [avail EXCEPT ![q] = Inc(@)]
    /\ gpc' = [gpc EXCEPT ![q] = "check"]
    /\ UNCHANGED <<next, used, seen, events, kick, intr>>

(* The driver must ring the doorbell for the buffer it has just added. *)
KickWanted(q) ==
    IF EventIdx THEN Inc(availEvent[q]) = avail[q] ELSE ~noNotify[q]

KickPrepare(q) ==
    /\ gpc[q] = "check"
    /\ gpc' = [gpc EXCEPT ![q] = IF KickWanted(q) THEN "kick" ELSE "idle"]
    /\ UNCHANGED <<rings, events, kick, intr>>

Kick(q) ==
    /\ gpc[q] = "kick"
    /\ gpc' = [gpc EXCEPT ![q] = "idle"]
    /\ kick' = [kick EXCEPT ![q] = TRUE]
    /\ UNCHANGED <<rings, events, intr>>

-----------------------------------------------------------------------------
(* The interrupt handler of the guest, shared by both queues. *)

TakeInterrupt ==
    /\ ipc = "idle" /\ irq
    /\ irq' = FALSE
    /\ ipc' = "status"
    /\ UNCHANGED <<rings, events, kick, gpc, intStatus>>

ReadInterruptStatus ==
    /\ ipc = "status"
    /\ ipc' = IF intStatus THEN "ack" ELSE "idle"
    /\ UNCHANGED <<rings, events, kick, gpc, intStatus, irq>>

AckInterrupt ==
    /\ ipc = "ack"
    /\ intStatus' = FALSE
    /\ ipc' = "reap"
    /\ UNCHANGED <<rings, events, kick, gpc, irq>>

Unseen == {q \in Queues : used[q] # seen[q]}

Reap ==
    /\ ipc = "reap"
    /\ \/ /\ \E q \in Unseen : seen' = [seen EXCEPT ![q] = Inc(@)]
          /\ UNCHANGED ipc
       \/ /\ Unseen = {}
          /\ ipc' = IF EventIdx THEN "arm" ELSE "idle"
          /\ UNCHANGED seen
    /\ UNCHANGED <<avail, next, used, events, kick, gpc, intStatus, irq>>

(* It asks for the next completion, then looks once more. *)
ArmUsedEvent ==
    /\ ipc = "arm"
    /\ usedEvent' = seen
    /\ ipc' = "last"
    /\ UNCHANGED <<rings, noNotify, availEvent, added, kick, gpc, intStatus, irq>>

LookAgain ==
    /\ ipc = "last"
    /\ ipc' = IF Unseen = {} THEN "idle" ELSE "reap"
    /\ UNCHANGED <<rings, events, kick, gpc, intStatus, irq>>

InterruptHandler ==
    \/ TakeInterrupt \/ ReadInterruptStatus \/ AckInterrupt \/ Reap
    \/ ArmUsedEvent \/ LookAgain

Guest == InterruptHandler \/ \E q \in Queues : Post(q) \/ KickPrepare(q) \/ Kick(q)

-----------------------------------------------------------------------------
(* What the device does to a queue, one access of shared state each. *)

TakeKick(q) ==
    /\ kick' = [kick EXCEPT ![q] = FALSE]
    /\ UNCHANGED <<rings, events, gpc, intr>>

(* disable_notification: nothing to do when event indices are in use. *)
Disable(q) ==
    /\ noNotify' = [noNotify EXCEPT ![q] = ~EventIdx]
    /\ UNCHANGED <<rings, availEvent, usedEvent, added, kick, gpc, intr>>

(* enable_notification, and what it returns. *)
Enable(q) ==
    /\ IF EventIdx
       THEN availEvent' = [availEvent EXCEPT ![q] = next[q]] /\ UNCHANGED noNotify
       ELSE noNotify' = [noNotify EXCEPT ![q] = FALSE] /\ UNCHANGED availEvent
    /\ UNCHANGED <<rings, usedEvent, added, kick, gpc, intr>>

HasChain(q) == avail[q] # next[q]

Pop(q) ==
    /\ HasChain(q)
    /\ next' = [next EXCEPT ![q] = Inc(@)]
    /\ UNCHANGED <<avail, used, seen, events, kick, gpc, intr>>

Use(q) ==
    /\ used' = [used EXCEPT ![q] = Inc(@)]
    /\ added' = IF EventIdx THEN [added EXCEPT ![q] = Inc(@)] ELSE added
    /\ UNCHANGED <<avail, next, seen, noNotify, availEvent, usedEvent, kick,
                   gpc, intr>>

(* needs_notification: its result, and its effect. *)
Wanted(q) ==
    EventIdx => NeedEvent(usedEvent[q], used[q], Dist(used[q], added[q]))

ForgetAdded(q) ==
    /\ added' = [added EXCEPT ![q] = 0]
    /\ UNCHANGED <<rings, noNotify, availEvent, usedEvent, kick, gpc, intr>>

(* signal_used_queue, in two steps. *)
RaiseStatus ==
    /\ intStatus' = TRUE
    /\ UNCHANGED <<rings, events, kick, gpc, irq, ipc>>

RaiseIrq ==
    /\ irq' = TRUE
    /\ UNCHANGED <<rings, events, kick, gpc, intStatus, ipc>>

-----------------------------------------------------------------------------
(* Parts of the properties of the devices. *)

QueuesTypeOK ==
    /\ {avail, next, used, seen, availEvent, usedEvent, added}
            \subseteq [Queues -> Idx]
    /\ {noNotify, kick} \subseteq [Queues -> BOOLEAN]
    /\ gpc \in [Queues -> {"idle", "check", "kick"}]
    /\ intStatus \in BOOLEAN /\ irq \in BOOLEAN
    /\ ipc \in {"idle", "status", "ack", "reap", "arm", "last"}

(* The doorbell of a queue has rung or is certain to. *)
KickComing(q) ==
    kick[q] \/ gpc[q] = "kick" \/ (gpc[q] = "check" /\ KickWanted(q))

(* The driver will ring the doorbell for the next buffer it adds. *)
NextWillKick(q) ==
    IF EventIdx THEN availEvent[q] = avail[q] ELSE ~noNotify[q]

(* The interrupt handler has yet to look at the rings, or an interrupt that  *)
(* will find the status bit set is on its way.                               *)
InterruptComing ==
    \/ ipc \in {"ack", "reap", "arm", "last"}
    \/ intStatus /\ (irq \/ ipc = "status")

(* The indices of a queue are in order around its ring. *)
IndicesInOrder(q) ==
    /\ Dist(used[q], seen[q]) <= Dist(next[q], seen[q])
    /\ Dist(next[q], seen[q]) <= Dist(avail[q], seen[q])
    /\ Dist(avail[q], seen[q]) <= RingSize(q)
=============================================================================
