----------------------------- MODULE VhostRings -----------------------------
(* The rings of a device whose backend is the kernel or another process.     *)
(* activate() hands the queues over to the backend, one call at a time; from *)
(* then on the backend works on the rings, is kicked through the ioeventfds  *)
(* and writes the irqfd by itself.  It cannot set the interrupt status,      *)
(* which the device does whenever the driver reads it.                       *)
(* The driver may add buffers before it sets DRIVER_OK, but rings no doorbell*)
(* then. While one CPU waits for that write, another may ring: a doorbell is *)
(* kept by the queue's ioeventfd once that is registered, and a trapped      *)
(* access before.  The backend itself is external to this code.              *)
EXTENDS Virtqueues, Sequences

VARIABLES
    calls,          \* what activate() has still to do
    dead,           \* a call failed: the io thread panicked
    registered,     \* queues whose ioeventfd is registered
    base,           \* per queue: what set_vring_base was told
    started,        \* queues the backend works on
    trapped,        \* queues whose doorbell is a trapped access
    ignored,        \* queues whose last doorbell went to queue_notify
    pc, onq         \* where the backend is, and on which queue

setup     == <<calls, dead, registered, base, started>>
doorbells == <<trapped, ignored>>
thread    == <<pc, onq>>
vars      == <<queueVars, setup, doorbells, thread>>

-----------------------------------------------------------------------------
(* What activate() does for the rings, in order: the driver sets DRIVER_OK,  *)
(* prepare_activate registers the ioeventfds, the backend is told of the     *)
(* rings, and then the write of DRIVER_OK is answered.                       *)

DriverOk == [name |-> "driverOk", on |-> {}]
Register(q) == [name |-> "register", on |-> {q}]
Base(q) == [name |-> "base", on |-> {q}]
Start(qs) == [name |-> "start", on |-> qs]
Return == [name |-> "done", on |-> {}]

(* Faulty variant: the ioeventfds are registered last. *)
NetVringsRegisterLast ==
    <<DriverOk, Base("rx"), Start({"rx"}), Base("tx"), Start({"tx"}),
      Register("rx"), Register("tx"), Return>>

(* VhostNet attaches the tap to each queue as soon as its ring is set up;    *)
NetVrings ==
    <<DriverOk, Register("rx"), Register("tx"),
      Base("rx"), Start({"rx"}), Base("tx"), Start({"tx"}), Return>>

(* VhostVsock starts its two queues together when it has set up both.  So    *)
(* does the frontend crate of the vhost-user devices, which stand for this   *)
(* kind too.                                                                 *)
VsockVrings ==
    <<DriverOk, Register("rx"), Register("tx"),
      Base("rx"), Base("tx"), Start(Queues), Return>>

Vrings == [VhostNet |-> NetVrings, VhostVsock |-> VsockVrings]

Init ==
    /\ QueuesInit
    /\ \E kind \in DOMAIN Vrings : calls = Vrings[kind]
    /\ dead = FALSE /\ registered = {}
    /\ base = [q \in Queues |-> 0] /\ started = {}
    /\ trapped = {} /\ ignored = {}
    /\ pc = "wait" /\ onq = "rx"

(* The call that activate() is at, and the queues it is about. *)
AtCall(name) == calls # <<>> /\ Head(calls).name = name /\ ~dead
CallOn == Head(calls).on

(* The io thread can take an access of the guest. *)
IoFree == calls = <<>> \/ AtCall("driverOk")

-----------------------------------------------------------------------------
(* activate(), on the io thread. *)

SetDriverOk ==
    /\ AtCall("driverOk")
    /\ calls' = Tail(calls)
    /\ UNCHANGED <<queueVars, dead, registered, base, started, doorbells, thread>>

RegisterIoeventfd ==
    /\ AtCall("register")
    /\ registered' = registered \cup CallOn
    /\ calls' = Tail(calls)
    /\ UNCHANGED <<queueVars, dead, base, started, doorbells, thread>>

(* Faulty variant: the backend starts at the first buffer. *)
SetVringBaseZero ==
    /\ AtCall("base")
    /\ \E q \in CallOn :
        base' = [base EXCEPT ![q] = avail[q]]
    /\ calls' = Tail(calls)
    /\ UNCHANGED <<queueVars, dead, registered, started, doorbells, thread>>

(* set_vring_base, with the available index of the ring at that moment: the  *)
(* backend will take the buffers from there on.                              *)
SetVringBase ==
    /\ AtCall("base")
    /\ \E q \in CallOn :
        /\ base' = [base EXCEPT ![q] = avail[q]]
        /\ next' = [next EXCEPT ![q] = avail[q]]
    /\ calls' = Tail(calls)
    /\ UNCHANGED <<avail, used, seen, events, kick, gpc, intr,
                   dead, registered, started, doorbells, thread>>

(* set_backend, or start. *)
StartRings ==
    /\ AtCall("start")
    /\ started' = started \cup CallOn
    /\ calls' = Tail(calls)
    /\ UNCHANGED <<queueVars, dead, registered, base, doorbells, thread>>

(* The write of DRIVER_OK is answered. *)
ActivateReturns ==
    /\ AtCall("done")
    /\ calls' = Tail(calls)
    /\ UNCHANGED <<queueVars, dead, registered, base, started, doorbells,
                   thread>>

(* Each call is unwrapped. *)
CallFails ==
    /\ \E name \in {"register", "base", "start"} : AtCall(name)
    /\ dead' = TRUE
    /\ UNCHANGED <<queueVars, calls, registered, base, started, doorbells,
                   thread>>

ActivateDevice ==
    SetDriverOk \/ RegisterIoeventfd \/ SetVringBase \/ StartRings \/ ActivateReturns

-----------------------------------------------------------------------------
(* The guest. It takes an interrupt at any time, but reads and acknowledges  *)
(* its status through the io thread.                                         *)

(* Faulty variant: the status is what the device has set. *)
ReadStatusUnset ==
    /\ IoFree
    /\ ReadInterruptStatus

(* interrupt_status() sets the bit before it returns the status. *)
ReadStatus ==
    /\ IoFree
    /\ ipc = "status" /\ ipc' = "ack"
    /\ intStatus' = TRUE
    /\ UNCHANGED <<rings, events, kick, gpc, irq>>

Handler ==
    \/ TakeInterrupt \/ ReadStatus \/ (IoFree /\ AckInterrupt)
    \/ Reap \/ ArmUsedEvent \/ LookAgain

(* A doorbell before its registration blocks its CPU like any access,        *)
RingDoorbell(q) ==
    /\ ~AtCall("driverOk") /\ gpc[q] = "kick" /\ q \notin trapped
    /\ IF q \in registered
       THEN Kick(q) /\ ignored' = ignored \ {q} /\ UNCHANGED trapped
       ELSE trapped' = trapped \cup {q} /\ UNCHANGED <<queueVars, ignored>>

(* until the io thread can take it: queue_notify does nothing.               *)
QueueNotify(q) ==
    /\ IoFree /\ q \in trapped
    /\ trapped' = trapped \ {q} /\ ignored' = ignored \cup {q}
    /\ gpc' = [gpc EXCEPT ![q] = "idle"]
    /\ UNCHANGED <<rings, events, kick, intr, setup, thread>>

Driver(q) == (KickPrepare(q) /\ UNCHANGED doorbells) \/ RingDoorbell(q)

(* One doorbell, rung after DRIVER_OK, announces all that was added before.  *)
PostEarly(q) ==
    /\ AtCall("driverOk") /\ gpc[q] = "kick"
    /\ Dist(avail[q], seen[q]) < RingSize(q)
    /\ avail' = [avail EXCEPT ![q] = Inc(@)]
    /\ UNCHANGED <<next, used, seen, events, kick, gpc, intr>>

GuestStep ==
    /\ \/ Handler /\ UNCHANGED doorbells
       \/ \E q \in Queues :
            \/ (Post(q) \/ PostEarly(q)) /\ UNCHANGED doorbells
            \/ Driver(q)
    /\ UNCHANGED <<setup, thread>>

-----------------------------------------------------------------------------
(* The backend: a worker for both queues. Received data may come at any time *)
(* and end at any time.                                                      *)

(* Faulty variant: the ioeventfds of the two rings are swapped. *)
WakeKickSwapped(q) ==
    /\ pc = "wait" /\ q \in started
    /\ \E p \in Queues \ {q} : kick[p] /\ TakeKick(p)
    /\ pc' = "disable" /\ onq' = q
    /\ UNCHANGED <<setup, doorbells>>

(* set_vring_kick gave the backend the ioeventfd of each ring. *)
WakeKick(q) ==
    /\ pc = "wait" /\ q \in started /\ kick[q]
    /\ TakeKick(q)
    /\ pc' = "disable" /\ onq' = q
    /\ UNCHANGED <<setup, doorbells>>

WakeData ==
    /\ pc = "wait" /\ "rx" \in started
    /\ pc' = "disable" /\ onq' = "rx"
    /\ UNCHANGED <<queueVars, setup, doorbells>>

DisableNotification ==
    /\ pc = "disable" /\ pc' = "pop"
    /\ Disable(onq)
    /\ UNCHANGED <<setup, doorbells, onq>>

PopChain ==
    /\ pc = "pop"
    /\ \/ Pop(onq) /\ pc' = "add"
       \/ ~HasChain(onq) /\ pc' = "enable" /\ UNCHANGED queueVars
       \/ onq = "rx" /\ pc' = "wait" /\ UNCHANGED queueVars
    /\ UNCHANGED <<setup, doorbells, onq>>

AddUsed ==
    /\ pc = "add" /\ pc' = "needs"
    /\ Use(onq)
    /\ UNCHANGED <<setup, doorbells, onq>>

NeedsNotification ==
    /\ pc = "needs"
    /\ pc' = IF Wanted(onq) THEN "irq" ELSE "pop"
    /\ ForgetAdded(onq)
    /\ UNCHANGED <<setup, doorbells, onq>>

(* The call of the ring is the irqfd; nothing sets the status. *)
WriteCall ==
    /\ pc = "irq" /\ pc' = "pop"
    /\ RaiseIrq
    /\ UNCHANGED <<setup, doorbells, onq>>

EnableNotification ==
    /\ pc = "enable" /\ pc' = "recheck"
    /\ Enable(onq)
    /\ UNCHANGED <<setup, doorbells, onq>>

Recheck ==
    /\ pc = "recheck"
    /\ pc' = IF HasChain(onq) THEN "disable" ELSE "wait"
    /\ UNCHANGED <<queueVars, setup, doorbells, onq>>

Serve ==
    \/ DisableNotification \/ PopChain \/ AddUsed \/ NeedsNotification
    \/ WriteCall \/ EnableNotification \/ Recheck

-----------------------------------------------------------------------------
Next ==
    \/ GuestStep
    \/ ActivateDevice \/ CallFails \/ \E q \in Queues : QueueNotify(q)
    \/ WakeData \/ \E q \in Queues : WakeKick(q)
    \/ Serve

Spec == Init /\ [][Next]_vars

(* The backend is scheduled, and epoll or the kernel reports every kick of   *)
(* the transmit ring in the end; a CPU about to ring its doorbell does.      *)
(* Received data need not end, but a run of it does.                         *)
Fairness ==
    /\ WF_vars(Serve)
    /\ SF_vars(PopChain /\ pc' = "wait")
    /\ SF_vars(WakeKick("tx"))
    /\ WF_vars(Driver("tx") /\ UNCHANGED <<setup, thread>>)

FairSpec == Spec /\ Fairness

-----------------------------------------------------------------------------
(* Properties. *)

Calls ==
    [name : {"driverOk", "register", "base", "start", "done"}, on : SUBSET Queues]

(* Every variable has its type. *)
TypeOK ==
    /\ QueuesTypeOK
    /\ calls \in Seq(Calls) /\ dead \in BOOLEAN
    /\ base \in [Queues -> Idx]
    /\ registered \subseteq Queues /\ started \subseteq Queues
    /\ trapped \subseteq Queues /\ ignored \subseteq Queues
    /\ pc \in {"wait", "disable", "pop", "add", "needs", "irq", "enable", "recheck"}
    /\ onq \in Queues

(* No lost interrupt, although nobody sets the status when a completion is   *)
(* signalled: an unseen completion has an interrupt on its way, or a run of  *)
(* the handler that will get past the status and look at the rings.          *)
NoLostInterrupt == pc = "wait" /\ Unseen # {} => irq \/ ipc # "idle"

(* No lost kick on the transmit ring, from the moment it is started, be it   *)
(* while the other ring is being set up or while activate() still runs: a    *)
(* doorbell rung during the hand-over finds its way to the backend. With     *)
(* event indices one rung before the registration, which queue_notify        *)
(* ignores, leaves the driver waiting, until it happens to ring again.       *)
KickIgnored(q) == EventIdx /\ q \in ignored

NoLostKick ==
    pc = "wait" /\ "tx" \in started /\ HasChain("tx") =>
        KickComing("tx") \/ KickIgnored("tx")

(* The buffers that were available when set_vring_base was called, and only  *)
(* those, are never used: they are lost to the driver. The others are used   *)
(* once each. Nothing is used before the ring is started.                    *)
OnlyEarlyBuffersLost ==
    \A q \in Queues :
        /\ Dist(next[q], used[q]) =
              (base[q] + (IF pc = "add" /\ onq = q THEN 1 ELSE 0)) % IdxMod
        /\ used[q] # 0 => q \in started
        /\ IndicesInOrder(q)

(* The buffers of the transmit ring that came after set_vring_base are taken *)
(* one after another, also while activate() still runs, unless the backend   *)
(* is never told of the ring or the driver rang too early.                   *)
Served ==
    <>[](HasChain("tx") /\ "tx" \in started /\ ~KickIgnored("tx"))
        => []<><<next["tx"]' # next["tx"]>>_next
=============================================================================
