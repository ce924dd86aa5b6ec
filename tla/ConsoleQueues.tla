---------------------------- MODULE ConsoleQueues ----------------------------
(* The virtio console device.  Two subscribers run on the event-manager      *)
(* thread: QueueHandler serves the input ("rx") and output ("tx") queues,    *)
(* PtyHandler moves what is typed at the pseudo-terminal into the input      *)
(* buffer of the Console object and rings the input queue's own ioeventfd,   *)
(* and moves what the Console object wrote to its socket to the              *)
(* pseudo-terminal.  Data is counted in chunks.                              *)
EXTENDS Virtqueues

CONSTANTS
    PtyCap,         \* chunks typed and not yet read from the pseudo-terminal
    BufCap,         \* chunks the input buffer of the Console object takes
    SocketCap       \* chunks the socket takes before a write to it blocks

ASSUME CapAssumption == {PtyCap, BufCap, SocketCap} \subseteq Nat

VARIABLES
    typed, ptyEdge,       \* chunks at the pseudo-terminal, an edge of it
    inbuf,                \* chunks in the input buffer
    socket, socketEdge,   \* chunks in the socket, an edge of it
    lost,                 \* a receive chain was popped and never used
    watched,              \* QueueHandler's events are registered
    pc, onq               \* where the thread is, and for which queue

data   == <<typed, ptyEdge, inbuf, socket, socketEdge, lost>>
thread == <<watched, pc, onq>>
vars   == <<queueVars, data, thread>>

Init ==
    /\ QueuesInit
    /\ typed = 0 /\ ptyEdge = FALSE /\ inbuf = 0
    /\ socket = 0 /\ socketEdge = FALSE /\ lost = FALSE
    /\ watched = TRUE /\ pc = "wait" /\ onq = "rx"

-----------------------------------------------------------------------------
(* Somebody types at the pseudo-terminal. *)
Type ==
    /\ typed < PtyCap
    /\ typed' = typed + 1
    /\ ptyEdge' = TRUE
    /\ UNCHANGED <<queueVars, inbuf, socket, socketEdge, lost, thread>>

-----------------------------------------------------------------------------
(* PtyHandler::process. Both its events are edge-triggered. *)

WakePty ==
    /\ pc = "wait" /\ ptyEdge
    /\ ptyEdge' = FALSE
    /\ pc' = "pty"
    /\ UNCHANGED <<queueVars, typed, inbuf, socket, socketEdge, lost, watched, onq>>

(* It reads until the pseudo-terminal has nothing left. The unwrap of        *)
(* enqueue_data panics when the buffer is full.                              *)
ReadPty ==
    /\ pc = "pty"
    /\ \/ /\ typed = 0
          /\ pc' = "wait"
          /\ UNCHANGED <<typed, inbuf>>
       \/ /\ typed > 0
          /\ typed' = typed - 1
          /\ IF inbuf < BufCap
             THEN inbuf' = inbuf + 1 /\ pc' = "ring"
             ELSE pc' = "dead" /\ UNCHANGED inbuf
    /\ UNCHANGED <<queueVars, ptyEdge, socket, socketEdge, lost, watched, onq>>

(* Faulty variant: one read for each event. *)
RingAndReturn ==
    /\ pc = "ring" /\ pc' = "wait"
    /\ kick' = [kick EXCEPT !["rx"] = TRUE]
    /\ UNCHANGED <<rings, events, gpc, intr, data, watched, onq>>

RingInput ==
    /\ pc = "ring" /\ pc' = "pty"
    /\ kick' = [kick EXCEPT !["rx"] = TRUE]
    /\ UNCHANGED <<rings, events, gpc, intr, data, watched, onq>>

WakeSocket ==
    /\ pc = "wait" /\ socketEdge
    /\ socketEdge' = FALSE
    /\ pc' = "socket"
    /\ UNCHANGED <<queueVars, typed, ptyEdge, inbuf, socket, lost, watched, onq>>

(* The unwrap of the write panics when the pseudo-terminal is full.          *)
ReadSocket ==
    /\ pc = "socket"
    /\ \/ /\ socket = 0
          /\ pc' = "wait"
          /\ UNCHANGED socket
       \/ /\ socket > 0
          /\ socket' = socket - 1
          /\ pc' \in {"socket", "dead"}
    /\ UNCHANGED <<queueVars, typed, ptyEdge, inbuf, socketEdge, lost, watched, onq>>

-----------------------------------------------------------------------------
(* QueueHandler::process. *)

Wake(q) ==
    /\ pc = "wait" /\ watched /\ kick[q]
    /\ pc' = "read" /\ onq' = q
    /\ UNCHANGED <<queueVars, data, watched>>

(* Where the loop of either queue starts. *)
Top == IF onq = "rx" THEN "top" ELSE "disable"

ReadEvent ==
    /\ pc = "read" /\ pc' = Top
    /\ TakeKick(onq)
    /\ UNCHANGED <<data, watched, onq>>

(* process_input_queue has nothing to do while the buffer is empty. *)
CheckInput ==
    /\ pc = "top"
    /\ pc' = IF inbuf = 0 THEN "wait" ELSE "disable"
    /\ UNCHANGED <<queueVars, data, watched, onq>>

DisableNotification ==
    /\ pc = "disable" /\ pc' = "pop"
    /\ Disable(onq)
    /\ UNCHANGED <<data, watched, onq>>

(* Faulty variant: returns with notifications disabled. *)
PopOrReturn ==
    /\ pc = "pop"
    /\ IF HasChain(onq) /\ (onq = "rx" => inbuf > 0)
       THEN Pop(onq) /\ pc' = IF onq = "rx" THEN "fill" ELSE "flush"
       ELSE pc' = "wait" /\ UNCHANGED queueVars
    /\ UNCHANGED <<data, watched, onq>>

(* Faulty variant: takes the chain before it looks at the buffer. *)
PopThenCheck ==
    /\ pc = "pop"
    /\ IF HasChain(onq)
       THEN /\ Pop(onq)
            /\ pc' = IF onq = "tx" THEN "flush"
                     ELSE IF inbuf > 0 THEN "fill" ELSE "enable"
       ELSE pc' = "enable" /\ UNCHANGED queueVars
    /\ UNCHANGED <<data, watched, onq>>

(* The head of the inner loops: the input queue is popped only while the     *)
(* buffer holds data.                                                        *)
PopChain ==
    /\ pc = "pop"
    /\ IF HasChain(onq) /\ (onq = "rx" => inbuf > 0)
       THEN Pop(onq) /\ pc' = IF onq = "rx" THEN "fill" ELSE "flush"
       ELSE pc' = "enable" /\ UNCHANGED queueVars
    /\ UNCHANGED <<data, watched, onq>>

(* Faulty variant: uses a chain that takes nothing, too. *)
FillOrNothing ==
    /\ pc = "fill"
    /\ inbuf' \in 0 .. inbuf
    /\ pc' = "add"
    /\ UNCHANGED <<queueVars, typed, ptyEdge, socket, socketEdge, lost, watched, onq>>

(* process_receiveq_chain moves what fits into the chain; a chain without a  *)
(* writable byte takes nothing, and the loop ends without using it.          *)
FillChain ==
    /\ pc = "fill"
    /\ \/ /\ inbuf' \in 0 .. inbuf - 1
          /\ pc' = "add" /\ UNCHANGED lost
       \/ /\ pc' = "enable" /\ lost' = TRUE
          /\ UNCHANGED inbuf
    /\ UNCHANGED <<queueVars, typed, ptyEdge, socket, socketEdge, watched, onq>>

(* process_transmitq_chain writes to the blocking end of the socket pair.    *)
FlushChain ==
    /\ pc = "flush" /\ socket < SocketCap
    /\ socket' = socket + 1 /\ socketEdge' = TRUE
    /\ pc' = "add"
    /\ UNCHANGED <<queueVars, typed, ptyEdge, inbuf, lost, watched, onq>>

AddUsed ==
    /\ pc = "add" /\ pc' = "needs"
    /\ Use(onq)
    /\ UNCHANGED <<data, watched, onq>>

(* Faulty variant: signals once the input buffer is empty. *)
NeedsWhenDrained ==
    /\ pc = "needs"
    /\ pc' = IF Wanted(onq) /\ inbuf = 0 THEN "status" ELSE "pop"
    /\ ForgetAdded(onq)
    /\ UNCHANGED <<data, watched, onq>>

NeedsNotification ==
    /\ pc = "needs"
    /\ pc' = IF Wanted(onq) THEN "status" ELSE "pop"
    /\ ForgetAdded(onq)
    /\ UNCHANGED <<data, watched, onq>>

SetInterruptStatus ==
    /\ pc = "status" /\ pc' = "irq"
    /\ RaiseStatus
    /\ UNCHANGED <<data, watched, onq>>

WriteIrqfd ==
    /\ pc = "irq" /\ pc' = "pop"
    /\ RaiseIrq
    /\ UNCHANGED <<data, watched, onq>>

EnableNotification ==
    /\ pc = "enable" /\ pc' = "recheck"
    /\ Enable(onq)
    /\ UNCHANGED <<data, watched, onq>>

(* Faulty variant: what enable_notification returns is not looked at. *)
RecheckIgnored ==
    /\ pc = "recheck" /\ pc' = "wait"
    /\ UNCHANGED <<queueVars, data, watched, onq>>

Recheck ==
    /\ pc = "recheck"
    /\ pc' = IF HasChain(onq) THEN Top ELSE "wait"
    /\ UNCHANGED <<queueVars, data, watched, onq>>

(* A call followed by `?` fails: handle_error stops watching both queues;    *)
(* PtyHandler goes on.                                                       *)
Fail ==
    /\ pc \in {"disable", "pop", "fill", "flush", "add", "needs", "enable", "recheck"}
    /\ watched' = FALSE
    /\ pc' = "wait"
    /\ UNCHANGED <<queueVars, data, onq>>

-----------------------------------------------------------------------------
PtyHandler == ReadPty \/ RingInput \/ ReadSocket

QueueHandler ==
    \/ ReadEvent \/ CheckInput \/ DisableNotification \/ PopChain \/ FillChain
    \/ FlushChain \/ AddUsed \/ NeedsNotification \/ SetInterruptStatus
    \/ WriteIrqfd \/ EnableNotification \/ Recheck

Next ==
    \/ Guest /\ UNCHANGED <<data, thread>>
    \/ Type
    \/ WakePty \/ WakeSocket \/ \E q \in Queues : Wake(q)
    \/ PtyHandler \/ QueueHandler \/ Fail

Spec == Init /\ [][Next]_vars

(* epoll reports every ready event before it reports one again. Nobody is    *)
(* bound to type or to post buffers, and no call is bound to fail.           *)
Fairness ==
    /\ WF_vars(PtyHandler \/ QueueHandler)
    /\ SF_vars(WakePty) /\ SF_vars(WakeSocket)
    /\ \A q \in Queues :
        /\ SF_vars(Wake(q))
        /\ WF_vars((KickPrepare(q) \/ Kick(q)) /\ UNCHANGED <<data, thread>>)
    /\ WF_vars(InterruptHandler /\ UNCHANGED <<data, thread>>)

FairSpec == Spec /\ Fairness

-----------------------------------------------------------------------------
(* Properties. *)

(* Every variable has its type. *)
TypeOK ==
    /\ QueuesTypeOK
    /\ typed \in 0 .. PtyCap /\ inbuf \in 0 .. BufCap /\ socket \in 0 .. SocketCap
    /\ {ptyEdge, socketEdge, lost, watched} \subseteq BOOLEAN
    /\ pc \in {"wait", "read", "pty", "ring", "socket", "top", "disable", "pop",
               "fill", "flush", "add", "needs", "status", "irq", "enable",
               "recheck", "dead"}
    /\ onq \in Queues

Asleep == pc = "wait"

(* Nothing typed or printed is left behind without an event: while the thread*)
(* sleeps, an edge is pending for what is at the pseudo-terminal or in the   *)
(* socket. Both events are edge-triggered, so each handler must drain its    *)
(* source.                                                                   *)
NoStalledPty ==
    Asleep => (typed > 0 => ptyEdge) /\ (socket > 0 => socketEdge)

(* Input never stalls: while the thread sleeps with data in the input buffer,*)
(* the input queue's doorbell has rung or is about to, by the guest or by    *)
(* PtyHandler, or the queue is empty and its next buffer will ring.          *)
NoStalledInput ==
    Asleep /\ watched /\ inbuf > 0
        => KickComing("rx") \/ (~HasChain("rx") /\ NextWillKick("rx"))

(* No lost kick on the output queue, as for NetQueues. *)
NoLostKick == Asleep /\ watched /\ HasChain("tx") => KickComing("tx")

(* No lost interrupt on either queue, as for NetQueues. *)
NoLostInterrupt == Asleep /\ watched /\ Unseen # {} => InterruptComing

(* As long as no error stopped the handler and no receive chain came without *)
(* room for a byte, every popped chain but the one in hand is used.          *)
RingOrder ==
    \A q \in Queues :
        /\ watched /\ ~(q = "rx" /\ lost)
              => Dist(next[q], used[q]) =
                    IF pc \in {"fill", "flush", "add"} /\ onq = q THEN 1 ELSE 0
        /\ IndicesInOrder(q)

(* The abstract service, without notifications and without the way a chunk   *)
(* takes over the pseudo-terminal, the input buffer and the socket: nothing  *)
(* typed or printed is lost or doubled, short of an error, no receive buffer *)
(* comes back empty and no transmit buffer unprinted.                        *)
Service == INSTANCE ConsoleService WITH
    input   <- typed + inbuf,
    output  <- socket,
    lent    <- Dist(avail["rx"], used["rx"]),
    queued  <- Dist(avail["tx"], used["tx"]),
    done    <- IF pc = "add" THEN onq ELSE "none",
    stopped <- ~watched,
    dead    <- pc = "dead"

ConsoleServiceSpec == Service!Spec

(* Data in the input buffer moves on once there is a buffer for it, unless   *)
(* the handler gave up or the thread died.                                   *)
InputDelivered ==
    (inbuf > 0 /\ HasChain("rx"))
        ~> (inbuf = 0 \/ ~HasChain("rx") \/ ~watched \/ pc = "dead")

(* "Therefore, here we read data from the transmit queue and flush them to   *)
(* the referenced address": the flush of an output chain ends.               *)
Flushed == (pc = "flush") ~> (pc # "flush")
=============================================================================
