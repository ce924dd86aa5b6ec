------------------------------ MODULE NetQueues ------------------------------
(* The virtio network device: the tap behind the two queues, and the handler *)
(* that serves the tap and both queues on the event-manager thread.          *)
EXTENDS Virtqueues

CONSTANTS
    TapCap,         \* frames the tap queues on the host
    MaxBurst        \* bound on the frames taken in one run of process_tap

ASSUME TapAssumption == TapCap \in Nat /\ MaxBurst \in Nat

VARIABLES
    backlog, edge,  \* frames in the tap; an edge of the tap not yet reported
    held,           \* rxbuf holds a frame (rxbuf_current # 0)
    burst,          \* frames taken since the thread last slept
    leftBehind,     \* history: the last read of the tap failed with frames in it
    watched,        \* the events are registered with the event manager
    pc, onq         \* where the event-manager thread is, and for which queue

tap    == <<backlog, edge, held, burst, leftBehind>>
thread == <<watched, pc, onq>>
vars   == <<queueVars, tap, thread>>

Init ==
    /\ QueuesInit
    /\ backlog = 0 /\ edge = FALSE /\ held = FALSE /\ burst = 0
    /\ leftBehind = FALSE
    /\ watched = TRUE /\ pc = "wait" /\ onq = "rx"

-----------------------------------------------------------------------------
(* Each arriving frame is a new edge of the tap. *)
FrameArrives ==
    /\ backlog < TapCap /\ burst + backlog < MaxBurst
    /\ backlog' = backlog + 1
    /\ edge' = TRUE
    /\ UNCHANGED <<queueVars, held, burst, leftBehind, thread>>

-----------------------------------------------------------------------------
(* QueueHandler::process, one event at a time. The ioeventfds are watched    *)
(* level-triggered, the tap edge-triggered.                                  *)

WakeQueue(q) ==
    /\ pc = "wait" /\ watched /\ kick[q]
    /\ pc' = "read" /\ onq' = q
    /\ UNCHANGED <<queueVars, tap, watched>>

WakeTap ==
    /\ pc = "wait" /\ watched /\ edge
    /\ edge' = FALSE
    /\ pc' = "tap" /\ onq' = "rx"
    /\ UNCHANGED <<queueVars, backlog, held, burst, leftBehind, watched>>

ReadEvent ==
    /\ pc = "read" /\ pc' = "disable"
    /\ TakeKick(onq)
    /\ UNCHANGED <<tap, watched, onq>>

(* An event with an unexpected set: handle_error stops watching all three    *)
(* events.                                                                   *)
RefuseEvent ==
    /\ pc = "wait" /\ watched
    /\ watched' = FALSE
    /\ UNCHANGED <<queueVars, tap, pc, onq>>

(* The read of the transmit ioeventfd fails: the handler stops watching, and *)
(* yet goes on to process_txq.                                               *)
ReadTxEventFails ==
    /\ pc = "read" /\ onq = "tx"
    /\ watched' = FALSE /\ pc' = "disable"
    /\ UNCHANGED <<queueVars, tap, onq>>

(* The thread goes back to epoll. *)
Sleep == pc' = "wait" /\ burst' = 0

DisableNotification ==
    /\ pc = "disable"
    /\ Disable(onq)
    /\ pc' = IF onq = "rx" THEN "tap" ELSE "pop"
    /\ UNCHANGED <<tap, watched, onq>>

(* Faulty variant: reads the tap over the frame that waits for a buffer.     *)
ReadTapOver ==
    /\ pc = "tap"
    /\ \/ /\ backlog > 0
          /\ backlog' = backlog - 1 /\ held' = TRUE /\ burst' = burst + 1
          /\ pc' = "pop"
          /\ UNCHANGED <<edge, leftBehind>>
       \/ /\ backlog = 0
          /\ pc' = IF held THEN "pop" ELSE "needs"
          /\ UNCHANGED tap
    /\ UNCHANGED <<queueVars, watched, onq>>

(* The head of the loop of process_tap: the frame in hand, or the next one.  *)
(* Any error of the read ends the loop: EAGAIN when the tap is empty, and    *)
(* every other one, which may leave frames in the tap.                       *)
ReadTap ==
    /\ pc = "tap"
    /\ \/ /\ held
          /\ pc' = "pop"
          /\ UNCHANGED tap
       \/ /\ ~held /\ backlog > 0
          /\ backlog' = backlog - 1 /\ held' = TRUE /\ burst' = burst + 1
          /\ leftBehind' = FALSE
          /\ pc' = "pop"
          /\ UNCHANGED edge
       \/ /\ ~held /\ backlog > 0
          /\ leftBehind' = TRUE
          /\ pc' = "needs"
          /\ UNCHANGED <<backlog, edge, held, burst>>
       \/ /\ ~held /\ backlog = 0
          /\ pc' = "needs"
          /\ UNCHANGED tap
    /\ UNCHANGED <<queueVars, watched, onq>>

(* Faulty variant: a frame too large for the chain is dropped, and the chain *)
(* with it.                                                                  *)
PopAndDrop ==
    /\ pc = "pop"
    /\ \/ Pop(onq) /\ pc' \in {"add", "pop"}
       \/ ~HasChain(onq) /\ pc' = "enable" /\ UNCHANGED queueVars
    /\ UNCHANGED <<tap, watched, onq>>

(* iter().next() of either queue. *)
PopChain ==
    /\ pc = "pop"
    /\ \/ Pop(onq) /\ pc' = "add"
       \/ ~HasChain(onq) /\ pc' = "enable" /\ UNCHANGED queueVars
    /\ UNCHANGED <<tap, watched, onq>>

(* Faulty variant: process_tap takes one frame for each event. *)
AddUsedOneFrame ==
    /\ pc = "add"
    /\ Use(onq)
    /\ held' = (held /\ onq # "rx")
    /\ pc' = "needs"
    /\ UNCHANGED <<backlog, edge, burst, leftBehind, watched, onq>>

(* add_used: of a filled receive buffer, or of a frame written to the tap. *)
AddUsed ==
    /\ pc = "add"
    /\ Use(onq)
    /\ held' = (held /\ onq # "rx")
    /\ pc' = IF onq = "rx" THEN "tap" ELSE "needs"
    /\ UNCHANGED <<backlog, edge, burst, leftBehind, watched, onq>>

EnableNotification ==
    /\ pc = "enable" /\ pc' = "recheck"
    /\ Enable(onq)
    /\ UNCHANGED <<tap, watched, onq>>

(* Faulty variant: what enable_notification returns is not looked at. *)
RecheckIgnored ==
    /\ pc = "recheck"
    /\ IF onq = "rx" THEN pc' = "needs" /\ UNCHANGED burst ELSE Sleep
    /\ UNCHANGED <<queueVars, backlog, edge, held, leftBehind, watched, onq>>

(* Faulty variant: process_tap returns, not breaks, when it has no buffers. *)
RecheckReturns ==
    /\ pc = "recheck"
    /\ IF HasChain(onq)
       THEN pc' = (IF onq = "rx" THEN "tap" ELSE "disable") /\ UNCHANGED burst
       ELSE Sleep
    /\ UNCHANGED <<queueVars, backlog, edge, held, leftBehind, watched, onq>>

(* Buffers that came in meanwhile: process_txq starts over, process_tap      *)
(* tries its frame again. Without any, process_txq returns, process_tap ends *)
(* its loop.                                                                 *)
Recheck ==
    /\ pc = "recheck"
    /\ \/ /\ HasChain(onq)
          /\ pc' = IF onq = "rx" THEN "tap" ELSE "disable"
          /\ UNCHANGED burst
       \/ ~HasChain(onq) /\ onq = "rx" /\ pc' = "needs" /\ UNCHANGED burst
       \/ ~HasChain(onq) /\ onq = "tx" /\ Sleep
    /\ UNCHANGED <<queueVars, backlog, edge, held, leftBehind, watched, onq>>

(* After the signal: process_tap returns, process_txq goes on. *)
AfterSignal == IF onq = "rx" THEN Sleep ELSE pc' = "pop" /\ UNCHANGED burst

NeedsNotification ==
    /\ pc = "needs"
    /\ IF Wanted(onq) THEN pc' = "status" /\ UNCHANGED burst ELSE AfterSignal
    /\ ForgetAdded(onq)
    /\ UNCHANGED <<backlog, edge, held, leftBehind, watched, onq>>

SetInterruptStatus ==
    /\ pc = "status" /\ pc' = "irq"
    /\ RaiseStatus
    /\ UNCHANGED <<tap, watched, onq>>

WriteIrqfd ==
    /\ pc = "irq"
    /\ RaiseIrq
    /\ AfterSignal
    /\ UNCHANGED <<backlog, edge, held, leftBehind, watched, onq>>

(* A call followed by `?` fails: a ring, a buffer, or the write to the tap,  *)
(* or the read of the receive ioeventfd.  handle_error stops watching; where *)
(* that was done before, removing the events again panics.                   *)
Fail ==
    /\ \/ pc \in {"disable", "pop", "add", "enable", "recheck", "needs"}
       \/ pc = "read" /\ onq = "rx"
    /\ watched' = FALSE
    /\ Sleep
    /\ UNCHANGED <<queueVars, backlog, edge, held, leftBehind, onq>>

-----------------------------------------------------------------------------
Wake == WakeTap \/ \E q \in Queues : WakeQueue(q)

Process ==
    \/ ReadEvent \/ DisableNotification \/ ReadTap \/ PopChain \/ AddUsed
    \/ EnableNotification \/ Recheck \/ NeedsNotification
    \/ SetInterruptStatus \/ WriteIrqfd \/ ReadTxEventFails \/ Fail

Next ==
    \/ Guest /\ UNCHANGED <<tap, thread>>
    \/ FrameArrives
    \/ Wake \/ Process \/ RefuseEvent

Spec == Init /\ [][Next]_vars

(* epoll reports every ready event before it reports one again. Nobody is    *)
(* bound to post buffers or to send frames.                                  *)
Fairness ==
    /\ WF_vars(Process)
    /\ SF_vars(WakeTap)
    /\ \A q \in Queues :
        /\ SF_vars(WakeQueue(q))
        /\ WF_vars((KickPrepare(q) \/ Kick(q)) /\ UNCHANGED <<tap, thread>>)
    /\ WF_vars(InterruptHandler /\ UNCHANGED <<tap, thread>>)

FairSpec == Spec /\ Fairness

-----------------------------------------------------------------------------
(* Properties. *)

(* Every variable has its type. *)
TypeOK ==
    /\ QueuesTypeOK
    /\ backlog \in 0 .. TapCap /\ burst \in 0 .. MaxBurst
    /\ {edge, held, watched, leftBehind} \subseteq BOOLEAN
    /\ pc \in {"wait", "read", "disable", "tap", "pop", "add", "enable",
               "recheck", "needs", "status", "irq"}
    /\ onq \in Queues

Asleep == pc = "wait" /\ watched

(* Receiving never stalls: while the thread sleeps, a frame in the tap or in *)
(* rxbuf has an event on its way, or it is the frame in rxbuf that waits for *)
(* a buffer whose addition will ring the doorbell. The tap is edge-triggered,*)
(* so process_tap must not leave frames behind without such an event.  It    *)
(* does so in one case: a read of the tap that fails for another reason than *)
(* EAGAIN leaves them there until the next frame or receive buffer comes.    *)
NoStalledFrame ==
    Asleep /\ (held \/ backlog > 0)
        => \/ edge
           \/ KickComing("rx")
           \/ held /\ ~HasChain("rx") /\ NextWillKick("rx")
           \/ ~held /\ leftBehind

(* No lost kick on the transmit queue: while the thread sleeps, a frame in   *)
(* the ring has its doorbell rung or about to be. This is what the loop of   *)
(* process_txq around enable_notification is for.                            *)
NoLostKick == Asleep /\ HasChain("tx") => KickComing("tx")

(* No lost interrupt on either queue: when the thread sleeps, an unseen      *)
(* completion has the handler still looking or an interrupt on its way.      *)
(* process_tap signals once for the whole batch of frames.  An error that    *)
(* ends the service (of a later frame of the batch, of a write to the tap)   *)
(* costs only the queue it struck its signals.                               *)
NoLostInterrupt ==
    \A q \in Queues :
        pc = "wait" /\ (watched \/ q # onq) /\ used[q] # seen[q]
            => InterruptComing

(* The handler is watched, or it is in its last run.                         *)
Serving == watched \/ pc # "wait"

(* No buffer is used twice or skipped: as long as no error stopped the       *)
(* handler, the used index is the index of the chains popped, but for the    *)
(* one in hand, and the indices stay in order around the ring.               *)
RingOrder ==
    \A q \in Queues :
        /\ Serving => Dist(next[q], used[q]) = IF pc = "add" /\ onq = q THEN 1 ELSE 0
        /\ IndicesInOrder(q)

(* The abstract service, without notifications: each frame is delivered in   *)
(* one buffer, although it may wait in rxbuf, over several runs of           *)
(* process_tap, for the driver to lend one, and each buffer comes back once. *)
Service == INSTANCE FrameService WITH
    waiting <- backlog + (IF held THEN 1 ELSE 0),
    lent    <- Dist(avail["rx"], used["rx"]),
    queued  <- Dist(avail["tx"], used["tx"]),
    stopped <- ~Serving

FrameServiceSpec == Service!Spec

(* process_txq goes on popping while there are buffers for transmission:     *)
(* each is taken in the end, unless an error stopped the handler.            *)
Transmitted ==
    <>[](HasChain("tx") /\ watched) => []<><<next["tx"]' # next["tx"]>>_next

(* A frame in rxbuf is delivered once there is a buffer for it. *)
FrameDelivered ==
    (held /\ HasChain("rx")) ~> (~held \/ ~watched)
=============================================================================
