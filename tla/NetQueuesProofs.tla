--------------------------- MODULE NetQueuesProofs ---------------------------
(* Proofs about the net device: the event-manager thread never sleeps on a   *)
(* frame or a buffer it ought to look at, and no signal is lost, for rings   *)
(* and bursts of any size, with and without event indices.                   *)
EXTENDS NetQueues, VirtqueuesProofs

(* Only the transmit queue is served in a run that is not watched any more,  *)
(* the tap is read for the receive queue, and a receive buffer is taken for  *)
(* a frame.                                                                  *)
ControlInv ==
    /\ pc # "wait" /\ onq = "rx" => watched
    /\ pc = "tap" => onq = "rx"
    /\ pc \in {"pop", "add", "enable", "recheck"} /\ onq = "rx" => held
    /\ burst + backlog <= MaxBurst
    /\ pc = "recheck" => Enabled(onq)

(* The thread will look at the tap, or at the transmit queue, before it      *)
(* sleeps.                                                                   *)
LooksAtTap ==
    onq = "rx" /\ pc \in {"disable", "tap", "pop", "add", "enable", "recheck"}

LooksAtTx ==
    /\ onq = "tx"
    /\ pc \in {"disable", "pop", "add", "needs", "status", "irq", "enable", "recheck"}

TapInv ==
    watched =>
        \/ LooksAtTap \/ (~held /\ (backlog = 0 \/ leftBehind)) \/ edge
        \/ held /\ Waking("rx")

TxInv == watched => LooksAtTx \/ Waking("tx")

(* Completions of q that the driver was not told of are in the current batch.*)
InBatch(q) ==
    /\ onq = q
    /\ \/ ~Serving
       \/ q = "rx" /\ pc \in {"tap", "pop", "add", "enable", "recheck", "needs"}
       \/ q = "tx" /\ pc = "needs"

(* The batch is what num_added counts; it is as large as a burst, with the   *)
(* frame that waited for a buffer before it.                                 *)
BatchInv ==
    EventIdx /\ Serving =>
        /\ \A q \in Queues : ~InBatch(q) => added[q] = 0
        /\ added["rx"] + (IF held THEN 1 ELSE 0) <= burst + 1

(* The driver was, or is being, told of everything before the batch. *)
Signalled(q) ==
    /\ onq = q /\ pc = "irq" => intStatus \/ Told(q, 0)
    /\ InBatch(q) /\ EventIdx => Told(q, added[q])
    /\ ~InBatch(q) /\ ~(onq = q /\ pc \in {"status", "irq"}) => Told(q, 0)

SignalInv == Armed /\ \A q \in Queues : Signalled(q)

KickIInv == TypeOK /\ ControlInv /\ RingOrder /\ TapInv /\ TxInv
IInv == KickIInv /\ BatchInv /\ SignalInv

-----------------------------------------------------------------------------
(* The ways a step can go. *)
LEMMA NextCases ==
    ASSUME [Next]_vars
    PROVE  \/ Guest /\ UNCHANGED <<tap, thread>>
           \/ FrameArrives \/ WakeTap \/ (\E q \in Queues : WakeQueue(q))
           \/ ReadEvent \/ DisableNotification \/ ReadTap \/ PopChain
           \/ AddUsed \/ EnableNotification \/ Recheck \/ NeedsNotification
           \/ SetInterruptStatus \/ WriteIrqfd \/ RefuseEvent
           \/ ReadTxEventFails \/ Fail \/ UNCHANGED vars
BY DEF Next, Wake, Process

(* What each step does to the queues. *)
LEMMA QueueCases ==
    ASSUME TypeOK, [Next]_vars
    PROVE  Guest \/ DeviceStep(onq) \/ UNCHANGED queueVars
BY NextCases DEF FrameArrives, WakeTap, WakeQueue, ReadEvent,
   DisableNotification, ReadTap, PopChain, AddUsed, EnableNotification, Recheck,
   NeedsNotification, SetInterruptStatus, WriteIrqfd, RefuseEvent,
   ReadTxEventFails, Fail, vars, DeviceStep

(* Every step keeps the types. *)
LEMMA TypeStep == ASSUME TypeOK, ControlInv, [Next]_vars PROVE TypeOK'
<1>1. QueuesTypeOK'
  <2>1. QueuesTypeOK /\ onq \in Queues BY DEF TypeOK
  <2>2. CASE UNCHANGED queueVars
    BY <2>1, <2>2 DEF QueuesTypeOK, queueVars, rings, events, intr
  <2> QED BY <2>1, <2>2, QueueCases, GuestTypes, DeviceTypes
<1> USE TapAssumption DEF TypeOK, ControlInv, tap, thread, Queues
<1>2. CASE Guest /\ UNCHANGED <<tap, thread>> BY <1>1, <1>2
<1>3. CASE FrameArrives BY <1>1, <1>3 DEF FrameArrives
<1>4. CASE WakeTap BY <1>1, <1>4 DEF WakeTap
<1>5. ASSUME NEW q \in Queues, WakeQueue(q) PROVE TypeOK'
  BY <1>1, <1>5 DEF WakeQueue
<1>6. CASE ReadEvent BY <1>1, <1>6 DEF ReadEvent
<1>7. CASE DisableNotification BY <1>1, <1>7 DEF DisableNotification
<1>8. CASE ReadTap
  <2>1. UNCHANGED <<edge, watched, onq>> /\ held' \in BOOLEAN
    BY <1>8 DEF ReadTap
  <2>1a. leftBehind' \in BOOLEAN BY <1>8, Zenon DEF ReadTap
  <2>2. backlog' \in 0 .. TapCap /\ burst' \in 0 .. MaxBurst BY <1>8 DEF ReadTap
  <2>3. pc' \in {"pop", "needs"} BY <1>8 DEF ReadTap
  <2> QED BY <1>1, <2>1, <2>1a, <2>2, <2>3
<1>9. CASE PopChain BY <1>1, <1>9 DEF PopChain
<1>10. CASE AddUsed BY <1>1, <1>10 DEF AddUsed
<1>11. CASE EnableNotification BY <1>1, <1>11 DEF EnableNotification
<1>12. CASE Recheck BY <1>1, <1>12 DEF Recheck, Sleep
<1>13. CASE NeedsNotification
  BY <1>1, <1>13 DEF NeedsNotification, AfterSignal, Sleep
<1>14. CASE SetInterruptStatus BY <1>1, <1>14 DEF SetInterruptStatus
<1>15. CASE WriteIrqfd BY <1>1, <1>15 DEF WriteIrqfd, AfterSignal, Sleep
<1>16. CASE Fail
  <2>1. UNCHANGED <<backlog, edge, held, leftBehind, onq>>
        /\ watched' \in BOOLEAN
    BY <1>16 DEF Fail
  <2>2. burst' = 0 /\ pc' = "wait" BY <1>16 DEF Fail, Sleep
  <2> QED BY <1>1, <2>1, <2>2
<1>17. CASE UNCHANGED vars BY <1>1, <1>17 DEF vars
<1>18. CASE RefuseEvent \/ ReadTxEventFails
  BY <1>1, <1>18 DEF RefuseEvent, ReadTxEventFails
<1> QED BY NextCases, <1>2, <1>3, <1>4, <1>5, <1>6, <1>7, <1>8, <1>9, <1>10,
           <1>11, <1>12, <1>13, <1>14, <1>15, <1>16, <1>17, <1>18

(* Where the thread may be, and with what. *)
LEMMA ControlStep == ASSUME TypeOK, ControlInv, [Next]_vars PROVE ControlInv'
<1> USE TapAssumption DEF TypeOK, QueuesTypeOK, ControlInv, tap, thread, Queues
<1>1. CASE Guest /\ UNCHANGED <<tap, thread>>
  <2>1. UNCHANGED <<next, noNotify, availEvent>>
    BY <1>1 DEF Guest, InterruptHandler, TakeInterrupt, ReadInterruptStatus,
                AckInterrupt, Reap, ArmUsedEvent, LookAgain, Post, KickPrepare,
                Kick, rings, events
  <2> QED BY <1>1, <2>1 DEF Enabled
<1>2. CASE FrameArrives
  BY <1>2 DEF FrameArrives, Enabled, queueVars, rings, events
<1>3. CASE WakeTap BY <1>3 DEF WakeTap
<1>4. ASSUME NEW q \in Queues, WakeQueue(q) PROVE ControlInv'
  BY <1>4 DEF WakeQueue
<1>5. CASE ReadEvent BY <1>5 DEF ReadEvent
<1>6. CASE DisableNotification BY <1>6 DEF DisableNotification
<1>7. CASE ReadTap BY <1>7 DEF ReadTap
<1>8. CASE PopChain BY <1>8 DEF PopChain
<1>9. CASE AddUsed BY <1>9 DEF AddUsed
<1>10. CASE EnableNotification
  BY <1>10 DEF EnableNotification, Enable, Enabled, rings
<1>11. CASE Recheck
  <2>1. UNCHANGED <<backlog, held, watched, onq>> /\ pc' # "recheck"
        /\ pc = "recheck"
    BY <1>11 DEF Recheck, Sleep
  <2>2. pc' = "tap" => onq = "rx" BY <1>11 DEF Recheck, Sleep
  <2>3. pc' \notin {"pop", "add", "enable"} BY <1>11 DEF Recheck, Sleep
  <2>4. burst' + backlog <= MaxBurst BY <1>11 DEF Recheck, Sleep
  <2> QED BY <2>1, <2>2, <2>3, <2>4
<1>12. CASE NeedsNotification
  BY <1>12 DEF NeedsNotification, AfterSignal, Sleep
<1>13. CASE SetInterruptStatus BY <1>13 DEF SetInterruptStatus
<1>14. CASE WriteIrqfd BY <1>14 DEF WriteIrqfd, AfterSignal, Sleep
<1>15. CASE Fail BY <1>15 DEF Fail, Sleep
<1>16. CASE UNCHANGED vars
  BY <1>16 DEF vars, Enabled, queueVars, rings, events
<1>17. CASE RefuseEvent \/ ReadTxEventFails
  BY <1>17 DEF RefuseEvent, ReadTxEventFails
<1> QED BY NextCases, <1>1, <1>2, <1>3, <1>4, <1>5, <1>6, <1>7, <1>8, <1>9,
           <1>10, <1>11, <1>12, <1>13, <1>14, <1>15, <1>16, <1>17

(* The chain in hand is the one between the used index and the position.     *)
LEMMA OrderStep ==
    ASSUME TypeOK, ControlInv, RingOrder, [Next]_vars
    PROVE  RingOrder'
<1> USE DEF ControlInv, RingOrder
<1>1. QueuesTypeOK /\ onq \in Queues BY DEF TypeOK
<1>2. CASE Guest /\ UNCHANGED <<tap, thread>>
  BY <1>1, <1>2, GuestOrder DEF thread, Serving
<1>3. CASE PopChain /\ HasChain(onq)
  <2>1. Pop(onq) /\ pc = "pop" /\ pc' = "add" /\ UNCHANGED <<watched, onq, used>>
    BY <1>3 DEF PopChain, Pop
  <2>2. \A q \in Queues : IndicesInOrder(q)' BY <1>1, <2>1, PopOrder
  <2> QED BY <1>1, <2>1, <2>2, PopHand DEF Serving
<1>4. CASE AddUsed
  <2>1. Use(onq) /\ pc = "add" /\ pc' # "add" /\ Serving
        /\ UNCHANGED <<watched, onq>>
    BY <1>4 DEF AddUsed, Serving
  <2>2. Dist(next[onq], used[onq]) = 1 BY <1>1, <2>1
  <2>3. used[onq] # next[onq] BY <1>1, <2>2, TypesOf, Steps
  <2>4. \A q \in Queues : IndicesInOrder(q)' BY <1>1, <2>1, <2>3, UseOrder
  <2> QED BY <1>1, <2>1, <2>2, <2>3, <2>4, UseHand
<1>5. CASE UNCHANGED rings /\ (Serving' => Serving)
           /\ (pc = "add" <=> pc' = "add") /\ (pc' = "add" => onq' = onq)
  BY <1>5 DEF rings, IndicesInOrder
<1>6. CASE Fail \/ RefuseEvent
  BY <1>6 DEF Fail, RefuseEvent, Serving, Sleep, rings, IndicesInOrder, queueVars
<1>6a. CASE ReadTxEventFails
  BY <1>5, <1>6a DEF ReadTxEventFails, Serving, queueVars
<1>7. ASSUME NEW q \in Queues, WakeQueue(q) PROVE RingOrder'
  BY <1>5, <1>7 DEF WakeQueue, Serving, queueVars
<1>8. CASE FrameArrives \/ WakeTap \/ UNCHANGED vars
  BY <1>5, <1>8 DEF FrameArrives, WakeTap, Serving, vars, queueVars, thread
<1>9. CASE ReadEvent \/ DisableNotification \/ EnableNotification
  BY <1>5, <1>9 DEF ReadEvent, TakeKick, DisableNotification, Disable,
                    EnableNotification, Enable, Serving
<1>10. CASE ReadTap \/ (PopChain /\ ~HasChain(onq)) \/ Recheck
  BY <1>5, <1>10 DEF ReadTap, PopChain, Pop, Recheck, Sleep, Serving, queueVars
<1>11. CASE NeedsNotification
  BY <1>5, <1>11 DEF NeedsNotification, ForgetAdded, AfterSignal, Sleep, Serving
<1>12. CASE SetInterruptStatus \/ WriteIrqfd
  BY <1>5, <1>12 DEF SetInterruptStatus, RaiseStatus, WriteIrqfd, RaiseIrq,
                     AfterSignal, Sleep, Serving, thread
<1> QED BY NextCases, <1>2, <1>3, <1>4, <1>6, <1>6a, <1>7, <1>8, <1>9, <1>10, <1>11,
           <1>12

(* A frame is never left behind with nothing to wake the thread for it.      *)
LEMMA TapStep ==
    ASSUME TypeOK, ControlInv, TapInv, [Next]_vars
    PROVE  TapInv'
<1> USE DEF TapInv, LooksAtTap, tap, thread
<1>1. QueuesTypeOK /\ onq \in Queues BY DEF TypeOK
<1>2. CASE Guest /\ UNCHANGED <<tap, thread>>
  BY <1>1, <1>2, GuestWaking DEF Queues
<1>3. CASE FrameArrives BY <1>3 DEF FrameArrives
<1>4. CASE WakeTap BY <1>4 DEF WakeTap
<1>5. ASSUME NEW q \in Queues, WakeQueue(q) PROVE TapInv'
  BY <1>1, <1>5, OtherWaking DEF WakeQueue, Queues
<1>6. CASE ReadEvent
  BY <1>1, <1>6, OtherWaking DEF ReadEvent, DeviceStep, Queues
<1>7. CASE DisableNotification
  BY <1>1, <1>7, OtherWaking DEF DisableNotification, DeviceStep, Queues
<1>8. CASE ReadTap BY <1>8 DEF ReadTap, ControlInv
<1>9. CASE PopChain
  BY <1>1, <1>9, OtherWaking DEF PopChain, DeviceStep, Queues
<1>10. CASE AddUsed
  BY <1>1, <1>10, OtherWaking DEF AddUsed, Queues
<1>11. CASE EnableNotification
  BY <1>1, <1>11, OtherWaking DEF EnableNotification, DeviceStep, Queues
<1>12. CASE Recheck
  <2>1. CASE onq = "rx" /\ ~HasChain("rx")
    BY <1>1, <1>12, <2>1, EnabledWaking, OtherWaking DEF Recheck, ControlInv, Queues
  <2>2. CASE onq = "rx" /\ HasChain("rx") BY <1>12, <2>2 DEF Recheck
  <2>3. CASE onq = "tx" BY <1>1, <1>12, <2>3, OtherWaking DEF Recheck, Sleep, Queues
  <2> QED BY <1>1, <2>1, <2>2, <2>3 DEF Queues
<1>13. CASE NeedsNotification
  BY <1>1, <1>13, OtherWaking DEF NeedsNotification, AfterSignal, Sleep, Queues
<1>14. CASE SetInterruptStatus
  BY <1>1, <1>14, OtherWaking DEF SetInterruptStatus, Queues
<1>15. CASE WriteIrqfd
  BY <1>1, <1>15, OtherWaking DEF WriteIrqfd, AfterSignal, Sleep, Queues
<1>16. CASE Fail BY <1>16 DEF Fail
<1>17. CASE UNCHANGED vars BY <1>1, <1>17, OtherWaking DEF vars, Queues
<1>18. CASE RefuseEvent \/ ReadTxEventFails
  BY <1>18 DEF RefuseEvent, ReadTxEventFails
<1> QED BY NextCases, <1>2, <1>3, <1>4, <1>5, <1>6, <1>7, <1>8, <1>9, <1>10,
           <1>11, <1>12, <1>13, <1>14, <1>15, <1>16, <1>17, <1>18

(* Nor is a frame to send.                                                   *)
LEMMA TxStep ==
    ASSUME TypeOK, ControlInv, TxInv, [Next]_vars
    PROVE  TxInv'
<1> USE DEF TxInv, LooksAtTx, tap, thread
<1>1. QueuesTypeOK /\ onq \in Queues BY DEF TypeOK
<1>2. CASE Guest /\ UNCHANGED <<tap, thread>>
  BY <1>1, <1>2, GuestWaking DEF Queues
<1>3. CASE FrameArrives BY <1>1, <1>3, OtherWaking DEF FrameArrives, Queues
<1>4. CASE WakeTap BY <1>1, <1>4, OtherWaking DEF WakeTap, Queues
<1>5. ASSUME NEW q \in Queues, WakeQueue(q) PROVE TxInv'
  BY <1>1, <1>5, OtherWaking DEF WakeQueue, Queues
<1>6. CASE ReadEvent
  BY <1>1, <1>6, OtherWaking DEF ReadEvent, DeviceStep, Queues
<1>7. CASE DisableNotification
  BY <1>1, <1>7, OtherWaking DEF DisableNotification, DeviceStep, Queues
<1>8. CASE ReadTap BY <1>1, <1>8, OtherWaking DEF ReadTap, ControlInv, Queues
<1>9. CASE PopChain
  BY <1>1, <1>9, OtherWaking DEF PopChain, DeviceStep, Queues
<1>10. CASE AddUsed
  BY <1>1, <1>10, OtherWaking DEF AddUsed, Queues
<1>11. CASE EnableNotification
  BY <1>1, <1>11, OtherWaking DEF EnableNotification, DeviceStep, Queues
<1>12. CASE Recheck
  <2>1. CASE onq = "tx" /\ ~HasChain("tx")
    BY <1>1, <1>12, <2>1, EnabledWaking, OtherWaking
    DEF Recheck, Sleep, ControlInv, Queues
  <2>2. CASE onq = "tx" /\ HasChain("tx") BY <1>12, <2>2 DEF Recheck
  <2>3. CASE onq = "rx" BY <1>1, <1>12, <2>3, OtherWaking DEF Recheck, Sleep, Queues
  <2> QED BY <1>1, <2>1, <2>2, <2>3 DEF Queues
<1>13. CASE NeedsNotification
  BY <1>1, <1>13, OtherWaking DEF NeedsNotification, AfterSignal, Sleep, Queues
<1>14. CASE SetInterruptStatus
  BY <1>1, <1>14, OtherWaking DEF SetInterruptStatus, Queues
<1>15. CASE WriteIrqfd
  BY <1>1, <1>15, OtherWaking DEF WriteIrqfd, AfterSignal, Sleep, Queues
<1>16. CASE Fail BY <1>16 DEF Fail
<1>17. CASE UNCHANGED vars BY <1>1, <1>17, OtherWaking DEF vars, Queues
<1>18. CASE RefuseEvent \/ ReadTxEventFails
  BY <1>18 DEF RefuseEvent, ReadTxEventFails
<1> QED BY NextCases, <1>2, <1>3, <1>4, <1>5, <1>6, <1>7, <1>8, <1>9, <1>10,
           <1>11, <1>12, <1>13, <1>14, <1>15, <1>16, <1>17, <1>18

(* num_added counts the batch, and a batch is no longer than a burst.        *)
LEMMA BatchStep ==
    ASSUME TypeOK, ControlInv, BatchInv, [Next]_vars
    PROVE  BatchInv'
<1>1. SUFFICES ASSUME EventIdx, Serving, Serving' PROVE BatchInv'
  <2>1. ~Serving => ~Serving'
    BY NextCases DEF FrameArrives, WakeTap, WakeQueue, ReadEvent,
       DisableNotification, ReadTap, PopChain, AddUsed, EnableNotification,
       Recheck, NeedsNotification, SetInterruptStatus, WriteIrqfd, RefuseEvent,
       ReadTxEventFails, Fail, vars, thread, Serving
  <2> QED BY <2>1 DEF BatchInv
<1> USE <1>1 DEF BatchInv, InBatch, tap, thread
<1>2. QueuesTypeOK /\ onq \in Queues /\ burst \in Nat
  BY TapAssumption DEF TypeOK
<1>3. \A q \in Queues : added[q] \in Nat BY <1>2, TypesOf DEF Idx
<1>4. CASE UNCHANGED added /\ UNCHANGED tap
           /\ \A q \in Queues : ~InBatch(q)' => ~InBatch(q)
  BY <1>4
<1>5. CASE Guest /\ UNCHANGED <<tap, thread>>
  BY <1>5 DEF Guest, InterruptHandler, TakeInterrupt, ReadInterruptStatus,
     AckInterrupt, Reap, ArmUsedEvent, LookAgain, Post, KickPrepare, Kick, events
<1>6. CASE FrameArrives BY <1>6 DEF FrameArrives, queueVars, events
<1>7. CASE WakeTap BY <1>7 DEF WakeTap, queueVars, events
<1>8. ASSUME NEW q \in Queues, WakeQueue(q) PROVE BatchInv'
  BY <1>8 DEF WakeQueue, queueVars, events
<1>9. CASE ReadEvent BY <1>9 DEF ReadEvent, TakeKick, events
<1>10. CASE DisableNotification BY <1>10 DEF DisableNotification, Disable
<1>11. CASE ReadTap
  <2>1. UNCHANGED <<added, onq, watched>> /\ onq = "rx" /\ pc = "tap"
        /\ pc' \in {"pop", "needs"}
    BY <1>11 DEF ReadTap, ControlInv, queueVars, events
  <2>2. CASE UNCHANGED <<held, burst>> BY <2>1, <2>2
  <2>3. CASE ~held /\ held' /\ burst' = burst + 1
    BY <1>2, <1>3, <2>1, <2>3 DEF Queues
  <2> QED BY <1>11, <2>2, <2>3 DEF ReadTap
<1>12. CASE PopChain
  BY <1>12 DEF PopChain, Pop, queueVars, events
<1>13. CASE AddUsed
  <2>1. added'[onq] = Inc(added[onq])
        /\ \A q \in Queues \ {onq} : added'[q] = added[q]
    BY <1>2, <1>13 DEF AddUsed, Use, QueuesTypeOK
  <2>2. Inc(added[onq]) <= added[onq] + 1 BY <1>2, TypesOf, IncIs DEF Idx
  <2>3. CASE onq = "rx"
    <3>1. held /\ ~held' /\ UNCHANGED <<burst, onq, watched>> /\ pc' = "tap"
      BY <1>13, <2>3 DEF AddUsed, ControlInv
    <3>2. added'["rx"] <= burst' + 1
      <4>1. added["rx"] + 1 <= burst + 1 BY <3>1
      <4>2. Inc(added["rx"]) \in Int BY <1>2, <2>3, TypesOf, Closed DEF Idx
      <4> QED BY <1>2, <1>3, <2>1, <2>2, <2>3, <3>1, <4>1, <4>2
    <3>3. added'["tx"] = added["tx"] BY <2>1, <2>3 DEF Queues
    <3>4. added'["rx"] \in Int BY <1>2, <2>1, <2>3, TypesOf, Closed DEF Idx
    <3> QED BY <1>2, <2>3, <3>1, <3>2, <3>3, <3>4 DEF Queues
  <2>4. CASE onq = "tx"
    <3>1. UNCHANGED <<burst, onq, watched>> /\ (held' <=> held) /\ pc = "add"
          /\ pc' = "needs"
      BY <1>13, <2>4 DEF AddUsed
    <3> QED BY <1>2, <1>3, <2>1, <2>4, <3>1 DEF Queues
  <2> QED BY <1>2, <2>3, <2>4 DEF Queues
<1>14. CASE EnableNotification BY <1>14 DEF EnableNotification, Enable
<1>15. CASE Recheck
  BY <1>2, <1>3, <1>15 DEF Recheck, Sleep, queueVars, events, Queues
<1>16. CASE NeedsNotification
  <2>1. added'[onq] = 0 /\ \A q \in Queues \ {onq} : added'[q] = added[q]
    BY <1>2, <1>16 DEF NeedsNotification, ForgetAdded, QueuesTypeOK
  <2>2. UNCHANGED <<held, onq, watched>> /\ (onq = "rx" \/ UNCHANGED burst)
        /\ burst' \in Nat
    BY <1>2, <1>16 DEF NeedsNotification, AfterSignal, Sleep
  <2> QED BY <1>2, <1>3, <1>16, <2>1, <2>2 DEF NeedsNotification, Queues
<1>17. CASE SetInterruptStatus
  BY <1>17 DEF SetInterruptStatus, RaiseStatus, events
<1>18. CASE WriteIrqfd
  BY <1>2, <1>3, <1>18 DEF WriteIrqfd, RaiseIrq, AfterSignal, Sleep, events, Queues
<1>19. CASE Fail \/ RefuseEvent BY <1>19 DEF Fail, RefuseEvent, Sleep, Serving
<1>20. CASE UNCHANGED vars BY <1>20 DEF vars, queueVars, events
<1>21. CASE ReadTxEventFails
  BY <1>21 DEF ReadTxEventFails, queueVars, events
<1> QED BY NextCases, <1>5, <1>6, <1>7, <1>8, <1>9, <1>10, <1>11, <1>12, <1>13,
           <1>14, <1>15, <1>16, <1>17, <1>18, <1>19, <1>20, <1>21

(* Whatever the batch does not hold, the driver is told of.                  *)
LEMMA SignalStep ==
    ASSUME TypeOK, ControlInv, RingOrder, BatchInv, SignalInv, [Next]_vars,
           EventIdx => MaxBurst + 1 < IdxMod
    PROVE  SignalInv'
<1>1. QueuesTypeOK /\ onq \in Queues /\ burst \in Nat /\ MaxBurst \in Nat
  BY TapAssumption DEF TypeOK
<1>2. Armed'
  BY <1>1, QueueCases, GuestArmed, OtherArmed DEF SignalInv
<1>3. SUFFICES ASSUME NEW q \in Queues PROVE Signalled(q)'
  BY <1>2 DEF SignalInv
<1>4. Signalled(q) BY DEF SignalInv
<1>5. PICK n \in Nat : n = added[q] BY <1>1, TypesOf DEF Idx
<1>5a. Told(q, 0) => Told(q, n)
  <2>1. Dist(used[q], seen[q]) \in Int BY <1>1, TypesOf, Closed DEF Idx
  <2> QED BY <2>1 DEF Told
<1> DEFINE Before == /\ Told(q, n) => Told(q, n)'
                     /\ Told(q, 0) => Told(q, 0)'
                     /\ intStatus => intStatus'
           Steady == added'[q] = added[q] /\ (InBatch(q)' <=> InBatch(q))
<1> USE DEF InBatch, Signalled, Serving, tap, thread
<1>6. CASE Guest /\ UNCHANGED <<tap, thread>>
  <2>1. added' = added
    BY <1>6 DEF Guest, InterruptHandler, TakeInterrupt, ReadInterruptStatus,
       AckInterrupt, Reap, ArmUsedEvent, LookAgain, Post, KickPrepare, Kick, events
  <2>2. /\ Told(q, n) => Told(q, n)'
        /\ Told(q, 0) => Told(q, 0)'
        /\ intStatus \/ Told(q, 0) => (intStatus \/ Told(q, 0))'
    BY <1>1, <1>6, GuestTold
  <2> QED BY <1>4, <1>5, <1>6, <2>1, <2>2
<1>7. CASE \/ FrameArrives \/ WakeTap \/ (\E p \in Queues : WakeQueue(p))
           \/ UNCHANGED vars
  <2>1. UNCHANGED queueVars
    BY <1>7 DEF FrameArrives, WakeTap, WakeQueue, vars
  <2>2. Before /\ added' = added
    BY <1>1, <2>1, OtherTold DEF queueVars, events
  <2> QED BY <1>4, <1>5, <1>7, <1>5a, <2>2 DEF FrameArrives, WakeTap, WakeQueue, vars
<1>8. CASE ReadEvent \/ DisableNotification \/ EnableNotification
  <2>1. DeviceStep(onq) /\ UNCHANGED <<used, added>>
    BY <1>8 DEF ReadEvent, DisableNotification, EnableNotification, DeviceStep,
                TakeKick, Disable, Enable, rings, events
  <2>2. Before BY <1>1, <2>1, OtherTold
  <2> QED BY <1>4, <1>5, <1>8, <1>5a, <2>1, <2>2
          DEF ReadEvent, DisableNotification, EnableNotification
<1>9. CASE ReadTap \/ Recheck
  <2>1. UNCHANGED queueVars BY <1>9 DEF ReadTap, Recheck
  <2>2. Before /\ added' = added BY <1>1, <2>1, OtherTold DEF queueVars, events
  <2>3. CASE ReadTap BY <1>4, <1>5, <2>2, <2>3 DEF ReadTap, ControlInv
  <2>4. CASE Recheck /\ pc' # "wait"
    BY <1>4, <1>5, <2>2, <2>4 DEF Recheck, Sleep
  <2>5. CASE Recheck /\ pc' = "wait"
    <3>1. pc = "recheck" /\ onq = "tx" /\ onq' = onq
      BY <2>5 DEF Recheck, Sleep
    <3>2. Told(q, 0) /\ Told(q, n) BY <1>4, <1>5a, <3>1 DEF Queues
    <3> QED BY <1>5, <2>2, <2>5, <3>1, <3>2
  <2> QED BY <1>9, <2>3, <2>4, <2>5
<1>10. CASE PopChain
  <2>1. DeviceStep(onq) \/ UNCHANGED queueVars BY <1>10 DEF PopChain, DeviceStep
  <2>2. UNCHANGED <<used, added>>
    BY <1>10 DEF PopChain, Pop, queueVars, rings, events
  <2>3. Before BY <1>1, <2>1, <2>2, OtherTold
  <2> QED BY <1>4, <1>5, <1>10, <2>2, <2>3 DEF PopChain
<1>11. CASE AddUsed
  <2>1. Use(onq) /\ pc = "add" /\ UNCHANGED <<onq, watched>>
        /\ (onq = "rx" => watched) /\ pc' = (IF onq = "rx" THEN "tap" ELSE "needs")
    BY <1>11 DEF AddUsed, ControlInv
  <2>2. CASE q # onq
    <3>1. Before /\ added'[q] = added[q]
      BY <1>1, <2>1, <2>2, OtherTold DEF Use, QueuesTypeOK
    <3> QED BY <1>4, <1>5, <2>1, <2>2, <3>1
  <2>3. CASE q = onq
    <3>1. InBatch(q)' BY <2>1, <2>3 DEF Queues
    <3>2. SUFFICES ASSUME EventIdx PROVE Told(q, added[q])'
      BY <2>1, <2>3, <3>1
    <3>3. Told(q, n) /\ n + 1 < IdxMod
      <4>1. CASE q = "rx"
        <5>1. held /\ added["rx"] + 1 <= burst + 1 /\ burst <= MaxBurst
          BY <2>1, <2>3, <3>2, <4>1 DEF ControlInv, BatchInv, TypeOK
        <5>2. Told(q, n) BY <1>4, <1>5, <2>1, <2>3, <3>2, <4>1
        <5>3. n + 1 < IdxMod
          BY <1>1, <1>5, <3>2, <4>1, <5>1, RingAssumption
        <5> QED BY <5>2, <5>3
      <4>2. CASE q = "tx"
        <5>1. n = 0 /\ Told(q, 0)
          BY <1>4, <1>5, <2>1, <2>3, <3>2, <4>2 DEF BatchInv
        <5> QED BY <1>1, <3>2, <5>1, RingAssumption
      <4> QED BY <4>1, <4>2 DEF Queues
    <3>4. Dist(next[q], used[q]) = 1 /\ IndicesInOrder(q)
      BY <2>1, <2>3 DEF RingOrder
    <3>5. used[q] # next[q] BY <1>1, <3>4, TypesOf, Steps
    <3>6. Told(q, n + 1)' BY <1>1, <2>1, <2>3, <3>3, <3>4, <3>5, UseTold
    <3>7. added'[q] = Inc(added[q])
      BY <1>1, <2>1, <2>3, <3>2 DEF Use, QueuesTypeOK
    <3>8. added'[q] = n + 1 BY <1>1, <1>5, <3>3, <3>7, TypesOf, IncIs
    <3> QED BY <3>6, <3>8 DEF Told
  <2> QED BY <2>2, <2>3
<1>12. CASE NeedsNotification
  <2>1. /\ pc = "needs" /\ (onq = "rx" => watched) /\ UNCHANGED <<onq, watched>>
        /\ ForgetAdded(onq) /\ UNCHANGED used
        /\ Wanted(onq) => pc' = "status"
        /\ ~Wanted(onq) => pc' = IF onq = "rx" THEN "wait" ELSE "pop"
    BY <1>12 DEF NeedsNotification, ForgetAdded, AfterSignal, Sleep, ControlInv, rings
  <2>2. Before BY <1>1, <2>1, OtherTold DEF DeviceStep
  <2>3. CASE q # onq
    <3>1. added'[q] = added[q] BY <1>1, <2>1, <2>3 DEF ForgetAdded, QueuesTypeOK
    <3> QED BY <1>4, <1>5, <2>1, <2>2, <2>3, <3>1
  <2>4. CASE q = onq /\ Wanted(q) BY <2>1, <2>4
  <2>5. CASE q = onq /\ ~Wanted(q)
    <3>1. EventIdx BY <2>5 DEF Wanted
    <3>2. InBatch(q) BY <2>1, <2>5 DEF Queues
    <3>3. Told(q, added[q]) BY <1>4, <3>1, <3>2
    <3>4. Told(q, 0)
      BY <1>1, <2>5, <3>3, WantedIfUnseen DEF SignalInv
    <3> QED BY <2>1, <2>2, <2>5, <3>4 DEF Queues
  <2> QED BY <2>3, <2>4, <2>5
<1>13. CASE SetInterruptStatus
  <2>1. DeviceStep(onq) /\ UNCHANGED <<used, added>> /\ intStatus'
    BY <1>13 DEF SetInterruptStatus, RaiseStatus, DeviceStep, rings, events
  <2>2. Before BY <1>1, <2>1, OtherTold
  <2> QED BY <1>4, <1>5, <1>13, <2>1, <2>2 DEF SetInterruptStatus
<1>14. CASE WriteIrqfd
  <2>1. DeviceStep(onq) /\ UNCHANGED <<used, added>>
    BY <1>14 DEF WriteIrqfd, RaiseIrq, DeviceStep, rings, events
  <2>2. Before BY <1>1, <2>1, OtherTold
  <2>3. pc = "irq" /\ UNCHANGED <<onq, watched>> /\ (onq = "rx" => watched)
        /\ pc' = IF onq = "rx" THEN "wait" ELSE "pop"
    BY <1>14 DEF WriteIrqfd, AfterSignal, Sleep, ControlInv
  <2>4. CASE q # onq BY <1>4, <1>5, <2>1, <2>2, <2>3, <2>4
  <2>5. CASE q = onq
    <3>1. ~InBatch(q)' BY <2>3, <2>5 DEF Queues
    <3>2. intStatus => Told(q, 0)'
      BY <1>14 DEF WriteIrqfd, RaiseIrq, Told, InterruptComing
    <3> QED BY <1>4, <2>2, <2>3, <2>5, <3>1, <3>2
  <2> QED BY <2>4, <2>5
<1>15. CASE Fail \/ RefuseEvent
  <2>1. UNCHANGED queueVars /\ onq' = onq /\ pc' = "wait" /\ ~watched'
        /\ pc \notin {"status", "irq"} /\ Serving
    BY <1>15 DEF Fail, RefuseEvent, Sleep
  <2>2. Before /\ added' = added BY <1>1, <2>1, OtherTold DEF queueVars, events
  <2>3. CASE q # onq
    BY <1>4, <1>5, <2>1, <2>2, <2>3
  <2>4. CASE q = onq
    <3>1. InBatch(q)' BY <2>1, <2>4
    <3>2. EventIdx => Told(q, n)
      BY <1>4, <1>5, <1>5a, <2>1, <2>4
    <3> QED BY <1>5, <2>1, <2>2, <2>4, <3>1, <3>2
  <2> QED BY <2>3, <2>4
<1>16. CASE ReadTxEventFails
  <2>1. UNCHANGED queueVars /\ onq' = onq /\ pc = "read" /\ pc' = "disable"
    BY <1>16 DEF ReadTxEventFails
  <2>2. Before /\ added' = added BY <1>1, <2>1, OtherTold DEF queueVars, events
  <2> QED BY <1>4, <1>5, <2>1, <2>2
<1> QED BY NextCases, <1>6, <1>7, <1>8, <1>9, <1>10, <1>11, <1>12, <1>13, <1>14,
           <1>15, <1>16

-----------------------------------------------------------------------------
LEMMA InitIInv == ASSUME Init PROVE IInv
<1> USE RingAssumption, TapAssumption DEF Init, QueuesInit, Queues
<1>1. TypeOK
  <2>1. 0 \in Idx BY DEF Idx
  <2>2. QueuesTypeOK BY <2>1 DEF QueuesTypeOK
  <2>3. backlog \in 0 .. TapCap /\ burst \in 0 .. MaxBurst OBVIOUS
  <2>4. edge \in BOOLEAN /\ held \in BOOLEAN /\ watched \in BOOLEAN OBVIOUS
  <2> QED BY <2>2, <2>3, <2>4 DEF TypeOK
<1>2. \A q \in Queues : Dist(0, 0) = 0 /\ RingSize(q) \in Nat
  BY RingSizes, DistIs DEF Idx
<1>3. RingOrder /\ \A q \in Queues : Told(q, 0)
  BY <1>2 DEF RingOrder, IndicesInOrder, Told
<1>4. ControlInv /\ TapInv /\ TxInv
  BY DEF ControlInv, TapInv, TxInv, Waking, HasChain, NextWillKick
<1>5. BatchInv BY DEF BatchInv
<1>6. SignalInv
  BY <1>3 DEF SignalInv, Armed, Signalled, InBatch
<1> QED BY <1>1, <1>3, <1>4, <1>5, <1>6 DEF IInv, KickIInv

(* What needs no bound on the bursts. *)
LEMMA KickInvariance == Spec => [](KickIInv /\ BatchInv)
<1>1. Init => KickIInv /\ BatchInv BY InitIInv DEF IInv
<1>2. KickIInv /\ BatchInv /\ [Next]_vars => (KickIInv /\ BatchInv)'
  BY TypeStep, ControlStep, OrderStep, TapStep, TxStep, BatchStep DEF KickIInv
<1> QED BY <1>1, <1>2, PTL DEF Spec

(* Every variable of the net device keeps its type. *)
THEOREM TypeCorrect == Spec => []TypeOK
<1>1. KickIInv => TypeOK BY DEF KickIInv
<1> QED BY <1>1, KickInvariance, PTL

(* No buffer is used twice or skipped, and the indices stay in order, however*)
(* often they wrap.                                                          *)
THEOREM RingsStayInOrder == Spec => []RingOrder
<1>1. KickIInv => RingOrder BY DEF KickIInv
<1> QED BY <1>1, KickInvariance, PTL

(* process_tap never leaves a frame behind without an event that will bring  *)
(* the thread back to it.                                                    *)
THEOREM FramesDoNotStall == Spec => []NoStalledFrame
<1>1. KickIInv => NoStalledFrame
  BY DEF KickIInv, TapInv, LooksAtTap, NoStalledFrame, Asleep, Waking
<1> QED BY <1>1, KickInvariance, PTL

(* The loop of process_txq loses no kick. *)
THEOREM KicksAreNotLost == Spec => []NoLostKick
<1>1. KickIInv => NoLostKick
  BY DEF KickIInv, TxInv, LooksAtTx, NoLostKick, Asleep, Waking
<1> QED BY <1>1, KickInvariance, PTL

(* No interrupt is lost, with event indices too, as long as no burst brings  *)
(* num_added around the index space.                                         *)
THEOREM InterruptsAreNotLost ==
    ASSUME EventIdx => MaxBurst + 1 < IdxMod
    PROVE  Spec => []NoLostInterrupt
<1>1. Init => IInv BY InitIInv
<1>2. IInv /\ [Next]_vars => IInv'
  BY TypeStep, ControlStep, OrderStep, TapStep, TxStep, BatchStep, SignalStep
  DEF IInv, KickIInv
<1>3. IInv => NoLostInterrupt
  <2>1. SUFFICES ASSUME IInv, NEW q \in Queues, pc = "wait", watched \/ q # onq
                 PROVE  used[q] # seen[q] => InterruptComing
    BY DEF NoLostInterrupt
  <2>2. Told(q, 0)
    BY <2>1 DEF IInv, SignalInv, Signalled, InBatch, Serving
  <2>3. used[q] \in Idx /\ seen[q] \in Idx
    BY <2>1, TypesOf DEF IInv, KickIInv, TypeOK
  <2>4. Dist(used[q], seen[q]) \in Nat BY <2>3, Closed DEF Idx
  <2>5. Dist(used[q], seen[q]) = 0 => used[q] = seen[q] BY <2>3, Steps
  <2> QED BY <2>2, <2>4, <2>5 DEF Told
<1> QED BY <1>1, <1>2, <1>3, PTL DEF Spec
-----------------------------------------------------------------------------
(* The guest moves buffers towards the device only. *)
LEMMA GuestMaps ==
    ASSUME KickIInv, Guest /\ UNCHANGED <<tap, thread>>
    PROVE  Service!Lend \/ Service!Queue \/ UNCHANGED Service!vars
<1> USE DEF tap, thread, Serving, Service!vars
<1>1. QueuesTypeOK /\ \A q \in Queues : IndicesInOrder(q)
  BY DEF KickIInv, TypeOK, RingOrder
<1>2. CASE Post("rx")
  <2>1. "rx" \in Queues /\ "tx" \in Queues \ {"rx"} BY DEF Queues
  <2>2. /\ Dist(avail["rx"], used["rx"])' = Dist(avail["rx"], used["rx"]) + 1
        /\ avail'["tx"] = avail["tx"] /\ used' = used
    BY <1>1, <1>2, <2>1, PostOwes
  <2> QED BY <2>2 DEF Service!Lend
<1>3. CASE Post("tx")
  <2>1. "tx" \in Queues /\ "rx" \in Queues \ {"tx"} BY DEF Queues
  <2>2. /\ Dist(avail["tx"], used["tx"])' = Dist(avail["tx"], used["tx"]) + 1
        /\ avail'["rx"] = avail["rx"] /\ used' = used
    BY <1>1, <1>3, <2>1, PostOwes
  <2> QED BY <2>2 DEF Service!Queue
<1>4. CASE UNCHANGED <<avail, used>> BY <1>4
<1> QED
  BY <1>2, <1>3, <1>4 DEF Queues, Guest, InterruptHandler, TakeInterrupt,
     ReadInterruptStatus, AckInterrupt, Reap, ArmUsedEvent, LookAgain,
     KickPrepare, Kick, rings

(* add_used delivers the frame in hand, or ends the sending of one. *)
LEMMA AddUsedMaps ==
    ASSUME KickIInv, AddUsed
    PROVE  Service!Receive \/ Service!Send
<1>1. QueuesTypeOK /\ onq \in Queues /\ IndicesInOrder(onq) /\ backlog \in Nat
  BY TapAssumption DEF KickIInv, TypeOK, RingOrder
<1>2. /\ Use(onq) /\ Serving /\ Serving' /\ backlog' = backlog
      /\ held' = (held /\ onq # "rx") /\ (onq = "rx" => held)
      /\ Dist(next[onq], used[onq]) = 1
  BY <1>1 DEF KickIInv, ControlInv, RingOrder, AddUsed, Serving
<1>3. used[onq] # next[onq] BY <1>1, <1>2, TypesOf, Steps
<1>4. ASSUME NEW q \in Queues, q = onq
      PROVE  /\ Dist(avail[q], used[q]) > 0
             /\ Dist(avail[q], used[q])' = Dist(avail[q], used[q]) - 1
             /\ \A p \in Queues \ {q} : used'[p] = used[p]
             /\ avail' = avail
  <2>1. Use(q) /\ IndicesInOrder(q) /\ used[q] # next[q] BY <1>1, <1>2, <1>3, <1>4
  <2> QED BY <1>1, <2>1, UseOwes
<1>5. CASE onq = "rx"
  <2>1. /\ Dist(avail["rx"], used["rx"]) > 0
        /\ Dist(avail["rx"], used["rx"])' = Dist(avail["rx"], used["rx"]) - 1
        /\ used'["tx"] = used["tx"] /\ avail' = avail
    BY <1>1, <1>4, <1>5 DEF Queues
  <2>2. held /\ ~held' BY <1>2, <1>5
  <2>3. (~Serving)' = ~Serving /\ ~~Serving BY <1>2
  <2>4. Dist(avail["tx"], used["tx"])' = Dist(avail["tx"], used["tx"]) BY <2>1
  <2>5. UNCHANGED <<Dist(avail["tx"], used["tx"]), ~Serving>> BY <2>3, <2>4
  <2>6. Dist(avail["rx"], used["rx"])' = Dist(avail["rx"], used["rx"]) - 1 BY <2>1
  <2>7. Dist(avail["rx"], used["rx"]) > 0 BY <2>1
  <2>8. Service!Receive BY <1>1, <1>2, <2>2, <2>3, <2>5, <2>6, <2>7 DEF Service!Receive
  <2> QED BY <2>8
<1>6. CASE onq = "tx"
  <2>1. /\ Dist(avail["tx"], used["tx"]) > 0
        /\ Dist(avail["tx"], used["tx"])' = Dist(avail["tx"], used["tx"]) - 1
        /\ used'["rx"] = used["rx"] /\ avail' = avail
    BY <1>1, <1>4, <1>6 DEF Queues
  <2>2. held' = held BY <1>2, <1>6 DEF KickIInv, TypeOK
  <2>3. Service!Send BY <1>2, <2>1, <2>2 DEF Service!Send
  <2> QED BY <2>3
<1> QED BY <1>1, <1>5, <1>6 DEF Queues

(* The net device implements the frame service: no frame is lost between the *)
(* tap and a buffer, or delivered in two, and each buffer comes back once.   *)
THEOREM ImplementsService == Spec => FrameServiceSpec
<1>1. Init => Service!Init
  <2>1. Dist(0, 0) = 0 BY RingAssumption, DistIs DEF Idx
  <2> QED BY <2>1 DEF Init, QueuesInit, Queues, Serving, Service!Init
<1>2. KickIInv /\ [Next]_vars => [Service!Next]_(Service!vars)
  <2> SUFFICES ASSUME KickIInv, [Next]_vars
               PROVE  Service!Next \/ UNCHANGED Service!vars
    OBVIOUS
  <2> USE DEF Service!Next
  <2>1. CASE Guest /\ UNCHANGED <<tap, thread>> BY <2>1, GuestMaps
  <2>2. CASE FrameArrives
    <3>1. backlog \in Nat BY TapAssumption DEF KickIInv, TypeOK
    <3>2. /\ backlog' = backlog + 1 /\ held' = held /\ Serving' = Serving
          /\ avail' = avail /\ used' = used
      BY <2>2 DEF FrameArrives, queueVars, rings, thread, Serving
    <3> QED BY <3>1, <3>2 DEF Service!Arrive
  <2>3. CASE ReadTap
    <3>1. backlog \in Nat BY TapAssumption DEF KickIInv, TypeOK
    <3>2. avail' = avail /\ used' = used /\ Serving' = Serving
      <4>1. Serving /\ Serving' BY <2>3 DEF ReadTap, Serving
      <4> QED BY <2>3, <4>1 DEF ReadTap, queueVars, rings
    <3>3. (backlog + IF held THEN 1 ELSE 0)' = backlog + IF held THEN 1 ELSE 0
      BY <2>3, <3>1 DEF ReadTap, tap
    <3> QED BY <3>2, <3>3 DEF Service!vars
  <2>4. CASE AddUsed BY <2>4, AddUsedMaps
  <2>5. CASE (Fail \/ RefuseEvent) \/ (Recheck /\ Sleep)
    <3>1. /\ backlog' = backlog /\ held' = held /\ Serving
          /\ avail' = avail /\ used' = used
      BY <2>5 DEF Fail, RefuseEvent, Recheck, Serving, queueVars, rings, tap
    <3>2. CASE Serving' BY <3>1, <3>2 DEF Service!vars
    <3>3. CASE ~Serving' BY <3>1, <3>3 DEF Service!Stop
    <3> QED BY <3>2, <3>3
  <2>6. CASE UNCHANGED <<avail, used, backlog, held>> /\ (Serving <=> Serving')
    BY <2>6 DEF Service!vars
  <2>7. CASE WakeTap \/ (\E q \in Queues : WakeQueue(q)) \/ UNCHANGED vars
    BY <2>6, <2>7 DEF WakeTap, WakeQueue, vars, tap, thread, queueVars, rings,
       Serving
  <2>8. CASE ReadEvent \/ DisableNotification \/ EnableNotification
    BY <2>6, <2>8 DEF ReadEvent, DisableNotification, EnableNotification,
       TakeKick, Disable, Enable, tap, rings, Serving
  <2>9. CASE PopChain \/ ReadTxEventFails
    BY <2>6, <2>9 DEF PopChain, Pop, ReadTxEventFails, tap, queueVars, rings,
       Serving
  <2>10. CASE SetInterruptStatus \/ WriteIrqfd \/ NeedsNotification
    <3>1. Serving /\ Serving'
      BY <2>10 DEF NeedsNotification, SetInterruptStatus, WriteIrqfd, AfterSignal,
         Sleep, Serving, KickIInv, ControlInv, TypeOK, Queues
    <3> QED BY <2>6, <2>10, <3>1 DEF NeedsNotification, ForgetAdded,
         SetInterruptStatus, RaiseStatus, WriteIrqfd, RaiseIrq, tap, rings
  <2>11. CASE Recheck /\ ~Sleep
    BY <2>6, <2>11 DEF Recheck, tap, queueVars, rings, Serving
  <2> QED BY NextCases, <2>1, <2>2, <2>3, <2>4, <2>5, <2>7, <2>8, <2>9, <2>10,
              <2>11
<1> QED BY <1>1, <1>2, KickInvariance, PTL
        DEF Spec, FrameServiceSpec, Service!Spec
=============================================================================
