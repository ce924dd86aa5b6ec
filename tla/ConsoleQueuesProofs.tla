------------------------- MODULE ConsoleQueuesProofs -------------------------
(* Proofs about the console device: the event-manager thread never sleeps on *)
(* data or buffers it ought to look at, and no signal is lost, for rings and *)
(* buffers of any size, with and without event indices.                      *)
EXTENDS ConsoleQueues, VirtqueuesProofs

(* QueueHandler runs only while its events are registered. *)
ControlInv ==
    /\ pc \notin {"wait", "pty", "ring", "socket", "dead"} => watched
    /\ pc \in {"top", "fill"} => onq = "rx"
    /\ pc = "flush" => onq = "tx"
    /\ pc = "recheck" => Enabled(onq)

(* PtyHandler drains its two sources once it has begun. *)
SourceInv ==
    /\ typed > 0 => ptyEdge \/ pc \in {"pty", "ring", "dead"}
    /\ socket > 0 => socketEdge \/ pc \in {"socket", "dead"}

Working == {"disable", "pop", "fill", "flush", "add", "needs", "status", "irq",
            "enable", "recheck"}

(* Input in the buffer is looked at before the thread sleeps, or waits for a *)
(* kick that is certain to come.                                             *)
InputInv ==
    watched /\ inbuf > 0 =>
        (onq = "rx" /\ pc \in Working \cup {"top"}) \/ pc = "ring" \/ Waking("rx")

OutputInv == watched => (onq = "tx" /\ pc \in Working) \/ Waking("tx")

(* A chain in hand was popped and not used. *)
HandInv == pc \in {"fill", "flush", "add"} => used[onq] # next[onq]

(* The completion of q the driver was not told of. *)
InBatch(q) == onq = q /\ (~watched \/ pc = "needs")

BatchInv == EventIdx /\ watched => \A q \in Queues : ~InBatch(q) => added[q] = 0

(* The driver was, or is being, told of everything else. *)
Signalled(q) ==
    /\ onq = q /\ pc = "irq" => intStatus \/ Told(q, 0)
    /\ InBatch(q) /\ EventIdx => Told(q, added[q])
    /\ ~InBatch(q) /\ ~(onq = q /\ pc \in {"status", "irq"}) => Told(q, 0)

SignalInv == Armed /\ \A q \in Queues : Signalled(q)

IInv == /\ TypeOK /\ ControlInv /\ SourceInv /\ InputInv /\ OutputInv
        /\ HandInv /\ RingOrder /\ BatchInv /\ SignalInv

-----------------------------------------------------------------------------
(* The ways a step can go. *)
LEMMA NextCases ==
    ASSUME [Next]_vars
    PROVE  \/ Guest /\ UNCHANGED <<data, thread>>
           \/ Type \/ WakePty \/ WakeSocket \/ (\E q \in Queues : Wake(q))
           \/ ReadPty \/ RingInput \/ ReadSocket
           \/ ReadEvent \/ CheckInput \/ DisableNotification \/ PopChain
           \/ FillChain \/ FlushChain \/ AddUsed \/ NeedsNotification
           \/ SetInterruptStatus \/ WriteIrqfd \/ EnableNotification
           \/ Recheck \/ Fail \/ UNCHANGED vars
BY DEF Next, PtyHandler, QueueHandler

(* PtyHandler rings the doorbell of the input queue; all else the device     *)
(* does to a queue, it does to the one it works on.                          *)
LEMMA QueueCases ==
    ASSUME [Next]_vars
    PROVE  Guest \/ RingInput \/ DeviceStep(onq) \/ UNCHANGED queueVars
BY NextCases DEF Type, WakePty, WakeSocket, Wake, ReadPty, ReadSocket, ReadEvent,
   CheckInput, DisableNotification, PopChain, FillChain, FlushChain, AddUsed,
   NeedsNotification, SetInterruptStatus, WriteIrqfd, EnableNotification,
   Recheck, Fail, vars, DeviceStep

(* Every step keeps the types. *)
LEMMA TypeStep == ASSUME TypeOK, [Next]_vars PROVE TypeOK'
<1>1. QueuesTypeOK'
  <2>1. QueuesTypeOK /\ onq \in Queues BY DEF TypeOK
  <2>2. CASE UNCHANGED queueVars
    BY <2>1, <2>2 DEF QueuesTypeOK, queueVars, rings, events, intr
  <2>3. CASE RingInput
    BY <2>1, <2>3 DEF RingInput, QueuesTypeOK, rings, events, intr
  <2> QED BY <2>1, <2>2, <2>3, QueueCases, GuestTypes, DeviceTypes
<1> USE CapAssumption DEF TypeOK, data, thread, Queues
<1>2. CASE Guest /\ UNCHANGED <<data, thread>> BY <1>1, <1>2
<1>3. ASSUME NEW q \in Queues, Wake(q) PROVE TypeOK' BY <1>1, <1>3 DEF Wake
<1>4. CASE Type BY <1>1, <1>4 DEF Type
<1>5. CASE WakePty BY <1>1, <1>5 DEF WakePty
<1>6. CASE WakeSocket BY <1>1, <1>6 DEF WakeSocket
<1>7. CASE ReadPty BY <1>1, <1>7 DEF ReadPty
<1>8. CASE RingInput BY <1>1, <1>8 DEF RingInput
<1>9. CASE ReadSocket BY <1>1, <1>9 DEF ReadSocket
<1>10. CASE ReadEvent BY <1>1, <1>10 DEF ReadEvent, Top
<1>11. CASE CheckInput BY <1>1, <1>11 DEF CheckInput
<1>12. CASE DisableNotification BY <1>1, <1>12 DEF DisableNotification
<1>13. CASE PopChain BY <1>1, <1>13 DEF PopChain
<1>14. CASE FillChain
  <2>1. UNCHANGED <<typed, ptyEdge, socket, socketEdge, watched, onq>>
        /\ inbuf' \in 0 .. BufCap
    BY <1>14 DEF FillChain
  <2>2. lost' \in BOOLEAN /\ pc' \in {"add", "enable"} BY <1>14 DEF FillChain
  <2> QED BY <1>1, <2>1, <2>2
<1>15. CASE FlushChain BY <1>1, <1>15 DEF FlushChain
<1>16. CASE AddUsed BY <1>1, <1>16 DEF AddUsed
<1>17. CASE NeedsNotification BY <1>1, <1>17 DEF NeedsNotification
<1>18. CASE SetInterruptStatus BY <1>1, <1>18 DEF SetInterruptStatus
<1>19. CASE WriteIrqfd BY <1>1, <1>19 DEF WriteIrqfd
<1>20. CASE EnableNotification BY <1>1, <1>20 DEF EnableNotification
<1>21. CASE Recheck BY <1>1, <1>21 DEF Recheck, Top
<1>22. CASE Fail BY <1>1, <1>22 DEF Fail
<1>23. CASE UNCHANGED vars BY <1>1, <1>23 DEF vars
<1> QED BY NextCases, <1>2, <1>3, <1>4, <1>5, <1>6, <1>7, <1>8, <1>9, <1>10,
           <1>11, <1>12, <1>13, <1>14, <1>15, <1>16, <1>17, <1>18, <1>19, <1>20,
           <1>21, <1>22, <1>23

(* Which handler runs, and for which queue. *)
LEMMA ControlStep == ASSUME TypeOK, ControlInv, [Next]_vars PROVE ControlInv'
<1> USE DEF TypeOK, QueuesTypeOK, ControlInv, data, thread, Queues
<1>1. CASE Guest /\ UNCHANGED <<data, thread>>
  <2>1. UNCHANGED <<next, noNotify, availEvent>>
    BY <1>1 DEF Guest, InterruptHandler, TakeInterrupt, ReadInterruptStatus,
                AckInterrupt, Reap, ArmUsedEvent, LookAgain, Post, KickPrepare,
                Kick, rings, events
  <2> QED BY <1>1, <2>1 DEF Enabled
<1>2. CASE Type \/ UNCHANGED vars
  BY <1>2 DEF Type, vars, Enabled, queueVars, rings, events
<1>3. CASE WakePty \/ ReadPty \/ RingInput
  BY <1>3 DEF WakePty, ReadPty, RingInput
<1>4. CASE WakeSocket \/ ReadSocket BY <1>4 DEF WakeSocket, ReadSocket
<1>5. CASE (\E q \in Queues : Wake(q)) \/ ReadEvent \/ CheckInput
  BY <1>5 DEF Wake, ReadEvent, CheckInput, Top
<1>6. CASE DisableNotification \/ PopChain \/ FillChain \/ FlushChain
  BY <1>6 DEF DisableNotification, PopChain, FillChain, FlushChain
<1>7. CASE AddUsed \/ NeedsNotification \/ SetInterruptStatus \/ WriteIrqfd
  BY <1>7 DEF AddUsed, NeedsNotification, SetInterruptStatus, WriteIrqfd
<1>8. CASE EnableNotification
  BY <1>8 DEF EnableNotification, Enable, Enabled, rings
<1>9. CASE Recheck \/ Fail BY <1>9 DEF Recheck, Top, Fail
<1> QED BY NextCases, <1>1, <1>2, <1>3, <1>4, <1>5, <1>6, <1>7, <1>8, <1>9

(* No edge is lost: the handler it wakes drains its source. *)
LEMMA SourceStep == ASSUME TypeOK, SourceInv, [Next]_vars PROVE SourceInv'
<1> USE DEF TypeOK, SourceInv, data, thread
<1>1. CASE Guest /\ UNCHANGED <<data, thread>> BY <1>1
<1>2. CASE Type BY <1>2 DEF Type
<1>3. CASE WakePty BY <1>3 DEF WakePty
<1>4. CASE ReadPty BY <1>4 DEF ReadPty
<1>5. CASE RingInput BY <1>5 DEF RingInput
<1>6. CASE WakeSocket BY <1>6 DEF WakeSocket
<1>7. CASE ReadSocket BY <1>7 DEF ReadSocket
<1>8. CASE (\E q \in Queues : Wake(q)) \/ ReadEvent \/ CheckInput
  BY <1>8 DEF Wake, ReadEvent, CheckInput
<1>9. CASE DisableNotification \/ PopChain \/ FillChain
  BY <1>9 DEF DisableNotification, PopChain, FillChain
<1>10. CASE FlushChain BY <1>10 DEF FlushChain
<1>11. CASE AddUsed \/ NeedsNotification \/ SetInterruptStatus \/ WriteIrqfd
  BY <1>11 DEF AddUsed, NeedsNotification, SetInterruptStatus, WriteIrqfd
<1>12. CASE EnableNotification \/ Recheck \/ Fail
  BY <1>12 DEF EnableNotification, Recheck, Fail
<1>13. CASE UNCHANGED vars BY <1>13 DEF vars
<1> QED BY NextCases, <1>1, <1>2, <1>3, <1>4, <1>5, <1>6, <1>7, <1>8, <1>9,
           <1>10, <1>11, <1>12, <1>13

(* Typed data in the input buffer always has somebody to look at it. *)
LEMMA InputStep ==
    ASSUME TypeOK, ControlInv, InputInv, [Next]_vars
    PROVE  InputInv'
<1> USE DEF InputInv, Working, data, thread
<1>1. QueuesTypeOK /\ onq \in Queues /\ "rx" \in Queues /\ inbuf \in Nat
  BY DEF TypeOK, Queues
<1>2. CASE Guest /\ UNCHANGED <<data, thread>> BY <1>1, <1>2, GuestWaking
<1>3. CASE Type \/ WakePty \/ WakeSocket \/ (\E q \in Queues : Wake(q))
           \/ UNCHANGED vars
  <2>1. UNCHANGED <<queueVars, inbuf, watched>>
    BY <1>3 DEF Type, WakePty, WakeSocket, Wake, vars
  <2>2. Waking("rx") => Waking("rx")' BY <1>1, <2>1, OtherWaking
  <2> QED BY <1>3, <2>1, <2>2 DEF Type, WakePty, WakeSocket, Wake, vars
<1>4. CASE ReadPty \/ ReadSocket
  <2>1. Waking("rx") => Waking("rx")'
    BY <1>1, <1>4, OtherWaking DEF ReadPty, ReadSocket
  <2> QED BY <1>1, <1>4, <2>1 DEF ReadPty, ReadSocket
<1>5. CASE RingInput
  <2>1. Waking("rx")'
    BY <1>1, <1>5 DEF RingInput, Waking, KickComing, QueuesTypeOK
  <2> QED BY <2>1
<1>6. CASE ReadEvent
  <2>1. onq # "rx" /\ Waking("rx") => Waking("rx")'
    BY <1>1, <1>6, OtherWaking DEF ReadEvent, DeviceStep
  <2> QED BY <1>6, <2>1 DEF ReadEvent, Top
<1>7. CASE CheckInput
  BY <1>1, <1>7, OtherWaking DEF CheckInput, ControlInv
<1>8. CASE DisableNotification \/ PopChain
  <2>1. onq # "rx" /\ Waking("rx") => Waking("rx")'
    BY <1>1, <1>8, OtherWaking DEF DisableNotification, PopChain, DeviceStep
  <2> QED BY <1>8, <2>1 DEF DisableNotification, PopChain
<1>9. CASE FillChain BY <1>9 DEF FillChain, ControlInv
<1>10. CASE FlushChain
  BY <1>1, <1>10, OtherWaking DEF FlushChain, ControlInv
<1>11. CASE AddUsed \/ NeedsNotification \/ SetInterruptStatus \/ WriteIrqfd
  <2>1. Waking("rx") => Waking("rx")'
    BY <1>1, <1>11, OtherWaking
    DEF AddUsed, NeedsNotification, SetInterruptStatus, WriteIrqfd
  <2> QED BY <1>11, <2>1
          DEF AddUsed, NeedsNotification, SetInterruptStatus, WriteIrqfd
<1>12. CASE EnableNotification
  <2>1. onq # "rx" /\ Waking("rx") => Waking("rx")'
    BY <1>1, <1>12, OtherWaking DEF EnableNotification, DeviceStep
  <2> QED BY <1>12, <2>1 DEF EnableNotification
<1>13. CASE Recheck
  \* The thread goes to sleep only on a ring it found empty.
  <2>1. Waking("rx") => Waking("rx")'
    BY <1>1, <1>13, OtherWaking DEF Recheck
  <2>2. onq = "rx" /\ ~HasChain("rx") => Waking("rx")
    BY <1>1, <1>13, EnabledWaking DEF Recheck, ControlInv
  <2> QED BY <1>13, <2>1, <2>2 DEF Recheck, Top
<1>14. CASE Fail BY <1>14 DEF Fail
<1> QED BY NextCases, <1>2, <1>3, <1>4, <1>5, <1>6, <1>7, <1>8, <1>9, <1>10,
           <1>11, <1>12, <1>13, <1>14

(* So has every chain of the output queue. *)
LEMMA OutputStep ==
    ASSUME TypeOK, ControlInv, OutputInv, [Next]_vars
    PROVE  OutputInv'
<1> USE DEF OutputInv, Working, data, thread
<1>1. QueuesTypeOK /\ onq \in Queues /\ "tx" \in Queues
  BY DEF TypeOK, Queues
<1>2. CASE Guest /\ UNCHANGED <<data, thread>> BY <1>1, <1>2, GuestWaking
<1>3. CASE Type \/ WakePty \/ WakeSocket \/ (\E q \in Queues : Wake(q))
           \/ ReadPty \/ ReadSocket \/ UNCHANGED vars
  <2>1. UNCHANGED <<queueVars, watched>>
    BY <1>3 DEF Type, WakePty, WakeSocket, Wake, ReadPty, ReadSocket, vars
  <2>2. Waking("tx") => Waking("tx")' BY <1>1, <2>1, OtherWaking
  <2> QED BY <1>3, <2>1, <2>2
          DEF Type, WakePty, WakeSocket, Wake, ReadPty, ReadSocket, vars
<1>4. CASE RingInput
  BY <1>1, <1>4 DEF RingInput, QueuesTypeOK, rings, events, Waking, KickComing,
                    KickWanted, HasChain, NextWillKick
<1>5. CASE ReadEvent
  <2>1. onq # "tx" /\ Waking("tx") => Waking("tx")'
    BY <1>1, <1>5, OtherWaking DEF ReadEvent, DeviceStep
  <2> QED BY <1>1, <1>5, <2>1 DEF ReadEvent, Top, Queues
<1>6. CASE CheckInput
  BY <1>1, <1>6, OtherWaking DEF CheckInput, ControlInv
<1>7. CASE DisableNotification \/ PopChain
  <2>1. onq # "tx" /\ Waking("tx") => Waking("tx")'
    BY <1>1, <1>7, OtherWaking DEF DisableNotification, PopChain, DeviceStep
  <2> QED BY <1>7, <2>1 DEF DisableNotification, PopChain
<1>8. CASE FillChain
  BY <1>1, <1>8, OtherWaking DEF FillChain, ControlInv
<1>9. CASE FlushChain BY <1>9 DEF FlushChain, ControlInv
<1>10. CASE AddUsed \/ NeedsNotification \/ SetInterruptStatus \/ WriteIrqfd
  <2>1. Waking("tx") => Waking("tx")'
    BY <1>1, <1>10, OtherWaking
    DEF AddUsed, NeedsNotification, SetInterruptStatus, WriteIrqfd
  <2> QED BY <1>10, <2>1
          DEF AddUsed, NeedsNotification, SetInterruptStatus, WriteIrqfd
<1>11. CASE EnableNotification
  <2>1. onq # "tx" /\ Waking("tx") => Waking("tx")'
    BY <1>1, <1>11, OtherWaking DEF EnableNotification, DeviceStep
  <2> QED BY <1>11, <2>1 DEF EnableNotification
<1>12. CASE Recheck
  <2>1. Waking("tx") => Waking("tx")'
    BY <1>1, <1>12, OtherWaking DEF Recheck
  <2>2. onq = "tx" /\ ~HasChain("tx") => Waking("tx")
    BY <1>1, <1>12, EnabledWaking DEF Recheck, ControlInv
  <2> QED BY <1>12, <2>1, <2>2 DEF Recheck, Top
<1>13. CASE Fail BY <1>13 DEF Fail
<1> QED BY NextCases, <1>2, <1>3, <1>4, <1>5, <1>6, <1>7, <1>8, <1>9, <1>10,
           <1>11, <1>12, <1>13

(* Every chain popped is in hand until it is used, but for a receive chain   *)
(* without room.                                                             *)
LEMMA OrderStep ==
    ASSUME TypeOK, ControlInv, HandInv, RingOrder, [Next]_vars
    PROVE  HandInv' /\ RingOrder'
<1> DEFINE Held == {"fill", "flush", "add"}
<1> USE DEF ControlInv, HandInv, RingOrder
<1>1. QueuesTypeOK /\ onq \in Queues BY DEF TypeOK
<1>2. CASE Guest /\ UNCHANGED <<data, thread>>
  BY <1>1, <1>2, GuestOrder DEF data, thread
<1>3. CASE PopChain /\ pc' # "enable"
  <2>1. Pop(onq) /\ pc = "pop" /\ pc' \in {"fill", "flush"} /\ watched
        /\ UNCHANGED <<watched, onq, lost>>
    BY <1>3 DEF PopChain, Pop, data
  <2>2. \A q \in Queues : IndicesInOrder(q)' BY <1>1, <2>1, PopOrder
  <2> QED BY <1>1, <2>1, <2>2, PopHand
<1>4. CASE AddUsed
  <2>1. Use(onq) /\ pc = "add" /\ pc' = "needs" /\ watched
        /\ UNCHANGED <<watched, onq, lost>>
    BY <1>4 DEF AddUsed, data
  <2>2. \A q \in Queues : IndicesInOrder(q)' BY <1>1, <2>1, UseOrder
  <2> QED BY <1>1, <2>1, <2>2, UseHand
<1>5. CASE FillChain /\ pc' = "enable"
  BY <1>1, <1>5 DEF FillChain, queueVars, rings, IndicesInOrder
<1>6. CASE Fail
  BY <1>6 DEF Fail, queueVars, rings, IndicesInOrder
<1>7. CASE UNCHANGED <<rings, watched, lost>> /\ (pc \in Held <=> pc' \in Held)
           /\ (pc' \in Held => onq' = onq)
  BY <1>7 DEF rings, IndicesInOrder
<1>8. CASE Type \/ WakePty \/ WakeSocket \/ (\E q \in Queues : Wake(q))
           \/ UNCHANGED vars
  BY <1>7, <1>8 DEF Type, WakePty, WakeSocket, Wake, vars, data, thread, queueVars
<1>9. CASE ReadPty \/ RingInput \/ ReadSocket
  BY <1>7, <1>9 DEF ReadPty, RingInput, ReadSocket, data, queueVars
<1>10. CASE ReadEvent \/ CheckInput \/ DisableNotification
            \/ EnableNotification \/ Recheck
  BY <1>7, <1>10 DEF ReadEvent, TakeKick, CheckInput, DisableNotification, Disable,
     EnableNotification, Enable, Recheck, Top, data, queueVars
<1>11. CASE (PopChain /\ pc' = "enable") \/ (FillChain /\ pc' = "add")
            \/ FlushChain
  BY <1>7, <1>11 DEF PopChain, FillChain, FlushChain, data, queueVars
<1>12. CASE NeedsNotification \/ SetInterruptStatus \/ WriteIrqfd
  BY <1>7, <1>12 DEF NeedsNotification, ForgetAdded, SetInterruptStatus,
     RaiseStatus, WriteIrqfd, RaiseIrq, data
<1>13. FillChain => pc' \in {"add", "enable"} BY DEF FillChain
<1> QED BY NextCases, <1>2, <1>3, <1>4, <1>5, <1>6, <1>8, <1>9, <1>10, <1>11,
           <1>12, <1>13

(* Between two calls of needs_notification at most one chain is used. *)
LEMMA BatchStep ==
    ASSUME TypeOK, ControlInv, BatchInv, [Next]_vars
    PROVE  BatchInv'
<1>1. QueuesTypeOK /\ onq \in Queues BY DEF TypeOK
<1> USE DEF BatchInv, InBatch, data, thread
<1>2. CASE Guest /\ UNCHANGED <<data, thread>>
  BY <1>2 DEF Guest, InterruptHandler, TakeInterrupt, ReadInterruptStatus,
     AckInterrupt, Reap, ArmUsedEvent, LookAgain, Post, KickPrepare, Kick, events
<1>3. CASE Type \/ WakePty \/ WakeSocket \/ (\E q \in Queues : Wake(q))
           \/ UNCHANGED vars
  BY <1>3 DEF Type, WakePty, WakeSocket, Wake, vars, queueVars, events
<1>4. CASE ReadPty \/ RingInput \/ ReadSocket
  BY <1>4 DEF ReadPty, RingInput, ReadSocket, queueVars, events
<1>5. CASE ReadEvent \/ CheckInput \/ DisableNotification
           \/ EnableNotification \/ Recheck
  BY <1>5 DEF ReadEvent, TakeKick, CheckInput, DisableNotification, Disable,
     EnableNotification, Enable, Recheck, queueVars, events
<1>6. CASE PopChain \/ FillChain \/ FlushChain
  BY <1>6 DEF PopChain, Pop, FillChain, FlushChain, queueVars, events
<1>7. CASE AddUsed
  <2>1. \A q \in Queues \ {onq} : added'[q] = added[q]
    BY <1>1, <1>7 DEF AddUsed, Use, QueuesTypeOK
  <2> QED BY <1>1, <1>7, <2>1 DEF AddUsed
<1>8. CASE NeedsNotification
  BY <1>1, <1>8 DEF NeedsNotification, ForgetAdded, QueuesTypeOK
<1>9. CASE SetInterruptStatus \/ WriteIrqfd
  BY <1>9 DEF SetInterruptStatus, RaiseStatus, WriteIrqfd, RaiseIrq, events
<1>10. CASE Fail BY <1>10 DEF Fail
<1> QED BY NextCases, <1>2, <1>3, <1>4, <1>5, <1>6, <1>7, <1>8, <1>9, <1>10

(* Whatever the batch does not hold, the driver is told of. *)
LEMMA SignalStep ==
    ASSUME TypeOK, ControlInv, HandInv, RingOrder, BatchInv, SignalInv, [Next]_vars
    PROVE  SignalInv'
<1>1. QueuesTypeOK /\ onq \in Queues BY DEF TypeOK
<1>2. Armed'
  <2>1. CASE RingInput
    BY <2>1 DEF RingInput, rings, events, intr, SignalInv, Armed
  <2> QED BY <1>1, <2>1, QueueCases, GuestArmed, OtherArmed DEF SignalInv
<1>3. SUFFICES ASSUME NEW q \in Queues PROVE Signalled(q)'
  BY <1>2 DEF SignalInv
<1>4. Signalled(q) BY DEF SignalInv
<1>5. PICK n \in Nat : n = added[q] BY <1>1, TypesOf DEF Idx
<1> DEFINE Before == /\ Told(q, n) => Told(q, n)'
                     /\ Told(q, 0) => Told(q, 0)'
                     /\ intStatus => intStatus'
<1> USE DEF InBatch, Signalled, data, thread
<1>6. CASE Guest /\ UNCHANGED <<data, thread>>
  <2>1. added' = added
    BY <1>6 DEF Guest, InterruptHandler, TakeInterrupt, ReadInterruptStatus,
       AckInterrupt, Reap, ArmUsedEvent, LookAgain, Post, KickPrepare, Kick, events
  <2>2. /\ Told(q, n) => Told(q, n)'
        /\ Told(q, 0) => Told(q, 0)'
        /\ intStatus \/ Told(q, 0) => (intStatus \/ Told(q, 0))'
    BY <1>1, <1>6, GuestTold
  <2> QED BY <1>4, <1>5, <1>6, <2>1, <2>2
<1>7. CASE \/ Type \/ WakePty \/ WakeSocket \/ (\E p \in Queues : Wake(p))
           \/ ReadPty \/ ReadSocket \/ CheckInput \/ Recheck \/ UNCHANGED vars
  <2>1. UNCHANGED <<queueVars, watched>>
    BY <1>7 DEF Type, WakePty, WakeSocket, Wake, ReadPty, ReadSocket, CheckInput,
                Recheck, vars
  <2>2. Before /\ added' = added
    BY <1>1, <2>1, OtherTold DEF queueVars, events
  <2>3. ~(onq = q /\ pc \in {"needs", "status", "irq"})
        => ~(onq' = q /\ pc' \in {"needs", "status", "irq"})
    BY <1>7 DEF Type, WakePty, WakeSocket, Wake, ReadPty, ReadSocket, CheckInput,
                Recheck, Top, vars
  <2>4. \/ onq' = onq /\ (pc' = pc \/ pc \notin {"needs", "status", "irq"})
        \/ pc = "wait" /\ watched
    BY <1>7 DEF Type, WakePty, WakeSocket, Wake, ReadPty, ReadSocket, CheckInput,
                Recheck, vars
  <2> QED BY <1>4, <1>5, <2>1, <2>2, <2>3, <2>4
<1>8. CASE ReadEvent \/ DisableNotification \/ EnableNotification
  <2>1. DeviceStep(onq) /\ UNCHANGED <<used, added>>
    BY <1>8 DEF ReadEvent, DisableNotification, EnableNotification, DeviceStep,
                TakeKick, Disable, Enable, rings, events
  <2>2. Before BY <1>1, <2>1, OtherTold
  <2> QED BY <1>4, <1>5, <1>8, <2>1, <2>2
          DEF ReadEvent, DisableNotification, EnableNotification, Top
<1>9. CASE RingInput
  <2>1. UNCHANGED <<used, seen, added, intr, watched, onq>>
        /\ pc = "ring" /\ pc' = "pty"
    BY <1>9 DEF RingInput, rings, events
  <2>2. Before BY <2>1 DEF Told, InterruptComing, intr
  <2> QED BY <1>4, <1>5, <2>1, <2>2
<1>10. CASE PopChain \/ FillChain \/ FlushChain
  <2>1. DeviceStep(onq) \/ UNCHANGED queueVars
    BY <1>10 DEF PopChain, FillChain, FlushChain, DeviceStep
  <2>2. UNCHANGED <<used, added>>
    BY <1>10 DEF PopChain, FillChain, FlushChain, Pop, queueVars, rings, events
  <2>3. Before BY <1>1, <2>1, <2>2, OtherTold
  <2> QED BY <1>4, <1>5, <1>10, <2>2, <2>3 DEF PopChain, FillChain, FlushChain
<1>11. CASE AddUsed
  <2>1. Use(onq) /\ pc = "add" /\ pc' = "needs" /\ watched
        /\ UNCHANGED <<onq, watched>>
    BY <1>11 DEF AddUsed, ControlInv
  <2>2. CASE q # onq
    <3>1. Before /\ added'[q] = added[q]
      BY <1>1, <2>1, <2>2, OtherTold DEF Use, QueuesTypeOK
    <3> QED BY <1>4, <1>5, <2>1, <2>2, <3>1
  <2>3. CASE q = onq
    <3>1. SUFFICES ASSUME EventIdx PROVE Told(q, added[q])' BY <2>1, <2>3
    <3>2. added[q] = 0 /\ Told(q, 0)
      BY <1>4, <2>1, <2>3, <3>1 DEF BatchInv
    <3>3. used[q] # next[q] /\ IndicesInOrder(q)
      BY <2>1, <2>3 DEF HandInv, RingOrder
    <3>4. Told(q, 0 + 1)' BY <1>1, <2>1, <2>3, <3>2, <3>3, UseTold
    <3>5. added'[q] = Inc(0)
      BY <1>1, <2>1, <2>3, <3>1, <3>2 DEF Use, QueuesTypeOK
    <3>6. 0 \in Idx /\ used[q] \in Idx /\ next[q] \in Idx
      BY <1>1, TypesOf, RingAssumption DEF Idx
    <3>7. IdxMod # 1 BY <3>3, <3>6 DEF Idx
    <3>8. added'[q] = 1 BY <3>5, <3>6, <3>7, IncIs
    <3> QED BY <3>4, <3>8 DEF Told
  <2> QED BY <2>2, <2>3
<1>12. CASE NeedsNotification
  <2>1. /\ pc = "needs" /\ watched /\ UNCHANGED <<onq, watched>>
        /\ ForgetAdded(onq) /\ UNCHANGED used
        /\ pc' = IF Wanted(onq) THEN "status" ELSE "pop"
    BY <1>12 DEF NeedsNotification, ForgetAdded, ControlInv, rings
  <2>2. Before BY <1>1, <2>1, OtherTold DEF DeviceStep
  <2>3. CASE q # onq
    <3>1. added'[q] = added[q] BY <1>1, <2>1, <2>3 DEF ForgetAdded, QueuesTypeOK
    <3> QED BY <1>4, <1>5, <2>1, <2>2, <2>3, <3>1
  <2>4. CASE q = onq /\ Wanted(q) BY <2>1, <2>4
  <2>5. CASE q = onq /\ ~Wanted(q)
    <3>1. EventIdx BY <2>5 DEF Wanted
    <3>2. Told(q, added[q]) BY <1>4, <2>1, <2>5, <3>1
    <3>3. Told(q, 0) BY <1>1, <2>5, <3>2, WantedIfUnseen DEF SignalInv
    <3> QED BY <2>1, <2>2, <2>5, <3>3
  <2> QED BY <2>3, <2>4, <2>5
<1>13. CASE SetInterruptStatus
  <2>1. DeviceStep(onq) /\ UNCHANGED <<used, added>> /\ intStatus'
    BY <1>13 DEF SetInterruptStatus, RaiseStatus, DeviceStep, rings, events
  <2>2. Before BY <1>1, <2>1, OtherTold
  <2> QED BY <1>4, <1>5, <1>13, <2>1, <2>2 DEF SetInterruptStatus
<1>14. CASE WriteIrqfd
  <2>1. DeviceStep(onq) /\ UNCHANGED <<used, added>>
    BY <1>14 DEF WriteIrqfd, RaiseIrq, DeviceStep, rings, events
  <2>2. Before BY <1>1, <2>1, OtherTold
  <2>3. pc = "irq" /\ pc' = "pop" /\ UNCHANGED <<onq, watched>> /\ watched
    BY <1>14 DEF WriteIrqfd, ControlInv
  <2>4. CASE q # onq BY <1>4, <1>5, <2>1, <2>2, <2>3, <2>4
  <2>5. CASE q = onq
    <3>1. intStatus => Told(q, 0)'
      BY <1>14 DEF WriteIrqfd, RaiseIrq, Told, InterruptComing
    <3> QED BY <1>4, <2>2, <2>3, <2>5, <3>1
  <2> QED BY <2>4, <2>5
<1>15. CASE Fail
  <2>1. UNCHANGED queueVars BY <1>15 DEF Fail
  <2>2. Before /\ added' = added BY <1>1, <2>1, OtherTold DEF queueVars, events
  <2>3. Told(q, 0) => Told(q, n) BY <1>1, ToldMore
  <2> QED BY <1>4, <1>5, <1>15, <2>2, <2>3 DEF Fail
<1> QED BY NextCases, <1>6, <1>7, <1>8, <1>9, <1>10, <1>11, <1>12, <1>13, <1>14,
           <1>15

-----------------------------------------------------------------------------
LEMMA InitIInv == ASSUME Init PROVE IInv
<1> USE RingAssumption, CapAssumption DEF Init, QueuesInit, Queues
<1>1. TypeOK
  <2>1. 0 \in Idx BY DEF Idx
  <2>2. QueuesTypeOK BY <2>1 DEF QueuesTypeOK
  <2>3. typed \in 0 .. PtyCap /\ inbuf \in 0 .. BufCap /\ socket \in 0 .. SocketCap
    OBVIOUS
  <2>4. /\ ptyEdge \in BOOLEAN /\ socketEdge \in BOOLEAN
        /\ lost \in BOOLEAN /\ watched \in BOOLEAN
    OBVIOUS
  <2> QED BY <2>2, <2>3, <2>4 DEF TypeOK
<1>2. \A q \in Queues : Dist(0, 0) = 0 /\ RingSize(q) \in Nat
  BY RingSizes, DistIs DEF Idx
<1>3. RingOrder /\ \A q \in Queues : Told(q, 0)
  BY <1>2 DEF RingOrder, IndicesInOrder, Told
<1>4. ControlInv /\ SourceInv /\ InputInv /\ OutputInv /\ HandInv
  BY DEF ControlInv, SourceInv, InputInv, OutputInv, HandInv, Waking, HasChain,
         NextWillKick
<1>5. BatchInv BY DEF BatchInv
<1>6. SignalInv BY <1>3 DEF SignalInv, Armed, Signalled, InBatch
<1> QED BY <1>1, <1>3, <1>4, <1>5, <1>6 DEF IInv

LEMMA Invariance == Spec => []IInv
<1>1. IInv /\ [Next]_vars => IInv'
  BY TypeStep, ControlStep, SourceStep, InputStep, OutputStep, OrderStep,
     BatchStep, SignalStep
  DEF IInv
<1> QED BY <1>1, InitIInv, PTL DEF Spec

(* Every variable of the console device keeps its type. *)
THEOREM TypeCorrect == Spec => []TypeOK
<1>1. IInv => TypeOK BY DEF IInv
<1> QED BY <1>1, Invariance, PTL

(* PtyHandler drains what woke it: its edge-triggered events suffice. *)
THEOREM SourcesAreDrained == Spec => []NoStalledPty
<1>1. IInv => NoStalledPty BY DEF IInv, SourceInv, NoStalledPty, Asleep
<1> QED BY <1>1, Invariance, PTL

(* process_input_queue leaves no typed data without a kick to come. *)
THEOREM InputDoesNotStall == Spec => []NoStalledInput
<1>1. IInv => NoStalledInput
  BY DEF IInv, TypeOK, InputInv, Working, NoStalledInput, Asleep, Waking
<1> QED BY <1>1, Invariance, PTL

(* process_output_queue loses no kick. *)
THEOREM KicksAreNotLost == Spec => []NoLostKick
<1>1. IInv => NoLostKick
  BY DEF IInv, OutputInv, Working, NoLostKick, Asleep, Waking
<1> QED BY <1>1, Invariance, PTL

(* No interrupt is lost, be it for input or for output. *)
THEOREM InterruptsAreNotLost == Spec => []NoLostInterrupt
<1>1. IInv => NoLostInterrupt
  <2>1. SUFFICES ASSUME IInv, NEW q \in Queues, Asleep, watched,
                        used[q] # seen[q]
                 PROVE  InterruptComing
    BY DEF NoLostInterrupt, Unseen
  <2>2. Told(q, 0)
    BY <2>1 DEF IInv, SignalInv, Signalled, InBatch, Asleep
  <2>3. used[q] \in Idx /\ seen[q] \in Idx BY <2>1, TypesOf DEF IInv, TypeOK
  <2>4. Dist(used[q], seen[q]) \in Nat BY <2>3, Closed DEF Idx
  <2>5. Dist(used[q], seen[q]) # 0 BY <2>1, <2>3, Steps
  <2> QED BY <2>2, <2>4, <2>5 DEF Told
<1> QED BY <1>1, Invariance, PTL

(* ConsoleService: what each step does to it. *)

(* Posting a buffer is lending or queueing it; the rest of what the guest    *)
(* does is hidden.                                                           *)
LEMMA GuestMaps ==
    ASSUME IInv, Guest /\ UNCHANGED <<data, thread>>
    PROVE  Service!Lend \/ Service!Queue \/ UNCHANGED Service!vars
<1> USE DEF data, thread, Service!vars
<1>1. QueuesTypeOK /\ \A q \in Queues : IndicesInOrder(q)
  BY DEF IInv, TypeOK, RingOrder
<1>2. CASE Post("rx")
  <2>1. "rx" \in Queues /\ "tx" \in Queues \ {"rx"} BY DEF Queues
  <2>2. /\ Dist(avail["rx"], used["rx"])' = Dist(avail["rx"], used["rx"]) + 1
        /\ avail'["tx"] = avail["tx"] /\ used' = used
    BY <1>1, <1>2, <2>1, PostOwes
  <2> QED BY <2>2 DEF Service!Lend
<1>3. CASE Post("tx")
  <2>1. "tx" \in Queues /\ "rx" \in Queues \ {"tx"} BY DEF Queues
  <2>2. /\ Dist(avail["tx"], used["tx"])' = Dist(avail["tx"], used["tx"]) + 1
        /\ avail'["rx"] = avail["rx"] /\ used' = used
    BY <1>1, <1>3, <2>1, PostOwes
  <2> QED BY <2>2 DEF Service!Queue
<1>4. CASE UNCHANGED <<avail, used>> BY <1>4
<1> QED
  BY <1>2, <1>3, <1>4 DEF Queues, Guest, InterruptHandler, TakeInterrupt,
     ReadInterruptStatus, AckInterrupt, Reap, ArmUsedEvent, LookAgain,
     KickPrepare, Kick, rings

(* A chain is filled or printed while the device owes it to the driver. *)
LEMMA WorkMaps ==
    ASSUME IInv, (FillChain /\ pc' = "add") \/ FlushChain
    PROVE  Service!Fill \/ Service!Emit
<1>1. /\ QueuesTypeOK /\ onq \in Queues /\ "rx" \in Queues /\ "tx" \in Queues
      /\ \A q \in Queues : IndicesInOrder(q)
  BY DEF IInv, TypeOK, RingOrder, Queues
<1>2. watched /\ watched' = watched /\ onq' = onq /\ pc' = "add"
      /\ UNCHANGED <<avail, used>>
  BY DEF IInv, ControlInv, FillChain, FlushChain, queueVars, rings
<1>3. typed \in Nat /\ inbuf \in Nat /\ socket \in Nat
  BY CapAssumption DEF IInv, TypeOK
<1>4. CASE FillChain
  <2>1. pc = "fill" /\ onq = "rx" /\ used["rx"] # next["rx"]
    BY <1>4 DEF FillChain, IInv, ControlInv, HandInv
  <2>2. Dist(avail["rx"], used["rx"]) > 0 BY <1>1, <2>1, InHandIsOwed
  <2>3. inbuf' \in 0 .. inbuf - 1 /\ UNCHANGED <<typed, socket>>
    BY <1>2, <1>4 DEF FillChain
  <2>4. PICK n \in 0 .. inbuf - 1 : inbuf' = n BY <2>3
  <2>5. typed + n \in 0 .. (typed + inbuf) - 1 BY <1>3
  <2>6. (typed + inbuf)' \in 0 .. (typed + inbuf) - 1 BY <2>3, <2>4, <2>5
  <2> QED BY <1>2, <2>1, <2>2, <2>3, <2>6 DEF Service!Fill, Service!Serving
<1>5. CASE FlushChain
  <2>1. pc = "flush" /\ onq = "tx" /\ used["tx"] # next["tx"]
    BY <1>5 DEF FlushChain, IInv, ControlInv, HandInv
  <2>2. Dist(avail["tx"], used["tx"]) > 0 BY <1>1, <2>1, InHandIsOwed
  <2>3. socket' = socket + 1 /\ UNCHANGED <<typed, inbuf>>
    BY <1>5 DEF FlushChain
  <2> QED BY <1>2, <2>1, <2>2, <2>3 DEF Service!Emit, Service!Serving
<1> QED BY <1>4, <1>5

(* add_used gives it back. *)
LEMMA AddUsedMaps ==
    ASSUME IInv, AddUsed
    PROVE  Service!Return
<1>1. QueuesTypeOK /\ onq \in Queues /\ IndicesInOrder(onq)
  BY DEF IInv, TypeOK, RingOrder
<1>2. /\ Use(onq) /\ pc = "add" /\ pc' = "needs" /\ watched
      /\ watched' = watched /\ UNCHANGED <<typed, inbuf, socket>>
      /\ used[onq] # next[onq]
  BY DEF IInv, ControlInv, HandInv, AddUsed, data
<1>3. ASSUME NEW q \in Queues, q = onq
      PROVE  /\ Dist(avail[q], used[q]) > 0
             /\ Dist(avail[q], used[q])' = Dist(avail[q], used[q]) - 1
             /\ \A p \in Queues \ {q} : used'[p] = used[p]
             /\ avail' = avail
  BY <1>1, <1>2, <1>3, UseOwes
<1>4. CASE onq = "rx"
  <2>1. /\ Dist(avail["rx"], used["rx"]) > 0
        /\ Dist(avail["rx"], used["rx"])' = Dist(avail["rx"], used["rx"]) - 1
        /\ used'["tx"] = used["tx"] /\ avail' = avail
    BY <1>1, <1>3, <1>4 DEF Queues
  <2> QED BY <1>2, <1>4, <2>1 DEF Service!Return, Service!Serving
<1>5. CASE onq = "tx"
  <2>1. /\ Dist(avail["tx"], used["tx"]) > 0
        /\ Dist(avail["tx"], used["tx"])' = Dist(avail["tx"], used["tx"]) - 1
        /\ used'["rx"] = used["rx"] /\ avail' = avail
    BY <1>1, <1>3, <1>5 DEF Queues
  <2> QED BY <1>2, <1>5, <2>1 DEF Service!Return, Service!Serving
<1> QED BY <1>1, <1>4, <1>5 DEF Queues

(* So does PtyHandler: reading the pseudo-terminal moves a chunk on, or loses*)
(* it with the thread; the socket empties into the terminal.                 *)
LEMMA PtyMaps ==
    ASSUME IInv, ReadPty \/ ReadSocket
    PROVE  Service!Overflow \/ Service!Show \/ UNCHANGED Service!vars
<1> USE DEF data, thread, queueVars, rings, Service!vars
<1>1. typed \in Nat /\ inbuf \in Nat /\ socket \in Nat
  BY CapAssumption DEF IInv, TypeOK
<1>2. CASE ReadPty
  <2>1. pc = "pty" /\ UNCHANGED <<avail, used, socket, watched>>
    BY <1>2 DEF ReadPty
  <2>2. CASE pc' = "dead"
    BY <1>1, <1>2, <2>1, <2>2 DEF ReadPty, Service!Overflow
  <2>3. CASE pc' # "dead"
    <3>1. typed' + inbuf' = typed + inbuf /\ pc' # "add"
      BY <1>1, <1>2, <2>3 DEF ReadPty
    <3> QED BY <2>1, <2>3, <3>1
  <2> QED BY <2>2, <2>3
<1>3. CASE ReadSocket
  <2>1. pc = "socket" /\ UNCHANGED <<avail, used, typed, inbuf, watched>>
    BY <1>3 DEF ReadSocket
  <2>2. CASE socket' = socket
    BY <1>1, <1>3, <2>1, <2>2 DEF ReadSocket
  <2>3. CASE socket > 0 /\ socket' = socket - 1 /\ pc' \in {"socket", "dead"}
    BY <2>1, <2>3 DEF Service!Show
  <2> QED BY <1>3, <2>2, <2>3 DEF ReadSocket
<1> QED BY <1>2, <1>3

(* The console device implements the console service: short of an error,     *)
(* nothing typed is lost before it is in a buffer, nothing printed before the*)
(* terminal gets it, and each buffer comes back once, filled or printed.     *)
THEOREM ImplementsService == Spec => ConsoleServiceSpec
<1>1. Init => Service!Init
  <2>1. Dist(0, 0) = 0 BY RingAssumption, DistIs DEF Idx
  <2> QED BY <2>1 DEF Init, QueuesInit, Queues, Service!Init
<1>2. IInv /\ [Next]_vars => [Service!Next]_(Service!vars)
  <2> SUFFICES ASSUME IInv, [Next]_vars
               PROVE  Service!Next \/ UNCHANGED Service!vars
    OBVIOUS
  <2> USE DEF Service!Next
  <2>1. CASE Guest /\ UNCHANGED <<data, thread>> BY <2>1, GuestMaps
  <2>2. CASE Type
    <3>1. typed \in Nat /\ inbuf \in Nat BY CapAssumption DEF IInv, TypeOK
    <3>2. /\ (typed + inbuf)' = (typed + inbuf) + 1
          /\ UNCHANGED <<socket, watched, pc, onq, avail, used>>
      BY <2>2, <3>1 DEF Type, queueVars, rings, thread
    <3> QED BY <3>2 DEF Service!Type
  <2>3. CASE ReadPty \/ ReadSocket BY <2>3, PtyMaps
  <2>4. CASE (FillChain /\ pc' = "add") \/ FlushChain BY <2>4, WorkMaps
  <2>5. CASE AddUsed BY <2>5, AddUsedMaps
  <2>6. CASE Fail
    <3>1. /\ UNCHANGED <<typed, inbuf, socket, avail, used>>
          /\ watched /\ watched' = FALSE /\ pc # "dead" /\ pc' = "wait"
      BY <2>6 DEF Fail, data, queueVars, rings, IInv, ControlInv
    <3> QED BY <3>1 DEF Service!Stop, Service!Serving
  <2>7. CASE /\ UNCHANGED <<typed, inbuf, socket, avail, used, watched>>
             /\ pc # "add" /\ pc' # "add" /\ pc # "dead" /\ pc' # "dead"
    BY <2>7 DEF Service!vars
  <2>8. CASE WakePty \/ WakeSocket \/ (\E q \in Queues : Wake(q)) \/ RingInput
    BY <2>7, <2>8 DEF WakePty, WakeSocket, Wake, RingInput, data, queueVars, rings
  <2>9. CASE ReadEvent \/ CheckInput \/ DisableNotification
    BY <2>7, <2>9 DEF ReadEvent, CheckInput, DisableNotification, TakeKick, Disable,
       Top, data, queueVars, rings
  <2>10. CASE PopChain \/ (FillChain /\ pc' # "add")
    BY <2>7, <2>10 DEF PopChain, Pop, FillChain, data, queueVars, rings
  <2>11. CASE NeedsNotification \/ SetInterruptStatus \/ WriteIrqfd
    BY <2>7, <2>11 DEF NeedsNotification, ForgetAdded, SetInterruptStatus,
       RaiseStatus, WriteIrqfd, RaiseIrq, data, rings
  <2>12. CASE EnableNotification \/ Recheck
    BY <2>7, <2>12 DEF EnableNotification, Enable, Recheck, Top, data, queueVars, rings
  <2>13. CASE UNCHANGED vars
    BY <2>13 DEF vars, data, thread, queueVars, rings, Service!vars
  <2> QED BY NextCases, <2>1, <2>2, <2>3, <2>4, <2>5, <2>6, <2>8, <2>9, <2>10,
             <2>11, <2>12, <2>13
<1> QED BY <1>1, <1>2, Invariance, PTL
        DEF Spec, ConsoleServiceSpec, Service!Spec

(* The used index follows the chains popped, one behind at most, but for a   *)
(* receive chain without room.                                               *)
THEOREM RingsStayInOrder == Spec => []RingOrder
<1>1. IInv => RingOrder BY DEF IInv
<1> QED BY <1>1, Invariance, PTL
=============================================================================
