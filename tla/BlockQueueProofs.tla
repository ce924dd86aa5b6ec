-------------------------- MODULE BlockQueueProofs --------------------------
(* Proofs about the block queue, for every set of CPUs and of descriptors    *)
(* and every bound on the requests.                                          *)
EXTENDS BlockQueue, TLAPS

-----------------------------------------------------------------------------
(* The inductive invariant: the properties, and what they rest on.           *)

(* A thread that gave up the queue sleeps for good. *)
GaveUp == ~registered => dpc = "wait"

(* Outside the inner loop of process_queue notifications are enabled. *)
FlagClear ==
    registered /\ dpc \in {"wait", "read", "disable", "recheck"} => ~noNotify

(* The chain in hand is the last one popped. *)
InHand == dpc \in {"exec", "add"} => cur = avail[next]

SeenBound == seen <= Len(used)

(* The driver lends a descriptor once at a time. *)
DistinctHeads ==
    \A i, j \in seen + 1 .. Len(avail) :
        avail[i].head = avail[j].head => i = j

IInv ==
    /\ TypeOK /\ GaveUp /\ FlagClear
    /\ NoLostKick /\ NoLostInterrupt
    /\ InOrder /\ InHand /\ SeenBound /\ DistinctHeads

-----------------------------------------------------------------------------
(* Every step of the queue preserves the types. *)
LEMMA TypeStep == TypeOK /\ [Next]_vars => TypeOK'
<1> SUFFICES ASSUME TypeOK, [Next]_vars PROVE TypeOK'
    OBVIOUS
<1> USE DEF TypeOK, ring, signals, guest, DevicePCs, GuestPCs, IrqPCs
<1>1. CASE Device
  <2>1. CASE Wake BY <2>1 DEF Wake
  <2>2. CASE ReadEvent BY <2>2 DEF ReadEvent
  <2>3. CASE DisableNotification BY <2>3 DEF DisableNotification
  <2>4. CASE PopChain
    <3>1. CASE next < Len(avail)
      <4>1. next + 1 \in 1 .. Len(avail) BY <3>1
      <4>2. avail[next + 1] \in Chain BY <4>1
      <4> QED BY <2>4, <3>1, <4>2 DEF PopChain
    <3>2. CASE ~(next < Len(avail)) BY <2>4, <3>2 DEF PopChain
    <3> QED BY <3>1, <3>2
  <2>5. CASE ProcessRequest BY <2>5 DEF ProcessRequest
  <2>6. CASE AddUsed
    <3>1. UsedElem(cur) \in Completion
          BY <2>6 DEF AddUsed, UsedElem, Completion, Chain
    <3> QED BY <2>6, <3>1 DEF AddUsed
  <2>7. CASE SignalUsedQueue
        BY <2>7 DEF SignalUsedQueue, SetInterruptStatus, WriteIrqfd
  <2>8. CASE EnableNotification BY <2>8 DEF EnableNotification
  <2>9. CASE Recheck BY <2>9 DEF Recheck
  <2>10. CASE Fail BY <2>10 DEF Fail
  <2> QED BY <1>1, <2>1, <2>2, <2>3, <2>4, <2>5, <2>6, <2>7, <2>8, <2>9, <2>10
          DEF Device
<1>2. CASE InterruptHandler
  <2>1. CASE TakeInterrupt BY <2>1 DEF TakeInterrupt
  <2>2. CASE ReadInterruptStatus BY <2>2 DEF ReadInterruptStatus
  <2>3. CASE AckInterrupt BY <2>3 DEF AckInterrupt
  <2>4. CASE Reap BY <2>4 DEF Reap
  <2> QED BY <1>2, <2>1, <2>2, <2>3, <2>4 DEF InterruptHandler
<1>3. CASE \E c \in Cpus : Cpu(c)
  <2>1. PICK c \in Cpus : Cpu(c) BY <1>3
  <2>2. CASE Submit(c) BY <2>2 DEF Submit
  <2>3. CASE KickPrepare(c) BY <2>3 DEF KickPrepare
  <2>4. CASE Kick(c) BY <2>4 DEF Kick
  <2> QED BY <2>1, <2>2, <2>3, <2>4 DEF Cpu
<1>4. CASE UNCHANGED vars BY <1>4 DEF vars
<1> QED BY <1>1, <1>2, <1>3, <1>4 DEF Next

(* The ways a step of the queue can go. *)
LEMMA NextCases ==
    ASSUME [Next]_vars
    PROVE  \/ Wake \/ ReadEvent \/ DisableNotification \/ PopChain
           \/ ProcessRequest \/ AddUsed \/ SetInterruptStatus \/ WriteIrqfd
           \/ EnableNotification \/ Recheck \/ Fail
           \/ TakeInterrupt \/ ReadInterruptStatus \/ AckInterrupt \/ Reap
           \/ \E c \in Cpus : Submit(c) \/ KickPrepare(c) \/ Kick(c)
           \/ UNCHANGED vars
BY DEF Next, Device, SignalUsedQueue, InterruptHandler, Cpu

(* The control invariants of the event-manager thread are preserved. *)
LEMMA ControlStep ==
    ASSUME TypeOK, GaveUp, FlagClear, [Next]_vars
    PROVE  GaveUp' /\ FlagClear'
<1> USE DEF TypeOK, GaveUp, FlagClear, ring, signals, guest
<1>1. CASE Wake BY <1>1 DEF Wake
<1>2. CASE ReadEvent BY <1>2 DEF ReadEvent
<1>3. CASE DisableNotification BY <1>3 DEF DisableNotification
<1>4. CASE PopChain BY <1>4 DEF PopChain
<1>5. CASE ProcessRequest BY <1>5 DEF ProcessRequest
<1>6. CASE AddUsed BY <1>6 DEF AddUsed
<1>7. CASE SetInterruptStatus BY <1>7 DEF SetInterruptStatus
<1>8. CASE WriteIrqfd BY <1>8 DEF WriteIrqfd
<1>9. CASE EnableNotification BY <1>9 DEF EnableNotification
<1>10. CASE Recheck BY <1>10 DEF Recheck
<1>11. CASE Fail BY <1>11 DEF Fail
<1>12. CASE TakeInterrupt BY <1>12 DEF TakeInterrupt
<1>13. CASE ReadInterruptStatus BY <1>13 DEF ReadInterruptStatus
<1>14. CASE AckInterrupt BY <1>14 DEF AckInterrupt
<1>15. CASE Reap BY <1>15 DEF Reap
<1>16. CASE \E c \in Cpus : Submit(c) \/ KickPrepare(c) \/ Kick(c)
       BY <1>16 DEF Submit, KickPrepare, Kick
<1>17. CASE UNCHANGED vars BY <1>17 DEF vars
<1> QED BY NextCases, <1>1, <1>2, <1>3, <1>4, <1>5, <1>6, <1>7, <1>8, <1>9,
           <1>10, <1>11, <1>12, <1>13, <1>14, <1>15, <1>16, <1>17

(* A sleeping thread is always going to be woken for a chain in the ring. *)
LEMMA KickStep ==
    ASSUME TypeOK, GaveUp, FlagClear, NoLostKick, InOrder, [Next]_vars
    PROVE  NoLostKick'
<1> USE DEF TypeOK, NoLostKick, ring, signals, guest
<1>1. CASE Wake BY <1>1 DEF Wake
<1>2. CASE ReadEvent BY <1>2 DEF ReadEvent
<1>3. CASE DisableNotification BY <1>3 DEF DisableNotification
<1>4. CASE PopChain BY <1>4 DEF PopChain
<1>5. CASE ProcessRequest BY <1>5 DEF ProcessRequest
<1>6. CASE AddUsed BY <1>6 DEF AddUsed
<1>7. CASE SetInterruptStatus BY <1>7 DEF SetInterruptStatus
<1>8. CASE WriteIrqfd BY <1>8 DEF WriteIrqfd
<1>9. CASE EnableNotification BY <1>9 DEF EnableNotification
<1>10. CASE Recheck
  \* The thread goes to sleep only on a ring it found empty.
  BY <1>10 DEF Recheck
<1>11. CASE Fail BY <1>11 DEF Fail
<1>12. CASE TakeInterrupt BY <1>12 DEF TakeInterrupt
<1>13. CASE ReadInterruptStatus BY <1>13 DEF ReadInterruptStatus
<1>14. CASE AckInterrupt BY <1>14 DEF AckInterrupt
<1>15. CASE Reap BY <1>15 DEF Reap
<1>16. ASSUME NEW c \in Cpus, Submit(c) PROVE NoLostKick'
  \* The submitter will find notifications enabled.
  <2>1. gpc'[c] = "check" BY <1>16 DEF Submit
  <2>2. dpc' = "wait" /\ registered' => ~noNotify'
        BY <1>16 DEF Submit, FlagClear
  <2> QED BY <2>1, <2>2
<1>17. ASSUME NEW c \in Cpus, KickPrepare(c) PROVE NoLostKick'
  <2>1. dpc = "wait" /\ registered => gpc'[c] = "kick"
        BY <1>17 DEF KickPrepare, FlagClear
  <2>2. UNCHANGED <<ring, dpc, signals>> BY <1>17 DEF KickPrepare
  <2> QED BY <2>1, <2>2
<1>18. ASSUME NEW c \in Cpus, Kick(c) PROVE NoLostKick'
  BY <1>18 DEF Kick
<1>19. CASE UNCHANGED vars BY <1>19 DEF vars
<1> QED BY NextCases, <1>1, <1>2, <1>3, <1>4, <1>5, <1>6, <1>7, <1>8, <1>9,
           <1>10, <1>11, <1>12, <1>13, <1>14, <1>15, <1>16, <1>17, <1>18, <1>19

(* The interrupt for an unseen completion is never lost. *)
LEMMA InterruptStep ==
    ASSUME TypeOK, NoLostInterrupt, SeenBound, [Next]_vars
    PROVE  NoLostInterrupt' /\ SeenBound'
<1> USE DEF TypeOK, NoLostInterrupt, SeenBound, ring, signals, guest
<1>1. CASE Wake BY <1>1 DEF Wake
<1>2. CASE ReadEvent BY <1>2 DEF ReadEvent
<1>3. CASE DisableNotification BY <1>3 DEF DisableNotification
<1>4. CASE PopChain BY <1>4 DEF PopChain
<1>5. CASE ProcessRequest BY <1>5 DEF ProcessRequest
<1>6. CASE AddUsed
  <2>1. Len(used') = Len(used) + 1 BY <1>6 DEF AddUsed
  <2> QED BY <1>6, <2>1 DEF AddUsed
<1>7. CASE SetInterruptStatus BY <1>7 DEF SetInterruptStatus
<1>8. CASE WriteIrqfd BY <1>8 DEF WriteIrqfd
<1>9. CASE EnableNotification BY <1>9 DEF EnableNotification
<1>10. CASE Recheck BY <1>10 DEF Recheck
<1>11. CASE Fail BY <1>11 DEF Fail
<1>12. CASE TakeInterrupt BY <1>12 DEF TakeInterrupt
<1>13. CASE ReadInterruptStatus BY <1>13 DEF ReadInterruptStatus
<1>14. CASE AckInterrupt BY <1>14 DEF AckInterrupt
<1>15. CASE Reap BY <1>15 DEF Reap
<1>16. CASE \E c \in Cpus : Submit(c) \/ KickPrepare(c) \/ Kick(c)
       BY <1>16 DEF Submit, KickPrepare, Kick
<1>17. CASE UNCHANGED vars BY <1>17 DEF vars
<1> QED BY NextCases, <1>1, <1>2, <1>3, <1>4, <1>5, <1>6, <1>7, <1>8, <1>9,
           <1>10, <1>11, <1>12, <1>13, <1>14, <1>15, <1>16, <1>17

(* Completions stay a copy of the chains made available, in their order. *)
LEMMA OrderStep ==
    ASSUME TypeOK, GaveUp, InOrder, InHand, [Next]_vars
    PROVE  InOrder' /\ InHand'
<1> USE DEF TypeOK, InOrder, InHand, GaveUp, ring, signals, guest
<1>1. CASE Wake BY <1>1 DEF Wake
<1>2. CASE ReadEvent BY <1>2 DEF ReadEvent
<1>3. CASE DisableNotification BY <1>3 DEF DisableNotification
<1>4. CASE PopChain
  \* Nothing is in hand before the pop, so the new chain is the next to return.
  <2>1. registered /\ next = Len(used) BY <1>4 DEF PopChain
  <2> QED BY <1>4, <2>1 DEF PopChain
<1>5. CASE ProcessRequest BY <1>5 DEF ProcessRequest
<1>6. CASE AddUsed
  <2>1. registered /\ next = Len(used) + 1 /\ cur = avail[Len(used) + 1]
        BY <1>6 DEF AddUsed
  <2>2. /\ Len(used') = Len(used) + 1
        /\ used'[Len(used) + 1] = UsedElem(cur)
        /\ \A i \in 1 .. Len(used) : used'[i] = used[i]
        BY <1>6 DEF AddUsed
  <2>3. ASSUME NEW i \in 1 .. Len(used')
        PROVE  used'[i] = UsedElem(avail'[i])
    <3>1. avail' = avail BY <1>6 DEF AddUsed
    <3>2. CASE i \in 1 .. Len(used) BY <2>2, <3>1, <3>2
    <3>3. CASE i = Len(used) + 1 BY <2>1, <2>2, <3>1, <3>3
    <3> QED BY <2>2, <3>2, <3>3
  <2> QED BY <1>6, <2>1, <2>2, <2>3 DEF AddUsed
<1>7. CASE SetInterruptStatus BY <1>7 DEF SetInterruptStatus
<1>8. CASE WriteIrqfd BY <1>8 DEF WriteIrqfd
<1>9. CASE EnableNotification BY <1>9 DEF EnableNotification
<1>10. CASE Recheck BY <1>10 DEF Recheck
<1>11. CASE Fail BY <1>11 DEF Fail
<1>12. CASE TakeInterrupt BY <1>12 DEF TakeInterrupt
<1>13. CASE ReadInterruptStatus BY <1>13 DEF ReadInterruptStatus
<1>14. CASE AckInterrupt BY <1>14 DEF AckInterrupt
<1>15. CASE Reap BY <1>15 DEF Reap
<1>16. ASSUME NEW c \in Cpus, Submit(c) PROVE InOrder' /\ InHand'
  <2>1. PICK chain \in Chain : avail' = Append(avail, chain)
        BY <1>16 DEF Submit
  <2>2. /\ Len(avail') = Len(avail) + 1
        /\ \A i \in 1 .. Len(avail) : avail'[i] = avail[i]
        BY <2>1
  <2>3. dpc \in {"exec", "add"} => next \in 1 .. Len(avail)
        OBVIOUS
  <2>4. UNCHANGED <<used, next, cur, dpc, registered>> BY <1>16 DEF Submit
  <2>5. InHand' BY <2>2, <2>3, <2>4
  <2>6. /\ Len(used) \in Nat /\ Len(avail) \in Nat /\ next \in Nat
        /\ Len(used) <= next /\ next <= Len(avail) /\ next <= Len(used) + 1
        OBVIOUS
  <2>7. \A i \in 1 .. Len(used) : used[i] = UsedElem(avail'[i])
        BY <2>2, <2>6
  <2>8. InOrder' BY <2>2, <2>4, <2>6, <2>7
  <2> QED BY <2>5, <2>8
<1>17. ASSUME NEW c \in Cpus, KickPrepare(c) \/ Kick(c) PROVE InOrder' /\ InHand'
  BY <1>17 DEF KickPrepare, Kick
<1>18. CASE UNCHANGED vars BY <1>18 DEF vars
<1> QED BY NextCases, <1>1, <1>2, <1>3, <1>4, <1>5, <1>6, <1>7, <1>8, <1>9,
           <1>10, <1>11, <1>12, <1>13, <1>14, <1>15, <1>16, <1>17, <1>18

(* The heads lent to the device stay distinct. *)
LEMMA DistinctStep ==
    ASSUME TypeOK, DistinctHeads, SeenBound, InOrder, [Next]_vars
    PROVE  DistinctHeads'
<1> USE DEF TypeOK, DistinctHeads, ring, signals, guest
<1>1. CASE UNCHANGED <<avail, seen>> BY <1>1
<1>2. CASE Reap BY <1>2 DEF Reap
<1>3. ASSUME NEW c \in Cpus, Submit(c) PROVE DistinctHeads'
  <2>1. PICK chain \in Chain : /\ chain.head \notin Outstanding
                               /\ avail' = Append(avail, chain)
        BY <1>3 DEF Submit
  <2>2. /\ Len(avail') = Len(avail) + 1
        /\ avail'[Len(avail) + 1] = chain
        /\ \A i \in 1 .. Len(avail) : avail'[i] = avail[i]
        BY <2>1
  <2>3. \A i \in seen + 1 .. Len(avail) : avail[i].head # chain.head
        BY <2>1 DEF Outstanding
  <2>4. seen' = seen BY <1>3 DEF Submit
  <2> QED BY <2>2, <2>3, <2>4
<1> QED BY NextCases, <1>1, <1>2, <1>3
        DEF Wake, ReadEvent, DisableNotification, PopChain, ProcessRequest,
            AddUsed, SetInterruptStatus, WriteIrqfd, EnableNotification,
            Recheck, Fail, TakeInterrupt, ReadInterruptStatus, AckInterrupt,
            KickPrepare, Kick, vars

-----------------------------------------------------------------------------
(* The inductive invariant holds. *)
LEMMA InvInit == Init => IInv
<1> SUFFICES ASSUME Init PROVE IInv
    OBVIOUS
<1> USE DEF Init
<1>1. TypeOK
  <2>1. avail \in Seq(Chain) /\ used \in Seq(Completion) OBVIOUS
  <2>2. gpc \in [Cpus -> GuestPCs] BY DEF GuestPCs
  <2> QED BY <2>1, <2>2 DEF TypeOK, DevicePCs, IrqPCs
<1>2. Len(avail) = 0 /\ Len(used) = 0 OBVIOUS
<1>3. GaveUp /\ FlagClear /\ InHand BY DEF GaveUp, FlagClear, InHand
<1>4. NoLostKick /\ NoLostInterrupt
      BY <1>2 DEF NoLostKick, NoLostInterrupt
<1>5. InOrder /\ SeenBound /\ DistinctHeads
      BY <1>2 DEF InOrder, SeenBound, DistinctHeads
<1> QED BY <1>1, <1>3, <1>4, <1>5 DEF IInv

LEMMA InvStep == IInv /\ [Next]_vars => IInv'
BY TypeStep, ControlStep, KickStep, InterruptStep, OrderStep, DistinctStep
   DEF IInv

LEMMA Invariance == Spec => []IInv
<1> QED BY InvInit, InvStep, PTL DEF Spec

(* Every variable of the block queue keeps its type. *)
THEOREM TypeCorrect == Spec => []TypeOK
<1>1. IInv => TypeOK BY DEF IInv
<1> QED BY <1>1, Invariance, PTL

(* process_queue never sleeps on a chain nobody will announce. *)
THEOREM KicksAreNotLost == Spec => []NoLostKick
<1>1. IInv => NoLostKick BY DEF IInv
<1> QED BY <1>1, Invariance, PTL

(* signal_used_queue never leaves a completion the guest is not told of. *)
THEOREM InterruptsAreNotLost == Spec => []NoLostInterrupt
<1>1. IInv => NoLostInterrupt BY DEF IInv
<1> QED BY <1>1, Invariance, PTL

(* Chains are completed once each, in the order they were made available. *)
THEOREM CompletionInOrder == Spec => []InOrder
<1>1. IInv => InOrder BY DEF IInv
<1> QED BY <1>1, Invariance, PTL

(* The device works only on chains the driver has lent it. *)
THEOREM ChainsAreOwned == Spec => []ChainOwnership
<1>1. IInv => ChainOwnership
  <2> SUFFICES ASSUME IInv, dpc \in {"exec", "add"}
               PROVE  /\ cur.head \in Outstanding
                      /\ \A i \in seen + 1 .. Len(used) : used[i].head # cur.head
      BY DEF ChainOwnership
  <2> USE DEF IInv, TypeOK
  <2>1. registered BY DEF GaveUp
  <2>2. next = Len(used) + 1 /\ cur = avail[next] /\ next \in seen + 1 .. Len(avail)
        BY <2>1 DEF InOrder, InHand, SeenBound
  <2>3. cur.head \in Outstanding BY <2>2 DEF Outstanding
  <2>4. ASSUME NEW i \in seen + 1 .. Len(used) PROVE used[i].head # cur.head
    <3>1. i \in 1 .. Len(used) OBVIOUS
    <3>2. used[i] = UsedElem(avail[i]) BY <3>1 DEF InOrder
    <3>3. used[i].head = avail[i].head BY <3>2 DEF UsedElem
    <3>4. i # next /\ i \in seen + 1 .. Len(avail) BY <2>2
    <3> QED BY <2>2, <3>3, <3>4 DEF DistinctHeads
  <2> QED BY <2>3, <2>4
<1> QED BY <1>1, Invariance, PTL

(* The block queue implements an in-order service: each of its steps is a    *)
(* step of the service or changes nothing the service shows.                 *)
THEOREM ImplementsService == Spec => ServiceSpec
<1>1. Init => Service!Init BY DEF Init, Service!Init
<1>2. IInv /\ [Next]_vars => [Service!Next]_(Service!vars)
  <2> SUFFICES ASSUME IInv, [Next]_vars
               PROVE  Service!Next \/ UNCHANGED Service!vars
      OBVIOUS
  <2> USE DEF ring, signals, guest, Service!vars, Service!Next
  <2>1. CASE AddUsed
    <3>1. registered BY <2>1 DEF AddUsed, IInv, GaveUp
    <3>2. cur = avail[Len(used) + 1] /\ Len(used) < Len(avail)
          BY <2>1, <3>1 DEF AddUsed, IInv, InOrder, InHand, TypeOK
    <3>3. Service!Complete
          BY <2>1, <3>1, <3>2 DEF AddUsed, Service!Complete,
                                    UsedElem, Service!UsedElem
    <3> QED BY <3>3
  <2>2. CASE Fail
    <3>1. registered BY <2>2 DEF Fail, IInv, GaveUp
    <3> QED BY <2>2, <3>1 DEF Fail, Service!Stop
  <2>3. CASE Reap BY <2>3 DEF Reap, Service!Observe
  <2>4. ASSUME NEW c \in Cpus, Submit(c) PROVE Service!Submit
        BY <2>4 DEF Submit, Service!Submit, Chain, Service!Chain
  <2>5. CASE UNCHANGED <<avail, used, seen, registered>> BY <2>5
  <2> QED BY NextCases, <2>1, <2>2, <2>3, <2>4, <2>5
          DEF Wake, ReadEvent, DisableNotification, PopChain, ProcessRequest,
              SetInterruptStatus, WriteIrqfd, EnableNotification, Recheck,
              TakeInterrupt, ReadInterruptStatus, AckInterrupt,
              KickPrepare, Kick, vars
<1> QED BY <1>1, <1>2, Invariance, PTL DEF Spec, ServiceSpec, Service!Spec
=============================================================================
