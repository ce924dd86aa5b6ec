-------------------------- MODULE VhostRingsProofs --------------------------
(* Proofs about the rings of a vhost device, for rings of any size, with and *)
(* without event indices: the hand-over to the backend loses no kick, the    *)
(* status it cannot set loses no interrupt, and only early buffers are lost. *)
EXTENDS VhostRings, VirtqueuesProofs

(* The calls still to come: DRIVER_OK is the first, and until then the driver*)
(* rings no doorbell; no ring is set up once it was started; and the         *)
(* ioeventfd of the transmit queue is registered before its ring is set up.  *)
BaseComing(i, q) == i \in DOMAIN calls /\ calls[i].name = "base" /\ calls[i].on = {q}

CallsInv ==
    /\ \A j \in DOMAIN calls : calls[j].name = "driverOk" =>
        j = 1 /\ ~dead /\ trapped = {}
    /\ \A j \in DOMAIN calls : calls[j].name = "base" =>
        /\ calls[j].on \cap started = {}
        /\ \A i \in 1 .. j - 1 :
            calls[i].name = "start" => calls[i].on \cap calls[j].on = {}
    /\ \/ "tx" \in registered
       \/ \E i, j \in DOMAIN calls :
            /\ i < j /\ BaseComing(j, "tx")
            /\ calls[i].name = "register" /\ calls[i].on = {"tx"}

(* The backend works on a ring only after it was started, and uses only what *)
(* it has popped.                                                            *)
HandInv ==
    /\ pc # "wait" => onq \in started
    /\ pc = "add" => used[onq] # next[onq]
    /\ \A q \in Queues \ started : used[q] = 0 /\ seen[q] = 0
    /\ pc = "recheck" => Enabled(onq)

(* The backend works on the transmit ring, a kick will come, or the last one *)
(* was ignored.                                                              *)
TxInv ==
    (onq = "tx" /\ pc # "wait") \/ Waking("tx") \/ KickIgnored("tx")

(* A trapped doorbell announces nothing but buffers that set_vring_base will *)
(* pass over, or has.                                                        *)
TrapInv ==
    /\ "tx" \in trapped =>
        /\ gpc["tx"] = "kick"
        /\ (\E i \in DOMAIN calls : BaseComing(i, "tx")) \/ ~HasChain("tx")
    /\ ~EventIdx /\ noNotify["tx"] => onq = "tx" /\ pc # "wait"

(* An interrupt is coming, or at most n completions of q are unseen. The     *)
(* status is no part of this, as every read of it sets it.                   *)
Reached(q, n) == irq \/ ipc # "idle" \/ Dist(used[q], seen[q]) <= n

(* The completion of q the driver was not told of. *)
InBatch(q) == onq = q /\ pc = "needs"

BatchInv == EventIdx => \A q \in Queues : ~InBatch(q) => added[q] = 0

Signalled(q) ==
    /\ InBatch(q) /\ EventIdx => Reached(q, added[q])
    /\ ~InBatch(q) /\ ~(onq = q /\ pc = "irq") => Reached(q, 0)

SignalInv == Armed /\ \A q \in Queues : Signalled(q)

IInv == /\ TypeOK /\ CallsInv /\ HandInv /\ OnlyEarlyBuffersLost /\ TxInv /\ TrapInv
        /\ BatchInv /\ SignalInv

-----------------------------------------------------------------------------
(* The ways a step can go. *)
LEMMA NextCases ==
    ASSUME [Next]_vars
    PROVE  \/ GuestStep \/ (\E q \in Queues : QueueNotify(q))
           \/ SetDriverOk \/ RegisterIoeventfd \/ SetVringBase \/ StartRings
           \/ ActivateReturns \/ CallFails
           \/ WakeData \/ (\E q \in Queues : WakeKick(q))
           \/ DisableNotification \/ PopChain \/ AddUsed \/ NeedsNotification
           \/ WriteCall \/ EnableNotification \/ Recheck \/ UNCHANGED vars
BY DEF Next, ActivateDevice, Serve

(* What the driver does: it adds a buffer, or it rings the doorbell, which is *)
(* kept by the ioeventfd, or trapped and changes no queue.                   *)
Adds == InterruptHandler \/ \E q \in Queues : Post(q) \/ KickPrepare(q)

Rung(q) ==
    /\ Kick(q) /\ q \notin trapped
    /\ ignored' = ignored \ {q} /\ UNCHANGED trapped

Trapping(q) ==
    /\ ~AtCall("driverOk") /\ gpc[q] = "kick" /\ q \notin registered
    /\ trapped' = trapped \cup {q} /\ UNCHANGED <<queueVars, ignored>>

LEMMA GuestCases ==
    ASSUME GuestStep
    PROVE  /\ \/ Guest /\ ((Adds /\ UNCHANGED doorbells) \/ \E q \in Queues : Rung(q))
              \/ ReadStatus /\ UNCHANGED doorbells
              \/ \E q \in Queues : PostEarly(q) /\ UNCHANGED doorbells
              \/ \E q \in Queues : Trapping(q)
           /\ UNCHANGED <<setup, thread>>
<1>1. UNCHANGED <<setup, thread>> BY DEF GuestStep
<1>2. CASE Handler /\ UNCHANGED doorbells
  BY <1>1, <1>2 DEF Handler, Guest, InterruptHandler, Adds
<1>3. ASSUME NEW q \in Queues, (Post(q) \/ PostEarly(q)) /\ UNCHANGED doorbells
      PROVE  \/ Guest /\ Adds /\ UNCHANGED doorbells
             \/ PostEarly(q) /\ UNCHANGED doorbells
  BY <1>3 DEF Guest, Adds
<1>4. ASSUME NEW q \in Queues, Driver(q)
      PROVE  \/ Guest /\ ((Adds /\ UNCHANGED doorbells) \/ Rung(q))
             \/ Trapping(q)
  BY <1>4 DEF Driver, RingDoorbell, Guest, Adds, Rung, Trapping
<1> QED BY <1>1, <1>2, <1>3, <1>4 DEF GuestStep

(* What each step does to the queues. *)
LEMMA QueueCases ==
    ASSUME TypeOK, [Next]_vars
    PROVE  GuestStep \/ SetVringBase \/ UNCHANGED queueVars
           \/ (\E q \in Queues : QueueNotify(q))
           \/ \E q \in Queues : DeviceStep(q) /\ (pc # "wait" => q = onq)
BY NextCases DEF SetDriverOk, RegisterIoeventfd, StartRings, ActivateReturns,
   CallFails, WakeData, WakeKick, DisableNotification, PopChain, AddUsed,
   NeedsNotification, WriteCall, EnableNotification, Recheck, vars, DeviceStep,
   TypeOK

(* The next call of activate(), and those after it. *)
LEMMA NextCall ==
    ASSUME TypeOK, calls # <<>>
    PROVE  /\ Len(calls) \in Nat \ {0} /\ DOMAIN calls = 1 .. Len(calls)
           /\ Head(calls) = calls[1] /\ calls[1] \in Calls /\ CallOn \subseteq Queues
           /\ Tail(calls) \in Seq(Calls)
           /\ DOMAIN Tail(calls) = 1 .. Len(calls) - 1
           /\ \A i \in 1 .. Len(calls) - 1 : Tail(calls)[i] = calls[i + 1]
<1>1. calls \in Seq(Calls) BY DEF TypeOK
<1>2. /\ Len(calls) \in Nat \ {0} /\ DOMAIN calls = 1 .. Len(calls)
      /\ Head(calls) = calls[1] /\ calls[1] \in Calls
      /\ Tail(calls) \in Seq(Calls) /\ Len(Tail(calls)) = Len(calls) - 1
      /\ \A i \in 1 .. Len(calls) - 1 : Tail(calls)[i] = calls[i + 1]
  BY <1>1
<1> QED BY <1>2 DEF CallOn, Calls

(* activate() goes on, to the next call. *)
Goes == calls # <<>> /\ calls' = Tail(calls)

LEMMA ActivateGoes ==
    ASSUME \/ SetDriverOk \/ RegisterIoeventfd \/ SetVringBase \/ StartRings
           \/ ActivateReturns
    PROVE  Goes
BY DEF Goes, SetDriverOk, RegisterIoeventfd, SetVringBase, StartRings,
       ActivateReturns, AtCall

(* The calls still to come are in order. *)
LEMMA CallsStep ==
    ASSUME TypeOK, CallsInv, [Next]_vars
    PROVE  CallsInv'
<1>1. CASE UNCHANGED <<calls, dead, started, registered, trapped>>
  BY <1>1 DEF CallsInv, BaseComing
<1>2. CASE GuestStep
  <2>1. UNCHANGED <<calls, dead, started, registered>> BY <1>2, GuestCases DEF setup
  <2>2. ASSUME NEW j \in DOMAIN calls, calls[j].name = "driverOk" PROVE trapped' = {}
    <3>1. AtCall("driverOk") /\ trapped = {}
      BY <2>2, NextCall DEF CallsInv, AtCall
    <3> QED BY <1>2, <3>1, GuestCases DEF Rung, Trapping, doorbells
  <2> QED BY <2>1, <2>2 DEF CallsInv, BaseComing
<1>3. CASE \E q \in Queues : QueueNotify(q)
  <2>1. UNCHANGED <<calls, dead, started, registered>> /\ trapped' \subseteq trapped
    BY <1>3 DEF QueueNotify, setup
  <2> QED BY <2>1 DEF CallsInv, BaseComing
<1>4. CASE CallFails
  <2>1. UNCHANGED <<calls, started, registered, trapped>>
        /\ calls # <<>> /\ Head(calls).name # "driverOk"
    BY <1>4 DEF CallFails, AtCall, doorbells
  <2>2. \A j \in DOMAIN calls : calls[j].name # "driverOk"
    BY <2>1, NextCall DEF CallsInv
  <2> QED BY <2>1, <2>2 DEF CallsInv, BaseComing
<1>5. CASE \/ SetDriverOk \/ RegisterIoeventfd \/ SetVringBase \/ StartRings
           \/ ActivateReturns
  <2> DEFINE n == Len(calls)
  <2>1. /\ n \in Nat \ {0} /\ DOMAIN calls = 1 .. n /\ DOMAIN calls' = 1 .. n - 1
        /\ Head(calls) = calls[1]
        /\ \A i \in 1 .. n - 1 : calls'[i] = calls[i + 1]
    BY <1>5, ActivateGoes, NextCall DEF Goes
  <2>2. /\ started' = started \/ (calls[1].name = "start" /\ started' = started \cup calls[1].on)
        /\ \/ registered' = registered /\ calls[1].name # "register"
           \/ calls[1].name = "register" /\ registered' = registered \cup calls[1].on
    BY <1>5, <2>1 DEF SetDriverOk, RegisterIoeventfd, SetVringBase, StartRings,
                      ActivateReturns, AtCall, CallOn
  <2> HIDE DEF n
  <2>3. ASSUME NEW j \in DOMAIN calls' PROVE calls'[j].name # "driverOk"
    <3>1. j + 1 \in DOMAIN calls /\ calls'[j] = calls[j + 1] /\ j + 1 # 1
      BY <2>1
    <3> QED BY <3>1 DEF CallsInv
  <2>4. ASSUME NEW j \in DOMAIN calls', calls'[j].name = "base"
        PROVE  /\ calls'[j].on \cap started' = {}
               /\ \A i \in 1 .. j - 1 :
                    calls'[i].name = "start" => calls'[i].on \cap calls'[j].on = {}
    <3>1. j + 1 \in DOMAIN calls /\ calls'[j] = calls[j + 1] /\ 1 \in 1 .. (j + 1) - 1
      BY <2>1, <2>4
    <3>2. /\ calls[j + 1].on \cap started = {}
          /\ \A i \in 1 .. (j + 1) - 1 :
                calls[i].name = "start" => calls[i].on \cap calls[j + 1].on = {}
      BY <2>4, <3>1 DEF CallsInv
    <3>3. \A i \in 1 .. j - 1 : calls'[i] = calls[i + 1] /\ i + 1 \in 1 .. (j + 1) - 1
      BY <2>1, <2>4
    <3> QED BY <2>2, <3>1, <3>2, <3>3
  <2>5. \/ "tx" \in registered'
        \/ \E i, j \in DOMAIN calls' :
             /\ i < j /\ BaseComing(j, "tx")'
             /\ calls'[i].name = "register" /\ calls'[i].on = {"tx"}
    <3>1. CASE "tx" \in registered BY <2>2, <3>1
    <3>2. CASE "tx" \notin registered
      <4>1. PICK i, j \in DOMAIN calls :
                /\ i < j /\ BaseComing(j, "tx")
                /\ calls[i].name = "register" /\ calls[i].on = {"tx"}
        BY <3>2 DEF CallsInv
      <4>2. CASE i = 1 BY <2>2, <4>1, <4>2
      <4>3. CASE i # 1
        <5>1. i - 1 \in DOMAIN calls' /\ j - 1 \in DOMAIN calls' /\ i - 1 < j - 1
          BY <2>1, <4>1, <4>3
        <5>2. calls'[i - 1] = calls[i] /\ calls'[j - 1] = calls[j]
          BY <2>1, <5>1
        <5>3. BaseComing(j - 1, "tx")' BY <4>1, <5>1, <5>2 DEF BaseComing
        <5> QED BY <4>1, <5>1, <5>2, <5>3
      <4> QED BY <4>2, <4>3
    <3> QED BY <3>1, <3>2
  <2> QED BY <2>4, <2>5, <2>3 DEF CallsInv
<1> QED BY NextCases, <1>1, <1>5, <1>2, <1>3, <1>4
        DEF doorbells, WakeData, WakeKick, DisableNotification,
            PopChain, AddUsed, NeedsNotification, WriteCall, EnableNotification,
            Recheck, vars, setup

(* The base of a ring is set before it starts, and not again. *)
LEMMA BaseFirst ==
    ASSUME TypeOK, CallsInv, NEW q \in Queues, AtCall("base"), q \in CallOn
    PROVE  q \notin started
BY NextCall DEF CallsInv, AtCall, CallOn

(* Every step keeps the types. *)
LEMMA TypeStep == ASSUME TypeOK, [Next]_vars PROVE TypeOK'
<1>1. QueuesTypeOK'
  <2>1. QueuesTypeOK BY DEF TypeOK
  <2>2. CASE UNCHANGED queueVars
    BY <2>1, <2>2 DEF QueuesTypeOK, queueVars, rings, events, intr
  <2>3. CASE SetVringBase
    <3>1. PICK q \in CallOn : next' = [next EXCEPT ![q] = avail[q]]
      BY <2>3 DEF SetVringBase
    <3>2. avail[q] \in Idx
      BY <2>1, <2>3, <3>1, NextCall, TypesOf DEF SetVringBase, AtCall
    <3>3. next' \in [Queues -> Idx] BY <2>1, <3>1, <3>2 DEF QueuesTypeOK
    <3> QED BY <2>1, <2>3, <3>3 DEF SetVringBase, QueuesTypeOK, events, intr
  <2>4. CASE ReadStatus
    BY <2>1, <2>4 DEF ReadStatus, QueuesTypeOK, rings, events
  <2>5. ASSUME NEW q \in Queues, PostEarly(q) PROVE QueuesTypeOK'
    <3>1. Inc(avail[q]) \in Idx BY <2>1, TypesOf, Closed
    <3> QED BY <2>1, <2>5, <3>1 DEF PostEarly, QueuesTypeOK, events, intr
  <2>6. ASSUME NEW q \in Queues, QueueNotify(q) PROVE QueuesTypeOK'
    BY <2>1, <2>6 DEF QueueNotify, QueuesTypeOK, rings, events, intr
  <2> QED BY <2>1, <2>2, <2>3, <2>4, <2>5, <2>6, QueueCases, GuestCases, GuestTypes,
             DeviceTypes DEF Trapping
<1> USE DEF TypeOK, setup, doorbells, thread
<1>2. CASE GuestStep \/ \E q \in Queues : QueueNotify(q)
  <2>1. UNCHANGED <<setup, thread>> BY <1>2 DEF GuestStep, QueueNotify
  <2>2. trapped' \subseteq Queues /\ ignored' \subseteq Queues
    BY <1>2 DEF GuestStep, Driver, RingDoorbell, QueueNotify
  <2> QED BY <1>1, <2>1, <2>2
<1>3. CASE \/ SetDriverOk \/ RegisterIoeventfd \/ SetVringBase \/ StartRings
           \/ ActivateReturns
  <2>1. calls' \in Seq(Calls) /\ CallOn \subseteq Queues
    BY <1>3, ActivateGoes, NextCall DEF Goes
  <2>2. UNCHANGED <<dead, doorbells, thread>>
    BY <1>3 DEF SetDriverOk, RegisterIoeventfd, SetVringBase, StartRings,
                ActivateReturns
  <2>3. base' \in [Queues -> Idx]
    BY <1>3 DEF SetDriverOk, RegisterIoeventfd, SetVringBase, StartRings,
                ActivateReturns, QueuesTypeOK
  <2>4. started' \subseteq Queues /\ registered' \subseteq Queues
    BY <1>3, <2>1 DEF SetDriverOk, RegisterIoeventfd, SetVringBase, StartRings,
                      ActivateReturns
  <2> QED BY <1>1, <2>1, <2>2, <2>3, <2>4
<1>4. CASE CallFails BY <1>1, <1>4 DEF CallFails
<1>5. CASE WakeData \/ \E q \in Queues : WakeKick(q)
  BY <1>1, <1>5 DEF WakeData, WakeKick, Queues
<1>6. CASE DisableNotification \/ PopChain \/ AddUsed
  BY <1>1, <1>6 DEF DisableNotification, PopChain, AddUsed
<1>7. CASE NeedsNotification \/ WriteCall \/ EnableNotification \/ Recheck
  BY <1>1, <1>7 DEF NeedsNotification, WriteCall, EnableNotification, Recheck
<1>8. CASE UNCHANGED vars BY <1>1, <1>8 DEF vars
<1> QED BY NextCases, <1>2, <1>3, <1>4, <1>5, <1>6, <1>7, <1>8

(* A ring is worked on only after it is started, from its base on. *)
LEMMA OrderStep ==
    ASSUME TypeOK, CallsInv, HandInv, OnlyEarlyBuffersLost, [Next]_vars
    PROVE  HandInv' /\ OnlyEarlyBuffersLost'
<1> USE DEF setup, thread
<1>1. QueuesTypeOK /\ onq \in Queues /\ started \subseteq Queues
      /\ \A q \in Queues : base[q] \in Idx
  BY DEF TypeOK
<1> DEFINE InHand(q) == IF pc = "add" /\ onq = q THEN 1 ELSE 0
           Position == \A q \in Queues : Dist(next[q], used[q]) = (base[q] + InHand(q)) % IdxMod
           Idle == \A q \in Queues \ started : used[q] = 0 /\ seen[q] = 0
           Order == \A q \in Queues : IndicesInOrder(q)
<1>2. Position /\ Order /\ Idle
  BY DEF HandInv, OnlyEarlyBuffersLost
<1>3. (\A q \in Queues : used[q] # 0 => q \in started) <=>
      \A q \in Queues \ started : used[q] = 0
  OBVIOUS
<1>4. CASE GuestStep
  <2>1. CASE Guest
    <3>1. Order' /\ UNCHANGED <<next, used>> BY <1>1, <1>2, <2>1, GuestOrder
    <3>2. Idle'
      <4>1. CASE Reap
        BY <1>1, <1>2, <1>4, <4>1, GuestCases DEF Reap, Unseen, QueuesTypeOK
      <4>2. CASE UNCHANGED seen
        BY <1>1, <1>2, <1>4, <3>1, <4>2, GuestCases
      <4> QED
        BY <2>1, <4>1, <4>2 DEF Guest, InterruptHandler, TakeInterrupt,
           ReadInterruptStatus, AckInterrupt, ArmUsedEvent, LookAgain, Post,
           KickPrepare, Kick, rings
    <3>3. UNCHANGED <<next, noNotify, availEvent>>
      BY <2>1, <3>1 DEF Guest, InterruptHandler, TakeInterrupt,
         ReadInterruptStatus, AckInterrupt, Reap, ArmUsedEvent, LookAgain, Post,
         KickPrepare, Kick, events
    <3> QED BY <1>1, <1>2, <1>4, <3>1, <3>2, <3>3, GuestCases
            DEF HandInv, OnlyEarlyBuffersLost, Enabled
  <2>2. CASE ReadStatus
    BY <1>1, <1>2, <1>4, <2>2, GuestCases
    DEF ReadStatus, HandInv, OnlyEarlyBuffersLost, IndicesInOrder, Enabled,
        rings, events
  <2>3. ASSUME NEW p \in Queues, PostEarly(p)
        PROVE  HandInv' /\ OnlyEarlyBuffersLost'
    <3>1. Order' BY <1>1, <1>2, <2>3, PostOrder DEF PostEarly
    <3>2. UNCHANGED <<next, used, seen, noNotify, availEvent>>
      BY <2>3 DEF PostEarly, events
    <3> QED BY <1>1, <1>2, <1>4, <3>1, <3>2, GuestCases
            DEF HandInv, OnlyEarlyBuffersLost, Enabled
  <2>4. ASSUME NEW p \in Queues, Trapping(p)
        PROVE  HandInv' /\ OnlyEarlyBuffersLost'
    BY <1>2, <1>4, <2>4, GuestCases
    DEF Trapping, queueVars, rings, events, HandInv, OnlyEarlyBuffersLost,
        IndicesInOrder, Enabled
  <2> QED BY <1>4, <2>1, <2>2, <2>3, <2>4, GuestCases
<1>5. ASSUME NEW p \in Queues, QueueNotify(p)
       PROVE  HandInv' /\ OnlyEarlyBuffersLost'
  BY <1>2, <1>5
  DEF QueueNotify, rings, events, HandInv, OnlyEarlyBuffersLost, IndicesInOrder,
      Enabled
<1>6. CASE SetVringBase
  <2>1. PICK q \in CallOn :
           /\ base' = [base EXCEPT ![q] = avail[q]]
           /\ next' = [next EXCEPT ![q] = avail[q]]
    BY <1>6 DEF SetVringBase
  <2>2. q \in Queues /\ q \notin started
    BY <1>6, <2>1, NextCall, BaseFirst DEF SetVringBase, AtCall
  <2>3. UNCHANGED <<avail, used, seen, noNotify, availEvent, pc, onq, started>>
    BY <1>6 DEF SetVringBase, events
  <2>4. next'[q] = avail[q] /\ base'[q] = avail[q] /\ avail[q] \in Idx
        /\ used[q] = 0 /\ seen[q] = 0
    BY <1>1, <1>2, <2>1, <2>2, TypesOf DEF TypeOK, QueuesTypeOK
  <2>5. \A p \in Queues \ {q} : next'[p] = next[p] /\ base'[p] = base[p]
    BY <1>1, <2>1 DEF TypeOK, QueuesTypeOK
  <2>6. Dist(avail[q], 0) = avail[q] /\ avail[q] % IdxMod = avail[q] /\ Dist(0, 0) = 0
    <3>1. 0 \in Idx /\ IdxMod \in Nat /\ IdxMod > 0 BY RingAssumption DEF Idx
    <3>2. avail[q] \in Int /\ 0 <= avail[q] /\ avail[q] < IdxMod
      BY <2>4, <3>1 DEF Idx
    <3>3. avail[q] % IdxMod = avail[q] BY <3>1, <3>2, Mod
    <3> QED BY <2>4, <3>1, <3>2, <3>3, DistIs
  <2>7. onq = q => pc = "wait" BY <2>2 DEF HandInv
  <2>8. Position' BY <1>2, <2>3, <2>4, <2>5, <2>6, <2>7, RingAssumption DEF Idx
  <2>9. Order'
    BY <1>2, <2>3, <2>4, <2>5, <2>6 DEF IndicesInOrder, Idx
  <2>10. pc # "wait" => onq # q BY <2>7
  <2> QED BY <1>1, <1>2, <2>3, <2>5, <2>8, <2>9, <2>10
          DEF HandInv, OnlyEarlyBuffersLost, Enabled
<1>7. CASE \/ SetDriverOk \/ RegisterIoeventfd \/ StartRings \/ ActivateReturns
           \/ CallFails
  <2>1. UNCHANGED <<queueVars, base, pc, onq>> /\ started \subseteq started'
    BY <1>7 DEF SetDriverOk, RegisterIoeventfd, StartRings, ActivateReturns, CallFails
  <2> QED BY <1>1, <1>2, <2>1
          DEF HandInv, OnlyEarlyBuffersLost, Enabled, IndicesInOrder, queueVars,
              rings, events
<1>8. CASE PopChain /\ pc' = "add"
  <2>1. Pop(onq) /\ pc = "pop" /\ UNCHANGED <<setup, onq>>
        /\ UNCHANGED <<seen, noNotify, availEvent>>
    BY <1>8 DEF PopChain, Pop, events
  <2>2. Order' BY <1>1, <1>2, <2>1, PopOrder
  <2>3. /\ Dist(next[onq], used[onq])' = Dist(next[onq], used[onq]) + 1
        /\ \A p \in Queues \ {onq} : next'[p] = next[p]
        /\ used' = used /\ used'[onq] # next'[onq]
    BY <1>1, <1>2, <2>1, PopHand
  <2>4. Dist(next[onq], used[onq]) + 1 < IdxMod BY <1>1, <1>2, <2>1, PopOrder
  <2>5. Dist(next[onq], used[onq]) = base[onq] % IdxMod
    BY <1>1, <1>2, <2>1 DEF Idx
  <2>6. (base[onq] + 1) % IdxMod = Dist(next[onq], used[onq]) + 1
    BY <1>1, <2>4, <2>5, RingAssumption, Mod DEF Idx
  <2>7. Position' BY <1>1, <1>2, <1>8, <2>1, <2>3, <2>6
  <2> QED BY <1>1, <1>2, <1>8, <2>1, <2>2, <2>3, <2>7
          DEF HandInv, OnlyEarlyBuffersLost
<1>9. CASE AddUsed
  <2>1. Use(onq) /\ pc = "add" /\ pc' = "needs" /\ UNCHANGED <<setup, onq>>
        /\ UNCHANGED <<seen, noNotify, availEvent>>
    BY <1>9 DEF AddUsed, Use
  <2>2. used[onq] # next[onq] /\ onq \in started BY <2>1 DEF HandInv
  <2>3. Order' BY <1>1, <1>2, <2>1, <2>2, UseOrder
  <2>4. /\ Dist(next[onq], used[onq])' = Dist(next[onq], used[onq]) - 1
        /\ \A p \in Queues \ {onq} : used'[p] = used[p]
        /\ next' = next
    BY <1>1, <2>1, <2>2, UseHand
  <2>5. Dist(next[onq], used[onq]) = (base[onq] + 1) % IdxMod
        /\ Dist(next[onq], used[onq]) # 0
    BY <1>1, <1>2, <2>1, <2>2, TypesOf, Steps
  <2>6. base[onq] % IdxMod = Dist(next[onq], used[onq]) - 1
    BY <1>1, <2>5, RingAssumption, Mod DEF Idx
  <2>7. Position' BY <1>1, <1>2, <2>1, <2>4, <2>6 DEF Idx
  <2> QED BY <1>1, <1>2, <2>1, <2>2, <2>3, <2>4, <2>7
          DEF HandInv, OnlyEarlyBuffersLost
<1>10. CASE /\ UNCHANGED <<rings, setup>> /\ pc # "add" /\ pc' # "add"
            /\ pc' # "wait" => onq' \in started
            /\ pc' = "recheck" => Enabled(onq)'
  BY <1>1, <1>2, <1>10
  DEF HandInv, OnlyEarlyBuffersLost, rings, IndicesInOrder
<1>11. CASE WakeData \/ \E q \in Queues : WakeKick(q)
  BY <1>10, <1>11 DEF WakeData, WakeKick, TakeKick, queueVars
<1>12. CASE DisableNotification \/ (PopChain /\ pc' # "add")
  BY <1>10, <1>12 DEF DisableNotification, Disable, PopChain, queueVars, HandInv
<1>13. CASE NeedsNotification \/ WriteCall
  BY <1>10, <1>13 DEF NeedsNotification, ForgetAdded, WriteCall, RaiseIrq, HandInv
<1>14. CASE EnableNotification
  BY <1>1, <1>10, <1>14 DEF EnableNotification, Enable, Enabled, HandInv, rings,
                            QueuesTypeOK
<1>15. CASE Recheck BY <1>10, <1>15 DEF Recheck, queueVars, HandInv
<1>16. CASE UNCHANGED vars
  BY <1>2, <1>16 DEF vars, queueVars, rings, events, HandInv,
     OnlyEarlyBuffersLost, IndicesInOrder, Enabled
<1> QED BY NextCases, <1>4, <1>6, <1>7, <1>8, <1>9, <1>11, <1>12, <1>13, <1>14,
           <1>15, <1>16, <1>5

(* What may change of the transmit queue while its doorbell is trapped.      *)
LEMMA TrapStep ==
    ASSUME TypeOK, CallsInv, HandInv, TrapInv, [Next]_vars
    PROVE  TrapInv'
<1> USE DEF TrapInv, BaseComing, setup, doorbells, thread
<1>1. QueuesTypeOK /\ onq \in Queues /\ "tx" \in Queues
  BY DEF TypeOK, Queues
<1>2. ASSUME UNCHANGED <<calls, trapped, gpc>>, HasChain("tx")' => HasChain("tx"),
             ~EventIdx /\ noNotify'["tx"] => onq' = "tx" /\ pc' # "wait"
      PROVE  TrapInv'
  BY <1>2
<1>3. CASE GuestStep
  <2>1. UNCHANGED <<setup, thread, noNotify, next>>
    BY <1>3, GuestCases DEF Guest, InterruptHandler, TakeInterrupt,
       ReadInterruptStatus, AckInterrupt, Reap, ArmUsedEvent, LookAgain, Post,
       KickPrepare, Kick, ReadStatus, PostEarly, Trapping, queueVars, events, rings
  <2>2. ASSUME NEW q \in Queues, Trapping(q) PROVE TrapInv'
    <3>1. q = "tx" => \E i \in DOMAIN calls : BaseComing(i, "tx")
      BY <2>2 DEF Trapping, CallsInv
    <3>2. UNCHANGED <<gpc, avail>> BY <2>2 DEF Trapping, queueVars, rings
    <3> QED BY <2>1, <2>2, <3>1, <3>2 DEF Trapping, HasChain
  <2>3. CASE ReadStatus /\ UNCHANGED doorbells
    BY <1>2, <2>1, <2>3 DEF ReadStatus, rings, HasChain
  <2>4. ASSUME NEW q \in Queues, PostEarly(q), UNCHANGED doorbells
        PROVE  TrapInv'
    <3>1. trapped = {} BY <2>4, NextCall DEF PostEarly, CallsInv, AtCall
    <3> QED BY <2>1, <2>4, <3>1
  <2>5. ASSUME NEW q \in Queues, Rung(q) PROVE TrapInv'
    BY <1>1, <2>1, <2>5 DEF Rung, Kick, rings, HasChain, QueuesTypeOK
  <2>6. CASE Adds /\ UNCHANGED doorbells
    <3>1. SUFFICES ASSUME "tx" \in trapped
                   PROVE  gpc'["tx"] = "kick" /\ avail'["tx"] = avail["tx"]
      BY <2>1, <2>6, <3>1 DEF HasChain
    <3>2. gpc["tx"] = "kick" BY <3>1
    <3>3. CASE InterruptHandler
      BY <3>2, <3>3 DEF InterruptHandler, TakeInterrupt, ReadInterruptStatus,
         AckInterrupt, Reap, ArmUsedEvent, LookAgain, rings
    <3>4. ASSUME NEW q \in Queues, Post(q) \/ KickPrepare(q)
          PROVE  gpc'["tx"] = "kick" /\ avail'["tx"] = avail["tx"]
      BY <1>1, <3>2, <3>4 DEF Post, KickPrepare, rings, QueuesTypeOK
    <3> QED BY <2>6, <3>3, <3>4 DEF Adds
  <2> QED BY <1>3, <2>2, <2>3, <2>4, <2>5, <2>6, GuestCases
<1>4. ASSUME NEW q \in Queues, QueueNotify(q) PROVE TrapInv'
  BY <1>1, <1>4 DEF QueueNotify, rings, events, HasChain, QueuesTypeOK
<1>5. CASE \/ SetDriverOk \/ RegisterIoeventfd \/ SetVringBase \/ StartRings
           \/ ActivateReturns
  <2>1. UNCHANGED <<trapped, gpc, avail, noNotify, onq, pc>>
    BY <1>5 DEF SetDriverOk, RegisterIoeventfd, SetVringBase, StartRings,
                ActivateReturns, queueVars, rings, events
  <2>2. /\ Len(calls) \in Nat /\ DOMAIN calls = 1 .. Len(calls)
        /\ DOMAIN calls' = 1 .. Len(calls) - 1 /\ Head(calls) = calls[1]
        /\ \A i \in 1 .. Len(calls) - 1 : calls'[i] = calls[i + 1]
    BY <1>5, ActivateGoes, NextCall DEF Goes
  <2>3. HasChain("tx")' => HasChain("tx") \/ SetVringBase
    BY <1>5, <2>1 DEF SetDriverOk, RegisterIoeventfd, StartRings, ActivateReturns,
                      queueVars, rings, HasChain
  <2>4. ASSUME NEW i \in DOMAIN calls, BaseComing(i, "tx")
        PROVE  ~HasChain("tx")' \/ \E j \in DOMAIN calls' : BaseComing(j, "tx")'
    <3>1. CASE i = 1
      <4>1. SetVringBase /\ CallOn = {"tx"}
        BY <1>5, <2>2, <2>4, <3>1 DEF SetDriverOk, RegisterIoeventfd, StartRings,
           ActivateReturns, AtCall, CallOn
      <4>2. next' = [next EXCEPT !["tx"] = avail["tx"]] BY <4>1 DEF SetVringBase
      <4> QED BY <1>1, <2>1, <4>2 DEF HasChain, QueuesTypeOK
    <3>2. CASE i # 1
      <4>1. i - 1 \in DOMAIN calls' /\ calls'[i - 1] = calls[i]
        BY <2>2, <2>4, <3>2
      <4> QED BY <2>4, <4>1
    <3> QED BY <3>1, <3>2
  <2>5. SetVringBase /\ ~HasChain("tx") => ~HasChain("tx")'
    BY <1>1, <2>1 DEF SetVringBase, HasChain, QueuesTypeOK
  <2> QED BY <2>1, <2>3, <2>4, <2>5
<1>6. CASE CallFails \/ WakeData \/ \E q \in Queues : WakeKick(q)
  BY <1>2, <1>6 DEF CallFails, WakeData, WakeKick, TakeKick, queueVars, rings,
                    events, HasChain
<1>7. CASE DisableNotification \/ EnableNotification
  BY <1>1, <1>2, <1>7 DEF DisableNotification, Disable, EnableNotification, Enable,
                          rings, HasChain, QueuesTypeOK
<1>8. CASE PopChain
  <2>1. UNCHANGED <<calls, trapped, gpc, noNotify, onq>>
        /\ (HasChain("tx")' => HasChain("tx"))
    BY <1>1, <1>8 DEF PopChain, Pop, queueVars, rings, events, HasChain, QueuesTypeOK
  <2>2. onq = "tx" => pc' # "wait" BY <1>8 DEF PopChain
  <2> QED BY <1>2, <1>8, <2>1, <2>2 DEF PopChain
<1>9. CASE AddUsed \/ NeedsNotification \/ WriteCall
  BY <1>2, <1>9 DEF AddUsed, Use, NeedsNotification, ForgetAdded, WriteCall,
                    RaiseIrq, rings, events, HasChain
<1>10. CASE Recheck
  BY <1>2, <1>10 DEF Recheck, HandInv, Enabled, queueVars, rings, events, HasChain
<1>11. CASE UNCHANGED vars
  BY <1>2, <1>11 DEF vars, queueVars, rings, events, HasChain
<1> QED BY NextCases, <1>3, <1>4, <1>5, <1>6, <1>7, <1>8, <1>9, <1>10, <1>11

(* The hand-over loses no kick. What was posted before set_vring_base is     *)
(* passed over, and what is posted after it finds its doorbell registered or *)
(* has it still to ring.                                                     *)
LEMMA TxStep ==
    ASSUME TypeOK, CallsInv, HandInv, TrapInv, TxInv, [Next]_vars
    PROVE  TxInv'
<1> USE DEF TxInv, setup, doorbells, thread
<1>1. QueuesTypeOK /\ onq \in Queues /\ "tx" \in Queues
  BY DEF TypeOK, Queues
<1>2. ignored \subseteq ignored' /\ UNCHANGED <<pc, onq>>
      /\ (Waking("tx") => Waking("tx")')
      => TxInv'
  BY DEF KickIgnored
<1>3. CASE GuestStep
  <2>1. UNCHANGED <<pc, onq>> BY <1>3, GuestCases
  <2>2. CASE Guest /\ Adds /\ UNCHANGED doorbells
    BY <1>1, <1>2, <2>1, <2>2, GuestWaking
  <2>3. ASSUME NEW q \in Queues, Guest, Rung(q) PROVE TxInv'
    <3>1. CASE q = "tx"
      BY <1>1, <2>3, <3>1 DEF Rung, Kick, QueuesTypeOK, Waking, KickComing
    <3>2. CASE q # "tx"
      <4>1. KickIgnored("tx") => KickIgnored("tx")'
        BY <2>3, <3>2 DEF Rung, KickIgnored
      <4> QED BY <1>1, <2>1, <2>3, <4>1, GuestWaking
    <3> QED BY <3>1, <3>2
  <2>4. CASE ReadStatus /\ UNCHANGED doorbells
    <3>1. Waking("tx") => Waking("tx")'
      BY <2>4 DEF ReadStatus, rings, events, Waking, KickComing, KickWanted,
         HasChain, NextWillKick
    <3> QED BY <1>2, <2>1, <2>4, <3>1
  <2>5. ASSUME NEW q \in Queues, PostEarly(q), UNCHANGED doorbells PROVE TxInv'
    <3>1. gpc[q] = "kick" /\ UNCHANGED <<gpc, kick, next, noNotify, availEvent>>
          /\ avail' = [avail EXCEPT ![q] = Inc(@)]
      BY <2>5 DEF PostEarly, events
    <3>2. Waking("tx") => Waking("tx")'
      BY <1>1, <3>1 DEF QueuesTypeOK, Waking, KickComing, KickWanted, HasChain,
                        NextWillKick
    <3> QED BY <1>2, <2>1, <2>5, <3>2
  <2>6. ASSUME NEW q \in Queues, Trapping(q) PROVE TxInv'
    <3>1. Waking("tx") => Waking("tx")'
      BY <1>1, <2>6, OtherWaking DEF Trapping
    <3> QED BY <1>2, <2>1, <2>6, <3>1 DEF Trapping
  <2> QED BY <1>3, <2>2, <2>3, <2>4, <2>5, <2>6, GuestCases
<1>4. ASSUME NEW q \in Queues, QueueNotify(q) PROVE TxInv'
  <2>1. /\ gpc' = [gpc EXCEPT ![q] = "idle"]
        /\ UNCHANGED <<avail, next, noNotify, availEvent, kick, pc, onq>>
        /\ ignored' = ignored \cup {q} /\ q \in trapped /\ IoFree
    BY <1>4 DEF QueueNotify, rings, events
  <2>2. CASE q # "tx"
    <3>1. Waking("tx") => Waking("tx")'
      BY <1>1, <2>1, <2>2 DEF QueuesTypeOK, Waking, KickComing, KickWanted,
                              HasChain, NextWillKick
    <3> QED BY <1>2, <2>1, <3>1
  <2>3. CASE q = "tx" /\ EventIdx
    BY <2>1, <2>3 DEF KickIgnored
  <2>4. CASE q = "tx" /\ ~EventIdx
    <3>1. calls = <<>>
      BY <2>1, NextCall DEF IoFree, AtCall, CallsInv
    <3>2. ~HasChain("tx") BY <2>1, <2>4, <3>1 DEF TrapInv, BaseComing
    <3>3. CASE noNotify["tx"] BY <2>1, <2>4, <3>3 DEF TrapInv
    <3>4. CASE ~noNotify["tx"]
      BY <2>1, <2>4, <3>2, <3>4 DEF Waking, NextWillKick, HasChain
    <3> QED BY <3>3, <3>4
  <2> QED BY <2>2, <2>3, <2>4
<1>5. CASE SetVringBase
  <2>1. PICK q \in Queues : next' = [next EXCEPT ![q] = avail[q]]
    BY <1>5, NextCall DEF SetVringBase, AtCall
  <2>2. UNCHANGED <<avail, gpc, kick, noNotify, availEvent, pc, onq, ignored>>
    BY <1>5 DEF SetVringBase, events
  <2>3. Waking("tx") => Waking("tx")'
    BY <1>1, <2>1, <2>2 DEF QueuesTypeOK, Waking, KickComing, KickWanted, HasChain,
                            NextWillKick
  <2> QED BY <1>2, <2>2, <2>3
<1>6. CASE \/ SetDriverOk \/ RegisterIoeventfd \/ StartRings \/ ActivateReturns
           \/ CallFails \/ UNCHANGED vars
  <2>1. UNCHANGED <<queueVars, pc, onq, ignored>>
    BY <1>6 DEF SetDriverOk, RegisterIoeventfd, StartRings, ActivateReturns,
                CallFails, vars
  <2>2. Waking("tx") => Waking("tx")' BY <1>1, <2>1, OtherWaking
  <2> QED BY <1>2, <2>1, <2>2
<1> USE DEF KickIgnored
<1>7. CASE WakeData
  <2>1. Waking("tx") => Waking("tx")' BY <1>1, <1>7, OtherWaking DEF WakeData
  <2> QED BY <1>7, <2>1 DEF WakeData
<1>8. ASSUME NEW q \in Queues, WakeKick(q) PROVE TxInv'
  <2>1. q # "tx" /\ Waking("tx") => Waking("tx")'
    BY <1>1, <1>8, OtherWaking DEF WakeKick, DeviceStep
  <2> QED BY <1>8, <2>1 DEF WakeKick
<1>9. CASE DisableNotification \/ EnableNotification
  <2>1. onq # "tx" /\ Waking("tx") => Waking("tx")'
    BY <1>1, <1>9, OtherWaking DEF DisableNotification, EnableNotification, DeviceStep
  <2> QED BY <1>9, <2>1 DEF DisableNotification, EnableNotification
<1>10. CASE PopChain
  <2>1. onq # "tx" /\ Waking("tx") => Waking("tx")'
    BY <1>1, <1>10, OtherWaking DEF PopChain, DeviceStep
  <2> QED BY <1>10, <2>1 DEF PopChain
<1>11. CASE AddUsed \/ NeedsNotification \/ WriteCall
  <2>1. Waking("tx") => Waking("tx")'
    BY <1>1, <1>11, OtherWaking DEF AddUsed, NeedsNotification, WriteCall
  <2> QED BY <1>11, <2>1 DEF AddUsed, NeedsNotification, WriteCall
<1>12. CASE Recheck
  <2>1. Waking("tx") => Waking("tx")' BY <1>1, <1>12, OtherWaking DEF Recheck
  <2>2. onq = "tx" /\ ~HasChain("tx") => Waking("tx")
    BY <1>1, <1>12, EnabledWaking DEF Recheck, HandInv
  <2> QED BY <1>12, <2>1, <2>2 DEF Recheck
<1> QED BY NextCases, <1>3, <1>4, <1>5, <1>6, <1>7, <1>8, <1>9, <1>10, <1>11, <1>12

(* Between two calls of needs_notification at most one chain is used. *)
LEMMA BatchStep == ASSUME TypeOK, BatchInv, [Next]_vars PROVE BatchInv'
<1>1. QueuesTypeOK /\ onq \in Queues BY DEF TypeOK
<1> USE DEF BatchInv, InBatch, setup, thread
<1>2. CASE GuestStep
  <2>1. added' = added
    BY <1>2, GuestCases DEF Guest, InterruptHandler, TakeInterrupt,
       ReadInterruptStatus, AckInterrupt, Reap, ArmUsedEvent, LookAgain, Post,
       KickPrepare, Kick, ReadStatus, PostEarly, Trapping, queueVars, events
  <2> QED BY <1>2, <2>1, GuestCases
<1>3. CASE \/ SetDriverOk \/ RegisterIoeventfd \/ SetVringBase \/ StartRings
           \/ ActivateReturns \/ CallFails \/ (\E q \in Queues : QueueNotify(q))
           \/ UNCHANGED vars
  BY <1>3 DEF SetDriverOk, RegisterIoeventfd, SetVringBase, StartRings,
              ActivateReturns, CallFails, QueueNotify, vars, queueVars, events
<1>4. CASE WakeData \/ (\E q \in Queues : WakeKick(q)) \/ DisableNotification
  BY <1>4 DEF WakeData, WakeKick, TakeKick, DisableNotification, Disable,
              queueVars, events
<1>5. CASE PopChain \/ WriteCall \/ EnableNotification \/ Recheck
  BY <1>5 DEF PopChain, Pop, WriteCall, RaiseIrq, EnableNotification, Enable,
              Recheck, queueVars, events
<1>6. CASE AddUsed
  <2>1. \A q \in Queues \ {onq} : added'[q] = added[q]
    BY <1>1, <1>6 DEF AddUsed, Use, QueuesTypeOK
  <2> QED BY <1>1, <1>6, <2>1 DEF AddUsed
<1>7. CASE NeedsNotification
  BY <1>1, <1>7 DEF NeedsNotification, ForgetAdded, QueuesTypeOK
<1> QED BY NextCases, <1>2, <1>3, <1>4, <1>5, <1>6, <1>7

(* The interrupt handler returns only when it has seen all, whatever the     *)
(* status was before it read it.                                             *)
LEMMA GuestReached ==
    ASSUME TypeOK, NEW q \in Queues, NEW n \in Nat, Reached(q, n), GuestStep
    PROVE  Reached(q, n)'
<1> USE DEF Reached, rings, events, intr
<1>1. QueuesTypeOK BY DEF TypeOK
<1>2. CASE TakeInterrupt BY <1>2 DEF TakeInterrupt
<1>3. CASE ReadStatus BY <1>3 DEF ReadStatus
<1>4. CASE AckInterrupt BY <1>4 DEF AckInterrupt
<1>5. CASE Reap \/ LookAgain
  <2>1. CASE ipc' = "idle"
    <3>1. UNCHANGED <<used, seen>> /\ used[q] = seen[q]
      BY <1>5, <2>1 DEF Reap, LookAgain, Unseen
    <3>2. Dist(used[q], seen[q]) = 0 BY <1>1, <3>1, TypesOf, Steps
    <3> QED BY <3>1, <3>2
  <2> QED BY <2>1
<1>6. CASE ArmUsedEvent BY <1>6 DEF ArmUsedEvent
<1>7. CASE \E p \in Queues : Post(p) \/ PostEarly(p) \/ Driver(p)
  BY <1>7 DEF Post, PostEarly, Driver, KickPrepare, RingDoorbell, Kick, queueVars
<1> QED BY <1>2, <1>3, <1>4, <1>5, <1>6, <1>7 DEF GuestStep, Handler

(* Whatever the batch does not hold, the driver is told of. *)
LEMMA SignalStep ==
    ASSUME TypeOK, HandInv, BatchInv, SignalInv, [Next]_vars
    PROVE  SignalInv'
<1>1. QueuesTypeOK /\ onq \in Queues BY DEF TypeOK
<1>2. Armed'
  <2>1. CASE GuestStep
    <3>1. CASE ReadStatus \/ \E q \in Queues : PostEarly(q)
      BY <3>1 DEF ReadStatus, PostEarly, rings, events, intr, SignalInv, Armed
    <3>2. CASE \E q \in Queues : Trapping(q)
      BY <3>2 DEF Trapping, queueVars, rings, events, intr, SignalInv, Armed
    <3> QED BY <2>1, <3>1, <3>2, GuestCases, GuestArmed DEF SignalInv
  <2>2. CASE SetVringBase \/ \E q \in Queues : QueueNotify(q)
    BY <2>2 DEF SetVringBase, QueueNotify, rings, events, intr, SignalInv, Armed
  <2> QED BY <1>1, <2>1, <2>2, QueueCases, OtherArmed DEF SignalInv
<1>3. SUFFICES ASSUME NEW q \in Queues PROVE Signalled(q)'
  BY <1>2 DEF SignalInv
<1>4. Signalled(q) BY DEF SignalInv
<1>5. PICK n \in Nat : n = added[q] BY <1>1, TypesOf DEF Idx
<1> DEFINE Before == /\ Reached(q, n) => Reached(q, n)'
                     /\ Reached(q, 0) => Reached(q, 0)'
<1> USE DEF InBatch, Signalled, setup, thread
<1>6. UNCHANGED <<used, seen, ipc>> /\ (irq => irq') => Before BY DEF Reached
<1>7. CASE GuestStep
  <2>1. added' = added
    BY <1>7, GuestCases DEF Guest, InterruptHandler, TakeInterrupt,
       ReadInterruptStatus, AckInterrupt, Reap, ArmUsedEvent, LookAgain, Post,
       KickPrepare, Kick, ReadStatus, PostEarly, Trapping, queueVars, events
  <2>2. Before BY <1>7, GuestReached
  <2> QED BY <1>4, <1>5, <1>7, <2>1, <2>2, GuestCases
<1>8. CASE \/ SetDriverOk \/ RegisterIoeventfd \/ SetVringBase \/ StartRings
           \/ ActivateReturns \/ CallFails \/ (\E p \in Queues : QueueNotify(p))
           \/ UNCHANGED vars
  <2>1. UNCHANGED <<used, seen, irq, ipc, added, pc, onq>>
    BY <1>8 DEF SetDriverOk, RegisterIoeventfd, SetVringBase, StartRings,
       ActivateReturns, CallFails, QueueNotify, vars, queueVars, rings, events, intr
  <2> QED BY <1>4, <1>5, <1>6, <2>1
<1>9. CASE WakeData \/ (\E p \in Queues : WakeKick(p)) \/ DisableNotification
  <2>1. UNCHANGED <<used, seen, irq, ipc, added>>
    BY <1>9 DEF WakeData, WakeKick, TakeKick, DisableNotification, Disable,
       queueVars, rings, events, intr
  <2> QED BY <1>4, <1>5, <1>6, <1>9, <2>1 DEF WakeData, WakeKick, DisableNotification
<1>10. CASE PopChain \/ EnableNotification \/ Recheck
  <2>1. UNCHANGED <<used, seen, irq, ipc, added>>
    BY <1>10 DEF PopChain, Pop, EnableNotification, Enable, Recheck, queueVars,
       rings, events, intr
  <2> QED BY <1>4, <1>5, <1>6, <1>10, <2>1 DEF PopChain, EnableNotification, Recheck
<1>11. CASE AddUsed
  <2>1. Use(onq) /\ pc = "add" /\ pc' = "needs" /\ onq' = onq
    BY <1>11 DEF AddUsed
  <2>2. CASE q # onq
    <3>1. used'[q] = used[q] /\ added'[q] = added[q] /\ UNCHANGED <<seen, irq, ipc>>
      BY <1>1, <2>1, <2>2 DEF Use, QueuesTypeOK, intr
    <3>2. Reached(q, 0) => Reached(q, 0)' BY <3>1 DEF Reached
    <3> QED BY <1>4, <2>1, <2>2, <3>2
  <2>3. CASE q = onq
    <3>1. SUFFICES ASSUME EventIdx PROVE Reached(q, added[q])' BY <2>1, <2>3
    <3>2. added[q] = 0 /\ Reached(q, 0)
      BY <1>4, <2>1, <2>3, <3>1 DEF BatchInv
    <3>3. used[q] # next[q] BY <2>1, <2>3 DEF HandInv
    <3>4. added'[q] = Inc(0)
      BY <1>1, <2>1, <2>3, <3>1, <3>2 DEF Use, QueuesTypeOK
    <3>5. 0 \in Idx /\ used[q] \in Idx /\ next[q] \in Idx
      BY <1>1, TypesOf, RingAssumption DEF Idx
    <3>6. IdxMod # 1 BY <3>3, <3>5 DEF Idx
    <3>7. added'[q] = 1 BY <3>4, <3>5, <3>6, IncIs
    <3>8. /\ UNCHANGED <<irq, ipc>>
          /\ Dist(used[q], seen[q])' <= Dist(used[q], seen[q]) + 1
          /\ Dist(used[q], seen[q])' \in Nat /\ Dist(used[q], seen[q]) \in Nat
      BY <1>1, <2>1, <2>3, UseUnseen DEF intr
    <3> QED BY <3>2, <3>7, <3>8 DEF Reached
  <2> QED BY <2>2, <2>3
<1>12. CASE NeedsNotification
  <2>1. /\ pc = "needs" /\ onq' = onq /\ ForgetAdded(onq)
        /\ pc' = IF Wanted(onq) THEN "irq" ELSE "pop"
        /\ UNCHANGED <<used, seen, irq, ipc>>
    BY <1>12 DEF NeedsNotification, ForgetAdded, rings, intr
  <2>2. Before BY <1>6, <2>1
  <2>3. CASE q # onq
    <3>1. added'[q] = added[q] BY <1>1, <2>1, <2>3 DEF ForgetAdded, QueuesTypeOK
    <3> QED BY <1>4, <1>5, <2>1, <2>2, <2>3, <3>1
  <2>4. CASE q = onq /\ Wanted(q) BY <2>1, <2>4
  <2>5. CASE q = onq /\ ~Wanted(q)
    <3>1. EventIdx BY <2>5 DEF Wanted
    <3>2. Reached(q, added[q]) BY <1>4, <2>1, <2>5, <3>1
    <3>3. Reached(q, 0)
      <4>1. SUFFICES ASSUME ipc = "idle", Dist(used[q], seen[q]) <= added[q]
                     PROVE  Dist(used[q], seen[q]) = 0
        BY <3>2 DEF Reached
      <4>2. usedEvent[q] = seen[q] BY <3>1, <4>1 DEF SignalInv, Armed
      <4> QED BY <1>1, <2>5, <4>1, <4>2, UnseenWanted, TypesOf, Steps
    <3> QED BY <2>1, <2>2, <2>5, <3>3
  <2> QED BY <2>3, <2>4, <2>5
<1>13. CASE WriteCall
  <2>1. irq' /\ pc' = "pop" /\ UNCHANGED <<used, seen, ipc, added, onq>>
    BY <1>13 DEF WriteCall, RaiseIrq, rings, events
  <2> QED BY <2>1 DEF Reached
<1> QED BY NextCases, <1>7, <1>8, <1>9, <1>10, <1>11, <1>12, <1>13

-----------------------------------------------------------------------------
(* What the lists of calls say. *)
LEMMA ListsOfCalls ==
    ASSUME NEW c, c = NetVrings \/ c = VsockVrings
    PROVE  /\ c \in Seq(Calls)
           /\ \A j \in DOMAIN c : c[j].name = "driverOk" => j = 1
           /\ \A j \in DOMAIN c : c[j].name = "base" =>
                \A i \in 1 .. j - 1 :
                    c[i].name = "start" => c[i].on \cap c[j].on = {}
           /\ \E i, j \in DOMAIN c :
                /\ i < j /\ c[j].name = "base" /\ c[j].on = {"tx"}
                /\ c[i].name = "register" /\ c[i].on = {"tx"}
<1> USE DEF DriverOk, Register, Base, Start, Return, Queues
<1>1. CASE c = NetVrings
  <2>1. c \in Seq(Calls) BY <1>1 DEF NetVrings, Calls
  <2>2. DOMAIN c = 1 .. 8 BY <1>1 DEF NetVrings
  <2>3. /\ c[1] = DriverOk
        /\ c[2] = Register("rx") /\ c[3] = Register("tx")
        /\ c[4] = Base("rx") /\ c[5] = Start({"rx"})
        /\ c[6] = Base("tx") /\ c[7] = Start({"tx"}) /\ c[8] = Return
    BY <1>1 DEF NetVrings
  <2> QED BY <2>1, <2>2, <2>3
<1>2. CASE c = VsockVrings
  <2>1. c \in Seq(Calls) BY <1>2 DEF VsockVrings, Calls
  <2>2. DOMAIN c = 1 .. 7 BY <1>2 DEF VsockVrings
  <2>3. /\ c[1] = DriverOk
        /\ c[2] = Register("rx") /\ c[3] = Register("tx")
        /\ c[4] = Base("rx") /\ c[5] = Base("tx")
        /\ c[6] = Start({"rx", "tx"}) /\ c[7] = Return
    BY <1>2 DEF VsockVrings
  <2> QED BY <2>1, <2>2, <2>3
<1> QED BY <1>1, <1>2

LEMMA InitIInv == ASSUME Init PROVE IInv
<1> USE RingAssumption DEF Init, QueuesInit, Queues
<1>1. calls = NetVrings \/ calls = VsockVrings BY DEF Vrings
<1>2. TypeOK
  <2>1. 0 \in Idx BY DEF Idx
  <2>2. QueuesTypeOK BY <2>1 DEF QueuesTypeOK
  <2>3. calls \in Seq(Calls) BY <1>1, ListsOfCalls
  <2> QED BY <2>1, <2>2, <2>3 DEF TypeOK
<1>3. Dist(0, 0) = 0 /\ 0 % IdxMod = 0
      /\ \A q \in Queues : RingSize(q) \in Nat
  BY RingSizes, DistIs, Mod DEF Idx
<1>4. OnlyEarlyBuffersLost /\ \A q \in Queues : Reached(q, 0)
  BY <1>3 DEF OnlyEarlyBuffersLost, IndicesInOrder, Reached
<1>5. HandInv /\ TxInv
  BY DEF HandInv, TxInv, Waking, HasChain, NextWillKick
<1>6. CallsInv BY <1>1, ListsOfCalls DEF CallsInv, BaseComing
<1>7. TrapInv BY DEF TrapInv
<1>8. BatchInv BY DEF BatchInv
<1>9. SignalInv BY <1>4 DEF SignalInv, Armed, Signalled, InBatch
<1> QED BY <1>2, <1>4, <1>5, <1>8, <1>9, <1>6, <1>7 DEF IInv

LEMMA Invariance == Spec => []IInv
<1>1. IInv /\ [Next]_vars => IInv'
  BY TypeStep, CallsStep, OrderStep, TrapStep, TxStep, BatchStep, SignalStep DEF IInv
<1> QED BY <1>1, InitIInv, PTL DEF Spec

(* Every variable of the rings of a vhost device keeps its type. *)
THEOREM TypeCorrect == Spec => []TypeOK
<1>1. IInv => TypeOK BY DEF IInv
<1> QED BY <1>1, Invariance, PTL

(* The backend, which sets no status, loses no interrupt: interrupt_status() *)
(* sets the bit at every read.                                               *)
THEOREM InterruptsAreNotLost == Spec => []NoLostInterrupt
<1>1. IInv => NoLostInterrupt
  <2>1. SUFFICES ASSUME IInv, pc = "wait", NEW q \in Queues, used[q] # seen[q]
                 PROVE  irq \/ ipc # "idle"
    BY DEF NoLostInterrupt, Unseen
  <2>2. Reached(q, 0) BY <2>1 DEF IInv, SignalInv, Signalled, InBatch
  <2>3. used[q] \in Idx /\ seen[q] \in Idx BY <2>1, TypesOf DEF IInv, TypeOK
  <2>4. Dist(used[q], seen[q]) \in Nat BY <2>3, Closed DEF Idx
  <2>5. Dist(used[q], seen[q]) # 0 BY <2>1, <2>3, Steps
  <2> QED BY <2>2, <2>4, <2>5 DEF Reached
<1> QED BY <1>1, Invariance, PTL

(* No kick of the transmit ring is lost on the way from activate() to the    *)
(* backend, also one rung while activate() is still at work; only with event *)
(* indices may the driver wait after queue_notify took its doorbell.         *)
THEOREM KicksAreNotLost == Spec => []NoLostKick
<1>1. IInv => NoLostKick BY DEF IInv, TxInv, NoLostKick, Waking
<1> QED BY <1>1, Invariance, PTL

(* set_vring_base costs the driver the buffers it had added by then, and no  *)
(* others.                                                                   *)
THEOREM EarlyBuffersAreLost == Spec => []OnlyEarlyBuffersLost
<1>1. IInv => OnlyEarlyBuffersLost BY DEF IInv
<1> QED BY <1>1, Invariance, PTL
=============================================================================
