--------------------------- MODULE VirtqueuesProofs ---------------------------
(* Facts about the two rings and the guest that the proofs of the devices    *)
(* rest on: arithmetic around the ring, types, and the order of the indices. *)
EXTENDS Virtqueues, TLAPS

(* The remainders that occur. *)
LEMMA Mod ==
    ASSUME NEW n \in Nat, n > 0, NEW x \in Int, -n < x, x <= n
    PROVE  x % n = IF x = n THEN 0 ELSE IF x < 0 THEN x + n ELSE x
<1>1. CASE x = n BY <1>1, Z3
<1>2. CASE x < 0 BY <1>2, Z3
<1>3. CASE x >= 0 /\ x # n BY <1>3, Z3
<1> QED BY <1>1, <1>2, <1>3

(* One step around the ring. *)
LEMMA IncIs ==
    ASSUME NEW i \in Idx
    PROVE  Inc(i) = IF i + 1 = IdxMod THEN 0 ELSE i + 1
BY RingAssumption, Mod DEF Inc, Idx

(* The distance between two indices. *)
LEMMA DistIs ==
    ASSUME NEW i \in Idx, NEW j \in Idx
    PROVE  Dist(i, j) = IF i >= j THEN i - j ELSE i - j + IdxMod
BY RingAssumption, Mod DEF Dist, Idx

(* Indices stay indices. *)
LEMMA Closed ==
    ASSUME NEW i \in Idx, NEW j \in Idx
    PROVE  Inc(i) \in Idx /\ Dist(i, j) \in Idx
BY IncIs, DistIs, RingAssumption DEF Idx

(* What the proofs need of Inc and Dist. *)
LEMMA Steps ==
    ASSUME NEW i \in Idx, NEW j \in Idx
    PROVE  /\ Dist(i, j) = 0 <=> i = j
           /\ Dist(Inc(i), j) = IF Dist(i, j) + 1 = IdxMod THEN 0
                                ELSE Dist(i, j) + 1
           /\ Dist(i, Inc(j)) = IF i = j THEN IdxMod - 1 ELSE Dist(i, j) - 1
<1>1. /\ Inc(i) = IF i + 1 = IdxMod THEN 0 ELSE i + 1
      /\ Inc(j) = IF j + 1 = IdxMod THEN 0 ELSE j + 1
      /\ Inc(i) \in Idx /\ Inc(j) \in Idx
  BY IncIs, Closed
<1>2. \A x, y \in Idx : Dist(x, y) = IF x >= y THEN x - y ELSE x - y + IdxMod
  BY DistIs
<1> QED BY <1>1, <1>2, RingAssumption DEF Idx

LEMMA Between ==
    ASSUME NEW i \in Idx, NEW j \in Idx, NEW k \in Idx,
           Dist(j, k) <= Dist(i, k)
    PROVE  Dist(i, j) = Dist(i, k) - Dist(j, k)
BY DistIs, RingAssumption DEF Idx

LEMMA Back ==
    ASSUME NEW i \in Idx, NEW k \in Idx
    PROVE  Dist(i, Dist(i, k)) = k
<1>1. Dist(i, k) \in Idx BY Closed
<1> QED BY <1>1, DistIs, RingAssumption DEF Idx

(* The comparison on which the suppression with event indices rests is exact:*)
(* it holds if and only if the index the other side waits for is one of those*)
(* passed between old and new, however the indices wrapped in between.       *)
THEOREM NeedEventIsExact ==
    ASSUME NEW event \in Idx, NEW new \in Idx, NEW old \in Idx
    PROVE  NeedEvent(event, new, old)
                <=> Dist(new, event) \in 1 .. Dist(new, old)
<1>1. Dist(new, event) \in Idx /\ Dist(new, old) \in Idx BY Closed
<1>2. Dist(new, Inc(event)) = IF new = event THEN IdxMod - 1
                             ELSE Dist(new, event) - 1
  BY Steps
<1>3. Dist(new, event) = 0 <=> new = event BY Steps
<1> QED BY <1>1, <1>2, <1>3, RingAssumption DEF NeedEvent, Idx

-----------------------------------------------------------------------------
(* Each queue by itself. *)

LEMMA TypesOf ==
    ASSUME QueuesTypeOK, NEW q \in Queues
    PROVE  /\ avail[q] \in Idx /\ next[q] \in Idx /\ used[q] \in Idx
           /\ seen[q] \in Idx /\ availEvent[q] \in Idx /\ usedEvent[q] \in Idx
           /\ added[q] \in Idx
           /\ noNotify[q] \in BOOLEAN /\ kick[q] \in BOOLEAN
BY DEF QueuesTypeOK

LEMMA RingSizes == ASSUME NEW q \in Queues
                   PROVE  RingSize(q) \in Nat /\ RingSize(q) < IdxMod /\ IdxMod \in Nat
BY RingAssumption DEF RingSize

(* The guest keeps the types. *)
LEMMA GuestTypes == ASSUME QueuesTypeOK, Guest PROVE QueuesTypeOK'
<1> USE DEF QueuesTypeOK, rings, events, intr
<1>1. CASE TakeInterrupt BY <1>1 DEF TakeInterrupt
<1>2. CASE ReadInterruptStatus BY <1>2 DEF ReadInterruptStatus
<1>3. CASE AckInterrupt BY <1>3 DEF AckInterrupt
<1>4. CASE Reap
  <2>1. CASE UNCHANGED seen BY <1>4, <2>1 DEF Reap
  <2>2. ASSUME NEW q \in Unseen, seen' = [seen EXCEPT ![q] = Inc(@)]
        PROVE  seen' \in [Queues -> Idx]
    BY <2>2, Closed DEF Unseen
  <2> QED BY <1>4, <2>1, <2>2 DEF Reap
<1>5. CASE ArmUsedEvent BY <1>5 DEF ArmUsedEvent
<1>6. CASE LookAgain BY <1>6 DEF LookAgain
<1>7. ASSUME NEW q \in Queues, Post(q) PROVE QueuesTypeOK'
  <2>1. Inc(avail[q]) \in Idx BY Closed
  <2> QED BY <1>7, <2>1 DEF Post
<1>8. ASSUME NEW q \in Queues, KickPrepare(q) PROVE QueuesTypeOK'
  BY <1>8 DEF KickPrepare
<1>9. ASSUME NEW q \in Queues, Kick(q) PROVE QueuesTypeOK'
  BY <1>9 DEF Kick
<1> QED BY <1>1, <1>2, <1>3, <1>4, <1>5, <1>6, <1>7, <1>8, <1>9
        DEF Guest, InterruptHandler

(* So does what a device does to a queue. *)
DeviceStep(q) ==
    \/ TakeKick(q) \/ Disable(q) \/ Enable(q) \/ Pop(q) \/ Use(q)
    \/ ForgetAdded(q) \/ RaiseStatus \/ RaiseIrq

LEMMA DeviceTypes ==
    ASSUME QueuesTypeOK, NEW q \in Queues, DeviceStep(q)
    PROVE  QueuesTypeOK'
<1> USE DEF QueuesTypeOK, rings, events, intr
<1>1. CASE TakeKick(q) BY <1>1 DEF TakeKick
<1>2. CASE Disable(q) BY <1>2, RingAssumption DEF Disable
<1>3. CASE Enable(q)
  <2>1. next[q] \in Idx OBVIOUS
  <2>2. CASE EventIdx BY <1>3, <2>1, <2>2 DEF Enable
  <2>3. CASE ~EventIdx
    <3>1. noNotify' \in [Queues -> BOOLEAN] BY <1>3, <2>3 DEF Enable
    <3> QED BY <1>3, <2>3, <3>1 DEF Enable
  <2> QED BY <2>2, <2>3
<1>4. CASE Pop(q)
  <2>1. Inc(next[q]) \in Idx BY Closed
  <2> QED BY <1>4, <2>1 DEF Pop
<1>5. CASE Use(q)
  <2>1. Inc(used[q]) \in Idx /\ Inc(added[q]) \in Idx BY Closed
  <2> QED BY <1>5, <2>1 DEF Use
<1>6. CASE ForgetAdded(q) BY <1>6, RingAssumption DEF ForgetAdded, Idx
<1>7. CASE RaiseStatus BY <1>7 DEF RaiseStatus
<1>8. CASE RaiseIrq BY <1>8 DEF RaiseIrq
<1> QED BY <1>1, <1>2, <1>3, <1>4, <1>5, <1>6, <1>7, <1>8 DEF DeviceStep

-----------------------------------------------------------------------------
(* The order of the indices. *)

(* There is room for what the driver posts. *)
LEMMA PostOrder ==
    ASSUME QueuesTypeOK, NEW q \in Queues,
           Dist(avail[q], seen[q]) < RingSize(q),
           avail' = [avail EXCEPT ![q] = Inc(@)], UNCHANGED <<next, used, seen>>,
           NEW p \in Queues, IndicesInOrder(p)
    PROVE  IndicesInOrder(p)'
<1>1. UNCHANGED <<next, used, seen>> OBVIOUS
<1>2. CASE p # q
  <2>1. avail'[p] = avail[p] BY <1>2 DEF QueuesTypeOK
  <2> QED BY <1>1, <2>1 DEF IndicesInOrder
<1>3. CASE p = q
  <2>1. avail'[q] = Inc(avail[q]) /\ Dist(avail[q], seen[q]) < RingSize(q)
    BY DEF QueuesTypeOK
  <2>2. /\ Dist(next[q], seen[q]) \in Idx /\ Dist(avail[q], seen[q]) \in Idx
        /\ Dist(used[q], seen[q]) \in Idx
    BY TypesOf, Closed
  <2>3. Dist(avail'[q], seen[q]) = Dist(avail[q], seen[q]) + 1
    BY <2>1, <2>2, TypesOf, Steps, RingSizes DEF Idx
  <2> QED BY <1>1, <1>3, <2>1, <2>2, <2>3, RingSizes DEF IndicesInOrder, Idx
<1> QED BY <1>2, <1>3

(* The guest consumes no more than was used. *)
LEMMA ReapOrder ==
    ASSUME QueuesTypeOK, Reap, NEW p \in Queues, IndicesInOrder(p)
    PROVE  IndicesInOrder(p)'
<1>1. UNCHANGED <<avail, next, used>> BY DEF Reap
<1>2. CASE seen'[p] = seen[p] BY <1>1, <1>2 DEF IndicesInOrder
<1>3. CASE seen'[p] = Inc(seen[p]) /\ used[p] # seen[p]
  <2>1. seen[p] \in Idx /\ used[p] \in Idx BY TypesOf
  <2>2. ASSUME NEW i \in Idx
        PROVE  /\ Dist(i, seen[p]) \in Idx
               /\ Dist(i, seen[p]) # 0 => Dist(i, seen'[p]) = Dist(i, seen[p]) - 1
    <3>1. Dist(i, seen[p]) \in Idx BY <2>1, Closed
    <3>2. Dist(i, seen[p]) = 0 <=> i = seen[p] BY <2>1, Steps
    <3>3. Dist(i, Inc(seen[p])) = IF i = seen[p] THEN IdxMod - 1
                                  ELSE Dist(i, seen[p]) - 1
      BY <2>1, Steps
    <3> QED BY <1>3, <3>1, <3>2, <3>3
  <2>3. Dist(used[p], seen[p]) # 0 BY <1>3, <2>1, Steps
  <2> QED BY <1>1, <2>2, <2>3, TypesOf, RingSizes DEF IndicesInOrder, Idx
<1> QED BY <1>2, <1>3 DEF Reap, Unseen, QueuesTypeOK

(* A chain is popped only when one is there. *)
LEMMA PopOrder ==
    ASSUME QueuesTypeOK, NEW q \in Queues, Pop(q),
           NEW p \in Queues, IndicesInOrder(p)
    PROVE  IndicesInOrder(p)' /\ (p = q => Dist(next[q], used[q]) + 1 < IdxMod)
<1>1. UNCHANGED <<avail, used, seen>> BY DEF Pop
<1>2. CASE p # q
  <2>1. next'[p] = next[p] BY <1>2 DEF Pop, QueuesTypeOK
  <2> QED BY <1>1, <1>2, <2>1 DEF IndicesInOrder
<1>3. CASE p = q
  <2>1. next'[q] = Inc(next[q]) /\ avail[q] # next[q]
    BY DEF Pop, HasChain, QueuesTypeOK
  <2>2. /\ Dist(next[q], seen[q]) \in Idx /\ Dist(avail[q], seen[q]) \in Idx
        /\ Dist(used[q], seen[q]) \in Idx /\ Dist(avail[q], next[q]) \in Idx
    BY TypesOf, Closed
  <2>3. Dist(next[q], seen[q]) < Dist(avail[q], seen[q])
    BY <1>3, <2>1, <2>2, TypesOf, Steps, Between DEF IndicesInOrder, Idx
  <2>4. Dist(next'[q], seen[q]) = Dist(next[q], seen[q]) + 1
    BY <2>1, <2>2, <2>3, TypesOf, Steps DEF Idx
  <2>5. Dist(next[q], used[q]) = Dist(next[q], seen[q]) - Dist(used[q], seen[q])
    BY <1>3, TypesOf, Between DEF IndicesInOrder
  <2> QED BY <1>1, <1>3, <2>2, <2>3, <2>4, <2>5, RingSizes DEF IndicesInOrder, Idx
<1> QED BY <1>2, <1>3

(* Nothing is used that was not popped. *)
LEMMA UseOrder ==
    ASSUME QueuesTypeOK, NEW q \in Queues, Use(q), used[q] # next[q],
           NEW p \in Queues, IndicesInOrder(p)
    PROVE  IndicesInOrder(p)'
<1>1. UNCHANGED <<avail, next, seen>> BY DEF Use
<1>2. CASE p # q
  <2>1. used'[p] = used[p] BY <1>2 DEF Use, QueuesTypeOK
  <2> QED BY <1>1, <2>1 DEF IndicesInOrder
<1>3. CASE p = q
  <2>1. used'[q] = Inc(used[q]) BY DEF Use, QueuesTypeOK
  <2>2. /\ Dist(next[q], seen[q]) \in Idx /\ Dist(used[q], seen[q]) \in Idx
        /\ Dist(next[q], used[q]) \in Idx
    BY TypesOf, Closed
  <2>3. Dist(used[q], seen[q]) < Dist(next[q], seen[q])
    BY <1>3, <2>2, TypesOf, Steps, Between DEF IndicesInOrder, Idx
  <2>4. Dist(used'[q], seen[q]) = Dist(used[q], seen[q]) + 1
    BY <2>1, <2>2, <2>3, TypesOf, Steps DEF Idx
  <2> QED BY <1>1, <1>3, <2>2, <2>3, <2>4, RingSizes DEF IndicesInOrder, Idx
<1> QED BY <1>2, <1>3

(* The guest alone keeps the order. *)
LEMMA GuestOrder ==
    ASSUME QueuesTypeOK, Guest, NEW q \in Queues, IndicesInOrder(q)
    PROVE  IndicesInOrder(q)' /\ UNCHANGED <<next, used>>
<1>1. CASE Reap BY <1>1, ReapOrder DEF Reap
<1>2. ASSUME NEW p \in Queues, Post(p)
      PROVE  IndicesInOrder(q)' /\ UNCHANGED <<next, used>>
  BY <1>2, PostOrder DEF Post
<1>3. CASE UNCHANGED rings BY <1>3 DEF IndicesInOrder, rings
<1> QED
  BY <1>1, <1>2, <1>3 DEF Guest, InterruptHandler, TakeInterrupt,
     ReadInterruptStatus, AckInterrupt, ArmUsedEvent, LookAgain, KickPrepare,
     Kick, rings

(* A popped chain is one more in hand. *)
LEMMA PopHand ==
    ASSUME QueuesTypeOK, NEW q \in Queues, Pop(q), IndicesInOrder(q)
    PROVE  /\ Dist(next[q], used[q])' = Dist(next[q], used[q]) + 1
           /\ \A p \in Queues \ {q} : next'[p] = next[p]
           /\ used' = used /\ used'[q] # next'[q]
<1>1. next'[q] = Inc(next[q]) /\ used' = used
  BY DEF Pop, QueuesTypeOK
<1>2. Dist(next[q], used[q]) + 1 < IdxMod BY PopOrder
<1>2a. Dist(next[q], used[q]) \in Int /\ IdxMod \in Int
  <2>1. Dist(next[q], used[q]) \in Idx BY TypesOf, Closed
  <2>2. IdxMod \in Nat BY RingSizes
  <2> QED BY <2>1, <2>2 DEF Idx
<1>3. Dist(next'[q], used[q]) = Dist(next[q], used[q]) + 1
  <2>1. Dist(Inc(next[q]), used[q]) = IF Dist(next[q], used[q]) + 1 = IdxMod
                                      THEN 0 ELSE Dist(next[q], used[q]) + 1
    BY TypesOf, Steps
  <2> QED BY <1>1, <1>2, <1>2a, <2>1
<1>4. Dist(next'[q], used[q]) # 0
  BY <1>3, TypesOf, Closed DEF Idx
<1>5. used[q] # next'[q] BY <1>1, <1>4, TypesOf, Steps, Closed
<1> QED BY <1>1, <1>3, <1>5 DEF Pop, QueuesTypeOK

(* A used chain is one fewer. *)
LEMMA UseHand ==
    ASSUME QueuesTypeOK, NEW q \in Queues, Use(q), used[q] # next[q]
    PROVE  /\ Dist(next[q], used[q])' = Dist(next[q], used[q]) - 1
           /\ \A p \in Queues \ {q} : used'[p] = used[p]
           /\ next' = next
<1>1. used'[q] = Inc(used[q]) /\ next' = next BY DEF Use, QueuesTypeOK
<1>2. Dist(next[q], used'[q]) = Dist(next[q], used[q]) - 1
  BY <1>1, TypesOf, Steps
<1> QED BY <1>1, <1>2 DEF Use, QueuesTypeOK

-----------------------------------------------------------------------------
(* What the device owes the driver: the buffers lent and not returned.       *)

(* A buffer the driver posts is one more. *)
LEMMA PostOwes ==
    ASSUME QueuesTypeOK, NEW q \in Queues, Post(q), IndicesInOrder(q)
    PROVE  /\ Dist(avail[q], used[q])' = Dist(avail[q], used[q]) + 1
           /\ \A p \in Queues \ {q} : avail'[p] = avail[p]
           /\ used' = used
<1>1. /\ avail'[q] = Inc(avail[q]) /\ used' = used
      /\ \A p \in Queues \ {q} : avail'[p] = avail[p]
      /\ Dist(avail[q], seen[q]) < RingSize(q)
  BY DEF Post, QueuesTypeOK
<1>2. /\ Dist(used[q], seen[q]) \in Idx /\ Dist(next[q], seen[q]) \in Idx
      /\ Dist(avail[q], seen[q]) \in Idx /\ Dist(avail[q], used[q]) \in Idx
  BY TypesOf, Closed
<1>3. Dist(used[q], seen[q]) <= Dist(avail[q], seen[q])
  BY <1>2 DEF IndicesInOrder, Idx
<1>4. Dist(avail[q], used[q]) = Dist(avail[q], seen[q]) - Dist(used[q], seen[q])
  BY <1>3, TypesOf, Between
<1>5. Dist(avail[q], used[q]) + 1 # IdxMod
  BY <1>1, <1>2, <1>4, RingSizes DEF Idx
<1>6. Dist(Inc(avail[q]), used[q]) = Dist(avail[q], used[q]) + 1
  BY <1>5, TypesOf, Steps
<1> QED BY <1>1, <1>6

(* A chain in hand is one of them. *)
LEMMA InHandIsOwed ==
    ASSUME QueuesTypeOK, NEW q \in Queues, used[q] # next[q], IndicesInOrder(q)
    PROVE  avail[q] # used[q] /\ Dist(avail[q], used[q]) > 0
<1>1. /\ Dist(used[q], seen[q]) \in Idx /\ Dist(next[q], seen[q]) \in Idx
      /\ Dist(avail[q], seen[q]) \in Idx /\ Dist(avail[q], used[q]) \in Idx
      /\ Dist(next[q], used[q]) \in Idx
  BY TypesOf, Closed
<1>2. Dist(next[q], used[q]) # 0 BY TypesOf, Steps
<1>3. Dist(next[q], used[q]) = Dist(next[q], seen[q]) - Dist(used[q], seen[q])
  BY TypesOf, Between DEF IndicesInOrder
<1>4. Dist(used[q], seen[q]) < Dist(avail[q], seen[q])
  BY <1>1, <1>2, <1>3 DEF IndicesInOrder, Idx
<1>5. avail[q] # used[q] BY <1>1, <1>4 DEF Idx
<1>6. Dist(avail[q], used[q]) # 0 BY <1>5, TypesOf, Steps
<1> QED BY <1>1, <1>5, <1>6 DEF Idx

(* A used one is one fewer. *)
LEMMA UseOwes ==
    ASSUME QueuesTypeOK, NEW q \in Queues, Use(q), used[q] # next[q],
           IndicesInOrder(q)
    PROVE  /\ Dist(avail[q], used[q]) > 0
           /\ Dist(avail[q], used[q])' = Dist(avail[q], used[q]) - 1
           /\ \A p \in Queues \ {q} : used'[p] = used[p]
           /\ avail' = avail
<1>1. /\ used'[q] = Inc(used[q]) /\ avail' = avail
      /\ \A p \in Queues \ {q} : used'[p] = used[p]
  BY DEF Use, QueuesTypeOK
<1>2. avail[q] # used[q] /\ Dist(avail[q], used[q]) > 0 BY InHandIsOwed
<1>3. Dist(avail[q], Inc(used[q])) = Dist(avail[q], used[q]) - 1
  BY <1>2, TypesOf, Steps
<1> QED BY <1>1, <1>2, <1>3

-----------------------------------------------------------------------------
(* Notifications. *)

(* A queue the device need not look at: a kick is coming, or there is        *)
(* nothing in the ring and what comes next will be kicked.                   *)
Waking(q) == KickComing(q) \/ (~HasChain(q) /\ NextWillKick(q))

(* The device has asked to hear of what it has not popped. *)
Enabled(q) == IF EventIdx THEN availEvent[q] = next[q] ELSE ~noNotify[q]

(* The guest alone never leaves such a queue without a kick. *)
LEMMA GuestWaking ==
    ASSUME QueuesTypeOK, NEW p \in Queues, Waking(p), Guest
    PROVE  Waking(p)'
<1> USE DEF QueuesTypeOK, rings, events, intr, Waking, KickComing, HasChain,
            NextWillKick, KickWanted
<1>1. CASE InterruptHandler
  <2>1. UNCHANGED <<avail, next, noNotify, availEvent, kick, gpc>>
    BY <1>1 DEF InterruptHandler, TakeInterrupt, ReadInterruptStatus,
                AckInterrupt, Reap, ArmUsedEvent, LookAgain
  <2> QED BY <2>1
<1>2. ASSUME NEW q \in Queues, Post(q) PROVE Waking(p)'
  BY <1>2 DEF Post
<1>3. ASSUME NEW q \in Queues, KickPrepare(q) PROVE Waking(p)'
  BY <1>3 DEF KickPrepare
<1>4. ASSUME NEW q \in Queues, Kick(q) PROVE Waking(p)'
  BY <1>4 DEF Kick
<1> QED BY <1>1, <1>2, <1>3, <1>4 DEF Guest

(* Nor does work of the device on another queue, or work that does not       *)
(* concern wake-ups.                                                         *)
LEMMA OtherWaking ==
    ASSUME QueuesTypeOK, NEW p \in Queues, NEW q \in Queues, Waking(p),
           \/ DeviceStep(q) /\ p # q
           \/ Use(q) \/ ForgetAdded(q) \/ RaiseStatus \/ RaiseIrq
           \/ UNCHANGED queueVars
    PROVE  Waking(p)'
BY DEF QueuesTypeOK, DeviceStep, TakeKick, Disable, Enable, Pop, Use,
       ForgetAdded, RaiseStatus, RaiseIrq, queueVars, rings, events, intr,
       Waking, KickComing, KickWanted, HasChain, NextWillKick

(* This is why the device looks again after it has asked to hear. *)
LEMMA EnabledWaking ==
    ASSUME NEW q \in Queues, Enabled(q), ~HasChain(q)
    PROVE  Waking(q)
BY DEF Enabled, HasChain, Waking, NextWillKick

-----------------------------------------------------------------------------
(* Interrupts. *)

(* The driver has asked to hear of the completion after the last it saw. *)
Armed == EventIdx /\ ipc \notin {"reap", "arm"} => usedEvent = seen

(* An interrupt is coming, or at most n completions of q are unseen. *)
Told(q, n) == InterruptComing \/ Dist(used[q], seen[q]) <= n

LEMMA GuestArmed == ASSUME Armed, Guest PROVE Armed'
BY DEF Armed, Guest, InterruptHandler, TakeInterrupt, ReadInterruptStatus,
       AckInterrupt, Reap, ArmUsedEvent, LookAgain, Post, KickPrepare, Kick,
       rings, events, intr

(* The device leaves alone what the driver asked to hear. *)
LEMMA OtherArmed ==
    ASSUME Armed, NEW q \in Queues, DeviceStep(q) \/ UNCHANGED queueVars
    PROVE  Armed'
BY DEF DeviceStep, TakeKick, Disable, Enable, Pop, Use, ForgetAdded, RaiseStatus,
       RaiseIrq, queueVars, rings, events, intr, Armed

(* The interrupt handler returns only when it has seen all. *)
LEMMA GuestTold ==
    ASSUME QueuesTypeOK, NEW p \in Queues, NEW n \in Nat, Guest
    PROVE  /\ Told(p, n) => Told(p, n)'
           /\ intStatus \/ Told(p, n) => (intStatus \/ Told(p, n))'
<1> USE DEF rings, events, intr, Told, InterruptComing
<1>1. CASE TakeInterrupt BY <1>1 DEF TakeInterrupt
<1>2. CASE ReadInterruptStatus BY <1>2 DEF ReadInterruptStatus
<1>3. CASE AckInterrupt BY <1>3 DEF AckInterrupt
<1>4. CASE Reap \/ LookAgain
  <2>1. CASE ipc' = "idle"
    <3>1. UNCHANGED <<used, seen>> /\ used[p] = seen[p]
      BY <1>4, <2>1 DEF Reap, LookAgain, Unseen
    <3>2. Dist(used[p], seen[p]) = 0 BY <3>1, TypesOf, Steps
    <3> QED BY <3>1, <3>2
  <2>2. CASE ipc' # "idle" BY <1>4, <2>2 DEF Reap, LookAgain
  <2> QED BY <2>1, <2>2
<1>5. CASE ArmUsedEvent BY <1>5 DEF ArmUsedEvent
<1>6. CASE \E q \in Queues : Post(q) \/ KickPrepare(q) \/ Kick(q)
  BY <1>6 DEF Post, KickPrepare, Kick
<1> QED BY <1>1, <1>2, <1>3, <1>4, <1>5, <1>6 DEF Guest, InterruptHandler

(* What the driver is told about a queue is untouched by steps of the device *)
(* that use no chain of it.                                                  *)
LEMMA OtherTold ==
    ASSUME QueuesTypeOK, NEW p \in Queues, NEW q \in Queues, NEW n \in Nat,
           \/ DeviceStep(q) /\ UNCHANGED used
           \/ Use(q) /\ p # q
           \/ UNCHANGED queueVars
    PROVE  /\ Told(p, n) => Told(p, n)'
           /\ intStatus => intStatus'
BY DEF QueuesTypeOK, DeviceStep, TakeKick, Disable, Enable, Pop, Use,
       ForgetAdded, RaiseStatus, RaiseIrq, queueVars, rings, events, intr, Told,
       InterruptComing

(* Fewer unseen completions are at most as many. *)
LEMMA ToldMore ==
    ASSUME QueuesTypeOK, NEW q \in Queues, NEW n \in Nat, Told(q, 0)
    PROVE  Told(q, n)
<1>1. Dist(used[q], seen[q]) \in Int BY TypesOf, Closed DEF Idx
<1> QED BY <1>1 DEF Told

(* needs_notification is true when the driver waits for one of the           *)
(* completions since its last call.                                          *)
LEMMA UnseenWanted ==
    ASSUME QueuesTypeOK, NEW q \in Queues, ~Wanted(q),
           usedEvent[q] = seen[q], Dist(used[q], seen[q]) <= added[q]
    PROVE  used[q] = seen[q]
<1>1. SUFFICES ASSUME used[q] # seen[q] PROVE FALSE OBVIOUS
<1>2. Dist(used[q], added[q]) \in Idx /\ Dist(used[q], seen[q]) \in Idx
  BY TypesOf, Closed
<1>3. Dist(used[q], Dist(used[q], added[q])) = added[q] BY TypesOf, Back
<1>4. Dist(used[q], seen[q]) # 0 BY <1>1, TypesOf, Steps
<1>5. Dist(used[q], seen[q]) \in 1 .. added[q]
  <2>1. added[q] \in Idx BY TypesOf
  <2> QED BY <1>2, <1>4, <2>1 DEF Idx
<1> QED BY <1>2, <1>3, <1>5, TypesOf, NeedEventIsExact DEF Wanted

LEMMA WantedIfUnseen ==
    ASSUME QueuesTypeOK, Armed, NEW q \in Queues, ~Wanted(q),
           Told(q, added[q])
    PROVE  Told(q, 0)
<1>1. SUFFICES ASSUME ~InterruptComing PROVE used[q] = seen[q]
  BY TypesOf, Steps DEF Told
<1>2. usedEvent[q] = seen[q]
  BY <1>1 DEF Wanted, Armed, InterruptComing
<1>3. Dist(used[q], seen[q]) <= added[q] BY <1>1 DEF Told
<1> QED BY <1>2, <1>3, UnseenWanted

(* A completion adds one to those unseen. *)
LEMMA UseUnseen ==
    ASSUME QueuesTypeOK, NEW q \in Queues, Use(q)
    PROVE  /\ UNCHANGED <<seen, intr>>
           /\ Dist(used[q], seen[q])' <= Dist(used[q], seen[q]) + 1
           /\ Dist(used[q], seen[q])' \in Nat /\ Dist(used[q], seen[q]) \in Nat
<1>1. used'[q] = Inc(used[q]) /\ UNCHANGED <<seen, intr>>
  BY DEF Use, QueuesTypeOK
<1>2. Dist(used[q], seen[q]) \in Idx /\ Dist(used'[q], seen[q]) \in Idx
  BY <1>1, TypesOf, Closed
<1>3. Dist(used'[q], seen[q]) <= Dist(used[q], seen[q]) + 1
  BY <1>1, <1>2, TypesOf, Steps DEF Idx
<1> QED BY <1>1, <1>2, <1>3 DEF Idx

LEMMA UseTold ==
    ASSUME QueuesTypeOK, NEW q \in Queues, Use(q), NEW n \in Nat, Told(q, n)
    PROVE  Told(q, n + 1)'
BY UseUnseen DEF Told, InterruptComing, intr
=============================================================================
