--------------------------- MODULE VmThreadsProofs ---------------------------
(* Proofs about the threads of one VM, for any set of CPUs, any bound on     *)
(* resets and each of the seven devices.                                     *)
EXTENDS VmThreads, DeviceKindsProofs, FiniteSetTheorems

Activating == iopc \in {"activate", "register"}

(* Where activate() is and what it has done to the ioeventfds.               *)
CallInv ==
    /\ endpoint # "free" => At("subscribe")
    /\ iopc = "register" => step = PrepareAt[kind]
    /\ iopc = "register" \/ (iopc = "activate" /\ step > PrepareAt[kind])
            => ~activated
    /\ iopc = "activate" /\ step > PrepareAt[kind]
            => QueuesOf(kind) \subseteq ioeventfds
    /\ queues = QueuesOf(kind) \/ QueuesOf(kind) \subseteq ioeventfds

(* What is attached: nothing while the memory is there. An activation under  *)
(* way has attached what its calls so far attach, or it is a second one and  *)
(* has the call before it that no second one passes.                         *)
AttachInv ==
    /\ attached <= Attachments(kind)
    /\ regions = 1 => attached = 0 /\ Plane[kind] # "vhost"
    /\ Activating /\ step > OnceAt[kind] => regions = 0
    /\ Activating =>
        \/ attached = AttachedBy(kind, step)
                        + (IF endpoint = "answered" THEN 1 ELSE 0)
        \/ attached > 0 /\ step <= OnceAt[kind]
    /\ attached > 0 => QueuesOf(kind) \subseteq ioeventfds
    /\ activated => attached = Attachments(kind)
    /\ evm = "absent" <=> Plane[kind] # "virtio"
    /\ evm \in {"blocked", "dead"} => attached = Attachments(kind)
    /\ watched # {} => attached > 0

(* A console's queues are rung only once both its handlers are attached: none*)
(* of its calls returns an error, so that its driver is live only then.      *)
ConsoleInv ==
    kind = "VirtioConsole" =>
        /\ ioeventfds # {} =>
            \/ attached = Attachments(kind)
            \/ driver = "starting" /\ iopc \in {"activate", "register", "dead"}
        /\ doorbell # {} => attached = Attachments(kind)

(* Whose access the io thread has, and what the driver is doing meanwhile.   *)
DriverOps == [features |-> "negotiating", driverOk |-> "starting",
              reset |-> "resetting"]

AccessInv ==
    /\ iopc \in {"dispatch", "activate", "register", "complete"}
            => hand \in Cpus /\ access[hand] # "none"
    /\ Activating => access[hand] = "driverOk"
    /\ \A c \in Cpus : access[c] \in DOMAIN DriverOps =>
        /\ driver = DriverOps[access[c]]
        /\ \A d \in Cpus \ {c} : access[d] # access[c]

(* A vhost-user backend knows what the driver acknowledged.                  *)
FeatureInv ==
    /\ supported \in BackendFeatures(kind)
    /\ acked \subseteq Offered(kind, supported)
    /\ Plane[kind] = "vhost_user" =>
        /\ driver \in {"negotiated", "starting", "live", "resetting"}
                => ringFeatures = acked
        /\ iopc = "complete" /\ access[hand] = "features" => ringFeatures = acked

(* The mutexes the io thread holds, unless it died with them. *)
LockInv ==
    /\ iopc = "attach" => held = {"device_model"}
    /\ Activating => held = {"device_manager"}
    /\ iopc \in {"idle", "dispatch", "complete"} => held = {}

(* Up to the call that no second activation passes, a device is either fully *)
(* attached or as it was made: only calls before that one return an error.   *)
Revocable ==
    \/ iopc \notin {"activate", "register", "dead"}
    \/ Activating /\ step <= OnceAt[kind]

FreshInv ==
    Revocable =>
        \/ attached = Attachments(kind)
        \/ /\ attached = 0
           /\ regions = InitialRegions(kind) /\ queues = QueuesOf(kind)

IInv ==
    /\ TypeOK /\ CallInv /\ AttachInv /\ AccessInv /\ FeatureInv /\ TapReleased
    /\ ConsoleInv
    /\ LockInv /\ FreshInv

-----------------------------------------------------------------------------
(* The call the io thread is at. *)
Name == Activate[kind][step].name

LEMMA Here ==
    ASSUME TypeOK
    PROVE  /\ step \in Nat \ {0}
           /\ Name # "done" => step + 1 \in DOMAIN Activate[kind]
           /\ Activate[kind][step].onError = "return" =>
                step < OnceAt[kind] /\ kind # "VirtioConsole"
           /\ Name \in OtherCalls =>
                /\ step # PrepareAt[kind] /\ step # OnceAt[kind]
                /\ AttachedBy(kind, step + 1) = AttachedBy(kind, step)
           /\ Name = "prepare" =>
                /\ step = PrepareAt[kind]
                /\ AttachedBy(kind, step + 1) = AttachedBy(kind, step)
           /\ Name = "mem" =>
                /\ step = OnceAt[kind] /\ Plane[kind] # "vhost"
                /\ AttachedBy(kind, step + 1) = AttachedBy(kind, step)
           /\ Name = "subscribe" =>
                /\ Plane[kind] = "virtio" /\ step > OnceAt[kind]
                /\ AttachedBy(kind, step) \in 0 .. Attachments(kind) - 1
                /\ AttachedBy(kind, step + 1) = AttachedBy(kind, step) + 1
           /\ Name = "backend" =>
                /\ Plane[kind] # "virtio" /\ step > PrepareAt[kind]
                /\ IF Plane[kind] = "vhost"
                   THEN step = OnceAt[kind] ELSE step > OnceAt[kind]
                /\ AttachedBy(kind, step) = 0 /\ AttachedBy(kind, step + 1) = 1
           /\ Name = "done" =>
                /\ step > OnceAt[kind]
                /\ AttachedBy(kind, step) = Attachments(kind)
<1>1. kind \in Kinds /\ step \in DOMAIN Activate[kind]
  BY DEF TypeOK
<1>2. CallsOf(kind, Activate[kind])
  BY <1>1, CallsAre
<1>3. DOMAIN Activate[kind] = 1 .. Len(Activate[kind]) /\ Len(Activate[kind]) \in Nat
  BY <1>2 DEF CallsOf
<1> QED BY <1>1, <1>2, <1>3 DEF CallsOf, Name

-----------------------------------------------------------------------------
(* Types. *)

LEMMA TypeInit == Init => TypeOK
<1> SUFFICES ASSUME Init PROVE TypeOK
  OBVIOUS
<1>1. kind \in Kinds
  BY DEF Init
<1>2. 1 \in DOMAIN Activate[kind]
  BY <1>1, CallsAre DEF CallsOf
<1>3. supported \subseteq Features
  BY DEF Init, BackendFeatures, Features
<1>4. regions \in {0, 1} /\ evm \in {"absent", "epoll", "blocked", "dead"}
  BY DEF Init, InitialRegions
<1>5. access \in [Cpus -> Ops \cup {"none"}]
  BY DEF Init
<1>6. resets \in 0 .. MaxResets
  BY MaxResetsAssumption DEF Init
<1> QED BY <1>1, <1>2, <1>3, <1>4, <1>5, <1>6 DEF Init, TypeOK

LEMMA OfferedFeatures ==
    ASSUME NEW k \in Kinds, NEW f \in SUBSET Features
    PROVE  Offered(k, f) \subseteq Features
<1>1. DeviceFeatures[k] \subseteq Features
  BY KindsAre DEF DeviceFeatures, Features, KindNames
<1> QED BY <1>1 DEF Offered, Features

LEMMA TypeStep ==
    ASSUME TypeOK, CallInv, [Next]_vars
    PROVE  TypeOK'
<1> USE DEF TypeOK, Ops
<1> USE DEF fixed, guest, ioLocal, device, Kept, evmSide
<1>1. CASE UNCHANGED vars
  BY <1>1 DEF vars
<1>2. ASSUME NEW c \in Cpus, Guest(c)
      PROVE  TypeOK'
  <2>1. CASE Trap(c)
    BY <2>1 DEF Trap
  <2>2. CASE WriteFeatures(c)
    BY <2>2, OfferedFeatures DEF WriteFeatures
  <2>3. CASE WriteDriverOk(c)
    BY <2>3 DEF WriteDriverOk
  <2>4. CASE WriteReset(c)
    BY <2>4, MaxResetsAssumption DEF WriteReset
  <2>5. CASE Notify(c)
    BY <2>5 DEF Notify
  <2> QED BY <1>2, <2>1, <2>2, <2>3, <2>4, <2>5 DEF Guest
<1>3. ASSUME IoDies
      PROVE  TypeOK'
  BY <1>3 DEF IoDies, DropTap
<1>4. ASSUME CallFails
      PROVE  TypeOK'
  BY <1>3, <1>4 DEF CallFails, DropTap
<1>5. CASE LockDeviceModel
  BY <1>5 DEF LockDeviceModel
<1>6. CASE AttachIoClient
  BY <1>3, <1>6, ZenonT(30) DEF AttachIoClient
<1>7. CASE Dispatch
  <2>1. CASE NegotiateDriverFeatures
    BY <1>3, <2>1, ZenonT(30) DEF NegotiateDriverFeatures
  <2>2. CASE iopc' = "activate" /\ step' = 1
    <3>1. 1 \in DOMAIN Activate[kind]
      BY CallsAre DEF CallsOf
    <3> QED BY <1>7, <2>2, <3>1 DEF Dispatch, NegotiateDriverFeatures, IoDies
  <2> QED BY <1>3, <1>7, <2>1, <2>2, ZenonT(30) DEF Dispatch
<1>8. ASSUME CallReturns, Name # "done"
      PROVE  /\ step' \in DOMAIN Activate[kind] /\ iopc' = "activate"
             /\ UNCHANGED <<fixed, guest, hand, held>>
  BY <1>8, Here DEF CallReturns
<1>9. CASE Open
  <2>1. Name # "done"
    BY <1>9 DEF Open, At, Name
  <2>2. CASE CallReturns /\ UNCHANGED <<device, evmSide>>
    BY <1>8, <2>1, <2>2
  <2> QED BY <1>4, <1>9, <2>2 DEF Open
<1>10. CASE OpenTap
  BY <1>4, <1>8, <1>10 DEF OpenTap, At, Name
<1>11. CASE ConfigureTap
  <2>1. Name # "done"
    BY <1>11 DEF ConfigureTap, At, Name
  <2>2. CASE CallReturns /\ UNCHANGED <<device, evmSide>>
    BY <1>8, <2>1, <2>2
  <2> QED BY <1>4, <1>11, <2>2 DEF ConfigureTap
<1>12. CASE PrepareActivate
  BY <1>4, <1>12 DEF PrepareActivate
<1>13. CASE RegisterIoeventfd
  <2>1. CASE CallReturns /\ UNCHANGED <<device, evmSide>>
    <3>1. Name # "done"
      BY <1>13, Here, ActivateBegins DEF RegisterIoeventfd, CallInv
    <3> QED BY <1>8, <2>1, <3>1
  <2>2. CASE IoDies
    BY <1>3, <2>2
  <2>3. CASE /\ \E q \in queues \ ioeventfds : ioeventfds' = ioeventfds \cup {q}
             /\ UNCHANGED <<fixed, guest, ioLocal, activated, regions, queues,
                            ringFeatures, tap, evmSide>>
    <3>1. ioeventfds' \subseteq QueuesOf(kind)
      BY <2>3
    <3> QED BY <2>3, <3>1
  <2> QED BY <1>13, <2>1, <2>2, <2>3 DEF RegisterIoeventfd
<1>14. CASE TakeMem
  BY <1>3, <1>8, <1>14 DEF TakeMem, At, Name
<1>15. CASE CallBlocking
  BY <1>8, <1>15 DEF CallBlocking, At, Name
<1>16. CASE StartBackend
  <2>1. CASE CallFails
    BY <1>4, <2>1
  <2>2. CASE ~CallFails
    <3>1. ringFeatures' \subseteq Features /\ watched' \subseteq ServedQueues(kind)
      BY <1>16, <2>2 DEF StartBackend
    <3>2. /\ step' \in DOMAIN Activate[kind] /\ iopc' = "activate"
          /\ UNCHANGED <<fixed, guest, hand, held>>
      BY <1>8, <1>16, <2>2 DEF StartBackend, At, Name
    <3> QED BY <1>16, <2>1, <2>2, <3>1, <3>2 DEF StartBackend
  <2> QED BY <1>16, <2>1, <2>2 DEF StartBackend
<1>17. CASE SetActivated
  BY <1>17 DEF SetActivated
<1>18. CASE NotifyIoCompleted
  <2>1. CASE IoDies
    BY <1>3, <2>1
  <2>2. CASE access' = [access EXCEPT ![hand] = "none"] /\ iopc' = "idle"
    <3>1. 1 \in DOMAIN Activate[kind]
      BY CallsAre DEF CallsOf
    <3>2. driver' \in {"init", "negotiating", "negotiated", "starting", "live", "resetting"}
      BY <1>18, <2>2 DEF NotifyIoCompleted, IoDies
    <3> QED BY <1>18, <2>2, <3>1, <3>2 DEF NotifyIoCompleted, IoDies
  <2> QED BY <1>18, <2>1, <2>2 DEF NotifyIoCompleted
<1>19. CASE RunEventManager
  <2>1. CASE AddSubscriber
    BY <2>1 DEF AddSubscriber
  <2>2. CASE HandleQueue
    BY <2>2 DEF HandleQueue
  <2>3. CASE PtyHandlerPanics
    BY <2>3 DEF PtyHandlerPanics
  <2> QED BY <1>19, <2>1, <2>2, <2>3 DEF RunEventManager
<1>20. CASE BackendHandlesQueue
  BY <1>20 DEF BackendHandlesQueue
<1> QED BY <1>1, <1>2, <1>5, <1>6, <1>7, <1>9, <1>10, <1>11, <1>12, <1>13,
           <1>14, <1>15, <1>16, <1>17, <1>18, <1>19, <1>20 DEF Next, RunIo
-----------------------------------------------------------------------------
(* Where activate() is. *)

LEMMA CallInit == Init => CallInv
BY DEF Init, CallInv

LEMMA CallStep ==
    ASSUME TypeOK, CallInv, [Next]_vars
    PROVE  CallInv'
<1> USE DEF CallInv, fixed, guest, ioLocal, device, Kept, evmSide
<1> DEFINE P == PrepareAt[kind]
<1>1. P \in Nat /\ OnceAt[kind] \in Nat /\ 1 <= P /\ P < OnceAt[kind]
  BY ActivateBegins DEF TypeOK
<1>2. CASE UNCHANGED vars
  BY <1>2 DEF vars, At
<1>3. ASSUME NEW c \in Cpus, Guest(c)
      PROVE  CallInv'
  <2>1. UNCHANGED <<fixed, ioLocal, device, endpoint>>
    BY <1>3 DEF Guest, Trap, WriteFeatures, WriteDriverOk, WriteReset, Notify
  <2> QED BY <2>1 DEF At
<1>4. ASSUME IoDies, ~At("subscribe")
      PROVE  CallInv'
  BY <1>4 DEF IoDies, DropTap
<1>5. ASSUME CallFails, ~At("subscribe")
      PROVE  CallInv'
  BY <1>4, <1>5 DEF CallFails, DropTap
<1>6. CASE LockDeviceModel
  BY <1>6 DEF LockDeviceModel, At
<1>7. CASE AttachIoClient
  BY <1>4, <1>7 DEF AttachIoClient, At
<1>8. CASE Dispatch
  <2>1. CASE IoDies
    BY <1>4, <1>8, <2>1 DEF Dispatch, At
  <2>2. CASE ~IoDies
    <3>1. UNCHANGED <<fixed, queues, ioeventfds, evmSide>>
      BY <1>8, <2>2 DEF Dispatch, NegotiateDriverFeatures
    <3>2. iopc' = "complete" \/ (iopc' = "activate" /\ step' = 1)
      BY <1>8, <2>2 DEF Dispatch, NegotiateDriverFeatures
    <3> QED BY <1>1, <1>8, <3>1, <3>2 DEF Dispatch, At
  <2> QED BY <2>1, <2>2
<1>9. ASSUME CallReturns, UNCHANGED <<activated, ioeventfds>>,
             queues' = queues \/ step > P, endpoint' = "free",
             iopc = "activate", step # P
      PROVE  CallInv'
  <2>1. step \in Nat \ {0}
    BY Here
  <2> QED BY <1>1, <1>9, <2>1 DEF CallReturns, At
<1>10. CASE Open
  BY <1>5, <1>9, <1>10, Here DEF Open, At, Name, OtherCalls
<1>11. CASE OpenTap
  BY <1>5, <1>9, <1>11, Here DEF OpenTap, At, Name, OtherCalls
<1>12. CASE ConfigureTap
  BY <1>5, <1>9, <1>12, Here DEF ConfigureTap, At, Name, OtherCalls
<1>13. CASE PrepareActivate
  <2>1. CASE CallFails
    BY <1>5, <1>13, <2>1 DEF PrepareActivate, At
  <2>2. CASE ~CallFails
    BY <1>13, <2>2, Here DEF PrepareActivate, At, Name
  <2> QED BY <2>1, <2>2
<1>14. CASE RegisterIoeventfd
  <2>1. CASE IoDies
    BY <1>4, <1>14, <2>1 DEF RegisterIoeventfd, At
  <2>2. CASE \E q \in queues \ ioeventfds : ioeventfds' = ioeventfds \cup {q}
    BY <1>14, <2>1, <2>2 DEF RegisterIoeventfd, CallReturns, At
  <2>3. CASE /\ CallReturns /\ queues \subseteq ioeventfds
             /\ UNCHANGED <<device, evmSide>>
    BY <1>1, <1>14, <2>3 DEF RegisterIoeventfd, CallReturns, At
  <2> QED BY <1>14, <2>1, <2>2, <2>3 DEF RegisterIoeventfd
<1>15. CASE TakeMem
  <2>1. CASE IoDies
    BY <1>4, <1>15, <2>1 DEF TakeMem, At
  <2>2. CASE ~IoDies
    BY <1>1, <1>9, <1>15, <2>2, Here DEF TakeMem, At, Name
  <2> QED BY <2>1, <2>2
<1>16. CASE CallBlocking
  <2>1. CASE endpoint' = "posted"
    BY <1>16, <2>1 DEF CallBlocking, At
  <2>2. CASE endpoint' = "free"
    BY <1>1, <1>9, <1>16, <2>2, Here DEF CallBlocking, At, Name
  <2> QED BY <1>16, <2>1, <2>2 DEF CallBlocking
<1>17. CASE StartBackend
  <2>1. CASE CallFails
    BY <1>5, <1>17, <2>1 DEF StartBackend, At
  <2>2. CASE ~CallFails
    BY <1>1, <1>9, <1>17, <2>2, Here DEF StartBackend, At, Name
  <2> QED BY <2>1, <2>2
<1>18. CASE SetActivated
  BY <1>18 DEF SetActivated, At
<1>19. CASE NotifyIoCompleted
  <2>1. CASE IoDies
    BY <1>4, <1>19, <2>1 DEF NotifyIoCompleted, At
  <2>2. CASE ~IoDies
    BY <1>19, <2>2 DEF NotifyIoCompleted, At
  <2> QED BY <2>1, <2>2
<1>20. CASE RunEventManager
  BY <1>20 DEF RunEventManager, AddSubscriber, HandleQueue, PtyHandlerPanics, At
<1>21. CASE BackendHandlesQueue
  BY <1>21 DEF BackendHandlesQueue, At
<1> QED BY <1>2, <1>3, <1>6, <1>7, <1>8, <1>10, <1>11, <1>12, <1>13, <1>14,
           <1>15, <1>16, <1>17, <1>18, <1>19, <1>20, <1>21 DEF Next, RunIo
-----------------------------------------------------------------------------
(* What is attached. *)

LEMMA AttachInit == Init => AttachInv
<1> SUFFICES ASSUME Init PROVE AttachInv
  OBVIOUS
<1>1. kind \in Kinds /\ PlaneOf(kind) = Plane[kind]
  BY PlaneIs DEF Init
<1>2. Attachments(kind) \in {1, 2}
  BY <1>1, ActivateBegins
<1> QED BY <1>1, <1>2 DEF Init, AttachInv, Activating, InitialRegions, HasEventManager

LEMMA AttachStep ==
    ASSUME TypeOK, CallInv, AttachInv, ConsoleInv, [Next]_vars
    PROVE  AttachInv'
<1> USE DEF AttachInv, fixed, guest, ioLocal, device, Kept, evmSide
<1> DEFINE P == PrepareAt[kind]
           O == OnceAt[kind]
<1>1. /\ P \in Nat /\ O \in Nat /\ 1 <= P /\ P < O
      /\ AttachedBy(kind, 1) = 0 /\ Attachments(kind) \in {1, 2}
      /\ step \in Nat \ {0} /\ attached \in Nat
  BY ActivateBegins, Here DEF TypeOK
<1>2. CASE UNCHANGED vars
  BY <1>2 DEF vars, Activating
<1>3. ASSUME NEW c \in Cpus, Guest(c)
      PROVE  AttachInv'
  <2>1. UNCHANGED <<fixed, ioLocal, device, attached, watched, endpoint, evm>>
    BY <1>3 DEF Guest, Trap, WriteFeatures, WriteDriverOk, WriteReset, Notify
  <2> QED BY <2>1 DEF Activating
<1>4. ASSUME IoDies
      PROVE  AttachInv'
  BY <1>4 DEF IoDies, DropTap, Activating
<1>5. ASSUME CallFails
      PROVE  AttachInv'
  BY <1>4, <1>5 DEF CallFails, DropTap, Activating
<1>6. CASE LockDeviceModel
  BY <1>6 DEF LockDeviceModel, Activating
<1>7. CASE AttachIoClient
  BY <1>4, <1>7 DEF AttachIoClient, Activating
<1>8. CASE Dispatch
  <2>1. CASE IoDies
    BY <1>4, <2>1
  <2>2. CASE ~IoDies
    <3>1. /\ UNCHANGED <<fixed, regions, queues, ioeventfds, evmSide>>
          /\ activated' \in {activated, FALSE}
      BY <1>8, <2>2 DEF Dispatch, NegotiateDriverFeatures, TypeOK
    <3>2. iopc' = "complete" \/ (iopc' = "activate" /\ step' = 1)
      BY <1>8, <2>2 DEF Dispatch, NegotiateDriverFeatures
    <3>3. endpoint = "free"
      BY <1>8 DEF Dispatch, CallInv, At
    <3>4. activated' => activated
      BY <3>1, Zenon
    <3> QED BY <1>1, <3>1, <3>2, <3>3, <3>4 DEF Activating
  <2> QED BY <2>1, <2>2
<1>9. ASSUME CallReturns, iopc \in {"activate", "register"}, step # O,
             AttachedBy(kind, step + 1) = AttachedBy(kind, step),
             UNCHANGED <<activated, regions, ioeventfds, attached, watched, evm>>,
             endpoint = "free", endpoint' = "free"
      PROVE  AttachInv'
  BY <1>1, <1>9 DEF CallReturns, Activating
<1>10. CASE Open
  <2>1. CASE CallFails
    BY <1>5, <2>1
  <2> QED BY <2>1, <1>9, <1>10, Here DEF Open, At, Name, OtherCalls, CallInv
<1>11. CASE OpenTap
  <2>1. CASE CallFails
    BY <1>5, <2>1
  <2> QED BY <2>1, <1>9, <1>11, Here DEF OpenTap, At, Name, OtherCalls, CallInv
<1>12. CASE ConfigureTap
  <2>1. CASE CallFails
    BY <1>5, <2>1
  <2> QED BY <2>1, <1>9, <1>12, Here DEF ConfigureTap, At, Name, OtherCalls, CallInv
<1>13. CASE PrepareActivate
  <2>1. CASE CallFails
    BY <1>5, <2>1
  <2>2. CASE ~CallFails
    BY <1>13, <2>2 DEF PrepareActivate, At, Activating
  <2> QED BY <2>1, <2>2
<1>14. CASE RegisterIoeventfd
  <2>1. CASE IoDies
    BY <1>4, <2>1
  <2>2. CASE \E q \in queues \ ioeventfds : ioeventfds' = ioeventfds \cup {q}
    BY <1>14, <2>1, <2>2 DEF RegisterIoeventfd, CallReturns, Activating
  <2>3. CASE CallReturns /\ UNCHANGED <<device, evmSide>>
    <3>1. endpoint = "free"
      BY <1>14 DEF RegisterIoeventfd, CallInv, At
    <3>2. AttachedBy(kind, step + 1) = AttachedBy(kind, step)
      BY <1>14, KindsAre
         DEF RegisterIoeventfd, CallInv, TypeOK, KindNames, AttachedBy, PrepareAt, OnceAt
    <3> QED BY <1>1, <1>9, <1>14, <2>3, <3>1, <3>2 DEF RegisterIoeventfd, CallInv
  <2> QED BY <1>14, <2>1, <2>2, <2>3 DEF RegisterIoeventfd
<1>15. CASE TakeMem
  <2>1. CASE IoDies
    BY <1>4, <2>1
  <2>2. CASE ~IoDies
    <3>1. regions = 1 /\ regions' = 0 /\ attached = 0 /\ endpoint = "free"
      BY <1>15, <2>2 DEF TakeMem, TypeOK, CallInv, At
    <3>2. step = O /\ AttachedBy(kind, step + 1) = AttachedBy(kind, step)
      BY <1>15, Here DEF TakeMem, At, Name
    <3> QED BY <1>1, <1>15, <2>2, <3>1, <3>2 DEF TakeMem, CallReturns, At, Activating
  <2> QED BY <2>1, <2>2
<1>16. CASE CallBlocking
  <2>1. /\ step > O
        /\ AttachedBy(kind, step + 1) = AttachedBy(kind, step) + 1
        /\ AttachedBy(kind, step) \in Nat
    BY <1>1, <1>16, Here DEF CallBlocking, At, Name
  <2>2. CASE endpoint' = "posted"
    BY <1>1, <1>16, <2>1, <2>2 DEF CallBlocking, At, Activating
  <2>3. CASE endpoint' = "free"
    BY <1>1, <1>16, <2>1, <2>3 DEF CallBlocking, CallReturns, At, Activating
  <2> QED BY <1>16, <2>2, <2>3 DEF CallBlocking
<1>17. CASE StartBackend
  <2>1. CASE CallFails
    BY <1>5, <2>1
  <2>2. CASE ~CallFails
    <3>1. /\ iopc = "activate" /\ endpoint = "free" /\ kind \in Kinds
          /\ PlaneOf(kind) = Plane[kind]
      BY <1>17, PlaneIs DEF StartBackend, At, CallInv, TypeOK
    <3>2. /\ Plane[kind] # "virtio" /\ step > P
          /\ IF Plane[kind] = "vhost" THEN step = O ELSE step > O
          /\ AttachedBy(kind, step) = 0 /\ AttachedBy(kind, step + 1) = 1
      BY <1>17, Here DEF StartBackend, At, Name
    <3>3. regions = 0 /\ attached = 0
      BY <1>1, <1>17, <2>2, <3>1, <3>2 DEF StartBackend, Activating, TypeOK
    <3>4. ~activated /\ QueuesOf(kind) \subseteq ioeventfds
      BY <3>1, <3>2 DEF CallInv
    <3> QED BY <1>1, <1>17, <2>2, <3>1, <3>2, <3>3, <3>4
            DEF StartBackend, CallReturns, Activating
  <2> QED BY <2>1, <2>2
<1>18. CASE SetActivated
  <2>1. step > O /\ AttachedBy(kind, step) = Attachments(kind)
    BY <1>18, Here DEF SetActivated, At, Name
  <2>2. endpoint = "free" /\ iopc = "activate"
    BY <1>18 DEF SetActivated, At, CallInv
  <2> QED BY <1>1, <1>18, <2>1, <2>2 DEF SetActivated, Activating
<1>19. CASE NotifyIoCompleted
  <2>1. CASE IoDies
    BY <1>4, <2>1
  <2>2. CASE ~IoDies
    BY <1>19, <2>2 DEF NotifyIoCompleted, Activating
  <2> QED BY <2>1, <2>2
<1>20. CASE AddSubscriber
  <2>1. iopc = "activate" /\ Name = "subscribe"
    BY <1>20 DEF AddSubscriber, CallInv, At, Name
  <2>2. /\ step > O /\ Plane[kind] = "virtio"
        /\ AttachedBy(kind, step) \in 0 .. Attachments(kind) - 1
    BY <2>1, Here
  <2>3. attached = AttachedBy(kind, step) /\ regions = 0
    BY <1>1, <1>20, <2>1, <2>2 DEF AddSubscriber, Activating
  <2>4. ~activated /\ QueuesOf(kind) \subseteq ioeventfds
    BY <1>1, <2>1, <2>2 DEF CallInv
  <2> QED BY <1>1, <1>20, <2>1, <2>2, <2>3, <2>4 DEF AddSubscriber, Activating
<1>21. CASE HandleQueue
  <2>1. attached = Attachments(kind)
    <3>1. doorbell # {} /\ watched # {}
      BY <1>21 DEF HandleQueue
    <3>2. CASE kind = "VirtioConsole"
      BY <3>1, <3>2 DEF ConsoleInv
    <3>3. CASE kind # "VirtioConsole"
      BY <3>1, <3>3, <1>1 DEF Attachments
    <3> QED BY <3>2, <3>3
  <2>2. /\ evm = "epoll" /\ evm' \in {"epoll", "blocked", "dead"}
        /\ watched' \in {watched, {}}
        /\ UNCHANGED <<fixed, ioLocal, device, attached, endpoint>>
    BY <1>21 DEF HandleQueue
  <2> QED BY <1>1, <2>1, <2>2 DEF Activating
<1>22. CASE BackendHandlesQueue
  BY <1>22 DEF BackendHandlesQueue, Activating
<1>23. CASE PtyHandlerPanics
  BY <1>23 DEF PtyHandlerPanics, Attachments, Activating
<1> QED BY <1>2, <1>3, <1>6, <1>7, <1>8, <1>10, <1>11, <1>12, <1>13, <1>14,
           <1>15, <1>16, <1>17, <1>18, <1>19, <1>20, <1>21, <1>23, <1>22
        DEF Next, RunIo, RunEventManager

(* activate() sets the flag when everything is attached. *)
LEMMA AllAttached ==
    ASSUME TypeOK, CallInv, AttachInv, At("done")
    PROVE  attached = Attachments(kind)
<1>1. iopc = "activate" /\ endpoint = "free"
  BY DEF At, CallInv
<1>2. step > OnceAt[kind] /\ AttachedBy(kind, step) = Attachments(kind)
  BY Here DEF At, Name
<1>3. step \in Nat /\ OnceAt[kind] \in Nat /\ Attachments(kind) \in Nat
  BY Here, ActivateBegins DEF TypeOK
<1> QED BY <1>1, <1>2, <1>3 DEF AttachInv, Activating

-----------------------------------------------------------------------------
(* The tap. *)

LEMMA TapInit == Init => TapReleased
BY DEF Init, TapReleased

LEMMA TapStep ==
    ASSUME TypeOK, CallInv, AttachInv, TapReleased, [Next]_vars
    PROVE  TapReleased'
<1> USE DEF TapReleased, fixed, guest, ioLocal, device, Kept, evmSide
<1>1. attached \in Nat /\ tap \in BOOLEAN
  BY DEF TypeOK
<1>2. CASE UNCHANGED vars
  BY <1>2 DEF vars
<1>3. ASSUME NEW c \in Cpus, Guest(c)
      PROVE  TapReleased'
  <2>1. UNCHANGED <<ioLocal, device, attached>>
    BY <1>3 DEF Guest, Trap, WriteFeatures, WriteDriverOk, WriteReset, Notify
  <2> QED BY <2>1
<1>4. ASSUME IoDies
      PROVE  TapReleased'
  BY <1>4 DEF IoDies, DropTap
<1>5. ASSUME CallFails
      PROVE  TapReleased'
  BY <1>4, <1>5 DEF CallFails, DropTap
<1>6. CASE LockDeviceModel
  BY <1>6 DEF LockDeviceModel
<1>7. CASE AttachIoClient
  BY <1>4, <1>7 DEF AttachIoClient
<1>8. CASE Dispatch
  BY <1>4, <1>8 DEF Dispatch, NegotiateDriverFeatures
<1>9. ASSUME CallReturns
      PROVE  TapReleased'
  BY <1>9 DEF CallReturns
<1>10. CASE Open \/ OpenTap \/ ConfigureTap
  BY <1>5, <1>9, <1>10 DEF Open, OpenTap, ConfigureTap
<1>11. CASE PrepareActivate
  BY <1>5, <1>11 DEF PrepareActivate
<1>12. CASE RegisterIoeventfd
  BY <1>4, <1>9, <1>12 DEF RegisterIoeventfd
<1>13. CASE TakeMem
  BY <1>4, <1>9, <1>13 DEF TakeMem
<1>14. CASE CallBlocking
  BY <1>9, <1>14 DEF CallBlocking, At
<1>15. CASE StartBackend
  BY <1>5, <1>9, <1>15 DEF StartBackend
<1>16. CASE SetActivated
  <2>1. attached = Attachments(kind)
    BY <1>16, AllAttached DEF SetActivated
  <2>2. Attachments(kind) > 0
    BY ActivateBegins DEF TypeOK
  <2> QED BY <1>16, <2>1, <2>2 DEF SetActivated
<1>17. CASE NotifyIoCompleted
  BY <1>4, <1>17 DEF NotifyIoCompleted
<1>18. CASE RunEventManager \/ BackendHandlesQueue
  <2>1. UNCHANGED <<ioLocal, device>> /\ attached' \in {attached, attached + 1}
    BY <1>18 DEF RunEventManager, AddSubscriber, HandleQueue, PtyHandlerPanics,
                 BackendHandlesQueue
  <2> QED BY <1>1, <2>1
<1> QED BY <1>2, <1>3, <1>6, <1>7, <1>8, <1>10, <1>11, <1>12, <1>13, <1>14,
           <1>15, <1>16, <1>17, <1>18 DEF Next, RunIo

-----------------------------------------------------------------------------
(* The queues of a console. *)

(* Only a call that comes before OnceAt returns its error, and no call of a *)
(* console does.                                                             *)
LEMMA ReturnedError ==
    ASSUME TypeOK, Activate[kind][step].onError # "panic"
    PROVE  step < OnceAt[kind] /\ kind # "VirtioConsole"
<1>1. Activate[kind] \in Seq(Calls) /\ step \in 1 .. Len(Activate[kind])
  BY CallsAre DEF TypeOK, CallsOf
<1>2. Activate[kind][step] \in Calls
  BY <1>1
<1>3. Activate[kind][step].onError = "return"
  BY <1>2 DEF Calls
<1> QED BY <1>3, Here

LEMMA ConsoleIs ==
    /\ "VirtioConsole" \in Kinds => PlaneOf("VirtioConsole") = "virtio"
    /\ TypeOf("VirtioConsole") = "console"
    /\ Attachments("VirtioConsole") = 2
<1>1. \A t \in DOMAIN AddDevice : \A p \in DOMAIN AddDevice[t] :
        AddDevice[t][p] = "VirtioConsole" <=> t = "console"
  BY DEF AddDevice
<1>2. "console" \in DOMAIN AddDevice /\ DOMAIN AddDevice["console"] # {}
  BY DEF AddDevice
<1>3. TypeOf("VirtioConsole") = "console"
  BY <1>1, <1>2 DEF TypeOf
<1> QED BY <1>3, PlaneIs DEF Plane, Attachments

LEMMA KindStays ==
    ASSUME [Next]_vars
    PROVE  kind' = kind
<1> USE DEF fixed
<1>1. ASSUME IoDies \/ CallFails \/ CallReturns
      PROVE  kind' = kind
  BY <1>1 DEF IoDies, CallFails, CallReturns
<1>2. ASSUME NEW c \in Cpus, Guest(c)
      PROVE  kind' = kind
  BY <1>2 DEF Guest, Trap, WriteFeatures, WriteDriverOk, WriteReset, Notify
<1>3. CASE LockDeviceModel \/ AttachIoClient \/ Dispatch \/ NotifyIoCompleted
  BY <1>1, <1>3 DEF LockDeviceModel, AttachIoClient, Dispatch, NegotiateDriverFeatures,
                    NotifyIoCompleted
<1>4. CASE Open \/ OpenTap \/ ConfigureTap \/ PrepareActivate \/ RegisterIoeventfd
  BY <1>1, <1>4 DEF Open, OpenTap, ConfigureTap, PrepareActivate, RegisterIoeventfd
<1>5. CASE TakeMem \/ CallBlocking \/ StartBackend \/ SetActivated
  BY <1>1, <1>5 DEF TakeMem, CallBlocking, StartBackend, SetActivated
<1>6. CASE RunEventManager \/ BackendHandlesQueue
  BY <1>6 DEF RunEventManager, AddSubscriber, HandleQueue, PtyHandlerPanics,
              BackendHandlesQueue
<1> QED BY <1>2, <1>3, <1>4, <1>5, <1>6 DEF Next, RunIo, vars

LEMMA ConsoleInit == Init => ConsoleInv
BY DEF Init, ConsoleInv

LEMMA ConsoleStep ==
    ASSUME TypeOK, CallInv, AttachInv, AccessInv, ConsoleInv, [Next]_vars
    PROVE  ConsoleInv'
<1> SUFFICES ASSUME kind = "VirtioConsole"
             PROVE  ConsoleInv'
  <2>1. kind' = kind
    BY KindStays
  <2> QED BY <2>1 DEF ConsoleInv
<1> USE DEF fixed, guest, ioLocal, device, Kept, evmSide
<1>1. /\ attached <= Attachments(kind) /\ attached \in Nat
      /\ Attachments(kind) = 2 /\ PlaneOf(kind) = "virtio"
      /\ TypeOf(kind) \notin {"net", "vsock"}
  BY ConsoleIs DEF AttachInv, TypeOK
\* A step that rings nothing and attaches nothing outside activate().
<1>2. ASSUME UNCHANGED <<kind, ioeventfds, doorbell, attached>>,
             driver' = driver \/ driver # "starting",
             iopc' = iopc \/ iopc' = "dead" \/ (Activating /\ Activating')
               \/ iopc \notin {"activate", "register", "dead"}
      PROVE  ConsoleInv'
  BY <1>2 DEF ConsoleInv, Activating
<1>3. CASE UNCHANGED vars
  BY <1>2, <1>3 DEF vars
<1>4. ASSUME NEW c \in Cpus, Guest(c)
      PROVE  ConsoleInv'
  <2>1. CASE Notify(c)
    <3>1. driver = "live"
      BY <1>1, <2>1 DEF Notify, MayNotify
    <3>2. doorbell' = doorbell \/ ioeventfds # {}
      BY <2>1 DEF Notify
    <3>3. UNCHANGED <<kind, driver, iopc, ioeventfds, attached>>
      BY <2>1 DEF Notify
    <3> QED BY <3>1, <3>2, <3>3 DEF ConsoleInv
  <2>2. CASE ~Notify(c)
    BY <1>2, <1>4, <2>2 DEF Guest, Trap, WriteFeatures, WriteDriverOk, WriteReset
  <2> QED BY <2>1, <2>2
<1>5. ASSUME IoDies
      PROVE  ConsoleInv'
  BY <1>2, <1>5 DEF IoDies, DropTap
<1>6. ASSUME CallFails
      PROVE  ConsoleInv'
  <2>1. Activate[kind][step].onError = "panic"
    BY ReturnedError
  <2> QED BY <1>5, <1>6, <2>1 DEF CallFails
<1>7. ASSUME CallReturns, Activating, UNCHANGED <<ioeventfds, doorbell, attached>>
      PROVE  ConsoleInv'
  BY <1>2, <1>7 DEF CallReturns, Activating
<1>8. CASE LockDeviceModel
  BY <1>2, <1>8 DEF LockDeviceModel
<1>9. CASE AttachIoClient
  BY <1>2, <1>5, <1>9 DEF AttachIoClient
<1>10. CASE Dispatch
  BY <1>2, <1>5, <1>10 DEF Dispatch, NegotiateDriverFeatures
<1>11. CASE Open \/ OpenTap \/ ConfigureTap
  BY <1>6, <1>7, <1>11 DEF Open, OpenTap, ConfigureTap, At, Activating
<1>12. CASE PrepareActivate
  BY <1>2, <1>6, <1>12 DEF PrepareActivate, At, Activating
<1>13. CASE RegisterIoeventfd
  <2>1. CASE \E q \in queues \ ioeventfds :
                ioeventfds' = ioeventfds \cup {q} /\ iopc' = iopc
    <3>1. driver = "starting"
      BY <1>13 DEF RegisterIoeventfd, AccessInv, DriverOps, Activating, TypeOK
    <3>2. UNCHANGED <<kind, driver, doorbell, attached>>
      BY <1>13, <2>1 DEF RegisterIoeventfd, CallReturns, IoDies
    <3> QED BY <1>13, <2>1, <3>1, <3>2 DEF RegisterIoeventfd, ConsoleInv
  <2> QED BY <1>5, <1>7, <1>13, <2>1 DEF RegisterIoeventfd, Activating
<1>14. CASE TakeMem
  BY <1>5, <1>7, <1>14 DEF TakeMem, At, Activating
<1>15. CASE CallBlocking
  BY <1>2, <1>7, <1>15 DEF CallBlocking, At, Activating
<1>16. CASE StartBackend
  BY <1>1, <1>16, Here DEF StartBackend, At, Name, Plane
<1>17. CASE SetActivated
  <2>1. attached = Attachments(kind)
    BY <1>17, AllAttached DEF SetActivated
  <2> QED BY <1>17, <2>1 DEF SetActivated, ConsoleInv
<1>18. CASE NotifyIoCompleted
  <2>1. CASE ~IoDies
    BY <1>18, <2>1 DEF NotifyIoCompleted, ConsoleInv
  <2> QED BY <1>5, <2>1
<1>19. CASE AddSubscriber
  <2>1. /\ iopc = "activate" /\ Activating /\ Name = "subscribe" /\ endpoint = "posted"
    BY <1>19 DEF AddSubscriber, CallInv, At, Name, Activating
  <2>2. driver = "starting"
    BY <2>1 DEF AccessInv, DriverOps, TypeOK
  <2>3. /\ step > OnceAt[kind] /\ step \in Nat /\ OnceAt[kind] \in Nat
        /\ AttachedBy(kind, step) \in 0 .. Attachments(kind) - 1
    BY <2>1, Here, ActivateBegins DEF TypeOK
  <2>4. attached = AttachedBy(kind, step)
    BY <2>1, <2>3 DEF AttachInv
  <2>5. doorbell = {}
    BY <1>1, <2>3, <2>4 DEF ConsoleInv
  <2> QED BY <1>19, <2>1, <2>2, <2>5 DEF AddSubscriber, ConsoleInv
<1>20. CASE HandleQueue \/ PtyHandlerPanics \/ BackendHandlesQueue
  <2>1. UNCHANGED <<kind, driver, iopc, ioeventfds, attached>>
        /\ (doorbell = {} => doorbell' = {})
    BY <1>20 DEF HandleQueue, PtyHandlerPanics, BackendHandlesQueue
  <2> QED BY <2>1 DEF ConsoleInv
<1> QED BY <1>3, <1>4, <1>8, <1>9, <1>10, <1>11, <1>12, <1>13, <1>14, <1>15,
           <1>16, <1>17, <1>18, <1>19, <1>20 DEF Next, RunIo, RunEventManager

-----------------------------------------------------------------------------
(* Accesses and the driver. *)

LEMMA AccessInit == Init => AccessInv
BY DEF Init, AccessInv, Activating, DriverOps

(* A step of activate() or of another thread leaves the access alone. *)
LEMMA AccessKept ==
    ASSUME TypeOK, AccessInv, UNCHANGED guest, hand' = hand,
           \/ iopc' = iopc \/ iopc' = "dead"
           \/ Activating /\ iopc' \in {"activate", "register", "complete"}
    PROVE  AccessInv'
BY DEF TypeOK, AccessInv, guest, Activating

LEMMA AccessStep ==
    ASSUME TypeOK, AccessInv, [Next]_vars
    PROVE  AccessInv'
<1> USE DEF fixed, guest, ioLocal, device, Kept, evmSide
<1>1. CASE UNCHANGED vars
  BY <1>1, AccessKept DEF vars
<1>2. ASSUME NEW c \in Cpus, Guest(c)
      PROVE  AccessInv'
  <2> USE DEF TypeOK, Ops, AccessInv, DriverOps, Activating
  <2>1. CASE Trap(c)
    BY <2>1 DEF Trap
  <2>2. CASE WriteFeatures(c)
    BY <2>2 DEF WriteFeatures
  <2>3. CASE WriteDriverOk(c)
    BY <2>3 DEF WriteDriverOk
  <2>4. CASE WriteReset(c)
    BY <2>4 DEF WriteReset
  <2>5. CASE Notify(c)
    BY <2>5 DEF Notify
  <2> QED BY <1>2, <2>1, <2>2, <2>3, <2>4, <2>5 DEF Guest
<1>3. ASSUME IoDies
      PROVE  AccessInv'
  BY <1>3, AccessKept DEF IoDies
<1>4. ASSUME CallFails, Activating
      PROVE  AccessInv'
  BY <1>3, <1>4, AccessKept DEF CallFails
<1>5. CASE LockDeviceModel
  BY <1>5 DEF LockDeviceModel, AccessInv, Activating
<1>6. CASE AttachIoClient
  BY <1>3, <1>6 DEF AttachIoClient, AccessInv, Activating
<1>7. CASE Dispatch
  <2>1. CASE IoDies
    BY <1>3, <2>1
  <2>2. CASE ~IoDies
    BY <1>7, <2>2 DEF Dispatch, NegotiateDriverFeatures, AccessInv, Activating
  <2> QED BY <2>1, <2>2
<1>8. ASSUME CallReturns, Activating
      PROVE  AccessInv'
  BY <1>8, AccessKept DEF CallReturns
<1>9. CASE Open \/ OpenTap \/ ConfigureTap
  BY <1>4, <1>8, <1>9 DEF Open, OpenTap, ConfigureTap, At, Activating
<1>10. CASE PrepareActivate
  BY <1>4, <1>10, AccessKept DEF PrepareActivate, At, Activating
<1>11. CASE RegisterIoeventfd
  BY <1>3, <1>8, <1>11, AccessKept DEF RegisterIoeventfd, Activating
<1>12. CASE TakeMem
  BY <1>3, <1>8, <1>12 DEF TakeMem, At, Activating
<1>13. CASE CallBlocking
  BY <1>8, <1>13, AccessKept DEF CallBlocking, At, Activating
<1>14. CASE StartBackend
  BY <1>4, <1>8, <1>14 DEF StartBackend, At, Activating
<1>15. CASE SetActivated
  BY <1>15, AccessKept DEF SetActivated, At, Activating
<1>16. CASE NotifyIoCompleted
  <2>1. CASE IoDies
    BY <1>3, <2>1
  <2>2. CASE ~IoDies
    BY <1>16, <2>2 DEF NotifyIoCompleted, TypeOK, AccessInv, DriverOps, Activating
  <2> QED BY <2>1, <2>2
<1>17. CASE RunEventManager \/ BackendHandlesQueue
  <2>1. UNCHANGED <<guest, ioLocal>>
    BY <1>17 DEF RunEventManager, AddSubscriber, HandleQueue, PtyHandlerPanics,
                 BackendHandlesQueue
  <2> QED BY <2>1, AccessKept
<1> QED BY <1>1, <1>2, <1>5, <1>6, <1>7, <1>9, <1>10, <1>11, <1>12, <1>13,
           <1>14, <1>15, <1>16, <1>17 DEF Next, RunIo
-----------------------------------------------------------------------------
(* Features. *)

LEMMA OfferedByVhostUser ==
    ASSUME NEW k \in Kinds, NEW f \in BackendFeatures(k), Plane[k] = "vhost_user"
    PROVE  Offered(k, f) = f
<1>1. PlaneOf(k) = "vhost_user"
  BY PlaneIs
<1>2. "VERSION_1" \in f
  BY <1>1 DEF BackendFeatures, HasEventManager, Features
<1>3. DeviceFeatures[k] = {}
  BY KindsAre DEF DeviceFeatures, Plane, KindNames
<1> QED BY <1>1, <1>2, <1>3 DEF Offered

LEMMA FeatureInit == Init => FeatureInv
BY DEF Init, FeatureInv

LEMMA FeatureStep ==
    ASSUME TypeOK, AccessInv, FeatureInv, [Next]_vars
    PROVE  FeatureInv'
<1> USE DEF FeatureInv, fixed, guest, ioLocal, device, Kept, evmSide
<1>1. kind \in Kinds /\ PlaneOf(kind) = Plane[kind]
  BY PlaneIs DEF TypeOK
<1>2. CASE UNCHANGED vars
  BY <1>2 DEF vars
<1>3. ASSUME NEW c \in Cpus, Guest(c)
      PROVE  FeatureInv'
  <2> USE DEF AccessInv, DriverOps, TypeOK
  <2>1. CASE Trap(c)
    BY <2>1 DEF Trap
  <2>2. CASE WriteFeatures(c)
    BY <2>2 DEF WriteFeatures
  <2>3. CASE WriteDriverOk(c)
    BY <2>3 DEF WriteDriverOk
  <2>4. CASE WriteReset(c)
    BY <2>4 DEF WriteReset
  <2>5. CASE Notify(c)
    BY <2>5 DEF Notify
  <2> QED BY <1>3, <2>1, <2>2, <2>3, <2>4, <2>5 DEF Guest
<1>4. ASSUME IoDies
      PROVE  FeatureInv'
  BY <1>4 DEF IoDies, DropTap
<1>5. ASSUME CallFails, Activating
      PROVE  FeatureInv'
  BY <1>4, <1>5 DEF CallFails, DropTap, AccessInv
<1>6. CASE LockDeviceModel
  BY <1>6 DEF LockDeviceModel
<1>7. CASE AttachIoClient
  BY <1>4, <1>7 DEF AttachIoClient
<1>8. CASE Dispatch
  <2>1. CASE IoDies
    BY <1>4, <2>1
  <2>2. CASE access[hand] = "features" /\ ~IoDies
    <3>1. /\ UNCHANGED <<kind, supported, access, hand, acked, driver>>
          /\ Plane[kind] = "vhost_user" => ringFeatures' = acked \cap supported
      BY <1>1, <1>8, <2>2 DEF Dispatch, NegotiateDriverFeatures
    <3>2. Plane[kind] = "vhost_user" => acked \cap supported = acked
      BY <1>1, OfferedByVhostUser
    <3> QED BY <3>1, <3>2
  <2>3. CASE access[hand] # "features" /\ ~IoDies
    BY <1>8, <2>3 DEF Dispatch
  <2> QED BY <2>1, <2>2, <2>3
<1>9. ASSUME CallReturns, UNCHANGED ringFeatures
      PROVE  FeatureInv'
  BY <1>9 DEF CallReturns
<1>10. CASE Open \/ OpenTap \/ ConfigureTap
  BY <1>5, <1>9, <1>10 DEF Open, OpenTap, ConfigureTap, At, Activating
<1>11. CASE PrepareActivate
  BY <1>5, <1>11 DEF PrepareActivate, At, Activating
<1>12. CASE RegisterIoeventfd
  BY <1>4, <1>9, <1>12 DEF RegisterIoeventfd
<1>13. CASE TakeMem
  BY <1>4, <1>9, <1>13 DEF TakeMem
<1>14. CASE CallBlocking
  BY <1>9, <1>14 DEF CallBlocking, At
<1>15. CASE StartBackend
  BY <1>1, <1>5, <1>15 DEF StartBackend, CallReturns, At, Activating
<1>16. CASE SetActivated
  BY <1>16 DEF SetActivated, At, AccessInv, Activating
<1>17. CASE NotifyIoCompleted
  <2>1. CASE IoDies
    BY <1>4, <2>1
  <2>2. CASE ~IoDies
    BY <1>17, <2>2 DEF NotifyIoCompleted, AccessInv, DriverOps
  <2> QED BY <2>1, <2>2
<1>18. CASE RunEventManager \/ BackendHandlesQueue
  <2>1. UNCHANGED <<fixed, guest, ioLocal, device>>
    BY <1>18 DEF RunEventManager, AddSubscriber, HandleQueue, PtyHandlerPanics,
                 BackendHandlesQueue
  <2> QED BY <2>1
<1> QED BY <1>2, <1>3, <1>6, <1>7, <1>8, <1>10, <1>11, <1>12, <1>13, <1>14,
           <1>15, <1>16, <1>17, <1>18 DEF Next, RunIo

-----------------------------------------------------------------------------
(* Mutexes. *)

LEMMA LockStep ==
    ASSUME LockInv, [Next]_vars
    PROVE  LockInv'
<1> USE DEF LockInv, Activating, fixed, guest, ioLocal
<1>1. CASE UNCHANGED vars
  BY <1>1 DEF vars
<1>2. ASSUME NEW c \in Cpus, Guest(c)
      PROVE  LockInv'
  BY <1>2 DEF Guest, Trap, WriteFeatures, WriteDriverOk, WriteReset, Notify
<1>3. ASSUME IoDies
      PROVE  LockInv'
  BY <1>3 DEF IoDies
<1>4. ASSUME CallFails, Activating
      PROVE  LockInv'
  BY <1>3, <1>4 DEF CallFails
<1>5. ASSUME CallReturns, Activating
      PROVE  LockInv'
  BY <1>5 DEF CallReturns
<1>6. CASE LockDeviceModel
  BY <1>6 DEF LockDeviceModel
<1>7. CASE AttachIoClient
  BY <1>3, <1>7 DEF AttachIoClient
<1>8. CASE Dispatch
  BY <1>3, <1>8 DEF Dispatch, NegotiateDriverFeatures
<1>9. CASE Open \/ OpenTap \/ ConfigureTap \/ PrepareActivate
  BY <1>4, <1>5, <1>9 DEF Open, OpenTap, ConfigureTap, PrepareActivate, At
<1>10. CASE RegisterIoeventfd \/ TakeMem
  BY <1>3, <1>5, <1>10 DEF RegisterIoeventfd, TakeMem, At
<1>11. CASE CallBlocking \/ StartBackend
  BY <1>4, <1>5, <1>11 DEF CallBlocking, StartBackend, At
<1>12. CASE SetActivated
  BY <1>12 DEF SetActivated, At
<1>13. CASE NotifyIoCompleted
  BY <1>3, <1>13 DEF NotifyIoCompleted
<1>14. CASE RunEventManager \/ BackendHandlesQueue
  BY <1>14 DEF RunEventManager, AddSubscriber, HandleQueue, PtyHandlerPanics,
               BackendHandlesQueue
<1> QED BY <1>1, <1>2, <1>6, <1>7, <1>8, <1>9, <1>10, <1>11, <1>12, <1>13,
           <1>14 DEF Next, RunIo

-----------------------------------------------------------------------------
(* What a failed activation leaves. *)

LEMMA FreshStep ==
    ASSUME TypeOK, CallInv, AttachInv, FreshInv, [Next]_vars
    PROVE  FreshInv'
<1> USE DEF FreshInv, Revocable, Activating, fixed, guest, ioLocal, device, Kept, evmSide
<1>1. /\ OnceAt[kind] \in Nat /\ PrepareAt[kind] \in Nat
      /\ 1 <= OnceAt[kind] /\ PrepareAt[kind] < OnceAt[kind]
      /\ step \in Nat
  BY ActivateBegins, Here DEF TypeOK
<1>2. CASE UNCHANGED vars
  BY <1>2 DEF vars
<1>3. ASSUME NEW c \in Cpus, Guest(c)
      PROVE  FreshInv'
  BY <1>3 DEF Guest, Trap, WriteFeatures, WriteDriverOk, WriteReset, Notify
<1>4. ASSUME IoDies
      PROVE  FreshInv'
  BY <1>4 DEF IoDies
<1>5. ASSUME CallFails, Activating
      PROVE  FreshInv'
  <2>1. CASE Activate[kind][step].onError = "panic"
    BY <1>4, <1>5, <2>1 DEF CallFails
  <2>2. CASE Activate[kind][step].onError # "panic"
    <3>1. step < OnceAt[kind]
      BY <2>2, ReturnedError
    <3> QED BY <1>1, <1>5, <2>2, <3>1 DEF CallFails, DropTap
  <2> QED BY <2>1, <2>2
<1>6. ASSUME CallReturns, Activating, UNCHANGED <<regions, queues, attached>>
      PROVE  FreshInv'
  BY <1>1, <1>6 DEF CallReturns
<1>7. CASE LockDeviceModel
  BY <1>7 DEF LockDeviceModel
<1>8. CASE AttachIoClient
  BY <1>4, <1>8 DEF AttachIoClient
<1>9. CASE Dispatch
  <2>1. CASE IoDies
    BY <1>4, <2>1
  <2>2. CASE ~IoDies
    <3>1. /\ iopc = "dispatch"
          /\ iopc' = "complete" \/ (iopc' = "activate" /\ step' = 1)
          /\ UNCHANGED <<fixed, regions, queues, attached>>
      BY <1>9, <2>2 DEF Dispatch, NegotiateDriverFeatures
    <3> QED BY <1>1, <3>1
  <2> QED BY <2>1, <2>2
<1>10. CASE Open \/ OpenTap \/ ConfigureTap
  BY <1>5, <1>6, <1>10 DEF Open, OpenTap, ConfigureTap, At
<1>11. CASE PrepareActivate
  BY <1>5, <1>11 DEF PrepareActivate, At
<1>12. CASE RegisterIoeventfd
  BY <1>4, <1>6, <1>12 DEF RegisterIoeventfd
<1>13. CASE TakeMem
  <2>1. CASE IoDies
    BY <1>4, <2>1
  <2>2. CASE ~IoDies
    <3>1. step = OnceAt[kind]
      BY <1>13, Here DEF TakeMem, At, Name
    <3> QED BY <1>1, <1>13, <2>2, <3>1 DEF TakeMem, CallReturns
  <2> QED BY <2>1, <2>2
<1>14. CASE CallBlocking
  BY <1>6, <1>14 DEF CallBlocking, At
<1>15. CASE StartBackend
  <2>1. CASE CallFails
    BY <1>5, <1>15, <2>1 DEF StartBackend, At
  <2>2. CASE ~CallFails
    <3>1. step >= OnceAt[kind]
      BY <1>1, <1>15, Here DEF StartBackend, At, Name
    <3> QED BY <1>1, <1>15, <2>2, <3>1 DEF StartBackend, CallReturns
  <2> QED BY <2>1, <2>2
<1>16. CASE SetActivated
  <2>1. attached = Attachments(kind)
    BY <1>16, AllAttached DEF SetActivated
  <2> QED BY <1>16, <2>1 DEF SetActivated
<1>17. CASE NotifyIoCompleted
  <2>1. CASE IoDies
    BY <1>4, <2>1
  <2>2. CASE ~IoDies
    BY <1>17, <2>2 DEF NotifyIoCompleted
  <2> QED BY <2>1, <2>2
<1>18. CASE AddSubscriber
  <2>1. At("subscribe") /\ step > OnceAt[kind]
    BY <1>18, Here DEF AddSubscriber, CallInv, At, Name
  <2> QED BY <1>1, <1>18, <2>1 DEF AddSubscriber, At
<1>19. CASE HandleQueue \/ PtyHandlerPanics \/ BackendHandlesQueue
  BY <1>19 DEF HandleQueue, PtyHandlerPanics, BackendHandlesQueue
<1> QED BY <1>2, <1>3, <1>7, <1>8, <1>9, <1>10, <1>11, <1>12, <1>13, <1>14,
           <1>15, <1>16, <1>17, <1>18, <1>19 DEF Next, RunIo, RunEventManager

-----------------------------------------------------------------------------
(* IInv is an inductive invariant. *)

LEMMA Invariance == Spec => []IInv
<1>1. Init => IInv
  <2>1. Init => LockInv /\ FreshInv
    BY DEF Init, LockInv, FreshInv, Revocable, Activating
  <2> QED BY <2>1, TypeInit, CallInit, AttachInit, AccessInit, FeatureInit, TapInit,
          ConsoleInit
          DEF IInv
<1>2. IInv /\ [Next]_vars => IInv'
  BY TypeStep, CallStep, AttachStep, AccessStep, FeatureStep, TapStep, LockStep,
     FreshStep, ConsoleStep DEF IInv
<1> QED BY <1>1, <1>2, PTL DEF Spec

(* Every variable keeps its type. *)
THEOREM TypeCorrect == Spec => []TypeOK
BY Invariance, PTL DEF IInv

(* However often the device is reset and started again, at most one handler  *)
(* set or backend is attached to its queues.                                 *)
THEOREM AtMostOneBackend == Spec => []OneBackend
<1>1. IInv => OneBackend
  BY DEF IInv, AttachInv, OneBackend
<1> QED BY <1>1, Invariance, PTL

(* A device that says it is activated is: no failed activation of it, at     *)
(* whatever call, has left the flag set.                                     *)
THEOREM ActivatedIsReady == Spec => []ActivatedMeansReady
<1>1. IInv => ActivatedMeansReady
  <2> SUFFICES ASSUME IInv, activated
               PROVE  attached = Attachments(kind) /\ QueuesOf(kind) \subseteq ioeventfds
    BY DEF ActivatedMeansReady
  <2>1. attached = Attachments(kind)
    BY DEF IInv, AttachInv
  <2>2. attached > 0
    BY <2>1, ActivateBegins DEF IInv, TypeOK
  <2> QED BY <2>1, <2>2 DEF IInv, AttachInv
<1> QED BY <1>1, Invariance, PTL

(* The tap interface is given back by every activation that fails.           *)
THEOREM TapIsReleased == Spec => []TapReleased
BY Invariance, PTL DEF IInv

(* An activation that fails and is survived leaves the device as it was made.*)
THEOREM ActivationIsAllOrNothing == Spec => []AllOrNothing
<1>1. IInv => AllOrNothing
  <2> SUFFICES ASSUME IInv, iopc \notin {"activate", "register", "dead"}
               PROVE  \/ attached = Attachments(kind)
                      \/ /\ attached = 0 /\ ~tap
                         /\ regions = InitialRegions(kind) /\ queues = QueuesOf(kind)
    BY DEF AllOrNothing
  <2>1. \/ attached = Attachments(kind)
        \/ /\ attached = 0
           /\ regions = InitialRegions(kind) /\ queues = QueuesOf(kind)
    BY DEF IInv, FreshInv, Revocable
  <2>2. attached = 0 => ~tap
    BY DEF IInv, TypeOK, TapReleased
  <2> QED BY <2>1, <2>2
<1> QED BY <1>1, Invariance, PTL

(* The io thread never waits for a mutex it holds itself, nor for an event   *)
(* manager whose thread is gone.                                             *)
THEOREM IoIsNeverStuck == Spec => []IoNeverStuck
<1>1. IInv => IoNeverStuck
  <2> SUFFICES ASSUME IInv PROVE IoNeverStuck
    OBVIOUS
  <2>1. /\ iopc \in {"idle", "register", "complete"} => Free("device_model")
        /\ iopc = "dispatch" => Free("device_manager")
    BY DEF IInv, LockInv, Activating, Free
  <2>2. ASSUME At("subscribe"), endpoint # "answered"
        PROVE  evm = "epoll"
    <3>1. /\ Plane[kind] = "virtio" /\ step > OnceAt[kind]
          /\ AttachedBy(kind, step) \in 0 .. Attachments(kind) - 1
      BY <2>2, Here DEF IInv, At, Name
    <3>2. /\ step \in Nat /\ OnceAt[kind] \in Nat /\ Attachments(kind) \in {1, 2}
          /\ evm \in {"absent", "epoll", "blocked", "dead"}
      BY Here, ActivateBegins DEF IInv, TypeOK
    <3>3. attached = AttachedBy(kind, step)
      BY <2>2, <3>1, <3>2 DEF IInv, AttachInv, Activating, At
    <3> QED BY <3>1, <3>2, <3>3 DEF IInv, AttachInv
  <2> QED BY <2>1, <2>2 DEF IoNeverStuck
<1> QED BY <1>1, Invariance, PTL

(* Only a CPU begins an access. *)
LEMMA AccessStays ==
    ASSUME Next, TypeOK, \A c \in Cpus : ~Guest(c)
    PROVE  \A c \in Cpus : access'[c] \in {access[c], "none"}
<1> USE DEF guest
<1>1. ASSUME IoDies \/ CallFails \/ CallReturns
      PROVE  access' = access
  BY <1>1 DEF IoDies, CallFails, CallReturns
<1>2. CASE LockDeviceModel \/ AttachIoClient \/ Dispatch
  BY <1>1, <1>2 DEF LockDeviceModel, AttachIoClient, Dispatch, NegotiateDriverFeatures
<1>3. CASE Open \/ OpenTap \/ ConfigureTap \/ PrepareActivate
  BY <1>1, <1>3 DEF Open, OpenTap, ConfigureTap, PrepareActivate
<1>4. CASE RegisterIoeventfd \/ TakeMem \/ CallBlocking \/ StartBackend \/ SetActivated
  BY <1>1, <1>4 DEF RegisterIoeventfd, TakeMem, CallBlocking, StartBackend, SetActivated
<1>5. CASE NotifyIoCompleted
  BY <1>1, <1>5 DEF NotifyIoCompleted, TypeOK
<1>6. CASE RunEventManager \/ BackendHandlesQueue
  BY <1>6 DEF RunEventManager, AddSubscriber, HandleQueue, PtyHandlerPanics,
              BackendHandlesQueue
<1> QED BY <1>1, <1>2, <1>3, <1>4, <1>5, <1>6 DEF Next, RunIo

(* Only these two steps attach something. *)
LEMMA AttachedStays ==
    ASSUME Next, ~StartBackend, ~AddSubscriber
    PROVE  attached' = attached
<1> USE DEF evmSide
<1>1. ASSUME IoDies \/ CallFails
      PROVE  attached' = attached
  BY <1>1 DEF IoDies, CallFails
<1>2. ASSUME NEW c \in Cpus, Guest(c)
      PROVE  attached' = attached
  BY <1>2 DEF Guest, Trap, WriteFeatures, WriteDriverOk, WriteReset, Notify
<1>3. CASE LockDeviceModel \/ AttachIoClient \/ Dispatch
  BY <1>1, <1>3 DEF LockDeviceModel, AttachIoClient, Dispatch, NegotiateDriverFeatures
<1>4. CASE Open \/ OpenTap \/ ConfigureTap \/ PrepareActivate
  BY <1>1, <1>4 DEF Open, OpenTap, ConfigureTap, PrepareActivate
<1>5. CASE RegisterIoeventfd \/ TakeMem \/ CallBlocking \/ SetActivated
  BY <1>1, <1>5 DEF RegisterIoeventfd, TakeMem, CallBlocking, SetActivated
<1>6. CASE NotifyIoCompleted
  BY <1>1, <1>6 DEF NotifyIoCompleted
<1>7. CASE RunEventManager \/ BackendHandlesQueue
  BY <1>7 DEF RunEventManager, HandleQueue, PtyHandlerPanics, BackendHandlesQueue
<1> QED BY <1>2, <1>3, <1>4, <1>5, <1>6, <1>7 DEF Next, RunIo

-----------------------------------------------------------------------------
(* Progress of the io thread. *)

LEMMA AtMostThreeQueues ==
    ASSUME NEW k \in Kinds
    PROVE  IsFiniteSet(QueuesOf(k)) /\ Cardinality(QueuesOf(k)) \in 0 .. 3
<1>1. \E t \in DOMAIN AddDevice :
        \E p \in DOMAIN AddDevice[t] : AddDevice[t][p] = k
  BY DEF Kinds
<1>2. TypeOf(k) \in {"block", "fs", "vsock", "net", "console"}
  BY <1>1 DEF TypeOf, AddDevice
<1>3. QueueNum[TypeOf(k)] \in 1 .. 3
  BY <1>2 DEF QueueNum
<1> QED BY <1>3, FS_Interval DEF QueuesOf

LEMMA MissingQueues ==
    ASSUME NEW k \in Kinds, NEW S \in SUBSET QueuesOf(k)
    PROVE  IsFiniteSet(S) /\ Cardinality(S) \in 0 .. 3
<1>1. IsFiniteSet(S) /\ Cardinality(S) <= Cardinality(QueuesOf(k))
  BY AtMostThreeQueues, FS_Subset
<1>2. Cardinality(S) \in Nat
  BY <1>1, FS_CardinalityType
<1> QED BY <1>1, <1>2, AtMostThreeQueues

(* The numbers of calls and queues that WorkLeft is made of. *)
LEMMA WorkTerms ==
    ASSUME TypeOK
    PROVE  /\ Len(Activate[kind]) \in 1 .. 7 /\ step \in 1 .. Len(Activate[kind])
           /\ IsFiniteSet(queues \ ioeventfds)
           /\ Cardinality(queues \ ioeventfds) \in 0 .. 3
<1>1. kind \in Kinds /\ queues \ ioeventfds \in SUBSET QueuesOf(kind)
  BY DEF TypeOK
<1> QED BY <1>1, CallsAre, MissingQueues DEF TypeOK, CallsOf

LEMMA WorkIsBounded ==
    ASSUME TypeOK
    PROVE  /\ WorkLeft \in 0 .. 38
           /\ iopc \notin {"idle", "dead"} => WorkLeft > 0
<1> DEFINE calls == Len(Activate[kind])
           missing == Cardinality(queues \ ioeventfds)
<1>1. calls \in 1 .. 7 /\ step \in 1 .. calls /\ missing \in 0 .. 3
  BY WorkTerms
<1>2. /\ iopc = "attach" => WorkLeft = 5 * calls + 3
      /\ iopc = "dispatch" => WorkLeft = 5 * calls + 2
      /\ iopc = "activate" =>
            WorkLeft \in {5 * (calls - step) + 6, 5 * (calls - step) + 5}
      /\ iopc = "register" => WorkLeft = 5 * (calls - step) + 2 + missing
      /\ iopc = "complete" => WorkLeft = 1
  BY DEF WorkLeft, CallSteps
<1>3. iopc \notin {"attach", "dispatch", "activate", "register", "complete"}
        => WorkLeft = 0
  BY DEF WorkLeft
<1>4. iopc \in {"idle", "attach", "dispatch", "activate", "register", "complete", "dead"}
  BY DEF TypeOK
<1> HIDE DEF calls, missing
<1> QED BY <1>1, <1>2, <1>3, <1>4

(* Every step of the io thread is one towards the completion of the access.  *)
LEMMA IoStepAdvances ==
    ASSUME TypeOK, CallInv, iopc # "idle", RunIo
    PROVE  WorkLeft' < WorkLeft
<1> DEFINE calls == Len(Activate[kind])
           missing == Cardinality(queues \ ioeventfds)
<1>1. /\ calls \in Nat /\ step \in Nat /\ 1 <= step /\ step <= calls
      /\ missing \in Nat /\ missing <= 3
  BY WorkTerms
<1> USE DEF fixed, guest, ioLocal, device, Kept, evmSide, CallSteps
<1>2. iopc # "dead"
  BY DEF RunIo, LockDeviceModel, AttachIoClient, Dispatch, Open, OpenTap, ConfigureTap,
     PrepareActivate, RegisterIoeventfd, TakeMem, CallBlocking, StartBackend,
     SetActivated, NotifyIoCompleted, At
<1>3. WorkLeft \in Nat \ {0}
  BY <1>2, WorkIsBounded
<1>4. ASSUME IoDies
      PROVE  WorkLeft' < WorkLeft
  BY <1>3, <1>4 DEF IoDies, WorkLeft
<1>5. ASSUME CallFails, iopc = "activate"
      PROVE  WorkLeft' < WorkLeft
  <2>1. CASE iopc' = "complete"
    BY <1>1, <1>5, <2>1 DEF WorkLeft
  <2> QED BY <1>4, <1>5, <2>1 DEF CallFails
<1>6. ASSUME CallReturns, iopc = "activate"
      PROVE  WorkLeft' < WorkLeft
  BY <1>1, <1>6 DEF CallReturns, WorkLeft
<1>7. CASE LockDeviceModel
  BY <1>7 DEF LockDeviceModel
<1>8. CASE AttachIoClient
  <2>1. CASE iopc' = "dispatch" /\ UNCHANGED kind
    BY <1>1, <1>8, <2>1 DEF AttachIoClient, IoDies, WorkLeft
  <2> QED BY <1>4, <1>8, <2>1 DEF AttachIoClient
<1>9. CASE Dispatch
  <2>1. iopc = "dispatch"
    BY <1>9 DEF Dispatch
  <2>2. CASE iopc' = "complete"
    BY <1>1, <2>1, <2>2 DEF WorkLeft
  <2>3. CASE iopc' = "activate" /\ step' = 1 /\ UNCHANGED <<kind, endpoint>>
    <3>1. WorkLeft = 5 * calls + 2
      BY <2>1 DEF WorkLeft
    <3>2. WorkLeft' = 5 * (calls - 1) + (IF endpoint = "free" THEN 6 ELSE 5)
      BY <2>3 DEF WorkLeft
    <3>3. calls \in Nat
      BY <1>1
    <3> HIDE DEF calls
    <3> QED BY <3>1, <3>2, <3>3
  <2> QED BY <1>4, <1>9, <2>2, <2>3 DEF Dispatch, NegotiateDriverFeatures
<1>10. CASE Open \/ OpenTap \/ ConfigureTap
  BY <1>5, <1>6, <1>10 DEF Open, OpenTap, ConfigureTap, At
<1>11. CASE PrepareActivate
  <2>1. CASE ~CallFails
    <3>1. /\ iopc = "activate" /\ endpoint = "free" /\ iopc' = "register"
          /\ UNCHANGED <<kind, step, queues, ioeventfds>>
      BY <1>11, <2>1, Here DEF PrepareActivate, At, CallInv
    <3> QED BY <1>1, <3>1 DEF WorkLeft
  <2> QED BY <1>5, <1>11, <2>1 DEF PrepareActivate, At
<1>12. CASE RegisterIoeventfd
  <2>1. iopc = "register"
    BY <1>12 DEF RegisterIoeventfd
  <2>2. ASSUME NEW q \in queues \ ioeventfds, ioeventfds' = ioeventfds \cup {q},
               UNCHANGED <<kind, iopc, step, queues>>
        PROVE  WorkLeft' < WorkLeft
    <3>1. queues' \ ioeventfds' = (queues \ ioeventfds) \ {q}
      BY <2>2
    <3>2. Cardinality(queues' \ ioeventfds') = missing - 1
      BY <2>2, <3>1, WorkTerms, FS_RemoveElement
    <3> QED BY <1>1, <2>1, <2>2, <3>2 DEF WorkLeft
  <2>3. CASE CallReturns /\ UNCHANGED device /\ UNCHANGED evmSide
    <3>1. WorkLeft = 5 * (calls - step) + 2 + missing
      BY <2>1 DEF WorkLeft
    <3>2. WorkLeft' = 5 * (calls - (step + 1)) + (IF endpoint = "free" THEN 6 ELSE 5)
      BY <2>3 DEF CallReturns, WorkLeft
    <3>3. /\ calls \in Nat /\ step \in Nat /\ step <= calls
          /\ missing \in Nat
      BY <1>1
    <3> HIDE DEF calls, missing
    <3> QED BY <3>1, <3>2, <3>3
  <2> QED BY <1>4, <1>12, <2>2, <2>3 DEF RegisterIoeventfd
<1>13. CASE TakeMem
  BY <1>4, <1>6, <1>13 DEF TakeMem, At
<1>14. CASE CallBlocking
  <2>1. CASE endpoint = "free" /\ endpoint' = "posted" /\ UNCHANGED <<kind, ioLocal>>
    BY <1>1, <1>14, <2>1 DEF CallBlocking, At, WorkLeft
  <2> QED BY <1>6, <1>14, <2>1 DEF CallBlocking, At
<1>15. CASE StartBackend
  BY <1>5, <1>6, <1>15 DEF StartBackend, At
<1>16. CASE SetActivated
  BY <1>1, <1>16 DEF SetActivated, At, WorkLeft
<1>17. CASE NotifyIoCompleted
  <2>1. CASE iopc' = "idle"
    BY <1>3, <2>1 DEF WorkLeft
  <2> QED BY <1>4, <1>17, <2>1 DEF NotifyIoCompleted
<1> QED BY <1>7, <1>8, <1>9, <1>10, <1>11, <1>12, <1>13, <1>14, <1>15, <1>16,
           <1>17 DEF RunIo

(* Whatever the guest, the event manager or a backend do, an access that is  *)
(* being served advances with every step of the io thread and never falls    *)
(* back, for at most 38 steps.                                               *)
THEOREM IoThreadAdvances == Spec => IoAdvances /\ [](WorkLeft \in 0 .. 38)
<1>1. IInv /\ [Next]_vars =>
        [iopc # "idle" => IF RunIo THEN WorkLeft' < WorkLeft ELSE WorkLeft' = WorkLeft]_vars
  <2> SUFFICES ASSUME IInv, Next, iopc # "idle"
               PROVE  IF RunIo THEN WorkLeft' < WorkLeft ELSE WorkLeft' = WorkLeft
    OBVIOUS
  <2>1. CASE RunIo
    BY <2>1, IoStepAdvances DEF IInv
  <2>2. CASE ~RunIo
    <3>1. /\ UNCHANGED <<kind, iopc, step, queues, ioeventfds>>
          /\ endpoint' = "free" <=> endpoint = "free"
      BY <2>2 DEF Next, Guest, Trap, WriteFeatures, WriteDriverOk, WriteReset, Notify,
         RunEventManager, AddSubscriber, HandleQueue, PtyHandlerPanics,
         BackendHandlesQueue, fixed, guest, ioLocal, device, Kept, evmSide
    <3> QED BY <2>2, <3>1 DEF WorkLeft
  <2> QED BY <2>1, <2>2
<1>2. IInv => WorkLeft \in 0 .. 38
  BY WorkIsBounded DEF IInv
<1> QED BY <1>1, <1>2, Invariance, PTL DEF Spec, IoAdvances

(* No kick made while a handler is attached is trapped.                      *)
THEOREM KicksBypassIoThread == Spec => KicksReachHandler
<1>1. IInv /\ [Next]_vars =>
        [\A c \in Cpus :
            access'[c] = "notify" /\ access[c] = "none" => attached = 0]_vars
  <2> SUFFICES ASSUME IInv, Next, NEW c \in Cpus,
                      access'[c] = "notify", access[c] = "none"
               PROVE  attached = 0
    OBVIOUS
  <2>1. \E d \in Cpus : Guest(d)
    BY AccessStays DEF IInv, TypeOK
  <2>2. PICK d \in Cpus : Notify(d)
    BY <2>1 DEF Guest, Trap, WriteFeatures, WriteDriverOk, WriteReset, IInv, TypeOK
  <2>3. ~(QueuesOf(kind) \subseteq ioeventfds)
    BY <2>2 DEF Notify
  <2> QED BY <2>3 DEF IInv, AttachInv, TypeOK
<1> QED BY <1>1, Invariance, PTL DEF Spec, KicksReachHandler

(* A vhost-user backend starts with the features its driver acknowledged.    *)
THEOREM VhostUserIsNegotiated == Spec => VhostUserNegotiated
<1>1. IInv /\ [Next]_vars =>
        [StartsBackend /\ PlaneOf(kind) = "vhost_user" => ringFeatures' = acked]_vars
  <2> SUFFICES ASSUME IInv, Next, StartsBackend, PlaneOf(kind) = "vhost_user"
               PROVE  ringFeatures' = acked
    OBVIOUS
  <2>1. /\ Plane[kind] = "vhost_user" /\ attached' # attached
        /\ evm # "epoll"
    BY PlaneIs DEF IInv, TypeOK, StartsBackend, AttachInv
  <2>2. StartBackend
    BY <2>1, AttachedStays DEF AddSubscriber
  <2>3. iopc = "activate" /\ driver = "starting"
    BY <2>2 DEF StartBackend, At, IInv, AccessInv, DriverOps, Activating
  <2>4. ringFeatures = acked
    BY <2>1, <2>3 DEF IInv, FeatureInv
  <2>5. ~CallFails
    BY <2>1 DEF CallFails, IoDies, evmSide
  <2> QED BY <2>2, <2>4, <2>5 DEF StartBackend
<1> QED BY <1>1, Invariance, PTL DEF Spec, VhostUserNegotiated

-----------------------------------------------------------------------------
(* The view of this VM in VmmLifecycle. *)

(* Both modules have the same lists of calls. *)
LEMMA SameKinds ==
    /\ Lifecycle!Activate = Activate
    /\ \A k \in Kinds : Lifecycle!PlaneOf(k) = PlaneOf(k)
    /\ \A k \in Kinds : Lifecycle!Attachments(k) = Attachments(k)
<1>1. Lifecycle!Activate = Activate
  BY DEF Lifecycle!Activate, Lifecycle!BlockActivate, Lifecycle!NetActivate,
         Lifecycle!ConsoleActivate, Lifecycle!VhostNetActivate,
         Lifecycle!VhostVsockActivate, Lifecycle!VhostUserVsockActivate,
         Lifecycle!VhostUserFsActivate, Lifecycle!Call,
         Activate, BlockActivate, NetActivate, ConsoleActivate, VhostNetActivate,
         VhostVsockActivate, VhostUserVsockActivate, VhostUserFsActivate, Call
<1>2. \A k \in Kinds : Lifecycle!PlaneOf(k) = PlaneOf(k)
  BY DEF Lifecycle!PlaneOf, Lifecycle!TypeOf, Lifecycle!AddDevice,
         PlaneOf, TypeOf, AddDevice
<1>3. \A k \in Kinds : Lifecycle!Attachments(k) = Attachments(k)
  BY DEF Lifecycle!Attachments, Attachments
<1> QED BY <1>1, <1>2, <1>3

(* The threads of the VM and those who hold it change only by a death, *)
LEMMA ThreadsSeen ==
    ASSUME evm' = evm \/ (evm = "epoll" /\ evm' = "blocked"), iopc' = "dead" <=> iopc = "dead"
    PROVE  /\ \A role \in {"io", "evm"} : ThreadState'[role] = ThreadState[role]
           /\ Holders' = Holders
BY DEF ThreadState, Holders

(* and so does the rest with them, apart from what is attached, the owner of *)
(* the memory and the position.                                              *)
LEMMA Unseen ==
    ASSUME UNCHANGED kind, evm' = evm \/ (evm = "epoll" /\ evm' = "blocked"),
           iopc' = "dead" <=> iopc = "dead"
    PROVE  /\ UNCHANGED [t \in (1 .. 1) \X {"io", "evm"} |-> ThreadState[t[2]]]
           /\ UNCHANGED [v \in 1 .. 1 |-> Holders]
           /\ UNCHANGED <<regions, attached>> =>
                /\ UNCHANGED [v \in 1 .. 1 |-> Owner]
                /\ UNCHANGED [v \in 1 .. 1 |-> attached]
           /\ UNCHANGED <<regions, attached, Position>> => UNCHANGED Lifecycle!vars
<1>1. /\ \A role \in {"io", "evm"} : ThreadState'[role] = ThreadState[role]
      /\ Holders' = Holders
  BY ThreadsSeen
<1>2. UNCHANGED [t \in (1 .. 1) \X {"io", "evm"} |-> ThreadState[t[2]]]
  BY <1>1
<1>3. UNCHANGED <<regions, attached>> => Owner' = Owner
  BY <1>1 DEF Owner
<1> QED BY <1>1, <1>2, <1>3 DEF Lifecycle!vars, Lifecycle!building, Lifecycle!running

(* The death of the io thread, and that of the event manager. *)
LEMMA IoDeathSeen ==
    ASSUME TypeOK, IoDies, iopc # "dead"
    PROVE  Lifecycle!Dies(1, "io")
<1>1. /\ iopc' = "dead" /\ UNCHANGED <<kind, regions, attached, evm>>
  BY DEF IoDies, DropTap, Kept, fixed, evmSide
<1>2. ThreadState'["io"] = "dead" /\ ThreadState'["evm"] = ThreadState["evm"]
  BY <1>1 DEF ThreadState
<1>3. ThreadState["io"] = "live"
  BY DEF ThreadState
<1>4. "io" \in Holders /\ Holders' = Holders \ {"io"}
  BY <1>2, <1>3 DEF Holders
<1>5. Owner' = IF Holders = {"io"} \/ Owner = "inHand" THEN "closed" ELSE Owner
  BY <1>1, <1>4 DEF Owner
<1>6. Position' = 0
  BY <1>1 DEF Position
<1>7. \A t \in (1 .. 1) \X {"io", "evm"} :
        ThreadState'[t[2]] = IF t = <<1, "io">> THEN "dead" ELSE ThreadState[t[2]]
  BY <1>2
<1>8. [t \in (1 .. 1) \X {"io", "evm"} |-> ThreadState[t[2]]]'
        = [[t \in (1 .. 1) \X {"io", "evm"} |-> ThreadState[t[2]]]
                EXCEPT ![<<1, "io">>] = "dead"]
  BY <1>7, Zenon
<1>9. [v \in 1 .. 1 |-> Holders]'
        = [[v \in 1 .. 1 |-> Holders] EXCEPT ![1] = @ \ {"io"}]
  BY <1>4
<1>10. [v \in 1 .. 1 |-> Owner]'
        = [[v \in 1 .. 1 |-> Owner] EXCEPT ![1] =
                IF [v \in 1 .. 1 |-> Holders][1] = {"io"}
                    \/ ("io" = "io" /\ @ = "inHand")
                THEN "closed" ELSE @]
  BY <1>5
<1>11. [v \in 1 .. 1 |-> Position]'
        = [[v \in 1 .. 1 |-> Position] EXCEPT ![1] = 0]
  BY <1>6
<1> QED BY <1>1, <1>8, <1>9, <1>10, <1>11 DEF Lifecycle!Dies, Lifecycle!building

LEMMA EvmDeathSeen ==
    ASSUME TypeOK, evm = "epoll", evm' = "dead",
           UNCHANGED <<kind, iopc, step, endpoint, regions, attached>>,
           attached > 0, regions = 0
    PROVE  Lifecycle!Dies(1, "evm")
<1>1. ThreadState'["evm"] = "dead" /\ ThreadState'["io"] = ThreadState["io"]
  BY DEF ThreadState
<1>2. ThreadState["evm"] = "live"
  BY DEF ThreadState
<1>3. "evm" \in Holders /\ Holders' = Holders \ {"evm"}
  BY <1>1, <1>2 DEF Holders
<1>4. Owner' = IF Holders = {"evm"} THEN "closed" ELSE Owner
  BY <1>3 DEF Owner
<1>5. Position' = Position
  BY DEF Position
<1>6. \A t \in (1 .. 1) \X {"io", "evm"} :
        ThreadState'[t[2]] = IF t = <<1, "evm">> THEN "dead" ELSE ThreadState[t[2]]
  BY <1>1
<1>7. [t \in (1 .. 1) \X {"io", "evm"} |-> ThreadState[t[2]]]'
        = [[t \in (1 .. 1) \X {"io", "evm"} |-> ThreadState[t[2]]]
                EXCEPT ![<<1, "evm">>] = "dead"]
  BY <1>6, Zenon
<1>8. [v \in 1 .. 1 |-> Holders]'
        = [[v \in 1 .. 1 |-> Holders] EXCEPT ![1] = @ \ {"evm"}]
  BY <1>3
<1>9. [v \in 1 .. 1 |-> Owner]'
        = [[v \in 1 .. 1 |-> Owner] EXCEPT ![1] =
                IF [v \in 1 .. 1 |-> Holders][1] = {"evm"}
                    \/ ("evm" = "io" /\ @ = "inHand")
                THEN "closed" ELSE @]
  BY <1>4
<1>10. [v \in 1 .. 1 |-> Position]'
        = [v \in 1 .. 1 |-> Position]
  BY <1>5
<1> QED BY <1>7, <1>8, <1>9, <1>10 DEF Lifecycle!Dies, Lifecycle!building

(* The call that activate() is at, and its return. *)
LEMMA CallSeen ==
    ASSUME TypeOK, Activating, endpoint # "answered"
    PROVE  /\ Position = step /\ Position > 0
           /\ Lifecycle!At(1, Name)
           /\ Lifecycle!Live(1, "io")
<1>1. Position = step /\ step > 0
  BY Here DEF Position, Activating
<1>2. ThreadState["io"] = "live"
  BY DEF ThreadState, Activating
<1>3. Lifecycle!Live(1, "io")
  BY <1>2 DEF Lifecycle!Live
<1> QED BY <1>1, <1>3, SameKinds DEF Lifecycle!At, Name

LEMMA ReturnSeen ==
    ASSUME TypeOK, Activating, endpoint # "answered",
           Position' = IF Name = "done" THEN 0 ELSE step + 1
    PROVE  Lifecycle!Return(1)
<1>1. Position = step /\ step > 0
  BY CallSeen
<1>2. Name = "done" <=> step = Len(Activate[kind])
  BY CallsAre DEF TypeOK, CallsOf, Name
<1> QED BY <1>1, <1>2, SameKinds DEF Lifecycle!Return, Lifecycle!SetPos

(* Every step of the VM is one of VmmLifecycle, or it sees nothing of it. *)
LEMMA StepSeen ==
    ASSUME IInv, [Next]_vars
    PROVE  [Lifecycle!Next]_(Lifecycle!vars)
<1> DEFINE Seen == [Lifecycle!Next]_(Lifecycle!vars)
<1> USE DEF fixed, guest, ioLocal, device, Kept, evmSide
<1>1. /\ TypeOK /\ CallInv /\ AttachInv
        BY DEF IInv
<1>2. Lifecycle!RunIo(1) \/ Lifecycle!RunEventManager(1) => Seen
  BY DEF Lifecycle!Next, Lifecycle!Ended, Lifecycle!Vms
<1>3. ASSUME UNCHANGED <<kind, regions, attached>>, Position' = Position,
             evm' = evm \/ (evm = "epoll" /\ evm' = "blocked"),
             iopc' = "dead" <=> iopc = "dead"
      PROVE  Seen
  BY <1>3, Unseen
\* Outside activate() any death of the io thread is allowed.
<1>4. ASSUME IoDies, iopc \notin {"activate", "register", "dead"}
      PROVE  Seen
  <2>1. Lifecycle!Dies(1, "io")
    BY <1>1, <1>4, IoDeathSeen
  <2>2. Lifecycle!Live(1, "io") /\ Position = 0
    BY <1>4 DEF Lifecycle!Live, ThreadState, Position
  <2>3. Lifecycle!IoFails(1)
    BY <2>1, <2>2 DEF Lifecycle!IoFails
  <2> QED BY <1>2, <2>3 DEF Lifecycle!RunIo
\* In it, a call fails, by a panic or with an error.
<1>5. ASSUME CallFails, iopc = "activate",
             Name \in OtherCalls \cup {"prepare", "backend"}
      PROVE  Seen
  <2>1. endpoint = "free"
    BY <1>1, <1>5 DEF CallInv, At, Name, OtherCalls
  <2>2. Lifecycle!At(1, Name) /\ Position = step
    BY <1>1, <1>5, <2>1, CallSeen DEF Activating
  <2>3. Lifecycle!Opens(1) \/ Lifecycle!At(1, "prepare") \/ Lifecycle!At(1, "backend")
    BY <1>5, <2>2 DEF Lifecycle!Opens, OtherCalls
  <2>4. CASE Activate[kind][step].onError = "panic"
    <3>1. Lifecycle!Dies(1, "io")
      BY <1>1, <1>5, <2>4, IoDeathSeen DEF CallFails
    <3>2. Lifecycle!CallFails(1)
      BY <2>2, <2>3, <2>4, <3>1, SameKinds DEF Lifecycle!CallFails
    <3> QED BY <1>2, <3>2 DEF Lifecycle!RunIo
  <2>5. CASE Activate[kind][step].onError # "panic"
    <3>1. iopc' = "complete" /\ UNCHANGED <<kind, regions, attached, evm>>
      BY <1>5, <2>5 DEF CallFails, DropTap
    <3>2. Position' = 0
      BY <3>1 DEF Position
    <3>3. Owner # "inHand"
      <4>1. step < OnceAt[kind]
        BY <1>1, <2>5, ReturnedError
      <4>2. attached = Attachments(kind) \/ regions = InitialRegions(kind)
        BY <1>1, <1>5, <4>1, Here, ActivateBegins
           DEF IInv, FreshInv, Revocable, Activating, TypeOK
      <4> QED BY <1>1, <4>2, ActivateBegins DEF Owner, InitialRegions, TypeOK
    <3>4. [v \in 1 .. 1 |-> Owner]'
            = [[v \in 1 .. 1 |-> Owner] EXCEPT ![1] =
                    IF @ = "inHand" THEN "closed" ELSE @]
      <4>1. [v \in 1 .. 1 |-> Owner]' = [v \in 1 .. 1 |-> Owner]
        BY <1>5, <3>1, Unseen
      <4> QED BY <3>3, <4>1
    <3>5. [v \in 1 .. 1 |-> Position]'
            = [[v \in 1 .. 1 |-> Position] EXCEPT ![1] = 0]
      BY <3>2
    <3>6. Lifecycle!CallFails(1)
      BY <1>5, <2>2, <2>3, <2>5, <3>1, <3>4, <3>5, Unseen, SameKinds
         DEF Lifecycle!CallFails, Lifecycle!SetPos, Lifecycle!building
    <3> QED BY <1>2, <3>6 DEF Lifecycle!RunIo
  <2> QED BY <2>4, <2>5
\* Or it succeeds, and what it changes is not seen.
<1>6. ASSUME Activating, endpoint # "answered",
             Name \in OtherCalls \cup {"prepare", "done"},
             UNCHANGED <<kind, regions, attached, evm>>, iopc' # "dead",
             Position' = IF Name = "done" THEN 0 ELSE step + 1
      PROVE  Seen
  <2>1. Lifecycle!At(1, Name) /\ Lifecycle!Return(1)
    BY <1>1, <1>6, CallSeen, ReturnSeen
  <2>2. Lifecycle!CallSucceeds(1)
    BY <1>6, <2>1, Unseen DEF Lifecycle!CallSucceeds, Lifecycle!Opens, OtherCalls,
       Lifecycle!building, Activating
  <2> QED BY <1>2, <2>2 DEF Lifecycle!RunIo
<1>7. ASSUME CallReturns, Activating, endpoint # "answered",
             Name \in OtherCalls \cup {"prepare"},
             UNCHANGED <<regions, attached, evm, endpoint>>
      PROVE  Seen
  BY <1>6, <1>7 DEF CallReturns, Position, OtherCalls, Activating
\* Something is attached.
<1>8. ASSUME Activating, endpoint # "answered", Name \in {"subscribe", "backend"},
             regions = 0, regions' = 0, attached' = attached + 1,
             UNCHANGED <<kind, evm>>, iopc' # "dead", Position' = step + 1
      PROVE  Lifecycle!Attach(1)
  <2>1. Lifecycle!Return(1)
    BY <1>1, <1>8, ReturnSeen
  <2>2. "io" \in Holders /\ Holders' = Holders
    BY <1>8, ThreadsSeen DEF Holders, ThreadState, Activating
  <2>3. Owner' = "backend"
    BY <1>1, <1>8, <2>2 DEF Owner, TypeOK
  <2>4. [v \in 1 .. 1 |-> Owner]'
          = [[v \in 1 .. 1 |-> Owner] EXCEPT ![1] = "backend"]
    BY <2>3
  <2>5. [v \in 1 .. 1 |-> attached]'
          = [[v \in 1 .. 1 |-> attached] EXCEPT ![1] = @ + 1]
    BY <1>8
  <2> QED BY <1>8, <2>1, <2>4, <2>5, Unseen
          DEF Lifecycle!Attach, Lifecycle!building, Activating
<1>9. CASE UNCHANGED vars
  BY <1>3, <1>9 DEF vars, Position
<1>10. ASSUME NEW c \in Cpus, Guest(c)
      PROVE  Seen
  BY <1>3, <1>10 DEF Guest, Trap, WriteFeatures, WriteDriverOk, WriteReset, Notify,
                    Position
<1>11. CASE LockDeviceModel
  BY <1>3, <1>11 DEF LockDeviceModel, Position
<1>12. CASE AttachIoClient
  BY <1>3, <1>4, <1>12 DEF AttachIoClient, Position
<1>13. CASE Dispatch
  <2>1. CASE IoDies
    BY <1>4, <1>13, <2>1 DEF Dispatch
  <2>2. CASE iopc' = "complete"
    BY <1>3, <1>13, <2>2 DEF Dispatch, NegotiateDriverFeatures, IoDies, Position
  <2>3. CASE iopc' = "activate"
    <3>1. /\ iopc = "dispatch" /\ step' = 1
          /\ UNCHANGED <<kind, regions, attached, evm, endpoint>>
      BY <1>13, <2>3 DEF Dispatch, NegotiateDriverFeatures, IoDies
    <3>2. endpoint = "free"
      BY <1>1, <3>1 DEF CallInv, At
    <3>3. Position = 0 /\ Position' = 1
      BY <2>3, <3>1, <3>2 DEF Position
    <3>4. Lifecycle!BeginActivate(1)
      BY <2>3, <3>1, <3>3, Unseen
         DEF Lifecycle!BeginActivate, Lifecycle!Live, Lifecycle!SetPos,
             Lifecycle!building, ThreadState
    <3> QED BY <1>2, <3>4 DEF Lifecycle!RunIo
  <2> QED BY <1>13, <2>1, <2>2, <2>3 DEF Dispatch, NegotiateDriverFeatures
<1>14. ASSUME At(Name), Name # "subscribe"
       PROVE  endpoint = "free" /\ Activating
  BY <1>1, <1>14 DEF CallInv, At, Name, Activating
<1>15. CASE Open \/ OpenTap \/ ConfigureTap
  BY <1>5, <1>7, <1>14, <1>15 DEF Open, OpenTap, ConfigureTap, At, Name, OtherCalls
<1>16. CASE PrepareActivate
  BY <1>3, <1>5, <1>16 DEF PrepareActivate, At, Name, Position
<1>17. CASE RegisterIoeventfd
  <2>1. /\ iopc = "register" /\ Name = "prepare"
        /\ endpoint = "free" /\ Activating
    <3>1. iopc = "register" /\ step = PrepareAt[kind] /\ endpoint = "free"
      BY <1>1, <1>17 DEF RegisterIoeventfd, CallInv, At, TypeOK
    <3>2. Name = "prepare"
      BY <1>1, <3>1, PrepareIsThere DEF TypeOK, Name
    <3> QED BY <3>1, <3>2 DEF Activating
  <2>2. CASE IoDies
    <3>1. Lifecycle!RegisterFails(1)
      BY <1>1, <2>1, <2>2, IoDeathSeen, CallSeen DEF Lifecycle!RegisterFails
    <3> QED BY <1>2, <3>1 DEF Lifecycle!RunIo
  <2> QED BY <1>3, <1>7, <1>17, <2>1, <2>2 DEF RegisterIoeventfd, Position
<1>18. CASE TakeMem
  <2>1. /\ Name = "mem" /\ endpoint = "free" /\ iopc = "activate" /\ Activating
    BY <1>14, <1>18 DEF TakeMem, At, Name
  <2>2. Lifecycle!At(1, "mem") /\ Position = step
    BY <1>1, <2>1, CallSeen
  <2>3. "io" \in Holders
    BY <2>1 DEF Holders, ThreadState
  <2>4. CASE regions = 0
    <3>1. Owner # "regions" /\ Lifecycle!Dies(1, "io")
      BY <1>1, <1>18, <2>1, <2>4, IoDeathSeen DEF TakeMem, Owner
    <3>2. Lifecycle!TakeMem(1)
      BY <2>2, <3>1 DEF Lifecycle!TakeMem
    <3> QED BY <1>2, <3>2 DEF Lifecycle!RunIo
  <2>5. CASE regions # 0
    <3>1. regions = 1 /\ attached = 0 /\ Plane[kind] # "vhost"
      BY <1>1, <2>5 DEF TypeOK, AttachInv
    <3>2. /\ regions' = 0 /\ step' = step + 1 /\ iopc' = "activate"
          /\ UNCHANGED <<kind, attached, evm, endpoint>>
      BY <1>18, <2>5 DEF TakeMem, CallReturns
    <3>3. Position' = step + 1 /\ Holders' = Holders
      BY <2>1, <3>2, ThreadsSeen DEF Position
    <3>4. InitialRegions(kind) = 1
      BY <1>1, <3>1, PlaneIs DEF InitialRegions, TypeOK
    <3>5. Owner = "regions" /\ Owner' = "inHand"
      BY <2>3, <3>1, <3>2, <3>3, <3>4 DEF Owner
    <3>6. [v \in 1 .. 1 |-> Owner]'
            = [[v \in 1 .. 1 |-> Owner] EXCEPT ![1] = "inHand"]
      BY <3>5
    <3>7. Lifecycle!Return(1)
      BY <1>1, <2>1, <3>3, ReturnSeen
    <3>8. Lifecycle!TakeMem(1)
      BY <2>1, <2>2, <3>2, <3>5, <3>6, <3>7, Unseen
         DEF Lifecycle!TakeMem, Lifecycle!building
    <3> QED BY <1>2, <3>8 DEF Lifecycle!RunIo
  <2> QED BY <2>4, <2>5
<1>19. CASE CallBlocking
  <2>1. /\ UNCHANGED <<kind, regions, attached, evm>>
        /\ iopc = "activate" /\ iopc' = "activate"
        /\ \/ endpoint = "free" /\ endpoint' = "posted" /\ step' = step
           \/ endpoint = "answered" /\ endpoint' = "free" /\ step' = step + 1
    BY <1>19 DEF CallBlocking, CallReturns, At
  <2>2. step \in Nat
    BY <1>1, Here
  <2>3. Position' = Position
    BY <2>1, <2>2 DEF Position
  <2> QED BY <1>3, <2>1, <2>3
<1>20. CASE StartBackend
  <2>1. /\ Name = "backend" /\ endpoint = "free" /\ iopc = "activate" /\ Activating
    BY <1>14, <1>20 DEF StartBackend, At, Name
  <2>2. CASE CallFails
    BY <1>5, <2>1, <2>2
  <2>3. CASE ~CallFails
    <3>1. /\ PlaneOf(kind) = "vhost" => attached = 0
          /\ attached' = attached + 1 /\ step' = step + 1 /\ iopc' = "activate"
          /\ UNCHANGED <<kind, regions, evm, endpoint>>
      BY <1>20, <2>3 DEF StartBackend, CallReturns
    <3>2. Position' = step + 1
      BY <2>1, <3>1 DEF Position
    <3>3. regions = 0
      BY <1>1, <2>1, Here DEF AttachInv, TypeOK
    <3>4. Lifecycle!Attach(1) /\ Lifecycle!At(1, "backend")
      BY <1>1, <1>8, <2>1, <3>1, <3>2, <3>3, CallSeen
    <3>5. Lifecycle!StartBackend(1)
      BY <1>1, <3>1, <3>4, SameKinds DEF Lifecycle!StartBackend, TypeOK
    <3> QED BY <1>2, <3>5 DEF Lifecycle!RunIo
  <2> QED BY <2>2, <2>3
<1>21. CASE SetActivated
  BY <1>6, <1>14, <1>21 DEF SetActivated, At, Name, Position
<1>22. CASE NotifyIoCompleted
  BY <1>3, <1>4, <1>22 DEF NotifyIoCompleted, Position
<1>23. CASE AddSubscriber
  <2>1. /\ endpoint = "posted" /\ endpoint' = "answered" /\ evm = "epoll"
        /\ attached' = attached + 1
        /\ UNCHANGED <<kind, regions, evm, iopc, step>>
    BY <1>23 DEF AddSubscriber
  <2>2. Name = "subscribe" /\ iopc = "activate" /\ Activating
    BY <1>1, <2>1 DEF CallInv, At, Name, Activating
  <2>3. Position' = step + 1
    BY <2>1, <2>2 DEF Position
  <2>4. regions = 0
    BY <1>1, <2>2, Here DEF AttachInv, TypeOK
  <2>5. Lifecycle!Attach(1) /\ Lifecycle!At(1, "subscribe")
    BY <1>1, <1>8, <2>1, <2>2, <2>3, <2>4, CallSeen
  <2>6. Lifecycle!Live(1, "evm")
    BY <2>1 DEF Lifecycle!Live, ThreadState
  <2> QED BY <1>2, <2>5, <2>6 DEF Lifecycle!RunEventManager, Lifecycle!AddSubscriber
<1>24. CASE HandleQueue \/ PtyHandlerPanics \/ BackendHandlesQueue
  <2>1. UNCHANGED <<kind, iopc, step, endpoint, regions, attached>>
    BY <1>24 DEF HandleQueue, PtyHandlerPanics, BackendHandlesQueue
  <2>2. \/ evm' = evm \/ (evm = "epoll" /\ evm' = "blocked")
        \/ evm = "epoll" /\ evm' = "dead"
    BY <1>24 DEF HandleQueue, PtyHandlerPanics, BackendHandlesQueue
  <2>3. CASE evm = "epoll" /\ evm' = "dead"
    <3>1. AttachInv'
      BY AttachStep DEF IInv
    <3>2. attached = Attachments(kind) /\ attached > 0 /\ regions = 0
      BY <1>1, <2>1, <2>3, <3>1, ActivateBegins DEF AttachInv, TypeOK
    <3>3. Lifecycle!Dies(1, "evm")
      BY <1>1, <2>1, <2>3, <3>2, EvmDeathSeen
    <3>4. Lifecycle!Attachments(kind) = Attachments(kind)
      BY <1>1, SameKinds DEF TypeOK
    <3>5. Lifecycle!Live(1, "evm")
      BY <2>3 DEF Lifecycle!Live, ThreadState
    <3>6. Lifecycle!HandlerPanics(1)
      BY <3>2, <3>3, <3>4, <3>5 DEF Lifecycle!HandlerPanics
    <3> QED BY <1>2, <3>6 DEF Lifecycle!RunEventManager
  <2>4. CASE evm' = evm \/ (evm = "epoll" /\ evm' = "blocked")
    BY <1>3, <2>1, <2>4 DEF Position
  <2> QED BY <2>2, <2>3, <2>4
<1> QED BY <1>9, <1>10, <1>11, <1>12, <1>13, <1>15, <1>16, <1>17, <1>18, <1>19,
           <1>20, <1>21, <1>22, <1>23, <1>24
        DEF Next, RunIo, RunEventManager

(* What this module and VmmLifecycle say of a VM agrees: each step of its    *)
(* threads is one that VmmLifecycle allows, so that what is proved there of  *)
(* the owner of the memory rests on the calls modelled here.                 *)
THEOREM IsAVmOfTheProcess == Spec => FollowsLifecycle
BY Invariance, StepSeen, PTL DEF Spec, FollowsLifecycle
=============================================================================
