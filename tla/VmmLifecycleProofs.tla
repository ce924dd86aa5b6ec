-------------------------- MODULE VmmLifecycleProofs --------------------------
(* Proofs about the start and the end of the process, for any number of VMs. *)
EXTENDS VmmLifecycle, DeviceKindsProofs

ConstructorCalls ==
    {"get_info", "connect", "map_region", "register_irqfd", "take_mem",
     "register_mmio"}

(* The constructor of every device is a sequence of calls. *)
LEMMA DeviceNewIsSeq ==
    ASSUME NEW k \in Kinds
    PROVE  DeviceNew[k] \in Seq(ConstructorCalls)
<1>1. CommonNew \in Seq(ConstructorCalls)
  BY DEF CommonNew, ConstructorCalls
<1>2. /\ BlockNew \in Seq(ConstructorCalls)
      /\ NetNew \in Seq(ConstructorCalls)
      /\ ConsoleNew \in Seq(ConstructorCalls)
  BY <1>1 DEF BlockNew, NetNew, ConsoleNew, ConstructorCalls
<1>3. /\ VhostNetNew \in Seq(ConstructorCalls)
      /\ VhostVsockNew \in Seq(ConstructorCalls)
  BY <1>1 DEF VhostNetNew, VhostVsockNew, ConstructorCalls
<1>4. /\ VhostUserVsockNew \in Seq(ConstructorCalls)
      /\ VhostUserFsNew \in Seq(ConstructorCalls)
  BY <1>1 DEF VhostUserVsockNew, VhostUserFsNew, ConstructorCalls
<1> QED BY <1>2, <1>3, <1>4, KindsAre DEF DeviceNew, KindNames

(* So is the construction of a VM. *)
LEMMA VmNewIsSeq ==
    ASSUME NEW v \in Vms, kinds \in [Vms -> Kinds]
    PROVE  VmNew(v) \in Seq(ConstructorCalls)
<1>1. DeviceNew[kinds[v]] \in Seq(ConstructorCalls)
  BY DeviceNewIsSeq
<1> QED BY <1>1 DEF VmNew, ConstructorCalls

-----------------------------------------------------------------------------
(* The constructor of v is done. *)
Built(v) == \A i \in 1 .. Len(VmNew(v)) : VmNew(v)[i] \in made[v]

(* main builds the VMs one by one, before it starts the first. *)
BuildInv ==
    /\ kinds \in [Vms -> Kinds]
    /\ cur \in Vms /\ step \in Nat \ {0}
    /\ made \in [Vms -> SUBSET ConstructorCalls]
    /\ main \in {"open", "build"} => \A t \in Threads : thread[t] = "none"
    /\ main = "open" => cur = 1 /\ step = 1
    /\ main = "build" =>
        /\ \A v \in Vms : v < cur => Built(v)
        /\ step <= Len(VmNew(cur)) + 1
        /\ \A i \in 1 .. step - 1 : VmNew(cur)[i] \in made[cur]
    /\ (\E t \in Threads : thread[t] # "none")
            \/ main \in {"spawnIo", "spawnEvm", "join"} =>
        \A v \in Vms : Built(v)

(* The thread spawned last is the last of the handles. *)
HandlesInv ==
    /\ kinds \in [Vms -> Kinds]
    /\ cur \in Vms
    /\ handles \in Seq(Threads)
    /\ main \in {"open", "build", "spawnIo", "spawnEvm", "join", "ended"}
    /\ main = "spawnEvm" => HasEventManager(kinds[cur])
    /\ main = "join" => handles # <<>> /\ handles[Len(handles)] = LastThread

(* A step of a VM's threads is taken by a live thread and leaves main alone. *)
LEMMA ThreadStep ==
    ASSUME NEW v \in Vms, RunIo(v) \/ RunEventManager(v)
    PROVE  /\ UNCHANGED <<kinds, main, building, handles>>
           /\ \E t \in Threads : thread[t] = "live"
<1>1. Live(v, "io") \/ Live(v, "evm")
  BY DEF RunIo, RunEventManager, BeginActivate, CallSucceeds, TakeMem, At,
         Opens, StartBackend, RegisterFails, CallFails, IoFails, AddSubscriber, HandlerPanics
<1>2. UNCHANGED <<kinds, main, building, handles>>
  BY DEF RunIo, RunEventManager, BeginActivate, CallSucceeds, TakeMem, Attach,
         StartBackend, RegisterFails, CallFails, IoFails, AddSubscriber, HandlerPanics, Dies
<1> QED BY <1>1, <1>2 DEF Live, Threads

(* A thread that is started becomes the last of the handles. *)
LEMMA StartStep ==
    ASSUME NEW role \in {"io", "evm"}, cur \in Vms, handles \in Seq(Threads),
           Start(role)
    PROVE  /\ handles' \in Seq(Threads) /\ handles' # <<>>
           /\ handles'[Len(handles')] = <<cur, role>>
<1>1. <<cur, role>> \in Threads
  BY DEF Threads
<1> QED BY <1>1 DEF Start

(* HandlesInv is an inductive invariant. *)
LEMMA HandlesInit == Init => HandlesInv
BY NumVmsAssumption DEF Init, HandlesInv, Vms

LEMMA HandlesStep ==
    ASSUME HandlesInv, [Next]_vars
    PROVE  HandlesInv'
<1> USE DEF HandlesInv
<1>1. CASE UNCHANGED vars
  BY <1>1 DEF vars, building, LastThread
<1>2. CASE OpenDispatcher
  BY <1>2 DEF OpenDispatcher, End, building, LastThread
<1>3. CASE ConstructCall
  BY <1>3 DEF ConstructCall, End, building, LastThread
<1>4. CASE PushVm
  BY <1>4, NumVmsAssumption DEF PushVm, LastThread, Vms
<1>5. ASSUME NextVm
      PROVE  /\ cur' \in Vms /\ main' \in {"spawnIo", "join"}
             /\ main' = "join" => cur = NumVms
  BY <1>5, NumVmsAssumption DEF NextVm, Vms
<1>6. CASE SpawnIo
  <2>1. CASE End
    BY <1>6, <2>1 DEF End, building
  <2>2. CASE Start("io")
    <3>1. /\ handles' \in Seq(Threads) /\ handles' # <<>>
          /\ handles'[Len(handles')] = <<cur, "io">>
      BY <2>2, StartStep DEF Start
    <3>2. kinds' = kinds
      BY <1>6 DEF SpawnIo, End
    <3>3. CASE HasEventManager(kinds[cur])
      BY <1>6, <2>2, <3>1, <3>2, <3>3 DEF SpawnIo, End, building
    <3>4. CASE ~HasEventManager(kinds[cur])
      BY <1>5, <1>6, <2>2, <3>1, <3>2, <3>4 DEF SpawnIo, End, building, LastThread
    <3> QED BY <3>3, <3>4
  <2> QED BY <1>6, <2>1, <2>2 DEF SpawnIo
<1>7. CASE SpawnEvm
  <2>1. CASE End
    BY <1>7, <2>1 DEF End, building
  <2>2. CASE Start("evm") /\ NextVm /\ kinds' = kinds
    <3>1. /\ handles' \in Seq(Threads) /\ handles' # <<>>
          /\ handles'[Len(handles')] = <<cur, "evm">>
      BY <2>2, StartStep DEF Start
    <3> QED BY <1>5, <1>7, <2>2, <3>1 DEF SpawnEvm, LastThread
  <2> QED BY <1>7, <2>1, <2>2 DEF SpawnEvm
<1>8. CASE Join
  BY <1>8 DEF Join, End, building
<1>9. CASE \E v \in Vms : RunIo(v) \/ RunEventManager(v)
  BY <1>9, ThreadStep DEF building, LastThread
<1> QED BY <1>1, <1>2, <1>3, <1>4, <1>6, <1>7, <1>8, <1>9 DEF Next, Main

(* Once all threads run, the process ends by the death of the thread spawned *)
(* last, and of no other (Drop of Vmm).                                      *)
THEOREM OnlyLastThreadEnds == Spec => EndedByLastThread
<1>1. ASSUME HandlesInv, [Next]_vars, main = "join", main' = "ended"
      PROVE  thread[LastThread] = "dead"
  <2>1. ~(\E v \in Vms : RunIo(v) \/ RunEventManager(v))
    BY <1>1, ThreadStep
  <2>2. Join
    BY <1>1, <2>1 DEF Next, Main, OpenDispatcher, ConstructCall, PushVm, SpawnIo,
                      SpawnEvm, vars
  <2> QED BY <1>1, <2>2 DEF Join, HandlesInv
<1>2. HandlesInv /\ [Next]_vars
        => [main = "join" /\ main' = "ended" => thread[LastThread] = "dead"]_vars
  BY <1>1
<1> QED BY HandlesInit, HandlesStep, <1>2, PTL DEF Spec, EndedByLastThread

-----------------------------------------------------------------------------
(* BuildInv is an inductive invariant. *)
LEMMA BuildInit == Init => BuildInv
BY NumVmsAssumption DEF Init, BuildInv, Vms

(* Built depends on the constructors only. *)
LEMMA BuiltKept ==
    ASSUME kinds' = kinds, made' = made
    PROVE  \A v \in Vms : Built(v)' = Built(v) /\ VmNew(v)' = VmNew(v)
BY DEF Built, VmNew

LEMMA BuildStep ==
    ASSUME BuildInv, [Next]_vars
    PROVE  BuildInv'
<1>1. CASE UNCHANGED vars
  BY <1>1, BuiltKept DEF vars, building, running, BuildInv
<1>2. CASE OpenDispatcher
  BY <1>2, BuiltKept DEF OpenDispatcher, End, building, running, BuildInv, Vms, Threads
<1>3. CASE ConstructCall
  <2>1. CASE End
    BY <1>3, <2>1, BuiltKept DEF End, ConstructCall, building, running, BuildInv
  <2>2. CASE ~End
    <3>1. /\ main = "build" /\ step <= Len(VmNew(cur)) /\ step' = step + 1
          /\ made' = [made EXCEPT ![cur] = @ \cup {VmNew(cur)[step]}]
          /\ UNCHANGED <<kinds, main, cur, thread>>
      BY <1>3, <2>2 DEF ConstructCall, CallNow, running
    <3>2. VmNew(cur) \in Seq(ConstructorCalls)
      BY VmNewIsSeq DEF BuildInv
    <3>3. /\ VmNew(cur)[step] \in ConstructorCalls
          /\ \A v \in Vms : VmNew(v)' = VmNew(v) /\ made[v] \subseteq made'[v]
      BY <3>1, <3>2 DEF VmNew, BuildInv
    <3>4. \A v \in Vms : v < cur => Built(v)'
      BY <3>1, <3>3 DEF Built, BuildInv
    <3>5. VmNew(cur)' = VmNew(cur)
      BY <3>1 DEF VmNew
    <3>6. step' <= Len(VmNew(cur)') + 1
      BY <3>1, <3>2, <3>5 DEF BuildInv
    <3>7. \A i \in 1 .. step' - 1 : VmNew(cur)'[i] \in made'[cur]
      BY <3>1, <3>3, <3>5 DEF BuildInv
    <3> QED BY <3>1, <3>3, <3>4, <3>6, <3>7 DEF BuildInv
  <2> QED BY <2>1, <2>2
<1>4. CASE PushVm
  <2>1. /\ main = "build" /\ step > Len(VmNew(cur))
        /\ UNCHANGED <<kinds, made, thread>>
    BY <1>4 DEF PushVm, running
  <2>2. VmNew(cur) \in Seq(ConstructorCalls)
    BY VmNewIsSeq DEF BuildInv
  <2>3. \A v \in Vms : v <= cur => Built(v)
    BY <2>1, <2>2 DEF BuildInv, Built, Vms
  <2>4. \A v \in Vms : v <= cur => Built(v)'
    BY <2>1, <2>3, BuiltKept
  <2>5. CASE cur = NumVms
    BY <1>4, <2>1, <2>4, <2>5, NumVmsAssumption DEF PushVm, BuildInv, Vms
  <2>6. CASE cur # NumVms
    <3>1. main' = "build" /\ cur' = cur + 1 /\ cur' \in Vms /\ step' = 1
      BY <1>4, <2>1, <2>6, NumVmsAssumption DEF PushVm, BuildInv, Vms
    <3>2. Len(VmNew(cur)') \in Nat
      <4>1. VmNew(cur + 1) \in Seq(ConstructorCalls)
        BY <3>1, VmNewIsSeq DEF BuildInv
      <4>2. VmNew(cur)' = VmNew(cur + 1)
        BY <2>1, <3>1 DEF VmNew
      <4> QED BY <4>1, <4>2
    <3> QED BY <2>1, <2>4, <3>1, <3>2 DEF BuildInv, Vms
  <2> QED BY <2>5, <2>6
<1>5. ASSUME UNCHANGED <<kinds, made, step>>, cur' \in Vms,
             main \in {"spawnIo", "spawnEvm", "join"},
             main' \notin {"open", "build"}
      PROVE  BuildInv'
  BY <1>5, BuiltKept DEF BuildInv
<1>6. CASE SpawnIo
  BY <1>5, <1>6, NumVmsAssumption DEF SpawnIo, End, NextVm, building, BuildInv, Vms
<1>7. CASE SpawnEvm
  BY <1>5, <1>7, NumVmsAssumption DEF SpawnEvm, End, NextVm, building, BuildInv, Vms
<1>8. CASE Join
  BY <1>5, <1>8 DEF Join, End, building, BuildInv
<1>9. CASE \E v \in Vms : RunIo(v) \/ RunEventManager(v)
  <2>1. /\ UNCHANGED <<kinds, main, building, handles>>
        /\ \E t \in Threads : thread[t] = "live"
    BY <1>9, ThreadStep
  <2> QED BY <2>1, BuiltKept DEF building, BuildInv
<1> QED BY <1>1, <1>2, <1>3, <1>4, <1>6, <1>7, <1>8, <1>9 DEF Next, Main

(* No VM is served before the device of every VM is built (try_from, run).   *)
THEOREM AllIsBuiltFirst == Spec => []AllBuiltFirst
<1>1. BuildInv => AllBuiltFirst
  <2> SUFFICES ASSUME BuildInv, \E t \in Threads : thread[t] # "none",
                      NEW v \in Vms
               PROVE  {VmNew(v)[i] : i \in DOMAIN VmNew(v)} \subseteq made[v]
    BY DEF AllBuiltFirst
  <2>1. VmNew(v) \in Seq(ConstructorCalls)
    BY VmNewIsSeq DEF BuildInv
  <2> QED BY <2>1 DEF BuildInv, Built
<1> QED BY BuildInit, BuildStep, <1>1, PTL DEF Spec

-----------------------------------------------------------------------------
(* Facts about the constructors and activate() of each device. *)

(* No device asks for the descriptor again, and each maps the memory. *)
LEMMA DeviceNewMaps ==
    ASSUME NEW k \in Kinds
    PROVE  /\ DeviceNew[k] \in Seq(ConstructorCalls \ {"get_info"})
           /\ \E i \in 1 .. Len(DeviceNew[k]) : DeviceNew[k][i] = "map_region"
<1> DEFINE Good(s) ==
        /\ s \in Seq(ConstructorCalls \ {"get_info"})
        /\ \E i \in 1 .. Len(s) : s[i] = "map_region"
<1>1. Good(CommonNew)
  BY DEF CommonNew, ConstructorCalls
<1>2. Good(BlockNew) /\ Good(NetNew) /\ Good(ConsoleNew)
  BY <1>1 DEF BlockNew, NetNew, ConsoleNew, ConstructorCalls, CommonNew
<1>3. Good(VhostNetNew) /\ Good(VhostVsockNew)
  BY <1>1 DEF VhostNetNew, VhostVsockNew, ConstructorCalls, CommonNew
<1>4. Good(VhostUserVsockNew) /\ Good(VhostUserFsNew)
  BY <1>1 DEF VhostUserVsockNew, VhostUserFsNew, ConstructorCalls, CommonNew
<1> HIDE DEF Good
<1>5. Good(DeviceNew[k])
  BY <1>2, <1>3, <1>4, KindsAre DEF DeviceNew, KindNames
<1> QED BY <1>5 DEF Good

CallNames == {"open", "open_tap", "configure_tap", "prepare", "mem", "subscribe", "backend", "done"}

(* What activate() takes in hand it passes on with its next call, and an     *)
(* error of a backend panics.                                                *)
LEMMA ActivateCalls ==
    ASSUME NEW k \in Kinds
    PROVE  /\ Activate[k] \in Seq([name : CallNames, onError : {"panic", "return"}])
           /\ Len(Activate[k]) > 0
           /\ \A i \in 1 .. Len(Activate[k]) :
                /\ Activate[k][i].name = "mem" =>
                     /\ i < Len(Activate[k])
                     /\ Activate[k][i + 1].name \in {"subscribe", "backend"}
                /\ Activate[k][i].name = "backend" => Activate[k][i].onError = "panic"
<1> DEFINE Good(s) ==
        /\ s \in Seq([name : CallNames, onError : {"panic", "return"}])
        /\ Len(s) > 0
        /\ \A i \in 1 .. Len(s) :
             /\ s[i].name = "mem" =>
                  i < Len(s) /\ s[i + 1].name \in {"subscribe", "backend"}
             /\ s[i].name = "backend" => s[i].onError = "panic"
<1>1. Good(BlockActivate)
  BY DEF BlockActivate, Call, CallNames
<1>2. Good(NetActivate)
  BY DEF NetActivate, Call, CallNames
<1>3. Good(ConsoleActivate)
  BY DEF ConsoleActivate, Call, CallNames
<1>4. Good(VhostNetActivate)
  BY DEF VhostNetActivate, Call, CallNames
<1>5. Good(VhostVsockActivate)
  BY DEF VhostVsockActivate, Call, CallNames
<1>6. Good(VhostUserVsockActivate)
  BY DEF VhostUserVsockActivate, Call, CallNames
<1>7. Good(VhostUserFsActivate)
  BY DEF VhostUserFsActivate, Call, CallNames
<1> HIDE DEF Good
<1>8. Good(Activate[k])
  BY <1>1, <1>2, <1>3, <1>4, <1>5, <1>6, <1>7, KindsAre DEF Activate, KindNames
<1> QED BY <1>8 DEF Good

-----------------------------------------------------------------------------
(* Who owns the memory. *)

MemoryType ==
    /\ refs \in [Vms -> SUBSET {"main", "io", "evm"}]
    /\ memory \in [Vms -> Owners]
    /\ thread \in [Threads -> {"none", "live", "dead"}]
    /\ pos \in [Vms -> Nat] /\ attached \in [Vms -> Nat]
    /\ \A v \in Vms : pos[v] <= Len(Activate[kinds[v]])

Started(v) == thread[<<v, "io">>] # "none"

(* main has not reached v: nothing is built, or not yet started. *)
Untouched ==
    /\ main \in {"open", "build"} =>
        /\ \A v \in Vms : v > cur \/ (v = cur /\ step = 1) => made[v] = {}
        /\ \A v \in Vms : v < cur => "main" \in refs[v]
    /\ main = "spawnIo" =>
        \A v \in Vms : v >= cur => ~Started(v) /\ "main" \in refs[v]
    /\ main = "spawnEvm" =>
        /\ \A v \in Vms : v > cur => ~Started(v) /\ "main" \in refs[v]
        /\ Started(cur) /\ "main" \in refs[cur]

(* A VM that has not been started has its memory once it has been mapped. *)
NotStarted(v) ==
    ~Started(v) =>
        /\ thread[<<v, "evm">>] = "none"
        /\ attached[v] = 0 /\ pos[v] = 0 /\ memory[v] # "inHand"
        /\ "map_region" \in made[v] => memory[v] \in {"regions", "backend"}

(* What activate() has in hand it is about to pass on; what is attached      *)
(* lives as long as the Vm; a live thread holds its Vm.                      *)
Owned(v) ==
    /\ \A r \in {"io", "evm"} : Live(v, r) => r \in refs[v]
    /\ Live(v, "io") => memory[v] \in {"regions", "inHand", "backend"}
    /\ memory[v] = "inHand" =>
        /\ Live(v, "io") /\ pos[v] > 0 /\ attached[v] = 0
        /\ At(v, "subscribe") \/ At(v, "backend")
    /\ attached[v] > 0 /\ refs[v] # {} => memory[v] = "backend"

MemoryInv ==
    /\ BuildInv /\ MemoryType /\ Untouched
    /\ \A v \in Vms : NotStarted(v) /\ Owned(v)

(* MemoryInv holds at the start; *)
LEMMA MemoryInit == Init => MemoryInv
<1> SUFFICES ASSUME Init PROVE MemoryInv
  OBVIOUS
<1>1. BuildInv
  BY BuildInit
<1>2. MemoryType
  <2>1. \A v \in Vms : Len(Activate[kinds[v]]) \in Nat
    BY ActivateCalls DEF Init
  <2> QED BY <2>1 DEF Init, MemoryType, Owners
<1>3. Untouched
  BY DEF Init, Untouched, Vms
<1>4. \A v \in Vms : NotStarted(v) /\ Owned(v)
  BY DEF Init, NotStarted, Started, Owned, Live, Threads
<1> QED BY <1>1, <1>2, <1>3, <1>4 DEF MemoryInv

(* A VM whose state a step leaves alone. *)
LEMMA OthersKept ==
    ASSUME MemoryInv, NEW v \in Vms,
           kinds'[v] = kinds[v], refs'[v] = refs[v], memory'[v] = memory[v],
           made'[v] = made[v], pos'[v] = pos[v], attached'[v] = attached[v],
           \A r \in {"io", "evm"} : thread'[<<v, r>>] = thread[<<v, r>>]
    PROVE  NotStarted(v)' /\ Owned(v)'
BY DEF MemoryInv, NotStarted, Started, Owned, Live, At

(* the steps of main keep it: a call of a constructor, *)
LEMMA MemoryBuild ==
    ASSUME MemoryInv, ConstructCall, ~End
    PROVE  MemoryInv'
<1>1. /\ main = "build" /\ step <= Len(VmNew(cur)) /\ step' = step + 1
      /\ made' = [made EXCEPT ![cur] = @ \cup {VmNew(cur)[step]}]
      /\ memory' = [memory EXCEPT ![cur] = OwnerAfter(VmNew(cur)[step])]
      /\ UNCHANGED <<kinds, main, cur, refs, thread, pos, attached>>
  BY DEF ConstructCall, CallNow, running
<1>2. BuildInv'
  BY BuildStep DEF MemoryInv, Next, Main, Ended, ConstructCall
<1>3. cur \in Vms /\ step \in Nat \ {0} /\ ~Started(cur)
  BY <1>1 DEF MemoryInv, BuildInv, Started, Threads
<1>4. VmNew(cur)[step] = "get_info" => step = 1
  <2> DEFINE s == DeviceNew[kinds[cur]]
  <2>1. s \in Seq(ConstructorCalls \ {"get_info"})
    BY <1>3, DeviceNewMaps DEF MemoryInv, BuildInv
  <2> HIDE DEF s
  <2>2. (<<"get_info">> \o s)[step] = "get_info" /\ step <= Len(<<"get_info">> \o s)
          => step = 1
    BY <1>3, <2>1
  <2> QED BY <1>1, <2>2 DEF VmNew, s
<1>5. MemoryType'
  BY <1>1, <1>3 DEF MemoryInv, MemoryType, OwnerAfter, Owners
<1>6. Untouched'
  BY <1>1, <1>3 DEF MemoryInv, Untouched, MemoryType, Vms
<1>7. NotStarted(cur)' /\ Owned(cur)'
  <2>1. ~Live(cur, "io") /\ ~Live(cur, "evm")
    BY <1>1, <1>3 DEF MemoryInv, BuildInv, Live, Threads
  <2>2. step = 1 => made[cur] = {}
    BY <1>1, <1>3 DEF MemoryInv, Untouched
  <2>3. /\ memory'[cur] = OwnerAfter(VmNew(cur)[step])
        /\ made'[cur] = made[cur] \cup {VmNew(cur)[step]}
    BY <1>1, <1>3 DEF MemoryInv, MemoryType, BuildInv
  <2>4. "map_region" \in made'[cur] => memory'[cur] \in {"regions", "backend"}
    BY <1>3, <1>4, <2>2, <2>3 DEF OwnerAfter, MemoryInv, NotStarted
  <2>5. memory'[cur] # "inHand"
    BY <1>3, <2>3 DEF OwnerAfter, MemoryInv, NotStarted
  <2> QED BY <1>1, <1>3, <2>1, <2>4, <2>5
        DEF MemoryInv, NotStarted, Started, Owned, Live
<1>8. \A v \in Vms \ {cur} : NotStarted(v)' /\ Owned(v)'
  BY <1>1, OthersKept DEF MemoryInv, MemoryType, BuildInv
<1> QED BY <1>2, <1>5, <1>6, <1>7, <1>8, <1>1 DEF MemoryInv

(* the end of one, *)
LEMMA MemoryPush ==
    ASSUME MemoryInv, PushVm
    PROVE  MemoryInv'
<1>1. /\ main = "build" /\ refs' = [refs EXCEPT ![cur] = {"main"}] /\ step' = 1
      /\ \/ cur = NumVms /\ main' = "spawnIo" /\ cur' = 1
         \/ cur # NumVms /\ main' = "build" /\ cur' = cur + 1
      /\ UNCHANGED <<kinds, made, memory, thread, pos, attached>>
  BY DEF PushVm, running
<1>2. BuildInv' /\ cur \in Vms /\ \A v \in Vms : ~Started(v)
  BY <1>1, BuildStep DEF MemoryInv, Next, Main, Ended, BuildInv, Started, Threads
<1>3. MemoryType'
  BY <1>1, <1>2 DEF MemoryInv, MemoryType
<1>4. Untouched'
  BY <1>1, <1>2, NumVmsAssumption DEF MemoryInv, Untouched, MemoryType, Started, Vms
<1>5. \A v \in Vms : NotStarted(v)' /\ Owned(v)'
  <2> SUFFICES ASSUME NEW v \in Vms PROVE NotStarted(v)' /\ Owned(v)'
    OBVIOUS
  <2>1. ~Started(v) /\ NotStarted(v)
    BY <1>2 DEF MemoryInv
  <2>2. NotStarted(v)'
    BY <1>1, <2>1 DEF NotStarted, Started
  <2>3. /\ thread'[<<v, "io">>] = "none" /\ thread'[<<v, "evm">>] = "none"
        /\ attached'[v] = 0 /\ memory'[v] # "inHand"
    BY <1>1, <2>1 DEF NotStarted, Started
  <2> QED BY <2>2, <2>3 DEF Owned, Live
<1> QED BY <1>2, <1>3, <1>4, <1>5 DEF MemoryInv

(* When main starts a VM, its constructor has mapped the memory. *)
LEMMA BuiltIsMapped ==
    ASSUME MemoryInv, main = "spawnIo"
    PROVE  \A v \in Vms : "map_region" \in made[v]
<1> SUFFICES ASSUME NEW v \in Vms PROVE "map_region" \in made[v]
  OBVIOUS
<1>1. Built(v)
  BY DEF MemoryInv, BuildInv
<1> DEFINE s == DeviceNew[kinds[v]]
<1>2. /\ s \in Seq(ConstructorCalls \ {"get_info"})
      /\ \E i \in 1 .. Len(s) : s[i] = "map_region"
  BY DeviceNewMaps DEF MemoryInv, BuildInv
<1> HIDE DEF s
<1>3. \E i \in 1 .. Len(<<"get_info">> \o s) : (<<"get_info">> \o s)[i] = "map_region"
  <2>1. PICK j \in 1 .. Len(s) : s[j] = "map_region"
    BY <1>2
  <2>2. (<<"get_info">> \o s)[j + 1] = "map_region"
    BY <1>2, <2>1
  <2>3. j + 1 \in 1 .. Len(<<"get_info">> \o s)
    BY <1>2, <2>1
  <2> QED BY <2>2, <2>3
<1> QED BY <1>1, <1>3 DEF Built, VmNew, s

(* the start of a thread of c, the VM main is at. *)
LEMMA MemorySpawnIo ==
    ASSUME MemoryInv, SpawnIo, ~End, NEW c \in Vms, c = cur
    PROVE  MemoryInv'
<1>1. /\ main = "spawnIo"
      /\ thread' = [thread EXCEPT ![<<c, "io">>] = "live"]
      /\ \/ /\ refs' = [refs EXCEPT ![c] = @ \cup {"io"}]
            /\ main' = "spawnEvm" /\ cur' = c
         \/ /\ refs' = [refs EXCEPT ![c] = {"io"}]
            /\ \/ c = NumVms /\ main' = "join"
               \/ main' = "spawnIo" /\ cur' = c + 1
      /\ UNCHANGED <<kinds, made, memory, pos, attached>>
  BY DEF SpawnIo, Start, NextVm
<1>2. BuildInv'
  BY BuildStep DEF MemoryInv, Next, Main, Ended, SpawnIo
<1>3. ~Started(c) /\ NotStarted(c) /\ "main" \in refs[c]
  BY <1>1 DEF MemoryInv, Untouched, Vms
<1>4. MemoryType'
  BY <1>1 DEF MemoryInv, MemoryType, Threads
<1>5. /\ thread'[<<c, "io">>] = "live" /\ thread'[<<c, "evm">>] = "none"
      /\ \A v \in Vms \ {c} : \A r \in {"io", "evm"} :
            thread'[<<v, r>>] = thread[<<v, r>>]
      /\ "io" \in refs'[c] /\ \A v \in Vms \ {c} : refs'[v] = refs[v]
      /\ main' = "spawnEvm" => "main" \in refs'[c]
  BY <1>1, <1>3 DEF MemoryInv, MemoryType, Threads, NotStarted
<1>6. Untouched'
  BY <1>1, <1>5, NumVmsAssumption DEF MemoryInv, Untouched, Started, Vms
<1>7. NotStarted(c)' /\ Owned(c)'
  <2>1. memory[c] \in {"regions", "backend"} /\ attached[c] = 0
    BY <1>1, <1>3, BuiltIsMapped DEF NotStarted
  <2> QED BY <1>1, <1>5, <2>1 DEF NotStarted, Started, Owned, Live
<1>8. \A v \in Vms \ {c} : NotStarted(v)' /\ Owned(v)'
  BY <1>1, <1>5, OthersKept
<1>9. \A v \in Vms : NotStarted(v)' /\ Owned(v)'
  BY <1>7, <1>8
<1> QED BY <1>2, <1>4, <1>6, <1>9 DEF MemoryInv

LEMMA MemorySpawnEvm ==
    ASSUME MemoryInv, SpawnEvm, ~End, NEW c \in Vms, c = cur
    PROVE  MemoryInv'
<1>1. /\ main = "spawnEvm"
      /\ thread' = [thread EXCEPT ![<<c, "evm">>] = "live"]
      /\ refs' = [refs EXCEPT ![c] = (@ \ {"main"}) \cup {"evm"}]
      /\ \/ c = NumVms /\ main' = "join"
         \/ main' = "spawnIo" /\ cur' = c + 1
      /\ UNCHANGED <<kinds, made, memory, pos, attached>>
  BY DEF SpawnEvm, Start, NextVm
<1>2. BuildInv'
  BY BuildStep DEF MemoryInv, Next, Main, Ended, SpawnEvm
<1>3. Started(c) /\ Owned(c) /\ "main" \in refs[c]
  BY <1>1 DEF MemoryInv, Untouched
<1>4. MemoryType'
  BY <1>1 DEF MemoryInv, MemoryType, Threads
<1>5. /\ thread'[<<c, "io">>] = thread[<<c, "io">>]
      /\ \A v \in Vms \ {c} : \A r \in {"io", "evm"} :
            thread'[<<v, r>>] = thread[<<v, r>>]
      /\ "io" \in refs[c] => "io" \in refs'[c]
      /\ "evm" \in refs'[c] /\ \A v \in Vms \ {c} : refs'[v] = refs[v]
  BY <1>1, <1>3 DEF MemoryInv, MemoryType, Threads
<1>6. Untouched'
  BY <1>1, <1>5, NumVmsAssumption DEF MemoryInv, Untouched, Started, Vms
<1>7. NotStarted(c)' /\ Owned(c)'
  BY <1>1, <1>3, <1>5 DEF NotStarted, Started, Owned, Live, At
<1>8. \A v \in Vms \ {c} : NotStarted(v)' /\ Owned(v)'
  BY <1>1, <1>5, OthersKept
<1>9. \A v \in Vms : NotStarted(v)' /\ Owned(v)'
  BY <1>7, <1>8
<1> QED BY <1>2, <1>4, <1>6, <1>9 DEF MemoryInv

-----------------------------------------------------------------------------
(* The steps of the threads of a VM. *)

(* A step that changes the state of one VM only, which has been started. *)
LEMMA OneVm ==
    ASSUME MemoryInv, ~Ended, NEW v \in Vms, RunIo(v) \/ RunEventManager(v),
           MemoryType',
           \A w \in Vms \ {v} :
               /\ refs'[w] = refs[w] /\ memory'[w] = memory[w]
               /\ pos'[w] = pos[w] /\ attached'[w] = attached[w]
               /\ \A r \in {"io", "evm"} : thread'[<<w, r>>] = thread[<<w, r>>],
           Started(v), Started(v)', "main" \in refs[v] => "main" \in refs'[v],
           Owned(v)'
    PROVE  MemoryInv'
<1>1. UNCHANGED <<kinds, main, building>>
  BY ThreadStep
<1>2. BuildInv'
  BY BuildStep DEF MemoryInv, Next
<1>3. \A w \in Vms : Started(w)' = Started(w) /\ ("main" \in refs[w] => "main" \in refs'[w])
  BY DEF Started
<1>4. Untouched'
  BY <1>1, <1>3 DEF MemoryInv, Untouched, building, BuildInv
<1>5. NotStarted(v)'
  BY DEF NotStarted
<1>6. \A w \in Vms \ {v} : NotStarted(w)' /\ Owned(w)'
  BY <1>1, OthersKept DEF building
<1> QED BY <1>2, <1>4, <1>5, <1>6 DEF MemoryInv

(* A thread dies: with an io thread goes what activate() has in hand, with   *)
(* the last thread the Vm.                                                   *)
LEMMA MemoryDies ==
    ASSUME MemoryInv, ~Ended, NEW v \in Vms, RunIo(v) \/ RunEventManager(v),
           NEW role \in {"io", "evm"}, Live(v, role), Dies(v, role)
    PROVE  MemoryInv'
<1>1. /\ thread' = [thread EXCEPT ![<<v, role>>] = "dead"]
      /\ refs' = [refs EXCEPT ![v] = @ \ {role}]
      /\ memory' = [memory EXCEPT ![v] =
                      IF refs[v] = {role} \/ (role = "io" /\ @ = "inHand")
                      THEN "closed" ELSE @]
      /\ pos' = IF role = "io" THEN [pos EXCEPT ![v] = 0] ELSE pos
      /\ UNCHANGED <<kinds, attached>>
  BY DEF Dies
<1>2. Owned(v) /\ NotStarted(v)
  BY DEF MemoryInv
<1>3. Started(v)
  BY <1>2 DEF NotStarted, Started, Live
<1>4. MemoryType'
  <2>1. Len(Activate[kinds[v]]) \in Nat
    BY ActivateCalls DEF MemoryInv, BuildInv
  <2> QED BY <1>1, <2>1 DEF MemoryInv, MemoryType, Threads, Owners
<1>5. /\ thread'[<<v, role>>] = "dead"
      /\ \A r \in {"io", "evm"} \ {role} : thread'[<<v, r>>] = thread[<<v, r>>]
      /\ refs'[v] = refs[v] \ {role}
      /\ memory'[v] = IF refs[v] = {role} \/ (role = "io" /\ memory[v] = "inHand")
                      THEN "closed" ELSE memory[v]
      /\ role # "io" => pos'[v] = pos[v]
  BY <1>1 DEF MemoryInv, MemoryType, Threads
<1>6. \A w \in Vms \ {v} :
         /\ refs'[w] = refs[w] /\ memory'[w] = memory[w]
         /\ pos'[w] = pos[w] /\ attached'[w] = attached[w]
         /\ \A r \in {"io", "evm"} : thread'[<<w, r>>] = thread[<<w, r>>]
  BY <1>1 DEF MemoryInv, MemoryType, Threads
<1>7. Owned(v)'
  <2>1. CASE role = "io"
    BY <1>1, <1>2, <1>5, <2>1 DEF Owned, Live
  <2>2. CASE role = "evm"
    BY <1>1, <1>2, <1>5, <2>2 DEF Owned, Live, At
  <2> QED BY <2>1, <2>2
<1>8. Started(v)'
  BY <1>3, <1>5 DEF Started
<1> QED BY <1>3, <1>4, <1>5, <1>6, <1>7, <1>8, OneVm

(* A step of activate() that nobody dies of. *)
LEMMA MemoryCall ==
    ASSUME MemoryInv, ~Ended, NEW v \in Vms, RunIo(v) \/ RunEventManager(v),
           Live(v, "io"), UNCHANGED <<kinds, refs, thread>>,
           NEW p \in 0 .. Len(Activate[kinds[v]]), SetPos(v, p),
           NEW m \in Owners, memory' = [memory EXCEPT ![v] = m],
           NEW a \in Nat, attached' = [attached EXCEPT ![v] = a],
           \/ a = attached[v] /\ m = memory[v] /\ m # "inHand"
           \/ m = "backend"
           \/ /\ a = attached[v] /\ m = "inHand" /\ memory[v] = "regions" /\ p > 0
              /\ Activate[kinds[v]][p].name \in {"subscribe", "backend"}
    PROVE  MemoryInv'
<1>1. MemoryType'
  BY DEF MemoryInv, MemoryType, SetPos
<1>2. \A w \in Vms \ {v} :
         /\ refs'[w] = refs[w] /\ memory'[w] = memory[w]
         /\ pos'[w] = pos[w] /\ attached'[w] = attached[w]
         /\ \A r \in {"io", "evm"} : thread'[<<w, r>>] = thread[<<w, r>>]
  BY DEF MemoryInv, MemoryType, SetPos
<1>3. Owned(v) /\ Started(v)
  BY DEF MemoryInv, Started, Live
<1>4. pos'[v] = p /\ memory'[v] = m /\ attached'[v] = a
  BY DEF MemoryInv, MemoryType, SetPos
<1>5. Owned(v)'
  BY <1>3, <1>4 DEF Owned, Live, At, MemoryInv, MemoryType
<1>6. Started(v)'
  BY <1>3 DEF Started
<1> QED BY <1>1, <1>2, <1>3, <1>5, <1>6, OneVm

(* Every step of a VM's threads keeps MemoryInv, and so every step does. *)
LEMMA MemoryThread ==
    ASSUME MemoryInv, ~Ended, NEW v \in Vms, RunIo(v) \/ RunEventManager(v)
    PROVE  MemoryInv'
<1> DEFINE A == Activate[kinds[v]]
           next == IF pos[v] = Len(A) THEN 0 ELSE pos[v] + 1
<1>1. /\ Owned(v)
      /\ memory[v] \in Owners /\ attached[v] \in Nat
      /\ memory = [memory EXCEPT ![v] = memory[v]]
      /\ attached = [attached EXCEPT ![v] = attached[v]]
      /\ pos[v] \in 0 .. Len(A)
  BY DEF MemoryInv, MemoryType
<1>2. /\ Len(A) \in Nat \ {0}
      /\ \A i \in 1 .. Len(A) :
           /\ A[i].name = "mem" =>
                i < Len(A) /\ A[i + 1].name \in {"subscribe", "backend"}
           /\ A[i].name = "backend" => A[i].onError = "panic"
  BY ActivateCalls DEF MemoryInv, BuildInv
<1>3. next \in 0 .. Len(A) /\ 0 \in 0 .. Len(A)
  BY <1>1, <1>2
<1>4. memory[v] = "inHand" => At(v, "subscribe") \/ At(v, "backend")
  BY <1>1 DEF Owned
<1>5. CASE BeginActivate(v)
  <2>1. memory[v] # "inHand"
    BY <1>4, <1>5 DEF BeginActivate, At
  <2>2. 1 \in 0 .. Len(A)
    BY <1>2
  <2> QED BY <1>1, <1>5, <2>1, <2>2, MemoryCall DEF BeginActivate
<1>6. CASE CallSucceeds(v)
  <2>1. memory[v] # "inHand"
    BY <1>4, <1>6 DEF CallSucceeds, Opens, At
  <2>2. Live(v, "io") /\ SetPos(v, next)
    BY <1>6 DEF CallSucceeds, Opens, Return, At
  <2> HIDE DEF next, A
  <2> QED BY <1>1, <1>3, <1>6, <2>1, <2>2, MemoryCall DEF CallSucceeds, A
<1>7. CASE TakeMem(v)
  <2>1. Live(v, "io") /\ pos[v] > 0 /\ A[pos[v]].name = "mem"
    BY <1>7 DEF TakeMem, At
  <2>2. CASE memory[v] = "regions"
    <3>1. next > 0 /\ A[next].name \in {"subscribe", "backend"}
      BY <1>1, <1>2, <2>1
    <3>2. SetPos(v, next) /\ memory' = [memory EXCEPT ![v] = "inHand"]
          /\ UNCHANGED <<kinds, refs, thread, attached>>
      BY <1>7, <2>2 DEF TakeMem, Return
    <3>3. "inHand" \in Owners
      BY DEF Owners
    <3> HIDE DEF next, A
    <3> QED BY <1>1, <1>3, <2>1, <2>2, <3>1, <3>2, <3>3, MemoryCall DEF A
  <2>3. CASE memory[v] # "regions"
    BY <1>7, <2>1, <2>3, MemoryDies DEF TakeMem
  <2> QED BY <2>2, <2>3
<1>8. CASE Live(v, "io") /\ Attach(v)
  <2>1. /\ SetPos(v, next) /\ memory' = [memory EXCEPT ![v] = "backend"]
        /\ attached' = [attached EXCEPT ![v] = attached[v] + 1]
        /\ UNCHANGED <<kinds, refs, thread>>
    BY <1>8 DEF Attach, Return
  <2>2. "backend" \in Owners /\ attached[v] + 1 \in Nat
    BY <1>1 DEF Owners
  <2> HIDE DEF next, A
  <2> QED BY <1>3, <1>8, <2>1, <2>2, MemoryCall DEF A
<1>9. CASE CallFails(v)
  <2>1. Live(v, "io")
    BY <1>9 DEF CallFails, Opens, At
  <2>2. CASE A[pos[v]].onError = "panic"
    BY <1>9, <2>1, <2>2, MemoryDies DEF CallFails
  <2>3. CASE A[pos[v]].onError # "panic"
    <3>1. memory[v] # "inHand"
      BY <1>1, <1>2, <1>4, <1>9, <2>3 DEF CallFails, Opens, At
    <3>2. /\ SetPos(v, 0) /\ memory' = memory
          /\ UNCHANGED <<kinds, refs, thread, attached>>
      BY <1>1, <1>9, <2>3, <3>1 DEF CallFails
    <3> QED BY <1>1, <1>3, <2>1, <3>1, <3>2, MemoryCall
  <2> QED BY <2>2, <2>3
<1>10. CASE RegisterFails(v) \/ IoFails(v)
  BY <1>10, MemoryDies DEF RegisterFails, IoFails, At
<1>11. CASE HandlerPanics(v)
  BY <1>11, MemoryDies DEF HandlerPanics
<1>12. StartBackend(v) \/ AddSubscriber(v) => Live(v, "io") /\ Attach(v)
  BY DEF StartBackend, AddSubscriber, At
<1> QED BY <1>5, <1>6, <1>7, <1>8, <1>9, <1>10, <1>11, <1>12
        DEF RunIo, RunEventManager

LEMMA MemoryStep == MemoryInv /\ [Next]_vars => MemoryInv'
<1> SUFFICES ASSUME MemoryInv, [Next]_vars PROVE MemoryInv'
  OBVIOUS
<1>1. ASSUME UNCHANGED <<kinds, refs, memory, made, pos, attached, thread>>,
             BuildInv',
             main' = "ended" \/ UNCHANGED <<main, cur, step>>
                \/ (main' = "build" /\ UNCHANGED <<cur, step>> /\ main = "open")
      PROVE  MemoryInv'
  <2>1. MemoryType' /\ Untouched'
    BY <1>1 DEF MemoryInv, MemoryType, Untouched, Started
  <2>2. \A v \in Vms : NotStarted(v)' /\ Owned(v)'
    BY <1>1, OthersKept
  <2> QED BY <1>1, <2>1, <2>2 DEF MemoryInv
<1>2. BuildInv'
  BY BuildStep DEF MemoryInv
<1>3. CASE UNCHANGED vars
  BY <1>1, <1>2, <1>3 DEF vars, building, running
<1>4. CASE End
  BY <1>1, <1>2, <1>4 DEF End, building, running
<1>5. CASE OpenDispatcher
  BY <1>1, <1>2, <1>4, <1>5 DEF OpenDispatcher, running
<1>6. CASE ConstructCall
  BY <1>4, <1>6, MemoryBuild
<1>7. CASE PushVm
  BY <1>7, MemoryPush
<1>8. cur \in Vms
  BY DEF MemoryInv, BuildInv
<1>9. CASE SpawnIo
  BY <1>4, <1>8, <1>9, MemorySpawnIo
<1>10. CASE SpawnEvm
  BY <1>4, <1>8, <1>10, MemorySpawnEvm
<1>11. CASE Join
  BY <1>4, <1>11 DEF Join
<1>12. CASE ~Ended /\ \E v \in Vms : RunIo(v) \/ RunEventManager(v)
  BY <1>12, MemoryThread
<1> QED BY <1>3, <1>5, <1>6, <1>7, <1>9, <1>10, <1>11, <1>12 DEF Next, Main

(* The descriptor of a VM stays open while a thread needs it (new and mem of *)
(* VirtioDeviceCommon, run).                                                 *)
THEOREM DescriptorStaysOpen == Spec => []DescriptorOpen
<1>1. MemoryInv => DescriptorOpen
  BY DEF MemoryInv, Owned, DescriptorOpen
<1> QED BY MemoryInit, MemoryStep, <1>1, PTL DEF Spec

-----------------------------------------------------------------------------
(* Types. *)

(* main builds with no handles, then has one or two for each VM started.     *)
CountInv ==
    /\ Len(handles) <= 2 * NumVms
    /\ main \in {"open", "build"} => handles = <<>>
    /\ main = "spawnIo" => Len(handles) <= 2 * (cur - 1)
    /\ main = "spawnEvm" => Len(handles) <= 2 * (cur - 1) + 1

MadeInv ==
    /\ step <= 6
    /\ dispatcher \in BOOLEAN
    /\ \A v \in Vms : made[v] \subseteq {VmNew(v)[i] : i \in DOMAIN VmNew(v)}

(* What is attached to a VM: nothing while its regions hold the memory. An   *)
(* activation under way has attached what its calls so far attach, or it is  *)
(* a second one and has the call before it that no second one passes.        *)
Slots(v) ==
    /\ attached[v] <= Attachments(kinds[v])
    /\ memory[v] = "regions" => attached[v] = 0
    /\ pos[v] > OnceAt[kinds[v]] => memory[v] # "regions"
    /\ pos[v] > 0 =>
        \/ attached[v] = AttachedBy(kinds[v], pos[v])
        \/ attached[v] > 0 /\ pos[v] <= OnceAt[kinds[v]]

TypeInv ==
    /\ HandlesInv /\ MemoryInv /\ CountInv /\ MadeInv
    /\ \A v \in Vms : Slots(v)

LEMMA CountInit == Init => CountInv
BY NumVmsAssumption DEF Init, CountInv

LEMMA CountStep ==
    ASSUME HandlesInv, CountInv, [Next]_vars
    PROVE  CountInv'
<1> USE DEF CountInv
<1>1. /\ cur \in 1 .. NumVms /\ NumVms \in Nat \ {0}
      /\ Len(handles) \in Nat /\ handles \in Seq(Threads)
  BY NumVmsAssumption DEF HandlesInv, Vms
<1>2. CASE UNCHANGED vars
  BY <1>2 DEF vars, building
<1>3. CASE End
  BY <1>3 DEF End
<1>4. CASE OpenDispatcher
  BY <1>3, <1>4 DEF OpenDispatcher
<1>5. CASE ConstructCall
  BY <1>3, <1>5 DEF ConstructCall
<1>6. CASE PushVm
  BY <1>1, <1>6 DEF PushVm
<1>7. ASSUME NEW role \in {"io", "evm"}, Start(role)
      PROVE  Len(handles') = Len(handles) + 1 /\ handles' # <<>>
  <2>1. handles' = Append(handles, <<cur, role>>) /\ <<cur, role>> \in Threads
    BY <1>1, <1>7 DEF Start, Threads, Vms
  <2> QED BY <1>1, <2>1
<1>8. CASE SpawnIo
  BY <1>1, <1>3, <1>7, <1>8 DEF SpawnIo, NextVm
<1>9. CASE SpawnEvm
  BY <1>1, <1>3, <1>7, <1>9 DEF SpawnEvm, NextVm
<1>10. CASE Join
  BY <1>3, <1>10 DEF Join
<1>11. CASE \E v \in Vms : RunIo(v) \/ RunEventManager(v)
  BY <1>11, ThreadStep DEF building
<1> QED BY <1>2, <1>4, <1>5, <1>6, <1>8, <1>9, <1>10, <1>11 DEF Next, Main

(* No constructor makes more than five calls. *)
LEMMA ConstructorsAreShort ==
    ASSUME NEW k \in Kinds
    PROVE  Len(DeviceNew[k]) <= 4
<1> USE DEF CommonNew
<1>1. Len(BlockNew) <= 4 /\ Len(NetNew) <= 4 /\ Len(ConsoleNew) <= 4
  BY DEF BlockNew, NetNew, ConsoleNew
<1>2. Len(VhostNetNew) <= 4 /\ Len(VhostVsockNew) <= 4
  BY DEF VhostNetNew, VhostVsockNew
<1>3. Len(VhostUserVsockNew) <= 4 /\ Len(VhostUserFsNew) <= 4
  BY DEF VhostUserVsockNew, VhostUserFsNew
<1> QED BY <1>1, <1>2, <1>3, KindsAre DEF DeviceNew, KindNames

LEMMA MadeInit == Init => MadeInv
<1> SUFFICES ASSUME Init PROVE MadeInv
  OBVIOUS
<1>1. \A v \in Vms : made[v] = {}
  BY DEF Init
<1>2. step = 1 /\ dispatcher \in BOOLEAN
  BY DEF Init
<1> QED BY <1>1, <1>2 DEF MadeInv

LEMMA MadeStep ==
    ASSUME BuildInv, MadeInv, [Next]_vars
    PROVE  MadeInv'
<1> USE DEF MadeInv
<1>1. ASSUME UNCHANGED <<kinds, made>>, step' = step \/ step' = 1,
             dispatcher' \in BOOLEAN
      PROVE  MadeInv'
  BY <1>1 DEF VmNew
<1>2. CASE UNCHANGED vars
  BY <1>1, <1>2 DEF vars, building
<1>3. CASE End
  BY <1>1, <1>3 DEF End, building
<1>4. CASE OpenDispatcher
  BY <1>1, <1>3, <1>4 DEF OpenDispatcher
<1>5. CASE ConstructCall
  <2>1. CASE End BY <1>3, <2>1
  <2>2. CASE ~End
    <3>1. /\ step <= Len(VmNew(cur)) /\ step' = step + 1
          /\ made' = [made EXCEPT ![cur] = @ \cup {VmNew(cur)[step]}]
          /\ UNCHANGED <<kinds, dispatcher>>
      BY <1>5, <2>2 DEF ConstructCall, CallNow
    <3>2. /\ cur \in Vms /\ step \in Nat \ {0} /\ kinds \in [Vms -> Kinds]
          /\ made \in [Vms -> SUBSET ConstructorCalls]
      BY DEF BuildInv
    <3>3. VmNew(cur) \in Seq(ConstructorCalls) /\ Len(VmNew(cur)) <= 5
      <4> DEFINE s == DeviceNew[kinds[cur]]
      <4>1. s \in Seq(ConstructorCalls) /\ Len(s) <= 4
        BY <3>2, DeviceNewIsSeq, ConstructorsAreShort
      <4> HIDE DEF s
      <4>2. Len(<<"get_info">> \o s) <= 5
        BY <4>1
      <4> QED BY <3>2, <4>2, VmNewIsSeq DEF VmNew, s
    <3>4. step \in DOMAIN VmNew(cur) /\ step' <= 6
      BY <3>1, <3>2, <3>3
    <3>5. \A v \in Vms : VmNew(v)' = VmNew(v)
      BY <3>1 DEF VmNew
    <3> QED BY <3>1, <3>2, <3>4, <3>5
  <2> QED BY <2>1, <2>2
<1>6. CASE PushVm
  BY <1>1, <1>6 DEF PushVm
<1>7. CASE SpawnIo
  BY <1>1, <1>3, <1>7 DEF SpawnIo
<1>8. CASE SpawnEvm
  BY <1>1, <1>3, <1>8 DEF SpawnEvm
<1>9. CASE Join
  BY <1>3, <1>9 DEF Join
<1>10. CASE \E v \in Vms : RunIo(v) \/ RunEventManager(v)
  BY <1>1, <1>10, ThreadStep DEF building
<1> QED BY <1>2, <1>4, <1>5, <1>6, <1>7, <1>8, <1>9, <1>10 DEF Next, Main

(* Slots holds at the start, while main builds and starts the VMs, *)
LEMMA SlotsInit == ASSUME Init, NEW v \in Vms PROVE Slots(v)
BY ActivateBegins DEF Init, Slots

LEMMA SlotsBuild ==
    ASSUME MemoryInv, ConstructCall, ~End, NEW v \in Vms, Slots(v)
    PROVE  Slots(v)'
<1>1. /\ memory' = [memory EXCEPT ![cur] = OwnerAfter(CallNow)]
      /\ UNCHANGED <<kinds, pos, attached>>
  BY DEF ConstructCall, running
<1>2. v = cur => attached[v] = 0 /\ pos[v] = 0
  BY DEF ConstructCall, MemoryInv, BuildInv, NotStarted, Started, Threads
<1>3. v # cur => memory'[v] = memory[v]
  BY <1>1 DEF MemoryInv, MemoryType
<1> QED BY <1>1, <1>2, <1>3, ActivateBegins DEF Slots, MemoryInv, BuildInv

(* and when one of its threads takes a step. *)
LEMMA SlotsThread ==
    ASSUME MemoryInv, NEW v \in Vms, Slots(v), RunIo(v) \/ RunEventManager(v)
    PROVE  Slots(v)'
<1> DEFINE k == kinds[v]
           A == Activate[k]
           p == pos[v]
<1>1. /\ k \in Kinds /\ kinds' = kinds
      /\ p \in 0 .. Len(A) /\ attached[v] \in Nat
      /\ Owned(v)
  BY ThreadStep, ActivateCalls DEF MemoryInv, MemoryType, BuildInv
<1>2. /\ CallsOf(k, A)
      /\ OnceAt[k] \in Nat /\ 1 <= OnceAt[k] /\ AttachedBy(k, 1) = 0
      /\ Attachments(k) \in {1, 2}
  BY <1>1, CallsAre, ActivateBegins
<1>3. PlaneOf(k) = Plane[k] BY <1>1, PlaneIs
<1> HIDE DEF A
<1>4. Len(A) \in Nat \ {0}
  <2>1. Len(A) \in 1 .. 7 BY <1>2 DEF CallsOf
  <2>2. \A n \in 1 .. 7 : n \in Nat \ {0} OBVIOUS
  <2> QED BY <2>1, <2>2, Zenon
<1>5. /\ \A i \in Nat : SetPos(v, i) => pos'[v] = i
      /\ \A o : memory' = [memory EXCEPT ![v] = o] => memory'[v] = o
      /\ \A n : attached' = [attached EXCEPT ![v] = n] => attached'[v] = n
  <2>1. v \in DOMAIN pos /\ v \in DOMAIN memory /\ v \in DOMAIN attached
    BY DEF MemoryInv, MemoryType
  <2> QED BY <2>1, Zenon DEF SetPos
<1>6. ASSUME attached' = attached, pos'[v] = 0 \/ pos'[v] = pos[v],
             memory'[v] \in {memory[v], "closed"}
      PROVE  Slots(v)'
  BY <1>1, <1>2, <1>6 DEF Slots
<1>7. ASSUME NEW role \in {"io", "evm"}, Dies(v, role)
      PROVE  Slots(v)'
  <2>1. /\ attached' = attached
        /\ memory'[v] \in {memory[v], "closed"}
        /\ pos'[v] = 0 \/ pos'[v] = pos[v]
    BY <1>7 DEF Dies, MemoryInv, MemoryType
  <2> QED BY <1>6, <2>1
<1>8. CASE BeginActivate(v)
  <2>1. pos'[v] = 1 /\ UNCHANGED <<memory, attached>>
    BY <1>5, <1>8 DEF BeginActivate
  <2> QED BY <1>1, <1>2, <2>1 DEF Slots
<1>9. ASSUME Return(v)
      PROVE  pos'[v] = IF p = Len(A) THEN 0 ELSE p + 1
  BY <1>1, <1>4, <1>5, <1>9 DEF Return, A
<1>10. CASE CallSucceeds(v)
  <2>1. /\ UNCHANGED <<memory, attached>> /\ p > 0
        /\ pos'[v] = IF p = Len(A) THEN 0 ELSE p + 1
        /\ A[p].name \in OtherCalls \cup {"prepare", "done"}
    BY <1>9, <1>10 DEF CallSucceeds, Opens, At, A, OtherCalls
  <2>2. CASE A[p].name = "done"
    <3>1. pos'[v] = 0 BY <1>1, <1>2, <2>1, <2>2 DEF CallsOf
    <3> QED BY <1>6, <2>1, <3>1
  <2>3. CASE A[p].name # "done"
    <3>1. /\ pos'[v] = p + 1 /\ p # OnceAt[k]
          /\ AttachedBy(k, p + 1) = AttachedBy(k, p)
      BY <1>1, <1>2, <2>1, <2>3 DEF CallsOf
    <3> QED BY <1>1, <1>2, <2>1, <3>1 DEF Slots
  <2> QED BY <2>2, <2>3
<1>11. CASE TakeMem(v)
  <2>1. p > 0 /\ A[p].name = "mem" BY <1>11 DEF TakeMem, At, A
  <2>2. CASE memory[v] = "regions"
    <3>1. p = OnceAt[k] /\ p # Len(A) /\ AttachedBy(k, p + 1) = AttachedBy(k, p)
      BY <1>1, <1>2, <2>1 DEF CallsOf
    <3>2. pos'[v] = p + 1 /\ memory'[v] = "inHand" /\ attached' = attached
      BY <1>5, <1>9, <1>11, <2>2, <3>1 DEF TakeMem
    <3> QED BY <1>1, <1>2, <2>1, <2>2, <3>1, <3>2 DEF Slots
  <2>3. CASE memory[v] # "regions"
    BY <1>7, <1>11, <2>3 DEF TakeMem
  <2> QED BY <2>2, <2>3
<1>12. ASSUME Attach(v), p > 0, AttachedBy(k, p) = attached[v],
              A[p].name \in {"subscribe", "backend"}
       PROVE  Slots(v)'
  <2>1. /\ AttachedBy(k, p + 1) = AttachedBy(k, p) + 1 /\ p # Len(A)
        /\ AttachedBy(k, p) + 1 <= Attachments(k)
    BY <1>1, <1>2, <1>12 DEF CallsOf
  <2>2. /\ pos'[v] = p + 1 /\ memory'[v] = "backend"
        /\ attached'[v] = attached[v] + 1
    BY <1>5, <1>9, <1>12, <2>1 DEF Attach
  <2> QED BY <1>1, <1>12, <2>1, <2>2 DEF Slots
<1>13. CASE StartBackend(v)
  <2>1. Attach(v) /\ p > 0 /\ A[p].name = "backend"
    BY <1>13 DEF StartBackend, At, A
  <2>2. AttachedBy(k, p) = attached[v]
    <3>1. IF Plane[k] = "vhost" THEN p = OnceAt[k] ELSE p > OnceAt[k]
      BY <1>1, <1>2, <2>1 DEF CallsOf
    <3> QED BY <1>1, <1>2, <1>3, <1>13, <2>1, <3>1 DEF StartBackend, Slots
  <2> QED BY <1>12, <2>1, <2>2
<1>14. CASE AddSubscriber(v)
  <2>1. Attach(v) /\ p > 0 /\ A[p].name = "subscribe"
    BY <1>14 DEF AddSubscriber, At, A
  <2>2. p > OnceAt[k] BY <1>1, <1>2, <2>1 DEF CallsOf
  <2>3. AttachedBy(k, p) = attached[v] BY <1>1, <1>2, <2>1, <2>2 DEF Slots
  <2> QED BY <1>12, <2>1, <2>3
<1>15. CASE CallFails(v)
  <2>1. CASE A[p].onError = "panic"
    BY <1>7, <1>15, <2>1 DEF CallFails, A
  <2>2. CASE A[p].onError # "panic"
    <3>1. /\ pos'[v] = 0 /\ attached' = attached
          /\ memory'[v] \in {memory[v], "closed"}
      BY <1>5, <1>15, <2>2 DEF CallFails, A
    <3> QED BY <1>6, <3>1
  <2> QED BY <2>1, <2>2
<1>16. CASE RegisterFails(v) \/ IoFails(v) BY <1>7, <1>16 DEF RegisterFails, IoFails
<1>17. CASE HandlerPanics(v) BY <1>7, <1>17 DEF HandlerPanics
<1> QED BY <1>8, <1>10, <1>11, <1>13, <1>14, <1>15, <1>16, <1>17
        DEF RunIo, RunEventManager

LEMMA SlotsStep ==
    ASSUME MemoryInv, [Next]_vars, \A w \in Vms : Slots(w), NEW v \in Vms
    PROVE  Slots(v)'
<1>1. ASSUME UNCHANGED <<kinds, memory, pos, attached>> PROVE Slots(v)'
  BY <1>1 DEF Slots
<1>2. CASE UNCHANGED vars BY <1>1, <1>2 DEF vars, running
<1>3. CASE End BY <1>1, <1>3 DEF End, running
<1>4. CASE OpenDispatcher BY <1>1, <1>3, <1>4 DEF OpenDispatcher, running
<1>5. CASE ConstructCall BY <1>3, <1>5, SlotsBuild
<1>6. CASE PushVm BY <1>1, <1>6 DEF PushVm, running
<1>7. CASE SpawnIo BY <1>1, <1>3, <1>7 DEF SpawnIo
<1>8. CASE SpawnEvm BY <1>1, <1>3, <1>8 DEF SpawnEvm
<1>9. CASE Join BY <1>3, <1>9 DEF Join
<1>10. ASSUME NEW w \in Vms, RunIo(w) \/ RunEventManager(w)
       PROVE  Slots(v)'
  <2>1. CASE w = v BY <1>10, <2>1, SlotsThread
  <2>2. CASE w # v
    <3>1. kinds' = kinds BY <1>10, ThreadStep
    <3>2. memory'[v] = memory[v] /\ pos'[v] = pos[v] /\ attached'[v] = attached[v]
      BY <1>10, <2>2 DEF RunIo, RunEventManager, BeginActivate, CallSucceeds,
         TakeMem, StartBackend, RegisterFails, CallFails, IoFails, AddSubscriber,
         HandlerPanics, Attach, Dies, Return, SetPos, MemoryInv, MemoryType
    <3> QED BY <3>1, <3>2 DEF Slots
  <2> QED BY <2>1, <2>2
<1> QED BY <1>2, <1>4, <1>5, <1>6, <1>7, <1>8, <1>9, <1>10 DEF Next, Main

(* Every variable of the process keeps its type: no list of handles longer   *)
(* than run makes it, no backend attached twice by a second activation.      *)
THEOREM TypeCorrect == Spec => []TypeOK
<1>1. Init => TypeInv
  BY HandlesInit, MemoryInit, CountInit, MadeInit, SlotsInit DEF TypeInv
<1>2. TypeInv /\ [Next]_vars => TypeInv'
  <2> SUFFICES ASSUME TypeInv, [Next]_vars PROVE TypeInv'
    OBVIOUS
  <2>1. HandlesInv' /\ CountInv' BY HandlesStep, CountStep DEF TypeInv
  <2>2. MemoryInv' BY MemoryStep DEF TypeInv
  <2>3. MadeInv' BY MadeStep DEF TypeInv, MemoryInv
  <2>4. \A v \in Vms : Slots(v)' BY SlotsStep DEF TypeInv
  <2>5. Vms' = Vms BY DEF Vms
  <2> QED BY <2>1, <2>2, <2>3, <2>4 DEF TypeInv
<1>3. TypeInv => TypeOK
  <2> SUFFICES ASSUME TypeInv PROVE TypeOK
    OBVIOUS
  <2>1. ASSUME NEW v \in Vms
        PROVE  pos[v] \in 0 .. 7 /\ attached[v] \in 0 .. 2
    <3>1. /\ kinds[v] \in Kinds /\ Slots(v)
          /\ pos[v] \in Nat /\ pos[v] <= Len(Activate[kinds[v]])
          /\ attached[v] \in Nat
      BY DEF TypeInv, MemoryInv, MemoryType, BuildInv
    <3>2. Len(Activate[kinds[v]]) \in 1 .. 7 BY <3>1, CallsAre DEF CallsOf
    <3>3. Attachments(kinds[v]) \in {1, 2} BY <3>1, ActivateBegins
    <3>4. attached[v] <= Attachments(kinds[v]) BY <3>1 DEF Slots
    <3>5. pos[v] \in 0 .. 7
      <4>1. \A i \in Nat, n \in 1 .. 7 : i <= n => i \in 0 .. 7 OBVIOUS
      <4> QED BY <3>1, <3>2, <4>1, Zenon
    <3>6. attached[v] \in 0 .. 2 BY <3>1, <3>3, <3>4
    <3> QED BY <3>5, <3>6
  <2>2. pos \in [Vms -> 0 .. 7] /\ attached \in [Vms -> 0 .. 2]
    BY <2>1 DEF TypeInv, MemoryInv, MemoryType
  <2>3. /\ \A i \in DOMAIN handles : handles[i] \in Threads
        /\ cur \in Vms /\ step \in 1 .. 6
    BY DEF TypeInv, HandlesInv, MemoryInv, BuildInv, MadeInv
  <2> QED BY <2>2, <2>3
          DEF TypeInv, HandlesInv, MemoryInv, MemoryType, BuildInv, MadeInv,
              CountInv, TypeOK
<1> QED BY <1>1, <1>2, <1>3, PTL DEF Spec
=============================================================================
