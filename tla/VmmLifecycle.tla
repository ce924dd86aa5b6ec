----------------------------- MODULE VmmLifecycle -----------------------------
(* The process from its start to its end: main builds every VM, starts their *)
(* threads and joins them; each VM's io thread activates its device.         *)
(*                                                                           *)
(* The file descriptor a VM makes its requests to the hypervisor on is owned *)
(* by the mapping of the guest memory, and the memory changes hands: from    *)
(* the regions of the device to its handler or backend. Dropping it closes   *)
(* the descriptor under the io thread. The ring, the registers and the locks *)
(* of a VM are left to VmThreads.                                            *)
EXTENDS FiniteSets, DeviceKinds

CONSTANT NumVms     \* VMs of the configuration

ASSUME NumVmsAssumption == NumVms \in Nat \ {0}

Vms == 1 .. NumVms
Threads == Vms \X {"io", "evm"}

VARIABLES
    kinds,          \* the device of each VM
    main,           \* where the main thread is
    cur, step,      \* the VM it is at, and the call of its constructor
    dispatcher,     \* the dispatcher's descriptor is open
    made,           \* calls done by the constructor of each VM
    refs,           \* who holds each Arc<Vm>
    memory,         \* who owns the guest memory, and so devmodel_fd
    thread,         \* the state of each thread
    handles,        \* Vmm.vcpus
    pos,            \* position of each io thread in activate(), 0 outside it
    attached        \* subscribers or backends of each VM

building == <<cur, step, dispatcher, made>>
running  == <<thread, pos, attached>>
vars == <<kinds, main, building, refs, memory, handles, running>>

Ended == main = "ended"
Live(v, role) == thread[<<v, role>>] = "live"

Init ==
    /\ kinds \in [Vms -> Kinds]
    /\ main = "open" /\ cur = 1 /\ step = 1 /\ dispatcher = FALSE
    /\ made = [v \in Vms |-> {}] /\ refs = [v \in Vms |-> {}]
    /\ memory = [v \in Vms |-> "none"]
    /\ thread = [t \in Threads |-> "none"] /\ handles = <<>>
    /\ pos = [v \in Vms |-> 0] /\ attached = [v \in Vms |-> 0]

-----------------------------------------------------------------------------
(* Vmm::try_from. *)

(* A panic of main, or its return, ends the process with all its threads. *)
End ==
    /\ main' = "ended"
    /\ UNCHANGED <<kinds, building, refs, memory, handles, running>>

OpenDispatcher ==
    /\ main = "open"
    /\ \/ /\ main' = "build" /\ dispatcher' = TRUE
          /\ UNCHANGED <<kinds, cur, step, made, refs, memory, handles, running>>
       \/ End

(* Vm::new asks the hypervisor for the VM's descriptor, then builds the      *)
(* device.                                                                   *)
VmNew(v) == <<"get_info">> \o DeviceNew[kinds[v]]

CallNow == VmNew(cur)[step]

OwnerAfter(call) ==
    CASE call = "get_info"   -> "raw"
      [] call = "map_region" -> "regions"
      [] call = "take_mem"   -> "backend"
      [] OTHER               -> memory[cur]

ConstructCall ==
    /\ main = "build" /\ step <= Len(VmNew(cur))
    /\ \/ /\ CallNow = "get_info" => dispatcher
          /\ made' = [made EXCEPT ![cur] = @ \cup {CallNow}]
          /\ memory' = [memory EXCEPT ![cur] = OwnerAfter(CallNow)]
          /\ step' = step + 1
          /\ UNCHANGED <<kinds, main, cur, dispatcher, refs, handles, running>>
       \/ End

(* Faulty variant: starts a VM as soon as it is built. *)
PushAndStart ==
    /\ main = "build" /\ step > Len(VmNew(cur))
    /\ refs' = [refs EXCEPT ![cur] = {"main"}]
    /\ main' = "spawnIo" /\ step' = 1
    /\ UNCHANGED <<kinds, cur, dispatcher, made, memory, handles, running>>

(* The VM joins the list. After the last one try_from returns, and the File  *)
(* of the dispatcher is dropped.                                             *)
PushVm ==
    /\ main = "build" /\ step > Len(VmNew(cur))
    /\ refs' = [refs EXCEPT ![cur] = {"main"}]
    /\ step' = 1
    /\ IF cur = NumVms
       THEN main' = "spawnIo" /\ cur' = 1 /\ dispatcher' = FALSE
       ELSE cur' = cur + 1 /\ UNCHANGED <<main, dispatcher>>
    /\ UNCHANGED <<kinds, made, memory, handles, running>>

-----------------------------------------------------------------------------
(* Vmm::run. A failed spawn panics with the mutex of the handles held: the   *)
(* Drop of the Vmm panics on it again, and the process aborts.               *)

Start(role) ==
    /\ thread' = [thread EXCEPT ![<<cur, role>>] = "live"]
    /\ handles' = Append(handles, <<cur, role>>)

(* The iteration ends: main drops its reference. *)
NextVm ==
    IF cur = NumVms
    THEN main' = "join" /\ UNCHANGED cur
    ELSE main' = "spawnIo" /\ cur' = cur + 1

SpawnIo ==
    /\ main = "spawnIo"
    /\ \/ /\ Start("io")
          /\ IF HasEventManager(kinds[cur])
             THEN /\ refs' = [refs EXCEPT ![cur] = @ \cup {"io"}]
                  /\ main' = "spawnEvm" /\ UNCHANGED cur
             ELSE /\ refs' = [refs EXCEPT ![cur] = {"io"}]
                  /\ NextVm
          /\ UNCHANGED <<kinds, step, dispatcher, made, memory, pos, attached>>
       \/ End

(* Faulty variant: spawns no event manager. *)
SkipEvm ==
    /\ main = "spawnEvm"
    /\ refs' = [refs EXCEPT ![cur] = @ \ {"main"}]
    /\ NextVm
    /\ UNCHANGED <<kinds, step, dispatcher, made, memory, handles, running>>

SpawnEvm ==
    /\ main = "spawnEvm"
    /\ \/ /\ Start("evm")
          /\ refs' = [refs EXCEPT ![cur] = (@ \ {"main"}) \cup {"evm"}]
          /\ NextVm
          /\ UNCHANGED <<kinds, step, dispatcher, made, memory, pos, attached>>
       \/ End
-----------------------------------------------------------------------------
(* Drop of the Vmm: pops a handle and joins it. Threads end only by a panic, *)
(* which the unwrap of the join passes on to main.                           *)

(* Faulty variant: joins the oldest thread first. *)
JoinOldest ==
    /\ main = "join"
    /\ handles # <<>> => thread[Head(handles)] = "dead"
    /\ End

Join ==
    /\ main = "join"
    /\ handles # <<>> => thread[handles[Len(handles)]] = "dead"
    /\ End

Main ==
    \/ OpenDispatcher \/ ConstructCall \/ PushVm
    \/ SpawnIo \/ SpawnEvm \/ Join

-----------------------------------------------------------------------------
(* The io thread of a VM. *)

(* It drops its Vm, and what activate() had in hand. The last holder of the  *)
(* Vm drops the memory with it.                                              *)
Dies(v, role) ==
    /\ thread' = [thread EXCEPT ![<<v, role>>] = "dead"]
    /\ refs' = [refs EXCEPT ![v] = @ \ {role}]
    /\ memory' = [memory EXCEPT ![v] =
                    IF refs[v] = {role} \/ (role = "io" /\ @ = "inHand")
                    THEN "closed" ELSE @]
    /\ pos' = IF role = "io" THEN [pos EXCEPT ![v] = 0] ELSE pos
    /\ UNCHANGED <<kinds, main, building, handles, attached>>

(* A request to the hypervisor fails, or an access is invalid. *)
IoFails(v) == Live(v, "io") /\ pos[v] = 0 /\ Dies(v, "io")

At(v, name) ==
    /\ Live(v, "io") /\ pos[v] > 0
    /\ Activate[kinds[v]][pos[v]].name = name

SetPos(v, p) == pos' = [pos EXCEPT ![v] = p]
Return(v) ==
    SetPos(v, IF pos[v] = Len(Activate[kinds[v]]) THEN 0 ELSE pos[v] + 1)

(* The driver sets DRIVER_OK, for the first time or after a reset. *)
BeginActivate(v) ==
    /\ Live(v, "io") /\ pos[v] = 0
    /\ SetPos(v, 1)
    /\ UNCHANGED <<kinds, main, building, refs, memory, handles, thread, attached>>

(* The calls that open files of their own. *)
Opens(v) == At(v, "open") \/ At(v, "open_tap") \/ At(v, "configure_tap")

(* prepare_activate may fail or succeed on each activation: it depends on the*)
(* driver's features and on device_activated, which VmThreads follows.       *)
CallSucceeds(v) ==
    /\ Opens(v) \/ At(v, "prepare") \/ At(v, "done")
    /\ Return(v)
    /\ UNCHANGED <<kinds, main, building, refs, memory, handles, thread, attached>>

TakeMem(v) ==
    /\ At(v, "mem")
    /\ IF memory[v] = "regions"
       THEN /\ memory' = [memory EXCEPT ![v] = "inHand"]
            /\ Return(v)
            /\ UNCHANGED <<kinds, main, building, refs, handles, thread, attached>>
       ELSE Dies(v, "io")

Attach(v) ==
    /\ attached' = [attached EXCEPT ![v] = @ + 1]
    /\ memory' = [memory EXCEPT ![v] = "backend"]
    /\ Return(v)
    /\ UNCHANGED <<kinds, main, building, refs, handles, thread>>

StartBackend(v) ==
    /\ At(v, "backend")
    /\ PlaneOf(kinds[v]) = "vhost" => attached[v] = 0
    /\ Attach(v)

(* prepare_activate returns its own errors, but unwraps the registration of  *)
(* each ioeventfd.                                                           *)
RegisterFails(v) == At(v, "prepare") /\ Dies(v, "io")

(* An error that activate() returns leaves the thread running, without what  *)
(* activate() had in hand.                                                   *)
CallFails(v) ==
    /\ Opens(v) \/ At(v, "prepare") \/ At(v, "backend")
    /\ IF Activate[kinds[v]][pos[v]].onError = "panic"
       THEN Dies(v, "io")
       ELSE /\ SetPos(v, 0)
            /\ memory' = [memory EXCEPT ![v] =
                            IF @ = "inHand" THEN "closed" ELSE @]
            /\ UNCHANGED <<kinds, main, building, refs, handles, thread, attached>>

-----------------------------------------------------------------------------
(* The event-manager thread of a VM. *)

(* It runs the closure that call_blocking posted. *)
AddSubscriber(v) == Live(v, "evm") /\ At(v, "subscribe") /\ Attach(v)

(* A handler unwraps an error, of those that are all attached by then.       *)
HandlerPanics(v) ==
    /\ Live(v, "evm") /\ attached[v] = Attachments(kinds[v])
    /\ Dies(v, "evm")

-----------------------------------------------------------------------------
RunIo(v) ==
    \/ BeginActivate(v) \/ CallSucceeds(v) \/ TakeMem(v) \/ StartBackend(v)
    \/ RegisterFails(v) \/ CallFails(v) \/ IoFails(v)

RunEventManager(v) == AddSubscriber(v) \/ HandlerPanics(v)

Next ==
    /\ ~Ended
    /\ Main \/ \E v \in Vms : RunIo(v) \/ RunEventManager(v)

Spec == Init /\ [][Next]_vars

(* The host schedules main and the event managers. No io thread is bound to  *)
(* do anything, and no thread is bound to die.                               *)
FairSpec ==
    /\ Spec
    /\ WF_vars(Main)
    /\ \A v \in Vms : WF_vars(~Ended /\ AddSubscriber(v))

-----------------------------------------------------------------------------
(* Properties. *)

Owners == {"none", "raw", "regions", "inHand", "backend", "closed"}

(* Every variable has its type. *)
TypeOK ==
    /\ kinds \in [Vms -> Kinds]
    /\ main \in {"open", "build", "spawnIo", "spawnEvm", "join", "ended"}
    /\ cur \in Vms /\ step \in 1 .. 6 /\ dispatcher \in BOOLEAN
    /\ \A v \in Vms : made[v] \subseteq {VmNew(v)[i] : i \in DOMAIN VmNew(v)}
    /\ refs \in [Vms -> SUBSET {"main", "io", "evm"}]
    /\ memory \in [Vms -> Owners]
    /\ thread \in [Threads -> {"none", "live", "dead"}]
    /\ Len(handles) <= 2 * NumVms
    /\ \A i \in DOMAIN handles : handles[i] \in Threads
    /\ pos \in [Vms -> 0 .. 7]
    /\ attached \in [Vms -> 0 .. 2]

(* The descriptor of a VM's requests stays open while a thread needs it or   *)
(* the guest memory: a failed activation that returns its error leaves the   *)
(* memory in the regions, and nobody drops the Vm of a live thread.          *)
DescriptorOpen ==
    \A v \in Vms :
        Live(v, "io") \/ (Live(v, "evm") /\ attached[v] > 0) =>
            memory[v] \in {"regions", "inHand", "backend"}

(* All or nothing: no VM is served before every device of the configuration  *)
(* is built, so a wrong or late one never takes down a guest already served. *)
AllBuiltFirst ==
    (\E t \in Threads : thread[t] # "none") =>
        \A v \in Vms : {VmNew(v)[i] : i \in DOMAIN VmNew(v)} \subseteq made[v]

(* Once all threads run, the process ends by the death of the thread spawned *)
(* last, and of no other: the death of any other VM's threads leaves the     *)
(* rest in service.                                                          *)
LastThread == <<NumVms, IF HasEventManager(kinds[NumVms]) THEN "evm" ELSE "io">>
EndedByLastThread ==
    [][main = "join" /\ main' = "ended" => thread[LastThread] = "dead"]_vars

(* The death of that thread ends the process, as join().unwrap() asks for.   *)
LastDeathNoticed == (thread[LastThread] = "dead") ~> Ended

(* An activation that calls the event manager is answered, even when the     *)
(* guest is faster than main and the event manager's thread does not exist   *)
(* yet; unless that thread has died or the process ended.                    *)
CallAnswered ==
    \A v \in Vms :
        At(v, "subscribe") ~>
            (~At(v, "subscribe") \/ thread[<<v, "evm">>] = "dead" \/ Ended)
=============================================================================
