----------------------------- MODULE DeviceKinds -----------------------------
(* The devices the device model can build and what their activate() does.    *)
EXTENDS Naturals, Sequences

(* The pairs of device type and data plane add_device accepts, and the       *)
(* device each builds; for any other pair it panics.                         *)
AddDevice ==
    [block   |-> [virtio |-> "VirtioBlock"],
     fs      |-> [vhost_user |-> "VhostUserFs"],
     vsock   |-> [vhost |-> "VhostVsock", vhost_user |-> "VhostUserVsock"],
     net     |-> [virtio |-> "VirtioNet", vhost |-> "VhostNet"],
     console |-> [virtio |-> "VirtioConsole"]]

Kinds == UNION {{AddDevice[t][p] : p \in DOMAIN AddDevice[t]} :
                    t \in DOMAIN AddDevice}

TypeOf(kind) ==
    CHOOSE t \in DOMAIN AddDevice :
        \E p \in DOMAIN AddDevice[t] : AddDevice[t][p] = kind
PlaneOf(kind) ==
    CHOOSE p \in DOMAIN AddDevice[TypeOf(kind)] :
        AddDevice[TypeOf(kind)][p] = kind

(* Only a VM whose data plane is "virtio" has an event manager.              *)
HasEventManager(kind) == PlaneOf(kind) = "virtio"

QueueNum == [block |-> 1, fs |-> 2, vsock |-> 3, net |-> 2, console |-> 2]

QueuesOf(kind) == 0 .. QueueNum[TypeOf(kind)] - 1

(* The queues a handler or backend serves: no device serves the event queue  *)
(* of vsock.                                                                 *)
ServedQueues(kind) == QueuesOf(kind) \cap {0, 1}

(* The feature bits that the rings or activate() depend on. *)
Features == {"VERSION_1", "EVENT_IDX"}

(* What a backend may support. *)
BackendFeatures(kind) ==
    IF HasEventManager(kind) THEN {{}} ELSE {{"VERSION_1"}, Features}

(* device_features, of those devices that have features of their own. *)
DeviceFeatures ==
    [VirtioBlock |-> {}, VirtioNet |-> {"EVENT_IDX"}, VirtioConsole |-> {},
     VhostNet |-> Features, VhostVsock |-> Features,
     VhostUserVsock |-> {}, VhostUserFs |-> {}]

(* What the constructor offers the driver: VERSION_1 always, what the device *)
(* has, and what a vhost-user backend, by then connected, supports.          *)
Offered(kind, supported) ==
    {"VERSION_1"} \cup DeviceFeatures[kind]
        \cup (IF PlaneOf(kind) = "vhost_user" THEN supported ELSE {})

(* What each constructor does to the hypervisor's state and the guest memory, *)
(* in order. An error of any call, of the configuration or of a feature word *)
(* panics.                                                                   *)
CommonNew == <<"map_region", "register_irqfd">>

BlockNew   == CommonNew \o <<"register_mmio">>
NetNew     == CommonNew \o <<"register_mmio">>
ConsoleNew == CommonNew \o <<"register_mmio">>

(* The in-kernel vhost devices take the memory at once; *)
VhostNetNew   == CommonNew \o <<"take_mem", "register_mmio">>
VhostVsockNew == CommonNew \o <<"take_mem", "register_mmio">>

(* the vhost-user ones wait for their backend before anything else. *)
VhostUserVsockNew == <<"connect">> \o CommonNew \o <<"register_mmio">>
VhostUserFsNew    == <<"connect">> \o CommonNew \o <<"register_mmio">>

DeviceNew ==
    [VirtioBlock |-> BlockNew, VirtioNet |-> NetNew,
     VirtioConsole |-> ConsoleNew, VhostNet |-> VhostNetNew,
     VhostVsock |-> VhostVsockNew, VhostUserVsock |-> VhostUserVsockNew,
     VhostUserFs |-> VhostUserFsNew]

(* The calls of activate() that can fail or that other parts can see, with   *)
(* what an error does: `?` returns it, unwrap panics.                        *)
Call(name, onError) == [name |-> name, onError |-> onError]

BlockActivate ==
    <<Call("open", "panic"), Call("prepare", "panic"), Call("mem", "panic"),
      Call("subscribe", "panic"), Call("done", "panic")>>

(* Faulty variant: takes the memory before it prepares.                      *)
NetActivateMemFirst ==
    <<Call("open_tap", "return"), Call("configure_tap", "return"),
      Call("mem", "panic"), Call("prepare", "return"),
      Call("subscribe", "panic"), Call("done", "panic")>>

NetActivate ==
    <<Call("open_tap", "return"), Call("configure_tap", "return"),
      Call("prepare", "return"), Call("mem", "panic"),
      Call("subscribe", "panic"), Call("done", "panic")>>

ConsoleActivate ==
    <<Call("open", "panic"), Call("prepare", "panic"), Call("mem", "panic"),
      Call("subscribe", "panic"), Call("open", "panic"),
      Call("subscribe", "panic"), Call("done", "panic")>>

VhostNetActivate ==
    <<Call("open_tap", "return"), Call("configure_tap", "return"),
      Call("prepare", "panic"), Call("backend", "panic"), Call("done", "panic")>>

VhostVsockActivate ==
    <<Call("prepare", "panic"), Call("backend", "panic"), Call("done", "panic")>>

VhostUserVsockActivate ==
    <<Call("prepare", "panic"), Call("mem", "panic"), Call("backend", "panic"),
      Call("done", "panic")>>

VhostUserFsActivate ==
    <<Call("prepare", "panic"), Call("mem", "panic"), Call("backend", "panic"),
      Call("done", "panic")>>

Activate ==
    [VirtioBlock |-> BlockActivate, VirtioNet |-> NetActivate,
     VirtioConsole |-> ConsoleActivate, VhostNet |-> VhostNetActivate,
     VhostVsock |-> VhostVsockActivate,
     VhostUserVsock |-> VhostUserVsockActivate,
     VhostUserFs |-> VhostUserFsActivate]

(* The constructors of the in-kernel vhost devices already take the regions. *)
InitialRegions(kind) == IF PlaneOf(kind) = "vhost" THEN 0 ELSE 1

(* How many subscribers or backends a complete activation attaches.          *)
Attachments(kind) == IF kind = "VirtioConsole" THEN 2 ELSE 1

(* The kinds whose handlers take the queues out of the configuration.        *)
TakesQueues(kind) == kind \in {"VirtioBlock", "VirtioConsole"}
=============================================================================
