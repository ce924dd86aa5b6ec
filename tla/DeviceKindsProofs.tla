-------------------------- MODULE DeviceKindsProofs --------------------------
(* Facts about the seven devices and the calls of their activate().          *)
EXTENDS DeviceKinds, TLAPS

KindNames ==
    {"VirtioBlock", "VhostUserFs", "VhostVsock", "VhostUserVsock", "VirtioNet",
     "VhostNet", "VirtioConsole"}

(* These are all the kinds. *)
LEMMA KindsAre ==
    ASSUME NEW k \in Kinds
    PROVE  k \in KindNames
<1>1. PICK t \in DOMAIN AddDevice :
        \E p \in DOMAIN AddDevice[t] : AddDevice[t][p] = k
  BY DEF Kinds
<1>2. t \in {"block", "fs", "vsock", "net", "console"}
  BY <1>1 DEF AddDevice
<1>3. CASE t = "block"
  BY <1>1, <1>3 DEF AddDevice, KindNames
<1>4. CASE t = "fs"
  BY <1>1, <1>4 DEF AddDevice, KindNames
<1>5. CASE t = "vsock"
  BY <1>1, <1>5 DEF AddDevice, KindNames
<1>6. CASE t = "net"
  BY <1>1, <1>6 DEF AddDevice, KindNames
<1>7. CASE t = "console"
  BY <1>1, <1>7 DEF AddDevice, KindNames
<1> QED BY <1>2, <1>3, <1>4, <1>5, <1>6, <1>7

(* A device is built for one type and one data plane. *)
Plane ==
    [VirtioBlock |-> "virtio", VhostUserFs |-> "vhost_user",
     VhostVsock |-> "vhost", VhostUserVsock |-> "vhost_user",
     VirtioNet |-> "virtio", VhostNet |-> "vhost", VirtioConsole |-> "virtio"]

LEMMA BuiltFor ==
    ASSUME NEW k \in KindNames, NEW t \in DOMAIN AddDevice,
           NEW p \in DOMAIN AddDevice[t], AddDevice[t][p] = k
    PROVE  p = Plane[k]
<1>1. t \in {"block", "fs", "vsock", "net", "console"}
  BY DEF AddDevice
<1>2. CASE t = "block"
  BY <1>2 DEF AddDevice, Plane
<1>3. CASE t = "fs"
  BY <1>3 DEF AddDevice, Plane
<1>4. CASE t = "vsock"
  BY <1>4 DEF AddDevice, Plane
<1>5. CASE t = "net"
  BY <1>5 DEF AddDevice, Plane
<1>6. CASE t = "console"
  BY <1>6 DEF AddDevice, Plane
<1> QED BY <1>1, <1>2, <1>3, <1>4, <1>5, <1>6

LEMMA PlaneIs ==
    ASSUME NEW k \in Kinds
    PROVE  PlaneOf(k) = Plane[k]
<1>1. \E t \in DOMAIN AddDevice :
        \E p \in DOMAIN AddDevice[t] : AddDevice[t][p] = k
  BY DEF Kinds
<1>2. /\ TypeOf(k) \in DOMAIN AddDevice
      /\ \E p \in DOMAIN AddDevice[TypeOf(k)] : AddDevice[TypeOf(k)][p] = k
  BY <1>1 DEF TypeOf
<1>3. /\ PlaneOf(k) \in DOMAIN AddDevice[TypeOf(k)]
      /\ AddDevice[TypeOf(k)][PlaneOf(k)] = k
  BY <1>2 DEF PlaneOf
<1> QED BY <1>2, <1>3, BuiltFor, KindsAre

-----------------------------------------------------------------------------
(* Positions in Activate[k]: that of prepare_activate, and that of the call  *)
(* no activation passes twice, which is mem() or, where the constructor has  *)
(* taken the memory, the set-up of the kernel's backend.                     *)
PrepareAt ==
    [VirtioBlock |-> 2, VhostUserFs |-> 1, VhostVsock |-> 1,
     VhostUserVsock |-> 1, VirtioNet |-> 3, VhostNet |-> 3, VirtioConsole |-> 2]

OnceAt ==
    [VirtioBlock |-> 3, VhostUserFs |-> 2, VhostVsock |-> 2,
     VhostUserVsock |-> 2, VirtioNet |-> 4, VhostNet |-> 4, VirtioConsole |-> 3]

(* How many subscribers and backends the calls before position i attach.     *)
AttachedBy(k, i) ==
    IF k = "VirtioConsole"
    THEN IF i <= 4 THEN 0 ELSE IF i <= 6 THEN 1 ELSE 2
    ELSE IF i <= OnceAt[k] THEN 0
         ELSE IF i = OnceAt[k] + 1 /\ Plane[k] # "vhost" THEN 0 ELSE 1

OtherCalls == {"open", "open_tap", "configure_tap"}

Calls == [name : OtherCalls \cup {"prepare", "mem", "subscribe", "backend", "done"},
          onError : {"panic", "return"}]

(* What the proofs use of a list of calls s that device k makes.             *)
CallsOf(k, s) ==
    /\ s \in Seq(Calls)
    /\ Len(s) \in 1 .. 7
    /\ \A i \in 1 .. Len(s) :
        /\ s[i].name = "done" <=> i = Len(s)
        /\ s[i].onError = "return" => i < OnceAt[k] /\ k # "VirtioConsole"
        /\ s[i].name \in OtherCalls =>
              /\ i # PrepareAt[k] /\ i # OnceAt[k]
              /\ AttachedBy(k, i + 1) = AttachedBy(k, i)
        /\ s[i].name = "prepare" =>
              /\ i = PrepareAt[k] /\ i < OnceAt[k]
              /\ AttachedBy(k, i + 1) = AttachedBy(k, i)
        /\ s[i].name = "mem" =>
              /\ i = OnceAt[k] /\ i > PrepareAt[k]
              /\ AttachedBy(k, i + 1) = AttachedBy(k, i)
              /\ Plane[k] # "vhost"
        /\ s[i].name = "subscribe" =>
              /\ Plane[k] = "virtio" /\ i > OnceAt[k] /\ i > PrepareAt[k]
              /\ AttachedBy(k, i) \in 0 .. Attachments(k) - 1
              /\ AttachedBy(k, i + 1) = AttachedBy(k, i) + 1
        /\ s[i].name = "backend" =>
              /\ Plane[k] # "virtio" /\ i > PrepareAt[k]
              /\ IF Plane[k] = "vhost" THEN i = OnceAt[k] ELSE i > OnceAt[k]
              /\ AttachedBy(k, i) = 0 /\ AttachedBy(k, i + 1) = 1
              /\ s[i].onError = "panic"
        /\ s[i].name = "done" =>
              /\ i > OnceAt[k] /\ i > PrepareAt[k]
              /\ AttachedBy(k, i) = Attachments(k)

LEMMA CallsAre ==
    ASSUME NEW k \in Kinds
    PROVE  CallsOf(k, Activate[k])
<1> USE DEF CallsOf, Calls, OtherCalls, Call, AttachedBy, OnceAt, PrepareAt, Plane,
            Attachments
<1>1. CallsOf("VirtioBlock", BlockActivate)
  BY DEF BlockActivate
<1>2. CallsOf("VirtioNet", NetActivate)
  BY DEF NetActivate
<1>3. CallsOf("VirtioConsole", ConsoleActivate)
  BY DEF ConsoleActivate
<1>4. CallsOf("VhostNet", VhostNetActivate)
  BY DEF VhostNetActivate
<1>5. CallsOf("VhostVsock", VhostVsockActivate)
  BY DEF VhostVsockActivate
<1>6. CallsOf("VhostUserVsock", VhostUserVsockActivate)
  BY DEF VhostUserVsockActivate
<1>7. CallsOf("VhostUserFs", VhostUserFsActivate)
  BY DEF VhostUserFsActivate
<1> HIDE DEF CallsOf
<1> QED BY <1>1, <1>2, <1>3, <1>4, <1>5, <1>6, <1>7, KindsAre
        DEF Activate, KindNames

(* The call at PrepareAt is prepare_activate. *)
LEMMA PrepareIsThere ==
    ASSUME NEW k \in Kinds, PrepareAt[k] \in DOMAIN Activate[k]
    PROVE  Activate[k][PrepareAt[k]].name = "prepare"
BY KindsAre
   DEF KindNames, Activate, PrepareAt, BlockActivate, NetActivate, ConsoleActivate,
       VhostNetActivate, VhostVsockActivate, VhostUserVsockActivate,
       VhostUserFsActivate, Call

(* It begins before prepare_activate, with nothing attached yet. *)
LEMMA ActivateBegins ==
    ASSUME NEW k \in Kinds
    PROVE  /\ PrepareAt[k] \in Nat /\ OnceAt[k] \in Nat
           /\ 1 <= PrepareAt[k] /\ PrepareAt[k] < OnceAt[k]
           /\ AttachedBy(k, 1) = 0
           /\ Attachments(k) \in {1, 2}
BY KindsAre DEF KindNames, PrepareAt, OnceAt, AttachedBy, Attachments
=============================================================================
