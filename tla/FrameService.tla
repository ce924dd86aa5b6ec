---------------------------- MODULE FrameService ----------------------------
(* What the virtio net device promises, with notifications, rings and        *)
(* threads hidden: every frame that arrives is put into exactly one of the   *)
(* buffers the driver has lent, every buffer comes back once, and every      *)
(* buffer queued for transmission is sent once.  Frames may wait for buffers *)
(* but none is dropped or doubled; a service that stops on an error moves    *)
(* nothing more.                                                             *)
EXTENDS Naturals

VARIABLES
    waiting,        \* frames that arrived and are not in a buffer yet
    lent,           \* receive buffers the device has
    queued,         \* transmit buffers the device has
    stopped         \* the device gave up

vars == <<waiting, lent, queued, stopped>>

Init == waiting = 0 /\ lent = 0 /\ queued = 0 /\ stopped = FALSE

Arrive == waiting' = waiting + 1 /\ UNCHANGED <<lent, queued, stopped>>

Lend == lent' = lent + 1 /\ UNCHANGED <<waiting, queued, stopped>>

Queue == queued' = queued + 1 /\ UNCHANGED <<waiting, lent, stopped>>

Receive ==
    /\ ~stopped
    /\ waiting > 0 /\ waiting' = waiting - 1
    /\ lent > 0 /\ lent' = lent - 1
    /\ UNCHANGED <<queued, stopped>>

Send ==
    /\ ~stopped
    /\ queued > 0 /\ queued' = queued - 1
    /\ UNCHANGED <<waiting, lent, stopped>>

Stop == ~stopped /\ stopped' = TRUE /\ UNCHANGED <<waiting, lent, queued>>

Next == Arrive \/ Lend \/ Queue \/ Receive \/ Send \/ Stop

Spec == Init /\ [][Next]_vars
=============================================================================
