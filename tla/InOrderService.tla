--------------------------- MODULE InOrderService ---------------------------
(* What the virtio block device promises its driver, with every notification *)
(* hidden: requests are completed one at a time, each exactly once, in the   *)
(* order in which they were made available; completions are observed in that *)
(* order; a service that stops on an error completes nothing more.           *)
EXTENDS Naturals, Sequences, BlkRequest

CONSTANT MaxRequests    \* bound on the requests of a behaviour

VARIABLES
    submitted,      \* chains, in the order the driver made them available
    completed,      \* completions, in the order the device returned them
    observed,       \* how many completions the driver has consumed
    stopped         \* the device gave up on the queue

vars == <<submitted, completed, observed, stopped>>

Init ==
    /\ submitted = <<>>
    /\ completed = <<>>
    /\ observed = 0
    /\ stopped = FALSE

Submit ==
    /\ Len(submitted) < MaxRequests
    /\ \E chain \in Chain : submitted' = Append(submitted, chain)
    /\ UNCHANGED <<completed, observed, stopped>>

Complete ==
    /\ ~stopped
    /\ Len(completed) < Len(submitted)
    /\ completed' = Append(completed, UsedElem(submitted[Len(completed) + 1]))
    /\ UNCHANGED <<submitted, observed, stopped>>

Observe ==
    /\ observed < Len(completed)
    /\ observed' = observed + 1
    /\ UNCHANGED <<submitted, completed, stopped>>

Stop ==
    /\ ~stopped
    /\ stopped' = TRUE
    /\ UNCHANGED <<submitted, completed, observed>>

Next == Submit \/ Complete \/ Observe \/ Stop

Spec == Init /\ [][Next]_vars
=============================================================================
