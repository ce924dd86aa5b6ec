--------------------------- MODULE ConsoleService ---------------------------
(* What the virtio console device promises whoever types at the              *)
(* pseudo-terminal and its driver, with notifications, rings, events and the *)
(* way from the terminal to the queue hidden.  What is typed leaves only into*)
(* a receive buffer the driver has lent, and that buffer comes back once, and*)
(* never empty.  A transmit buffer comes back once, and only after it was    *)
(* printed.  A queue handler that stops on an error moves nothing more; the  *)
(* terminal goes on until its handler panics, on more input than it can hold *)
(* or on output the terminal refuses.                                        *)
EXTENDS Naturals

VARIABLES
    input,          \* chunks typed that are in no receive buffer yet
    output,         \* chunks printed that the terminal has not got yet
    lent,           \* receive buffers the device has
    queued,         \* transmit buffers the device has
    done,           \* the queue whose buffer is filled or printed, or "none"
    stopped,        \* the queue handler gave up
    dead            \* the thread panicked

vars == <<input, output, lent, queued, done, stopped, dead>>

Init ==
    /\ input = 0 /\ output = 0 /\ lent = 0 /\ queued = 0
    /\ done = "none" /\ stopped = FALSE /\ dead = FALSE

Serving == ~stopped /\ ~dead

Type == input' = input + 1 /\ UNCHANGED <<output, lent, queued, done, stopped, dead>>

Lend == lent' = lent + 1 /\ UNCHANGED <<input, output, queued, done, stopped, dead>>

Queue == queued' = queued + 1 /\ UNCHANGED <<input, output, lent, done, stopped, dead>>

(* One chunk at least goes into a lent buffer, *)
Fill ==
    /\ Serving /\ done = "none" /\ lent > 0
    /\ input' \in 0 .. input - 1
    /\ done' = "rx"
    /\ UNCHANGED <<output, lent, queued, stopped, dead>>

(* a queued one is printed, *)
Emit ==
    /\ Serving /\ done = "none" /\ queued > 0
    /\ output' = output + 1
    /\ done' = "tx"
    /\ UNCHANGED <<input, lent, queued, stopped, dead>>

(* and then given back. *)
Return ==
    /\ Serving /\ done # "none"
    /\ IF done = "rx" THEN lent > 0 /\ lent' = lent - 1 /\ UNCHANGED queued
                      ELSE queued > 0 /\ queued' = queued - 1 /\ UNCHANGED lent
    /\ done' = "none"
    /\ UNCHANGED <<input, output, stopped, dead>>

(* The terminal gets a chunk, or refuses it. *)
Show ==
    /\ ~dead /\ output > 0 /\ output' = output - 1
    /\ dead' \in BOOLEAN
    /\ UNCHANGED <<input, lent, queued, done, stopped>>

(* More is typed than the device can hold. *)
Overflow ==
    /\ ~dead /\ input > 0 /\ input' = input - 1
    /\ dead' = TRUE
    /\ UNCHANGED <<output, lent, queued, done, stopped>>

(* What is in the buffer in hand goes nowhere then. *)
Stop ==
    /\ Serving
    /\ stopped' = TRUE /\ done' = "none"
    /\ UNCHANGED <<input, output, lent, queued, dead>>

Next ==
    \/ Type \/ Lend \/ Queue \/ Fill \/ Emit \/ Return
    \/ Show \/ Overflow \/ Stop

Spec == Init /\ [][Next]_vars
=============================================================================
