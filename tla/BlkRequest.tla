----------------------------- MODULE BlkRequest -----------------------------
(* Requests of the virtio block queue. A request is a descriptor chain: what *)
(* matters of it is the index of its head descriptor and whether             *)
(* Request::parse accepts it.                                                *)
CONSTANT Heads          \* descriptor indices of the ring

Chain == [head : Heads, wellFormed : BOOLEAN]

Completion == [head : Heads, served : BOOLEAN]

(* The used element of a chain. A chain that does not parse is completed     *)
(* with length 0 (served = FALSE), any other with the length of its answer.  *)
UsedElem(chain) == [head |-> chain.head, served |-> chain.wellFormed]
=============================================================================
