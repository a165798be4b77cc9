----------------------------- MODULE MCRuntime -----------------------------
(* Small instances of Runtime for TLC. *)
EXTENDS Runtime, TLC

(* Slab indices and read buffers are interchangeable. *)
Symmetry == Permutations(Idx) \cup Permutations(Buf)
=============================================================================
