-------------------------- MODULE MCRequestMessages -------------------------
(* Messages and threads that are interchangeable.                          *)
EXTENDS RequestMessages, TLC

Symmetry == Permutations(Messages) \cup Permutations(Callers)
=============================================================================
