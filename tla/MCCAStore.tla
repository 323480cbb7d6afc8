----------------------------- MODULE MCCAStore ------------------------------
(* An instance of CAStore: three starts at the same time. *)
EXTENDS CAStore, TLC

CONSTANTS p1, p2, p3

\* Processes are interchangeable.
ProcSymmetry == Permutations(Procs)
=============================================================================
