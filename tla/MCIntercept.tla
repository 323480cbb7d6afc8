---------------------------- MODULE MCIntercept -----------------------------
(* Instances of Intercept: one process at a time, or two at once. *)
EXTENDS Intercept, TLC

CONSTANTS p1, p2, s1, s2, Corp

\* Processes are interchangeable; used only where no liveness is checked.
ProcSymmetry == Permutations(Procs)

\* A user without a proxy: what is trusted does not depend on it.
CrashInit == Init /\ \A s \in Services : orig[s] = NoProxy

CrashSpec == CrashInit /\ [][Next]_vars
=============================================================================
