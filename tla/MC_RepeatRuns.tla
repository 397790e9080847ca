---------------------------- MODULE MC_RepeatRuns ----------------------------
(* Two rounds of one material: the smallest run that has a step to leave   *)
(* out, one to repeat and a round to finish after.  Two writes that raise: *)
(* the one that ends a run, and the one of the except clause after it.     *)
EXTENDS RepeatRuns, TLC

(* The threads are interchangeable; no liveness is checked.                *)
Symmetry == Permutations(Threads)
=============================================================================
