-------------------------- MODULE MC_ExecutionCore --------------------------
(* The instances of ExecutionCore: two threads that race for one plan      *)
(* under a stop, a release and a cancel (Exec), and one thread alone under *)
(* a stop that gets lost (Exec_lost_stop).                                 *)
EXTENDS ExecutionCore, TLC

(* The threads of execute() are interchangeable; no liveness is checked.   *)
Symmetry == Permutations(Clients)
=============================================================================
