------------------------ MODULE MC_ExecutionHistory ------------------------
(* Two threads of execute() that race for one request, whose plan ends     *)
(* with a stop step or does not, one fault, and five grants: two batches   *)
(* and two motions of others, enough for a stale token of each kind to     *)
(* meet a newer grant of each kind.                                        *)
EXTENDS ExecutionHistory, TLC

(* The threads of execute() are interchangeable; no liveness is checked.   *)
Symmetry == Permutations(Threads)
=============================================================================
