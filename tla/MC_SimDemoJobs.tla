--------------------------- MODULE MC_SimDemoJobs ---------------------------
(* Four jobs, two goals, and up to two deaths of the server.               *)
EXTENDS SimDemoJobs
CONSTANTS g1, g2
=============================================================================
