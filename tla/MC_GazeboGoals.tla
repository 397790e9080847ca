--------------------------- MODULE MC_GazeboGoals ---------------------------
(* Three goals and two stops: one that is given up, one that moves, and    *)
(* one that takes its place.                                               *)
EXTENDS GazeboGoals
=============================================================================
