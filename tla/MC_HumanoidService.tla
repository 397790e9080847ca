------------------------- MODULE MC_HumanoidService -------------------------
(* Two sessions that share the one G1.                                     *)
EXTENDS HumanoidService
CONSTANTS a, b
==============================================================================
