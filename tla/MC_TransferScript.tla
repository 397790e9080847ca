------------------------ MODULE MC_TransferScript ------------------------
(* Two materials and a conveyor with two slots.                            *)
EXTENDS TransferScript
CONSTANTS a, b, s1, s2
==============================================================================
