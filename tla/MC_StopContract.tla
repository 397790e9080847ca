-------------------------- MODULE MC_StopContract --------------------------
(* Two dispatches compete for the motion channel, a third uses the gripper *)
EXTENDS StopContract, TLC

CONSTANTS r1, r2, r3, motion, gripper

MC_ChannelOf == [r \in Requests |-> IF r = r3 THEN gripper ELSE motion]
MC_Symmetry == Permutations({r1, r2})
=============================================================================
