---------------------------- MODULE MC_SttStream ----------------------------
(* An instance of SttStream: see Stt.cfg for the policy, in frames.        *)
EXTENDS SttStream
=============================================================================
