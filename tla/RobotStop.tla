----------------------------- MODULE RobotStop -----------------------------
(***************************************************************************)
(* What an adapter promises about stopping, in two variables: the latch,   *)
(* and the motions that are tracked because they may still move the robot. *)
(* No motion enters the set while the latch is set, and the latch is only  *)
(* cleared once the set is empty.                                          *)
(***************************************************************************)
CONSTANT Motions

VARIABLES halted, live

Init ==
    /\ halted = FALSE
    /\ live = {}

Begin(m) ==
    /\ ~halted
    /\ m \notin live
    /\ live' = live \cup {m}
    /\ UNCHANGED halted

End(m) ==
    /\ m \in live
    /\ live' = live \ {m}
    /\ UNCHANGED halted

Halt ==
    /\ halted' = TRUE
    /\ UNCHANGED live

Resume ==
    /\ live = {}
    /\ halted' = FALSE
    /\ UNCHANGED live

Next ==
    \/ \E m \in Motions : Begin(m) \/ End(m)
    \/ Halt
    \/ Resume

Spec == Init /\ [][Next]_<<halted, live>>
=============================================================================
