--------------------------- MODULE CellAuthority ---------------------------
(***************************************************************************)
(* What the work cell promises to everything that moves the robot, seen    *)
(* from those who act on the authority they were given: it is granted to   *)
(* one only when nobody acts on an earlier grant, and it ends for its      *)
(* holder alone.  What the cell has on record of it is not seen here.      *)
(* CellExecution and ExecutionCore are shown to implement this.            *)
(***************************************************************************)
CONSTANT
    Holders         \* whoever may be granted the cell

VARIABLE
    holders         \* those who were granted it and have not given it back

Init == holders = {}

Grant(h) ==
    /\ holders = {}
    /\ holders' = {h}

Return(h) ==
    /\ h \in holders
    /\ holders' = holders \ {h}

Next == \E h \in Holders : Grant(h) \/ Return(h)

Spec == Init /\ [][Next]_holders
=============================================================================
