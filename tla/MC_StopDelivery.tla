--------------------------- MODULE MC_StopDelivery ---------------------------
(* One press of the button, one starter of each kind that is on.           *)
EXTENDS StopDelivery
CONSTANTS p1, t1, c1, s1
==============================================================================
