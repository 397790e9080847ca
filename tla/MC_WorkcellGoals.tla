-------------------------- MODULE MC_WorkcellGoals --------------------------
(* The three materials, pallets and slots of config/workcell and the       *)
(* crossings measured in fr3_2f85_workcell_path_clearance.json: between    *)
(* the first pallet and slot 1, and between slots 1 and 3, a path passes   *)
(* over slot 2; between the first pallet and slot 2, over slot 3.          *)
EXTENDS WorkcellGoals, TLC
CONSTANTS a, b, c, s1, s2, s3

MC_Order == <<a, b, c>>
MC_SlotOrder == <<s1, s2, s3>>

Over(p, q, k) == {<<<<m, p, q>>, k>> : m \in {a, b, c}} \cup
                 {<<<<m, q, p>>, k>> : m \in {a, b, c}}
MC_Crossing == Over(a, s1, s2) \cup Over(s1, s3, s2) \cup Over(a, s2, s3)

At(x, y, z) == a :> x @@ b :> y @@ c :> z

(* All at home; one on the conveyor and one on its pallet; two on the      *)
(* conveyor; the conveyor full; everything on the pallet of another.       *)
MC_Starts == {At(a, b, c), At(s1, a, c), At(s2, s1, c), At(s1, s3, s2),
              At(b, c, a)}

(* A swap of pallets; two slots, one across the path to the other; the     *)
(* conveyor full; some slot for two; a slot and another pallet; all home,  *)
(* as an arrangement and as the goal of its own.                           *)
MC_Requests == {a :> b @@ b :> a,
                a :> s1 @@ b :> s2,
                At(s2, s3, s1),
                a :> AnySlot @@ b :> AnySlot,
                c :> s2 @@ b :> c,
                At(a, b, c),
                ReturnEverything}

MC_Environments == {[blocked |-> {}, gone |-> {}], [blocked |-> {s2}, gone |-> {}],
                    [blocked |-> {}, gone |-> {c}]}

(* Over each of the 120 arrangements, with each request and environment.   *)
ASSUME SoundPlanner == PlannerIsSound
==============================================================================
