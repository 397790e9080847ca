--------------------------- MODULE ArrangementPlan ---------------------------
(***************************************************************************)
(* How the server turns the recorded arrangement of the workcell and a     *)
(* request into a sequence of transfers: plan_arrangement of               *)
(* server/sim_demo_arrangement.py and _return_order of                     *)
(* server/sim_demo_goals.py.                                               *)
(*                                                                         *)
(* A place is a conveyor slot or a pallet, and a pallet is named by the    *)
(* material whose origin it is: ORIGIN of m is the place m.  A route is a  *)
(* triple <<material, from, to>>; NoRoute holds those the arm has no       *)
(* verified poses for, and Crosses maps a route to the places its measured *)
(* path passes over.                                                       *)
(*                                                                         *)
(* The words of the user are left out: the assertions, the sources said,   *)
(* "all materials", which can refuse a plan, and the order stated, with    *)
(* which _priority_order begins.  That order decides in the code as the    *)
(* order of the manifest does here: who gets which free slot, which        *)
(* material of a cycle makes the detour, and which of two ready steps is   *)
(* first (with order_explicit, also before one that goes home).            *)
(***************************************************************************)
EXTENDS Integers, Sequences, FiniteSets, SequencesExt

CONSTANTS Order,          \* the materials, in the order of the cell manifest
          SlotOrder,      \* the verified conveyor slots, by number
          NoRoute,        \* routes without verified poses
          Crossing,       \* <<route, place>>: the path passes over the place
          AnySlot,        \* "some free place of the conveyor"
          Refused         \* no plan, no place

Materials == ToSet(Order)
Slots == ToSet(SlotOrder)
Places == Slots \cup Materials

ASSUME OrdersAreInjective ==
    /\ Cardinality(Materials) = Len(Order)
    /\ Cardinality(Slots) = Len(SlotOrder)
    /\ Slots \cap Materials = {}

ASSUME MarksAreNoPlaces ==
    /\ AnySlot \notin Places
    /\ Refused \notin Places \cup {AnySlot}

Supported(m, from, to) == from # to /\ <<m, from, to>> \notin NoRoute

Crosses(m, from, to) == {k \in Places : <<<<m, from, to>>, k>> \in Crossing}

-----------------------------------------------------------------------------
(* Where every material ends.  `cur` is the recorded place of each material,*)
(* `targets` the request (a function from some materials to a place or     *)
(* AnySlot), `blocked` the slots not to use, `frozen` the materials not to *)
(* touch.                                                                  *)
(* A definition named Mutant_... is a wrong variant of the one after it.   *)

(* The materials of the request come before the others, each in the order  *)
(* of the manifest; the code puts those first that the user put first.     *)
Priority(targets) ==
    SelectSeq(Order, LAMBDA m : m \in DOMAIN targets) \o
    SelectSeq(Order, LAMBDA m : m \notin DOMAIN targets)

Contradicts(targets, blocked, frozen) ==
    \E m \in DOMAIN targets : m \in frozen \/ targets[m] \in blocked

FreeAtEnd(final, place, m) == \A x \in Materials \ {m} : final[x] # place

MustMove(cur, targets, blocked, m) ==
    cur[m] \in blocked \/ \E x \in DOMAIN targets : targets[x] = cur[m]

(* A material the request does not name makes room: to its own pallet when *)
(* that is free in the end, else to a slot free both now and then.         *)
Displace(cur, targets, blocked, frozen, final, m) ==
    LET home == SelectSeq(<<m>>, LAMBDA k : cur[m] # k /\ FreeAtEnd(final, k, m))
        spare == SelectSeq(SlotOrder,
                           LAMBDA s : /\ s \notin blocked
                                      /\ FreeAtEnd(final, s, m)
                                      /\ \A x \in Materials : cur[x] # s)
    IN  IF \/ final = Refused
           \/ m \in DOMAIN targets
           \/ ~MustMove(cur, targets, blocked, m)
        THEN final
        ELSE IF m \in frozen \/ home \o spare = <<>>
        THEN Refused
        ELSE [final EXCEPT ![m] = Head(home \o spare)]

TwoAtOnePlace(final) ==
    \E x, y \in Materials : x # y /\ final[x] = final[y] /\ final[x] # AnySlot

Mutant_Open(blocked, final, m) ==
    SelectSeq(SlotOrder, LAMBDA s : FreeAtEnd(final, s, m))

Open(blocked, final, m) ==
    SelectSeq(SlotOrder, LAMBDA s : s \notin blocked /\ FreeAtEnd(final, s, m))

(* "Anywhere on the conveyor" is where the material is, if that is an      *)
(* allowed slot, else the first slot nobody ends on.                       *)
PlaceAnywhere(cur, blocked, final, m) ==
    LET open == Open(blocked, final, m)
        here == SelectSeq(open, LAMBDA s : s = cur[m])
    IN  IF final = Refused \/ final[m] # AnySlot
        THEN final
        ELSE IF open = <<>> THEN Refused
        ELSE [final EXCEPT ![m] = Head(here \o open)]

FinalPlaces(cur, targets, blocked, frozen) ==
    LET asked == [m \in Materials |->
                    IF m \in DOMAIN targets THEN targets[m] ELSE cur[m]]
        cleared == FoldLeft(LAMBDA f, m : Displace(cur, targets, blocked, frozen, f, m),
                            asked, Order)
    IN  IF \/ Contradicts(targets, blocked, frozen)
           \/ cleared = Refused
           \/ TwoAtOnePlace(cleared)
        THEN Refused
        ELSE FoldLeft(LAMBDA f, m : PlaceAnywhere(cur, blocked, f, m),
                      cleared, Priority(targets))

-----------------------------------------------------------------------------
(* The legs: a direct route, or two legs over a temporary place when there *)
(* is none, when a material that stays is in its way, or when the order    *)
(* has a cycle (`force`).                                                  *)

Changed(cur, final) == {m \in Materials : cur[m] # final[m]}

(* A material that stays where it is stands under the path. *)
StaticHit(cur, final, m, from, to) ==
    \E x \in Materials \ (Changed(cur, final) \cup {m}) :
        cur[x] \in Crosses(m, from, to)

Passable(cur, final, m, from, to) ==
    Supported(m, from, to) /\ ~StaticHit(cur, final, m, from, to)

(* A temporary place: the own pallet, another pallet, a slot -- nobody's   *)
(* now, nobody's in the end and nobody's temporary place.                  *)
Temporary(cur, final, blocked, reserved, m) ==
    SelectSeq(<<m>> \o SelectSeq(Order, LAMBDA x : x # m) \o SlotOrder,
              LAMBDA k : /\ k \notin {cur[m], final[m]} \cup blocked \cup reserved
                         /\ \A x \in Materials : final[x] # k
                         /\ \A x \in Materials \ {m} : cur[x] # k
                         /\ Passable(cur, final, m, cur[m], k)
                         /\ Passable(cur, final, m, k, final[m]))

Node(m, from, to, leg) == [mat |-> m, from |-> from, to |-> to, leg |-> leg]

Detour(nodes) == {n \in ToSet(nodes) : n.leg = 2}

AddLegs(cur, final, blocked, force, nodes, m) ==
    LET temp == Temporary(cur, final, blocked,
                          {n.from : n \in Detour(nodes)}, m)
    IN  IF nodes = Refused \/ m \notin Changed(cur, final)
        THEN nodes
        ELSE IF Passable(cur, final, m, cur[m], final[m]) /\ m \notin force
        THEN Append(nodes, Node(m, cur[m], final[m], 1))
        ELSE IF temp = <<>> THEN Refused
        ELSE nodes \o <<Node(m, cur[m], Head(temp), 1),
                        Node(m, Head(temp), final[m], 2)>>

Legs(cur, final, blocked, force) ==
    FoldLeft(LAMBDA ns, m : AddLegs(cur, final, blocked, force, ns, m), <<>>, Order)

-----------------------------------------------------------------------------
(* The order of the legs. *)

(* A place is filled after the material on it has left. *)
Vacates(n, k) == n.leg = 1 /\ n.mat # k.mat /\ n.from = k.to

Mutant_CrossedBefore(n, k) ==
    n.mat # k.mat /\ k.to \in Crosses(n.mat, n.from, n.to)

(* A path over a place is taken before another material comes to the place *)
(* and after another one has left it.                                      *)
CrossedBefore(n, k) ==
    /\ n.mat # k.mat
    /\ \/ k.to \in Crosses(n.mat, n.from, n.to)
       \/ n.from \in Crosses(k.mat, k.from, k.to)

Before(n, k) ==
    \/ n.mat = k.mat /\ n.leg = 1 /\ k.leg = 2
    \/ Vacates(n, k)
    \/ CrossedBefore(n, k)

Ready(nodes, done) ==
    {n \in nodes \ done : \A x \in nodes : Before(x, n) => x \in done}

(* Kahn: what is left when nothing more is ready is caught in a cycle. *)
Stuck(nodes) ==
    nodes \ FoldLeft(LAMBDA done, i : done \cup Ready(nodes, done),
                     {}, [i \in 1..Cardinality(nodes) |-> i])

Rank(targets, m) ==
    LET order == Priority(targets)
    IN  CHOOSE i \in DOMAIN order : order[i] = m

(* A cycle is broken by a detour of the last of its one-leg materials. *)
DetourOf(nodes, targets) ==
    LET single == {n.mat : n \in {x \in Stuck(nodes) : x.leg = 1 /\
                      \A y \in nodes : y.mat = x.mat => y = x}}
    IN  IF single = {} THEN Refused
        ELSE CHOOSE m \in single :
               \A x \in single : Rank(targets, x) <= Rank(targets, m)

AllLegs(cur, final, targets, blocked) ==
    LET legs[force \in SUBSET Materials] ==
          LET nodes == Legs(cur, final, blocked, force)
              pick == DetourOf(ToSet(nodes), targets)
          IN  IF nodes = Refused THEN Refused
              ELSE IF Stuck(ToSet(nodes)) = {} THEN nodes
              ELSE IF pick = Refused THEN Refused
              ELSE legs[force \cup {pick}]
    IN  legs[{}]

(* Returns to the own pallet first, then by rank, then as listed. *)
Sooner(nodes, targets, n, k) ==
    LET key(x) == <<IF x.to = x.mat THEN 0 ELSE 1, Rank(targets, x.mat), x.leg>>
        differ == {i \in 1..3 : key(n)[i] # key(k)[i]}
    IN  differ = {} \/ \E i \in differ : key(n)[i] < key(k)[i] /\ \A j \in differ : i <= j

Ordered(nodes, targets) ==
    LET next(done) ==
          LET ready == Ready(ToSet(nodes), ToSet(done))
          IN  CHOOSE n \in ready : \A k \in ready : Sooner(nodes, targets, n, k)
    IN  FoldLeft(LAMBDA done, i : Append(done, next(done)), <<>>, nodes)

Step(n) == [mat |-> n.mat, from |-> n.from, to |-> n.to]

NoPlan == [ok |-> FALSE, steps |-> <<>>, final |-> Refused]

(* plan_arrangement. *)
Arrange(cur, targets, blocked, frozen) ==
    LET final == FinalPlaces(cur, targets, blocked, frozen)
        nodes == AllLegs(cur, final, targets, blocked)
        sorted == Ordered(nodes, targets)
    IN  IF final = Refused THEN NoPlan
        ELSE IF nodes = Refused THEN NoPlan
        ELSE [ok |-> TRUE, final |-> final,
              steps |-> [i \in DOMAIN sorted |-> Step(sorted[i])]]

-----------------------------------------------------------------------------
(* The goal that returns every material.  The materials off their pallet   *)
(* go by the number of their slot, those on another pallet last; one whose *)
(* path passes over an occupied place waits.  Nothing asks whether the     *)
(* pallet a material returns to is free.                                   *)

SlotThenName(cur) ==
    FoldLeft(LAMBDA ms, s : ms \o SelectSeq(Order, LAMBDA m : cur[m] = s),
             <<>>, SlotOrder) \o
    SelectSeq(Order, LAMBDA m : cur[m] \in Materials \ {m})

(* `taken` are the places the plan takes for occupied. *)
ReturnNext(cur, plan) ==
    LET free == SelectSeq(SlotThenName(plan.final),
                          LAMBDA m : Crosses(m, cur[m], m) \cap
                                         (plan.taken \ {cur[m]}) = {})
        m == Head(free)
    IN  IF ~plan.ok \/ free = <<>> THEN [plan EXCEPT !.ok = FALSE]
        ELSE [ok |-> TRUE,
              final |-> [plan.final EXCEPT ![m] = m],
              taken |-> (plan.taken \ {cur[m]}) \cup {m},
              steps |-> Append(plan.steps, [mat |-> m, from |-> cur[m], to |-> m])]

ReturnAll(cur) ==
    LET plan == FoldLeft(LAMBDA p, m : ReturnNext(cur, p),
                         [ok |-> TRUE, final |-> cur, steps |-> <<>>,
                          taken |-> {cur[m] : m \in Materials}],
                         SlotThenName(cur))
    IN  IF plan.ok THEN [ok |-> TRUE, steps |-> plan.steps, final |-> plan.final]
        ELSE NoPlan
=============================================================================
