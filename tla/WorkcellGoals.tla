---------------------------- MODULE WorkcellGoals ----------------------------
(***************************************************************************)
(* The goals of the simulated workcell (server/sim_demo_goals.py): a       *)
(* request for an arrangement is planned over the recorded places, shown   *)
(* to the user, planned again when it is confirmed, and then carried out   *)
(* one transfer at a time by a thread of its own, which checks each        *)
(* transfer again before it starts and judges it by the records when it    *)
(* has ended.                                                              *)
(*                                                                         *)
(* Beside the thread act: the user (confirm, cancel, stop, the places and  *)
(* materials not to use), the transfers that others start while no goal    *)
(* has the cell, and the scripts, which are external here: a transfer ends *)
(* with its material at its destination, back at its source, or with a     *)
(* record that leaves the place open (TransferScript has the details).     *)
(*                                                                         *)
(* A finished goal is only read; the variable `goal` is the current one.   *)
(* A definition named Mutant_... is a wrong variant of the one after it.   *)
(* No specification uses it; it shows what the properties can tell apart.  *)
(***************************************************************************)
EXTENDS ArrangementPlan

CONSTANTS
    Starts,         \* the arrangements the records may begin with
    Requests,       \* the targets a user may ask for, or ReturnEverything
    Environments,   \* records [blocked, gone]: slots and materials not to use
    ReturnEverything,
    MaxGoals, MaxOthers, MaxFaults, MaxStops, MaxEdits,     \* bounds
    Unsure,         \* the record leaves the place open
    None

ASSUME BoundsAssumption ==
    {MaxGoals, MaxOthers, MaxFaults, MaxStops, MaxEdits} \subseteq Nat
ASSUME StartsAssumption ==
    \A cur \in Starts : /\ cur \in [Materials -> Places]
                        /\ IsInjective(cur)
ASSUME UnsureAssumption == Unsure \notin Places

VARIABLES
    rec,            \* the recorded place of each material
    env,            \* the environment file
    goal,           \* the current goal
    pc,             \* its thread; "left": it is gone and the reservation is not
    reserved,       \* the goal has the cell
    job,            \* the transfer that runs
    stopper,        \* the second half of a stop request is still to come
    counts,         \* what the bounds bound
    disturbed       \* history: since the goal was confirmed a transfer has failed
                    \* or the environment has changed

vars == <<rec, env, goal, pc, reserved, job, stopper, counts, disturbed>>

NoGoal == [status |-> "none", want |-> None, asked |-> None, steps |-> <<>>,
           final |-> None, done |-> 0, stop |-> FALSE]
NoJob == [of |-> "none", step |-> None, stopped |-> FALSE]

Init ==
    /\ rec \in Starts
    /\ env \in Environments
    /\ goal = NoGoal /\ pc = "off" /\ reserved = FALSE
    /\ job = NoJob /\ stopper = FALSE
    /\ counts = [goals |-> 0, others |-> 0, faults |-> 0, stops |-> 0, edits |-> 0]
    /\ disturbed = FALSE

More(c, bound) == counts[c] < bound /\ counts' = [counts EXCEPT ![c] = @ + 1]

Certain(places) == \A m \in Materials : places[m] # Unsure

(* _plan_for: nothing is planned over a record that leaves a place open.   *)
PlanFor(places, want, e) ==
    IF want = ReturnEverything THEN ReturnAll(places)
    ELSE Arrange(places, want, e.blocked, e.gone)

Plan(want) == IF Certain(rec) THEN PlanFor(rec, want, env) ELSE NoPlan

Active == goal.status \in {"planned", "running", "stopping"}

(* create. *)
Create(want) ==
    LET plan == Plan(want)
    IN  /\ ~Active
        /\ job = NoJob
        /\ More("goals", MaxGoals)
        /\ plan.ok
        /\ goal' = [NoGoal EXCEPT !.status = "planned", !.want = want,
                                  !.steps = plan.steps, !.final = plan.final]
        /\ UNCHANGED <<rec, env, pc, reserved, job, stopper, disturbed>>

CancelPlan ==
    /\ goal.status = "planned"
    /\ goal' = [goal EXCEPT !.status = "cancelled"]
    /\ UNCHANGED <<rec, env, pc, reserved, job, stopper, counts, disturbed>>

Mutant_SamePlan == TRUE

(* The signature of a fresh plan is the one that was shown.                *)
SamePlan ==
    LET fresh == Plan(goal.want)
    IN  fresh.ok /\ fresh.steps = goal.steps

(* confirm.  When the plan is not the same any more the reservation is     *)
(* given back and the goal stays as it is.  `asked` is history: the records*)
(* and the slots not to use at this moment.                                *)
Confirm ==
    /\ goal.status = "planned"
    /\ ~reserved /\ job = NoJob
    /\ SamePlan
    /\ disturbed' = FALSE
    /\ LET status == IF goal.steps = <<>> THEN "completed" ELSE "running"
       IN  /\ goal' = [goal EXCEPT !.status = status,
                         !.asked = [places |-> rec, blocked |-> env.blocked]]
           /\ reserved' = (status = "running")
           /\ pc' = IF status = "running" THEN "top" ELSE pc
    /\ UNCHANGED <<rec, env, job, stopper, counts>>

-----------------------------------------------------------------------------
(* The thread of a goal: run.  Each step below holds the lock of the goals.*)

Finish(status) == goal' = [goal EXCEPT !.status = status]

NextStep == goal.steps[goal.done + 1]

Mutant_StopFirst == FALSE

StopFirst == goal.stop

StopsHere ==
    /\ pc = "top" /\ StopFirst
    /\ Finish("stopped") /\ pc' = "release"
    /\ UNCHANGED <<rec, env, reserved, job, stopper, counts, disturbed>>

(* _final_check: the arrangement is the one the plan ends with.            *)
FinalCheck == goal.want = ReturnEverything \/ rec = goal.final

AllDone ==
    /\ pc = "top" /\ ~StopFirst
    /\ goal.done = Len(goal.steps)
    /\ Finish(IF FinalCheck THEN "completed" ELSE "failed")
    /\ pc' = "release"
    /\ UNCHANGED <<rec, env, reserved, job, stopper, counts, disturbed>>

(* check_transfer: the contract of a transfer over the recorded places.    *)
Startable(places, s, blocked, gone) ==
    /\ Certain(places)
    /\ s.mat \notin gone /\ s.to \notin blocked
    /\ places[s.mat] = s.from
    /\ Supported(s.mat, s.from, s.to)
    /\ \A x \in Materials \ {s.mat} :
          places[x] # s.to /\ places[x] \notin Crosses(s.mat, s.from, s.to)

AtStep == pc = "top" /\ ~StopFirst /\ goal.done < Len(goal.steps)

Launch ==
    /\ AtStep
    /\ Startable(rec, NextStep, env.blocked, env.gone)
    /\ job = NoJob
    /\ job' = [of |-> "goal", step |-> NextStep, stopped |-> FALSE]
    /\ pc' = "poll"
    /\ UNCHANGED <<rec, env, goal, reserved, stopper, counts, disturbed>>

Mutant_AfterRefusal == "off"

(* The `finally` of run gives the reservation back on every way out.       *)
AfterRefusal == "release"

(* A step that is refused, by the contract or because the camera does not  *)
(* see the material where the records have it, ends the goal.              *)
Refuse ==
    /\ AtStep
    /\ \/ ~Startable(rec, NextStep, env.blocked, env.gone) /\ UNCHANGED counts
       \/ More("faults", MaxFaults)
    /\ Finish("failed") /\ pc' = AfterRefusal
    /\ UNCHANGED <<rec, env, reserved, job, stopper, disturbed>>

Mutant_Reached == TRUE

(* _step_reached: the record, not the exit of the script, says that the    *)
(* step is done; a stop comes before that.                                 *)
Reached == rec[NextStep.mat] = NextStep.to

Judge ==
    /\ pc = "poll" /\ job = NoJob
    /\ IF goal.stop THEN Finish("stopped") /\ pc' = "release"
       ELSE IF Reached
       THEN goal' = [goal EXCEPT !.done = @ + 1] /\ pc' = "top"
       ELSE Finish("failed") /\ pc' = "release"
    /\ UNCHANGED <<rec, env, reserved, job, stopper, counts, disturbed>>

(* A look at the job or at the records raises: the goal has failed, and the*)
(* script, if there is one, runs on.                                       *)
Raise ==
    /\ pc \in {"top", "poll"}
    /\ More("faults", MaxFaults)
    /\ Finish("failed") /\ pc' = "release"
    /\ UNCHANGED <<rec, env, reserved, job, stopper, disturbed>>

(* release_goal, after the lock of the goals is free again.  It is asked   *)
(* once, and refuses while a script runs: the thread has then left the     *)
(* reservation behind.                                                     *)
Release ==
    /\ pc = "release"
    /\ pc' = IF job = NoJob THEN "off" ELSE "left"
    /\ reserved' = (job # NoJob)
    /\ UNCHANGED <<rec, env, goal, job, stopper, counts, disturbed>>

-----------------------------------------------------------------------------
(* request_stop: the goal is flagged under its lock, and then, without it, *)
(* the running job is told, whoever started it.                            *)

RequestStop ==
    /\ goal.status \in {"running", "stopping"}
    /\ ~stopper
    /\ More("stops", MaxStops)
    /\ goal' = [goal EXCEPT !.stop = TRUE, !.status = "stopping"]
    /\ stopper' = TRUE
    /\ UNCHANGED <<rec, env, pc, reserved, job, disturbed>>

StopJob ==
    /\ stopper
    /\ stopper' = FALSE
    /\ job' = IF job = NoJob THEN job ELSE [job EXCEPT !.stopped = TRUE]
    /\ UNCHANGED <<rec, env, goal, pc, reserved, counts, disturbed>>

-----------------------------------------------------------------------------
(* The others. *)

(* set_environment, on the event loop and without the lock of the goals.   *)
SetEnvironment ==
    /\ \E e \in Environments \ {env} : env' = e
    /\ More("edits", MaxEdits)
    /\ disturbed' = TRUE
    /\ UNCHANGED <<rec, goal, pc, reserved, job, stopper>>

(* A transfer from a card or a plan, which needs the cell for itself.      *)
StartOther(m, to) ==
    LET s == [mat |-> m, from |-> rec[m], to |-> to]
    IN  /\ ~reserved /\ job = NoJob
        /\ Startable(rec, s, {}, {})
        /\ More("others", MaxOthers)
        /\ job' = [of |-> "other", step |-> s, stopped |-> FALSE]
        /\ UNCHANGED <<rec, env, goal, pc, reserved, stopper, disturbed>>

JobSucceeds ==
    /\ job # NoJob
    /\ rec' = [rec EXCEPT ![job.step.mat] = job.step.to]
    /\ job' = NoJob
    /\ UNCHANGED <<env, goal, pc, reserved, stopper, counts, disturbed>>

JobFails(place) ==
    /\ job # NoJob
    /\ place \in {job.step.from, Unsure}
    /\ \/ job.stopped /\ UNCHANGED counts
       \/ More("faults", MaxFaults)
    /\ rec' = [rec EXCEPT ![job.step.mat] = place]
    /\ job' = NoJob
    /\ disturbed' = TRUE
    /\ UNCHANGED <<env, goal, pc, reserved, stopper>>

(* A material whose place is open is put back on its pallet when that is   *)
(* free; it needs the cell as every job does.                              *)
PutBack(m) ==
    /\ ~reserved /\ job = NoJob
    /\ rec[m] = Unsure
    /\ \A x \in Materials : rec[x] # m
    /\ rec' = [rec EXCEPT ![m] = m]
    /\ UNCHANGED <<env, goal, pc, reserved, job, stopper, counts, disturbed>>

Next ==
    \/ \E want \in Requests : Create(want)
    \/ CancelPlan
    \/ Confirm
    \/ StopsHere
    \/ AllDone
    \/ Launch
    \/ Refuse
    \/ Judge
    \/ Raise
    \/ Release
    \/ RequestStop
    \/ StopJob
    \/ SetEnvironment
    \/ \E m \in Materials, to \in Places : StartOther(m, to)
    \/ JobSucceeds
    \/ \E place \in Places \cup {Unsure} : JobFails(place)
    \/ \E m \in Materials : PutBack(m)

Spec == Init /\ [][Next]_vars

(* The threads run on and every script ends.                               *)
Fairness ==
    /\ WF_vars(StopsHere \/ AllDone \/ Launch \/ Refuse \/ Judge \/ Release)
    /\ WF_vars(StopJob)
    /\ WF_vars(JobSucceeds \/ \E place \in Places \cup {Unsure} : JobFails(place))

FairSpec == Spec /\ Fairness

-----------------------------------------------------------------------------
TypeOK ==
    /\ rec \in [Materials -> Places \cup {Unsure}]
    /\ env \in Environments
    /\ goal.status \in {"none", "planned", "running", "stopping", "stopped",
                        "completed", "failed", "cancelled"}
    /\ goal.done \in 0..Len(goal.steps)
    /\ pc \in {"off", "top", "poll", "release", "left"}
    /\ reserved \in BOOLEAN /\ stopper \in BOOLEAN /\ disturbed \in BOOLEAN
    /\ job.of \in {"none", "goal", "other"}

(* A confirmed plan goes through: as long as no transfer of it fails and   *)
(* the user changes nothing, none of its steps is refused, however the     *)
(* materials stand in each other's way and whatever others did between the *)
(* planning and the confirmation.                                          *)
PlanRunsThrough ==
    AtStep /\ ~disturbed /\ goal.want # ReturnEverything =>
        Startable(rec, NextStep, env.blocked, env.gone)

Fulfilled(g, places) ==
    \A m \in Materials :
       IF g.want = ReturnEverything THEN places[m] = m
       ELSE IF m \notin DOMAIN g.want
       THEN \/ places[m] = g.asked.places[m]
            \/ g.asked.places[m] \in g.asked.blocked
            \/ \E x \in DOMAIN g.want : g.want[x] = g.asked.places[m]
       ELSE IF g.want[m] = AnySlot
       THEN places[m] \in Slots \ g.asked.blocked
       ELSE places[m] = g.want[m]

(* A goal that is reported completed has brought every material of the     *)
(* request where the user wanted it, and no other one has changed its      *)
(* place, unless it stood where one was to go or on a slot not to be used. *)
CompletedIsFulfilled ==
    [][goal.status # "completed" /\ goal'.status = "completed" =>
           Fulfilled(goal', rec')]_vars

(* "A concurrent STOP either wins before this block (so no next child      *)
(* starts), or waits until the child is visible and then stops that active *)
(* child" (run, server/sim_demo_goals.py).                                 *)
StopReachesChild ==
    goal.stop /\ ~stopper /\ job.of = "goal" => job.stopped

(* The cell comes back from every goal, but for one whose thread has left  *)
(* it behind: a call raised while the script was running.                  *)
CellComesBack == reserved ~> ~reserved \/ pc = "left"

-----------------------------------------------------------------------------
(* What the thread relies on: a plan of the planner, carried out over the  *)
(* arrangement it was made for, is a sequence of transfers each of which   *)
(* the contract allows when its turn comes, and ends with the request.     *)
(* The contract is not asked of the plan that returns everything.          *)

StepOf == [mat : Materials, from : Places, to : Places]

Arrangements == {places \in [Materials -> Places] : IsInjective(places)}

(* Where the materials are after the first i steps.                        *)
After(places, steps, i) ==
    [m \in Materials |->
        LET moves == {k \in 1..i : steps[k].mat = m}
        IN  IF moves = {} THEN places[m] ELSE steps[Max(moves)].to]

PlanIsSound(places, want, e) ==
    LET plan == PlanFor(places, want, e)
        n == Len(plan.steps)
    IN  plan.ok =>
            /\ plan.steps \in Seq(StepOf)
            /\ want # ReturnEverything =>
                  \A i \in 1..n : Startable(After(places, plan.steps, i - 1),
                                            plan.steps[i], e.blocked, e.gone)
            /\ Fulfilled([want |-> want,
                          asked |-> [places |-> places, blocked |-> e.blocked]],
                         After(places, plan.steps, n))

PlannerIsSound ==
    \A places \in Arrangements, want \in Requests, e \in Environments :
        PlanIsSound(places, want, e)

-----------------------------------------------------------------------------
(* What the code does not keep.                                            *)

(* "The finally block stays the only goal-lease release for run()": when   *)
(* it runs over a script that has not ended, nothing releases the cell.    *)
NothingLeftBehind == pc # "left"

(* A confirmed goal that returns every material goes through as well.      *)
ReturnRunsThrough ==
    AtStep /\ ~disturbed /\ goal.want = ReturnEverything =>
        Startable(rec, NextStep, env.blocked, env.gone)

(* A goal all of whose steps are done, with nothing in between, is         *)
(* completed.  The arrangement it is judged by is that of the first plan;  *)
(* a transfer of another material before the confirmation leaves the steps *)
(* as they are and makes that arrangement unreachable.                     *)
DoneIsCompleted ==
    pc = "top" /\ ~goal.stop /\ ~disturbed /\ goal.done = Len(goal.steps) => FinalCheck

(* The second half of a stop reaches nothing but the goal it was for.      *)
StopHitsOwnJob == job.of = "other" => ~job.stopped

=============================================================================
