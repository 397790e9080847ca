------------------------ MODULE WorkcellGoals_proofs ------------------------
(* For any cell, any requests and any number of goals, transfers of others,*)
(* failures, stops and edits: a stop reaches the script of the goal, and,  *)
(* if the planner's plans are sound (PlannerIsSound, which TLC evaluates   *)
(* for the cell of the runs), a confirmed plan goes through and a completed*)
(* goal is fulfilled.  The last part is about StopDelivery, the way a stop *)
(* takes to the job that runs.                                             *)
EXTENDS WorkcellGoals, StopDelivery, TLAPS

GoalFields == {"status", "want", "asked", "steps", "final", "done", "stop"}

JobOf == [of : {"none", "goal", "other"}, step : StepOf \cup {None}, stopped : BOOLEAN]

(* What TypeOK leaves out of the goal and the job.                         *)
Shape ==
    /\ DOMAIN goal = GoalFields
    /\ goal.steps \in Seq(StepOf) /\ goal.stop \in BOOLEAN
    /\ job \in JobOf
    /\ job.of = "none" <=> job = NoJob

(* No two materials are recorded at one place, and a transfer brings its   *)
(* material from where it is recorded to a place nobody is recorded at.    *)
RecordInv ==
    /\ \A x, y \in Materials : rec[x] = rec[y] /\ rec[x] # Unsure => x = y
    /\ job.of # "none" =>
          /\ job.step \in StepOf
          /\ rec[job.step.mat] = job.step.from /\ job.step.from # job.step.to
          /\ \A x \in Materials \ {job.step.mat} : rec[x] # job.step.to

(* The thread of a goal has the cell, and so has one that has left it      *)
(* behind; while the thread works, the goal's job is its next step.        *)
Working == pc \in {"top", "poll"}

ThreadInv ==
    /\ reserved <=> pc # "off"
    /\ Working <=> goal.status \in {"running", "stopping"}
    /\ goal.status = "planned" => goal.want \in Requests /\ goal.done = 0
    /\ pc = "poll" => goal.done < Len(goal.steps)
    /\ job.of = "goal" => pc \in {"poll", "release", "left"}
    /\ job.of = "goal" /\ pc = "poll" => job.step = NextStep
    /\ job.of = "other" => ~reserved

(* Where the goal is on its course: the records are the arrangement it was *)
(* confirmed over after the steps that are done, but for the material on   *)
(* its way; undisturbed, the contract allows every step in its turn; and   *)
(* after the last one the request is fulfilled.                            *)
Course(g, places, at, e, upset) ==
    LET On(i) == After(g.asked.places, g.steps, i)
    IN  /\ at = "top" => places = On(g.done)
        /\ at = "poll" => \A m \in Materials \ {g.steps[g.done + 1].mat} :
                             places[m] = On(g.done)[m]
        /\ ~upset /\ g.want # ReturnEverything =>
              \A i \in 1..Len(g.steps) : Startable(On(i - 1), g.steps[i], e.blocked, e.gone)
        /\ Fulfilled(g, On(Len(g.steps)))

CourseInv == Working => Course(goal, rec, pc, env, disturbed)

IInv == TypeOK /\ Shape /\ RecordInv /\ ThreadInv /\ CourseInv

-----------------------------------------------------------------------------
(* The arrangement after some steps of a plan.                             *)

LEMMA AfterNone ==
    ASSUME NEW places, NEW P, places \in [Materials -> P], NEW steps
    PROVE  After(places, steps, 0) = places
<1>1. 1..0 = {}
  OBVIOUS
<1> QED BY <1>1 DEF After

LEMMA AfterStep ==
    ASSUME NEW places, NEW steps \in Seq(StepOf), NEW i \in Nat, i < Len(steps)
    PROVE  \A m \in Materials : After(places, steps, i + 1)[m] =
              IF m = steps[i + 1].mat THEN steps[i + 1].to ELSE After(places, steps, i)[m]
<1> DEFINE moves(m, k) == {j \in 1..k : steps[j].mat = m}
<1>1. ASSUME NEW m \in Materials, m # steps[i + 1].mat PROVE moves(m, i + 1) = moves(m, i)
  <2>1. \A j \in 1..i+1 : j \in 1..i \/ j = i + 1
    OBVIOUS
  <2> QED BY <1>1, <2>1
<1>2. ASSUME NEW m \in Materials, m = steps[i + 1].mat
      PROVE  moves(m, i + 1) # {} /\ Max(moves(m, i + 1)) = i + 1
  <2>1. i + 1 \in moves(m, i + 1)
    BY <1>2
  <2>2. \A j \in moves(m, i + 1) : j \in Nat /\ i + 1 >= j
    OBVIOUS
  <2> HIDE DEF moves
  <2>3. /\ Max(moves(m, i + 1)) \in moves(m, i + 1)
        /\ \A j \in moves(m, i + 1) : Max(moves(m, i + 1)) >= j
    BY <2>1, <2>2 DEF Max
  <2> QED BY <2>1, <2>2, <2>3
<1>3. ASSUME NEW k PROVE After(places, steps, k) =
        [m \in Materials |-> IF moves(m, k) = {} THEN places[m]
                             ELSE steps[Max(moves(m, k))].to]
  BY DEF After
<1> HIDE DEF moves
<1> QED BY <1>1, <1>2, <1>3

-----------------------------------------------------------------------------
(* The initial state: no goal, no job, and a verified arrangement.         *)
LEMMA InitIInv == Init => IInv
<1> SUFFICES ASSUME Init PROVE IInv
  OBVIOUS
<1>1. rec \in [Materials -> Places] /\ \A x, y \in Materials : rec[x] = rec[y] => x = y
  BY StartsAssumption DEF Init, IsInjective
<1>2. /\ goal.status = "none" /\ goal.steps = <<>> /\ goal.done = 0 /\ goal.stop = FALSE
      /\ DOMAIN goal = GoalFields
  BY DEF Init, NoGoal, GoalFields
<1>3. FALSE \in BOOLEAN /\ job.of = "none" /\ job = NoJob /\ NoJob \in JobOf
  BY DEF Init, NoJob, JobOf
<1>4. TypeOK
  <2>1. rec \in [Materials -> Places \cup {Unsure}]
    BY <1>1
  <2>2. goal.done \in 0..Len(goal.steps)
    BY <1>2
  <2>3. env \in Environments /\ pc = "off" /\ reserved \in BOOLEAN /\ stopper \in BOOLEAN /\
        disturbed \in BOOLEAN
    BY <1>3 DEF Init
  <2> QED BY <1>2, <1>3, <2>1, <2>2, <2>3 DEF TypeOK
<1>5. Shape
  <2>1. <<>> \in Seq(StepOf)
    OBVIOUS
  <2> QED BY <1>2, <1>3, <2>1, Zenon DEF Shape
<1>6. RecordInv
  BY <1>1, <1>3 DEF RecordInv
<1>7. ThreadInv
  BY <1>2, <1>3 DEF Init, ThreadInv, Working
<1>8. CourseInv
  BY DEF Init, CourseInv, Working
<1> QED BY <1>4, <1>5, <1>6, <1>7, <1>8 DEF IInv

(* A plan is made over an arrangement, and is as sound as the planner.     *)
LEMMA PlanIs ==
    ASSUME PlannerIsSound, IInv, NEW want \in Requests, Plan(want).ok
    PROVE  /\ rec \in Arrangements /\ Certain(rec)
           /\ Plan(want) = PlanFor(rec, want, env)
           /\ PlanIsSound(rec, want, env)
<1>1. Certain(rec) /\ Plan(want) = PlanFor(rec, want, env)
  BY DEF Plan, NoPlan
<1>2. rec \in [Materials -> Places]
  BY <1>1 DEF IInv, TypeOK, Certain
<1>3. rec \in Arrangements
  BY <1>1, <1>2 DEF IInv, RecordInv, Certain, Arrangements, IsInjective
<1> QED BY <1>1, <1>3 DEF PlannerIsSound, IInv, TypeOK

(* A goal that is created has a plan and nothing else.                     *)
LEMMA CreateType ==
    ASSUME PlannerIsSound, IInv, NEW want \in Requests, Create(want)
    PROVE  /\ DOMAIN goal' = GoalFields /\ goal'.steps \in Seq(StepOf) /\ goal'.stop = FALSE
           /\ goal'.status = "planned" /\ goal'.want = want /\ goal'.done = 0
<1> DEFINE plan == Plan(want)
<1>1. plan.steps \in Seq(StepOf)
  BY PlanIs DEF Create, PlanIsSound
<1>2. goal' = [NoGoal EXCEPT !.status = "planned", !.want = want,
                             !.steps = plan.steps, !.final = plan.final]
  BY DEF Create
<1> HIDE DEF plan
<1> QED BY <1>1, <1>2 DEF NoGoal, GoalFields

(* What the steps of the thread and of the user make of the goal.          *)
LEMMA GoalIs ==
    ASSUME IInv
    PROVE  /\ \A status : LET g == [goal EXCEPT !.status = status]
                          IN  /\ DOMAIN g = GoalFields /\ g.status = status
                              /\ g.want = goal.want /\ g.asked = goal.asked
                              /\ g.steps = goal.steps /\ g.done = goal.done
                              /\ g.stop = goal.stop
           /\ \A status, asked : LET g == [goal EXCEPT !.status = status, !.asked = asked]
                          IN  /\ DOMAIN g = GoalFields /\ g.status = status
                              /\ g.want = goal.want /\ g.asked = asked
                              /\ g.steps = goal.steps /\ g.done = goal.done
                              /\ g.stop = goal.stop
           /\ LET g == [goal EXCEPT !.done = @ + 1]
              IN  /\ DOMAIN g = GoalFields /\ g.status = goal.status
                  /\ g.want = goal.want /\ g.asked = goal.asked
                  /\ g.steps = goal.steps /\ g.done = goal.done + 1
                  /\ g.stop = goal.stop
           /\ LET g == [goal EXCEPT !.stop = TRUE, !.status = "stopping"]
              IN  /\ DOMAIN g = GoalFields /\ g.status = "stopping"
                  /\ g.want = goal.want /\ g.asked = goal.asked
                  /\ g.steps = goal.steps /\ g.done = goal.done
                  /\ g.stop = TRUE
<1>1. DOMAIN goal = {"status", "want", "asked", "steps", "final", "done", "stop"}
  BY DEF IInv, Shape, GoalFields
<1> QED BY <1>1 DEF GoalFields

(* What each step makes of the goal.                                       *)
LEMMA GoalTypeNext ==
    ASSUME PlannerIsSound, IInv, [Next]_vars
    PROVE  /\ DOMAIN goal' = GoalFields
           /\ goal'.steps \in Seq(StepOf) /\ goal'.stop \in BOOLEAN
           /\ goal'.status \in {"none", "planned", "running", "stopping", "stopped",
                                "completed", "failed", "cancelled"}
           /\ goal'.done \in 0..Len(goal'.steps)
<1>0. TypeOK /\ Shape /\ ThreadInv /\ TRUE \in BOOLEAN /\ FALSE \in BOOLEAN
  BY DEF IInv
<1>1. ASSUME NEW want \in Requests, Create(want)
      PROVE  /\ DOMAIN goal' = GoalFields
             /\ goal'.steps \in Seq(StepOf) /\ goal'.stop \in BOOLEAN
             /\ goal'.status = "planned" /\ goal'.done \in 0..Len(goal'.steps)
  <2>1. /\ DOMAIN goal' = GoalFields /\ goal'.steps \in Seq(StepOf) /\ goal'.stop = FALSE
        /\ goal'.status = "planned" /\ goal'.done = 0
    BY <1>1, CreateType
  <2>2. PICK steps \in Seq(StepOf) : goal'.steps = steps
    BY <2>1
  <2>3. 0 \in 0..Len(steps)
    OBVIOUS
  <2> QED BY <1>0, <2>1, <2>2, <2>3, Zenon
<1>2. ASSUME NEW status \in {"running", "stopped", "completed", "failed", "cancelled"},
             goal' = [goal EXCEPT !.status = status]
      PROVE  /\ DOMAIN goal' = GoalFields
             /\ goal'.steps = goal.steps /\ goal'.stop = goal.stop
             /\ goal'.status = status /\ goal'.done = goal.done
  BY <1>2, GoalIs
<1>3. CASE Confirm
  <2> DEFINE asked == [places |-> rec, blocked |-> env.blocked]
  <2>1. PICK status \in {"running", "completed"} :
           goal' = [goal EXCEPT !.status = status, !.asked = asked]
    BY <1>3 DEF Confirm
  <2> HIDE DEF asked
  <2> QED BY <1>0, <2>1, GoalIs DEF TypeOK, Shape
<1>4. CASE Judge /\ goal' = [goal EXCEPT !.done = @ + 1]
  <2>1. goal.done < Len(goal.steps)
    BY <1>0, <1>4 DEF Judge, ThreadInv
  <2> QED BY <1>0, <1>4, <2>1, GoalIs DEF TypeOK, Shape
<1>5. CASE RequestStop
  BY <1>0, <1>5, GoalIs DEF RequestStop, TypeOK, Shape
<1>6. CASE CancelPlan \/ StopsHere \/ AllDone \/ Refuse \/ Judge \/ Raise
  <2>1. \/ \E status \in {"running", "stopped", "completed", "failed", "cancelled"} :
              goal' = [goal EXCEPT !.status = status]
        \/ Judge /\ goal' = [goal EXCEPT !.done = @ + 1]
    BY <1>6 DEF CancelPlan, StopsHere, AllDone, Refuse, Judge, Raise, Finish
  <2> QED BY <1>0, <1>2, <1>4, <2>1 DEF TypeOK, Shape
<1>7. CASE UNCHANGED goal
  BY <1>0, <1>7 DEF TypeOK, Shape
<1>8. \/ \E want \in Requests : Create(want)
      \/ Confirm \/ RequestStop \/ CancelPlan \/ StopsHere \/ AllDone \/ Refuse \/ Judge
      \/ Raise \/ UNCHANGED goal
  BY DEF Next, vars, Launch, Release, StopJob, SetEnvironment, StartOther, JobSucceeds,
         JobFails, PutBack
<1> QED BY <1>0, <1>1, <1>3, <1>5, <1>6, <1>7, <1>8

(* What each step makes of the job.                                        *)
LEMMA JobIs ==
    ASSUME IInv, [Next]_vars
    PROVE  /\ Launch =>
                 /\ NextStep \in StepOf
                 /\ job' \in JobOf /\ job'.of = "goal" /\ job'.step = NextStep
                 /\ job'.stopped = FALSE
           /\ \A m \in Materials, to \in Places : StartOther(m, to) =>
                 /\ job' \in JobOf /\ job'.of = "other"
                 /\ job'.step = [mat |-> m, from |-> rec[m], to |-> to] /\ job'.step \in StepOf
           /\ StopJob =>
                 /\ job' \in JobOf /\ job'.of = job.of /\ job'.step = job.step
                 /\ job.of # "none" => job'.stopped = TRUE
                 /\ job.of = "none" => job' = job
           /\ \/ Launch \/ StopJob \/ UNCHANGED job
              \/ \E m \in Materials, to \in Places : StartOther(m, to)
              \/ JobSucceeds /\ job' = NoJob
              \/ \E place \in Places \cup {Unsure} : JobFails(place) /\ job' = NoJob
<1>0. TypeOK /\ Shape /\ TRUE \in BOOLEAN /\ FALSE \in BOOLEAN
  BY DEF IInv
<1>1. ASSUME NEW of \in {"goal", "other"}, NEW move \in StepOf,
             job' = [of |-> of, step |-> move, stopped |-> FALSE]
      PROVE  job' \in JobOf /\ job'.of = of /\ job'.step = move /\ job'.stopped = FALSE
  BY <1>0, <1>1 DEF JobOf
<1>2. ASSUME Launch
      PROVE  /\ NextStep \in StepOf
             /\ job' \in JobOf /\ job'.of = "goal" /\ job'.step = NextStep
             /\ job'.stopped = FALSE
  <2>1. goal.done + 1 \in 1..Len(goal.steps)
    BY <1>0, <1>2 DEF Launch, AtStep, TypeOK, Shape
  <2>2. NextStep \in StepOf
    BY <1>0, <2>1 DEF NextStep, Shape
  <2> QED BY <1>1, <1>2, <2>2 DEF Launch
<1>3. ASSUME NEW m \in Materials, NEW to \in Places, StartOther(m, to)
      PROVE  /\ job' \in JobOf /\ job'.of = "other"
             /\ job'.step = [mat |-> m, from |-> rec[m], to |-> to] /\ job'.step \in StepOf
  <2>1. rec[m] \in Places
    BY <1>0, <1>3 DEF StartOther, Startable, Certain, TypeOK
  <2>2. [mat |-> m, from |-> rec[m], to |-> to] \in StepOf
    BY <2>1 DEF StepOf
  <2> QED BY <1>1, <1>3, <2>2 DEF StartOther
<1>4. ASSUME StopJob
      PROVE  /\ job' \in JobOf /\ job'.of = job.of /\ job'.step = job.step
             /\ job.of # "none" => job'.stopped = TRUE
             /\ job.of = "none" => job' = job
  <2>1. CASE job = NoJob
    <3>1. job' = job /\ job.of = "none"
      BY <1>0, <1>4, <2>1 DEF StopJob, Shape
    <3> QED BY <1>0, <3>1 DEF Shape
  <2>2. CASE job # NoJob
    <3>1. job' = [job EXCEPT !.stopped = TRUE]
      BY <1>4, <2>2 DEF StopJob
    <3>2. job' \in JobOf /\ job'.of = job.of /\ job'.step = job.step /\ job'.stopped = TRUE
      BY <1>0, <3>1 DEF Shape, JobOf
    <3> QED BY <1>0, <2>2, <3>2 DEF Shape
  <2> QED BY <2>1, <2>2
<1>5. /\ JobSucceeds => job' = NoJob
      /\ \A place : JobFails(place) => job' = NoJob
  BY DEF JobSucceeds, JobFails
<1>6. \/ Launch \/ StopJob \/ UNCHANGED job
      \/ \E m \in Materials, to \in Places : StartOther(m, to)
      \/ JobSucceeds \/ \E place \in Places \cup {Unsure} : JobFails(place)
  BY DEF Next, vars, Create, CancelPlan, Confirm, StopsHere, AllDone, Refuse, Judge, Raise, Release,
         RequestStop, SetEnvironment, PutBack
<1> QED BY <1>2, <1>3, <1>4, <1>5, <1>6

(* Every step keeps the types.                                             *)
LEMMA TypeNext == PlannerIsSound /\ IInv /\ [Next]_vars => TypeOK' /\ Shape'
<1> SUFFICES ASSUME PlannerIsSound, IInv, [Next]_vars PROVE TypeOK' /\ Shape'
  OBVIOUS
<1>0. TypeOK /\ Shape /\ RecordInv /\ TRUE \in BOOLEAN /\ FALSE \in BOOLEAN
  BY DEF IInv
<1>1. rec' \in [Materials -> Places \cup {Unsure}]
  <2>1. CASE UNCHANGED rec
    BY <1>0, <2>1 DEF TypeOK
  <2>2. ASSUME NEW place \in Places \cup {Unsure}, NEW m, rec' = [rec EXCEPT ![m] = place]
        PROVE  rec' \in [Materials -> Places \cup {Unsure}]
    BY <1>0, <2>2 DEF TypeOK
  <2>3. CASE JobSucceeds
    <3>1. job.step \in StepOf
      BY <1>0, <2>3 DEF JobSucceeds, Shape, RecordInv
    <3>2. job.step.to \in Places
      BY <3>1 DEF StepOf
    <3> QED BY <2>2, <2>3, <3>2 DEF JobSucceeds
  <2>4. ASSUME NEW place \in Places \cup {Unsure}, JobFails(place)
        PROVE  rec' \in [Materials -> Places \cup {Unsure}]
    BY <2>2, <2>4 DEF JobFails
  <2>5. ASSUME NEW m \in Materials, PutBack(m)
        PROVE  rec' \in [Materials -> Places \cup {Unsure}]
    <3>1. m \in Places
      BY DEF Places
    <3> QED BY <2>2, <2>5, <3>1 DEF PutBack
  <2> QED BY <2>1, <2>3, <2>4, <2>5
      DEF Next, vars, Create, CancelPlan, Confirm, StopsHere, AllDone, Launch, Refuse, Judge, Raise,
          Release, RequestStop, StopJob, SetEnvironment, StartOther
<1>2. env' \in Environments
  BY <1>0 DEF TypeOK, Next, vars, Create, CancelPlan, Confirm, StopsHere, AllDone, Launch,
              Refuse,
              Judge, Raise, Release, RequestStop, StopJob, SetEnvironment, StartOther, JobSucceeds,
              JobFails, PutBack
<1>3. pc' \in {"off", "top", "poll", "release", "left"}
  <2>1. CASE Confirm
    BY <1>0, <2>1 DEF TypeOK, Confirm
  <2>2. CASE Release
    BY <2>2 DEF Release
  <2> QED BY <1>0, <2>1, <2>2
      DEF TypeOK, Next, vars, Create, CancelPlan, StopsHere, AllDone, Launch, Refuse,
          AfterRefusal, Judge, Raise, RequestStop, StopJob, SetEnvironment, StartOther,
          JobSucceeds, JobFails, PutBack
<1>4. reserved' \in BOOLEAN
  BY <1>0, Zenon DEF TypeOK, Next, vars, Create, CancelPlan, Confirm, StopsHere, AllDone, Launch,
              Refuse, Judge, Raise, Release, RequestStop, StopJob, SetEnvironment, StartOther,
              JobSucceeds, JobFails, PutBack
<1>5. stopper' \in BOOLEAN /\ disturbed' \in BOOLEAN
  BY <1>0 DEF TypeOK, Next, vars, Create, CancelPlan, Confirm, StopsHere, AllDone, Launch,
              Refuse,
              Judge, Raise, Release, RequestStop, StopJob, SetEnvironment, StartOther, JobSucceeds,
              JobFails, PutBack
<1>6. job' \in JobOf /\ (job'.of = "none" <=> job' = NoJob)
  <2>1. NoJob \in JobOf /\ NoJob.of = "none"
    BY <1>0 DEF NoJob, JobOf
  <2>2. ASSUME job' \in JobOf, job'.of \in {"goal", "other"}
        PROVE  job'.of = "none" <=> job' = NoJob
    BY <2>1, <2>2
  <2>3. CASE StopJob
    BY <1>0, <2>1, <2>2, <2>3, JobIs DEF Shape
  <2>4. CASE job' = NoJob
    BY <2>1, <2>4
  <2>5. CASE UNCHANGED job
    BY <1>0, <2>5 DEF Shape
  <2>6. CASE Launch
    BY <2>2, <2>6, JobIs
  <2>7. ASSUME NEW m \in Materials, NEW to \in Places, StartOther(m, to)
        PROVE  job' \in JobOf /\ (job'.of = "none" <=> job' = NoJob)
    BY <2>2, <2>7, JobIs
  <2> QED BY <2>3, <2>4, <2>5, <2>6, <2>7, JobIs
<1>7. job'.of \in {"none", "goal", "other"}
  BY <1>6 DEF JobOf
<1> QED BY <1>1, <1>2, <1>3, <1>4, <1>5, <1>6, <1>7, GoalTypeNext DEF TypeOK, Shape

(* Every step keeps the materials apart and the running transfer ready to *)
(* arrive: nobody moves into its destination, and the record of its       *)
(* material waits for it.                                                 *)
LEMMA RecordNext == IInv /\ [Next]_vars => RecordInv'
<1> SUFFICES ASSUME IInv, [Next]_vars PROVE RecordInv'
  OBVIOUS
<1>0. TypeOK /\ Shape /\ RecordInv /\ NoJob.of = "none"
  BY DEF IInv, NoJob
<1>1. ASSUME UNCHANGED rec, UNCHANGED job \/ job' = NoJob \/ StopJob PROVE RecordInv'
  BY <1>0, <1>1, JobIs DEF RecordInv, StopJob
<1>2. ASSUME UNCHANGED rec, job'.step \in StepOf, NEW blocked, NEW gone,
             Startable(rec, job'.step, blocked, gone)
      PROVE  RecordInv'
  BY <1>0, <1>2 DEF RecordInv, Startable, Supported
<1>3. CASE Launch
  <2>1. job'.step = NextStep /\ job'.step \in StepOf
    BY <1>3, JobIs DEF Launch
  <2> QED BY <1>2, <1>3, <2>1 DEF Launch
<1>4. ASSUME NEW m \in Materials, NEW to \in Places, StartOther(m, to) PROVE RecordInv'
  <2>1. job'.step = [mat |-> m, from |-> rec[m], to |-> to] /\ job'.step \in StepOf
    BY <1>4, JobIs
  <2> QED BY <1>2, <1>4, <2>1 DEF StartOther
<1>5. CASE JobSucceeds
  <2>1. job.of # "none" /\ job.step \in StepOf
    BY <1>0, <1>5 DEF JobSucceeds, Shape, RecordInv
  <2>2. job.step.mat \in Materials /\ job.step.to \in Places
    BY <2>1 DEF StepOf
  <2> QED BY <1>0, <1>5, <2>1, <2>2 DEF JobSucceeds, RecordInv, TypeOK
<1>6. ASSUME NEW place \in Places \cup {Unsure}, JobFails(place) PROVE RecordInv'
  <2>1. job.of # "none" /\ job.step \in StepOf
    BY <1>0, <1>6 DEF JobFails, Shape, RecordInv
  <2>2. job.step.mat \in Materials /\ rec[job.step.mat] = job.step.from
    BY <1>0, <2>1 DEF StepOf, RecordInv
  <2> QED BY <1>0, <1>6, <2>1, <2>2 DEF JobFails, RecordInv, TypeOK
<1>7. ASSUME NEW m \in Materials, PutBack(m) PROVE RecordInv'
  BY <1>0, <1>7 DEF PutBack, RecordInv, TypeOK, Shape
<1> QED BY <1>1, <1>3, <1>4, <1>5, <1>6, <1>7, JobIs
    DEF Next, vars, Create, CancelPlan, Confirm, StopsHere, AllDone, Refuse, Judge, Raise, Release,
        RequestStop, StopJob, SetEnvironment

(* Every step keeps the thread, its reservation and its job together.     *)
LEMMA ThreadNext == PlannerIsSound /\ IInv /\ [Next]_vars => ThreadInv'
<1> SUFFICES ASSUME PlannerIsSound, IInv, [Next]_vars PROVE ThreadInv'
  OBVIOUS
<1>0. TypeOK /\ Shape /\ ThreadInv /\ NoJob.of = "none" /\ TypeOK' /\ Shape'
  BY TypeNext DEF IInv, NoJob
<1>1. ASSUME NEW want \in Requests, Create(want) PROVE ThreadInv'
  <2>1. /\ goal'.status = "planned" /\ goal'.want = want /\ goal'.done = 0
        /\ UNCHANGED <<pc, reserved, job>> /\ job = NoJob /\ ~Working
    BY <1>0, <1>1, CreateType DEF Create, Active, ThreadInv
  <2> QED BY <1>0, <1>1, <2>1 DEF ThreadInv, Working
<1>2. CASE CancelPlan
  <2>1. goal'.status = "cancelled" /\ UNCHANGED <<pc, reserved, job>> /\ goal.status = "planned"
    BY <1>2, GoalIs DEF CancelPlan
  <2> QED BY <1>0, <2>1 DEF ThreadInv, Working
<1>3. CASE Confirm
  <2> DEFINE status == IF goal.steps = <<>> THEN "completed" ELSE "running"
             asked == [places |-> rec, blocked |-> env.blocked]
  <2>1. /\ goal' = [goal EXCEPT !.status = status, !.asked = asked]
        /\ reserved' = (status = "running") /\ job' = NoJob
        /\ pc' = IF status = "running" THEN "top" ELSE pc
        /\ pc = "off"
    BY <1>0, <1>3 DEF Confirm, ThreadInv
  <2>2. goal'.status = status /\ goal.done = goal'.done
    BY <2>1, GoalIs
  <2>3. CASE goal.steps = <<>>
    <3>1. goal'.status = "completed" /\ pc' = "off" /\ reserved' = FALSE
      BY <2>1, <2>2, <2>3
    <3> QED BY <1>0, <2>1, <3>1 DEF ThreadInv, Working
  <2>4. CASE goal.steps # <<>>
    <3>1. goal'.status = "running" /\ pc' = "top" /\ reserved' = TRUE
      BY <2>1, <2>2, <2>4
    <3> QED BY <1>0, <2>1, <3>1 DEF ThreadInv, Working
  <2> QED BY <2>3, <2>4
<1>4. CASE StopsHere \/ AllDone \/ Refuse \/ Judge
  <2>1. job = NoJob /\ job' = NoJob /\ UNCHANGED reserved /\ Working
    BY <1>0, <1>4 DEF StopsHere, AllDone, Refuse, Judge, AtStep, ThreadInv, Working, Shape, JobOf
  <2>2. CASE pc' = "release"
    <3>0. PICK status \in {"stopped", "completed", "failed"} :
             goal' = [goal EXCEPT !.status = status]
      BY <1>4, <2>2 DEF StopsHere, AllDone, Refuse, Judge, Finish
    <3>1. goal'.status \in {"stopped", "completed", "failed"}
      BY <3>0, GoalIs
    <3> QED BY <1>0, <2>1, <2>2, <3>1 DEF ThreadInv, Working
  <2>3. CASE pc' # "release"
    <3>1. pc' = "top" /\ goal' = [goal EXCEPT !.done = @ + 1]
      BY <1>4, <2>3 DEF StopsHere, AllDone, Refuse, Judge, AfterRefusal
    <3>2. goal'.status = goal.status
      BY <3>1, GoalIs
    <3> QED BY <1>0, <2>1, <3>1, <3>2 DEF ThreadInv, Working
  <2> QED BY <2>2, <2>3
<1>11. CASE Raise
  <2>1. goal' = [goal EXCEPT !.status = "failed"] /\ pc' = "release" /\ Working
    BY <1>11 DEF Raise, Finish, Working
  <2>2. goal'.status = "failed" /\ UNCHANGED <<reserved, job>>
    BY <1>11, <2>1, GoalIs DEF Raise
  <2> QED BY <1>0, <2>1, <2>2 DEF ThreadInv, Working
<1>5. CASE Launch
  <2>1. /\ job'.of = "goal" /\ job'.step = NextStep /\ goal.done < Len(goal.steps)
        /\ pc = "top" /\ pc' = "poll" /\ UNCHANGED <<goal, reserved>>
    BY <1>0, <1>5, JobIs DEF Launch, AtStep, TypeOK, Shape
  <2> QED BY <1>0, <2>1 DEF ThreadInv, Working, NextStep
<1>6. CASE Release
  <2>1. ~Working /\ UNCHANGED <<goal, job>> /\ goal.status \notin {"running", "stopping"}
    BY <1>0, <1>6 DEF Release, ThreadInv, Working
  <2>2. CASE job = NoJob
    BY <1>0, <1>6, <2>1, <2>2 DEF Release, ThreadInv, Working
  <2>3. CASE job # NoJob
    BY <1>0, <1>6, <2>1, <2>3 DEF Release, ThreadInv, Working
  <2> QED BY <2>2, <2>3
<1>7. CASE RequestStop
  <2>1. /\ goal'.status = "stopping" /\ goal'.steps = goal.steps /\ goal'.done = goal.done
        /\ goal'.want = goal.want /\ UNCHANGED <<pc, reserved, job>>
        /\ goal.status \in {"running", "stopping"}
    BY <1>7, GoalIs DEF RequestStop
  <2> QED BY <1>0, <2>1 DEF ThreadInv, Working, NextStep
<1>8. CASE StopJob
  BY <1>0, <1>8, JobIs DEF StopJob, ThreadInv, Working, NextStep
<1>9. ASSUME NEW m \in Materials, NEW to \in Places, StartOther(m, to) PROVE ThreadInv'
  BY <1>0, <1>9, JobIs DEF StartOther, ThreadInv, Working
<1>10. ASSUME UNCHANGED <<goal, pc, reserved>>, UNCHANGED job \/ job' = NoJob PROVE ThreadInv'
  BY <1>0, <1>10 DEF ThreadInv, Working, NextStep
<1> QED BY <1>1, <1>2, <1>3, <1>4, <1>5, <1>6, <1>7, <1>8, <1>9, <1>10, <1>11
    DEF Next, vars, SetEnvironment, JobSucceeds, JobFails, PutBack

-----------------------------------------------------------------------------
(* The course of a goal.                                                   *)

(* What is fulfilled does not depend on the status of the goal.            *)
LEMMA FulfilledIs ==
    ASSUME NEW g, NEW h, NEW places, g.want = h.want, g.asked = h.asked
    PROVE  Fulfilled(g, places) <=> Fulfilled(h, places)
  BY DEF Fulfilled

(* A confirmed goal begins its course, whatever happened since it was      *)
(* planned: its steps are those of a plan over the records of this moment. *)
LEMMA ConfirmBegins ==
    ASSUME PlannerIsSound, IInv, Confirm
    PROVE  /\ goal'.asked = [places |-> rec, blocked |-> env.blocked]
           /\ goal'.steps = goal.steps /\ goal'.want = goal.want /\ goal'.done = 0
           /\ After(rec, goal.steps, 0) = rec
           /\ goal.want # ReturnEverything =>
                 \A i \in 1..Len(goal.steps) :
                    Startable(After(rec, goal.steps, i - 1), goal.steps[i], env.blocked, env.gone)
           /\ Fulfilled(goal', After(rec, goal.steps, Len(goal.steps)))
<1> DEFINE asked == [places |-> rec, blocked |-> env.blocked]
           plan == PlanFor(rec, goal.want, env)
           asks == [want |-> goal.want, asked |-> asked]
<1>1. PICK status \in {"running", "completed"} :
         goal' = [goal EXCEPT !.status = status, !.asked = asked]
  BY DEF Confirm
<1>2. goal'.asked = asked /\ goal'.steps = goal.steps /\ goal'.want = goal.want
  BY <1>1, GoalIs
<1>3. goal.want \in Requests /\ goal.done = 0 /\ goal'.done = goal.done
  BY <1>1, GoalIs DEF Confirm, IInv, ThreadInv
<1>4. Plan(goal.want).ok /\ Plan(goal.want).steps = goal.steps
  BY DEF Confirm, SamePlan
<1>5. plan.ok /\ plan.steps = goal.steps /\ PlanIsSound(rec, goal.want, env)
  BY <1>3, <1>4, PlanIs
<1>6. /\ goal.want # ReturnEverything =>
            \A i \in 1..Len(goal.steps) :
               Startable(After(rec, goal.steps, i - 1), goal.steps[i], env.blocked, env.gone)
      /\ Fulfilled(asks, After(rec, goal.steps, Len(goal.steps)))
  BY <1>5, Zenon DEF PlanIsSound
<1>7. asks.want = goal'.want /\ asks.asked = goal'.asked
  BY <1>2
<1>8. rec \in [Materials -> Places \cup {Unsure}]
  BY DEF IInv, TypeOK
<1>9. After(rec, goal.steps, 0) = rec
  BY <1>8, AfterNone
<1> HIDE DEF asked, plan, asks
<1>10. Fulfilled(goal', After(rec, goal.steps, Len(goal.steps)))
  <2>1. PICK g : g = goal'
    OBVIOUS
  <2>2. Fulfilled(g, After(rec, goal.steps, Len(goal.steps)))
    BY <1>6, <1>7, <2>1, FulfilledIs
  <2> QED BY <2>1, <2>2
<1> QED BY <1>2, <1>3, <1>6, <1>9, <1>10 DEF asked

(* The course as the steps of a goal see it: one that leaves the plan and  *)
(* the place in it alone, the next transfer that starts, and one that is   *)
(* judged to be done.                                                      *)
LEMMA CourseStays ==
    ASSUME NEW g, NEW h, NEW places, NEW after, NEW at, NEW e, NEW f, NEW upset, NEW later,
           Course(g, places, at, e, upset),
           h.asked = g.asked, h.steps = g.steps, h.want = g.want, h.done = g.done,
           upset => later, ~later => f = e,
           at = "top" => after = places,
           at = "poll" => \A m \in Materials \ {g.steps[g.done + 1].mat} : after[m] = places[m]
    PROVE  Course(h, after, at, f, later)
  BY FulfilledIs DEF Course

LEMMA CourseLaunched ==
    ASSUME NEW g, NEW places, NEW e, NEW upset, Course(g, places, "top", e, upset)
    PROVE  Course(g, places, "poll", e, upset)
  BY DEF Course

LEMMA CourseJudged ==
    ASSUME NEW g, NEW h, NEW places, NEW e, NEW upset, NEW P,
           Course(g, places, "poll", e, upset),
           g.steps \in Seq(StepOf), g.done \in Nat, g.done < Len(g.steps),
           places \in [Materials -> P],
           h.asked = g.asked, h.steps = g.steps, h.want = g.want, h.done = g.done + 1,
           places[g.steps[g.done + 1].mat] = g.steps[g.done + 1].to
    PROVE  Course(h, places, "top", e, upset)
<1> DEFINE On(i) == After(g.asked.places, g.steps, i)
           move == g.steps[g.done + 1]
<1>1. \A m \in Materials : On(g.done + 1)[m] = IF m = move.mat THEN move.to ELSE On(g.done)[m]
  <2>1. PICK from, steps, n : from = g.asked.places /\ steps = g.steps /\ n = g.done
    OBVIOUS
  <2>2. steps \in Seq(StepOf) /\ n \in Nat /\ n < Len(steps)
    BY <2>1
  <2>3. \A m \in Materials : After(from, steps, n + 1)[m] =
           IF m = steps[n + 1].mat THEN steps[n + 1].to ELSE After(from, steps, n)[m]
    BY <2>2, AfterStep
  <2> QED BY <2>1, <2>3
<1>2. \A i : On(i) = [m \in Materials |-> On(i)[m]]
  BY DEF After
<1>3. \A m \in Materials \ {move.mat} : places[m] = On(g.done)[m]
  BY DEF Course
<1> HIDE DEF On
<1>4. places = On(g.done + 1)
  <2>1. \A m \in Materials : On(g.done + 1)[m] = places[m]
    BY <1>1, <1>2, <1>3
  <2>2. places = [m \in Materials |-> places[m]]
    OBVIOUS
  <2>3. On(g.done + 1) = [m \in Materials |-> On(g.done + 1)[m]]
    BY <1>2
  <2> QED BY <2>1, <2>2, <2>3
<1> QED BY <1>4, FulfilledIs DEF Course, On

(* Every step keeps the goal on its course.                                *)
LEMMA CourseNext == PlannerIsSound /\ IInv /\ [Next]_vars => CourseInv'
<1> SUFFICES ASSUME PlannerIsSound, IInv, [Next]_vars, Working'
             PROVE  Course(goal', rec', pc', env', disturbed')
  BY DEF CourseInv
<1>0. TypeOK /\ Shape /\ ThreadInv /\ RecordInv /\ ThreadInv'
  BY ThreadNext DEF IInv
<1>1. PICK g, h, places, after, e, f, upset, later :
         /\ g = goal /\ h = goal' /\ places = rec /\ after = rec' /\ e = env /\ f = env'
         /\ upset = disturbed /\ later = disturbed'
  OBVIOUS
<1>2. SUFFICES Course(h, after, pc', f, later)
  BY <1>1
<1>3. Working => Course(g, places, pc, e, upset)
  BY <1>1 DEF IInv, CourseInv
<1>4. CASE Confirm
  <2>1. /\ pc' = "top" /\ after = places /\ f = e /\ h.done = 0
        /\ h.asked.places = places /\ h.steps = goal.steps /\ h.want = goal.want
    BY <1>0, <1>1, <1>4, ConfirmBegins DEF Confirm, Working, ThreadInv
  <2>2. /\ After(places, h.steps, 0) = places
        /\ h.want # ReturnEverything =>
             \A i \in 1..Len(h.steps) :
                Startable(After(places, h.steps, i - 1), h.steps[i], e.blocked, e.gone)
        /\ Fulfilled(h, After(places, h.steps, Len(h.steps)))
    BY <1>1, <1>4, <2>1, ConfirmBegins
  <2> QED BY <2>1, <2>2 DEF Course
<1>5. CASE Judge
  <2>1. /\ pc = "poll" /\ pc' = "top" /\ Reached /\ goal' = [goal EXCEPT !.done = @ + 1]
        /\ Working /\ after = places /\ f = e /\ later = upset
    BY <1>1, <1>5 DEF Judge, Working
  <2>2. h.asked = g.asked /\ h.steps = g.steps /\ h.want = g.want /\ h.done = g.done + 1
    BY <1>1, <2>1, GoalIs
  <2>3. /\ g.steps \in Seq(StepOf) /\ g.done \in Nat /\ g.done < Len(g.steps)
        /\ places \in [Materials -> Places \cup {Unsure}]
        /\ places[g.steps[g.done + 1].mat] = g.steps[g.done + 1].to
    BY <1>0, <1>1, <2>1 DEF TypeOK, Shape, ThreadInv, Reached, NextStep
  <2> QED BY <1>3, <2>1, <2>2, <2>3, CourseJudged
<1>6. CASE Launch
  <2>1. /\ pc = "top" /\ pc' = "poll" /\ Working
        /\ after = places /\ h = g /\ f = e /\ later = upset
    BY <1>1, <1>6 DEF Launch, AtStep, Working
  <2> QED BY <1>3, <2>1, CourseLaunched
<1>7. CASE RequestStop
  <2>1. Working /\ pc' = pc /\ after = places /\ f = e /\ later = upset
    BY <1>1, <1>7 DEF RequestStop, Working
  <2>2. h.asked = g.asked /\ h.steps = g.steps /\ h.want = g.want /\ h.done = g.done
    BY <1>1, <1>7, GoalIs DEF RequestStop
  <2> QED BY <1>3, <2>1, <2>2, CourseStays
<1>8. CASE StopJob \/ SetEnvironment \/ UNCHANGED vars
  <2>1. /\ Working /\ pc' = pc /\ after = places /\ h = g
        /\ ~later => f = e /\ (upset => later)
    BY <1>1, <1>8 DEF StopJob, SetEnvironment, vars, Working
  <2> QED BY <1>3, <2>1, CourseStays
<1>9. CASE JobSucceeds \/ \E place \in Places \cup {Unsure} : JobFails(place)
  <2>1. /\ Working /\ pc' = pc /\ h = g /\ f = e /\ job # NoJob
        /\ upset => later
    BY <1>1, <1>9 DEF JobSucceeds, JobFails, Working
  <2>2. pc = "poll" /\ job.step = NextStep
    BY <1>0, <2>1 DEF Shape, JobOf, ThreadInv, Working
  <2>3. \A m \in Materials \ {job.step.mat} : after[m] = places[m]
    BY <1>0, <1>1, <1>9 DEF JobSucceeds, JobFails, TypeOK
  <2>4. \A m \in Materials \ {g.steps[g.done + 1].mat} : after[m] = places[m]
    BY <1>1, <2>2, <2>3 DEF NextStep
  <2> QED BY <1>3, <2>1, <2>2, <2>4, CourseStays
(* The other steps are not taken while a goal is at work, or end its work. *)
<1>10. ~ \/ \E want \in Requests : Create(want)
         \/ CancelPlan \/ StopsHere \/ AllDone \/ Refuse \/ Raise \/ Release
         \/ \E m \in Materials, to \in Places : StartOther(m, to)
         \/ \E m \in Materials : PutBack(m)
  BY <1>0 DEF Create, Active, CancelPlan, StopsHere, AllDone, Refuse, AfterRefusal, Raise, Release,
              StartOther, PutBack, ThreadInv, Working
<1> QED BY <1>4, <1>5, <1>6, <1>7, <1>8, <1>9, <1>10 DEF Next

(* Every step keeps the invariant.                                        *)
LEMMA NextIInv == PlannerIsSound /\ IInv /\ [Next]_vars => IInv'
  BY TypeNext, RecordNext, ThreadNext, CourseNext DEF IInv

(* It holds in every state of every behaviour.                            *)
LEMMA Inductive == ASSUME PlannerIsSound PROVE Spec => []IInv
<1>1. IInv /\ [Next]_vars => IInv'
  BY NextIInv
<1> QED BY <1>1, InitIInv, PTL DEF Spec

-----------------------------------------------------------------------------
(* The variables of the goals keep their types, for any number of goals,   *)
(* transfers, stops and edits.                                             *)
THEOREM TypeCorrect == ASSUME PlannerIsSound PROVE Spec => []TypeOK
<1>1. IInv => TypeOK
  BY DEF IInv
<1> QED BY <1>1, Inductive, PTL

(* A confirmed plan goes through: undisturbed, the contract allows each of *)
(* its steps when its turn comes.                                          *)
THEOREM PlanGoesThrough == ASSUME PlannerIsSound PROVE Spec => []PlanRunsThrough
<1>1. IInv => PlanRunsThrough
  <2> SUFFICES ASSUME IInv, AtStep, ~disturbed, goal.want # ReturnEverything
               PROVE  Startable(rec, NextStep, env.blocked, env.gone)
    BY DEF PlanRunsThrough
  <2>1. Course(goal, rec, "top", env, disturbed)
    BY DEF IInv, CourseInv, Working, AtStep
  <2>2. goal.done + 1 \in 1..Len(goal.steps) /\ (goal.done + 1) - 1 = goal.done
    BY DEF IInv, TypeOK, Shape, AtStep
  <2>3. Startable(After(goal.asked.places, goal.steps, (goal.done + 1) - 1),
                  goal.steps[goal.done + 1], env.blocked, env.gone)
    BY <2>1, <2>2 DEF Course
  <2>4. rec = After(goal.asked.places, goal.steps, goal.done)
    BY <2>1 DEF Course
  <2> QED BY <2>2, <2>3, <2>4 DEF NextStep
<1> QED BY <1>1, Inductive, PTL

(* A goal is completed when the request is fulfilled, even after edits in  *)
(* between: what is judged is where the materials are.                     *)
THEOREM CompletedGoalFulfilled == ASSUME PlannerIsSound PROVE Spec => CompletedIsFulfilled
<1>1. ASSUME IInv, [Next]_vars, goal.status # "completed", goal'.status = "completed"
      PROVE  Fulfilled(goal', rec')
  <2>0. TypeOK /\ Shape /\ ThreadInv
    BY <1>1 DEF IInv
  <2>1. PICK g, h, places : g = goal /\ h = goal' /\ places = rec
    OBVIOUS
  <2>2. SUFFICES Fulfilled(h, rec')
    BY <2>1
  <2>3. CASE AllDone
    <3>1. /\ rec' = places /\ g.done = Len(g.steps) /\ h.want = g.want /\ h.asked = g.asked
      BY <2>1, <2>3, GoalIs, <1>1 DEF AllDone, Finish
    <3>2. Course(g, places, "top", env, disturbed)
      BY <1>1, <2>1, <2>3 DEF IInv, CourseInv, Working, AllDone
    <3>3. Fulfilled(g, places)
      BY <3>1, <3>2 DEF Course
    <3> QED BY <3>1, <3>3, FulfilledIs
  <2>4. CASE Confirm
    <3>1. goal.steps = <<>> /\ rec' = rec
      <4>1. PICK status \in {"running", "completed"} :
              /\ goal' = [goal EXCEPT !.status = status,
                            !.asked = [places |-> rec, blocked |-> env.blocked]]
              /\ status = "completed" => goal.steps = <<>>
        BY <2>4 DEF Confirm
      <4>2. goal'.status = status
        BY <1>1, <4>1, GoalIs
      <4> QED BY <1>1, <2>4, <4>1, <4>2 DEF Confirm
    <3>2. After(rec, goal.steps, Len(goal.steps)) = rec
      BY <1>1, <2>4, <3>1, ConfirmBegins
    <3>3. Fulfilled(goal', After(rec, goal.steps, Len(goal.steps)))
      BY <1>1, <2>4, ConfirmBegins
    <3> QED BY <2>1, <3>1, <3>2, <3>3
  (* No other step completes a goal.                                       *)
  <2>5. ASSUME NEW want \in Requests, Create(want) PROVE FALSE
    BY <1>1, <2>5, CreateType
  <2>6. CASE CancelPlan \/ StopsHere \/ Refuse \/ Judge \/ Raise \/ RequestStop
    <3>1. \/ \E status \in {"cancelled", "stopped", "failed"} :
                goal' = [goal EXCEPT !.status = status]
          \/ goal' = [goal EXCEPT !.done = @ + 1]
          \/ goal' = [goal EXCEPT !.stop = TRUE, !.status = "stopping"]
      BY <2>6 DEF CancelPlan, StopsHere, Refuse, Judge, Raise, RequestStop, Finish
    <3>2. goal'.status \in {"cancelled", "stopped", "failed", "stopping", goal.status}
      <4>1. ASSUME NEW status \in {"cancelled", "stopped", "failed"},
                   goal' = [goal EXCEPT !.status = status]
            PROVE  goal'.status = status
        BY <1>1, <4>1, GoalIs
      <4>2. goal' = [goal EXCEPT !.done = @ + 1] => goal'.status = goal.status
        BY <1>1, GoalIs
      <4>3. goal' = [goal EXCEPT !.stop = TRUE, !.status = "stopping"] =>
              goal'.status = "stopping"
        BY <1>1, GoalIs
      <4> QED BY <3>1, <4>1, <4>2, <4>3
    <3> QED BY <1>1, <3>2
  <2> QED BY <1>1, <2>3, <2>4, <2>5, <2>6
      DEF Next, vars, Launch, Release, StopJob, SetEnvironment, StartOther, JobSucceeds,
          JobFails, PutBack
<1>2. IInv /\ [Next]_vars =>
        [goal.status # "completed" /\ goal'.status = "completed" => Fulfilled(goal', rec')]_vars
  BY <1>1
<1> QED BY <1>2, Inductive, PTL DEF Spec, CompletedIsFulfilled

-----------------------------------------------------------------------------
(* A stop.  It does not depend on what is planned.                         *)

StopInv ==
    /\ DOMAIN goal = GoalFields /\ goal.stop \in BOOLEAN
    /\ DOMAIN job = {"of", "step", "stopped"} /\ job.stopped \in BOOLEAN
    /\ job.of = "none" <=> job = NoJob
    /\ StopReachesChild

(* Between the two halves of a stop the thread starts no script, as it sees*)
(* the flag; before them it may, and the second half finds it.             *)
LEMMA StopNext == StopInv /\ [Next]_vars => StopInv'
<1> SUFFICES ASSUME StopInv, [Next]_vars PROVE StopInv'
  OBVIOUS
<1>0. /\ TRUE \in BOOLEAN /\ FALSE \in BOOLEAN
      /\ NoJob.of = "none" /\ DOMAIN NoJob = {"of", "step", "stopped"} /\ NoJob.stopped = FALSE
  BY DEF NoJob
<1>1. ASSUME NEW want \in Requests, Create(want) PROVE StopInv'
  <2>1. job = NoJob /\ job' = job
    BY <1>1 DEF Create
  <2>2. DOMAIN goal' = GoalFields /\ goal'.stop = FALSE
    BY <1>1 DEF Create, NoGoal, GoalFields
  <2> QED BY <1>0, <2>1, <2>2 DEF StopInv, StopReachesChild
<1>2. ASSUME DOMAIN goal' = DOMAIN goal, goal'.stop = goal.stop, UNCHANGED stopper,
             UNCHANGED job \/ job' = NoJob
      PROVE  StopInv'
  BY <1>0, <1>2 DEF StopInv, StopReachesChild
<1>3. CASE CancelPlan \/ StopsHere \/ AllDone \/ Refuse \/ Judge \/ Raise \/ Confirm
  <2>1. /\ UNCHANGED <<stopper, job>>
        /\ \/ \E status : goal' = [goal EXCEPT !.status = status]
           \/ \E status, asked : goal' = [goal EXCEPT !.status = status, !.asked = asked]
           \/ goal' = [goal EXCEPT !.done = @ + 1]
    <3>1. CASE Confirm
      BY <3>1 DEF Confirm
    <3>2. CASE CancelPlan \/ StopsHere \/ AllDone \/ Refuse \/ Judge \/ Raise
      BY <3>2 DEF CancelPlan, StopsHere, AllDone, Refuse, Judge, Raise, Finish
    <3> QED BY <1>3, <3>1, <3>2
  <2>2. DOMAIN goal' = DOMAIN goal /\ goal'.stop = goal.stop
    BY <2>1 DEF StopInv, GoalFields
  <2> QED BY <1>2, <2>1, <2>2
<1>4. CASE Launch
  <2>1. ~goal.stop /\ UNCHANGED <<goal, stopper>>
    BY <1>4 DEF Launch, AtStep, StopFirst
  <2>2. job' = [of |-> "goal", step |-> NextStep, stopped |-> FALSE]
    BY <1>4 DEF Launch
  <2>3. DOMAIN job' = {"of", "step", "stopped"} /\ job'.stopped = FALSE /\ job'.of = "goal"
    BY <2>2
  <2> QED BY <1>0, <2>1, <2>3 DEF StopInv, StopReachesChild
<1>5. CASE RequestStop
  <2>1. goal' = [goal EXCEPT !.stop = TRUE, !.status = "stopping"]
    BY <1>5 DEF RequestStop
  <2>2. DOMAIN goal' = GoalFields /\ goal'.stop = TRUE
    BY <2>1 DEF StopInv, GoalFields
  <2>3. stopper' = TRUE /\ UNCHANGED job
    BY <1>5 DEF RequestStop
  <2> QED BY <1>0, <2>2, <2>3 DEF StopInv, StopReachesChild
<1>6. CASE StopJob
  <2>1. CASE job = NoJob
    <3>1. UNCHANGED <<goal, job>> /\ job.of = "none"
      BY <1>6, <2>1 DEF StopJob, StopInv
    <3> QED BY <3>1 DEF StopInv, StopReachesChild
  <2>2. CASE job # NoJob
    <3>1. UNCHANGED goal /\ job' = [job EXCEPT !.stopped = TRUE]
      BY <1>6, <2>2 DEF StopJob
    <3>2. DOMAIN job' = DOMAIN job /\ job'.stopped = TRUE /\ job'.of = job.of
      BY <3>1 DEF StopInv
    <3> QED BY <1>0, <2>2, <3>1, <3>2 DEF StopInv, StopReachesChild
  <2> QED BY <2>1, <2>2
<1>7. ASSUME NEW m \in Materials, NEW to \in Places, StartOther(m, to) PROVE StopInv'
  <2>1. PICK s : job' = [of |-> "other", step |-> s, stopped |-> FALSE]
    BY <1>7 DEF StartOther
  <2>2. DOMAIN job' = {"of", "step", "stopped"} /\ job'.stopped = FALSE /\ job'.of = "other"
    BY <2>1
  <2>3. UNCHANGED goal
    BY <1>7 DEF StartOther
  <2> QED BY <1>0, <2>2, <2>3 DEF StopInv, StopReachesChild
<1>8. CASE Release \/ SetEnvironment \/ UNCHANGED vars \/ JobSucceeds
           \/ (\E place \in Places \cup {Unsure} : JobFails(place))
           \/ (\E m \in Materials : PutBack(m))
  BY <1>2, <1>8 DEF Release, SetEnvironment, vars, JobSucceeds, JobFails, PutBack
<1> QED BY <1>1, <1>3, <1>4, <1>5, <1>6, <1>7, <1>8 DEF Next

(* A stop reaches the script of the goal: it is never left running with    *)
(* the stop behind it, whatever the planner makes of the request.          *)
THEOREM StopNotOutrun == Spec => []StopReachesChild
<1>1. Init => StopInv
  <2> SUFFICES ASSUME Init PROVE StopInv
    OBVIOUS
  <2>1. /\ DOMAIN goal = GoalFields /\ goal.stop = FALSE
        /\ DOMAIN job = {"of", "step", "stopped"} /\ job.stopped = FALSE
        /\ job.of = "none" /\ job = NoJob
    BY DEF Init, NoGoal, NoJob, GoalFields
  <2> QED BY <2>1 DEF StopInv, StopReachesChild
<1>2. StopInv => StopReachesChild
  BY DEF StopInv
<1> QED BY <1>1, <1>2, StopNext, PTL DEF Spec

-----------------------------------------------------------------------------
(* The delivery of a stop to the job that runs (StopDelivery), for any     *)
(* number of presses, transfers, confirmations, spots and steps of a goal: *)
(* no watched job runs unnoticed under the latch.                          *)

(* A request is written for a job.                                         *)
Aimed == \A c \in Callers : call[c].at = "write" => call[c].job \in Jobs

(* No starter names a job that is not there yet.                           *)
Known == \A s \in Starters : starter[s].job \in Jobs => starter[s].job <= jobs

DeliveryInv == DeliveryTypeOK /\ Aimed /\ Known /\ WatchedJobTold

(* The initial state: the latch is off and nothing runs.                   *)
LEMMA InitDelivery == DeliveryInit => DeliveryInv
<1> SUFFICES ASSUME DeliveryInit PROVE DeliveryInv
  OBVIOUS
<1>1. latch \in BOOLEAN /\ ~latch
  BY Zenon DEF DeliveryInit
<1>2. again \in [Callers -> [at : {"none", "look", "write"},
                             job : Jobs \cup {NoProcess}, armed : BOOLEAN]]
  <2>1. FALSE \in BOOLEAN
    OBVIOUS
  <2> QED BY <2>1 DEF DeliveryInit
<1>3. DeliveryTypeOK
  BY <1>1, <1>2, DeliveryBounds DEF DeliveryInit, DeliveryTypeOK, Phases
<1>4. Aimed
  BY DEF DeliveryInit, Aimed
<1>5. Known
  BY DeliveryNames DEF DeliveryInit, Known, Jobs
<1> QED BY <1>1, <1>3, <1>4, <1>5 DEF DeliveryInv, WatchedJobTold

ReassertThreads == [at : {"none", "look", "write"}, job : Jobs \cup {NoProcess}, armed : BOOLEAN]

(* The types are preserved by every step.                                  *)
LEMMA NextDeliveryType == DeliveryTypeOK /\ Aimed /\ [DeliveryNext]_deliveryVars => DeliveryTypeOK'
<1> SUFFICES ASSUME DeliveryTypeOK, Aimed, [DeliveryNext]_deliveryVars PROVE DeliveryTypeOK'
  OBVIOUS
<1> USE DeliveryBounds, DeliveryNames DEF DeliveryTypeOK, Phases, Jobs
<1>1. ASSUME NEW j \in Jobs, Process(j) \/ End(j) PROVE DeliveryTypeOK'
  BY <1>1 DEF Process, SetSince, PrintMark, See, End
<1>2. ASSUME NEW c \in Callers, Request(c) PROVE DeliveryTypeOK'
  <2>1. CASE Look(c)
    BY <2>1 DEF Look, NothingRuns
  <2>2. CASE Write(c)
    <3>1. call[c].job \in Jobs
      BY <2>2 DEF Write, Aimed
    <3>2. call' \in [Callers -> [at : {"idle", "goals", "look", "write", "check", "done"},
                                job : Jobs \cup {NoProcess}]]
      BY <2>2 DEF Write
    <3> QED BY <2>2, <3>1, <3>2 DEF Write
  <2>3. CASE Check(c)
    BY <2>3 DEF Check, Armed
  <2>4. CASE LookAgain(c)
    <3>1. Armed(again[c].job) \in BOOLEAN
      BY DEF Armed
    <3>2. again[c] \in ReassertThreads
      BY DEF ReassertThreads
    <3>3. \A armed \in BOOLEAN :
             [again[c] EXCEPT !.at = "write", !.armed = armed] \in ReassertThreads
      BY <3>2 DEF ReassertThreads
    <3>4. [again[c] EXCEPT !.at = "none"] \in ReassertThreads
      BY <3>2 DEF ReassertThreads
    <3>5. PICK r \in ReassertThreads : again' = [again EXCEPT ![c] = r]
      BY <2>4, <3>1, <3>3, <3>4, Zenon DEF LookAgain
    <3>6. again' \in [Callers -> ReassertThreads]
      BY <3>5 DEF ReassertThreads
    <3> QED BY <2>4, <3>6 DEF LookAgain, ReassertThreads
  <2>5. CASE WriteAgain(c)
    <3>1. again[c] \in ReassertThreads
      BY DEF ReassertThreads
    <3>2. /\ [again[c] EXCEPT !.at = "none"] \in ReassertThreads
          /\ [again[c] EXCEPT !.at = "look"] \in ReassertThreads
      BY <3>1 DEF ReassertThreads
    <3>3. \/ again' = [again EXCEPT ![c] = [again[c] EXCEPT !.at = "none"]]
          \/ again' = [again EXCEPT ![c] = [again[c] EXCEPT !.at = "look"]]
      BY <2>5 DEF WriteAgain
    <3>4. again' \in [Callers -> ReassertThreads]
      BY <3>2, <3>3 DEF ReassertThreads
    <3> QED BY <2>5, <3>4 DEF WriteAgain, ReassertThreads
  <2> QED BY <1>2, <2>1, <2>2, <2>3, <2>4, <2>5 DEF Request
<1>3. ASSUME NEW p \in Presses, Press(p) \/ Deliver(p) PROVE DeliveryTypeOK'
  <2>1. latch' \in BOOLEAN
    BY <1>3, Zenon DEF Press, Deliver, StopGoal
  <2>2. call' \in [Callers -> [at : {"idle", "goals", "look", "write", "check", "done"},
                              job : Jobs \cup {NoProcess}]]
    <3>1. p \in Callers
      BY DEF Callers
    <3>2. \E at \in {"goals", "look"} : call' = [call EXCEPT ![p].at = at]
      BY <1>3 DEF Press, Deliver, StopGoal
    <3> QED BY <3>1, <3>2
  <2>3. CASE Press(p)
    BY <2>1, <2>2, <2>3 DEF Press
  <2>4. CASE Deliver(p)
    BY <2>1, <2>2, <2>4 DEF Deliver, StopGoal
  <2> QED BY <1>3, <2>3, <2>4
<1>4. CASE ReleaseStop
  <2>1. latch' \in BOOLEAN
    BY <1>4, Zenon DEF ReleaseStop
  <2> QED BY <1>4, <2>1 DEF ReleaseStop
<1>5. ASSUME NEW s \in Starters, StartSequence(s) PROVE DeliveryTypeOK'
  <2>1. CASE CheckLatch(s)
    BY <2>1 DEF CheckLatch, Moves
  <2>2. CASE StartRefused(s)
    BY <2>2 DEF StartRefused, Moves
  <2>3. CASE StartJob(s)
    <3>1. jobs + 1 \in Jobs /\ jobs + 1 \in 0..MaxJobs
      BY <2>3 DEF StartJob, Spawned
    <3>2. starter' \in [Starters -> [at : {"idle", "reserved", "checked", "started", "done"},
                                    job : Jobs \cup {NoProcess}]]
      BY <2>3, <3>1 DEF StartJob
    <3>3. phase' \in [Jobs -> Phases]
      BY <2>3, <3>1 DEF StartJob, Spawned
    <3> QED BY <2>3, <3>1, <3>2, <3>3 DEF StartJob, Spawned
  <2> QED BY <1>5, <2>1, <2>2, <2>3 DEF StartSequence
<1>6. ASSUME NEW t \in Transfers, Transfer(t) PROVE DeliveryTypeOK'
  <2>1. t \in Callers /\ t \in Starters
    BY DEF Callers, Starters
  <2>2. CASE Poll(t)
    BY <2>1, <2>2 DEF Poll
  <2>3. CASE Execute(t) \/ TransferEnds(t)
    BY <2>1, <2>3 DEF Execute, TransferEnds, Moves
  <2> QED BY <1>6, <2>2, <2>3 DEF Transfer
<1>7. ASSUME NEW c \in Confirms, Recheck(c) PROVE DeliveryTypeOK'
  BY <1>7 DEF Recheck, Moves, Callers, Starters
<1>8. ASSUME NEW s \in Spots, SpotAnswers(s) PROVE DeliveryTypeOK'
  BY <1>8 DEF SpotAnswers, Moves, Starters
<1>9. CASE Goal
  <2>1. CASE GoalStep
    <3>1. jobs + 1 \in Jobs /\ jobs + 1 \in 0..MaxJobs /\ step + 1 \in 0..GoalSteps
      BY <2>1 DEF GoalStep, Spawned
    <3>2. phase' \in [Jobs -> Phases]
      BY <2>1, <3>1 DEF GoalStep, Spawned
    <3> QED BY <2>1, <3>1, <3>2 DEF GoalStep, Spawned
  <2> QED BY <1>9, <2>1 DEF Goal, GoalCheckLatch, GoalConfirm, GoalEnds
<1>10. CASE UNCHANGED deliveryVars
  BY <1>10 DEF deliveryVars
<1> QED BY <1>1, <1>2, <1>3, <1>4, <1>5, <1>6, <1>7, <1>8, <1>9, <1>10 DEF DeliveryNext

(* A call looks for a job before it writes a request for it.               *)
LEMMA NextAimed == DeliveryTypeOK /\ Aimed /\ [DeliveryNext]_deliveryVars => Aimed'
<1> SUFFICES ASSUME DeliveryTypeOK, Aimed, [DeliveryNext]_deliveryVars PROVE Aimed'
  OBVIOUS
<1>1. ASSUME NEW c \in Callers, call' = call PROVE Aimed'
  BY <1>1 DEF Aimed
<1>2. ASSUME UNCHANGED call PROVE Aimed'
  BY <1>2 DEF Aimed
<1>3. ASSUME NEW c \in Callers, Look(c) \/ Write(c) \/ Check(c) PROVE Aimed'
  BY <1>3 DEF Look, Write, Check, NothingRuns, Aimed, DeliveryTypeOK
<1>4. ASSUME NEW p \in Presses, Press(p) \/ StopGoal(p) PROVE Aimed'
  BY <1>4 DEF Press, StopGoal, Aimed, DeliveryTypeOK, Callers
<1>5. ASSUME NEW t \in Transfers, Poll(t) PROVE Aimed'
  BY <1>5 DEF Poll, Aimed, DeliveryTypeOK, Callers
<1>6. ASSUME NEW c \in Confirms, Recheck(c) PROVE Aimed'
  BY <1>6 DEF Recheck, Aimed, DeliveryTypeOK, Callers
<1> QED
  BY <1>2, <1>3, <1>4, <1>5, <1>6
  DEF DeliveryNext, Process, SetSince, PrintMark, See, End, Request, LookAgain, WriteAgain,
      Deliver, ReleaseStop, StartSequence, CheckLatch, StartJob, StartRefused, Transfer,
      Execute, TransferEnds, SpotAnswers, Goal, GoalCheckLatch, GoalConfirm, GoalStep,
      GoalEnds, deliveryVars

(* A starter keeps its job, and new jobs have new numbers.                 *)
LEMMA NextKnown == DeliveryTypeOK /\ Known /\ [DeliveryNext]_deliveryVars => Known'
<1> SUFFICES ASSUME DeliveryTypeOK, Known, [DeliveryNext]_deliveryVars PROVE Known'
  OBVIOUS
<1> USE DeliveryBounds DEF Known, DeliveryTypeOK, Jobs
<1>1. ASSUME jobs' \in Nat, jobs' >= jobs, starter' = starter PROVE Known'
  BY <1>1
<1>2. ASSUME UNCHANGED <<jobs, starter>> PROVE Known'
  BY <1>2, <1>1
<1>3. ASSUME NEW s \in Starters, NEW at, Moves(s, at), UNCHANGED jobs PROVE Known'
  BY <1>3 DEF Moves
<1>4. ASSUME NEW s \in Starters, StartSequence(s) PROVE Known'
  <2>1. CASE CheckLatch(s) \/ StartRefused(s)
    <3>1. \E at : Moves(s, at)
      BY <2>1 DEF CheckLatch, StartRefused
    <3> QED BY <2>1, <3>1, <1>3 DEF CheckLatch, StartRefused
  <2>2. CASE StartJob(s)
    BY <2>2 DEF StartJob, Spawned
  <2> QED BY <1>4, <2>1, <2>2 DEF StartSequence
<1>5. ASSUME NEW t \in Transfers, Transfer(t) PROVE Known'
  <2>1. t \in Starters
    BY DEF Starters
  <2> QED BY <1>5, <1>2, <1>3, <2>1 DEF Transfer, Execute, Poll, TransferEnds
<1>6. ASSUME NEW c \in Confirms, Recheck(c) PROVE Known'
  BY <1>6, <1>3 DEF Recheck, Starters
<1>7. ASSUME NEW s \in Spots, SpotAnswers(s) PROVE Known'
  BY <1>7, <1>3 DEF SpotAnswers, Starters
<1>8. CASE GoalStep
  BY <1>8, <1>1 DEF GoalStep, Spawned
<1> QED
  BY <1>2, <1>4, <1>5, <1>6, <1>7, <1>8
  DEF DeliveryNext, Process, SetSince, PrintMark, See, End, Request, Look, Write, Check,
      LookAgain, WriteAgain, Press, Deliver, StopGoal, ReleaseStop, Goal, GoalCheckLatch,
      GoalConfirm, GoalEnds, deliveryVars

(* Whoever stops being on the way has written the request, or the job is   *)
(* not the one that runs.                                                  *)
LEMMA NextTold ==
    ASSUME DeliveryTypeOK, Aimed, Known, WatchedJobTold, [DeliveryNext]_deliveryVars
    PROVE  WatchedJobTold'
<1> DEFINE Told == Noticed(current)'
<1> SUFFICES ASSUME latch', current' # NoProcess, Watched(current)' PROVE Told
  BY DEF WatchedJobTold
<1> USE DEF WillBeTold, Noticed
<1>a. Transfers \cup Confirms \subseteq Starters /\ Presses \cup Confirms \subseteq Callers
  BY DEF Starters, Callers
(* The same jobs are watched, so the one that runs was noticed.            *)
<1>b. ASSUME latch, current' = current, starter' = starter PROVE Noticed(current)
  BY <1>b DEF WatchedJobTold, Watched
<1>1. CASE UNCHANGED <<latch, current, told, call, starter>>
  BY <1>1, <1>b
<1>2. ASSUME NEW c \in Callers, Look(c) PROVE Told
  <2>1. /\ latch /\ current' = current /\ told' = told /\ starter' = starter
        /\ call[c].at = "look" /\ current # NoProcess
        /\ call' = [call EXCEPT ![c] = [at |-> "write", job |-> current]]
    BY <1>2 DEF Look, NothingRuns
  <2>2. call'[c] = [at |-> "write", job |-> current]
    BY <2>1 DEF DeliveryTypeOK
  <2> QED BY <2>1, <2>2
<1>3. ASSUME NEW c \in Callers, Write(c) PROVE Told
  <2>1. /\ latch /\ current' = current /\ starter' = starter
        /\ told' = told \cup {call[c].job} /\ call[c].at = "write"
        /\ call' = [call EXCEPT ![c].at = "check"]
    BY <1>3 DEF Write
  <2>2. \A d \in Callers : d # c => call'[d] = call[d]
    BY <2>1 DEF DeliveryTypeOK
  <2> QED BY <2>1, <2>2, <1>a, <1>b
<1>4. ASSUME NEW c \in Callers, Check(c) PROVE Told
  <2>1. /\ latch /\ current' = current /\ starter' = starter /\ told' = told
        /\ call[c].at = "check" /\ call' = [call EXCEPT ![c].at = "done"]
    BY <1>4 DEF Check
  <2>2. \A d \in Callers : d # c => call'[d] = call[d]
    BY <2>1 DEF DeliveryTypeOK
  <2> QED BY <2>1, <2>2, <1>a, <1>b
<1>5. ASSUME NEW p \in Presses, Press(p) \/ StopGoal(p) PROVE Told
  <2>1. PICK at \in {"goals", "look"} : call' = [call EXCEPT ![p].at = at]
    BY <1>5 DEF Press, StopGoal
  <2>2. p \in DOMAIN call /\ "at" \in DOMAIN call[p]
    BY DEF DeliveryTypeOK, Callers
  <2>3. call'[p].at \in {"goals", "look"}
    BY <2>1, <2>2
  <2> QED BY <2>3
<1>c. jobs + 1 # NoProcess /\ (jobs < MaxJobs => jobs + 1 \in Jobs)
  BY DeliveryBounds, DeliveryNames DEF DeliveryTypeOK, Jobs
<1>6. ASSUME NEW s \in Starters, StartJob(s) PROVE Told
  <2>1. /\ current' = jobs + 1 /\ jobs + 1 \in Jobs
        /\ starter' = [starter EXCEPT ![s] = [at |-> "started", job |-> jobs + 1]]
    BY <1>6, <1>c DEF StartJob, Spawned
  <2>2. \A r \in Starters : r # s => starter'[r] = starter[r]
    BY <2>1 DEF DeliveryTypeOK
  <2>3. \A r \in Starters : starter[r].job # jobs + 1
    BY <2>1, DeliveryBounds DEF Known, DeliveryTypeOK, Jobs
  <2>4. s \in Transfers \cup Confirms
    BY <2>1, <2>2, <2>3, <1>a DEF Watched
  <2>5. starter'[s] = [at |-> "started", job |-> current']
    BY <2>1 DEF DeliveryTypeOK
  <2> QED BY <2>4, <2>5
<1>7. ASSUME NEW s \in Starters, NEW at, Moves(s, at), UNCHANGED <<latch, current, told, call>>,
             \/ starter[s].at # "started" \/ starter[s].job # current
             \/ s \notin Transfers \cup Confirms
      PROVE  Told
  <2>1. \A r \in Starters : r # s => starter'[r] = starter[r]
    BY <1>7 DEF Moves, DeliveryTypeOK
  <2>2. \A r \in Starters : starter'[r].job = starter[r].job
    BY <1>7 DEF Moves, DeliveryTypeOK
  <2>3. Noticed(current)
    BY <2>2, <1>7, <1>a DEF WatchedJobTold, Watched
  <2> QED BY <1>7, <1>a, <2>1, <2>3
<1>8. ASSUME NEW s \in Starters, CheckLatch(s) \/ StartRefused(s) PROVE Told
  <2>1. starter[s].at # "started" /\ UNCHANGED <<latch, current, told, call>>
    BY <1>8 DEF CheckLatch, StartRefused
  <2>2. \E at : Moves(s, at)
    BY <1>8 DEF CheckLatch, StartRefused
  <2> QED BY <1>7, <2>1, <2>2
<1>9. ASSUME NEW t \in Transfers, Transfer(t) PROVE Told
  <2>0. t \in Starters /\ t \in Callers
    BY DEF Starters, Callers
  <2>1. CASE Execute(t)
    BY <2>0, <2>1, <1>7 DEF Execute
  <2>2. CASE TransferEnds(t)
    BY <2>0, <2>2, <1>7 DEF TransferEnds
  <2>3. CASE Poll(t)
    <3>1. starter'[t] = [at |-> "started", job |-> current'] /\ t \in Transfers
      BY <2>0, <2>3 DEF Poll, DeliveryTypeOK
    <3> QED BY <3>1
  <2> QED BY <1>9, <2>1, <2>2, <2>3 DEF Transfer
<1>10. ASSUME NEW c \in Confirms, Recheck(c) PROVE Told
  <2>1. c \in Starters /\ c \in Callers
    BY <1>a
  <2>2. CASE latch
    <3>1. call'[c].at = "look"
      BY <1>10, <2>1, <2>2 DEF Recheck, StoppedMeanwhile, DeliveryTypeOK
    <3> QED BY <3>1
  <2>3. CASE ~latch
    BY <1>10, <2>3 DEF Recheck
  <2> QED BY <2>2, <2>3
<1>11. ASSUME NEW s \in Spots, SpotAnswers(s) PROVE Told
  <2>1. s \in Starters /\ s \notin Transfers \cup Confirms
    BY DeliveryNames DEF Starters
  <2> QED BY <1>11, <2>1, <1>7 DEF SpotAnswers
<1>12. CASE ReleaseStop
  BY <1>12, Zenon DEF ReleaseStop
<1>13. ASSUME NEW j \in Jobs, End(j) PROVE FALSE
  BY <1>13 DEF End
<1>14. CASE GoalStep
  <2>1. current' = jobs + 1 /\ jobs + 1 \in Jobs /\ starter' = starter
    BY <1>14, <1>c DEF GoalStep, Spawned
  <2>2. \A r \in Starters : starter[r].job # jobs + 1
    BY <2>1, DeliveryBounds DEF Known, DeliveryTypeOK, Jobs
  <2> QED BY <2>1, <2>2, <1>a DEF Watched
<1> QED
  BY <1>1, <1>2, <1>3, <1>4, <1>5, <1>6, <1>8, <1>9, <1>10, <1>11, <1>12, <1>13, <1>14
  DEF DeliveryNext, Process, SetSince, PrintMark, See, Request, LookAgain, WriteAgain,
      Deliver, StartSequence, Goal, GoalCheckLatch, GoalConfirm, GoalEnds, deliveryVars

(* The stop delivery's state has its types, whatever the numbers.          *)
THEOREM DeliveryTypeCorrect == DeliverySpec => []DeliveryTypeOK
<1>1. DeliveryInit => DeliveryTypeOK /\ Aimed
  BY InitDelivery DEF DeliveryInv
<1>2. DeliveryTypeOK /\ Aimed /\ [DeliveryNext]_deliveryVars => (DeliveryTypeOK /\ Aimed)'
  BY NextDeliveryType, NextAimed
<1> QED BY <1>1, <1>2, PTL DEF DeliverySpec

(* Under the latch no job of a transfer or a confirmed card runs           *)
(* unnoticed: the poll of execute_transfer and the second look of          *)
(* confirm_response close the window between look and start.               *)
THEOREM JobsAreTold == DeliverySpec => []WatchedJobTold
<1>1. DeliveryInv /\ [DeliveryNext]_deliveryVars => DeliveryInv'
  BY NextDeliveryType, NextAimed, NextKnown, NextTold DEF DeliveryInv
<1>2. DeliveryInv => WatchedJobTold
  BY DEF DeliveryInv
<1> QED BY InitDelivery, <1>1, <1>2, PTL DEF DeliverySpec
=============================================================================
