---------------------------- MODULE StopDelivery ----------------------------
(***************************************************************************)
(* How a global stop reaches a simulation job that is a process of its     *)
(* own.  The server cannot cancel its motion: it writes a request file     *)
(* (server/sim_demo_jobs.py, request_stop), and the script counts only the *)
(* requests written after it set its own start time                        *)
(* (scripts/demo_workcell_pick_place.py, ExternalStopRequest).  A thread   *)
(* of the server writes the request again until the script's console shows *)
(* that it counts.                                                         *)
(*                                                                         *)
(* A global stop sets the latch of server/api.py first and delivers then.  *)
(* The jobs are started by threads that looked at the latch before: a      *)
(* transfer of an execution (sim_pick_place.execute_transfer), a confirmed *)
(* card (routes/sim_demo.py), a confirmed card for a free spot, and the    *)
(* steps of a goal (sim_demo_goals.py).                                    *)
(*                                                                         *)
(* A definition named Mutant_... is a wrong variant of the one after it.   *)
(* No specification uses it; it shows what the properties can tell apart.  *)
(***************************************************************************)
EXTENDS Naturals, FiniteSets

CONSTANTS
    Presses,        \* calls of stop(): one press of the button each
    Transfers,      \* executions that run one transfer each
    Confirms,       \* confirmations of a card, for a job that is not a spot
    Spots,          \* confirmations of a card for a free spot
    GoalSteps,      \* steps of the one goal; 0 when there is none
    MaxJobs,        \* bound on the jobs started
    NoProcess

Jobs == 1..MaxJobs
Callers == Presses \cup Transfers \cup Confirms     \* they call request_stop
Starters == Transfers \cup Confirms \cup Spots

ASSUME DeliveryBounds == GoalSteps \in Nat /\ MaxJobs \in Nat
ASSUME DeliveryNames ==
    /\ Presses \cap Starters = {}
    /\ Transfers \cap (Confirms \cup Spots) = {} /\ Confirms \cap Spots = {}
    /\ NoProcess \notin Nat

VARIABLES
    latch,          \* api._stop_requested
    jobs,           \* number of jobs started
    current,        \* the job whose process runs, or None
    phase,          \* how far the process of each job is
    seen,           \* jobs whose process found a request that counts
    file,           \* the request file: "none", "old" or "new" to the process
    told,           \* jobs with stop_requested set
    call,           \* call of request_stop (of stop() for a press) per caller
    again,          \* the thread _reassert_stop that call started
    starter,        \* the thread that starts a job
    goalStatus,     \* status of the goal
    step            \* steps of the goal that were started

deliveryVars == <<latch, jobs, current, phase, seen, file, told, call, again, starter,
          goalStatus, step>>

Phases == {"unborn", "spawned", "counting", "marked", "ended"}

DeliveryTypeOK ==
    /\ latch \in BOOLEAN
    /\ jobs \in 0..MaxJobs
    /\ current \in Jobs \cup {NoProcess}
    /\ phase \in [Jobs -> Phases]
    /\ seen \subseteq Jobs /\ told \subseteq Jobs
    /\ file \in {"none", "old", "new"}
    /\ call \in [Callers -> [at : {"idle", "goals", "look", "write", "check", "done"},
                             job : Jobs \cup {NoProcess}]]
    /\ again \in [Callers -> [at : {"none", "look", "write"},
                              job : Jobs \cup {NoProcess}, armed : BOOLEAN]]
    /\ starter \in [Starters -> [at : {"idle", "reserved", "checked", "started", "done"},
                                 job : Jobs \cup {NoProcess}]]
    /\ goalStatus \in {"none", "planned", "checked", "running", "stopping", "done"}
    /\ step \in 0..GoalSteps

DeliveryInit ==
    /\ latch = FALSE
    /\ jobs = 0 /\ current = NoProcess /\ phase = [j \in Jobs |-> "unborn"]
    /\ seen = {} /\ told = {} /\ file = "none"
    /\ call = [c \in Callers |-> [at |-> "idle", job |-> NoProcess]]
    /\ again = [c \in Callers |-> [at |-> "none", job |-> NoProcess, armed |-> FALSE]]
    /\ starter = [s \in Starters |-> [at |-> "idle", job |-> NoProcess]]
    /\ goalStatus = IF GoalSteps = 0 THEN "none" ELSE "planned"
    /\ step = 0

GoalActive == goalStatus \in {"running", "stopping"}
TransferActive(t) == starter[t].at \in {"reserved", "checked", "started"}

(* The runner refuses a job outside the goal that has the cell reserved.   *)
Reserved == GoalActive \/ \E t \in Transfers : TransferActive(t)

(* The script is spawned; the checks of start() are those of SimDemoJobs.  *)
Spawned ==
    /\ current = NoProcess
    /\ jobs < MaxJobs
    /\ jobs' = jobs + 1
    /\ current' = jobs + 1
    /\ phase' = [phase EXCEPT ![jobs + 1] = "spawned"]

-----------------------------------------------------------------------------
(* The script's process.                                                   *)

(* EXTERNAL_STOP.since = time.time(): what was written before is old.      *)
SetSince(j) ==
    /\ phase[j] = "spawned"
    /\ phase' = [phase EXCEPT ![j] = "counting"]
    /\ file' = IF file = "new" THEN "old" ELSE file
    /\ UNCHANGED <<latch, jobs, current, seen, told, call, again, starter, goalStatus,
                   step>>

(* The console shows EXECUTOR_ARMED_MARK.                                  *)
PrintMark(j) ==
    /\ phase[j] = "counting"
    /\ phase' = [phase EXCEPT ![j] = "marked"]
    /\ UNCHANGED <<latch, jobs, current, seen, file, told, call, again, starter, goalStatus,
                   step>>

(* ExternalStopRequest.requested(), polled while the robot moves.          *)
See(j) ==
    /\ phase[j] = "marked"
    /\ file = "new"
    /\ seen' = seen \cup {j}
    /\ UNCHANGED <<latch, jobs, current, phase, file, told, call, again, starter, goalStatus,
                   step>>

(* The script ends, after a stop (which consumes its request, unless a     *)
(* newer one is there) or by itself.                                       *)
End(j) ==
    /\ phase[j] \in {"spawned", "counting", "marked"}
    /\ phase' = [phase EXCEPT ![j] = "ended"]
    /\ current' = NoProcess
    /\ file' \in IF j \in seen THEN {file, "none"} ELSE {file}
    /\ UNCHANGED <<latch, jobs, seen, told, call, again, starter, goalStatus, step>>

-----------------------------------------------------------------------------
(* request_stop() and _reassert_stop()                                     *)

(* running(): waits for the runner's lock, so a job being launched is seen.*)
NothingRuns == current = NoProcess

Look(c) ==
    /\ call[c].at = "look"
    /\ call' = [call EXCEPT ![c] =
                  IF NothingRuns
                     THEN [at |-> IF c \in Transfers THEN "idle" ELSE "done",
                           job |-> NoProcess]
                     ELSE [at |-> "write", job |-> current]]
    /\ UNCHANGED <<latch, jobs, current, phase, seen, file, told, again, starter, goalStatus,
                   step>>

(* _write_stop_request: the file is replaced, whoever wrote it before.     *)
Write(c) ==
    /\ call[c].at = "write"
    /\ file' = "new"
    /\ told' = told \cup {call[c].job}
    /\ call' = [call EXCEPT ![c].at = "check"]
    /\ UNCHANGED <<latch, jobs, current, phase, seen, again, starter, goalStatus, step>>

(* _executor_armed: the mark is in the console of the job.                 *)
Armed(j) == phase[j] \in {"marked", "ended"}

(* After the write: a script that shows the mark is taken to have counted  *)
(* the request.                                                            *)
Check(c) ==
    /\ call[c].at = "check"
    /\ call' = [call EXCEPT ![c].at = "done"]
    /\ again' = IF Armed(call[c].job) THEN again
                ELSE [again EXCEPT ![c] = [at |-> "look", job |-> call[c].job,
                                           armed |-> FALSE]]
    /\ UNCHANGED <<latch, jobs, current, phase, seen, file, told, starter, goalStatus, step>>

(* The thread reads the mark before it writes, and ends with the job.      *)
LookAgain(c) ==
    /\ again[c].at = "look"
    /\ again' = [again EXCEPT ![c] =
                   IF current = again[c].job
                      THEN [@ EXCEPT !.at = "write", !.armed = Armed(again[c].job)]
                      ELSE [@ EXCEPT !.at = "none"]]
    /\ UNCHANGED <<latch, jobs, current, phase, seen, file, told, call, starter, goalStatus,
                   step>>

Mutant_NoLastWrite(c) == TRUE
LastWrite(c) == again[c].armed

WriteAgain(c) ==
    /\ again[c].at = "write"
    /\ file' = "new"
    /\ again' = [again EXCEPT ![c].at = IF LastWrite(c) THEN "none" ELSE "look"]
    /\ UNCHANGED <<latch, jobs, current, phase, seen, told, call, starter, goalStatus, step>>

-----------------------------------------------------------------------------
(* stop() and release_stop()                                               *)

(* The latch first, then the delivery.                                     *)
Press(p) ==
    /\ call[p].at = "idle"
    /\ latch' = TRUE
    /\ call' = [call EXCEPT ![p].at = "goals"]
    /\ UNCHANGED <<jobs, current, phase, seen, file, told, again, starter, goalStatus, step>>

(* goals.request_stop(): an active goal starts no further step.            *)
StopGoal(p) ==
    /\ call[p].at = "goals"
    /\ goalStatus' = IF GoalActive THEN "stopping" ELSE goalStatus
    /\ call' = [call EXCEPT ![p].at = "look"]
    /\ UNCHANGED <<latch, jobs, current, phase, seen, file, told, again, starter, step>>

(* Refused while an execution is registered or a job runs.                 *)
ReleaseStop ==
    /\ latch
    /\ \A t \in Transfers : ~TransferActive(t)
    /\ current = NoProcess
    /\ latch' = FALSE
    /\ UNCHANGED <<jobs, current, phase, seen, file, told, call, again, starter, goalStatus,
                   step>>

-----------------------------------------------------------------------------
(* The threads that start jobs.                                            *)

Moves(s, at) == starter' = [starter EXCEPT ![s].at = at]

(* execute(): the cell is reserved, the execution is registered.           *)
Execute(t) ==
    /\ starter[t].at = "idle"
    /\ ~Reserved /\ current = NoProcess
    /\ Moves(t, "reserved")
    /\ UNCHANGED <<latch, jobs, current, phase, seen, file, told, call, again, goalStatus,
                   step>>

(* The confirmations are answered one at a time (_SERIAL, one worker).      *)
SerialFree ==
    /\ \A s \in Confirms \cup Spots : starter[s].at \in {"idle", "done"}
    /\ \A c \in Confirms : call[c].at \in {"idle", "done"}

(* The latch is looked at: interruption(), or _stop_latched of the route.  *)
CheckLatch(s) ==
    /\ IF s \in Transfers THEN starter[s].at = "reserved"
                         ELSE starter[s].at = "idle" /\ SerialFree
    /\ Moves(s, IF latch THEN "done" ELSE "checked")
    /\ UNCHANGED <<latch, jobs, current, phase, seen, file, told, call, again, goalStatus,
                   step>>

StartJob(s) ==
    /\ starter[s].at = "checked"
    /\ s \in Transfers \/ ~Reserved
    /\ Spawned
    /\ starter' = [starter EXCEPT ![s] = [at |-> "started", job |-> jobs + 1]]
    /\ UNCHANGED <<latch, seen, file, told, call, again, goalStatus, step>>

(* start() refuses: another job runs, or the cell is reserved.             *)
StartRefused(s) ==
    /\ starter[s].at = "checked"
    /\ current # NoProcess \/ (s \notin Transfers /\ Reserved)
    /\ Moves(s, "done")
    /\ UNCHANGED <<latch, jobs, current, phase, seen, file, told, call, again, goalStatus,
                   step>>

(* The loop of execute_transfer: the stop is requested once.               *)
Interrupted(t) == latch /\ call[t].at = "idle"

Poll(t) ==
    /\ starter[t].at = "started"
    /\ current = starter[t].job
    /\ Interrupted(t)
    /\ call' = [call EXCEPT ![t].at = "look"]
    /\ UNCHANGED <<latch, jobs, current, phase, seen, file, told, again, starter, goalStatus,
                   step>>

TransferEnds(t) ==
    /\ starter[t].at = "started"
    /\ current # starter[t].job
    /\ call[t].at \in {"idle", "done"}
    /\ Moves(t, "done")
    /\ UNCHANGED <<latch, jobs, current, phase, seen, file, told, call, again, goalStatus,
                   step>>

(* The confirmation of a card looks at the latch once more.                *)
Mutant_NoRecheck(c) == FALSE
StoppedMeanwhile(c) == latch

Recheck(c) ==
    /\ starter[c].at = "started"
    /\ Moves(c, "done")
    /\ call' = IF StoppedMeanwhile(c) THEN [call EXCEPT ![c].at = "look"] ELSE call
    /\ UNCHANGED <<latch, jobs, current, phase, seen, file, told, again, goalStatus, step>>

(* The one for a free spot answers at once.                                *)
SpotAnswers(s) ==
    /\ starter[s].at = "started"
    /\ Moves(s, "done")
    /\ UNCHANGED <<latch, jobs, current, phase, seen, file, told, call, again, goalStatus,
                   step>>

(* The route refuses under the latch, then confirm() takes the goal's lock.*)
GoalCheckLatch ==
    /\ goalStatus = "planned"
    /\ ~latch
    /\ goalStatus' = "checked"
    /\ UNCHANGED <<latch, jobs, current, phase, seen, file, told, call, again, starter,
                   step>>

GoalConfirm ==
    /\ goalStatus = "checked"
    /\ goalStatus' = IF current = NoProcess /\ ~Reserved THEN "running" ELSE "planned"
    /\ UNCHANGED <<latch, jobs, current, phase, seen, file, told, call, again, starter,
                   step>>

(* run() starts the next step under the lock that request_stop needs.      *)
GoalStep ==
    /\ goalStatus = "running"
    /\ step < GoalSteps
    /\ Spawned
    /\ step' = step + 1
    /\ UNCHANGED <<latch, seen, file, told, call, again, starter, goalStatus>>

(* After the last step, a stop or a step that failed.                      *)
GoalEnds ==
    /\ GoalActive
    /\ current = NoProcess
    /\ step > 0 \/ goalStatus = "stopping"
    /\ goalStatus' = "done"
    /\ UNCHANGED <<latch, jobs, current, phase, seen, file, told, call, again, starter,
                   step>>

-----------------------------------------------------------------------------

Process(j) == SetSince(j) \/ PrintMark(j) \/ See(j)
Request(c) == Look(c) \/ Write(c) \/ Check(c) \/ LookAgain(c) \/ WriteAgain(c)
Deliver(p) == StopGoal(p)
Transfer(t) == Execute(t) \/ Poll(t) \/ TransferEnds(t)
StartSequence(s) == CheckLatch(s) \/ StartJob(s) \/ StartRefused(s)
Goal == GoalCheckLatch \/ GoalConfirm \/ GoalStep \/ GoalEnds

DeliveryNext ==
    \/ \E j \in Jobs : Process(j) \/ End(j)
    \/ \E c \in Callers : Request(c)
    \/ \E p \in Presses : Press(p) \/ Deliver(p)
    \/ ReleaseStop
    \/ \E s \in Starters : StartSequence(s)
    \/ \E t \in Transfers : Transfer(t)
    \/ \E c \in Confirms : Recheck(c)
    \/ \E s \in Spots : SpotAnswers(s)
    \/ Goal

DeliverySpec == DeliveryInit /\ [][DeliveryNext]_deliveryVars

(* The script boots and polls, and the server's threads go on.  That a     *)
(* script ends by itself, or that anybody starts a job or presses the      *)
(* button, is not assumed.                                                 *)
DeliveryFairSpec ==
    /\ DeliverySpec
    /\ \A j \in Jobs : WF_deliveryVars(Process(j))
    /\ \A c \in Callers :
          /\ WF_deliveryVars(Look(c) \/ Write(c) \/ Check(c))
          /\ WF_deliveryVars(LookAgain(c) \/ WriteAgain(c))
    /\ \A p \in Presses : WF_deliveryVars(Deliver(p))
    /\ \A t \in Transfers : WF_deliveryVars(Poll(t))
    /\ \A c \in Confirms : WF_deliveryVars(Recheck(c))

-----------------------------------------------------------------------------

(* Somebody is on the way to request the stop of the job that runs.        *)
WillBeTold(j) ==
    \/ \E p \in Presses : call[p].at \in {"goals", "look"}
    \/ \E c \in Callers : call[c] = [at |-> "write", job |-> j]
    \/ \E c \in Confirms : call[c].at = "look"
    \/ \E s \in Transfers \cup Confirms : starter[s] = [at |-> "started", job |-> j]

(* The jobs of the two starters that look again: execute_transfer polls,   *)
(* and confirm_response rechecks.                                          *)
Watched(j) == \E s \in Transfers \cup Confirms : starter[s].job = j

Noticed(j) == j \in told \/ WillBeTold(j)

(* Under the latch no watched job runs unnoticed, whatever spots and goals *)
(* start around it: its stop was requested, or the call that delivers the  *)
(* stop or the thread that started the job has yet to do it.               *)
WatchedJobTold ==
    latch /\ current # NoProcess /\ Watched(current) => Noticed(current)

(* A stop that is repeated by _reassert_stop reaches the script.           *)
ReassertDelivers ==
    \A j \in Jobs :
        (\E c \in Callers : again[c].at # "none" /\ again[c].job = j)
            ~> (j \in seen \/ phase[j] = "ended")

(* Stated by the code and not kept by it (see the README's findings).      *)

(* No job at all runs unnoticed under the latch.                           *)
EveryJobTold == latch /\ current # NoProcess => Noticed(current)

(* A stop that was requested reaches the script.                           *)
StopIsSeen == \A j \in Jobs : (j \in told) ~> (j \in seen \/ phase[j] = "ended")
=============================================================================
