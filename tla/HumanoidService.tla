--------------------------- MODULE HumanoidService ---------------------------
(***************************************************************************)
(* The walks of the G1: server/humanoid_service.py turns a command into a  *)
(* card, a confirmed card into a job with a thread of its own, and the     *)
(* thread sends its legs over robots/g1_gazebo/bridge.py to the controller *)
(* of humanoid/g1/nav_controller.py, a process that takes them from a      *)
(* queue and tells its status ten times a second.                          *)
(*                                                                         *)
(* command(), confirm() and stop() come one at a time from the event loop; *)
(* the threads of the jobs and the controller run beside them.  Where the  *)
(* robot stands is left out but for its arrival at a goal.  A card has the *)
(* number of the job that it becomes.                                      *)
(*                                                                         *)
(* A definition named Mutant_... is a wrong variant of the one after it.   *)
(* No specification uses it; it shows what the properties can tell apart.  *)
(***************************************************************************)
EXTENDS Naturals, Sequences, FiniteSets

CONSTANTS
    Sessions,       \* sessions that command the G1
    Walked,         \* sessions with a walk behind them
    Intents,        \* what they ask for
    MaxJobs,        \* bound on the jobs ever started
    MaxStops,       \* bound on the calls of stop()
    MaxStarts,      \* starting points the controller remembers
    MaxFaults,      \* bound on stops at the line, falls and deaths
    None

Jobs == 1..MaxJobs
StepKinds == {"save_start", "goto", "return"}

ASSUME BoundsAssumption ==
    MaxJobs \in Nat /\ MaxStops \in Nat /\ MaxFaults \in Nat /\ MaxStarts \in Nat \ {0}
ASSUME WalkedAssumption == Walked \subseteq Sessions
ASSUME IntentsAssumption == Intents \subseteq {"goto", "tag", "return"}
ASSUME NoneAssumption == None \notin Nat \cup Sessions \cup (Jobs \X (1..3))

VARIABLES
    work,           \* what a card offers: its session, its steps, the start it returns to
    pending,        \* the cards that wait for a confirmation
    lastStart,      \* contexts[s]["last_start"]
    running,        \* running
    thread,         \* the threads in _run
    status,         \* job["status"]
    told,           \* jobs of threads whose stop event is set
    request,        \* where the event loop is in stop()
    stops,          \* calls of stop() so far
    commands,       \* the queue of the controller
    ctl,            \* the controller
    saves,          \* starting points saved so far
    seen,           \* the last status the bridge received
    fresh,          \* it came within the last second and the time in it advances
    faults          \* faults so far

vars == <<work, pending, lastStart, running, thread, status, told, request, stops, commands,
          ctl, saves, seen, fresh, faults>>

Legs == Jobs \X (1..3)

NoWork == [session |-> None, steps |-> << >>, start |-> None]
NoThread == [at |-> "none", k |-> 1, start |-> None, claimed |-> None]
(* The reactions are the last ten; only that of the last leg is         *)
(* looked for, before the next leg is sent.                                *)
NoReactionYet == [leg |-> None, ok |-> FALSE, start |-> None]
Standing == [up |-> TRUE, mode |-> "stand", goal |-> None, start |-> None, raced |-> FALSE,
             arrived |-> None, starts |-> {}, reaction |-> NoReactionYet]

(* What the status tells.                                                  *)
Shown(robot) == [mode |-> robot.mode, goal |-> robot.goal, arrived |-> robot.arrived,
                 reaction |-> robot.reaction]

Init ==
    /\ work = [j \in Jobs |-> NoWork]
    /\ pending = {}
    /\ lastStart = [s \in Sessions |-> IF s \in Walked THEN 1 ELSE None]
    /\ running = None
    /\ thread = [j \in Jobs |-> NoThread]
    /\ status = [j \in Jobs |-> "none"]
    /\ told = {}
    /\ request = "idle" /\ stops = 0
    /\ commands = << >>
    /\ ctl = [Standing EXCEPT !.starts = {1}]
    /\ saves = 1
    /\ seen = Shown(Standing)
    /\ fresh = TRUE
    /\ faults = 0

Min(S) == CHOOSE n \in S : \A m \in S : n <= m

-----------------------------------------------------------------------------
(* The event loop.                                                         *)

(* health()["ready"]: the status is recent and the robot has not fallen.   *)
Ready == fresh /\ seen.mode # "fallen"

Steps(intent) ==
    CASE intent = "goto" -> <<"save_start", "goto">>
      [] intent = "tag" -> <<"save_start", "goto", "return">>
      [] intent = "return" -> <<"return">>

(* What a new card leaves of the old ones: not those of its session.  An   *)
(* expired card is refused when it is confirmed, so it is gone as soon as  *)
(* it expires (Expire).                                                    *)
Mutant_Others(s) == pending
Others(s) == {c \in pending : work[c].session # s}

(* What a card that is gone offered is forgotten.                          *)
Kept(cards) == [j \in Jobs |-> IF j \in cards \/ j = running THEN work[j] ELSE NoWork]

Idle == running = None

(* command() to its card.  Its other answers (ask, block, already there)   *)
(* change nothing.                                                         *)
Command(s, intent) ==
    LET new == {j \in Jobs : j \notin Others(s) /\ status[j] = "none"} IN
    /\ request = "idle"
    /\ new # {}
    /\ intent = "return" => lastStart[s] # None
    /\ Ready
    /\ Idle
    /\ pending' = Others(s) \cup {Min(new)}
    /\ work' = [Kept(pending') EXCEPT ![Min(new)] =
                   [session |-> s, steps |-> Steps(intent),
                    start |-> IF intent = "return" THEN lastStart[s] ELSE None]]
    /\ UNCHANGED <<lastStart, running, thread, status, told, request, stops, commands,
                   ctl, saves, seen, fresh, faults>>

(* A card that is canceled, refused (not ready, busy) or expired.          *)
Expire(j) ==
    /\ j \in pending
    /\ pending' = pending \ {j}
    /\ work' = Kept(pending')
    /\ UNCHANGED <<lastStart, running, thread, status, told, request, stops, commands,
                   ctl, saves, seen, fresh, faults>>

Confirm(j) ==
    /\ request = "idle"
    /\ j \in pending
    /\ Ready
    /\ Idle
    /\ pending' = pending \ {j}
    /\ running' = j
    /\ status' = [status EXCEPT ![j] = "running"]
    /\ thread' = [thread EXCEPT ![j].at = "check"]
    /\ UNCHANGED <<work, lastStart, told, request, stops, commands, ctl, saves, seen, fresh,
                   faults>>

(* A command published while the controller is down reaches nobody.        *)
Published(c) == IF ctl.up THEN Append(commands, c) ELSE commands

StopCommand(j) == [kind |-> "stop", leg |-> <<j, 0>>, start |-> None, raced |-> FALSE]

(* stop() sends its command before it looks for the job to tell.           *)
StopSend ==
    /\ request = "idle" /\ stops < MaxStops
    /\ stops' = stops + 1
    /\ request' = "sent"
    /\ commands' = Published(StopCommand(0))
    /\ UNCHANGED <<work, pending, lastStart, running, thread, status, told, ctl, saves, seen,
                   fresh, faults>>

Told == IF running = None THEN told ELSE told \cup {running}

(* What follows, up to two seconds for the reaction, is only told.         *)
StopTell(s) ==
    /\ request = "sent"
    /\ request' = "idle"
    /\ told' = Told
    /\ pending' = Others(s)
    /\ work' = Kept(pending')
    /\ UNCHANGED <<lastStart, running, thread, status, stops, commands, ctl, saves, seen,
                   fresh, faults>>

-----------------------------------------------------------------------------
(* The thread of a job.                                                    *)

Go(j, at) == thread' = [thread EXCEPT ![j].at = at]
JobUnchanged == UNCHANGED <<pending, request, stops, ctl, saves, seen, fresh, faults>>

Step(j) == work[j].steps[thread[j].k]
Leg(j) == <<j, thread[j].k>>

(* The top of the loop over the steps.                                     *)
Halts(j) == j \in told

Check(j) ==
    /\ thread[j].at = "check"
    /\ Go(j, IF thread[j].k > Len(work[j].steps) \/ Halts(j) THEN "verdict" ELSE "send")
    /\ UNCHANGED <<work, lastStart, running, status, told, commands>>
    /\ JobUnchanged

(* The start a return goes to: the one this job saved, or the card's.      *)
StartOf(j) == IF thread[j].start # None THEN thread[j].start ELSE work[j].start

(* raced is history: the leg goes out when a stop has gone out already.    *)
SendLeg(j) ==
    /\ thread[j].at = "send"
    /\ Go(j, "react")
    /\ commands' = Published([kind |-> Step(j), leg |-> Leg(j),
                              start |-> IF Step(j) = "return" THEN StartOf(j) ELSE None,
                              raced |-> request = "sent" \/ j \in told])
    /\ UNCHANGED <<work, lastStart, running, status, told>>
    /\ JobUnchanged

(* reaction(): the controller's record of the command in its last status.  *)
Answered(j) == seen.reaction.leg = Leg(j)
Accepted(j) == Answered(j) /\ seen.reaction.ok

Saved(j) ==
    /\ thread[j].at = "react" /\ Step(j) = "save_start"
    /\ Accepted(j)
    /\ thread' = [thread EXCEPT ![j] = [NoThread EXCEPT !.at = "check", !.k = thread[j].k + 1,
                                                        !.start = seen.reaction.start]]
    /\ lastStart' = [lastStart EXCEPT ![work[j].session] = seen.reaction.start]
    /\ UNCHANGED <<work, running, status, told, commands>>
    /\ JobUnchanged

Applied(j) ==
    /\ thread[j].at = "react" /\ Step(j) # "save_start"
    /\ Accepted(j)
    /\ Go(j, "wait")
    /\ UNCHANGED <<work, lastStart, running, status, told, commands>>
    /\ JobUnchanged

(* Refused, or no record of it within three seconds.                       *)
NoReaction(j) ==
    /\ thread[j].at = "react"
    /\ ~Accepted(j)
    /\ status' = [status EXCEPT ![j] = "failed"]
    /\ Go(j, "clean")
    /\ UNCHANGED <<work, lastStart, running, told, commands>>
    /\ JobUnchanged

(* _wait_arrival: one turn of its loop each, in the order of its tests.    *)
WaitStopped(j) ==
    /\ thread[j].at = "wait"
    /\ j \in told
    /\ Go(j, "verdict")
    /\ UNCHANGED <<work, lastStart, running, status, told, commands>>
    /\ JobUnchanged

(* Not ready, or at any time the sixty seconds of the simulation are over. *)
WaitFails(j) ==
    /\ thread[j].at = "wait"
    /\ j \notin told
    /\ Go(j, "verdict")
    /\ UNCHANGED <<work, lastStart, running, status, told, commands>>
    /\ JobUnchanged

(* The goals of all returns are called "start".                            *)
GoalName(j, k) == IF work[j].steps[k] = "return" THEN "start" ELSE "point"

(* The status tells of an arrival at a goal of this leg's name.            *)
SeesArrival(j) ==
    /\ seen.arrived # None /\ seen.goal # None
    /\ GoalName(seen.goal[1], seen.goal[2]) = GoalName(j, thread[j].k)

Claim(j) ==
    /\ thread[j].at = "wait"
    /\ j \notin told /\ Ready
    /\ thread[j].claimed = None
    /\ SeesArrival(j)
    /\ thread' = [thread EXCEPT ![j].claimed = seen.arrived]
    /\ UNCHANGED <<work, lastStart, running, status, told, commands>>
    /\ JobUnchanged

(* A second after the arrival: the poses observed since then were all      *)
(* inside the tolerance, or one was not.                                   *)
Verify(j) ==
    /\ thread[j].at = "wait"
    /\ j \notin told /\ Ready
    /\ thread[j].claimed # None
    /\ \/ thread' = [thread EXCEPT ![j] = [NoThread EXCEPT !.at = "check",
                            !.k = thread[j].k + 1, !.start = thread[j].start]]
       \/ Go(j, "verdict")
    /\ UNCHANGED <<work, lastStart, running, status, told, commands>>
    /\ JobUnchanged

(* running is given back in the finally clause only, behind the closing    *)
(* stop.                                                                   *)
Mutant_RunningAtVerdict(j) == None
RunningAtVerdict(j) == running

Verdict(j) ==
    LET result == IF j \in told THEN "stopped"
                  ELSE IF thread[j].k > Len(work[j].steps) THEN "completed" ELSE "failed" IN
    /\ thread[j].at = "verdict"
    /\ status' = [status EXCEPT ![j] = result]
    /\ running' = RunningAtVerdict(j)
    /\ Go(j, IF result = "failed" THEN "clean" ELSE "finish")
    /\ UNCHANGED <<work, lastStart, told, commands>>
    /\ JobUnchanged

(* A failed job leaves no goal behind.                                     *)
Mutant_Closed(j) == commands
Closed(j) == Published(StopCommand(j))

Clean(j) ==
    /\ thread[j].at = "clean"
    /\ commands' = Closed(j)
    /\ Go(j, "finish")
    /\ UNCHANGED <<work, lastStart, running, status, told>>
    /\ JobUnchanged

Finish(j) ==
    /\ thread[j].at = "finish"
    /\ running' = IF running = j THEN None ELSE running
    /\ thread' = [thread EXCEPT ![j] = [NoThread EXCEPT !.at = "ended"]]
    /\ told' = told \ {j}
    /\ work' = [work EXCEPT ![j] = NoWork]
    /\ UNCHANGED <<lastStart, status, commands>>
    /\ JobUnchanged

JobStep(j) ==
    \/ Check(j) \/ SendLeg(j) \/ Saved(j) \/ Applied(j) \/ NoReaction(j)
    \/ WaitStopped(j) \/ WaitFails(j) \/ Claim(j) \/ Verify(j)
    \/ Verdict(j) \/ Clean(j) \/ Finish(j)

-----------------------------------------------------------------------------
(* The controller.                                                         *)

RobotUnchanged ==
    UNCHANGED <<work, pending, lastStart, running, thread, status, told, request, stops>>

(* Navigator.set_goal and cancel; the second keeps arrived_at.             *)
Mutant_WithGoal(c) ==
    [ctl EXCEPT !.mode = "goto", !.goal = c.leg, !.start = c.start, !.raced = c.raced]
WithGoal(c) ==
    [ctl EXCEPT !.mode = "goto", !.goal = c.leg, !.start = c.start, !.raced = c.raced,
                !.arrived = None]
Mutant_Canceled(mode) == [ctl EXCEPT !.mode = mode]
Canceled(mode) == [ctl EXCEPT !.mode = mode, !.goal = None, !.start = None,
                                     !.raced = FALSE]

(* The oldest starting point is forgotten when there are too many.         *)
Remembered(starts) == IF Cardinality(starts) > MaxStarts THEN starts \ {Min(starts)} ELSE starts

Accepts(c) ==
    /\ ctl.mode # "fallen"
    /\ c.kind = "return" => c.start \in ctl.starts

(* apply_command, and its record in the reactions.                         *)
Apply ==
    LET c == Head(commands)
        Recorded(robot, start) ==
            [robot EXCEPT !.reaction = [leg |-> c.leg, ok |-> Accepts(c), start |-> start]] IN
    /\ ctl.up
    /\ commands # << >>
    /\ commands' = Tail(commands)
    /\ ctl' = CASE ~Accepts(c) /\ c.kind = "stop" -> ctl
                [] ~Accepts(c) /\ c.kind # "stop" -> Recorded(ctl, None)
                [] Accepts(c) /\ c.kind = "stop" -> Canceled("stand")
                [] Accepts(c) /\ c.kind = "save_start" ->
                      Recorded([ctl EXCEPT !.starts = Remembered(@ \cup {saves + 1})], saves + 1)
                [] Accepts(c) /\ c.kind \in {"goto", "return"} -> Recorded(WithGoal(c), None)
    /\ saves' = IF Accepts(c) /\ c.kind = "save_start" THEN saves + 1 ELSE saves
    /\ UNCHANGED <<seen, fresh, faults>>
    /\ RobotUnchanged

(* Navigator.command: the robot has walked to the goal and stayed inside   *)
(* its tolerance.                                                          *)
Arrive ==
    /\ ctl.up /\ ctl.mode = "goto" /\ ctl.goal # None
    /\ ctl.arrived = None
    /\ ctl' = [ctl EXCEPT !.arrived = ctl.goal]
    /\ UNCHANGED <<commands, saves, seen, fresh, faults>>
    /\ RobotUnchanged

(* The robot is at the line in front of the conveyor.                      *)
KeepOut ==
    /\ ctl.up /\ ctl.mode = "goto" /\ ctl.goal # None
    /\ faults < MaxFaults /\ faults' = faults + 1
    /\ ctl' = Canceled("stand")
    /\ UNCHANGED <<commands, saves, seen, fresh>>
    /\ RobotUnchanged

Fall ==
    /\ ctl.up /\ ctl.mode # "fallen"
    /\ faults < MaxFaults /\ faults' = faults + 1
    /\ ctl' = Canceled("fallen")
    /\ UNCHANGED <<commands, saves, seen, fresh>>
    /\ RobotUnchanged

(* The process ends: its queue, its goal and its starting points are gone. *)
Die ==
    /\ ctl.up
    /\ faults < MaxFaults /\ faults' = faults + 1
    /\ ctl' = [Standing EXCEPT !.up = FALSE]
    /\ commands' = << >>
    /\ UNCHANGED <<saves, seen, fresh>>
    /\ RobotUnchanged

Restart ==
    /\ ~ctl.up
    /\ ctl' = Standing
    /\ UNCHANGED <<commands, saves, seen, fresh, faults>>
    /\ RobotUnchanged

(* status() reaches the bridge; without one the last grows old.            *)
Publish ==
    /\ ctl.up
    /\ seen # Shown(ctl) \/ ~fresh
    /\ seen' = Shown(ctl)
    /\ fresh' = TRUE
    /\ UNCHANGED <<commands, ctl, saves, faults>>
    /\ RobotUnchanged

Silence ==
    /\ fresh /\ ~ctl.up
    /\ fresh' = FALSE
    /\ UNCHANGED <<commands, ctl, saves, seen, faults>>
    /\ RobotUnchanged

Controller == Apply \/ Arrive \/ KeepOut \/ Fall \/ Die \/ Restart
                \/ Publish \/ Silence

Next ==
    \/ \E s \in Sessions : \/ \E intent \in Intents : Command(s, intent)
                           \/ StopTell(s)
    \/ \E j \in Jobs : Expire(j) \/ Confirm(j) \/ JobStep(j)
    \/ StopSend
    \/ Controller

Spec == Init /\ [][Next]_vars

(* The thread of the job runs on, and with it the clock of its leg; the    *)
(* controller takes the next command while it is up.                       *)
Fairness == WF_vars(\E j \in Jobs : JobStep(j)) /\ WF_vars(Apply)

FairSpec == Spec /\ Fairness

-----------------------------------------------------------------------------
(* The values of the variables.                                            *)
Starts == Nat \ {0}
Reactions == [leg : Legs \cup {None}, ok : BOOLEAN, start : Starts \cup {None}]
Modes == {"stand", "goto", "fallen"}
Robots == [up : BOOLEAN, mode : Modes, goal : Legs \cup {None}, start : Starts \cup {None},
           raced : BOOLEAN, arrived : Legs \cup {None}, starts : SUBSET Starts,
           reaction : Reactions]

TypeOK ==
    /\ work \in [Jobs -> [session : Sessions \cup {None}, steps : Seq(StepKinds),
                          start : Starts \cup {None}]]
    /\ pending \subseteq Jobs
    /\ lastStart \in [Sessions -> Starts \cup {None}]
    /\ running \in Jobs \cup {None}
    /\ thread \in [Jobs -> [at : {"none", "check", "send", "react", "wait", "verdict", "clean",
                                   "finish", "ended"},
                            k : 1..4, start : Starts \cup {None}, claimed : Legs \cup {None}]]
    /\ status \in [Jobs -> {"none", "running", "completed", "stopped", "failed"}]
    /\ told \subseteq Jobs
    /\ request \in {"idle", "sent"} /\ stops \in Nat
    /\ commands \in Seq([kind : StepKinds \cup {"stop"}, leg : Nat \X Nat,
                          start : Starts \cup {None}, raced : BOOLEAN])
    /\ ctl \in Robots
    /\ seen \in [mode : Modes, goal : Legs \cup {None}, arrived : Legs \cup {None},
                 reaction : Reactions]
    /\ saves \in Nat /\ faults \in Nat /\ fresh \in BOOLEAN

IsReturn(leg) == work[leg[1]].steps[leg[2]] = "return"

(* A card to walk back, and the controller's goal while a job walks back,  *)
(* name the start that the session's last job saved, though cards,         *)
(* controller and session each keep a copy of their own.                   *)
ReturnsToOwnStart ==
    /\ \A c \in pending : work[c].start # None => work[c].start = lastStart[work[c].session]
    /\ ctl.goal # None /\ ctl.goal[1] = running /\ IsReturn(ctl.goal)
          => ctl.start = lastStart[work[running].session]

(* The arrival that a leg is credited with is the controller's arrival at  *)
(* the goal of that leg, not at an earlier goal of the same name.          *)
ArrivalIsThisLegs == \A j \in Jobs : thread[j].claimed \in {None, Leg(j)}

StopBehind(i) == \E n \in (i + 1)..Len(commands) : commands[n].kind = "stop"
Over(j) == status[j] \in {"stopped", "failed"} /\ thread[j].at \in {"finish", "ended"}

(* When a job was stopped or failed, every leg it sent is canceled or has  *)
(* a stop behind it, save one that was sent when the stop had gone out and *)
(* the thread had passed its look at the stop event.                       *)
OnlyRacedLegsSurvive ==
    /\ ctl.goal # None /\ Over(ctl.goal[1]) => StopBehind(0) \/ ctl.raced
    /\ \A i \in 1..Len(commands) :
          commands[i].kind \in {"goto", "return"} /\ Over(commands[i].leg[1])
             => StopBehind(i) \/ commands[i].raced

(* The closing stop of a failed job never cancels a leg of the next job.   *)
ClosingStopIsOwn ==
    \A n \in 1..Len(commands) :
       LET j == commands[n].leg[1] IN
       commands[n].kind = "stop" /\ j # 0 /\ running # None /\ running # j =>
          /\ ctl.goal # None => ctl.goal[1] # running
          /\ \A i \in 1..(n - 1) : commands[i].leg[1] # running

(* The goal of a job that was stopped or failed is canceled, unless its    *)
(* leg raced with the stop.                                                *)
GoalToCancel ==
    /\ ctl.goal # None /\ ~ctl.raced
    /\ ctl.goal[1] \in told \/ Over(ctl.goal[1])

StopTakesEffect == GoalToCancel ~> ~GoalToCancel

-----------------------------------------------------------------------------
(* What the code does not keep.                                            *)

(* No leg of a job that was stopped or failed survives it, raced or not.   *)
StoppedLeavesNothing ==
    ctl.goal # None /\ Over(ctl.goal[1]) => StopBehind(0)
==============================================================================
