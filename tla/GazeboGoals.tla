----------------------------- MODULE GazeboGoals -----------------------------
(***************************************************************************)
(* The FR3 adapter's goals: robots/fr3_gazebo/ros_transport.py tracks the  *)
(* goals the trajectory controller accepted, and robots/fr3_gazebo/        *)
(* adapter.py releases its stop latch only when none is tracked.           *)
(*                                                                         *)
(* The controller is another process: it accepts or refuses a goal, gives  *)
(* up its goal for a newer one, and ends it; acceptance and result reach   *)
(* the adapter later, each in its own time.  The worker is the thread that *)
(* executes a step; stop() and a new plan come on threads of their own.    *)
(* The transport is locked only for the list of handles.                   *)
(*                                                                         *)
(* A definition named Mutant_... is a wrong variant of the one after it.   *)
(* No specification uses it; it shows what the properties can tell apart.  *)
(***************************************************************************)
EXTENDS Naturals, FiniteSets

CONSTANTS
    MaxGoals,       \* bound on the goals ever sent
    MaxStops,       \* bound on the calls of stop()
    NoGoal

Goals == 1..MaxGoals

ASSUME GazeboBounds == MaxGoals \in Nat /\ MaxStops \in Nat
ASSUME NoGoalAssumption == NoGoal \notin Nat

VARIABLES
    sent,           \* number of goals sent
    ctl,            \* the controller's view of each goal
    heard,          \* goals whose acceptance or refusal reached the client
    givenUp,        \* goals whose answer did not come in time
    handles,        \* _handles
    worker,         \* the thread in _send
    latch,          \* StopLatch.stopped
    stopper,        \* the thread in stop(), with the handles it cancels
    stops,          \* calls of stop() so far
    resetter        \* the thread in reset_for_new_plan()

gazeboVars ==
    <<sent, ctl, heard, givenUp, handles, worker, latch, stopper, stops, resetter>>

GoalStates == {"unsent", "sent", "refused", "active", "canceling", "ended"}

GazeboTypeOK ==
    /\ sent \in 0..MaxGoals
    /\ ctl \in [Goals -> GoalStates]
    /\ heard \subseteq Goals /\ givenUp \subseteq Goals /\ handles \subseteq Goals
    /\ worker \in [at : {"idle", "ready", "accept", "result"}, goal : Goals \cup {NoGoal}]
    /\ latch \in BOOLEAN
    /\ stopper \in [at : {"idle", "latched", "cancel"}, pending : SUBSET Goals]
    /\ stops \in 0..MaxStops
    /\ resetter \in {"idle", "quiet"}

Idle == [at |-> "idle", goal |-> NoGoal]

GazeboInit ==
    /\ sent = 0
    /\ ctl = [g \in Goals |-> "unsent"]
    /\ heard = {} /\ givenUp = {} /\ handles = {}
    /\ worker = Idle
    /\ latch = FALSE
    /\ stopper = [at |-> "idle", pending |-> {}]
    /\ stops = 0
    /\ resetter = "idle"

Moving(g) == ctl[g] \in {"active", "canceling"}

-----------------------------------------------------------------------------
(* The controller.                                                         *)

(* A new goal takes the place of the one that moves the arm.               *)
Accept(g) ==
    /\ ctl[g] = "sent"
    /\ ctl' = [h \in Goals |-> IF h = g THEN "active"
                               ELSE IF Moving(h) THEN "ended" ELSE ctl[h]]
    /\ UNCHANGED <<sent, heard, givenUp, handles, worker, latch, stopper, stops,
                   resetter>>

Refuse(g) ==
    /\ ctl[g] = "sent"
    /\ ctl' = [ctl EXCEPT ![g] = "refused"]
    /\ UNCHANGED <<sent, heard, givenUp, handles, worker, latch, stopper, stops,
                   resetter>>

(* Reached, aborted or canceled.                                           *)
Finish(g) ==
    /\ Moving(g)
    /\ ctl' = [ctl EXCEPT ![g] = "ended"]
    /\ UNCHANGED <<sent, heard, givenUp, handles, worker, latch, stopper, stops,
                   resetter>>

(* The answer to the goal reaches the client, however late.                *)
Answer(g) ==
    /\ ctl[g] \notin {"unsent", "sent"}
    /\ g \notin heard
    /\ heard' = heard \cup {g}
    /\ UNCHANGED <<sent, ctl, givenUp, handles, worker, latch, stopper, stops, resetter>>

-----------------------------------------------------------------------------
(* _send() and _send_async(): the worker.                                  *)

(* The execution is registered and looks at the latch before the step.     *)
Begin ==
    /\ worker.at = "idle"
    /\ ~latch
    /\ worker' = [at |-> "ready", goal |-> NoGoal]
    /\ UNCHANGED <<sent, ctl, heard, givenUp, handles, latch, stopper, stops, resetter>>

(* _go() and _send() read no latch.                                        *)
SendGoal ==
    /\ worker.at = "ready"
    /\ sent < MaxGoals
    /\ sent' = sent + 1
    /\ ctl' = [ctl EXCEPT ![sent + 1] = "sent"]
    /\ worker' = [at |-> "accept", goal |-> sent + 1]
    /\ UNCHANGED <<heard, givenUp, handles, latch, stopper, stops, resetter>>

(* The answer came in time: an accepted goal is tracked first, and then    *)
(* its result is asked for.                                                *)
Track ==
    /\ worker.at = "accept"
    /\ worker.goal \in heard
    /\ IF ctl[worker.goal] = "refused"
          THEN /\ worker' = Idle
               /\ UNCHANGED handles
          ELSE /\ handles' = handles \cup {worker.goal}
               /\ worker' \in {[worker EXCEPT !.at = "result"], Idle}
    /\ UNCHANGED <<sent, ctl, heard, givenUp, latch, stopper, stops, resetter>>

(* The answer did not come in time; the goal is on its way all the same.   *)
HandlesAfterTimeout == handles

AcceptTimeout ==
    /\ worker.at = "accept"
    /\ worker.goal \notin heard
    /\ worker' = Idle
    /\ handles' = HandlesAfterTimeout
    /\ givenUp' = givenUp \cup {worker.goal}
    /\ UNCHANGED <<sent, ctl, heard, latch, stopper, stops, resetter>>

(* The checks before the send refused, the result came, or it did not come *)
(* in time and the goal stays on the list.                                 *)
WorkerReturns ==
    /\ worker.at \in {"ready", "result"}
    /\ worker' = Idle
    /\ UNCHANGED <<sent, ctl, heard, givenUp, handles, latch, stopper, stops, resetter>>

(* _on_goal_result: a terminal result takes that goal off the list.        *)
Mutant_Terminal(g) == ctl[g] \in {"canceling", "ended"}
Terminal(g) == ctl[g] = "ended"

Mutant_KeepTracked(g) == handles
Untracked(g) == handles \ {g}

Result(g) ==
    /\ g \in handles
    /\ Terminal(g)
    /\ handles' = Untracked(g)
    /\ UNCHANGED <<sent, ctl, heard, givenUp, worker, latch, stopper, stops, resetter>>

-----------------------------------------------------------------------------
(* stop(): the latch, then cancel_all() of the goals tracked by then.      *)

Stop ==
    /\ stopper.at = "idle"
    /\ stops < MaxStops
    /\ stops' = stops + 1
    /\ latch' = TRUE
    /\ stopper' = [at |-> "latched", pending |-> {}]
    /\ UNCHANGED <<sent, ctl, heard, givenUp, handles, worker, resetter>>

Snapshot ==
    /\ stopper.at = "latched"
    /\ stopper' = [at |-> IF handles = {} THEN "idle" ELSE "cancel", pending |-> handles]
    /\ UNCHANGED <<sent, ctl, heard, givenUp, handles, worker, latch, stops, resetter>>

(* The controller cancels a goal it still has.                             *)
CancelGoal(g) ==
    /\ stopper.at = "cancel"
    /\ g \in stopper.pending
    /\ ctl' = [ctl EXCEPT ![g] = IF @ = "active" THEN "canceling" ELSE @]
    /\ stopper' = [stopper EXCEPT !.pending = @ \ {g}]
    /\ UNCHANGED <<sent, heard, givenUp, handles, worker, latch, stops, resetter>>

(* All acknowledged, or not within the timeout: a cancel may get lost.     *)
StopReturns ==
    /\ stopper.at = "cancel"
    /\ stopper' = [at |-> "idle", pending |-> {}]
    /\ UNCHANGED <<sent, ctl, heard, givenUp, handles, worker, latch, stops, resetter>>

-----------------------------------------------------------------------------
(* reset_for_new_plan(): the count is read first, the latch cleared after. *)
(* release_stop() calls it when no execution is registered.                *)

Mutant_AlwaysQuiet == TRUE
Quiet == handles = {}

ResetCheck ==
    /\ resetter = "idle"
    /\ latch
    /\ worker.at = "idle"
    /\ Quiet
    /\ resetter' = "quiet"
    /\ UNCHANGED <<sent, ctl, heard, givenUp, handles, worker, latch, stopper, stops>>

Reset ==
    /\ resetter = "quiet"
    /\ latch' = FALSE
    /\ resetter' = "idle"
    /\ UNCHANGED <<sent, ctl, heard, givenUp, handles, worker, stopper, stops>>

-----------------------------------------------------------------------------

Controller(g) == Accept(g) \/ Refuse(g) \/ Finish(g)

GazeboNext ==
    \/ \E g \in Goals : Controller(g) \/ Answer(g) \/ Result(g) \/ CancelGoal(g)
    \/ Begin \/ SendGoal \/ Track \/ AcceptTimeout \/ WorkerReturns
    \/ Stop \/ Snapshot \/ StopReturns
    \/ ResetCheck \/ Reset

GazeboSpec == GazeboInit /\ [][GazeboNext]_gazeboVars

(* The controller decides and comes to an end with every goal, its results *)
(* arrive, and the thread in stop() goes on.                               *)
GazeboFairSpec ==
    /\ GazeboSpec
    /\ \A g \in Goals :
          /\ WF_gazeboVars(Controller(g))
          /\ WF_gazeboVars(Result(g))
          /\ WF_gazeboVars(CancelGoal(g))
    /\ WF_gazeboVars(Snapshot)

-----------------------------------------------------------------------------

(* A goal whose answer came in time is never lost sight of while it moves  *)
(* the arm: it is on the list until the controller is done with it.        *)
MovingIsTracked ==
    \A g \in Goals : Moving(g) => g \in handles \cup givenUp \cup {worker.goal}

(* The latch is released only when no goal is on the list, though the list *)
(* is read before, without a lock.                                         *)
ReleasedWhenQuiet == [][latch /\ ~latch' => handles = {}]_gazeboVars

(* The list empties: no goal keeps the latch from being released for ever. *)
TrackedEnds == \A g \in Goals : (g \in handles) ~> (g \notin handles)

(* Stated by the code and not kept by it (see the README's findings): the  *)
(* latch is not released while a goal of the old plan is alive.            *)
ReleasedOverNothing == [][latch /\ ~latch' => \A g \in Goals : ~Moving(g)]_gazeboVars
=============================================================================
