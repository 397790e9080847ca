--------------------------- MODULE ExecutionCore ---------------------------
(***************************************************************************)
(* server/api.py: approving a plan, executing it, and stopping, releasing  *)
(* and cancelling while it runs.  Every HTTP request is a thread of its    *)
(* own; the only lock they share (_flag_lock) guards single reads and      *)
(* writes, so an action below is one critical section or one call to the   *)
(* database, the lease manager or the adapter.                             *)
(*                                                                         *)
(* The path modelled is the one where the adapter runs the steps; the      *)
(* transfers that go through a simulation job are in StopDelivery.         *)
(*                                                                         *)
(* A definition named Mutant_... is a wrong variant of the one after it.   *)
(* No specification uses it; it shows what the properties can tell apart.  *)
(***************************************************************************)
EXTENDS Naturals, FiniteSets

CONSTANTS
    Clients,        \* threads that call execute()
    Plans,
    Steps,          \* steps of a plan
    MaxDecisions,   \* bounds: approvals and rejections,
    MaxExecutions,  \*   execution records,
    MaxStops,       \*   global stops,
    MaxReleases,    \*   releases of the stop latch,
    MaxCancels,     \*   and executions that are ever cancelled
    LatchGatesSend, \* TRUE: robots/fake (R1); FALSE: robots/fr3_gazebo
    None

ASSUME NoneAssumption == None \notin Clients \cup Plans \cup Nat
ASSUME BoundsAssumption ==
    /\ Steps \in Nat
    /\ MaxDecisions \in Nat /\ MaxExecutions \in Nat
    /\ MaxStops \in Nat /\ MaxReleases \in Nat /\ MaxCancels \in Nat
    /\ LatchGatesSend \in BOOLEAN

Decisions == 1..MaxDecisions
Executions == 1..MaxExecutions

VARIABLES
    \* the database
    decisions,          \* number of rows in the approvals table
    approved,           \* those whose decision is APPROVED
    latest,             \* the last decision on each plan, or None
    claimed,            \* approvals with a row in the claims table
    executions,         \* number of execution records
    approvalOf,         \* execution record -> the approval it used
    \* ApiService and CellExecutionManager
    stopRequested,      \* _stop_requested
    activeExecutions,   \* keys of _active_executions
    cancelRequested,    \* _cancel_requested
    runningExecutionId, \* running_execution_id
    lease,              \* the client that holds the cell, or None
    \* the threads in execute()
    pc, plan, approval, execution, step, failed,
    \* the adapter
    latch,              \* its stop latch
    goals,              \* executions with a goal that is live on the robot
    \* the threads in stop() and release_stop()
    stopper, releaser,
    \* history
    stops, releases,
    era,                \* stops seen when each decision was made
    hit,                \* executions a stop found registered
    sent,               \* steps each of them sent since the flag went up
    canceled,           \* executions a cancel was answered for
    sentCanceled,       \* steps each of them sent since the last one
    confirmed           \* a stop was confirmed and the latch not reset since

db == <<decisions, approved, latest, claimed, executions, approvalOf>>
flags == <<stopRequested, activeExecutions, cancelRequested,
           runningExecutionId>>
locals == <<pc, plan, approval, execution, step, failed>>
adapter == <<latch, goals>>
operators == <<stopper, releaser, stops, releases>>
history == <<era, hit, sent, canceled, sentCanceled, confirmed>>
vars == <<db, flags, lease, locals, adapter, operators, history>>

PCs == {"idle", "unlatched", "usable", "leased", "claimed", "permitted",
        "begun", "registered", "check", "send", "moving", "result", "final",
        "leaving", "releasing"}

DbType ==
    /\ decisions \in 0..MaxDecisions
    /\ approved \subseteq Decisions
    /\ latest \in [Plans -> Decisions \cup {None}]
    /\ claimed \subseteq Decisions
    /\ executions \in 0..MaxExecutions
    /\ approvalOf \in [Executions -> Decisions \cup {None}]

ServerType ==
    /\ stopRequested \in BOOLEAN
    /\ activeExecutions \subseteq Executions
    /\ cancelRequested \subseteq Executions
    /\ runningExecutionId \in Executions \cup {None}
    /\ lease \in Clients \cup {None}

LocalsType ==
    /\ pc \in [Clients -> PCs]
    /\ plan \in [Clients -> Plans \cup {None}]
    /\ approval \in [Clients -> Decisions \cup {None}]
    /\ execution \in [Clients -> Executions \cup {None}]
    /\ step \in [Clients -> 0..Steps]
    /\ failed \in [Clients -> BOOLEAN]

OperatorsType ==
    /\ latch \in BOOLEAN
    /\ goals \subseteq Executions
    /\ stopper \in {"idle", "flagged", "stopping"}
    /\ releaser \in {"idle", "checked", "reset"}
    /\ stops \in 0..MaxStops
    /\ releases \in 0..MaxReleases

HistoryType ==
    /\ era \in [Decisions -> 0..MaxStops]
    /\ hit \subseteq Executions
    /\ sent \in [Executions -> Nat]
    /\ canceled \subseteq Executions
    /\ sentCanceled \in [Executions -> Nat]
    /\ confirmed \in BOOLEAN

TypeOK == DbType /\ ServerType /\ LocalsType /\ OperatorsType /\ HistoryType

Init ==
    /\ decisions = 0
    /\ approved = {}
    /\ latest = [p \in Plans |-> None]
    /\ claimed = {}
    /\ executions = 0
    /\ approvalOf = [e \in Executions |-> None]
    /\ stopRequested = FALSE
    /\ activeExecutions = {}
    /\ cancelRequested = {}
    /\ runningExecutionId = None
    /\ lease = None
    /\ pc = [c \in Clients |-> "idle"]
    /\ plan = [c \in Clients |-> None]
    /\ approval = [c \in Clients |-> None]
    /\ execution = [c \in Clients |-> None]
    /\ step = [c \in Clients |-> 0]
    /\ failed = [c \in Clients |-> FALSE]
    /\ latch = FALSE
    /\ goals = {}
    /\ stopper = "idle"
    /\ releaser = "idle"
    /\ stops = 0
    /\ releases = 0
    /\ era = [a \in Decisions |-> 0]
    /\ hit = {}
    /\ sent = [e \in Executions |-> 0]
    /\ canceled = {}
    /\ sentCanceled = [e \in Executions |-> 0]
    /\ confirmed = FALSE

Goto(c, label) == pc' = [pc EXCEPT ![c] = label]
At(c, label) == pc[c] = label

-----------------------------------------------------------------------------
(* decide()                                                                *)

Decide(p, approve) ==
    /\ decisions < MaxDecisions
    /\ decisions' = decisions + 1
    /\ approved' = IF approve THEN approved \cup {decisions'} ELSE approved
    /\ latest' = [latest EXCEPT ![p] = decisions']
    /\ era' = [era EXCEPT ![decisions'] = stops]
    /\ UNCHANGED <<claimed, executions, approvalOf, flags, lease, locals,
                   adapter, operators, hit, sent, canceled, sentCanceled,
                   confirmed>>

-----------------------------------------------------------------------------
(* execute(), up to the claim of the approval                              *)

(* The latch comes first: while it is set the request is refused.          *)
CheckLatch(c, p) ==
    /\ At(c, "idle")
    /\ ~stopRequested
    /\ plan' = [plan EXCEPT ![c] = p]
    /\ Goto(c, "unlatched")
    /\ UNCHANGED <<db, flags, lease, approval, execution, step, failed, adapter,
                   operators, history>>

Usable(a) == a # None /\ a \in approved /\ a \notin claimed

(* _usable_approval: the last decision on the plan, if it approves.        *)
UsableApproval(c) ==
    /\ At(c, "unlatched")
    /\ \/ /\ Usable(latest[plan[c]])
          /\ approval' = [approval EXCEPT ![c] = latest[plan[c]]]
          /\ Goto(c, "usable")
       \/ /\ ~Usable(latest[plan[c]])
          /\ Goto(c, "idle")
          /\ UNCHANGED approval
    /\ UNCHANGED <<db, flags, lease, plan, execution, step, failed, adapter,
                   operators, history>>

CellFree == lease = None

TryAcquire(c) ==
    /\ At(c, "usable")
    /\ \/ /\ CellFree
          /\ lease' = c
          /\ Goto(c, "leased")
       \/ /\ ~CellFree
          /\ Goto(c, "idle")
          /\ UNCHANGED lease
    /\ UNCHANGED <<db, flags, plan, approval, execution, step, failed, adapter,
                   operators, history>>

(* An exception inside execute() goes through its finally clause.          *)
Mutant_ReturnWithoutFinally == "idle"
AfterRefusal == "leaving"

Mutant_ClaimAgain(a) == TRUE
Claimable(a) == a \notin claimed

(* The insert into the claims table succeeds for one thread only.          *)
ClaimApproval(c) ==
    /\ At(c, "leased")
    /\ \/ /\ Claimable(approval[c])
          /\ claimed' = claimed \cup {approval[c]}
          /\ Goto(c, "claimed")
       \/ /\ ~Claimable(approval[c])
          /\ Goto(c, AfterRefusal)
          /\ UNCHANGED claimed
    /\ UNCHANGED <<decisions, approved, latest, executions, approvalOf, flags,
                   lease, plan, approval, execution, step, failed, adapter,
                   operators, history>>

-----------------------------------------------------------------------------
(* _run_execution()                                                        *)

(* connect, permit and save_permit: any of them may refuse or raise.       *)
Permit(c) ==
    /\ At(c, "claimed")
    /\ Goto(c, "permitted") \/ Goto(c, AfterRefusal)
    /\ UNCHANGED <<db, flags, lease, plan, approval, execution, step, failed,
                   adapter, operators, history>>

(* begin_execution may refuse too: an earlier attempt is still open.       *)
BeginExecution(c) ==
    /\ At(c, "permitted")
    /\ \/ /\ Goto(c, AfterRefusal)
          /\ UNCHANGED <<executions, approvalOf, execution, step, failed,
                         runningExecutionId>>
       \/ /\ executions < MaxExecutions
          /\ executions' = executions + 1
          /\ approvalOf' = [approvalOf EXCEPT ![executions'] = approval[c]]
          /\ execution' = [execution EXCEPT ![c] = executions']
          /\ step' = [step EXCEPT ![c] = 0]
          /\ failed' = [failed EXCEPT ![c] = FALSE]
          /\ runningExecutionId' = executions'
          /\ Goto(c, "begun")
    /\ UNCHANGED <<decisions, approved, latest, claimed, stopRequested,
                   activeExecutions, cancelRequested, lease, plan, approval,
                   adapter, operators, history>>

Register(c) ==
    /\ At(c, "begun")
    /\ activeExecutions' = activeExecutions \cup {execution[c]}
    /\ Goto(c, "registered")
    /\ UNCHANGED <<db, stopRequested, cancelRequested, runningExecutionId, lease,
                   plan, approval, execution, step, failed, adapter, operators,
                   history>>

(* A cancel that arrived since the registration is thrown away here.       *)
DiscardCancel(c) ==
    /\ At(c, "registered")
    /\ cancelRequested' = cancelRequested \ {execution[c]}
    /\ Goto(c, "check")
    /\ UNCHANGED <<db, stopRequested, activeExecutions, runningExecutionId, lease,
                   plan, approval, execution, step, failed, adapter, operators,
                   history>>

Mutant_StopOnly(c) == stopRequested
Mutant_CancelOnly(c) == execution[c] \in cancelRequested
Interrupted(c) == stopRequested \/ execution[c] \in cancelRequested

PlanDone(c) == step[c] = Steps

(* interruption() before a step; after the last one there is no check.     *)
CheckBeforeStep(c) ==
    /\ At(c, "check")
    /\ Goto(c, IF PlanDone(c) \/ Interrupted(c) THEN "final" ELSE "send")
    /\ UNCHANGED <<db, flags, lease, plan, approval, execution, step, failed,
                   adapter, operators, history>>

Count(e, S, n) == IF e \in S THEN n + 1 ELSE n

(* The adapter refuses a step under its latch only if it looks at it.      *)
Refuses == LatchGatesSend /\ latch

SendStep(c) ==
    /\ At(c, "send")
    /\ \/ /\ Refuses
          /\ failed' = [failed EXCEPT ![c] = TRUE]
          /\ Goto(c, "result")
          /\ UNCHANGED <<step, goals, sent, sentCanceled>>
       \/ /\ ~Refuses
          /\ step' = [step EXCEPT ![c] = @ + 1]
          /\ goals' = goals \cup {execution[c]}
          /\ sent' = [sent EXCEPT ![execution[c]] = Count(execution[c], hit, @)]
          /\ sentCanceled' = [sentCanceled EXCEPT ![execution[c]] =
                                 Count(execution[c], canceled, @)]
          /\ Goto(c, "moving")
          /\ UNCHANGED failed
    /\ UNCHANGED <<db, flags, lease, plan, approval, execution, latch, operators,
                   era, hit, canceled, confirmed>>

(* The robot is done with the goal.                                        *)
GoalEnds(e) ==
    /\ e \in goals
    /\ goals' = goals \ {e}
    /\ UNCHANGED <<db, flags, lease, locals, latch, operators, history>>

(* The call of the adapter returns: the goal ended well or not, or nothing *)
(* was heard in time and it may still be live.                             *)
StepReturns(c) ==
    /\ At(c, "moving")
    /\ \E bad \in IF execution[c] \in goals THEN {TRUE} ELSE BOOLEAN :
          failed' = [failed EXCEPT ![c] = bad]
    /\ Goto(c, "result")
    /\ UNCHANGED <<db, flags, lease, plan, approval, execution, step, adapter,
                   operators, history>>

(* append_result, interruption() again, and the way out of the loop.       *)
CheckAfterStep(c) ==
    /\ At(c, "result")
    /\ Goto(c, IF Interrupted(c) \/ failed[c] THEN "final" ELSE "check")
    /\ UNCHANGED <<db, flags, lease, plan, approval, execution, step, failed,
                   adapter, operators, history>>

(* The final result is recorded.                                           *)
Finish(c) ==
    /\ At(c, "final")
    /\ Goto(c, "leaving")
    /\ UNCHANGED <<db, flags, lease, plan, approval, execution, step, failed,
                   adapter, operators, history>>

(* The finally clause: whatever running_execution_id names is taken off,   *)
(* then the lease goes back.                                               *)
RegistryAfterExit == activeExecutions \ {runningExecutionId}

Unregister(c) ==
    /\ At(c, "leaving")
    /\ activeExecutions' = RegistryAfterExit
    /\ Goto(c, "releasing")
    /\ UNCHANGED <<db, stopRequested, cancelRequested, runningExecutionId, lease,
                   plan, approval, execution, step, failed, adapter, operators,
                   history>>

ReleaseLease(c) ==
    /\ At(c, "releasing")
    /\ runningExecutionId' = None
    /\ lease' = IF lease = c THEN None ELSE lease
    /\ execution' = [execution EXCEPT ![c] = None]
    /\ approval' = [approval EXCEPT ![c] = None]
    /\ plan' = [plan EXCEPT ![c] = None]
    /\ Goto(c, "idle")
    /\ UNCHANGED <<db, stopRequested, activeExecutions, cancelRequested, step,
                   failed, adapter, operators, history>>

-----------------------------------------------------------------------------
(* stop()                                                                  *)

StopFlag ==
    /\ stopper = "idle"
    /\ stops < MaxStops
    /\ stops' = stops + 1
    /\ stopRequested' = TRUE
    /\ hit' = hit \cup activeExecutions
    /\ sent' = [e \in Executions |-> IF stopRequested THEN sent[e] ELSE 0]
    /\ stopper' = "flagged"
    /\ UNCHANGED <<db, activeExecutions, cancelRequested, runningExecutionId,
                   lease, locals, adapter, releaser, releases, era, canceled,
                   sentCanceled, confirmed>>

(* adapter.stop; reaching the adapter may fail, and stop() returns.        *)
StopAdapter ==
    /\ stopper = "flagged"
    /\ \/ /\ latch' = TRUE
          /\ stopper' = "stopping"
       \/ /\ stopper' = "idle"
          /\ UNCHANGED latch
    /\ UNCHANGED <<db, flags, lease, locals, goals, releaser, stops, releases,
                   history>>

(* confirm_stopped: only a robot at rest is confirmed, and not always.     *)
ConfirmStopped ==
    /\ stopper = "stopping"
    /\ \/ /\ goals = {}
          /\ confirmed' = latch
       \/ UNCHANGED confirmed
    /\ stopper' = "idle"
    /\ UNCHANGED <<db, flags, lease, locals, adapter, releaser, stops, releases,
                   era, hit, sent, canceled, sentCanceled>>

-----------------------------------------------------------------------------
(* release_stop()                                                          *)

ReleaseCheck ==
    /\ releaser = "idle"
    /\ releases < MaxReleases
    /\ activeExecutions = {}
    /\ releases' = releases + 1
    /\ releaser' = "checked"
    /\ UNCHANGED <<db, flags, lease, locals, adapter, stopper, stops, history>>

(* runtime.reset_stop_latch: the adapter refuses over a tracked goal.      *)
ResetStopLatch ==
    /\ releaser = "checked"
    /\ \/ /\ goals = {}
          /\ latch' = FALSE
          /\ confirmed' = FALSE
          /\ releaser' = "reset"
       \/ /\ goals # {}
          /\ releaser' = "idle"
          /\ UNCHANGED <<latch, confirmed>>
    /\ UNCHANGED <<db, flags, lease, locals, goals, stopper, stops, releases,
                   era, hit, sent, canceled, sentCanceled>>

ClearFlag ==
    /\ releaser = "reset"
    /\ stopRequested' = FALSE
    /\ releaser' = "idle"
    /\ UNCHANGED <<db, activeExecutions, cancelRequested, runningExecutionId,
                   lease, locals, adapter, stopper, stops, releases, history>>

-----------------------------------------------------------------------------
(* cancel_execution(): any recorded execution, running or not.  What       *)
(* adapter.cancel does to a live goal is GoalEnds.                         *)

CancelExecution(e) ==
    /\ e \in 1..executions
    /\ e \notin cancelRequested
    /\ cancelRequested' = cancelRequested \cup {e}
    /\ canceled' = canceled \cup {e}
    /\ Cardinality(canceled') <= MaxCancels
    /\ sentCanceled' = [sentCanceled EXCEPT ![e] = 0]
    /\ UNCHANGED <<db, stopRequested, activeExecutions, runningExecutionId, lease,
                   locals, adapter, operators, era, hit, sent, confirmed>>

-----------------------------------------------------------------------------

Proceed(c) ==
    \/ UsableApproval(c) \/ TryAcquire(c) \/ ClaimApproval(c)
    \/ Permit(c) \/ BeginExecution(c) \/ Register(c) \/ DiscardCancel(c)
    \/ CheckBeforeStep(c) \/ SendStep(c) \/ StepReturns(c) \/ CheckAfterStep(c)
    \/ Finish(c) \/ Unregister(c) \/ ReleaseLease(c)

Operate ==
    \/ StopFlag \/ StopAdapter \/ ConfirmStopped
    \/ ReleaseCheck \/ ResetStopLatch \/ ClearFlag
    \/ \E e \in Executions : CancelExecution(e) \/ GoalEnds(e)

Next ==
    \/ \E p \in Plans, approve \in BOOLEAN : Decide(p, approve)
    \/ \E c \in Clients, p \in Plans : CheckLatch(c, p)
    \/ \E c \in Clients : Proceed(c)
    \/ Operate

Spec == Init /\ [][Next]_vars

-----------------------------------------------------------------------------

(* No approval ever backs two executions, and none that was a rejection    *)
(* backs one, whichever threads race between the check and the claim.      *)
OneShotApproval ==
    \A e, f \in 1..executions :
        /\ approvalOf[e] \in approved
        /\ approvalOf[e] = approvalOf[f] => e = f

(* Where a thread is between taking the lease and giving it back.          *)
Holding == {"leased", "claimed", "permitted", "begun", "registered", "check",
            "send", "moving", "result", "final", "leaving", "releasing"}

(* The registry and running_execution_id, which stop, cancel, release and  *)
(* the finally clause read without holding the lease, only ever speak of   *)
(* the execution of the thread that holds it; the thread that leaves finds *)
(* its own execution there, for it pops what is named at that moment; and  *)
(* the cell is not left leased by any way out of execute(), refusals and   *)
(* exceptions included: a thread that has the lease is still at work.      *)
RegistryIsLeaseHolders ==
    /\ \A c \in Clients : lease = c => pc[c] \in Holding
    /\ \A e \in activeExecutions : lease # None /\ execution[lease] = e
    /\ runningExecutionId # None =>
          lease # None /\ execution[lease] = runningExecutionId
    /\ \A c \in Clients :
          At(c, "leaving") => runningExecutionId = execution[c]

(* While the stop flag is up, a step reaches the robot only if its check   *)
(* came before the flag: from an execution the stop found registered, and  *)
(* one step at most; what registers later sends nothing.                   *)
StopHalts ==
    [][stopRequested =>
          \A e \in goals' \ goals : e \in hit /\ sent[e] = 0]_vars

(* While a cancel is on record, at most one more step of its execution     *)
(* goes out.                                                               *)
CancelHalts ==
    \A e \in cancelRequested : sentCanceled[e] <= 1

(* A stop that was answered "confirmed" stays true until the latch is      *)
(* reset: no goal reaches the robot after the measurement (rule R1).       *)
ConfirmedMeansStill == confirmed => goals = {}

(* One thread at a time is between the grant of the lease and its end:     *)
(* what it reads and writes in between it does alone.                      *)
Authority == INSTANCE CellAuthority
                WITH Holders <- Clients, holders <- {c \in Clients : pc[c] \in Holding}
LeaseIsExclusive == Authority!Spec

(* Stated by the code and not kept by it (see the README's findings).      *)

(* "applies to every execution running now": an execution a stop found     *)
(* registered sends at most one more step.                                 *)
StopAppliesToRunning == \A e \in hit : sent[e] <= 1

(* "the remaining steps are not sent", from the moment the cancel of a     *)
(* recorded execution was answered.                                        *)
CancelStopsRemainingSteps == \A e \in canceled : sentCanceled[e] <= 1

(* "the last decision is an approval (no execution after a rejection)".    *)
ClaimsLastDecision ==
    [][\A a \in claimed' \ claimed : \E p \in Plans : latest[p] = a]_vars

(* "release the stop, then approve again".                                 *)
ApprovedSinceStop ==
    [][~stopRequested => \A a \in claimed' \ claimed : era[a] = stops]_vars
=============================================================================
