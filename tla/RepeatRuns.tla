------------------------------ MODULE RepeatRuns ------------------------------
(***************************************************************************)
(* The repeated transfers of server/repeat_runs.py: one run at a time, its *)
(* steps sent one after the other by a thread of its own, with the cell    *)
(* reserved from the first step to the last.                               *)
(*                                                                         *)
(* The run is saved to a file at every change, and the write may raise     *)
(* when the change is made in memory already; the thread, the reservation  *)
(* and the latch of the global stop are lost in a restart.  Every          *)
(* _with self._lock_ is one step here.  What a step of the run does        *)
(* (api.create_plan, decide, execute) is its outcome: the rest is in       *)
(* ExecutionCore.                                                          *)
(*                                                                         *)
(* A definition named Mutant_... is a wrong variant of the one after it.   *)
(* No specification uses it; it shows what the properties can tell apart.  *)
(***************************************************************************)
EXTENDS Integers, FiniteSets

CONSTANTS
    Threads,        \* threads that may run _loop at a time
    Verifiers,      \* threads that may run verify() at a time
    Steps,          \* steps of a run
    PerRound,       \* steps of one round of it
    MaxRuns,        \* bound on the runs started
    MaxPauses,      \* bound on the pauses
    MaxStops,       \* bound on the global stops
    MaxRestarts,    \* bound on the restarts of the server
    MaxFailures,    \* bound on the writes of the file that raise
    None

ASSUME StepsAssumption == Steps \in Nat \ {0} /\ PerRound \in Nat \ {0}
ASSUME BoundsAssumption ==
    /\ MaxRuns \in Nat /\ MaxPauses \in Nat /\ MaxStops \in Nat
    /\ MaxRestarts \in Nat /\ MaxFailures \in Nat
ASSUME NoneAssumption == None \notin {"step", "resume", "other", "orphan", "repeat", "interrupted"}

VARIABLES
    run,            \* _run
    saved,          \* what repeat_runs.json holds of it
    reservation,    \* the cell's reservation, which is _reservation
    lease,          \* whose motion holds the cell's lease
    thread,         \* the threads in _loop and _resume_then_loop
    canceling,      \* pause() is on its way to cancel_active_execution
    verifier,       \* the threads in verify()
    stopped,        \* Api._stop_requested
    stopping,       \* stop() is on its way to on_global_stop
    pauses, stops, restarts, failures,
    \* history
    halted,         \* the run that was active at the last global stop
    stranded,       \* a _finish() raised, and nothing is left that calls it again
    pauseUnsaved    \* a thread could not write that the run is paused

latch == <<stopped, stopping>>
file == <<saved, failures>>
counters == <<pauses, stops, restarts>>
history == <<halted, stranded, pauseUnsaved>>
vars == <<run, file, reservation, lease, thread, canceling, verifier, latch, counters, history>>

ACTIVE == {"running", "pausing", "paused", "resuming"}
TERMINAL == {"completed", "stopped", "failed", "cancelled", "interrupted"}

Places == {"off", "top", "check", "recheck", "plan", "execute", "exec", "canceled",
           "noteDone", "done", "notePaused", "setPaused", "noteStopped", "stopped",
           "noteFailed", "failed", "reserve", "job", "noteResumed", "resumed", "except"}

Runs ==
    [id : 0..MaxRuns, state : ACTIVE \cup TERMINAL \cup {"none"}, cursor : Nat,
     pauseRequested : BOOLEAN, finishAfterRound : BOOLEAN, lockHeld : BOOLEAN]

(* "handlers" counts the except clauses around the thread: that of _loop,  *)
(* that of _resume_then_loop, or both when the second has called the first.*)
LoopThread == [at : Places, step : Nat, cancel : BOOLEAN, handlers : 0..2]

TypeOK ==
    /\ run \in Runs /\ saved \in Runs
    /\ reservation \in {None, "repeat", "interrupted"}
    /\ lease \in {None, "step", "resume", "other", "orphan"}
    /\ thread \in [Threads -> LoopThread]
    /\ canceling \in BOOLEAN /\ stopped \in BOOLEAN /\ stopping \in BOOLEAN
    /\ stranded \in BOOLEAN /\ pauseUnsaved \in BOOLEAN
    /\ verifier \in [Verifiers -> {"idle", "checking", "quiet", "notQuiet"}]
    /\ halted \in 0..MaxRuns
    /\ pauses \in 0..MaxPauses /\ stops \in 0..MaxStops
    /\ restarts \in 0..MaxRestarts /\ failures \in 0..MaxFailures

Off == [at |-> "off", step |-> 0, cancel |-> FALSE, handlers |-> 0]

NoRun == [id |-> 0, state |-> "none", cursor |-> 0, pauseRequested |-> FALSE,
          finishAfterRound |-> FALSE, lockHeld |-> FALSE]

Init ==
    /\ run = NoRun /\ saved = NoRun
    /\ reservation = None
    /\ lease = None
    /\ thread = [t \in Threads |-> Off]
    /\ canceling = FALSE
    /\ verifier = [v \in Verifiers |-> "idle"]
    /\ stopped = FALSE /\ stopping = FALSE
    /\ pauses = 0 /\ stops = 0 /\ restarts = 0 /\ failures = 0
    /\ halted = 0 /\ stranded = FALSE /\ pauseUnsaved = FALSE

Active == run.state \in ACTIVE

(* _save(): the file is replaced as a whole; or a step of it raises, the   *)
(* file stays as it was and the run in memory is the changed one.          *)
Saves == saved' = run' /\ UNCHANGED failures

Raises ==
    /\ failures < MaxFailures
    /\ failures' = failures + 1
    /\ UNCHANGED saved

SetState(state) == run' = [run EXCEPT !.state = state]

(* _finish(): whatever run is current, in one critical section.  When the  *)
(* write raises, the run has ended and the reservation stands.             *)
Finish(state) ==
    /\ SetState(state)
    /\ Saves
    /\ reservation' = None
    /\ stranded' = FALSE

FinishRaises(state) ==
    /\ SetState(state)
    /\ Raises
    /\ UNCHANGED reservation

At(t, at) == thread[t].at = at

Goto(t, at) == thread' = [thread EXCEPT ![t].at = at]

Ends(t) == thread' = [thread EXCEPT ![t] = Off]

(* What raises in a thread is caught by the innermost except clause.       *)
Mutant_NoSecondTry == "off"
AfterError == "except"

(* A run that is no longer there to finish has ended its thread.           *)
FinishBy(t, state) ==
    \/ /\ Finish(state)
       /\ Ends(t)
    \/ /\ FinishRaises(state)
       /\ Goto(t, AfterError)
       /\ UNCHANGED stranded

PauseBy(t) ==
    /\ SetState("paused")
    /\ \/ /\ Saves
          /\ Ends(t)
          /\ UNCHANGED pauseUnsaved
       \/ /\ Raises
          /\ Goto(t, AfterError)
          /\ pauseUnsaved' = TRUE

-----------------------------------------------------------------------------
(* The requests of the session that started the run.  All but verify() are *)
(* answered on the event loop, where pause() lets none of them in before   *)
(* it has cancelled the execution.  A write that raises ends the request.  *)

(* start(): no other run, no stop, the cell free and the materials home.   *)
(* The thread is started after the write.                                  *)
Start(t) ==
    /\ run.id < MaxRuns
    /\ ~canceling
    /\ ~Active /\ ~run.lockHeld
    /\ ~stopped
    /\ lease = None /\ reservation = None
    /\ At(t, "off")
    /\ reservation' = "repeat"
    /\ run' = [NoRun EXCEPT !.id = run.id + 1, !.state = "running"]
    /\ \/ /\ Saves
          /\ thread' = [thread EXCEPT ![t] = [Off EXCEPT !.at = "top", !.handlers = 1]]
       \/ /\ Raises
          /\ UNCHANGED thread
    /\ stranded' = FALSE
    /\ UNCHANGED <<lease, canceling, verifier, latch, counters, halted, pauseUnsaved>>

FinishAfterRound ==
    /\ Active
    /\ ~canceling
    /\ run' = [run EXCEPT !.finishAfterRound = TRUE]
    /\ Saves \/ Raises
    /\ UNCHANGED <<reservation, lease, thread, canceling, verifier, latch, counters, history>>

(* pause(): the mark under the lock, the cancel of the execution after it. *)
Pause ==
    /\ run.state = "running"
    /\ ~canceling
    /\ pauses < MaxPauses
    /\ pauses' = pauses + 1
    /\ run' = [run EXCEPT !.state = "pausing", !.pauseRequested = TRUE]
    /\ \/ Saves /\ canceling' = TRUE
       \/ Raises /\ UNCHANGED canceling
    /\ UNCHANGED <<reservation, lease, thread, verifier, latch, stops, restarts, history>>

CancelActiveExecution ==
    /\ canceling
    /\ canceling' = FALSE
    /\ thread' = [t \in Threads |-> IF At(t, "exec")
                                    THEN [thread[t] EXCEPT !.cancel = TRUE] ELSE thread[t]]
    /\ UNCHANGED <<run, file, reservation, lease, verifier, latch, counters, history>>

(* resume(): between two steps the loop goes on; from a checkpoint the     *)
(* step is finished first.  The thread is started after the write.         *)
Mutant_Resumable == run.state \in {"pausing", "paused"}
Resumable == run.state = "paused"

Resume(t) ==
    /\ Resumable
    /\ ~canceling
    /\ ~stopped
    /\ At(t, "off")
    /\ \E next \in {[state |-> "running", at |-> "top", step |-> 0],
                    [state |-> "resuming", at |-> "reserve", step |-> run.cursor]} :
          /\ run' = [run EXCEPT !.state = next.state, !.pauseRequested = FALSE]
          /\ \/ /\ Saves
                /\ thread' = [thread EXCEPT ![t] =
                       [Off EXCEPT !.at = next.at, !.step = next.step, !.handlers = 1]]
             \/ /\ Raises
                /\ UNCHANGED thread
    /\ UNCHANGED <<reservation, lease, canceling, verifier, latch, counters, history>>

Cancel ==
    /\ run.state = "paused"
    /\ ~canceling
    /\ \/ Finish("cancelled")
       \/ FinishRaises("cancelled") /\ stranded' = TRUE
    /\ UNCHANGED <<lease, thread, canceling, verifier, latch, counters, halted, pauseUnsaved>>

-----------------------------------------------------------------------------
(* _loop() and _do_step().                                                 *)

RoundEnds == run.cursor # 0 /\ run.cursor % PerRound = 0

Loops == run.state \in {"running", "pausing"}

(* The top of the loop, under the lock.                                    *)
Top(t) ==
    /\ At(t, "top")
    /\ \/ /\ ~Loops
          /\ Ends(t)
          /\ UNCHANGED <<run, file, reservation, stranded, pauseUnsaved>>
       \/ /\ Loops
          /\ run.cursor >= Steps \/ (RoundEnds /\ run.finishAfterRound)
          /\ FinishBy(t, "completed")
          /\ UNCHANGED pauseUnsaved
       \/ /\ Loops
          /\ run.cursor < Steps /\ ~(RoundEnds /\ run.finishAfterRound)
          /\ run.pauseRequested
          /\ PauseBy(t)
          /\ UNCHANGED <<reservation, stranded>>
       \/ /\ Loops
          /\ run.cursor < Steps /\ ~(RoundEnds /\ run.finishAfterRound)
          /\ ~run.pauseRequested
          /\ thread' = [thread EXCEPT ![t].at = "check", ![t].step = run.cursor,
                                      ![t].cancel = FALSE]
          /\ UNCHANGED <<run, file, reservation, stranded, pauseUnsaved>>
    /\ UNCHANGED <<lease, canceling, verifier, latch, counters, halted>>

(* The first look at the latch of the global stop.                         *)
CheckStop(t) ==
    /\ At(t, "check")
    /\ Goto(t, IF stopped THEN "noteStopped" ELSE "recheck")
    /\ UNCHANGED <<run, file, reservation, lease, canceling, verifier, latch, counters, history>>

(* A refusal is noted before the run ends with it; a read that raises ends *)
(* in the except clause.                                                   *)
Fails(t) == Goto(t, "noteFailed") \/ Goto(t, AfterError)

(* The facts of the cell right before the step: the latch again, a running *)
(* job, the place of the material, a free slot.                            *)
Recheck(t) ==
    /\ At(t, "recheck")
    /\ \/ ~stopped /\ Goto(t, "plan")
       \/ Fails(t)
    /\ UNCHANGED <<run, file, reservation, lease, canceling, verifier, latch, counters, history>>

(* create_plan() and decide(): the plan takes its time and may be refused. *)
Plan(t) ==
    /\ At(t, "plan")
    /\ Goto(t, "execute") \/ Fails(t)
    /\ UNCHANGED <<run, file, reservation, lease, canceling, verifier, latch, counters, history>>

(* execute() under the latch or without the lease is refused; so may it be *)
(* for other reasons.                                                      *)
Execute(t) ==
    /\ At(t, "execute")
    /\ \/ /\ ~stopped
          /\ lease = None
          /\ reservation # "interrupted"
          /\ lease' = "step"
          /\ Goto(t, "exec")
       \/ /\ Fails(t)
          /\ UNCHANGED lease
    /\ UNCHANGED <<run, file, reservation, canceling, verifier, latch, counters, history>>

(* The execution ends; it is canceled or stopped only when somebody asked. *)
ExecEnds(t) ==
    /\ At(t, "exec")
    /\ lease' = None
    /\ \E outcome \in {"noteDone", "noteFailed", AfterError}
            \cup (IF thread[t].cancel THEN {"canceled"} ELSE {})
            \cup (IF stopped THEN {"noteStopped"} ELSE {}) :
          Goto(t, outcome)
    /\ UNCHANGED <<run, file, reservation, canceling, verifier, latch, counters, history>>

(* A canceled step: the request to pause is read under one lock, the state *)
(* set under the next.                                                     *)
SeeCanceled(t) ==
    /\ At(t, "canceled")
    /\ Goto(t, IF run.pauseRequested THEN "notePaused" ELSE "noteFailed")
    /\ UNCHANGED <<run, file, reservation, lease, canceling, verifier, latch, counters, history>>

(* _note(): the outcome of the step is written before what follows from it.*)
AfterNote ==
    [noteDone |-> "done", noteResumed |-> "resumed", notePaused |-> "setPaused",
     noteStopped |-> "stopped", noteFailed |-> "failed"]

Note(t) ==
    /\ thread[t].at \in DOMAIN AfterNote
    /\ UNCHANGED run
    /\ \/ Saves /\ Goto(t, AfterNote[thread[t].at])
       \/ Raises /\ Goto(t, AfterError)
    /\ UNCHANGED <<reservation, lease, canceling, verifier, latch, counters, history>>

(* _advance(): the cursor of whatever run is current; after a resumed step *)
(* the loop is entered inside _resume_then_loop.                           *)
NextCursor == run.cursor + 1

Advance(t) ==
    /\ \/ /\ At(t, "done")
          /\ run' = [run EXCEPT !.cursor = NextCursor]
       \/ /\ At(t, "resumed")
          /\ run' = [run EXCEPT !.cursor = NextCursor, !.state = "running"]
    /\ \/ /\ Saves
          /\ thread' = [thread EXCEPT ![t].at = "top",
                                      ![t].handlers = IF At(t, "resumed") THEN 2 ELSE @]
       \/ /\ Raises
          /\ Goto(t, AfterError)
    /\ UNCHANGED <<reservation, lease, canceling, verifier, latch, counters, history>>

SetPaused(t) ==
    /\ At(t, "setPaused")
    /\ PauseBy(t)
    /\ UNCHANGED <<reservation, lease, canceling, verifier, latch, counters, halted, stranded>>

StepFinishes(t) ==
    /\ \E state \in {"stopped", "failed"} : At(t, state) /\ FinishBy(t, state)
    /\ UNCHANGED <<lease, canceling, verifier, latch, counters, halted, pauseUnsaved>>

(* The except clause: the run fails, whatever it was.  When that cannot be *)
(* written either, the next clause tries again, or the thread dies.        *)
Except(t) ==
    /\ At(t, "except")
    /\ \/ /\ Finish("failed")
          /\ Ends(t)
       \/ /\ FinishRaises("failed")
          /\ thread[t].handlers > 1
          /\ thread' = [thread EXCEPT ![t].handlers = @ - 1]
          /\ UNCHANGED stranded
       \/ /\ FinishRaises("failed")
          /\ thread[t].handlers <= 1
          /\ Ends(t)
          /\ stranded' = TRUE
    /\ UNCHANGED <<lease, canceling, verifier, latch, counters, halted, pauseUnsaved>>

(* _resume_then_loop(): a job from the checkpoint, under the reservation.  *)
ResumeJob(t) ==
    /\ At(t, "reserve")
    /\ \/ /\ lease = None
          /\ reservation # "interrupted"
          /\ lease' = "resume"
          /\ Goto(t, "job")
       \/ /\ Goto(t, "failed") \/ Goto(t, AfterError)
          /\ UNCHANGED lease
    /\ UNCHANGED <<run, file, reservation, canceling, verifier, latch, counters, history>>

JobEnds(t) ==
    /\ At(t, "job")
    /\ lease' = None
    /\ \E outcome \in {"noteResumed", "noteFailed", AfterError}
            \cup (IF stopped THEN {"noteStopped"} ELSE {}) :
          Goto(t, outcome)
    /\ UNCHANGED <<run, file, reservation, canceling, verifier, latch, counters, history>>

-----------------------------------------------------------------------------
(* The global stop.                                                        *)

Press ==
    /\ ~stopping
    /\ stops < MaxStops
    /\ stops' = stops + 1
    /\ stopped' = TRUE
    /\ stopping' = TRUE
    /\ halted' = IF Active THEN run.id ELSE 0
    /\ UNCHANGED <<run, file, reservation, lease, thread, canceling, verifier, pauses, restarts,
                   stranded, pauseUnsaved>>

(* A write that raises here ends stop() before it has asked the adapter.   *)
OnGlobalStop ==
    /\ stopping
    /\ stopping' = FALSE
    /\ \/ /\ run.state \in {"paused", "pausing"}
          /\ \/ Finish("stopped")
             \/ FinishRaises("stopped") /\ stranded' = TRUE
       \/ /\ run.state \notin {"paused", "pausing"}
          /\ UNCHANGED <<run, file, reservation, stranded>>
    /\ UNCHANGED <<lease, thread, canceling, verifier, stopped, counters, halted, pauseUnsaved>>

(* release_stop(): not over an execution or a job.                         *)
Release ==
    /\ stopped
    /\ lease = None
    /\ stopped' = FALSE
    /\ UNCHANGED <<run, file, reservation, lease, thread, canceling, verifier, stopping,
                   counters, history>>

-----------------------------------------------------------------------------
(* verify(): the lock is left for the check of the cell and taken again.   *)

Verify(v) ==
    /\ verifier[v] = "idle"
    /\ run.lockHeld
    /\ verifier' = [verifier EXCEPT ![v] = "checking"]
    /\ UNCHANGED <<run, file, reservation, lease, thread, canceling, latch, counters, history>>

(* No process, no execution, the joints at rest and the materials seen.    *)
Mutant_Quiet == TRUE
Quiet == lease = None

CheckQuiet(v) ==
    /\ verifier[v] = "checking"
    /\ \/ /\ Quiet
          /\ verifier' = [verifier EXCEPT ![v] = "quiet"]
       \/ verifier' = [verifier EXCEPT ![v] = "notQuiet"]
    /\ UNCHANGED <<run, file, reservation, lease, thread, canceling, latch, counters, history>>

(* Here the reservation goes before the write.                             *)
Unlock(v) ==
    /\ verifier[v] \in {"quiet", "notQuiet"}
    /\ verifier' = [verifier EXCEPT ![v] = "idle"]
    /\ IF verifier[v] = "quiet"
          THEN /\ reservation' = None
               /\ run' = [run EXCEPT !.lockHeld = FALSE]
               /\ stranded' = FALSE
          ELSE UNCHANGED <<run, reservation, stranded>>
    /\ Saves \/ Raises
    /\ UNCHANGED <<lease, thread, canceling, latch, counters, halted, pauseUnsaved>>

-----------------------------------------------------------------------------
(* A restart of the server, and the other users of the cell.               *)

Mutant_OnlyIfFree == IF lease = None THEN "interrupted" ELSE None
AfterLoad == "interrupted"

(* _load(): a process of the step may live on and is adopted with its      *)
(* lease; the reservation is made beside it.  A server whose first write   *)
(* raises does not come up.                                                *)
Restart ==
    /\ restarts < MaxRestarts
    /\ restarts' = restarts + 1
    /\ lease' \in IF lease = None THEN {None} ELSE {None, "orphan"}
    /\ IF saved.state \in ACTIVE \/ (saved.state = "interrupted" /\ saved.lockHeld)
          THEN /\ run' = [saved EXCEPT !.state = "interrupted", !.lockHeld = TRUE]
               /\ reservation' = IF lease' = None THEN "interrupted" ELSE AfterLoad
          ELSE /\ run' = saved
               /\ reservation' = None
    /\ Saves
    /\ thread' = [t \in Threads |-> Off]
    /\ canceling' = FALSE
    /\ verifier' = [v \in Verifiers |-> "idle"]
    /\ stopped' = FALSE /\ stopping' = FALSE
    /\ halted' = 0 /\ stranded' = FALSE /\ pauseUnsaved' = FALSE
    /\ UNCHANGED <<pauses, stops>>

(* Another execution, demo job or goal: try_acquire() without the token.   *)
Mutant_CellFree == lease = None
CellFree == lease = None /\ reservation = None

OtherBegins ==
    /\ ~stopped
    /\ CellFree
    /\ lease' = "other"
    /\ UNCHANGED <<run, file, reservation, thread, canceling, verifier, latch, counters, history>>

OtherEnds ==
    /\ lease \in {"other", "orphan"}
    /\ lease' = None
    /\ UNCHANGED <<run, file, reservation, thread, canceling, verifier, latch, counters, history>>

-----------------------------------------------------------------------------

ThreadStep(t) ==
    \/ Top(t) \/ CheckStop(t) \/ Recheck(t) \/ Plan(t) \/ Execute(t) \/ ExecEnds(t)
    \/ SeeCanceled(t) \/ Note(t) \/ Advance(t) \/ SetPaused(t) \/ StepFinishes(t)
    \/ Except(t) \/ ResumeJob(t) \/ JobEnds(t)

Next ==
    \/ \E t \in Threads : Start(t) \/ Resume(t) \/ ThreadStep(t)
    \/ FinishAfterRound \/ Pause \/ CancelActiveExecution \/ Cancel
    \/ Press \/ OnGlobalStop \/ Release
    \/ \E v \in Verifiers : Verify(v) \/ CheckQuiet(v) \/ Unlock(v)
    \/ Restart \/ OtherBegins \/ OtherEnds

Spec == Init /\ [][Next]_vars

-----------------------------------------------------------------------------

(* A run that a restart interrupted holds the cell until the cell is       *)
(* verified, through further restarts and whatever the run had been doing. *)
LockHoldsCell == run.lockHeld => reservation = "interrupted"

(* A pause and a stop together bring back runs that have ended (see        *)
(* EndedStaysEnded), and so does a pause that could not be written: the    *)
(* except clause ends a run that may have been resumed.  The two           *)
(* properties that say Undisturbed hold until then.                        *)
Undisturbed == (pauses = 0 \/ stops = 0) /\ ~pauseUnsaved

(* Nobody else moves the robot between two steps of a run, though some of  *)
(* its writes have raised.                                                 *)
NothingBetween == Undisturbed /\ Active => lease \notin {"other", "orphan"}

(* Whatever writes raise, a run that has ended keeps the cell only as long *)
(* as its thread is still to call _finish() once more; or else every call  *)
(* of it has raised: the only one of a request, or that of the last except *)
(* clause of the thread.                                                   *)
ReservedForSomeone ==
    reservation # None =>
        Active \/ run.lockHeld \/ stranded \/ \E t \in Threads : At(t, "except")

(* One thread works on the run, and on the step of its cursor: no step is  *)
(* sent twice and none is left out.                                        *)
OneStepAtATime ==
    \A t \in Threads : Undisturbed /\ thread[t].at # "off" =>
        /\ thread[t].at # "except" =>
               Active /\ (thread[t].at # "top" => thread[t].step = run.cursor)
        /\ \A u \in Threads : thread[u].at # "off" => u = t

(* The lock of an interrupted run is released over no process of the run   *)
(* before the restart, though it was looked for without the lock, and by   *)
(* verify() alone: no restart forgets it.                                  *)
UnlockedWhenQuiet == [][run.lockHeld /\ ~run'.lockHeld => lease = None]_vars

(* Stated by the code and not kept by it (see the README's divergences).   *)

Sends(t) == thread[t].at = "execute" /\ thread'[t].at = "exec"

(* A run that has ended stays ended.                                       *)
EndedStaysEnded ==
    [][run.state \in TERMINAL /\ run'.id = run.id => run'.state \in TERMINAL]_vars

(* A global stop cancels what is left of the run it found.                 *)
StopCancelsTheRest == [][\A t \in Threads : Sends(t) => run.id # halted]_vars

(* A run that is asked to pause between two steps begins no other step.    *)
PauseBeforeNextStep == [][\A t \in Threads : Sends(t) => run.state # "pausing"]_vars

(* No job of the run starts under the latch.                               *)
NothingStartsUnderTheLatch ==
    [][\A t \in Threads :
          thread[t].at # thread'[t].at /\ thread'[t].at \in {"exec", "job"} => ~stopped]_vars

(* A run that has ended gives back the cell.                               *)
EndedGivesBack ==
    reservation # None =>
        Active \/ run.lockHeld \/ \E t \in Threads : At(t, "except")

(* A run that goes on has a thread.                                        *)
RunningHasThread ==
    run.state \in {"running", "resuming"} => \E t \in Threads : thread[t].at # "off"

(* No step begins of a run that has ended, be it that no pause met a stop. *)
NoStepAfterTheEnd ==
    [][\A t \in Threads : Sends(t) /\ (pauses = 0 \/ stops = 0) => Active]_vars
=============================================================================
