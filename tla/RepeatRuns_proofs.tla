-------------------------- MODULE RepeatRuns_proofs --------------------------
(* For any number of threads, requests, steps, restarts and writes that    *)
(* raise: an interrupted run holds the cell and is unlocked over no        *)
(* process, and an ended run gives the cell back as far as the code tries. *)
(* With pauses or stops but not both, a pause that can be written and one  *)
(* verify() at a time, the cell is the run's between its steps, and the    *)
(* steps are sent in order.                                                *)
EXTENDS RepeatRuns, TLAPS

-----------------------------------------------------------------------------
(* Types                                                                   *)

Leases == {None, "step", "resume", "other", "orphan"}

(* What a step of a thread may change beside its own place.                *)
Kept == <<canceling, verifier, latch, counters, halted>>

(* The places where a thread works on its step.                            *)
Working == Places \ {"off", "top", "except"}

(* The steps of a thread that change its place, perhaps the lease, and     *)
(* nothing else.                                                           *)
Moves(t, at) ==
    /\ Goto(t, at)
    /\ UNCHANGED <<run, file, reservation, stranded, pauseUnsaved, Kept>>

OnlyMoves(t) ==
    \/ CheckStop(t) \/ Recheck(t) \/ Plan(t) \/ Execute(t) \/ ExecEnds(t)
    \/ SeeCanceled(t) \/ ResumeJob(t) \/ JobEnds(t)

(* They go from one place of the step to another, or to the except clause. *)
LEMMA MovesOnly ==
    ASSUME NEW t \in Threads, OnlyMoves(t)
    PROVE  /\ thread[t].at \in Working
           /\ \E at \in Working \cup {"except"} :
                 /\ Moves(t, at)
                 /\ at # "setPaused"
                 /\ at = "notePaused" => run.pauseRequested
           /\ lease' \in {lease, None, "step", "resume"}
<1> USE DEF Working, Places, Moves, Kept, file, latch, counters, history, At, AfterError, Fails
<1>1. CASE CheckStop(t)
  BY <1>1 DEF CheckStop
<1>2. CASE Recheck(t)
  BY <1>2 DEF Recheck
<1>3. CASE Plan(t)
  BY <1>3 DEF Plan
<1>4. CASE Execute(t)
  BY <1>4 DEF Execute
<1>5. CASE ExecEnds(t)
  BY <1>5 DEF ExecEnds
<1>6. CASE SeeCanceled(t)
  BY <1>6 DEF SeeCanceled
<1>7. CASE ResumeJob(t)
  BY <1>7 DEF ResumeJob
<1>8. CASE JobEnds(t)
  BY <1>8 DEF JobEnds
<1> QED BY <1>1, <1>2, <1>3, <1>4, <1>5, <1>6, <1>7, <1>8 DEF OnlyMoves

(* The initial state has its types.                                        *)
LEMMA InitType == Init => TypeOK
<1> SUFFICES ASSUME Init PROVE TypeOK
  OBVIOUS
<1>1. /\ canceling \in BOOLEAN /\ stopped \in BOOLEAN /\ stopping \in BOOLEAN
      /\ stranded \in BOOLEAN /\ pauseUnsaved \in BOOLEAN
  BY Zenon DEF Init
<1>2. run \in Runs /\ saved \in Runs /\ halted \in 0..MaxRuns
  BY BoundsAssumption DEF Init, NoRun, Runs
<1>3. thread \in [Threads -> LoopThread]
  BY DEF Init, Off, LoopThread, Places
<1>4. /\ pauses \in 0..MaxPauses /\ stops \in 0..MaxStops
      /\ restarts \in 0..MaxRestarts /\ failures \in 0..MaxFailures
  BY BoundsAssumption DEF Init
<1> QED BY <1>1, <1>2, <1>3, <1>4 DEF Init, TypeOK

(* A thread that goes on keeps its types.                                  *)
LEMMA GotoType ==
    ASSUME TypeOK, NEW t \in Threads, NEW at \in Places, Goto(t, at)
    PROVE  thread' \in [Threads -> LoopThread]
<1>1. [thread[t] EXCEPT !.at = at] \in LoopThread
  BY DEF TypeOK, LoopThread
<1> QED BY <1>1 DEF TypeOK, Goto

(* So does one that begins, ...                                            *)
LEMMA SetType ==
    ASSUME TypeOK, NEW t \in Threads, NEW at \in Places, NEW step \in Nat,
           thread' = [thread EXCEPT ![t] =
                         [Off EXCEPT !.at = at, !.step = step, !.handlers = 1]]
    PROVE  thread' \in [Threads -> LoopThread]
<1>1. Off \in LoopThread /\ 1 \in 0..2
  BY DEF LoopThread, Off, Places
<1>2. [Off EXCEPT !.at = at, !.step = step, !.handlers = 1] \in LoopThread
  BY <1>1, ZenonT(60) DEF LoopThread
<1> QED BY <1>1, <1>2 DEF TypeOK

(* ... and one that has ended.                                             *)
LEMMA EndsType ==
    ASSUME TypeOK, NEW t \in Threads, Ends(t)
    PROVE  thread' \in [Threads -> LoopThread]
<1>1. Off \in LoopThread
  BY DEF LoopThread, Off, Places
<1> QED BY <1>1 DEF TypeOK, Ends

(* A write leaves a run in the file, and is counted when it raises.        *)
LEMMA WriteType ==
    ASSUME TypeOK, run' \in Runs, Saves \/ Raises
    PROVE  saved' \in Runs /\ failures' \in 0..MaxFailures
  BY BoundsAssumption DEF TypeOK, Saves, Raises

(* A run that changes its state is a run.                                  *)
LEMMA StateType ==
    ASSUME TypeOK, NEW state \in ACTIVE \cup TERMINAL, SetState(state)
    PROVE  run' \in Runs
  BY DEF TypeOK, Runs, SetState

(* _finish() keeps the types, ...                                          *)
LEMMA FinishType ==
    ASSUME TypeOK, NEW state \in TERMINAL,
           \/ Finish(state)
           \/ FinishRaises(state) /\ (stranded' = TRUE \/ UNCHANGED stranded)
    PROVE  /\ run' \in Runs /\ saved' \in Runs
           /\ failures' \in 0..MaxFailures
           /\ reservation' \in {None, "repeat", "interrupted"}
           /\ stranded' \in BOOLEAN
<1>1. run' \in Runs
  BY StateType DEF Finish, FinishRaises
<1>2. saved' \in Runs /\ failures' \in 0..MaxFailures
  BY <1>1, WriteType DEF Finish, FinishRaises
<1>3. reservation' \in {None, "repeat", "interrupted"}
  BY DEF TypeOK, Finish, FinishRaises
<1>4. stranded' \in BOOLEAN
  BY Zenon DEF TypeOK, Finish
<1> QED BY <1>1, <1>2, <1>3, <1>4

(* ... also when a thread calls it.                                        *)
LEMMA FinishByType ==
    ASSUME TypeOK, NEW t \in Threads, NEW state \in TERMINAL, FinishBy(t, state)
    PROVE  /\ run' \in Runs /\ saved' \in Runs
           /\ failures' \in 0..MaxFailures
           /\ reservation' \in {None, "repeat", "interrupted"}
           /\ stranded' \in BOOLEAN
           /\ thread' \in [Threads -> LoopThread]
<1>1. thread' \in [Threads -> LoopThread]
  BY EndsType, GotoType DEF FinishBy, AfterError, Places
<1>2. \/ Finish(state)
      \/ FinishRaises(state) /\ UNCHANGED stranded
  BY DEF FinishBy
<1> QED BY <1>1, <1>2, FinishType

(* A pause keeps them.                                                     *)
LEMMA PauseByType ==
    ASSUME TypeOK, NEW t \in Threads, PauseBy(t)
    PROVE  /\ run' \in Runs /\ saved' \in Runs
           /\ failures' \in 0..MaxFailures
           /\ pauseUnsaved' \in BOOLEAN
           /\ thread' \in [Threads -> LoopThread]
<1>1. thread' \in [Threads -> LoopThread]
  BY EndsType, GotoType DEF PauseBy, AfterError, Places
<1>2. run' \in Runs
  BY StateType DEF PauseBy, ACTIVE
<1>3. saved' \in Runs /\ failures' \in 0..MaxFailures
  BY <1>2, WriteType DEF PauseBy
<1>4. pauseUnsaved' \in BOOLEAN
  BY Zenon DEF TypeOK, PauseBy
<1> QED BY <1>1, <1>2, <1>3, <1>4

(* What most steps leave alone keeps its types.                            *)
LEMMA KeptType ==
    ASSUME TypeOK, UNCHANGED Kept
    PROVE  /\ canceling' \in BOOLEAN /\ stopped' \in BOOLEAN /\ stopping' \in BOOLEAN
           /\ verifier' \in [Verifiers -> {"idle", "checking", "quiet", "notQuiet"}]
           /\ halted' \in 0..MaxRuns
           /\ pauses' \in 0..MaxPauses /\ stops' \in 0..MaxStops
           /\ restarts' \in 0..MaxRestarts
<1> USE DEF TypeOK, Kept, latch, counters
<1>1. /\ canceling' = canceling /\ stopped' = stopped /\ stopping' = stopping
      /\ verifier' = verifier /\ halted' = halted
      /\ pauses' = pauses /\ stops' = stops /\ restarts' = restarts
  OBVIOUS
<1> QED BY <1>1, Zenon

(* A thread that only moves.                                               *)
LEMMA MovesType == ASSUME NEW t \in Threads, TypeOK, OnlyMoves(t) PROVE TypeOK'
<1>1. PICK at \in Working \cup {"except"} : Moves(t, at)
  BY MovesOnly
<1>2. thread' \in [Threads -> LoopThread]
  BY <1>1, GotoType DEF Moves, Working, Places
<1>3. /\ run' = run /\ saved' = saved /\ failures' = failures
      /\ reservation' = reservation /\ stranded' = stranded /\ pauseUnsaved' = pauseUnsaved
      /\ UNCHANGED Kept
  BY <1>1 DEF Moves, file
<1>4. lease' \in Leases
  BY MovesOnly DEF TypeOK, Leases
<1>5. stranded' \in BOOLEAN /\ pauseUnsaved' \in BOOLEAN
  BY <1>3, Zenon DEF TypeOK
<1> QED BY <1>2, <1>3, <1>4, <1>5, KeptType DEF TypeOK, Leases

(* The top of the loop.                                                    *)
LEMMA TopType == ASSUME NEW t \in Threads, TypeOK, Top(t) PROVE TypeOK'
<1>1. UNCHANGED <<lease, Kept>>
  BY DEF Top, Kept, latch, counters
<1>2. CASE /\ Ends(t)
           /\ UNCHANGED <<run, file, reservation, stranded, pauseUnsaved>>
  <2>1. thread' \in [Threads -> LoopThread]
    BY <1>2, EndsType
  <2>2. stranded' \in BOOLEAN /\ pauseUnsaved' \in BOOLEAN
    BY <1>2, Zenon DEF TypeOK
  <2> QED BY <1>1, <1>2, <2>1, <2>2, KeptType DEF TypeOK, file
<1>3. CASE FinishBy(t, "completed") /\ UNCHANGED pauseUnsaved
  <2>1. pauseUnsaved' \in BOOLEAN
    BY <1>3, Zenon DEF TypeOK
  <2> QED BY <1>1, <1>3, <2>1, FinishByType, KeptType DEF TypeOK, TERMINAL
<1>4. CASE PauseBy(t) /\ UNCHANGED <<reservation, stranded>>
  <2>1. stranded' \in BOOLEAN
    BY <1>4, Zenon DEF TypeOK
  <2> QED BY <1>1, <1>4, <2>1, PauseByType, KeptType DEF TypeOK
<1>5. CASE /\ thread' = [thread EXCEPT ![t].at = "check", ![t].step = run.cursor,
                                       ![t].cancel = FALSE]
           /\ UNCHANGED <<run, file, reservation, stranded, pauseUnsaved>>
  <2>1. [thread[t] EXCEPT !.at = "check", !.step = run.cursor, !.cancel = FALSE] \in LoopThread
    <3>1. thread[t] \in LoopThread /\ run.cursor \in Nat /\ "check" \in Places
      BY DEF TypeOK, Runs, Places
    <3> QED BY <3>1, ZenonT(60) DEF LoopThread
  <2>2. thread' \in [Threads -> LoopThread]
    BY <1>5, <2>1 DEF TypeOK
  <2>3. stranded' \in BOOLEAN /\ pauseUnsaved' \in BOOLEAN
    BY <1>5, Zenon DEF TypeOK
  <2> QED BY <1>1, <1>5, <2>2, <2>3, KeptType DEF TypeOK, file
<1> QED BY <1>2, <1>3, <1>4, <1>5 DEF Top

(* The outcome of a step is noted.                                         *)
LEMMA NoteType == ASSUME NEW t \in Threads, TypeOK, Note(t) PROVE TypeOK'
<1>1. UNCHANGED <<lease, Kept>>
  BY DEF Note, Kept, latch, counters, history
<1>2. \E at \in Places : Goto(t, at)
  BY DEF Note, AfterNote, AfterError, Places
<1>3. thread' \in [Threads -> LoopThread]
  BY <1>2, GotoType
<1>4. run' \in Runs
  BY DEF Note, TypeOK
<1>5. saved' \in Runs /\ failures' \in 0..MaxFailures
  BY <1>4, WriteType DEF Note
<1>6. reservation' = reservation /\ stranded' = stranded /\ pauseUnsaved' = pauseUnsaved
  BY DEF Note, history
<1>7. stranded' \in BOOLEAN /\ pauseUnsaved' \in BOOLEAN
  BY <1>6, Zenon DEF TypeOK
<1> QED BY <1>1, <1>3, <1>4, <1>5, <1>6, <1>7, KeptType DEF TypeOK

(* The cursor moves on.                                                    *)
LEMMA AdvanceType == ASSUME NEW t \in Threads, TypeOK, Advance(t) PROVE TypeOK'
<1>1. UNCHANGED <<lease, Kept>>
  BY DEF Advance, Kept, latch, counters, history
<1>2. thread' \in [Threads -> LoopThread]
  <2>1. [thread[t] EXCEPT !.at = "top", !.handlers = IF At(t, "resumed") THEN 2 ELSE @]
           \in LoopThread
    <3>1. thread[t] \in LoopThread /\ "top" \in Places
      BY DEF TypeOK, Places
    <3>2. (IF At(t, "resumed") THEN 2 ELSE thread[t].handlers) \in 0..2
      BY <3>1 DEF LoopThread
    <3> QED BY <3>1, <3>2, ZenonT(60) DEF LoopThread
  <2>2. CASE thread' = [thread EXCEPT ![t].at = "top",
                                      ![t].handlers = IF At(t, "resumed") THEN 2 ELSE @]
    BY <2>1, <2>2 DEF TypeOK
  <2>3. CASE Goto(t, AfterError)
    BY <2>3, GotoType DEF AfterError, Places
  <2> QED BY <2>2, <2>3 DEF Advance
<1>3. run' \in Runs
  <2>1. run \in Runs /\ NextCursor \in Nat /\ "running" \in ACTIVE \cup TERMINAL \cup {"none"}
    BY DEF TypeOK, Runs, NextCursor, ACTIVE
  <2>2. [run EXCEPT !.cursor = NextCursor] \in Runs
    BY <2>1, ZenonT(60) DEF Runs
  <2>3. [run EXCEPT !.cursor = NextCursor, !.state = "running"] \in Runs
    BY <2>1, ZenonT(60) DEF Runs
  <2> QED BY <2>2, <2>3 DEF Advance
<1>4. saved' \in Runs /\ failures' \in 0..MaxFailures
  BY <1>3, WriteType DEF Advance
<1>5. reservation' = reservation /\ stranded' = stranded /\ pauseUnsaved' = pauseUnsaved
  BY DEF Advance, history
<1>6. stranded' \in BOOLEAN /\ pauseUnsaved' \in BOOLEAN
  BY <1>5, Zenon DEF TypeOK
<1> QED BY <1>1, <1>2, <1>3, <1>4, <1>5, <1>6, KeptType DEF TypeOK

(* The run comes to rest.                                                  *)
LEMMA SetPausedType == ASSUME NEW t \in Threads, TypeOK, SetPaused(t) PROVE TypeOK'
<1>1. UNCHANGED <<lease, reservation, stranded, Kept>>
  BY DEF SetPaused, Kept, latch, counters
<1>2. stranded' \in BOOLEAN
  BY <1>1, Zenon DEF TypeOK
<1> QED BY <1>1, <1>2, PauseByType, KeptType DEF SetPaused, TypeOK

(* A step that ends the run.                                               *)
LEMMA StepFinishesType == ASSUME NEW t \in Threads, TypeOK, StepFinishes(t) PROVE TypeOK'
<1>1. UNCHANGED <<lease, pauseUnsaved, Kept>>
  BY DEF StepFinishes, Kept, latch, counters
<1>2. pauseUnsaved' \in BOOLEAN
  BY <1>1, Zenon DEF TypeOK
<1>3. PICK state \in TERMINAL : FinishBy(t, state)
  BY DEF StepFinishes, TERMINAL
<1> QED BY <1>1, <1>2, <1>3, FinishByType, KeptType DEF TypeOK

(* The except clause.                                                      *)
LEMMA ExceptType == ASSUME NEW t \in Threads, TypeOK, Except(t) PROVE TypeOK'
<1>1. UNCHANGED <<lease, pauseUnsaved, Kept>>
  BY DEF Except, Kept, latch, counters
<1>2. pauseUnsaved' \in BOOLEAN
  BY <1>1, Zenon DEF TypeOK
<1>3. thread' \in [Threads -> LoopThread]
  <2>1. CASE Ends(t)
    BY <2>1, EndsType
  <2>2. CASE thread[t].handlers > 1 /\ thread' = [thread EXCEPT ![t].handlers = @ - 1]
    <3>1. [thread[t] EXCEPT !.handlers = @ - 1] \in LoopThread
      BY <2>2 DEF TypeOK, LoopThread
    <3> QED BY <2>2, <3>1 DEF TypeOK
  <2> QED BY <2>1, <2>2 DEF Except
<1>4. \/ Finish("failed")
      \/ FinishRaises("failed") /\ (stranded' = TRUE \/ UNCHANGED stranded)
  BY DEF Except
<1> QED BY <1>1, <1>2, <1>3, <1>4, FinishType, KeptType DEF TypeOK, TERMINAL

(* A thread keeps the types.                                               *)
LEMMA ThreadType == ASSUME NEW t \in Threads, TypeOK, ThreadStep(t) PROVE TypeOK'
  BY MovesType, TopType, NoteType, AdvanceType, SetPausedType, StepFinishesType, ExceptType
  DEF ThreadStep, OnlyMoves

(* What the requests leave alone keeps its types.                          *)
LEMMA HistoryType ==
    ASSUME TypeOK, UNCHANGED history
    PROVE  halted' \in 0..MaxRuns /\ stranded' \in BOOLEAN /\ pauseUnsaved' \in BOOLEAN
<1>1. halted' = halted /\ stranded' = stranded /\ pauseUnsaved' = pauseUnsaved
  BY DEF history
<1> QED BY <1>1, Zenon DEF TypeOK

(* A new run.                                                              *)
LEMMA StartType == ASSUME NEW t \in Threads, TypeOK, Start(t) PROVE TypeOK'
<1>1. UNCHANGED <<lease, Kept>> /\ pauseUnsaved' = pauseUnsaved
  BY DEF Start, Kept, latch, counters
<1>2. stranded' \in BOOLEAN /\ pauseUnsaved' \in BOOLEAN
  BY <1>1, Zenon DEF TypeOK, Start
<1>3. run' \in Runs
  <2>1. NoRun \in Runs /\ run.id + 1 \in 0..MaxRuns
    BY BoundsAssumption DEF TypeOK, Start, NoRun, Runs
  <2>2. "running" \in ACTIVE \cup TERMINAL \cup {"none"}
    BY DEF ACTIVE
  <2>3. [NoRun EXCEPT !.id = run.id + 1, !.state = "running"] \in Runs
    BY <2>1, <2>2, ZenonT(60) DEF Runs
  <2> QED BY <2>3 DEF Start
<1>4. saved' \in Runs /\ failures' \in 0..MaxFailures
  BY <1>3, WriteType DEF Start
<1>5. thread' \in [Threads -> LoopThread]
  <2>1. Off \in LoopThread /\ 1 \in 0..2 /\ "top" \in Places
    BY DEF LoopThread, Off, Places
  <2>2. [Off EXCEPT !.at = "top", !.handlers = 1] \in LoopThread
    BY <2>1, ZenonT(60) DEF LoopThread
  <2> QED BY <2>2 DEF TypeOK, Start
<1> QED BY <1>1, <1>2, <1>3, <1>4, <1>5, KeptType DEF TypeOK, Start

(* A resumed run.                                                          *)
LEMMA ResumeType == ASSUME NEW t \in Threads, TypeOK, Resume(t) PROVE TypeOK'
<1>1. UNCHANGED <<lease, reservation, Kept>> /\ UNCHANGED history
  BY DEF Resume, Kept, latch, counters, history
<1>2. PICK next \in {[state |-> "running", at |-> "top", step |-> 0],
                     [state |-> "resuming", at |-> "reserve", step |-> run.cursor]} :
         /\ run' = [run EXCEPT !.state = next.state, !.pauseRequested = FALSE]
         /\ Saves \/ Raises
         /\ \/ thread' = [thread EXCEPT ![t] =
                   [Off EXCEPT !.at = next.at, !.step = next.step, !.handlers = 1]]
            \/ UNCHANGED thread
  BY DEF Resume
<1>3. next.state \in ACTIVE /\ next.at \in Places /\ next.step \in Nat
  BY <1>2 DEF TypeOK, Runs, ACTIVE, Places
<1>4. run' \in Runs
  BY <1>2, <1>3 DEF TypeOK, Runs
<1>5. saved' \in Runs /\ failures' \in 0..MaxFailures
  BY <1>2, <1>4, WriteType
<1>6. thread' \in [Threads -> LoopThread]
  BY <1>2, <1>3, SetType DEF TypeOK
<1> QED BY <1>1, <1>4, <1>5, <1>6, HistoryType, KeptType DEF TypeOK

(* The mark of a run that is to end with its round.                        *)
LEMMA FinishAfterRoundType == ASSUME TypeOK, FinishAfterRound PROVE TypeOK'
<1>1. UNCHANGED <<lease, reservation, thread, Kept>> /\ UNCHANGED history
  BY DEF FinishAfterRound, Kept, latch, counters, history
<1>2. run' \in Runs
  BY DEF FinishAfterRound, TypeOK, Runs
<1>3. saved' \in Runs /\ failures' \in 0..MaxFailures
  BY <1>2, WriteType DEF FinishAfterRound
<1> QED BY <1>1, <1>2, <1>3, HistoryType, KeptType DEF TypeOK

(* A run that is asked to pause.                                           *)
LEMMA PauseType == ASSUME TypeOK, Pause PROVE TypeOK'
<1>1. /\ UNCHANGED <<lease, reservation, thread, verifier, stops, restarts>>
      /\ UNCHANGED history
      /\ stopped' = stopped /\ stopping' = stopping
      /\ canceling' = TRUE \/ canceling' = canceling
      /\ pauses' = pauses + 1 /\ pauses < MaxPauses
  BY DEF Pause, latch, history
<1>2. run' \in Runs
  BY DEF Pause, TypeOK, Runs, ACTIVE
<1>3. saved' \in Runs /\ failures' \in 0..MaxFailures
  BY <1>2, WriteType DEF Pause
<1>4. canceling' \in BOOLEAN /\ stopped' \in BOOLEAN /\ stopping' \in BOOLEAN
  BY <1>1, Zenon DEF TypeOK
<1>5. pauses' \in 0..MaxPauses
  BY <1>1, BoundsAssumption DEF TypeOK
<1> QED BY <1>1, <1>2, <1>3, <1>4, <1>5, HistoryType DEF TypeOK

(* The cancel of its execution.                                            *)
LEMMA CancelActiveExecutionType == ASSUME TypeOK, CancelActiveExecution PROVE TypeOK'
<1>1. /\ UNCHANGED <<run, saved, failures, reservation, lease, verifier>>
      /\ UNCHANGED history
      /\ UNCHANGED <<stopped, stopping, pauses, stops, restarts>>
  BY DEF CancelActiveExecution, file, latch, counters
<1>2. canceling' \in BOOLEAN /\ stopped' \in BOOLEAN /\ stopping' \in BOOLEAN
  BY <1>1, Zenon DEF TypeOK, CancelActiveExecution
<1>3. thread' \in [Threads -> LoopThread]
  <2>1. ASSUME NEW t \in Threads PROVE [thread[t] EXCEPT !.cancel = TRUE] \in LoopThread
    BY DEF TypeOK, LoopThread
  <2> QED BY <2>1 DEF CancelActiveExecution, TypeOK
<1> QED BY <1>1, <1>2, <1>3, HistoryType DEF TypeOK

(* A paused run is cancelled.                                              *)
LEMMA CancelType == ASSUME TypeOK, Cancel PROVE TypeOK'
<1>1. UNCHANGED <<lease, thread, Kept>> /\ pauseUnsaved' = pauseUnsaved
  BY DEF Cancel, Kept, latch, counters
<1>2. pauseUnsaved' \in BOOLEAN
  BY <1>1, Zenon DEF TypeOK
<1>3. \/ Finish("cancelled")
      \/ FinishRaises("cancelled") /\ (stranded' = TRUE \/ UNCHANGED stranded)
  BY DEF Cancel
<1> QED BY <1>1, <1>2, <1>3, FinishType, KeptType DEF TypeOK, TERMINAL

(* A global stop.                                                          *)
LEMMA PressType == ASSUME TypeOK, Press PROVE TypeOK'
<1>1. /\ UNCHANGED <<run, saved, failures, reservation, lease, thread, verifier, pauses,
                     restarts>>
      /\ canceling' = canceling /\ stopped' = TRUE /\ stopping' = TRUE
      /\ stranded' = stranded /\ pauseUnsaved' = pauseUnsaved
      /\ stops' = stops + 1 /\ stops < MaxStops
      /\ halted' = 0 \/ halted' = run.id
  BY DEF Press, file
<1>2. /\ canceling' \in BOOLEAN /\ stopped' \in BOOLEAN /\ stopping' \in BOOLEAN
      /\ stranded' \in BOOLEAN /\ pauseUnsaved' \in BOOLEAN
  BY <1>1, Zenon DEF TypeOK
<1>3. halted' \in 0..MaxRuns
  BY <1>1, BoundsAssumption DEF TypeOK, Runs
<1>4. stops' \in 0..MaxStops
  BY <1>1, BoundsAssumption DEF TypeOK
<1> QED BY <1>1, <1>2, <1>3, <1>4 DEF TypeOK

(* The stop comes to the run.                                              *)
LEMMA OnGlobalStopType == ASSUME TypeOK, OnGlobalStop PROVE TypeOK'
<1>1. /\ UNCHANGED <<lease, thread, canceling, verifier, stopped, counters, halted>>
      /\ pauseUnsaved' = pauseUnsaved /\ stopping' = FALSE
  BY DEF OnGlobalStop
<1>2. /\ canceling' \in BOOLEAN /\ stopped' \in BOOLEAN /\ stopping' \in BOOLEAN
      /\ pauseUnsaved' \in BOOLEAN
  BY <1>1, Zenon DEF TypeOK
<1>3. CASE \/ Finish("stopped")
           \/ FinishRaises("stopped") /\ (stranded' = TRUE \/ UNCHANGED stranded)
  BY <1>1, <1>2, <1>3, FinishType DEF TypeOK, TERMINAL, counters
<1>4. CASE UNCHANGED <<run, file, reservation, stranded>>
  <2>1. stranded' \in BOOLEAN
    BY <1>4, Zenon DEF TypeOK
  <2> QED BY <1>1, <1>2, <1>4, <2>1 DEF TypeOK, file, counters
<1> QED BY <1>3, <1>4 DEF OnGlobalStop

(* The latch is released.                                                  *)
LEMMA ReleaseType == ASSUME TypeOK, Release PROVE TypeOK'
<1>1. /\ UNCHANGED <<run, saved, failures, reservation, lease, thread, verifier, canceling,
                     stopping, pauses, stops, restarts>>
      /\ UNCHANGED history
      /\ stopped' = FALSE
  BY DEF Release, file, counters
<1>2. canceling' \in BOOLEAN /\ stopped' \in BOOLEAN /\ stopping' \in BOOLEAN
  BY <1>1, Zenon DEF TypeOK
<1> QED BY <1>1, <1>2, HistoryType DEF TypeOK

(* The three steps of verify().                                            *)
LEMMA VerifyType ==
    ASSUME NEW v \in Verifiers, TypeOK, Verify(v) \/ CheckQuiet(v) PROVE TypeOK'
<1>1. /\ UNCHANGED <<run, saved, failures, reservation, lease, thread, canceling, stopped,
                     stopping, pauses, stops, restarts>>
      /\ UNCHANGED history
  BY DEF Verify, CheckQuiet, file, latch, counters
<1>2. canceling' \in BOOLEAN /\ stopped' \in BOOLEAN /\ stopping' \in BOOLEAN
  BY <1>1, Zenon DEF TypeOK
<1>3. verifier' \in [Verifiers -> {"idle", "checking", "quiet", "notQuiet"}]
  BY DEF Verify, CheckQuiet, TypeOK
<1> QED BY <1>1, <1>2, <1>3, HistoryType DEF TypeOK

LEMMA UnlockType == ASSUME NEW v \in Verifiers, TypeOK, Unlock(v) PROVE TypeOK'
<1>1. /\ UNCHANGED <<lease, thread, canceling, stopped, stopping, pauses, stops, restarts,
                     halted>>
      /\ pauseUnsaved' = pauseUnsaved
      /\ stranded' = FALSE \/ stranded' = stranded
  BY DEF Unlock, latch, counters
<1>2. /\ canceling' \in BOOLEAN /\ stopped' \in BOOLEAN /\ stopping' \in BOOLEAN
      /\ stranded' \in BOOLEAN /\ pauseUnsaved' \in BOOLEAN
  BY <1>1, Zenon DEF TypeOK
<1>3. run' \in Runs /\ reservation' \in {None, "repeat", "interrupted"}
  <2>1. [run EXCEPT !.lockHeld = FALSE] \in Runs
    BY DEF TypeOK, Runs
  <2> QED BY <2>1 DEF Unlock, TypeOK
<1>4. saved' \in Runs /\ failures' \in 0..MaxFailures
  BY <1>3, WriteType DEF Unlock
<1>5. verifier' \in [Verifiers -> {"idle", "checking", "quiet", "notQuiet"}]
  BY DEF Unlock, TypeOK
<1> QED BY <1>1, <1>2, <1>3, <1>4, <1>5 DEF TypeOK

(* A restart reads the file, and writes it.                                *)
LEMMA RestartType == ASSUME TypeOK, Restart PROVE TypeOK'
<1>1. /\ stranded' \in BOOLEAN /\ pauseUnsaved' \in BOOLEAN
      /\ canceling' \in BOOLEAN /\ stopped' \in BOOLEAN /\ stopping' \in BOOLEAN
  BY Zenon DEF Restart
<1>2. run' \in Runs
  <2>1. saved \in Runs /\ "interrupted" \in ACTIVE \cup TERMINAL \cup {"none"}
    BY DEF TypeOK, TERMINAL
  <2>2. [saved EXCEPT !.state = "interrupted", !.lockHeld = TRUE] \in Runs
    BY <2>1, ZenonT(60) DEF Runs
  <2> QED BY <2>1, <2>2 DEF Restart
<1>3. saved' \in Runs /\ failures' \in 0..MaxFailures
  BY <1>2, WriteType DEF Restart
<1>4. reservation' \in {None, "repeat", "interrupted"} /\ lease' \in Leases
  BY DEF Restart, AfterLoad, Leases, TypeOK
<1>5. thread' \in [Threads -> LoopThread]
  BY DEF Restart, LoopThread, Off, Places
<1>6. restarts' \in 0..MaxRestarts /\ halted' \in 0..MaxRuns
  BY BoundsAssumption DEF Restart, TypeOK
<1> QED BY <1>1, <1>2, <1>3, <1>4, <1>5, <1>6 DEF TypeOK, Restart, Leases

(* The other users of the cell.                                            *)
LEMMA OtherType == ASSUME TypeOK, OtherBegins \/ OtherEnds PROVE TypeOK'
<1>1. /\ UNCHANGED <<run, saved, failures, reservation, thread, Kept>>
      /\ UNCHANGED history
      /\ lease' \in Leases
  BY DEF OtherBegins, OtherEnds, file, Kept, latch, counters, history, Leases
<1> QED BY <1>1, HistoryType, KeptType DEF TypeOK, Leases

(* Every step keeps the types.                                             *)
LEMMA NextType == TypeOK /\ [Next]_vars => TypeOK'
<1> SUFFICES ASSUME TypeOK, [Next]_vars PROVE TypeOK'
  OBVIOUS
<1>1. ASSUME NEW t \in Threads, Start(t) \/ Resume(t) \/ ThreadStep(t) PROVE TypeOK'
  BY <1>1, StartType, ResumeType, ThreadType
<1>2. CASE FinishAfterRound \/ Pause \/ CancelActiveExecution \/ Cancel
  BY <1>2, FinishAfterRoundType, PauseType, CancelActiveExecutionType, CancelType
<1>3. CASE Press \/ OnGlobalStop \/ Release
  BY <1>3, PressType, OnGlobalStopType, ReleaseType
<1>4. ASSUME NEW v \in Verifiers, Verify(v) \/ CheckQuiet(v) \/ Unlock(v) PROVE TypeOK'
  BY <1>4, VerifyType, UnlockType
<1>5. CASE Restart \/ OtherBegins \/ OtherEnds
  BY <1>5, RestartType, OtherType
<1>6. CASE UNCHANGED vars
  <2>1. /\ UNCHANGED <<run, saved, failures, reservation, thread, lease, Kept>>
        /\ UNCHANGED history
    BY <1>6 DEF vars, file, Kept, latch, counters, history
  <2> QED BY <2>1, HistoryType, KeptType DEF TypeOK
<1> QED BY <1>1, <1>2, <1>3, <1>4, <1>5, <1>6 DEF Next

(* The types of the specification.                                         *)
THEOREM TypeCorrect == Spec => []TypeOK
  BY InitType, NextType, PTL DEF Spec

-----------------------------------------------------------------------------
(* The lock of an interrupted run                                          *)

(* What a step of a thread can change, in one view of it.                  *)
LEMMA ThreadChanges ==
    ASSUME NEW t \in Threads, TypeOK, ThreadStep(t)
    PROVE  /\ thread[t].at # "off"
           /\ \A u \in Threads : u # t => thread'[u] = thread[u]
           /\ run'.lockHeld = run.lockHeld
           /\ run'.pauseRequested = run.pauseRequested
           /\ saved' \in {saved, run'}
           /\ reservation' \in {reservation, None}
           /\ lease' \in {lease, None, "step", "resume"}
           /\ UNCHANGED Kept
<1> USE DEF TypeOK, Runs, At, Goto, Ends, AfterError, SetState, Saves, Raises, Finish, FinishRaises,
        FinishBy, PauseBy, Kept, latch, counters, history
<1>1. CASE OnlyMoves(t)
  <2>1. PICK at \in Working \cup {"except"} : Moves(t, at)
    BY <1>1, MovesOnly
  <2>2. thread[t].at # "off" /\ lease' \in {lease, None, "step", "resume"}
    BY <1>1, MovesOnly DEF Working
  <2> QED BY <2>1, <2>2 DEF Moves, file
<1>2. CASE Top(t)
  BY <1>2 DEF Top, file
<1>3. CASE Note(t)
  BY <1>3 DEF Note, AfterNote
<1>4. CASE Advance(t)
  BY <1>4 DEF Advance
<1>5. CASE SetPaused(t)
  BY <1>5 DEF SetPaused
<1>6. CASE StepFinishes(t)
  BY <1>6 DEF StepFinishes
<1>7. CASE Except(t)
  BY <1>7 DEF Except
<1> QED BY <1>1, <1>2, <1>3, <1>4, <1>5, <1>6, <1>7 DEF ThreadStep, OnlyMoves

(* A locked run is at rest: it holds the cell, is locked in the file too,  *)
(* has no thread, and the lease can only be that of its adopted process.   *)
LockInv ==
    run.lockHeld =>
        /\ reservation = "interrupted"
        /\ run.state = "interrupted"
        /\ saved.lockHeld
        /\ lease \in {None, "orphan"}
        /\ \A t \in Threads : thread[t].at = "off"

(* The file never holds the lock of a run that a restart would not lock.   *)
SavedInv == saved.lockHeld => saved.state = "interrupted"

(* What verify() has seen stays true as long as the lock is held.          *)
SeenInv == \A v \in Verifiers : verifier[v] = "quiet" /\ run.lockHeld => lease = None

LockIInv == LockInv /\ SavedInv /\ SeenInv

(* No thread works on a locked run.                                        *)
LEMMA ThreadLock ==
    ASSUME NEW t \in Threads, TypeOK, LockIInv, ThreadStep(t) PROVE LockIInv'
<1>1. ~run.lockHeld /\ ~run'.lockHeld
  BY ThreadChanges DEF LockIInv, LockInv
<1> QED BY <1>1, ThreadChanges DEF LockIInv, LockInv, SavedInv, SeenInv

(* No request but verify() is for a locked run.                            *)
LEMMA RequestLock ==
    ASSUME TypeOK, LockIInv,
           \/ \E t \in Threads : Start(t) \/ Resume(t)
           \/ FinishAfterRound \/ Pause \/ CancelActiveExecution \/ Cancel
    PROVE  LockIInv'
<1> USE DEF TypeOK, Runs, LockIInv, LockInv, SavedInv, SeenInv, Saves, Raises
<1>1. CASE CancelActiveExecution
  <2>1. \A t \in Threads : thread'[t].at = thread[t].at
    BY <1>1 DEF CancelActiveExecution, At, LoopThread
  <2> QED BY <1>1, <2>1 DEF CancelActiveExecution, file
<1>2. ASSUME NEW t \in Threads, Start(t) PROVE LockIInv'
  <2>1. ~run'.lockHeld
    BY <1>2 DEF Start, NoRun
  <2> QED BY <1>2, <2>1 DEF Start
<1>3. ASSUME NEW t \in Threads, Resume(t) PROVE LockIInv'
  <2>1. ~run.lockHeld /\ ~run'.lockHeld
    BY <1>3 DEF Resume, Resumable
  <2> QED BY <1>3, <2>1 DEF Resume
<1>4. CASE FinishAfterRound
  <2>1. ~run.lockHeld /\ ~run'.lockHeld
    BY <1>4 DEF FinishAfterRound, Active, ACTIVE
  <2> QED BY <1>4, <2>1 DEF FinishAfterRound
<1>5. CASE Pause
  <2>1. ~run.lockHeld /\ ~run'.lockHeld
    BY <1>5 DEF Pause
  <2> QED BY <1>5, <2>1 DEF Pause
<1>6. CASE Cancel
  <2>1. ~run.lockHeld /\ ~run'.lockHeld
    BY <1>6 DEF Cancel, Finish, FinishRaises, SetState
  <2> QED BY <1>6, <2>1 DEF Cancel, Finish, FinishRaises
<1> QED BY <1>1, <1>2, <1>3, <1>4, <1>5, <1>6

(* A global stop leaves a locked run as it is.                             *)
LEMMA StopLock ==
    ASSUME TypeOK, LockIInv, Press \/ OnGlobalStop \/ Release PROVE LockIInv'
<1> USE DEF TypeOK, Runs, LockIInv, LockInv, SavedInv, SeenInv
<1>1. CASE Press \/ Release
  BY <1>1 DEF Press, Release, file
<1>2. CASE OnGlobalStop /\ UNCHANGED <<run, file, reservation, stranded>>
  BY <1>2 DEF OnGlobalStop, file
<1>3. CASE /\ OnGlobalStop /\ run.state \in {"paused", "pausing"}
           /\ Finish("stopped") \/ FinishRaises("stopped")
  <2>1. ~run.lockHeld /\ ~run'.lockHeld
    BY <1>3 DEF Finish, FinishRaises, SetState
  <2>2. saved' \in {saved, run'} /\ verifier' = verifier
    BY <1>3 DEF OnGlobalStop, Finish, FinishRaises, Saves, Raises
  <2> QED BY <2>1, <2>2
<1> QED BY <1>1, <1>2, <1>3 DEF OnGlobalStop

(* Between the check of the cell and the lock nobody begins.               *)
LEMMA VerifyLock ==
    ASSUME NEW v \in Verifiers, TypeOK, LockIInv, Verify(v) \/ CheckQuiet(v) \/ Unlock(v)
    PROVE  LockIInv'
<1> USE DEF TypeOK, Runs, LockIInv, LockInv, SavedInv, SeenInv
<1>1. CASE Verify(v) \/ CheckQuiet(v)
  BY <1>1 DEF Verify, CheckQuiet, Quiet, file
<1>2. CASE Unlock(v) /\ verifier[v] = "quiet"
  <2>1. ~run'.lockHeld /\ run'.state = run.state
    BY <1>2 DEF Unlock
  <2> QED BY <1>2, <2>1 DEF Unlock, Saves, Raises
<1>3. CASE Unlock(v) /\ verifier[v] # "quiet"
  BY <1>3 DEF Unlock, Saves, Raises
<1> QED BY <1>1, <1>2, <1>3

(* A restart locks what the file says was running or locked.               *)
LEMMA RestartLock == ASSUME TypeOK, LockIInv, Restart PROVE LockIInv'
<1> USE DEF LockIInv, LockInv, SavedInv, SeenInv
<1>1. SeenInv'
  BY DEF Restart
<1>2. saved' = run' /\ \A t \in Threads : thread'[t].at = "off"
  BY DEF Restart, Saves, Off
<1>3. CASE saved.state \in ACTIVE \/ (saved.state = "interrupted" /\ saved.lockHeld)
  <2>1. run'.state = "interrupted" /\ run'.lockHeld
    BY <1>3 DEF Restart, TypeOK, Runs
  <2>2. reservation' = "interrupted" /\ lease' \in {None, "orphan"}
    BY <1>3 DEF Restart, AfterLoad
  <2> QED BY <1>1, <1>2, <2>1, <2>2
<1>4. CASE ~(saved.state \in ACTIVE \/ (saved.state = "interrupted" /\ saved.lockHeld))
  <2>1. ~run'.lockHeld
    BY <1>4 DEF Restart
  <2> QED BY <1>1, <1>2, <2>1
<1> QED BY <1>3, <1>4

(* Every step keeps the lock with the cell.                                *)
LEMMA NextLock == TypeOK /\ LockIInv /\ [Next]_vars => LockIInv'
<1> SUFFICES ASSUME TypeOK, LockIInv, [Next]_vars PROVE LockIInv'
  OBVIOUS
<1>1. ASSUME NEW t \in Threads, Start(t) \/ Resume(t) \/ ThreadStep(t) PROVE LockIInv'
  BY <1>1, RequestLock, ThreadLock
<1>2. CASE FinishAfterRound \/ Pause \/ CancelActiveExecution \/ Cancel
  BY <1>2, RequestLock
<1>3. CASE Press \/ OnGlobalStop \/ Release
  BY <1>3, StopLock
<1>4. ASSUME NEW v \in Verifiers, Verify(v) \/ CheckQuiet(v) \/ Unlock(v) PROVE LockIInv'
  BY <1>4, VerifyLock
<1>5. CASE Restart
  BY <1>5, RestartLock
<1>6. CASE OtherBegins \/ OtherEnds
  BY <1>6, NoneAssumption
  DEF OtherBegins, OtherEnds, CellFree, LockIInv, LockInv, SavedInv, SeenInv, file
<1>7. CASE UNCHANGED vars
  BY <1>7 DEF vars, file, LockIInv, LockInv, SavedInv, SeenInv
<1> QED BY <1>1, <1>2, <1>3, <1>4, <1>5, <1>6, <1>7 DEF Next

LEMMA LockHolds == Spec => [](TypeOK /\ LockIInv)
<1>1. Init => LockIInv
  BY DEF Init, NoRun, LockIInv, LockInv, SavedInv, SeenInv
<1> QED BY <1>1, TypeCorrect, NextLock, PTL DEF Spec

(* A run that a restart interrupted holds the cell until it is verified.   *)
THEOREM LockIsHeld == Spec => []LockHoldsCell
<1>1. LockIInv => LockHoldsCell
  BY DEF LockIInv, LockInv, LockHoldsCell
<1> QED BY <1>1, LockHolds, PTL

(* No other step unlocks a run.                                            *)
LEMMA UnlockStep ==
    ASSUME TypeOK, LockIInv, Next, run.lockHeld, ~run'.lockHeld PROVE lease = None
<1> USE DEF LockIInv, LockInv, TypeOK, Runs
<1>1. ASSUME NEW t \in Threads, Start(t) \/ Resume(t) \/ ThreadStep(t) PROVE FALSE
  <2>1. ~ThreadStep(t)
    BY ThreadChanges
  <2> QED BY <1>1, <2>1 DEF Start, Resume, Resumable
<1>2. CASE FinishAfterRound \/ Pause \/ CancelActiveExecution \/ Cancel
  BY <1>2 DEF FinishAfterRound, Pause, CancelActiveExecution, Cancel, Active, ACTIVE
<1>3. CASE Press \/ OnGlobalStop \/ Release
  BY <1>3 DEF Press, OnGlobalStop, Release
<1>4. ASSUME NEW v \in Verifiers, Verify(v) \/ CheckQuiet(v) \/ Unlock(v) PROVE lease = None
  BY <1>4 DEF Verify, CheckQuiet, Unlock, SeenInv
<1>5. CASE Restart
  BY <1>5 DEF Restart, SavedInv
<1>6. CASE OtherBegins \/ OtherEnds
  BY <1>6 DEF OtherBegins, OtherEnds
<1> QED BY <1>1, <1>2, <1>3, <1>4, <1>5, <1>6 DEF Next

(* It is unlocked over no process of it, and by verify() alone.            *)
THEOREM UnlockIsQuiet == Spec => UnlockedWhenQuiet
<1>1. TypeOK /\ LockIInv /\ [Next]_vars =>
          [run.lockHeld /\ ~run'.lockHeld => lease = None]_vars
  BY UnlockStep
<1> QED BY <1>1, LockHolds, PTL DEF Spec, UnlockedWhenQuiet

-----------------------------------------------------------------------------
(* The end of a run                                                        *)

(* A thread leaves the except clause by a _finish() that gives the cell    *)
(* back or is noted as the last.                                           *)
LEMMA ThreadReserved ==
    ASSUME NEW t \in Threads, TypeOK, ReservedForSomeone, ThreadStep(t)
    PROVE  ReservedForSomeone'
<1> SUFFICES ASSUME reservation' # None
             PROVE  Active' \/ run'.lockHeld \/ stranded' \/ \E u \in Threads : At(u, "except")'
  BY DEF ReservedForSomeone
<1>1. reservation' = reservation /\ reservation # None
  BY ThreadChanges
<1>2. PICK u \in Threads : Active \/ run.lockHeld \/ stranded \/ At(u, "except")
  BY <1>1 DEF ReservedForSomeone
<1>3. run'.lockHeld = run.lockHeld
  BY ThreadChanges
<1>4. (UNCHANGED stranded) \/ stranded'
  <2>1. ~Finish("completed") /\ ~Finish("stopped") /\ ~Finish("failed")
    BY <1>1 DEF Finish
  <2>2. CASE OnlyMoves(t)
    BY <2>2, MovesOnly DEF Moves
  <2> QED BY <2>1, <2>2
      DEF ThreadStep, OnlyMoves, Top, Note, Advance, SetPaused, StepFinishes, Except, FinishBy,
          history
<1>5. CASE Except(t)
  <2>1. \/ thread'[t].at = "except"
        \/ stranded' = TRUE
    BY <1>1, <1>5 DEF Except, Finish, TypeOK, LoopThread, At
  <2> QED BY <2>1 DEF At
<1>6. CASE ~Except(t) /\ At(u, "except")
  <2>1. u # t
    BY <1>6, MovesOnly
    DEF ThreadStep, OnlyMoves, Top, Note, AfterNote, Advance, SetPaused, StepFinishes, At, Working
  <2> QED BY <1>6, <2>1, ThreadChanges DEF At
<1>7. CASE run.lockHeld \/ stranded
  BY <1>3, <1>4, <1>7
<1>8. CASE ~Except(t) /\ Active
  <2>1. CASE OnlyMoves(t) \/ Note(t)
    BY <1>8, <2>1, MovesOnly DEF Moves, Note, Active
  <2>2. CASE run'.state \in ACTIVE
    BY <2>2 DEF Active
  <2>3. CASE Advance(t)
    BY <1>8, <2>3 DEF Advance, Active, TypeOK, Runs, ACTIVE
  <2>4. CASE SetPaused(t)
    BY <2>4, <2>2 DEF SetPaused, PauseBy, SetState, TypeOK, Runs, ACTIVE
  <2>5. CASE StepFinishes(t)
    BY <1>1, <2>5 DEF StepFinishes, FinishBy, Finish, Goto, AfterError, At, TypeOK, LoopThread
  <2>6. CASE Top(t) /\ UNCHANGED run
    BY <1>8, <2>6 DEF Active
  <2>7. CASE Top(t) /\ PauseBy(t)
    BY <2>7, <2>2 DEF PauseBy, SetState, TypeOK, Runs, ACTIVE
  <2>8. CASE Top(t) /\ FinishBy(t, "completed")
    BY <1>1, <2>8 DEF FinishBy, Finish, Goto, AfterError, At, TypeOK, LoopThread
  <2> QED BY <1>8, <2>1, <2>3, <2>4, <2>5, <2>6, <2>7, <2>8 DEF ThreadStep, OnlyMoves, Top
<1> QED BY <1>2, <1>5, <1>6, <1>7, <1>8

(* Every step gives the cell back, or leaves somebody to do it.            *)
LEMMA NextReserved == TypeOK /\ ReservedForSomeone /\ [Next]_vars => ReservedForSomeone'
<1> SUFFICES ASSUME TypeOK, ReservedForSomeone, [Next]_vars PROVE ReservedForSomeone'
  OBVIOUS
<1> USE DEF ReservedForSomeone, TypeOK, Runs, Active
<1>1. ASSUME NEW t \in Threads, ThreadStep(t) PROVE ReservedForSomeone'
  BY <1>1, ThreadReserved
<1>2. ASSUME NEW t \in Threads, Start(t) PROVE ReservedForSomeone'
  <2>1. run'.state = "running"
    BY <1>2 DEF Start, NoRun
  <2> QED BY <2>1 DEF ACTIVE
<1>3. ASSUME NEW t \in Threads, Resume(t) PROVE ReservedForSomeone'
  <2>1. run'.state \in {"running", "resuming"}
    BY <1>3 DEF Resume
  <2> QED BY <2>1 DEF ACTIVE
<1>4. CASE FinishAfterRound
  <2>1. run'.state = run.state
    BY <1>4 DEF FinishAfterRound
  <2> QED BY <1>4, <2>1 DEF FinishAfterRound
<1>5. CASE Pause
  <2>1. run'.state = "pausing"
    BY <1>5 DEF Pause
  <2> QED BY <2>1 DEF ACTIVE
<1>6. CASE CancelActiveExecution
  <2>1. \A t \in Threads : thread'[t].at = thread[t].at
    BY <1>6 DEF CancelActiveExecution, LoopThread
  <2> QED BY <1>6, <2>1 DEF CancelActiveExecution, history, At
<1>7. CASE Cancel
  BY <1>7 DEF Cancel, Finish
<1>8. CASE OnGlobalStop
  BY <1>8 DEF OnGlobalStop, Finish, At
<1>9. ASSUME NEW v \in Verifiers, Unlock(v) PROVE ReservedForSomeone'
  BY <1>9 DEF Unlock, At
<1>10. CASE Restart
  <2>1. CASE reservation' = None
    BY <2>1
  <2>2. CASE reservation' # None
    <3>1. run' = [saved EXCEPT !.state = "interrupted", !.lockHeld = TRUE]
      BY <1>10, <2>2 DEF Restart
    <3> QED BY <3>1
  <2> QED BY <2>1, <2>2
<1>11. CASE \/ Press \/ Release \/ OtherBegins \/ OtherEnds \/ UNCHANGED vars
            \/ \E v \in Verifiers : Verify(v) \/ CheckQuiet(v)
  BY <1>11
  DEF Press, Release, OtherBegins, OtherEnds, Verify, CheckQuiet, vars, history, At
<1> QED BY <1>1, <1>2, <1>3, <1>4, <1>5, <1>6, <1>7, <1>8, <1>9, <1>10, <1>11 DEF Next

(* An ended run gives the cell back, but when every write of its end has   *)
(* raised.                                                                 *)
THEOREM CellIsGivenBack == Spec => []ReservedForSomeone
<1>1. Init => ReservedForSomeone
  BY DEF Init, ReservedForSomeone
<1> QED BY <1>1, TypeCorrect, NextReserved, PTL DEF Spec

-----------------------------------------------------------------------------
(* The cell between two steps                                              *)

OneVerifier == \A v, w \in Verifiers : v = w

(* Where there is a pause or a stop it has been counted.                   *)
CountInv ==
    /\ \/ run.pauseRequested \/ saved.pauseRequested \/ run.state \in {"pausing", "paused"}
       \/ \E t \in Threads : thread[t].at \in {"notePaused", "setPaused"}
       => pauses > 0
    /\ stopping => stops > 0

(* An active run holds the cell, ...                                       *)
HoldInv == Active => reservation = "repeat" /\ lease \notin {"other", "orphan"}

(* ... it has one thread at most, none while it is paused, and the thread  *)
(* works on the step of the cursor until it is on its way to fail the run; *)
ThreadInv ==
    \A t \in Threads : thread[t].at # "off" =>
        /\ run.state # "paused"
        /\ reservation = "repeat"
        /\ \A u \in Threads : u # t => thread[u].at = "off"
        /\ thread[t].at # "except" =>
               Active /\ (thread[t].at # "top" => thread[t].step = run.cursor)

(* and verify() is only there for a run that is locked.                    *)
VerifyInv == \A v \in Verifiers : verifier[v] # "idle" => run.lockHeld

CellInv == HoldInv /\ ThreadInv /\ VerifyInv

Before ==
    /\ OneVerifier
    /\ TypeOK /\ LockIInv /\ CountInv /\ CellInv
    /\ Undisturbed /\ Undisturbed'

(* A pause is counted where it is asked for, and marked in the run.        *)
LEMMA NextCount == TypeOK /\ CountInv /\ [Next]_vars => CountInv'
<1> SUFFICES ASSUME TypeOK, CountInv, [Next]_vars PROVE CountInv'
  OBVIOUS
<1> USE DEF CountInv, TypeOK, Runs, SetState, Saves, Raises, Finish, FinishRaises, At, Goto,
        Ends, AfterError, LoopThread
<1>1. ASSUME NEW t \in Threads, ThreadStep(t) PROVE CountInv'
  <2>1. /\ run'.pauseRequested = run.pauseRequested
        /\ saved'.pauseRequested \in {saved.pauseRequested, run.pauseRequested}
        /\ pauses' = pauses /\ stops' = stops /\ stopping' = stopping
    BY <1>1, ThreadChanges DEF Kept, latch, counters
  <2>2. CASE OnlyMoves(t)
    <3>1. PICK at \in Working \cup {"except"} :
             /\ Moves(t, at)
             /\ at # "setPaused"
             /\ at = "notePaused" => run.pauseRequested
      BY <2>2, MovesOnly
    <3>2. /\ run' = run
          /\ thread'[t].at = at
          /\ \A u \in Threads : u # t => thread'[u] = thread[u]
      BY <3>1 DEF Moves
    <3> QED BY <2>1, <3>1, <3>2
  <2>3. CASE Top(t)
    <3>1. thread'[t].at \notin {"notePaused", "setPaused"}
      BY <2>3 DEF Top, FinishBy, PauseBy, Off
    <3>2. /\ run'.state \in {"pausing", "paused"} =>
                run.state \in {"pausing", "paused"} \/ run.pauseRequested
          /\ \A u \in Threads : u # t => thread'[u] = thread[u]
      BY <2>3, ThreadChanges, <1>1 DEF Top, FinishBy, PauseBy
    <3> QED BY <2>1, <3>1, <3>2
  <2>4. CASE Note(t)
    <3>1. thread'[t].at = "setPaused" => thread[t].at = "notePaused"
      BY <2>4 DEF Note, AfterNote
    <3>2. thread'[t].at # "notePaused" /\ run' = run
      BY <2>4 DEF Note, AfterNote
    <3> QED BY <1>1, <2>1, <3>1, <3>2, ThreadChanges
  <2>5. CASE Advance(t) \/ StepFinishes(t) \/ Except(t)
    <3>1. /\ thread'[t].at \notin {"notePaused", "setPaused"}
          /\ run'.state \in {"pausing", "paused"} => run.state \in {"pausing", "paused"}
      <4>1. CASE Advance(t)
        <5>1. run'.state \in {run.state, "running"}
          BY <4>1 DEF Advance
        <5>2. \/ Goto(t, "except")
              \/ thread' = [thread EXCEPT ![t].at = "top",
                                          ![t].handlers = IF At(t, "resumed") THEN 2 ELSE @]
          BY <4>1 DEF Advance
        <5>3. thread'[t].at \in {"top", "except"}
          BY <5>2
        <5> QED BY <5>1, <5>3
      <4>2. CASE StepFinishes(t)
        BY <4>2 DEF StepFinishes, FinishBy, Off
      <4>3. CASE Except(t)
        BY <4>3 DEF Except, Off
      <4> QED BY <2>5, <4>1, <4>2, <4>3
    <3> QED BY <1>1, <2>1, <3>1, ThreadChanges
  <2>6. CASE SetPaused(t)
    <3>1. pauses > 0
      BY <2>6 DEF SetPaused
    <3> QED BY <2>1, <3>1
  <2> QED BY <1>1, <2>2, <2>3, <2>4, <2>5, <2>6 DEF ThreadStep, OnlyMoves
<1>2. ASSUME NEW t \in Threads, Start(t) PROVE CountInv'
  <2>1. run'.state = "running" /\ ~run'.pauseRequested
    BY <1>2 DEF Start, NoRun
  <2>2. /\ thread'[t].at \notin {"notePaused", "setPaused"}
        /\ \A u \in Threads : u # t => thread'[u] = thread[u]
    <3>1. /\ thread[t].at = "off"
          /\ \/ thread' = [thread EXCEPT ![t] = [Off EXCEPT !.at = "top", !.handlers = 1]]
             \/ UNCHANGED thread
      BY <1>2 DEF Start
    <3>2. CASE UNCHANGED thread
      BY <3>1, <3>2
    <3>3. CASE thread' = [thread EXCEPT ![t] = [Off EXCEPT !.at = "top", !.handlers = 1]]
      <4>1. thread'[t] = [Off EXCEPT !.at = "top", !.handlers = 1]
        BY <3>3
      <4>2. thread'[t].at = "top"
        BY <4>1 DEF Off
      <4> QED BY <3>3, <4>2
    <3> QED BY <3>1, <3>2, <3>3
  <2> QED BY <1>2, <2>1, <2>2 DEF Start, latch, counters
<1>3. ASSUME NEW t \in Threads, Resume(t) PROVE CountInv'
  <2>1. pauses' = pauses /\ pauses > 0 /\ stopping' = stopping /\ stops' = stops
    BY <1>3 DEF Resume, Resumable, latch, counters
  <2> QED BY <2>1
<1>4. CASE Pause
  <2>1. pauses' > 0
    BY <1>4, BoundsAssumption DEF Pause
  <2> QED BY <1>4, <2>1 DEF Pause, latch
<1>5. CASE FinishAfterRound \/ Cancel
  <2>1. /\ run'.pauseRequested = run.pauseRequested
        /\ saved'.pauseRequested \in {saved.pauseRequested, run.pauseRequested}
        /\ run'.state \in {"pausing", "paused"} => run.state \in {"pausing", "paused"}
    BY <1>5 DEF FinishAfterRound, Cancel
  <2> QED BY <1>5, <2>1 DEF FinishAfterRound, Cancel, latch, counters
<1>6. CASE CancelActiveExecution
  <2>1. \A t \in Threads : thread'[t].at = thread[t].at
    BY <1>6 DEF CancelActiveExecution
  <2> QED BY <1>6, <2>1 DEF CancelActiveExecution, file, latch, counters
<1>7. CASE Press
  <2>1. stops' > 0
    BY <1>7, BoundsAssumption DEF Press
  <2> QED BY <1>7, <2>1 DEF Press, file
<1>8. CASE OnGlobalStop
  BY <1>8 DEF OnGlobalStop, counters, file
<1>9. ASSUME NEW v \in Verifiers, Unlock(v) PROVE CountInv'
  <2>1. run'.pauseRequested = run.pauseRequested /\ run'.state = run.state
    BY <1>9 DEF Unlock
  <2> QED BY <1>9, <2>1 DEF Unlock, latch, counters
<1>10. CASE Restart
  <2>1. /\ run'.pauseRequested = saved.pauseRequested
        /\ run'.state \notin {"pausing", "paused"}
        /\ saved' = run'
    BY <1>10 DEF Restart, ACTIVE
  <2> QED BY <1>10, <2>1 DEF Restart, Off
<1>11. CASE \/ Release \/ OtherBegins \/ OtherEnds \/ UNCHANGED vars
            \/ \E v \in Verifiers : Verify(v) \/ CheckQuiet(v)
  BY <1>11
  DEF Release, OtherBegins, OtherEnds, Verify, CheckQuiet, vars, file, latch, counters
<1> QED BY <1>1, <1>2, <1>3, <1>4, <1>5, <1>6, <1>7, <1>8, <1>9, <1>10, <1>11 DEF Next

(* A restart leaves no active run and no thread, whatever came before.     *)
LEMMA RestartCell == ASSUME TypeOK, Restart PROVE CellInv'
<1>1. /\ \A t \in Threads : thread'[t].at = "off"
      /\ \A v \in Verifiers : verifier'[v] = "idle"
  BY DEF Restart, Off
<1>2. run'.state \notin ACTIVE
  BY DEF Restart, TypeOK, Runs, ACTIVE
<1> QED BY <1>1, <1>2 DEF CellInv, HoldInv, ThreadInv, VerifyInv, Active

(* A thread that works is the only one, and no verify() is there.          *)
LEMMA WorkingAlone ==
    ASSUME Before, NEW t \in Threads, ThreadStep(t)
    PROVE  /\ run.state # "paused" /\ reservation = "repeat"
           /\ ~run.lockHeld /\ ~run'.lockHeld
           /\ \A v \in Verifiers : verifier'[v] = "idle"
           /\ \A u \in Threads : u # t => thread[u].at = "off" /\ thread'[u].at = "off"
<1>1. TypeOK /\ LockInv /\ ThreadInv /\ VerifyInv
  BY DEF Before, CellInv, LockIInv
<1>2. thread[t].at # "off" /\ run'.lockHeld = run.lockHeld /\ verifier' = verifier
  BY <1>1, ThreadChanges DEF Kept
<1>3. run.state # "paused" /\ reservation = "repeat" /\ ~run.lockHeld
  BY <1>1, <1>2 DEF ThreadInv, LockInv
<1>4. \A v \in Verifiers : verifier'[v] = "idle"
  BY <1>1, <1>2, <1>3 DEF VerifyInv
<1>5. \A u \in Threads : u # t => thread[u].at = "off" /\ thread'[u].at = "off"
  BY <1>1, <1>2, ThreadChanges DEF ThreadInv
<1> QED BY <1>2, <1>3, <1>4, <1>5

(* So what the step leaves of its own thread decides.                      *)
LEMMA WorkingCell ==
    ASSUME Before, NEW t \in Threads, ThreadStep(t),
           Active' => reservation' = "repeat",
           Active' => lease' \notin {"other", "orphan"},
           thread'[t].at # "off" =>
               /\ run'.state # "paused"
               /\ reservation' = "repeat"
               /\ thread'[t].at # "except" =>
                      Active' /\ (thread'[t].at # "top" => thread'[t].step = run'.cursor)
    PROVE  CellInv'
  BY WorkingAlone DEF CellInv, HoldInv, ThreadInv, VerifyInv

(* A step that only moves its thread.                                      *)
LEMMA MovesCell == ASSUME NEW t \in Threads, Before, OnlyMoves(t) PROVE CellInv'
<1>1. ThreadStep(t) /\ TypeOK /\ HoldInv /\ ThreadInv
  BY DEF ThreadStep, OnlyMoves, Before, CellInv
<1>2. PICK at \in Working \cup {"except"} : Moves(t, at)
  BY <1>1, MovesOnly
<1>3. /\ run' = run /\ reservation' = reservation
      /\ thread'[t].at = at /\ thread'[t].step = thread[t].step
  BY <1>1, <1>2 DEF Moves, Goto, TypeOK, LoopThread
<1>4. Active /\ thread[t].step = run.cursor /\ run.state # "paused" /\ reservation = "repeat"
  BY <1>1, MovesOnly DEF ThreadInv, Working
<1>5. lease' \notin {"other", "orphan"}
  BY <1>1, <1>4, MovesOnly, NoneAssumption DEF HoldInv
<1> QED BY <1>1, <1>3, <1>4, <1>5, WorkingCell DEF Active

(* A thread that ends the run, or tries to.                                *)
LEMMA FinishByCell ==
    ASSUME NEW t \in Threads, Before, ThreadStep(t), NEW state \in TERMINAL,
           FinishBy(t, state)
    PROVE  CellInv'
<1>1. TypeOK /\ reservation = "repeat"
  BY WorkingAlone DEF Before
<1>2. run'.state = state
  BY <1>1 DEF FinishBy, Finish, FinishRaises, SetState, TypeOK, Runs
<1>3. ~Active' /\ run'.state # "paused"
  BY <1>2 DEF Active, ACTIVE, TERMINAL
<1>4. CASE Ends(t)
  <2>1. thread'[t].at = "off"
    BY <1>1, <1>4 DEF Ends, Off, TypeOK
  <2> QED BY <1>3, <2>1, WorkingCell
<1>5. CASE Goto(t, AfterError) /\ UNCHANGED reservation
  <2>1. thread'[t].at = "except"
    BY <1>1, <1>5 DEF Goto, AfterError, TypeOK, LoopThread
  <2> QED BY <1>1, <1>3, <1>5, <2>1, WorkingCell
<1> QED BY <1>4, <1>5 DEF FinishBy, FinishRaises

(* A pause that could be written ends the thread.                          *)
LEMMA PauseByCell ==
    ASSUME NEW t \in Threads, Before, ThreadStep(t), PauseBy(t), UNCHANGED <<reservation, lease>>,
           Active
    PROVE  CellInv'
<1>1. TypeOK /\ HoldInv /\ Undisturbed'
  BY DEF Before, CellInv
<1>2. thread'[t].at = "off"
  BY <1>1 DEF PauseBy, Undisturbed, Ends, Off, TypeOK
<1> QED BY <1>1, <1>2, WorkingCell DEF HoldInv

(* The top of the loop.                                                    *)
LEMMA TopCell == ASSUME NEW t \in Threads, Before, Top(t) PROVE CellInv'
<1>1. ThreadStep(t) /\ TypeOK /\ HoldInv /\ ThreadInv /\ UNCHANGED lease
  BY DEF ThreadStep, Top, Before, CellInv
<1>2. Active /\ run.state # "paused" /\ reservation = "repeat"
  BY <1>1 DEF Top, At, ThreadInv
<1>3. CASE Ends(t) /\ UNCHANGED <<run, reservation>>
  <2>1. thread'[t].at = "off"
    BY <1>1, <1>3 DEF Ends, Off, TypeOK
  <2> QED BY <1>1, <1>3, <2>1, WorkingCell DEF HoldInv, Active
<1>4. CASE FinishBy(t, "completed")
  BY <1>1, <1>4, FinishByCell DEF TERMINAL
<1>5. CASE PauseBy(t) /\ UNCHANGED reservation
  BY <1>1, <1>2, <1>5, PauseByCell
<1>6. CASE /\ thread' = [thread EXCEPT ![t].at = "check", ![t].step = run.cursor,
                                       ![t].cancel = FALSE]
           /\ UNCHANGED <<run, reservation>>
  <2>1. thread'[t].at = "check" /\ thread'[t].step = run.cursor
    BY <1>1, <1>6 DEF TypeOK, LoopThread
  <2> QED BY <1>1, <1>2, <1>6, <2>1, WorkingCell DEF HoldInv, Active
<1> QED BY <1>3, <1>4, <1>5, <1>6 DEF Top

(* The step is noted, and the cursor moved.                                *)
LEMMA NoteCell == ASSUME NEW t \in Threads, Before, Note(t) PROVE CellInv'
<1>1. ThreadStep(t) /\ TypeOK /\ HoldInv /\ ThreadInv
  BY DEF ThreadStep, Before, CellInv
<1>2. /\ Active /\ run.state # "paused" /\ reservation = "repeat"
      /\ thread[t].step = run.cursor
  BY <1>1 DEF Note, AfterNote, ThreadInv
<1>3. /\ run' = run /\ reservation' = reservation /\ lease' = lease
      /\ thread'[t].step = thread[t].step
  BY <1>1 DEF Note, Goto, TypeOK, LoopThread
<1> QED BY <1>1, <1>2, <1>3, WorkingCell DEF HoldInv, Active

LEMMA AdvanceCell == ASSUME NEW t \in Threads, Before, Advance(t) PROVE CellInv'
<1>1. ThreadStep(t) /\ TypeOK /\ HoldInv /\ ThreadInv
  BY DEF ThreadStep, Before, CellInv
<1>2. Active /\ run.state # "paused" /\ reservation = "repeat"
  BY <1>1 DEF Advance, At, ThreadInv
<1>3. /\ run'.state \in {run.state, "running"}
      /\ reservation' = reservation /\ lease' = lease
      /\ thread'[t].at \in {"top", "except"}
  <2>1. run'.state \in {run.state, "running"} /\ UNCHANGED <<reservation, lease>>
    BY <1>1 DEF Advance, TypeOK, Runs
  <2>2. \/ Goto(t, "except")
        \/ thread' = [thread EXCEPT ![t].at = "top",
                                    ![t].handlers = IF At(t, "resumed") THEN 2 ELSE @]
    BY DEF Advance, AfterError
  <2>3. thread'[t].at \in {"top", "except"}
    BY <1>1, <2>2 DEF Goto, TypeOK, LoopThread
  <2> QED BY <2>1, <2>3
<1> QED BY <1>1, <1>2, <1>3, WorkingCell DEF HoldInv, Active, ACTIVE

(* The thread that has stopped the robot lets the run rest.                *)
LEMMA SetPausedCell == ASSUME NEW t \in Threads, Before, SetPaused(t) PROVE CellInv'
<1>1. ThreadStep(t) /\ ThreadInv
  BY DEF ThreadStep, Before, CellInv
<1>2. Active
  BY <1>1 DEF SetPaused, At, ThreadInv
<1> QED BY <1>1, <1>2, PauseByCell DEF SetPaused

LEMMA StepFinishesCell == ASSUME NEW t \in Threads, Before, StepFinishes(t) PROVE CellInv'
<1>1. ThreadStep(t)
  BY DEF ThreadStep
<1>2. PICK state \in TERMINAL : FinishBy(t, state)
  BY DEF StepFinishes, TERMINAL
<1> QED BY <1>1, <1>2, FinishByCell

(* The run fails, once more or for the last time.                          *)
LEMMA ExceptCell == ASSUME NEW t \in Threads, Before, Except(t) PROVE CellInv'
<1>1. ThreadStep(t) /\ TypeOK /\ reservation = "repeat"
  BY WorkingAlone DEF ThreadStep, Before
<1>2. run'.state = "failed"
  BY <1>1 DEF Except, Finish, FinishRaises, SetState, TypeOK, Runs
<1>3. ~Active' /\ run'.state # "paused"
  BY <1>2 DEF Active, ACTIVE
<1>4. CASE Ends(t)
  <2>1. thread'[t].at = "off"
    BY <1>1, <1>4 DEF Ends, Off, TypeOK
  <2> QED BY <1>1, <1>3, <2>1, WorkingCell
<1>5. CASE /\ thread' = [thread EXCEPT ![t].handlers = @ - 1]
           /\ UNCHANGED reservation
  <2>1. thread'[t].at = "except"
    BY <1>1, <1>5 DEF Except, At, TypeOK, LoopThread
  <2> QED BY <1>1, <1>3, <1>5, <2>1, WorkingCell
<1> QED BY <1>4, <1>5 DEF Except, FinishRaises

(* A new run takes a cell that nobody has, and its thread is alone.        *)
LEMMA StartCell == ASSUME NEW t \in Threads, Before, Start(t) PROVE CellInv'
<1>1. TypeOK /\ ThreadInv /\ VerifyInv
  BY DEF Before, CellInv
<1>2. \A u \in Threads : thread[u].at = "off"
  BY <1>1, NoneAssumption DEF ThreadInv, Start
<1>3. run'.state = "running"
  BY DEF Start, NoRun
<1>4. /\ \A u \in Threads : u # t => thread'[u].at = "off"
      /\ thread'[t].at \in {"top", "off"}
  <2>1. \/ thread' = [thread EXCEPT ![t] = [Off EXCEPT !.at = "top", !.handlers = 1]]
        \/ UNCHANGED thread
    BY DEF Start
  <2> QED BY <1>1, <1>2, <2>1 DEF Off, TypeOK
<1>5. verifier' = verifier /\ ~run.lockHeld /\ reservation' = "repeat" /\ lease' = None
  BY DEF Start
<1> QED BY <1>1, <1>3, <1>4, <1>5, NoneAssumption
    DEF CellInv, HoldInv, ThreadInv, VerifyInv, Active, ACTIVE

(* A paused run has no thread, so the thread that resumes it is alone.     *)
LEMMA ResumeCell == ASSUME NEW t \in Threads, Before, Resume(t) PROVE CellInv'
<1>1. TypeOK /\ HoldInv /\ ThreadInv /\ VerifyInv
  BY DEF Before, CellInv
<1>2. /\ \A u \in Threads : thread[u].at = "off"
      /\ Active
  BY <1>1 DEF ThreadInv, Resume, Resumable, Active, ACTIVE
<1>3. PICK next \in {[state |-> "running", at |-> "top", step |-> 0],
                     [state |-> "resuming", at |-> "reserve", step |-> run.cursor]} :
         /\ run' = [run EXCEPT !.state = next.state, !.pauseRequested = FALSE]
         /\ \/ thread' = [thread EXCEPT ![t] =
                   [Off EXCEPT !.at = next.at, !.step = next.step, !.handlers = 1]]
            \/ UNCHANGED thread
  BY DEF Resume
<1>4. /\ run'.state = next.state /\ run'.cursor = run.cursor /\ run'.lockHeld = run.lockHeld
      /\ next.state \in ACTIVE /\ next.state # "paused"
      /\ next.at \in {"top", "reserve"}
      /\ next.at # "top" => next.step = run.cursor
  BY <1>1, <1>3 DEF TypeOK, Runs, ACTIVE
<1>5. /\ \A u \in Threads : u # t => thread'[u].at = "off"
      /\ \/ thread'[t].at = "off"
         \/ thread'[t].at = next.at /\ thread'[t].step = next.step
  BY <1>1, <1>2, <1>3 DEF Off, TypeOK
<1>6. UNCHANGED <<reservation, lease, verifier>>
  BY DEF Resume
<1> QED BY <1>1, <1>2, <1>4, <1>5, <1>6 DEF CellInv, HoldInv, ThreadInv, VerifyInv, Active

(* The other requests change neither the place of a thread nor its step.   *)
LEMMA RequestCell ==
    ASSUME Before, FinishAfterRound \/ Pause \/ CancelActiveExecution PROVE CellInv'
<1>1. TypeOK /\ CellInv
  BY DEF Before
<1>2. \A t \in Threads : thread'[t].at = thread[t].at /\ thread'[t].step = thread[t].step
  BY <1>1 DEF FinishAfterRound, Pause, CancelActiveExecution, TypeOK, LoopThread
<1>3. /\ run'.cursor = run.cursor /\ run'.lockHeld = run.lockHeld
      /\ UNCHANGED <<reservation, lease, verifier>>
      /\ run'.state = run.state \/ (run.state = "running" /\ run'.state = "pausing")
  BY <1>1 DEF FinishAfterRound, Pause, CancelActiveExecution, TypeOK, Runs
<1> QED BY <1>1, <1>2, <1>3 DEF CellInv, HoldInv, ThreadInv, VerifyInv, Active, ACTIVE

(* A paused run has no thread that would go on without the cell.           *)
LEMMA CancelCell == ASSUME Before, Cancel PROVE CellInv'
<1>1. TypeOK /\ ThreadInv /\ VerifyInv
  BY DEF Before, CellInv
<1>2. \A t \in Threads : thread'[t].at = "off"
  BY <1>1 DEF ThreadInv, Cancel
<1>3. run'.state = "cancelled" /\ run'.lockHeld = run.lockHeld /\ verifier' = verifier
  BY <1>1 DEF Cancel, Finish, FinishRaises, SetState, TypeOK, Runs
<1> QED BY <1>1, <1>2, <1>3 DEF CellInv, HoldInv, ThreadInv, VerifyInv, Active, ACTIVE

(* A stop finds no run that is pausing: there was no pause.                *)
LEMMA StopCell == ASSUME Before, Press \/ OnGlobalStop \/ Release PROVE CellInv'
<1>1. TypeOK /\ CountInv /\ CellInv /\ Undisturbed
  BY DEF Before
<1>2. UNCHANGED <<run, reservation, lease, thread, verifier>>
  BY <1>1 DEF Press, Release, OnGlobalStop, CountInv, Undisturbed, TypeOK
<1> QED BY <1>1, <1>2 DEF CellInv, HoldInv, ThreadInv, VerifyInv, Active

(* The only verify() there is unlocks the run and is gone.                 *)
LEMMA VerifyCell ==
    ASSUME NEW v \in Verifiers, Before, Verify(v) \/ CheckQuiet(v) \/ Unlock(v)
    PROVE  CellInv'
<1>1. TypeOK /\ LockInv /\ CellInv /\ OneVerifier
  BY DEF Before, LockIInv
<1>2. CASE Verify(v) \/ CheckQuiet(v)
  BY <1>1, <1>2
  DEF Verify, CheckQuiet, CellInv, HoldInv, ThreadInv, VerifyInv, Active, OneVerifier, TypeOK
<1>3. CASE Unlock(v)
  <2>1. run.lockHeld
    BY <1>1, <1>3 DEF Unlock, CellInv, VerifyInv
  <2>2. run'.state = "interrupted" /\ \A t \in Threads : thread'[t].at = "off"
    BY <1>1, <1>3, <2>1 DEF Unlock, LockInv, TypeOK, Runs
  <2>3. \A w \in Verifiers : verifier'[w] = "idle"
    BY <1>1, <1>3 DEF Unlock, OneVerifier, TypeOK
  <2> QED BY <2>2, <2>3 DEF CellInv, HoldInv, ThreadInv, VerifyInv, Active, ACTIVE
<1> QED BY <1>2, <1>3

(* Nobody else begins in a cell that is reserved.                          *)
LEMMA OtherCell == ASSUME Before, OtherBegins \/ OtherEnds PROVE CellInv'
  BY NoneAssumption
  DEF Before, OtherBegins, OtherEnds, CellFree, CellInv, HoldInv, ThreadInv, VerifyInv, Active

(* Every step keeps the cell the run's.                                    *)
LEMMA NextCell == Before /\ [Next]_vars => CellInv'
<1> SUFFICES ASSUME Before, [Next]_vars PROVE CellInv'
  OBVIOUS
<1>1. ASSUME NEW t \in Threads, ThreadStep(t) PROVE CellInv'
  BY <1>1, MovesCell, TopCell, NoteCell, AdvanceCell, SetPausedCell, StepFinishesCell, ExceptCell
  DEF ThreadStep, OnlyMoves
<1>2. ASSUME NEW t \in Threads, Start(t) \/ Resume(t) PROVE CellInv'
  BY <1>2, StartCell, ResumeCell
<1>3. CASE FinishAfterRound \/ Pause \/ CancelActiveExecution \/ Cancel
  BY <1>3, RequestCell, CancelCell
<1>4. CASE Press \/ OnGlobalStop \/ Release
  BY <1>4, StopCell
<1>5. ASSUME NEW v \in Verifiers, Verify(v) \/ CheckQuiet(v) \/ Unlock(v) PROVE CellInv'
  BY <1>5, VerifyCell
<1>6. CASE Restart \/ OtherBegins \/ OtherEnds
  BY <1>6, RestartCell, OtherCell DEF Before
<1>7. CASE UNCHANGED vars
  BY <1>7 DEF vars, Before, CellInv, HoldInv, ThreadInv, VerifyInv, Active
<1> QED BY <1>1, <1>2, <1>3, <1>4, <1>5, <1>6, <1>7 DEF Next

(* What has come between stays, but for a pause that a restart forgets.    *)
LEMMA UndisturbedBefore ==
    ASSUME TypeOK, [Next]_vars, Undisturbed', ~Restart PROVE Undisturbed
<1>1. /\ pauses' \in {pauses, pauses + 1} /\ stops' \in {stops, stops + 1}
      /\ pauseUnsaved' = pauseUnsaved \/ pauseUnsaved'
  <2>1. ASSUME NEW t \in Threads, OnlyMoves(t)
        PROVE  pauses' = pauses /\ stops' = stops /\ pauseUnsaved' = pauseUnsaved
    BY <2>1, MovesOnly DEF Moves, Kept, counters
  <2>2. ASSUME NEW t \in Threads, ThreadStep(t), ~OnlyMoves(t)
        PROVE  /\ pauses' = pauses /\ stops' = stops
               /\ pauseUnsaved' = pauseUnsaved \/ pauseUnsaved'
    BY <2>2 DEF ThreadStep, OnlyMoves, Top, Note, Advance, SetPaused, StepFinishes, Except,
                PauseBy, counters, history
  <2> QED BY <2>1, <2>2
      DEF Next, Start, Resume, FinishAfterRound, Pause, CancelActiveExecution, Cancel, Press,
          OnGlobalStop, Release, Verify, CheckQuiet, Unlock, OtherBegins, OtherEnds, vars,
          counters, history
<1> QED BY <1>1, BoundsAssumption DEF TypeOK, Undisturbed

LEMMA CellHolds == OneVerifier => (Spec => [](Undisturbed => CellInv))
<1> SUFFICES ASSUME OneVerifier PROVE Spec => [](Undisturbed => CellInv)
  OBVIOUS
<1>1. Init => CountInv /\ CellInv
  BY NoneAssumption
  DEF Init, NoRun, CellInv, HoldInv, ThreadInv, CountInv, VerifyInv, Active, ACTIVE, Off
<1>2. TypeOK /\ LockIInv /\ CountInv /\ (Undisturbed => CellInv) /\ [Next]_vars =>
          (Undisturbed => CellInv)'
  BY NextCell, RestartCell, UndisturbedBefore DEF Before
<1> QED BY <1>1, <1>2, NextCount, LockHolds, PTL DEF Spec

(* The reservation keeps everybody else from the robot between two steps.  *)
THEOREM CellIsTheRuns == OneVerifier => (Spec => []NothingBetween)
<1> SUFFICES ASSUME OneVerifier PROVE Spec => []NothingBetween
  OBVIOUS
<1>1. (Undisturbed => CellInv) => NothingBetween
  BY DEF CellInv, HoldInv, NothingBetween
<1> QED BY CellHolds, <1>1, PTL

(* The steps are sent one at a time, each when the cursor has come to it.  *)
THEOREM StepsInOrder == OneVerifier => (Spec => []OneStepAtATime)
<1> SUFFICES ASSUME OneVerifier PROVE Spec => []OneStepAtATime
  OBVIOUS
<1>1. (Undisturbed => CellInv) => OneStepAtATime
  BY DEF CellInv, ThreadInv, OneStepAtATime
<1> QED BY CellHolds, <1>1, PTL
=============================================================================
