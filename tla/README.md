# Verification of the Fourstick workcell server

The program drives a simulated workcell (a Franka FR3 arm with a 2F-85 gripper, and beside it a
Unitree G1) from spoken or typed Korean commands. A command becomes a plan, a person approves the
plan, the server executes it on a robot adapter or through a simulation script that runs as a process
of its own, and anyone may stop everything at any time.

This directory holds TLA+ models of the part where that is hard: who may move the robot, whether an
approval is used once, whether a stop reaches everything that moves, what a crash leaves behind, whether the
records of the cell stay true, and whether a planned rearrangement can be carried out.
Source paths are relative to the repository. `M.tla` and the definitions in it are named after the
code where TLA+ allows it; the map from definitions to source lines is in `PROJECT.json`.

1. Inventory — the parts, their state, their operations, what makes each correct
2. Threads — what may interleave with what
3. Modules — how the models correspond to the code
4. Runs — what TLC checks, with which bounds
5. Proofs — what TLAPS proves, along which invariant
6. Findings and divergences — where the code does not do what it says
7. Not modelled, and the plan

## 1. Inventory

### The parts that decide whether the robot moves

| Part | State | Operations | Correct when |
|---|---|---|---|
| Cell execution authority, `server/cell_execution.py` | one active lease, one reservation, a counter of tokens | `try_acquire`, `release`, `reserve`, `release_reservation` | one holder at a time; a stale token ends nobody else's lease; nothing slips between two motions of a reserved batch |
| Executions, `server/api.py` | plans, decisions, claims and execution records in the database; `_stop_requested`, `_active_executions`, `_cancel_requested`, `running_execution_id` in memory | `decide`, `execute` (`_run_execution`), `stop`, `release_stop`, `cancel_execution` | an approval backs one execution; a stop applies to every running execution and to everything that starts under it; the cell comes back on every way out |
| Execution history, `storage/sqlite/repository.py` | the rows of the attempts, their states and their results, in a database that outlives the server | `begin_execution` (look, read the number, insert), `append_state_transition`, `append_result` | the attempts of a request follow each other; an end is never without its result, whatever crash falls between two writes |
| Stop contract, `core/stop_contract.py`, and the fake adapter | latch; per channel: goals waiting for an answer, the active goal, orphans | `begin_send`, `on_accept`, timeouts, `request_stop`, `cancel`, `confirm_stopped`, `reset_for_new_plan` | no live goal is lost; "confirmed stopped" means the robot stands and stays standing; the latch is reset over nothing that can move |
| FR3 adapter, `robots/fr3_gazebo/` | latch, list of goal handles | send, wait for the answer, `stop` (`cancel_all`), result callbacks, `reset_for_new_plan` | the same, for an adapter that predates the contract |
| Simulation jobs, `server/sim_demo_jobs.py` | the job that runs, its lease, the goal that reserved the cell, `recovery_required`; on disk `active_job.json` | `start`, `start_reconcile_if_needed`, `reserve_goal`, `release_goal`, the watcher, `_recover_active_job` | one process moves the robot, also after the server died; a process the server cannot identify keeps everything else from starting |
| Delivery of a stop, `sim_demo_jobs.request_stop`, `sim_pick_place.py`, `routes/sim_demo.py`, `sim_demo_goals.py` | a request file per cell, the script's start time and console mark | `request_stop`, `_reassert_stop`; the three starters of a job with their looks at the latch | a job that starts around a stop is told to stop, and the script sees the request |
| Repeated transfers, `server/repeat_runs.py` | the run (saved to a file at each change), its thread, the cell's reservation | `start`, `pause`, `resume`, `cancel`, `finish_after_round`, `on_global_stop`, `verify`, `_load` | one step at a time, none skipped; nobody moves the robot between two steps; an interrupted run keeps the cell until the cell is found quiet |
| G1 service, `server/humanoid_service.py`, its bridge and the navigator's command queue | confirmation cards, the running job, its stop event; in the controller the goal, the remembered starts and the last reactions | `command`, `confirm`, `stop`, the job's thread; `apply_command`, arrival, the stop at the line, a fall | a stop ends every leg of the walk but one that races with it; a step is done on the arrival of its own leg; a walk back goes to the session's own start |
| Goals of the workcell, `server/sim_demo_goals.py`, `sim_demo_arrangement.py` | the current goal with its plan, its thread, the reservation; the environment (slots and materials not to use) | `create`, `confirm`, `run`, `request_stop`, `set_environment`; the planner `plan_arrangement` and `_return_order` | a confirmed plan can be carried out step by step; a completed goal is what was asked for; a stop wins over the next job or reaches it |
| The simulation script, `scripts/demo_workcell_pick_place.py`, and the state it leaves, `validation/simulation_demo_state.py`, `scene_sync.py`, `robots/fr3_gazebo/sim_fixture.py` | records and checkpoints of the materials, the latch file, the planning scene, what is fixed to the tool | a transfer (four kinds), resume, restore, reconcile, each a process of its own | a record says where its material is; collisions are checked in a scene that is the cell; a stopped and resumed transfer ends where it was bound for |
| The speech socket, `server/routes/stt.py`, `stt/streaming_session.py`, `vad.py`, `transcription_guard.py` | the current utterance with its VAD, the frames kept for the next one, the number of aborts, the transcriptions that run | a frame comes in, `flush`, `abort`, the guard's submission, answer and deadline | an utterance is new: no echo of the words before a question answers it; no beginning of a speech is thrown away with the silence before it; the socket answers however long the recogniser takes |

### The parts around them

| Part | What it does, and what makes it correct |
|---|---|
| Sessions and tabs (`api.py`, `storage/sqlite/repository.py`) | a tab claims a session, others attach with a grace time; idle sessions expire. One owner per session, no request served for a closed one |
| Confirmation cards (`sim_demo_confirm.py`) | a token is good once, for the state of the cell it was made for, for a limited time |
| Slots and free spots (`validation/conveyor_slots.py`, `free_spot.py`) | which slot a measured pose is in, which spot of a surface is free |
| Plan validation and permits (`validation/`) | a chain of checks of one plan; the permit binds it to the environment it was checked in |
| Outcome verification (`validation/outcome_verifier.py`) | whether a step did what it should, from observations |
| Planning (`planning/`) | asks a language model for a plan, with attempts and timeouts |
| G1 controllers (`humanoid/g1/`) | walking and manipulation, numeric control loops |
| Accounts (`server/auth.py`), profiles and geometry (`core/`), measuring scripts (`scripts/`), dashboards, HTTP layer | request handling, loading, presentation and wiring |

### How they interact

`execute()` takes the cell's lease from the authority, then either lets an adapter run the steps or
starts a transfer as a simulation job. The job runner takes the same lease for a job that nobody else
reserved the cell for, and a goal or a repeated run makes a reservation that keeps the lease's other
takers out between two jobs. `stop()` raises the server's flag first and delivers the stop afterwards:
to the goals, to the running job (a file the script polls), to the adapter (its latch), to the repeated
run. `release_stop()` looks whether anything runs, resets the adapter's latch and clears the flag.
Everything that starts a motion looks at the flag before it starts, and some look again afterwards. The
models are about the time between the look and the start.

## 2. Threads

`server/asgi.py` is one event loop. What a request does decides where it runs:

* `decide`, `execute`, `stop`, `release_stop`, `verify` of a repeated run and the planning run in
  `asyncio.to_thread`: any number of them at a time, interleaved anywhere.
* the commands, the confirmations and the direct jobs of the simulation demo run on the one worker of
  `_SERIAL` (`routes/sim_demo.py:177`): one at a time, but beside the stop.
* everything else (start, pause, resume and cancel of a repeated run, `cancel_execution`, the
  confirmation of a goal, every request to the G1) runs on the event loop itself: one at a time, and
  nothing else on the loop runs before it returns.
* threads of the server: the loop of a repeated run, the thread of a goal, the watcher of a job,
  `_reassert_stop`, the job of the G1, and the callbacks of the ROS transport.
* one coroutine per speech socket, which takes the next message when the thread that worked on the last one is back.
* processes: the simulation script, which survives the server.

A lock makes one action of what it guards. Where the code reads under a lock and acts on it later, the
model has two actions.

## 3. Modules

An abstract specification is one or two variables and what may happen to them: `CellAuthority` (those who act on
the cell: one is let in only when nobody acts on an earlier grant, and each leaves for himself) and
`RobotStop` (nothing becomes live under the halt, and the halt ends only over nothing live).

* **`CellExecution`** is `CellExecutionManager`: `lease`, `reservation` and the counter of tokens are its
  fields. Callers present any token ever drawn, which is what a stale holder does. It refines `CellAuthority` with
  those who act as the leases that were granted and that their holders have not handed back, whatever the manager has
  on record: a manager that lets a stale release end the active lease grants the cell a second time, beside a holder
  who still acts, and does not implement it.
* **`ExecutionHistory`** composes the manager with the tables `executions`, `state_transitions` and
  `execution_results` (`attempts`, `requestOf`, `number`, `states`, `results`) and the threads of `execute()` that
  write them. `LookForOpen`, `ReadNumber` and `Insert` are the two reads and the insertion of `begin_execution`,
  `Go` is `append_state_transition` with its table of transitions, `AppendResult` is `append_result`; a look at the
  stop or the cancel finds one or does not. `Raise` is any write, read or call of the adapter that raises; `Crash`
  keeps the tables and forgets the leases; `Others` are the other users of the cell, stale tokens included. Steps
  that the transfer runner executes (with the goal's reservation in place of the lease), observations and traces are
  left out.
* **`StopContract`** is `GoalTracker` under the fake adapter's `_dispatch`. One request is one call of
  `_dispatch`; the robot's goal server accepts late, loses an answer or ignores a cancel. `Cancel`,
  `RequestStop`, `ResetForNewPlan` and the four stages of `confirm_stopped` come from other threads between
  any two critical sections. It refines `RobotStop` with the tracked goals as what is live. What a step
  carries is left out.
* **`ExecutionCore`** is `decide`, `execute`, `stop`, `release_stop` and `cancel_execution`. `pc[c]` is where
  a thread in `execute()` is; each step between two labels is one critical section of `_flag_lock`, one
  transaction of the database, or one call of the adapter. `BeginExecution` and `Permit` may refuse, which
  covers the checks they make of a plan. `LatchGatesSend` says whether the adapter reads its latch in the
  critical section in which it sends a goal (`robots/fake`: yes; `robots/fr3_gazebo`: no). It refines
  `CellAuthority` too, with the threads between the grant of the lease and its end as those who act.
* **`SimDemoJobs`** is the runner. `starter` is the call that holds `_lock`: the look, the lease, the journal's
  marker, the spawn and the journal's identity are steps of their own because the server can die between
  any two of them. `journal`, `identified` and `alive` survive `Crash`; the rest does not. `Recover` may also
  find the file unreadable or the identity not comparable.
* **`StopDelivery`** is what happens between a press of the stop button and the script. The request file is
  "new" or "old" to the script according to `EXTERNAL_STOP.since`; `again` is the thread `_reassert_stop`.
  The starters are a transfer of `execute()` (looks, starts, polls), the confirmation of a card (looks,
  starts, looks again; `SerialFree` is `_SERIAL`), the confirmation of a free spot (looks, starts, answers)
  and a goal (the route looks, `confirm` starts).
* **`GazeboGoals`** is the FR3 adapter's list of handles and the ROS transport under it: one worker thread
  that sends and waits, the callbacks that take a goal off the list, `stop()` with its snapshot of the list, and
  `reset_for_new_plan`, which reads the list and clears the latch later.
* **`RepeatRuns`** is `repeat_runs.py`. `thread[t]` is a thread in `_loop` or `_resume_then_loop`; `_do_step` is its
  sequence of places. What a step does is its outcome: done, failed, canceled when a cancel came, stopped under the
  latch. Every critical section that writes the run's file may raise in `_save` (`Raises`), with the change already
  made in memory: a request then answers with an error, a thread goes to its except clause, whose `_finish()` may
  raise again (`FinishRaises`: the state is set, the reservation stays). `OtherBegins` is any other taker of the
  cell. `Restart` keeps the file and, if a script was running, its process, which the runner adopts with its lease.

* **`HumanoidService`** is the G1 service and both sides of its bridge: `command`, `confirm` and `stop` one at a
  time (`stop` in its three parts, the command out, the stop event, the wait), `JobStep(j)` the thread of a
  job, `commands` the queue of the navigator, `ctl` its goal, starts and reactions, `seen` and `fresh` the last
  status at the bridge. A restart of the controller forgets its queue and starts. Where the robot walks is left
  out but for its arrival; a reset of the simulated world (time that goes back) is not modelled.
* **`TransferScript`** is the script as a process over the cell and its files. The twelve stages of a transfer are
  the seven that differ: the material is fixed to the tool at `close`, once the fingers have closed, and let go at
  `open`, it can be dropped at `lower`. `Capture`, `Confirm`, `SetLatch` and `Consume` are the stop; `GiveVerdict`,
  `Record` and `RecordCheckpoint` the end of a run, two writes with a possible kill between; `Verify` and `Rebind`
  the start of a resumption. A record names a place or says that there was a stop or a fault; poses are places,
  "air" or "belt" off its slots. `GoalEnds` is a goal of the controller that nobody waits for any more, `Kill` and
  `RestartCell` are the faults. `upset` is history: the materials a kill, a restart or a bystander's fall has moved
  without a record, or a resumption whose checkpoint has no destination.
* **`ArrangementPlan`** is the planner as operators: `FinalPlaces` (where everything is to be, with the materials
  displaced that stand in the way), `Legs` (a direct route, or a detour over a temporary place), `Before` (who must
  leave before whom arrives, and which places a path crosses), `AllLegs` (one detour more until no cycle is left),
  `Ordered`, `Arrange`, and `ReturnAll` for the goal that brings everything home. The recursions are folds and
  recursive functions. Of the order in which the user names the materials (`_priority_order`) the order of the
  manifest is left: in the code it decides who gets which free slot, who makes the detour of a cycle and which of
  two ready steps is first, as the manifest's order does here. The module was compared with the Python functions it
  is translated from: the same plan on more than 46 000 random arrangements, requests and environments, and the same
  order of return on all 120 placements.
* **`WorkcellGoals`** composes it with the life of a goal: planned, planned again at the confirmation and compared,
  run by a thread that looks at the stop, checks the next transfer and starts it in one critical section, judges it
  by the records, and releases the reservation. `Raise` is a call that raises in the thread, also while its script
  runs; `Release` is asked once, and over a script that runs it leaves the reservation behind. Between the plan and
  the confirmation others move materials (`StartOther`) and the user edits the environment. A transfer ends at its
  destination, at its source or with an open record. The user's words, the order they state and the latch are left
  out (the latch is in `StopDelivery`).
* **`SttStream`** is one speech socket in either mode. Time is counted in frames and a frame is its number; what the
  VAD thinks of it is chosen when it is heard. `phase` is where the coroutine is: at the next message, feeding the
  frames of `pending`, submitting or waiting for a transcription, sending events. `session` is the
  `StreamingSTTSession` of the utterance, `recent` the frames for the next one, `inflight` the futures of the guard,
  the abandoned ones included. `heard` is history: the last frame of an utterance that was concluded or aborted.
  The texts, the confidence and what the storage keeps of them are left out.

`MC_M` extends `M` for TLC, which then evaluates its assumptions; `M_proofs` extends it for TLAPS. Three
proofs live beside another one: that of `GazeboGoals` in `StopContract_proofs`, that of `StopDelivery` in
`WorkcellGoals_proofs`, and that of `TransferScript`, the process of a job, in `SimDemoJobs_proofs`. So that one module
can extend both, the three name their specification after themselves (`GazeboInit`, `DeliveryNext`, `ScriptSpec`, ...).
Operators called `Mutant_...` are wrong variants of the definition that follows them. No specification
uses them; replacing the definition by its mutant makes the property named for it in `PROJECT.json` fail.

## 4. Runs

`tlc -config X.cfg MC_M.tla` in this directory. States are distinct states; with two workers a run
takes from seconds to two and a half minutes.

| Run | Configuration | Bounds | States | Shows |
|---|---|---|---|---|
| `history` | `History.cfg` | 2 threads (symmetric), 2 requests (one with a stop step), 2 steps, 2 attempts, 4 tokens drawn, 1 crash or failed write | 3 681 148 | attempts follow each other, an end is never without its result; with stale leases and reservation tokens in every order a batch is not interleaved, and nobody is let in beside a holder who still acts (refines `CellAuthority`) |
| `stop_contract` | `MC_StopContract.cfg` | 3 requests, 2 channels, symmetric requests of a channel | 758 658 | no live goal escapes the tracker, a confirmed stop is a still robot, refines `RobotStop`: nothing is sent under the latch, which is reset over nothing |
| `exec` | `Exec.cfg` | 2 threads (symmetric), 1 plan of 2 steps, 2 decisions, 2 executions, 1 stop, 1 release, 1 cancel | 4 183 927 | an approval backs one execution; the cell is leased to a thread on its way to release it, and the registry speaks of its execution; after a stop or a recorded cancel one more step goes out at most |
| `jobs` | `Jobs.cfg` | 4 jobs, 2 goals, 2 crashes, fair | 97 318 | the journal names every process that moves, a restarted server adopted it or refuses motion, a job's lease comes back |
| `delivery` | `Delivery.cfg` | 1 press, 1 transfer, 1 card, 1 spot, 1 goal of 1 step, 2 jobs, fair | 844 162 | under the latch no job of a transfer or a card runs unnoticed, and a repeated request reaches the script |
| `gazebo` | `Gazebo.cfg` | 3 goals, 2 stops, fair | 55 015 | a moving goal is on the list, waited for or given up; the latch is cleared over an empty list; every goal leaves the list |
| `repeat` | `Repeat.cfg` | 2 loop threads (symmetric), 1 `verify()`, 4 steps in rounds of 2, 2 runs, 1 pause, 1 stop, 2 restarts, 2 writes that raise | 2 631 236 | nobody moves the robot between two steps, one step at a time, an ended run gives the cell back as long as one try of it can be written, the lock of an interrupted run holds the cell and is released over no process |
| `humanoid` | `Humanoid.cfg` | 2 sessions (one with a walk behind it), 2 jobs, 1 stop, 1 remembered start, 1 fault (stop at the line, fall or death), fair | 678 412 | a walk back goes to the session's own start, a leg is credited with its own arrival, only a leg that races with the stop survives it, the closing stop of a failed job hits no leg of the next, every other leg is canceled in the end |
| `script` | `Script.cfg` | 2 materials, 2 slots, 3 runs of the script, 2 stops, 1 fault, fair | 1 148 609 | a record is true of its material, the collision scene is the cell, a checkpoint belongs to a stopped record, a resumed transfer ends where it was bound for, a stop takes hold |
| `goals` | `Goals.cfg` | the 3 materials, pallets and slots with their measured crossings, 5 starts, 7 requests, 3 environments; 1 goal, 1 transfer of others, 1 failed transfer or call that raises, 1 stop, 1 edit; fair | 515 514 | a confirmed plan runs through, a completed goal is what was asked for, a stop reaches the script it is pressed for, the reservation ends unless a call raised over a running script |
| `stt` | `Stt.cfg` | both modes, 13 frames, 2 aborts, 2 slots; `speech_start` and `silence_end` 1, `max_audio` 7, stride 2, idle reset and preroll 5 frames; fair | 148 184 | an utterance is new and in order, a silence that is thrown away takes no beginning of a speech with it, the socket answers |
| `exec_lost_stop` | `Exec_lost_stop.cfg` | 1 thread, 3 steps, 1 decision, 1 stop, 1 release | violated | the finding of section 6 |

Each module has a `TypeOK`, and a proof of section 5 establishes it, so no run repeats it.

**Why the bounds are enough.** Each hazard is a race of two or three actors, and the bounds give every actor one
turn more than its race needs. Two threads are what a double use of an approval takes; two steps are one sent before
a stop and one that must not follow; two decisions and two executions are one used and one tried again; three
requests on two channels give a channel a late answer beside an active goal; four tokens are a batch, one motion in
it, and a motion before and after, and two attempts and one fault are an attempt that was cut in two and whoever
tries again. The release is what a stop meets that was pressed after it began. A second crash finds the journal that
the recovery after the first one left. Two runs let a thread of the first survive into the second, and four steps in
rounds of two put the end of a round in the middle of a run; of two writes that raise the first sends a thread to
its except clause and the second is the one there. Two jobs of the G1 are one that leaves something in the queue and
one that finds it. Three calls of the script are a transfer that is stopped, a resumption that is stopped again and
the call after it; two materials are one in hand and one in the way. The instance of `goals` is the real workcell,
and its starts and requests are the ones in which materials swap, cross each other's paths or fill the conveyor; one
disturbance of each kind is what a plan can meet between its making and its end. The planner itself is not bounded
by that: the assumption `SoundPlanner` of the run goes through every arrangement of the cell. With `Mutant_Open` or
`Mutant_CrossedBefore` in the place of their definitions in `ArrangementPlan` TLC finds it false. Thirteen frames
are two silences thrown away, or an utterance that is too long, and one after it; the second transcription of two
slots meets an abandoned one. The theorems of section 5 hold for every value of these constants.

`CHECK_DEADLOCK FALSE` is in every configuration but the one of `StopContract`: the bounded counters
run out, and a workcell nobody commands may rest for ever.

**Fairness.** Weak fairness, and only of what the code runs without being asked:
in `SimDemoJobs` the call that holds the lock, the watcher of a job, and the end of the script, which has a
time limit; in `StopDelivery` the script's boot and its polling and the server's threads, but not the end of
a script; in `GazeboGoals` the controller, which decides about every goal and ends it, the delivery of
results, and the thread in `stop()`; in `HumanoidService` the thread of a
job (its waits have time limits) and the navigator's reading of its queue while it is up; in `TransferScript` the
process; in `WorkcellGoals` the goal's thread, the request that stops it, and the end of a script; in
`SttStream` the coroutine and the deadline of a transcription, but not that the recogniser ever ends one. That anybody
presses a button, starts a job, speaks or verifies a cell is never assumed.

## 5. Proofs

`tlapm M_proofs.tla`. All constants are arbitrary under the named assumptions of each module (bounds are
natural numbers, names of different kinds differ); TLC evaluates those in every run. An invariant is proved
as `Init => IInv`, `IInv /\ [Next]_vars => IInv'` and `IInv => Inv`, with a lemma per action where it is long.

* **`ExecutionHistory_proofs`** — first the manager alone: `IInv` adds `TokensDrawn`: every token in use was drawn.
  A fresh token is larger than all of those, so a lease that was there when a batch was reserved is older than the
  reservation; this is what makes `BatchNotInterleaved` inductive (`TypeCorrect`, `SingleHolder`, `BatchExclusive`).
  `SingleHolder` (no lease is out but the active one, and a lease that is handed back ends nobody else's) makes
  every step of the manager a step of `CellAuthority` (`AuthoritySteps`), hence `ImplementsAuthority`. Then the
  history: every step of it is one of the manager or a crash (`StepOfCell`), which carries the three results over
  (`BatchesOfHistory`, `HistoryKeepsAuthority`). `OneThread` (the thread in `execute()` has the lease, so there is
  one) makes what `begin_execution` read still true when it inserts; `Local` says where an attempt is when its
  thread is at a label, `Closed` that an attempt is finished or somebody is at it. From these `HistoryTypeCorrect`
  and `HistoryStaysInOrder`. That the highest number is the count of the attempts (`HighestIsCount`) is where the
  cardinality theorems are used.
* **`ExecutionCore_proofs`** — `LeaseInv` (a thread is past the acquisition iff the lease is its own),
  `RegistryInv` (`running_execution_id` and the registry are the lease holder's), `LocalInv`, `ApprovalInv` (a
  claimed approval that has no execution yet is one thread's, so two executions cannot have the same). From
  it `ApprovalUsedOnce`, `RegistryHonest`, `LeaseIsAuthority`. On top of it `HaltInv`: a thread that has checked
  the flag and not yet sent is one that the stop found registered and that has sent nothing since
  (`StopInv`), and likewise for a cancel (`CancelInv`). From both `StopIsKept` and `CancelIsKept`.
* **`StopContract_proofs`** — `DispatchInv` (where a dispatch is says where its goal is tracked, and a handle is one
  of an accepted goal) makes `LiveTracked` inductive. `ConfirmInv` is what a `confirm_stopped` call has established
  so far: on the channels it has looked at nothing waits for an answer, and nothing is live but the handles still to
  be canceled and, until the measurement, the goal that was just canceled and slows down. At the end no channel is
  left, which is `ConfirmedMeansStill`. Theorems: `TypeCorrect`, `NoGoalEscapes`, `StillWhenConfirmed`,
  `PromiseKept` (the refinement of `RobotStop`; `OnAccept` only moves a goal within what is tracked). In the same
  module, of `GazeboGoals`: `Owned` (a goal known to the controller is on the list, given up, or the one waited
  for), `Answered`, `Waits`, and `QuietUntilReset`: between the look at the list and the release no step begins,
  because a step begins only with the latch off; `GazeboTypeCorrect`, `MovingGoalsTracked`, `ResetWhenQuiet`.
* **`SimDemoJobs_proofs`** — `Known` (a moving process is the current job, the one being launched, or a recovery
  is demanded), `LaunchInOrder` (what each stage of the launch has established before the next), `OneSlot`,
  `RunnerHolds`, `DownForgets`, `NumbersDrawn`. `OneMotionProcess` and `AdoptedOrClosed` follow. Theorems:
  `TypeCorrect`, `JournalComplete`, `OneProcessMoves`, `AdoptsOrFailsClosed`, `GoalKeepsTheCell`.
  In the same module, of `TransferScript` (`ScriptInv`, for any materials, slots, calls, stops and faults): every
  invariant needs the others. `ProcessInv`: what a run is before it has its material in hand. `StageInv`: how far the
  stages have come says what is held. `InHandInv`: a transfer is bound for where it began to go, from where the record
  says its material is, and has no checkpoint behind it; a resumed one is bound for the place in the record, which is
  why `DestinationKept` survives a checkpoint without a destination. `CaptureInv`, `CheckpointInv`: a captured
  checkpoint fits the record of the stop that is written before it. `UntouchedInv` (what was not grasped is where it
  was) and `OutcomeInv` (what the verdict found still holds when it is recorded, because a goal that ends late drags
  only what is fixed to the tool) give `RecordIsTrue`, the heart of `TruthInv`: whatever of the four kinds of run and
  the resumption writes a record, it is of a stop or a fault or it is true. Theorems: `ScriptTypeCorrect`,
  `RecordsAreTrue`, `SceneCorrect`, `CheckpointsAreRecorded`, `DestinationCorrect`.
* **`RepeatRuns_proofs`** — what a thread may change is said once (`ThreadChanges`) and used by every invariant.
  `LockInv` (an interrupted run holds the cell, is locked in the file too, and has no thread), `SavedInv` (the file
  holds no lock that a restart would not take again) and `SeenInv` (what `verify()` saw stays true while the lock is
  held) give `LockIsHeld` and `UnlockIsQuiet` for any number of concurrent requests and of writes that raise.
  `CellIsGivenBack` needs no assumption either (`NextReserved`, one case per critical section that ends a run): the
  reservation goes with the run, or there is still a call of `_finish()` to come, or the last one has raised.
  `CellInv` (`HoldInv`: an active run has the reservation; `ThreadInv`: one thread at most, at the cursor's step;
  `VerifyInv`) is inductive only while no pause and stop have come together (divergence 3), for one `verify()` at a
  time (divergence 9), and until a thread could not write its pause (divergence 26): `OneVerifier` and `Undisturbed`.
  The bounds count pauses and stops and `CountInv` ties the counts to the state, so that a step that is undisturbed
  began undisturbed (`UndisturbedBefore`); `Restart` establishes `CellInv` from nothing, as it sets every thread off.
  Theorems: `TypeCorrect`, `LockIsHeld`, `UnlockIsQuiet`, `CellIsGivenBack`, and under `OneVerifier` `CellIsTheRuns`
  and `StepsInOrder`.
* **`HumanoidService_proofs`** — `WorkInv` (one card per session; the start on it is the one the session's last job
  left) and `ThreadInv` (one job at most has a thread) are what every step needs. `LegInv`: a leg in the queue, at the
  controller or in its last status was sent. `QueueInv`: of the running job at most one leg is under way, it is the last
  one in the queue, and when a start is saved none is. With it `KindInv` (a leg under way is the step it names),
  `ViewInv` (an accepted goal and the arrival at it belong to one leg) and `StartInv` are inductive, and from them
  `ReturnsToOwnStart` and `ArrivalIsThisLegs`: no status of an earlier leg can still be read as this one's, because the
  leg's own reaction came first. `StopInv` is what a stop has caught: every leg of the job is canceled, has a stop
  behind it in the queue, or was sent after the stop had gone out. It is stronger than `OnlyRacedLegsSurvive`, which
  speaks of ended jobs only. Theorems: `TypeCorrect`, `WalksBackToOwnStart`, `ArrivalCorrect`,
  `StopLeavesRacedLegs`, `ClosingCorrect`.
* **`SttStream_proofs`** — `Numbered` (the frames of the utterance, those to be fed and those kept follow each other,
  and what is not yet fed comes after what was concluded), `Staged` (a message is taken only when everything is fed;
  a transcription is one of frames), `Kept` (the kept frames are as many as the utterance has, or as many as are fed
  again), `Vad` (while the session listens a voice is shorter than a speech). Lemmas about sequences of consecutive
  frames come first. The assumption on the policy is `speech_start_sec < WAKE_PREROLL_SEC <= WAKE_IDLE_RESET_SEC`; the
  policy in `examples/config` (0.2 s) satisfies it, and no code checks it. Theorems: `TypeCorrect`, `UtterancesAreNew`,
  `SpeechIsKept`.
* **`WorkcellGoals_proofs`** — what the thread of a goal needs of the planner is stated once, as `PlannerIsSound`:
  over any arrangement in which no two materials share a place, a plan is a sequence of transfers each of which
  `check_transfer` allows when its turn comes (`After` says where the materials are then; this is not asked of the
  plan that returns everything, see section 6), and it ends with the request. The planner is a stack of folds, and
  what a fold computes is an induction, which is out of the prover's reach; so `PlannerIsSound` is the hypothesis of
  three theorems, and `MC_WorkcellGoals` has TLC evaluate it for the real cell: all 120 arrangements with each of
  the seven requests and the three environments of `goals`. The theorems say that the life of a goal adds nothing
  wrong to a sound plan. `RecordInv`: no two materials are recorded at one place, and nobody gets to the destination
  of the transfer that runs. `ThreadInv`: the reservation, the status and the thread go together (a thread that is
  gone and left the reservation behind is "left"), and the goal's job is its next step while it works. `CourseInv`: the records are the
  arrangement of the confirmation after the steps that are done, but for the material on its way; undisturbed, every
  step is allowed in its turn; after the last one the request is fulfilled. The confirmation begins the course
  because the plan is made again there, over the records of that moment, and must be the one that was shown
  (`ConfirmBegins`); `_step_reached` keeps it because only the record lets the thread go on. Theorems:
  `TypeCorrect`, `PlanGoesThrough`, `CompletedGoalFulfilled`. `StopNotOutrun` needs no hypothesis on the planner:
  between the two halves of a stop the thread starts nothing (`StopInv`). In the same module, of `StopDelivery`:
  `WatchedJobTold` is inductive with `Aimed` (a call about to write has a job) and `Known` (no starter names a job
  that is not there yet); `DeliveryTypeCorrect`, `JobsAreTold`.

**Only model-checked**: that the planner is sound, and every liveness property.
Liveness under fairness and ENABLED are out of the prover's reach, and so are induction over data and recursive
operators; the modules with theorems contain none of the latter.

## 6. Findings and divergences

One finding has a run of its own, whose trace is the shortest way there.

1. **A stop is erased by a release that began before it** (`api.py:2255`, run `exec_lost_stop`). `release_stop()`
   does not ask whether a stop is on: it reads the registry once, resets the adapter's latch and clears the flag later.
   In the trace it finds nothing registered, and no stop has been pressed. An execution that has passed its look at the
   flag registers; a stop, the only one, raises the flag and finds that execution registered; then the release clears
   the flag that the stop has just raised, and the rest of the plan is sent.

The following are stated by a comment or a message of the code, written as properties in the modules, and
violated as well. No run is kept for them; the constants in brackets show them in seconds.

2. `EveryJobTold` (`StopDelivery`, 1 press, a goal of 2 steps): **a goal starts under the latch**. The route looks at
   the latch (`routes/sim_demo.py:309`), `confirm()` does not (`sim_demo_goals.py:390`). A stop between the two finds
   no active goal and no job, though `api.py:2060` says that under the latch no moving task is made or started.
3. `EndedStaysEnded` (`RepeatRuns`, 1 run, 1 pause, 1 stop): **a stopped run becomes paused again**. The thread of a
   step that was canceled for a pause sets the state to `paused` (`repeat_runs.py:498`) though a global stop has ended
   the run meanwhile ("a global stop cancels the remaining rounds", `repeat_runs.py:15`); the run can be resumed,
   without a reservation.
4. `CancelStopsRemainingSteps` (`ExecutionCore`, Steps 3, one cancel): a cancel answered between the registration
   and the loop is discarded (`api.py:1723`), though `api.py:2280` says the remaining steps are not sent.
5. `ClaimsLastDecision` (2 decisions): the last decision is read before the claim (`api.py:1534`), so a rejection
   in between does not keep the plan from running ("no execution after a rejection", `api.py:1381`).
6. `ApprovedSinceStop` (1 stop, 1 release): an approval from before a stop works after the release, though the
   refusal under the stop tells the operator to approve again (`api.py:1456`).
7. `ConfirmedMeansStill` with `LatchGatesSend = FALSE`: the FR3 adapter sends a goal without reading its latch
   in the same critical section (`robots/fr3_gazebo/adapter.py:565`), so one can reach the robot after the stop
   was confirmed.
8. `ReleasedOverNothing` (`GazeboGoals`): a goal accepted after the timeout (`ros_transport.py:273`) is on no list,
   and the latch is released while it moves.
9. `NothingBetween` with two `Verifiers` (`RepeatRuns`): the slower of two `verify()` requests releases the
   reservation of a run started in between (`repeat_runs.py:348`).
10. `StopCancelsTheRest` and `PauseBeforeNextStep` (`RepeatRuns`): a stop that is released again, or a pause, that
    finds the run between two steps does not keep the next step from being sent (`repeat_runs.py:370`, `:301`).
11. `NothingStartsUnderTheLatch` (`RepeatRuns`): the thread of `resume()` does not look at the latch again before
    it starts the job (`repeat_runs.py:524`).
12. `NothingRunsBeside` (`SimDemoJobs`): `execute()` takes the lease without a look at `recovery_required`
    (`api.py:1503`), so a plan runs on the adapter beside a script that could not be identified.
13. `EveryJobTold` with `Spots = {s1}` and no goal (`StopDelivery`): the confirmation of a free spot does not look
    at the latch a second time (`routes/sim_demo.py:1405`).
14. `StopIsSeen` (`StopDelivery`, fair, 1 press, 1 transfer, 1 job): the mark of the script is looked for after the
    write (`sim_demo_jobs.py:996`). A script that sets its start time after the write and shows the mark before the
    look drops the request, and nobody writes it again.
15. `StoppedLeavesNothing` (`HumanoidService`): `stop()` sends the command before it sets the stop event
    (`humanoid_service.py:190`). A leg that the thread sends in between stands in the queue behind the stop; the
    thread then ends as stopped and the robot walks on to that goal.
16. `CheckpointKeepsDestination` (`TransferScript`): the checkpoint of a resumed transfer that is stopped again is
    captured without its destination (`demo_workcell_pick_place.py:2143`), though `simulation_demo_state.py` says
    that it is bound to the checkpoint. The slot in the record makes up for it (`DestinationKept` holds).
17. `NothingElseOnTool` and `NothingElseMoves` (`TransferScript`): a kill or a lost answer leaves a material at the
    tool, or a goal that still moves the arm, and the next run neither looks at the joints of the fixture nor at
    the controller's goals before it releases the latch.
18. `PutBackHasRoom` (`TransferScript`): `restore` sets a material down on its pallet without a look at who stands
    there since pallets can be destinations.
19. `ReturnRunsThrough` (`WorkcellGoals`): the return of everything is ordered by the crossings of paths, but without
    a look at whether the pallet a material returns to is taken, or at the materials not to use. A step of it can be
    refused on the way, though `sim_demo_goals.py:156` says that it is told before.
20. `DoneIsCompleted` (`WorkcellGoals`): a goal all of whose steps succeeded is reported failed when another material
    moved between its plan and its confirmation, because the final check uses the arrangement of the first plan
    (`sim_demo_goals.py:509`) and the confirmation compares the steps only (`:377`).
21. `StopHitsOwnJob` (`WorkcellGoals`): the second half of a goal's stop runs outside the lock
    (`sim_demo_goals.py:539`). If the goal has ended by then it stops the transfer that somebody else has started.
22. `SettledBeforeTheNext` (`ExecutionHistory`): `begin_execution` is refused while an attempt's result is "not settled"
    (`storage/repository.py:13`), but the query takes the result of a step for one (`repository.py:1278`). After a
    crash behind the first step the request can be executed again over an attempt nobody knows the end of.
23. `StoppedIsRecorded` (`ExecutionHistory`, a plan with a stop step): a stop step that is confirmed makes the result of
    the whole `stopped` (`outcome_verifier.py:250`), and no transition leads there from `executing`
    (`core/execution_state.py:41`). `append_state_transition` raises after the result was written: the request is
    answered with an error, and the history says for ever that the attempt executes.
24. `EndedGivesBack` (`RepeatRuns`): `_finish()` sets the state and writes the file before it gives the reservation
    back (`repeat_runs.py:376`). A write that raises in `cancel()`, in `on_global_stop()`, or in the last except
    clause of a thread leaves an ended run with the cell reserved, until a restart. `ReservedForSomeone` says that
    these are the only ways.
25. `RunningHasThread` (`RepeatRuns`, 1 failed write): `start()` and `resume()` set the run active before the write and
    start its thread after it (`repeat_runs.py:322`). A write that raises leaves an active run that nobody works on;
    a pause makes it "pausing" and nothing ever "paused", and only a global stop after that, or a restart, ends it.
26. `NoStepAfterTheEnd` (`RepeatRuns`): the write of the pause itself raises (`repeat_runs.py:498`): the state is `paused`
    in memory, the thread is on its way to the except clause (`:415`), and a `resume()` before it gets there starts a
    second thread on a run that the first one then ends.
27. `NothingLeftBehind` (`WorkcellGoals`): a call that raises in the thread of a goal while its script runs
    (`sim_demo_goals.py:472`) fails the goal, and the `finally` asks `release_goal` once, which refuses because the
    script runs (`sim_demo_jobs.py:562`). Nobody asks again, though the comment calls this the only release: the cell
    stays reserved until a restart. `execute()` starts a thread for exactly this case (`api.py:1549`).

Of the speech socket: `abort()` says that it goes straight to the stop "without waiting for the transcription"
(`streaming_session.py:226`), but the coroutine reads the message only when the thread of the running transcription is
back, at the latest after its deadline (`Abort` needs `phase = "receive"`). The guard of the concurrent
transcriptions is made per socket (`routes/stt.py:90`), so the limit is one of each stream and not of the server. The
session of the browser is checked when the socket opens (`:63`) and not again when a request is saved.

Four more are outside the models: a write that raises in `on_global_stop()` ends `stop()` before the adapter is
asked to stop (`api.py:2126`; the flag is up and the script has been told by then), the planner ignores crossings
declared as `"*"` (always blocked), a material on a free spot of a surface is planned as if it stood on its pallet,
and a planned goal bound to a session that is closed keeps others from being planned.

Properties that hold are stated so that they do not depend on these: `WatchedJobTold` is about the jobs of the two
starters that look again, `OnlyRacedLegsSurvive` names the leg of 15, `RecordsTellTheTruth` the materials a kill or
a restart has moved, `PlanRunsThrough` is about arrangements and not the return of 19, `MovingIsTracked` names the
goals whose answer came too late, `NothingBetween` and `OneStepAtATime` exclude the behaviours in which a pause and
a stop came together or a pause could not be written, `ReservedForSomeone` the calls of 24, `CellComesBack` the goal
of 27, `HistoryInOrder` the plans of 23 and, in what counts as open, the attempts of 22.

## 7. Not modelled, and the plan

Left out of the modules above, on purpose: wording and contents of plans and answers; times, except as timeouts
that may or may not strike; the geometry and physics of a step, which is its outcome; the second channel of the
gripper and the measured window of `confirm_stopped` in the FR3 adapter.

Of `execute()`: the refusals between the lease and the claim of the approval (`api.py:1521` to `1531`, a motion
setting that cannot be read) are not a way out of their own: like a claim that is refused they end with the lease
handed back. A call that raises behind the registration (a transition, a connect, the record of the result) leaves
through the same `finally` and is in `ExecutionHistory` (`Raise`), not in `ExecutionCore`, where `BeginExecution` sets
`running_execution_id` and registers in the step in which the attempt is inserted.

Of the script: the environment's other way of fixing a material to the tool, before the fingers close
(`FORSTICK2_FIXTURE_ATTACH`, `demo_workcell_pick_place.py:189`), the free spots of a surface, the modes that only
check, the case that a confirmed stop finds too few observations for a checkpoint (the checkpoint is then absent,
which is in the model), and the other cell policy. One script runs at a time, as the lease of the job runner has it,
and the simulation restarts only while none runs.

Not modelled and not planned: the control loops of the G1 (numeric, with a trained policy), the accounts (sequential
request handling over library code), profiles and geometry (range checks without state), the scripts that measure
poses or drive the server from outside, the dashboards and the scene view (they read state), the HTTP layer (wiring;
section 2 is what the modules take from it), and the speech recogniser behind the guard (signal processing).
They are most of the lines of the repository, which is why the map covers a small share of it.

The order of the modules follows what moves the robot: the authority, the contract, the executions, the jobs, the
delivery of a stop, the FR3 adapter and the repeated runs came first, then the G1, the script, the goals, the speech
socket and the history of executions. Next:

1. `StopWindow` — the measured window of `confirm_stopped` in the FR3 adapter, against "no sample moved".
2. `ClientSessions`, `ConfirmStore` — claim, attach, expiry; one-shot tokens and their fingerprint.
3. The outcome verifier, the consistency of request and plan, and the attempts of the planner: sequential decisions
   over observations, as operators against a reference definition.

Every safety property of the runs is proved; proofs to come are those of the modules above.
