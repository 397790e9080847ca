--------------------------- MODULE TransferScript ---------------------------
(***************************************************************************)
(* The script that moves the materials of the simulated workcell,          *)
(* scripts/demo_workcell_pick_place.py, over the three things it leaves    *)
(* behind when it ends: the records and checkpoints of                     *)
(* validation/simulation_demo_state.py, the stop latch (a file), and       *)
(* the cell itself: where the materials are, which of them is fixed to     *)
(* the tool (robots/fr3_gazebo/sim_fixture.py), what the planning scene    *)
(* holds (validation/scene_sync.py) and a goal that still moves the arm.   *)
(*                                                                         *)
(* Each call of the script is a process of its own, and the server starts  *)
(* one at a time.  It moves one material, resumes a stopped transfer,      *)
(* puts a material back or compares the records with the cell; the policy  *)
(* is simulation_demo_hold, and the material is fixed to the tool after    *)
(* the fingers have closed (FORSTICK2_FIXTURE_ATTACH = after_close, the    *)
(* default).  A pallet has the name of its material.  The twelve stages of *)
(* a transfer are the seven that differ.                                   *)
(*                                                                         *)
(* A definition named Mutant_... is a wrong variant of the one after it.   *)
(* No specification uses it; it shows what the properties can tell apart.  *)
(***************************************************************************)
EXTENDS Naturals, Sequences

CONSTANTS
    Materials,      \* and, under the same names, their pallets
    Slots,          \* the slots of the conveyor
    DefaultSlot,    \* the slot of a plan that names none
    MaxRuns,        \* bound on the calls of the script
    MaxStops,       \* bound on the stop requests
    MaxFaults,      \* bound on kills, failures and restarts of the simulation
    Nothing         \* no place, no stop, no checkpoint, no file

ASSUME ScriptBounds == MaxRuns \in Nat /\ MaxStops \in Nat /\ MaxFaults \in Nat
ASSUME PlacesAssumption ==
    /\ DefaultSlot \in Slots
    /\ Slots \cap Materials = {}
    /\ {"air", "belt"} \cap (Slots \cup Materials) = {}
ASSUME NothingAssumption ==
    Nothing \notin Nat \cup Slots \cup Materials \cup {"air", "belt"} \cup BOOLEAN

Places == Slots \cup Materials

VARIABLES
    place,          \* where a material is: a place, off its slot on the belt, or in the air
    joined,         \* the materials fixed to the tool
    scene,          \* where the planning scene has its box
    armGoal,        \* a goal of the controller still moves the arm
    rest,           \* the stop whose posture the arm still has
    rec,            \* the records
    ckpt,           \* the checkpoints
    latch,          \* the stop latch
    request,        \* the stop request in the file
    run,            \* the process
    runs, stops, faults,
    upset           \* history: materials that something other than a run has moved,
                    \* or a resumed run whose checkpoint has no destination

cell == <<place, joined, scene, armGoal, rest>>
files == <<rec, ckpt, latch, request>>
counts == <<runs, stops, faults>>
scriptVars == <<cell, files, run, counts, upset>>

NoRecord == [state |-> "none", at |-> Nothing, bound |-> Nothing]
NoRun == [at |-> "none", kind |-> Nothing, m |-> Nothing, from |-> Nothing, to |-> Nothing,
          k |-> 1, held |-> FALSE, attached |-> FALSE, fault |-> FALSE, since |-> 0,
          seen |-> Nothing, cp |-> Nothing, ok |-> FALSE, restored |-> Nothing,
          aim |-> Nothing]

RunStages == <<"approach", "close", "lift", "place_approach", "lower", "open", "home">>
Stage == RunStages[run.k]
Resumable == 4

ScriptInit ==
    /\ place = [m \in Materials |-> m]
    /\ joined = {}
    /\ scene = place
    /\ armGoal = FALSE
    /\ rest = Nothing
    /\ rec = [m \in Materials |-> NoRecord]
    /\ ckpt = [m \in Materials |-> Nothing]
    /\ latch = Nothing
    /\ request = Nothing
    /\ run = NoRun
    /\ runs = 0 /\ stops = 0 /\ faults = 0
    /\ upset = {}

-----------------------------------------------------------------------------
(* The stop request.                                                       *)

(* Of another process: the server writes the file.                         *)
AskStop ==
    /\ stops < MaxStops
    /\ stops' = stops + 1
    /\ request' = stops + 1
    /\ UNCHANGED <<cell, rec, ckpt, latch, run, runs, faults, upset>>

(* Only a request written since the process began counts.                  *)
Requested == request # Nothing /\ request > run.since

-----------------------------------------------------------------------------
(* What the records say.                                                   *)

(* expected_at: a record of a stop or a fault names no place.              *)
Where(m) == CASE rec[m].state = "none" -> m
              [] rec[m].state = "held" -> rec[m].at
              [] rec[m].state \in {"stopped", "fault"} -> Nothing

(* The record of m says a place, and m is observed there.                  *)
AsRecorded(m) == Where(m) # Nothing /\ place[m] = Where(m)

Mode(m, from, to) ==
    CASE from = m /\ to \in Slots -> "forward"
      [] from \in Slots /\ to = m -> "return"
      [] from \in Slots /\ to \in Slots -> "slot_move"
      [] OTHER -> "route"

(* What a run looks up before it touches the latch: nothing (forward), the *)
(* record of its material (return), or every record.                       *)
RecordsAllow(m, from, to) ==
    CASE Mode(m, from, to) = "forward" -> TRUE
      [] Mode(m, from, to) = "return" -> rec[m].state = "held" /\ rec[m].at = from
      [] OTHER -> /\ \A x \in Materials : Where(x) # Nothing
                  /\ Where(m) = from
                  /\ \A x \in Materials \ {m} : Where(x) # to

-----------------------------------------------------------------------------
(* The start of a run.                                                     *)

NoScript == run.at \in {"none", "dead"}

Begin(kind, at, m) ==
    /\ NoScript
    /\ runs < MaxRuns /\ runs' = runs + 1
    /\ run' = [NoRun EXCEPT !.at = at, !.kind = kind, !.m = m, !.since = stops]
    /\ UNCHANGED <<cell, files, stops, faults, upset>>

BeginRun(m, from, to) ==
    /\ from # to
    /\ NoScript
    /\ runs < MaxRuns /\ runs' = runs + 1
    /\ run' = [NoRun EXCEPT !.at = "entry", !.kind = Mode(m, from, to), !.m = m,
                            !.from = from, !.to = to, !.since = stops, !.aim = to]
    /\ UNCHANGED <<cell, files, stops, faults, upset>>

Over == run' = NoRun

(* The latch is released before the other conditions are looked at: this   *)
(* process has no goal of its own yet, and a scene that is another one     *)
(* only changes the message.                                               *)
ReleaseLatch ==
    /\ run.at = "entry"
    /\ RecordsAllow(run.m, run.from, run.to)
    /\ latch' = Nothing
    /\ run' = [run EXCEPT !.at = "sync"]
    /\ UNCHANGED <<cell, rec, ckpt, request, counts, upset>>

(* What is observed at the destination.                                    *)
Vacant(m, to) == \A x \in Materials \ {m} : place[x] # to

(* sync_planning_scene, and then what is observed about the source and the *)
(* destination.  A run that another check stops leaves the scene as it is  *)
(* then, in step with the cell.                                            *)
Mutant_SyncedScene == scene
SyncedScene == place

Sync ==
    /\ run.at = "sync"
    /\ \A x \in Materials : AsRecorded(x)
    /\ scene' = SyncedScene
    /\ \/ /\ place[run.m] = run.from
          /\ Vacant(run.m, run.to)
          /\ run' = [run EXCEPT !.at = "look"]
       \/ Over
    /\ UNCHANGED <<place, joined, armGoal, rest, files, counts, upset>>

(* A refusal writes nothing but a report.                                  *)
Refuse ==
    /\ run.at \in {"entry", "sync", "verify"}
    /\ Over
    /\ UNCHANGED <<cell, files, counts, upset>>

-----------------------------------------------------------------------------
(* The stages.                                                             *)

Goes(at) == run' = [run EXCEPT !.at = at]
Fails == faults < MaxFaults /\ faults' = faults + 1

(* The arm takes along what is fixed to the tool.                          *)
Carried == [m \in Materials |-> IF m \in joined THEN "air" ELSE place[m]]

Dragged == joined \ (IF run.held THEN {run.m} ELSE {})

(* The loop's look at the scene, the collisions of the stage and the stop  *)
(* request; then the goal is sent.                                         *)
LookFails ==
    /\ run.at = "look"
    /\ Fails
    /\ run' = [run EXCEPT !.at = "verdict", !.fault = TRUE]
    /\ UNCHANGED <<cell, files, runs, stops, upset>>

LookStops ==
    /\ run.at = "look"
    /\ Requested
    /\ run' = [run EXCEPT !.at = "stop", !.seen = request]
    /\ UNCHANGED <<cell, files, counts, upset>>

Send ==
    /\ run.at = "look"
    /\ ~Requested
    /\ Goes("sent")
    /\ IF Stage \in {"close", "open"}
       THEN UNCHANGED <<place, armGoal, rest, upset>>
       ELSE /\ armGoal' = TRUE
            /\ place' = Carried
            /\ rest' = Nothing
            /\ upset' = upset \cup Dragged
    /\ UNCHANGED <<joined, scene, files, counts>>

(* Where a goal of the lowering that was not seen through has come.        *)
Halfway == {place} \cup
    (IF Stage = "lower" THEN {[place EXCEPT ![run.m] = run.to]} ELSE {})

(* The second look at the request, when the answer to the goal is there.   *)
Mutant_Noticed == Requested /\ run.k < Len(RunStages)
Noticed == Requested

SentStops ==
    /\ run.at = "sent"
    /\ Noticed
    /\ run' = [run EXCEPT !.at = "stop", !.seen = request]
    /\ armGoal' \in {FALSE, armGoal}
    /\ place' \in Halfway
    /\ UNCHANGED <<joined, scene, rest, files, counts, upset>>

(* Refused, unanswered or missed; an unanswered goal is still on its way.  *)
SentFails ==
    /\ run.at = "sent"
    /\ ~Noticed
    /\ Fails
    /\ armGoal' \in {FALSE, armGoal}
    /\ place' \in Halfway
    /\ run' = [run EXCEPT !.at = "verdict", !.fault = TRUE]
    /\ UNCHANGED <<joined, scene, rest, files, runs, stops, upset>>

Reached(stages) == run.at = "sent" /\ ~Noticed /\ Stage \in stages
Onward(r) == run' = [r EXCEPT !.at = IF r.k = Len(RunStages) THEN "verdict" ELSE "look",
                              !.k = @ + 1]

Reach ==
    /\ Reached({"approach", "lift", "place_approach", "home"})
    /\ armGoal' = FALSE
    /\ Onward(run)
    /\ UNCHANGED <<place, joined, scene, rest, files, counts, upset>>

Lower ==
    /\ Reached({"lower"})
    /\ armGoal' = FALSE
    /\ Onward(run)
    /\ \/ place' = [place EXCEPT ![run.m] = run.to] /\ UNCHANGED faults
       \/ Fails /\ \E p \in {"air", "belt"} : place' = [place EXCEPT ![run.m] = p]
    /\ UNCHANGED <<joined, scene, rest, files, runs, stops, upset>>

(* attach: it can fail with the joint made, when the material is seen to   *)
(* have moved.                                                             *)
Attach ==
    /\ Reached({"close"})
    /\ \/ /\ joined' = joined \cup {run.m}
          /\ Onward([run EXCEPT !.held = TRUE, !.attached = TRUE])
          /\ UNCHANGED faults
       \/ /\ Fails
          /\ joined' \in {joined, joined \cup {run.m}}
          /\ run' = [run EXCEPT !.at = "verdict", !.fault = TRUE]
    /\ UNCHANGED <<place, scene, armGoal, rest, files, runs, stops, upset>>

(* detach, and the wait until the material has settled.                    *)
Detach ==
    /\ Reached({"open"})
    /\ \/ /\ joined' = joined \ {run.m}
          /\ Onward([run EXCEPT !.held = FALSE])
          /\ UNCHANGED faults
       \/ /\ Fails
          /\ joined' \in {joined, joined \ {run.m}}
          /\ run' = [run EXCEPT !.at = "verdict", !.held = FALSE, !.fault = TRUE]
    /\ UNCHANGED <<place, scene, armGoal, rest, files, runs, stops, upset>>

-----------------------------------------------------------------------------
(* The stop.                                                               *)

(* classify_object_state.                                                  *)
ObjectState == CASE run.held -> "held"
                 [] ~run.held /\ place[run.m] = run.m -> "pallet"
                 [] ~run.held /\ place[run.m] \in Slots \cup {"belt"} -> "conveyor"
                 [] OTHER -> "unknown"

(* capture_stop_checkpoint: the slots of a transfer of its own, none for a *)
(* resumed one.  aim is history: where the transfer was bound for.         *)
Capture ==
    [stop |-> run.seen, mode |-> IF run.kind = "resume" THEN ckpt[run.m].mode ELSE run.kind,
     object |-> ObjectState, k |-> run.k, scene |-> scene,
     from |-> IF run.kind \in {"slot_move", "route"} THEN run.from ELSE Nothing,
     to |-> IF run.kind \in {"forward", "slot_move", "route"} THEN run.to ELSE Nothing,
     aim |-> run.aim]

(* cancel_all, and one look at the joints: still or not.  A still arm may  *)
(* have a goal that its cancel has not reached.  A checkpoint is for a     *)
(* confirmed stop; a held material must also have come to rest at the tool.*)
Confirm ==
    /\ run.at = "stop"
    /\ armGoal' \in {FALSE, armGoal}
    /\ \E still \in BOOLEAN :
          /\ rest' = IF still THEN run.seen ELSE Nothing
          /\ \E cp \in {Nothing} \cup
                       (IF still /\ ObjectState # "unknown" THEN {Capture} ELSE {}) :
                run' = [run EXCEPT !.at = "latch", !.cp = cp]
    /\ UNCHANGED <<place, joined, scene, files, counts, upset>>

SetLatch ==
    /\ run.at = "latch"
    /\ latch' = [stop |-> run.seen, scene |-> scene]
    /\ Goes("consume")
    /\ UNCHANGED <<cell, rec, ckpt, request, counts, upset>>

(* A newer request stays.                                                  *)
Consume ==
    /\ run.at = "consume"
    /\ request' = IF request = run.seen THEN Nothing ELSE request
    /\ Goes("verdict")
    /\ UNCHANGED <<cell, rec, ckpt, latch, counts, upset>>

-----------------------------------------------------------------------------
(* The verdict and what is written.                                        *)

Finished == ~run.fault /\ run.seen = Nothing

(* The material is observed at the destination.  A resumed transfer whose  *)
(* checkpoint has no destination is only seen to be on the conveyor.       *)
Unbound == run.kind = "resume" /\ ckpt[run.m].to = Nothing

Mutant_Arrived == Finished
Arrived ==
    /\ Finished
    /\ IF Unbound
       THEN place[run.m] \in Slots \cup {"belt"}
       ELSE place[run.m] = run.to

Stopped == run.seen # Nothing

Pushed(m) == [x \in Materials |-> CASE x = m -> m
                                    [] x # m /\ place[x] = m -> "air"
                                    [] OTHER -> place[x]]

(* fixture.restore: the joint is let go and the material set down on its   *)
(* pallet, whoever stands there.                                           *)
PutBack(m, verified) ==
    /\ joined' = joined \ {m}
    /\ place' = IF verified THEN Pushed(m) ELSE [place EXCEPT ![m] = "air"]
    /\ upset' = IF verified THEN upset \cup {x \in Materials \ {m} : place[x] = m}
                ELSE upset \cup {m}
    /\ UNCHANGED <<scene, armGoal, rest>>

(* should_restore: a transfer from the pallet that failed is put back.     *)
PutsBack(ok) == run.kind = "forward" /\ ~Stopped /\ ~ok

(* The final pose may not be observed.                                     *)
GiveVerdict ==
    /\ run.at = "verdict"
    /\ \E ok \in {FALSE, Arrived}, verified \in BOOLEAN :
          /\ verified \/ PutsBack(ok)
          /\ IF ok = Arrived /\ verified THEN UNCHANGED faults ELSE Fails
          /\ run' = [run EXCEPT !.at = "record", !.ok = ok,
                                !.restored = IF PutsBack(ok) THEN verified ELSE Nothing]
          /\ IF PutsBack(ok) THEN PutBack(run.m, verified) ELSE UNCHANGED <<cell, upset>>
    /\ UNCHANGED <<files, runs, stops>>

Left(state, at, bound) == [state |-> state, at |-> at, bound |-> bound]

(* record_run, record_return, record_slot_move, record_transfer.           *)
NextRecord ==
    LET old == rec[run.m]
        missed == IF Stopped THEN "stopped" ELSE "fault" IN
    CASE run.kind = "forward" ->
             IF run.ok THEN Left("held", run.to, Nothing)
             ELSE IF run.restored = TRUE THEN NoRecord ELSE Left(missed, run.to, Nothing)
      [] run.kind = "return" -> IF run.ok THEN NoRecord ELSE Left(missed, old.at, old.bound)
      [] run.kind = "slot_move" ->
             IF run.ok THEN Left("held", run.to, Nothing)
             ELSE IF Stopped THEN Left(missed, run.to, Nothing)
             ELSE IF run.attached THEN Left(missed, run.from, Nothing) ELSE old
      [] run.kind = "route" ->
             IF run.ok THEN IF run.to = run.m THEN NoRecord ELSE Left("held", run.to, Nothing)
             ELSE IF Stopped \/ run.attached THEN Left(missed, run.to, run.to) ELSE old

(* record_resume: the slot and the destination of the stopped transfer     *)
(* stay in the record.                                                     *)
Mutant_Carry(m) == Nothing
Carry(m) == rec[m].at

ResumedRecord ==
    LET old == rec[run.m] IN
    CASE run.ok /\ old.bound = run.m -> NoRecord
      [] run.ok /\ old.bound # run.m -> Left("held", Carry(run.m), Nothing)
      [] ~run.ok -> Left(IF Stopped THEN "stopped" ELSE "fault", Carry(run.m), old.bound)

(* The checkpoint goes when the material is back, or where a transfer from *)
(* its pallet should bring it.                                             *)
DropsCheckpoint ==
    CASE run.kind = "forward" -> run.ok \/ run.restored = TRUE
      [] run.kind = "return" -> run.ok
      [] run.kind = "slot_move" -> FALSE
      [] run.kind = "route" -> run.ok /\ run.to = run.m

(* The record and the checkpoint of a run are two writes, those of a       *)
(* resumed one are one.                                                    *)
Record ==
    /\ run.at = "record"
    /\ IF run.kind = "resume"
       THEN /\ rec' = [rec EXCEPT ![run.m] = ResumedRecord]
            /\ ckpt' = [ckpt EXCEPT ![run.m] = run.cp]
            /\ Over
       ELSE /\ rec' = [rec EXCEPT ![run.m] = NextRecord]
            /\ ckpt' = IF DropsCheckpoint THEN [ckpt EXCEPT ![run.m] = Nothing] ELSE ckpt
            /\ IF run.cp = Nothing THEN Over ELSE Goes("checkpoint")
    /\ upset' = CASE place[run.m] = run.to -> upset \ {run.m}
                  [] place[run.m] # run.to /\ Unbound -> upset \cup {run.m}
                  [] OTHER -> upset
    /\ UNCHANGED <<cell, latch, request, counts>>

RecordCheckpoint ==
    /\ run.at = "checkpoint"
    /\ ckpt' = [ckpt EXCEPT ![run.m] = run.cp]
    /\ Over
    /\ UNCHANGED <<cell, rec, latch, request, counts, upset>>

-----------------------------------------------------------------------------
(* A stopped transfer is resumed.                                          *)

(* resume_slot: the destination of the checkpoint, or else the slot of the *)
(* record.                                                                 *)
Target(m) == CASE ckpt[m].to # Nothing -> ckpt[m].to
               [] ckpt[m].to = Nothing /\ rec[m].at # Nothing -> rec[m].at
               [] OTHER -> DefaultSlot

(* What the checkpoint itself must say.                                    *)
CanResume(c) ==
    /\ c.mode \in {"forward", "slot_move", "route"}
    /\ c.mode # "forward" => c.from # Nothing /\ c.to # Nothing
    /\ c.object = "held" /\ c.k = Resumable

(* The other materials are where their records and the scene say; resuming *)
(* does not change the scene.                                              *)
InScene(x) == scene[x] = place[x]

(* Nothing has moved since the stop.  rest stands for the joints and the   *)
(* pose of the material.                                                   *)
AsAtTheStop(m, c) ==
    /\ c.scene = scene /\ rest = c.stop /\ m \in joined
    /\ latch # Nothing /\ latch.stop = c.stop
    /\ ~armGoal

(* verify_resume, and the release of the latch when all of it holds.       *)
Verify ==
    LET m == run.m c == ckpt[m] IN
    /\ run.at = "verify"
    /\ c # Nothing
    /\ CanResume(c)
    /\ c.to # Nothing /\ rec[m].at \in Slots => rec[m].at = c.to
    /\ AsAtTheStop(m, c)
    /\ \A x \in Materials \ {m} : AsRecorded(x) /\ InScene(x)
    /\ latch' = Nothing
    /\ run' = [run EXCEPT !.at = "rebind", !.to = Target(m), !.k = Resumable, !.aim = c.aim]
    /\ UNCHANGED <<cell, rec, ckpt, request, counts, upset>>

Rebind ==
    /\ run.at = "rebind"
    /\ \/ run' = [run EXCEPT !.at = "look", !.held = TRUE, !.attached = TRUE] /\ UNCHANGED faults
       \/ Fails /\ run' = [run EXCEPT !.at = "verdict", !.fault = TRUE]
    /\ UNCHANGED <<cell, files, runs, stops, upset>>

-----------------------------------------------------------------------------
(* --restore-only and --reconcile-state.                                   *)

Restore ==
    /\ run.at = "restore"
    /\ \/ PutBack(run.m, TRUE) /\ Goes("mark") /\ UNCHANGED faults
       \/ Fails /\ PutBack(run.m, FALSE) /\ Over
    /\ UNCHANGED <<files, runs, stops>>

(* The checkpoint goes with the record.                                    *)
Mutant_WithoutCheckpoint(cleared) == ckpt
WithoutCheckpoint(cleared) == [m \in Materials |-> IF m \in cleared THEN Nothing ELSE ckpt[m]]

Forget(cleared) ==
    /\ rec' = [m \in Materials |-> IF m \in cleared THEN NoRecord ELSE rec[m]]
    /\ ckpt' = WithoutCheckpoint(cleared)
    /\ upset' = upset \ cleared
    /\ UNCHANGED <<cell, latch, request, counts>>

ClearsNext(m) == IF latch = Nothing THEN Over ELSE run' = [run EXCEPT !.at = "clear", !.m = m]

MarkRestored ==
    /\ run.at = "mark"
    /\ Forget({run.m})
    /\ ClearsNext(run.m)

(* What is observed on its own pallet needs no record.                     *)
Reconcile ==
    LET back == {m \in Materials : /\ rec[m] # NoRecord \/ ckpt[m] # Nothing
                                   /\ place[m] = m} IN
    /\ run.at = "reconcile"
    /\ Forget(back)
    /\ IF back = {} THEN Over ELSE \E m \in back : ClearsNext(m)

(* clear_latch_after_restore.                                              *)
Clean(m) ==
    /\ place[m] = m
    /\ joined = {}
    /\ \A x \in Materials : ckpt[x] = Nothing /\ rec[x] = NoRecord
    /\ ~armGoal
    /\ scene = latch.scene

ClearLatch ==
    /\ run.at = "clear"
    /\ latch' = IF Clean(run.m) THEN Nothing ELSE latch
    /\ Over
    /\ UNCHANGED <<cell, rec, ckpt, request, counts, upset>>

-----------------------------------------------------------------------------
(* The cell beside the script.                                             *)

(* A goal that nobody waits for comes to its end.                          *)
GoalEnds ==
    /\ armGoal /\ run.at # "sent"
    /\ armGoal' = FALSE
    /\ place' = Carried
    /\ rest' = Nothing
    /\ upset' = upset \cup Dragged
    /\ UNCHANGED <<joined, scene, files, run, counts>>

(* The script is killed; what it was about to write is not written.        *)
Kill ==
    /\ ~NoScript
    /\ Fails
    /\ run' = [NoRun EXCEPT !.at = "dead"]
    /\ upset' = upset \cup ({run.m} \cap Materials)
    /\ UNCHANGED <<cell, files, runs, stops>>

(* The simulation starts again, the files stay.                            *)
RestartCell ==
    /\ NoScript
    /\ Fails
    /\ place' = [m \in Materials |-> m]
    /\ joined' = {}
    /\ scene' = [m \in Materials |-> m]
    /\ armGoal' = FALSE
    /\ rest' = Nothing
    /\ upset' = {m \in Materials : rec[m] # NoRecord}
    /\ UNCHANGED <<files, run, runs, stops>>

Script ==
    \/ ReleaseLatch \/ Sync \/ Refuse
    \/ LookFails \/ LookStops \/ Send \/ SentStops \/ SentFails
    \/ Reach \/ Lower \/ Attach \/ Detach
    \/ Confirm \/ SetLatch \/ Consume \/ GiveVerdict \/ Record \/ RecordCheckpoint
    \/ Verify \/ Rebind
    \/ Restore \/ MarkRestored \/ Reconcile \/ ClearLatch

ScriptNext ==
    \/ \E m \in Materials : \/ \E from, to \in Places : BeginRun(m, from, to)
                             \/ Begin("resume", "verify", m)
                             \/ Begin("restore", "restore", m)
    \/ Begin("reconcile", "reconcile", Nothing)
    \/ AskStop
    \/ Script
    \/ GoalEnds \/ Kill \/ RestartCell

ScriptSpec == ScriptInit /\ [][ScriptNext]_scriptVars

(* A script that runs runs on.                                             *)
ScriptFairSpec == ScriptSpec /\ WF_scriptVars(Script)

-----------------------------------------------------------------------------
(* The values of the variables.                                            *)
Spots == Places \cup {"air", "belt"}
Stops == Nat \ {0}
Records == [state : {"none", "held", "stopped", "fault"}, at : Places \cup {Nothing},
            bound : Places \cup {Nothing}]
Kinds == {"forward", "return", "slot_move", "route"}
Checkpoints == [stop : Stops, mode : Kinds, object : {"held", "pallet", "conveyor"},
                k : 1..7, scene : [Materials -> Spots], from : Places \cup {Nothing},
                to : Places \cup {Nothing}, aim : Places]

ScriptTypeOK ==
    /\ place \in [Materials -> Spots]
    /\ joined \subseteq Materials
    /\ scene \in [Materials -> Spots]
    /\ armGoal \in BOOLEAN
    /\ rest \in Stops \cup {Nothing}
    /\ rec \in [Materials -> Records]
    /\ ckpt \in [Materials -> Checkpoints \cup {Nothing}]
    /\ latch \in [stop : Stops, scene : [Materials -> Spots]] \cup {Nothing}
    /\ request \in Stops \cup {Nothing}
    /\ run.at \in {"none", "dead", "entry", "sync", "verify", "rebind", "look", "sent", "stop",
                   "latch", "consume", "verdict", "record", "checkpoint", "restore", "mark",
                   "reconcile", "clear"}
    /\ run.kind \in Kinds \cup {"resume", "restore", "reconcile", Nothing}
    /\ run.m \in Materials \cup {Nothing}
    /\ run.k \in 1..8
    /\ runs \in Nat /\ stops \in Nat /\ faults \in Nat
    /\ upset \subseteq Materials

(* A record that says a place, and no record, which says the pallet, are   *)
(* true of every material, save the one that a run has in hand and those   *)
(* in upset.                                                               *)
RecordsTellTheTruth ==
    \A m \in Materials \ (upset \cup {run.m}) : Where(m) # Nothing => place[m] = Where(m)

RunMoves == run.at \in {"look", "sent", "stop"}

(* While a run moves, the planning scene that its collisions are checked   *)
(* in has every other material where it is, if it is not fixed to the tool.*)
SceneIsTheCell ==
    RunMoves => \A x \in Materials \ ({run.m} \cup joined) : scene[x] = place[x]

(* A checkpoint belongs to a material with a record of a stop, so no other *)
(* run than the one that resumes it or puts the material back can start.   *)
CheckpointHasRecord ==
    \A m \in Materials : ckpt[m] # Nothing /\ m # run.m => rec[m].state = "stopped"

(* However often a transfer is stopped and resumed, it ends where its      *)
(* first run was bound for.                                                *)
DestinationKept == run.kind = "resume" /\ RunMoves => run.to = run.aim

(* A stop that is asked for before the last goal of a run is answered      *)
(* leaves the latch, unless the run fails first or is killed.              *)
StopTakesHold ==
    Requested /\ run.at \in {"look", "sent"} ~> latch # Nothing \/ run.fault \/ run.at = "dead"

-----------------------------------------------------------------------------
(* What the code does not keep.                                            *)

(* "Resuming puts it only there: the destination is bound to the           *)
(* checkpoint" (validation/simulation_demo_state.py).  The checkpoint of a *)
(* resumed transfer that is stopped again has no destination.              *)
CheckpointKeepsDestination ==
    \A m \in Materials :
       ckpt[m] # Nothing /\ ckpt[m].object = "held" /\ ckpt[m].mode # "return"
          => ckpt[m].to # Nothing

(* No run moves while another material is fixed to the tool.               *)
NothingElseOnTool == run.at = "sent" => joined \subseteq {run.m}

(* No run moves while an earlier goal still moves the arm.                 *)
NothingElseMoves == RunMoves /\ run.at = "look" /\ run.k = 1 => ~armGoal

(* A material is put back only on a pallet that is free.                   *)
PutBackHasRoom ==
    [][run.at = "restore" /\ run'.at = "mark" =>
           \A x \in Materials \ {run.m} : place'[x] = place[x]]_scriptVars
==============================================================================
