------------------------ MODULE SimDemoJobs_proofs ------------------------
(* For any number of jobs, goals and deaths of the server: the journal     *)
(* names every process that can move the robot, there is one at most, and  *)
(* a server that is up has the cell leased for it or refuses motion.       *)
(* Then of the process that such a job is, the script: what it records is  *)
(* true, and its transfers end where they were bound for.                  *)
EXTENDS SimDemoJobs, TransferScript, TLAPS

(* Job numbers are drawn in order, and the journal is of a motion job.     *)
NumbersDrawn ==
    /\ alive \cup running \cup readOnly \subseteq 1..jobs
    /\ journal # None => journal \in (1..jobs) \ readOnly

(* A server that is down remembers nothing.                                *)
DownForgets ==
    ~up => /\ running = {} /\ leases = {} /\ current = None
           /\ goal = None /\ holder = None /\ starter = Idle

(* _current is the one job that is running.                                *)
OneSlot ==
    /\ running \subseteq {current}
    /\ current # None => current \in running
    /\ leases \subseteq running \ readOnly
    /\ leases # {} => goal = None

(* The lease of a running motion job is there as long as the job.          *)
RunnerHolds == \A j \in running \ readOnly : holder = Owner(j)

(* A moving process is the runner's job, or about to become it, or the     *)
(* runner demands a recovery.                                              *)
Known ==
    up => \A j \in Moving :
        \/ recovery # None
        \/ j = current
        \/ starter.at = "spawned" /\ j = jobs

(* What holds while a call has the lock: no goal comes or goes, nothing    *)
(* moves besides the current job, and the job being launched is new.       *)
LaunchInOrder ==
    /\ starter.at \in {"checked", "leased", "marked", "spawned"} => goal = starter.goal
    /\ starter.at = "checked" => jobs < MaxJobs
    /\ starter.at \in {"checked", "reserving"} => Moving \subseteq {current}
    /\ starter.at \in {"leased", "marked", "spawned"} =>
          /\ jobs \in Jobs \ (readOnly \cup running)
          /\ current = None
          /\ goalOf[jobs] = starter.goal
          /\ holder = Owner(jobs)
    /\ starter.at \in {"leased", "marked"} => Moving = {}
    /\ starter.at \in {"marked", "spawned"} => journal = jobs

IInv ==
    /\ TypeOK /\ NumbersDrawn /\ DownForgets /\ OneSlot /\ RunnerHolds /\ Known
    /\ LaunchInOrder /\ JournalNamesLive /\ GoalKeepsCell

(* Jobs and goals are told apart from the other names.                     *)
LEMMA Names ==
    /\ Jobs \subseteq Nat /\ Jobs \cap Goals = {}
    /\ None \notin Jobs \cup Goals \cup {Adapter, Unreadable}
    /\ Adapter \notin Jobs \cup Goals
    /\ Unreadable \notin Jobs
  BY BoundsAssumption, NamesAssumption DEF Jobs

(* A job runs under its own lease or its goal's, never under another name. *)
LEMMA OwnerType ==
    TypeOK => \A j \in Jobs :
        /\ Owner(j) \in Jobs \cup Goals
        /\ goalOf[j] \in Goals \cup {None}
        /\ goalOf[j] = None => Owner(j) = j
        /\ goalOf[j] # None => Owner(j) = goalOf[j]
  BY Names DEF TypeOK, Owner

(* In particular the journaled job's.                                      *)
LEMMA JournalOwner ==
    TypeOK => (journal \in Jobs => Owner(journal) \in Jobs \cup Goals)
  BY OwnerType

(* A process that moves is the current job or the one being launched,      *)
(* both hold the cell; no job is journaled twice.                          *)
LEMMA IInvImplies == IInv => TypeOK /\ OneMotionProcess /\ AdoptedOrClosed
<1> SUFFICES ASSUME IInv PROVE TypeOK /\ OneMotionProcess /\ AdoptedOrClosed
  OBVIOUS
<1>1. TypeOK
  BY DEF IInv
<1>2. OneMotionProcess
  BY DEF IInv, JournalNamesLive, OneMotionProcess
<1>3. AdoptedOrClosed
  <2> SUFFICES ASSUME up, NEW j \in Moving, recovery = None PROVE holder = Owner(j)
    BY DEF AdoptedOrClosed
  <2>1. CASE j = current
    BY <2>1, Names DEF IInv, TypeOK, OneSlot, RunnerHolds, Moving
  <2>2. CASE starter.at = "spawned" /\ j = jobs
    BY <2>2 DEF IInv, LaunchInOrder
  <2> QED BY <2>1, <2>2 DEF IInv, Known
<1> QED BY <1>1, <1>2, <1>3

(* The initial state: nothing runs, nothing is journaled.                  *)
LEMMA InitIInv == Init => IInv
<1> SUFFICES ASSUME Init PROVE IInv
  OBVIOUS
<1>1. identified \in BOOLEAN /\ up \in BOOLEAN
  BY Zenon DEF Init
<1>2. TypeOK
  BY <1>1, BoundsAssumption DEF Init, TypeOK, Idle, Stages
<1>3. NumbersDrawn /\ DownForgets /\ OneSlot /\ RunnerHolds /\ Known /\ LaunchInOrder
      /\ JournalNamesLive /\ GoalKeepsCell
  BY DEF Init, NumbersDrawn, DownForgets, OneSlot, RunnerHolds, Known, LaunchInOrder,
         JournalNamesLive, GoalKeepsCell, Moving, Idle
<1> QED BY <1>2, <1>3 DEF IInv

(* The check before a start: nothing moves but the current job.            *)
LEMMA StartCheckKeeps == ASSUME NEW g \in Goals \cup {None}, IInv, StartCheck(g) PROVE IInv'
<1> USE Names, BoundsAssumption DEF IInv, StartCheck, disk, memory, past
<1>1. TypeOK'
  BY DEF TypeOK, LaunchInOrder, Idle, Stages, Jobs, Unlocked, At
<1>2. NumbersDrawn'
  BY DEF TypeOK, NumbersDrawn, LaunchInOrder, At, Jobs
<1>3. DownForgets'
  BY DEF TypeOK, DownForgets, Unlocked, At, Idle
<1>4. OneSlot'
  BY DEF TypeOK, NumbersDrawn, OneSlot, LaunchInOrder, DownForgets, Jobs, At
<1>5. RunnerHolds'
  BY OwnerType DEF TypeOK, NumbersDrawn, OneSlot, RunnerHolds, LaunchInOrder, Owner, At, Unlocked
<1>6. Known'
  BY DEF TypeOK, NumbersDrawn, OneSlot, Known, LaunchInOrder, JournalNamesLive, Moving, At,
         Unlocked, Idle
<1>7. LaunchInOrder'
  BY OwnerType DEF TypeOK, NumbersDrawn, OneSlot, RunnerHolds, Known, LaunchInOrder,
                   GoalKeepsCell, JournalNamesLive, Moving, At, Unlocked, Idle, Owner, Jobs
<1>8. JournalNamesLive'
  BY DEF TypeOK, NumbersDrawn, OneSlot, LaunchInOrder, JournalNamesLive, Moving, At
<1>9. GoalKeepsCell'
  BY OwnerType DEF TypeOK, OneSlot, LaunchInOrder, GoalKeepsCell, DownForgets, At
<1> QED BY <1>1, <1>2, <1>3, <1>4, <1>5, <1>6, <1>7, <1>8, <1>9

(* The slot is taken: the lease is the job's, or the goal's it belongs     *)
(* to.                                                                     *)
LEMMA AcquireKeeps == IInv /\ Acquire => IInv'
<1> SUFFICES ASSUME IInv, Acquire PROVE IInv'
  OBVIOUS
<1> USE Names, BoundsAssumption DEF IInv, Acquire, disk, memory, past
<1>1. TypeOK'
  <2>1. jobs + 1 \in Jobs /\ jobs' \in 0..MaxJobs
    BY DEF TypeOK, Jobs, LaunchInOrder, At
  <2>2. starter \in [at : Stages, goal : Goals \cup {None}]
    BY DEF TypeOK
  <2>3. starter' \in [at : Stages, goal : Goals \cup {None}]
    BY <2>2 DEF Idle, Stages
  <2>4. goalOf' \in [Jobs -> Goals \cup {None}]
    BY <2>1, <2>2 DEF TypeOK
  <2> QED BY <2>1, <2>3, <2>4 DEF TypeOK
<1>2. NumbersDrawn'
  BY DEF TypeOK, NumbersDrawn, LaunchInOrder, At, Jobs
<1>3. DownForgets'
  BY DEF TypeOK, DownForgets, Unlocked, At, Idle
<1>4. OneSlot'
  BY DEF TypeOK, NumbersDrawn, OneSlot, LaunchInOrder, DownForgets, Jobs, At
<1>5. RunnerHolds'
  BY OwnerType DEF TypeOK, NumbersDrawn, OneSlot, RunnerHolds, LaunchInOrder, Owner, At, Unlocked
<1>6. Known'
  BY DEF TypeOK, NumbersDrawn, OneSlot, Known, LaunchInOrder, JournalNamesLive, Moving, At,
         Unlocked, Idle
<1>7. LaunchInOrder'
  <2>1. CASE jobs' = jobs + 1
    <3>0. jobs \in Nat /\ starter \in [at : Stages, goal : Goals \cup {None}]
      BY DEF TypeOK
    <3>1. /\ starter' = [starter EXCEPT !.at = "leased"] /\ current = None
          /\ goalOf' = [goalOf EXCEPT ![jobs + 1] = starter.goal]
          /\ \/ starter.goal # None /\ holder' = holder
             \/ starter.goal = None /\ holder' = jobs + 1
      BY <2>1, <3>0 DEF Acquire
    <3>2. starter'.at = "leased" /\ starter'.goal = starter.goal /\ goal = starter.goal
      BY <3>0, <3>1 DEF At, LaunchInOrder
    <3>3. jobs' \in Jobs \ (readOnly' \cup running')
      <4>1. jobs + 1 \in Jobs
        BY <3>0 DEF LaunchInOrder, At, Jobs
      <4>2. jobs + 1 \notin readOnly \cup running
        BY <3>0 DEF NumbersDrawn
      <4> QED BY <2>1, <4>1, <4>2
    <3>4. goalOf'[jobs'] = starter'.goal
      BY <2>1, <3>1, <3>2, <3>3 DEF TypeOK
    <3>5. holder' = IF goalOf'[jobs'] = None THEN jobs' ELSE goalOf'[jobs']
      BY <2>1, <3>1, <3>2, <3>4 DEF GoalKeepsCell
    <3>6. Moving' = {}
      BY <3>1 DEF TypeOK, LaunchInOrder, Moving, At
    <3> QED BY <3>1, <3>2, <3>3, <3>4, <3>5, <3>6 DEF LaunchInOrder, Owner
  <2>2. CASE starter' = Idle
    BY <2>2 DEF LaunchInOrder, Idle
  <2> QED BY <2>1, <2>2
<1>8. JournalNamesLive'
  BY DEF TypeOK, NumbersDrawn, OneSlot, LaunchInOrder, JournalNamesLive, Moving, At
<1>9. GoalKeepsCell'
  BY OwnerType DEF TypeOK, OneSlot, LaunchInOrder, GoalKeepsCell, DownForgets, At
<1> QED BY <1>1, <1>2, <1>3, <1>4, <1>5, <1>6, <1>7, <1>8, <1>9

(* A start that fails before the journal gives its own lease back.         *)
LEMMA StartFailsKeeps == IInv /\ StartFails => IInv'
<1> SUFFICES ASSUME IInv, StartFails PROVE IInv'
  OBVIOUS
<1> USE Names, BoundsAssumption DEF IInv, StartFails, disk, memory, past, HolderAfterFailure
<1>1. TypeOK'
  BY DEF TypeOK, LaunchInOrder, Idle, Stages, Jobs, Unlocked, At
<1>2. NumbersDrawn'
  BY DEF TypeOK, NumbersDrawn, LaunchInOrder, At, Jobs
<1>3. DownForgets'
  BY DEF TypeOK, DownForgets, Unlocked, At, Idle
<1>4. OneSlot'
  BY DEF TypeOK, NumbersDrawn, OneSlot, LaunchInOrder, DownForgets, Jobs, At
<1>5. RunnerHolds'
  BY OwnerType DEF TypeOK, NumbersDrawn, OneSlot, RunnerHolds, LaunchInOrder, Owner, At, Unlocked
<1>6. Known'
  BY DEF TypeOK, NumbersDrawn, OneSlot, Known, LaunchInOrder, JournalNamesLive, Moving, At,
         Unlocked, Idle
<1>7. LaunchInOrder'
  BY OwnerType DEF TypeOK, NumbersDrawn, OneSlot, RunnerHolds, Known, LaunchInOrder,
                   GoalKeepsCell, JournalNamesLive, Moving, At, Unlocked, Idle, Owner, Jobs
<1>8. JournalNamesLive'
  BY DEF TypeOK, NumbersDrawn, OneSlot, LaunchInOrder, JournalNamesLive, Moving, At
<1>9. GoalKeepsCell'
  BY OwnerType DEF TypeOK, OneSlot, LaunchInOrder, GoalKeepsCell, DownForgets, At
<1> QED BY <1>1, <1>2, <1>3, <1>4, <1>5, <1>6, <1>7, <1>8, <1>9

(* The marker is written while nothing moves.                              *)
LEMMA WriteMarkerKeeps == IInv /\ WriteMarker => IInv'
<1> SUFFICES ASSUME IInv, WriteMarker PROVE IInv'
  OBVIOUS
<1> USE Names, BoundsAssumption DEF IInv, WriteMarker, disk, memory, past, MarkedJournal
<1>1. TypeOK'
  BY DEF TypeOK, LaunchInOrder, Idle, Stages, Jobs, Unlocked, At
<1>2. NumbersDrawn'
  BY DEF TypeOK, NumbersDrawn, LaunchInOrder, At, Jobs
<1>3. DownForgets'
  BY DEF TypeOK, DownForgets, Unlocked, At, Idle
<1>4. OneSlot'
  BY DEF TypeOK, NumbersDrawn, OneSlot, LaunchInOrder, DownForgets, Jobs, At
<1>5. RunnerHolds'
  BY OwnerType DEF TypeOK, NumbersDrawn, OneSlot, RunnerHolds, LaunchInOrder, Owner, At, Unlocked
<1>6. Known'
  BY DEF TypeOK, NumbersDrawn, OneSlot, Known, LaunchInOrder, JournalNamesLive, Moving, At,
         Unlocked, Idle
<1>7. LaunchInOrder'
  BY OwnerType DEF TypeOK, NumbersDrawn, OneSlot, RunnerHolds, Known, LaunchInOrder,
                   GoalKeepsCell, JournalNamesLive, Moving, At, Unlocked, Idle, Owner, Jobs
<1>8. JournalNamesLive'
  BY DEF TypeOK, NumbersDrawn, OneSlot, LaunchInOrder, JournalNamesLive, Moving, At
<1>9. GoalKeepsCell'
  BY OwnerType DEF TypeOK, OneSlot, LaunchInOrder, GoalKeepsCell, DownForgets, At
<1> QED BY <1>1, <1>2, <1>3, <1>4, <1>5, <1>6, <1>7, <1>8, <1>9

(* The journal already names the process that is spawned.                  *)
LEMMA SpawnKeeps == IInv /\ Spawn => IInv'
<1> SUFFICES ASSUME IInv, Spawn PROVE IInv'
  OBVIOUS
<1> USE Names, BoundsAssumption DEF IInv, Spawn, disk, memory, past
<1>1. TypeOK'
  BY DEF TypeOK, LaunchInOrder, Idle, Stages, Jobs, Unlocked, At
<1>2. NumbersDrawn'
  BY DEF TypeOK, NumbersDrawn, LaunchInOrder, At, Jobs
<1>3. DownForgets'
  BY DEF TypeOK, DownForgets, Unlocked, At, Idle
<1>4. OneSlot'
  BY DEF TypeOK, NumbersDrawn, OneSlot, LaunchInOrder, DownForgets, Jobs, At
<1>5. RunnerHolds'
  BY OwnerType DEF TypeOK, NumbersDrawn, OneSlot, RunnerHolds, LaunchInOrder, Owner, At, Unlocked
<1>6. Known'
  BY DEF TypeOK, NumbersDrawn, OneSlot, Known, LaunchInOrder, JournalNamesLive, Moving, At,
         Unlocked, Idle
<1>7. LaunchInOrder'
  BY OwnerType DEF TypeOK, NumbersDrawn, OneSlot, RunnerHolds, Known, LaunchInOrder,
                   GoalKeepsCell, JournalNamesLive, Moving, At, Unlocked, Idle, Owner, Jobs
<1>8. JournalNamesLive'
  BY DEF TypeOK, NumbersDrawn, OneSlot, LaunchInOrder, JournalNamesLive, Moving, At
<1>9. GoalKeepsCell'
  BY OwnerType DEF TypeOK, OneSlot, LaunchInOrder, GoalKeepsCell, DownForgets, At
<1> QED BY <1>1, <1>2, <1>3, <1>4, <1>5, <1>6, <1>7, <1>8, <1>9

(* A process that could not be spawned is not moving.                      *)
LEMMA SpawnFailsKeeps == IInv /\ SpawnFails => IInv'
<1> SUFFICES ASSUME IInv, SpawnFails PROVE IInv'
  OBVIOUS
<1> USE Names, BoundsAssumption DEF IInv, SpawnFails, disk, memory, past, HolderAfterFailure,
                                    ClearJournal
<1>1. TypeOK'
  BY DEF TypeOK, LaunchInOrder, Idle, Stages, Jobs, Unlocked, At
<1>2. NumbersDrawn'
  BY DEF TypeOK, NumbersDrawn, LaunchInOrder, At, Jobs
<1>3. DownForgets'
  BY DEF TypeOK, DownForgets, Unlocked, At, Idle
<1>4. OneSlot'
  BY DEF TypeOK, NumbersDrawn, OneSlot, LaunchInOrder, DownForgets, Jobs, At
<1>5. RunnerHolds'
  BY OwnerType DEF TypeOK, NumbersDrawn, OneSlot, RunnerHolds, LaunchInOrder, Owner, At, Unlocked
<1>6. Known'
  BY DEF TypeOK, NumbersDrawn, OneSlot, Known, LaunchInOrder, JournalNamesLive, Moving, At,
         Unlocked, Idle
<1>7. LaunchInOrder'
  BY OwnerType DEF TypeOK, NumbersDrawn, OneSlot, RunnerHolds, Known, LaunchInOrder,
                   GoalKeepsCell, JournalNamesLive, Moving, At, Unlocked, Idle, Owner, Jobs
<1>8. JournalNamesLive'
  BY DEF TypeOK, NumbersDrawn, OneSlot, LaunchInOrder, JournalNamesLive, Moving, At
<1>9. GoalKeepsCell'
  BY OwnerType DEF TypeOK, OneSlot, LaunchInOrder, GoalKeepsCell, DownForgets, At
<1> QED BY <1>1, <1>2, <1>3, <1>4, <1>5, <1>6, <1>7, <1>8, <1>9

(* The job becomes the current one, under the lease it has.                *)
LEMMA LaunchedKeeps == IInv /\ Launched => IInv'
<1> SUFFICES ASSUME IInv, Launched PROVE IInv'
  OBVIOUS
<1> USE Names, BoundsAssumption DEF IInv, Launched, disk, memory, past
<1>1. TypeOK'
  BY DEF TypeOK, LaunchInOrder, Idle, Stages, Jobs, Unlocked, At
<1>2. NumbersDrawn'
  BY DEF TypeOK, NumbersDrawn, LaunchInOrder, At, Jobs
<1>3. DownForgets'
  BY DEF TypeOK, DownForgets, Unlocked, At, Idle
<1>4. OneSlot'
  BY DEF TypeOK, NumbersDrawn, OneSlot, LaunchInOrder, DownForgets, Jobs, At
<1>5. RunnerHolds'
  BY OwnerType DEF TypeOK, NumbersDrawn, OneSlot, RunnerHolds, LaunchInOrder, Owner, At, Unlocked
<1>6. Known'
  BY DEF TypeOK, NumbersDrawn, OneSlot, Known, LaunchInOrder, JournalNamesLive, Moving, At,
         Unlocked, Idle
<1>7. LaunchInOrder'
  BY OwnerType DEF TypeOK, NumbersDrawn, OneSlot, RunnerHolds, Known, LaunchInOrder,
                   GoalKeepsCell, JournalNamesLive, Moving, At, Unlocked, Idle, Owner, Jobs
<1>8. JournalNamesLive'
  BY DEF TypeOK, NumbersDrawn, OneSlot, LaunchInOrder, JournalNamesLive, Moving, At
<1>9. GoalKeepsCell'
  BY OwnerType DEF TypeOK, OneSlot, LaunchInOrder, GoalKeepsCell, DownForgets, At
<1> QED BY <1>1, <1>2, <1>3, <1>4, <1>5, <1>6, <1>7, <1>8, <1>9

(* A read-only job takes the slot and moves nothing.                       *)
LEMMA StartReconcileKeeps == IInv /\ StartReconcile => IInv'
<1> SUFFICES ASSUME IInv, StartReconcile PROVE IInv'
  OBVIOUS
<1> USE Names, BoundsAssumption DEF IInv, StartReconcile, disk, memory, past
<1>1. TypeOK'
  BY DEF TypeOK, LaunchInOrder, Idle, Stages, Jobs, Unlocked, At
<1>2. NumbersDrawn'
  BY DEF TypeOK, NumbersDrawn, LaunchInOrder, At, Jobs
<1>3. DownForgets'
  BY DEF TypeOK, DownForgets, Unlocked, At, Idle
<1>4. OneSlot'
  BY DEF TypeOK, NumbersDrawn, OneSlot, LaunchInOrder, DownForgets, Jobs, At
<1>5. RunnerHolds'
  BY OwnerType DEF TypeOK, NumbersDrawn, OneSlot, RunnerHolds, LaunchInOrder, Owner, At, Unlocked
<1>6. Known'
  BY DEF TypeOK, NumbersDrawn, OneSlot, Known, LaunchInOrder, JournalNamesLive, Moving, At,
         Unlocked, Idle
<1>7. LaunchInOrder'
  BY OwnerType DEF TypeOK, NumbersDrawn, OneSlot, RunnerHolds, Known, LaunchInOrder,
                   GoalKeepsCell, JournalNamesLive, Moving, At, Unlocked, Idle, Owner, Jobs
<1>8. JournalNamesLive'
  BY DEF TypeOK, NumbersDrawn, OneSlot, LaunchInOrder, JournalNamesLive, Moving, At
<1>9. GoalKeepsCell'
  BY OwnerType DEF TypeOK, OneSlot, LaunchInOrder, GoalKeepsCell, DownForgets, At
<1> QED BY <1>1, <1>2, <1>3, <1>4, <1>5, <1>6, <1>7, <1>8, <1>9

(* A job whose process is gone leaves the slot, its lease and the          *)
(* journal.                                                                *)
LEMMA RefreshKeeps == ASSUME NEW j \in Jobs, IInv, Refresh(j) PROVE IInv'
<1> USE Names, BoundsAssumption DEF IInv, Refresh, disk, memory, past, HolderAfterExit,
                                    ClearJournal
<1>1. TypeOK'
  BY DEF TypeOK, LaunchInOrder, Idle, Stages, Jobs, Unlocked, At
<1>2. NumbersDrawn'
  BY DEF TypeOK, NumbersDrawn, LaunchInOrder, At, Jobs
<1>3. DownForgets'
  BY DEF TypeOK, DownForgets, Unlocked, At, Idle
<1>4. OneSlot'
  BY DEF TypeOK, NumbersDrawn, OneSlot, LaunchInOrder, DownForgets, Jobs, At
<1>5. RunnerHolds'
  BY OwnerType DEF TypeOK, NumbersDrawn, OneSlot, RunnerHolds, LaunchInOrder, Owner, At, Unlocked
<1>6. Known'
  BY DEF TypeOK, NumbersDrawn, OneSlot, Known, LaunchInOrder, JournalNamesLive, Moving, At,
         Unlocked, Idle
<1>7. LaunchInOrder'
  BY OwnerType DEF TypeOK, NumbersDrawn, OneSlot, RunnerHolds, Known, LaunchInOrder,
                   GoalKeepsCell, JournalNamesLive, Moving, At, Unlocked, Idle, Owner, Jobs
<1>8. JournalNamesLive'
  BY DEF TypeOK, NumbersDrawn, OneSlot, LaunchInOrder, JournalNamesLive, Moving, At
<1>9. GoalKeepsCell'
  BY OwnerType DEF TypeOK, OneSlot, LaunchInOrder, GoalKeepsCell, DownForgets, At
<1> QED BY <1>1, <1>2, <1>3, <1>4, <1>5, <1>6, <1>7, <1>8, <1>9

(* The check before a reservation.                                         *)
LEMMA ReserveCheckKeeps == ASSUME NEW g \in Goals, IInv, ReserveCheck(g) PROVE IInv'
<1> USE Names, BoundsAssumption DEF IInv, ReserveCheck, disk, memory, past
<1>1. TypeOK'
  BY DEF TypeOK, LaunchInOrder, Idle, Stages, Jobs, Unlocked, At
<1>2. NumbersDrawn'
  BY DEF TypeOK, NumbersDrawn, LaunchInOrder, At, Jobs
<1>3. DownForgets'
  BY DEF TypeOK, DownForgets, Unlocked, At, Idle
<1>4. OneSlot'
  BY DEF TypeOK, NumbersDrawn, OneSlot, LaunchInOrder, DownForgets, Jobs, At
<1>5. RunnerHolds'
  BY OwnerType DEF TypeOK, NumbersDrawn, OneSlot, RunnerHolds, LaunchInOrder, Owner, At, Unlocked
<1>6. Known'
  BY DEF TypeOK, NumbersDrawn, OneSlot, Known, LaunchInOrder, JournalNamesLive, Moving, At,
         Unlocked, Idle
<1>7. LaunchInOrder'
  BY OwnerType DEF TypeOK, NumbersDrawn, OneSlot, RunnerHolds, Known, LaunchInOrder,
                   GoalKeepsCell, JournalNamesLive, Moving, At, Unlocked, Idle, Owner, Jobs
<1>8. JournalNamesLive'
  BY DEF TypeOK, NumbersDrawn, OneSlot, LaunchInOrder, JournalNamesLive, Moving, At
<1>9. GoalKeepsCell'
  BY OwnerType DEF TypeOK, OneSlot, LaunchInOrder, GoalKeepsCell, DownForgets, At
<1> QED BY <1>1, <1>2, <1>3, <1>4, <1>5, <1>6, <1>7, <1>8, <1>9

(* A goal takes an idle runner and a free cell.                            *)
LEMMA ReserveGoalKeeps == IInv /\ ReserveGoal => IInv'
<1> SUFFICES ASSUME IInv, ReserveGoal PROVE IInv'
  OBVIOUS
<1> USE Names, BoundsAssumption DEF IInv, ReserveGoal, disk, memory, past
<1>1. TypeOK'
  BY DEF TypeOK, LaunchInOrder, Idle, Stages, Jobs, Unlocked, At
<1>2. NumbersDrawn'
  BY DEF TypeOK, NumbersDrawn, LaunchInOrder, At, Jobs
<1>3. DownForgets'
  BY DEF TypeOK, DownForgets, Unlocked, At, Idle
<1>4. OneSlot'
  <2>1. CASE goal' = goal
    BY <2>1 DEF OneSlot
  <2>2. CASE current = None
    <3>1. running \subseteq {None} /\ leases \subseteq running /\ running \subseteq Jobs
      BY <2>2 DEF OneSlot, TypeOK
    <3>2. leases' = {}
      BY <3>1
    <3> QED BY <3>2 DEF OneSlot
  <2> QED BY <2>1, <2>2
<1>5. RunnerHolds'
  BY OwnerType DEF TypeOK, NumbersDrawn, OneSlot, RunnerHolds, LaunchInOrder, Owner, At, Unlocked
<1>6. Known'
  BY DEF TypeOK, NumbersDrawn, OneSlot, Known, LaunchInOrder, JournalNamesLive, Moving, At,
         Unlocked, Idle
<1>7. LaunchInOrder'
  BY OwnerType DEF TypeOK, NumbersDrawn, OneSlot, RunnerHolds, Known, LaunchInOrder,
                   GoalKeepsCell, JournalNamesLive, Moving, At, Unlocked, Idle, Owner, Jobs
<1>8. JournalNamesLive'
  BY DEF TypeOK, NumbersDrawn, OneSlot, LaunchInOrder, JournalNamesLive, Moving, At
<1>9. GoalKeepsCell'
  BY OwnerType DEF TypeOK, OneSlot, LaunchInOrder, GoalKeepsCell, DownForgets, At
<1> QED BY <1>1, <1>2, <1>3, <1>4, <1>5, <1>6, <1>7, <1>8, <1>9

(* A goal gives the cell back when none of its jobs runs.                  *)
LEMMA ReleaseGoalKeeps == ASSUME NEW g \in Goals, IInv, ReleaseGoal(g) PROVE IInv'
<1> USE Names, BoundsAssumption DEF IInv, ReleaseGoal, disk, memory, past, GoalIdle
<1>1. TypeOK'
  BY DEF TypeOK, LaunchInOrder, Idle, Stages, Jobs, Unlocked, At
<1>2. NumbersDrawn'
  BY DEF TypeOK, NumbersDrawn, LaunchInOrder, At, Jobs
<1>3. DownForgets'
  BY DEF TypeOK, DownForgets, Unlocked, At, Idle
<1>4. OneSlot'
  BY DEF TypeOK, NumbersDrawn, OneSlot, LaunchInOrder, DownForgets, Jobs, At
<1>5. RunnerHolds'
  BY OwnerType DEF TypeOK, NumbersDrawn, OneSlot, RunnerHolds, LaunchInOrder, Owner, At, Unlocked
<1>6. Known'
  BY DEF TypeOK, NumbersDrawn, OneSlot, Known, LaunchInOrder, JournalNamesLive, Moving, At,
         Unlocked, Idle
<1>7. LaunchInOrder'
  BY OwnerType DEF TypeOK, NumbersDrawn, OneSlot, RunnerHolds, Known, LaunchInOrder,
                   GoalKeepsCell, JournalNamesLive, Moving, At, Unlocked, Idle, Owner, Jobs
<1>8. JournalNamesLive'
  BY DEF TypeOK, NumbersDrawn, OneSlot, LaunchInOrder, JournalNamesLive, Moving, At
<1>9. GoalKeepsCell'
  BY OwnerType DEF TypeOK, OneSlot, LaunchInOrder, GoalKeepsCell, DownForgets, At
<1> QED BY <1>1, <1>2, <1>3, <1>4, <1>5, <1>6, <1>7, <1>8, <1>9

(* A process that ends moves no more.                                      *)
LEMMA ProcessExitsKeeps == ASSUME NEW j \in Jobs, IInv, ProcessExits(j) PROVE IInv'
<1> USE Names, BoundsAssumption DEF IInv, ProcessExits, disk, memory, past
<1>1. TypeOK'
  BY DEF TypeOK, LaunchInOrder, Idle, Stages, Jobs, Unlocked, At
<1>2. NumbersDrawn'
  BY DEF TypeOK, NumbersDrawn, LaunchInOrder, At, Jobs
<1>3. DownForgets'
  BY DEF TypeOK, DownForgets, Unlocked, At, Idle
<1>4. OneSlot'
  BY DEF TypeOK, NumbersDrawn, OneSlot, LaunchInOrder, DownForgets, Jobs, At
<1>5. RunnerHolds'
  BY OwnerType DEF TypeOK, NumbersDrawn, OneSlot, RunnerHolds, LaunchInOrder, Owner, At, Unlocked
<1>6. Known'
  BY DEF TypeOK, NumbersDrawn, OneSlot, Known, LaunchInOrder, JournalNamesLive, Moving, At,
         Unlocked, Idle
<1>7. LaunchInOrder'
  BY OwnerType DEF TypeOK, NumbersDrawn, OneSlot, RunnerHolds, Known, LaunchInOrder,
                   GoalKeepsCell, JournalNamesLive, Moving, At, Unlocked, Idle, Owner, Jobs
<1>8. JournalNamesLive'
  BY DEF TypeOK, NumbersDrawn, OneSlot, LaunchInOrder, JournalNamesLive, Moving, At
<1>9. GoalKeepsCell'
  BY OwnerType DEF TypeOK, OneSlot, LaunchInOrder, GoalKeepsCell, DownForgets, At
<1> QED BY <1>1, <1>2, <1>3, <1>4, <1>5, <1>6, <1>7, <1>8, <1>9

(* The adapter takes the cell only when it is free.                        *)
LEMMA AdapterAcquiresKeeps == IInv /\ AdapterAcquires => IInv'
<1> SUFFICES ASSUME IInv, AdapterAcquires PROVE IInv'
  OBVIOUS
<1> USE Names, BoundsAssumption DEF IInv, AdapterAcquires, disk, memory, past
<1>1. TypeOK'
  BY DEF TypeOK, LaunchInOrder, Idle, Stages, Jobs, Unlocked, At
<1>2. NumbersDrawn'
  BY DEF TypeOK, NumbersDrawn, LaunchInOrder, At, Jobs
<1>3. DownForgets'
  BY DEF TypeOK, DownForgets, Unlocked, At, Idle
<1>4. OneSlot'
  BY DEF TypeOK, NumbersDrawn, OneSlot, LaunchInOrder, DownForgets, Jobs, At
<1>5. RunnerHolds'
  BY OwnerType DEF TypeOK, NumbersDrawn, OneSlot, RunnerHolds, LaunchInOrder, Owner, At, Unlocked
<1>6. Known'
  BY DEF TypeOK, NumbersDrawn, OneSlot, Known, LaunchInOrder, JournalNamesLive, Moving, At,
         Unlocked, Idle
<1>7. LaunchInOrder'
  BY OwnerType DEF TypeOK, NumbersDrawn, OneSlot, RunnerHolds, Known, LaunchInOrder,
                   GoalKeepsCell, JournalNamesLive, Moving, At, Unlocked, Idle, Owner, Jobs
<1>8. JournalNamesLive'
  BY DEF TypeOK, NumbersDrawn, OneSlot, LaunchInOrder, JournalNamesLive, Moving, At
<1>9. GoalKeepsCell'
  BY OwnerType DEF TypeOK, OneSlot, LaunchInOrder, GoalKeepsCell, DownForgets, At
<1> QED BY <1>1, <1>2, <1>3, <1>4, <1>5, <1>6, <1>7, <1>8, <1>9

(* The adapter gives back only its own lease.                              *)
LEMMA AdapterReleasesKeeps == IInv /\ AdapterReleases => IInv'
<1> SUFFICES ASSUME IInv, AdapterReleases PROVE IInv'
  OBVIOUS
<1> USE Names, BoundsAssumption DEF IInv, AdapterReleases, disk, memory, past
<1>1. TypeOK'
  BY DEF TypeOK, LaunchInOrder, Idle, Stages, Jobs, Unlocked, At
<1>2. NumbersDrawn'
  BY DEF TypeOK, NumbersDrawn, LaunchInOrder, At, Jobs
<1>3. DownForgets'
  BY DEF TypeOK, DownForgets, Unlocked, At, Idle
<1>4. OneSlot'
  BY DEF TypeOK, NumbersDrawn, OneSlot, LaunchInOrder, DownForgets, Jobs, At
<1>5. RunnerHolds'
  BY OwnerType DEF TypeOK, NumbersDrawn, OneSlot, RunnerHolds, LaunchInOrder, Owner, At, Unlocked
<1>6. Known'
  BY DEF TypeOK, NumbersDrawn, OneSlot, Known, LaunchInOrder, JournalNamesLive, Moving, At,
         Unlocked, Idle
<1>7. LaunchInOrder'
  BY OwnerType DEF TypeOK, NumbersDrawn, OneSlot, RunnerHolds, Known, LaunchInOrder,
                   GoalKeepsCell, JournalNamesLive, Moving, At, Unlocked, Idle, Owner, Jobs
<1>8. JournalNamesLive'
  BY DEF TypeOK, NumbersDrawn, OneSlot, LaunchInOrder, JournalNamesLive, Moving, At
<1>9. GoalKeepsCell'
  BY OwnerType DEF TypeOK, OneSlot, LaunchInOrder, GoalKeepsCell, DownForgets, At
<1> QED BY <1>1, <1>2, <1>3, <1>4, <1>5, <1>6, <1>7, <1>8, <1>9

(* A death of the server leaves the journal and the processes.             *)
LEMMA CrashKeeps == IInv /\ Crash => IInv'
<1> SUFFICES ASSUME IInv, Crash PROVE IInv'
  OBVIOUS
<1> USE Names, BoundsAssumption DEF IInv, Crash, disk, memory, past
<1>1. TypeOK'
  <2>1. up' \in BOOLEAN /\ identified' \in BOOLEAN
    BY Zenon DEF TypeOK
  <2>2. starter' \in [at : Stages, goal : Goals \cup {None}]
    BY DEF Idle, Stages
  <2> QED BY <2>1, <2>2 DEF TypeOK
<1>2. NumbersDrawn'
  BY DEF TypeOK, NumbersDrawn, LaunchInOrder, At, Jobs
<1>3. DownForgets'
  BY DEF TypeOK, DownForgets, Unlocked, At, Idle
<1>4. OneSlot'
  BY DEF TypeOK, NumbersDrawn, OneSlot, LaunchInOrder, DownForgets, Jobs, At
<1>5. RunnerHolds'
  BY OwnerType DEF TypeOK, NumbersDrawn, OneSlot, RunnerHolds, LaunchInOrder, Owner, At, Unlocked
<1>6. Known'
  BY DEF TypeOK, NumbersDrawn, OneSlot, Known, LaunchInOrder, JournalNamesLive, Moving, At,
         Unlocked, Idle
<1>7. LaunchInOrder'
  BY OwnerType DEF TypeOK, NumbersDrawn, OneSlot, RunnerHolds, Known, LaunchInOrder,
                   GoalKeepsCell, JournalNamesLive, Moving, At, Unlocked, Idle, Owner, Jobs
<1>8. JournalNamesLive'
  BY DEF TypeOK, NumbersDrawn, OneSlot, LaunchInOrder, JournalNamesLive, Moving, At
<1>9. GoalKeepsCell'
  BY OwnerType DEF TypeOK, OneSlot, LaunchInOrder, GoalKeepsCell, DownForgets, At
<1> QED BY <1>1, <1>2, <1>3, <1>4, <1>5, <1>6, <1>7, <1>8, <1>9

(* A restart adopts the journaled process, or demands a recovery, or has   *)
(* found it dead.                                                          *)
LEMMA RecoverKeeps == IInv /\ Recover => IInv'
<1> SUFFICES ASSUME IInv, Recover PROVE IInv'
  OBVIOUS
<1> USE Names, BoundsAssumption DEF IInv, Recover, disk, memory, past, Verdict, WithoutIdentity
<1>1. TypeOK'
  <2>1. up' \in BOOLEAN /\ identified' \in BOOLEAN
    BY Zenon DEF TypeOK
  <2>2. journal \in Jobs => Owner(journal) \in Jobs \cup Goals
    BY JournalOwner
  <2> HIDE DEF Verdict, WithoutIdentity
  <2> QED BY <2>1, <2>2 DEF TypeOK
<1>2. NumbersDrawn'
  BY DEF TypeOK, NumbersDrawn, LaunchInOrder, At, Jobs
<1>3. DownForgets'
  BY DEF TypeOK, DownForgets, Unlocked, At, Idle
<1>4. OneSlot'
  BY DEF TypeOK, NumbersDrawn, OneSlot, LaunchInOrder, DownForgets, Jobs, At
<1>5. RunnerHolds'
  BY OwnerType DEF TypeOK, NumbersDrawn, OneSlot, RunnerHolds, LaunchInOrder, Owner, At, Unlocked
<1>6. Known'
  BY DEF TypeOK, NumbersDrawn, OneSlot, Known, LaunchInOrder, JournalNamesLive, Moving, At,
         Unlocked, Idle
<1>7. LaunchInOrder'
  BY DEF DownForgets, LaunchInOrder, Idle
<1>8. JournalNamesLive'
  BY DEF TypeOK, NumbersDrawn, OneSlot, LaunchInOrder, JournalNamesLive, Moving, At
<1>9. GoalKeepsCell'
  BY OwnerType DEF TypeOK, OneSlot, LaunchInOrder, GoalKeepsCell, DownForgets, At
<1> QED BY <1>1, <1>2, <1>3, <1>4, <1>5, <1>6, <1>7, <1>8, <1>9

-----------------------------------------------------------------------------

(* Every step of the runner, the processes, the adapter and the server     *)
(* preserves the invariant.                                                *)
LEMMA NextIInv == IInv /\ [Next]_vars => IInv'
<1> SUFFICES ASSUME IInv, [Next]_vars PROVE IInv'
  OBVIOUS
<1>1. ASSUME NEW g \in Goals \cup {None}, StartCheck(g) PROVE IInv'
  BY <1>1, StartCheckKeeps
<1>2. CASE Start
  BY <1>2, AcquireKeeps, StartFailsKeeps, WriteMarkerKeeps, SpawnKeeps,
     SpawnFailsKeeps, LaunchedKeeps, ReserveGoalKeeps DEF Start
<1>3. CASE StartReconcile
  BY <1>3, StartReconcileKeeps
<1>4. ASSUME NEW j \in Jobs, Refresh(j) \/ ProcessExits(j) PROVE IInv'
  BY <1>4, RefreshKeeps, ProcessExitsKeeps
<1>5. ASSUME NEW g \in Goals, ReserveCheck(g) \/ ReleaseGoal(g) PROVE IInv'
  BY <1>5, ReserveCheckKeeps, ReleaseGoalKeeps
<1>6. CASE AdapterAcquires \/ AdapterReleases
  BY <1>6, AdapterAcquiresKeeps, AdapterReleasesKeeps
<1>7. CASE Crash \/ Recover
  BY <1>7, CrashKeeps, RecoverKeeps
<1>8. CASE UNCHANGED vars
  BY <1>8 DEF vars, disk, memory, past, IInv, TypeOK, NumbersDrawn, DownForgets,
     OneSlot, RunnerHolds, Known, LaunchInOrder, JournalNamesLive, GoalKeepsCell,
     Moving, Owner
<1> QED BY <1>1, <1>2, <1>3, <1>4, <1>5, <1>6, <1>7, <1>8 DEF Next

(* The invariant holds in every reachable state.                           *)
LEMMA InvariantHolds == Spec => []IInv
  BY InitIInv, NextIInv, PTL DEF Spec

(* The runner's state has its types, whatever the number of jobs, goals    *)
(* and crashes (SimDemoJobRunner's fields and the journal).                *)
THEOREM TypeCorrect == Spec => []TypeOK
  BY InvariantHolds, IInvImplies, PTL

(* active_job.json describes every process that can move the robot, from   *)
(* before Popen to after its exit, wherever the server dies.               *)
THEOREM JournalComplete == Spec => []JournalNamesLive
<1>1. IInv => JournalNamesLive
  BY DEF IInv
<1> QED BY InvariantHolds, <1>1, PTL

(* start() never lets a second process that can move the robot run.        *)
THEOREM OneProcessMoves == Spec => []OneMotionProcess
  BY InvariantHolds, IInvImplies, PTL

(* _recover_active_job adopts what it finds alive or fails closed.         *)
THEOREM AdoptsOrFailsClosed == Spec => []AdoptedOrClosed
  BY InvariantHolds, IInvImplies, PTL

(* From reserve_goal() to release_goal() the lease is the goal's.          *)
THEOREM GoalKeepsTheCell == Spec => []GoalKeepsCell
<1>1. IInv => GoalKeepsCell
  BY DEF IInv
<1> QED BY InvariantHolds, <1>1, PTL

-----------------------------------------------------------------------------
(* The script that a job runs (TransferScript), for any number of          *)
(* materials, slots, calls, stops and faults: what is recorded is where a  *)
(* material is, and a transfer that is stopped and resumed ends where it   *)
(* was bound for.                                                          *)

(* The values of the process.                                              *)
RunRecords ==
    [at : {"none", "dead", "entry", "sync", "verify", "rebind", "look", "sent", "stop", "latch",
           "consume", "verdict", "record", "checkpoint", "restore", "mark", "reconcile", "clear"},
     kind : Kinds \cup {"resume", "restore", "reconcile", Nothing}, m : Materials \cup {Nothing},
     from : Places \cup {Nothing}, to : Places \cup {Nothing}, k : 1..8,
     held : BOOLEAN, attached : BOOLEAN, fault : BOOLEAN, since : Nat,
     seen : Stops \cup {Nothing}, cp : Checkpoints \cup {Nothing}, ok : BOOLEAN,
     restored : BOOLEAN \cup {Nothing}, aim : Places \cup {Nothing}]

(* The states in which a run has its material in hand.                     *)
Hand == {"rebind", "look", "sent", "stop", "latch", "consume", "verdict", "record"}

Plain == run.kind \in Kinds

(* A record says what expected_at and a resumption take from it.           *)
RecordInv ==
    \A m \in Materials :
       /\ rec[m].state = "none" => rec[m] = NoRecord
       /\ rec[m].state # "none" => rec[m].at \in Places
       /\ rec[m].bound \in {Nothing, rec[m].at}
       /\ rec[m].state = "held" => rec[m].bound = Nothing

(* A checkpoint goes with the record of its stop.                          *)
Matches(c, r) ==
    /\ r.state = "stopped"
    /\ c.to \in {Nothing, r.at}
    /\ c.mode # "return" => c.aim = r.at

CheckpointInv == \A m \in Materials : ckpt[m] # Nothing => Matches(ckpt[m], rec[m])

(* What a process is that has not begun to move anything.                  *)
Fresh(k) == /\ run.k = k /\ ~run.held /\ ~run.attached /\ ~run.fault
            /\ run.seen = Nothing /\ run.cp = Nothing

BoundFor == /\ run.m \in Materials /\ run.from \in Places /\ run.to \in Places
            /\ run.from # run.to /\ run.aim = run.to
            /\ run.kind = Mode(run.m, run.from, run.to)

ProcessInv ==
    /\ NoScript => /\ run.m = Nothing /\ Fresh(1)
    /\ run.at \in {"entry", "sync"} => BoundFor /\ Fresh(1)
    /\ run.at = "verify" => run.kind = "resume" /\ run.m \in Materials /\ Fresh(1)
    /\ run.at \in {"restore", "mark"} => run.kind = "restore" /\ run.m \in Materials /\ Fresh(1)
    /\ run.at = "reconcile" => run.kind = "reconcile" /\ run.m = Nothing /\ Fresh(1)
    /\ run.at = "clear" => run.m \in Materials /\ Fresh(1)
    /\ run.at = "rebind" => run.kind = "resume" /\ Fresh(Resumable)
    /\ run.at = "checkpoint" => /\ Plain /\ run.m \in Materials /\ run.cp # Nothing
                                /\ Matches(run.cp, rec[run.m])
    /\ run.at = "mark" => place[run.m] = run.m /\ run.m \notin joined

(* How far the stages have come.                                           *)
StageInv ==
    run.at \in Hand \ {"rebind"} =>
        /\ run.held => run.attached
        /\ run.kind = "resume" => run.k >= Resumable
        /\ run.at \in {"look", "sent"} =>
              /\ ~run.fault /\ run.seen = Nothing
              /\ run.k > 2 => run.attached
              /\ run.k > 6 => ~run.held /\ run.m \notin joined
        /\ run.at \in {"look", "sent", "stop"} => run.k <= Len(RunStages) /\ run.cp = Nothing
        /\ run.at \in {"stop", "latch", "consume"} => run.seen # Nothing
        /\ run.at \in {"verdict", "record"} /\ Finished =>
              run.k > Len(RunStages) /\ ~run.held /\ run.m \notin joined

(* The run and what was recorded and observed when it began.  A resumed run*)
(* is bound for the place in the record, which is what the transfer that   *)
(* was stopped was bound for.                                              *)
InHandInv ==
    run.at \in Hand =>
        /\ run.m \in Materials /\ run.to \in Places /\ run.aim = run.to
        /\ run.kind \in Kinds \cup {"resume"}
        /\ Plain => /\ BoundFor /\ ckpt[run.m] = Nothing /\ Where(run.m) = run.from
                    /\ run.kind = "return" => rec[run.m].state = "held"
        /\ run.kind = "resume" => /\ ckpt[run.m] # Nothing /\ ckpt[run.m].mode # "return"
                                  /\ run.to = rec[run.m].at

(* A material that was not grasped is where it was, or was dragged off.    *)
UntouchedInv ==
    run.at \in Hand /\ ~run.attached /\ run.kind \in {"slot_move", "route"} =>
        place[run.m] = run.from \/ (place[run.m] = "air" /\ run.m \in upset)

(* What was captured fits the record that will be written.                 *)
CaptureInv ==
    run.at \in Hand /\ run.cp # Nothing =>
        /\ run.seen # Nothing /\ run.cp.aim = run.to
        /\ run.kind = "resume" => run.cp.to = Nothing /\ run.cp.mode # "return"
        /\ run.kind = "return" => run.cp.to = Nothing /\ run.cp.mode = "return"
        /\ run.cp.to \in {Nothing, run.to}

(* What the verdict found still holds when it is recorded.                 *)
OutcomeInv ==
    run.at = "record" =>
        /\ run.ok => Finished /\ (Unbound \/ place[run.m] = run.to)
        /\ run.restored = TRUE => /\ run.kind = "forward" /\ run.cp = Nothing
                                  /\ place[run.m] = run.m /\ run.m \notin joined

(* A record tells the truth of every material but the one in hand, and of  *)
(* that one too when the run is over.                                      *)
TruthInv ==
    \A m \in Materials \ upset :
       \/ m = run.m /\ run.at \in Hand \cup {"mark"}
       \/ Where(m) # Nothing => place[m] = Where(m)

SceneInv ==
    run.at \in {"rebind", "look", "sent", "stop"} =>
        \A x \in Materials \ ({run.m} \cup joined) : scene[x] = place[x]

Types == ScriptTypeOK /\ run \in RunRecords

ScriptInv == /\ Types /\ RecordInv /\ CheckpointInv /\ ProcessInv /\ StageInv /\ InHandInv
        /\ UntouchedInv /\ CaptureInv /\ OutcomeInv /\ TruthInv /\ SceneInv

-----------------------------------------------------------------------------
(* The seven stages by their numbers.                                      *)
LEMMA StageNumbers ==
    /\ Len(RunStages) = 7 /\ Resumable = 4
    /\ \A k \in 1..7 : /\ RunStages[k] = "close" <=> k = 2
                       /\ RunStages[k] = "lower" <=> k = 5
                       /\ RunStages[k] = "open" <=> k = 6
                       /\ RunStages[k] \in {"approach", "lift", "place_approach", "home"}
                             <=> k \in {1, 3, 4, 7}
<1>1. Len(RunStages) = 7
  BY DEF RunStages
<1>2. \A k \in 1..7 : k = 1 \/ k = 2 \/ k = 3 \/ k = 4 \/ k = 5 \/ k = 6 \/ k = 7
  OBVIOUS
<1>3. /\ RunStages[1] = "approach" /\ RunStages[2] = "close" /\ RunStages[3] = "lift"
      /\ RunStages[4] = "place_approach" /\ RunStages[5] = "lower" /\ RunStages[6] = "open"
      /\ RunStages[7] = "home"
  BY DEF RunStages
<1> QED BY <1>1, <1>2, <1>3 DEF Resumable

(* Nothing is no place, no number and no truth value.                      *)
LEMMA NothingIs == /\ Nothing \notin Places /\ Nothing \notin Spots /\ Nothing \notin Stops
                /\ Nothing \notin BOOLEAN /\ Nothing \notin Materials
                /\ Materials \subseteq Places /\ Places \subseteq Spots
                /\ "air" \notin Places /\ "belt" \notin Places
                /\ DefaultSlot \in Places
  BY NothingAssumption, PlacesAssumption DEF Places, Spots, Stops

-----------------------------------------------------------------------------
(* Every step keeps the types of the cell.                                 *)
LEMMA CellTypes ==
    ASSUME ScriptInv, [ScriptNext]_scriptVars
    PROVE  /\ place' \in [Materials -> Spots] /\ joined' \subseteq Materials
           /\ scene' \in [Materials -> Spots] /\ armGoal' \in BOOLEAN
           /\ rest' \in Stops \cup {Nothing} /\ upset' \subseteq Materials
<1>0. /\ place \in [Materials -> Spots] /\ joined \subseteq Materials
      /\ scene \in [Materials -> Spots] /\ armGoal \in BOOLEAN
      /\ rest \in Stops \cup {Nothing} /\ upset \subseteq Materials
      /\ run \in RunRecords /\ TRUE \in BOOLEAN /\ FALSE \in BOOLEAN
  BY DEF ScriptInv, Types, ScriptTypeOK
<1>1. run.at \in Hand => run.m \in Materials /\ run.to \in Places /\ run.to \in Spots
  BY NothingIs DEF ScriptInv, InHandInv
<1>2. Carried \in [Materials -> Spots]
  BY <1>0 DEF Carried, Spots
<1>3. \A p \in Halfway : run.at = "sent" => p \in [Materials -> Spots]
  BY <1>0, <1>1 DEF Halfway, Hand
<1>4. ASSUME NEW m \in Materials, NEW verified \in BOOLEAN, PutBack(m, verified)
      PROVE  /\ place' \in [Materials -> Spots] /\ joined' \subseteq Materials
             /\ upset' \subseteq Materials /\ UNCHANGED <<scene, armGoal, rest>>
  <2>1. Pushed(m) \in [Materials -> Spots]
    BY <1>0, NothingIs DEF Pushed, Spots
  <2>2. [place EXCEPT ![m] = "air"] \in [Materials -> Spots]
    BY <1>0 DEF Spots
  <2> QED BY <1>0, <1>4, <2>1, <2>2 DEF PutBack
<1>5. CASE Sync
  BY <1>0, <1>5 DEF Sync, SyncedScene
<1>6. CASE Send
  BY <1>0, <1>2, <1>6 DEF Send, Dragged
<1>7. CASE SentStops \/ SentFails
  BY <1>0, <1>3, <1>7 DEF SentStops, SentFails
<1>8. CASE Reach
  BY <1>0, <1>8 DEF Reach
<1>9. CASE Lower
  <2>1. \A p \in {run.to, "air", "belt"} :
           run.at = "sent" => [place EXCEPT ![run.m] = p] \in [Materials -> Spots]
    BY <1>0, <1>1 DEF Spots, Hand
  <2>2. \E p \in {run.to, "air", "belt"} : place' = [place EXCEPT ![run.m] = p]
    BY <1>9 DEF Lower
  <2>3. run.at = "sent" /\ UNCHANGED <<joined, scene, rest, upset>> /\ armGoal' = FALSE
    BY <1>9 DEF Lower, Reached
  <2>4. place' \in [Materials -> Spots]
    BY <2>1, <2>2, <2>3
  <2> QED BY <1>0, <2>3, <2>4
<1>10. CASE Attach \/ Detach
  BY <1>0, <1>1, <1>10 DEF Attach, Detach, Reached, Hand
<1>11. CASE Confirm
  <2>1. run.seen \in Stops \cup {Nothing}
    BY <1>0 DEF RunRecords
  <2> QED BY <1>0, <1>11, <2>1 DEF Confirm
<1>12. CASE GiveVerdict
  <2>1. PICK ok \in {FALSE, Arrived}, verified \in BOOLEAN :
           IF PutsBack(ok) THEN PutBack(run.m, verified) ELSE UNCHANGED <<cell, upset>>
    BY <1>12 DEF GiveVerdict
  <2>2. run.m \in Materials
    BY <1>1, <1>12 DEF GiveVerdict, Hand
  <2> QED BY <1>0, <1>4, <2>1, <2>2 DEF cell
<1>13. CASE Restore
  <2>1. run.m \in Materials
    BY <1>13 DEF Restore, ScriptInv, ProcessInv
  <2> QED BY <1>0, <1>4, <1>13, <2>1 DEF Restore
<1>14. CASE Record
  <2>1. run.m \in Materials
    BY <1>1, <1>14 DEF Record, Hand
  <2> QED BY <1>0, <1>14, <2>1 DEF Record, cell
<1>15. CASE MarkRestored \/ Reconcile
  BY <1>0, <1>15 DEF MarkRestored, Reconcile, Forget, cell
<1>16. CASE GoalEnds
  BY <1>0, <1>2, <1>16 DEF GoalEnds, Dragged
<1>17. CASE Kill
  BY <1>0, <1>17 DEF Kill, cell
<1>18. CASE RestartCell
  <2>1. [m \in Materials |-> m] \in [Materials -> Spots]
    BY NothingIs
  <2> QED BY <1>0, <1>18, <2>1 DEF RestartCell
<1>19. CASE UNCHANGED <<cell, upset>>
  BY <1>0, <1>19 DEF cell
<1> QED
  BY <1>5, <1>6, <1>7, <1>8, <1>9, <1>10, <1>11, <1>12, <1>13, <1>14, <1>15, <1>16, <1>17,
     <1>18, <1>19
  DEF ScriptNext, Script, scriptVars, Begin, BeginRun, AskStop, ReleaseLatch, Refuse,
      LookFails, LookStops,
      SetLatch, Consume, RecordCheckpoint, Verify, Rebind, ClearLatch

(* What the runs write is a record; what a stop captures is a checkpoint.  *)
LEMMA RecordTypes ==
    ASSUME ScriptInv, run.at = "record"
    PROVE  /\ Plain => NextRecord \in Records
           /\ run.kind = "resume" => ResumedRecord \in Records
<1>1. /\ run.m \in Materials /\ run.to \in Places /\ rec[run.m] \in Records
      /\ run.kind \in Kinds \cup {"resume"} /\ (Plain => run.from \in Places)
  BY DEF ScriptInv, Types, ScriptTypeOK, InHandInv, Hand, BoundFor
<1>2. \A state \in {"held", "stopped", "fault"}, at \in Places \cup {Nothing},
         bound \in Places \cup {Nothing} : Left(state, at, bound) \in Records
  BY DEF Left, Records
<1>3. NoRecord \in Records
  BY DEF NoRecord, Records
<1>4. rec[run.m].at \in Places \cup {Nothing} /\ rec[run.m].bound \in Places \cup {Nothing}
  BY <1>1 DEF Records
<1>5. Plain => NextRecord \in Records
  BY <1>1, <1>2, <1>3, <1>4 DEF NextRecord, Plain, Kinds
<1>6. run.kind = "resume" => ResumedRecord \in Records
  <2>1. run.ok \in BOOLEAN
    BY DEF ScriptInv, Types, RunRecords
  <2> QED BY <1>1, <1>2, <1>3, <1>4, <2>1 DEF ResumedRecord, Carry
<1> QED BY <1>5, <1>6

LEMMA CaptureType ==
    ASSUME ScriptInv, run.at = "stop", ObjectState # "unknown"
    PROVE  /\ Capture \in Checkpoints
           /\ Capture.aim = run.aim /\ Capture.stop = run.seen
           /\ Capture.mode = IF run.kind = "resume" THEN ckpt[run.m].mode ELSE run.kind
           /\ Capture.to = IF run.kind \in {"forward", "slot_move", "route"} THEN run.to
                           ELSE Nothing
<1>1. /\ run.m \in Materials /\ run.to \in Places /\ run.aim \in Places
      /\ run.kind \in Kinds \cup {"resume"} /\ run.seen \in Stops /\ run.k \in 1..7
      /\ run.from \in Places \cup {Nothing} /\ scene \in [Materials -> Spots]
      /\ run.kind = "resume" => ckpt[run.m] \in Checkpoints
  BY StageNumbers DEF ScriptInv, Types, ScriptTypeOK, InHandInv, StageInv, Hand, RunRecords
<1>2. ObjectState \in {"held", "pallet", "conveyor"}
  BY DEF ObjectState
<1>3. (IF run.kind = "resume" THEN ckpt[run.m].mode ELSE run.kind) \in Kinds
  BY <1>1 DEF Checkpoints
<1> QED BY <1>1, <1>2, <1>3 DEF Capture, Checkpoints

(* Every step keeps the types of the files.                                *)
LEMMA FileTypes ==
    ASSUME ScriptInv, [ScriptNext]_scriptVars
    PROVE  /\ rec' \in [Materials -> Records]
           /\ ckpt' \in [Materials -> Checkpoints \cup {Nothing}]
           /\ latch' \in [stop : Stops, scene : [Materials -> Spots]] \cup {Nothing}
           /\ request' \in Stops \cup {Nothing}
           /\ runs' \in Nat /\ stops' \in Nat /\ faults' \in Nat
<1>0. /\ rec \in [Materials -> Records] /\ ckpt \in [Materials -> Checkpoints \cup {Nothing}]
      /\ latch \in [stop : Stops, scene : [Materials -> Spots]] \cup {Nothing}
      /\ request \in Stops \cup {Nothing} /\ scene \in [Materials -> Spots]
      /\ runs \in Nat /\ stops \in Nat /\ faults \in Nat
      /\ run \in RunRecords /\ run.cp \in Checkpoints \cup {Nothing}
  BY DEF ScriptInv, Types, ScriptTypeOK, RunRecords
<1>1. runs' \in Nat /\ stops' \in Nat /\ faults' \in Nat
  <2>1. /\ runs' \in {runs, runs + 1} /\ stops' \in {stops, stops + 1}
        /\ faults' \in {faults, faults + 1}
    BY DEF ScriptNext, Script, scriptVars, counts, Begin, BeginRun, AskStop, ReleaseLatch,
           Sync, Refuse,
           LookFails, LookStops, Send, SentStops, SentFails, Reach, Lower, Attach, Detach,
           Confirm, SetLatch, Consume, GiveVerdict, Record, RecordCheckpoint, Verify, Rebind,
           Restore, MarkRestored, Reconcile, Forget, ClearLatch, GoalEnds, Kill, RestartCell,
           Fails
  <2> QED BY <1>0, <2>1
<1>2. /\ request' \in Stops \cup {Nothing}
      /\ latch' \in [stop : Stops, scene : [Materials -> Spots]] \cup {Nothing}
  <2>1. CASE AskStop
    BY <1>0, <2>1 DEF AskStop, Stops
  <2>2. CASE ReleaseLatch \/ Verify
    BY <1>0, <2>2 DEF ReleaseLatch, Verify
  <2>3. CASE SetLatch
    <3>1. run.seen \in Stops
      BY <2>3 DEF SetLatch, ScriptInv, Types, RunRecords, StageInv, Hand
    <3> QED BY <1>0, <2>3, <3>1 DEF SetLatch
  <2>4. CASE Consume
    BY <1>0, <2>4 DEF Consume
  <2>5. CASE ClearLatch
    BY <1>0, <2>5 DEF ClearLatch
  <2>6. CASE UNCHANGED <<latch, request>>
    BY <1>0, <2>6
  <2> QED
    BY <2>1, <2>2, <2>3, <2>4, <2>5, <2>6
    DEF ScriptNext, Script, scriptVars, files, Begin, BeginRun, Sync, Refuse, LookFails,
        LookStops, Send,
        SentStops, SentFails, Reach, Lower, Attach, Detach, Confirm, GiveVerdict, Record,
        RecordCheckpoint, Rebind, Restore, MarkRestored, Reconcile, Forget, GoalEnds, Kill,
        RestartCell
<1>3. rec' \in [Materials -> Records] /\ ckpt' \in [Materials -> Checkpoints \cup {Nothing}]
  <2>1. CASE Record
    <3>1. run.at = "record" /\ (Plain \/ run.kind = "resume")
      BY <2>1 DEF Record, ScriptInv, InHandInv, Hand, Plain
    <3>2. /\ Plain => NextRecord \in Records
          /\ run.kind = "resume" => ResumedRecord \in Records
      BY <3>1, RecordTypes
    <3>3. run.kind = "resume" => ~Plain
      BY DEF Plain, Kinds
    <3> QED BY <1>0, <2>1, <3>1, <3>2, <3>3 DEF Record
  <2>2. CASE RecordCheckpoint
    BY <1>0, <2>2 DEF RecordCheckpoint
  <2>3. ASSUME NEW cleared, Forget(cleared)
        PROVE  /\ rec' \in [Materials -> Records]
               /\ ckpt' \in [Materials -> Checkpoints \cup {Nothing}]
    <3>1. NoRecord \in Records
      BY DEF NoRecord, Records
    <3> QED BY <1>0, <2>3, <3>1 DEF Forget, WithoutCheckpoint
  <2>4. CASE MarkRestored \/ Reconcile
    BY <2>3, <2>4 DEF MarkRestored, Reconcile
  <2>5. CASE UNCHANGED <<rec, ckpt>>
    BY <1>0, <2>5
  <2> QED
    BY <2>1, <2>2, <2>4, <2>5
    DEF ScriptNext, Script, scriptVars, files, Begin, BeginRun, AskStop, ReleaseLatch, Sync,
        Refuse,
        LookFails, LookStops, Send, SentStops, SentFails, Reach, Lower, Attach, Detach, Confirm,
        SetLatch, Consume, GiveVerdict, Verify, Rebind, Restore, ClearLatch, GoalEnds, Kill,
        RestartCell
<1> QED BY <1>1, <1>2, <1>3

(* Every step keeps the types of the process.                              *)
LEMMA RunTypes == ASSUME ScriptInv, [ScriptNext]_scriptVars PROVE run' \in RunRecords
<1>0. /\ run \in RunRecords /\ TRUE \in BOOLEAN /\ FALSE \in BOOLEAN
      /\ request \in Stops \cup {Nothing} /\ stops \in Nat
  BY DEF ScriptInv, Types, ScriptTypeOK
<1>1. NoRun \in RunRecords
  BY <1>0 DEF NoRun, RunRecords
<1>2. ASSUME NEW at \in {"dead", "verify", "restore", "reconcile", "latch", "consume", "verdict",
                         "sent", "sync", "look", "checkpoint", "mark"}
      PROVE  [run EXCEPT !.at = at] \in RunRecords
  BY <1>0 DEF RunRecords
<1>3. ASSUME NEW kind \in {"resume", "restore", "reconcile"}, NEW at, NEW m, Begin(kind, at, m),
             at \in {"verify", "restore", "reconcile"}, m \in Materials \cup {Nothing}
      PROVE  run' \in RunRecords
  <2>1. run' = [NoRun EXCEPT !.at = at, !.kind = kind, !.m = m, !.since = stops]
    BY <1>3 DEF Begin
  <2> QED BY <1>0, <1>1, <1>3, <2>1, ZenonT(60) DEF RunRecords
<1>4. ASSUME NEW m \in Materials, NEW from \in Places, NEW to \in Places, BeginRun(m, from, to)
      PROVE  run' \in RunRecords
  <2>1. Mode(m, from, to) \in Kinds
    BY DEF Mode, Kinds
  <2>2. run' = [NoRun EXCEPT !.at = "entry", !.kind = Mode(m, from, to), !.m = m,
                             !.from = from, !.to = to, !.since = stops, !.aim = to]
    BY <1>4 DEF BeginRun
  <2> QED BY <1>0, <1>1, <2>1, <2>2, ZenonT(60) DEF RunRecords
<1>5. CASE LookFails \/ SentFails
  <2>1. run' = [run EXCEPT !.at = "verdict", !.fault = TRUE]
    BY <1>5 DEF LookFails, SentFails
  <2> QED BY <1>0, <2>1 DEF RunRecords
<1>6. CASE LookStops \/ SentStops
  <2>1. run' = [run EXCEPT !.at = "stop", !.seen = request] /\ request \in Stops
    BY <1>0, <1>6 DEF LookStops, SentStops, Requested, Noticed
  <2> QED BY <1>0, <2>1 DEF RunRecords
<1>7. ASSUME NEW r \in RunRecords, r.k <= 7, Onward(r) PROVE run' \in RunRecords
  <2>1. PICK at \in {"verdict", "look"} : run' = [r EXCEPT !.at = at, !.k = @ + 1]
    BY <1>7 DEF Onward
  <2>2. r.k + 1 \in 1..8
    BY <1>7 DEF RunRecords
  <2> QED BY <1>7, <2>1, <2>2 DEF RunRecords
<1>8. run.at = "sent" => run.k <= 7
  BY StageNumbers DEF ScriptInv, StageInv, Hand
<1>9. CASE Reach \/ Lower
  BY <1>0, <1>7, <1>8, <1>9 DEF Reach, Lower, Reached
<1>10. CASE Attach
  <2>1. [run EXCEPT !.held = TRUE, !.attached = TRUE] \in RunRecords
    BY <1>0 DEF RunRecords
  <2>2. [run EXCEPT !.held = TRUE, !.attached = TRUE].k = run.k
    BY <1>0 DEF RunRecords
  <2>3. \/ Onward([run EXCEPT !.held = TRUE, !.attached = TRUE])
        \/ run' = [run EXCEPT !.at = "verdict", !.fault = TRUE]
    BY <1>10 DEF Attach
  <2>4. [run EXCEPT !.at = "verdict", !.fault = TRUE] \in RunRecords
    BY <1>0 DEF RunRecords
  <2> QED BY <1>7, <1>8, <1>10, <2>1, <2>2, <2>3, <2>4 DEF Attach, Reached
<1>11. CASE Detach
  <2>1. [run EXCEPT !.held = FALSE] \in RunRecords
    BY <1>0 DEF RunRecords
  <2>2. [run EXCEPT !.held = FALSE].k = run.k
    BY <1>0 DEF RunRecords
  <2>3. \/ Onward([run EXCEPT !.held = FALSE])
        \/ run' = [run EXCEPT !.at = "verdict", !.held = FALSE, !.fault = TRUE]
    BY <1>11 DEF Detach
  <2>4. [run EXCEPT !.at = "verdict", !.held = FALSE, !.fault = TRUE] \in RunRecords
    BY <1>0 DEF RunRecords
  <2> QED BY <1>7, <1>8, <1>11, <2>1, <2>2, <2>3, <2>4 DEF Detach, Reached
<1>12. CASE Confirm
  <2>1. PICK cp \in {Nothing} \cup (IF ObjectState # "unknown" THEN {Capture} ELSE {}) :
           run' = [run EXCEPT !.at = "latch", !.cp = cp]
    BY <1>12 DEF Confirm
  <2>2. cp \in Checkpoints \cup {Nothing}
    BY <1>12, <2>1, CaptureType DEF Confirm
  <2> QED BY <1>0, <2>1, <2>2 DEF RunRecords
<1>13. CASE GiveVerdict
  <2>1. PICK ok \in {FALSE, Arrived}, restored \in BOOLEAN \cup {Nothing} :
           run' = [run EXCEPT !.at = "record", !.ok = ok, !.restored = restored]
    BY <1>13 DEF GiveVerdict
  <2>2. ok \in BOOLEAN
    BY <2>1 DEF Arrived
  <2>3. \A b \in BOOLEAN, q \in BOOLEAN \cup {Nothing} :
           [run EXCEPT !.at = "record", !.ok = b, !.restored = q] \in RunRecords
    <3>1. ASSUME NEW b \in BOOLEAN
          PROVE  [run EXCEPT !.at = "record", !.ok = b] \in RunRecords
      BY <1>0, ZenonT(60) DEF RunRecords
    <3>2. ASSUME NEW r \in RunRecords, NEW q \in BOOLEAN \cup {Nothing}
          PROVE  [r EXCEPT !.restored = q] \in RunRecords
      BY DEF RunRecords
    <3>3. ASSUME NEW b, NEW q
          PROVE  [run EXCEPT !.at = "record", !.ok = b, !.restored = q]
                   = [[run EXCEPT !.at = "record", !.ok = b] EXCEPT !.restored = q]
      BY <1>0 DEF RunRecords
    <3> QED BY <3>1, <3>2, <3>3
  <2> QED BY <2>1, <2>2, <2>3
<1>14. CASE Verify
  <2>1. run.m \in Materials /\ ckpt[run.m] \in Checkpoints
    BY <1>14 DEF Verify, ScriptInv, ProcessInv, Types, ScriptTypeOK
  <2>2. Target(run.m) \in Places /\ ckpt[run.m].aim \in Places /\ Resumable \in 1..8
    BY <2>1, NothingIs, StageNumbers DEF Target, Checkpoints, ScriptInv, Types, ScriptTypeOK,
                                      Records
  <2>3. run' = [run EXCEPT !.at = "rebind", !.to = Target(run.m), !.k = Resumable,
                           !.aim = ckpt[run.m].aim]
    BY <1>14 DEF Verify
  <2> QED BY <1>0, <2>2, <2>3 DEF RunRecords
<1>15. CASE Rebind
  <2>1. \/ run' = [run EXCEPT !.at = "look", !.held = TRUE, !.attached = TRUE]
        \/ run' = [run EXCEPT !.at = "verdict", !.fault = TRUE]
    BY <1>15 DEF Rebind
  <2>2. [run EXCEPT !.at = "look", !.held = TRUE, !.attached = TRUE] \in RunRecords
    BY <1>0 DEF RunRecords
  <2>3. [run EXCEPT !.at = "verdict", !.fault = TRUE] \in RunRecords
    BY <1>0 DEF RunRecords
  <2> QED BY <2>1, <2>2, <2>3
<1>16. ASSUME NEW m \in Materials, ClearsNext(m) PROVE run' \in RunRecords
  <2>1. run' = NoRun \/ run' = [run EXCEPT !.at = "clear", !.m = m]
    BY <1>16 DEF ClearsNext, Over
  <2>2. [run EXCEPT !.at = "clear", !.m = m] \in RunRecords
    BY <1>0 DEF RunRecords
  <2> QED BY <1>1, <2>1, <2>2
<1>17. CASE MarkRestored
  BY <1>16, <1>17 DEF MarkRestored, ScriptInv, ProcessInv
<1>18. CASE Reconcile
  BY <1>1, <1>16, <1>18 DEF Reconcile, Over
<1>19. CASE Kill
  <2>1. run' = [NoRun EXCEPT !.at = "dead"]
    BY <1>19 DEF Kill
  <2> QED BY <1>1, <2>1 DEF RunRecords
<1>20. CASE ReleaseLatch \/ Sync \/ Refuse \/ Send \/ SetLatch \/ Consume \/ Record
            \/ RecordCheckpoint \/ Restore \/ ClearLatch
  BY <1>1, <1>2, <1>20
  DEF ReleaseLatch, Sync, Refuse, Send, SetLatch, Consume, Record, RecordCheckpoint, Restore,
      ClearLatch, Over, Goes
<1>21. CASE UNCHANGED run
  BY <1>0, <1>21
<1> QED
  BY <1>3, <1>4, <1>5, <1>6, <1>9, <1>10, <1>11, <1>12, <1>13, <1>14, <1>15, <1>17, <1>18,
     <1>19, <1>20, <1>21
  DEF ScriptNext, Script, scriptVars, AskStop, GoalEnds, RestartCell

(* Every step keeps the types.                                             *)
LEMMA TypesNext == ASSUME ScriptInv, [ScriptNext]_scriptVars PROVE Types'
<1>1. run' \in RunRecords
  BY RunTypes
<1>2. /\ run'.at \in {"none", "dead", "entry", "sync", "verify", "rebind", "look", "sent", "stop",
                   "latch", "consume", "verdict", "record", "checkpoint", "restore", "mark",
                   "reconcile", "clear"}
      /\ run'.kind \in Kinds \cup {"resume", "restore", "reconcile", Nothing}
      /\ run'.m \in Materials \cup {Nothing} /\ run'.k \in 1..8
  BY <1>1 DEF RunRecords
<1> QED BY <1>1, <1>2, CellTypes, FileTypes DEF Types, ScriptTypeOK

-----------------------------------------------------------------------------
(* The steps that leave a run with its material in hand.                   *)
HandStep ==
    \/ LookFails \/ LookStops \/ Send \/ SentStops \/ SentFails
    \/ Reach \/ Lower \/ Attach \/ Detach
    \/ Confirm \/ SetLatch \/ Consume \/ GiveVerdict \/ Rebind
    \/ AskStop \/ GoalEnds \/ UNCHANGED scriptVars

(* A run begins to have its material in hand in two ways; from then on it  *)
(* stays bound for the same place, and the files about it stay as they are.*)
LEMMA Kept ==
    ASSUME ScriptInv, [ScriptNext]_scriptVars, run'.at \in Hand
    PROVE  \/ Sync \/ Verify
           \/ /\ HandStep
              /\ run.at \in Hand /\ UNCHANGED <<rec, ckpt>>
              /\ run'.m = run.m /\ run'.from = run.from /\ run'.to = run.to
              /\ run'.aim = run.aim /\ run'.kind = run.kind
              /\ Confirm \/ run'.cp = run.cp
              /\ run'.seen = run.seen \/ run'.seen # Nothing
<1> DEFINE Same == /\ run'.m = run.m /\ run'.from = run.from /\ run'.to = run.to
                   /\ run'.aim = run.aim /\ run'.kind = run.kind
                   /\ Confirm \/ run'.cp = run.cp
                   /\ run'.seen = run.seen \/ run'.seen # Nothing
<1>0. run \in RunRecords /\ NoRun.at = "none"
  BY DEF ScriptInv, Types, NoRun
<1>1. ASSUME NEW r \in RunRecords, Onward(r)
      PROVE  /\ run'.m = r.m /\ run'.from = r.from /\ run'.to = r.to
             /\ run'.aim = r.aim /\ run'.kind = r.kind
             /\ run'.cp = r.cp /\ run'.seen = r.seen
  BY <1>1 DEF Onward, RunRecords
<1>2. CASE LookFails \/ LookStops \/ Send \/ SentStops \/ SentFails \/ Confirm \/ SetLatch
           \/ Consume \/ GiveVerdict \/ Rebind
  <2>1. run.at \in Hand /\ UNCHANGED <<rec, ckpt>>
    BY <1>2 DEF LookFails, LookStops, Send, SentStops, SentFails, Confirm, SetLatch, Consume,
                GiveVerdict, Rebind, Hand, files
  <2>2. Same
    BY <1>0, <1>2 DEF LookFails, LookStops, Send, SentStops, SentFails, Confirm, SetLatch,
                      Consume, GiveVerdict, Rebind, Goes, Requested, Noticed, RunRecords
  <2> QED BY <1>2, <2>1, <2>2 DEF HandStep
<1>3. CASE Reach \/ Lower
  <2>1. run.at \in Hand /\ UNCHANGED <<rec, ckpt>> /\ Onward(run)
    BY <1>3 DEF Reach, Lower, Reached, Hand, files
  <2>2. Same
    BY <1>0, <1>1, <2>1
  <2> QED BY <1>3, <2>1, <2>2 DEF HandStep
<1>4. CASE Attach \/ Detach
  <2>0. [run EXCEPT !.held = TRUE, !.attached = TRUE] \in RunRecords
    BY <1>0 DEF RunRecords
  <2>1. [run EXCEPT !.held = FALSE] \in RunRecords
    BY <1>0 DEF RunRecords
  <2>2. run.at \in Hand /\ UNCHANGED <<rec, ckpt>>
    BY <1>4 DEF Attach, Detach, Reached, Hand, files
  <2>3. \/ Onward([run EXCEPT !.held = TRUE, !.attached = TRUE])
        \/ Onward([run EXCEPT !.held = FALSE])
        \/ run' = [run EXCEPT !.at = "verdict", !.fault = TRUE]
        \/ run' = [run EXCEPT !.at = "verdict", !.held = FALSE, !.fault = TRUE]
    BY <1>4 DEF Attach, Detach
  <2>4. Same
    <3>1. Onward([run EXCEPT !.held = TRUE, !.attached = TRUE]) => Same
      BY <1>0, <1>1, <2>0 DEF RunRecords
    <3>2. Onward([run EXCEPT !.held = FALSE]) => Same
      BY <1>0, <1>1, <2>1 DEF RunRecords
    <3>3. run' = [run EXCEPT !.at = "verdict", !.fault = TRUE] => Same
      BY <1>0 DEF RunRecords
    <3>4. run' = [run EXCEPT !.at = "verdict", !.held = FALSE, !.fault = TRUE] => Same
      BY <1>0 DEF RunRecords
    <3> QED BY <2>3, <3>1, <3>2, <3>3, <3>4
  <2> QED BY <1>4, <2>2, <2>4 DEF HandStep
(* The other steps leave the process alone, or it has nothing in hand.     *)
<1>5. CASE AskStop \/ GoalEnds \/ RestartCell \/ UNCHANGED scriptVars
  <2>1. UNCHANGED <<rec, ckpt>> /\ run' = run
    BY <1>5 DEF AskStop, GoalEnds, RestartCell, scriptVars, files
  <2>2. ~RestartCell
    BY <2>1 DEF RestartCell, NoScript, Hand
  <2> QED BY <1>5, <2>1, <2>2 DEF HandStep
<1>6. ASSUME Over PROVE FALSE
  BY <1>0, <1>6 DEF Over, Hand
<1>7. ASSUME NEW m, ClearsNext(m) PROVE FALSE
  BY <1>0, <1>6, <1>7 DEF ClearsNext, Hand, RunRecords
<1>8. ASSUME NEW at, at \notin Hand, Goes(at) PROVE FALSE
  BY <1>0, <1>8 DEF Goes, RunRecords
<1>9. ~(ReleaseLatch \/ Refuse \/ Record \/ RecordCheckpoint \/ ClearLatch)
  <2>1. ~ReleaseLatch
    BY <1>0 DEF ReleaseLatch, RunRecords, Hand
  <2>2. Record => Over \/ Goes("checkpoint")
    BY DEF Record
  <2>3. "checkpoint" \notin Hand
    BY DEF Hand
  <2> QED BY <1>6, <1>8, <2>1, <2>2, <2>3 DEF Refuse, RecordCheckpoint, ClearLatch
<1>10. ~(Restore \/ MarkRestored \/ Reconcile)
  <2>1. "mark" \notin Hand
    BY DEF Hand
  <2> QED BY <1>6, <1>7, <1>8, <2>1 DEF Restore, MarkRestored, Reconcile
<1>11. \A kind, at, m : at \notin Hand => ~Begin(kind, at, m)
  BY DEF Begin, NoRun
<1>12. \A m, from, to : ~BeginRun(m, from, to)
  <2> SUFFICES ASSUME NEW m, NEW from, NEW to, BeginRun(m, from, to) PROVE FALSE
    OBVIOUS
  <2>1. run' = [NoRun EXCEPT !.at = "entry", !.kind = Mode(m, from, to), !.m = m,
                             !.from = from, !.to = to, !.since = stops, !.aim = to]
    BY DEF BeginRun
  <2>2. run'.at = "entry"
    BY <2>1 DEF NoRun
  <2> QED BY <2>2 DEF Hand
<1>13. ~Kill
  BY DEF Kill, NoRun, Hand
<1>14. {"verify", "restore", "reconcile"} \cap Hand = {}
  BY DEF Hand
<1> QED
  BY <1>2, <1>3, <1>4, <1>5, <1>9, <1>10, <1>11, <1>12, <1>13, <1>14
  DEF ScriptNext, Script, HandStep

LEMMA InHandNext == ASSUME ScriptInv, [ScriptNext]_scriptVars PROVE InHandInv'
<1> SUFFICES ASSUME run'.at \in Hand PROVE InHandInv'
  BY DEF InHandInv
<1>0. run \in RunRecords /\ NoRun.at = "none" /\ "none" \notin Hand
  BY DEF ScriptInv, Types, NoRun, Hand
<1>1. CASE Sync
  <2>1. run' = [run EXCEPT !.at = "look"]
    BY <1>0, <1>1 DEF Sync, Over
  <2>2. /\ run'.m = run.m /\ run'.from = run.from /\ run'.to = run.to
        /\ run'.aim = run.aim /\ run'.kind = run.kind /\ UNCHANGED <<rec, ckpt>>
    BY <1>0, <1>1, <2>1 DEF Sync, files, RunRecords
  <2>3. BoundFor
    BY <1>1 DEF Sync, ScriptInv, ProcessInv
  <2>4. place[run.m] = run.from
    BY <1>0, <1>1, <2>1 DEF Sync, Over
  <2>5. Where(run.m) = run.from /\ Where(run.m) # Nothing
    BY <1>1, <2>3, <2>4 DEF Sync, AsRecorded, BoundFor
  <2>6. ckpt[run.m] = Nothing
    BY <2>3, <2>5 DEF BoundFor, ScriptInv, CheckpointInv, Matches, Where
  <2>7. run.kind = "return" => rec[run.m].state = "held"
    <3>1. run.kind = "return" => run.from \in Slots
      BY <2>3 DEF BoundFor, Mode
    <3>2. run.from \in Slots => run.from # run.m
      BY <2>3, PlacesAssumption DEF BoundFor
    <3>3. rec[run.m].state \in {"none", "held", "stopped", "fault"}
      BY <2>3 DEF BoundFor, ScriptInv, Types, ScriptTypeOK, Records
    <3> QED BY <2>5, <3>1, <3>2, <3>3 DEF Where
  <2>8. run.kind \in Kinds /\ run.kind # "resume"
    BY <2>3 DEF BoundFor, Mode, Kinds
  <2> QED BY <2>2, <2>3, <2>5, <2>6, <2>7, <2>8 DEF InHandInv, BoundFor, Where
<1>2. CASE Verify
  <2>1. /\ run.kind = "resume" /\ run.m \in Materials /\ ckpt[run.m] # Nothing
        /\ CanResume(ckpt[run.m]) /\ UNCHANGED <<rec, ckpt>>
    BY <1>2 DEF Verify, ScriptInv, ProcessInv
  <2>2. run' = [run EXCEPT !.at = "rebind", !.to = Target(run.m), !.k = Resumable,
                           !.aim = ckpt[run.m].aim]
    BY <1>2 DEF Verify
  <2>3. /\ run'.m = run.m /\ run'.kind = run.kind /\ run'.to = Target(run.m)
        /\ run'.aim = ckpt[run.m].aim
    BY <1>0, <2>2 DEF RunRecords
  <2>4. /\ rec[run.m].state = "stopped" /\ ckpt[run.m].to \in {Nothing, rec[run.m].at}
        /\ ckpt[run.m].mode # "return" /\ ckpt[run.m].aim = rec[run.m].at
    BY <2>1 DEF ScriptInv, CheckpointInv, Matches, CanResume
  <2>5. rec[run.m].at \in Places
    BY <2>1, <2>4 DEF ScriptInv, RecordInv
  <2>6. Target(run.m) = rec[run.m].at
    BY <2>4, <2>5, NothingIs DEF Target
  <2>7. "resume" \notin Kinds
    BY DEF Kinds
  <2> QED BY <2>1, <2>3, <2>4, <2>5, <2>6, <2>7 DEF InHandInv, Plain
<1>3. CASE /\ run.at \in Hand /\ UNCHANGED <<rec, ckpt>>
           /\ run'.m = run.m /\ run'.from = run.from /\ run'.to = run.to
           /\ run'.aim = run.aim /\ run'.kind = run.kind
  BY <1>3 DEF ScriptInv, InHandInv, Plain, BoundFor, Where
<1> QED BY <1>1, <1>2, <1>3, Kept

(* Every step keeps the records and the checkpoints together.              *)
LEMMA FilesNext == ASSUME ScriptInv, [ScriptNext]_scriptVars PROVE RecordInv' /\ CheckpointInv'
<1>0. /\ Types /\ RecordInv /\ CheckpointInv
      /\ rec \in [Materials -> Records] /\ ckpt \in [Materials -> Checkpoints \cup {Nothing}]
  BY DEF ScriptInv, Types, ScriptTypeOK
<1>1. CASE Record
  <2>0. /\ run.at = "record" /\ run.m \in Materials /\ run.to \in Places
        /\ run.kind \in Kinds \cup {"resume"} /\ run.ok \in BOOLEAN
    BY <1>1 DEF Record, ScriptInv, InHandInv, Hand, Types, RunRecords
  <2>1. CASE run.kind = "resume"
    <3>1. /\ rec' = [rec EXCEPT ![run.m] = ResumedRecord]
          /\ ckpt' = [ckpt EXCEPT ![run.m] = run.cp]
      BY <1>1, <2>1 DEF Record
    <3>2. ckpt[run.m] # Nothing /\ run.to = rec[run.m].at /\ rec[run.m].state = "stopped"
      BY <2>0, <2>1, <1>0 DEF ScriptInv, InHandInv, Hand, CheckpointInv, Matches
    <3>3. run.cp # Nothing => /\ run.seen # Nothing /\ run.cp.aim = run.to /\ run.cp.to = Nothing
      BY <2>0, <2>1 DEF ScriptInv, CaptureInv, Hand
    <3>4. run.ok => run.seen = Nothing
      BY <2>0 DEF ScriptInv, OutcomeInv, Finished
    <3>5. /\ ResumedRecord.state = "none" => ResumedRecord = NoRecord
          /\ ResumedRecord.state # "none" => ResumedRecord.at \in Places
          /\ ResumedRecord.bound \in {Nothing, ResumedRecord.at}
          /\ ResumedRecord.state = "held" => ResumedRecord.bound = Nothing
      BY <1>0, <2>0, <3>2 DEF ResumedRecord, Left, NoRecord, Carry, RecordInv
    <3>6. run.cp # Nothing => Matches(run.cp, ResumedRecord)
      BY <2>0, <3>2, <3>3, <3>4 DEF ResumedRecord, Left, Carry, Stopped, Matches
    <3> QED BY <1>0, <2>0, <3>1, <3>5, <3>6 DEF RecordInv, CheckpointInv
  <2>2. CASE run.kind \in Kinds
    <3>1. /\ rec' = [rec EXCEPT ![run.m] = NextRecord]
          /\ ckpt' \in {ckpt, [ckpt EXCEPT ![run.m] = Nothing]}
      BY <1>1, <2>2 DEF Record, Kinds
    <3>2. /\ ckpt[run.m] = Nothing /\ run.from \in Places /\ run.from # Nothing
          /\ run.kind = "return" => rec[run.m].state = "held"
          /\ rec[run.m].state \in {"none", "held"}
      BY <2>0, <2>2, NothingIs DEF ScriptInv, InHandInv, Hand, Plain, BoundFor, Where, Types,
                                ScriptTypeOK, Records
    <3>3. /\ NextRecord.state = "none" => NextRecord = NoRecord
          /\ NextRecord.state # "none" => NextRecord.at \in Places
          /\ NextRecord.bound \in {Nothing, NextRecord.at}
          /\ NextRecord.state = "held" => NextRecord.bound = Nothing
      BY <1>0, <2>0, <2>2, <3>2 DEF NextRecord, Left, NoRecord, RecordInv, Kinds
    <3>4. ckpt'[run.m] = Nothing
      BY <1>0, <2>0, <3>1, <3>2
    <3> QED BY <1>0, <2>0, <3>1, <3>3, <3>4 DEF RecordInv, CheckpointInv
  <2> QED BY <2>0, <2>1, <2>2
<1>2. CASE RecordCheckpoint
  <2>1. /\ run.m \in Materials /\ Matches(run.cp, rec[run.m]) /\ rec' = rec
        /\ ckpt' = [ckpt EXCEPT ![run.m] = run.cp]
    BY <1>2 DEF RecordCheckpoint, ScriptInv, ProcessInv
  <2> QED BY <1>0, <2>1 DEF RecordInv, CheckpointInv
<1>3. ASSUME NEW cleared, Forget(cleared) PROVE RecordInv' /\ CheckpointInv'
  <2>1. NoRecord.state = "none" /\ NoRecord.bound = Nothing /\ "none" # "held"
    BY DEF NoRecord
  <2>2. \A m \in Materials : \/ rec'[m] = NoRecord /\ ckpt'[m] = Nothing
                             \/ rec'[m] = rec[m] /\ ckpt'[m] = ckpt[m]
    BY <1>3 DEF Forget, WithoutCheckpoint
  <2> QED BY <1>0, <2>1, <2>2 DEF RecordInv, CheckpointInv
<1>4. CASE MarkRestored \/ Reconcile
  BY <1>3, <1>4 DEF MarkRestored, Reconcile
<1>5. CASE UNCHANGED <<rec, ckpt>>
  BY <1>0, <1>5 DEF RecordInv, CheckpointInv
<1> QED
  BY <1>1, <1>2, <1>4, <1>5
  DEF ScriptNext, Script, scriptVars, files, Begin, BeginRun, AskStop, ReleaseLatch, Sync,
      Refuse,
      LookFails, LookStops, Send, SentStops, SentFails, Reach, Lower, Attach, Detach, Confirm,
      SetLatch, Consume, GiveVerdict, Verify, Rebind, Restore, ClearLatch, GoalEnds, Kill,
      RestartCell

LEMMA CaptureNext == ASSUME ScriptInv, [ScriptNext]_scriptVars PROVE CaptureInv'
<1> SUFFICES ASSUME run'.at \in Hand, run'.cp # Nothing PROVE CaptureInv'
  BY DEF CaptureInv
<1>0. run \in RunRecords /\ NoRun.at = "none" /\ "none" \notin Hand
  BY DEF ScriptInv, Types, NoRun, Hand
<1>1. ~Sync
  <2> SUFFICES ASSUME Sync PROVE FALSE
    OBVIOUS
  <2>1. run' = [run EXCEPT !.at = "look"]
    BY <1>0 DEF Sync, Over
  <2> QED BY <1>0, <2>1 DEF Sync, ScriptInv, ProcessInv, Fresh, RunRecords
<1>2. ~Verify
  <2> SUFFICES ASSUME Verify PROVE FALSE
    OBVIOUS
  <2>1. run' = [run EXCEPT !.at = "rebind", !.to = Target(run.m), !.k = Resumable,
                           !.aim = ckpt[run.m].aim]
    BY DEF Verify
  <2>2. run'.cp = run.cp
    BY <1>0, <2>1 DEF RunRecords
  <2> QED BY <2>2 DEF Verify, ScriptInv, ProcessInv, Fresh
<1>3. CASE Confirm
  <2>1. run.at = "stop" /\ run.seen # Nothing /\ run.seen = run'.seen
    BY <1>0, <1>3 DEF Confirm, ScriptInv, StageInv, Hand, RunRecords
  <2>2. ObjectState # "unknown" /\ run'.cp = Capture
    BY <1>0, <1>3 DEF Confirm, RunRecords
  <2>3. /\ run'.to = run.to /\ run'.aim = run.aim /\ run'.kind = run.kind /\ run'.m = run.m
        /\ run.aim = run.to /\ run.to # Nothing /\ run.kind \in Kinds \cup {"resume"}
        /\ run.kind = "resume" => ckpt[run.m].mode # "return"
    BY <1>3, <2>1, Kept, <1>1, <1>2, NothingIs DEF ScriptInv, InHandInv, Hand
  <2> QED BY <2>1, <2>2, <2>3, CaptureType DEF CaptureInv, Kinds
<1>4. CASE ~Confirm
  <2>1. /\ run.at \in Hand /\ run'.to = run.to /\ run'.kind = run.kind /\ run'.cp = run.cp
        /\ run'.seen = run.seen \/ run'.seen # Nothing
    BY <1>1, <1>2, <1>4, Kept
  <2> QED BY <2>1 DEF ScriptInv, CaptureInv
<1> QED BY <1>3, <1>4

LEMMA UntouchedNext == ASSUME ScriptInv, [ScriptNext]_scriptVars PROVE UntouchedInv'
<1> SUFFICES ASSUME run'.at \in Hand, ~run'.attached, run'.kind \in {"slot_move", "route"}
             PROVE  place'[run'.m] = run'.from \/ (place'[run'.m] = "air" /\ run'.m \in upset')
  BY DEF UntouchedInv
<1>0. /\ run \in RunRecords /\ NoRun.at = "none" /\ "none" \notin Hand
      /\ place \in [Materials -> Spots]
  BY DEF ScriptInv, Types, ScriptTypeOK, NoRun, Hand
<1>1. CASE Sync
  <2>1. /\ run' = [run EXCEPT !.at = "look"] /\ place[run.m] = run.from /\ place' = place
    BY <1>0, <1>1 DEF Sync, Over
  <2> QED BY <1>0, <2>1 DEF RunRecords
<1>2. ~Verify
  <2> SUFFICES ASSUME Verify PROVE FALSE
    OBVIOUS
  <2>1. run' = [run EXCEPT !.at = "rebind", !.to = Target(run.m), !.k = Resumable,
                           !.aim = ckpt[run.m].aim]
    BY DEF Verify
  <2>2. run'.kind = run.kind
    BY <1>0, <2>1 DEF RunRecords
  <2> QED BY <2>2 DEF Verify, ScriptInv, ProcessInv
<1>3. CASE ~Sync
  <2>1. /\ run.at \in Hand /\ run'.m = run.m /\ run'.from = run.from /\ run'.kind = run.kind
        /\ run.m \in Materials
    BY <1>2, <1>3, Kept DEF ScriptInv, InHandInv
  <2>2. ASSUME run'.attached = run.attached
        PROVE  /\ ~run.held /\ ~run.attached /\ (run.at \in {"look", "sent"} => run.k <= 2)
               /\ place[run.m] = run.from \/ (place[run.m] = "air" /\ run.m \in upset)
    <3>1. ~run.attached
      BY <2>2
    <3>2. run.at # "rebind" \/ ~run.held
      BY DEF ScriptInv, ProcessInv, Fresh
    <3> QED BY <2>1, <3>1, <3>2 DEF ScriptInv, UntouchedInv, StageInv, RunRecords, Types
  <2>3. ASSUME run'.attached = run.attached, place' = place, upset \subseteq upset'
        PROVE  place'[run'.m] = run'.from \/ (place'[run'.m] = "air" /\ run'.m \in upset')
    BY <2>1, <2>2, <2>3
  <2>4. ASSUME run'.attached = run.attached, place' = Carried, upset' = upset \cup Dragged
        PROVE  place'[run'.m] = run'.from \/ (place'[run'.m] = "air" /\ run'.m \in upset')
    BY <1>0, <2>1, <2>2, <2>4 DEF Carried, Dragged
  <2>5. CASE Send
    <3>1. run' = [run EXCEPT !.at = "sent"]
      BY <2>5 DEF Send, Goes
    <3>2. run'.attached = run.attached
      BY <1>0, <3>1 DEF RunRecords
    <3> QED BY <2>3, <2>4, <2>5, <3>2 DEF Send
  <2>6. CASE GoalEnds
    BY <2>4, <2>6 DEF GoalEnds
  <2>7. CASE SentStops \/ SentFails
    <3>1. run'.attached = run.attached
      BY <1>0, <2>7 DEF SentStops, SentFails, RunRecords
    <3>2. Stage # "lower"
      <4>1. run.at = "sent"
        BY <2>7 DEF SentStops, SentFails
      <4>2. run.k \in 1..7 /\ run.k <= 2
        BY <1>0, <2>2, <3>1, <4>1 DEF RunRecords
      <4> QED BY <4>2, StageNumbers DEF Stage
    <3> QED BY <2>3, <2>7, <3>1, <3>2 DEF SentStops, SentFails, Halfway
  <2>8. ~Lower
    <3> SUFFICES ASSUME Lower PROVE FALSE
      OBVIOUS
    <3>1. run'.attached = run.attached
      BY <1>0 DEF Lower, Onward, RunRecords
    <3> QED BY <1>0, <2>2, <3>1, StageNumbers DEF Lower, Reached, Stage, RunRecords
  <2>9. CASE Reach
    BY <1>0, <2>3, <2>9 DEF Reach, Onward, RunRecords
  <2>10. CASE Attach
    <3>1. place' = place /\ upset' = upset
      BY <2>10 DEF Attach
    <3>2. CASE Onward([run EXCEPT !.held = TRUE, !.attached = TRUE])
      <4>1. run'.attached
        BY <1>0, <3>2 DEF Onward, RunRecords
      <4> QED BY <4>1
    <3>3. CASE run' = [run EXCEPT !.at = "verdict", !.fault = TRUE]
      BY <1>0, <2>3, <3>1, <3>3 DEF RunRecords
    <3> QED BY <2>10, <3>2, <3>3 DEF Attach
  <2>11. CASE Detach
    <3>1. place' = place /\ upset' = upset
      BY <2>11 DEF Detach
    <3>2. CASE Onward([run EXCEPT !.held = FALSE])
      <4>1. run'.attached = run.attached
        BY <1>0, <3>2 DEF Onward, RunRecords
      <4> QED BY <2>3, <3>1, <4>1
    <3>3. CASE run' = [run EXCEPT !.at = "verdict", !.held = FALSE, !.fault = TRUE]
      BY <1>0, <2>3, <3>1, <3>3 DEF RunRecords
    <3> QED BY <2>11, <3>2, <3>3 DEF Detach
  <2>12. CASE GiveVerdict
    <3>1. \A ok : ~PutsBack(ok)
      BY <2>1 DEF PutsBack
    <3>2. place' = place /\ upset' = upset
      BY <2>12, <3>1 DEF GiveVerdict, cell
    <3>3. run'.attached = run.attached
      BY <1>0, <2>12 DEF GiveVerdict, RunRecords
    <3> QED BY <2>3, <3>2, <3>3
  <2>13. CASE LookFails \/ LookStops \/ Confirm \/ SetLatch \/ Consume
    <3>1. place' = place /\ upset' = upset
      BY <2>13 DEF LookFails, LookStops, Confirm, SetLatch, Consume, cell
    <3>2. LookFails \/ LookStops => run'.attached = run.attached
      BY <1>0 DEF LookFails, LookStops, RunRecords
    <3>3. Confirm \/ SetLatch \/ Consume => run'.attached = run.attached
      BY <1>0 DEF Confirm, SetLatch, Consume, Goes, RunRecords
    <3> QED BY <2>3, <2>13, <3>1, <3>2, <3>3
  <2>14. CASE AskStop \/ UNCHANGED scriptVars
    BY <2>3, <2>14 DEF AskStop, scriptVars, cell
  <2>15. ~Rebind
    BY <2>1 DEF Rebind, ScriptInv, ProcessInv
  <2> QED
    BY <1>2, <1>3, <2>5, <2>6, <2>7, <2>8, <2>9, <2>10, <2>11, <2>12, <2>13, <2>14, <2>15, Kept
    DEF HandStep
<1> QED BY <1>1, <1>3

LEMMA OutcomeNext == ASSUME ScriptInv, [ScriptNext]_scriptVars PROVE OutcomeInv'
<1> SUFFICES ASSUME run'.at = "record" PROVE OutcomeInv'
  BY DEF OutcomeInv
<1>0. /\ run \in RunRecords /\ place \in [Materials -> Spots]
      /\ "record" \in Hand /\ run'.at \in Hand /\ NoRun.at = "none"
  BY DEF ScriptInv, Types, ScriptTypeOK, Hand, NoRun
<1>1. CASE GiveVerdict
  <2>0. run.at = "verdict" /\ run.m \in Materials /\ run.cp \in Checkpoints \cup {Nothing}
    BY <1>0, <1>1 DEF GiveVerdict, ScriptInv, InHandInv, Hand, RunRecords
  <2>1. PICK ok \in {FALSE, Arrived}, verified \in BOOLEAN :
           /\ run' = [run EXCEPT !.at = "record", !.ok = ok,
                                 !.restored = IF PutsBack(ok) THEN verified ELSE Nothing]
           /\ IF PutsBack(ok) THEN PutBack(run.m, verified) ELSE UNCHANGED <<cell, upset>>
    BY <1>1 DEF GiveVerdict
  <2>2. /\ run'.ok = ok /\ run'.restored = (IF PutsBack(ok) THEN verified ELSE Nothing)
        /\ run'.m = run.m /\ run'.to = run.to /\ run'.kind = run.kind /\ run'.cp = run.cp
        /\ run'.fault = run.fault /\ run'.seen = run.seen
    BY <1>0, <2>1 DEF RunRecords
  <2>3. ckpt' = ckpt
    BY <1>1 DEF GiveVerdict, files
  <2>4. ASSUME run'.ok
        PROVE  Finished' /\ (Unbound' \/ place'[run'.m] = run'.to)
    <3>1. Arrived /\ ok
      <4>1. ok
        BY <2>2, <2>4
      <4>2. ok = FALSE \/ ok = Arrived
        BY <2>1
      <4> QED BY <4>1, <4>2, Zenon
    <3>2. ~PutsBack(ok)
      BY <3>1 DEF PutsBack
    <3>3. place' = place
      BY <2>1, <3>2 DEF cell
    <3>4. Finished /\ (Unbound \/ place[run.m] = run.to)
      BY <3>1 DEF Arrived
    <3> QED BY <2>2, <2>3, <3>3, <3>4 DEF Finished, Unbound
  <2>5. ASSUME run'.restored = TRUE
        PROVE  /\ run'.kind = "forward" /\ run'.cp = Nothing
               /\ place'[run'.m] = run'.m /\ run'.m \notin joined'
    <3>1. PutsBack(ok) /\ verified = TRUE
      BY <2>2, <2>5, NothingIs, Zenon
    <3>2. run.kind = "forward" /\ run.seen = Nothing
      BY <3>1 DEF PutsBack, Stopped
    <3>3. run.cp = Nothing
      BY <2>0, <3>2 DEF ScriptInv, CaptureInv, Hand
    <3>4. PutBack(run.m, TRUE)
      BY <2>1, <3>1
    <3>5. place'[run.m] = run.m /\ run.m \notin joined'
      BY <2>0, <3>4 DEF PutBack, Pushed
    <3> QED BY <2>2, <3>2, <3>3, <3>5
  <2> QED BY <2>4, <2>5 DEF OutcomeInv
<1>2. CASE GoalEnds
  <2>1. run' = run /\ ckpt' = ckpt /\ joined' = joined /\ place' = Carried
    BY <1>2 DEF GoalEnds, files
  <2>2. run.at = "record" /\ run.m \in Materials
    BY <1>0, <2>1 DEF ScriptInv, InHandInv
  <2>3. run.ok \/ run.restored = TRUE => run.m \notin joined
    BY <2>2 DEF ScriptInv, OutcomeInv, StageInv, Hand
  <2>4. run.m \notin joined => place'[run.m] = place[run.m]
    BY <2>1, <2>2 DEF Carried
  <2> QED BY <2>1, <2>2, <2>3, <2>4 DEF ScriptInv, OutcomeInv, Finished, Unbound
<1>3. CASE AskStop \/ UNCHANGED scriptVars
  <2>1. UNCHANGED <<run, ckpt, place, joined>>
    BY <1>3 DEF AskStop, scriptVars, cell, files
  <2> QED BY <2>1 DEF ScriptInv, OutcomeInv, Finished, Unbound
(* No other step leads to the record.                                      *)
<1>4. GiveVerdict \/ GoalEnds \/ AskStop \/ UNCHANGED scriptVars
  <2>1. \A r \in RunRecords : ~Onward(r)
    BY DEF Onward, RunRecords
  <2>2. [run EXCEPT !.held = TRUE, !.attached = TRUE] \in RunRecords
    BY <1>0 DEF RunRecords
  <2>3. [run EXCEPT !.held = FALSE] \in RunRecords
    BY <1>0 DEF RunRecords
  <2>4. ~(Reach \/ Lower)
    BY <1>0, <2>1 DEF Reach, Lower
  <2>5. ~Attach
    BY <1>0, <2>1, <2>2 DEF Attach, RunRecords
  <2>6. ~Detach
    BY <1>0, <2>1, <2>3 DEF Detach, RunRecords
  <2>7. ~(LookFails \/ LookStops \/ Send \/ SentStops \/ SentFails \/ Confirm \/ SetLatch
            \/ Consume)
    BY <1>0 DEF LookFails, LookStops, Send, SentStops, SentFails, Confirm, SetLatch, Consume,
                Goes, RunRecords
  <2>8. ~(Verify \/ Rebind)
    BY <1>0 DEF Verify, Rebind, RunRecords
  <2>9. ~Sync
    BY <1>0 DEF Sync, Over, RunRecords
  <2> QED BY <1>0, <2>4, <2>5, <2>6, <2>7, <2>8, <2>9, Kept DEF HandStep
<1> QED BY <1>1, <1>2, <1>3, <1>4

LEMMA SceneNext == ASSUME ScriptInv, [ScriptNext]_scriptVars PROVE SceneInv'
<1> DEFINE Seeing == {"rebind", "look", "sent", "stop"}
<1> SUFFICES ASSUME run'.at \in Seeing
             PROVE  \A x \in Materials \ ({run'.m} \cup joined') : scene'[x] = place'[x]
  BY DEF SceneInv
<1>0. /\ run \in RunRecords /\ run'.at \in Hand /\ NoRun.at = "none"
      /\ place \in [Materials -> Spots] /\ joined \subseteq Materials
  BY DEF ScriptInv, Types, ScriptTypeOK, Hand, NoRun
<1>1. CASE Sync
  BY <1>1 DEF Sync, SyncedScene
<1>2. CASE Verify
  <2>1. run' = [run EXCEPT !.at = "rebind", !.to = Target(run.m), !.k = Resumable,
                           !.aim = ckpt[run.m].aim]
    BY <1>2 DEF Verify
  <2>2. run'.m = run.m
    BY <1>0, <2>1 DEF RunRecords
  <2> QED BY <1>2, <2>2 DEF Verify, InScene, cell
<1>3. CASE ~Sync /\ ~Verify
  <2>1. run.at \in Hand /\ run'.m = run.m /\ run.m \in Materials
    BY <1>0, <1>3, Kept DEF ScriptInv, InHandInv
  <2>2. ASSUME run.at \in Seeing, UNCHANGED <<scene, joined>>,
               \A x \in Materials \ ({run.m} \cup joined) : place'[x] = place[x]
        PROVE  \A x \in Materials \ ({run'.m} \cup joined') : scene'[x] = place'[x]
    BY <2>1, <2>2 DEF ScriptInv, SceneInv
  <2>3. CASE Send \/ GoalEnds
    <3>1. /\ UNCHANGED <<scene, joined>> /\ place' \in {place, Carried}
          /\ run.at = "look" \/ run' = run
      BY <2>3 DEF Send, GoalEnds
    <3> QED BY <2>2, <3>1 DEF Carried
  <2>4. CASE SentStops \/ SentFails \/ Lower
    <3>1. UNCHANGED <<scene, joined>> /\ run.at = "sent"
      BY <2>4 DEF SentStops, SentFails, Lower, Reached
    <3>2. \A x \in Materials \ {run.m} : place'[x] = place[x]
      BY <1>0, <2>4 DEF SentStops, SentFails, Lower, Halfway
    <3> QED BY <2>2, <3>1, <3>2
  <2>5. CASE Attach \/ Detach
    <3>1. UNCHANGED <<scene, place>> /\ run.at = "sent"
      BY <2>5 DEF Attach, Detach, Reached
    <3>2. Materials \ ({run.m} \cup joined') \subseteq Materials \ ({run.m} \cup joined)
      BY <2>5 DEF Attach, Detach
    <3> QED BY <2>1, <3>1, <3>2 DEF ScriptInv, SceneInv
  <2>6. CASE LookFails \/ LookStops \/ Reach \/ Rebind
    <3>1. UNCHANGED <<scene, place, joined>> /\ run.at \in Seeing
      BY <2>6 DEF LookFails, LookStops, Reach, Rebind, Reached, cell
    <3> QED BY <2>2, <3>1
  <2>7. CASE AskStop \/ UNCHANGED scriptVars
    BY <2>2, <2>7 DEF AskStop, scriptVars, cell
  <2>8. ~(Confirm \/ SetLatch \/ Consume \/ GiveVerdict)
    BY <1>0 DEF Confirm, SetLatch, Consume, GiveVerdict, Goes, RunRecords
  <2> QED BY <1>0, <1>3, <2>3, <2>4, <2>5, <2>6, <2>7, <2>8, Kept DEF HandStep
<1> QED BY <1>1, <1>2, <1>3

LEMMA StageNext == ASSUME ScriptInv, [ScriptNext]_scriptVars PROVE StageInv'
<1> SUFFICES ASSUME run'.at \in Hand \ {"rebind"} PROVE StageInv'
  BY DEF StageInv
<1>0. /\ run \in RunRecords /\ run'.at \in Hand /\ NoRun.at = "none" /\ "none" \notin Hand
      /\ joined \subseteq Materials /\ Len(RunStages) = 7 /\ Resumable = 4
  BY StageNumbers DEF ScriptInv, Types, ScriptTypeOK, Hand, NoRun
<1>1. CASE Sync
  <2>1. run' = [run EXCEPT !.at = "look"]
    BY <1>0, <1>1 DEF Sync, Over
  <2>2. BoundFor /\ Fresh(1) /\ run.kind # "resume"
    BY <1>1 DEF Sync, ScriptInv, ProcessInv, BoundFor, Mode
  <2>3. /\ run'.at = "look" /\ run'.held = run.held /\ run'.attached = run.attached
        /\ run'.fault = run.fault /\ run'.seen = run.seen /\ run'.cp = run.cp
        /\ run'.k = run.k /\ run'.kind = run.kind
    BY <1>0, <2>1 DEF RunRecords
  <2> QED BY <1>0, <2>2, <2>3 DEF StageInv, Fresh
<1>2. ~Verify
  <2> SUFFICES ASSUME Verify PROVE FALSE
    OBVIOUS
  <2>1. run' = [run EXCEPT !.at = "rebind", !.to = Target(run.m), !.k = Resumable,
                           !.aim = ckpt[run.m].aim]
    BY DEF Verify
  <2> QED BY <1>0, <2>1 DEF RunRecords
<1>3. CASE ~Sync
  <2>0. HandStep /\ run.at \in Hand /\ run'.m = run.m /\ run'.kind = run.kind
    BY <1>0, <1>2, <1>3, Kept
  <2>1. CASE Rebind
    <3>1. run.kind = "resume" /\ Fresh(4)
      BY <1>0, <2>1 DEF Rebind, ScriptInv, ProcessInv
    <3>2. CASE run' = [run EXCEPT !.at = "look", !.held = TRUE, !.attached = TRUE]
      <4>1. /\ run'.at = "look" /\ run'.held = TRUE /\ run'.attached = TRUE
            /\ run'.fault = run.fault /\ run'.seen = run.seen /\ run'.cp = run.cp
            /\ run'.k = run.k
        BY <1>0, <3>2 DEF RunRecords
      <4> QED BY <1>0, <3>1, <4>1 DEF StageInv, Fresh
    <3>3. CASE run' = [run EXCEPT !.at = "verdict", !.fault = TRUE]
      <4>1. /\ run'.at = "verdict" /\ run'.fault = TRUE /\ run'.held = run.held /\ run'.k = run.k
        BY <1>0, <3>3 DEF RunRecords
      <4> QED BY <1>0, <3>1, <4>1 DEF StageInv, Fresh, Finished
    <3> QED BY <2>1, <3>2, <3>3 DEF Rebind
  <2>2. ASSUME run.at # "rebind"
        PROVE  /\ run.held => run.attached
               /\ run.kind = "resume" => run.k >= 4
               /\ run.at \in {"look", "sent"} =>
                     /\ ~run.fault /\ run.seen = Nothing
                     /\ run.k > 2 => run.attached
                     /\ run.k > 6 => ~run.held /\ run.m \notin joined
               /\ run.at \in {"look", "sent", "stop"} => run.k <= 7 /\ run.cp = Nothing
               /\ run.at \in {"stop", "latch", "consume"} => run.seen # Nothing
               /\ run.at \in {"verdict", "record"} /\ Finished =>
                     run.k > 7 /\ ~run.held /\ run.m \notin joined
    BY <1>0, <2>0, <2>2 DEF ScriptInv, StageInv
  <2>3. CASE LookFails \/ SentFails
    <3>1. /\ run.at \in {"look", "sent"} /\ joined' = joined
          /\ run' = [run EXCEPT !.at = "verdict", !.fault = TRUE]
      BY <2>3 DEF LookFails, SentFails, cell
    <3>2. /\ run'.at = "verdict" /\ run'.fault = TRUE /\ run'.held = run.held
          /\ run'.attached = run.attached /\ run'.k = run.k
      BY <1>0, <3>1 DEF RunRecords
    <3> QED BY <1>0, <2>0, <2>2, <3>1, <3>2 DEF StageInv, Finished
  <2>4. CASE LookStops \/ SentStops
    <3>1. /\ run.at \in {"look", "sent"} /\ request # Nothing
          /\ run' = [run EXCEPT !.at = "stop", !.seen = request]
      BY <2>4 DEF LookStops, SentStops, Noticed, Requested
    <3>2. /\ run'.at = "stop" /\ run'.seen = request /\ run'.held = run.held
          /\ run'.attached = run.attached /\ run'.k = run.k /\ run'.cp = run.cp
      BY <1>0, <3>1 DEF RunRecords
    <3> QED BY <1>0, <2>0, <2>2, <3>1, <3>2 DEF StageInv
  <2>5. CASE Send \/ SetLatch \/ Consume \/ Confirm
    <3> DEFINE Steady == /\ run'.held = run.held /\ run'.attached = run.attached
                         /\ run'.k = run.k /\ run'.seen = run.seen /\ run'.fault = run.fault
    <3>1. \/ run.at = "look" /\ run'.at = "sent" /\ run'.cp = run.cp
          \/ run.at = "stop" /\ run'.at = "latch"
          \/ run.at = "latch" /\ run'.at = "consume"
          \/ run.at = "consume" /\ run'.at = "verdict"
      <4>1. Send => run.at = "look" /\ run'.at = "sent" /\ run'.cp = run.cp
        BY <1>0 DEF Send, Goes, RunRecords
      <4>2. Confirm => run.at = "stop" /\ run'.at = "latch"
        BY <1>0 DEF Confirm, RunRecords
      <4>3. SetLatch => run.at = "latch" /\ run'.at = "consume"
        BY <1>0 DEF SetLatch, Goes, RunRecords
      <4>4. Consume => run.at = "consume" /\ run'.at = "verdict"
        BY <1>0 DEF Consume, Goes, RunRecords
      <4> QED BY <2>5, <4>1, <4>2, <4>3, <4>4
    <3>2. Steady
      <4>1. Send \/ SetLatch \/ Consume => \E at : Goes(at)
        BY DEF Send, SetLatch, Consume
      <4>2. Confirm => \E cp : run' = [run EXCEPT !.at = "latch", !.cp = cp]
        BY DEF Confirm
      <4>3. ASSUME NEW at, Goes(at) PROVE Steady
        BY <1>0, <4>3 DEF Goes, RunRecords
      <4>4. ASSUME NEW cp, run' = [run EXCEPT !.at = "latch", !.cp = cp] PROVE Steady
        BY <1>0, <4>4 DEF RunRecords
      <4> QED BY <2>5, <4>1, <4>2, <4>3, <4>4
    <3>3. joined' = joined
      BY <2>5 DEF Send, SetLatch, Consume, Confirm, cell
    <3> QED BY <1>0, <2>0, <2>2, <3>1, <3>2, <3>3 DEF StageInv, Finished
  <2>6. ASSUME NEW r \in RunRecords, Onward(r), r.k = run.k, r.fault = run.fault,
               r.seen = run.seen, r.cp = run.cp, run.at = "sent", r.held => r.attached,
               run.k >= 2 => r.attached,
               run.k >= 6 => ~r.held /\ run.m \notin joined'
        PROVE  StageInv'
    <3>1. /\ run'.at = IF run.k = 7 THEN "verdict" ELSE "look"
          /\ run'.k = run.k + 1 /\ run'.fault = run.fault /\ run'.seen = run.seen
          /\ run'.cp = run.cp /\ run'.held = r.held /\ run'.attached = r.attached
      BY <1>0, <2>6 DEF Onward, RunRecords
    <3>2. run.k \in 1..7 /\ ~run.fault /\ run.seen = Nothing /\ run.cp = Nothing
      BY <1>0, <2>2, <2>6 DEF RunRecords
    <3>3. run.kind = "resume" => run.k >= 4
      BY <2>2, <2>6
    <3> QED BY <1>0, <2>0, <2>6, <3>1, <3>2, <3>3 DEF StageInv, Finished
  <2>7. CASE Reach \/ Lower
    <3>1. /\ run.at = "sent" /\ Onward(run) /\ joined' = joined
          /\ Stage \in {"approach", "lift", "place_approach", "home", "lower"}
      BY <2>7 DEF Reach, Lower, Reached
    <3>2. run.k \in {1, 3, 4, 5, 7}
      <4>1. run.k \in 1..7
        BY <1>0, <2>2, <3>1 DEF RunRecords
      <4> QED BY <3>1, <4>1, StageNumbers DEF Stage
    <3>3. /\ run.held => run.attached
          /\ run.k > 2 => run.attached
          /\ run.k > 6 => ~run.held /\ run.m \notin joined
      BY <2>2, <3>1
    <3> QED BY <1>0, <2>6, <3>1, <3>2, <3>3
  <2>8. CASE Attach
    <3>1. run.at = "sent" /\ Stage = "close"
      BY <2>8 DEF Attach, Reached
    <3>2. run.k = 2
      <4>1. run.k \in 1..7
        BY <1>0, <2>2, <3>1 DEF RunRecords
      <4> QED BY <3>1, <4>1, StageNumbers DEF Stage
    <3>3. CASE Onward([run EXCEPT !.held = TRUE, !.attached = TRUE])
      <4> DEFINE r == [run EXCEPT !.held = TRUE, !.attached = TRUE]
      <4>1. /\ r.k = run.k /\ r.fault = run.fault /\ r.seen = run.seen /\ r.cp = run.cp
            /\ r.attached
        BY <1>0 DEF RunRecords
      <4>2. r \in RunRecords
        BY <1>0 DEF RunRecords
      <4>3. Onward(r)
        BY <3>3
      <4> HIDE DEF r
      <4> QED BY <2>6, <3>1, <3>2, <4>1, <4>2, <4>3
    <3>4. CASE run' = [run EXCEPT !.at = "verdict", !.fault = TRUE]
      <4>1. /\ run'.at = "verdict" /\ run'.fault = TRUE /\ run'.held = run.held
            /\ run'.attached = run.attached /\ run'.k = run.k
        BY <1>0, <3>4 DEF RunRecords
      <4> QED BY <1>0, <2>0, <2>2, <3>1, <4>1 DEF StageInv, Finished
    <3> QED BY <2>8, <3>3, <3>4 DEF Attach
  <2>9. CASE Detach
    <3>1. run.at = "sent" /\ Stage = "open"
      BY <2>9 DEF Detach, Reached
    <3>2. run.k = 6 /\ run.attached
      <4>1. run.k \in 1..7
        BY <1>0, <2>2, <3>1 DEF RunRecords
      <4> QED BY <2>2, <3>1, <4>1, StageNumbers DEF Stage
    <3>3. CASE Onward([run EXCEPT !.held = FALSE]) /\ joined' = joined \ {run.m}
      <4> DEFINE r == [run EXCEPT !.held = FALSE]
      <4>1. /\ r.k = run.k /\ r.fault = run.fault /\ r.seen = run.seen /\ r.cp = run.cp
            /\ r.attached = run.attached /\ ~r.held
        BY <1>0 DEF RunRecords
      <4>2. r \in RunRecords
        BY <1>0 DEF RunRecords
      <4>3. Onward(r)
        BY <3>3
      <4> HIDE DEF r
      <4> QED BY <2>6, <3>1, <3>2, <3>3, <4>1, <4>2, <4>3
    <3>4. CASE run' = [run EXCEPT !.at = "verdict", !.held = FALSE, !.fault = TRUE]
      <4>1. /\ run'.at = "verdict" /\ run'.fault = TRUE /\ run'.held = FALSE
            /\ run'.k = run.k
        BY <1>0, <3>4 DEF RunRecords
      <4> QED BY <1>0, <2>0, <2>2, <3>1, <4>1 DEF StageInv, Finished
    <3> QED BY <2>9, <3>3, <3>4 DEF Detach
  <2>10. CASE GiveVerdict
    <3>1. /\ run.at = "verdict" /\ run'.at = "record" /\ run'.held = run.held
          /\ run'.attached = run.attached /\ run'.k = run.k /\ run'.fault = run.fault
          /\ run'.seen = run.seen
      BY <1>0, <2>10 DEF GiveVerdict, RunRecords
    <3>2. joined' \subseteq joined
      BY <1>0, <2>10 DEF GiveVerdict, PutBack, cell
    <3> QED BY <1>0, <2>0, <2>2, <3>1, <3>2 DEF StageInv, Finished
  <2>11. CASE AskStop \/ GoalEnds \/ UNCHANGED scriptVars
    <3>1. run' = run /\ joined' = joined
      BY <2>11 DEF AskStop, GoalEnds, scriptVars, cell
    <3> QED BY <3>1 DEF ScriptInv, StageInv, Finished
  <2> QED
    BY <2>0, <2>1, <2>3, <2>4, <2>5, <2>7, <2>8, <2>9, <2>10, <2>11 DEF HandStep
<1> QED BY <1>1, <1>3

LEMMA ProcessNext == ASSUME ScriptInv, [ScriptNext]_scriptVars PROVE ProcessInv'
<1>0. /\ run \in RunRecords /\ joined \subseteq Materials /\ place \in [Materials -> Spots]
      /\ Resumable = 4 /\ rec \in [Materials -> Records]
  BY StageNumbers DEF ScriptInv, Types, ScriptTypeOK
<1>1. ASSUME run'.at \in Hand \ {"rebind"} PROVE ProcessInv'
  BY <1>1 DEF ProcessInv, NoScript, Hand
<1>2. ASSUME NEW at \in {"none", "dead"}, run' = [NoRun EXCEPT !.at = at] PROVE ProcessInv'
  <2>1. /\ run'.at = at /\ run'.m = Nothing /\ run'.k = 1 /\ run'.held = FALSE
        /\ run'.attached = FALSE /\ run'.fault = FALSE /\ run'.seen = Nothing /\ run'.cp = Nothing
    BY <1>2 DEF NoRun
  <2> QED BY <1>2, <2>1 DEF ProcessInv, NoScript, Fresh
<1>3. ASSUME Over PROVE ProcessInv'
  <2>1. /\ run'.at = "none" /\ run'.m = Nothing /\ run'.k = 1 /\ run'.held = FALSE
        /\ run'.attached = FALSE /\ run'.fault = FALSE /\ run'.seen = Nothing /\ run'.cp = Nothing
    BY <1>3 DEF Over, NoRun
  <2> QED BY <2>1 DEF ProcessInv, NoScript, Fresh
<1>4. ASSUME NEW kind, NEW at, NEW m, Begin(kind, at, m),
             \/ kind = "resume" /\ at = "verify" /\ m \in Materials
             \/ kind = "restore" /\ at = "restore" /\ m \in Materials
             \/ kind = "reconcile" /\ at = "reconcile" /\ m = Nothing
      PROVE  ProcessInv'
  <2>1. run' = [NoRun EXCEPT !.at = at, !.kind = kind, !.m = m, !.since = stops]
    BY <1>4 DEF Begin
  <2>2. /\ run'.at = at /\ run'.kind = kind /\ run'.m = m /\ run'.k = 1 /\ run'.held = FALSE
        /\ run'.attached = FALSE /\ run'.fault = FALSE /\ run'.seen = Nothing /\ run'.cp = Nothing
    BY <2>1 DEF NoRun
  <2> QED BY <1>4, <2>2 DEF ProcessInv, NoScript, Fresh
<1>5. ASSUME NEW m \in Materials, NEW from \in Places, NEW to \in Places, BeginRun(m, from, to)
      PROVE  ProcessInv'
  <2>1. run' = [NoRun EXCEPT !.at = "entry", !.kind = Mode(m, from, to), !.m = m,
                             !.from = from, !.to = to, !.since = stops, !.aim = to]
    BY <1>5 DEF BeginRun
  <2>2. /\ run'.at = "entry" /\ run'.kind = Mode(m, from, to) /\ run'.m = m
        /\ run'.from = from /\ run'.to = to /\ run'.aim = to /\ run'.k = 1
        /\ run'.held = FALSE /\ run'.attached = FALSE /\ run'.fault = FALSE
        /\ run'.seen = Nothing /\ run'.cp = Nothing
    BY <2>1 DEF NoRun
  <2>3. from # to
    BY <1>5 DEF BeginRun
  <2>4. Mode(m, from, to)' = Mode(m, from, to)
    BY DEF Mode
  <2>5. BoundFor' /\ Fresh(1)'
    BY <2>2, <2>3 DEF BoundFor, Fresh, Mode
  <2> QED BY <2>2, <2>5 DEF ProcessInv, NoScript
<1>6. CASE ReleaseLatch
  <2>1. run.at = "entry" /\ run' = [run EXCEPT !.at = "sync"]
    BY <1>6 DEF ReleaseLatch
  <2>2. /\ run'.at = "sync" /\ run'.kind = run.kind /\ run'.m = run.m /\ run'.from = run.from
        /\ run'.to = run.to /\ run'.aim = run.aim /\ run'.k = run.k /\ run'.held = run.held
        /\ run'.attached = run.attached /\ run'.fault = run.fault /\ run'.seen = run.seen
        /\ run'.cp = run.cp
    BY <1>0, <2>1 DEF RunRecords
  <2>3. BoundFor /\ Fresh(1)
    BY <2>1 DEF ScriptInv, ProcessInv
  <2>4. BoundFor' /\ Fresh(1)'
    BY <2>2, <2>3 DEF BoundFor, Fresh, Mode
  <2> QED BY <2>2, <2>4 DEF ProcessInv, NoScript
<1>7. CASE Verify
  <2>1. /\ run.at = "verify"
        /\ run' = [run EXCEPT !.at = "rebind", !.to = Target(run.m), !.k = Resumable,
                              !.aim = ckpt[run.m].aim]
    BY <1>7 DEF Verify
  <2>2. /\ run'.at = "rebind" /\ run'.kind = run.kind /\ run'.k = Resumable
        /\ run'.held = run.held /\ run'.attached = run.attached /\ run'.fault = run.fault
        /\ run'.seen = run.seen /\ run'.cp = run.cp
    BY <1>0, <2>1 DEF RunRecords
  <2>3. run.kind = "resume" /\ Fresh(1)
    BY <2>1 DEF ScriptInv, ProcessInv
  <2> QED BY <1>0, <2>2, <2>3 DEF ProcessInv, NoScript, Fresh
<1>8. CASE Restore
  <2>0. run.at = "restore" /\ run.kind = "restore" /\ run.m \in Materials /\ Fresh(1)
    BY <1>8 DEF Restore, ScriptInv, ProcessInv
  <2>1. CASE PutBack(run.m, TRUE) /\ Goes("mark")
    <3>1. /\ run'.at = "mark" /\ run'.kind = run.kind /\ run'.m = run.m /\ run'.k = run.k
          /\ run'.held = run.held /\ run'.attached = run.attached /\ run'.fault = run.fault
          /\ run'.seen = run.seen /\ run'.cp = run.cp
      BY <1>0, <2>1 DEF Goes, RunRecords
    <3>2. place'[run.m] = run.m /\ run.m \notin joined'
      BY <2>0, <2>1 DEF PutBack, Pushed
    <3> QED BY <2>0, <3>1, <3>2 DEF ProcessInv, NoScript, Fresh
  <2> QED BY <1>3, <1>8, <2>1 DEF Restore
<1>9. ASSUME NEW m \in Materials, Fresh(1), ClearsNext(m) PROVE ProcessInv'
  <2>1. CASE run' = [run EXCEPT !.at = "clear", !.m = m]
    <3>1. /\ run'.at = "clear" /\ run'.m = m /\ run'.k = run.k
          /\ run'.held = run.held /\ run'.attached = run.attached /\ run'.fault = run.fault
          /\ run'.seen = run.seen /\ run'.cp = run.cp
      BY <1>0, <2>1 DEF RunRecords
    <3> QED BY <1>9, <3>1 DEF ProcessInv, NoScript, Fresh
  <2> QED BY <1>3, <1>9, <2>1 DEF ClearsNext
<1>10. CASE MarkRestored
  <2>1. run.m \in Materials /\ Fresh(1) /\ ClearsNext(run.m)
    BY <1>10 DEF MarkRestored, ScriptInv, ProcessInv
  <2> QED BY <1>9, <2>1
<1>11. CASE Reconcile
  <2>1. Fresh(1)
    BY <1>11 DEF Reconcile, ScriptInv, ProcessInv
  <2> QED BY <1>3, <1>9, <1>11, <2>1 DEF Reconcile
<1>12. CASE Record
  <2>1. CASE Over
    BY <1>3, <2>1
  <2>2. CASE ~Over
    <3>0. /\ run.at = "record" /\ run.m \in Materials /\ run.to \in Places
          /\ run.kind \in Kinds \cup {"resume"} /\ run.kind # "resume" /\ run.cp # Nothing
          /\ rec' = [rec EXCEPT ![run.m] = NextRecord] /\ Goes("checkpoint")
      BY <1>12, <2>2 DEF Record, ScriptInv, InHandInv, Hand
    <3>1. /\ run'.at = "checkpoint" /\ run'.kind = run.kind /\ run'.m = run.m
          /\ run'.cp = run.cp /\ run'.k = run.k
      BY <1>0, <3>0 DEF Goes, RunRecords
    <3>2. /\ run.seen # Nothing /\ run.cp.aim = run.to /\ run.cp.to \in {Nothing, run.to}
          /\ run.kind = "return" => run.cp.to = Nothing /\ run.cp.mode = "return"
      BY <3>0 DEF ScriptInv, CaptureInv, Hand
    <3>3. run.ok = FALSE /\ run.restored # TRUE
      <4>1. run.ok => run.seen = Nothing
        BY <3>0 DEF ScriptInv, OutcomeInv, Finished
      <4>2. run.ok \in BOOLEAN
        BY <1>0 DEF RunRecords
      <4> QED BY <3>0, <3>2, <4>1, <4>2 DEF ScriptInv, OutcomeInv
    <3>4. /\ NextRecord.state = "stopped"
          /\ run.kind # "return" => NextRecord.at = run.to
      BY <3>0, <3>2, <3>3 DEF NextRecord, Stopped, Left, Kinds
    <3>5. Matches(run.cp, NextRecord)
      BY <3>0, <3>2, <3>4 DEF Matches
    <3>6. Matches(run'.cp, rec'[run'.m])
      BY <1>0, <3>0, <3>1, <3>5
    <3> QED BY <3>0, <3>1, <3>6 DEF ProcessInv, NoScript, Plain, Matches
  <2> QED BY <2>1, <2>2
<1>13. CASE Kill
  BY <1>2, <1>13 DEF Kill
<1>14. CASE AskStop \/ GoalEnds \/ RestartCell \/ UNCHANGED scriptVars
  <2>1. run' = run /\ rec' = rec
    BY <1>14 DEF AskStop, GoalEnds, RestartCell, scriptVars, files
  <2>2. run.at = "mark" => /\ place'[run.m] = place[run.m]
                           /\ run.m \in joined' <=> run.m \in joined
    <3>1. CASE run.at = "mark"
      <4>1. run.m \in Materials /\ run.m \notin joined
        BY <3>1 DEF ScriptInv, ProcessInv
      <4>2. ~RestartCell
        BY <3>1 DEF RestartCell, NoScript
      <4> QED BY <1>14, <4>1, <4>2 DEF AskStop, GoalEnds, Carried, scriptVars, cell
    <3> QED BY <3>1
  <2> QED BY <2>1, <2>2 DEF ScriptInv, ProcessInv, NoScript, Fresh, BoundFor, Mode, Plain
<1>15. CASE LookFails \/ LookStops \/ Send \/ SentStops \/ SentFails \/ Reach \/ Lower
            \/ Attach \/ Detach \/ Confirm \/ SetLatch \/ Consume \/ GiveVerdict \/ Rebind
  <2>1. \A r \in RunRecords : Onward(r) => run'.at \in {"verdict", "look"}
    BY DEF Onward, RunRecords
  <2>2. [run EXCEPT !.held = TRUE, !.attached = TRUE] \in RunRecords
    BY <1>0 DEF RunRecords
  <2>3. [run EXCEPT !.held = FALSE] \in RunRecords
    BY <1>0 DEF RunRecords
  <2>4. CASE Reach \/ Lower
    BY <1>0, <1>1, <2>1, <2>4 DEF Reach, Lower, Hand
  <2>5. CASE Attach
    <3>1. \/ Onward([run EXCEPT !.held = TRUE, !.attached = TRUE])
          \/ run' = [run EXCEPT !.at = "verdict", !.fault = TRUE]
      BY <2>5 DEF Attach
    <3>2. run'.at \in {"verdict", "look"}
      BY <1>0, <2>1, <2>2, <3>1 DEF RunRecords
    <3> QED BY <1>1, <3>2 DEF Hand
  <2>6. CASE Detach
    <3>1. \/ Onward([run EXCEPT !.held = FALSE])
          \/ run' = [run EXCEPT !.at = "verdict", !.held = FALSE, !.fault = TRUE]
      BY <2>6 DEF Detach
    <3>2. run'.at \in {"verdict", "look"}
      BY <1>0, <2>1, <2>3, <3>1 DEF RunRecords
    <3> QED BY <1>1, <3>2 DEF Hand
  <2>7. CASE LookFails \/ LookStops \/ Send \/ SentStops \/ SentFails \/ Confirm \/ SetLatch
             \/ Consume \/ GiveVerdict \/ Rebind
    <3>1. LookFails \/ LookStops \/ Send \/ SentStops \/ SentFails
             => run'.at \in {"verdict", "stop", "sent"}
      BY <1>0 DEF LookFails, LookStops, Send, SentStops, SentFails, Goes, RunRecords
    <3>2. Confirm \/ SetLatch \/ Consume \/ Rebind
             => run'.at \in {"latch", "consume", "verdict", "look"}
      BY <1>0 DEF Confirm, SetLatch, Consume, Rebind, Goes, RunRecords
    <3>3. GiveVerdict => run'.at = "record"
      BY <1>0 DEF GiveVerdict, RunRecords
    <3> QED BY <1>1, <2>7, <3>1, <3>2, <3>3 DEF Hand
  <2> QED BY <1>15, <2>4, <2>5, <2>6, <2>7
<1>16. CASE Sync
  <2>1. Over \/ run' = [run EXCEPT !.at = "look"]
    BY <1>16 DEF Sync
  <2>2. run' = [run EXCEPT !.at = "look"] => run'.at = "look"
    BY <1>0 DEF RunRecords
  <2> QED BY <1>1, <1>3, <2>1, <2>2 DEF Hand
<1>17. CASE Refuse \/ RecordCheckpoint \/ ClearLatch
  BY <1>3, <1>17 DEF Refuse, RecordCheckpoint, ClearLatch
<1> QED
  BY <1>4, <1>5, <1>6, <1>7, <1>8, <1>10, <1>11, <1>12, <1>13, <1>14, <1>15, <1>16, <1>17
  DEF ScriptNext, Script

(* What a record says of its material when it is written.                  *)
LEMMA RecordIsTrue ==
    ASSUME ScriptInv, Record, run.m \notin upset', NEW r, r = rec'[run.m]
    PROVE  \/ r = NoRecord /\ place[run.m] = run.m
           \/ r.state = "held" /\ r.at = place[run.m]
           \/ r.state \in {"stopped", "fault"}
           \/ r = rec[run.m] /\ Where(run.m) = place[run.m]
<1>0. /\ run.at = "record" /\ run.at \in Hand /\ run.m \in Materials /\ run.to \in Places
      /\ run.kind \in Kinds \cup {"resume"} /\ run.to # "air" /\ "resume" \notin Kinds
      /\ rec \in [Materials -> Records]
  BY NothingIs DEF Record, ScriptInv, InHandInv, Hand, Kinds, Types, ScriptTypeOK
<1>1. place[run.m] # run.to => ~Unbound /\ run.m \notin upset
  <2>1. upset' = CASE place[run.m] = run.to -> upset \ {run.m}
                   [] place[run.m] # run.to /\ Unbound -> upset \cup {run.m}
                   [] OTHER -> upset
    BY DEF Record
  <2> QED BY <2>1
<1>2. run.ok => place[run.m] = run.to
  BY <1>0, <1>1 DEF ScriptInv, OutcomeInv
<1>3. run.restored = TRUE => place[run.m] = run.m
  BY <1>0 DEF ScriptInv, OutcomeInv
<1>4. run.kind \in {"slot_move", "route"} /\ ~run.attached => place[run.m] = run.from
  BY <1>0, <1>1 DEF ScriptInv, UntouchedInv
<1>5. CASE run.kind = "resume"
  <2>1. r = ResumedRecord
    BY <1>0, <1>5 DEF Record
  <2>2. run.to = rec[run.m].at /\ rec[run.m].bound \in {Nothing, rec[run.m].at}
    BY <1>0, <1>5 DEF ScriptInv, InHandInv, RecordInv
  <2>3. run.m # Nothing
    BY <1>0, NothingIs
  <2>4. run.ok \in BOOLEAN
    BY DEF ScriptInv, Types, RunRecords
  <2> QED BY <1>0, <1>2, <2>1, <2>2, <2>3, <2>4 DEF ResumedRecord, Carry, Left
<1>6. CASE run.kind \in Kinds
  <2>1. r = NextRecord
    BY <1>0, <1>6 DEF Record
  <2>2. /\ Where(run.m) = run.from /\ run.from \in Places
        /\ run.kind = Mode(run.m, run.from, run.to)
    BY <1>0, <1>6 DEF ScriptInv, InHandInv, Plain, BoundFor
  <2>3. CASE run.kind = "forward"
    BY <1>2, <1>3, <2>1, <2>3 DEF NextRecord, Left
  <2>4. CASE run.kind = "return"
    <3>1. run.to = run.m
      BY <2>2, <2>4 DEF Mode
    <3> QED BY <1>2, <2>1, <2>4, <3>1 DEF NextRecord, Left
  <2>5. CASE run.kind = "slot_move"
    BY <1>2, <1>4, <2>1, <2>2, <2>5 DEF NextRecord, Left
  <2>6. CASE run.kind = "route"
    BY <1>2, <1>4, <2>1, <2>2, <2>6 DEF NextRecord, Left
  <2> QED BY <1>6, <2>3, <2>4, <2>5, <2>6 DEF Kinds
<1> QED BY <1>0, <1>5, <1>6

LEMMA TruthNext == ASSUME ScriptInv, [ScriptNext]_scriptVars PROVE TruthInv'
<1> DEFINE Busy == Hand \cup {"mark"}
<1> DEFINE Goal(m) == \/ m = run'.m /\ run'.at \in Busy
                      \/ Where(m)' # Nothing => place'[m] = Where(m)'
<1>0. /\ run \in RunRecords /\ joined \subseteq Materials /\ upset \subseteq Materials
      /\ place \in [Materials -> Spots] /\ rec \in [Materials -> Records]
  BY DEF ScriptInv, Types, ScriptTypeOK
<1> SUFFICES ASSUME NEW m \in Materials, m \notin upset' PROVE Goal(m)
  BY DEF TruthInv
<1>1. m \notin upset => \/ m = run.m /\ run.at \in Busy
                        \/ Where(m) # Nothing => place[m] = Where(m)
  BY DEF ScriptInv, TruthInv
<1>2. ASSUME rec'[m] = rec[m], place'[m] = place[m], m \notin upset,
             m = run.m /\ run.at \in Busy => m = run'.m /\ run'.at \in Busy
      PROVE  Goal(m)
  BY <1>1, <1>2 DEF Where
<1>3. ASSUME rec'[m] = NoRecord, place'[m] = m PROVE Goal(m)
  BY <1>3 DEF Where, NoRecord
<1>4. ASSUME rec'[m].state \in {"stopped", "fault"} PROVE Goal(m)
  BY <1>4 DEF Where
<1>5. ASSUME run.at \in Hand, run'.at \in Hand, ~Record PROVE m = run.m => Goal(m)
  <2>1. ~Sync /\ ~Verify
    BY <1>5 DEF Sync, Verify, Hand
  <2>2. run'.m = run.m
    BY <1>5, <2>1, Kept
  <2> QED BY <1>5, <2>2
<1>6. CASE Record
  <2>1. /\ run.at = "record" /\ run.m \in Materials /\ place' = place
        /\ \E r : rec' = [rec EXCEPT ![run.m] = r]
        /\ m # run.m => m \notin upset
    BY <1>6 DEF Record, cell, ScriptInv, InHandInv, Hand
  <2>2. CASE m # run.m
    BY <1>0, <1>2, <2>1, <2>2
  <2>3. CASE m = run.m
    <3>1. \/ rec'[m] = NoRecord /\ place[m] = m
          \/ rec'[m].state = "held" /\ rec'[m].at = place[m]
          \/ rec'[m].state \in {"stopped", "fault"}
          \/ rec'[m] = rec[m] /\ Where(m) = place[m]
      BY <1>6, <2>3, RecordIsTrue
    <3>2. ASSUME rec'[m].state = "held", rec'[m].at = place[m] PROVE Goal(m)
      BY <2>1, <3>2 DEF Where
    <3>3. ASSUME rec'[m] = rec[m], Where(m) = place[m] PROVE Goal(m)
      BY <2>1, <3>3 DEF Where
    <3> QED BY <1>3, <1>4, <2>1, <3>1, <3>2, <3>3
  <2> QED BY <2>2, <2>3
<1>7. CASE Send \/ GoalEnds
  <2>1. /\ rec' = rec
        /\ \/ place' = place /\ upset' = upset
           \/ place' = Carried /\ upset' = upset \cup Dragged
    BY <1>7 DEF Send, GoalEnds, files
  <2>2. run'.m = run.m /\ (run.at \in Busy => run'.at \in Busy)
    <3>1. Send => run'.m = run.m /\ run'.at = "sent"
      BY <1>0 DEF Send, Goes, RunRecords
    <3> QED BY <1>7, <3>1 DEF GoalEnds, Hand
  <2>3. CASE place'[m] = place[m]
    BY <1>2, <2>1, <2>2, <2>3
  <2>4. CASE place'[m] # place[m]
    <3>1. m \in joined /\ run.held /\ m = run.m
      BY <2>1, <2>4 DEF Carried, Dragged
    <3>2. run.at \in Hand \cup {"checkpoint"}
      BY <1>0, <3>1 DEF ScriptInv, ProcessInv, NoScript, Fresh, Hand, RunRecords
    <3>3. run.at = "checkpoint" => rec[m].state = "stopped"
      BY <3>1 DEF ScriptInv, ProcessInv, Matches
    <3> QED BY <1>4, <2>1, <2>2, <3>1, <3>2, <3>3
  <2> QED BY <2>3, <2>4
<1>8. CASE SentStops \/ SentFails \/ Lower
  <2>1. /\ run.at = "sent" /\ rec' = rec /\ upset' = upset
        /\ \A x \in Materials \ {run.m} : place'[x] = place[x]
    BY <1>0, <1>8 DEF SentStops, SentFails, Lower, Reached, Halfway, files
  <2>2. run'.m = run.m /\ run'.at \in Hand
    BY <1>0, <1>8 DEF SentStops, SentFails, Lower, Onward, RunRecords, Hand
  <2> QED BY <1>2, <2>1, <2>2
<1>9. ASSUME NEW verified \in BOOLEAN, PutBack(run.m, verified), m # run.m
      PROVE  place'[m] = place[m] /\ m \notin upset
  BY <1>0, <1>9 DEF PutBack, Pushed
<1>10. CASE GiveVerdict
  <2>1. /\ rec' = rec /\ run'.at = "record" /\ run'.m = run.m
    BY <1>0, <1>10 DEF GiveVerdict, files, RunRecords
  <2>2. PICK ok \in {FALSE, Arrived}, verified \in BOOLEAN :
           IF PutsBack(ok) THEN PutBack(run.m, verified) ELSE UNCHANGED <<cell, upset>>
    BY <1>10 DEF GiveVerdict
  <2>3. CASE m # run.m
    <3>1. place'[m] = place[m] /\ m \notin upset
      BY <1>9, <2>2, <2>3 DEF cell
    <3> QED BY <1>2, <2>1, <2>3, <3>1
  <2> QED BY <2>1, <2>3 DEF Hand
<1>11. CASE Restore
  <2>1. rec' = rec /\ run.at = "restore"
    BY <1>11 DEF Restore, files
  <2>2. CASE m # run.m
    <3>1. place'[m] = place[m] /\ m \notin upset
      <4>1. PutBack(run.m, TRUE) \/ PutBack(run.m, FALSE)
        BY <1>11 DEF Restore
      <4>2. TRUE \in BOOLEAN /\ FALSE \in BOOLEAN
        OBVIOUS
      <4> QED BY <1>9, <2>2, <4>1, <4>2
    <3> QED BY <1>2, <2>1, <2>2, <3>1
  <2>3. CASE m = run.m
    <3>1. Goes("mark")
      BY <1>11, <2>3 DEF Restore, PutBack
    <3>2. run'.at = "mark" /\ run'.m = run.m
      BY <1>0, <3>1 DEF Goes, RunRecords
    <3> QED BY <2>3, <3>2
  <2> QED BY <2>2, <2>3
<1>12. ASSUME NEW cleared, Forget(cleared), \A x \in cleared \cap Materials : place[x] = x,
              run.at \in Busy => run.m \in cleared
       PROVE  Goal(m)
  <2>1. place' = place /\ upset' = upset \ cleared
    BY <1>12 DEF Forget, cell
  <2>2. CASE m \in cleared
    <3>1. rec'[m] = NoRecord
      BY <1>12, <2>2 DEF Forget
    <3> QED BY <1>3, <1>12, <2>1, <2>2, <3>1
  <2>3. CASE m \notin cleared
    <3>1. rec'[m] = rec[m]
      BY <1>12, <2>3 DEF Forget
    <3> QED BY <1>2, <1>12, <2>1, <2>3, <3>1
  <2> QED BY <2>2, <2>3
<1>13. CASE MarkRestored
  <2>1. run.m \in Materials /\ place[run.m] = run.m /\ Forget({run.m})
    BY <1>13 DEF MarkRestored, ScriptInv, ProcessInv
  <2> QED BY <1>12, <2>1
<1>14. CASE Reconcile
  BY <1>12, <1>14 DEF Reconcile, Hand
<1>15. CASE Kill
  <2>1. rec' = rec /\ place' = place /\ upset \subseteq upset' /\ m # run.m
    BY <1>15 DEF Kill, files, cell
  <2> QED BY <1>2, <2>1
<1>16. CASE RestartCell
  <2>1. rec' = rec /\ rec[m] = NoRecord /\ place'[m] = m
    BY <1>16 DEF RestartCell, files
  <2> QED BY <1>3, <2>1
(* The rest moves no material and writes no record.                        *)
<1>17. ASSUME rec' = rec, place' = place, upset' = upset,
              run.at \notin Busy \/ (run'.at \in Busy /\ run'.m = run.m)
       PROVE  Goal(m)
  BY <1>2, <1>17
<1>18. CASE AskStop \/ UNCHANGED scriptVars
  BY <1>17, <1>18 DEF AskStop, scriptVars, cell, files
<1>19. CASE ReleaseLatch \/ Sync \/ Refuse \/ Verify \/ RecordCheckpoint \/ ClearLatch
  BY <1>17, <1>19 DEF ReleaseLatch, Sync, Refuse, Verify, RecordCheckpoint, ClearLatch, Hand,
                      cell, files
<1>20. CASE LookFails \/ LookStops \/ Confirm \/ SetLatch \/ Consume \/ Rebind
  <2>1. LookFails \/ LookStops => run'.at \in Hand /\ run'.m = run.m
    BY <1>0 DEF LookFails, LookStops, RunRecords, Hand
  <2>2. SetLatch \/ Consume => run'.at \in Hand /\ run'.m = run.m
    BY <1>0 DEF SetLatch, Consume, Goes, RunRecords, Hand
  <2>3. Confirm => run'.at = "latch" /\ run'.m = run.m
    BY <1>0 DEF Confirm, RunRecords
  <2>4. Rebind => run'.at \in {"look", "verdict"} /\ run'.m = run.m
    BY <1>0 DEF Rebind, RunRecords
  <2>5. run'.at \in Hand /\ run'.m = run.m
    BY <1>20, <2>1, <2>2, <2>3, <2>4 DEF Hand
  <2> QED BY <1>17, <1>20, <2>5 DEF LookFails, LookStops, Confirm, SetLatch, Consume, Rebind,
                                    cell, files
<1>21. CASE Reach \/ Attach \/ Detach
  <2>1. rec' = rec /\ place' = place /\ upset' = upset /\ run.at \in Hand /\ ~Record
    BY <1>21 DEF Reach, Attach, Detach, Reached, files, Hand, Record
  <2>2. run'.at \in Hand
    <3>1. ASSUME NEW r \in RunRecords, Onward(r) PROVE run'.at \in Hand
      BY <3>1 DEF Onward, RunRecords, Hand
    <3>2. [run EXCEPT !.held = TRUE, !.attached = TRUE] \in RunRecords
      BY <1>0 DEF RunRecords
    <3>3. [run EXCEPT !.held = FALSE] \in RunRecords
      BY <1>0 DEF RunRecords
    <3>4. \/ Onward(run)
          \/ Onward([run EXCEPT !.held = TRUE, !.attached = TRUE])
          \/ Onward([run EXCEPT !.held = FALSE])
          \/ run' = [run EXCEPT !.at = "verdict", !.fault = TRUE]
          \/ run' = [run EXCEPT !.at = "verdict", !.held = FALSE, !.fault = TRUE]
      BY <1>21 DEF Reach, Attach, Detach
    <3>5. \/ run' = [run EXCEPT !.at = "verdict", !.fault = TRUE]
          \/ run' = [run EXCEPT !.at = "verdict", !.held = FALSE, !.fault = TRUE]
          => run'.at \in Hand
      BY <1>0 DEF RunRecords, Hand
    <3> QED BY <1>0, <3>1, <3>2, <3>3, <3>4, <3>5
  <2>3. CASE m = run.m
    BY <1>5, <2>1, <2>2, <2>3
  <2>4. CASE m # run.m
    BY <1>2, <2>1, <2>4
  <2> QED BY <2>3, <2>4
<1>22. CASE \/ \E x \in Materials : \/ \E from, to \in Places : BeginRun(x, from, to)
                                    \/ Begin("resume", "verify", x)
                                    \/ Begin("restore", "restore", x)
            \/ Begin("reconcile", "reconcile", Nothing)
  <2>1. /\ NoScript /\ rec' = rec /\ place' = place /\ upset' = upset
    BY <1>22 DEF Begin, BeginRun, cell, files
  <2> QED BY <1>17, <2>1 DEF NoScript, Hand
<1> QED
  BY <1>6, <1>7, <1>8, <1>10, <1>11, <1>13, <1>14, <1>15, <1>16, <1>18, <1>19, <1>20, <1>21,
     <1>22
  DEF ScriptNext, Script

-----------------------------------------------------------------------------
LEMMA InitScript == ASSUME ScriptInit PROVE ScriptInv
<1>1. Types
  <2>1. /\ place \in [Materials -> Spots] /\ scene \in [Materials -> Spots]
        /\ joined \subseteq Materials /\ upset \subseteq Materials /\ armGoal \in BOOLEAN
        /\ rest \in Stops \cup {Nothing} /\ request \in Stops \cup {Nothing}
        /\ latch = Nothing /\ runs \in Nat /\ stops \in Nat /\ faults \in Nat
    BY NothingIs DEF ScriptInit
  <2>2. rec \in [Materials -> Records] /\ ckpt \in [Materials -> Checkpoints \cup {Nothing}]
    BY DEF ScriptInit, NoRecord, Records
  <2>3. run \in RunRecords
    BY DEF ScriptInit, NoRun, RunRecords
  <2>4. ScriptTypeOK
    BY <2>1, <2>2, <2>3 DEF ScriptTypeOK, RunRecords
  <2> QED BY <2>3, <2>4 DEF Types
<1>2. RecordInv /\ CheckpointInv /\ TruthInv
  BY DEF ScriptInit, NoRecord, RecordInv, CheckpointInv, TruthInv, Where
<1>3. ProcessInv /\ StageInv /\ InHandInv /\ UntouchedInv /\ CaptureInv /\ OutcomeInv /\ SceneInv
  BY DEF ScriptInit, NoRun, ProcessInv, NoScript, Fresh, StageInv, InHandInv, UntouchedInv,
         CaptureInv,
         OutcomeInv, SceneInv, Hand
<1> QED BY <1>1, <1>2, <1>3 DEF ScriptInv

LEMMA NextScript == ASSUME ScriptInv, [ScriptNext]_scriptVars PROVE ScriptInv'
  BY TypesNext, FilesNext, ProcessNext, StageNext, InHandNext, UntouchedNext, CaptureNext,
     OutcomeNext, TruthNext, SceneNext
  DEF ScriptInv

LEMMA ScriptInductive == ScriptSpec => []ScriptInv
  BY InitScript, NextScript, PTL DEF ScriptSpec

(* The variables have the types that TypeOK names.                         *)
THEOREM ScriptTypeCorrect == ScriptSpec => []ScriptTypeOK
<1>1. ScriptInv => ScriptTypeOK
  BY DEF ScriptInv, Types
<1> QED BY <1>1, ScriptInductive, PTL

(* A record that says a place, and no record, are true of every material   *)
(* that no run has in hand and that nothing but a run has moved, for every *)
(* number of materials, slots, runs, stops and faults.                     *)
THEOREM RecordsAreTrue == ScriptSpec => []RecordsTellTheTruth
<1>1. ScriptInv => RecordsTellTheTruth
  BY DEF ScriptInv, TruthInv, RecordsTellTheTruth
<1> QED BY <1>1, ScriptInductive, PTL

(* The planning scene of a run that moves has every other material where   *)
(* it is.                                                                  *)
THEOREM SceneCorrect == ScriptSpec => []SceneIsTheCell
<1>1. ScriptInv => SceneIsTheCell
  BY DEF ScriptInv, SceneInv, SceneIsTheCell, RunMoves
<1> QED BY <1>1, ScriptInductive, PTL

(* A checkpoint belongs to a record of a stop.                             *)
THEOREM CheckpointsAreRecorded == ScriptSpec => []CheckpointHasRecord
<1>1. ScriptInv => CheckpointHasRecord
  BY DEF ScriptInv, CheckpointInv, CheckpointHasRecord, Matches
<1> QED BY <1>1, ScriptInductive, PTL

(* A resumed run is bound for where the first one was, however often it    *)
(* was stopped.                                                            *)
THEOREM DestinationCorrect == ScriptSpec => []DestinationKept
<1>1. ScriptInv => DestinationKept
  BY DEF ScriptInv, InHandInv, DestinationKept, RunMoves, Hand
<1> QED BY <1>1, ScriptInductive, PTL
============================================================================
