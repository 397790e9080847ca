---------------------------- MODULE SimDemoJobs ----------------------------
(***************************************************************************)
(* server/sim_demo_jobs.py: the runner that starts the simulation script   *)
(* as a process of its own, one at a time, under the cell's lease, and     *)
(* that journals the process so that a server which restarts finds it.     *)
(*                                                                         *)
(* The script's process is not a child the server can lose: it has its own *)
(* session (start_new_session) and goes on moving the robot when the       *)
(* server dies.  The journal (active_job.json) and the processes are what  *)
(* a crash leaves; everything else is memory.                              *)
(*                                                                         *)
(* start(), reserve_goal(), release_goal() and the watchers hold _lock     *)
(* throughout, but start() writes the journal, spawns and writes it again, *)
(* and the server may die in between.  The cell's lease has other takers:  *)
(* ADAPTER is execute() running a plan on the adapter.                     *)
(*                                                                         *)
(* A definition named Mutant_... is a wrong variant of the one after it.   *)
(* No specification uses it; it shows what the properties can tell apart.  *)
(***************************************************************************)
EXTENDS Naturals, FiniteSets

CONSTANTS
    MaxJobs,        \* bound on the jobs ever started
    Goals,          \* goals (and transfers of execute()) that reserve the cell
    MaxCrashes,     \* bound on the times the server dies
    Adapter,        \* the holder of the lease when execute() uses the adapter
    Unreadable,     \* recovery is required and no job is known
    None

Jobs == 1..MaxJobs

ASSUME BoundsAssumption == MaxJobs \in Nat /\ MaxCrashes \in Nat
ASSUME NamesAssumption ==
    /\ Goals \cap (Nat \cup {Adapter, Unreadable, None}) = {}
    /\ {Adapter, Unreadable, None} \cap Nat = {}
    /\ Adapter # None /\ Unreadable # None

VARIABLES
    \* what survives a crash of the server
    journal,        \* the job active_job.json describes, or None
    identified,     \* it holds a complete process identity
    alive,          \* jobs whose process is running
    \* the server's memory
    up,
    running,        \* jobs whose status is "running"
    current,        \* _current
    leases,         \* keys of _leases
    goal,           \* _goal_reservation
    recovery,       \* job_id of recovery_required, Unreadable, or None
    holder,         \* who holds the lease of the cell
    starter,        \* the call that has _lock and has not returned
    \* history
    jobs,           \* number of jobs started
    goalOf,         \* the goal a job was started for
    readOnly,       \* jobs that send the robot nothing (reconcile)
    crashes

disk == <<journal, identified, alive>>
memory == <<running, current, leases, goal, recovery, holder>>
past == <<jobs, goalOf, readOnly, crashes>>
vars == <<disk, up, memory, starter, past>>

Idle == [at |-> "idle", goal |-> None]
Stages == {"idle", "checked", "leased", "marked", "spawned", "reserving"}

TypeOK ==
    /\ journal \in Jobs \cup {None}
    /\ identified \in BOOLEAN
    /\ alive \subseteq Jobs
    /\ up \in BOOLEAN
    /\ running \subseteq Jobs
    /\ current \in Jobs \cup {None}
    /\ leases \subseteq Jobs
    /\ goal \in Goals \cup {None}
    /\ recovery \in Jobs \cup {Unreadable, None}
    /\ holder \in Jobs \cup Goals \cup {Adapter, None}
    /\ starter \in [at : Stages, goal : Goals \cup {None}]
    /\ jobs \in 0..MaxJobs
    /\ goalOf \in [Jobs -> Goals \cup {None}]
    /\ readOnly \subseteq Jobs
    /\ crashes \in 0..MaxCrashes

Init ==
    /\ journal = None /\ identified = FALSE /\ alive = {}
    /\ up = TRUE
    /\ running = {} /\ current = None /\ leases = {} /\ goal = None
    /\ recovery = None /\ holder = None
    /\ starter = Idle
    /\ jobs = 0 /\ goalOf = [j \in Jobs |-> None] /\ readOnly = {}
    /\ crashes = 0

(* operation_id of the lease a job runs under: its goal's, or its own.     *)
Owner(j) == IF goalOf[j] = None THEN j ELSE goalOf[j]
Unlocked == up /\ starter.at = "idle"
At(stage) == up /\ starter.at = stage

-----------------------------------------------------------------------------
(* The journal.                                                            *)

(* _clear_journal(j): only the record of j is removed; when it cannot be   *)
(* read or removed, or is another job's, the runner demands a recovery.    *)
ClearJournal(j) ==
    \/ /\ journal = None
       /\ UNCHANGED <<journal, identified, recovery>>
    \/ /\ journal # None
       /\ recovery' = j
       /\ UNCHANGED <<journal, identified>>
    \/ /\ journal = j
       /\ journal' = None
       /\ identified' = FALSE
       /\ recovery' = IF recovery = j THEN None ELSE recovery

-----------------------------------------------------------------------------
(* start()                                                                 *)

(* Ambiguous ownership refuses a motion; a reservation refuses all but the *)
(* jobs of its goal.                                                       *)
StartCheck(g) ==
    /\ Unlocked
    /\ jobs < MaxJobs
    /\ recovery = None
    /\ goal = g
    /\ starter' = [at |-> "checked", goal |-> g]
    /\ UNCHANGED <<disk, up, memory, past>>

(* A job without a goal takes the lease; a goal's job runs under its own.  *)
Acquire ==
    /\ At("checked")
    /\ \/ /\ current = None
          /\ \/ starter.goal # None /\ UNCHANGED holder
             \/ starter.goal = None /\ holder = None /\ holder' = jobs + 1
          /\ jobs' = jobs + 1
          /\ goalOf' = [goalOf EXCEPT ![jobs + 1] = starter.goal]
          /\ starter' = [starter EXCEPT !.at = "leased"]
       \/ /\ \/ current # None /\ current \in alive
             \/ current = None /\ starter.goal = None /\ holder # None
          /\ starter' = Idle
          /\ UNCHANGED <<holder, jobs, goalOf>>
    /\ UNCHANGED <<disk, up, running, current, leases, goal, recovery, readOnly,
                   crashes>>

(* The lease a failed start gives back: its own, never the goal's.         *)
HolderAfterFailure == IF starter.goal = None THEN None ELSE holder

(* No free slot, a changed contract, a bad speed, a directory that cannot  *)
(* be written: nothing was journaled yet.                                  *)
StartFails ==
    /\ At("leased")
    /\ holder' = HolderAfterFailure
    /\ starter' = Idle
    /\ UNCHANGED <<disk, up, running, current, leases, goal, recovery, past>>

(* The launch marker: a record without a process identity.                 *)
Mutant_MarkAfterSpawn == journal
MarkedJournal == jobs

WriteMarker ==
    /\ At("leased")
    /\ journal' = MarkedJournal
    /\ identified' = FALSE
    /\ starter' = [starter EXCEPT !.at = "marked"]
    /\ UNCHANGED <<alive, up, memory, past>>

Spawn ==
    /\ At("marked")
    /\ alive' = alive \cup {jobs}
    /\ starter' = [starter EXCEPT !.at = "spawned"]
    /\ UNCHANGED <<journal, identified, up, memory, past>>

SpawnFails ==
    /\ At("marked")
    /\ holder' = HolderAfterFailure
    /\ ClearJournal(jobs)
    /\ starter' = Idle
    /\ UNCHANGED <<alive, up, running, current, leases, goal, past>>

(* The process identity replaces the marker; when it cannot be taken or    *)
(* written, the job is kept and a recovery is required until it ended.     *)
Launched ==
    /\ At("spawned")
    /\ \/ identified' = TRUE /\ UNCHANGED recovery
       \/ identified' = FALSE /\ recovery' = jobs
    /\ running' = running \cup {jobs}
    /\ leases' = IF starter.goal = None THEN leases \cup {jobs} ELSE leases
    /\ current' = jobs
    /\ starter' = Idle
    /\ UNCHANGED <<journal, alive, up, goal, holder, past>>

(* A read-only job needs no lease and no journal, and recovery does not    *)
(* refuse it.                                                              *)
StartReconcile ==
    /\ Unlocked
    /\ jobs < MaxJobs
    /\ goal = None
    /\ current = None
    /\ jobs' = jobs + 1
    /\ readOnly' = readOnly \cup {jobs + 1}
    /\ alive' = alive \cup {jobs + 1}
    /\ running' = running \cup {jobs + 1}
    /\ current' = jobs + 1
    /\ UNCHANGED <<journal, identified, up, leases, goal, recovery, holder,
                   starter, goalOf, crashes>>

-----------------------------------------------------------------------------
(* _refresh(): by a watcher, a poll, or the call that has the lock.        *)

Mutant_KeepLease(j) == holder
HolderAfterExit(j) ==
    IF j \in leases /\ holder = Owner(j) THEN None ELSE holder

Refresh(j) ==
    /\ Unlocked \/ (j = current /\ (At("checked") \/ At("reserving")))
    /\ j \in running
    /\ j \notin alive
    /\ running' = running \ {j}
    /\ holder' = HolderAfterExit(j)
    /\ leases' = leases \ {j}
    /\ current' = IF current = j THEN None ELSE current
    /\ IF j \in readOnly THEN UNCHANGED <<journal, identified, recovery>>
                         ELSE ClearJournal(j)
    /\ UNCHANGED <<alive, up, goal, starter, past>>

-----------------------------------------------------------------------------
(* reserve_goal() and release_goal()                                       *)

ReserveCheck(g) ==
    /\ Unlocked
    /\ recovery = None
    /\ starter' = [at |-> "reserving", goal |-> g]
    /\ UNCHANGED <<disk, up, memory, past>>

ReserveGoal ==
    /\ At("reserving")
    /\ current # None => current \in alive
    /\ IF current = None /\ goal = None /\ holder = None
          THEN goal' = starter.goal /\ holder' = starter.goal
          ELSE UNCHANGED <<goal, holder>>
    /\ starter' = Idle
    /\ UNCHANGED <<disk, up, running, current, leases, recovery, past>>

(* Refused while a child of the goal runs.                                 *)
Mutant_ReleaseEarly == TRUE
GoalIdle == current = None

ReleaseGoal(g) ==
    /\ Unlocked
    /\ goal = g
    /\ GoalIdle
    /\ holder = g
    /\ holder' = None
    /\ goal' = None
    /\ UNCHANGED <<disk, up, running, current, leases, recovery, starter, past>>

-----------------------------------------------------------------------------
(* Around the runner: the script's process, execute() on the adapter, and  *)
(* the death and restart of the server.                                    *)

ProcessExits(j) ==
    /\ j \in alive
    /\ alive' = alive \ {j}
    /\ UNCHANGED <<journal, identified, up, memory, starter, past>>

AdapterAcquires ==
    /\ up
    /\ holder = None
    /\ holder' = Adapter
    /\ UNCHANGED <<disk, up, running, current, leases, goal, recovery, starter,
                   past>>

AdapterReleases ==
    /\ up
    /\ holder = Adapter
    /\ holder' = None
    /\ UNCHANGED <<disk, up, running, current, leases, goal, recovery, starter,
                   past>>

Crash ==
    /\ up
    /\ crashes < MaxCrashes
    /\ crashes' = crashes + 1
    /\ up' = FALSE
    /\ running' = {} /\ current' = None /\ leases' = {} /\ goal' = None
    /\ recovery' = None /\ holder' = None
    /\ starter' = Idle
    /\ UNCHANGED <<disk, jobs, goalOf, readOnly>>

(* What the probe can make of the journaled process: an identity that is   *)
(* incomplete or cannot be compared is never taken for a dead process.     *)
WithoutIdentity == "uncertain"
Verdict(j) ==
    IF ~identified THEN WithoutIdentity
    ELSE IF j \in alive THEN "alive" ELSE "dead"

(* _recover_active_job: adopt a live process or demand a recovery.         *)
Recover ==
    /\ ~up
    /\ up' = TRUE
    /\ \/ /\ journal = None
          /\ UNCHANGED <<journal, identified, recovery, holder, leases, running,
                         current>>
       \/ /\ recovery' = Unreadable
          /\ UNCHANGED <<journal, identified, holder, leases, running, current>>
       \/ /\ journal # None
          /\ recovery' = journal
          /\ UNCHANGED <<journal, identified, holder, leases, running, current>>
       \/ /\ journal # None
          /\ Verdict(journal) = "dead"
          /\ journal' = None
          /\ identified' = FALSE
          /\ UNCHANGED <<recovery, holder, leases, running, current>>
       \/ /\ journal # None
          /\ Verdict(journal) = "alive"
          /\ holder' = Owner(journal)
          /\ leases' = {journal}
          /\ running' = {journal}
          /\ current' = journal
          /\ UNCHANGED <<journal, identified, recovery>>
    /\ UNCHANGED <<alive, goal, starter, past>>

-----------------------------------------------------------------------------

Start ==
    \/ Acquire \/ StartFails \/ WriteMarker \/ Spawn \/ SpawnFails \/ Launched
    \/ ReserveGoal

Next ==
    \/ \E g \in Goals \cup {None} : StartCheck(g)
    \/ Start \/ StartReconcile
    \/ \E j \in Jobs : Refresh(j) \/ ProcessExits(j)
    \/ \E g \in Goals : ReserveCheck(g) \/ ReleaseGoal(g)
    \/ AdapterAcquires \/ AdapterReleases
    \/ Crash \/ Recover

Spec == Init /\ [][Next]_vars

(* A call that holds the lock goes on, the watcher thread of a job notices *)
(* the exit of its process, and the script comes to an end by itself.      *)
FairSpec ==
    /\ Spec
    /\ WF_vars(Start)
    /\ \A j \in Jobs : WF_vars(Refresh(j)) /\ WF_vars(ProcessExits(j))

-----------------------------------------------------------------------------

Moving == alive \ readOnly

(* A process that can move the robot is described by the journal, from     *)
(* before it is spawned until it is dead, wherever the server dies.        *)
JournalNamesLive == \A j \in Moving : journal = j

(* No two script processes ever move the robot, across any number of       *)
(* crashes and restarts.                                                   *)
OneMotionProcess == \A i, j \in Moving : i = j

(* A process that moves has the cell leased to it or to its goal, or the   *)
(* runner knows that it does not know and starts nothing (fail closed).    *)
AdoptedOrClosed ==
    up => \A j \in Moving : holder = Owner(j) \/ recovery # None

(* While a goal has the cell reserved the lease is the goal's, whatever    *)
(* becomes of the jobs it starts: nothing slips in between its steps.      *)
GoalKeepsCell == goal # None => holder = goal

(* The lease of a job comes back when its process is gone, though no one   *)
(* polls the job.                                                          *)
LeaseComesBack == \A j \in Jobs : (holder = j) ~> (holder # j)

(* Stated by the code and not kept by it (see the README's findings): "the *)
(* robot is one, so nothing runs at the same time".                        *)
NothingRunsBeside == holder = Adapter => Moving = {}
=============================================================================
