-------------------------- MODULE ExecutionHistory --------------------------
(***************************************************************************)
(* storage/sqlite/repository.py: the attempts to execute a request, their  *)
(* states and their results, as ApiService._run_execution writes them      *)
(* under the lease of server/cell_execution.py.  Each write is a           *)
(* transaction of its own, begin_execution() reads twice before it         *)
(* inserts, the database outlives the server, and the leases do not.       *)
(*                                                                         *)
(* Whether a stop or a cancel is on record belongs to ExecutionCore; here  *)
(* it is a choice at each look.  Other users of the cell do with it what   *)
(* CellExecution lets them.                                                *)
(***************************************************************************)
EXTENDS CellExecution, SequencesExt

CONSTANTS
    Threads,        \* requests to execute() that run at the same time
    Requests,       \* rows of the requests table, with an approved plan each
    StopPlans,      \* those whose plan ends with a "stop" step
    Steps,          \* steps of a plan
    MaxAttempts,    \* bounds: rows of the executions table,
    MaxFaults       \*   and crashes or failed writes

Terminal == {"stopped", "completed", "failed", "unknown"}

ASSUME HistoryAssumption ==
    /\ StopPlans \subseteq Requests
    /\ Steps \in Nat \ {0} /\ MaxAttempts \in Nat /\ MaxFaults \in Nat
    /\ None \notin Threads \cup Requests \cup Terminal

Attempts == 1..MaxAttempts

VARIABLES
    \* the database
    attempts,       \* number of rows in executions
    requestOf,      \* executions.request_id
    number,         \* executions.attempt_no
    states,         \* state_transitions.to_state, in the order of seq
    results,        \* execution_results, in the order of seq
    \* the threads in execute()
    pc, request, token, seen, attempt, verdict,
    \* history
    faults,
    cut             \* attempts whose thread a fault ended

rows == <<attempts, requestOf, number, states, results>>
locals == <<pc, request, token, seen, attempt, verdict>>
cell == vars
hvars == <<cell, rows, locals, faults, cut>>

States == {"accepted", "executing", "stopping"} \cup Terminal
Results == [state : Terminal, final : BOOLEAN]

Labels == {"idle", "look", "number", "insert", "accept", "execute", "check", "step",
           "after", "halt", "judge", "result", "state", "leave"}

HTypeOK ==
    /\ TypeOK
    /\ attempts \in 0..MaxAttempts
    /\ requestOf \in [Attempts -> Requests \cup {None}]
    /\ number \in [Attempts -> 0..MaxAttempts]
    /\ states \in [Attempts -> Seq(States)]
    /\ results \in [Attempts -> Seq(Results)]
    /\ pc \in [Threads -> Labels]
    /\ request \in [Threads -> Requests \cup {None}]
    /\ token \in [Threads -> Tokens \cup {None}]
    /\ seen \in [Threads -> 0..MaxAttempts]
    /\ attempt \in [Threads -> Attempts \cup {None}]
    /\ verdict \in [Threads -> Terminal \cup {None}]
    /\ faults \in 0..MaxFaults
    /\ cut \subseteq Attempts

HInit ==
    /\ Init
    /\ attempts = 0
    /\ requestOf = [e \in Attempts |-> None]
    /\ number = [e \in Attempts |-> 0]
    /\ states = [e \in Attempts |-> <<>>]
    /\ results = [e \in Attempts |-> <<>>]
    /\ pc = [c \in Threads |-> "idle"]
    /\ request = [c \in Threads |-> None]
    /\ token = [c \in Threads |-> None]
    /\ seen = [c \in Threads |-> 0]
    /\ attempt = [c \in Threads |-> None]
    /\ verdict = [c \in Threads |-> None]
    /\ faults = 0
    /\ cut = {}

At(c, label) == pc[c] = label
Goto(c, label) == pc' = [pc EXCEPT ![c] = label]

-----------------------------------------------------------------------------
(* begin_execution()                                                       *)

(* The lease of the cell; a step of a repeated run presents the            *)
(* reservation of the run.                                                 *)
Acquire(c, r) ==
    /\ At(c, "idle")
    /\ \E t \in {None, reservation} : TryAcquire(t)
    /\ request' = [request EXCEPT ![c] = r]
    /\ token' = [token EXCEPT ![c] = Fresh]
    /\ Goto(c, "look")
    /\ UNCHANGED <<rows, seen, attempt, verdict, faults, cut>>

(* The approval was used, the permit or the connection is refused.         *)
Refused(c) ==
    /\ At(c, "look")
    /\ Goto(c, "leave")
    /\ UNCHANGED <<cell, rows, request, token, seen, attempt, verdict, faults, cut>>

Of(r) == {e \in 1..attempts : requestOf[e] = r}

(* No row in execution_results, be it of a step or of the whole.           *)
Open(e) == results[e] = <<>>

Mutant_NoLookForOpen(c) ==
    /\ At(c, "look")
    /\ Goto(c, "number")
    /\ UNCHANGED <<cell, rows, request, token, seen, attempt, verdict, faults, cut>>
LookForOpen(c) ==
    /\ At(c, "look")
    /\ Goto(c, IF \E e \in Of(request[c]) : Open(e) THEN "leave" ELSE "number")
    /\ UNCHANGED <<cell, rows, request, token, seen, attempt, verdict, faults, cut>>

Highest(r) == Max({number[e] : e \in Of(r)} \cup {0})

ReadNumber(c) ==
    /\ At(c, "number")
    /\ seen' = [seen EXCEPT ![c] = Highest(request[c])]
    /\ Goto(c, "insert")
    /\ UNCHANGED <<cell, rows, request, token, attempt, verdict, faults, cut>>

(* UNIQUE (request_id, attempt_no)                                         *)
Taken(r, n) == \E e \in Of(r) : number[e] = n

Insert(c) ==
    /\ At(c, "insert")
    /\ \/ /\ Taken(request[c], seen[c] + 1)
          /\ Goto(c, "leave")
          /\ UNCHANGED <<rows, attempt>>
       \/ /\ ~Taken(request[c], seen[c] + 1)
          /\ attempts < MaxAttempts
          /\ attempts' = attempts + 1
          /\ requestOf' = [requestOf EXCEPT ![attempts'] = request[c]]
          /\ number' = [number EXCEPT ![attempts'] = seen[c] + 1]
          /\ attempt' = [attempt EXCEPT ![c] = attempts']
          /\ Goto(c, "accept")
          /\ UNCHANGED <<states, results>>
    /\ UNCHANGED <<cell, request, token, seen, verdict, faults, cut>>

-----------------------------------------------------------------------------
(* _run_execution()                                                        *)

(* core/execution_state.py: ALLOWED_TRANSITIONS, from what is written.     *)
Successors == [accepted |-> {"executing", "stopping", "failed", "unknown"},
               executing |-> {"executing", "stopping", "completed", "failed", "unknown"},
               stopping |-> {"stopped", "unknown"},
               unknown |-> {"stopping"},
               stopped |-> {}, completed |-> {}, failed |-> {}]

Allowed(e, s) == s \in IF states[e] = <<>> THEN States ELSE Successors[Last(states[e])]

(* append_state_transition: a state that may not follow raises, and the    *)
(* exception ends the thread.                                              *)
Go(c, s, next) ==
    LET e == attempt[c] IN
    /\ \/ /\ Allowed(e, s)
          /\ states' = [states EXCEPT ![e] = Append(@, s)]
          /\ Goto(c, next)
       \/ /\ ~Allowed(e, s)
          /\ Goto(c, "leave")
          /\ UNCHANGED states
    /\ UNCHANGED <<cell, attempts, requestOf, number, results, request, token, seen,
                   attempt, verdict, faults, cut>>

GoAccepted(c) == At(c, "accept") /\ Go(c, "accepted", "execute")
GoExecuting(c) == At(c, "execute") /\ Go(c, "executing", "check")

(* interruption() before a step: it finds a stop or a cancel, or does not. *)
CheckBeforeStep(c) ==
    /\ At(c, "check")
    /\ \/ Len(results[attempt[c]]) < Steps /\ (Goto(c, "halt") \/ Goto(c, "step"))
       \/ Len(results[attempt[c]]) = Steps /\ Goto(c, "judge")
    /\ UNCHANGED <<cell, rows, request, token, seen, attempt, verdict, faults, cut>>

(* What the adapter answers: only a stop step answers "stopped".           *)
StepStates(e) ==
    IF requestOf[e] \in StopPlans /\ Len(results[e]) + 1 = Steps
    THEN {"stopped", "failed", "unknown"}
    ELSE {"completed", "failed", "unknown"}

AppendResult(e, s, final) ==
    results' = [results EXCEPT ![e] = Append(@, [state |-> s, final |-> final])]

RunStep(c) ==
    /\ At(c, "step")
    /\ \E s \in StepStates(attempt[c]) : AppendResult(attempt[c], s, FALSE)
    /\ Goto(c, "after")
    /\ UNCHANGED <<cell, attempts, requestOf, number, states, request, token, seen,
                   attempt, verdict, faults, cut>>

CheckAfterStep(c) ==
    /\ At(c, "after")
    /\ \/ Goto(c, "halt")
       \/ Goto(c, IF Last(results[attempt[c]]).state = "completed" THEN "check" ELSE "judge")
    /\ UNCHANGED <<cell, rows, request, token, seen, attempt, verdict, faults, cut>>

(* An interrupted attempt is "stopping" before it is "stopped".            *)
Halt(c) ==
    LET e == attempt[c] IN
    /\ At(c, "halt")
    /\ states' = [states EXCEPT ![e] = Append(@, "stopping")]
    /\ verdict' = [verdict EXCEPT ![c] = "stopped"]
    /\ Goto(c, "result")
    /\ UNCHANGED <<cell, attempts, requestOf, number, results, request, token, seen,
                   attempt, faults, cut>>

(* finalize_plan_result: a confirmed stop step first; a step that did not  *)
(* reach its target is no success; a hold may not be as planned, or        *)
(* nobody can tell.                                                        *)
Verdicts(e) ==
    LET given == {results[e][i].state : i \in 1..Len(results[e])}
    IN  IF "stopped" \in given THEN {"stopped"}
        ELSE {"failed", "unknown"} \cup (IF given = {"completed"} THEN {"completed"} ELSE {})

Judge(c) ==
    /\ At(c, "judge")
    /\ \E s \in Verdicts(attempt[c]) : verdict' = [verdict EXCEPT ![c] = s]
    /\ Goto(c, "result")
    /\ UNCHANGED <<cell, rows, request, token, seen, attempt, faults, cut>>

RecordResult(c) ==
    /\ At(c, "result")
    /\ AppendResult(attempt[c], verdict[c], TRUE)
    /\ Goto(c, "state")
    /\ UNCHANGED <<cell, attempts, requestOf, number, states, request, token, seen,
                   attempt, verdict, faults, cut>>

GoFinal(c) == At(c, "state") /\ Go(c, verdict[c], "leave")

(* The finally clause of execute().                                        *)
Leave(c) ==
    /\ At(c, "leave")
    /\ Release(token[c])
    /\ request' = [request EXCEPT ![c] = None]
    /\ token' = [token EXCEPT ![c] = None]
    /\ seen' = [seen EXCEPT ![c] = 0]
    /\ attempt' = [attempt EXCEPT ![c] = None]
    /\ verdict' = [verdict EXCEPT ![c] = None]
    /\ Goto(c, "idle")
    /\ UNCHANGED <<rows, faults, cut>>

-----------------------------------------------------------------------------
(* Faults, and the other users of the cell.                                *)

Mine(c) == IF attempt[c] = None THEN {} ELSE {attempt[c]}

(* A write, a read or the adapter raises: the attempt is left as it is.    *)
Raise(c) ==
    /\ pc[c] \notin {"idle", "leave"}
    /\ faults < MaxFaults
    /\ faults' = faults + 1
    /\ cut' = cut \cup Mine(c)
    /\ Goto(c, "leave")
    /\ UNCHANGED <<cell, rows, request, token, seen, attempt, verdict>>

(* The server dies and is started again: no lease and no reservation is    *)
(* known to the new one, and nothing in it looks at the attempts.          *)
Crash ==
    /\ faults < MaxFaults
    /\ faults' = faults + 1
    /\ cut' = cut \cup UNION {Mine(c) : c \in {d \in Threads : ~At(d, "leave")}}
    /\ pc' = [c \in Threads |-> "idle"]
    /\ request' = [c \in Threads |-> None]
    /\ token' = [c \in Threads |-> None]
    /\ seen' = [c \in Threads |-> 0]
    /\ attempt' = [c \in Threads |-> None]
    /\ verdict' = [c \in Threads |-> None]
    /\ lease' = None
    /\ reservation' = None
    /\ returned' = leases
    /\ UNCHANGED <<grants, leases, presented, rows>>

Others ==
    /\ \/ \E alongside \in BOOLEAN : Reserve(alongside)
       \/ \E t \in Drawn : Unreserve(t)
       \/ \E t \in Drawn \cup {None} : TryAcquire(t)
       \/ \E t \in leases \ {token[c] : c \in Threads} : Release(t)
    /\ UNCHANGED <<rows, locals, faults, cut>>

-----------------------------------------------------------------------------

Proceed(c) ==
    \/ Refused(c) \/ LookForOpen(c) \/ ReadNumber(c) \/ Insert(c)
    \/ GoAccepted(c) \/ GoExecuting(c)
    \/ CheckBeforeStep(c) \/ RunStep(c) \/ CheckAfterStep(c)
    \/ Halt(c) \/ Judge(c) \/ RecordResult(c) \/ GoFinal(c)
    \/ Leave(c)

HNext ==
    \/ \E c \in Threads, r \in Requests : Acquire(c, r)
    \/ \E c \in Threads : Proceed(c) \/ Raise(c)
    \/ Crash
    \/ Others

HSpec == HInit /\ [][HNext]_hvars

-----------------------------------------------------------------------------

Settled(e) == results[e] # <<>> /\ Last(results[e]).final
Ended(e) == states[e] # <<>> /\ Last(states[e]) \in Terminal

(* executions_for_request() takes a history for corrupt whose attempts are *)
(* not numbered from 1 on.                                                 *)
NumbersRunOn ==
    \A r \in Requests :
        {number[e] : e \in Of(r)} = 1..Cardinality(Of(r))

(* Only the last attempt of a request may be without a result.             *)
OnlyTheLastIsOpen ==
    \A e, f \in 1..attempts :
        requestOf[e] = requestOf[f] /\ number[e] < number[f] => ~Open(e)

(* Who reads that an attempt has ended finds how, in its last result.      *)
EndsHaveResults ==
    \A e \in 1..attempts :
        Ended(e) => Settled(e) /\ Last(results[e]).state = Last(states[e])

(* An attempt nobody cut short ends, but for what divergence 23 shows.     *)
SettledIsEnded(e) ==
    Settled(e) /\ (\A c \in Threads : attempt[c] # e) /\ e \notin cut => Ended(e)

EndsAreRecorded ==
    \A e \in 1..attempts : requestOf[e] \notin StopPlans => SettledIsEnded(e)

(* begin_execution() reads twice and inserts in three transactions, and    *)
(* the end of an attempt is written in two.  Whatever crashes and failed   *)
(* writes cut in two, the history can be read, the attempts of a request   *)
(* follow each other, an end is never without its result, and a result of  *)
(* the whole is without its end only where a fault cut them apart: it is   *)
(* the lease that keeps two threads from beginning an attempt at once.     *)
HistoryInOrder ==
    NumbersRunOn /\ OnlyTheLastIsOpen /\ EndsHaveResults /\ EndsAreRecorded

(* Stated by the code and not kept by it (see the README's divergences).   *)

(* "refused if the request has an attempt whose result is not settled".    *)
SettledBeforeTheNext ==
    \A e, f \in 1..attempts :
        requestOf[e] = requestOf[f] /\ number[e] < number[f] => Settled(e)

(* A stop that was confirmed is the state the attempt ends in.             *)
StoppedIsRecorded == \A e \in 1..attempts : SettledIsEnded(e)
=============================================================================
