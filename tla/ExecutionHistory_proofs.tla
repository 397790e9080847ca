----------------------- MODULE ExecutionHistory_proofs ----------------------
(***************************************************************************)
(* For any number of grants: the lease has one holder, batches are not     *)
(* interleaved, and the manager implements CellAuthority.  For any number  *)
(* of threads, requests, attempts and faults: the history of executions    *)
(* that is written under that lease stays in order.                        *)
(***************************************************************************)
EXTENDS ExecutionHistory, FiniteSetTheorems, TLAPS

-----------------------------------------------------------------------------
(* The authority                                                           *)

(* Tokens are drawn in order, and what is active was drawn.                *)
TokensDrawn ==
    /\ leases \subseteq Drawn
    /\ returned \subseteq leases
    /\ lease # None => lease \in leases
    /\ reservation # None => reservation \in Drawn

IInv == TypeOK /\ TokensDrawn /\ OneHolder /\ BatchNotInterleaved

(* The initial state has no lease, no reservation and no token.            *)
LEMMA InitIInv == Init => IInv
  BY NoneAssumption, MaxGrantsAssumption
  DEF Init, IInv, TypeOK, TokensDrawn, OneHolder, BatchNotInterleaved, Tokens, Drawn

(* Every operation of the manager preserves the invariant: a fresh token   *)
(* is larger than any drawn before, so a lease present when a batch is     *)
(* reserved is older than the reservation, and a release must name the     *)
(* active lease.                                                           *)
LEMMA NextIInv == IInv /\ [Next]_vars => IInv'
<1> SUFFICES ASSUME IInv, [Next]_vars PROVE IInv'
  OBVIOUS
<1> USE NoneAssumption, MaxGrantsAssumption
    DEF IInv, TypeOK, TokensDrawn, Tokens, Drawn, Fresh
<1>1. ASSUME NEW alongside \in BOOLEAN, Reserve(alongside) PROVE IInv'
  <2>1. TypeOK' /\ TokensDrawn'
    BY <1>1 DEF Reserve
  <2>2. OneHolder'
    BY <1>1 DEF Reserve, OneHolder
  <2>3. BatchNotInterleaved'
    BY <1>1 DEF Reserve, BatchNotInterleaved
  <2> QED BY <2>1, <2>2, <2>3
<1>2. ASSUME NEW t \in Drawn, Unreserve(t) PROVE IInv'
  BY <1>2 DEF Unreserve, OneHolder, BatchNotInterleaved
<1>3. ASSUME NEW t \in Drawn \cup {None}, TryAcquire(t) PROVE IInv'
  <2>1. TypeOK' /\ TokensDrawn'
    BY <1>3 DEF Acquirable, TryAcquire
  <2>2. OneHolder'
    <3>1. leases \ returned = {}
      BY <1>3 DEF Acquirable, Acquirable, TryAcquire, OneHolder
    <3>2. Fresh \notin returned
      OBVIOUS
    <3>3. leases' \ returned' = {Fresh}
      BY <1>3, <3>1, <3>2 DEF Acquirable, TryAcquire
    <3>4. lease' = Fresh /\ Fresh # None
      BY <1>3 DEF Acquirable, TryAcquire
    <3> QED BY <3>3, <3>4 DEF OneHolder
  <2>3. BatchNotInterleaved'
    BY <1>3 DEF Acquirable, Acquirable, TryAcquire, BatchNotInterleaved
  <2> QED BY <2>1, <2>2, <2>3
<1>4. ASSUME NEW t \in leases, Release(t) PROVE IInv'
  BY <1>4 DEF Release, OneHolder, BatchNotInterleaved
<1>5. CASE UNCHANGED vars
  BY <1>5 DEF vars, OneHolder, BatchNotInterleaved
<1> QED BY <1>1, <1>2, <1>3, <1>4, <1>5 DEF Next

(* The invariant holds throughout.                                         *)
THEOREM Invariance == Spec => []IInv
  BY InitIInv, NextIInv, PTL DEF Spec

(* Type correctness of the manager's state.                                *)
THEOREM TypeCorrect == Spec => []TypeOK
  BY Invariance, PTL DEF IInv

(* No two operations ever hold the cell: whoever was granted a lease and   *)
(* has not released it is the active one (CellExecutionManager.release).   *)
THEOREM SingleHolder == Spec => []OneHolder
  BY Invariance, PTL DEF IInv

(* Nothing is granted the cell between two motions of a reserved batch     *)
(* (CellExecutionManager.try_acquire).                                     *)
THEOREM BatchExclusive == Spec => []BatchNotInterleaved
  BY Invariance, PTL DEF IInv

(* An operation of the manager grants the cell when nobody acts on an      *)
(* earlier lease, or ends the lease of the one who does.                   *)
LEMMA AuthoritySteps == IInv /\ [Next]_vars => [Authority!Next]_(leases \ returned)
<1> SUFFICES ASSUME IInv, [Next]_vars PROVE [Authority!Next]_(leases \ returned)
  OBVIOUS
<1> USE NoneAssumption, MaxGrantsAssumption
    DEF IInv, TypeOK, TokensDrawn, Tokens, Drawn, Fresh,
        Authority!Next, Authority!Grant, Authority!Return
<1>1. ASSUME NEW alongside \in BOOLEAN, Reserve(alongside)
      PROVE  UNCHANGED (leases \ returned)
  BY <1>1 DEF Reserve
<1>2. ASSUME NEW t \in Drawn, Unreserve(t) PROVE UNCHANGED (leases \ returned)
  BY <1>2 DEF Unreserve
<1>3. ASSUME NEW t \in Drawn \cup {None}, TryAcquire(t) PROVE Authority!Next
  <2>1. leases \ returned = {}
    BY <1>3 DEF Acquirable, TryAcquire, OneHolder
  <2>2. Fresh \in Tokens /\ Fresh \notin returned
    BY <1>3 DEF TryAcquire
  <2>3. leases' \ returned' = {Fresh}
    BY <1>3, <2>1, <2>2 DEF TryAcquire
  <2> QED BY <2>1, <2>2, <2>3
<1>4. ASSUME NEW t \in leases, Release(t) PROVE Authority!Next
  <2>1. t \in leases \ returned
    BY <1>4 DEF Release, OneHolder
  <2>2. leases' \ returned' = (leases \ returned) \ {t}
    BY <1>4 DEF Release
  <2> QED BY <2>1, <2>2
<1>5. CASE UNCHANGED vars
  BY <1>5 DEF vars
<1> QED BY <1>1, <1>2, <1>3, <1>4, <1>5 DEF Next

(* The manager implements CellAuthority for those who act on a lease:      *)
(* whatever stale lease is handed back, nobody else is granted the cell.   *)
THEOREM ImplementsAuthority == Spec => AuthorityHeldByOne
<1>1. Init => Authority!Init
  BY DEF Init, Authority!Init
<1> QED
  BY <1>1, AuthoritySteps, Invariance, PTL DEF Spec, AuthorityHeldByOne, Authority!Spec

-----------------------------------------------------------------------------
(* The history                                                             *)

(* The lease is of the one thread that is in execute(): from its           *)
(* acquisition on nobody else is, so what it read stays true.              *)
OneThread == \A c, d \in Threads : ~At(c, "idle") /\ ~At(d, "idle") => c = d

Table ==
    \A e \in Attempts :
        IF e \in 1..attempts THEN requestOf[e] \in Requests
        ELSE requestOf[e] = None /\ states[e] = <<>> /\ results[e] = <<>>

Now(e, s) == states[e] # <<>> /\ Last(states[e]) = s

(* A step that was stopped is one of a plan with a stop step.              *)
OnlySteps(e) ==
    \A i \in 1..Len(results[e]) :
        results[e][i].state = "stopped" => requestOf[e] \in StopPlans

Running == {"check", "step", "after", "halt", "judge"}
Writing == {"accept", "execute", "result", "state"} \cup Running

(* Where the attempt is when its thread is at a label.                     *)
Reached(c, e) ==
    /\ At(c, "accept") => states[e] = <<>>
    /\ At(c, "execute") => Now(e, "accepted")
    /\ pc[c] \in Running => Now(e, "executing")
    /\ pc[c] \in {"accept", "execute"} \cup Running => OnlySteps(e)
    /\ pc[c] \in {"result", "state"} =>
          /\ verdict[c] \in Terminal
          /\ \/ Now(e, "executing") /\ (verdict[c] = "stopped" => requestOf[e] \in StopPlans)
             \/ Now(e, "stopping") /\ verdict[c] = "stopped"
    /\ At(c, "state") =>
          results[e] # <<>> /\ Last(results[e]) = [state |-> verdict[c], final |-> TRUE]

Finished(e) == e \in cut \/ requestOf[e] \in StopPlans \/ Ended(e)

Local(c) ==
    /\ At(c, "idle") => token[c] = None /\ attempt[c] = None
    /\ ~At(c, "idle") => lease # None /\ token[c] = lease /\ request[c] \in Requests
    /\ pc[c] \in {"look", "number", "insert"} => attempt[c] = None
    /\ pc[c] \in {"number", "insert"} => \A e \in Of(request[c]) : ~Open(e)
    /\ At(c, "insert") => seen[c] = Highest(request[c])
    /\ pc[c] \in Writing => attempt[c] \in 1..attempts /\ Reached(c, attempt[c])
    /\ At(c, "leave") /\ attempt[c] # None =>
          attempt[c] \in 1..attempts /\ Finished(attempt[c])

(* An attempt is finished, or a thread is still at it.                     *)
Closed == \A e \in 1..attempts : Finished(e) \/ \E c \in Threads : attempt[c] = e

HistoryInv ==
    /\ OneThread /\ Table /\ Closed
    /\ NumbersRunOn /\ OnlyTheLastIsOpen /\ EndsHaveResults
    /\ \A c \in Threads : Local(c)

HIInv == HTypeOK /\ IInv /\ HistoryInv

(* A row appended to a history is its last.                                *)
LEMMA LastOfAppend ==
  ASSUME NEW S, NEW s \in Seq(S), NEW x \in S
  PROVE  /\ Append(s, x) \in Seq(S)
         /\ Append(s, x) # <<>>
         /\ Last(Append(s, x)) = x
         /\ Len(Append(s, x)) = Len(s) + 1
         /\ \A i \in 1..Len(s) : Append(s, x)[i] = s[i]
         /\ Append(s, x)[Len(s) + 1] = x
  BY DEF Last

(* Only the thread that is in execute() is at a label of its own.          *)
LEMMA OthersIdle ==
  ASSUME HistoryInv, NEW c \in Threads, ~At(c, "idle"), NEW d \in Threads, d # c
  PROVE  At(d, "idle") /\ token[d] = None /\ attempt[d] = None
  BY DEF HistoryInv, OneThread, Local

(* The initial state: no rows, no thread in execute().                     *)
LEMMA InitHIInv == HInit => HIInv
<1> SUFFICES ASSUME HInit PROVE HIInv
  OBVIOUS
<1> USE HistoryAssumption, NoneAssumption, MaxGrantsAssumption
<1>1. IInv
  BY InitIInv DEF HInit
<1>2. HTypeOK
  BY <1>1 DEF HInit, HTypeOK, IInv, Attempts, Labels, Init
<1>3. attempts = 0 /\ \A r : Of(r) = {}
  BY DEF HInit, Of
<1>4. NumbersRunOn
  BY <1>3, FS_EmptySet DEF NumbersRunOn
<1>5. OneThread /\ Table /\ Closed /\ OnlyTheLastIsOpen /\ EndsHaveResults
  BY <1>3 DEF HInit, OneThread, Table, Closed, OnlyTheLastIsOpen, EndsHaveResults, At,
              Attempts
<1>6. \A c \in Threads : Local(c)
  BY DEF HInit, Local, At, Writing, Running
<1> QED BY <1>1, <1>2, <1>4, <1>5, <1>6 DEF HIInv, HistoryInv

(* What the manager does in a step of the history: an operation of its     *)
(* own, or the loss of everything it holds.                                *)
CellLost ==
    /\ lease' = None /\ reservation' = None /\ returned' = leases
    /\ UNCHANGED <<grants, leases, presented>>

LEMMA StepOfCell == HIInv /\ [HNext]_hvars => [Next]_vars \/ CellLost
<1> SUFFICES ASSUME HIInv, [HNext]_hvars PROVE [Next]_vars \/ CellLost
  OBVIOUS
<1> USE DEF cell
<1>1. ASSUME NEW c \in Threads, NEW r \in Requests, Acquire(c, r) PROVE Next
  <2>1. reservation \in Drawn \cup {None}
    BY DEF HIInv, IInv, TokensDrawn
  <2> QED BY <1>1, <2>1 DEF Acquire, Next
<1>2. ASSUME NEW c \in Threads, Proceed(c) PROVE [Next]_vars
  <2>1. CASE Leave(c)
    <3>1. token[c] \in leases
      BY <2>1 DEF Leave, HIInv, HistoryInv, IInv, TokensDrawn, Local, At, Release
    <3> QED BY <2>1, <3>1 DEF Leave, Next
  <2>2. CASE ~Leave(c)
    <3>1. UNCHANGED vars
      BY <1>2, <2>2 DEF Proceed, Refused, LookForOpen, ReadNumber, Insert, GoAccepted,
         GoExecuting, CheckBeforeStep, RunStep, CheckAfterStep, Halt, Judge,
         RecordResult, GoFinal, Go
    <3> QED BY <3>1
  <2> QED BY <2>1, <2>2
<1>3. ASSUME NEW c \in Threads, Raise(c) PROVE UNCHANGED vars
  BY <1>3 DEF Raise
<1>4. CASE Crash
  BY <1>4 DEF Crash, CellLost
<1>5. CASE Others
  <2>1. \A t \in leases \ {token[c] : c \in Threads} : t \in leases
    OBVIOUS
  <2> QED BY <1>5, <2>1 DEF Others, Next
<1>6. CASE UNCHANGED hvars
  BY <1>6 DEF hvars
<1> QED BY <1>1, <1>2, <1>3, <1>4, <1>5, <1>6 DEF HNext

(* After a crash nobody holds the cell, and every lease is over.           *)
LEMMA LostIInv == IInv /\ CellLost => IInv'
  BY NoneAssumption, MaxGrantsAssumption
  DEF CellLost, IInv, TypeOK, TokensDrawn, OneHolder, BatchNotInterleaved, Tokens, Drawn

LEMMA CellIInv == HIInv /\ [HNext]_hvars => IInv'
  BY StepOfCell, LostIInv, NextIInv DEF HIInv

(* A step of the thread in execute() that leaves the rows alone.           *)
LEMMA LocalStep ==
  ASSUME HIInv, NEW c \in Threads, ~At(c, "idle"), NEW l \in Labels \ {"idle"},
         Goto(c, l), UNCHANGED <<lease, rows, token, attempt>>, cut \subseteq cut',
         Local(c)'
  PROVE  HistoryInv'
<1> USE DEF HIInv, rows
<1>1. pc' = [pc EXCEPT ![c] = l] /\ pc \in [Threads -> Labels]
  BY DEF Goto, HTypeOK
<1>2. \A d \in Threads : d # c => At(d, "idle")' /\ token'[d] = None /\ attempt'[d] = None
  BY <1>1, OthersIdle DEF At
<1>3. OneThread'
  BY <1>2 DEF OneThread
<1>4. Table' /\ NumbersRunOn' /\ OnlyTheLastIsOpen' /\ EndsHaveResults'
  BY DEF HistoryInv, Table, NumbersRunOn, Of, OnlyTheLastIsOpen, Open, EndsHaveResults,
         Ended, Settled
<1>5. Closed'
  BY DEF HistoryInv, Closed, Finished, Ended
<1>6. \A d \in Threads : Local(d)'
  <2> SUFFICES ASSUME NEW d \in Threads, d # c PROVE Local(d)'
    OBVIOUS
  <2> QED BY <1>2 DEF Local, At, Writing, Running
<1> QED BY <1>3, <1>4, <1>5, <1>6 DEF HistoryInv

(* A state is written for an attempt that has not ended; one it ends in    *)
(* has its result.                                                         *)
LEMMA StateStep ==
  ASSUME HIInv, NEW c \in Threads, ~At(c, "idle"), NEW l \in Labels \ {"idle"},
         Goto(c, l), UNCHANGED <<lease, attempts, requestOf, number, results, token,
                                 attempt, cut>>,
         attempt[c] \in 1..attempts, ~Ended(attempt[c]), NEW s \in States,
         states' = [states EXCEPT ![attempt[c]] = Append(@, s)],
         s \in Terminal =>
            Settled(attempt[c]) /\ Last(results[attempt[c]]).state = s,
         Local(c)'
  PROVE  HistoryInv'
<1> USE DEF HIInv
<1> DEFINE e == attempt[c]
<1>1. pc' = [pc EXCEPT ![c] = l] /\ pc \in [Threads -> Labels]
  BY DEF Goto, HTypeOK
<1>2. \A d \in Threads : d # c => At(d, "idle")' /\ token'[d] = None /\ attempt'[d] = None
  BY <1>1, OthersIdle DEF At
<1>3. OneThread'
  BY <1>2 DEF OneThread
<1>4. e \in Attempts /\ states \in [Attempts -> Seq(States)] /\ 1..attempts \subseteq Attempts
  BY HistoryAssumption DEF HTypeOK, Attempts
<1>5. /\ states'[e] # <<>> /\ Last(states'[e]) = s
      /\ \A f \in Attempts : f # e => states'[f] = states[f]
  BY <1>4, LastOfAppend
<1>6. NumbersRunOn' /\ OnlyTheLastIsOpen'
  BY DEF HistoryInv, NumbersRunOn, Of, OnlyTheLastIsOpen, Open
<1>7. Table'
  BY <1>4, <1>5 DEF HistoryInv, Table
<1>8. EndsHaveResults'
  <2> SUFFICES ASSUME NEW f \in 1..attempts, Ended(f)'
               PROVE  Settled(f)' /\ Last(results'[f]).state = Last(states'[f])
    BY DEF EndsHaveResults
  <2>1. CASE f = e
    BY <2>1, <1>5 DEF Ended, Settled
  <2>2. CASE f # e
    BY <2>2, <1>4, <1>5 DEF Ended, Settled, HistoryInv, EndsHaveResults
  <2> QED BY <2>1, <2>2
<1>9. Closed'
  <2> SUFFICES ASSUME NEW f \in 1..attempts, f # e
               PROVE  Finished(f)' \/ \E d \in Threads : attempt'[d] = f
    BY DEF Closed
  <2> QED BY <1>4, <1>5 DEF HistoryInv, Closed, Finished, Ended
<1>10. \A d \in Threads : Local(d)'
  <2> SUFFICES ASSUME NEW d \in Threads, d # c PROVE Local(d)'
    OBVIOUS
  <2> QED BY <1>2 DEF Local, At, Writing, Running
<1> QED BY <1>3, <1>6, <1>7, <1>8, <1>9, <1>10 DEF HistoryInv

(* A result is written for an attempt that has not ended.                  *)
LEMMA ResultStep ==
  ASSUME HIInv, NEW c \in Threads, ~At(c, "idle"), NEW l \in Labels \ {"idle"},
         Goto(c, l), UNCHANGED <<lease, attempts, requestOf, number, states, token,
                                 attempt, cut>>,
         attempt[c] \in 1..attempts, ~Ended(attempt[c]),
         NEW s \in Terminal, NEW final \in BOOLEAN, AppendResult(attempt[c], s, final),
         Local(c)'
  PROVE  HistoryInv'
<1> USE DEF HIInv
<1> DEFINE e == attempt[c]
<1>1. pc' = [pc EXCEPT ![c] = l] /\ pc \in [Threads -> Labels]
  BY DEF Goto, HTypeOK
<1>2. \A d \in Threads : d # c => At(d, "idle")' /\ token'[d] = None /\ attempt'[d] = None
  BY <1>1, OthersIdle DEF At
<1>3. OneThread'
  BY <1>2 DEF OneThread
<1>4. e \in Attempts /\ results \in [Attempts -> Seq(Results)] /\ 1..attempts \subseteq Attempts
  BY HistoryAssumption DEF HTypeOK, Attempts
<1>5. results'[e] # <<>> /\ \A f \in Attempts : f # e => results'[f] = results[f]
  <2>1. [state |-> s, final |-> final] \in Results
    BY DEF Results
  <2> QED BY <1>4, <2>1, LastOfAppend DEF AppendResult
<1>6. NumbersRunOn' /\ Closed'
  BY DEF HistoryInv, NumbersRunOn, Of, Closed, Finished, Ended
<1>7. OnlyTheLastIsOpen'
  BY <1>4, <1>5 DEF HistoryInv, OnlyTheLastIsOpen, Open
<1>8. Table'
  BY <1>4, <1>5 DEF HistoryInv, Table
<1>9. EndsHaveResults'
  BY <1>4, <1>5 DEF HistoryInv, EndsHaveResults, Ended, Settled
<1>10. \A d \in Threads : Local(d)'
  <2> SUFFICES ASSUME NEW d \in Threads, d # c PROVE Local(d)'
    OBVIOUS
  <2> QED BY <1>2 DEF Local, At, Writing, Running
<1> QED BY <1>3, <1>6, <1>7, <1>8, <1>9, <1>10 DEF HistoryInv

LEMMA MaxUpTo == ASSUME NEW n \in Nat PROVE Max((1..n) \cup {0}) = n
<1> DEFINE S == (1..n) \cup {0}
<1>1. n \in S /\ \A y \in S : n >= y
  OBVIOUS
<1>2. \A x \in S : (\A y \in S : x >= y) => x = n
  BY <1>1
<1>3. Max(S) \in S /\ \A y \in S : Max(S) >= y
  BY <1>1 DEF Max
<1> QED BY <1>2, <1>3

(* The attempts of a request are as many as its highest number.            *)
LEMMA HighestIsCount ==
  ASSUME HIInv, NEW r \in Requests
  PROVE  /\ IsFiniteSet(Of(r)) /\ Cardinality(Of(r)) \in 0..attempts
         /\ Highest(r) = Cardinality(Of(r))
<1>1. attempts \in Nat
  BY HistoryAssumption DEF HIInv, HTypeOK
<1>2. IsFiniteSet(1..attempts) /\ Cardinality(1..attempts) = attempts
  BY <1>1, FS_Interval
<1>3. IsFiniteSet(Of(r)) /\ Cardinality(Of(r)) <= attempts
  BY <1>2, FS_Subset DEF Of
<1>4. Cardinality(Of(r)) \in Nat
  BY <1>3, FS_CardinalityType
<1>5. {number[e] : e \in Of(r)} = 1..Cardinality(Of(r))
  BY DEF HIInv, HistoryInv, NumbersRunOn
<1>6. Highest(r) = Cardinality(Of(r))
  BY <1>4, <1>5, MaxUpTo DEF Highest
<1> QED BY <1>1, <1>3, <1>4, <1>6

(* A thread that writes has an attempt of its own.                         *)
LEMMA WriterHasAttempt ==
  ASSUME HIInv, NEW c \in Threads, pc[c] \in Writing
  PROVE  attempt[c] \in 1..attempts /\ attempt[c] \in Attempts /\ Reached(c, attempt[c])
<1>1. attempt[c] \in 1..attempts /\ Reached(c, attempt[c])
  BY DEF HIInv, HistoryInv, Local
<1>2. attempts \in 0..MaxAttempts /\ MaxAttempts \in Nat
  BY HistoryAssumption DEF HIInv, HTypeOK
<1> QED BY <1>1, <1>2 DEF Attempts

(* Every step keeps the types.                                             *)
LEMMA StepTypes == HIInv /\ [HNext]_hvars => HTypeOK'
<1> SUFFICES ASSUME HIInv, [HNext]_hvars PROVE HTypeOK'
  OBVIOUS
<1>1. TypeOK'
  BY CellIInv DEF IInv
<1>0. \A r \in Requests : Highest(r) \in 0..attempts
  BY HighestIsCount
<1>01. \A c \in Threads : pc[c] \in Writing => attempt[c] \in Attempts
  BY WriterHasAttempt
<1>02. 0 \in 0..MaxAttempts
  BY HistoryAssumption
<1>00. MaxAttempts \in Nat /\ attempts \in 0..MaxAttempts
  BY HistoryAssumption DEF HIInv, HTypeOK
<1> USE <1>1, HistoryAssumption, NoneAssumption, MaxGrantsAssumption
    DEF HTypeOK, HIInv, Goto, rows, Attempts, Labels
<1>2. ASSUME NEW c \in Threads, NEW r \in Requests, Acquire(c, r) PROVE HTypeOK'
  <2>1. Fresh \in Tokens
    BY <1>2 DEF Acquire, TryAcquire, Fresh, Tokens, TypeOK
  <2> QED BY <1>2, <2>1 DEF Acquire
<1>3. ASSUME NEW c \in Threads, Refused(c) \/ LookForOpen(c) \/ CheckBeforeStep(c)
                                \/ CheckAfterStep(c)
      PROVE  HTypeOK'
  BY <1>3 DEF Refused, LookForOpen, CheckBeforeStep, CheckAfterStep
<1>4. ASSUME NEW c \in Threads, ReadNumber(c) PROVE HTypeOK'
  <2>1. request[c] \in Requests
    BY <1>4 DEF ReadNumber, HistoryInv, Local, At
  <2>2. Highest(request[c]) \in 0..MaxAttempts
    BY <2>1, <1>0, <1>00
  <2>3. seen' \in [Threads -> 0..MaxAttempts]
    BY <1>4, <2>2 DEF ReadNumber
  <2> QED BY <1>4, <2>3 DEF ReadNumber
<1>5. ASSUME NEW c \in Threads, Insert(c) PROVE HTypeOK'
  <2>1. request[c] \in Requests /\ seen[c] = Highest(request[c])
    BY <1>5 DEF Insert, HistoryInv, Local, At
  <2>2. seen[c] \in 0..attempts
    BY <2>1, <1>0
  <2>3. CASE Taken(request[c], seen[c] + 1)
    BY <1>5, <2>3 DEF Insert
  <2>4. CASE ~Taken(request[c], seen[c] + 1)
    <3>1. attempts < MaxAttempts /\ attempts' = attempts + 1
      BY <1>5, <2>4 DEF Insert
    <3>2. attempts' \in 1..MaxAttempts /\ seen[c] + 1 \in 0..MaxAttempts
      BY <2>2, <3>1, <1>00
    <3>3. requestOf' \in [Attempts -> Requests \cup {None}]
      BY <1>5, <2>1, <2>4, <3>2 DEF Insert
    <3>4. number' \in [Attempts -> 0..MaxAttempts]
      BY <1>5, <2>4, <3>2 DEF Insert
    <3>5. attempt' \in [Threads -> Attempts \cup {None}]
      BY <1>5, <2>4, <3>2 DEF Insert
    <3>6. pc' \in [Threads -> Labels]
      BY <1>5, <2>4 DEF Insert
    <3>7. UNCHANGED <<states, results, request, token, seen, verdict, faults, cut>>
      BY <1>5, <2>4 DEF Insert
    <3>8. attempts' \in 0..MaxAttempts
      BY <3>2, <1>00
    <3> QED BY <3>3, <3>4, <3>5, <3>6, <3>7, <3>8
  <2> QED BY <2>3, <2>4
<1>6. ASSUME NEW c \in Threads, GoAccepted(c) \/ GoExecuting(c) \/ GoFinal(c)
      PROVE  HTypeOK'
  <2>1. PICK s \in States, l \in Labels : Go(c, s, l)
    <3>1. CASE GoAccepted(c)
      BY <3>1 DEF GoAccepted, States
    <3>2. CASE GoExecuting(c)
      BY <3>2 DEF GoExecuting, States
    <3>3. CASE GoFinal(c)
      BY <3>3 DEF GoFinal, States, HistoryInv, Local, At, Reached, Writing
    <3> QED BY <1>6, <3>1, <3>2, <3>3
  <2>2. attempt[c] \in Attempts
    BY <1>6, <1>01 DEF GoAccepted, GoExecuting, GoFinal, At, Writing
  <2>3. Append(states[attempt[c]], s) \in Seq(States) /\ s \in States
    BY <2>1, <2>2, LastOfAppend
  <2>4. states' \in [Attempts -> Seq(States)] /\ pc' \in [Threads -> Labels]
    <3>1. CASE Allowed(attempt[c], s)
      <4>1. /\ states' = [states EXCEPT ![attempt[c]] = Append(states[attempt[c]], s)]
            /\ pc' = [pc EXCEPT ![c] = l]
        BY <2>1, <3>1 DEF Go
      <4>2. states' \in [Attempts -> Seq(States)]
        BY <2>2, <2>3, <4>1
      <4> QED BY <4>1, <4>2
    <3>2. CASE ~Allowed(attempt[c], s)
      BY <2>1, <3>2 DEF Go
    <3> QED BY <3>1, <3>2
  <2> QED BY <2>1, <2>4 DEF Go
<1>7. ASSUME NEW c \in Threads, RunStep(c) \/ RecordResult(c) PROVE HTypeOK'
  <2>1. attempt[c] \in Attempts
    BY <1>7, <1>01 DEF RunStep, RecordResult, At, Writing, Running
  <2>2. PICK s \in Terminal, final \in BOOLEAN : AppendResult(attempt[c], s, final)
    <3>1. CASE RunStep(c)
      BY <3>1 DEF RunStep, StepStates, Terminal
    <3>2. CASE RecordResult(c)
      BY <3>2 DEF RecordResult, HistoryInv, Local, At, Reached, Writing
    <3> QED BY <1>7, <3>1, <3>2
  <2>3. [state |-> s, final |-> final] \in Results
    BY DEF Results
  <2>4. Append(results[attempt[c]], [state |-> s, final |-> final]) \in Seq(Results)
    BY <2>1, <2>3, LastOfAppend
  <2>5. results' \in [Attempts -> Seq(Results)]
    BY <2>1, <2>2, <2>4 DEF AppendResult
  <2>6. pc' \in [Threads -> Labels]
    BY <1>7 DEF RunStep, RecordResult
  <2> QED BY <1>7, <2>5, <2>6 DEF RunStep, RecordResult
<1>8. ASSUME NEW c \in Threads, Halt(c) PROVE HTypeOK'
  <2>1. attempt[c] \in Attempts
    BY <1>8, <1>01 DEF Halt, At, Writing, Running
  <2>2. "stopping" \in States /\ "stopped" \in Terminal
    BY DEF States, Terminal
  <2>3. Append(states[attempt[c]], "stopping") \in Seq(States)
    BY <2>1, <2>2, LastOfAppend
  <2>4. states' \in [Attempts -> Seq(States)] /\ pc' \in [Threads -> Labels]
        /\ verdict' \in [Threads -> Terminal \cup {None}]
    BY <1>8, <2>1, <2>2, <2>3 DEF Halt
  <2> QED BY <1>8, <2>4 DEF Halt
<1>9. ASSUME NEW c \in Threads, Judge(c) PROVE HTypeOK'
  BY <1>9 DEF Judge, Verdicts, Terminal
<1>10. ASSUME NEW c \in Threads, Leave(c) PROVE HTypeOK'
  <2>1. seen' \in [Threads -> 0..MaxAttempts]
    BY <1>10, <1>02 DEF Leave
  <2> QED BY <1>10, <2>1 DEF Leave
<1>11. ASSUME NEW c \in Threads, Raise(c) PROVE HTypeOK'
  <2>1. Mine(c) \subseteq Attempts
    BY DEF Mine
  <2>2. faults' \in 0..MaxFaults
    BY <1>11 DEF Raise
  <2> QED BY <1>11, <2>1, <2>2 DEF Raise
<1>12. CASE Crash
  <2>1. UNION {Mine(c) : c \in {d \in Threads : ~At(d, "leave")}} \subseteq Attempts
    BY DEF Mine
  <2>2. faults' \in 0..MaxFaults
    BY <1>12 DEF Crash
  <2>3. seen' \in [Threads -> 0..MaxAttempts] /\ pc' \in [Threads -> Labels]
    BY <1>12, <1>02 DEF Crash
  <2>4. cut' \subseteq Attempts
    BY <1>12, <2>1 DEF Crash
  <2>5. /\ token' \in [Threads -> Tokens \cup {None}]
        /\ request' \in [Threads -> Requests \cup {None}]
        /\ attempt' \in [Threads -> Attempts \cup {None}]
        /\ verdict' \in [Threads -> Terminal \cup {None}]
    BY <1>12 DEF Crash
  <2>6. UNCHANGED rows
    BY <1>12 DEF Crash
  <2> QED BY <2>2, <2>3, <2>4, <2>5, <2>6
<1>13. CASE Others
  BY <1>13 DEF Others, locals
<1>14. CASE UNCHANGED hvars
  BY <1>14 DEF hvars, locals
<1> QED
  BY <1>2, <1>3, <1>4, <1>5, <1>6, <1>7, <1>8, <1>9, <1>10, <1>11, <1>12, <1>13, <1>14
  DEF HNext, Proceed

-----------------------------------------------------------------------------
(* What each action does to the invariant.                                 *)

LEMMA AcquireKeeps ==
  ASSUME HIInv, NEW c \in Threads, NEW r \in Requests, Acquire(c, r), HTypeOK'
  PROVE  HistoryInv'
<1> USE DEF HIInv, rows, Goto
<1>1. lease = None /\ lease' = Fresh /\ Fresh # None
  BY NoneAssumption DEF Acquire, TryAcquire, Acquirable, Fresh, HTypeOK, TypeOK
<1>2. \A d \in Threads : At(d, "idle") /\ token[d] = None /\ attempt[d] = None
  BY <1>1 DEF HistoryInv, Local
<1>3. pc' = [pc EXCEPT ![c] = "look"] /\ pc \in [Threads -> Labels]
  BY DEF Acquire, HTypeOK
<1>4. \A d \in Threads : d # c => At(d, "idle")' /\ token'[d] = None /\ attempt'[d] = None
  BY <1>2, <1>3 DEF At, Acquire, HTypeOK
<1>5. OneThread'
  BY <1>4 DEF OneThread
<1>6. Table' /\ NumbersRunOn' /\ OnlyTheLastIsOpen' /\ EndsHaveResults' /\ Closed'
  BY DEF Acquire, HistoryInv, Table, NumbersRunOn, Of, OnlyTheLastIsOpen, Open,
         EndsHaveResults, Ended, Settled, Closed, Finished
<1>7. Local(c)'
  <2>1. At(c, "look")' /\ token'[c] = Fresh /\ request'[c] = r /\ attempt'[c] = None
    BY <1>2, <1>3 DEF At, Acquire, HTypeOK
  <2> QED BY <1>1, <2>1 DEF Local, At, Writing, Running
<1>8. \A d \in Threads : Local(d)'
  <2> SUFFICES ASSUME NEW d \in Threads, d # c PROVE Local(d)'
    BY <1>7
  <2> QED BY <1>4 DEF Local, At, Writing, Running
<1> QED BY <1>5, <1>6, <1>8 DEF HistoryInv

(* Refusals, the look for an open attempt and the read of the number.      *)
LEMMA ReadsKeep ==
  ASSUME HIInv, NEW c \in Threads, Refused(c) \/ LookForOpen(c) \/ ReadNumber(c), HTypeOK'
  PROVE  HistoryInv'
<1> USE DEF rows, cell, vars
<1>1. pc \in [Threads -> Labels] /\ seen \in [Threads -> 0..MaxAttempts] /\ ~At(c, "idle")
  BY DEF HIInv, HTypeOK, Refused, LookForOpen, ReadNumber, At
<1>2. /\ lease # None /\ token[c] = lease /\ request[c] \in Requests
      /\ pc[c] \in {"look", "number"} /\ attempt[c] = None
      /\ At(c, "number") => \A e \in Of(request[c]) : ~Open(e)
  BY <1>1 DEF HIInv, HistoryInv, Local, At, Refused, LookForOpen, ReadNumber
<1>3. UNCHANGED <<lease, rows, token, request, attempt, cut>>
  BY DEF Refused, LookForOpen, ReadNumber
<1>4. \A r : Of(r)' = Of(r)
  BY <1>3 DEF Of
<1>5. \A e \in Attempts : Open(e)' = Open(e)
  BY <1>3 DEF Open
<1>6. CASE Goto(c, "leave")
  <2>1. At(c, "leave")'
    BY <1>1, <1>6 DEF Goto, At
  <2>2. Local(c)'
    BY <1>2, <1>3, <2>1 DEF Local, At, Writing, Running
  <2> QED BY <1>1, <1>3, <1>6, <2>2, LocalStep DEF Labels
<1>7. CASE LookForOpen(c) /\ Goto(c, "number")
  <2>1. At(c, "number")'
    BY <1>1, <1>7 DEF Goto, At
  <2>2. \A e \in Of(request[c]) : ~Open(e)
    <3>1. pc' # [pc EXCEPT ![c] = "leave"]
      BY <1>1, <2>1 DEF At
    <3> QED BY <1>7, <3>1 DEF LookForOpen, Goto
  <2>3. \A e \in Of(request[c])' : ~Open(e)'
    BY <2>2, <1>3, <1>4 DEF Open
  <2>4. Local(c)'
    BY <1>2, <1>3, <2>1, <2>3 DEF Local, At, Writing, Running
  <2> QED BY <1>1, <1>3, <1>7, <2>4, LocalStep DEF Labels
<1>8. CASE ReadNumber(c)
  <2>1. At(c, "number") /\ At(c, "insert")' /\ seen'[c] = Highest(request[c])
    BY <1>1, <1>8 DEF ReadNumber, Goto, At
  <2>2. Highest(request[c])' = Highest(request[c])
    BY <1>3 DEF Highest, Of
  <2>3. \A e \in Of(request[c])' : ~Open(e)'
    BY <2>1, <1>2, <1>3, <1>4 DEF Open
  <2>4. Local(c)'
    BY <1>2, <1>3, <2>1, <2>2, <2>3 DEF Local, At, Writing, Running
  <2>5. Goto(c, "insert")
    BY <1>8 DEF ReadNumber
  <2> QED BY <1>1, <1>3, <2>4, <2>5, LocalStep DEF Labels
<1>9. CASE Refused(c)
  BY <1>6, <1>9 DEF Refused
<1>10. CASE LookForOpen(c)
  BY <1>6, <1>7, <1>10 DEF LookForOpen
<1> QED BY <1>8, <1>9, <1>10

(* A new attempt gets the next number, and all before it have a result:    *)
(* what the two reads found is still so, since no other thread is here.    *)
LEMMA InsertKeeps ==
  ASSUME HIInv, NEW c \in Threads, Insert(c), HTypeOK'
  PROVE  HistoryInv'
<1> USE DEF rows, cell, vars
<1> DEFINE r == request[c]
           e == attempts + 1
           n == Cardinality(Of(r))
<1>1. pc \in [Threads -> Labels] /\ ~At(c, "idle") /\ attempt \in [Threads -> Attempts \cup {None}]
  BY DEF HIInv, HTypeOK, Insert, At
<1>2. /\ lease # None /\ token[c] = lease /\ r \in Requests
      /\ pc[c] = "insert" /\ attempt[c] = None /\ seen[c] = Highest(r)
      /\ \A f \in Of(r) : ~Open(f)
  BY <1>1 DEF HIInv, HistoryInv, Local, At, Insert
<1>3. UNCHANGED <<lease, token, request, cut>>
  BY DEF Insert
<1>4. CASE Taken(r, seen[c] + 1)
  <2>1. Goto(c, "leave") /\ UNCHANGED <<rows, attempt>>
    BY <1>4 DEF Insert
  <2>2. At(c, "leave")'
    BY <1>1, <2>1 DEF Goto, At
  <2>3. Local(c)'
    BY <1>2, <1>3, <2>1, <2>2 DEF Local, At, Writing, Running
  <2> QED BY <1>1, <1>3, <2>1, <2>3, LocalStep DEF Labels
<1>5. CASE ~Taken(r, seen[c] + 1)
  <2>1. /\ attempts < MaxAttempts /\ attempts' = e
        /\ requestOf' = [requestOf EXCEPT ![e] = r]
        /\ number' = [number EXCEPT ![e] = seen[c] + 1]
        /\ attempt' = [attempt EXCEPT ![c] = e]
        /\ pc' = [pc EXCEPT ![c] = "accept"]
        /\ UNCHANGED <<states, results>>
    BY <1>5 DEF Insert, Goto
  <2>0. attempts \in 0..MaxAttempts /\ MaxAttempts \in Nat
    BY HistoryAssumption DEF HIInv, HTypeOK
  <2>2. /\ attempts \in Nat /\ MaxAttempts \in Nat /\ e \in Attempts /\ e \notin 1..attempts
        /\ 1..attempts' = (1..attempts) \cup {e} /\ 1..attempts \subseteq Attempts
    BY <2>0, <2>1 DEF Attempts
  <2>3. requestOf \in [Attempts -> Requests \cup {None}] /\ number \in [Attempts -> 0..MaxAttempts]
    BY DEF HIInv, HTypeOK
  <2>4. states[e] = <<>> /\ results[e] = <<>>
    BY <2>2 DEF HIInv, HistoryInv, Table
  <2>5. /\ requestOf'[e] = r /\ number'[e] = seen[c] + 1
        /\ \A f \in 1..attempts : requestOf'[f] = requestOf[f] /\ number'[f] = number[f]
    BY <2>1, <2>2, <2>3
  <2>6. \A q : q = r => Of(q)' = Of(q) \cup {e} /\ e \notin Of(q)
    BY <2>1, <2>2, <2>5 DEF Of
  <2>7. \A q : q # r => Of(q)' = Of(q)
    BY <2>1, <2>2, <2>5 DEF Of
  <2>8. IsFiniteSet(Of(r)) /\ n \in Nat /\ seen[c] = n
    BY <1>2, <2>2, HighestIsCount
  <2>9. \A q \in Requests : {number[f] : f \in Of(q)} = 1..Cardinality(Of(q))
    BY DEF HIInv, HistoryInv, NumbersRunOn
  <2>10. NumbersRunOn'
    <3> SUFFICES ASSUME NEW q \in Requests
                 PROVE  {number'[f] : f \in Of(q)'} = 1..Cardinality(Of(q)')
      BY DEF NumbersRunOn
    <3>1. \A f \in Of(q) : number'[f] = number[f]
      BY <2>5 DEF Of
    <3>2. CASE q # r
      BY <3>1, <3>2, <2>7, <2>9
    <3>3. CASE q = r
      <4>1. Cardinality(Of(q)') = n + 1
        <5>1. Of(q)' = Of(q) \cup {e} /\ e \notin Of(q) /\ Of(q) = Of(r)
          BY <3>3, <2>6
        <5> QED BY <5>1, <2>8, FS_AddElement
      <4>2. {number'[f] : f \in Of(q)'} = {number[f] : f \in Of(q)} \cup {n + 1}
        <5>1. Of(q)' = Of(q) \cup {e} /\ number'[e] = n + 1
          BY <3>3, <2>5, <2>6, <2>8
        <5> HIDE DEF e, n
        <5> QED BY <5>1, <3>1
      <4>3. {number[f] : f \in Of(q)} = 1..n
        BY <2>9, <3>3
      <4>4. 1..(n + 1) = (1..n) \cup {n + 1}
        BY <2>8
      <4> QED BY <4>1, <4>2, <4>3, <4>4
    <3> QED BY <3>2, <3>3
  <2>11. OnlyTheLastIsOpen'
    <3> SUFFICES ASSUME NEW f \in 1..attempts', NEW g \in 1..attempts',
                        requestOf'[f] = requestOf'[g], number'[f] < number'[g]
                 PROVE  ~Open(f)'
      BY DEF OnlyTheLastIsOpen
    <3>1. f # g
      <4>1. number'[f] \in Nat
        BY <2>2, <2>1 DEF HTypeOK, Attempts
      <4> QED BY <4>1
    <3>2. CASE g = e
      <4>1. f \in Of(r)
        BY <3>1, <3>2, <2>2, <2>5 DEF Of
      <4> QED BY <4>1, <1>2, <2>1 DEF Open
    <3>3. CASE f = e
      <4>1. g \in Of(r)
        BY <3>1, <3>3, <2>2, <2>5 DEF Of
      <4>2. number[g] \in 1..n
        BY <4>1, <2>9, <1>2
      <4>3. number'[g] = number[g] /\ number'[f] = n + 1
        BY <3>1, <3>3, <2>2, <2>5, <2>8
      <4> QED BY <4>2, <4>3, <2>8
    <3>4. CASE f # e /\ g # e
      BY <3>4, <2>1, <2>2, <2>5 DEF HIInv, HistoryInv, OnlyTheLastIsOpen, Open
    <3> QED BY <3>2, <3>3, <3>4
  <2>12. EndsHaveResults'
    BY <2>1, <2>2, <2>4 DEF HIInv, HistoryInv, EndsHaveResults, Ended, Settled
  <2>13. Table'
    <3> SUFFICES ASSUME NEW f \in Attempts
                 PROVE  IF f \in 1..attempts' THEN requestOf'[f] \in Requests
                        ELSE requestOf'[f] = None /\ states'[f] = <<>> /\ results'[f] = <<>>
      BY DEF Table
    <3> QED BY <1>2, <2>1, <2>2, <2>3 DEF HIInv, HistoryInv, Table
  <2>14. Closed'
    <3> SUFFICES ASSUME NEW f \in 1..attempts'
                 PROVE  Finished(f)' \/ \E d \in Threads : attempt'[d] = f
      BY DEF Closed
    <3>1. CASE f = e
      BY <3>1, <1>1, <2>1
    <3>2. CASE f # e
      <4>1. f \in 1..attempts
        BY <3>2, <2>2
      <4>2. CASE Finished(f)
        BY <4>1, <4>2, <2>1, <2>5, <1>3 DEF Finished, Ended
      <4>3. CASE \E d \in Threads : attempt[d] = f
        <5>1. PICK d \in Threads : attempt[d] = f
          BY <4>3
        <5>2. d # c
          BY <5>1, <1>2, <4>1, NoneAssumption
        <5> QED BY <5>1, <5>2, <1>1, <2>1
      <4> QED BY <4>1, <4>2, <4>3 DEF HIInv, HistoryInv, Closed
    <3> QED BY <3>1, <3>2
  <2>15. Local(c)'
    <3>1. At(c, "accept")' /\ attempt'[c] = e
      BY <1>1, <2>1 DEF At
    <3>2. Reached(c, attempt[c])'
      BY <3>1, <2>1, <2>4 DEF Reached, At, OnlySteps, Running
    <3> QED BY <3>1, <3>2, <1>2, <1>3, <2>1, <2>2 DEF Local, At, Writing, Running
  <2>16. \A d \in Threads : d # c => At(d, "idle")' /\ token'[d] = None /\ attempt'[d] = None
    BY <1>1, <1>3, <2>1, OthersIdle DEF HIInv, At
  <2>17. \A d \in Threads : Local(d)'
    BY <2>15, <2>16 DEF Local, At, Writing, Running
  <2>18. OneThread'
    BY <2>16 DEF OneThread
  <2> QED BY <2>10, <2>11, <2>12, <2>13, <2>14, <2>17, <2>18 DEF HistoryInv
<1> QED BY <1>4, <1>5

(* The first two states are written: the table allows them.                *)
LEMMA GoKeeps ==
  ASSUME HIInv, NEW c \in Threads, GoAccepted(c) \/ GoExecuting(c), HTypeOK'
  PROVE  HistoryInv'
<1> USE DEF cell, vars
<1> DEFINE e == attempt[c]
           s == IF At(c, "accept") THEN "accepted" ELSE "executing"
           l == IF At(c, "accept") THEN "execute" ELSE "check"
<1>1. pc \in [Threads -> Labels] /\ ~At(c, "idle") /\ pc[c] \in {"accept", "execute"}
  BY DEF HIInv, HTypeOK, GoAccepted, GoExecuting, At
<1>2. e \in 1..attempts /\ e \in Attempts /\ Reached(c, e)
  BY <1>1, WriterHasAttempt DEF Writing
<1>3. states \in [Attempts -> Seq(States)]
  BY DEF HIInv, HTypeOK
<1>4. Go(c, s, l)
  BY DEF GoAccepted, GoExecuting, At
<1>5. Allowed(e, s)
  BY <1>1, <1>2 DEF Reached, Now, At, Allowed, Successors, States
<1>6. /\ states' = [states EXCEPT ![e] = Append(states[e], s)] /\ pc' = [pc EXCEPT ![c] = l]
      /\ UNCHANGED <<lease, attempts, requestOf, number, results, token, attempt, cut,
                     request>>
  BY <1>4, <1>5 DEF Go, Goto
<1>7. ~Ended(e) /\ s \in States /\ s \notin Terminal
  BY <1>1, <1>2 DEF Reached, Now, Ended, At, States, Terminal
<1>8. states'[e] # <<>> /\ Last(states'[e]) = s
  <2> HIDE DEF s
  <2> QED BY <1>2, <1>3, <1>6, <1>7, LastOfAppend
<1>9. OnlySteps(e)
  BY <1>1, <1>2 DEF Reached
<1>10. Local(c)'
  <2>1. pc'[c] = l /\ attempt'[c] = e
    BY <1>1, <1>6
  <2>2. OnlySteps(attempt[c])'
    BY <1>6, <1>9 DEF OnlySteps
  <2>4. Reached(c, attempt[c])'
    BY <1>1, <2>1, <2>2, <1>6, <1>8 DEF Reached, Now, At, Running
  <2>5. lease # None /\ token[c] = lease /\ request[c] \in Requests
    BY <1>1 DEF HIInv, HistoryInv, Local
  <2>6. l \in {"execute", "check"}
    OBVIOUS
  <2> HIDE DEF l, s, e
  <2> QED BY <1>2, <1>6, <2>1, <2>4, <2>5, <2>6 DEF Local, At, Writing, Running
<1>11. Goto(c, l) /\ l \in Labels \ {"idle"}
  BY <1>6 DEF Goto, Labels
<1> HIDE DEF l, s
<1> QED BY <1>1, <1>2, <1>6, <1>7, <1>10, <1>11, StateStep

(* The looks at the stop and the cancel.                                   *)
LEMMA ChecksKeep ==
  ASSUME HIInv, NEW c \in Threads, CheckBeforeStep(c) \/ CheckAfterStep(c), HTypeOK'
  PROVE  HistoryInv'
<1> USE DEF cell, vars, rows
<1>1. pc \in [Threads -> Labels] /\ ~At(c, "idle") /\ pc[c] \in {"check", "after"}
  BY DEF HIInv, HTypeOK, CheckBeforeStep, CheckAfterStep, At
<1>2. attempt[c] \in 1..attempts /\ Reached(c, attempt[c])
  BY <1>1, WriterHasAttempt DEF Writing, Running
<1>3. Now(attempt[c], "executing") /\ OnlySteps(attempt[c])
  BY <1>1, <1>2 DEF Reached, Running
<1>4. PICK l \in {"halt", "step", "judge", "check"} : Goto(c, l)
  BY DEF CheckBeforeStep, CheckAfterStep
<1>5. UNCHANGED <<lease, attempts, requestOf, number, states, results, token, request,
                  attempt, cut>>
  BY DEF CheckBeforeStep, CheckAfterStep
<1>6. Local(c)'
  <2>1. pc'[c] = l
    BY <1>1, <1>4 DEF Goto
  <2>2. Now(attempt[c], "executing")' /\ OnlySteps(attempt[c])'
    BY <1>3, <1>5 DEF Now, OnlySteps
  <2>3. Reached(c, attempt[c])'
    BY <2>1, <2>2 DEF Reached, At, Running
  <2>4. lease # None /\ token[c] = lease /\ request[c] \in Requests
    BY <1>1 DEF HIInv, HistoryInv, Local
  <2> QED BY <1>2, <1>5, <2>1, <2>3, <2>4 DEF Local, At, Writing, Running
<1>7. l \in Labels \ {"idle"}
  BY DEF Labels
<1> QED BY <1>1, <1>4, <1>5, <1>6, <1>7, LocalStep

LEMMA RunStepKeeps ==
  ASSUME HIInv, NEW c \in Threads, RunStep(c), HTypeOK'
  PROVE  HistoryInv'
<1> USE DEF cell, vars
<1> DEFINE e == attempt[c]
<1>1. pc \in [Threads -> Labels] /\ ~At(c, "idle") /\ pc[c] = "step"
  BY DEF HIInv, HTypeOK, RunStep, At
<1>2. e \in 1..attempts /\ e \in Attempts /\ Reached(c, e)
  BY <1>1, WriterHasAttempt DEF Writing, Running
<1>3. Now(e, "executing") /\ OnlySteps(e)
  BY <1>1, <1>2 DEF Reached, Running
<1>4. PICK s \in StepStates(e) : AppendResult(e, s, FALSE)
  BY DEF RunStep
<1>5. s \in Terminal /\ (s = "stopped" => requestOf[e] \in StopPlans)
  BY DEF StepStates, Terminal
<1>6. /\ Goto(c, "after")
      /\ UNCHANGED <<lease, attempts, requestOf, number, states, token, request,
                     attempt, cut>>
  BY DEF RunStep
<1>7. ~Ended(e)
  BY <1>3 DEF Now, Ended, Terminal
<1>8. OnlySteps(attempt[c])'
  <2>1. results \in [Attempts -> Seq(Results)]
    BY DEF HIInv, HTypeOK
  <2>2. [state |-> s, final |-> FALSE] \in Results
    BY <1>5 DEF Results
  <2>3. results'[e] = Append(results[e], [state |-> s, final |-> FALSE])
    BY <1>2, <1>4, <2>1 DEF AppendResult
  <2>4. /\ Len(results'[e]) = Len(results[e]) + 1 /\ Len(results[e]) \in Nat
        /\ \A i \in 1..Len(results[e]) : results'[e][i] = results[e][i]
        /\ results'[e][Len(results[e]) + 1] = [state |-> s, final |-> FALSE]
    BY <1>2, <2>1, <2>2, <2>3, LastOfAppend
  <2>5. SUFFICES ASSUME NEW i \in 1..Len(results'[e]), results'[e][i].state = "stopped"
                 PROVE  requestOf[e] \in StopPlans
    BY <1>6 DEF OnlySteps
  <2>6. CASE i \in 1..Len(results[e])
    BY <1>3, <2>4, <2>5, <2>6 DEF OnlySteps
  <2>7. CASE i = Len(results[e]) + 1
    BY <1>5, <2>4, <2>5, <2>7
  <2> QED BY <2>4, <2>6, <2>7
<1>9. Local(c)'
  <2>1. pc'[c] = "after"
    BY <1>1, <1>6 DEF Goto
  <2>2. Now(attempt[c], "executing")'
    BY <1>3, <1>6 DEF Now
  <2>3. Reached(c, attempt[c])'
    BY <2>1, <2>2, <1>8 DEF Reached, At, Running
  <2>4. lease # None /\ token[c] = lease /\ request[c] \in Requests
    BY <1>1 DEF HIInv, HistoryInv, Local
  <2> QED BY <1>2, <1>6, <2>1, <2>3, <2>4 DEF Local, At, Writing, Running
<1>10. "after" \in Labels \ {"idle"}
  BY DEF Labels
<1> QED BY <1>1, <1>2, <1>4, <1>5, <1>6, <1>7, <1>9, <1>10, ResultStep

(* An attempt that is interrupted, and one that is judged.                 *)
LEMMA HaltKeeps ==
  ASSUME HIInv, NEW c \in Threads, Halt(c), HTypeOK'
  PROVE  HistoryInv'
<1> USE DEF cell, vars
<1> DEFINE e == attempt[c]
<1>1. pc \in [Threads -> Labels] /\ ~At(c, "idle") /\ pc[c] = "halt"
  BY DEF HIInv, HTypeOK, Halt, At
<1>2. e \in 1..attempts /\ e \in Attempts /\ Reached(c, e)
  BY <1>1, WriterHasAttempt DEF Writing, Running
<1>3. ~Ended(e)
  BY <1>1, <1>2 DEF Reached, Running, Now, Ended, Terminal
<1>4. /\ Goto(c, "result") /\ states' = [states EXCEPT ![e] = Append(states[e], "stopping")]
      /\ verdict' = [verdict EXCEPT ![c] = "stopped"]
      /\ UNCHANGED <<lease, attempts, requestOf, number, results, token, request,
                     attempt, cut>>
  BY DEF Halt
<1>5. "stopping" \in States /\ "stopping" \notin Terminal /\ "stopped" \in Terminal
  BY DEF States, Terminal
<1>6. states'[e] # <<>> /\ Last(states'[e]) = "stopping"
  <2>1. states \in [Attempts -> Seq(States)]
    BY DEF HIInv, HTypeOK
  <2> QED BY <1>2, <1>4, <1>5, <2>1, LastOfAppend
<1>7. Local(c)'
  <2>1. pc'[c] = "result" /\ verdict'[c] = "stopped"
    BY <1>1, <1>4 DEF Goto, HIInv, HTypeOK
  <2>2. Now(attempt[c], "stopping")'
    BY <1>4, <1>6 DEF Now
  <2>3. Reached(c, attempt[c])'
    BY <2>1, <2>2, <1>5 DEF Reached, At, Running
  <2>4. lease # None /\ token[c] = lease /\ request[c] \in Requests
    BY <1>1 DEF HIInv, HistoryInv, Local
  <2> QED BY <1>2, <1>4, <2>1, <2>3, <2>4 DEF Local, At, Writing, Running
<1>8. "result" \in Labels \ {"idle"}
  BY DEF Labels
<1> QED BY <1>1, <1>2, <1>3, <1>4, <1>5, <1>7, <1>8, StateStep

LEMMA JudgeKeeps ==
  ASSUME HIInv, NEW c \in Threads, Judge(c), HTypeOK'
  PROVE  HistoryInv'
<1> USE DEF cell, vars, rows
<1> DEFINE e == attempt[c]
<1>1. pc \in [Threads -> Labels] /\ ~At(c, "idle") /\ pc[c] = "judge"
  BY DEF HIInv, HTypeOK, Judge, At
<1>2. e \in 1..attempts /\ e \in Attempts /\ Reached(c, e)
  BY <1>1, WriterHasAttempt DEF Writing, Running
<1>3. Now(e, "executing") /\ OnlySteps(e)
  BY <1>1, <1>2 DEF Reached, Running
<1>4. PICK s \in Verdicts(e) : verdict' = [verdict EXCEPT ![c] = s]
  BY DEF Judge
<1>5. s \in Terminal /\ (s = "stopped" => requestOf[e] \in StopPlans)
  BY <1>3 DEF Verdicts, OnlySteps, Terminal
<1>6. Goto(c, "result")
  BY DEF Judge
<1>7. UNCHANGED <<lease, attempts, requestOf, number, states, results, token, request,
                  attempt, cut>>
  BY DEF Judge
<1>8. Local(c)'
  <2>1. pc'[c] = "result" /\ verdict'[c] = s
    BY <1>1, <1>4, <1>6 DEF Goto, HIInv, HTypeOK
  <2>2. Now(attempt[c], "executing")'
    BY <1>3, <1>7 DEF Now
  <2>3. Reached(c, attempt[c])'
    BY <2>1, <2>2, <1>5, <1>7 DEF Reached, At, Running
  <2>4. lease # None /\ token[c] = lease /\ request[c] \in Requests
    BY <1>1 DEF HIInv, HistoryInv, Local
  <2> QED BY <1>2, <1>7, <2>1, <2>3, <2>4 DEF Local, At, Writing, Running
<1>9. "result" \in Labels \ {"idle"}
  BY DEF Labels
<1> QED BY <1>1, <1>6, <1>7, <1>8, <1>9, LocalStep

(* The result of the whole, and the state it ends in.                      *)
LEMMA RecordResultKeeps ==
  ASSUME HIInv, NEW c \in Threads, RecordResult(c), HTypeOK'
  PROVE  HistoryInv'
<1> USE DEF cell, vars
<1> DEFINE e == attempt[c]
           s == verdict[c]
<1>1. pc \in [Threads -> Labels] /\ ~At(c, "idle") /\ pc[c] = "result"
  BY DEF HIInv, HTypeOK, RecordResult, At
<1>2. e \in 1..attempts /\ e \in Attempts /\ Reached(c, e)
  BY <1>1, WriterHasAttempt DEF Writing, Running
<1>3. /\ s \in Terminal
      /\ \/ Now(e, "executing") /\ (s = "stopped" => requestOf[e] \in StopPlans)
         \/ Now(e, "stopping") /\ s = "stopped"
  BY <1>1, <1>2 DEF Reached
<1>4. ~Ended(e)
  BY <1>3 DEF Now, Ended, Terminal
<1>5. /\ AppendResult(e, s, TRUE) /\ Goto(c, "state")
      /\ UNCHANGED <<lease, attempts, requestOf, number, states, token, request,
                     attempt, verdict, cut>>
  BY DEF RecordResult
<1>6. results'[e] # <<>> /\ Last(results'[e]) = [state |-> s, final |-> TRUE]
  <2>1. results \in [Attempts -> Seq(Results)]
    BY DEF HIInv, HTypeOK
  <2>2. [state |-> s, final |-> TRUE] \in Results
    BY <1>3 DEF Results
  <2> QED BY <1>2, <1>5, <2>1, <2>2, LastOfAppend DEF AppendResult
<1>7. Local(c)'
  <2>1. pc'[c] = "state"
    BY <1>1, <1>5 DEF Goto
  <2>2. /\ Now(attempt[c], "executing")' = Now(e, "executing")
        /\ Now(attempt[c], "stopping")' = Now(e, "stopping")
    BY <1>5 DEF Now
  <2>3. Reached(c, attempt[c])'
    BY <2>1, <2>2, <1>3, <1>5, <1>6 DEF Reached, At, Running
  <2>4. lease # None /\ token[c] = lease /\ request[c] \in Requests
    BY <1>1 DEF HIInv, HistoryInv, Local
  <2> QED BY <1>2, <1>5, <2>1, <2>3, <2>4 DEF Local, At, Writing, Running
<1>8. "state" \in Labels \ {"idle"}
  BY DEF Labels
<1> QED BY <1>1, <1>2, <1>3, <1>4, <1>5, <1>7, <1>8, ResultStep

LEMMA GoFinalKeeps ==
  ASSUME HIInv, NEW c \in Threads, GoFinal(c), HTypeOK'
  PROVE  HistoryInv'
<1> USE DEF cell, vars, rows
<1> DEFINE e == attempt[c]
           s == verdict[c]
<1>1. pc \in [Threads -> Labels] /\ ~At(c, "idle") /\ pc[c] = "state"
  BY DEF HIInv, HTypeOK, GoFinal, At
<1>2. e \in 1..attempts /\ e \in Attempts /\ Reached(c, e)
  BY <1>1, WriterHasAttempt DEF Writing, Running
<1>3. /\ s \in Terminal
      /\ \/ Now(e, "executing") /\ (s = "stopped" => requestOf[e] \in StopPlans)
         \/ Now(e, "stopping") /\ s = "stopped"
      /\ results[e] # <<>> /\ Last(results[e]) = [state |-> s, final |-> TRUE]
  BY <1>1, <1>2 DEF Reached, At
<1>4. ~Ended(e) /\ s \in States /\ Settled(e) /\ Last(results[e]).state = s
  BY <1>3 DEF Now, Ended, Terminal, States, Settled
<1>5. Go(c, s, "leave")
  BY DEF GoFinal
<1>6. UNCHANGED <<lease, attempts, requestOf, number, results, token, request,
                  attempt, cut>> /\ Goto(c, "leave")
  BY <1>5 DEF Go
<1>7. pc'[c] = "leave"
  BY <1>1, <1>6 DEF Goto
<1>8. lease # None /\ token[c] = lease /\ request[c] \in Requests
  BY <1>1 DEF HIInv, HistoryInv, Local
<1>9. "leave" \in Labels \ {"idle"}
  BY DEF Labels
<1>10. CASE Allowed(e, s)
  <2>1. states' = [states EXCEPT ![e] = Append(states[e], s)]
    BY <1>5, <1>10 DEF Go
  <2>2. states'[e] # <<>> /\ Last(states'[e]) = s
    <3>1. states \in [Attempts -> Seq(States)]
      BY DEF HIInv, HTypeOK
    <3> QED BY <1>2, <1>4, <2>1, <3>1, LastOfAppend
  <2>3. Finished(attempt[c])'
    BY <1>3, <1>6, <2>2 DEF Finished, Ended
  <2>4. Local(c)'
    BY <1>2, <1>6, <1>7, <1>8, <2>3 DEF Local, At, Writing, Running
  <2> QED BY <1>1, <1>2, <1>3, <1>4, <1>6, <1>9, <2>1, <2>4, StateStep
<1>11. CASE ~Allowed(e, s)
  <2>1. UNCHANGED states
    BY <1>5, <1>11 DEF Go
  <2>2. requestOf[e] \in StopPlans
    BY <1>3, <1>11 DEF Allowed, Now, Successors, Terminal
  <2>3. Finished(attempt[c])'
    BY <1>6, <2>2 DEF Finished
  <2>4. Local(c)'
    BY <1>2, <1>6, <1>7, <1>8, <2>3 DEF Local, At, Writing, Running
  <2> QED BY <1>1, <1>6, <1>9, <2>1, <2>4, LocalStep
<1> QED BY <1>10, <1>11

(* An exception leaves an attempt that is cut.                             *)
LEMMA RaiseKeeps ==
  ASSUME HIInv, NEW c \in Threads, Raise(c), HTypeOK'
  PROVE  HistoryInv'
<1> USE DEF cell, vars, rows
<1>1. pc \in [Threads -> Labels] /\ ~At(c, "idle") /\ ~At(c, "leave")
  BY DEF HIInv, HTypeOK, Raise, At
<1>2. /\ Goto(c, "leave") /\ cut' = cut \cup Mine(c)
      /\ UNCHANGED <<lease, rows, token, request, attempt>>
  BY DEF Raise
<1>3. attempt[c] # None => attempt[c] \in 1..attempts
  <2>1. pc[c] \in Writing \/ pc[c] \in {"look", "number", "insert"}
    BY <1>1 DEF At, Labels, Writing, Running
  <2> QED BY <2>1 DEF HIInv, HistoryInv, Local
<1>4. attempt[c] # None => Finished(attempt[c])'
  BY <1>2 DEF Mine, Finished
<1>5. lease # None /\ token[c] = lease /\ request[c] \in Requests
  BY <1>1 DEF HIInv, HistoryInv, Local
<1>6. pc'[c] = "leave"
  BY <1>1, <1>2 DEF Goto
<1>7. Local(c)'
  BY <1>2, <1>3, <1>4, <1>5, <1>6 DEF Local, At, Writing, Running
<1>8. "leave" \in Labels \ {"idle"}
  BY DEF Labels
<1> QED BY <1>1, <1>2, <1>7, <1>8, LocalStep

(* The thread that leaves hands the lease back; its attempt is finished.   *)
LEMMA LeaveKeeps ==
  ASSUME HIInv, NEW c \in Threads, Leave(c), HTypeOK'
  PROVE  HistoryInv'
<1> USE DEF rows
<1>1. /\ pc \in [Threads -> Labels] /\ attempt \in [Threads -> Attempts \cup {None}]
      /\ token \in [Threads -> Tokens \cup {None}] /\ ~At(c, "idle") /\ At(c, "leave")
  BY DEF HIInv, HTypeOK, Leave, At
<1>2. /\ pc' = [pc EXCEPT ![c] = "idle"] /\ attempt' = [attempt EXCEPT ![c] = None]
      /\ token' = [token EXCEPT ![c] = None] /\ UNCHANGED <<rows, cut>>
  BY DEF Leave, Goto
<1>3. \A d \in Threads : At(d, "idle")' /\ token'[d] = None /\ attempt'[d] = None
  <2>1. \A d \in Threads : d # c =>
            pc[d] = "idle" /\ token[d] = None /\ attempt[d] = None
    BY <1>1, OthersIdle DEF HIInv, At
  <2> QED BY <1>1, <1>2, <2>1 DEF At
<1>4. \A d \in Threads : Local(d)'
  BY <1>3 DEF Local, At, Writing, Running
<1>5. OneThread'
  BY <1>3 DEF OneThread
<1>6. Table' /\ NumbersRunOn' /\ OnlyTheLastIsOpen' /\ EndsHaveResults'
  <2> USE <1>2 DEF HIInv, HistoryInv
  <2>1. Table'
    BY DEF Table
  <2>2. NumbersRunOn'
    BY DEF NumbersRunOn, Of
  <2>3. OnlyTheLastIsOpen' /\ EndsHaveResults'
    BY DEF OnlyTheLastIsOpen, Open, EndsHaveResults, Ended, Settled
  <2> QED BY <2>1, <2>2, <2>3
<1>7. Closed'
  <2> SUFFICES ASSUME NEW e \in 1..attempts PROVE Finished(e)
    BY <1>2 DEF Closed, Finished, Ended
  <2>1. CASE \E d \in Threads : attempt[d] = e
    <3>1. PICK d \in Threads : attempt[d] = e
      BY <2>1
    <3>2. e # None
      BY NoneAssumption, HistoryAssumption DEF HIInv, HTypeOK
    <3>3. d = c
      BY <1>1, <3>1, <3>2, OthersIdle DEF HIInv
    <3> QED BY <1>1, <3>1, <3>2, <3>3 DEF HIInv, HistoryInv, Local
  <2> QED BY <2>1 DEF HIInv, HistoryInv, Closed
<1> QED BY <1>4, <1>5, <1>6, <1>7 DEF HistoryInv

(* A crash cuts what was under way.                                        *)
LEMMA CrashKeeps == HIInv /\ Crash => HistoryInv'
<1> SUFFICES ASSUME HIInv, Crash PROVE HistoryInv'
  OBVIOUS
<1> USE DEF rows
<1> DEFINE C == {d \in Threads : ~At(d, "leave")}
<1>1. /\ UNCHANGED rows /\ cut' = cut \cup UNION {Mine(c) : c \in C}
      /\ pc' = [c \in Threads |-> "idle"] /\ attempt' = [c \in Threads |-> None]
      /\ token' = [c \in Threads |-> None]
  BY DEF Crash
<1>2. \A d \in Threads : At(d, "idle")' /\ token'[d] = None /\ attempt'[d] = None
  BY <1>1 DEF At
<1>3. \A d \in Threads : Local(d)'
  BY <1>2 DEF Local, At, Writing, Running
<1>4. OneThread'
  BY <1>2 DEF OneThread
<1>5. Table' /\ NumbersRunOn' /\ OnlyTheLastIsOpen' /\ EndsHaveResults'
  BY <1>1 DEF HIInv, HistoryInv, Table, NumbersRunOn, Of, OnlyTheLastIsOpen, Open,
              EndsHaveResults, Ended, Settled
<1>6. Closed'
  <2> SUFFICES ASSUME NEW e \in 1..attempts PROVE Finished(e)'
    BY <1>1 DEF Closed
  <2>1. CASE Finished(e)
    BY <1>1, <2>1 DEF Finished, Ended
  <2>2. CASE \E d \in Threads : attempt[d] = e
    <3>1. PICK d \in Threads : attempt[d] = e
      BY <2>2
    <3>2. e # None
      BY NoneAssumption, HistoryAssumption DEF HIInv, HTypeOK
    <3>3. CASE At(d, "leave")
      BY <2>1, <3>1, <3>2, <3>3 DEF HIInv, HistoryInv, Local
    <3>4. CASE ~At(d, "leave")
      <4>1. e \in Mine(d) /\ d \in C
        BY <3>1, <3>2, <3>4 DEF Mine
      <4> QED BY <4>1, <1>1 DEF Finished
    <3> QED BY <3>3, <3>4
  <2> QED BY <2>1, <2>2 DEF HIInv, HistoryInv, Closed
<1> QED BY <1>3, <1>4, <1>5, <1>6 DEF HistoryInv

(* A step of somebody else, in which the thread in execute() keeps its     *)
(* lease.                                                                  *)
LEMMA OtherStep ==
  HIInv /\ UNCHANGED <<rows, locals, cut>>
        /\ (\A c \in Threads : ~At(c, "idle") => lease' = lease)
  => HistoryInv'
<1> SUFFICES ASSUME HIInv, UNCHANGED <<rows, locals, cut>>,
                    \A c \in Threads : ~At(c, "idle") => lease' = lease
             PROVE  HistoryInv'
  OBVIOUS
<1> USE DEF rows, locals
<1>1. \A c \in Threads : Local(c)'
  <2> SUFFICES ASSUME NEW c \in Threads PROVE Local(c)'
    OBVIOUS
  <2>1. Local(c) /\ (~At(c, "idle") => lease' = lease)
    BY DEF HIInv, HistoryInv
  <2>2. \A e : /\ Open(e)' = Open(e) /\ Finished(e)' = Finished(e)
               /\ Reached(c, e)' = Reached(c, e)
    BY DEF Open, Finished, Ended, Reached, Now, OnlySteps, At
  <2>3. Of(request[c])' = Of(request[c]) /\ Highest(request[c])' = Highest(request[c])
    BY DEF Of, Highest
  <2> QED BY <2>1, <2>2, <2>3 DEF Local, At
<1>2. OneThread' /\ Table' /\ NumbersRunOn' /\ OnlyTheLastIsOpen' /\ EndsHaveResults' /\ Closed'
  BY DEF HIInv, HistoryInv, OneThread, At, Table, NumbersRunOn, Of, OnlyTheLastIsOpen,
         Open, EndsHaveResults, Ended, Settled, Closed, Finished
<1> QED BY <1>1, <1>2 DEF HistoryInv

(* Other users of the cell cannot take the lease of the thread away.       *)
LEMMA OthersKeep == HIInv /\ Others => HistoryInv'
<1> SUFFICES ASSUME HIInv, Others PROVE HistoryInv'
  OBVIOUS
<1>1. UNCHANGED <<rows, locals, cut>>
  BY DEF Others
<1>2. ASSUME NEW c \in Threads, ~At(c, "idle") PROVE lease' = lease
  <2>1. lease # None /\ token[c] = lease
    BY <1>2 DEF HIInv, HistoryInv, Local
  <2>2. \A t : ~TryAcquire(t)
    BY <2>1 DEF TryAcquire, Acquirable
  <2>3. \A t \in leases \ {token[d] : d \in Threads} : ~Release(t)
    BY <2>1 DEF Release
  <2>4. CASE \E alongside \in BOOLEAN : Reserve(alongside)
    BY <2>4 DEF Reserve
  <2>5. CASE \E t \in Drawn : Unreserve(t)
    BY <2>5 DEF Unreserve
  <2> QED BY <2>2, <2>3, <2>4, <2>5 DEF Others
<1> QED BY <1>1, <1>2, OtherStep

-----------------------------------------------------------------------------

LEMMA HNextHIInv == HIInv /\ [HNext]_hvars => HIInv'
<1> SUFFICES ASSUME HIInv, [HNext]_hvars PROVE HIInv'
  OBVIOUS
<1>1. HTypeOK' /\ IInv'
  BY StepTypes, CellIInv
<1> SUFFICES HistoryInv'
  BY <1>1 DEF HIInv
<1>2. ASSUME NEW c \in Threads, Proceed(c) PROVE HistoryInv'
  BY <1>1, <1>2, ReadsKeep, InsertKeeps, GoKeeps, ChecksKeep, RunStepKeeps, HaltKeeps,
     JudgeKeeps, RecordResultKeeps, GoFinalKeeps, LeaveKeeps DEF Proceed
<1>3. CASE UNCHANGED hvars
  <2>1. UNCHANGED <<rows, locals, cut>> /\ lease' = lease
    BY <1>3 DEF hvars, cell, vars
  <2> QED BY <2>1, OtherStep
<1>4. ASSUME NEW c \in Threads, NEW r \in Requests, Acquire(c, r) PROVE HistoryInv'
  BY <1>1, <1>4, AcquireKeeps
<1>5. ASSUME NEW c \in Threads, Raise(c) PROVE HistoryInv'
  BY <1>1, <1>5, RaiseKeeps
<1>6. CASE Crash
  BY <1>6, CrashKeeps
<1>7. CASE Others
  BY <1>7, OthersKeep
<1> QED BY <1>2, <1>3, <1>4, <1>5, <1>6, <1>7 DEF HNext

(* The invariant of the history holds throughout.                          *)
THEOREM HistoryInvariance == HSpec => []HIInv
  BY InitHIInv, HNextHIInv, PTL DEF HSpec

(* Type correctness of the database and of the threads in execute().       *)
THEOREM HistoryTypeCorrect == HSpec => []HTypeOK
  BY HistoryInvariance, PTL DEF HIInv

(* However many threads, crashes and failed writes: the attempts of a      *)
(* request follow each other, an end is never without its result, and only *)
(* a fault leaves a result without its end (begin_execution and            *)
(* _run_execution under the lease of execute()).                           *)
THEOREM HistoryStaysInOrder == HSpec => []HistoryInOrder
<1>1. HIInv => HistoryInOrder
  BY DEF HIInv, HistoryInv, HistoryInOrder, EndsAreRecorded, SettledIsEnded, Closed, Finished
<1> QED BY <1>1, HistoryInvariance, PTL

(* The threads of execute() and a server that dies keep what the manager   *)
(* promises: nothing slips into a batch, ...                               *)
THEOREM BatchesOfHistory == HSpec => []BatchNotInterleaved
  BY HistoryInvariance, PTL DEF HIInv, IInv

(* ... and nobody is granted the cell while another acts on a lease.       *)
THEOREM HistoryKeepsAuthority == HSpec => AuthorityHeldByOne
<1>1. HInit => Authority!Init
  BY DEF HInit, Init, Authority!Init
<1>2. HIInv /\ [HNext]_hvars => [Authority!Next]_(leases \ returned)
  <2> SUFFICES ASSUME HIInv, [HNext]_hvars PROVE [Authority!Next]_(leases \ returned)
    OBVIOUS
  <2>1. CASE [Next]_vars
    BY <2>1, AuthoritySteps DEF HIInv
  <2>2. CASE CellLost
    <3>1. leases' \ returned' = {}
      BY <2>2 DEF CellLost
    <3>2. \/ leases \ returned = {}
          \/ leases \ returned = {lease} /\ lease \in Tokens
      BY DEF HIInv, IInv, OneHolder, TokensDrawn, TypeOK
    <3> QED BY <3>1, <3>2 DEF Authority!Next, Authority!Return
  <2> QED BY <2>1, <2>2, StepOfCell
<1> QED BY <1>1, <1>2, HistoryInvariance, PTL DEF HSpec, AuthorityHeldByOne, Authority!Spec
=============================================================================
