----------------------- MODULE ExecutionCore_proofs -----------------------
(***************************************************************************)
(* ExecutionCore for any number of clients, plans, steps and decisions:    *)
(* its types, that the registry speaks of the lease holder only, and that  *)
(* an approval backs one execution.                                        *)
(***************************************************************************)
EXTENDS ExecutionCore, TLAPS

(* Where it has an execution record for sure (a thread that leaves may     *)
(* have been refused before it began one).                                 *)
Executing == {"begun", "registered", "check", "send", "moving", "result",
              "final"}

LocalInv ==
    \A c \in Clients :
        /\ pc[c] = "unlatched" => plan[c] \in Plans
        /\ pc[c] = "send" => step[c] # Steps
        /\ pc[c] \in Executing => execution[c] # None
        /\ pc[c] \notin Holding => execution[c] = None
        /\ pc[c] \in {"claimed", "permitted", "leased"} => execution[c] = None

LeaseInv == \A c \in Clients : pc[c] \in Holding <=> lease = c

RegistryInv ==
    /\ runningExecutionId = IF lease = None THEN None ELSE execution[lease]
    /\ \A e \in activeExecutions :
          lease # None /\ execution[lease] = e /\ pc[lease] # "releasing"

ApprovalInv ==
    /\ \A c \in Clients :
          /\ pc[c] \in Holding \cup {"usable"} => approval[c] \in approved
          /\ pc[c] \in {"claimed", "permitted"} =>
                /\ approval[c] \in claimed
                /\ \A e \in 1..executions : approvalOf[e] # approval[c]
    /\ \A e \in 1..executions : approvalOf[e] \in approved \cap claimed
    /\ \A e, f \in 1..executions : approvalOf[e] = approvalOf[f] => e = f

IInv == TypeOK /\ LocalInv /\ LeaseInv /\ RegistryInv /\ ApprovalInv

-----------------------------------------------------------------------------

(* Nothing is approved, leased or running when the server starts.          *)
LEMMA InitIInv == Init => IInv
  <1> SUFFICES ASSUME Init PROVE IInv
    OBVIOUS
  <1> USE DEF Init
  <1>1. TypeOK
    <2>1. DbType BY BoundsAssumption DEF DbType
    <2>2. ServerType BY DEF ServerType
    <2>3. LocalsType
      <3>1. step \in [Clients -> 0..Steps] BY BoundsAssumption
      <3>2. failed \in [Clients -> BOOLEAN] BY Zenon
      <3>3. pc \in [Clients -> PCs] BY DEF PCs
      <3> QED BY <3>1, <3>2, <3>3 DEF LocalsType
    <2>4. OperatorsType
      <3>1. stops \in 0..MaxStops /\ releases \in 0..MaxReleases
        BY BoundsAssumption
      <3>2. latch \in BOOLEAN BY Zenon
      <3>3. /\ stopper \in {"idle", "flagged", "stopping"}
            /\ releaser \in {"idle", "checked", "reset"}
        OBVIOUS
      <3>4. goals \subseteq Executions OBVIOUS
      <3> QED BY <3>1, <3>2, <3>3, <3>4 DEF OperatorsType
    <2>5. HistoryType
      <3>1. era \in [Decisions -> 0..MaxStops] BY BoundsAssumption
      <3>2. /\ sent \in [Executions -> Nat]
            /\ sentCanceled \in [Executions -> Nat]
        OBVIOUS
      <3>3. confirmed \in BOOLEAN BY Zenon
      <3> QED BY <3>1, <3>2, <3>3 DEF HistoryType
    <2> QED BY <2>1, <2>2, <2>3, <2>4, <2>5 DEF TypeOK
  <1>2. LocalInv BY DEF LocalInv, Executing
  <1>3. LeaseInv BY NoneAssumption DEF LeaseInv, Holding
  <1>4. RegistryInv BY DEF RegistryInv
  <1>5. ApprovalInv BY DEF ApprovalInv, Holding
  <1> QED BY <1>1, <1>2, <1>3, <1>4, <1>5 DEF IInv

(* A step of decide() keeps the invariant.                                 *)
LEMMA DecideKeepsIInv ==
  ASSUME IInv, NEW p \in Plans, NEW approve \in BOOLEAN, Decide(p, approve)
  PROVE  IInv'
  <1> USE DEF Decide
  <1>t. TypeOK /\ LocalInv /\ LeaseInv /\ RegistryInv /\ ApprovalInv
    BY DEF IInv
  <1>1. TypeOK'
    <2>1. decisions' \in 1..MaxDecisions
      BY <1>t, BoundsAssumption DEF TypeOK, DbType
    <2>2. DbType' BY <1>t, <2>1 DEF TypeOK, DbType, Decisions
    <2>3. ServerType' BY <1>t DEF TypeOK, ServerType, flags
    <2>4. LocalsType' BY <1>t DEF TypeOK, LocalsType, locals
    <2>5. OperatorsType' BY <1>t DEF TypeOK, OperatorsType, adapter, operators
    <2>6. HistoryType'
      BY <1>t, <2>1 DEF TypeOK, HistoryType, OperatorsType, Decisions
    <2> QED BY <2>2, <2>3, <2>4, <2>5, <2>6 DEF TypeOK
  <1>2. LocalInv' BY <1>t DEF LocalInv, locals
  <1>3. LeaseInv' BY <1>t DEF LeaseInv, locals
  <1>4. RegistryInv' BY <1>t DEF RegistryInv, locals, flags
  <1>5. approved \subseteq approved'
    OBVIOUS
  <1>6. ApprovalInv' BY <1>t, <1>5 DEF ApprovalInv, locals
  <1> QED BY <1>1, <1>2, <1>3, <1>4, <1>6 DEF IInv

(* A request passes the latch: nothing but its thread moves.               *)
LEMMA CheckLatchKeepsIInv ==
  ASSUME IInv, NEW c \in Clients, NEW p \in Plans, CheckLatch(c, p)
  PROVE  IInv'
  <1> USE DEF CheckLatch, Goto, At, db, flags, adapter, operators, history
  <1>t. TypeOK /\ LocalInv /\ LeaseInv /\ RegistryInv /\ ApprovalInv
    BY DEF IInv
  <1>1. TypeOK'
    <2>1. LocalsType' BY <1>t DEF TypeOK, LocalsType, PCs
    <2> QED
      BY <1>t, <2>1
      DEF TypeOK, DbType, ServerType, OperatorsType, HistoryType
  <1>2. LocalInv'
    BY <1>t DEF TypeOK, LocalsType, LocalInv, Holding, Executing
  <1>3. LeaseInv' BY <1>t DEF TypeOK, LocalsType, LeaseInv, Holding
  <1>4. RegistryInv' BY <1>t DEF TypeOK, LocalsType, RegistryInv
  <1>5. ApprovalInv' BY <1>t DEF TypeOK, LocalsType, ApprovalInv, Holding
  <1> QED BY <1>1, <1>2, <1>3, <1>4, <1>5 DEF IInv

-----------------------------------------------------------------------------

(* Every step of a thread in execute() keeps the types.                    *)
LEMMA ProceedKeepsTypes ==
  ASSUME IInv, NEW c \in Clients, Proceed(c)
  PROVE  TypeOK'
  <1> USE DEF Goto, At, db, flags, locals, adapter, operators, history,
              CellFree, AfterRefusal, Claimable, PlanDone, RegistryAfterExit
  <1>t. TypeOK /\ LocalInv /\ ApprovalInv
    BY DEF IInv
  <1>1. CASE UsableApproval(c)
    <2> USE <1>t, <1>1 DEF UsableApproval
    <2>1. DbType' BY DEF TypeOK, DbType
    <2>2. ServerType' BY DEF TypeOK, ServerType
    <2>3. LocalsType'
      BY DEF TypeOK, LocalsType, LocalInv, PCs, DbType
    <2>4. OperatorsType' BY DEF TypeOK, OperatorsType
    <2>5. HistoryType' BY DEF TypeOK, HistoryType
    <2> QED BY <2>1, <2>2, <2>3, <2>4, <2>5 DEF TypeOK
  <1>2. CASE TryAcquire(c)
    <2> USE <1>t, <1>2 DEF TryAcquire
    <2>1. DbType' BY DEF TypeOK, DbType
    <2>2. ServerType' BY DEF TypeOK, ServerType
    <2>3. LocalsType' BY DEF TypeOK, LocalsType, PCs
    <2>4. OperatorsType' BY DEF TypeOK, OperatorsType
    <2>5. HistoryType' BY DEF TypeOK, HistoryType
    <2> QED BY <2>1, <2>2, <2>3, <2>4, <2>5 DEF TypeOK
  <1>3. CASE ClaimApproval(c)
    <2> USE <1>t, <1>3 DEF ClaimApproval
    <2>1. DbType'
      BY DEF ApprovalInv, Holding, TypeOK, DbType, LocalsType
    <2>2. ServerType' BY DEF TypeOK, ServerType
    <2>3. LocalsType' BY DEF TypeOK, LocalsType, PCs
    <2>4. OperatorsType' BY DEF TypeOK, OperatorsType
    <2>5. HistoryType' BY DEF TypeOK, HistoryType
    <2> QED BY <2>1, <2>2, <2>3, <2>4, <2>5 DEF TypeOK
  <1>4. CASE Permit(c)
    <2> USE <1>t, <1>4 DEF Permit
    <2>1. DbType' BY DEF TypeOK, DbType
    <2>2. ServerType' BY DEF TypeOK, ServerType
    <2>3. LocalsType' BY DEF TypeOK, LocalsType, PCs
    <2>4. OperatorsType' BY DEF TypeOK, OperatorsType
    <2>5. HistoryType' BY DEF TypeOK, HistoryType
    <2> QED BY <2>1, <2>2, <2>3, <2>4, <2>5 DEF TypeOK
  <1>5. CASE BeginExecution(c)
    <2> USE <1>t, <1>5 DEF BeginExecution
    <2>e. executions < MaxExecutions => executions + 1 \in Executions
      BY BoundsAssumption DEF TypeOK, DbType, Executions
    <2>a. approval[c] \in Decisions \cup {None}
      BY DEF TypeOK, LocalsType
    <2>1. DbType'
      <3>1. CASE executions' = executions /\ approvalOf' = approvalOf
        BY <3>1 DEF TypeOK, DbType
      <3>2. CASE /\ executions' = executions + 1
                 /\ executions < MaxExecutions
                 /\ approvalOf' = [approvalOf EXCEPT ![executions'] = approval[c]]
        <4>1. executions' \in 0..MaxExecutions
          BY <3>2, BoundsAssumption DEF TypeOK, DbType
        <4>2. approvalOf' \in [Executions -> Decisions \cup {None}]
          BY <3>2, <2>a DEF TypeOK, DbType
        <4> QED BY <4>1, <4>2 DEF TypeOK, DbType
      <3> QED BY <3>1, <3>2
    <2>2. ServerType' BY <2>e DEF TypeOK, ServerType
    <2>3. LocalsType'
      <3>1. pc' \in [Clients -> PCs] BY DEF TypeOK, LocalsType, PCs
      <3>2. execution' \in [Clients -> Executions \cup {None}]
        BY <2>e DEF TypeOK, LocalsType
      <3>3. step' \in [Clients -> 0..Steps]
        BY BoundsAssumption DEF TypeOK, LocalsType
      <3>4. failed' \in [Clients -> BOOLEAN]
        BY DEF TypeOK, LocalsType
      <3> QED BY <3>1, <3>2, <3>3, <3>4 DEF TypeOK, LocalsType
    <2>4. OperatorsType' BY DEF TypeOK, OperatorsType
    <2>5. HistoryType' BY DEF TypeOK, HistoryType
    <2> QED BY <2>1, <2>2, <2>3, <2>4, <2>5 DEF TypeOK
  <1>6. CASE Register(c)
    <2> USE <1>t, <1>6 DEF Register
    <2>1. DbType' BY DEF TypeOK, DbType
    <2>2. ServerType'
      BY DEF TypeOK, ServerType, LocalsType, LocalInv, Executing
    <2>3. LocalsType' BY DEF TypeOK, LocalsType, PCs
    <2>4. OperatorsType' BY DEF TypeOK, OperatorsType
    <2>5. HistoryType' BY DEF TypeOK, HistoryType
    <2> QED BY <2>1, <2>2, <2>3, <2>4, <2>5 DEF TypeOK
  <1>7. CASE DiscardCancel(c)
    <2> USE <1>t, <1>7 DEF DiscardCancel
    <2>1. DbType' BY DEF TypeOK, DbType
    <2>2. ServerType'
      BY DEF TypeOK, ServerType, LocalsType, LocalInv, Executing
    <2>3. LocalsType' BY DEF TypeOK, LocalsType, PCs
    <2>4. OperatorsType' BY DEF TypeOK, OperatorsType
    <2>5. HistoryType' BY DEF TypeOK, HistoryType
    <2> QED BY <2>1, <2>2, <2>3, <2>4, <2>5 DEF TypeOK
  <1>8. CASE CheckBeforeStep(c)
    <2> USE <1>t, <1>8 DEF CheckBeforeStep
    <2>1. DbType' BY DEF TypeOK, DbType
    <2>2. ServerType' BY DEF TypeOK, ServerType
    <2>3. LocalsType' BY DEF TypeOK, LocalsType, PCs
    <2>4. OperatorsType' BY DEF TypeOK, OperatorsType
    <2>5. HistoryType' BY DEF TypeOK, HistoryType
    <2> QED BY <2>1, <2>2, <2>3, <2>4, <2>5 DEF TypeOK
  <1>9. CASE SendStep(c)
    <2> USE <1>t, <1>9 DEF SendStep
    <2>1. DbType' BY DEF TypeOK, DbType
    <2>2. ServerType' BY DEF TypeOK, ServerType
    <2>3. LocalsType'
      <3>1. pc' \in [Clients -> PCs] BY DEF TypeOK, LocalsType, PCs
      <3>2. step' \in [Clients -> 0..Steps]
        BY BoundsAssumption DEF TypeOK, LocalsType, LocalInv
      <3>3. failed' \in [Clients -> BOOLEAN]
        BY DEF TypeOK, LocalsType
      <3> QED BY <3>1, <3>2, <3>3 DEF TypeOK, LocalsType
    <2>4. OperatorsType'
      BY DEF TypeOK, OperatorsType, LocalsType, LocalInv, Executing
    <2>5. HistoryType'
      <3>1. sent' \in [Executions -> Nat]
        BY DEF TypeOK, HistoryType, Count
      <3>2. sentCanceled' \in [Executions -> Nat]
        BY DEF TypeOK, HistoryType, Count
      <3> QED BY <3>1, <3>2 DEF TypeOK, HistoryType
    <2> QED BY <2>1, <2>2, <2>3, <2>4, <2>5 DEF TypeOK
  <1>10. CASE StepReturns(c)
    <2> USE <1>t, <1>10 DEF StepReturns
    <2>1. DbType' BY DEF TypeOK, DbType
    <2>2. ServerType' BY DEF TypeOK, ServerType
    <2>3. LocalsType' BY DEF TypeOK, LocalsType, PCs
    <2>4. OperatorsType' BY DEF TypeOK, OperatorsType
    <2>5. HistoryType' BY DEF TypeOK, HistoryType
    <2> QED BY <2>1, <2>2, <2>3, <2>4, <2>5 DEF TypeOK
  <1>11. CASE CheckAfterStep(c)
    <2> USE <1>t, <1>11 DEF CheckAfterStep
    <2>1. DbType' BY DEF TypeOK, DbType
    <2>2. ServerType' BY DEF TypeOK, ServerType
    <2>3. LocalsType' BY DEF TypeOK, LocalsType, PCs
    <2>4. OperatorsType' BY DEF TypeOK, OperatorsType
    <2>5. HistoryType' BY DEF TypeOK, HistoryType
    <2> QED BY <2>1, <2>2, <2>3, <2>4, <2>5 DEF TypeOK
  <1>12. CASE Finish(c)
    <2> USE <1>t, <1>12 DEF Finish
    <2>1. DbType' BY DEF TypeOK, DbType
    <2>2. ServerType' BY DEF TypeOK, ServerType
    <2>3. LocalsType' BY DEF TypeOK, LocalsType, PCs
    <2>4. OperatorsType' BY DEF TypeOK, OperatorsType
    <2>5. HistoryType' BY DEF TypeOK, HistoryType
    <2> QED BY <2>1, <2>2, <2>3, <2>4, <2>5 DEF TypeOK
  <1>13. CASE Unregister(c)
    <2> USE <1>t, <1>13 DEF Unregister
    <2>1. DbType' BY DEF TypeOK, DbType
    <2>2. ServerType'
      BY DEF TypeOK, ServerType, LocalsType, LocalInv, Executing
    <2>3. LocalsType' BY DEF TypeOK, LocalsType, PCs
    <2>4. OperatorsType' BY DEF TypeOK, OperatorsType
    <2>5. HistoryType' BY DEF TypeOK, HistoryType
    <2> QED BY <2>1, <2>2, <2>3, <2>4, <2>5 DEF TypeOK
  <1>14. CASE ReleaseLease(c)
    <2> USE <1>t, <1>14 DEF ReleaseLease
    <2>1. DbType' BY DEF TypeOK, DbType
    <2>2. ServerType' BY DEF TypeOK, ServerType
    <2>3. LocalsType' BY DEF TypeOK, LocalsType, PCs
    <2>4. OperatorsType' BY DEF TypeOK, OperatorsType
    <2>5. HistoryType' BY DEF TypeOK, HistoryType
    <2> QED BY <2>1, <2>2, <2>3, <2>4, <2>5 DEF TypeOK
  <1> QED BY <1>1, <1>2, <1>3, <1>4, <1>5, <1>6, <1>7, <1>8, <1>9, <1>10, <1>11, <1>12, <1>13, <1>14 DEF Proceed

(* Every step of a thread in execute() keeps the rest of the invariant.    *)
LEMMA ProceedKeepsInv ==
  ASSUME IInv, NEW c \in Clients, Proceed(c)
  PROVE  LocalInv' /\ LeaseInv' /\ RegistryInv' /\ ApprovalInv'
  <1> USE NoneAssumption
      DEF Goto, At, db, flags, locals, adapter, operators, history, LocalsType,
          CellFree, AfterRefusal, Claimable, PlanDone, RegistryAfterExit
  <1>t. /\ LocalInv /\ LeaseInv /\ RegistryInv /\ ApprovalInv
        /\ LocalsType /\ DbType /\ ServerType
    BY DEF IInv, TypeOK
  <1>1. CASE UsableApproval(c)
    <2> USE <1>t, <1>1 DEF UsableApproval
    <2>1. LocalInv' BY DEF LocalInv, Holding, Executing
    <2>2. LeaseInv' BY DEF LeaseInv, Holding
    <2>3. RegistryInv'
      <3>1. lease # c BY DEF LeaseInv, Holding
      <3> QED BY <3>1 DEF RegistryInv, ServerType
    <2>4. ApprovalInv'
      <3>1. pc'[c] = "usable" => approval'[c] \in approved
        BY DEF Usable
      <3>2. pc'[c] \in {"usable", "idle"}
        OBVIOUS
      <3>3. \A d \in Clients \ {c} :
               pc'[d] = pc[d] /\ approval'[d] = approval[d]
        OBVIOUS
      <3> QED BY <3>1, <3>2, <3>3 DEF ApprovalInv, Holding
    <2> QED BY <2>1, <2>2, <2>3, <2>4
  <1>2. CASE TryAcquire(c)
    <2> USE <1>t, <1>2 DEF TryAcquire
    <2>1. LocalInv' BY DEF LocalInv, Holding, Executing
    <2>2. LeaseInv' BY DEF LeaseInv, Holding
    <2>3. RegistryInv'
      <3>1. execution[c] = None BY DEF LocalInv, Holding
      <3>2. CASE lease = None /\ lease' = c
        <4>1. activeExecutions = {} BY <3>2 DEF RegistryInv
        <4> QED BY <3>1, <3>2, <4>1 DEF RegistryInv
      <3>3. CASE lease' = lease
        <4>1. lease # c BY DEF LeaseInv, Holding
        <4> QED BY <3>3, <4>1 DEF RegistryInv, ServerType
      <3> QED BY <3>2, <3>3
    <2>4. ApprovalInv' BY DEF LeaseInv, ApprovalInv, Holding
    <2> QED BY <2>1, <2>2, <2>3, <2>4
  <1>3. CASE ClaimApproval(c)
    <2> USE <1>t, <1>3 DEF ClaimApproval
    <2>1. LocalInv' BY DEF LocalInv, Holding, Executing
    <2>2. LeaseInv' BY DEF LeaseInv, Holding
    <2>3. RegistryInv'
      BY DEF LocalInv, LeaseInv, RegistryInv, Holding, Executing
    <2>4. ApprovalInv' BY DEF LeaseInv, ApprovalInv, Holding
    <2> QED BY <2>1, <2>2, <2>3, <2>4
  <1>4. CASE Permit(c)
    <2> USE <1>t, <1>4 DEF Permit
    <2>1. LocalInv' BY DEF LocalInv, Holding, Executing
    <2>2. LeaseInv' BY DEF LeaseInv, Holding
    <2>3. RegistryInv'
      BY DEF LocalInv, LeaseInv, RegistryInv, Holding, Executing
    <2>4. ApprovalInv' BY DEF LeaseInv, ApprovalInv, Holding
    <2> QED BY <2>1, <2>2, <2>3, <2>4
  <1>5. CASE BeginExecution(c)
    <2> USE <1>t, <1>5 DEF BeginExecution
    <2>l. lease = c /\ execution[c] = None
      BY DEF LeaseInv, LocalInv, Holding
    <2>n. executions \in Nat /\ executions + 1 # None
      BY DEF DbType
    <2>a. activeExecutions = {}
      BY <2>l, <2>n DEF RegistryInv, ServerType, Executions
    <2>1. LocalInv'
      <3>1. \A d \in Clients \ {c} :
               /\ pc'[d] = pc[d] /\ plan'[d] = plan[d]
               /\ execution'[d] = execution[d] /\ step'[d] = step[d]
        OBVIOUS
      <3>2. \/ pc'[c] = "leaving"
            \/ pc'[c] = "begun" /\ execution'[c] = executions + 1
        OBVIOUS
      <3> QED BY <3>1, <3>2, <2>n DEF LocalInv, Holding, Executing
    <2>2. LeaseInv' BY DEF LeaseInv, Holding
    <2>3. RegistryInv'
      BY <2>l, <2>a DEF RegistryInv
    <2>4. ApprovalInv'
      <3>1. CASE pc'[c] = "leaving" /\ UNCHANGED <<executions, approvalOf>>
        BY <3>1 DEF ApprovalInv, Holding
      <3>2. CASE /\ pc' = [pc EXCEPT ![c] = "begun"]
                 /\ executions < MaxExecutions
                 /\ executions' = executions + 1
                 /\ approvalOf' =
                      [approvalOf EXCEPT ![executions'] = approval[c]]
        <4>1. /\ executions' \in Executions
              /\ approval[c] \in approved \cap claimed
              /\ \A e \in 1..executions : approvalOf[e] # approval[c]
          BY <3>2, BoundsAssumption DEF ApprovalInv, Holding, DbType, Executions
        <4>2. /\ approvalOf'[executions'] = approval[c]
              /\ \A e \in 1..executions : approvalOf'[e] = approvalOf[e]
          BY <3>2, <4>1, BoundsAssumption DEF DbType, Executions
        <4>3. 1..executions' = (1..executions) \cup {executions'}
          BY <3>2 DEF DbType
        <4>4. \A d \in Clients : pc'[d] \notin {"claimed", "permitted"}
          BY <2>l, <3>2 DEF LeaseInv, Holding
        <4>5. \A d \in Clients : pc'[d] \in Holding \cup {"usable"} =>
                 approval'[d] \in approved'
          BY <3>2 DEF ApprovalInv, Holding
        <4>6. \A e \in 1..executions' : approvalOf'[e] \in approved' \cap claimed'
          BY <4>1, <4>2, <4>3 DEF ApprovalInv
        <4>7. \A e, f \in 1..executions' :
                 approvalOf'[e] = approvalOf'[f] => e = f
          BY <4>1, <4>2, <4>3 DEF ApprovalInv
        <4> QED BY <4>4, <4>5, <4>6, <4>7 DEF ApprovalInv
      <3> QED BY <3>1, <3>2
    <2> QED BY <2>1, <2>2, <2>3, <2>4
  <1>6. CASE Register(c)
    <2> USE <1>t, <1>6 DEF Register
    <2>1. LocalInv' BY DEF LocalInv, Holding, Executing
    <2>2. LeaseInv' BY DEF LeaseInv, Holding
    <2>3. RegistryInv'
      BY DEF LocalInv, LeaseInv, RegistryInv, Holding, Executing
    <2>4. ApprovalInv' BY DEF LeaseInv, ApprovalInv, Holding
    <2> QED BY <2>1, <2>2, <2>3, <2>4
  <1>7. CASE DiscardCancel(c)
    <2> USE <1>t, <1>7 DEF DiscardCancel
    <2>1. LocalInv' BY DEF LocalInv, Holding, Executing
    <2>2. LeaseInv' BY DEF LeaseInv, Holding
    <2>3. RegistryInv'
      BY DEF LocalInv, LeaseInv, RegistryInv, Holding, Executing
    <2>4. ApprovalInv' BY DEF LeaseInv, ApprovalInv, Holding
    <2> QED BY <2>1, <2>2, <2>3, <2>4
  <1>8. CASE CheckBeforeStep(c)
    <2> USE <1>t, <1>8 DEF CheckBeforeStep
    <2>1. LocalInv' BY DEF LocalInv, Holding, Executing
    <2>2. LeaseInv' BY DEF LeaseInv, Holding
    <2>3. RegistryInv'
      BY DEF LocalInv, LeaseInv, RegistryInv, Holding, Executing
    <2>4. ApprovalInv' BY DEF LeaseInv, ApprovalInv, Holding
    <2> QED BY <2>1, <2>2, <2>3, <2>4
  <1>9. CASE SendStep(c)
    <2> USE <1>t, <1>9 DEF SendStep
    <2>1. LocalInv' BY DEF LocalInv, Holding, Executing
    <2>2. LeaseInv' BY DEF LeaseInv, Holding
    <2>3. RegistryInv'
      BY DEF LocalInv, LeaseInv, RegistryInv, Holding, Executing
    <2>4. ApprovalInv' BY DEF LeaseInv, ApprovalInv, Holding
    <2> QED BY <2>1, <2>2, <2>3, <2>4
  <1>10. CASE StepReturns(c)
    <2> USE <1>t, <1>10 DEF StepReturns
    <2>1. LocalInv' BY DEF LocalInv, Holding, Executing
    <2>2. LeaseInv' BY DEF LeaseInv, Holding
    <2>3. RegistryInv'
      BY DEF LocalInv, LeaseInv, RegistryInv, Holding, Executing
    <2>4. ApprovalInv' BY DEF LeaseInv, ApprovalInv, Holding
    <2> QED BY <2>1, <2>2, <2>3, <2>4
  <1>11. CASE CheckAfterStep(c)
    <2> USE <1>t, <1>11 DEF CheckAfterStep
    <2>1. LocalInv' BY DEF LocalInv, Holding, Executing
    <2>2. LeaseInv' BY DEF LeaseInv, Holding
    <2>3. RegistryInv'
      BY DEF LocalInv, LeaseInv, RegistryInv, Holding, Executing
    <2>4. ApprovalInv' BY DEF LeaseInv, ApprovalInv, Holding
    <2> QED BY <2>1, <2>2, <2>3, <2>4
  <1>12. CASE Finish(c)
    <2> USE <1>t, <1>12 DEF Finish
    <2>1. LocalInv' BY DEF LocalInv, Holding, Executing
    <2>2. LeaseInv' BY DEF LeaseInv, Holding
    <2>3. RegistryInv'
      BY DEF LocalInv, LeaseInv, RegistryInv, Holding, Executing
    <2>4. ApprovalInv' BY DEF LeaseInv, ApprovalInv, Holding
    <2> QED BY <2>1, <2>2, <2>3, <2>4
  <1>13. CASE Unregister(c)
    <2> USE <1>t, <1>13 DEF Unregister
    <2>1. LocalInv' BY DEF LocalInv, Holding, Executing
    <2>2. LeaseInv' BY DEF LeaseInv, Holding
    <2>3. RegistryInv'
      BY DEF LocalInv, LeaseInv, RegistryInv, Holding, Executing
    <2>4. ApprovalInv' BY DEF LeaseInv, ApprovalInv, Holding
    <2> QED BY <2>1, <2>2, <2>3, <2>4
  <1>14. CASE ReleaseLease(c)
    <2> USE <1>t, <1>14 DEF ReleaseLease
    <2>1. LocalInv' BY DEF LocalInv, Holding, Executing
    <2>2. LeaseInv' BY DEF LeaseInv, Holding
    <2>3. RegistryInv'
      BY DEF LocalInv, LeaseInv, RegistryInv, Holding, Executing
    <2>4. ApprovalInv' BY DEF LeaseInv, ApprovalInv, Holding
    <2> QED BY <2>1, <2>2, <2>3, <2>4
  <1> QED BY <1>1, <1>2, <1>3, <1>4, <1>5, <1>6, <1>7, <1>8, <1>9, <1>10, <1>11, <1>12, <1>13, <1>14 DEF Proceed

-----------------------------------------------------------------------------

(* The threads that stop, release and cancel, and the robot, touch nothing *)
(* the invariant speaks of but the types.                                  *)
LEMMA OperateKeepsIInv ==
  ASSUME IInv, Operate
  PROVE  IInv'
  <1> USE DEF db, flags, locals, adapter, operators, history
  <1>t. TypeOK /\ LocalInv /\ LeaseInv /\ RegistryInv /\ ApprovalInv
    BY DEF IInv
  <1>u. UNCHANGED <<db, locals, lease, activeExecutions, runningExecutionId>>
    BY DEF Operate, StopFlag, StopAdapter, ConfirmStopped, ReleaseCheck,
           ResetStopLatch, ClearFlag, CancelExecution, GoalEnds
  <1>d. DbType' /\ LocalsType'
    BY <1>t, <1>u DEF TypeOK, DbType, LocalsType
  <1>1. TypeOK'
    <2>1. CASE StopFlag
      <3> USE <1>t, <2>1 DEF StopFlag
      <3>1. ServerType' BY DEF TypeOK, ServerType
      <3>2. OperatorsType' BY BoundsAssumption DEF TypeOK, OperatorsType
      <3>3. HistoryType' BY DEF TypeOK, HistoryType, ServerType
      <3> QED BY <1>d, <3>1, <3>2, <3>3 DEF TypeOK
    <2>2. CASE StopAdapter
      <3> USE <1>t, <2>2 DEF StopAdapter
      <3>1. ServerType' BY DEF TypeOK, ServerType
      <3>2. OperatorsType' BY BoundsAssumption DEF TypeOK, OperatorsType
      <3>3. HistoryType' BY DEF TypeOK, HistoryType
      <3> QED BY <1>d, <3>1, <3>2, <3>3 DEF TypeOK
    <2>3. CASE ConfirmStopped
      <3> USE <1>t, <2>3 DEF ConfirmStopped
      <3>1. ServerType' BY DEF TypeOK, ServerType
      <3>2. OperatorsType' BY BoundsAssumption DEF TypeOK, OperatorsType
      <3>3. HistoryType'
        <4>1. confirmed' \in BOOLEAN
          BY Zenon DEF TypeOK, HistoryType, OperatorsType
        <4> QED BY <4>1 DEF TypeOK, HistoryType
      <3> QED BY <1>d, <3>1, <3>2, <3>3 DEF TypeOK
    <2>4. CASE ReleaseCheck
      <3> USE <1>t, <2>4 DEF ReleaseCheck
      <3>1. ServerType' BY DEF TypeOK, ServerType
      <3>2. OperatorsType' BY BoundsAssumption DEF TypeOK, OperatorsType
      <3>3. HistoryType' BY DEF TypeOK, HistoryType
      <3> QED BY <1>d, <3>1, <3>2, <3>3 DEF TypeOK
    <2>5. CASE ResetStopLatch
      <3> USE <1>t, <2>5 DEF ResetStopLatch
      <3>1. ServerType' BY DEF TypeOK, ServerType
      <3>2. OperatorsType' BY BoundsAssumption DEF TypeOK, OperatorsType
      <3>3. HistoryType' BY DEF TypeOK, HistoryType
      <3> QED BY <1>d, <3>1, <3>2, <3>3 DEF TypeOK
    <2>6. CASE ClearFlag
      <3> USE <1>t, <2>6 DEF ClearFlag
      <3>1. ServerType' BY DEF TypeOK, ServerType
      <3>2. OperatorsType' BY BoundsAssumption DEF TypeOK, OperatorsType
      <3>3. HistoryType' BY DEF TypeOK, HistoryType
      <3> QED BY <1>d, <3>1, <3>2, <3>3 DEF TypeOK
    <2>7. ASSUME NEW e \in Executions, CancelExecution(e)
          PROVE  TypeOK'
      <3> USE <1>t, <2>7 DEF CancelExecution
      <3>1. ServerType' BY DEF TypeOK, ServerType
      <3>2. OperatorsType' BY DEF TypeOK, OperatorsType
      <3>3. HistoryType' BY DEF TypeOK, HistoryType
      <3> QED BY <1>d, <3>1, <3>2, <3>3 DEF TypeOK
    <2>8. ASSUME NEW e \in Executions, GoalEnds(e)
          PROVE  TypeOK'
      <3> USE <1>t, <2>8 DEF GoalEnds
      <3>1. ServerType' BY DEF TypeOK, ServerType
      <3>2. OperatorsType' BY DEF TypeOK, OperatorsType
      <3>3. HistoryType' BY DEF TypeOK, HistoryType
      <3> QED BY <1>d, <3>1, <3>2, <3>3 DEF TypeOK
    <2> QED BY <2>1, <2>2, <2>3, <2>4, <2>5, <2>6, <2>7, <2>8 DEF Operate
  <1>2. LocalInv' BY <1>t, <1>u DEF LocalInv
  <1>3. LeaseInv' BY <1>t, <1>u DEF LeaseInv
  <1>4. RegistryInv' BY <1>t, <1>u DEF RegistryInv
  <1>5. ApprovalInv' BY <1>t, <1>u DEF ApprovalInv
  <1> QED BY <1>1, <1>2, <1>3, <1>4, <1>5 DEF IInv

(* No step breaks the invariant.                                           *)
LEMMA NextKeepsIInv ==
  ASSUME IInv, [Next]_vars
  PROVE  IInv'
  <1>1. CASE \E p \in Plans, approve \in BOOLEAN : Decide(p, approve)
    BY <1>1, DecideKeepsIInv
  <1>2. CASE \E c \in Clients, p \in Plans : CheckLatch(c, p)
    BY <1>2, CheckLatchKeepsIInv
  <1>3. CASE \E c \in Clients : Proceed(c)
    BY <1>3, ProceedKeepsTypes, ProceedKeepsInv DEF IInv
  <1>4. CASE Operate
    BY <1>4, OperateKeepsIInv
  <1>5. CASE UNCHANGED vars
    <2> USE <1>5 DEF vars, db, flags, locals, adapter, operators, history
    <2>1. TypeOK'
      BY DEF IInv, TypeOK, DbType, ServerType, LocalsType, OperatorsType,
             HistoryType
    <2>2. LocalInv' /\ LeaseInv' /\ RegistryInv'
      BY DEF IInv, LocalInv, LeaseInv, RegistryInv
    <2>3. ApprovalInv' BY DEF IInv, ApprovalInv
    <2> QED BY <2>1, <2>2, <2>3 DEF IInv
  <1> QED BY <1>1, <1>2, <1>3, <1>4, <1>5 DEF Next

(* The invariant holds in every reachable state.                           *)
THEOREM Invariance == Spec => []IInv
  <1>1. Init => IInv BY InitIInv
  <1>2. IInv /\ [Next]_vars => IInv' BY NextKeepsIInv
  <1> QED BY <1>1, <1>2, PTL DEF Spec

(* Types, for any number of clients, plans and decisions.                  *)
THEOREM TypeCorrect == Spec => []TypeOK
  <1>1. IInv => TypeOK BY DEF IInv
  <1> QED BY <1>1, Invariance, PTL

(* However many threads present the same approval at once, it backs one    *)
(* execution, and a rejection backs none.                                  *)
THEOREM ApprovalUsedOnce == Spec => []OneShotApproval
  <1>1. IInv => OneShotApproval
    BY DEF IInv, ApprovalInv, OneShotApproval
  <1> QED BY <1>1, Invariance, PTL

(* The registry read by stop, cancel and release without the lease speaks  *)
(* of the execution of the thread that has it, and no thread leaves        *)
(* execute() with the lease.                                               *)
THEOREM RegistryHonest == Spec => []RegistryIsLeaseHolders
  <1>1. ASSUME IInv PROVE RegistryIsLeaseHolders
    <2>1. ASSUME NEW c \in Clients, pc[c] = "leaving"
          PROVE  runningExecutionId = execution[c]
      <3>1. lease = c BY <1>1, <2>1 DEF IInv, LeaseInv, Holding
      <3> QED BY <1>1, <2>1, <3>1, NoneAssumption DEF IInv, RegistryInv
    <2>2. ASSUME NEW c \in Clients, lease = c PROVE pc[c] \in Holding
      BY <1>1, <2>2 DEF IInv, LeaseInv
    <2> QED BY <1>1, <2>1, <2>2 DEF IInv, RegistryInv, RegistryIsLeaseHolders, At
  <1> QED BY <1>1, Invariance, PTL

(* The threads between the grant of the lease and its end implement the    *)
(* abstract authority over the cell.                                       *)
THEOREM LeaseIsAuthority == Spec => LeaseIsExclusive
  <1> DEFINE holders == {c \in Clients : pc[c] \in Holding}
  <1>1. Init => Authority!Init
    BY DEF Init, Authority!Init, Holding
  <1>2. ASSUME IInv PROVE holders = IF lease = None THEN {} ELSE {lease}
    BY <1>2, NoneAssumption DEF IInv, LeaseInv, TypeOK, ServerType
  <1>3. ASSUME IInv, IInv', [Next]_vars
        PROVE  [Authority!Next]_holders
    <2> USE DEF db, flags, locals, adapter, operators, history
    <2>1. /\ holders = IF lease = None THEN {} ELSE {lease}
          /\ holders' = IF lease' = None THEN {} ELSE {lease'}
      BY <1>2, <1>3, NoneAssumption DEF IInv, LeaseInv, TypeOK, ServerType
    <2>2. ASSUME NEW c \in Clients, TryAcquire(c)
          PROVE  [Authority!Next]_holders
      BY <2>1, <2>2, NoneAssumption DEF TryAcquire, CellFree, Authority!Next, Authority!Grant
    <2>3. ASSUME NEW c \in Clients, ReleaseLease(c)
          PROVE  [Authority!Next]_holders
      BY <2>1, <2>3, NoneAssumption DEF ReleaseLease, Authority!Next, Authority!Return
    <2>4. CASE UNCHANGED lease
      BY <2>1, <2>4
    <2>5. \/ UNCHANGED lease
          \/ \E c \in Clients : TryAcquire(c) \/ ReleaseLease(c)
      <3>1. ASSUME NEW c \in Clients, Proceed(c)
            PROVE  UNCHANGED lease \/ TryAcquire(c) \/ ReleaseLease(c)
        BY <3>1
        DEF Proceed, UsableApproval, ClaimApproval, Permit, BeginExecution,
            Register, DiscardCancel, CheckBeforeStep, SendStep, StepReturns,
            CheckAfterStep, Finish, Unregister
      <3>2. ASSUME Operate PROVE UNCHANGED lease
        BY <3>2
        DEF Operate, StopFlag, StopAdapter, ConfirmStopped, ReleaseCheck,
            ResetStopLatch, ClearFlag, CancelExecution, GoalEnds
      <3> QED BY <1>3, <3>1, <3>2 DEF Next, Decide, CheckLatch, vars
    <2> QED BY <2>2, <2>3, <2>4, <2>5
  <1> QED
    BY <1>1, <1>3, Invariance, PTL
    DEF Spec, LeaseIsExclusive, Authority!Spec

-----------------------------------------------------------------------------
(* Stops and cancels.                                                      *)

Registered == {"registered", "check", "send", "moving", "result", "final"}

(* What a stop finds when the flag goes up, and what a thread about to     *)
(* send a step knows of the flag.                                          *)
StopInv ==
    \A c \in Clients :
        /\ pc[c] \in Registered => execution[c] \in activeExecutions
        /\ (pc[c] = "send" /\ stopRequested) =>
              execution[c] \in hit /\ sent[execution[c]] = 0

CancelInv ==
    \A e \in cancelRequested :
        /\ sentCanceled[e] <= 1
        /\ \A c \in Clients :
              (pc[c] = "send" /\ execution[c] = e) => sentCanceled[e] = 0

HaltInv == StopInv /\ CancelInv

(* Nothing is sent or cancelled when the server starts.                    *)
LEMMA InitHaltInv == Init => HaltInv
  BY DEF Init, HaltInv, StopInv, CancelInv, Registered

(* Every step of a thread in execute() keeps both.                         *)
LEMMA ProceedKeepsHaltInv ==
  ASSUME IInv, HaltInv, NEW c \in Clients, Proceed(c)
  PROVE  HaltInv'
  <1> USE DEF Goto, At, db, flags, locals, adapter, operators, history,
              CellFree, AfterRefusal, Claimable, PlanDone, RegistryAfterExit
  <1>t. /\ StopInv /\ CancelInv /\ LocalsType /\ ServerType /\ HistoryType
        /\ LeaseInv /\ RegistryInv /\ LocalInv
    BY DEF IInv, TypeOK, HaltInv
  <1>1. CASE UsableApproval(c)
    <2> USE <1>t, <1>1 DEF UsableApproval, LocalsType
    <2>1. StopInv' BY DEF StopInv, Registered
    <2>2. CancelInv' BY DEF CancelInv
    <2> QED BY <2>1, <2>2 DEF HaltInv
  <1>2. CASE TryAcquire(c)
    <2> USE <1>t, <1>2 DEF TryAcquire, LocalsType
    <2>1. StopInv' BY DEF StopInv, Registered
    <2>2. CancelInv' BY DEF CancelInv
    <2> QED BY <2>1, <2>2 DEF HaltInv
  <1>3. CASE ClaimApproval(c)
    <2> USE <1>t, <1>3 DEF ClaimApproval, LocalsType
    <2>1. StopInv' BY DEF StopInv, Registered
    <2>2. CancelInv' BY DEF CancelInv
    <2> QED BY <2>1, <2>2 DEF HaltInv
  <1>4. CASE Permit(c)
    <2> USE <1>t, <1>4 DEF Permit, LocalsType
    <2>1. StopInv' BY DEF StopInv, Registered
    <2>2. CancelInv' BY DEF CancelInv
    <2> QED BY <2>1, <2>2 DEF HaltInv
  <1>5. CASE BeginExecution(c)
    <2> USE <1>t, <1>5 DEF BeginExecution, LocalsType
    <2>1. StopInv' BY DEF StopInv, Registered
    <2>2. CancelInv' BY DEF CancelInv
    <2> QED BY <2>1, <2>2 DEF HaltInv
  <1>6. CASE Register(c)
    <2> USE <1>t, <1>6 DEF Register, LocalsType
    <2>1. StopInv' BY DEF StopInv, Registered
    <2>2. CancelInv' BY DEF CancelInv
    <2> QED BY <2>1, <2>2 DEF HaltInv
  <1>7. CASE DiscardCancel(c)
    <2> USE <1>t, <1>7 DEF DiscardCancel, LocalsType
    <2>1. StopInv' BY DEF StopInv, Registered
    <2>2. CancelInv' BY DEF CancelInv
    <2> QED BY <2>1, <2>2 DEF HaltInv
  <1>8. CASE CheckBeforeStep(c)
    <2> USE <1>t, <1>8 DEF CheckBeforeStep, LocalsType
    <2>1. StopInv' BY DEF StopInv, Registered, Interrupted
    <2>2. CancelInv' BY DEF CancelInv, Interrupted
    <2> QED BY <2>1, <2>2 DEF HaltInv
  <1>9. CASE SendStep(c)
    <2> USE <1>t, <1>9 DEF SendStep, LocalsType
    <2>a. \A d \in Clients : pc'[d] # "send"
      BY DEF LeaseInv, Holding
    <2>1. StopInv' BY <2>a DEF StopInv, Registered
    <2>2. \A e \in cancelRequested : sentCanceled'[e] <= 1
      BY DEF CancelInv, HistoryType, ServerType, Count
    <2>3. CancelInv' BY <2>a, <2>2 DEF CancelInv
    <2> QED BY <2>1, <2>3 DEF HaltInv
  <1>10. CASE StepReturns(c)
    <2> USE <1>t, <1>10 DEF StepReturns, LocalsType
    <2>1. StopInv' BY DEF StopInv, Registered
    <2>2. CancelInv' BY DEF CancelInv
    <2> QED BY <2>1, <2>2 DEF HaltInv
  <1>11. CASE CheckAfterStep(c)
    <2> USE <1>t, <1>11 DEF CheckAfterStep, LocalsType
    <2>1. StopInv' BY DEF StopInv, Registered
    <2>2. CancelInv' BY DEF CancelInv
    <2> QED BY <2>1, <2>2 DEF HaltInv
  <1>12. CASE Finish(c)
    <2> USE <1>t, <1>12 DEF Finish, LocalsType
    <2>1. StopInv' BY DEF StopInv, Registered
    <2>2. CancelInv' BY DEF CancelInv
    <2> QED BY <2>1, <2>2 DEF HaltInv
  <1>13. CASE Unregister(c)
    <2> USE <1>t, <1>13 DEF Unregister, LocalsType
    <2>a. \A d \in Clients : pc'[d] \notin Registered
      BY DEF LeaseInv, Holding, Registered
    <2>1. StopInv' BY <2>a DEF StopInv, Registered
    <2>2. CancelInv' BY DEF CancelInv
    <2> QED BY <2>1, <2>2 DEF HaltInv
  <1>14. CASE ReleaseLease(c)
    <2> USE <1>t, <1>14 DEF ReleaseLease, LocalsType
    <2>1. StopInv' BY DEF StopInv, Registered
    <2>2. CancelInv' BY DEF CancelInv
    <2> QED BY <2>1, <2>2 DEF HaltInv
  <1> QED BY <1>1, <1>2, <1>3, <1>4, <1>5, <1>6, <1>7, <1>8, <1>9, <1>10, <1>11, <1>12, <1>13, <1>14 DEF Proceed

(* So do the other threads, in particular the ones that stop and cancel.   *)
LEMMA OperateKeepsHaltInv ==
  ASSUME IInv, HaltInv, Operate
  PROVE  HaltInv'
  <1> USE DEF db, flags, locals, adapter, operators, history
  <1>t. StopInv /\ CancelInv /\ LocalsType /\ ServerType /\ HistoryType
    BY DEF IInv, TypeOK, HaltInv
  <1>1. CASE StopFlag
    <2> USE <1>t, <1>1 DEF StopFlag
    <2>1. StopInv' BY DEF StopInv, Registered, ServerType
    <2>2. CancelInv' BY DEF CancelInv
    <2> QED BY <2>1, <2>2 DEF HaltInv
  <1>2. CASE StopAdapter
    <2> USE <1>t, <1>2 DEF StopAdapter
    <2>1. StopInv' BY DEF StopInv
    <2>2. CancelInv' BY DEF CancelInv
    <2> QED BY <2>1, <2>2 DEF HaltInv
  <1>3. CASE ConfirmStopped
    <2> USE <1>t, <1>3 DEF ConfirmStopped
    <2>1. StopInv' BY DEF StopInv
    <2>2. CancelInv' BY DEF CancelInv
    <2> QED BY <2>1, <2>2 DEF HaltInv
  <1>4. CASE ReleaseCheck
    <2> USE <1>t, <1>4 DEF ReleaseCheck
    <2>1. StopInv' BY DEF StopInv
    <2>2. CancelInv' BY DEF CancelInv
    <2> QED BY <2>1, <2>2 DEF HaltInv
  <1>5. CASE ResetStopLatch
    <2> USE <1>t, <1>5 DEF ResetStopLatch
    <2>1. StopInv' BY DEF StopInv
    <2>2. CancelInv' BY DEF CancelInv
    <2> QED BY <2>1, <2>2 DEF HaltInv
  <1>6. CASE ClearFlag
    <2> USE <1>t, <1>6 DEF ClearFlag
    <2>1. StopInv' BY DEF StopInv
    <2>2. CancelInv' BY DEF CancelInv
    <2> QED BY <2>1, <2>2 DEF HaltInv
  <1>7. ASSUME NEW e \in Executions, CancelExecution(e)
        PROVE  HaltInv'
    <2> USE <1>t, <1>7 DEF CancelExecution
    <2>1. StopInv' BY DEF StopInv
    <2>2. sentCanceled'[e] = 0 BY DEF HistoryType
    <2>3. CancelInv' BY <2>2 DEF CancelInv, HistoryType
    <2> QED BY <2>1, <2>3 DEF HaltInv
  <1>8. ASSUME NEW e \in Executions, GoalEnds(e)
        PROVE  HaltInv'
    <2> USE <1>t, <1>8 DEF GoalEnds
    <2>1. StopInv' BY DEF StopInv
    <2>2. CancelInv' BY DEF CancelInv
    <2> QED BY <2>1, <2>2 DEF HaltInv
  <1> QED BY <1>1, <1>2, <1>3, <1>4, <1>5, <1>6, <1>7, <1>8 DEF Operate

(* Both hold in every reachable state.                                     *)
THEOREM HaltInvariance == Spec => []HaltInv
  <1>1. Init => HaltInv BY InitHaltInv
  <1>2. ASSUME IInv, HaltInv, [Next]_vars
        PROVE  HaltInv'
    <2>1. CASE \E p \in Plans, approve \in BOOLEAN : Decide(p, approve)
      BY <1>2, <2>1
      DEF Decide, flags, locals, adapter, operators, HaltInv, StopInv, CancelInv
    <2>2. CASE \E c \in Clients, p \in Plans : CheckLatch(c, p)
      BY <1>2, <2>2
      DEF CheckLatch, At, Goto, flags, history, IInv, TypeOK, LocalsType,
          HaltInv, StopInv, CancelInv, Registered
    <2>3. CASE \E c \in Clients : Proceed(c)
      BY <1>2, <2>3, ProceedKeepsHaltInv
    <2>4. CASE Operate
      BY <1>2, <2>4, OperateKeepsHaltInv
    <2>5. CASE UNCHANGED vars
      BY <1>2, <2>5
      DEF vars, flags, locals, history, HaltInv, StopInv, CancelInv
    <2> QED BY <1>2, <2>1, <2>2, <2>3, <2>4, <2>5 DEF Next
  <1> QED BY <1>1, <1>2, Invariance, PTL DEF Spec

(* While the stop flag is up, only an execution the stop found registered  *)
(* gets a step to the robot, and one step at most.                         *)
THEOREM StopIsKept == Spec => StopHalts
  <1>1. ASSUME HaltInv, IInv, [Next]_vars
        PROVE  [stopRequested =>
                  \A e \in goals' \ goals : e \in hit /\ sent[e] = 0]_vars
    <2> SUFFICES ASSUME stopRequested, NEW e \in goals' \ goals
                 PROVE  e \in hit /\ sent[e] = 0
      OBVIOUS
    <2>1. \E c \in Clients : SendStep(c)
      BY <1>1
      DEF Next, Decide, CheckLatch, Proceed, Operate, UsableApproval, TryAcquire,
          ClaimApproval, Permit, BeginExecution, Register, DiscardCancel,
          CheckBeforeStep, StepReturns, CheckAfterStep, Finish, Unregister,
          ReleaseLease, StopFlag, StopAdapter, ConfirmStopped, ReleaseCheck,
          ResetStopLatch, ClearFlag, CancelExecution, GoalEnds, adapter, vars
    <2>2. PICK c \in Clients : SendStep(c) BY <2>1
    <2>3. pc[c] = "send" /\ e = execution[c] BY <2>2 DEF SendStep, At
    <2> QED BY <1>1, <2>3 DEF HaltInv, StopInv
  <1> QED BY <1>1, Invariance, HaltInvariance, PTL DEF Spec, StopHalts

(* While a cancel is on record, at most one more step of its execution     *)
(* goes out.                                                               *)
THEOREM CancelIsKept == Spec => []CancelHalts
  <1>1. HaltInv => CancelHalts BY DEF HaltInv, CancelInv, CancelHalts
  <1> QED BY <1>1, HaltInvariance, PTL
=============================================================================
