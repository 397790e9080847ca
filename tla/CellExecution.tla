--------------------------- MODULE CellExecution ---------------------------
(***************************************************************************)
(* server/cell_execution.py: CellExecutionManager, the one authority every *)
(* path that moves the robot goes through (general execution, simulation   *)
(* jobs, goals, repeat runs).  A LEASE covers one motion; a RESERVATION    *)
(* covers a batch of motions, and while it stands only a request that      *)
(* presents its token is granted a lease.                                  *)
(*                                                                         *)
(* A token (uuid4 in the code) is the number of the grant.  Callers keep   *)
(* the lease objects they were given and may hand one back at any time,    *)
(* twice, or long after it stopped being the active one: background        *)
(* release threads and the watcher threads of jobs do exactly that.        *)
(*                                                                         *)
(* A definition named Mutant_... is a wrong variant of the one after it.   *)
(* No specification uses it; it shows what the properties can tell apart.  *)
(***************************************************************************)
EXTENDS Naturals

CONSTANTS
    MaxGrants,      \* bound on the leases and reservations granted
    None            \* no lease, no reservation, no token presented

ASSUME NoneAssumption == None \notin Nat
ASSUME MaxGrantsAssumption == MaxGrants \in Nat

VARIABLES
    lease,          \* self._active: token of the active lease, or None
    reservation,    \* self._reservation: token of the reservation, or None
    grants,         \* number of tokens drawn so far
    leases,         \* tokens that were drawn for a lease
    returned,       \* history: leases whose holder was told "released"
    presented       \* history: the reservation token a lease's request carried

vars == <<lease, reservation, grants, leases, returned, presented>>

Tokens == 1..MaxGrants
Drawn == 1..grants
Fresh == grants + 1

TypeOK ==
    /\ grants \in 0..MaxGrants
    /\ lease \in Tokens \cup {None}
    /\ reservation \in Tokens \cup {None}
    /\ leases \subseteq Tokens
    /\ returned \subseteq Tokens
    /\ presented \in [Tokens -> Tokens \cup {None}]

Init ==
    /\ lease = None
    /\ reservation = None
    /\ grants = 0
    /\ leases = {}
    /\ returned = {}
    /\ presented = [t \in Tokens |-> None]

-----------------------------------------------------------------------------

(* A refused request draws no token and changes nothing. *)
Reserve(alongsideActive) ==
    /\ grants < MaxGrants
    /\ lease = None \/ alongsideActive
    /\ reservation = None
    /\ reservation' = Fresh
    /\ grants' = Fresh
    /\ UNCHANGED <<lease, leases, returned, presented>>

Unreserve(t) ==
    /\ reservation = t
    /\ reservation' = None
    /\ UNCHANGED <<lease, grants, leases, returned, presented>>

Mutant_AnyReservation(t) == lease = None
Acquirable(t) == lease = None /\ (reservation # None => t = reservation)

(* "t" is what the caller passes as reservation=: nothing, or a token it   *)
(* once was given, current or not.                                         *)
TryAcquire(t) ==
    /\ grants < MaxGrants
    /\ Acquirable(t)
    /\ lease' = Fresh
    /\ grants' = Fresh
    /\ leases' = leases \cup {Fresh}
    /\ presented' = [presented EXCEPT ![Fresh] = t]
    /\ UNCHANGED <<reservation, returned>>

(* Any lease ever granted may be handed back; only the active one counts.  *)
Mutant_ReleaseAny(t) ==
    /\ lease # None
    /\ lease' = None
    /\ returned' = returned \cup {t}
    /\ UNCHANGED <<reservation, grants, leases, presented>>
Release(t) ==
    /\ lease = t
    /\ lease' = None
    /\ returned' = returned \cup {t}
    /\ UNCHANGED <<reservation, grants, leases, presented>>

Next ==
    \/ \E alongside \in BOOLEAN : Reserve(alongside)
    \/ \E t \in Drawn : Unreserve(t)
    \/ \E t \in Drawn \cup {None} : TryAcquire(t)
    \/ \E t \in leases : Release(t)

Spec == Init /\ [][Next]_vars

-----------------------------------------------------------------------------

(* A lease whose holder has not been told it is released is the active     *)
(* one: no second operation may be granted the cell while the first still  *)
(* believes it has it (cell_execution.py: "only its holder can release").  *)
OneHolder == leases \ returned = IF lease = None THEN {} ELSE {lease}

(* While a batch has the cell reserved, a lease is either one the batch    *)
(* itself asked for or one that was there before the reservation (a job    *)
(* taken over after a restart, alongside_active): nothing slips in between *)
(* two motions of the batch.                                               *)
BatchNotInterleaved ==
    (lease # None /\ reservation # None) =>
        (presented[lease] = reservation \/ lease < reservation)

Authority == INSTANCE CellAuthority
                WITH Holders <- Tokens, holders <- leases \ returned

(* Nobody is granted the cell while an earlier holder still acts on its    *)
(* lease: a lease handed back twice, or after a restart, ends no other.    *)
AuthorityHeldByOne == Authority!Spec
=============================================================================
