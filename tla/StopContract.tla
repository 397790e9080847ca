---------------------------- MODULE StopContract ----------------------------
(***************************************************************************)
(* core/stop_contract.py (GoalTracker, rules R1-R10) under the dispatch    *)
(* path of robots/fake/adapter.py, the adapter that follows the contract.  *)
(*                                                                         *)
(* Each request is one call of _dispatch, run by some server thread; it is *)
(* sent once (T1), so the request also names the goal it may become.  The  *)
(* robot's goal server is the environment: it answers late, never, or not  *)
(* in the way asked.  Another thread stops, resets, cancels, or confirms   *)
(* that the robot stopped, between any two critical sections.              *)
(*                                                                         *)
(* A definition named Mutant_... is a wrong variant of the one after it.   *)
(* No specification uses it; it shows what the properties can tell apart.  *)
(***************************************************************************)
EXTENDS Naturals, FiniteSets

CONSTANTS
    Channels,       \* command channels the adapter declares
    Requests,       \* the dispatches that are ever made
    ChannelOf,      \* the channel each of them uses
    None            \* no goal, no channel

ASSUME ChannelOfAssumption == ChannelOf \in [Requests -> Channels]
ASSUME NoneAssumption == None \notin Requests \cup Channels

VARIABLES
    stopped,        \* GoalTracker._stopped
    pending,        \* union of ChannelTracking.pending
    active,         \* ChannelTracking.active of each channel
    orphans,        \* union of ChannelTracking.orphans
    pc,             \* where the dispatch of each request is
    server,         \* what the robot's goal server does with each goal
    confirm,        \* the confirm_stopped call in progress, or the last one
    undisturbed     \* history: latched since that call began

tracker == <<stopped, pending, active, orphans>>
vars == <<stopped, pending, active, orphans, pc, server, confirm, undisturbed>>

PCs == {"idle", "sending", "sent", "late", "waiting", "orphaned", "done"}
ServerStates == {"none", "undecided", "accepted", "moving", "halting", "ended"}
Stages == {"idle", "next", "cancel", "measure", "done"}

Confirmations ==
    [at : Stages, channel : Channels \cup {None}, todo : SUBSET Requests,
     left : SUBSET Channels, ok : BOOLEAN]

TypeOK ==
    /\ stopped \in BOOLEAN
    /\ pending \subseteq Requests
    /\ active \in [Channels -> Requests \cup {None}]
    /\ orphans \subseteq Requests
    /\ pc \in [Requests -> PCs]
    /\ server \in [Requests -> ServerStates]
    /\ confirm \in Confirmations
    /\ undisturbed \in BOOLEAN

OnChannel(ch) == {r \in Requests : ChannelOf[r] = ch}
Actives == {r \in Requests : active[ChannelOf[r]] = r}
Tracked == pending \cup orphans \cup Actives

(* A goal the robot is carrying out or may still start carrying out.       *)
Undead(r) == server[r] \in {"undecided", "accepted", "moving", "halting"}

Init ==
    /\ stopped = FALSE
    /\ pending = {}
    /\ active = [ch \in Channels |-> None]
    /\ orphans = {}
    /\ pc = [r \in Requests |-> "idle"]
    /\ server = [r \in Requests |-> "none"]
    /\ confirm = [at |-> "idle", channel |-> None, todo |-> {}, left |-> {},
                  ok |-> FALSE]
    /\ undisturbed = FALSE

-----------------------------------------------------------------------------
(* The dispatching thread.                                                 *)

Mutant_SendAnyway == TRUE
MaySend == ~stopped

(* R1: the test of the latch and the registration are one critical section *)
BeginSend(r) ==
    /\ pc[r] = "idle"
    /\ \/ /\ ~MaySend
          /\ pc' = [pc EXCEPT ![r] = "done"]
          /\ UNCHANGED pending
       \/ /\ MaySend
          /\ pending' = pending \cup {r}
          /\ pc' = [pc EXCEPT ![r] = "sending"]
    /\ UNCHANGED <<stopped, active, orphans, server, confirm, undisturbed>>

(* A refused or undeliverable goal leaves its request pending.             *)
Send(r) ==
    /\ pc[r] = "sending"
    /\ \/ /\ server' = [server EXCEPT ![r] = "undecided"]
          /\ pc' = [pc EXCEPT ![r] = "sent"]
       \/ /\ pc' = [pc EXCEPT ![r] = "done"]
          /\ UNCHANGED server
    /\ UNCHANGED <<tracker, confirm, undisturbed>>

Mutant_ForgetLate(r) ==
    /\ pc[r] = "sent"
    /\ pc' = [pc EXCEPT ![r] = "late"]
    /\ pending' = pending \ {r}
    /\ UNCHANGED <<stopped, active, orphans, server, confirm, undisturbed>>

(* R3: on_send_timeout forgets nothing.                                    *)
SendTimeout(r) ==
    /\ pc[r] = "sent"
    /\ pc' = [pc EXCEPT ![r] = "late"]
    /\ UNCHANGED <<tracker, server, confirm, undisturbed>>

MustOrphan(r) == stopped \/ active[ChannelOf[r]] # None

(* R2, R4: the answer of the goal server, in time or late.                 *)
OnAccept(r) ==
    /\ pc[r] \in {"sent", "late"}
    /\ server[r] \in {"accepted", "moving", "halting", "ended"}
    /\ pending' = pending \ {r}
    /\ \/ /\ MustOrphan(r)
          /\ orphans' = orphans \cup {r}
          /\ pc' = [pc EXCEPT ![r] = "orphaned"]
          /\ UNCHANGED active
       \/ /\ ~MustOrphan(r)
          /\ active' = [active EXCEPT ![ChannelOf[r]] = r]
          /\ pc' = [pc EXCEPT ![r] = IF @ = "sent" THEN "waiting" ELSE "done"]
          /\ UNCHANGED orphans
    /\ UNCHANGED <<stopped, server, confirm, undisturbed>>

(* The goal server acknowledges a cancel request for the goals of acks: a  *)
(* goal that has not started never will, a moving one slows down.          *)
Acknowledge(acks) ==
    server' = [r \in Requests |->
                 CASE r \in acks /\ server[r] = "accepted" -> "ended"
                   [] r \in acks /\ server[r] = "moving" -> "halting"
                   [] OTHER -> server[r]]

(* It may answer for some of the goals it was asked to cancel only.        *)
TransportCancel(S) == \E acks \in SUBSET S : Acknowledge(acks)

CancelOrphan(r) ==
    /\ pc[r] = "orphaned"
    /\ TransportCancel({r})
    /\ pc' = [pc EXCEPT ![r] = "done"]
    /\ UNCHANGED <<tracker, confirm, undisturbed>>

(* R5: a late result keeps the handle; the adapter asks for a cancel.      *)
ResultTimeout(r) ==
    /\ pc[r] = "waiting"
    /\ TransportCancel({r})
    /\ pc' = [pc EXCEPT ![r] = "done"]
    /\ UNCHANGED <<tracker, confirm, undisturbed>>

(* R6, R7: a definite result, of this goal and no other.                   *)
OnResult(r) ==
    /\ server[r] = "ended"
    /\ r \in Actives \cup orphans
    /\ active' = [active EXCEPT ![ChannelOf[r]] = IF @ = r THEN None ELSE @]
    /\ orphans' = orphans \ {r}
    /\ pc' = [pc EXCEPT ![r] = IF @ = "waiting" THEN "done" ELSE @]
    /\ UNCHANGED <<stopped, pending, server, confirm, undisturbed>>

-----------------------------------------------------------------------------
(* The robot.                                                              *)

ServerAccepts(r) ==
    /\ server[r] = "undecided"
    /\ server' = [server EXCEPT ![r] = "accepted"]
    /\ UNCHANGED <<tracker, pc, confirm, undisturbed>>

GoalMoves(r) ==
    /\ server[r] = "accepted"
    /\ server' = [server EXCEPT ![r] = "moving"]
    /\ UNCHANGED <<tracker, pc, confirm, undisturbed>>

GoalEnds(r) ==
    /\ server[r] \in {"accepted", "moving", "halting"}
    /\ server' = [server EXCEPT ![r] = "ended"]
    /\ UNCHANGED <<tracker, pc, confirm, undisturbed>>

-----------------------------------------------------------------------------
(* The threads that stop, cancel and reset.                                *)

RequestStop ==
    /\ stopped' = TRUE
    /\ UNCHANGED <<pending, active, orphans, pc, server, confirm,
                   undisturbed>>

Cancel ==
    /\ TransportCancel(Actives \cup orphans)
    /\ UNCHANGED <<tracker, pc, confirm, undisturbed>>

Busy == Tracked # {}

(* reset_for_new_plan raises, and changes nothing, while a goal is tracked *)
ResetForNewPlan ==
    /\ ~Busy
    /\ stopped' = FALSE
    /\ undisturbed' = FALSE
    /\ UNCHANGED <<pending, active, orphans, pc, server, confirm>>

-----------------------------------------------------------------------------
(* confirm_stopped: channel after channel, a snapshot of the handles, then *)
(* for each handle a cancel followed by a measurement (R8, R9).            *)

(* R10: enough fresh and valid samples show the joints of ch at rest.      *)
Still(ch) == \A r \in OnChannel(ch) : server[r] \notin {"moving", "halting"}

ConfirmBegin ==
    /\ confirm.at \in {"idle", "done"}
    /\ confirm' = [at |-> "next", channel |-> None, todo |-> {},
                   left |-> Channels, ok |-> TRUE]
    /\ undisturbed' = stopped
    /\ UNCHANGED <<tracker, pc, server>>

Mutant_HandlesOnly(ch) == {}
Unanswered(ch) == pending \cap OnChannel(ch)

ConfirmSnapshot(ch) ==
    /\ confirm.at = "next"
    /\ ch \in confirm.left
    /\ LET handles == (orphans \cup Actives) \cap OnChannel(ch)
       IN  confirm' = [at |-> IF handles = {} THEN "measure" ELSE "cancel",
                       channel |-> ch,
                       todo |-> handles,
                       left |-> confirm.left \ {ch},
                       ok |-> confirm.ok /\ Unanswered(ch) = {}]
    /\ UNCHANGED <<tracker, pc, server, undisturbed>>

ConfirmCancel(r) ==
    /\ confirm.at = "cancel"
    /\ r \in confirm.todo
    /\ \E ack \in BOOLEAN :
          /\ Acknowledge(IF ack THEN {r} ELSE {})
          /\ confirm' = [confirm EXCEPT !.at = "measure",
                                        !.todo = @ \ {r},
                                        !.ok = @ /\ ack]
    /\ UNCHANGED <<tracker, pc, undisturbed>>

(* Samples may be missing or stale, so a still robot may go unconfirmed.   *)
ConfirmMeasure ==
    /\ confirm.at = "measure"
    /\ \E measured \in {FALSE, Still(confirm.channel)} :
          confirm' = [confirm EXCEPT
                        !.at = IF confirm.todo # {} THEN "cancel" ELSE "next",
                        !.ok = @ /\ measured]
    /\ UNCHANGED <<tracker, pc, server, undisturbed>>

ConfirmEnd ==
    /\ confirm.at = "next"
    /\ confirm.left = {}
    /\ confirm' = [confirm EXCEPT !.at = "done", !.channel = None]
    /\ UNCHANGED <<tracker, pc, server, undisturbed>>

-----------------------------------------------------------------------------

Dispatch(r) ==
    \/ BeginSend(r) \/ Send(r) \/ SendTimeout(r) \/ OnAccept(r)
    \/ CancelOrphan(r) \/ ResultTimeout(r) \/ OnResult(r)

Robot(r) == ServerAccepts(r) \/ GoalMoves(r) \/ GoalEnds(r)

Confirm ==
    \/ ConfirmBegin
    \/ \E ch \in Channels : ConfirmSnapshot(ch)
    \/ \E r \in Requests : ConfirmCancel(r)
    \/ ConfirmMeasure
    \/ ConfirmEnd

Next ==
    \/ \E r \in Requests : Dispatch(r) \/ Robot(r)
    \/ RequestStop \/ Cancel \/ ResetForNewPlan
    \/ Confirm

Spec == Init /\ [][Next]_vars

-----------------------------------------------------------------------------

(* A goal the robot executes, or may still start to execute, is tracked *)
(* whatever timed out and whenever its acceptance came (R2-R5, R7): a stop *)
(* that walks the tracker can reach every goal that matters.               *)
LiveTracked ==
    \A r \in Requests : Undead(r) => r \in Tracked

(* confirm_stopped's verdict STOPPED holds of the robot and not only of    *)
(* the handles (R8-R10): as long as the latch it ran under is not reset,   *)
(* no goal is moving and none can start to.                                *)
ConfirmedMeansStill ==
    (confirm.at = "done" /\ confirm.ok /\ undisturbed) =>
        \A r \in Requests : ~Undead(r)

(* The active handle of a channel is given up only for a goal that ended,  *)
(* and never to a late acceptance (R4, R6).                                *)
ActiveKeptUntilEnded ==
    [][\A ch \in Channels :
          (active[ch] # None /\ active'[ch] # active[ch]) =>
              active'[ch] = None /\ server[active[ch]] = "ended"]_vars

(* The contract implements the abstract promise: what the tracker tracks   *)
(* is what may move, registered only while the latch is off.               *)
Promise == INSTANCE RobotStop
              WITH Motions <- Requests, halted <- stopped, live <- Tracked

KeepsPromise == Promise!Spec
=============================================================================
