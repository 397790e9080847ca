-------------------------- MODULE StopContract_proofs --------------------------
(* For any channels and any number of dispatches: no live goal escapes the *)
(* tracker, a confirmed stop is a robot that stands and cannot start, and  *)
(* the contract implements RobotStop.                                      *)
(*                                                                         *)
(* The FR3 adapter predates the contract, and what it keeps of it is       *)
(* proved here as well, from GazeboGoals, in the second part.              *)
EXTENDS StopContract, GazeboGoals, TLAPS

Handles == orphans \cup Actives
Begun == {"accepted", "moving", "halting", "ended"}

(* Where a dispatch is says where its goal is tracked; a handle is one of  *)
(* a goal that was accepted.                                               *)
DispatchInv ==
    \A r \in Requests :
        /\ pc[r] = "idle" => r \notin Tracked
        /\ pc[r] \in {"idle", "sending"} => server[r] = "none"
        /\ pc[r] \in {"sending", "sent", "late"} => r \in pending
        /\ r \in pending => r \notin Handles
        /\ r \in Handles => server[r] \in Begun

(* On the channels that were looked at nothing is waiting for an answer,   *)
(* and nothing is live but the listed still to be canceled and, before    *)
(* the measurement, the goal that was just canceled.                       *)
Checked(r) == ChannelOf[r] \notin confirm.left

ConfirmInv ==
    /\ \A r \in confirm.todo : ChannelOf[r] = confirm.channel /\ server[r] \in Begun
    /\ confirm.at = "measure" => confirm.channel \in Channels
    /\ confirm.at = "done" => confirm.left = {}
    /\ confirm.at \in {"next", "done"} => confirm.todo = {}
    /\ undisturbed /\ confirm.ok /\ confirm.at # "idle" =>
           /\ stopped
           /\ \A r \in Requests : Checked(r) =>
                  /\ r \notin pending
                  /\ \/ ~Undead(r)
                     \/ confirm.at \in {"cancel", "measure"} /\ r \in confirm.todo
                     \/ /\ confirm.at = "measure" /\ server[r] = "halting"
                        /\ ChannelOf[r] = confirm.channel

IInv == TypeOK /\ DispatchInv /\ LiveTracked /\ ConfirmInv

-----------------------------------------------------------------------------
(* The types.                                                              *)

(* An acknowledged cancel ends what has not started and slows what moves.  *)
LEMMA AcknowledgeDoes ==
    ASSUME TypeOK, NEW acks, Acknowledge(acks)
    PROVE  /\ server' \in [Requests -> ServerStates]
           /\ \A q \in Requests :
                 server'[q] = IF q \in acks /\ server[q] = "accepted" THEN "ended"
                              ELSE IF q \in acks /\ server[q] = "moving" THEN "halting"
                              ELSE server[q]
  BY DEF TypeOK, Acknowledge, ServerStates

(* Nothing has been sent.                                                  *)
LEMMA InitType == Init => TypeOK
<1> SUFFICES ASSUME Init PROVE TypeOK
  OBVIOUS
<1>1. confirm \in Confirmations
  BY DEF Init, Confirmations, Stages
<1>2. stopped \in BOOLEAN /\ undisturbed \in BOOLEAN
  BY Zenon DEF Init
<1>3. /\ pending \subseteq Requests /\ orphans \subseteq Requests
      /\ active \in [Channels -> Requests \cup {None}]
      /\ pc \in [Requests -> PCs] /\ server \in [Requests -> ServerStates]
  BY DEF Init, PCs, ServerStates
<1> QED BY <1>1, <1>2, <1>3 DEF TypeOK

(* A dispatch, the robot and the threads that stop keep the types.         *)
LEMMA DispatchType ==
    ASSUME TypeOK, NEW r \in Requests, Dispatch(r) \/ Robot(r)
    PROVE  TypeOK'
<1>0. ChannelOf[r] \in Channels
  BY ChannelOfAssumption
<1>1. CASE BeginSend(r)
  BY <1>1 DEF BeginSend, TypeOK, PCs
<1>2. CASE Send(r)
  BY <1>2 DEF Send, TypeOK, PCs, ServerStates, tracker
<1>3. CASE SendTimeout(r)
  BY <1>3 DEF SendTimeout, TypeOK, PCs, tracker
<1>4. CASE OnAccept(r)
  BY <1>0, <1>4 DEF OnAccept, TypeOK, PCs
<1>5. CASE CancelOrphan(r) \/ ResultTimeout(r)
  <2>1. PICK acks \in SUBSET {r} : Acknowledge(acks)
    BY <1>5 DEF CancelOrphan, ResultTimeout, TransportCancel
  <2>2. server' \in [Requests -> ServerStates]
    BY <2>1, AcknowledgeDoes
  <2> QED BY <1>5, <2>2 DEF CancelOrphan, ResultTimeout, TypeOK, PCs, tracker
<1>6. CASE OnResult(r)
  BY <1>0, <1>6 DEF OnResult, TypeOK, PCs
<1>7. CASE Robot(r)
  BY <1>7 DEF Robot, ServerAccepts, GoalMoves, GoalEnds, TypeOK, ServerStates, tracker
<1> QED BY <1>1, <1>2, <1>3, <1>4, <1>5, <1>6, <1>7 DEF Dispatch

(* So do the calls of confirm_stopped.                                     *)
LEMMA ConfirmType == ASSUME TypeOK, Confirm PROVE TypeOK'
<1>1. CASE ConfirmBegin
  BY <1>1 DEF ConfirmBegin, TypeOK, Confirmations, Stages, tracker
<1>2. ASSUME NEW ch \in Channels, ConfirmSnapshot(ch)
      PROVE  TypeOK'
  <2> DEFINE listed == (orphans \cup Actives) \cap OnChannel(ch)
  <2>1. listed \in SUBSET Requests
    BY DEF OnChannel
  <2>2. (confirm.ok /\ Unanswered(ch) = {}) \in BOOLEAN /\ confirm.left \ {ch} \in SUBSET Channels
    BY DEF TypeOK, Confirmations
  <2> HIDE DEF listed
  <2>3. confirm' = [at |-> IF listed = {} THEN "measure" ELSE "cancel",
                    channel |-> ch, todo |-> listed, left |-> confirm.left \ {ch},
                    ok |-> confirm.ok /\ Unanswered(ch) = {}]
    BY <1>2 DEF ConfirmSnapshot, listed
  <2>4. confirm' \in Confirmations
    BY <2>1, <2>2, <2>3 DEF Confirmations, Stages
  <2> QED BY <1>2, <2>4 DEF ConfirmSnapshot, TypeOK, tracker
<1>3. ASSUME NEW r \in Requests, ConfirmCancel(r)
      PROVE  TypeOK'
  <2>1. PICK ack \in BOOLEAN :
            /\ Acknowledge(IF ack THEN {r} ELSE {})
            /\ confirm' = [confirm EXCEPT !.at = "measure", !.todo = @ \ {r}, !.ok = @ /\ ack]
    BY <1>3 DEF ConfirmCancel
  <2>2. confirm.todo \ {r} \in SUBSET Requests /\ (confirm.ok /\ ack) \in BOOLEAN
    BY DEF TypeOK, Confirmations
  <2>3. confirm' \in Confirmations
    BY <2>1, <2>2 DEF TypeOK, Confirmations, Stages
  <2>4. server' \in [Requests -> ServerStates]
    BY <2>1, AcknowledgeDoes
  <2> QED BY <1>3, <2>3, <2>4 DEF ConfirmCancel, TypeOK, tracker
<1>4. CASE ConfirmMeasure
  <2>1. PICK measured \in {FALSE, Still(confirm.channel)} :
            confirm' = [confirm EXCEPT !.at = IF confirm.todo # {} THEN "cancel" ELSE "next",
                                       !.ok = @ /\ measured]
    BY <1>4 DEF ConfirmMeasure
  <2>2. (confirm.ok /\ measured) \in BOOLEAN
    BY DEF TypeOK, Confirmations, Still
  <2>3. confirm' \in Confirmations
    BY <2>1, <2>2 DEF TypeOK, Confirmations, Stages
  <2> QED BY <1>4, <2>3 DEF ConfirmMeasure, TypeOK, tracker
<1>5. CASE ConfirmEnd
  BY <1>5 DEF ConfirmEnd, TypeOK, Confirmations, Stages, tracker
<1> QED BY <1>1, <1>2, <1>3, <1>4, <1>5 DEF Confirm

(* Every step keeps the types.                                             *)
LEMMA NextType == ASSUME TypeOK, [Next]_vars PROVE TypeOK'
<1>1. CASE RequestStop
  BY <1>1 DEF RequestStop, TypeOK
<1>2. CASE Cancel
  <2>1. PICK acks \in SUBSET (Actives \cup orphans) : Acknowledge(acks)
    BY <1>2 DEF Cancel, TransportCancel
  <2>2. server' \in [Requests -> ServerStates]
    BY <2>1, AcknowledgeDoes
  <2> QED BY <1>2, <2>2 DEF Cancel, TypeOK, tracker
<1>3. CASE ResetForNewPlan
  BY <1>3 DEF ResetForNewPlan, TypeOK
<1>4. CASE UNCHANGED vars
  BY <1>4 DEF vars, TypeOK
<1> QED BY <1>1, <1>2, <1>3, <1>4, DispatchType, ConfirmType DEF Next

-----------------------------------------------------------------------------
(* The tracker.                                                            *)

(* The active listed, when one is taken and when one is given up.         *)
LEMMA ActiveTaken ==
    ASSUME TypeOK, NEW r \in Requests, active[ChannelOf[r]] = None,
           active' = [active EXCEPT ![ChannelOf[r]] = r]
    PROVE  Actives' = Actives \cup {r}
<1>1. /\ ChannelOf \in [Requests -> Channels] /\ None \notin Requests
      /\ active \in [Channels -> Requests \cup {None}]
  BY ChannelOfAssumption, NoneAssumption DEF TypeOK
<1> QED BY <1>1 DEF Actives

LEMMA ActiveGivenUp ==
    ASSUME TypeOK, NEW r \in Requests,
           active' = [active EXCEPT ![ChannelOf[r]] = IF @ = r THEN None ELSE @]
    PROVE  Actives' = Actives \ {r}
<1>1. /\ ChannelOf \in [Requests -> Channels] /\ None \notin Requests
      /\ active \in [Channels -> Requests \cup {None}]
  BY ChannelOfAssumption, NoneAssumption DEF TypeOK
<1> QED BY <1>1 DEF Actives

(* An answer moves the goal from the pending ones to the listed.          *)
LEMMA AcceptMoves ==
    ASSUME TypeOK, NEW r \in Requests, OnAccept(r)
    PROVE  Handles' = Handles \cup {r} /\ pending' = pending \ {r}
<1>1. CASE MustOrphan(r) /\ orphans' = orphans \cup {r} /\ UNCHANGED active
  <2>1. Actives' = Actives
    BY <1>1 DEF Actives
  <2> QED BY <1>1, <2>1 DEF OnAccept, Handles
<1>2. CASE ~MustOrphan(r) /\ active' = [active EXCEPT ![ChannelOf[r]] = r] /\ UNCHANGED orphans
  <2>1. Actives' = Actives \cup {r}
    BY <1>2, ActiveTaken DEF MustOrphan
  <2> QED BY <1>2, <2>1 DEF OnAccept, Handles
<1> QED BY <1>1, <1>2 DEF OnAccept

(* A result removes the handle.                                            *)
LEMMA ResultRemoves ==
    ASSUME TypeOK, NEW r \in Requests, OnResult(r)
    PROVE  Handles' = Handles \ {r} /\ pending' = pending /\ r \in Handles
  BY ActiveGivenUp DEF OnResult, Handles

LEMMA TrackerSame ==
    ASSUME UNCHANGED <<pending, active, orphans>>
    PROVE  Handles' = Handles /\ Tracked' = Tracked
  BY DEF Handles, Tracked, Actives

(* What the robot and the cancels do to the goals.                         *)
Calm(q) ==
    /\ ~Undead(q) => server'[q] = server[q]
    /\ server[q] \in Begun => server'[q] \in Begun
    /\ server[q] = "halting" => server'[q] \in {"halting", "ended"}

(* Steps of the robot disturb nothing.                                     *)
LEMMA CalmInv ==
    ASSUME IInv, TypeOK', UNCHANGED <<tracker, confirm, undisturbed>>,
           \A q \in Requests : Calm(q),
           \A q \in Requests : pc'[q] = pc[q] \/ pc'[q] \in {"waiting", "orphaned", "done"}
                                \/ (pc'[q] = "late" /\ pc[q] = "sent")
    PROVE  IInv'
<1>1. Handles' = Handles /\ Tracked' = Tracked /\ pending' = pending
  BY TrackerSame DEF tracker
<1>2. DispatchInv'
  BY <1>1 DEF IInv, DispatchInv, Calm, Undead
<1>3. \A q \in Requests : Undead(q)' => Undead(q)
  BY DEF Calm, Undead
<1>4. LiveTracked'
  BY <1>1, <1>3 DEF IInv, LiveTracked
<1>5. ConfirmInv'
  <2>1. \A q \in Requests : server[q] = "halting" => ~Undead(q)' \/ server'[q] = "halting"
    BY DEF Calm, Undead
  <2>2. confirm.todo \subseteq Requests
    BY DEF IInv, TypeOK, Confirmations
  <2>3. \A q \in confirm'.todo : ChannelOf[q] = confirm'.channel /\ server'[q] \in Begun
    BY <2>2 DEF IInv, ConfirmInv, Calm
  <2>4. stopped' = stopped
    BY DEF tracker
  <2> QED BY <1>1, <1>3, <2>1, <2>3, <2>4 DEF IInv, ConfirmInv, Checked
<1> QED BY <1>2, <1>4, <1>5 DEF IInv

-----------------------------------------------------------------------------
(* The invariant is inductive.                                             *)

LEMMA InitInv == Init => IInv
<1> SUFFICES ASSUME Init PROVE IInv
  OBVIOUS
<1>1. Actives = {}
  BY ChannelOfAssumption, NoneAssumption DEF Init, Actives
<1>2. DispatchInv /\ LiveTracked
  BY <1>1 DEF Init, DispatchInv, Tracked, Handles, LiveTracked, Undead
<1>3. ConfirmInv
  BY DEF Init, ConfirmInv
<1> QED BY <1>2, <1>3, InitType DEF IInv

(* A request registers under an open latch, or is refused.                 *)
LEMMA BeginSendInv ==
    ASSUME IInv, TypeOK', NEW r \in Requests, BeginSend(r) PROVE IInv'
<1>1. /\ pc[r] = "idle" /\ r \notin Tracked /\ pc \in [Requests -> PCs]
      /\ UNCHANGED <<stopped, active, orphans, server, confirm, undisturbed>>
  BY DEF BeginSend, IInv, DispatchInv, TypeOK
<1>2. Handles' = Handles /\ r \notin Handles
  BY <1>1 DEF Handles, Actives, Tracked
<1>3. \/ ~MaySend /\ pc' = [pc EXCEPT ![r] = "done"] /\ pending' = pending
      \/ MaySend /\ pc' = [pc EXCEPT ![r] = "sending"] /\ pending' = pending \cup {r}
  BY DEF BeginSend
<1>4. DispatchInv'
  BY <1>1, <1>2, <1>3 DEF IInv, DispatchInv, Tracked, Handles
<1>5. LiveTracked'
  BY <1>1, <1>2, <1>3 DEF IInv, LiveTracked, Tracked, Handles, Undead
<1>6. ConfirmInv'
  BY <1>1, <1>3 DEF IInv, ConfirmInv, Checked, Undead, MaySend
<1> QED BY <1>4, <1>5, <1>6 DEF IInv

(* What is sent was registered.                                            *)
LEMMA SendInv ==
    ASSUME IInv, TypeOK', NEW r \in Requests, Send(r) PROVE IInv'
<1>1. /\ pc[r] = "sending" /\ r \in pending /\ r \notin Handles
      /\ pc \in [Requests -> PCs] /\ server \in [Requests -> ServerStates]
      /\ UNCHANGED <<stopped, pending, active, orphans, confirm, undisturbed>>
  BY DEF Send, tracker, IInv, DispatchInv, TypeOK
<1>2. Handles' = Handles /\ Tracked' = Tracked /\ r \in Tracked
  BY <1>1, TrackerSame DEF Tracked
<1>3. /\ \A q \in Requests : q # r => pc'[q] = pc[q] /\ server'[q] = server[q]
      /\ pc'[r] \in {"sent", "done"}
  BY <1>1 DEF Send
<1>4. DispatchInv'
  BY <1>1, <1>2, <1>3 DEF IInv, DispatchInv
<1>5. LiveTracked'
  BY <1>1, <1>2, <1>3 DEF IInv, LiveTracked, Undead
<1>6. ConfirmInv'
  <2>1. CASE server' = server
    BY <1>1, <2>1 DEF IInv, ConfirmInv, Checked, Undead
  <2>2. CASE server' = [server EXCEPT ![r] = "undecided"] /\ pc[r] = "sending"
    <3>1. ASSUME r \in confirm.todo
          PROVE  server[r] \in Begun
      BY <3>1 DEF IInv, ConfirmInv
    <3>2. undisturbed /\ confirm.ok /\ confirm.at # "idle" => ~Checked(r)
      BY <1>1 DEF IInv, ConfirmInv
    <3>3. confirm.todo \subseteq Requests
      BY DEF IInv, TypeOK, Confirmations
    <3>4. server[r] = "none"
      BY <1>1 DEF IInv, DispatchInv
    <3>5. \A q \in confirm.todo : q # r
      BY <3>1, <3>4 DEF Begun
    <3> QED BY <1>1, <1>3, <3>2, <3>3, <3>5 DEF IInv, ConfirmInv, Checked, Undead
  <2> QED BY <1>1, <2>1, <2>2 DEF Send
<1> QED BY <1>4, <1>5, <1>6 DEF IInv

(* An answer makes a handle of what was pending.                           *)
LEMMA OnAcceptInv ==
    ASSUME IInv, TypeOK', NEW r \in Requests, OnAccept(r) PROVE IInv'
<1>1. /\ r \in pending /\ r \notin Handles /\ server[r] \in Begun
      /\ UNCHANGED <<stopped, server, confirm, undisturbed>>
      /\ pc \in [Requests -> PCs]
  BY DEF OnAccept, IInv, DispatchInv, TypeOK, Begun
<1>2. Handles' = Handles \cup {r} /\ pending' = pending \ {r}
  BY AcceptMoves DEF IInv
<1>3. /\ \A q \in Requests : q # r => pc'[q] = pc[q]
      /\ pc'[r] \in {"orphaned", "waiting", "done"}
  BY <1>1 DEF OnAccept
<1>4. Tracked' = Tracked
  BY <1>1, <1>2 DEF Tracked, Handles
<1>5. DispatchInv'
  BY <1>1, <1>2, <1>3, <1>4 DEF IInv, DispatchInv
<1>6. LiveTracked'
  BY <1>1, <1>4 DEF IInv, LiveTracked, Undead
<1>7. ConfirmInv'
  BY <1>1, <1>2 DEF IInv, ConfirmInv, Checked, Undead
<1> QED BY <1>5, <1>6, <1>7 DEF IInv

(* A result is one of a goal that has ended.                               *)
LEMMA OnResultInv ==
    ASSUME IInv, TypeOK', NEW r \in Requests, OnResult(r) PROVE IInv'
<1>1. /\ server[r] = "ended" /\ UNCHANGED <<stopped, pending, server, confirm, undisturbed>>
      /\ pc \in [Requests -> PCs]
  BY DEF OnResult, IInv, TypeOK
<1>2. Handles' = Handles \ {r} /\ r \in Handles
  BY ResultRemoves DEF IInv
<1>3. \A q \in Requests : pc'[q] = pc[q] \/ pc'[q] = "done"
  BY <1>1 DEF OnResult
<1>4. Tracked' = pending \cup Handles' /\ Tracked = pending \cup Handles
  BY <1>1 DEF Tracked, Handles
<1>5. DispatchInv'
  BY <1>1, <1>2, <1>3, <1>4 DEF IInv, DispatchInv
<1>6. LiveTracked'
  BY <1>1, <1>2, <1>4 DEF IInv, LiveTracked, Undead
<1>7. ConfirmInv'
  BY <1>1 DEF IInv, ConfirmInv, Checked, Undead
<1> QED BY <1>5, <1>6, <1>7 DEF IInv

(* A cancel is calm.                                                       *)
LEMMA AcknowledgeCalm ==
    ASSUME TypeOK, NEW acks, Acknowledge(acks)
    PROVE  \A q \in Requests : Calm(q)
  BY AcknowledgeDoes DEF Calm, Undead, Begun

(* Timeouts, cancels and the robot.                                        *)
LEMMA QuietStepInv ==
    ASSUME IInv, TypeOK', NEW r \in Requests,
           SendTimeout(r) \/ CancelOrphan(r) \/ ResultTimeout(r) \/ Robot(r)
    PROVE  IInv'
<1>1. /\ pc \in [Requests -> PCs] /\ server \in [Requests -> ServerStates]
      /\ UNCHANGED <<tracker, confirm, undisturbed>>
  BY DEF IInv, TypeOK, SendTimeout, CancelOrphan, ResultTimeout, Robot, ServerAccepts,
         GoalMoves, GoalEnds
<1>2. \A q \in Requests : pc'[q] = pc[q] \/ pc'[q] \in {"waiting", "orphaned", "done"}
                          \/ (pc'[q] = "late" /\ pc[q] = "sent")
  <2>1. CASE SendTimeout(r)
    BY <1>1, <2>1 DEF SendTimeout
  <2>2. CASE CancelOrphan(r) \/ ResultTimeout(r)
    <3>1. pc' = [pc EXCEPT ![r] = "done"]
      BY <2>2 DEF CancelOrphan, ResultTimeout
    <3> QED BY <1>1, <3>1
  <2>3. CASE Robot(r)
    BY <2>3 DEF Robot, ServerAccepts, GoalMoves, GoalEnds
  <2> QED BY <2>1, <2>2, <2>3
<1>3. \A q \in Requests : Calm(q)
  <2>1. CASE CancelOrphan(r) \/ ResultTimeout(r)
    <3>1. PICK acks \in SUBSET {r} : Acknowledge(acks)
      BY <2>1 DEF CancelOrphan, ResultTimeout, TransportCancel
    <3> QED BY <3>1, AcknowledgeCalm DEF IInv
  <2>2. CASE SendTimeout(r)
    BY <2>2 DEF SendTimeout, Calm
  <2>3. CASE Robot(r)
    BY <1>1, <2>3 DEF Robot, ServerAccepts, GoalMoves, GoalEnds, Calm, Undead, Begun
  <2> QED BY <2>1, <2>2, <2>3
<1> QED BY <1>1, <1>2, <1>3, CalmInv

-----------------------------------------------------------------------------
(* confirm_stopped                                                         *)

(* A call of it changes neither tracker nor dispatches.                    *)
LEMMA ConfirmElsewhere ==
    ASSUME IInv, UNCHANGED <<tracker, pc, server>>
    PROVE  DispatchInv' /\ LiveTracked'
<1>1. Handles' = Handles /\ Tracked' = Tracked /\ pending' = pending
  BY TrackerSame DEF tracker
<1> QED BY <1>1 DEF IInv, DispatchInv, LiveTracked, Undead

LEMMA SnapshotInv ==
    ASSUME IInv, TypeOK', NEW ch \in Channels, ConfirmSnapshot(ch) PROVE IInv'
<1> DEFINE listed == (orphans \cup Actives) \cap OnChannel(ch)
<1>1. /\ confirm.at = "next" /\ confirm.left \subseteq Channels
      /\ UNCHANGED <<stopped, pending, active, orphans, pc, server, undisturbed>>
  BY DEF ConfirmSnapshot, tracker, IInv, TypeOK, Confirmations
<1>2. /\ listed \subseteq Handles /\ listed \subseteq Requests
      /\ \A r \in listed : ChannelOf[r] = ch
      /\ \A r \in Requests : ChannelOf[r] = ch /\ r \in Handles => r \in listed
  BY DEF Handles, OnChannel
<1> HIDE DEF listed
<1>3. /\ confirm'.at = IF listed = {} THEN "measure" ELSE "cancel"
      /\ confirm'.channel = ch /\ confirm'.todo = listed
      /\ confirm'.left = confirm.left \ {ch}
      /\ confirm'.ok = (confirm.ok /\ Unanswered(ch) = {})
  BY DEF ConfirmSnapshot, listed
<1>4. \A r \in confirm'.todo : ChannelOf[r] = confirm'.channel /\ server'[r] \in Begun
  BY <1>1, <1>2, <1>3 DEF IInv, DispatchInv
<1>5. ASSUME undisturbed', confirm'.ok
      PROVE  /\ stopped'
             /\ \A r \in Requests : ChannelOf[r] \notin confirm'.left =>
                    /\ r \notin pending'
                    /\ ~Undead(r)' \/ r \in confirm'.todo
  <2>1. undisturbed /\ confirm.ok /\ Unanswered(ch) = {} /\ confirm.at # "idle"
    BY <1>1, <1>3, <1>5
  <2>2. stopped'
    BY <1>1, <2>1 DEF IInv, ConfirmInv
  <2>3. ASSUME NEW r \in Requests, ChannelOf[r] = ch
        PROVE  r \notin pending' /\ (~Undead(r)' \/ r \in confirm'.todo)
    <3>1. r \notin pending
      BY <2>1, <2>3 DEF Unanswered, OnChannel
    <3>2. Undead(r) => r \in Handles
      BY <3>1 DEF IInv, LiveTracked, Tracked, Handles
    <3> QED BY <1>1, <1>2, <1>3, <2>3, <3>1, <3>2 DEF Undead
  <2>4. ASSUME NEW r \in Requests, ChannelOf[r] \notin confirm.left
        PROVE  r \notin pending' /\ ~Undead(r)'
    BY <1>1, <2>1, <2>4 DEF IInv, ConfirmInv, Checked, Undead
  <2>5. \A r \in Requests : ChannelOf[r] \notin confirm'.left =>
            ChannelOf[r] = ch \/ ChannelOf[r] \notin confirm.left
    BY <1>3
  <2> QED BY <2>2, <2>3, <2>4, <2>5
<1>6. ASSUME confirm'.at = "measure"
      PROVE  confirm'.todo = {}
  BY <1>3, <1>6
<1>7. ConfirmInv'
  BY <1>3, <1>4, <1>5, <1>6 DEF ConfirmInv, Checked
<1> QED BY <1>1, <1>7, ConfirmElsewhere DEF IInv, tracker

(* The cancel of a handle.                                                 *)
LEMMA ConfirmCancelInv ==
    ASSUME IInv, TypeOK', NEW r \in Requests, ConfirmCancel(r) PROVE IInv'
<1>1. PICK ack \in BOOLEAN :
          /\ Acknowledge(IF ack THEN {r} ELSE {})
          /\ confirm' = [confirm EXCEPT !.at = "measure", !.todo = @ \ {r}, !.ok = @ /\ ack]
  BY DEF ConfirmCancel
<1>2. /\ confirm.at = "cancel" /\ r \in confirm.todo /\ confirm \in Confirmations
      /\ UNCHANGED <<stopped, pending, active, orphans, pc, undisturbed>>
  BY DEF ConfirmCancel, tracker, IInv, TypeOK
<1>3. /\ confirm'.at = "measure" /\ confirm'.todo = confirm.todo \ {r}
      /\ confirm'.ok = (confirm.ok /\ ack) /\ confirm'.channel = confirm.channel
      /\ confirm'.left = confirm.left
      /\ confirm.todo \subseteq Requests
  BY <1>1, <1>2 DEF Confirmations
<1>4. \A q \in Requests : Calm(q)
  BY <1>1, AcknowledgeCalm DEF IInv
<1>5. Handles' = Handles /\ Tracked' = Tracked
  BY <1>2, TrackerSame
<1>6. DispatchInv'
  BY <1>2, <1>4, <1>5 DEF IInv, DispatchInv, Calm, Undead
<1>7. \A q \in Requests : Undead(q)' => Undead(q)
  BY <1>4 DEF Calm, Undead
<1>8. LiveTracked'
  BY <1>2, <1>5, <1>7 DEF IInv, LiveTracked
<1>9. ConfirmInv'
  <2>1. ChannelOf[r] = confirm.channel /\ server[r] \in Begun /\ ChannelOf[r] \in Channels
    BY <1>2, ChannelOfAssumption DEF IInv, ConfirmInv
  <2>2. ack => server'[r] \in {"halting", "ended"}
    BY <1>1, <2>1, AcknowledgeDoes DEF IInv, Begun
  <2>3. \A q \in confirm'.todo : ChannelOf[q] = confirm'.channel /\ server'[q] \in Begun
    BY <1>3, <1>4 DEF IInv, ConfirmInv, Calm
  <2>4. ASSUME undisturbed', confirm'.ok
        PROVE  /\ stopped'
               /\ \A q \in Requests : ChannelOf[q] \notin confirm'.left =>
                      /\ q \notin pending'
                      /\ \/ ~Undead(q)'
                         \/ q \in confirm'.todo
                         \/ server'[q] = "halting" /\ ChannelOf[q] = confirm'.channel
    <3>1. undisturbed /\ confirm.ok /\ ack /\ confirm.at # "idle"
      BY <1>2, <1>3, <2>4
    <3>2. stopped'
      BY <1>2, <3>1 DEF IInv, ConfirmInv
    <3>3. ASSUME NEW q \in Requests, ChannelOf[q] \notin confirm.left
          PROVE  q \notin pending' /\ (~Undead(q) \/ q \in confirm.todo)
      BY <1>2, <3>1, <3>3 DEF IInv, ConfirmInv, Checked
    <3>4. ~Undead(r)' \/ server'[r] = "halting"
      BY <2>2, <3>1 DEF Undead
    <3> QED BY <1>3, <1>7, <2>1, <3>2, <3>3, <3>4
  <2> QED BY <1>3, <2>1, <2>3, <2>4 DEF ConfirmInv, Checked
<1> QED BY <1>6, <1>8, <1>9 DEF IInv

(* The measurement of a channel at rest.                                   *)
LEMMA MeasureInv ==
    ASSUME IInv, TypeOK', ConfirmMeasure PROVE IInv'
<1>1. PICK measured \in {FALSE, Still(confirm.channel)} :
          confirm' = [confirm EXCEPT !.at = IF confirm.todo # {} THEN "cancel" ELSE "next",
                                     !.ok = @ /\ measured]
  BY DEF ConfirmMeasure
<1>2. /\ confirm.at = "measure" /\ confirm \in Confirmations
      /\ UNCHANGED <<stopped, pending, active, orphans, pc, server, undisturbed>>
  BY DEF ConfirmMeasure, tracker, IInv, TypeOK
<1>3. /\ confirm'.at = IF confirm.todo # {} THEN "cancel" ELSE "next"
      /\ confirm'.ok = (confirm.ok /\ measured)
      /\ confirm'.todo = confirm.todo /\ confirm'.channel = confirm.channel
      /\ confirm'.left = confirm.left
  BY <1>1, <1>2 DEF Confirmations
<1>4. ASSUME undisturbed', confirm'.ok
      PROVE  /\ stopped'
             /\ \A q \in Requests : ChannelOf[q] \notin confirm'.left =>
                    /\ q \notin pending'
                    /\ ~Undead(q)' \/ q \in confirm.todo
  <2>1. undisturbed /\ confirm.ok /\ measured /\ confirm.at # "idle"
    BY <1>2, <1>3, <1>4
  <2>2. Still(confirm.channel)
    BY <2>1
  <2>3. stopped'
    BY <1>2, <2>1 DEF IInv, ConfirmInv
  <2>4. ASSUME NEW q \in Requests, ChannelOf[q] \notin confirm.left
        PROVE  q \notin pending' /\ (~Undead(q)' \/ q \in confirm.todo)
    <3>1. /\ q \notin pending
          /\ \/ ~Undead(q)
             \/ q \in confirm.todo
             \/ (server[q] = "halting" /\ ChannelOf[q] = confirm.channel)
      BY <1>2, <2>1, <2>4 DEF IInv, ConfirmInv, Checked
    <3>2. ~(server[q] = "halting" /\ ChannelOf[q] = confirm.channel)
      BY <2>2 DEF Still, OnChannel
    <3> QED BY <1>2, <3>1, <3>2 DEF Undead
  <2> QED BY <1>3, <2>3, <2>4
<1>5. \A q \in confirm'.todo : ChannelOf[q] = confirm'.channel /\ server'[q] \in Begun
  BY <1>2, <1>3 DEF IInv, ConfirmInv
<1>6. confirm'.at = "next" => confirm.todo = {}
  BY <1>3
<1>7. ConfirmInv'
  BY <1>3, <1>4, <1>5, <1>6 DEF ConfirmInv, Checked
<1> QED BY <1>2, <1>7, ConfirmElsewhere DEF IInv, tracker

(* A call of confirm_stopped begins, and ends.                             *)
LEMMA ConfirmEndsInv ==
    ASSUME IInv, TypeOK', ConfirmBegin \/ ConfirmEnd PROVE IInv'
<1>1. UNCHANGED <<tracker, pc, server>> /\ confirm \in Confirmations
  BY DEF ConfirmBegin, ConfirmEnd, IInv, TypeOK
<1>2. CASE ConfirmBegin
  <2>1. /\ confirm' = [at |-> "next", channel |-> None, todo |-> {}, left |-> Channels,
                       ok |-> TRUE]
        /\ undisturbed' = stopped
    BY <1>2 DEF ConfirmBegin
  <2>2. \A r \in Requests : ChannelOf[r] \in confirm'.left
    BY <2>1, ChannelOfAssumption
  <2>3. undisturbed' => stopped'
    BY <1>1, <2>1 DEF tracker
  <2>4. confirm'.todo = {} /\ confirm'.at = "next"
    BY <2>1
  <2> QED BY <1>1, <2>2, <2>3, <2>4, ConfirmElsewhere DEF IInv, ConfirmInv, Checked
<1>3. CASE ConfirmEnd
  <2>1. /\ confirm.at = "next" /\ confirm'.at = "done" /\ confirm.left = {}
        /\ confirm'.left = {} /\ confirm'.ok = confirm.ok
        /\ undisturbed' = undisturbed
        /\ UNCHANGED <<stopped, pending, server>>
    BY <1>1, <1>3 DEF ConfirmEnd, Confirmations, tracker
  <2>2. confirm'.todo = {}
    BY <1>1, <1>3, <2>1 DEF ConfirmEnd, Confirmations, IInv, ConfirmInv
  <2>3. ConfirmInv'
    BY <2>1, <2>2 DEF IInv, ConfirmInv, Checked, Undead
  <2> QED BY <1>1, <2>3, ConfirmElsewhere DEF IInv
<1> QED BY <1>2, <1>3

-----------------------------------------------------------------------------
(* Every step keeps the invariant.                                         *)
LEMMA NextInv == ASSUME IInv, [Next]_vars PROVE IInv'
<1>0. TypeOK'
  BY NextType DEF IInv
<1>1. ASSUME NEW r \in Requests, Dispatch(r) \/ Robot(r)
      PROVE  IInv'
  BY <1>0, <1>1, BeginSendInv, SendInv, OnAcceptInv, OnResultInv, QuietStepInv DEF Dispatch
<1>2. CASE RequestStop
  <2>1. /\ stopped' = TRUE
        /\ UNCHANGED <<pending, active, orphans, pc, server, confirm, undisturbed>>
    BY <1>2 DEF RequestStop
  <2>2. Handles' = Handles /\ Tracked' = Tracked
    BY <2>1, TrackerSame
  <2>3. DispatchInv' /\ LiveTracked'
    BY <2>1, <2>2 DEF IInv, DispatchInv, LiveTracked, Undead
  <2>4. ConfirmInv'
    BY <2>1 DEF IInv, ConfirmInv, Checked, Undead
  <2> QED BY <1>0, <2>3, <2>4 DEF IInv
<1>3. CASE Cancel
  <2>1. PICK acks \in SUBSET (Actives \cup orphans) : Acknowledge(acks)
    BY <1>3 DEF Cancel, TransportCancel
  <2>2. \A q \in Requests : Calm(q)
    BY <2>1, AcknowledgeCalm DEF IInv
  <2>3. UNCHANGED <<tracker, confirm, undisturbed>> /\ \A q \in Requests : pc'[q] = pc[q]
    BY <1>3 DEF Cancel
  <2> QED BY <1>0, <2>2, <2>3, CalmInv
<1>4. CASE ResetForNewPlan
  <2>1. /\ undisturbed' = FALSE
        /\ UNCHANGED <<pending, active, orphans, pc, server, confirm>>
    BY <1>4 DEF ResetForNewPlan
  <2>2. Handles' = Handles /\ Tracked' = Tracked
    BY <2>1, TrackerSame
  <2>3. DispatchInv' /\ LiveTracked'
    BY <2>1, <2>2 DEF IInv, DispatchInv, LiveTracked, Undead
  <2>4. ConfirmInv'
    BY <2>1 DEF IInv, ConfirmInv
  <2> QED BY <1>0, <2>3, <2>4 DEF IInv
<1>5. CASE Confirm
  BY <1>0, <1>5, ConfirmEndsInv, SnapshotInv, ConfirmCancelInv, MeasureInv DEF Confirm
<1>6. CASE UNCHANGED vars
  <2>1. UNCHANGED <<tracker, pc, server, confirm, undisturbed, stopped, pending>>
    BY <1>6 DEF vars, tracker
  <2>2. ConfirmInv'
    BY <2>1 DEF IInv, ConfirmInv, Checked, Undead
  <2> QED BY <1>0, <2>1, <2>2, ConfirmElsewhere DEF IInv
<1> QED BY <1>1, <1>2, <1>3, <1>4, <1>5, <1>6 DEF Next

LEMMA Invariant == Spec => []IInv
<1> QED BY InitInv, NextInv, PTL DEF Spec

-----------------------------------------------------------------------------
(* core/stop_contract.py: the tracker, the dispatches, the goal server and *)
(* the record of a confirm_stopped call keep their types.                  *)
THEOREM TypeCorrect == Spec => []TypeOK
<1>1. IInv => TypeOK
  BY DEF IInv
<1> QED BY <1>1, Invariant, PTL

(* core/stop_contract.py, R2-R5 and R7: whichever timeouts fire and however *)
(* late the goal server answers, what it carries out or may still start is  *)
(* pending, active or an orphan, for any number of dispatches.              *)
THEOREM NoGoalEscapes == Spec => []LiveTracked
<1>1. IInv => LiveTracked
  BY DEF IInv
<1> QED BY <1>1, Invariant, PTL

(* confirm_stopped, R8-R10: a verdict STOPPED given under a latch that was  *)
(* not reset since the call began leaves nothing moving and nothing that    *)
(* can start, although it looks at one channel, and at one handle, a time.  *)
THEOREM StillWhenConfirmed == Spec => []ConfirmedMeansStill
<1>1. IInv => ConfirmedMeansStill
  <2> SUFFICES ASSUME IInv, confirm.at = "done", confirm.ok, undisturbed
               PROVE  \A r \in Requests : ~Undead(r)
    BY DEF ConfirmedMeansStill
  <2>1. confirm.left = {} /\ confirm.todo = {}
    BY DEF IInv, ConfirmInv
  <2> QED BY <2>1 DEF IInv, ConfirmInv, Checked
<1> QED BY <1>1, Invariant, PTL

-----------------------------------------------------------------------------
(* The promise.                                                            *)

LEMMA InitPromise == Init => Promise!Init
<1> SUFFICES ASSUME Init PROVE Promise!Init
  OBVIOUS
<1>1. Actives = {}
  BY ChannelOfAssumption, NoneAssumption DEF Init, Actives
<1> QED BY <1>1 DEF Init, Promise!Init, Tracked


(* What may move changes only by a registration under an open latch or by  *)
(* the result of a goal; the latch falls only over an empty tracker.       *)
LEMMA DispatchPromise ==
    ASSUME IInv, NEW r \in Requests, Dispatch(r) \/ Robot(r)
    PROVE  \/ Promise!Begin(r)
           \/ Promise!End(r)
           \/ UNCHANGED <<stopped, Tracked>>
<1>1. CASE BeginSend(r)
  <2>1. r \notin Tracked /\ UNCHANGED <<stopped, active, orphans>>
    BY <1>1 DEF BeginSend, IInv, DispatchInv
  <2>2. CASE pending' = pending
    BY <2>1, <2>2, TrackerSame
  <2>3. CASE ~stopped /\ pending' = pending \cup {r}
    <3>1. Tracked' = Tracked \cup {r}
      BY <2>1, <2>3 DEF Tracked, Actives
    <3> QED BY <2>1, <2>3, <3>1 DEF Promise!Begin
  <2> QED BY <1>1, <2>2, <2>3 DEF BeginSend, MaySend
<1>2. CASE OnAccept(r)
  <2>1. Handles' = Handles \cup {r} /\ pending' = pending \ {r} /\ stopped' = stopped
    BY <1>2, AcceptMoves DEF IInv, OnAccept
  <2>2. r \in pending
    BY <1>2 DEF OnAccept, IInv, DispatchInv
  <2>3. Tracked' = Tracked
    BY <2>1, <2>2 DEF Tracked, Handles
  <2> QED BY <2>1, <2>3
<1>3. CASE OnResult(r)
  <2>1. /\ Handles' = Handles \ {r} /\ pending' = pending /\ stopped' = stopped
        /\ r \in Handles /\ r \notin pending
    BY <1>3, ResultRemoves DEF IInv, OnResult, DispatchInv
  <2>2. Tracked' = Tracked \ {r} /\ r \in Tracked
    BY <2>1 DEF Tracked, Handles
  <2> QED BY <2>1, <2>2 DEF Promise!End
<1>4. CASE UNCHANGED tracker
  BY <1>4, TrackerSame DEF tracker
<1> QED BY <1>1, <1>2, <1>3, <1>4
        DEF Dispatch, Robot, Send, SendTimeout, CancelOrphan, ResultTimeout, ServerAccepts,
            GoalMoves, GoalEnds

LEMMA NextPromise ==
    ASSUME IInv, [Next]_vars
    PROVE  [Promise!Next]_<<stopped, Tracked>>
<1>1. CASE \E r \in Requests : Dispatch(r) \/ Robot(r)
  <2>1. PICK r \in Requests : Dispatch(r) \/ Robot(r)
    BY <1>1
  <2> QED BY <2>1, DispatchPromise DEF Promise!Next
<1>2. CASE RequestStop
  BY <1>2, TrackerSame DEF RequestStop, Promise!Next, Promise!Halt
<1>3. CASE ResetForNewPlan
  BY <1>3, TrackerSame DEF ResetForNewPlan, Busy, Promise!Next, Promise!Resume
<1>4. CASE UNCHANGED tracker
  BY <1>4, TrackerSame DEF tracker
<1> QED BY <1>1, <1>2, <1>3, <1>4
        DEF Next, Cancel, Confirm, ConfirmBegin, ConfirmSnapshot, ConfirmCancel, ConfirmMeasure,
            ConfirmEnd, vars, tracker

(* R1 and reset_for_new_plan: nothing is registered while the latch is set, *)
(* and the latch is cleared only over an empty tracker, whatever the robot  *)
(* and the timeouts do: the contract implements the promise of RobotStop.   *)
THEOREM PromiseKept == Spec => KeepsPromise
<1> QED BY InitPromise, Invariant, NextPromise, PTL DEF Spec, KeepsPromise, Promise!Spec

-----------------------------------------------------------------------------
(* The FR3 adapter.  For any number of goals and stops: a goal that moves  *)
(* is tracked unless its answer came too late, and the latch is released   *)
(* over no tracked one.                                                    *)

(* A goal on its way or moving is tracked, waited for or given up.         *)
Owned ==
    \A g \in Goals : ctl[g] \in {"sent", "active", "canceling"} =>
        \/ g \in handles \cup givenUp
        \/ worker = [at |-> "accept", goal |-> g]

(* An answer comes after the decision of the controller, and no goal is    *)
(* known to it before it is sent.                                          *)
Answered ==
    /\ \A g \in heard : ctl[g] \notin {"unsent", "sent"}
    /\ \A g \in Goals : g > sent => ctl[g] = "unsent"

(* The worker waits for a goal, and for nothing else.                      *)
Waits == worker.at = "accept" => worker.goal \in Goals

(* Between the check of the list and the release no step begins.           *)
QuietUntilReset ==
    resetter = "quiet" => latch /\ handles = {} /\ worker.at = "idle"

GazeboIInv == GazeboTypeOK /\ Owned /\ Answered /\ Waits /\ QuietUntilReset

(* The initial state: nothing is sent.                                     *)
LEMMA GazeboInitIInv == GazeboInit => GazeboIInv
<1> SUFFICES ASSUME GazeboInit PROVE GazeboIInv
  OBVIOUS
<1>1. latch \in BOOLEAN
  BY Zenon DEF GazeboInit
<1>2. GazeboTypeOK
  BY <1>1, GazeboBounds DEF GazeboInit, GazeboTypeOK, Idle, GoalStates
<1>3. Owned /\ Answered /\ Waits /\ QuietUntilReset
  BY DEF GazeboInit, Owned, Answered, Waits, QuietUntilReset, Idle
<1> QED BY <1>2, <1>3 DEF GazeboIInv

(* A goal that is accepted was waited for or given up; the one it         *)
(* replaces has ended.                                                     *)
LEMMA AcceptKeeps == ASSUME NEW g \in Goals, GazeboIInv, Accept(g) PROVE GazeboIInv'
<1> USE GazeboBounds, NoGoalAssumption DEF GazeboIInv, Accept, Moving
<1>1. GazeboTypeOK'
  BY DEF GazeboTypeOK, Goals, GoalStates, Idle, Waits
<1>2. Owned'
  BY DEF GazeboTypeOK, Owned, Answered, Waits, Goals, Idle
<1>3. Answered' /\ Waits'
  BY DEF GazeboTypeOK, Answered, Waits, Goals, Idle, GoalStates
<1>4. QuietUntilReset'
  BY DEF GazeboTypeOK, QuietUntilReset, Waits, Idle
<1> QED BY <1>1, <1>2, <1>3, <1>4

(* A refused goal does not move.                                           *)
LEMMA RefuseKeeps == ASSUME NEW g \in Goals, GazeboIInv, Refuse(g) PROVE GazeboIInv'
<1> USE GazeboBounds, NoGoalAssumption DEF GazeboIInv, Refuse
<1>1. GazeboTypeOK'
  BY DEF GazeboTypeOK, Goals, GoalStates, Idle, Waits
<1>2. Owned'
  BY DEF GazeboTypeOK, Owned, Answered, Waits, Goals, Idle
<1>3. Answered' /\ Waits'
  BY DEF GazeboTypeOK, Answered, Waits, Goals, Idle, GoalStates
<1>4. QuietUntilReset'
  BY DEF GazeboTypeOK, QuietUntilReset, Waits, Idle
<1> QED BY <1>1, <1>2, <1>3, <1>4

(* An ended goal does not move.                                            *)
LEMMA FinishKeeps == ASSUME NEW g \in Goals, GazeboIInv, Finish(g) PROVE GazeboIInv'
<1> USE GazeboBounds, NoGoalAssumption DEF GazeboIInv, Finish, Moving
<1>1. GazeboTypeOK'
  BY DEF GazeboTypeOK, Goals, GoalStates, Idle, Waits
<1>2. Owned'
  BY DEF GazeboTypeOK, Owned, Answered, Waits, Goals, Idle
<1>3. Answered' /\ Waits'
  BY DEF GazeboTypeOK, Answered, Waits, Goals, Idle, GoalStates
<1>4. QuietUntilReset'
  BY DEF GazeboTypeOK, QuietUntilReset, Waits, Idle
<1> QED BY <1>1, <1>2, <1>3, <1>4

(* The answer follows the decision.                                        *)
LEMMA AnswerKeeps == ASSUME NEW g \in Goals, GazeboIInv, Answer(g) PROVE GazeboIInv'
<1> USE GazeboBounds, NoGoalAssumption DEF GazeboIInv, Answer
<1>1. GazeboTypeOK'
  BY DEF GazeboTypeOK, Goals, GoalStates, Idle, Waits
<1>2. Owned'
  BY DEF GazeboTypeOK, Owned, Answered, Waits, Goals, Idle
<1>3. Answered' /\ Waits'
  BY DEF GazeboTypeOK, Answered, Waits, Goals, Idle, GoalStates
<1>4. QuietUntilReset'
  BY DEF GazeboTypeOK, QuietUntilReset, Waits, Idle
<1> QED BY <1>1, <1>2, <1>3, <1>4

(* No step begins under the latch.                                         *)
LEMMA BeginKeeps == GazeboIInv /\ Begin => GazeboIInv'
<1> SUFFICES ASSUME GazeboIInv, Begin PROVE GazeboIInv'
  OBVIOUS
<1> USE GazeboBounds, NoGoalAssumption DEF GazeboIInv, Begin
<1>0. latch' \in BOOLEAN
  BY Zenon DEF GazeboTypeOK
<1>1. GazeboTypeOK'
  BY <1>0 DEF GazeboTypeOK, Goals, GoalStates, Idle, Waits
<1>2. Owned'
  BY DEF GazeboTypeOK, Owned, Answered, Waits, Goals, Idle
<1>3. Answered' /\ Waits'
  BY DEF GazeboTypeOK, Answered, Waits, Goals, Idle, GoalStates
<1>4. QuietUntilReset'
  BY DEF GazeboTypeOK, QuietUntilReset, Waits, Idle
<1> QED BY <1>1, <1>2, <1>3, <1>4

(* A goal that is sent is waited for.                                      *)
LEMMA SendKeeps == GazeboIInv /\ SendGoal => GazeboIInv'
<1> SUFFICES ASSUME GazeboIInv, SendGoal PROVE GazeboIInv'
  OBVIOUS
<1> USE GazeboBounds, NoGoalAssumption DEF GazeboIInv, SendGoal
<1>1. GazeboTypeOK'
  BY DEF GazeboTypeOK, Goals, GoalStates, Idle, Waits
<1>2. Owned'
  BY DEF GazeboTypeOK, Owned, Answered, Waits, Goals, Idle
<1>3. Answered' /\ Waits'
  BY DEF GazeboTypeOK, Answered, Waits, Goals, Idle, GoalStates
<1>4. QuietUntilReset'
  BY DEF GazeboTypeOK, QuietUntilReset, Waits, Idle
<1> QED BY <1>1, <1>2, <1>3, <1>4

(* An accepted goal goes on the list.                                      *)
LEMMA TrackKeeps == GazeboIInv /\ Track => GazeboIInv'
<1> SUFFICES ASSUME GazeboIInv, Track PROVE GazeboIInv'
  OBVIOUS
<1> USE GazeboBounds, NoGoalAssumption DEF GazeboIInv, Track
<1>1. GazeboTypeOK'
  BY DEF GazeboTypeOK, Goals, GoalStates, Idle, Waits
<1>2. Owned'
  BY DEF GazeboTypeOK, Owned, Answered, Waits, Goals, Idle
<1>3. Answered' /\ Waits'
  BY DEF GazeboTypeOK, Answered, Waits, Goals, Idle, GoalStates
<1>4. QuietUntilReset'
  BY DEF GazeboTypeOK, QuietUntilReset, Waits, Idle
<1> QED BY <1>1, <1>2, <1>3, <1>4

(* A goal whose answer is late is given up.                                *)
LEMMA AcceptTimeoutKeeps == GazeboIInv /\ AcceptTimeout => GazeboIInv'
<1> SUFFICES ASSUME GazeboIInv, AcceptTimeout PROVE GazeboIInv'
  OBVIOUS
<1> USE GazeboBounds, NoGoalAssumption DEF GazeboIInv, AcceptTimeout, HandlesAfterTimeout
<1>1. GazeboTypeOK'
  BY DEF GazeboTypeOK, Goals, GoalStates, Idle, Waits
<1>2. Owned'
  BY DEF GazeboTypeOK, Owned, Answered, Waits, Goals, Idle
<1>3. Answered' /\ Waits'
  BY DEF GazeboTypeOK, Answered, Waits, Goals, Idle, GoalStates
<1>4. QuietUntilReset'
  BY DEF GazeboTypeOK, QuietUntilReset, Waits, Idle
<1> QED BY <1>1, <1>2, <1>3, <1>4

(* The worker leaves its goal on the list.                                 *)
LEMMA WorkerReturnsKeeps == GazeboIInv /\ WorkerReturns => GazeboIInv'
<1> SUFFICES ASSUME GazeboIInv, WorkerReturns PROVE GazeboIInv'
  OBVIOUS
<1> USE GazeboBounds, NoGoalAssumption DEF GazeboIInv, WorkerReturns
<1>1. GazeboTypeOK'
  BY DEF GazeboTypeOK, Goals, GoalStates, Idle, Waits
<1>2. Owned'
  BY DEF GazeboTypeOK, Owned, Answered, Waits, Goals, Idle
<1>3. Answered' /\ Waits'
  BY DEF GazeboTypeOK, Answered, Waits, Goals, Idle, GoalStates
<1>4. QuietUntilReset'
  BY DEF GazeboTypeOK, QuietUntilReset, Waits, Idle
<1> QED BY <1>1, <1>2, <1>3, <1>4

(* Only an ended goal leaves the list.                                     *)
LEMMA ResultKeeps == ASSUME NEW g \in Goals, GazeboIInv, Result(g) PROVE GazeboIInv'
<1> USE GazeboBounds, NoGoalAssumption DEF GazeboIInv, Result, Terminal, Untracked
<1>1. GazeboTypeOK'
  BY DEF GazeboTypeOK, Goals, GoalStates, Idle, Waits
<1>2. Owned'
  BY DEF GazeboTypeOK, Owned, Answered, Waits, Goals, Idle
<1>3. Answered' /\ Waits'
  BY DEF GazeboTypeOK, Answered, Waits, Goals, Idle, GoalStates
<1>4. QuietUntilReset'
  BY DEF GazeboTypeOK, QuietUntilReset, Waits, Idle
<1> QED BY <1>1, <1>2, <1>3, <1>4

(* A stop sets the latch.                                                  *)
LEMMA StopKeeps == GazeboIInv /\ Stop => GazeboIInv'
<1> SUFFICES ASSUME GazeboIInv, Stop PROVE GazeboIInv'
  OBVIOUS
<1> USE GazeboBounds, NoGoalAssumption DEF GazeboIInv, Stop
<1>0. latch' \in BOOLEAN
  BY Zenon DEF GazeboTypeOK
<1>1. GazeboTypeOK'
  BY <1>0 DEF GazeboTypeOK, Goals, GoalStates, Idle, Waits
<1>2. Owned'
  BY DEF GazeboTypeOK, Owned, Answered, Waits, Goals, Idle
<1>3. Answered' /\ Waits'
  BY DEF GazeboTypeOK, Answered, Waits, Goals, Idle, GoalStates
<1>4. QuietUntilReset'
  BY DEF GazeboTypeOK, QuietUntilReset, Waits, Idle
<1> QED BY <1>1, <1>2, <1>3, <1>4

(* The list is copied.                                                     *)
LEMMA SnapshotKeeps == GazeboIInv /\ Snapshot => GazeboIInv'
<1> SUFFICES ASSUME GazeboIInv, Snapshot PROVE GazeboIInv'
  OBVIOUS
<1> USE GazeboBounds, NoGoalAssumption DEF GazeboIInv, Snapshot
<1>1. GazeboTypeOK'
  BY DEF GazeboTypeOK, Goals, GoalStates, Idle, Waits
<1>2. Owned'
  BY DEF GazeboTypeOK, Owned, Answered, Waits, Goals, Idle
<1>3. Answered' /\ Waits'
  BY DEF GazeboTypeOK, Answered, Waits, Goals, Idle, GoalStates
<1>4. QuietUntilReset'
  BY DEF GazeboTypeOK, QuietUntilReset, Waits, Idle
<1> QED BY <1>1, <1>2, <1>3, <1>4

(* A canceled goal still moves and stays on the list.                      *)
LEMMA CancelKeeps == ASSUME NEW g \in Goals, GazeboIInv, CancelGoal(g) PROVE GazeboIInv'
<1> USE GazeboBounds, NoGoalAssumption DEF GazeboIInv, CancelGoal
<1>1. GazeboTypeOK'
  BY DEF GazeboTypeOK, Goals, GoalStates, Idle, Waits
<1>2. Owned'
  BY DEF GazeboTypeOK, Owned, Answered, Waits, Goals, Idle
<1>3. Answered' /\ Waits'
  BY DEF GazeboTypeOK, Answered, Waits, Goals, Idle, GoalStates
<1>4. QuietUntilReset'
  BY DEF GazeboTypeOK, QuietUntilReset, Waits, Idle
<1> QED BY <1>1, <1>2, <1>3, <1>4

(* The stop returns.                                                       *)
LEMMA StopReturnsKeeps == GazeboIInv /\ StopReturns => GazeboIInv'
<1> SUFFICES ASSUME GazeboIInv, StopReturns PROVE GazeboIInv'
  OBVIOUS
<1> USE GazeboBounds, NoGoalAssumption DEF GazeboIInv, StopReturns
<1>1. GazeboTypeOK'
  BY DEF GazeboTypeOK, Goals, GoalStates, Idle, Waits
<1>2. Owned'
  BY DEF GazeboTypeOK, Owned, Answered, Waits, Goals, Idle
<1>3. Answered' /\ Waits'
  BY DEF GazeboTypeOK, Answered, Waits, Goals, Idle, GoalStates
<1>4. QuietUntilReset'
  BY DEF GazeboTypeOK, QuietUntilReset, Waits, Idle
<1> QED BY <1>1, <1>2, <1>3, <1>4

(* The list is empty and no step has begun.                                *)
LEMMA ResetCheckKeeps == GazeboIInv /\ ResetCheck => GazeboIInv'
<1> SUFFICES ASSUME GazeboIInv, ResetCheck PROVE GazeboIInv'
  OBVIOUS
<1> USE GazeboBounds, NoGoalAssumption DEF GazeboIInv, ResetCheck, Quiet
<1>1. GazeboTypeOK'
  BY DEF GazeboTypeOK, Goals, GoalStates, Idle, Waits
<1>2. Owned'
  BY DEF GazeboTypeOK, Owned, Answered, Waits, Goals, Idle
<1>3. Answered' /\ Waits'
  BY DEF GazeboTypeOK, Answered, Waits, Goals, Idle, GoalStates
<1>4. QuietUntilReset'
  BY DEF GazeboTypeOK, QuietUntilReset, Waits, Idle
<1> QED BY <1>1, <1>2, <1>3, <1>4

(* The latch is released.                                                  *)
LEMMA ResetKeeps == GazeboIInv /\ Reset => GazeboIInv'
<1> SUFFICES ASSUME GazeboIInv, Reset PROVE GazeboIInv'
  OBVIOUS
<1> USE GazeboBounds, NoGoalAssumption DEF GazeboIInv, Reset
<1>0. latch' \in BOOLEAN
  BY Zenon DEF GazeboTypeOK
<1>1. GazeboTypeOK'
  BY <1>0 DEF GazeboTypeOK, Goals, GoalStates, Idle, Waits
<1>2. Owned'
  BY DEF GazeboTypeOK, Owned, Answered, Waits, Goals, Idle
<1>3. Answered' /\ Waits'
  BY DEF GazeboTypeOK, Answered, Waits, Goals, Idle, GoalStates
<1>4. QuietUntilReset'
  BY DEF GazeboTypeOK, QuietUntilReset, Waits, Idle
<1> QED BY <1>1, <1>2, <1>3, <1>4

(* Every step of the worker, the controller, stop() and the release        *)
(* preserves the invariant.                                                *)
LEMMA GazeboNextIInv == GazeboIInv /\ [GazeboNext]_gazeboVars => GazeboIInv'
<1> SUFFICES ASSUME GazeboIInv, [GazeboNext]_gazeboVars PROVE GazeboIInv'
  OBVIOUS
<1>1. ASSUME NEW g \in Goals, Controller(g) \/ Answer(g) \/ Result(g) \/ CancelGoal(g)
      PROVE  GazeboIInv'
  BY <1>1, AcceptKeeps, RefuseKeeps, FinishKeeps, AnswerKeeps, ResultKeeps, CancelKeeps
  DEF Controller
<1>2. CASE Begin \/ SendGoal \/ Track \/ AcceptTimeout \/ WorkerReturns
  BY <1>2, BeginKeeps, SendKeeps, TrackKeeps, AcceptTimeoutKeeps, WorkerReturnsKeeps
<1>3. CASE Stop \/ Snapshot \/ StopReturns \/ ResetCheck \/ Reset
  BY <1>3, StopKeeps, SnapshotKeeps, StopReturnsKeeps, ResetCheckKeeps, ResetKeeps
<1>4. CASE UNCHANGED gazeboVars
  BY <1>4 DEF gazeboVars, GazeboIInv, GazeboTypeOK, Owned, Answered, Waits, QuietUntilReset
<1> QED BY <1>1, <1>2, <1>3, <1>4 DEF GazeboNext

(* The invariant holds in every reachable state.                           *)
LEMMA InvariantHolds == GazeboSpec => []GazeboIInv
  BY GazeboInitIInv, GazeboNextIInv, PTL DEF GazeboSpec

(* The adapter's state has its types, for any number of goals and stops.   *)
THEOREM GazeboTypeCorrect == GazeboSpec => []GazeboTypeOK
<1>1. GazeboIInv => GazeboTypeOK
  BY DEF GazeboIInv
<1> QED BY InvariantHolds, <1>1, PTL

(* _handles holds every goal that moves the arm, except those whose        *)
(* acceptance came after _send had given up.                               *)
THEOREM MovingGoalsTracked == GazeboSpec => []MovingIsTracked
<1>1. GazeboIInv => MovingIsTracked
  BY DEF GazeboIInv, Owned, MovingIsTracked, Moving, GazeboTypeOK
<1> QED BY InvariantHolds, <1>1, PTL

(* reset_for_new_plan reads the list without a lock and clears the latch   *)
(* later, yet no tracked goal is there when it does.                       *)
THEOREM ResetWhenQuiet == GazeboSpec => ReleasedWhenQuiet
<1>1. GazeboIInv /\ [GazeboNext]_gazeboVars => [latch /\ ~latch' => handles = {}]_gazeboVars
  <2> SUFFICES ASSUME GazeboIInv, [GazeboNext]_gazeboVars, latch, ~latch' PROVE handles = {}
    BY DEF gazeboVars
  <2>1. CASE Reset
    BY <2>1 DEF GazeboIInv, Reset, QuietUntilReset
  <2>2. CASE Stop
    BY <2>2, Zenon DEF Stop
  <2> QED
    BY <2>1, <2>2
    DEF GazeboNext, Controller, Accept, Refuse, Finish, Answer, Result, CancelGoal, Begin, SendGoal, Track,
        AcceptTimeout, WorkerReturns, Snapshot, StopReturns, ResetCheck, gazeboVars
<1> QED BY InvariantHolds, <1>1, PTL DEF GazeboSpec, ReleasedWhenQuiet
=============================================================================
