----------------------- MODULE HumanoidService_proofs -----------------------
(***************************************************************************)
(* The G1's walking jobs, for any number of sessions, jobs, walks, stops,  *)
(* faults and restarts of the controller.                                  *)
(*                                                                         *)
(* IInv, at the end, is the conjunction of what the parts below prove:     *)
(* the types with the cards (WorkInv) and the threads (ThreadInv), where   *)
(* legs are (LegInv), the starts remembered (StartInv), the controller's   *)
(* views (ViewInv), of which kind the legs of the running job are          *)
(* (KindInv), that one of them at most is under way (QueueInv), the robot  *)
(* at rest (RestInv), and what a stop has caught (StopInv).                *)
(*                                                                         *)
(* Local is what every step needs of the loop and the threads; the later   *)
(* parts see a step through StepsAre, JobMoves, QueueStep and ControllerIs,*)
(* which say what it does to the state they are about.                     *)
(***************************************************************************)
EXTENDS HumanoidService, SequenceTheorems, WellFoundedInduction, TLAPS

CardOf == [session : Sessions \cup {None}, steps : Seq(StepKinds), start : Starts \cup {None}]
ThreadOf == [at : {"none", "check", "send", "react", "wait", "verdict", "clean",
                   "finish", "ended"},
             k : 1..4, start : Starts \cup {None}, claimed : Legs \cup {None}]
CommandOf == [kind : StepKinds \cup {"stop"}, leg : Nat \X Nat,
              start : Starts \cup {None}, raced : BOOLEAN]
StatusOf == [mode : Modes, goal : Legs \cup {None}, arrived : Legs \cup {None},
             reaction : Reactions]

(* What TypeOK says of the event loop, the threads and the controller.     *)
LoopType ==
    /\ work \in [Jobs -> CardOf]
    /\ pending \subseteq Jobs
    /\ lastStart \in [Sessions -> Starts \cup {None}]
    /\ running \in Jobs \cup {None}
    /\ status \in [Jobs -> {"none", "running", "completed", "stopped", "failed"}]
    /\ told \subseteq Jobs
    /\ request \in {"idle", "sent"} /\ stops \in Nat
ThreadType == thread \in [Jobs -> ThreadOf]
QueueType == commands \in Seq(CommandOf)
RobotType == ctl \in Robots /\ saves \in Nat /\ faults \in Nat
SeenType == seen \in StatusOf /\ fresh \in BOOLEAN

(* TypeOK is the conjunction of its parts.                                 *)
LEMMA TypeParts == TypeOK <=> LoopType /\ ThreadType /\ QueueType /\ RobotType /\ SeenType
  BY Zenon DEF TypeOK, LoopType, ThreadType, QueueType, RobotType, SeenType, CardOf, ThreadOf,
               CommandOf, StatusOf

(* None is none of the things it stands in for.                            *)
LEMMA NoneIsNew == None \notin Nat /\ None \notin Sessions /\ None \notin Legs /\ None \notin Jobs
  BY NoneAssumption, BoundsAssumption DEF Legs, Jobs

Scripts == {<<"save_start", "goto">>, <<"save_start", "goto", "return">>, <<"return">>}

(* What is common to the three lists of steps.                             *)
LEMMA ScriptsAre ==
    ASSUME NEW steps \in Scripts
    PROVE  /\ steps \in Seq(StepKinds)
           /\ Len(steps) \in 1..3
           /\ \A k \in 1..Len(steps) : steps[k] \in StepKinds
<1>1. CASE steps = <<"save_start", "goto">>
  BY <1>1 DEF StepKinds
<1>2. CASE steps = <<"save_start", "goto", "return">>
  BY <1>2 DEF StepKinds
<1>3. CASE steps = <<"return">>
  BY <1>3 DEF StepKinds
<1> QED BY <1>1, <1>2, <1>3 DEF Scripts

(* Every intent has one of the lists of steps.                             *)
LEMMA StepsAreScripts == \A intent \in Intents : Steps(intent) \in Scripts
  BY IntentsAssumption DEF Steps, Scripts

(* The least free job number is a free one.                                *)
LEMMA MinIn == ASSUME NEW S \in SUBSET Jobs, S # {} PROVE Min(S) \in S
<1> DEFINE less == OpToRel(<, Nat)
<1>1. S \subseteq Nat
  BY BoundsAssumption DEF Jobs
<1>2. \A m, n \in Nat : m < n => <<m, n>> \in less
  BY DEF OpToRel
<1>3. IsWellFoundedOn(less, Nat)
  BY NatLessThanWellFounded
<1> HIDE DEF less
<1>4. PICK n \in S : \A m \in S : ~(<<m, n>> \in less)
  BY <1>1, <1>3, WFMin
<1>5. \A m \in S : n <= m
  <2> SUFFICES ASSUME NEW m \in S PROVE n <= m
    OBVIOUS
  <2>1. n \in Nat /\ m \in Nat /\ ~(m < n)
    BY <1>1, <1>2, <1>4, Zenon
  <2> QED BY <2>1
<1> QED BY <1>5, Zenon DEF Min

(* The queue after a command is published, and after one is taken.         *)
LEMMA PublishedIs ==
    ASSUME QueueType, NEW c \in CommandOf
    PROVE  /\ Published(c) \in Seq(CommandOf)
           /\ ctl.up => /\ Len(Published(c)) = Len(commands) + 1
                        /\ \A i \in 1..Len(commands) : Published(c)[i] = commands[i]
                        /\ Published(c)[Len(commands) + 1] = c
           /\ ~ctl.up => Published(c) = commands
<1>1. CASE ctl.up
  BY <1>1, AppendProperties, Zenon DEF Published, QueueType
<1>2. CASE ~ctl.up
  BY <1>2 DEF Published, QueueType
<1> QED BY <1>1, <1>2

(* Apply takes the first command and leaves the others as they are.        *)
LEMMA TakenIs ==
    ASSUME QueueType, commands # << >>
    PROVE  /\ Head(commands) = commands[1] /\ commands[1] \in CommandOf
           /\ Tail(commands) \in Seq(CommandOf)
           /\ Len(commands) \in Nat /\ Len(commands) >= 1
           /\ Len(Tail(commands)) = Len(commands) - 1
           /\ \A i \in 1..Len(Tail(commands)) : Tail(commands)[i] = commands[i + 1]
  BY DEF QueueType

(* The types hold at the start.                                            *)
LEMMA InitType == Init => TypeOK
<1> SUFFICES ASSUME Init PROVE TypeOK
  OBVIOUS
<1> USE NoneIsNew, WalkedAssumption DEF Starts
<1>1. LoopType
  <2>1. NoWork \in CardOf
    BY DEF NoWork, CardOf
  <2> QED BY <2>1 DEF Init, LoopType
<1>2. ThreadType
  BY DEF Init, ThreadType, NoThread, ThreadOf
<1>3. QueueType
  BY DEF Init, QueueType
<1>4. NoReactionYet \in Reactions
  BY DEF NoReactionYet, Reactions
<1>5. RobotType
  <2>1. Standing \in Robots
    <3>1. TRUE \in BOOLEAN /\ FALSE \in BOOLEAN
      OBVIOUS
    <3>2. "stand" \in Modes /\ None \in Legs \cup {None} /\ None \in Starts \cup {None} /\ {} \in SUBSET Starts
      BY DEF Modes
    <3> QED BY <1>4, <3>1, <3>2, Zenon DEF Standing, Robots
  <2>2. \A robot \in Robots : [robot EXCEPT !.starts = {1}] \in Robots
    BY DEF Robots
  <2> QED BY <2>1, <2>2 DEF Init, RobotType
<1>6. Shown(Standing) \in StatusOf
  BY <1>4 DEF Shown, Standing, StatusOf, Modes
<1>7. SeenType
  BY <1>6, Zenon DEF Init, SeenType
<1> QED BY <1>1, <1>2, <1>3, <1>5, <1>7, TypeParts

-----------------------------------------------------------------------------
(* The cards: one per session, the running job's included, with the start  *)
(* that the session's last walk has left.                                  *)
Taken == pending \cup ({running} \ {None})
Own == work[running].session

WorkInv ==
    /\ \A j \in Taken :
          /\ work[j].session \in Sessions
          /\ work[j].steps \in Scripts
          /\ work[j].start # None => work[j].steps = <<"return">>
    /\ \A c, d \in Taken : work[c].session = work[d].session => c = d
    /\ \A j \in pending :
          /\ status[j] = "none"
          /\ work[j].steps = <<"return">> => work[j].start = lastStart[work[j].session]

(* One job at most has a thread, and its status goes with the thread's.    *)
Resting == {"none", "ended"}

ThreadInv ==
    \A j \in Jobs :
        /\ thread[j].at = "none" <=> status[j] = "none"
        /\ thread[j].at \notin Resting <=> running = j
        /\ thread[j].at \in Resting =>
              thread[j].k = 1 /\ thread[j].start = None /\ thread[j].claimed = None
        /\ thread[j].at \in {"send", "react", "wait"} => thread[j].k <= Len(work[j].steps)
        /\ thread[j].at = "clean" => status[j] = "failed"
        /\ j \in told => running = j

Local == TypeOK /\ WorkInv /\ ThreadInv

(* The thread that takes a step is that of the running job.                *)
LEMMA StepIsRunning ==
    ASSUME Local, NEW j \in Jobs, thread[j].at \notin Resting
    PROVE  /\ running = j /\ running # None /\ j \in Taken
           /\ work[j].session \in Sessions /\ work[j].steps \in Scripts
           /\ work[j] \in CardOf /\ thread[j] \in ThreadOf
  BY NoneIsNew, TypeParts DEF Local, WorkInv, ThreadInv, Taken, LoopType, ThreadType

(* A leg that goes out is one of its job's steps.                          *)
LEMMA LegIsStep ==
    ASSUME Local, NEW j \in Jobs, thread[j].at \in {"send", "react", "wait"}
    PROVE  /\ thread[j].k \in 1..3 /\ thread[j].k <= Len(work[j].steps)
           /\ Step(j) \in StepKinds /\ Leg(j) \in Legs
<1>1. work[j].steps \in Scripts /\ thread[j] \in ThreadOf
  BY StepIsRunning DEF Resting
<1>2. thread[j].k <= Len(work[j].steps) /\ thread[j].k \in 1..4
  BY <1>1 DEF Local, ThreadInv, ThreadOf
<1>3. thread[j].k \in 1..3 /\ Step(j) \in StepKinds
  BY <1>1, <1>2, ScriptsAre DEF Step
<1> QED BY <1>2, <1>3 DEF Leg, Legs

(* The steps that leave the event loop's variables alone.                  *)
LEMMA KeptType == ASSUME LoopType, NEW cards PROVE Kept(cards) \in [Jobs -> CardOf]
<1>1. NoWork \in CardOf
  BY DEF NoWork, CardOf
<1> QED BY <1>1, Zenon DEF Kept, LoopType

(* What a step makes of the thread that takes it.                          *)
LEMMA GoIs ==
    ASSUME ThreadType, NEW j \in Jobs, NEW at, Go(j, at)
    PROVE  /\ thread'[j].at = at /\ thread'[j].k = thread[j].k
           /\ thread'[j].start = thread[j].start /\ thread'[j].claimed = thread[j].claimed
           /\ \A i \in Jobs \ {j} : thread'[i] = thread[i]
  BY DEF Go, ThreadType, ThreadOf

NextLeg(j, start) ==
    thread' = [thread EXCEPT ![j] = [NoThread EXCEPT !.at = "check", !.k = thread[j].k + 1,
                                                     !.start = start]]

(* The thread that goes on to its next step forgets the leg it had.        *)
LEMMA NextLegIs ==
    ASSUME ThreadType, NEW j \in Jobs, NEW start, NextLeg(j, start)
    PROVE  /\ thread'[j].at = "check" /\ thread'[j].k = thread[j].k + 1
           /\ thread'[j].start = start /\ thread'[j].claimed = None
           /\ \A i \in Jobs \ {j} : thread'[i] = thread[i]
<1> DEFINE t == [NoThread EXCEPT !.at = "check", !.k = thread[j].k + 1, !.start = start]
<1>1. t.at = "check" /\ t.k = thread[j].k + 1 /\ t.start = start /\ t.claimed = None
  BY DEF NoThread
<1>2. thread'[j] = t /\ \A i \in Jobs \ {j} : thread'[i] = thread[i]
  BY DEF NextLeg, ThreadType
<1> QED BY <1>1, <1>2

(* The variables of the event loop keep their types.                       *)
LEMMA LoopTypeNext == Local /\ [Next]_vars => LoopType'
<1> SUFFICES ASSUME Local, [Next]_vars PROVE LoopType'
  OBVIOUS
<1>0. LoopType /\ ThreadType /\ SeenType /\ RobotType
  BY TypeParts DEF Local
<1>1. ASSUME NEW s \in Sessions, NEW intent \in Intents, Command(s, intent) PROVE LoopType'
  <2> DEFINE new == {j \in Jobs : j \notin Others(s) /\ status[j] = "none"}
             card == [session |-> s, steps |-> Steps(intent),
                      start |-> IF intent = "return" THEN lastStart[s] ELSE None]
  <2>1. Min(new) \in Jobs
    BY <1>1, MinIn DEF Command
  <2>2. card \in CardOf
    BY <1>0, StepsAreScripts, ScriptsAre DEF LoopType, CardOf
  <2>3. work' \in [Jobs -> CardOf]
    <3>1. work' = [Kept(pending') EXCEPT ![Min(new)] = card]
      BY <1>1, Zenon DEF Command
    <3> HIDE DEF card, new
    <3> QED BY <1>0, <2>1, <2>2, <3>1, KeptType
  <2>4. pending' \subseteq Jobs
    <3>1. pending' = Others(s) \cup {Min(new)}
      BY <1>1, Zenon DEF Command
    <3> HIDE DEF new
    <3> QED BY <1>0, <2>1, <3>1 DEF Others, LoopType
  <2> QED BY <1>0, <1>1, <2>3, <2>4 DEF Command, LoopType
<1>2. ASSUME NEW j \in Jobs, Expire(j) PROVE LoopType'
  BY <1>0, <1>2, KeptType DEF Expire, LoopType
<1>3. ASSUME NEW j \in Jobs, Confirm(j) PROVE LoopType'
  BY <1>0, <1>3 DEF Confirm, LoopType
<1>4. CASE StopSend
  BY <1>0, <1>4 DEF StopSend, LoopType
<1>5. ASSUME NEW s \in Sessions, StopTell(s) PROVE LoopType'
  <2>1. Told \subseteq Jobs
    BY <1>0 DEF Told, LoopType
  <2>2. work' \in [Jobs -> CardOf]
    BY <1>0, <1>5, KeptType DEF StopTell
  <2>3. pending' \subseteq Jobs
    BY <1>0, <1>5 DEF StopTell, Others, LoopType
  <2> QED BY <1>0, <1>5, <2>1, <2>2, <2>3 DEF StopTell, LoopType
<1>6. ASSUME NEW j \in Jobs, Saved(j) PROVE LoopType'
  <2>1. work[j].session \in Sessions
    BY <1>6, StepIsRunning DEF Saved, Resting
  <2>2. seen.reaction.start \in Starts \cup {None}
    BY <1>0 DEF SeenType, StatusOf, Reactions
  <2>3. lastStart' \in [Sessions -> Starts \cup {None}]
    BY <1>0, <1>6, <2>1, <2>2 DEF Saved, LoopType
  <2> QED BY <1>0, <1>6, <2>3 DEF Saved, JobUnchanged, LoopType
<1>7. ASSUME NEW j \in Jobs, NoReaction(j) PROVE LoopType'
  BY <1>0, <1>7 DEF NoReaction, JobUnchanged, LoopType
<1>8. ASSUME NEW j \in Jobs, Verdict(j) PROVE LoopType'
  BY <1>0, <1>8 DEF Verdict, RunningAtVerdict, JobUnchanged, LoopType
<1>9. ASSUME NEW j \in Jobs, Finish(j) PROVE LoopType'
  <2>1. NoWork \in CardOf
    BY DEF NoWork, CardOf
  <2> QED BY <1>0, <1>9, <2>1 DEF Finish, JobUnchanged, LoopType
<1>10. ASSUME NEW j \in Jobs, Check(j) \/ SendLeg(j) \/ Applied(j) \/ WaitStopped(j) \/
              WaitFails(j) \/ Claim(j) \/ Verify(j) \/ Clean(j)
       PROVE  LoopType'
  BY <1>0, <1>10 DEF Check, SendLeg, Applied, WaitStopped, WaitFails, Claim, Verify, Clean,
                     JobUnchanged, LoopType
<1>11. CASE Controller
  <2>1. RobotUnchanged
    BY <1>11 DEF Controller, Apply, Arrive, KeepOut, Fall, Die, Restart, Publish, Silence
  <2> QED BY <1>0, <2>1 DEF RobotUnchanged, LoopType
<1>12. CASE UNCHANGED vars
  BY <1>0, <1>12 DEF vars, LoopType
<1> QED BY <1>1, <1>2, <1>3, <1>4, <1>5, <1>6, <1>7, <1>8, <1>9, <1>10, <1>11, <1>12
      DEF Next, JobStep

(* The threads keep their types.                                           *)
LEMMA ThreadTypeNext == Local /\ [Next]_vars => ThreadType'
<1> SUFFICES ASSUME Local, [Next]_vars PROVE ThreadType'
  OBVIOUS
<1>0. LoopType /\ ThreadType /\ SeenType /\ NoThread \in ThreadOf
  BY TypeParts DEF Local, NoThread, ThreadOf
<1>1. ASSUME NEW j \in Jobs, NEW t \in ThreadOf, thread' = [thread EXCEPT ![j] = t]
      PROVE  ThreadType'
  BY <1>0, <1>1 DEF ThreadType
<1>2. ASSUME NEW j \in Jobs,
             NEW at \in {"check", "send", "react", "wait", "verdict", "clean", "finish"},
             thread' = [thread EXCEPT ![j].at = at]
      PROVE  ThreadType'
  <2>1. [thread[j] EXCEPT !.at = at] \in ThreadOf
    BY <1>0 DEF ThreadType, ThreadOf
  <2> QED BY <1>0, <1>2, <2>1 DEF ThreadType
<1>3. ASSUME NEW j \in Jobs, Confirm(j) PROVE ThreadType'
  BY <1>2, <1>3 DEF Confirm
<1>4. ASSUME NEW j \in Jobs, Check(j) \/ SendLeg(j) \/ Applied(j) \/ NoReaction(j) \/
              WaitStopped(j) \/ WaitFails(j) \/ Verdict(j) \/ Clean(j)
      PROVE  ThreadType'
  BY <1>2, <1>4, Zenon DEF Check, SendLeg, Applied, NoReaction, WaitStopped, WaitFails,
                           Verdict, Clean, Go
<1>5. ASSUME NEW j \in Jobs, Saved(j) PROVE ThreadType'
  <2>1. thread[j].k + 1 \in 1..4
    BY <1>5, LegIsStep DEF Saved
  <2>2. seen.reaction.start \in Starts \cup {None}
    BY <1>0 DEF SeenType, StatusOf, Reactions
  <2>3. [NoThread EXCEPT !.at = "check", !.k = thread[j].k + 1, !.start = seen.reaction.start]
          \in ThreadOf
    BY <1>0, <2>1, <2>2 DEF ThreadOf
  <2> QED BY <1>1, <1>5, <2>3 DEF Saved
<1>6. ASSUME NEW j \in Jobs, Claim(j) PROVE ThreadType'
  <2>1. [thread[j] EXCEPT !.claimed = seen.arrived] \in ThreadOf
    BY <1>0 DEF ThreadType, ThreadOf, SeenType, StatusOf
  <2>2. thread' = [thread EXCEPT ![j] = [thread[j] EXCEPT !.claimed = seen.arrived]]
    BY <1>6 DEF Claim
  <2> QED BY <1>1, <2>1, <2>2
<1>7. ASSUME NEW j \in Jobs, Verify(j) PROVE ThreadType'
  <2>1. thread[j].k + 1 \in 1..4
    BY <1>7, LegIsStep DEF Verify
  <2>2. [NoThread EXCEPT !.at = "check", !.k = thread[j].k + 1, !.start = thread[j].start]
          \in ThreadOf
    BY <1>0, <2>1 DEF ThreadOf, ThreadType
  <2> QED BY <1>1, <1>2, <1>7, <2>2 DEF Verify, Go
<1>8. ASSUME NEW j \in Jobs, Finish(j) PROVE ThreadType'
  <2>1. [NoThread EXCEPT !.at = "ended"] \in ThreadOf
    BY <1>0 DEF ThreadOf
  <2> QED BY <1>1, <1>8, <2>1 DEF Finish
<1>9. CASE UNCHANGED thread
  BY <1>0, <1>9 DEF ThreadType
<1>10. ASSUME NEW s \in Sessions, NEW intent \in Intents, Command(s, intent) \/ StopTell(s)
       PROVE  ThreadType'
  BY <1>9, <1>10 DEF Command, StopTell
<1>11. ASSUME NEW j \in Jobs, Expire(j) PROVE ThreadType'
  BY <1>9, <1>11 DEF Expire
<1>12. CASE StopSend \/ Controller \/ UNCHANGED vars
  BY <1>9, <1>12
  DEF StopSend, Controller, Apply, Arrive, KeepOut, Fall, Die, Restart, Publish, Silence,
      RobotUnchanged, vars
<1>13. ASSUME NEW s \in Sessions, StopTell(s) PROVE ThreadType'
  BY <1>9, <1>13 DEF StopTell
<1> QED BY <1>3, <1>4, <1>5, <1>6, <1>7, <1>8, <1>10, <1>11, <1>12, <1>13 DEF Next, JobStep

(* What is published is a command.                                         *)
LEMMA CommandType ==
    ASSUME Local, NEW j \in Jobs
    PROVE  /\ StopCommand(0) \in CommandOf /\ StopCommand(j) \in CommandOf
           /\ SendLeg(j) =>
                 [kind |-> Step(j), leg |-> Leg(j),
                  start |-> IF Step(j) = "return" THEN StartOf(j) ELSE None,
                  raced |-> request = "sent" \/ j \in told] \in CommandOf
<1>1. Jobs \subseteq Nat
  BY BoundsAssumption DEF Jobs
<1>2. FALSE \in BOOLEAN /\ (request = "sent" \/ j \in told) \in BOOLEAN
  OBVIOUS
<1>3. ASSUME NEW i \in Nat PROVE StopCommand(i) \in CommandOf
  <2>1. <<i, 0>> \in Nat \X Nat
    OBVIOUS
  <2> QED BY <1>2, <2>1, Zenon DEF StopCommand, CommandOf
<1>4. ASSUME SendLeg(j)
      PROVE  [kind |-> Step(j), leg |-> Leg(j),
              start |-> IF Step(j) = "return" THEN StartOf(j) ELSE None,
              raced |-> request = "sent" \/ j \in told] \in CommandOf
  <2>1. Step(j) \in StepKinds /\ thread[j].k \in 1..3
    BY <1>4, LegIsStep DEF SendLeg
  <2>2. Leg(j) \in Nat \X Nat
    BY <1>1, <2>1 DEF Leg
  <2>3. StartOf(j) \in Starts \cup {None}
    BY TypeParts DEF StartOf, Local, LoopType, ThreadType, CardOf, ThreadOf
  <2>4. (IF Step(j) = "return" THEN StartOf(j) ELSE None) \in Starts \cup {None}
    BY <2>3
  <2> QED BY <1>2, <2>1, <2>2, <2>4, Zenon DEF CommandOf
<1> QED BY <1>1, <1>3, <1>4

(* What is in the queue is a command.                                      *)
LEMMA QueueTypeNext == Local /\ [Next]_vars => QueueType'
<1> SUFFICES ASSUME Local, [Next]_vars PROVE QueueType'
  OBVIOUS
<1>0. QueueType
  BY TypeParts DEF Local
<1>1. ASSUME NEW c \in CommandOf, commands' = Published(c) PROVE QueueType'
  BY <1>0, <1>1, PublishedIs DEF QueueType
<1>2. CASE UNCHANGED commands
  BY <1>0, <1>2 DEF QueueType
<1>3. CASE StopSend
  <2>1. StopCommand(0) \in CommandOf
    <3>1. <<0, 0>> \in Nat \X Nat /\ FALSE \in BOOLEAN
      OBVIOUS
    <3> QED BY <3>1, Zenon DEF StopCommand, CommandOf
  <2> QED BY <1>1, <1>3, <2>1 DEF StopSend
<1>4. ASSUME NEW j \in Jobs, SendLeg(j) PROVE QueueType'
  BY <1>1, <1>4, CommandType DEF SendLeg
<1>5. ASSUME NEW j \in Jobs, Clean(j) PROVE QueueType'
  BY <1>1, <1>5, CommandType DEF Clean, Closed
<1>6. CASE Apply
  BY <1>0, <1>6, TakenIs DEF Apply, QueueType
<1>7. CASE Die
  BY <1>7 DEF Die, QueueType
<1>8. ASSUME NEW j \in Jobs, Expire(j) \/ Confirm(j) \/ Check(j) \/ Saved(j) \/ Applied(j) \/
              NoReaction(j) \/ WaitStopped(j) \/ WaitFails(j) \/ Claim(j) \/ Verify(j) \/
              Verdict(j) \/ Finish(j)
      PROVE  QueueType'
  BY <1>2, <1>8 DEF Expire, Confirm, Check, Saved, Applied, NoReaction, WaitStopped, WaitFails,
                    Claim, Verify, Verdict, Finish
<1>9. ASSUME NEW s \in Sessions, NEW intent \in Intents, Command(s, intent) PROVE QueueType'
  BY <1>2, <1>9 DEF Command
<1>10. ASSUME NEW s \in Sessions, StopTell(s) PROVE QueueType'
  BY <1>2, <1>10 DEF StopTell
<1>11. CASE Arrive \/ KeepOut \/ Fall \/ Restart \/ Publish \/ Silence \/ UNCHANGED vars
  BY <1>2, <1>11 DEF Arrive, KeepOut, Fall, Restart, Publish, Silence, vars
<1> QED BY <1>3, <1>4, <1>5, <1>6, <1>7, <1>8, <1>9, <1>10, <1>11 DEF Next, JobStep, Controller

(* The robot at rest, and what a command makes of the controller.          *)
LEMMA RestType == Standing \in Robots /\ NoReactionYet \in Reactions
<1>1. TRUE \in BOOLEAN /\ FALSE \in BOOLEAN
  OBVIOUS
<1>2. "stand" \in Modes /\ None \in Legs \cup {None} /\ None \in Starts \cup {None} /\
      {} \in SUBSET Starts
  BY DEF Modes
<1>3. NoReactionYet \in Reactions
  BY DEF NoReactionYet, Reactions
<1> QED BY <1>1, <1>2, <1>3, Zenon DEF Standing, Robots

(* A robot whose goal is canceled is a robot.                              *)
LEMMA CanceledType ==
    ASSUME ctl \in Robots, NEW mode \in Modes PROVE Canceled(mode) \in Robots
  BY DEF Robots, Canceled

-----------------------------------------------------------------------------
(* Where legs are: in the queue, at the controller and in its status.      *)
(* Their job has begun, and of the running job they are steps that it has  *)
(* sent.                                                                   *)
Sent(leg) ==
    /\ leg \in Legs
    /\ status[leg[1]] # "none"
    /\ leg[1] = running =>
          \/ leg[2] < thread[running].k
          \/ leg[2] = thread[running].k /\ thread[running].at \notin {"check", "send"}

SentTo(view) ==
    /\ view.goal # None => Sent(view.goal)
    /\ view.arrived # None => Sent(view.arrived)
    /\ view.reaction.leg # None => Sent(view.reaction.leg)

IsLeg(c) == c.kind # "stop"

SentCommand(c) ==
    IF IsLeg(c) THEN Sent(c.leg)
    ELSE c.leg[1] # 0 => c.leg[1] \in Jobs /\ status[c.leg[1]] # "none"

LegInv ==
    /\ \A i \in 1..Len(commands) : SentCommand(commands[i])
    /\ SentTo(ctl) /\ SentTo(seen)

(* The controller keeps its type; the goal it takes is a leg that was      *)
(* sent.                                                                   *)
LEMMA RobotTypeNext == Local /\ LegInv /\ [Next]_vars => RobotType'
<1> SUFFICES ASSUME Local, LegInv, [Next]_vars PROVE RobotType'
  OBVIOUS
<1>0. QueueType /\ RobotType /\ ctl \in Robots
  BY TypeParts DEF Local, RobotType
<1>1. CASE UNCHANGED <<ctl, saves, faults>>
  BY <1>0, <1>1 DEF RobotType
<1>2. CASE Apply
  <2> DEFINE c == Head(commands)
             start == IF c.kind = "save_start" THEN saves + 1 ELSE None
             reaction == [leg |-> c.leg, ok |-> Accepts(c),
                          start |-> IF Accepts(c) THEN start ELSE None]
  <2>1. c = commands[1] /\ c \in CommandOf /\ SentCommand(c)
    BY <1>0, <1>2, TakenIs DEF Apply, LegInv
  <2>2. start \in Starts \cup {None} /\ saves + 1 \in Starts /\ saves + 1 \in Nat
    BY <1>0 DEF RobotType, Starts
  <2>3. ASSUME IsLeg(c), NEW s \in Starts \cup {None}, NEW robot \in Robots
        PROVE  [robot EXCEPT !.reaction = [leg |-> c.leg, ok |-> Accepts(c), start |-> s]] \in Robots
    <3>1. c.leg \in Legs /\ Accepts(c) \in BOOLEAN
      BY <2>1, <2>3 DEF SentCommand, Sent, Accepts
    <3>2. [leg |-> c.leg, ok |-> Accepts(c), start |-> s] \in Reactions
      BY <3>1, Zenon DEF Reactions
    <3> HIDE DEF c
    <3> QED BY <3>2 DEF Robots
  <2>4. ASSUME IsLeg(c) PROVE WithGoal(c) \in Robots
    <3>1. c.leg \in Legs
      BY <2>1, <2>4 DEF SentCommand, Sent
    <3> HIDE DEF c
    <3> QED BY <1>0, <2>1, <3>1 DEF WithGoal, Robots, CommandOf, Modes
  <2>5. [ctl EXCEPT !.starts = Remembered(@ \cup {saves + 1})] \in Robots
    <3>1. Remembered(ctl.starts \cup {saves + 1}) \subseteq Starts
      BY <1>0, <2>2 DEF Remembered, Robots
    <3> QED BY <1>0, <3>1 DEF Robots
  <2>6. Canceled("stand") \in Robots
    BY <1>0, CanceledType DEF Modes
  <2>7. c.kind \in {"stop", "save_start", "goto", "return"}
    BY <2>1 DEF CommandOf, StepKinds
  <2>8. ctl' \in Robots
    <3>1. CASE ~Accepts(c) /\ c.kind = "stop"
      BY <1>0, <1>2, <3>1 DEF Apply
    <3>2. CASE ~Accepts(c) /\ c.kind # "stop"
      BY <1>0, <1>2, <2>3, <3>2 DEF Apply, IsLeg
    <3>3. CASE Accepts(c) /\ c.kind = "stop"
      BY <1>2, <2>6, <3>3 DEF Apply
    <3>4. CASE Accepts(c) /\ c.kind = "save_start"
      BY <1>2, <2>2, <2>3, <2>5, <3>4 DEF Apply, IsLeg
    <3>5. CASE Accepts(c) /\ c.kind \in {"goto", "return"}
      BY <1>2, <2>3, <2>4, <3>5 DEF Apply, IsLeg
    <3> QED BY <2>7, <3>1, <3>2, <3>3, <3>4, <3>5
  <2>9. saves' \in Nat
    BY <1>0, <1>2, <2>2 DEF Apply, RobotType
  <2> QED BY <1>0, <1>2, <2>8, <2>9 DEF Apply, RobotType
<1>3. CASE Arrive
  BY <1>0, <1>3 DEF Arrive, RobotType, Robots
<1>4. CASE KeepOut \/ Fall
  <2>1. Canceled("stand") \in Robots /\ Canceled("fallen") \in Robots
    BY <1>0, CanceledType DEF Modes
  <2> QED BY <1>0, <1>4, <2>1 DEF KeepOut, Fall, RobotType
<1>5. CASE Die \/ Restart
  <2>1. [Standing EXCEPT !.up = FALSE] \in Robots
    BY RestType DEF Robots
  <2>2. ctl' \in Robots
    BY <1>5, <2>1, RestType, Zenon DEF Die, Restart
  <2> QED BY <1>0, <1>5, <2>2 DEF Die, Restart, RobotType
<1>6. ASSUME NEW j \in Jobs, JobStep(j) PROVE RobotType'
  <2>1. JobUnchanged
    BY <1>6 DEF JobStep, Check, SendLeg, Saved, Applied, NoReaction, WaitStopped, WaitFails,
                Claim, Verify, Verdict, Clean, Finish
  <2> QED BY <1>1, <2>1 DEF JobUnchanged
<1>7. ASSUME NEW j \in Jobs, Expire(j) \/ Confirm(j) PROVE RobotType'
  BY <1>1, <1>7 DEF Expire, Confirm
<1>8. ASSUME NEW s \in Sessions, NEW intent \in Intents, Command(s, intent) PROVE RobotType'
  BY <1>1, <1>8 DEF Command
<1>9. ASSUME NEW s \in Sessions, StopTell(s) PROVE RobotType'
  BY <1>1, <1>9 DEF StopTell
<1>10. CASE StopSend \/ Publish \/ Silence \/ UNCHANGED vars
  BY <1>1, <1>10 DEF StopSend, Publish, Silence, vars
<1> QED BY <1>2, <1>3, <1>4, <1>5, <1>6, <1>7, <1>8, <1>9, <1>10 DEF Next, Controller

(* The status that was read keeps its type.                                *)
LEMMA SeenTypeNext == Local /\ [Next]_vars => SeenType'
<1> SUFFICES ASSUME Local, [Next]_vars PROVE SeenType'
  OBVIOUS
<1>0. SeenType /\ ctl \in Robots
  BY TypeParts DEF Local, RobotType
<1>1. CASE UNCHANGED <<seen, fresh>>
  BY <1>0, <1>1 DEF SeenType
<1>2. CASE Publish
  <2>1. Shown(ctl) \in StatusOf
    BY <1>0 DEF Shown, StatusOf, Robots
  <2> QED BY <1>2, <2>1, Zenon DEF Publish, SeenType
<1>3. CASE Silence
  BY <1>0, <1>3, Zenon DEF Silence, SeenType
<1>4. ASSUME NEW j \in Jobs, JobStep(j) PROVE SeenType'
  <2>1. JobUnchanged
    BY <1>4 DEF JobStep, Check, SendLeg, Saved, Applied, NoReaction, WaitStopped, WaitFails,
                Claim, Verify, Verdict, Clean, Finish
  <2> QED BY <1>1, <2>1 DEF JobUnchanged
<1>5. ASSUME NEW j \in Jobs, Expire(j) \/ Confirm(j) PROVE SeenType'
  BY <1>1, <1>5 DEF Expire, Confirm
<1>6. ASSUME NEW s \in Sessions, NEW intent \in Intents, Command(s, intent) PROVE SeenType'
  BY <1>1, <1>6 DEF Command
<1>7. ASSUME NEW s \in Sessions, StopTell(s) PROVE SeenType'
  BY <1>1, <1>7 DEF StopTell
<1>8. CASE StopSend \/ Apply \/ Arrive \/ KeepOut \/ Fall \/ Die \/ Restart \/ UNCHANGED vars
  BY <1>1, <1>8 DEF StopSend, Apply, Arrive, KeepOut, Fall, Die, Restart, vars
<1> QED BY <1>2, <1>3, <1>4, <1>5, <1>6, <1>7, <1>8 DEF Next, Controller

(* Every step keeps every type.                                            *)
LEMMA NextType == Local /\ LegInv /\ [Next]_vars => TypeOK'
<1>1. LoopType' /\ ThreadType' /\ QueueType' /\ RobotType' /\ SeenType' => TypeOK'
  BY TypeParts, PTL
<1> QED BY <1>1, LoopTypeNext, ThreadTypeNext, QueueTypeNext, RobotTypeNext, SeenTypeNext

-----------------------------------------------------------------------------
(* The cards and the threads.                                              *)

(* Steps of the controller, and steps of a thread that leave the cards.    *)
LEMMA WorkFrame ==
    ASSUME WorkInv, UNCHANGED <<work, pending, lastStart, running, status>>
    PROVE  WorkInv'
  BY DEF WorkInv, Taken

(* The controller's steps leave the loop and the threads alone.            *)
LEMMA ControllerFrame == ASSUME Controller PROVE RobotUnchanged
  BY DEF Controller, Apply, Arrive, KeepOut, Fall, Die, Restart, Publish, Silence

(* Fewer cards.                                                            *)
LEMMA WorkFewer ==
    ASSUME Local, NEW cards \in SUBSET pending, pending' = cards, work' = Kept(cards),
           UNCHANGED <<lastStart, running, status>>
    PROVE  WorkInv'
<1>1. \A j \in cards \cup ({running} \ {None}) : work'[j] = work[j] /\ j \in Taken
  BY TypeParts DEF Kept, Taken, Local, LoopType
<1>2. Taken' = cards \cup ({running} \ {None})
  BY DEF Taken
<1> QED BY <1>1, <1>2 DEF WorkInv, Local

(* One card per session, whatever expires, is confirmed or ends.           *)
LEMMA WorkNext == Local /\ [Next]_vars => WorkInv'
<1> SUFFICES ASSUME Local, [Next]_vars PROVE WorkInv'
  OBVIOUS
<1>0. LoopType /\ WorkInv /\ ThreadInv
  BY TypeParts DEF Local
<1>1. ASSUME NEW s \in Sessions, NEW intent \in Intents, Command(s, intent) PROVE WorkInv'
  <2> DEFINE new == {j \in Jobs : j \notin Others(s) /\ status[j] = "none"}
             n == Min(new)
             card == [session |-> s, steps |-> Steps(intent),
                      start |-> IF intent = "return" THEN lastStart[s] ELSE None]
  <2>1. n \in new
    BY <1>1, MinIn, Zenon DEF Command
  <2>2. /\ card.session = s /\ card.steps \in Scripts
        /\ card.start # None => intent = "return"
        /\ card.steps = <<"return">> => intent = "return"
        /\ intent = "return" => card.steps = <<"return">> /\ card.start = lastStart[s]
    BY StepsAreScripts, IntentsAssumption DEF Steps
  <2>3. /\ pending' = Others(s) \cup {n} /\ running = None
        /\ work' = [Kept(pending') EXCEPT ![n] = card]
        /\ UNCHANGED <<lastStart, running, status>>
    BY <1>1, Zenon DEF Command, Idle
  <2>4. n \in Jobs /\ n \notin Others(s) /\ status[n] = "none"
    BY <2>1
  <2> HIDE DEF n, card
  <2>5. work'[n] = card /\ \A c \in Others(s) : work'[c] = work[c] /\ work[c].session # s /\ c \in pending
    BY <1>0, <2>3, <2>4 DEF Kept, Others, LoopType
  <2>6. Taken' = Others(s) \cup {n}
    BY <2>3 DEF Taken
  <2>7. \A c \in Others(s) : c \in Taken /\ c # n
    BY <2>4, <2>5 DEF Taken
  <2>8. \A j \in Taken' : /\ work'[j].session \in Sessions
                          /\ work'[j].steps \in Scripts
                          /\ work'[j].start # None => work'[j].steps = <<"return">>
    BY <1>0, <2>2, <2>5, <2>6, <2>7 DEF WorkInv
  <2>9. \A c, d \in Taken' : work'[c].session = work'[d].session => c = d
    BY <1>0, <2>2, <2>5, <2>6, <2>7 DEF WorkInv
  <2>10. \A j \in pending' :
          /\ status'[j] = "none"
          /\ work'[j].steps = <<"return">> => work'[j].start = lastStart'[work'[j].session]
    <3>1. ASSUME NEW j \in Others(s) PROVE status[j] = "none" /\ work'[j] = work[j] /\
              (work[j].steps = <<"return">> => work[j].start = lastStart[work[j].session])
      BY <1>0, <2>5, <3>1 DEF WorkInv
    <3>2. status[n] = "none" /\ work'[n].session = s /\
          (work'[n].steps = <<"return">> => work'[n].start = lastStart[s])
      BY <2>2, <2>4, <2>5
    <3> QED BY <2>3, <3>1, <3>2
  <2> QED BY <2>8, <2>9, <2>10 DEF WorkInv
<1>2. ASSUME NEW j \in Jobs, Expire(j) PROVE WorkInv'
  BY <1>2, WorkFewer DEF Expire
<1>3. ASSUME NEW j \in Jobs, Confirm(j) PROVE WorkInv'
  <2>1. /\ pending' = pending \ {j} /\ running' = j /\ running = None
        /\ j \in pending /\ j # None
        /\ UNCHANGED <<work, lastStart>> /\ \A i \in Jobs \ {j} : status'[i] = status[i]
    BY <1>0, <1>3, NoneIsNew DEF Confirm, Idle, LoopType
  <2>2. Taken' = Taken
    BY <2>1 DEF Taken
  <2>3. \A i \in pending' : i \in pending /\ status'[i] = status[i]
    BY <1>0, <2>1 DEF LoopType
  <2> QED BY <1>0, <2>1, <2>2, <2>3 DEF WorkInv
<1>4. ASSUME NEW s \in Sessions, StopTell(s) PROVE WorkInv'
  BY <1>4, WorkFewer DEF StopTell, Others
<1>5. ASSUME NEW j \in Jobs, Saved(j) PROVE WorkInv'
  <2>1. running = j /\ j \in Taken /\ work[j].session \in Sessions /\ j \notin pending
    BY <1>0, <1>5, StepIsRunning DEF Saved, Resting, WorkInv, ThreadInv
  <2>2. UNCHANGED <<work, pending, running, status>>
    BY <1>5 DEF Saved, JobUnchanged
  <2>3. \A i \in pending : lastStart'[work[i].session] = lastStart[work[i].session]
    BY <1>0, <1>5, <2>1 DEF Saved, WorkInv, Taken, LoopType
  <2> QED BY <1>0, <2>2, <2>3 DEF WorkInv, Taken
<1>6. ASSUME NEW j \in Jobs, NoReaction(j) \/ Verdict(j) PROVE WorkInv'
  <2>1. thread[j].at \notin Resting
    BY <1>6 DEF NoReaction, Verdict, Resting
  <2>2. running = j /\ j \notin pending
    BY <1>0, <2>1, StepIsRunning DEF Resting, WorkInv, ThreadInv
  <2>3. UNCHANGED <<work, pending, lastStart, running>>
    BY <1>6 DEF NoReaction, Verdict, JobUnchanged, RunningAtVerdict
  <2>4. \A i \in pending : status'[i] = status[i]
    BY <1>0, <1>6, <2>2 DEF NoReaction, Verdict, LoopType
  <2> QED BY <1>0, <2>3, <2>4 DEF WorkInv, Taken
<1>7. ASSUME NEW j \in Jobs, Finish(j) PROVE WorkInv'
  <2>1. running = j /\ j \notin pending
    BY <1>0, <1>7, StepIsRunning DEF Finish, Resting, WorkInv, ThreadInv
  <2>2. running' = None /\ UNCHANGED <<pending, lastStart, status>>
    BY <1>7, <2>1 DEF Finish, JobUnchanged
  <2>3. Taken' = pending /\ \A i \in pending : work'[i] = work[i] /\ i \in Taken
    BY <1>0, <1>7, <2>1, <2>2 DEF Finish, Taken, LoopType
  <2> QED BY <1>0, <2>2, <2>3 DEF WorkInv
<1>8. ASSUME NEW j \in Jobs, Check(j) \/ SendLeg(j) \/ Applied(j) \/ WaitStopped(j) \/
             WaitFails(j) \/ Claim(j) \/ Verify(j) \/ Clean(j)
      PROVE  WorkInv'
  BY <1>0, <1>8, WorkFrame
  DEF Check, SendLeg, Applied, WaitStopped, WaitFails, Claim, Verify, Clean, JobUnchanged
<1>9. CASE Controller
  BY <1>0, <1>9, ControllerFrame, WorkFrame DEF RobotUnchanged
<1>10. CASE StopSend \/ UNCHANGED vars
  BY <1>0, <1>10, WorkFrame DEF StopSend, vars
<1> QED BY <1>1, <1>2, <1>3, <1>4, <1>5, <1>6, <1>7, <1>8, <1>9, <1>10 DEF Next, JobStep

(* One job at most has a thread, and its status goes with it.              *)
LEMMA ThreadNext == Local /\ [Next]_vars => ThreadInv'
<1> SUFFICES ASSUME Local, [Next]_vars PROVE ThreadInv'
  OBVIOUS
<1>0. LoopType /\ ThreadType /\ WorkInv /\ ThreadInv
  BY TypeParts DEF Local
(* The running job's thread goes on, and nothing else changes but its own. *)
<1>on. ASSUME NEW j \in Jobs, thread[j].at \notin Resting,
             UNCHANGED <<work, running, told>>,
             \A i \in Jobs \ {j} : thread'[i] = thread[i] /\ status'[i] = status[i],
             thread'[j].at \notin Resting,
             status'[j] # "none",
             thread'[j].at \in {"send", "react", "wait"} => thread'[j].k <= Len(work[j].steps),
             thread'[j].at = "clean" => status'[j] = "failed"
      PROVE  ThreadInv'
  BY <1>0, <1>on DEF ThreadInv, Resting
<1>1. ASSUME NEW j \in Jobs,
             Check(j) \/ SendLeg(j) \/ Applied(j) \/ WaitStopped(j) \/ WaitFails(j) \/ Claim(j)
      PROVE  ThreadInv'
  <2>1. thread[j].at \notin Resting /\ status[j] # "none" /\ UNCHANGED <<work, running, told, status>>
    BY <1>0, <1>1
    DEF Check, SendLeg, Applied, WaitStopped, WaitFails, Claim, JobUnchanged, Resting, ThreadInv
  <2>2. \A i \in Jobs \ {j} : thread'[i] = thread[i]
    BY <1>0, <1>1 DEF Check, SendLeg, Applied, WaitStopped, WaitFails, Claim, Go, ThreadType
  <2>3. thread'[j].at \in {"verdict", "send", "react", "wait"} /\ thread'[j].k = thread[j].k
    BY <1>0, <1>1
    DEF Check, SendLeg, Applied, WaitStopped, WaitFails, Claim, Go, ThreadType, ThreadOf
  <2>4. thread'[j].at \in {"send", "react", "wait"} => thread[j].k <= Len(work[j].steps)
    <3>1. CASE Check(j)
      <4>1. Len(work[j].steps) \in Nat /\ thread[j].k \in 1..4
        BY <1>0, <2>1, StepIsRunning, ScriptsAre DEF ThreadOf
      <4> QED BY <1>0, <3>1, <4>1 DEF Check, Go, ThreadType, ThreadOf
    <3>2. CASE ~Check(j)
      BY <1>0, <1>1, <3>2 DEF ThreadInv, SendLeg, Applied, WaitStopped, WaitFails, Claim, Go,
                              ThreadType, ThreadOf
    <3> QED BY <3>1, <3>2
  <2> QED BY <2>1, <2>2, <2>3, <2>4, <1>on DEF Resting
<1>2. ASSUME NEW j \in Jobs, Saved(j) \/ Verify(j) PROVE ThreadInv'
  <2>1. thread[j].at \notin Resting /\ status[j] # "none" /\ UNCHANGED <<work, running, told, status>>
    BY <1>0, <1>2 DEF Saved, Verify, JobUnchanged, Resting, ThreadInv
  <2>2. \A i \in Jobs \ {j} : thread'[i] = thread[i]
    BY <1>0, <1>2 DEF Saved, Verify, Go, ThreadType
  <2>3. thread'[j].at \in {"verdict", "check"}
    BY <1>0, <1>2, GoIs, NextLegIs, Zenon DEF Saved, Verify, NextLeg
  <2> QED BY <2>1, <2>2, <2>3, <1>on DEF Resting
<1>3. ASSUME NEW j \in Jobs, NoReaction(j) \/ Verdict(j) \/ Clean(j) PROVE ThreadInv'
  <2>1. thread[j].at \notin Resting /\ status[j] # "none" /\ UNCHANGED <<work, running, told>>
    BY <1>0, <1>3 DEF NoReaction, Verdict, Clean, JobUnchanged, Resting, ThreadInv,
                      RunningAtVerdict
  <2>2. \A i \in Jobs \ {j} : thread'[i] = thread[i] /\ status'[i] = status[i]
    BY <1>0, <1>3 DEF NoReaction, Verdict, Clean, Go, ThreadType, LoopType
  <2>3. CASE NoReaction(j)
    <3>1. thread'[j].at = "clean" /\ status'[j] = "failed"
      BY <1>0, <2>3, GoIs DEF NoReaction, LoopType
    <3> QED BY <2>1, <2>2, <3>1, <1>on DEF Resting
  <2>4. CASE Verdict(j)
    <3>1. PICK result \in {"stopped", "completed", "failed"} :
             /\ status' = [status EXCEPT ![j] = result]
             /\ Go(j, IF result = "failed" THEN "clean" ELSE "finish")
      BY <2>4 DEF Verdict
    <3>2. status'[j] = result /\ thread'[j].at = IF result = "failed" THEN "clean" ELSE "finish"
      BY <1>0, <3>1, GoIs DEF LoopType
    <3> QED BY <2>1, <2>2, <3>2, <1>on DEF Resting
  <2>5. CASE Clean(j)
    <3>1. thread'[j].at = "finish" /\ status' = status
      BY <1>0, <2>5, GoIs DEF Clean
    <3> QED BY <2>1, <2>2, <3>1, <1>on DEF Resting
  <2> QED BY <1>3, <2>3, <2>4, <2>5
<1>4. ASSUME NEW j \in Jobs, Finish(j) PROVE ThreadInv'
  <2>1. running = j /\ status[j] # "none"
    BY <1>0, <1>4, StepIsRunning DEF Finish, Resting, ThreadInv
  <2>2. running' = None /\ status' = status /\ told' = told \ {j}
    BY <1>4, <2>1 DEF Finish
  <2>3. /\ \A i \in Jobs \ {j} : thread'[i] = thread[i]
        /\ thread'[j] = [NoThread EXCEPT !.at = "ended"]
    BY <1>0, <1>4 DEF Finish, ThreadType
  <2>4. /\ thread'[j].at = "ended" /\ thread'[j].k = 1 /\ thread'[j].start = None
        /\ thread'[j].claimed = None
    BY <2>3 DEF NoThread
  <2>5. \A i \in Jobs \ {j} : thread[i].at \in Resting /\ i \notin told
    BY <1>0, <2>1 DEF ThreadInv
  <2> QED BY <1>0, <2>1, <2>2, <2>3, <2>4, <2>5, NoneIsNew DEF ThreadInv, Resting
<1>5. ASSUME NEW j \in Jobs, Confirm(j) PROVE ThreadInv'
  <2>1. /\ running = None /\ running' = j /\ told' = told /\ work' = work
        /\ status[j] = "none" /\ status'[j] = "running"
        /\ \A i \in Jobs \ {j} : thread'[i] = thread[i] /\ status'[i] = status[i]
        /\ thread'[j].at = "check"
    BY <1>0, <1>5 DEF Confirm, Idle, WorkInv, LoopType, ThreadType, ThreadOf
  <2>2. \A i \in Jobs : thread[i].at \in Resting /\ i \notin told
    BY <1>0, <2>1, NoneIsNew DEF ThreadInv
  <2> QED BY <1>0, <2>1, <2>2, NoneIsNew DEF ThreadInv, Resting
<1>6. ASSUME UNCHANGED <<thread, running, status>>, work'[running] = work[running],
             told' = told \/ told' = Told
      PROVE  ThreadInv'
  BY <1>0, <1>6 DEF ThreadInv, Told, Resting
<1>7. ASSUME NEW s \in Sessions, NEW intent \in Intents, Command(s, intent) PROVE ThreadInv'
  <2>1. UNCHANGED <<thread, running, status, told>> /\ running = None
    BY <1>7 DEF Command, Idle
  <2> QED BY <1>0, <2>1, NoneIsNew DEF ThreadInv, Resting
<1>8. ASSUME NEW j \in Jobs, Expire(j) PROVE ThreadInv'
  <2>1. UNCHANGED <<thread, running, status, told>> /\ work' = Kept(pending')
    BY <1>8 DEF Expire
  <2>2. \A i \in Jobs : i = running => work'[i] = work[i]
    BY <2>1 DEF Kept
  <2> QED BY <1>0, <2>1, <2>2 DEF ThreadInv, Resting
<1>9. ASSUME NEW s \in Sessions, StopTell(s) PROVE ThreadInv'
  <2>1. UNCHANGED <<thread, running, status>> /\ work' = Kept(pending') /\ told' = Told
    BY <1>9 DEF StopTell
  <2>2. \A i \in Jobs : i = running => work'[i] = work[i]
    BY <2>1 DEF Kept
  <2> QED BY <1>0, <2>1, <2>2 DEF ThreadInv, Told, Resting
<1>10. CASE StopSend \/ UNCHANGED vars
  BY <1>6, <1>10 DEF StopSend, vars
<1>11. CASE Controller
  BY <1>6, <1>11, ControllerFrame DEF RobotUnchanged
<1> QED BY <1>1, <1>2, <1>3, <1>4, <1>5, <1>7, <1>8, <1>9, <1>10, <1>11 DEF Next, JobStep

-----------------------------------------------------------------------------
(* The steps, seen from the threads.                                       *)

(* The running job and its thread.                                         *)
LEMMA RunningIs ==
    ASSUME Local, running # None
    PROVE  /\ running \in Jobs /\ running \in Taken /\ thread[running] \in ThreadOf
           /\ thread[running].at \notin Resting /\ status[running] # "none"
           /\ Own \in Sessions /\ work[running].steps \in Scripts
<1>1. running \in Jobs
  BY TypeParts DEF Local, LoopType
<1> QED BY <1>1, StepIsRunning DEF Local, ThreadInv, Resting, Own

(* The steps that no thread takes.                                         *)
Aside ==
    \/ \E s \in Sessions : (\E intent \in Intents : Command(s, intent)) \/ StopTell(s)
    \/ \E j \in Jobs : Expire(j)
    \/ StopSend \/ Controller \/ UNCHANGED vars

(* Every step is one of these.                                             *)
LEMMA StepsAre == [Next]_vars => Aside \/ \E j \in Jobs : Confirm(j) \/ JobStep(j)
  BY Zenon DEF Next, Aside

(* What the steps of no thread leave alone.                                *)
LEMMA AsideIs ==
    ASSUME Local, Aside
    PROVE  /\ UNCHANGED <<running, thread, status, lastStart>>
           /\ running # None => work'[running] = work[running]
<1>1. running # None => running \in Jobs
  BY RunningIs
<1>2. ASSUME NEW s \in Sessions, NEW intent \in Intents, Command(s, intent)
      PROVE  running = None /\ UNCHANGED <<running, thread, status, lastStart>>
  BY <1>2 DEF Command, Idle
<1>3. ASSUME UNCHANGED <<running, thread, status, lastStart>>, work' = Kept(pending')
      PROVE  running # None => work'[running] = work[running]
  BY <1>1, <1>3 DEF Kept
<1>4. CASE StopSend \/ Controller \/ UNCHANGED vars
  BY <1>4, ControllerFrame DEF StopSend, RobotUnchanged, vars
<1> QED BY <1>2, <1>3, <1>4, Zenon DEF Aside, StopTell, Expire

(* A confirmation begins the job when no other runs.                       *)
LEMMA ConfirmIs ==
    ASSUME Local, NEW j \in Jobs, Confirm(j)
    PROVE  /\ running = None /\ running' = j /\ request = "idle" /\ request' = request
           /\ status[j] = "none" /\ j \in pending /\ j \in Taken
           /\ thread'[j].at = "check" /\ thread'[j].k = 1 /\ thread'[j].start = None
           /\ thread'[j].claimed = None /\ status'[j] = "running"
           /\ \A i \in Jobs \ {j} : thread'[i] = thread[i] /\ status'[i] = status[i]
           /\ j \notin told
           /\ UNCHANGED <<work, lastStart, told, commands, ctl, seen>>
<1>1. LoopType /\ ThreadType /\ WorkInv /\ ThreadInv
  BY TypeParts DEF Local
<1>2. status[j] = "none" /\ thread[j].at = "none"
  BY <1>1 DEF Confirm, WorkInv, ThreadInv
<1>3. thread' = [thread EXCEPT ![j].at = "check"]
  BY DEF Confirm
<1>4. Go(j, "check")
  BY <1>3 DEF Go
<1>5. thread[j].k = 1 /\ thread[j].start = None /\ thread[j].claimed = None /\ j \notin told
  BY <1>1, <1>2, NoneIsNew DEF ThreadInv, Resting, Confirm, Idle
<1> QED BY <1>1, <1>2, <1>4, <1>5, GoIs DEF Confirm, Idle, LoopType, Taken

(* A step of a thread goes on with the leg, goes on to the next leg, or    *)
(* ends the job.                                                           *)
GoesOn(j) ==
    /\ UNCHANGED <<work, running, told>>
    /\ thread'[j].k = thread[j].k /\ thread'[j].start = thread[j].start
    /\ thread'[j].at \in {"check", "send"} => thread[j].at \in {"check", "send"}
    /\ thread'[j].at = "react" => SendLeg(j)
    /\ thread'[j].at = "wait" => Applied(j) \/ thread[j].at = "wait"
    /\ Claim(j) \/ thread'[j].claimed = thread[j].claimed
    /\ UNCHANGED lastStart

ToNextLeg(j) ==
    /\ Saved(j) \/ Verify(j)
    /\ UNCHANGED <<work, running, told, status, commands>>
    /\ thread'[j].k = thread[j].k + 1 /\ thread'[j].at = "check" /\ thread'[j].claimed = None
    /\ Saved(j) => thread'[j].start = seen.reaction.start
    /\ Verify(j) => thread'[j].start = thread[j].start

(* A step of a thread is that of the running job, and goes one of three    *)
(* ways.                                                                   *)
LEMMA JobMoves ==
    ASSUME Local, NEW j \in Jobs, JobStep(j)
    PROVE  /\ running = j /\ running # None /\ thread[j].at \notin Resting /\ JobUnchanged
           /\ \A i \in Jobs \ {j} : thread'[i] = thread[i] /\ status'[i] = status[i]
           /\ status[j] # "none" /\ status'[j] # "none"
           /\ \/ /\ Finish(j) /\ running' = None /\ UNCHANGED <<commands, status>>
                 /\ thread'[j].at = "ended" /\ thread'[j].claimed = None
              \/ GoesOn(j) \/ ToNextLeg(j)
<1>0. LoopType /\ ThreadType /\ WorkInv /\ ThreadInv
  BY TypeParts DEF Local
<1>1. thread[j].at \notin Resting
  BY DEF JobStep, Check, SendLeg, Saved, Applied, NoReaction, WaitStopped, WaitFails, Claim,
         Verify, Verdict, Clean, Finish, Resting
<1>2. running = j /\ running # None /\ status[j] # "none"
  BY <1>0, <1>1, StepIsRunning DEF ThreadInv, Resting
<1>3. JobUnchanged
  BY DEF JobStep, Check, SendLeg, Saved, Applied, NoReaction, WaitStopped, WaitFails, Claim,
         Verify, Verdict, Clean, Finish
<1>4. ASSUME Check(j) \/ SendLeg(j) \/ Applied(j) \/ NoReaction(j) \/ WaitStopped(j)
             \/ WaitFails(j) \/ Verdict(j) \/ Clean(j)
      PROVE  /\ \A i \in Jobs \ {j} : thread'[i] = thread[i] /\ status'[i] = status[i]
             /\ status'[j] # "none" /\ GoesOn(j)
  <2>1. PICK at \in {"verdict", "send", "react", "wait", "clean", "finish"} :
           /\ Go(j, at)
           /\ at = "send" => thread[j].at = "check"
           /\ at = "react" => SendLeg(j)
           /\ at = "wait" => Applied(j)
    BY <1>4 DEF Check, SendLeg, Applied, NoReaction, WaitStopped, WaitFails, Verdict, Clean
  <2>2. /\ thread'[j].at = at /\ thread'[j].k = thread[j].k /\ thread'[j].start = thread[j].start
        /\ thread'[j].claimed = thread[j].claimed
        /\ \A i \in Jobs \ {j} : thread'[i] = thread[i]
    BY <1>0, <2>1, GoIs
  <2>3. (\A i \in Jobs \ {j} : status'[i] = status[i]) /\ status'[j] # "none"
    BY <1>0, <1>2, <1>4 DEF Check, SendLeg, Applied, NoReaction, WaitStopped, WaitFails, Verdict,
                            Clean, LoopType
  <2>4. UNCHANGED <<work, running, told, lastStart>>
    BY <1>4 DEF Check, SendLeg, Applied, NoReaction, WaitStopped, WaitFails, Verdict, Clean,
                RunningAtVerdict, JobUnchanged
  <2> QED BY <2>1, <2>2, <2>3, <2>4 DEF GoesOn
<1>5. CASE Claim(j)
  <2>1. /\ thread'[j].at = thread[j].at /\ thread'[j].k = thread[j].k
        /\ thread'[j].start = thread[j].start
        /\ \A i \in Jobs \ {j} : thread'[i] = thread[i]
    BY <1>0, <1>5 DEF Claim, ThreadType, ThreadOf
  <2> QED BY <1>1, <1>2, <1>3, <1>5, <2>1 DEF GoesOn, Claim
<1>6. CASE Saved(j)
  <2>1. NextLeg(j, seen.reaction.start) /\ ~Verify(j)
    BY <1>6 DEF Saved, Verify, NextLeg
  <2> QED BY <1>0, <1>1, <1>2, <1>3, <1>6, <2>1, NextLegIs DEF Saved, ToNextLeg, JobUnchanged
<1>7. CASE Verify(j)
  <2>1. ~Saved(j) /\ UNCHANGED <<work, running, told, status, commands>>
    BY <1>7 DEF Saved, Verify
  <2>2. CASE NextLeg(j, thread[j].start)
    BY <1>0, <1>1, <1>2, <1>3, <1>7, <2>1, <2>2, NextLegIs DEF ToNextLeg
  <2>3. CASE Go(j, "verdict")
    BY <1>0, <1>1, <1>2, <1>3, <1>7, <2>1, <2>3, GoIs DEF GoesOn, Verify
  <2> QED BY <1>7, <2>2, <2>3 DEF Verify, NextLeg
<1>8. CASE Finish(j)
  <2>1. thread'[j] = [NoThread EXCEPT !.at = "ended"] /\ \A i \in Jobs \ {j} : thread'[i] = thread[i]
    BY <1>0, <1>8 DEF Finish, ThreadType
  <2>2. thread'[j].at = "ended" /\ thread'[j].claimed = None
    BY <2>1 DEF NoThread
  <2> QED BY <1>1, <1>2, <1>3, <1>8, <2>1, <2>2 DEF Finish
<1> QED BY <1>1, <1>2, <1>3, <1>4, <1>5, <1>6, <1>7, <1>8 DEF JobStep

-----------------------------------------------------------------------------
(* A leg once sent stays sent.                                             *)
LEMMA SentKept == ASSUME Local, [Next]_vars, NEW leg, Sent(leg) PROVE Sent(leg)'
<1>1. leg \in Legs /\ leg[1] \in Jobs /\ leg[2] \in 1..3
  BY DEF Sent, Legs
<1>2. CASE Aside
  BY <1>2, AsideIs DEF Sent
<1>3. ASSUME NEW j \in Jobs, Confirm(j) PROVE Sent(leg)'
  BY <1>1, <1>3, ConfirmIs DEF Sent
<1>4. ASSUME NEW j \in Jobs, JobStep(j) PROVE Sent(leg)'
  <2>1. thread[j].k \in 1..4
    BY TypeParts DEF Local, ThreadType, ThreadOf
  <2>2. status'[leg[1]] # "none"
    BY <1>1, <1>4, JobMoves DEF Sent
  <2>3. CASE Finish(j) /\ running' = None
    BY <1>1, <2>2, <2>3, NoneIsNew DEF Sent
  <2>4. CASE GoesOn(j)
    BY <1>1, <1>4, <2>2, <2>4, JobMoves DEF Sent, GoesOn
  <2>5. CASE ToNextLeg(j)
    BY <1>1, <1>4, <2>1, <2>2, <2>5, JobMoves DEF Sent, ToNextLeg
  <2> QED BY <1>4, <2>3, <2>4, <2>5, JobMoves
<1> QED BY <1>2, <1>3, <1>4, StepsAre

LegCommand(j) == [kind |-> Step(j), leg |-> Leg(j),
                  start |-> IF Step(j) = "return" THEN StartOf(j) ELSE None,
                  raced |-> request = "sent" \/ j \in told]

(* What becomes of the queue.                                              *)
LEMMA QueueStep ==
    ASSUME Local, [Next]_vars
    PROVE  \/ UNCHANGED commands
           \/ Die /\ commands' = << >>
           \/ Apply
           \/ StopSend /\ ctl.up /\ commands' = Append(commands, StopCommand(0))
           \/ \E j \in Jobs : /\ Clean(j) /\ ctl.up
                              /\ commands' = Append(commands, StopCommand(j))
           \/ \E j \in Jobs :
                 /\ SendLeg(j) /\ ctl.up
                 /\ commands' = Append(commands, LegCommand(j))
<1>1. ASSUME NEW s \in Sessions, NEW intent \in Intents, Command(s, intent) PROVE UNCHANGED commands
  BY <1>1 DEF Command
<1>2. ASSUME NEW s \in Sessions, StopTell(s) PROVE UNCHANGED commands
  BY <1>2 DEF StopTell
<1>3. ASSUME NEW j \in Jobs,
             Expire(j) \/ Confirm(j) \/ Check(j) \/ Saved(j) \/ Applied(j) \/ NoReaction(j) \/
             WaitStopped(j) \/ WaitFails(j) \/ Claim(j) \/ Verify(j) \/ Verdict(j) \/ Finish(j)
      PROVE  UNCHANGED commands
  BY <1>3 DEF Expire, Confirm, Check, Saved, Applied, NoReaction, WaitStopped, WaitFails, Claim,
              Verify, Verdict, Finish
<1>4. CASE Arrive \/ KeepOut \/ Fall \/ Restart \/ Publish \/ Silence \/ UNCHANGED vars
  BY <1>4 DEF Arrive, KeepOut, Fall, Restart, Publish, Silence, vars
<1>5. Die => commands' = << >>
  BY DEF Die
<1>6. ASSUME NEW c, commands' = Published(c)
      PROVE  UNCHANGED commands \/ (ctl.up /\ commands' = Append(commands, c))
  <2>1. ctl.up \in BOOLEAN
    BY TypeParts DEF Local, RobotType, Robots
  <2> QED BY <1>6, <2>1 DEF Published
<1>9. StopSend => UNCHANGED commands \/ (ctl.up /\ commands' = Append(commands, StopCommand(0)))
  BY <1>6, Zenon DEF StopSend
<1>7. \A j \in Jobs : Clean(j) =>
         \/ UNCHANGED commands
         \/ ctl.up /\ commands' = Append(commands, StopCommand(j))
  BY <1>6, Zenon DEF Clean, Closed
<1>8. \A j \in Jobs : SendLeg(j) =>
         \/ UNCHANGED commands
         \/ ctl.up /\ commands' = Append(commands, LegCommand(j))
  BY <1>6, Zenon DEF SendLeg, LegCommand
<1> QED BY <1>1, <1>2, <1>3, <1>4, <1>5, <1>7, <1>8, <1>9, Zenon DEF Next, JobStep, Controller

(* What Apply makes of the controller.                                     *)
Untouched == /\ ctl'.up = ctl.up /\ ctl'.mode = ctl.mode /\ ctl'.goal = ctl.goal
             /\ ctl'.start = ctl.start /\ ctl'.raced = ctl.raced /\ ctl'.arrived = ctl.arrived

Refuses(c) == /\ IsLeg(c) /\ Untouched
              /\ ctl'.reaction = [leg |-> c.leg, ok |-> FALSE, start |-> None]
Saves(c) == /\ c.kind = "save_start" /\ Untouched
            /\ ctl'.reaction = [leg |-> c.leg, ok |-> TRUE, start |-> saves + 1]
TakesGoal(c) == /\ c.kind \in {"goto", "return"} /\ ctl.mode # "fallen"
                /\ ctl'.up = ctl.up /\ ctl'.mode = "goto" /\ ctl'.goal = c.leg
                /\ ctl'.start = c.start /\ ctl'.raced = c.raced /\ ctl'.arrived = None
                /\ ctl'.reaction = [leg |-> c.leg, ok |-> TRUE, start |-> None]
Cancels(mode) == /\ ctl'.up = ctl.up /\ ctl'.mode = mode /\ ctl'.goal = None
                 /\ ctl'.start = None /\ ctl'.raced = FALSE
                 /\ ctl'.arrived = ctl.arrived /\ ctl'.reaction = ctl.reaction

Outcome(c) == \/ c.kind = "stop" /\ ctl.mode = "fallen" /\ ctl' = ctl
              \/ c.kind = "stop" /\ Cancels("stand")
              \/ Refuses(c) \/ Saves(c) \/ TakesGoal(c)

(* A canceled goal, in the form of Outcome.                                *)
LEMMA CanceledIs ==
    ASSUME ctl \in Robots, NEW mode, ctl' = Canceled(mode) PROVE Cancels(mode)
  BY DEF Canceled, Cancels, Robots

(* The controller takes the first command and does what its kind says.     *)
LEMMA ApplyIs ==
    ASSUME Local, Apply
    PROVE  /\ ctl.up /\ commands # << >> /\ commands[1] \in CommandOf
           /\ Len(commands') = Len(commands) - 1
           /\ \A i \in 1..Len(commands') : commands'[i] = commands[i + 1]
           /\ Outcome(commands[1])
<1> DEFINE c == commands[1]
<1>0. QueueType /\ ctl \in Robots /\ saves \in Nat
  BY TypeParts DEF Local, RobotType
<1>1. /\ ctl.up /\ commands # << >> /\ c = Head(commands) /\ c \in CommandOf
      /\ Len(commands') = Len(commands) - 1
      /\ \A i \in 1..Len(commands') : commands'[i] = commands[i + 1]
  BY <1>0, TakenIs DEF Apply
<1>2. c.kind \in {"stop", "save_start", "goto", "return"}
  BY <1>1 DEF CommandOf, StepKinds
<1> HIDE DEF c
<1>3. ASSUME ~Accepts(c) /\ c.kind = "stop" PROVE Outcome(c)
  BY <1>1, <1>3 DEF Apply, Accepts, Outcome
<1>4. ASSUME ~Accepts(c) /\ c.kind # "stop" PROVE Outcome(c)
  <2>1. ctl' = [ctl EXCEPT !.reaction = [leg |-> c.leg, ok |-> Accepts(c), start |-> None]]
    BY <1>1, <1>4 DEF Apply
  <2>2. Accepts(c) = FALSE
    BY <1>4 DEF Accepts
  <2>3. ctl' = [ctl EXCEPT !.reaction = [leg |-> c.leg, ok |-> FALSE, start |-> None]]
    BY <2>1, <2>2
  <2> QED BY <1>0, <1>4, <2>3 DEF Refuses, Untouched, IsLeg, Robots, Outcome
<1>5. ASSUME Accepts(c) /\ c.kind = "stop" PROVE Outcome(c)
  <2>1. ctl' = Canceled("stand")
    BY <1>1, <1>5 DEF Apply
  <2> QED BY <1>0, <1>5, <2>1, CanceledIs DEF Outcome
<1>6. ASSUME Accepts(c) /\ c.kind = "save_start" PROVE Outcome(c)
  <2>1. ctl' = [[ctl EXCEPT !.starts = Remembered(@ \cup {saves + 1})]
                  EXCEPT !.reaction = [leg |-> c.leg, ok |-> Accepts(c), start |-> saves + 1]]
    BY <1>1, <1>6 DEF Apply
  <2>2. Accepts(c) = TRUE
    BY <1>6 DEF Accepts
  <2>3. ctl' = [[ctl EXCEPT !.starts = Remembered(@ \cup {saves + 1})]
                  EXCEPT !.reaction = [leg |-> c.leg, ok |-> TRUE, start |-> saves + 1]]
    BY <2>1, <2>2
  <2> QED BY <1>0, <1>6, <2>3 DEF Saves, Untouched, Robots, Outcome
<1>7. ASSUME Accepts(c) /\ c.kind \in {"goto", "return"} PROVE Outcome(c)
  <2>1. ctl' = [WithGoal(c) EXCEPT !.reaction = [leg |-> c.leg, ok |-> Accepts(c), start |-> None]]
    BY <1>1, <1>7 DEF Apply
  <2>2. Accepts(c) = TRUE /\ ctl.mode # "fallen"
    BY <1>7 DEF Accepts
  <2>3. ctl' = [WithGoal(c) EXCEPT !.reaction = [leg |-> c.leg, ok |-> TRUE, start |-> None]]
    BY <2>1, <2>2
  <2> QED BY <1>0, <1>7, <2>2, <2>3 DEF TakesGoal, WithGoal, Robots, Outcome
<1>8. Outcome(c)
  BY <1>2, <1>3, <1>4, <1>5, <1>6, <1>7
<1> QED BY <1>1, <1>8 DEF c

(* Every change of the controller and of its last status.                  *)
Arrives == /\ ctl'.up = ctl.up /\ ctl'.mode = ctl.mode /\ ctl'.goal = ctl.goal
           /\ ctl'.start = ctl.start /\ ctl'.raced = ctl.raced
           /\ ctl.goal # None /\ ctl'.arrived = ctl.goal /\ ctl'.reaction = ctl.reaction
Begins == /\ ctl'.mode = "stand" /\ ctl'.goal = None /\ ctl'.arrived = None
          /\ ctl'.reaction = NoReactionYet

(* A step of the controller is one of these changes.                       *)
LEMMA ControllerIs ==
    ASSUME Local, Controller
    PROVE  /\ UNCHANGED <<work, pending, lastStart, running, thread, status, told, request>>
           /\ \/ Apply /\ UNCHANGED seen
              \/ UNCHANGED <<commands, seen>> /\ Arrives
              \/ UNCHANGED <<commands, seen>> /\ (Cancels("stand") \/ Cancels("fallen"))
              \/ UNCHANGED seen /\ Begins /\ commands' = << >> /\ ~ctl'.up
              \/ UNCHANGED <<commands, seen>> /\ Begins /\ ctl'.up /\ ~ctl.up
              \/ UNCHANGED <<commands, ctl>>
                 /\ \/ seen' = seen
                    \/ /\ seen'.goal = ctl.goal /\ seen'.arrived = ctl.arrived
                       /\ seen'.reaction = ctl.reaction
<1>0. ctl \in Robots
  BY TypeParts DEF Local, RobotType
<1>1. CASE Apply
  BY <1>1 DEF Apply, RobotUnchanged
<1>2. CASE Arrive
  BY <1>0, <1>2 DEF Arrive, Arrives, Robots, RobotUnchanged
<1>3. CASE KeepOut \/ Fall
  BY <1>0, <1>3, CanceledIs DEF KeepOut, Fall, RobotUnchanged
<1>4. CASE Die
  BY <1>4 DEF Die, Standing, Begins, RobotUnchanged
<1>5. CASE Restart
  BY <1>5 DEF Restart, Standing, Begins, RobotUnchanged
<1>6. CASE Publish
  BY <1>6 DEF Publish, Shown, RobotUnchanged
<1>7. CASE Silence
  BY <1>7 DEF Silence, RobotUnchanged
<1> QED BY <1>1, <1>2, <1>3, <1>4, <1>5, <1>6, <1>7 DEF Controller

(* Only the controller changes what the controller shows.                  *)
LEMMA OthersIs ==
    ASSUME Local, [Next]_vars
    PROVE  Controller \/ UNCHANGED <<ctl, seen>>
<1>1. ASSUME NEW j \in Jobs, Confirm(j) \/ JobStep(j) PROVE UNCHANGED <<ctl, seen>>
  BY <1>1, JobMoves, ConfirmIs DEF JobUnchanged
<1>2. ASSUME NEW s \in Sessions, NEW intent \in Intents, Command(s, intent)
      PROVE  UNCHANGED <<ctl, seen>>
  BY <1>2 DEF Command
<1>3. ASSUME NEW s \in Sessions, StopTell(s) PROVE UNCHANGED <<ctl, seen>>
  BY <1>3 DEF StopTell
<1>4. ASSUME NEW j \in Jobs, Expire(j) PROVE UNCHANGED <<ctl, seen>>
  BY <1>4 DEF Expire
<1>5. StopSend \/ UNCHANGED vars => UNCHANGED <<ctl, seen>>
  BY DEF StopSend, vars
<1> QED BY <1>1, <1>2, <1>3, <1>4, <1>5, StepsAre DEF Aside

(* A job that has begun stays begun.                                       *)
LEMMA StatusKept ==
    ASSUME Local, [Next]_vars, NEW j \in Jobs, status[j] # "none" PROVE status'[j] # "none"
<1>1. ASSUME NEW i \in Jobs, Confirm(i) \/ JobStep(i) PROVE status'[j] # "none"
  BY <1>1, ConfirmIs, JobMoves
<1> QED BY <1>1, AsideIs, StepsAre

(* Every leg that is anywhere was sent.                                    *)
LEMMA LegNext == Local /\ LegInv /\ [Next]_vars => LegInv'
<1> SUFFICES ASSUME Local, LegInv, [Next]_vars PROVE LegInv'
  OBVIOUS
<1>0. QueueType /\ ThreadType /\ ThreadInv
  BY TypeParts DEF Local
<1>1. ASSUME NEW c, SentCommand(c) PROVE SentCommand(c)'
  BY <1>1, SentKept, StatusKept DEF SentCommand, IsLeg
<1>2. ASSUME NEW i \in 1..Len(commands) PROVE SentCommand(commands[i])
  BY DEF LegInv
<1>3. \A i \in 1..Len(commands') : SentCommand(commands[i])'
  <2> SUFFICES ASSUME NEW i \in 1..Len(commands') PROVE SentCommand(commands[i])'
    OBVIOUS
  <2> DEFINE Old == \E n \in 1..Len(commands) : commands'[i] = commands[n]
  <2>1. ASSUME Old PROVE SentCommand(commands[i])'
    <3>1. PICK n \in 1..Len(commands) : commands'[i] = commands[n]
      BY <2>1
    <3>2. PICK c : c = commands[n]
      OBVIOUS
    <3>3. SentCommand(c)'
      BY <1>1, <1>2, <3>2
    <3> QED BY <3>1, <3>2, <3>3 DEF SentCommand, IsLeg, Sent
  <2>2. ASSUME NEW c, commands' = Append(commands, c),
               IF IsLeg(c) THEN Sent(c.leg)'
               ELSE c.leg[1] # 0 => c.leg[1] \in Jobs /\ status'[c.leg[1]] # "none"
        PROVE  SentCommand(commands[i])'
    <3>1. CASE i \in 1..Len(commands)
      BY <1>0, <2>1, <2>2, <3>1 DEF QueueType
    <3>2. CASE i \notin 1..Len(commands)
      <4>1. commands'[i] = c
        BY <1>0, <2>2, <3>2 DEF QueueType
      <4> QED BY <2>2, <4>1 DEF SentCommand, IsLeg, Sent
    <3> QED BY <3>1, <3>2
  <2>3. CASE Apply
    BY <1>0, <2>1, <2>3, ApplyIs DEF QueueType
  <2>4. CASE StopSend /\ commands' = Append(commands, StopCommand(0))
    BY <2>2, <2>4 DEF StopCommand, IsLeg
  <2>5. ASSUME NEW j \in Jobs, Clean(j), commands' = Append(commands, StopCommand(j))
        PROVE  SentCommand(commands[i])'
    <3>1. status'[j] # "none"
      BY <2>5, JobMoves DEF JobStep
    <3> QED BY <2>2, <2>5, <3>1 DEF StopCommand, IsLeg
  <2>6. ASSUME NEW j \in Jobs, SendLeg(j),
               NEW c, commands' = Append(commands, c), c.kind = Step(j), c.leg = Leg(j)
        PROVE  SentCommand(commands[i])'
    <3>1. running' = j /\ thread'[j].k = thread[j].k /\ thread'[j].at = "react" /\ status'[j] # "none"
      BY <1>0, <2>6, JobMoves, GoIs DEF JobStep, SendLeg
    <3>2. Leg(j) \in Legs /\ Step(j) # "stop"
      BY <2>6, LegIsStep DEF SendLeg, StepKinds
    <3>3. PICK leg : leg = Leg(j)
      OBVIOUS
    <3>4. Sent(leg)'
      BY <3>1, <3>2, <3>3 DEF Sent, Leg
    <3>5. IsLeg(c) /\ c.leg = leg
      BY <2>6, <3>2, <3>3 DEF IsLeg
    <3> QED BY <2>2, <2>6, <3>4, <3>5
  <2>7. UNCHANGED commands => Old
    OBVIOUS
  <2>8. ASSUME NEW j \in Jobs, SendLeg(j),
               NEW c, c = LegCommand(j),
               commands' = Append(commands, c)
        PROVE  SentCommand(commands[i])'
    BY <2>6, <2>8 DEF LegCommand
  <2>9. CASE commands' = << >>
    BY <2>9
  <2> QED BY <2>1, <2>3, <2>4, <2>5, <2>7, <2>8, <2>9, QueueStep
<1>4. ASSUME NEW leg, leg # None,
             leg \in {ctl'.goal, ctl'.arrived, ctl'.reaction.leg,
                      seen'.goal, seen'.arrived, seen'.reaction.leg}
      PROVE  Sent(leg)'
  <2>1. \A l \in {ctl.goal, ctl.arrived, ctl.reaction.leg,
                  seen.goal, seen.arrived, seen.reaction.leg} : l # None => Sent(l)
    BY DEF LegInv, SentTo
  <2>2. Apply /\ IsLeg(commands[1]) => Sent(commands[1].leg)
    BY <1>0, <1>2, ApplyIs DEF SentCommand, QueueType
  <2>3. Sent(leg)
    <3>1. CASE UNCHANGED <<ctl, seen>>
      BY <1>4, <2>1, <3>1
    <3>2. CASE Apply /\ UNCHANGED seen
      <4>1. (leg = commands[1].leg /\ IsLeg(commands[1])) \/
            leg \in {ctl.goal, ctl.arrived, ctl.reaction.leg,
                     seen.goal, seen.arrived, seen.reaction.leg}
        <5>1. /\ ctl'.goal \in {ctl.goal, None, commands[1].leg}
              /\ ctl'.arrived \in {ctl.arrived, None}
              /\ ctl'.reaction.leg \in {ctl.reaction.leg, commands[1].leg}
              /\ ctl'.goal \notin {ctl.goal, None} => IsLeg(commands[1])
              /\ ctl'.reaction.leg # ctl.reaction.leg => IsLeg(commands[1])
          <6>1. Outcome(commands[1])
            BY <3>2, ApplyIs
          <6>2. CASE ctl' = ctl
            BY <6>2
          <6>3. CASE Cancels("stand")
            BY <6>3 DEF Cancels
          <6>4. CASE Refuses(commands[1])
            BY <6>4 DEF Refuses, Untouched
          <6>5. CASE Saves(commands[1])
            BY <6>5 DEF Saves, Untouched, IsLeg
          <6>6. CASE TakesGoal(commands[1])
            BY <6>6 DEF TakesGoal, IsLeg
          <6> QED BY <6>1, <6>2, <6>3, <6>4, <6>5, <6>6 DEF Outcome
        <5> QED BY <1>4, <3>2, <5>1
      <4> QED BY <1>4, <2>1, <2>2, <3>2, <4>1
    <3>3. CASE Controller /\ ~Apply
      <4>1. leg \in {ctl.goal, ctl.arrived, ctl.reaction.leg,
                     seen.goal, seen.arrived, seen.reaction.leg}
        <5>1. CASE Arrives /\ UNCHANGED seen
          BY <1>4, <5>1 DEF Arrives
        <5>2. CASE (Cancels("stand") \/ Cancels("fallen")) /\ UNCHANGED seen
          BY <1>4, <5>2 DEF Cancels
        <5>3. CASE Begins /\ UNCHANGED seen
          BY <1>4, <5>3 DEF Begins, NoReactionYet
        <5>4. CASE UNCHANGED ctl /\ seen'.goal = ctl.goal /\ seen'.arrived = ctl.arrived /\
                   seen'.reaction = ctl.reaction
          BY <1>4, <5>4
        <5> QED BY <1>4, <3>3, <5>1, <5>2, <5>3, <5>4, ControllerIs
      <4> QED BY <1>4, <2>1, <4>1
    <3>4. Apply => UNCHANGED seen
      BY DEF Apply
    <3> QED BY <3>1, <3>2, <3>3, <3>4, OthersIs
  <2> QED BY <2>3, SentKept
<1>5. SentTo(ctl)' /\ SentTo(seen)'
  BY <1>4 DEF SentTo, Sent
<1> QED BY <1>3, <1>5 DEF LegInv

-----------------------------------------------------------------------------
(* The start a job walks back to is the one its session's last job left.   *)
StartInv ==
    running # None =>
        /\ IF work[running].steps = <<"return">>
           THEN work[running].start = lastStart[Own] /\ thread[running].start = None
           ELSE thread[running].k > 1 => thread[running].start = lastStart[Own]
        /\ thread[running].at = "wait" => Step(running) # "save_start"

(* A start is saved first or not at all.                                   *)
LEMMA ScriptsBegin ==
    ASSUME NEW steps \in Scripts
    PROVE  /\ steps = <<"return">> => Len(steps) = 1 /\ steps[1] = "return"
           /\ steps # <<"return">> => steps[1] = "save_start"
           /\ \A k \in 1..Len(steps) : k # 1 => steps[k] # "save_start"
<1>1. CASE steps = <<"save_start", "goto">>
  BY <1>1
<1>2. CASE steps = <<"save_start", "goto", "return">>
  BY <1>2
<1>3. CASE steps = <<"return">>
  BY <1>3
<1> QED BY <1>1, <1>2, <1>3 DEF Scripts

(* A job that has saved its start is at its first step, and walks back     *)
(* with the second or third.                                               *)
LEMMA SavesFirst ==
    ASSUME Local, NEW j \in Jobs, thread[j].at \in {"send", "react", "wait"}
    PROVE  /\ Step(j) = "save_start" => thread[j].k = 1 /\ work[j].steps # <<"return">>
           /\ Step(j) # "save_start" /\ work[j].steps # <<"return">> => thread[j].k > 1
<1>1. work[j].steps \in Scripts
  BY StepIsRunning DEF Resting
<1>2. thread[j].k \in 1..Len(work[j].steps)
  BY <1>1, LegIsStep, ScriptsAre
<1> QED BY <1>1, <1>2, ScriptsBegin, ScriptsAre DEF Step

(* The remembered start stays that of the session's last job.              *)
LEMMA StartNext == Local /\ StartInv /\ [Next]_vars => StartInv'
<1> SUFFICES ASSUME Local, StartInv, [Next]_vars PROVE StartInv'
  OBVIOUS
<1>0. LoopType /\ ThreadType /\ WorkInv /\ ThreadInv
  BY TypeParts DEF Local
<1>1. CASE Aside
  BY <1>1, AsideIs DEF StartInv, Own, Step
<1>2. ASSUME NEW j \in Jobs, Confirm(j) PROVE StartInv'
  <2>1. work[j].steps = <<"return">> => work[j].start = lastStart[work[j].session]
    BY <1>0, <1>2, ConfirmIs DEF WorkInv
  <2> QED BY <1>2, <2>1, ConfirmIs DEF StartInv, Own
<1>3. ASSUME NEW j \in Jobs, JobStep(j) PROVE StartInv'
  <2>1. running = j /\ running # None /\ thread[j].k \in 1..4
    BY <1>0, <1>3, JobMoves DEF ThreadType, ThreadOf
  <2>2. CASE running' = None
    BY <2>2 DEF StartInv
  <2>3. CASE GoesOn(j)
    <3>1. Applied(j) => Step(j) # "save_start"
      BY DEF Applied
    <3> QED BY <2>1, <2>3, <3>1 DEF GoesOn, StartInv, Own, Step
  <2>4. CASE ToNextLeg(j) /\ Saved(j)
    <3>1. work[j].steps # <<"return">> /\ work[j].session \in Sessions
      BY <1>0, <2>4, SavesFirst, StepIsRunning DEF Saved, Resting
    <3>2. lastStart'[work[j].session] = seen.reaction.start
      BY <1>0, <2>4, <3>1 DEF Saved, LoopType
    <3> QED BY <2>1, <2>4, <3>1, <3>2 DEF ToNextLeg, StartInv, Own
  <2>5. CASE ToNextLeg(j) /\ Verify(j)
    <3>1. thread[j].at = "wait" /\ Step(j) # "save_start" /\ UNCHANGED lastStart
      BY <2>1, <2>5 DEF Verify, StartInv
    <3>2. work[j].steps # <<"return">> => thread[j].k > 1
      BY <3>1, SavesFirst
    <3> QED BY <2>1, <2>5, <3>1, <3>2 DEF ToNextLeg, StartInv, Own
  <2> QED BY <1>3, <2>2, <2>3, <2>4, <2>5, JobMoves DEF ToNextLeg
<1> QED BY <1>1, <1>2, <1>3, StepsAre

-----------------------------------------------------------------------------
(* The goal of a view and the arrival it tells of are those of the leg it  *)
(* has last accepted, or nothing.                                          *)
Of(view, leg) == view.goal \in {None, leg} /\ view.arrived \in {None, leg}
ReactionInv(view) == view.reaction.ok /\ view.reaction.start = None => Of(view, view.reaction.leg)
ViewInv == ReactionInv(ctl) /\ ReactionInv(seen)

(* The controller and its last status agree on the leg they tell of.       *)
LEMMA ViewNext == Local /\ ViewInv /\ [Next]_vars => ViewInv'
<1> SUFFICES ASSUME Local, ViewInv, [Next]_vars PROVE ViewInv'
  OBVIOUS
<1>1. saves + 1 # None
  BY TypeParts, NoneIsNew DEF Local, RobotType
<1>2. CASE UNCHANGED <<ctl, seen>>
  BY <1>2 DEF ViewInv, ReactionInv, Of
<1>3. CASE Apply /\ UNCHANGED seen
  <2>1. CASE ctl' = ctl
    BY <1>3, <2>1 DEF ViewInv, ReactionInv, Of
  <2>2. CASE Cancels("stand")
    BY <1>3, <2>2 DEF ViewInv, ReactionInv, Of, Cancels
  <2>3. CASE Refuses(commands[1])
    BY <1>3, <2>3 DEF ViewInv, ReactionInv, Of, Refuses
  <2>4. CASE Saves(commands[1])
    BY <1>1, <1>3, <2>4 DEF ViewInv, ReactionInv, Of, Saves
  <2>5. CASE TakesGoal(commands[1])
    BY <1>3, <2>5 DEF ViewInv, ReactionInv, Of, TakesGoal
  <2> QED BY <1>3, <2>1, <2>2, <2>3, <2>4, <2>5, ApplyIs DEF Outcome
<1>4. CASE Arrives /\ UNCHANGED seen
  BY <1>4 DEF Arrives, ViewInv, ReactionInv, Of
<1>5. CASE (Cancels("stand") \/ Cancels("fallen")) /\ UNCHANGED seen
  BY <1>5 DEF Cancels, ViewInv, ReactionInv, Of
<1>6. CASE Begins /\ UNCHANGED seen
  BY <1>6 DEF Begins, NoReactionYet, ViewInv, ReactionInv, Of
<1>7. CASE UNCHANGED ctl /\ seen'.goal = ctl.goal /\ seen'.arrived = ctl.arrived /\
           seen'.reaction = ctl.reaction
  BY <1>7 DEF ViewInv, ReactionInv, Of
<1> QED BY <1>2, <1>3, <1>4, <1>5, <1>6, <1>7, OthersIs, ControllerIs

-----------------------------------------------------------------------------
(* The legs of the running job that are under way: at most one is in the   *)
(* queue, the last of the legs, and the robot's goal is the leg that the   *)
(* thread waits for.                                                       *)
Ours(leg) == leg # None /\ leg[1] = running
OnlyStops == \A i \in 1..Len(commands) : ~IsLeg(commands[i])

QueueInv ==
    /\ \A i \in 1..Len(commands) :
          IsLeg(commands[i]) /\ Ours(commands[i].leg) =>
             /\ \A n \in (i + 1)..Len(commands) : ~IsLeg(commands[n])
             /\ thread[running].at \notin {"check", "send"}
    /\ running # None /\ thread[running].at = "react" =>
          /\ Leg(running) \in {ctl.reaction.leg, seen.reaction.leg} => OnlyStops
          /\ seen.reaction.leg = Leg(running) =>
                \/ ctl.reaction = seen.reaction
                \/ ctl.reaction.leg = None /\ ctl.goal = None /\ ctl.arrived = None
    /\ running # None /\ thread[running].at = "wait" =>
          OnlyStops /\ Of(ctl, Leg(running)) /\ Of(seen, Leg(running))

(* A leg of the running job is the step it names; one that walks back      *)
(* names the start that the session's last job left.                       *)
KindCommand(c) ==
    IsLeg(c) /\ Ours(c.leg) =>
       /\ c.kind = work[running].steps[c.leg[2]]
       /\ c.kind = "return" => c.start = lastStart[Own]
KindGoal(goal, start) == Ours(goal) /\ IsReturn(goal) => start = lastStart[Own]
KindReaction(r) ==
    Ours(r.leg) /\ r.ok /\ work[running].steps[r.leg[2]] # "save_start" => r.start = None

KindInv ==
    /\ \A i \in 1..Len(commands) : KindCommand(commands[i])
    /\ KindGoal(ctl.goal, ctl.start)
    /\ KindReaction(ctl.reaction) /\ KindReaction(seen.reaction)

(* What a thread or the event loop does, a leg under way stays of the kind *)
(* it was: only the save of a start could disturb it, and then the queue   *)
(* has no leg of the job and its goal is none.                             *)
LEMMA OursStays ==
    ASSUME Local, [Next]_vars, NEW leg, Sent(leg)
    PROVE  Ours(leg)' => /\ Ours(leg) /\ running' = running /\ work'[running] = work[running]
                         /\ \/ UNCHANGED lastStart
                            \/ Saved(running) /\ leg[2] = 1 /\ work[running].steps[1] = "save_start"
                         /\ running \in Jobs
<1> SUFFICES ASSUME Ours(leg)'
             PROVE  /\ Ours(leg) /\ running' = running /\ work'[running] = work[running]
                    /\ \/ UNCHANGED lastStart
                       \/ Saved(running) /\ leg[2] = 1 /\ work[running].steps[1] = "save_start"
                    /\ running \in Jobs
  OBVIOUS
<1>1. leg[1] \in Jobs /\ leg[2] \in 1..3 /\ status[leg[1]] # "none" /\ leg # None
  BY NoneIsNew DEF Sent, Legs
<1>2. CASE Aside
  BY <1>1, <1>2, AsideIs, NoneIsNew DEF Ours
<1>3. ASSUME NEW j \in Jobs, Confirm(j) PROVE FALSE
  BY <1>1, <1>3, ConfirmIs DEF Ours
<1>4. ASSUME NEW j \in Jobs, JobStep(j)
      PROVE  /\ Ours(leg) /\ running' = running /\ work'[running] = work[running]
             /\ \/ UNCHANGED lastStart
                \/ Saved(running) /\ leg[2] = 1 /\ work[running].steps[1] = "save_start"
             /\ running \in Jobs
  <2>1. running = j /\ running # None /\ thread[j].k \in 1..4
    BY <1>4, JobMoves, TypeParts DEF Local, ThreadType, ThreadOf
  <2>2. running' # None
    BY <1>1, NoneIsNew DEF Ours
  <2>3. UNCHANGED <<work, running>>
    BY <1>4, <2>2, JobMoves DEF GoesOn, ToNextLeg
  <2>4. Saved(j) => leg[2] = 1 /\ work[j].steps[1] = "save_start"
    BY <1>1, <2>1, <2>3, SavesFirst DEF Saved, Sent, Step, Ours
  <2>5. UNCHANGED lastStart \/ Saved(j)
    BY <1>4, <2>2, JobMoves DEF GoesOn, ToNextLeg, Verify
  <2> QED BY <1>1, <2>1, <2>3, <2>4, <2>5 DEF Ours
<1> QED BY <1>2, <1>3, <1>4, StepsAre

(* When a start is saved, no leg is in the queue.                          *)
LEMMA SavedIsAlone == ASSUME QueueInv, running # None, Saved(running) PROVE OnlyStops
  BY DEF QueueInv, Saved, Accepted, Answered

(* Legs of the running job keep the kind and the start of their step.      *)
LEMMA KindNext == Local /\ LegInv /\ StartInv /\ QueueInv /\ KindInv /\ [Next]_vars => KindInv'
<1> SUFFICES ASSUME Local, LegInv, StartInv, QueueInv, KindInv, [Next]_vars PROVE KindInv'
  OBVIOUS
<1>0. QueueType /\ LoopType /\ ThreadType /\ WorkInv /\ ThreadInv
  BY TypeParts DEF Local
<1>1. ASSUME NEW c, SentCommand(c), KindCommand(c), running # None /\ Saved(running) => ~IsLeg(c)
      PROVE  KindCommand(c)'
  <2> SUFFICES ASSUME IsLeg(c), Ours(c.leg)'
               PROVE  /\ c.kind = work'[running'].steps[c.leg[2]]
                      /\ c.kind = "return" => c.start = lastStart'[Own']
    BY DEF KindCommand, IsLeg
  <2>1. Sent(c.leg)
    BY <1>1 DEF SentCommand
  <2>2. PICK leg : leg = c.leg
    OBVIOUS
  <2>3. /\ Ours(leg) /\ running' = running /\ work'[running] = work[running] /\ running \in Jobs
        /\ UNCHANGED lastStart \/ Saved(running)
    BY <2>1, <2>2, OursStays DEF Ours
  <2>4. UNCHANGED lastStart
    BY <1>1, <2>3, NoneIsNew
  <2> QED BY <1>1, <2>2, <2>3, <2>4 DEF KindCommand, Own
<1>2. ASSUME NEW i \in 1..Len(commands)
      PROVE  /\ SentCommand(commands[i]) /\ KindCommand(commands[i])
             /\ running # None /\ Saved(running) => ~IsLeg(commands[i])
  BY SavedIsAlone DEF LegInv, KindInv, OnlyStops
<1>3. ASSUME NEW i \in 1..Len(commands') PROVE KindCommand(commands[i])'
  <2> DEFINE Old == \E n \in 1..Len(commands) : commands'[i] = commands[n]
  <2>1. ASSUME Old PROVE KindCommand(commands[i])'
    <3>1. PICK n \in 1..Len(commands) : commands'[i] = commands[n]
      BY <2>1
    <3>2. PICK c : c = commands[n]
      OBVIOUS
    <3>3. KindCommand(c)'
      BY <1>1, <1>2, <3>2
    <3> QED BY <3>1, <3>2, <3>3 DEF KindCommand, IsLeg, Ours
  <2>2. ASSUME NEW c, commands' = Append(commands, c), KindCommand(c)'
        PROVE  KindCommand(commands[i])'
    <3>1. CASE i \in 1..Len(commands)
      BY <1>0, <2>1, <2>2, <3>1 DEF QueueType
    <3>2. CASE i \notin 1..Len(commands)
      <4>1. commands'[i] = c
        BY <1>0, <1>3, <2>2, <3>2 DEF QueueType
      <4> QED BY <2>2, <4>1 DEF KindCommand, IsLeg, Ours
    <3> QED BY <3>1, <3>2
  <2>3. CASE Apply
    BY <1>0, <1>3, <2>1, <2>3, ApplyIs DEF QueueType
  <2>4. ASSUME NEW j, commands' = Append(commands, StopCommand(j)) PROVE KindCommand(commands[i])'
    <3>1. PICK c : c = StopCommand(j)
      OBVIOUS
    <3>2. KindCommand(c)'
      BY <3>1 DEF StopCommand, IsLeg, KindCommand
    <3> QED BY <2>2, <2>4, <3>1, <3>2
  <2>5. ASSUME NEW j \in Jobs, SendLeg(j), commands' = Append(commands, LegCommand(j))
        PROVE  KindCommand(commands[i])'
    <3>1. PICK c : c = LegCommand(j)
      OBVIOUS
    <3>2. /\ c.kind = work[j].steps[thread[j].k] /\ c.leg = Leg(j)
          /\ c.kind = "return" => c.start = StartOf(j)
      BY <3>1 DEF LegCommand, Step
    <3>3. /\ running = j /\ running # None /\ UNCHANGED <<running, work, lastStart>>
          /\ c.leg[2] = thread[j].k
      BY <2>5, <3>2, StepIsRunning DEF SendLeg, Resting, JobUnchanged, Leg
    <3>4. c.kind = "return" => StartOf(j) = lastStart[Own]
      <4>1. j \in Taken /\ work[j].steps \in Scripts
        BY <2>5, StepIsRunning DEF SendLeg, Resting
      <4>2. CASE work[j].steps = <<"return">>
        BY <3>3, <4>2 DEF StartInv, StartOf
      <4>3. CASE work[j].steps # <<"return">>
        <5>1. work[j].start = None
          BY <1>0, <4>1, <4>3 DEF WorkInv
        <5>2. c.kind = "return" => thread[j].k > 1
          BY <2>5, <3>2, <4>3, SavesFirst DEF SendLeg, Step
        <5> QED BY <3>3, <4>3, <5>1, <5>2 DEF StartInv, StartOf
      <4> QED BY <4>2, <4>3
    <3>5. KindCommand(c)'
      BY <3>2, <3>3, <3>4 DEF KindCommand, Own
    <3> QED BY <2>2, <2>5, <3>1, <3>5
  <2>6. CASE commands' = << >>
    BY <1>3, <2>6
  <2>7. UNCHANGED commands => Old
    BY <1>3
  <2> QED BY <2>1, <2>3, <2>4, <2>5, <2>6, <2>7, QueueStep
<1>4. ASSUME NEW goal, NEW start, goal # None => Sent(goal), KindGoal(goal, start)
      PROVE  KindGoal(goal, start)'
  <2> SUFFICES ASSUME Ours(goal)', IsReturn(goal)' PROVE start = lastStart'[Own']
    BY DEF KindGoal
  <2>1. Sent(goal)
    BY <1>4 DEF Ours
  <2>2. /\ Ours(goal) /\ running' = running /\ work'[running] = work[running]
        /\ UNCHANGED lastStart \/ (goal[2] = 1 /\ work[running].steps[1] = "save_start")
    BY <2>1, OursStays
  <2>3. IsReturn(goal) /\ UNCHANGED lastStart
    BY <2>2 DEF IsReturn, Ours
  <2> QED BY <1>4, <2>2, <2>3 DEF KindGoal, Own
<1>5. ASSUME NEW r, r.leg # None => Sent(r.leg), KindReaction(r) PROVE KindReaction(r)'
  <2> SUFFICES ASSUME Ours(r.leg)', r.ok, work'[running'].steps[r.leg[2]] # "save_start"
               PROVE  r.start = None
    BY DEF KindReaction
  <2>1. PICK leg : leg = r.leg
    OBVIOUS
  <2>2. Sent(leg) /\ Ours(leg)'
    BY <1>5, <2>1 DEF Ours
  <2>3. Ours(leg) /\ running' = running /\ work'[running] = work[running]
    BY <2>2, OursStays
  <2> QED BY <1>5, <2>1, <2>3 DEF KindReaction
<1>6. Apply => LET c == commands[1] IN KindCommand(c) /\ (IsLeg(c) => Sent(c.leg))
  <2>1. Apply => 1 \in 1..Len(commands)
    BY <1>0, ApplyIs DEF QueueType
  <2> QED BY <1>2, <2>1 DEF SentCommand
<1>7. Apply => UNCHANGED seen
  BY DEF Apply
<1>8. KindGoal(ctl.goal, ctl.start)'
  <2>1. (ctl.goal # None => Sent(ctl.goal)) /\ KindGoal(ctl.goal, ctl.start)
    BY DEF LegInv, SentTo, KindInv
  <2>2. ctl'.goal = None \/ /\ Sent(ctl'.goal)
                            /\ Ours(ctl'.goal) /\ IsReturn(ctl'.goal) => ctl'.start = lastStart[Own]
    <3>1. CASE ctl'.goal = ctl.goal /\ ctl'.start = ctl.start
      BY <2>1, <3>1 DEF KindGoal
    <3>2. CASE Apply /\ TakesGoal(commands[1])
      BY <1>6, <3>2 DEF TakesGoal, KindCommand, IsReturn, IsLeg, Ours
    <3>3. CASE Apply /\ ~TakesGoal(commands[1])
      BY <3>1, <3>3, ApplyIs DEF Outcome, Refuses, Saves, Untouched, Cancels
    <3>4. CASE Controller /\ ~Apply
      BY <3>1, <3>4, ControllerIs DEF Arrives, Cancels, Begins
    <3> QED BY <3>1, <3>2, <3>3, <3>4, OthersIs
  <2>3. PICK goal, start : goal = ctl'.goal /\ start = ctl'.start
    OBVIOUS
  <2>4. goal = None \/ KindGoal(goal, start)'
    BY <1>4, <2>2, <2>3 DEF KindGoal
  <2> QED BY <2>3, <2>4 DEF KindGoal, Ours
<1>9. ASSUME NEW r, r \in {ctl'.reaction, seen'.reaction} PROVE KindReaction(r)'
  <2>1. \A v \in {ctl.reaction, seen.reaction} : (v.leg # None => Sent(v.leg)) /\ KindReaction(v)
    BY DEF LegInv, SentTo, KindInv
  <2>2. (r.leg # None => Sent(r.leg)) /\ KindReaction(r)
    <3>1. CASE r \in {ctl.reaction, seen.reaction}
      BY <2>1, <3>1
    <3>2. CASE Apply
      <4>1. CASE Refuses(commands[1])
        BY <1>6, <1>7, <1>9, <3>1, <3>2, <4>1 DEF Refuses, KindReaction
      <4>2. CASE Saves(commands[1])
        BY <1>6, <1>7, <1>9, <3>1, <3>2, <4>2 DEF Saves, KindReaction, KindCommand, IsLeg
      <4>3. CASE TakesGoal(commands[1])
        BY <1>6, <1>7, <1>9, <3>1, <3>2, <4>3 DEF TakesGoal, KindReaction, IsLeg
      <4> QED BY <1>7, <1>9, <3>1, <3>2, <4>1, <4>2, <4>3, ApplyIs DEF Outcome, Cancels
    <3>3. CASE Controller /\ ~Apply
      <4>1. CASE Begins /\ UNCHANGED seen
        BY <1>9, <3>1, <4>1 DEF Begins, NoReactionYet, KindReaction, Ours
      <4> QED BY <1>9, <3>1, <3>3, <4>1, ControllerIs DEF Arrives, Cancels
    <3> QED BY <1>9, <3>1, <3>2, <3>3, OthersIs
  <2> QED BY <1>5, <2>2
<1>10. KindReaction(ctl.reaction)' /\ KindReaction(seen.reaction)'
  BY <1>9 DEF KindReaction, Ours
<1> QED BY <1>3, <1>8, <1>10 DEF KindInv

(* Only SendLeg puts a leg into the queue.                                 *)
LEMMA StopsStay ==
    ASSUME Local, [Next]_vars, OnlyStops, \A j \in Jobs : ~SendLeg(j) PROVE OnlyStops'
<1>0. QueueType
  BY TypeParts DEF Local
<1>1. CASE UNCHANGED commands \/ commands' = << >>
  BY <1>1 DEF OnlyStops, IsLeg
<1>2. CASE Apply
  BY <1>0, <1>2, ApplyIs DEF OnlyStops, IsLeg, QueueType
<1>3. ASSUME NEW j, commands' = Append(commands, StopCommand(j)) PROVE OnlyStops'
  BY <1>0, <1>3 DEF OnlyStops, IsLeg, StopCommand, QueueType
<1> QED BY <1>1, <1>2, <1>3, QueueStep

(* The steps that leave the thread of the running job at its reaction or   *)
(* its wait.                                                               *)
LEMMA Remains ==
    ASSUME Local, [Next]_vars, running' # None, thread'[running'].at \in {"react", "wait"}
    PROVE  \/ /\ Aside /\ running' = running /\ Leg(running)' = Leg(running)
              /\ thread'[running].at = thread[running].at
           \/ /\ running' = running /\ running \in Jobs /\ Leg(running)' = Leg(running)
              /\ UNCHANGED <<ctl, seen>>
              /\ \/ thread'[running].at = "react" /\ SendLeg(running)
                 \/ thread'[running].at = "wait" /\ Applied(running)
                 \/ thread'[running].at = "wait" /\ thread[running].at = "wait"
                    /\ ~SendLeg(running)
<1>1. CASE Aside
  BY <1>1, AsideIs DEF Leg
<1>2. ASSUME NEW j \in Jobs, Confirm(j) PROVE FALSE
  BY <1>2, ConfirmIs
<1>3. ASSUME NEW j \in Jobs, JobStep(j)
      PROVE  /\ running' = running /\ running = j /\ Leg(running)' = Leg(running)
             /\ UNCHANGED <<ctl, seen>>
             /\ \/ thread'[running].at = "react" /\ SendLeg(running)
                \/ thread'[running].at = "wait" /\ Applied(running)
                \/ thread'[running].at = "wait" /\ thread[running].at = "wait"
                   /\ ~SendLeg(running)
  <2>1. running = j /\ GoesOn(j)
    BY <1>3, JobMoves DEF ToNextLeg
  <2>2. thread[j].at = "wait" => ~SendLeg(j)
    BY DEF SendLeg
  <2>3. UNCHANGED <<ctl, seen>>
    BY <1>3, JobMoves DEF JobUnchanged
  <2> QED BY <2>1, <2>2, <2>3 DEF GoesOn, Leg
<1> QED BY <1>1, <1>2, <1>3, StepsAre

(* The leg that is sent was not seen before.                               *)
LEMMA SendsNew ==
    ASSUME Local, LegInv, running \in Jobs, SendLeg(running)
    PROVE  Leg(running) \notin {ctl.reaction.leg, seen.reaction.leg}
<1>1. ASSUME NEW leg, Sent(leg), leg = Leg(running) PROVE FALSE
  <2>1. thread[running].k \in Nat
    BY TypeParts DEF Local, ThreadType, ThreadOf
  <2> QED BY <1>1, <2>1 DEF Sent, SendLeg, Leg
<1>2. Leg(running) # None
  BY LegIsStep, NoneIsNew DEF SendLeg
<1> QED BY <1>1, <1>2 DEF LegInv, SentTo

(* One leg of the running job at most is under way.                        *)
LEMMA QueueNext ==
    Local /\ LegInv /\ KindInv /\ ViewInv /\ QueueInv /\ [Next]_vars => QueueInv'
<1> SUFFICES ASSUME Local, LegInv, KindInv, ViewInv, QueueInv, [Next]_vars PROVE QueueInv'
  OBVIOUS
<1>0. QueueType /\ LoopType /\ ThreadType /\ WorkInv /\ ThreadInv
  BY TypeParts DEF Local
<1>1. ASSUME NEW i \in 1..Len(commands), IsLeg(commands[i]), commands[i].leg[1] = running'
      PROVE  /\ running' = running /\ Ours(commands[i].leg) /\ running \in Jobs
             /\ ~SendLeg(running) /\ thread'[running].at \notin {"check", "send"}
             /\ \A n \in (i + 1)..Len(commands) : ~IsLeg(commands[n])
  <2>1. Sent(commands[i].leg)
    BY <1>1 DEF LegInv, SentCommand
  <2>2. PICK leg : leg = commands[i].leg
    OBVIOUS
  <2>3. Ours(leg)'
    BY <1>1, <2>1, <2>2, NoneIsNew DEF Sent, Ours
  <2>4. running' = running /\ Ours(leg) /\ running \in Jobs
    BY <2>1, <2>2, <2>3, OursStays
  <2>5. /\ thread[running].at \notin {"check", "send"} /\ ~OnlyStops
        /\ \A n \in (i + 1)..Len(commands) : ~IsLeg(commands[n])
    BY <1>1, <2>2, <2>4 DEF QueueInv, OnlyStops
  <2>6. thread'[running].at \notin {"check", "send"}
    <3>1. CASE Aside
      BY <2>5, <3>1, AsideIs
    <3>2. ASSUME NEW j \in Jobs, Confirm(j) PROVE FALSE
      BY <2>4, <3>2, ConfirmIs, NoneIsNew
    <3>3. ASSUME NEW j \in Jobs, JobStep(j) PROVE thread'[running].at \notin {"check", "send"}
      <4>1. running = j /\ running # None
        BY <3>3, JobMoves
      <4>2. ~ToNextLeg(j)
        BY <2>5, <4>1, SavedIsAlone DEF ToNextLeg, Verify, QueueInv
      <4> QED BY <2>4, <2>5, <3>3, <4>1, <4>2, JobMoves DEF GoesOn
    <3> QED BY <3>1, <3>2, <3>3, StepsAre
  <2> QED BY <2>2, <2>4, <2>5, <2>6 DEF SendLeg
<1>2. ASSUME NEW i \in 1..Len(commands'), IsLeg(commands'[i]), commands'[i].leg[1] = running'
      PROVE  /\ \A n \in (i + 1)..Len(commands') : ~IsLeg(commands'[n])
             /\ thread'[running'].at \notin {"check", "send"}
  <2>1. CASE UNCHANGED commands
    BY <1>1, <1>2, <2>1
  <2>2. CASE Apply
    <3>1. /\ i + 1 \in 1..Len(commands) /\ commands'[i] = commands[i + 1]
          /\ \A n \in (i + 1)..Len(commands') :
                commands'[n] = commands[n + 1] /\ n + 1 \in (i + 2)..Len(commands)
      BY <1>0, <2>2, ApplyIs DEF QueueType
    <3> QED BY <1>1, <1>2, <3>1
  <2>3. ASSUME NEW j, commands' = Append(commands, StopCommand(j)) PROVE i \in 1..Len(commands)
    BY <1>0, <1>2, <2>3 DEF QueueType, StopCommand, IsLeg
  <2>4. ASSUME NEW j, commands' = Append(commands, StopCommand(j))
        PROVE  \A n \in (i + 1)..Len(commands') :
                  \/ ~IsLeg(commands'[n])
                  \/ n \in (i + 1)..Len(commands) /\ commands'[n] = commands[n]
    <3>1. /\ Len(commands') = Len(commands) + 1 /\ Len(commands) \in Nat
          /\ \A n \in 1..Len(commands) : commands'[n] = commands[n]
          /\ ~IsLeg(commands'[Len(commands) + 1])
      BY <1>0, <2>4 DEF QueueType, StopCommand, IsLeg
    <3> QED BY <1>2, <3>1
  <2>5. ASSUME NEW j, commands' = Append(commands, StopCommand(j))
        PROVE  /\ \A n \in (i + 1)..Len(commands') : ~IsLeg(commands'[n])
               /\ thread'[running'].at \notin {"check", "send"}
    <3>1. commands'[i] = commands[i]
      BY <1>0, <2>3, <2>5 DEF QueueType
    <3>2. /\ running' = running /\ thread'[running].at \notin {"check", "send"}
          /\ \A n \in (i + 1)..Len(commands) : ~IsLeg(commands[n])
      BY <1>1, <1>2, <2>3, <2>5, <3>1
    <3> QED BY <2>4, <2>5, <3>2
  <2>6. ASSUME NEW j \in Jobs, SendLeg(j), commands' = Append(commands, LegCommand(j))
        PROVE  /\ \A n \in (i + 1)..Len(commands') : ~IsLeg(commands'[n])
               /\ thread'[running'].at \notin {"check", "send"}
    <3>1. running = j /\ running' = running
      BY <2>6, StepIsRunning DEF SendLeg, Resting
    <3>2. i \notin 1..Len(commands)
      BY <1>0, <1>1, <1>2, <2>6, <3>1 DEF QueueType
    <3>3. (i + 1)..Len(commands') = {}
      BY <1>0, <2>6, <3>2 DEF QueueType
    <3>4. thread'[j].at = "react"
      BY <1>0, <2>6, GoIs DEF SendLeg
    <3> QED BY <3>1, <3>3, <3>4
  <2>7. CASE commands' = << >>
    BY <1>2, <2>7
  <2> QED BY <2>1, <2>2, <2>5, <2>6, <2>7, QueueStep
<1>3. ASSUME running' # None, thread'[running'].at = "react"
      PROVE  /\ Leg(running)' \in {ctl'.reaction.leg, seen'.reaction.leg} => OnlyStops'
             /\ seen'.reaction.leg = Leg(running)' =>
                   \/ ctl'.reaction = seen'.reaction
                   \/ ctl'.reaction.leg = None /\ ctl'.goal = None /\ ctl'.arrived = None
  <2>1. CASE SendLeg(running) /\ running \in Jobs /\ Leg(running)' = Leg(running) /\
             UNCHANGED <<ctl, seen>>
    BY <2>1, SendsNew
  <2>2. ASSUME Aside, running' = running, Leg(running)' = Leg(running),
               thread[running].at = "react"
        PROVE  /\ Leg(running) \in {ctl'.reaction.leg, seen'.reaction.leg} => OnlyStops'
               /\ seen'.reaction.leg = Leg(running) =>
                   \/ ctl'.reaction = seen'.reaction
                   \/ ctl'.reaction.leg = None /\ ctl'.goal = None /\ ctl'.arrived = None
    <3> DEFINE leg == Leg(running)
    <3>1. /\ leg \in {ctl.reaction.leg, seen.reaction.leg} => OnlyStops
          /\ seen.reaction.leg = leg =>
                \/ ctl.reaction = seen.reaction
                \/ ctl.reaction.leg = None /\ ctl.goal = None /\ ctl.arrived = None
      BY <1>3, <2>2 DEF QueueInv
    <3>2. running \in Jobs /\ leg[1] = running /\ leg # None
      BY <1>0, <1>3, <2>2, LegIsStep, NoneIsNew DEF LoopType, Leg
    <3>3. OnlyStops => OnlyStops'
      <4>1. OnlyStops /\ (\A j \in Jobs : ~SendLeg(j)) => OnlyStops'
        BY StopsStay
      <4>2. \A j \in Jobs : ~SendLeg(j)
        BY <2>2, <3>2, StepIsRunning DEF SendLeg, Resting
      <4> QED BY <4>1, <4>2
    <3>4. leg = Leg(running)
      OBVIOUS
    <3> HIDE DEF leg
    <3>5. CASE UNCHANGED <<ctl, seen>>
      BY <3>1, <3>3, <3>4, <3>5
    <3>6. CASE Apply /\ commands[1].kind = "stop"
      <4>1. ctl'.reaction = ctl.reaction /\ ctl'.goal \in {ctl.goal, None} /\ ctl'.arrived = ctl.arrived
        BY <3>6, ApplyIs DEF Outcome, Cancels, Refuses, Saves, TakesGoal, IsLeg
      <4>2. UNCHANGED seen
        BY <3>6 DEF Apply
      <4> QED BY <3>1, <3>3, <3>4, <4>1, <4>2
    <3>7. CASE Apply /\ commands[1].kind # "stop"
      <4>1. ctl'.reaction.leg = commands[1].leg /\ 1 \in 1..Len(commands) /\ UNCHANGED seen
        <5>1. Outcome(commands[1]) /\ UNCHANGED seen
          BY <3>7, ApplyIs DEF Apply
        <5>2. 1 \in 1..Len(commands)
          BY <1>0, <3>7, ApplyIs DEF QueueType
        <5>3. ctl'.reaction.leg = commands[1].leg
          BY <3>7, <5>1 DEF Outcome, Refuses, Saves, TakesGoal
        <5> QED BY <5>1, <5>2, <5>3
      <4>2. ~OnlyStops
        BY <3>7, <4>1 DEF OnlyStops, IsLeg
      <4>3. seen'.reaction.leg # leg
        BY <3>1, <4>1, <4>2
      <4>4. ASSUME leg = commands[1].leg PROVE OnlyStops'
        <5>1. \A n \in 2..Len(commands) : ~IsLeg(commands[n])
          BY <2>2, <3>2, <3>7, <4>1, <4>4, <1>1 DEF IsLeg
        <5> QED BY <1>0, <3>7, <5>1, ApplyIs DEF OnlyStops, IsLeg, QueueType
      <4> QED BY <3>4, <4>1, <4>3, <4>4
    <3>8. CASE Arrives /\ UNCHANGED seen
      BY <3>1, <3>3, <3>4, <3>8 DEF Arrives
    <3>9. CASE (Cancels("stand") \/ Cancels("fallen")) /\ UNCHANGED seen
      BY <3>1, <3>3, <3>4, <3>9 DEF Cancels
    <3>10. CASE Begins /\ UNCHANGED seen
      BY <3>1, <3>2, <3>3, <3>4, <3>10 DEF Begins, NoReactionYet
    <3>11. CASE UNCHANGED ctl /\ seen'.reaction = ctl.reaction
      BY <3>1, <3>3, <3>4, <3>11
    <3> QED BY <3>5, <3>6, <3>7, <3>8, <3>9, <3>10, <3>11, OthersIs, ControllerIs
  <2> QED BY <1>3, <2>1, <2>2, Remains
<1>4. ASSUME running' # None, thread'[running'].at = "wait"
      PROVE  OnlyStops' /\ Of(ctl, Leg(running))' /\ Of(seen, Leg(running))'
  <2>1. ASSUME Aside, running' = running, Leg(running)' = Leg(running),
               thread[running].at = "wait"
        PROVE  OnlyStops' /\ Of(ctl', Leg(running)) /\ Of(seen', Leg(running))
    <3> DEFINE leg == Leg(running)
    <3>1. OnlyStops /\ Of(ctl, leg) /\ Of(seen, leg)
      BY <1>4, <2>1 DEF QueueInv
    <3>2. OnlyStops'
      BY <2>1, <3>1, StopsStay, StepIsRunning DEF SendLeg, Resting
    <3>3. leg = Leg(running)
      OBVIOUS
    <3> HIDE DEF leg
    <3>4. CASE UNCHANGED <<ctl, seen>>
      BY <3>1, <3>2, <3>3, <3>4
    <3>5. CASE Apply
      <4>1. commands[1].kind = "stop"
        BY <1>0, <3>1, <3>5, ApplyIs DEF OnlyStops, IsLeg, QueueType
      <4>2. ctl'.goal \in {ctl.goal, None} /\ ctl'.arrived = ctl.arrived /\ UNCHANGED seen
        BY <3>5, <4>1, ApplyIs DEF Outcome, Cancels, Refuses, Saves, TakesGoal, IsLeg, Apply
      <4> QED BY <3>1, <3>2, <3>3, <4>2 DEF Of
    <3>6. CASE Arrives /\ UNCHANGED seen
      BY <3>1, <3>2, <3>3, <3>6 DEF Arrives, Of
    <3>7. CASE (Cancels("stand") \/ Cancels("fallen")) /\ UNCHANGED seen
      BY <3>1, <3>2, <3>3, <3>7 DEF Cancels, Of
    <3>8. CASE Begins /\ UNCHANGED seen
      BY <3>1, <3>2, <3>3, <3>8 DEF Begins, Of
    <3>9. CASE UNCHANGED ctl /\ seen'.goal = ctl.goal /\ seen'.arrived = ctl.arrived
      BY <3>1, <3>2, <3>3, <3>9 DEF Of
    <3> QED BY <3>4, <3>5, <3>6, <3>7, <3>8, <3>9, OthersIs, ControllerIs
  <2>2. ASSUME Applied(running), running \in Jobs
        PROVE  OnlyStops /\ Of(ctl, Leg(running)) /\ Of(seen, Leg(running))
    <3>1. /\ thread[running].at = "react" /\ Step(running) # "save_start"
          /\ seen.reaction.leg = Leg(running) /\ seen.reaction.ok /\ running # None
      BY <2>2, NoneIsNew DEF Applied, Accepted, Answered
    <3>2. /\ OnlyStops
          /\ \/ ctl.reaction = seen.reaction
             \/ ctl.reaction.leg = None /\ ctl.goal = None /\ ctl.arrived = None
      BY <3>1 DEF QueueInv
    <3>3. seen.reaction.start = None
      <4>1. Leg(running)[1] = running /\ Leg(running)[2] = thread[running].k /\ Leg(running) # None
        BY <2>2, <3>1, LegIsStep, NoneIsNew DEF Leg
      <4> QED BY <3>1, <4>1 DEF KindInv, KindReaction, Ours, Step
    <3>4. Of(seen, Leg(running))
      BY <3>1, <3>3 DEF ViewInv, ReactionInv
    <3>5. Of(ctl, Leg(running))
      BY <3>1, <3>2, <3>3 DEF ViewInv, ReactionInv, Of
    <3> QED BY <3>2, <3>4, <3>5
  <2>3. ASSUME running \in Jobs, thread[running].at = "wait"
        PROVE  OnlyStops /\ Of(ctl, Leg(running)) /\ Of(seen, Leg(running))
    BY <2>3, NoneIsNew DEF QueueInv
  <2>4. ASSUME running' = running, running \in Jobs, Leg(running)' = Leg(running),
               UNCHANGED <<ctl, seen>>, OnlyStops,
               Of(ctl, Leg(running)), Of(seen, Leg(running)),
               thread[running].at \in {"react", "wait"}
        PROVE  OnlyStops' /\ Of(ctl', Leg(running)) /\ Of(seen', Leg(running))
    BY <2>4, StopsStay, StepIsRunning DEF SendLeg, Resting
  <2>5. OnlyStops' /\ Of(ctl', Leg(running)) /\ Of(seen', Leg(running))
    BY <1>4, <2>1, <2>2, <2>3, <2>4, Remains DEF Applied
  <2>6. Leg(running)' = Leg(running)
    BY <1>4, Remains
  <2> QED BY <2>5, <2>6 DEF Of
<1> QED BY <1>2, <1>3, <1>4 DEF QueueInv, Ours, IsLeg

-----------------------------------------------------------------------------
(* A leg is credited with the arrival at its own goal: while a thread      *)
(* waits, the views hold no other.                                         *)
LEMMA ArrivalNext ==
    Local /\ QueueInv /\ ArrivalIsThisLegs /\ [Next]_vars => ArrivalIsThisLegs'
<1> SUFFICES ASSUME Local, QueueInv, ArrivalIsThisLegs, [Next]_vars, NEW i \in Jobs
             PROVE  thread'[i].claimed \in {None, Leg(i)'}
  BY DEF ArrivalIsThisLegs
<1>1. thread[i].claimed \in {None, Leg(i)}
  BY DEF ArrivalIsThisLegs
<1>2. ASSUME thread'[i] = thread[i] PROVE thread'[i].claimed \in {None, Leg(i)'}
  BY <1>1, <1>2 DEF Leg
<1>3. CASE Aside
  BY <1>2, <1>3, AsideIs
<1>4. ASSUME NEW j \in Jobs, Confirm(j) PROVE thread'[i].claimed \in {None, Leg(i)'}
  BY <1>2, <1>4, ConfirmIs
<1>5. ASSUME NEW j \in Jobs, JobStep(j) PROVE thread'[i].claimed \in {None, Leg(i)'}
  <2>1. CASE i # j
    BY <1>2, <1>5, <2>1, JobMoves
  <2>2. CASE i = j /\ GoesOn(j)
    <3>1. Claim(j) => thread'[j].claimed = seen.arrived
      BY TypeParts DEF Claim, Local, ThreadType, ThreadOf
    <3>2. Claim(j) => seen.arrived \in {None, Leg(j)}
      BY <1>5, JobMoves DEF Claim, QueueInv, Of
    <3> QED BY <1>1, <2>2, <3>1, <3>2 DEF GoesOn, Leg
  <2> QED BY <1>5, <2>1, <2>2, JobMoves DEF ToNextLeg
<1> QED BY <1>3, <1>4, <1>5, StepsAre

-----------------------------------------------------------------------------
(* A controller that is down or a robot that has fallen has no goal.       *)
RestInv ==
    /\ ~ctl.up => commands = << >> /\ ctl.goal = None
    /\ ctl.mode = "fallen" => ctl.goal = None

(* A robot that is down or has fallen takes no leg up.                     *)
LEMMA RestNext == Local /\ RestInv /\ [Next]_vars => RestInv'
<1> SUFFICES ASSUME Local, RestInv, [Next]_vars PROVE RestInv'
  OBVIOUS
<1>1. ctl.up => ctl.up = TRUE
  BY TypeParts DEF Local, RobotType, Robots
<1>2. CASE Apply
  <2>1. CASE ctl' = ctl
    BY <1>2, <2>1, ApplyIs DEF RestInv
  <2>2. CASE Cancels("stand")
    BY <1>2, <2>2, ApplyIs DEF RestInv, Cancels
  <2>3. CASE Refuses(commands[1])
    BY <1>2, <2>3, ApplyIs DEF RestInv, Refuses, Untouched
  <2>4. CASE Saves(commands[1])
    BY <1>2, <2>4, ApplyIs DEF RestInv, Saves, Untouched
  <2>5. CASE TakesGoal(commands[1])
    BY <1>2, <2>5, ApplyIs DEF RestInv, TakesGoal
  <2> QED BY <1>2, <2>1, <2>2, <2>3, <2>4, <2>5, ApplyIs DEF Outcome
<1>3. CASE Controller /\ ~Apply
  <2>1. CASE UNCHANGED commands /\ Arrives
    BY <2>1 DEF Arrives, RestInv
  <2>2. CASE UNCHANGED commands /\ (Cancels("stand") \/ Cancels("fallen"))
    BY <2>2 DEF Cancels, RestInv
  <2>3. CASE Begins /\ (commands' = << >> \/ ctl'.up)
    BY <2>3 DEF Begins, RestInv
  <2>4. CASE UNCHANGED <<commands, ctl>>
    BY <2>4 DEF RestInv
  <2> QED BY <1>3, <2>1, <2>2, <2>3, <2>4, ControllerIs
<1>4. CASE UNCHANGED ctl /\ ~Apply
  <2>1. ctl.up \/ UNCHANGED commands \/ commands' = << >>
    BY <1>4, QueueStep
  <2> QED BY <1>4, <2>1 DEF RestInv
<1> QED BY <1>2, <1>3, <1>4, OthersIs

-----------------------------------------------------------------------------
(* What a stop has caught: every leg of the job is canceled, has a stop    *)
(* behind it, or was sent when the stop had gone out.                      *)
Covered(j) ==
    /\ ctl.goal # None /\ ctl.goal[1] = j => StopBehind(0) \/ ctl.raced
    /\ \A i \in 1..Len(commands) :
          IsLeg(commands[i]) /\ commands[i].leg[1] = j => StopBehind(i) \/ commands[i].raced

StopInv ==
    /\ \A j \in Jobs : Over(j) => Covered(j)
    /\ running # None /\ (request = "sent" \/ running \in told) => Covered(running)

(* It stays caught when no leg of the job is sent that does not race.      *)
LEMMA CoveredStays ==
    ASSUME Local, RestInv, [Next]_vars, NEW j \in Jobs, Covered(j),
           SendLeg(j) => request = "sent" \/ j \in told
    PROVE  Covered(j)'
<1>0. QueueType
  BY TypeParts DEF Local
<1>1. \/ ctl'.goal = None
      \/ ctl'.goal = ctl.goal /\ ctl'.raced = ctl.raced
      \/ Apply
  BY OthersIs, ControllerIs DEF Arrives, Cancels, Begins
<1>2. CASE UNCHANGED commands
  <2>1. ~Apply
    BY <1>0, <1>2, ApplyIs DEF QueueType
  <2> QED BY <1>1, <1>2, <2>1 DEF Covered, StopBehind, IsLeg
<1>3. ASSUME NEW c, commands' = Append(commands, c), UNCHANGED ctl,
             IsLeg(c) /\ c.leg[1] = j => c.raced
      PROVE  Covered(j)'
  <2>1. /\ Len(commands) \in Nat /\ Len(commands') = Len(commands) + 1
        /\ \A i \in 1..Len(commands) : commands'[i] = commands[i]
        /\ commands'[Len(commands) + 1] = c
    BY <1>0, <1>3 DEF QueueType
  <2>2. ASSUME NEW i \in Nat, StopBehind(i) PROVE StopBehind(i)'
    BY <2>1, <2>2 DEF StopBehind
  <2>3. ASSUME ctl'.goal # None, ctl'.goal[1] = j PROVE StopBehind(0)' \/ ctl'.raced
    BY <1>3, <2>2, <2>3 DEF Covered
  <2>4. ASSUME NEW i \in 1..Len(commands'), IsLeg(commands'[i]), commands'[i].leg[1] = j
        PROVE  StopBehind(i)' \/ commands'[i].raced
    <3>1. CASE i \in 1..Len(commands)
      BY <2>1, <2>2, <2>4, <3>1 DEF Covered
    <3>2. CASE i = Len(commands) + 1
      BY <1>3, <2>1, <2>4, <3>2
    <3> QED BY <2>1, <3>1, <3>2
  <2> QED BY <2>3, <2>4 DEF Covered, IsLeg
<1>4. CASE Die /\ commands' = << >>
  <2>1. ctl'.goal = None
    BY <1>4 DEF Die, Standing
  <2> QED BY <1>4, <2>1 DEF Covered
<1>5. CASE Apply
  <2>1. /\ Len(commands) \in Nat /\ Len(commands) >= 1 /\ Len(commands') = Len(commands) - 1
        /\ \A i \in 1..Len(commands') : commands'[i] = commands[i + 1]
    BY <1>0, <1>5, ApplyIs DEF QueueType
  <2>2. ASSUME NEW i \in Nat, StopBehind(i + 1) PROVE StopBehind(i)'
    <3>1. PICK n \in (i + 2)..Len(commands) : commands[n].kind = "stop"
      BY <2>2 DEF StopBehind
    <3>2. n - 1 \in (i + 1)..Len(commands') /\ commands'[n - 1] = commands[n]
      BY <2>1, <3>1
    <3> QED BY <3>1, <3>2 DEF StopBehind
  <2>3. IsLeg(commands[1]) /\ StopBehind(0) => StopBehind(1)
    BY <2>1 DEF StopBehind, IsLeg
  <2>4. ASSUME ctl'.goal # None, ctl'.goal[1] = j PROVE StopBehind(0)' \/ ctl'.raced
    <3>1. CASE ctl' = ctl /\ ctl.mode = "fallen"
      BY <2>4, <3>1 DEF RestInv
    <3>2. CASE Cancels("stand")
      BY <2>4, <3>2 DEF Cancels
    <3>3. CASE Refuses(commands[1]) \/ Saves(commands[1])
      <4>1. ctl'.goal = ctl.goal /\ ctl'.raced = ctl.raced /\ IsLeg(commands[1])
        BY <3>3 DEF Refuses, Saves, Untouched, IsLeg
      <4>2. StopBehind(0) => StopBehind(0)'
        BY <2>2, <2>3, <4>1
      <4> QED BY <2>4, <4>1, <4>2 DEF Covered
    <3>4. CASE TakesGoal(commands[1])
      <4>1. ctl'.goal = commands[1].leg /\ ctl'.raced = commands[1].raced /\ IsLeg(commands[1])
        BY <3>4 DEF TakesGoal, IsLeg
      <4>2. StopBehind(1) \/ commands[1].raced
        BY <2>1, <2>4, <4>1 DEF Covered
      <4>3. StopBehind(1) => StopBehind(0)'
        BY <2>2
      <4> QED BY <4>1, <4>2, <4>3
    <3> QED BY <1>5, <3>1, <3>2, <3>3, <3>4, ApplyIs DEF Outcome
  <2>5. ASSUME NEW i \in 1..Len(commands'), IsLeg(commands'[i]), commands'[i].leg[1] = j
        PROVE  StopBehind(i)' \/ commands'[i].raced
    <3>1. i + 1 \in 1..Len(commands) /\ commands'[i] = commands[i + 1]
      BY <2>1
    <3>2. StopBehind(i + 1) \/ commands[i + 1].raced
      BY <2>5, <3>1 DEF Covered
    <3> QED BY <2>2, <3>1, <3>2
  <2> QED BY <2>4, <2>5 DEF Covered, IsLeg
<1>6. CASE StopSend /\ commands' = Append(commands, StopCommand(0))
  BY <1>3, <1>6 DEF StopSend, StopCommand, IsLeg
<1>7. ASSUME NEW i \in Jobs, Clean(i), commands' = Append(commands, StopCommand(i))
      PROVE  Covered(j)'
  BY <1>3, <1>7 DEF Clean, StopCommand, IsLeg, JobUnchanged
<1>8. ASSUME NEW i \in Jobs, SendLeg(i), commands' = Append(commands, LegCommand(i))
      PROVE  Covered(j)'
  <2>1. PICK c : c = LegCommand(i)
    OBVIOUS
  <2>2. c.leg[1] = j => c.raced
    BY <1>8, <2>1 DEF LegCommand, Leg
  <2> QED BY <1>3, <1>8, <2>1, <2>2 DEF SendLeg, JobUnchanged
<1> QED BY <1>2, <1>4, <1>5, <1>6, <1>7, <1>8, QueueStep

(* A stop that goes out catches every leg there is.                        *)
LEMMA StopCovers ==
    ASSUME Local, RestInv, NEW c \in CommandOf, c.kind = "stop", NEW j,
           commands' = Published(c), UNCHANGED ctl
    PROVE  Covered(j)'
<1>0. QueueType /\ ctl.up \in BOOLEAN
  BY TypeParts DEF Local, RobotType, Robots
<1>1. CASE ctl.up
  <2>1. /\ Len(commands) \in Nat /\ Len(commands') = Len(commands) + 1
        /\ commands'[Len(commands) + 1] = c
    BY <1>0, <1>1, PublishedIs DEF QueueType
  <2>2. ASSUME NEW i \in 0..Len(commands) PROVE StopBehind(i)'
    BY <2>1 DEF StopBehind
  <2>3. \A i \in 1..Len(commands') : IsLeg(commands'[i]) => i \in 0..Len(commands)
    BY <2>1 DEF IsLeg
  <2>4. StopBehind(0)'
    BY <2>1, <2>2
  <2> QED BY <2>2, <2>3, <2>4 DEF Covered, IsLeg
<1>2. CASE ~ctl.up
  <2>1. commands' = << >> /\ ctl'.goal = None
    BY <1>0, <1>2, PublishedIs DEF RestInv
  <2> QED BY <2>1 DEF Covered
<1> QED BY <1>0, <1>1, <1>2

(* What a stop has caught stays caught.                                    *)
LEMMA StopNext == Local /\ RestInv /\ StopInv /\ [Next]_vars => StopInv'
<1> SUFFICES ASSUME Local, RestInv, StopInv, [Next]_vars PROVE StopInv'
  OBVIOUS
<1>0. LoopType /\ ThreadType /\ WorkInv /\ ThreadInv
  BY TypeParts DEF Local
<1>1. ASSUME NEW j \in Jobs, Over(j)' PROVE Covered(j)'
  <2>1. CASE Over(j)
    <3>1. Covered(j) /\ ~SendLeg(j)
      BY <2>1 DEF StopInv, Over, SendLeg
    <3> QED BY <3>1, CoveredStays
  <2>2. CASE ~Over(j) /\ Verdict(j)
    <3>1. running = j /\ running # None
      BY <2>2, JobMoves DEF JobStep
    <3>2. thread'[j].at \in {"finish", "clean"}
      BY <1>0, <2>2, GoIs DEF Verdict
    <3>3. status'[j] = "stopped" \/ thread'[j].at = "clean" \/ status'[j] = "completed"
      BY <1>0, <2>2, GoIs, Zenon DEF Verdict, LoopType
    <3>4. j \in told
      <4>1. status'[j] = "stopped"
        BY <1>1, <3>3 DEF Over
      <4> QED BY <1>0, <2>2, <4>1 DEF Verdict, LoopType
    <3>5. Covered(j) /\ ~SendLeg(j)
      BY <2>2, <3>1, <3>4 DEF StopInv, Verdict, SendLeg
    <3> QED BY <3>5, CoveredStays
  <2>3. CASE Clean(j)
    <3>1. commands' = Published(StopCommand(j)) /\ UNCHANGED ctl
      BY <2>3 DEF Clean, Closed, JobUnchanged
    <3>2. StopCommand(j) \in CommandOf /\ StopCommand(j).kind = "stop"
      BY CommandType DEF StopCommand
    <3> QED BY <3>1, <3>2, StopCovers
  <2>4. Over(j) \/ Verdict(j) \/ Clean(j)
    <3>1. CASE status'[j] = status[j] /\ thread'[j].at = thread[j].at
      BY <1>1, <3>1 DEF Over
    <3>2. CASE Aside
      BY <3>1, <3>2, AsideIs
    <3>3. ASSUME NEW i \in Jobs, Confirm(i) PROVE Over(j)
      BY <1>1, <3>1, <3>3, ConfirmIs DEF Over
    <3>4. ASSUME NEW i \in Jobs, JobStep(i) PROVE Over(j) \/ Verdict(j) \/ Clean(j)
      <4>1. CASE i # j
        BY <3>1, <3>4, <4>1, JobMoves
      <4>2. ASSUME Check(j) \/ SendLeg(j) \/ Applied(j) \/ NoReaction(j) \/ WaitStopped(j)
                   \/ WaitFails(j)
            PROVE  thread'[j].at \in {"verdict", "send", "react", "wait", "clean"}
        BY <1>0, <4>2, GoIs DEF Check, SendLeg, Applied, NoReaction, WaitStopped, WaitFails
      <4>3. ASSUME Claim(j) PROVE thread'[j].at = "wait"
        BY <1>0, <4>3 DEF Claim, ThreadType, ThreadOf
      <4>4. ASSUME Saved(j) \/ Verify(j) PROVE thread'[j].at \in {"check", "verdict"}
        BY <1>0, <4>4, GoIs, NextLegIs, Zenon DEF Saved, Verify, NextLeg
      <4>5. ASSUME Finish(j) PROVE Over(j)
        BY <1>1, <4>5 DEF Finish, Over
      <4> QED BY <1>1, <3>4, <4>1, <4>2, <4>3, <4>4, <4>5, Zenon DEF JobStep, Over
    <3> QED BY <3>2, <3>3, <3>4, StepsAre
  <2> QED BY <2>1, <2>2, <2>3, <2>4
<1>2. ASSUME running' # None, request' = "sent" \/ running' \in told' PROVE Covered(running)'
  <2>1. PICK j : j = running'
    OBVIOUS
  <2>2. running' = running /\ (StopSend \/ request = "sent" \/ running \in told)
    <3>1. CASE Aside
      <4>1. running' = running
        BY <3>1, AsideIs
      <4>2. ASSUME NEW s \in Sessions, NEW intent \in Intents, Command(s, intent)
            PROVE  UNCHANGED <<request, told>>
        BY <4>2 DEF Command
      <4>3. ASSUME NEW i \in Jobs, Expire(i) PROVE UNCHANGED <<request, told>>
        BY <4>3 DEF Expire
      <4>4. Controller \/ UNCHANGED vars => UNCHANGED <<request, told>>
        BY ControllerFrame DEF RobotUnchanged, vars
      <4>5. ASSUME NEW s \in Sessions, StopTell(s) PROVE request = "sent"
        BY <4>5 DEF StopTell
      <4>6. StopSend \/ UNCHANGED <<request, told>> \/ request = "sent"
        BY <3>1, <4>2, <4>3, <4>4, <4>5 DEF Aside
      <4> QED BY <1>2, <4>1, <4>6
    <3>2. ASSUME NEW i \in Jobs, Confirm(i) PROVE FALSE
      BY <1>2, <3>2, ConfirmIs
    <3>3. ASSUME NEW i \in Jobs, JobStep(i)
          PROVE  running' = running /\ (request = "sent" \/ running \in told)
      <4>1. UNCHANGED <<request, running, told>>
        BY <1>2, <3>3, JobMoves DEF JobUnchanged, GoesOn, ToNextLeg
      <4> QED BY <1>2, <4>1
    <3> QED BY <3>1, <3>2, <3>3, StepsAre
  <2>3. j \in Jobs /\ j = running
    BY <1>0, <1>2, <2>1, <2>2 DEF LoopType
  <2>4. Covered(j)'
    <3>1. CASE StopSend
      <4>1. commands' = Published(StopCommand(0)) /\ UNCHANGED ctl
        BY <3>1 DEF StopSend
      <4>2. StopCommand(0) \in CommandOf /\ StopCommand(0).kind = "stop"
        BY <2>3, CommandType DEF StopCommand
      <4> QED BY <4>1, <4>2, StopCovers
    <3>2. CASE request = "sent" \/ running \in told
      <4>1. Covered(j)
        BY <1>2, <2>2, <2>3, <3>2 DEF StopInv
      <4> QED BY <2>3, <3>2, <4>1, CoveredStays
    <3> QED BY <2>2, <3>1, <3>2
  <2> QED BY <2>1, <2>4 DEF Covered, StopBehind, IsLeg
<1> QED BY <1>1, <1>2 DEF StopInv

-----------------------------------------------------------------------------
(* The closing stop of a job comes before anything of the next one.        *)
LEMMA ClosingNext ==
    Local /\ LegInv /\ ClosingStopIsOwn /\ [Next]_vars => ClosingStopIsOwn'
<1> SUFFICES ASSUME Local, LegInv, ClosingStopIsOwn, [Next]_vars, NEW n \in 1..Len(commands'),
                    commands'[n].kind = "stop", commands'[n].leg[1] # 0, running' # None,
                    running' # commands'[n].leg[1]
             PROVE  /\ ctl'.goal # None => ctl'.goal[1] # running'
                    /\ \A i \in 1..(n - 1) : commands'[i].leg[1] # running'
  BY DEF ClosingStopIsOwn
<1>0. QueueType /\ LoopType /\ ThreadInv
  BY TypeParts DEF Local
<1>1. ASSUME NEW m \in 1..Len(commands), commands[m].kind = "stop",
             running # None, running # commands[m].leg[1], commands[m].leg[1] # 0
      PROVE  /\ ctl.goal # None => ctl.goal[1] # running
             /\ \A i \in 1..(m - 1) : commands[i].leg[1] # running
  BY <1>1 DEF ClosingStopIsOwn
<1>2. CASE running' = running
  <2>1. CASE n \in 1..Len(commands) /\ commands'[n] = commands[n] /\
             (\A i \in 1..(n - 1) : commands'[i] = commands[i]) /\
             (ctl'.goal = None \/ ctl'.goal = ctl.goal)
    BY <1>1, <1>2, <2>1
  <2>2. ctl'.goal = None \/ ctl'.goal = ctl.goal \/ Apply
    BY OthersIs, ControllerIs DEF Arrives, Cancels, Begins
  <2>3. CASE UNCHANGED commands
    <3>1. ~Apply
      BY <1>0, <2>3, ApplyIs DEF QueueType
    <3> QED BY <2>1, <2>2, <2>3, <3>1
  <2>4. CASE commands' = << >>
    BY <2>4
  <2>5. CASE Apply
    <3>1. /\ 1 \in 1..Len(commands) /\ n + 1 \in 1..Len(commands) /\ commands'[n] = commands[n + 1]
          /\ \A i \in 1..(n - 1) : commands'[i] = commands[i + 1] /\ i + 1 \in 1..n
      BY <1>0, <2>5, ApplyIs DEF QueueType
    <3>2. /\ ctl.goal # None => ctl.goal[1] # running
          /\ \A i \in 1..n : commands[i].leg[1] # running
      <4>1. n + 1 - 1 = n
        OBVIOUS
      <4> QED BY <1>1, <1>2, <3>1, <4>1
    <3>3. ctl'.goal \in {None, ctl.goal, commands[1].leg}
      BY <2>5, ApplyIs DEF Outcome, Cancels, Refuses, Saves, Untouched, TakesGoal
    <3> QED BY <1>2, <3>1, <3>2, <3>3
  <2>6. ASSUME NEW c, commands' = Append(commands, c), ~Apply,
               c.kind = "stop" => c.leg[1] \in {0, running}
        PROVE  /\ ctl'.goal # None => ctl'.goal[1] # running'
               /\ \A i \in 1..(n - 1) : commands'[i].leg[1] # running'
    <3>1. n \in 1..Len(commands)
      BY <1>0, <1>2, <2>6 DEF QueueType
    <3>2. commands'[n] = commands[n] /\ \A i \in 1..(n - 1) : commands'[i] = commands[i]
      BY <1>0, <2>6, <3>1 DEF QueueType
    <3> QED BY <2>1, <2>2, <2>6, <3>1, <3>2
  <2>7. CASE StopSend /\ commands' = Append(commands, StopCommand(0))
    <3>1. ~Apply
      BY <1>0, <2>7, ApplyIs DEF QueueType
    <3> QED BY <2>6, <2>7, <3>1 DEF StopCommand
  <2>8. ASSUME NEW j \in Jobs, Clean(j), commands' = Append(commands, StopCommand(j))
        PROVE  /\ ctl'.goal # None => ctl'.goal[1] # running'
               /\ \A i \in 1..(n - 1) : commands'[i].leg[1] # running'
    <3>1. ~Apply /\ running = j
      BY <1>0, <2>8, ApplyIs, StepIsRunning DEF QueueType, Clean, Resting
    <3> QED BY <2>6, <2>8, <3>1 DEF StopCommand
  <2>9. ASSUME NEW j \in Jobs, SendLeg(j), commands' = Append(commands, LegCommand(j))
        PROVE  /\ ctl'.goal # None => ctl'.goal[1] # running'
               /\ \A i \in 1..(n - 1) : commands'[i].leg[1] # running'
    <3>1. ~Apply /\ LegCommand(j).kind # "stop"
      BY <1>0, <2>9, ApplyIs, LegIsStep DEF QueueType, SendLeg, LegCommand, StepKinds
    <3> QED BY <2>6, <2>9, <3>1
  <2> QED BY <2>3, <2>4, <2>5, <2>7, <2>8, <2>9, QueueStep
<1>3. CASE running' # running
  <2>1. PICK j \in Jobs : Confirm(j)
    BY <1>3, StepsAre, AsideIs, JobMoves DEF GoesOn, ToNextLeg
  <2>2. status[j] = "none" /\ running' = j /\ UNCHANGED <<commands, ctl>> /\ j \in Nat /\ j # 0
    BY <2>1, ConfirmIs, BoundsAssumption DEF Jobs
  <2>3. ctl.goal # None => ctl.goal[1] # j
    BY <2>2 DEF LegInv, SentTo, Sent
  <2>4. \A i \in 1..Len(commands) : commands[i].leg[1] # j
    BY <2>2 DEF LegInv, SentCommand, Sent
  <2> QED BY <1>0, <2>2, <2>3, <2>4 DEF QueueType
<1> QED BY <1>2, <1>3

-----------------------------------------------------------------------------
(* The inductive invariant.                                                *)
IInv ==
    /\ Local /\ LegInv /\ StartInv /\ KindInv /\ QueueInv /\ ViewInv /\ RestInv /\ StopInv
    /\ ArrivalIsThisLegs /\ ClosingStopIsOwn

(* The invariant holds at the start.                                       *)
LEMMA InitIInv == Init => IInv
<1> SUFFICES ASSUME Init PROVE IInv
  OBVIOUS
<1>1. /\ running = None /\ pending = {} /\ commands = << >> /\ request = "idle"
      /\ \A j \in Jobs : thread[j] = NoThread /\ status[j] = "none"
      /\ told = {} /\ Len(commands) = 0
  BY DEF Init
<1>2. /\ ctl.goal = None /\ ctl.arrived = None /\ ctl.reaction = NoReactionYet
      /\ ctl.mode = "stand" /\ ctl.up
      /\ seen.goal = None /\ seen.arrived = None /\ seen.reaction = NoReactionYet
  BY DEF Init, Standing, Shown
<1>3. NoReactionYet.leg = None /\ ~NoReactionYet.ok
  BY DEF NoReactionYet
<1>4. WorkInv
  BY <1>1 DEF WorkInv, Taken
<1>5. ThreadInv
  BY <1>1, NoneIsNew DEF ThreadInv, NoThread, Resting
<1>6. LegInv /\ StartInv /\ KindInv /\ QueueInv /\ ViewInv /\ RestInv
  BY <1>1, <1>2, <1>3
  DEF LegInv, SentTo, StartInv, KindInv, KindGoal, KindReaction, Ours, QueueInv, ViewInv,
      ReactionInv, Of, RestInv
<1>7. StopInv /\ ArrivalIsThisLegs /\ ClosingStopIsOwn
  BY <1>1, <1>2 DEF StopInv, Over, ArrivalIsThisLegs, ClosingStopIsOwn, NoThread
<1> QED BY <1>4, <1>5, <1>6, <1>7, InitType DEF IInv, Local

(* Every step keeps the invariant.                                         *)
LEMMA NextIInv == IInv /\ [Next]_vars => IInv'
<1>1. TypeOK' /\ WorkInv' /\ ThreadInv' => Local'
  BY DEF Local
<1> QED BY <1>1, NextType, WorkNext, ThreadNext, LegNext, StartNext, KindNext, QueueNext,
           ViewNext, RestNext, StopNext, ArrivalNext, ClosingNext DEF IInv

(* The invariant holds always.                                             *)
LEMMA Inductive == Spec => []IInv
  BY InitIInv, NextIInv, PTL DEF Spec

(* Every variable keeps to its type, for any number of sessions, jobs,     *)
(* stops and faults.                                                       *)
THEOREM TypeCorrect == Spec => []TypeOK
<1>1. IInv => TypeOK
  BY DEF IInv, Local
<1> QED BY <1>1, Inductive, PTL

(* A card and a goal to walk back name the start that the session's last   *)
(* job saved.                                                              *)
THEOREM WalksBackToOwnStart == Spec => []ReturnsToOwnStart
<1>1. IInv => ReturnsToOwnStart
  <2> SUFFICES ASSUME IInv PROVE ReturnsToOwnStart
    OBVIOUS
  <2>1. ASSUME NEW c \in pending, work[c].start # None
        PROVE  work[c].start = lastStart[work[c].session]
    BY <2>1 DEF IInv, Local, WorkInv, Taken
  <2>2. ASSUME ctl.goal # None, ctl.goal[1] = running, IsReturn(ctl.goal)
        PROVE  ctl.start = lastStart[work[running].session]
    BY <2>2 DEF IInv, KindInv, KindGoal, Ours, Own
  <2> QED BY <2>1, <2>2 DEF ReturnsToOwnStart
<1> QED BY <1>1, Inductive, PTL

(* The arrival that a leg is credited with is the arrival at its own goal. *)
THEOREM ArrivalCorrect == Spec => []ArrivalIsThisLegs
<1>1. IInv => ArrivalIsThisLegs
  BY DEF IInv
<1> QED BY <1>1, Inductive, PTL

(* A leg of a stopped or failed job that is neither canceled nor has a     *)
(* stop behind it was sent when the stop had gone out.                     *)
THEOREM StopLeavesRacedLegs == Spec => []OnlyRacedLegsSurvive
<1>1. IInv => OnlyRacedLegsSurvive
  <2> SUFFICES ASSUME IInv PROVE OnlyRacedLegsSurvive
    OBVIOUS
  <2>1. \A j \in Jobs : Over(j) => Covered(j)
    BY DEF IInv, StopInv
  <2>2. ctl.goal # None => ctl.goal[1] \in Jobs
    BY DEF IInv, LegInv, SentTo, Sent, Legs
  <2>3. ASSUME NEW i \in 1..Len(commands), commands[i].kind \in {"goto", "return"}
        PROVE  IsLeg(commands[i]) /\ commands[i].leg[1] \in Jobs
    BY <2>3 DEF IInv, LegInv, SentCommand, Sent, IsLeg, Legs
  <2> QED BY <2>1, <2>2, <2>3 DEF OnlyRacedLegsSurvive, Covered
<1> QED BY <1>1, Inductive, PTL

(* The closing stop of a failed job cancels no leg of the next one.        *)
THEOREM ClosingCorrect == Spec => []ClosingStopIsOwn
<1>1. IInv => ClosingStopIsOwn
  BY DEF IInv
<1> QED BY <1>1, Inductive, PTL
=============================================================================
