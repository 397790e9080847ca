--------------------------- MODULE SttStream_proofs ---------------------------
(* For any policy with speech_start_sec below WAKE_PREROLL_SEC and this no *)
(* longer than WAKE_IDLE_RESET_SEC, any number of frames, aborts and slots *)
(* and any judgement of the VAD: an utterance is new and in order, and a   *)
(* reset in a long silence cuts off no beginning of a speech.              *)
EXTENDS SttStream, TLAPS

(* The frames of s follow each other, and the last of them is last.        *)
UpTo(s, last) == \A i \in 1..Len(s) : s[i] = last - Len(s) + i

After(s, frame) == \A i \in 1..Len(s) : s[i] > frame

(* What was received and not yet fed comes after what was fed, and that    *)
(* after what was transcribed or thrown away.                              *)
Numbered ==
    /\ wake => UpTo(recent, received)
    /\ UpTo(pending, received)
    /\ After(pending, heard)
    /\ heard <= received
    /\ ~Over => /\ UpTo(session.audio, received - Len(pending))
                /\ After(session.audio, heard)

(* A message is taken when all frames are fed; a transcription is one of   *)
(* frames, and has its slot while it is waited for.                        *)
Staged ==
    /\ phase = "receive" => pending = <<>>
    /\ phase = "feed" => pending # <<>>
    /\ phase \in {"submit", "wait"} => ~Over /\ session.audio # <<>>
    /\ phase = "wait" => inflight > 0
    /\ session.speechSeen => session.audio # <<>>

(* The last frames are kept: as many as the utterance has, or all that     *)
(* are to be fed again.                                                    *)
Kept ==
    wake => /\ Len(recent) >= Len(pending)
            /\ \/ Over
               \/ Len(recent) = Preroll
               \/ Len(recent) >= Len(session.audio) + Len(pending)

(* While the session listens a voice is shorter than a speech.             *)
Vad ==
    /\ session.audio = <<>> => session.run = "none"
    /\ session.state = "listening" =>
           /\ ~session.speaking
           /\ session.run = "voice" =>
                  /\ session.runStart \in 1..Len(session.audio)
                  /\ RunLength(session) < StartLen

IInv == TypeOK /\ Numbered /\ Staged /\ Kept /\ Vad

-----------------------------------------------------------------------------
(* Sequences of frames that follow each other.                             *)

(* The next frame.                                                         *)
LEMMA AppendUpTo ==
    ASSUME NEW s \in Seq(Frames), NEW last \in Int, UpTo(s, last),
           NEW f \in Frames, f = last + 1
    PROVE  /\ Append(s, f) \in Seq(Frames)
           /\ Len(Append(s, f)) = Len(s) + 1
           /\ Append(s, f) # <<>>
           /\ UpTo(Append(s, f), f)
<1>1. /\ Append(s, f) \in Seq(Frames) /\ Len(Append(s, f)) = Len(s) + 1
      /\ \A i \in 1..Len(s) : Append(s, f)[i] = s[i]
      /\ Append(s, f)[Len(s) + 1] = f
  OBVIOUS
<1>2. ASSUME NEW i \in 1..Len(s) + 1
      PROVE  Append(s, f)[i] = f - (Len(s) + 1) + i
  <2>1. CASE i = Len(s) + 1
    BY <1>1, <2>1
  <2>2. CASE i \in 1..Len(s)
    <3>1. Append(s, f)[i] = last - Len(s) + i
      BY <1>1, <2>2 DEF UpTo
    <3> QED BY <3>1, <2>2
  <2> QED BY <2>1, <2>2
<1> QED BY <1>1, <1>2 DEF UpTo

(* The last n of them.                                                     *)
LEMMA LastOfUpTo ==
    ASSUME NEW s \in Seq(Frames), NEW last \in Int, UpTo(s, last),
           NEW n \in Nat
    PROVE  /\ LastOf(s, n) \in Seq(Frames)
           /\ Len(LastOf(s, n)) = IF Len(s) <= n THEN Len(s) ELSE n
           /\ UpTo(LastOf(s, n), last)
<1>1. CASE Len(s) <= n
  BY <1>1 DEF LastOf
<1>2. CASE ~(Len(s) <= n)
  <2> DEFINE t == SubSeq(s, Len(s) - n + 1, Len(s))
  <2>1. LastOf(s, n) = t
    BY <1>2 DEF LastOf
  <2>2. /\ t \in Seq(Frames) /\ Len(t) = n
        /\ \A i \in 1..n : t[i] = s[Len(s) - n + i]
    BY <1>2
  <2>3. ASSUME NEW i \in 1..n
        PROVE  t[i] = last - n + i
    <3>1. Len(s) - n + i \in 1..Len(s)
      BY <1>2
    <3>2. s[Len(s) - n + i] = last - Len(s) + (Len(s) - n + i)
      BY <3>1 DEF UpTo
    <3> QED BY <2>2, <3>2
  <2>4. UpTo(t, last)
    BY <2>2, <2>3 DEF UpTo
  <2> QED BY <1>2, <2>1, <2>2, <2>4
<1> QED BY <1>1, <1>2

(* All but the last.                                                       *)
LEMMA FrontUpTo ==
    ASSUME NEW s \in Seq(Frames), s # <<>>, NEW last \in Int, UpTo(s, last)
    PROVE  /\ Front(s) \in Seq(Frames)
           /\ Len(Front(s)) = Len(s) - 1
           /\ UpTo(Front(s), last - 1)
<1> DEFINE n == Len(s) - 1
<1>a. n \in Nat /\ n <= Len(s) /\ Front(s) = SubSeq(s, 1, n)
  BY DEF Front
<1>b. /\ SubSeq(s, 1, n) \in Seq(Frames)
      /\ Len(SubSeq(s, 1, n)) = n
      /\ \A i \in 1..n : SubSeq(s, 1, n)[i] = s[i]
  <2> HIDE DEF n
  <2> QED BY <1>a
<1>1. /\ Front(s) \in Seq(Frames) /\ Len(Front(s)) = Len(s) - 1
      /\ \A i \in 1..Len(s) - 1 : Front(s)[i] = s[i]
  BY <1>a, <1>b
<1>2. ASSUME NEW i \in 1..Len(s) - 1
      PROVE  Front(s)[i] = (last - 1) - (Len(s) - 1) + i
  BY <1>1 DEF UpTo
<1> QED BY <1>1, <1>2 DEF UpTo

(* The first one, and the rest of them.                                    *)
LEMMA TailUpTo ==
    ASSUME NEW s \in Seq(Frames), s # <<>>, NEW last \in Int, UpTo(s, last)
    PROVE  /\ Head(s) \in Frames /\ Head(s) = last - Len(s) + 1
           /\ Tail(s) \in Seq(Frames)
           /\ Len(Tail(s)) = Len(s) - 1
           /\ UpTo(Tail(s), last)
<1>1. /\ Head(s) = s[1] /\ Len(s) >= 1 /\ Head(s) \in Frames
      /\ Tail(s) \in Seq(Frames) /\ Len(Tail(s)) = Len(s) - 1
      /\ \A i \in 1..Len(s) - 1 : Tail(s)[i] = s[i + 1]
  OBVIOUS
<1>2. Head(s) = last - Len(s) + 1
  BY <1>1 DEF UpTo
<1>3. ASSUME NEW i \in 1..Len(s) - 1
      PROVE  Tail(s)[i] = last - (Len(s) - 1) + i
  BY <1>1 DEF UpTo
<1> QED BY <1>1, <1>2, <1>3 DEF UpTo

(* The last one alone.                                                     *)
LEMMA LastUpTo ==
    ASSUME NEW s \in Seq(Frames), s # <<>>, NEW last \in Int, UpTo(s, last)
    PROVE  /\ Last(s) \in Frames /\ Last(s) = last
           /\ UpTo(<<Last(s)>>, last)
<1>1. Last(s) \in Frames /\ Last(s) = last
  BY DEF Last, UpTo
<1> QED BY <1>1 DEF UpTo

-----------------------------------------------------------------------------
(* A frame is fed.                                                         *)

(* What a session holds.                                                   *)
LEMMA SessionFields ==
    ASSUME NEW s \in Sessions
    PROVE  /\ s.state \in States /\ s.audio \in Seq(Frames)
           /\ s.speechSeen \in BOOLEAN /\ s.speaking \in BOOLEAN
           /\ s.run \in {"none", "voice", "silence"}
           /\ s.runStart \in 0..MaxAudio /\ s.window \in 0..MaxAudio
  BY DEF Sessions

(* A new session is one, and hears nothing.                                *)
LEMMA NewSessionIs ==
    /\ NewSession \in Sessions
    /\ NewSession.audio = <<>> /\ NewSession.state = "listening"
    /\ NewSession.speechSeen = FALSE /\ NewSession.speaking = FALSE
    /\ NewSession.run = "none"
  BY PolicyAssumption DEF NewSession, Sessions, States

(* A closed session keeps the rest.                                        *)
LEMMA ClosedIs ==
    ASSUME NEW s \in Sessions
    PROVE  /\ Closed(s) \in Sessions
           /\ Closed(s).state = "closed"
           /\ Closed(s).audio = s.audio /\ Closed(s).run = s.run
           /\ Closed(s).speechSeen = s.speechSeen
  BY DEF Closed, Sessions, States

(* The session with the frame, and the run the frame continues or begins.  *)
LEMMA ObservedIs ==
    ASSUME TypeOK, ~TooLong, NEW f \in Frames, NEW voice \in BOOLEAN
    PROVE  LET s == Observed(f, voice) IN
           /\ s \in Sessions
           /\ s.audio = Append(session.audio, f)
           /\ s.state = session.state /\ s.speaking = session.speaking
           /\ s.run = IF voice THEN "voice" ELSE "silence"
           /\ s.runStart = IF s.run = session.run THEN session.runStart
                                                  ELSE Len(s.audio)
<1> DEFINE p == [session EXCEPT !.audio = Append(@, f),
                                !.speechSeen = @ \/ voice]
           sort == IF voice THEN "voice" ELSE "silence"
           q == [p EXCEPT !.run = sort, !.runStart = Len(p.audio)]
<1>1. session \in Sessions /\ Len(session.audio) <= MaxAudio /\ Len(session.audio) # MaxAudio
  BY DEF TypeOK, TooLong
<1>2. /\ Append(session.audio, f) \in Seq(Frames)
      /\ Len(Append(session.audio, f)) \in 0..MaxAudio
  BY <1>1, SessionFields, PolicyAssumption
<1>3. (session.speechSeen \/ voice) \in BOOLEAN
  OBVIOUS
<1>4. /\ p \in Sessions
      /\ p.audio = Append(session.audio, f)
      /\ p.state = session.state /\ p.speaking = session.speaking
      /\ p.run = session.run /\ p.runStart = session.runStart
  <2> DEFINE heardSo == session.speechSeen \/ voice
  <2>1. heardSo \in BOOLEAN
    BY <1>3
  <2>2. p = [session EXCEPT !.audio = Append(session.audio, f), !.speechSeen = heardSo]
    BY <1>1 DEF Sessions
  <2> HIDE DEF heardSo, p
  <2> QED BY <1>1, <1>2, <2>1, <2>2 DEF Sessions
<1>5. sort \in {"voice", "silence"}
  OBVIOUS
<1>6. /\ q \in Sessions
      /\ q.audio = p.audio
      /\ q.state = p.state /\ q.speaking = p.speaking
      /\ q.run = sort /\ q.runStart = Len(p.audio)
  <2> HIDE DEF sort, p
  <2> QED BY <1>2, <1>4, <1>5 DEF Sessions
<1>7. Observed(f, voice) = IF p.run = sort THEN p ELSE q
  BY Zenon DEF Observed, RunAfter
<1> HIDE DEF p, q
<1> QED BY <1>4, <1>6, <1>7

(* feed_audio() takes the frame, or closes the session that is too long.   *)
LEMMA FeedAudioDoes ==
    ASSUME TypeOK, Vad, Accepts(session), NEW f \in Frames, FeedAudio(f)
    PROVE  /\ session' \in Sessions /\ Len(session'.audio) <= MaxAudio
           /\ purpose' \in {"partial", "final"}
           /\ \/ /\ session'.state = "closed" /\ session'.audio = session.audio
                 /\ session'.run = session.run
                 /\ session'.speechSeen = session.speechSeen
                 /\ session'.audio # <<>>
                 /\ heard' = f /\ phase' = "emit"
              \/ /\ session'.state # "closed"
                 /\ session'.audio = Append(session.audio, f)
                 /\ heard' = heard /\ phase' \in {"emit", "submit"}
           /\ Vad'
<1>0. session \in Sessions /\ Len(session.audio) <= MaxAudio
      /\ purpose \in {"partial", "final"}
  BY DEF TypeOK
<1>1. CASE TooLong /\ Reply(Closed(session)) /\ heard' = f
  <2>1. session' = Closed(session) /\ phase' = "emit" /\ purpose' = purpose
    BY <1>1 DEF Reply
  <2>2. session.audio # <<>>
    BY <1>1, PolicyAssumption DEF TooLong
  <2> QED BY <1>0, <1>1, <2>1, <2>2, ClosedIs DEF Vad
<1>2. CASE ~TooLong /\ heard' = heard /\ ~(TooLong /\ Reply(Closed(session)) /\ heard' = f)
  <2>1. PICK voice \in BOOLEAN :
            LET s == Observed(f, voice)
                at == Len(s.audio) IN
            \/ /\ Begins(s)
               /\ MaybePartial([s EXCEPT !.speaking = TRUE, !.runStart = at,
                                         !.state = "speaking"])
            \/ /\ Ends(s)
               /\ Transcribe("final", [s EXCEPT !.speaking = FALSE,
                                                !.runStart = at,
                                                !.state = "finalizing"])
            \/ /\ ~Begins(s) /\ ~Ends(s)
               /\ MaybePartial(s)
    BY <1>2 DEF FeedAudio
  <2> DEFINE s == Observed(f, voice)
             b == [s EXCEPT !.speaking = TRUE, !.runStart = Len(s.audio),
                            !.state = "speaking"]
             e == [s EXCEPT !.speaking = FALSE, !.runStart = Len(s.audio),
                            !.state = "finalizing"]
  <2>2. /\ s \in Sessions
        /\ s.audio = Append(session.audio, f)
        /\ s.state = session.state /\ s.speaking = session.speaking
        /\ s.run \in {"voice", "silence"}
        /\ s.runStart = IF s.run = session.run THEN session.runStart
                                               ELSE Len(s.audio)
    BY <1>2, ObservedIs
  <2>3. /\ Len(s.audio) = Len(session.audio) + 1 /\ Len(s.audio) \in 0..MaxAudio
        /\ s.audio # <<>>
    BY <1>0, <1>2, <2>2, SessionFields, PolicyAssumption DEF TooLong
  <2> HIDE DEF s
  <2>4. /\ b \in Sessions /\ b.audio = s.audio /\ b.state = "speaking" /\ b.run = s.run
        /\ e \in Sessions /\ e.audio = s.audio /\ e.state = "finalizing" /\ e.run = s.run
    BY <2>2, <2>3 DEF Sessions, States
  <2>5. s.state \in {"listening", "speaking"}
    BY <2>2 DEF Accepts
  <2>6. ASSUME NEW r \in Sessions, r.audio = s.audio, r.run = s.run,
               r.state \in {"listening", "speaking"},
               r.state = "listening" =>
                   /\ ~r.speaking
                   /\ r.run = "voice" => /\ r.runStart \in 1..Len(r.audio)
                                         /\ RunLength(r) < StartLen,
               MaybePartial(r)
        PROVE  /\ session' \in Sessions /\ Len(session'.audio) <= MaxAudio
               /\ purpose' \in {"partial", "final"}
               /\ session'.state # "closed"
               /\ session'.audio = Append(session.audio, f)
               /\ phase' \in {"emit", "submit"}
               /\ Vad'
    <3>1. CASE r.state = "speaking" /\ WindowDue(r)
      <4>1. /\ session' = [r EXCEPT !.window = Len(r.audio)]
            /\ purpose' = "partial" /\ phase' = "submit"
        BY <2>6, <3>1 DEF MaybePartial, Transcribe
      <4>2. session' \in Sessions /\ session'.audio = r.audio /\ session'.state = "speaking"
        BY <2>3, <2>6, <3>1, <4>1 DEF Sessions
      <4> QED BY <2>2, <2>3, <2>6, <4>1, <4>2 DEF Vad
    <3>2. CASE ~(r.state = "speaking" /\ WindowDue(r))
      <4>1. session' = r /\ phase' = "emit" /\ purpose' = purpose
        BY <2>6, <3>2 DEF MaybePartial, Reply
      <4>2. Vad'
        BY <2>3, <2>6, <4>1 DEF Vad
      <4> QED BY <1>0, <2>2, <2>3, <2>6, <4>1, <4>2
    <3> QED BY <3>1, <3>2
  <2>7. CASE Begins(s) /\ MaybePartial(b)
    BY <1>2, <2>4, <2>6, <2>7
  <2>8. CASE Ends(s) /\ Transcribe("final", e)
    <3>1. session' = e /\ phase' = "submit" /\ purpose' = "final"
      BY <2>8 DEF Transcribe
    <3>2. Vad'
      BY <2>3, <2>4, <3>1 DEF Vad
    <3> QED BY <1>2, <2>2, <2>3, <2>4, <3>1, <3>2
  <2>9. CASE ~Begins(s) /\ ~Ends(s) /\ MaybePartial(s)
    <3>1. ASSUME s.state = "listening"
          PROVE  /\ ~s.speaking
                 /\ s.run = "voice" => /\ s.runStart \in 1..Len(s.audio)
                                       /\ RunLength(s) < StartLen
      <4>1. ~session.speaking /\ ~s.speaking
        BY <2>2, <3>1 DEF Vad
      <4>2. ASSUME s.run = "voice"
            PROVE  s.runStart \in 1..Len(s.audio)
        BY <2>2, <2>3, <3>1, <4>2, <1>0, SessionFields DEF Vad
      <4>3. ASSUME s.run = "voice"
            PROVE  RunLength(s) < StartLen
        <5>1. ~(RunLength(s) >= StartLen)
          BY <2>9, <4>1, <4>3 DEF Begins
        <5>2. RunLength(s) \in Int
          BY <2>2, <2>3 DEF RunLength, Sessions
        <5> QED BY <5>1, <5>2, PolicyAssumption, WakeAssumption
      <4> QED BY <4>1, <4>2, <4>3
    <3> QED BY <1>2, <2>2, <2>5, <2>6, <2>9, <3>1
  <2> QED BY <2>1, <2>7, <2>8, <2>9 DEF s
<1> QED BY <1>1, <1>2 DEF FeedAudio

-----------------------------------------------------------------------------
(* The invariant is inductive.                                             *)

(* An empty sequence is up to any frame.                                   *)
LEMMA EmptyUpTo ==
    /\ <<>> \in Seq(Frames) /\ Len(<<>>) = 0
    /\ \A last \in Int : UpTo(<<>>, last) /\ After(<<>>, last)
  BY DEF UpTo, After

(* The socket opens.                                                       *)
LEMMA InitInv == Init => IInv
<1> SUFFICES ASSUME Init PROVE IInv
  OBVIOUS
<1>1. TypeOK
  BY NewSessionIs, EmptyUpTo, PolicyAssumption, WakeAssumption, BoundsAssumption
  DEF Init, TypeOK
<1>2. Numbered
  BY NewSessionIs, EmptyUpTo DEF Init, Numbered
<1>3. Staged
  BY NewSessionIs DEF Init, Staged
<1>4. Kept
  BY NewSessionIs, EmptyUpTo DEF Init, Kept
<1>5. Vad
  BY NewSessionIs, EmptyUpTo DEF Init, Vad
<1> QED BY <1>1, <1>2, <1>3, <1>4, <1>5 DEF IInv

(* The frames kept for the next utterance, with the one that has come.     *)
LEMMA KeptFrames ==
    ASSUME IInv, wake, NEW f \in Frames, f = received + 1,
           NEW kept, kept = LastOf(Append(recent, f), Preroll)
    PROVE  /\ kept \in Seq(Frames) /\ kept # <<>> /\ UpTo(kept, f)
           /\ Len(kept) = IF Len(recent) < Preroll THEN Len(recent) + 1 ELSE Preroll
           /\ Front(kept) \in Seq(Frames) /\ UpTo(Front(kept), received)
           /\ Len(Front(kept)) = Len(kept) - 1
           /\ Append(Front(kept), f) \in Seq(Frames)
           /\ Len(Append(Front(kept), f)) = Len(kept)
           /\ UpTo(Append(Front(kept), f), f)
<1> DEFINE all == Append(recent, f)
<1>1. received \in Nat /\ recent \in Seq(Frames) /\ Len(recent) <= Preroll
      /\ UpTo(recent, received) /\ Preroll \in Nat /\ Preroll > 0
  BY WakeAssumption, PolicyAssumption, BoundsAssumption DEF IInv, TypeOK, Numbered
<1>2. all \in Seq(Frames) /\ Len(all) = Len(recent) + 1 /\ UpTo(all, f)
  BY <1>1, AppendUpTo
<1>3. f \in Int
  BY DEF Frames
<1>0. kept = LastOf(all, Preroll)
  BY DEF all
<1> HIDE DEF all
<1>4. /\ kept \in Seq(Frames) /\ UpTo(kept, f)
      /\ Len(kept) = IF Len(all) <= Preroll THEN Len(all) ELSE Preroll
  BY <1>0, <1>1, <1>2, <1>3, LastOfUpTo
<1>5. Len(kept) = IF Len(recent) < Preroll THEN Len(recent) + 1 ELSE Preroll
  BY <1>1, <1>2, <1>4
<1>6. kept # <<>>
  BY <1>1, <1>5
<1>7. /\ Front(kept) \in Seq(Frames) /\ UpTo(Front(kept), f - 1)
      /\ Len(Front(kept)) = Len(kept) - 1
  BY <1>3, <1>4, <1>6, FrontUpTo
<1>8. f - 1 = received
  BY <1>1
<1>9. /\ Append(Front(kept), f) \in Seq(Frames)
      /\ Len(Append(Front(kept), f)) = Len(Front(kept)) + 1
      /\ UpTo(Append(Front(kept), f), f)
  BY <1>1, <1>7, <1>8, AppendUpTo
<1>10. Len(Front(kept)) + 1 = Len(kept)
  BY <1>4, <1>7
<1> QED BY <1>4, <1>5, <1>6, <1>7, <1>8, <1>9, <1>10 DEF all

(* A single frame.                                                         *)
LEMMA OneUpTo ==
    ASSUME NEW f \in Frames
    PROVE  <<f>> \in Seq(Frames) /\ Len(<<f>>) = 1 /\ <<f>> # <<>> /\ UpTo(<<f>>, f)
  BY DEF UpTo, Frames

(* The session that is thrown away in a silence is longer than what is fed *)
(* again, and all of it is new.                                            *)
LEMMA IdleFrames ==
    ASSUME IInv, phase = "receive", IdleTooLong
    PROVE  /\ Len(session.audio) > Preroll
           /\ UpTo(session.audio, received)
           /\ heard < received - Preroll + 1
<1>1. /\ session.audio \in Seq(Frames) /\ session.state = "listening"
      /\ Len(session.audio) > Preroll /\ Preroll \in Nat
  BY SessionFields, WakeAssumption DEF IInv, TypeOK, IdleTooLong
<1>2. /\ Len(pending) = 0 /\ received \in Nat /\ heard \in Nat
  BY DEF IInv, TypeOK, Staged
<1>3. UpTo(session.audio, received - Len(pending)) /\ After(session.audio, heard)
  BY <1>1 DEF IInv, Numbered, Over
<1>4. UpTo(session.audio, received)
  BY <1>2, <1>3
<1>5. /\ Len(session.audio) \in Nat /\ 1 \in 1..Len(session.audio)
  BY <1>1
<1>6. session.audio[1] = received - Len(session.audio) + 1 /\ session.audio[1] > heard
  BY <1>3, <1>4, <1>5 DEF UpTo, After
<1>7. heard < received - Len(session.audio) + 1
  BY <1>6
<1>8. heard < received - Preroll + 1
  <2> DEFINE n == Len(session.audio)
  <2>1. n \in Nat /\ n > Preroll /\ heard < received - n + 1
    BY <1>1, <1>5, <1>7
  <2>2. Preroll \in Nat /\ received \in Nat /\ heard \in Nat
    BY <1>1, <1>2
  <2> HIDE DEF n
  <2> QED BY <2>1, <2>2
<1> QED BY <1>1, <1>4, <1>8

(* Frames up to a last one are after whatever is before the first of them. *)
LEMMA AfterFirst ==
    ASSUME NEW s \in Seq(Frames), NEW last \in Int, UpTo(s, last),
           NEW frame \in Int, frame < last - Len(s) + 1
    PROVE  After(s, frame)
  BY DEF UpTo, After

(* A frame comes in.                                                       *)
LEMMA ReceiveFrameInv == ASSUME IInv, ReceiveFrame PROVE IInv'
<1> DEFINE f == received + 1
           kept == LastOf(Append(recent, f), Preroll)
<1>1. /\ f \in Frames /\ f \in Int /\ received' = f /\ received \in Nat
      /\ heard' = heard /\ heard \in Nat /\ heard < f /\ f \in 0..MaxFrames
  BY BoundsAssumption DEF IInv, TypeOK, Numbered, ReceiveFrame, Frames
<1>2. pending = <<>> /\ phase = "receive" /\ Len(pending) = 0
  BY DEF ReceiveFrame, IInv, Staged
<1>3. UNCHANGED <<wake, epoch, purpose, inflight, heard>>
  BY DEF ReceiveFrame
<1>4. /\ session \in Sessions /\ session.audio \in Seq(Frames)
      /\ Len(session.audio) \in Nat /\ Len(session.audio) <= MaxAudio
      /\ Preroll \in Nat /\ Preroll > 0
  BY SessionFields, WakeAssumption, PolicyAssumption DEF IInv, TypeOK
<1>6. /\ <<f>> \in Seq(Frames) /\ Len(<<f>>) = 1 /\ <<f>> # <<>>
      /\ UpTo(<<f>>, f) /\ After(<<f>>, heard)
  <2> HIDE DEF f
  <2>1. /\ <<f>> \in Seq(Frames) /\ Len(<<f>>) = 1 /\ <<f>> # <<>> /\ UpTo(<<f>>, f)
    BY <1>1, OneUpTo
  <2>2. After(<<f>>, heard)
    BY <1>1 DEF After
  <2> QED BY <2>1, <2>2
<1>7. /\ recent \in Seq(Frames) /\ Len(recent) <= Preroll
  BY DEF IInv, TypeOK
<1>8. Append(<<>>, f) = <<f>>
  OBVIOUS
<1>9. CASE wake /\ WakeFrame(received') /\ phase' = "feed"
  <2> HIDE DEF kept
  <2>0. /\ kept \in Seq(Frames) /\ UpTo(kept, f) /\ Len(kept) \in Nat /\ Len(kept) > 0
        /\ Len(kept) = IF Len(recent) < Preroll THEN Len(recent) + 1 ELSE Preroll
        /\ Append(Front(kept), f) \in Seq(Frames)
        /\ Len(Append(Front(kept), f)) = Len(kept)
        /\ UpTo(Append(Front(kept), f), f)
    <3>1. /\ kept \in Seq(Frames) /\ kept # <<>> /\ UpTo(kept, f)
          /\ Len(kept) = IF Len(recent) < Preroll THEN Len(recent) + 1 ELSE Preroll
          /\ Append(Front(kept), f) \in Seq(Frames)
          /\ Len(Append(Front(kept), f)) = Len(kept)
          /\ UpTo(Append(Front(kept), f), f)
      BY <1>1, <1>9, KeptFrames DEF kept
    <3> QED BY <3>1
  <2> HIDE DEF f
  <2>1. CASE Over
    <3>1. recent' = <<f>> /\ session' = NewSession /\ pending' = <<f>>
      BY <1>1, <1>8, <1>9, <2>1 DEF WakeFrame, CarriedOverEnd
    <3>2. TypeOK'
      BY <1>1, <1>3, <1>4, <1>6, <1>9, <3>1, NewSessionIs, PolicyAssumption DEF IInv, TypeOK, Working
    <3>3. Numbered'
      BY <1>1, <1>6, <3>1, NewSessionIs, EmptyUpTo DEF Numbered
    <3>4. Staged'
      BY <1>6, <1>9, <3>1, NewSessionIs DEF Staged
    <3>5. Kept'
      BY <1>6, <3>1, NewSessionIs DEF Kept
    <3>6. Vad'
      BY <3>1, NewSessionIs DEF Vad
    <3> QED BY <3>2, <3>3, <3>4, <3>5, <3>6 DEF IInv
  <2>2. CASE ~Over /\ IdleTooLong
    <3> DEFINE again == Append(Front(kept), f)
    <3>1. recent' = kept /\ session' = NewSession /\ pending' = again
      BY <1>1, <1>9, <2>2 DEF WakeFrame, CarriedOverSilence, kept
    <3>2. /\ again \in Seq(Frames) /\ Len(again) = Len(kept) /\ UpTo(again, f)
          /\ again # <<>> /\ Len(kept) <= Preroll
      <4>1. Len(again) = Len(kept) /\ again \in Seq(Frames) /\ UpTo(again, f)
        BY <2>0
      <4>2. Len(kept) <= Preroll
        BY <1>4, <1>7, <2>0
      <4>3. Len(again) # 0
        BY <2>0, <4>1
      <4> HIDE DEF again
      <4>4. again # <<>>
        BY <4>3
      <4> QED BY <4>1, <4>2, <4>4
    <3> HIDE DEF again
    <3>3. After(again, heard)
      <4>1. heard < received - Preroll + 1
        BY <1>2, <2>2, IdleFrames
      <4>2. heard < f - Len(again) + 1
        <5> DEFINE n == Len(kept)
        <5>1. n \in Nat /\ n <= Preroll /\ Len(again) = n
          BY <2>0, <3>2
        <5>2. /\ Preroll \in Nat /\ heard \in Nat /\ received \in Nat /\ f = received + 1
          BY <1>1, <1>4 DEF f
        <5> HIDE DEF n
        <5> QED BY <4>1, <5>1, <5>2
      <4> QED BY <1>1, <3>2, <4>2, AfterFirst
    <3>4. TypeOK'
      BY <1>1, <1>3, <1>4, <2>0, <1>9, <3>1, <3>2, NewSessionIs, PolicyAssumption DEF IInv, TypeOK, Working
    <3>5. Numbered'
      BY <1>1, <2>0, <3>1, <3>2, <3>3, NewSessionIs, EmptyUpTo DEF Numbered
    <3>6. Staged'
      BY <1>9, <3>1, <3>2, NewSessionIs DEF Staged
    <3>7. Kept'
      BY <2>0, <3>1, <3>2, NewSessionIs DEF Kept
    <3>8. Vad'
      BY <3>1, NewSessionIs DEF Vad
    <3> QED BY <3>4, <3>5, <3>6, <3>7, <3>8 DEF IInv
  <2>3. CASE ~Over /\ ~IdleTooLong
    <3>1. recent' = kept /\ session' = session /\ pending' = <<f>>
      BY <1>1, <1>9, <2>3 DEF WakeFrame, kept
    <3>2. TypeOK'
      BY <1>1, <1>3, <1>4, <2>0, <1>6, <1>7, <1>9, <3>1 DEF IInv, TypeOK, Working
    <3>3. Numbered'
      <4>1. UpTo(session.audio, received) /\ After(session.audio, heard)
        BY <1>1, <1>2, <2>3 DEF IInv, Numbered
      <4>2. received = f - 1
        BY <1>1 DEF f
      <4> QED BY <1>1, <2>0, <1>6, <3>1, <4>1, <4>2 DEF Numbered
    <3>4. Staged'
      BY <1>6, <1>9, <3>1 DEF IInv, Staged
    <3>5. Kept'
      <4>1. \/ Len(recent) = Preroll
            \/ Len(recent) >= Len(session.audio)
        BY <1>2, <1>4, <1>9, <2>3 DEF IInv, Kept
      <4>2. \/ Len(kept) = Preroll
            \/ Len(kept) >= Len(session.audio) + 1
        BY <1>4, <2>0, <1>7, <4>1
      <4> QED BY <2>0, <1>6, <3>1, <4>2 DEF Kept
    <3>6. Vad'
      BY <3>1 DEF IInv, Vad
    <3> QED BY <3>2, <3>3, <3>4, <3>5, <3>6 DEF IInv
  <2> QED BY <2>1, <2>2, <2>3
<1>10. CASE ~wake /\ ~Over /\ pending' = <<received'>> /\ phase' = "feed"
            /\ UNCHANGED <<recent, session>>
  <2> HIDE DEF f
  <2>1. pending' = <<f>> /\ UNCHANGED <<recent, session, wake>> /\ ~wake /\ ~Over
    BY <1>1, <1>3, <1>10
  <2>2. TypeOK'
    BY <1>1, <1>3, <1>4, <1>6, <1>10, <2>1 DEF IInv, TypeOK, Working
  <2>3. Numbered'
    <3>1. UpTo(session.audio, received) /\ After(session.audio, heard)
      BY <1>1, <1>2, <2>1 DEF IInv, Numbered
    <3>2. received = f - 1
      BY <1>1 DEF f
    <3> QED BY <1>1, <1>6, <2>1, <3>1, <3>2 DEF Numbered
  <2>4. Staged'
    BY <1>6, <1>10, <2>1 DEF IInv, Staged
  <2>5. Kept'
    BY <2>1 DEF Kept
  <2>6. Vad'
    BY <2>1 DEF IInv, Vad
  <2> QED BY <2>2, <2>3, <2>4, <2>5, <2>6 DEF IInv
<1>11. CASE ~wake /\ Over /\ UNCHANGED <<phase, pending, recent, session>>
  <2> HIDE DEF f
  <2>1. TypeOK'
    BY <1>1, <1>3, <1>11 DEF IInv, TypeOK
  <2>2. Numbered'
    <3>1. UpTo(pending, f) /\ After(pending, heard)
      BY <1>1, <1>2, EmptyUpTo
    <3> QED BY <1>1, <1>3, <1>11, <3>1 DEF Numbered, Over
  <2>3. Staged' /\ Vad'
    BY <1>11 DEF IInv, Staged, Vad, Over
  <2>4. Kept'
    BY <1>3, <1>11 DEF Kept
  <2> QED BY <2>1, <2>2, <2>3, <2>4 DEF IInv
<1> QED BY <1>9, <1>10, <1>11 DEF ReceiveFrame

(* A frame is fed, or the current one begins another utterance.            *)
LEMMA FeedInv == ASSUME IInv, Feed PROVE IInv'
<1>1. /\ UNCHANGED <<wake, received, epoch, recent, inflight>>
      /\ phase = "feed" /\ pending # <<>>
  BY DEF Feed, socket, IInv, Staged
<1>2. /\ pending \in Seq(Frames) /\ Len(pending) <= Preroll /\ Len(pending) \in Nat
      /\ received \in Int /\ UpTo(pending, received) /\ After(pending, heard)
      /\ heard <= received /\ heard \in 0..MaxFrames /\ Len(pending) > 0
      /\ Preroll \in Nat /\ recent \in Seq(Frames) /\ Len(recent) <= Preroll
      /\ Len(recent) \in Nat
  BY <1>1, WakeAssumption DEF IInv, TypeOK, Numbered
<1>3. CASE Over /\ wake /\ pending' = <<Last(pending)>> /\ session' = NewSession
           /\ UNCHANGED <<phase, purpose, heard>>
  <2> DEFINE f == Last(pending)
  <2>1. f \in Frames /\ f = received /\ UpTo(<<f>>, received)
    BY <1>1, <1>2, LastUpTo
  <2>2. heard < f
    <3>1. Len(pending) \in 1..Len(pending)
      BY <1>2
    <3> QED BY <1>2, <3>1 DEF After, Last
  <2>3. pending' = <<f>> /\ heard' = heard
    BY <1>3
  <2> HIDE DEF f
  <2>4. <<f>> \in Seq(Frames) /\ Len(<<f>>) = 1 /\ <<f>> # <<>>
    BY <2>1, OneUpTo
  <2>5. After(<<f>>, heard)
    BY <2>2 DEF After
  <2>6. TypeOK'
    BY <1>1, <1>2, <1>3, <2>3, <2>4, NewSessionIs, PolicyAssumption DEF IInv, TypeOK
  <2>7. Numbered'
    BY <1>1, <1>2, <1>3, <2>1, <2>3, <2>4, <2>5, NewSessionIs, EmptyUpTo DEF IInv, Numbered
  <2>8. Staged'
    BY <1>1, <1>3, <2>3, <2>4, NewSessionIs DEF Staged
  <2>9. Kept'
    <3>1. Len(recent) >= 1
      BY <1>2, <1>3 DEF IInv, Kept
    <3> QED BY <1>1, <1>3, <2>3, <2>4, <3>1, NewSessionIs, EmptyUpTo DEF Kept
  <2>10. Vad'
    BY <1>3, NewSessionIs DEF Vad
  <2> QED BY <2>6, <2>7, <2>8, <2>9, <2>10 DEF IInv
<1>4. CASE Accepts(session) /\ pending' = Tail(pending) /\ FeedAudio(Head(pending))
  <2> DEFINE f == Head(pending)
             rest == Tail(pending)
             n == Len(pending)
  <2>1. /\ f \in Frames /\ f = received - n + 1
        /\ rest \in Seq(Frames) /\ Len(rest) = n - 1 /\ UpTo(rest, received)
    BY <1>1, <1>2, TailUpTo
  <2>2. /\ session' \in Sessions /\ Len(session'.audio) <= MaxAudio
        /\ purpose' \in {"partial", "final"}
        /\ \/ /\ session'.state = "closed" /\ session'.audio = session.audio
              /\ session'.run = session.run
              /\ session'.speechSeen = session.speechSeen
              /\ session'.audio # <<>>
              /\ heard' = f /\ phase' = "emit"
           \/ /\ session'.state # "closed"
              /\ session'.audio = Append(session.audio, f)
              /\ heard' = heard /\ phase' \in {"emit", "submit"}
        /\ Vad'
    BY <1>4, <2>1, FeedAudioDoes DEF IInv
  <2>3. /\ ~Over /\ UpTo(session.audio, received - n) /\ After(session.audio, heard)
        /\ session.audio \in Seq(Frames) /\ Len(session.audio) \in Nat
    BY <1>4, SessionFields DEF Accepts, Over, IInv, Numbered, TypeOK
  <2>4. f > heard
    <3>1. 1 \in 1..Len(pending) /\ pending[1] = f
      BY <1>1, <1>2
    <3> QED BY <1>2, <3>1 DEF After
  <2>5. pending' = rest /\ n \in Nat /\ n > 0 /\ n <= Preroll /\ Len(recent) \in Nat
    BY <1>2, <1>4
  <2>6. UpTo(rest, received) /\ After(rest, f)
    <3> HIDE DEF f, n, rest
    <3>1. f \in Int /\ f < received - Len(rest) + 1
      BY <1>2, <2>1, <2>5
    <3> QED BY <1>2, <2>1, <3>1, AfterFirst
  <2> HIDE DEF f, rest, n
  <2>7. After(rest, heard)
    <3>1. f \in Int /\ heard \in Int
      BY <1>2, <2>1 DEF Frames
    <3>2. \A i \in 1..Len(rest) : rest[i] \in Int
      <4>1. \A i \in 1..Len(rest) : rest[i] \in Frames
        BY <2>1
      <4>2. Frames \subseteq Int
        BY DEF Frames
      <4> QED BY <4>1, <4>2
    <3>3. ASSUME NEW i \in 1..Len(rest)
          PROVE  rest[i] > heard
      <4>1. rest[i] > f /\ rest[i] \in Int
        BY <2>6, <3>2 DEF After
      <4> QED BY <2>4, <3>1, <4>1
    <3> QED BY <3>3 DEF After
  <2>8. /\ f \in Int /\ f <= received /\ f \in 0..MaxFrames /\ received - n \in Int
        /\ f = (received - n) + 1 /\ received - Len(rest) = f
    BY <1>2, <2>1, <2>5 DEF Frames
  <2>9. /\ Append(session.audio, f) \in Seq(Frames)
        /\ Len(Append(session.audio, f)) = Len(session.audio) + 1
        /\ Append(session.audio, f) # <<>>
        /\ UpTo(Append(session.audio, f), f)
    BY <2>1, <2>3, <2>8, AppendUpTo
  <2>10. After(Append(session.audio, f), heard)
    <3>1. /\ \A i \in 1..Len(session.audio) : Append(session.audio, f)[i] = session.audio[i]
          /\ Append(session.audio, f)[Len(session.audio) + 1] = f
      BY <2>1, <2>3
    <3> QED BY <2>3, <2>4, <2>9, <3>1 DEF After
  <2>11. TypeOK'
    <3>1. Len(rest) <= Preroll
      BY <1>2, <2>1, <2>5
    <3>2. heard' \in 0..MaxFrames /\ phase' \in Working \cup {"receive", "over"}
      BY <1>2, <2>2, <2>8 DEF Working
    <3> QED BY <1>1, <2>1, <2>2, <2>5, <3>1, <3>2 DEF IInv, TypeOK
  <2>12. Numbered'
    <3>1. UpTo(pending, received)' /\ (wake => UpTo(recent, received))'
      BY <1>1, <2>5, <2>6 DEF IInv, Numbered
    <3>2. After(pending, heard)' /\ heard' <= received'
      BY <1>1, <1>2, <2>2, <2>5, <2>6, <2>7, <2>8
    <3>3. CASE session'.state = "closed"
      BY <3>1, <3>2, <3>3 DEF Numbered, Over
    <3>4. CASE session'.state # "closed"
      <4>1. session'.audio = Append(session.audio, f) /\ heard' = heard
        BY <2>2, <3>4
      <4>2. received' - Len(pending') = f
        BY <1>1, <2>5, <2>8
      <4> QED BY <2>9, <2>10, <3>1, <3>2, <4>1, <4>2 DEF Numbered
    <3> QED BY <3>3, <3>4
  <2>13. Staged'
    BY <2>2, <2>9 DEF Staged, Over
  <2>14. Kept'
    <3>1. wake => Len(recent) >= Len(pending')
      BY <1>2, <2>1, <2>5 DEF IInv, Kept, n
    <3>2. ASSUME wake, session'.state # "closed"
          PROVE  \/ Len(recent) = Preroll
                 \/ Len(recent) >= Len(session'.audio) + Len(pending')
      <4>1. Len(session'.audio) + Len(pending') = Len(session.audio) + n
        <5>1. /\ Len(session'.audio) = Len(session.audio) + 1
              /\ Len(pending') = n - 1
          BY <2>1, <2>2, <2>5, <2>9, <3>2
        <5>2. n \in Nat /\ Len(session.audio) \in Nat
          BY <2>3, <2>5
        <5> QED BY <5>1, <5>2
      <4>2. Len(recent) = Preroll \/ Len(recent) >= Len(session.audio) + n
        BY <2>3, <3>2 DEF IInv, Kept, n
      <4> QED BY <4>1, <4>2
    <3> QED BY <1>1, <3>1, <3>2 DEF Kept, Over
  <2> QED BY <2>2, <2>11, <2>12, <2>13, <2>14 DEF IInv
<1> QED BY <1>3, <1>4 DEF Feed

(* An utterance is closed in the way flush() and abort() close one, or by  *)
(* its final transcription.                                                *)
LEMMA CloseInv ==
    ASSUME IInv, session' = Closed(session), phase' = "emit",
           UNCHANGED <<wake, received, pending>>,
           epoch' \in 0..MaxAborts, purpose' \in {"partial", "final"},
           inflight' \in 0..Slots,
           \/ recent' = recent
           \/ recent' = <<>> /\ pending = <<>>,
           heard' \in 0..MaxFrames, heard' <= received, After(pending, heard')
    PROVE  IInv'
<1>1. /\ session' \in Sessions /\ session'.state = "closed"
      /\ session'.audio = session.audio /\ session'.run = session.run
      /\ session'.speechSeen = session.speechSeen
  BY ClosedIs DEF IInv, TypeOK
<1>2. TypeOK'
  BY <1>1, EmptyUpTo, WakeAssumption DEF IInv, TypeOK, Working
<1>3. Numbered'
  <2>1. received \in Int
    BY DEF IInv, TypeOK
  <2>2. wake => UpTo(recent', received)
    BY <2>1, EmptyUpTo DEF IInv, Numbered
  <2> QED BY <1>1, <2>2 DEF IInv, Numbered, Over
<1>4. Staged'
  BY <1>1 DEF IInv, Staged
<1>5. Kept'
  BY <1>1, EmptyUpTo DEF IInv, Kept, Over
<1>6. Vad'
  BY <1>1 DEF IInv, Vad
<1> QED BY <1>2, <1>3, <1>4, <1>5, <1>6 DEF IInv

(* Steps that change neither frames nor session.                           *)
LEMMA ElsewhereInv ==
    ASSUME IInv, UNCHANGED <<wake, received, pending, session, heard>>,
           epoch' \in 0..MaxAborts, purpose' \in {"partial", "final"},
           inflight' \in 0..Slots,
           \/ recent' = recent
           \/ recent' = <<>> /\ pending = <<>> /\ Over,
           phase' \in Working \cup {"receive", "over"},
           phase' = "receive" => pending = <<>>,
           phase' = "feed" => pending # <<>>,
           phase' \in {"submit", "wait"} => ~Over /\ session.audio # <<>>,
           phase' = "wait" => inflight' > 0
    PROVE  IInv'
<1>1. TypeOK'
  BY EmptyUpTo, WakeAssumption DEF IInv, TypeOK
<1>2. Numbered'
  <2>1. received \in Int
    BY DEF IInv, TypeOK
  <2>2. wake => UpTo(recent', received)
    BY <2>1, EmptyUpTo DEF IInv, Numbered
  <2> QED BY <2>2 DEF IInv, Numbered, Over
<1>3. Staged'
  BY DEF IInv, Staged, Over
<1>4. Kept'
  BY EmptyUpTo DEF IInv, Kept, Over
<1>5. Vad'
  BY DEF IInv, Vad
<1> QED BY <1>1, <1>2, <1>3, <1>4, <1>5 DEF IInv

(* flush() closes the utterance or has it transcribed.                     *)
LEMMA FlushInv == ASSUME IInv, Flush PROVE IInv'
<1>1. /\ phase = "receive" /\ ~Over /\ pending = <<>>
      /\ UNCHANGED <<wake, received, epoch, recent, pending, inflight>>
  BY DEF Flush, socket, IInv, Staged
<1>2. epoch' \in 0..MaxAborts /\ inflight' \in 0..Slots /\ received \in 0..MaxFrames
      /\ purpose \in {"partial", "final"} /\ session \in Sessions
  BY <1>1 DEF IInv, TypeOK
<1>3. CASE /\ session.speechSeen
           /\ Transcribe("final", [session EXCEPT !.speaking = FALSE,
                                                  !.state = "finalizing"])
           /\ UNCHANGED heard
  <2> DEFINE s == [session EXCEPT !.speaking = FALSE, !.state = "finalizing"]
  <2>1. session' = s /\ purpose' = "final" /\ phase' = "submit" /\ heard' = heard
    BY <1>3 DEF Transcribe
  <2>2. /\ s \in Sessions /\ s.audio = session.audio /\ s.state = "finalizing"
        /\ s.run = session.run /\ s.speechSeen = session.speechSeen
    BY <1>2 DEF Sessions, States
  <2> HIDE DEF s
  <2>3. TypeOK'
    BY <1>1, <1>2, <2>1, <2>2 DEF IInv, TypeOK, Working
  <2>4. Numbered'
    BY <1>1, <2>1, <2>2 DEF IInv, Numbered
  <2>5. Staged'
    BY <1>1, <1>3, <2>1, <2>2 DEF IInv, Staged, Over
  <2>6. Kept'
    BY <1>1, <2>1, <2>2 DEF IInv, Kept
  <2>7. Vad'
    BY <2>1, <2>2 DEF IInv, Vad
  <2> QED BY <2>3, <2>4, <2>5, <2>6, <2>7 DEF IInv
<1>4. CASE Reply(Closed(session)) /\ heard' = received
  <2>1. session' = Closed(session) /\ phase' = "emit" /\ purpose' = purpose
    BY <1>4 DEF Reply
  <2>2. heard' \in 0..MaxFrames /\ heard' <= received /\ After(pending, heard')
    BY <1>1, <1>2, <1>4, EmptyUpTo, BoundsAssumption
  <2> QED BY <1>1, <1>2, <2>1, <2>2, CloseInv
<1> QED BY <1>3, <1>4 DEF Flush

(* abort closes it, and the frames it kept are gone.                       *)
LEMMA AbortInv == ASSUME IInv, Abort PROVE IInv'
<1>1. /\ phase = "receive" /\ pending = <<>> /\ heard' = received
      /\ UNCHANGED <<wake, received, pending, inflight>>
  BY DEF Abort, IInv, Staged
<1>2. inflight' \in 0..Slots /\ received \in 0..MaxFrames
      /\ purpose \in {"partial", "final"} /\ epoch \in 0..MaxAborts
  BY <1>1 DEF IInv, TypeOK
<1>3. /\ epoch' \in 0..MaxAborts
      /\ recent' = recent \/ recent' = <<>>
  BY <1>2, BoundsAssumption DEF Abort
<1>4. heard' \in 0..MaxFrames /\ heard' <= received /\ After(pending, heard')
  BY <1>1, <1>2, EmptyUpTo, BoundsAssumption
<1>5. CASE ~Over
  <2>1. session' = Closed(session) /\ phase' = "emit" /\ purpose' = purpose
    BY <1>5 DEF Abort, Reply
  <2> QED BY <1>1, <1>2, <1>3, <1>4, <2>1, CloseInv
<1>6. CASE Over
  <2>1. UNCHANGED <<session, phase, purpose>>
    BY <1>6 DEF Abort
  <2>2. TypeOK'
    BY <1>1, <1>2, <1>3, <1>4, <2>1, EmptyUpTo, WakeAssumption DEF IInv, TypeOK
  <2>3. Numbered'
    BY <1>1, <1>2, <1>3, <1>4, <1>6, <2>1, EmptyUpTo DEF IInv, Numbered, Over
  <2>4. Staged' /\ Vad'
    BY <1>1, <2>1 DEF IInv, Staged, Vad, Over
  <2>5. Kept'
    BY <1>1, <1>3, <1>6, <2>1, EmptyUpTo DEF IInv, Kept, Over
  <2> QED BY <2>2, <2>3, <2>4, <2>5 DEF IInv
<1> QED BY <1>5, <1>6

(* A transcription is answered, in one of the ways.                        *)
LEMMA ConcludeInv ==
    ASSUME IInv, phase \in {"submit", "wait"}, Conclude, inflight' \in 0..Slots
    PROVE  IInv'
<1>1. /\ UNCHANGED <<wake, received, epoch, recent, pending, purpose>>
      /\ phase' = "emit" /\ ~Over /\ session.audio # <<>>
  BY DEF Conclude, socket, IInv, Staged
<1>2. epoch' \in 0..MaxAborts /\ purpose' \in {"partial", "final"}
      /\ received \in 0..MaxFrames /\ pending \in Seq(Frames) /\ session \in Sessions
  BY <1>1 DEF IInv, TypeOK
<1>3. CASE UNCHANGED <<session, heard>>
  BY <1>1, <1>2, <1>3, ElsewhereInv DEF Working
<1>4. CASE session' = Closed(session) /\ heard' = Last(session.audio)
  <2> DEFINE fed == received - Len(pending)
  <2>1. session.audio \in Seq(Frames) /\ UpTo(session.audio, fed) /\ fed \in Int
    BY <1>1, <1>2, SessionFields DEF IInv, Numbered
  <2> HIDE DEF fed
  <2>2. Last(session.audio) \in Frames /\ Last(session.audio) = fed
    BY <1>1, <2>1, LastUpTo
  <2>3. fed < received - Len(pending) + 1 /\ fed <= received
    BY <1>2 DEF fed
  <2>4. After(pending, fed)
    BY <1>2, <2>1, <2>3, AfterFirst DEF IInv, Numbered
  <2>5. heard' \in 0..MaxFrames /\ heard' <= received /\ After(pending, heard')
    BY <1>4, <2>2, <2>3, <2>4 DEF Frames
  <2> QED BY <1>1, <1>2, <1>4, <2>5, CloseInv
<1> QED BY <1>3, <1>4 DEF Conclude

(* Every step.                                                             *)
LEMMA NextInv == IInv /\ [Next]_vars => IInv'
<1> SUFFICES ASSUME IInv, [Next]_vars PROVE IInv'
  OBVIOUS
<1>0. /\ epoch \in 0..MaxAborts /\ purpose \in {"partial", "final"}
      /\ inflight \in 0..Slots /\ Slots \in Nat /\ Slots > 0
  BY PolicyAssumption DEF IInv, TypeOK
<1>1. CASE ReceiveFrame
  BY <1>1, ReceiveFrameInv
<1>2. CASE Flush
  BY <1>2, FlushInv
<1>3. CASE Abort
  BY <1>3, AbortInv
<1>4. CASE Hangup
  BY <1>0, <1>4, ElsewhereInv DEF Hangup, socket
<1>5. CASE Feed
  BY <1>5, FeedInv
<1>6. CASE Submit
  <2>1. CASE FreeSlots > 0 /\ inflight' = inflight + 1 /\ phase' = "wait"
             /\ UNCHANGED <<socket, pending, session, purpose, heard>>
    <3>1. inflight' \in 0..Slots /\ inflight' > 0
      BY <1>0, <2>1 DEF FreeSlots
    <3>2. ~Over /\ session.audio # <<>>
      BY <1>6 DEF Submit, IInv, Staged
    <3> QED BY <1>0, <2>1, <3>1, <3>2, ElsewhereInv DEF socket, Working
  <2>2. CASE Conclude /\ inflight' = inflight
    BY <1>0, <1>6, <2>2, ConcludeInv DEF Submit
  <2> QED BY <1>6, <2>1, <2>2 DEF Submit
<1>7. CASE GiveUp
  BY <1>0, <1>7, ConcludeInv DEF GiveUp, DeadlineOver
<1>8. CASE Emit
  BY <1>0, <1>8, ElsewhereInv DEF Emit, socket, Working
<1>9. CASE Result /\ inflight > 0
  <2>1. inflight' \in 0..Slots
    BY <1>0, <1>9 DEF Result
  <2> QED BY <1>9, <2>1, ConcludeInv DEF Result
<1>10. CASE AbandonedEnds
  <2>1. inflight' \in 0..Slots /\ (phase = "wait" => inflight' > 0)
    BY <1>0, <1>10 DEF AbandonedEnds, Abandoned
  <2>2. /\ UNCHANGED <<wake, received, epoch, recent, phase, pending, session, purpose, heard>>
    BY <1>10 DEF AbandonedEnds, socket
  <2>3. phase \in Working \cup {"receive", "over"} /\ Staged
    BY DEF IInv, TypeOK
  <2> QED BY <1>0, <2>1, <2>2, <2>3, ElsewhereInv DEF Staged
<1>11. CASE UNCHANGED vars
  BY <1>11 DEF vars, IInv, TypeOK, Numbered, Staged, Kept, Vad, Over, RunLength
<1>12. ASSUME Result PROVE inflight > 0
  BY <1>0, <1>12 DEF Result, IInv, Staged
<1> QED BY <1>1, <1>2, <1>3, <1>4, <1>5, <1>6, <1>7, <1>8, <1>9, <1>10, <1>11, <1>12
        DEF Next, Serve

-----------------------------------------------------------------------------
(* The theorems.                                                           *)

(* The socket, its session and its slots have their types.                 *)
THEOREM TypeCorrect == Spec => []TypeOK
<1>1. IInv => TypeOK
  BY DEF IInv
<1> QED BY <1>1, InitInv, NextInv, PTL DEF Spec

(* Each number is one more than the one before it.                         *)
LEMMA InvIsNew == IInv => UtteranceIsNew
<1> SUFFICES ASSUME IInv, NEW i \in DOMAIN session.audio, ~Over
             PROVE  /\ session.audio[i] > heard
                    /\ i > 1 => session.audio[i] = session.audio[i - 1] + 1
  BY DEF UtteranceIsNew
<1> DEFINE fed == received - Len(pending)
<1>1. /\ session.audio \in Seq(Frames) /\ fed \in Int
      /\ UpTo(session.audio, fed) /\ After(session.audio, heard)
  BY SessionFields DEF IInv, TypeOK, Numbered
<1> HIDE DEF fed
<1>2. i \in 1..Len(session.audio) /\ Len(session.audio) \in Nat
  BY <1>1
<1>3. session.audio[i] > heard /\ session.audio[i] = fed - Len(session.audio) + i
  BY <1>1, <1>2 DEF UpTo, After
<1>4. ASSUME i > 1
      PROVE  session.audio[i] = session.audio[i - 1] + 1
  <2>1. i - 1 \in 1..Len(session.audio)
    BY <1>2, <1>4
  <2>2. session.audio[i - 1] = fed - Len(session.audio) + (i - 1)
    BY <1>1, <2>1 DEF UpTo
  <2> QED BY <1>1, <1>2, <1>3, <2>2
<1> QED BY <1>3, <1>4

(* An utterance has each frame once and in order, and none that came       *)
(* before the end of another or before an abort, for every policy and      *)
(* every judgement of the VAD: with the words before a question an answer  *)
(* to it could not be told from its echo (routes/stt.py, restart).         *)
THEOREM UtterancesAreNew == Spec => []UtteranceIsNew
BY InitInv, NextInv, InvIsNew, PTL DEF Spec

(* What is fed again ends with the last frame received, and has more of    *)
(* them than the voice that was heard.                                     *)
LEMMA FedAgain ==
    ASSUME IInv, ReceiveFrame, session.state = "listening", session'.audio = <<>>
    PROVE  Starting \subseteq Range(pending')
<1>1. CASE session.audio = <<>>
  BY <1>1 DEF IInv, Vad, Starting
<1>2. CASE session.run # "voice"
  BY <1>2 DEF Starting
<1>3. CASE session.audio # <<>> /\ session.run = "voice"
  <2> DEFINE f == received + 1
             kept == LastOf(Append(recent, f), Preroll)
             again == Append(Front(kept), f)
             audio == session.audio
             n == Len(audio)
             start == session.runStart
  <2>1. /\ wake /\ ~Over /\ IdleTooLong /\ phase = "receive" /\ pending' = again
        /\ received' = f
    BY <1>3 DEF ReceiveFrame, WakeFrame, CarriedOverSilence, Over
  <2>2. /\ f \in Frames /\ received \in Nat /\ Preroll \in Nat /\ Preroll > 0
        /\ recent \in Seq(Frames) /\ Len(recent) \in Nat /\ Len(recent) <= Preroll
        /\ audio \in Seq(Frames) /\ n \in Nat
        /\ StartLen \in Nat /\ StartLen < Preroll
    BY SessionFields, PolicyAssumption, WakeAssumption, BoundsAssumption
    DEF ReceiveFrame, IInv, TypeOK, Frames
  <2>3. n > Preroll /\ UpTo(audio, received)
    BY <2>1, IdleFrames
  <2>4. /\ Len(kept) = IF Len(recent) < Preroll THEN Len(recent) + 1 ELSE Preroll
        /\ again \in Seq(Frames) /\ Len(again) = Len(kept) /\ UpTo(again, f)
    BY <2>1, <2>2, KeptFrames
  <2> HIDE DEF again, kept
  <2>5. Len(again) = Preroll
    <3>1. Len(pending) = 0
      BY <2>1 DEF IInv, Staged
    <3>2. Len(recent) = Preroll \/ Len(recent) >= n
      BY <2>1, <2>2, <3>1 DEF IInv, Kept
    <3> HIDE DEF n
    <3>3. Len(recent) = Preroll
      BY <2>2, <2>3, <3>2
    <3> QED BY <2>2, <2>4, <3>3
  <2>6. start \in 1..n /\ n - start < StartLen
    BY <1>3 DEF IInv, Vad, RunLength
  <2>7. Starting = {audio[j] : j \in start..n}
    <3>1. /\ SubSeq(audio, start, n) \in Seq(Frames)
          /\ Len(SubSeq(audio, start, n)) = n - start + 1
          /\ \A i \in 1..n - start + 1 : SubSeq(audio, start, n)[i] = audio[start + i - 1]
      <4> HIDE DEF audio, start
      <4>1. start \in Int /\ start >= 1 /\ n \in Int /\ n <= Len(audio) /\ start <= n
        BY <2>2, <2>6
      <4> QED BY <2>2, <4>1
    <3>2. Starting = Range(SubSeq(audio, start, n))
      BY <1>3 DEF Starting
    <3> DEFINE t == SubSeq(audio, start, n)
    <3>3. DOMAIN t = 1..n - start + 1
      BY <3>1
    <3>4. Starting = {t[i] : i \in 1..n - start + 1}
      BY <3>2, <3>3 DEF Range
    <3> HIDE DEF t, n, audio, start
    <3>5. ASSUME NEW i \in 1..n - start + 1
          PROVE  start + i - 1 \in start..n /\ t[i] = audio[start + i - 1]
      BY <2>2, <2>6, <3>1 DEF t
    <3>6. ASSUME NEW j \in start..n
          PROVE  j - start + 1 \in 1..n - start + 1 /\ t[j - start + 1] = audio[j]
      <4>1. j - start + 1 \in 1..n - start + 1 /\ start + (j - start + 1) - 1 = j
        BY <2>2, <2>6
      <4> QED BY <3>5, <4>1
    <3> QED BY <3>4, <3>5, <3>6
  <2> HIDE DEF n, audio, start
  <2>8. ASSUME NEW j \in start..n
        PROVE  audio[j] \in Range(again)
    <3> DEFINE k == Preroll - 1 - n + j
    <3>1. j \in 1..Len(audio) /\ audio[j] = received - n + j
      BY <2>2, <2>3, <2>6 DEF UpTo, n
    <3>2. k \in 1..Len(again)
      BY <2>2, <2>5, <2>6
    <3>3. again[k] = f - Preroll + k
      BY <2>4, <2>5, <3>2 DEF UpTo
    <3>4. again[k] = audio[j]
      BY <2>2, <2>6, <3>1, <3>3
    <3>5. k \in DOMAIN again
      BY <2>4, <3>2
    <3> HIDE DEF k
    <3> QED BY <3>4, <3>5 DEF Range
  <2> QED BY <2>1, <2>7, <2>8
<1> QED BY <1>1, <1>2, <1>3

(* No step but a reset begins a session in a silence.                      *)
LEMMA StepCutsNothing ==
    IInv /\ [Next]_vars
        => [session.state = "listening" /\ session'.audio = <<>> =>
               Starting \subseteq Range(pending')]_vars
<1> SUFFICES ASSUME IInv, Next, session.state = "listening", session'.audio = <<>>
             PROVE  Starting \subseteq Range(pending')
  BY DEF vars
<1>1. CASE ReceiveFrame
  BY <1>1, FedAgain
<1>2. ASSUME session.audio = <<>>
      PROVE  Starting \subseteq Range(pending')
  BY <1>2 DEF IInv, Vad, Starting
<1>3. session \in Sessions
  BY DEF IInv, TypeOK
<1>4. CASE session'.audio = session.audio
  BY <1>2, <1>4
<1>5. CASE Feed
  <2>1. ~Over /\ Accepts(session) /\ FeedAudio(Head(pending))
    BY <1>5 DEF Feed, Over
  <2>2. Head(pending) \in Frames
    BY <1>5 DEF Feed, IInv, TypeOK, Staged
  <2>3. \/ session'.audio = session.audio
        \/ session'.audio = Append(session.audio, Head(pending))
    BY <2>1, <2>2, FeedAudioDoes DEF IInv
  <2>4. Append(session.audio, Head(pending)) # <<>>
    BY <1>3, <2>2, SessionFields
  <2> QED BY <1>4, <2>3, <2>4
<1>6. ASSUME \/ session' = session \/ session' = Closed(session)
             \/ session' = [session EXCEPT !.speaking = FALSE, !.state = "finalizing"]
      PROVE  session'.audio = session.audio
  BY <1>3, <1>6, ClosedIs DEF Sessions
<1>7. CASE Flush
  BY <1>4, <1>6, <1>7 DEF Flush, Transcribe, Reply
<1>8. CASE Abort
  BY <1>4, <1>6, <1>8 DEF Abort, Reply
<1>9. CASE Submit \/ GiveUp \/ Result
  BY <1>4, <1>6, <1>9 DEF Submit, GiveUp, Result, Conclude
<1>10. CASE Hangup \/ Emit \/ AbandonedEnds
  BY <1>4, <1>6, <1>10 DEF Hangup, Emit, AbandonedEnds
<1> QED BY <1>1, <1>5, <1>7, <1>8, <1>9, <1>10 DEF Next, Serve

(* Whenever speech_start_sec is below WAKE_PREROLL_SEC and this not above  *)
(* WAKE_IDLE_RESET_SEC, the audio that wake mode throws away in a silence  *)
(* has no voice that is not fed again (routes/stt.py, line 178).           *)
THEOREM SpeechIsKept == Spec => SpeechNotCut
BY InitInv, NextInv, StepCutsNothing, PTL DEF Spec, SpeechNotCut
=============================================================================
