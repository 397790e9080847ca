------------------------------ MODULE SttStream ------------------------------
(***************************************************************************)
(* server/routes/stt.py with stt/streaming_session.py, stt/vad.py and      *)
(* stt/transcription_guard.py: one WebSocket that brings the frames of a   *)
(* microphone, the utterances cut out of them, and the pool that           *)
(* transcribes them.                                                       *)
(*                                                                         *)
(* The socket is one coroutine: it takes a message only when the thread    *)
(* that worked on the last one is back, so what the browser sends in the   *)
(* meantime waits in order.  A frame is its number, and time is counted in *)
(* frames.  What a frame sounds like to the VAD is chosen each time it is  *)
(* heard, for the VAD carries state over from one utterance to the next.   *)
(* The texts and what the storage keeps of them are left out.              *)
(*                                                                         *)
(* A definition named Mutant_... is a wrong variant of the one after it.   *)
(* No specification uses it; it shows what the properties can tell apart.  *)
(***************************************************************************)
EXTENDS Integers, SequencesExt

CONSTANTS
    StartLen,   \* speech_start_sec
    SilenceLen, \* silence_end_sec
    MaxAudio,   \* max_audio_sec
    Stride,     \* window_stride_sec
    IdleReset,  \* WAKE_IDLE_RESET_SEC
    Preroll,    \* WAKE_PREROLL_SEC, with the frame that has just come
    Slots,      \* max_concurrent_transcriptions
    MaxFrames,  \* bounds: frames the microphone delivers,
    MaxAborts   \*   and aborts the browser sends

ASSUME PolicyAssumption ==
    /\ StartLen \in Nat /\ SilenceLen \in Nat \ {0}
    /\ MaxAudio \in Nat \ {0} /\ Stride \in Nat \ {0}
    /\ Slots \in Nat \ {0}
ASSUME WakeAssumption ==
    /\ IdleReset \in Nat /\ Preroll \in Nat
    /\ StartLen < Preroll /\ Preroll <= IdleReset
ASSUME BoundsAssumption == MaxFrames \in Nat /\ MaxAborts \in Nat

VARIABLES
    wake,     \* mode=wake: the socket outlives an utterance
    phase,    \* what the coroutine is at
    received, \* frames received
    epoch,    \* aborts of a wake stream, stamped on its events
    recent,   \* the last frames, to be fed to the next utterance
    pending,  \* frames still to be fed before the next message is taken
    session,  \* the StreamingSTTSession of the current utterance
    purpose,  \* of the transcription that is waited for
    inflight, \* transcriptions that run, the abandoned ones included
    heard     \* history: the last frame an ended or aborted utterance had

vars == <<wake, phase, received, epoch, recent, pending, session, purpose,
          inflight, heard>>
socket == <<wake, received, epoch, recent>>

Frames == 1..MaxFrames
States == {"listening", "speaking", "finalizing", "closed"}
Working == {"feed", "submit", "wait", "emit"}

Sessions ==
    [state : States, audio : Seq(Frames), speechSeen : BOOLEAN,
     speaking : BOOLEAN, run : {"none", "voice", "silence"},
     runStart : 0..MaxAudio, window : 0..MaxAudio]

TypeOK ==
    /\ wake \in BOOLEAN
    /\ phase \in Working \cup {"receive", "over"}
    /\ received \in 0..MaxFrames
    /\ epoch \in 0..MaxAborts
    /\ recent \in Seq(Frames) /\ Len(recent) <= Preroll
    /\ pending \in Seq(Frames) /\ Len(pending) <= Preroll
    /\ session \in Sessions /\ Len(session.audio) <= MaxAudio
    /\ purpose \in {"partial", "final"}
    /\ inflight \in 0..Slots
    /\ heard \in 0..MaxFrames

(* new_session and start: a session that listens.                          *)
NewSession ==
    [state |-> "listening", audio |-> <<>>, speechSeen |-> FALSE,
     speaking |-> FALSE, run |-> "none", runStart |-> 0, window |-> 0]

Init ==
    /\ wake \in BOOLEAN
    /\ phase = "receive"
    /\ received = 0
    /\ epoch = 0
    /\ recent = <<>>
    /\ pending = <<>>
    /\ session = NewSession
    /\ purpose = "partial"
    /\ inflight = 0
    /\ heard = 0

Over == session.state = "closed"
Accepts(s) == s.state \in {"listening", "speaking"}

-----------------------------------------------------------------------------
(* A frame comes in.                                                       *)

(* The frames before the current one, for the next session.                *)
Mutant_NoPreroll(kept) == <<>>
CarriedOverSilence(kept) == Front(kept)

Mutant_SayAgain(kept) == Front(kept)
CarriedOverEnd(kept) == <<>>

LastOf(s, n) == IF Len(s) <= n THEN s ELSE SubSeq(s, Len(s) - n + 1, Len(s))

IdleTooLong == session.state = "listening" /\ Len(session.audio) > IdleReset

(* In wake mode the frame after the end of an utterance begins a new one,  *)
(* and so does one after a long silence, with what came just before it.    *)
WakeFrame(f) ==
    LET kept == LastOf(Append(recent, f), Preroll) IN
    IF Over THEN
        /\ recent' = <<f>>
        /\ session' = NewSession
        /\ pending' = Append(CarriedOverEnd(kept), f)
    ELSE IF IdleTooLong THEN
        /\ recent' = kept
        /\ session' = NewSession
        /\ pending' = Append(CarriedOverSilence(kept), f)
    ELSE
        /\ recent' = kept
        /\ pending' = <<f>>
        /\ UNCHANGED session

ReceiveFrame ==
    /\ phase = "receive"
    /\ received < MaxFrames
    /\ received' = received + 1
    /\ \/ /\ wake
          /\ WakeFrame(received')
          /\ phase' = "feed"
       \/ /\ ~wake /\ ~Over
          /\ pending' = <<received'>>
          /\ phase' = "feed"
          /\ UNCHANGED <<recent, session>>
       \/ /\ ~wake /\ Over
          /\ UNCHANGED <<phase, pending, recent, session>>
    /\ UNCHANGED <<wake, epoch, purpose, inflight, heard>>

-----------------------------------------------------------------------------
(* feed_audio()                                                            *)

(* SpeechStateMachine.feed at the time of the frame just appended.         *)
RunAfter(s, voice) ==
    LET sort == IF voice THEN "voice" ELSE "silence" IN
    IF s.run = sort THEN s
    ELSE [s EXCEPT !.run = sort, !.runStart = Len(s.audio)]

RunLength(s) == Len(s.audio) - s.runStart
Begins(s) == ~s.speaking /\ s.run = "voice" /\ RunLength(s) >= StartLen
Ends(s) == s.speaking /\ s.run = "silence" /\ RunLength(s) >= SilenceLen

Observed(f, voice) ==
    RunAfter([session EXCEPT !.audio = Append(@, f),
                             !.speechSeen = @ \/ voice], voice)

WindowDue(s) == Len(s.audio) - s.window >= Stride

Transcribe(why, s) ==
    /\ session' = s
    /\ purpose' = why
    /\ phase' = "submit"

Reply(s) ==
    /\ session' = s
    /\ phase' = "emit"
    /\ UNCHANGED purpose

(* _maybe_partial, only while somebody speaks.                             *)
MaybePartial(s) ==
    IF s.state = "speaking" /\ WindowDue(s)
    THEN Transcribe("partial", [s EXCEPT !.window = Len(s.audio)])
    ELSE Reply(s)

Closed(s) == [s EXCEPT !.state = "closed"]

TooLong == Len(session.audio) = MaxAudio

FeedAudio(f) ==
    \/ /\ TooLong
       /\ Reply(Closed(session))
       /\ heard' = f
    \/ /\ ~TooLong
       /\ \E voice \in BOOLEAN :
             LET s == Observed(f, voice)
                 at == Len(s.audio) IN
             \/ /\ Begins(s)
                /\ MaybePartial([s EXCEPT !.speaking = TRUE, !.runStart = at,
                                          !.state = "speaking"])
             \/ /\ Ends(s)
                /\ Transcribe("final", [s EXCEPT !.speaking = FALSE,
                                                 !.runStart = at,
                                                 !.state = "finalizing"])
             \/ /\ ~Begins(s) /\ ~Ends(s)
                /\ MaybePartial(s)
       /\ UNCHANGED heard

(* The frames before the current one may end an utterance; the current one *)
(* then begins another.                                                    *)
Feed ==
    /\ phase = "feed"
    /\ IF Over /\ wake
       THEN /\ pending' = <<Last(pending)>>
            /\ session' = NewSession
            /\ UNCHANGED <<phase, purpose, heard>>
       ELSE /\ Accepts(session)
            /\ pending' = Tail(pending)
            /\ FeedAudio(Head(pending))
    /\ UNCHANGED <<socket, inflight>>

-----------------------------------------------------------------------------
(* flush() and abort(): the browser's requests on the current utterance.   *)

(* _finalize: without a voice in it an utterance is not transcribed.       *)
Flush ==
    /\ phase = "receive"
    /\ ~Over
    /\ IF session.speechSeen
       THEN /\ Transcribe("final", [session EXCEPT !.speaking = FALSE,
                                                   !.state = "finalizing"])
            /\ UNCHANGED heard
       ELSE /\ Reply(Closed(session))
            /\ heard' = received
    /\ UNCHANGED <<socket, pending, inflight>>

Abort ==
    /\ phase = "receive"
    /\ epoch < MaxAborts
    /\ IF wake THEN epoch' = epoch + 1 /\ recent' = <<>>
               ELSE UNCHANGED <<epoch, recent>>
    /\ IF Over THEN UNCHANGED <<session, phase, purpose>>
               ELSE Reply(Closed(session))
    /\ heard' = received
    /\ UNCHANGED <<wake, received, pending, inflight>>

-----------------------------------------------------------------------------
(* TranscriptionGuard.run()                                                *)

FreeSlots == Slots - inflight

(* What the answer does: a partial one leaves the utterance as it is, the  *)
(* final one closes it, whether it is a text, a question or an error.      *)
Conclude ==
    /\ phase' = "emit"
    /\ \/ /\ purpose = "partial"
          /\ UNCHANGED <<session, heard>>
       \/ /\ purpose = "final"
          /\ session' = Closed(session)
          /\ heard' = Last(session.audio)
    /\ UNCHANGED <<socket, pending, purpose>>

(* Nobody queues behind an abandoned transcription.                        *)
Submit ==
    /\ phase = "submit"
    /\ \/ /\ FreeSlots > 0
          /\ inflight' = inflight + 1
          /\ phase' = "wait"
          /\ UNCHANGED <<socket, pending, session, purpose, heard>>
       \/ /\ FreeSlots <= 0
          /\ Conclude
          /\ UNCHANGED inflight

(* The recogniser answers or raises in time.                               *)
Result ==
    /\ phase = "wait"
    /\ inflight' = inflight - 1
    /\ Conclude

(* transcribe_deadline_sec is over: the answer is abandoned, its thread    *)
(* cannot be.                                                              *)
Mutant_WaitForever == FALSE
DeadlineOver == phase = "wait"

GiveUp ==
    /\ DeadlineOver
    /\ Conclude
    /\ UNCHANGED inflight

Abandoned == IF phase = "wait" THEN inflight - 1 ELSE inflight

AbandonedEnds ==
    /\ Abandoned > 0
    /\ inflight' = inflight - 1
    /\ UNCHANGED <<socket, phase, pending, session, purpose, heard>>

-----------------------------------------------------------------------------

(* The events go to the browser, which may have left.                      *)
Emit ==
    /\ phase = "emit"
    /\ \/ phase' = IF pending = <<>> THEN "receive" ELSE "feed"
       \/ phase' = "over"
    /\ UNCHANGED <<socket, pending, session, purpose, inflight, heard>>

(* A disconnect, a close, or a frame of more than MAX_STT_FRAME_BYTES.     *)
Hangup ==
    /\ phase = "receive"
    /\ phase' = "over"
    /\ UNCHANGED <<socket, pending, session, purpose, inflight, heard>>

Serve == Feed \/ Submit \/ GiveUp \/ Emit

Next ==
    \/ ReceiveFrame \/ Flush \/ Abort \/ Hangup
    \/ Serve
    \/ Result \/ AbandonedEnds

(* The server's threads go on.  That the recogniser ever answers is not    *)
(* assumed, nor that the browser sends anything.                           *)
Spec == Init /\ [][Next]_vars /\ WF_vars(Serve)

-----------------------------------------------------------------------------

(* An utterance is what was said since the one before it ended and since   *)
(* the browser's last abort, each frame once and in order: an answer to a  *)
(* question of the dashboard is never an echo of the words before it.      *)
UtteranceIsNew ==
    \A i \in DOMAIN session.audio :
        ~Over => /\ session.audio[i] > heard
                 /\ i > 1 => session.audio[i] = session.audio[i - 1] + 1

(* Throwing long silence away does not cut off the first frames of         *)
(* somebody who has just begun to speak: the voice heard so far, too short *)
(* to count as speech yet, is fed again.                                   *)
Starting == IF session.run = "voice"
            THEN Range(SubSeq(session.audio, session.runStart, Len(session.audio)))
            ELSE {}

SpeechNotCut ==
    [][session.state = "listening" /\ session'.audio = <<>> =>
          Starting \subseteq Range(pending')]_vars

(* However long a transcription takes, and however many were abandoned,    *)
(* the socket comes back for the next message.                             *)
Answers == phase \in Working ~> phase \notin Working
=============================================================================
