---------------------------- MODULE TelephonyCall ----------------------------
(***************************************************************************)
(* One phone call: telephony_stream() of app/telephony/router.py, run_call *)
(* of app/telephony/bridge.py and TwilioMediaStream of                     *)
(* app/telephony/stream.py.  phase names where the call is:                *)
(*                                                                         *)
(*   ringing    in wait_for_start()                                        *)
(*   greeting   in _speak(GREETING)                                        *)
(*   listening  pulling stt.transcribe()                                   *)
(*   thinking   draining llm.generate()                                    *)
(*   speaking   in _speak(answer)                                          *)
(*   over       run_call() has returned or raised                          *)
(*   closed     the router has closed the socket                           *)
(*                                                                         *)
(* The transcriber is Deepgram's, in as much detail as a call can tell:    *)
(* its pump and its sender run in tasks of their own from the first pull   *)
(* on, whatever the call does, while the generator itself looks at its     *)
(* connection only as long as it is pulled.  ReconnectStream has the rest. *)
(* The caller's words are numbered in the order they are said; a media     *)
(* frame carries one.  Deepgram is external, and nothing is assumed of it. *)
(***************************************************************************)
EXTENDS Naturals, Sequences, SequencesExt

CONSTANTS
  MaxWords,     \* bound: words the caller says
  MaxReconnects \* max_reconnects of the transcriber

ConstantsAssumption == MaxWords \in Nat /\ MaxReconnects \in Nat

VARIABLES
  phase,
  caller,    \* "up", or "gone" after a disconnect
  started,   \* Twilio has sent the start frame
  stopped,   \* and the stop frame, behind all words
  said,      \* words the caller has said
  wire,      \* words on the socket, unread
  feed,      \* inbound_audio(): "reading", "over", or "bad" after it raised
  queued,    \* words in the transcriber's queue
  stt,       \* the transcriber's generator
  line,      \* its connection: "none", "up", "ended" by Deepgram in order, or "lost"
  sending,   \* its sender: "on", "told" after CloseStream, "unseen" after it failed
             \* while nobody waited for it, "none"
  heard,     \* words sent on this connection and not yet yielded
  attempts,  \* failures charged to the retry budget
  segments,  \* words of the current turn
  asked,     \* history: the words of all questions the model was asked
  lost       \* history: the words that a broken connection took along

inbound == <<caller, started, stopped, said, wire>>
pump    == <<feed, queued>>
session == <<stt, line, sending, attempts>>
talk    == <<segments, asked>>
vars == <<phase, inbound, pump, session, heard, talk, lost>>

Init ==
  /\ phase = "ringing"
  /\ caller = "up" /\ started = FALSE /\ stopped = FALSE /\ said = 0 /\ wire = << >>
  /\ feed = "reading" /\ queued = << >>
  /\ stt = "none" /\ line = "none" /\ sending = "none" /\ attempts = 0
  /\ heard = << >> /\ segments = << >> /\ asked = << >> /\ lost = {}

-----------------------------------------------------------------------------
(* The caller and Twilio.                                                  *)

TwilioStarts ==
  /\ caller = "up" /\ ~started /\ ~stopped
  /\ started' = TRUE
  /\ UNCHANGED <<phase, caller, stopped, said, wire, pump, session, heard, talk, lost>>

CallerSpeaks ==
  /\ caller = "up" /\ started /\ ~stopped /\ said < MaxWords
  /\ said' = said + 1 /\ wire' = Append(wire, said + 1)
  /\ UNCHANGED <<phase, caller, started, stopped, pump, session, heard, talk, lost>>

\* Hanging up: a stop frame, then or instead of it a disconnect.
HangsUp ==
  /\ caller = "up" /\ ~stopped
  /\ stopped' = TRUE
  /\ UNCHANGED <<phase, caller, started, said, wire, pump, session, heard, talk, lost>>

Disconnects ==
  /\ caller = "up" /\ caller' = "gone"
  /\ UNCHANGED <<phase, started, stopped, said, wire, pump, session, heard, talk, lost>>

-----------------------------------------------------------------------------
(* The call.                                                               *)

Started ==
  /\ phase = "ringing" /\ started
  /\ phase' = "greeting"
  /\ UNCHANGED <<inbound, pump, session, heard, talk, lost>>

NeverStarts ==
  /\ phase = "ringing" /\ ~started /\ (stopped \/ caller = "gone")
  /\ phase' = "over"
  /\ UNCHANGED <<inbound, pump, session, heard, talk, lost>>

\* _speak() sends its last frame and the mark; then the transcriber is pulled, and
\* opened the first time.
Utters == phase \in {"greeting", "speaking"}

SpeechEnds ==
  /\ Utters /\ caller # "gone"
  /\ phase' = "listening" /\ stt' = "open"
  /\ UNCHANGED <<inbound, pump, line, sending, attempts, heard, talk, lost>>

\* The model's answer; an empty one is not spoken.
Answered ==
  /\ phase = "thinking"
  /\ phase' \in {"speaking", "listening"}
  /\ UNCHANGED <<inbound, pump, session, heard, talk, lost>>

\* run_call() raises, and the exception leaves the transcriber where it was suspended or,
\* out of the transcriber itself, closed.
Raises ==
  /\ phase' = "over"
  /\ stt' = IF stt = "open" THEN (IF phase = "listening" THEN "closed" ELSE "dropped") ELSE stt

\* A provider raises, or the socket is gone when something is sent.
CallFails ==
  /\ phase \notin {"over", "closed"}
  /\ Raises
  /\ UNCHANGED <<inbound, pump, line, sending, attempts, heard, talk, lost>>

\* The router's finally clause; the exception was logged.
RouterCloses ==
  /\ phase = "over"
  /\ phase' = "closed"
  /\ UNCHANGED <<inbound, pump, session, heard, talk, lost>>

FinaliseTranscriber ==
  /\ stt = "dropped"
  /\ stt' = "closed"
  /\ UNCHANGED <<phase, inbound, pump, line, sending, attempts, heard, talk, lost>>

-----------------------------------------------------------------------------
(* The transcriber's tasks.                                                *)

Pumps == stt \in {"open", "dropped"} /\ feed = "reading"

PumpReads ==
  /\ Pumps /\ wire # << >>
  /\ wire' = Tail(wire) /\ queued' = Append(queued, Head(wire))
  /\ UNCHANGED <<phase, caller, started, stopped, said, feed, session, heard, talk, lost>>

\* Mutation: the stop frame is skipped like any other that carries no audio.
PumpEndsOnDisconnect ==
  /\ Pumps /\ wire = << >> /\ (caller = "gone" \/ phase = "closed")
  /\ feed' = "over"
  /\ UNCHANGED <<phase, inbound, queued, session, heard, talk, lost>>

\* The stop frame, a disconnect, or the router's close end inbound_audio().
PumpEnds ==
  /\ Pumps /\ wire = << >> /\ (stopped \/ caller = "gone" \/ phase = "closed")
  /\ feed' = "over"
  /\ UNCHANGED <<phase, inbound, queued, session, heard, talk, lost>>

\* A frame that is no JSON, or whose payload is no base64, raises in inbound_audio().
PumpChokes ==
  /\ Pumps
  /\ feed' = "bad"
  /\ UNCHANGED <<phase, inbound, queued, session, heard, talk, lost>>

Sends == stt \in {"open", "dropped"} /\ line = "up" /\ sending = "on"

SenderSends ==
  /\ Sends /\ queued # << >>
  /\ queued' = Tail(queued) /\ heard' = Append(heard, Head(queued))
  /\ UNCHANGED <<phase, inbound, feed, session, talk, lost>>

SenderCloses ==
  /\ Sends /\ queued = << >> /\ feed = "over"
  /\ sending' = "told"
  /\ UNCHANGED <<phase, inbound, pump, stt, line, attempts, heard, talk, lost>>

\* The exception of inbound_audio() comes out of the sender: at once where the generator
\* waits for it; if it is suspended at its yield, its next wait leaves the sender out.
SenderFails ==
  /\ Sends /\ queued = << >> /\ feed = "bad"
  /\ IF phase = "listening" THEN Raises /\ UNCHANGED sending
     ELSE sending' = "unseen" /\ UNCHANGED <<phase, stt>>
  /\ UNCHANGED <<inbound, pump, line, attempts, heard, talk, lost>>

\* Deepgram closes, told to or not, or the connection is lost.
LineGoes ==
  /\ line = "up" /\ line' \in {"ended", "lost"}
  /\ UNCHANGED <<phase, inbound, pump, stt, sending, attempts, heard, talk, lost>>

-----------------------------------------------------------------------------
(* What the pulled transcriber does and yields.                            *)

Pulled == phase = "listening" /\ stt = "open"

LineOpens ==
  /\ Pulled /\ line = "none"
  /\ line' = "up" /\ sending' = "on"
  /\ UNCHANGED <<phase, inbound, pump, stt, attempts, heard, talk, lost>>

\* A recoverable failure is charged; the one too many raises SttConnectionError.
Retries ==
  /\ attempts' = attempts + 1
  /\ IF attempts < MaxReconnects THEN UNCHANGED <<phase, stt>> ELSE Raises

LineFails ==
  /\ Pulled /\ line = "none"
  /\ Retries
  /\ UNCHANGED <<inbound, pump, line, sending, heard, talk, lost>>

\* The next session knows nothing of this one: what was sent and has not been yielded is
\* lost, and so is the word the sender had in hand, if any.  A connection that Deepgram
\* has closed in order counts as broken if the sender finds out first.
LineBreaks ==
  /\ Pulled /\ (line = "lost" \/ (line = "ended" /\ sending = "on" /\ queued # << >>))
  /\ Retries
  /\ line' = "none" /\ sending' = "none" /\ heard' = << >>
  /\ \/ lost' = lost \cup ToSet(heard) /\ UNCHANGED queued
     \/ /\ sending = "on" /\ queued # << >>
        /\ lost' = lost \cup ToSet(Append(heard, Head(queued))) /\ queued' = Tail(queued)
  /\ UNCHANGED <<inbound, feed, talk>>

\* Mutation: the segments are kept.
AskKeepsSegments(words) ==
  /\ segments' = words /\ asked' = asked \o words
  /\ phase' = IF words = << >> THEN phase ELSE "thinking"

\* The turn is over: its segments become the question, if there are any.
Ask(words) ==
  /\ segments' = << >> /\ asked' = asked \o words
  /\ phase' = IF words = << >> THEN phase ELSE "thinking"

\* Results come from the connection, also those that it had sent when it went.
Yields == Pulled /\ line # "none"

\* A final chunk that does not end the turn.
HearFinal ==
  /\ Yields /\ heard # << >>
  /\ segments' = Append(segments, Head(heard)) /\ heard' = Tail(heard)
  /\ UNCHANGED <<phase, inbound, pump, session, asked, lost>>

\* A final chunk that does.
HearLast ==
  /\ Yields /\ heard # << >>
  /\ Ask(Append(segments, Head(heard))) /\ heard' = Tail(heard)
  /\ UNCHANGED <<inbound, pump, session, lost>>

\* The signal alone, without a text.
HearBoundary ==
  /\ Yields
  /\ Ask(segments)
  /\ UNCHANGED <<inbound, pump, session, heard, lost>>

\* Deepgram's close ends the transcript, and with it the call, whether or not the audio
\* has ended; segments without the signal are dropped.  (A sender that failed unseen
\* raises here instead, which is one to the caller.)
TranscriptEnds ==
  /\ Pulled /\ line = "ended"
  /\ phase' = "over" /\ stt' = "closed"
  /\ UNCHANGED <<inbound, pump, line, sending, attempts, heard, talk, lost>>

-----------------------------------------------------------------------------
Twilio == TwilioStarts \/ CallerSpeaks \/ HangsUp \/ Disconnects

CallStep ==
  \/ Started \/ NeverStarts \/ SpeechEnds \/ Answered \/ CallFails
  \/ RouterCloses \/ FinaliseTranscriber

TaskStep ==
  \/ PumpReads \/ PumpEnds \/ PumpChokes
  \/ SenderSends \/ SenderCloses \/ SenderFails \/ LineGoes

Hearing == HearFinal \/ HearLast \/ HearBoundary

PullStep == LineOpens \/ LineFails \/ LineBreaks \/ TranscriptEnds

Next == Twilio \/ CallStep \/ TaskStep \/ Hearing \/ PullStep

Spec == Init /\ [][Next]_vars

\* The event loop runs what is ready; the model and the synthesiser answer or raise; a
\* connection is opened or refused; a word that is sent is sent.  Nothing is assumed of
\* the caller and of Deepgram.
Fairness ==
  /\ WF_vars(Started \/ NeverStarts)
  /\ WF_vars(SpeechEnds \/ (CallFails /\ Utters))
  /\ WF_vars(Answered \/ (CallFails /\ phase = "thinking"))
  /\ WF_vars(RouterCloses) /\ WF_vars(FinaliseTranscriber)
  /\ WF_vars(PumpReads \/ PumpEnds) /\ WF_vars(SenderSends \/ SenderCloses \/ SenderFails)
  /\ WF_vars(LineOpens \/ LineFails) /\ WF_vars(LineBreaks \/ TranscriptEnds)

FairSpec == Spec /\ Fairness

-----------------------------------------------------------------------------
(* Properties.                                                             *)

\* Every variable has its type, and the budget is kept.
TypeOK ==
  /\ phase \in {"ringing", "greeting", "listening", "thinking", "speaking", "over", "closed"}
  /\ caller \in {"up", "gone"} /\ {started, stopped} \subseteq BOOLEAN
  /\ said \in 0 .. MaxWords
  /\ feed \in {"reading", "over", "bad"}
  /\ stt \in {"none", "open", "dropped", "closed"}
  /\ line \in {"none", "up", "ended", "lost"}
  /\ sending \in {"none", "on", "told", "unseen"}
  /\ attempts \in 0 .. MaxReconnects + 1

\* The words on their way from the caller to the model, the oldest first.
Flow == asked \o segments \o heard \o queued \o wire

Ascending(words) == \A i, j \in DOMAIN words : i < j => words[i] < words[j]

\* However reading, thinking, speaking and reconnecting overlap, the model is asked the
\* caller's words in the order they were said and none of them twice (bridge.py:68-76,
\* "Multiple turns work until you hang up", docs/telephony.md); and every word is either
\* asked or on its way, or was lost with a connection of the transcriber that broke
\* (deepgram_stt.py:163-169): one that was lost never comes back in a later question.
EachWordAskedOnce ==
  /\ Ascending(Flow)
  /\ ToSet(Flow) \cup lost = 1 .. said
  /\ ToSet(Flow) \cap lost = {}
  /\ lost # {} => attempts > 0

Hungup == stopped \/ caller = "gone"
Closed == phase = "closed" /\ stt \in {"none", "closed"}

\* "stop and a disconnect both cleanly end iteration" (stream.py:60-61).  Whatever the
\* call is doing when the caller leaves, either it ends, its socket closed and the
\* transcriber's connection released, or Deepgram is told that the audio is over; once
\* Deepgram has closed as well, the call does end.  The exception is a frame that
\* could not be read while the call was thinking or speaking: the sender that failed of
\* it is not waited for (deepgram_stt.py:205) and tells Deepgram nothing.
HangUpEndsCall ==
  /\ Hungup ~> Closed \/ (line = "up" /\ sending \in {"told", "unseen"})
  /\ Hungup /\ line = "ended" /\ sending \in {"told", "unseen"} ~> Closed
=============================================================================
