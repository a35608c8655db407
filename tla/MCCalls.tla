------------------------------- MODULE MCCalls -------------------------------
(***************************************************************************)
(* What has to end, for TLC: the creation of Gemini's shared cache, one    *)
(* synthesize() or converse() call, one phone call, one turn of the slow   *)
(* path, and the dashboard's answers.  They are independent here, so       *)
(* `part`, chosen at the start, says which of them takes place.  Where the *)
(* others rest no fair action of theirs is enabled, so fairness demands    *)
(* nothing of them.                                                        *)
(***************************************************************************)
EXTENDS GeminiCache, TLC

CONSTANTS MaxWords, MaxReconnects, Frames, MaxAudio, Tenant, SessionId, MaxParts, MaxRecordings, MaxTurns

VARIABLES
  part,
  callPhase, caller, started, stopped, said, wire, feed, queued, stt, line, sending, heard,
  attempts, words, asked, lost,
  provider, pc, conn, inbox, emitted, finished, sender, sent, raised, read,
  stage, atYield, tenant, key, history, prompt, boundary, parts, finals, segments, answer,
  open, outcome, turnCount, errorCount, recorded,
  user, failed, state, asks, asking, mic, live, recorder, chunks, stopping, loops, turns,
  sounding, timers

callVars ==
  <<callPhase, caller, started, stopped, said, wire, feed, queued, stt, line, sending, heard,
    attempts, words, asked, lost>>
speechVars ==
  <<provider, pc, conn, inbox, emitted, finished, sender, sent, raised, read>>
slowVars ==
  <<stage, atYield, tenant, key, history, prompt, boundary, parts, finals, segments, answer,
    open, outcome, turnCount, errorCount, recorded>>

pageVars ==
  <<user, failed, state, asks, asking, mic, live, recorder, chunks, stopping, loops, turns,
    sounding, timers>>

Call   == INSTANCE TelephonyCall WITH phase <- callPhase, segments <- words
Speech == INSTANCE TtsStream
Slow   == INSTANCE TraditionalPipelineProofs WITH Turn <- {1}
Page   == INSTANCE Dashboard

ASSUME CallsAssumption ==
  /\ Call!ConstantsAssumption
  /\ Speech!ConstantsAssumption
  /\ Slow!ConstantsAssumption
  /\ Page!ConstantsAssumption

-----------------------------------------------------------------------------
SuiteInit ==
  /\ part \in {"cache", "call", "speech", "slow", "page"}
  /\ IF part = "speech" THEN TRUE ELSE provider = "cartesia"
  /\ IF part = "page" THEN TRUE ELSE user = "patient"
  /\ Init /\ Call!Init /\ Speech!Init /\ Slow!Init /\ Page!Init

SuiteNext ==
  /\ UNCHANGED part
  /\ \/ /\ part = "cache" /\ Next
        /\ UNCHANGED <<callVars, speechVars, slowVars, pageVars>>
     \/ /\ part = "call" /\ Call!Next
        /\ UNCHANGED <<vars, speechVars, slowVars, pageVars>>
     \/ /\ part = "speech" /\ Speech!Next
        /\ UNCHANGED <<vars, callVars, slowVars, pageVars>>
     \/ /\ part = "slow" /\ Slow!Next
        /\ UNCHANGED <<vars, callVars, speechVars, pageVars>>
     \/ /\ part = "page" /\ Page!Next
        /\ UNCHANGED <<vars, callVars, speechVars, slowVars>>

SuiteSpec ==
  /\ SuiteInit /\ [][SuiteNext]_<<part, vars, callVars, speechVars, slowVars, pageVars>>
  /\ Fairness /\ Call!Fairness /\ Speech!Fairness /\ Slow!Fairness /\ Page!Fairness

-----------------------------------------------------------------------------
(* The properties, each a conjunction of the modules' own where they are   *)
(* about one thing; DocumentUploadedOnce of GeminiCache is here already.   *)

\* Every variable has its type.
CallsTypeOK == TypeOK /\ Call!TypeOK /\ Speech!TypeOK /\ Slow!TypeOK /\ Page!TypeOK

\* No word of the caller is asked twice or out of order (bridge.py:68-76), and none is
\* missing but those that a broken connection took along (deepgram_stt.py:163-169).
EachWordAskedOnce == Call!EachWordAskedOnce

\* A synthesiser's call leaves no socket and no task, but for a socket whose closing is
\* cancelled (cartesia_tts.py:156-163); one that ends without an exception has said
\* everything (:155), and an error frame raises TtsError unless the sender had failed (:12).
SpokenInFullOrRaised == Speech!SpokenInFullOrRaised

\* A patient user is shown what is going on (app.js:64-90, 124-152); a careful one, who may
\* interrupt answers, is left with no microphone on that nothing will switch off, and no
\* state that nothing will change (app.js:56-90); for any user the page is never stuck
\* speaking (app.js:183-200).  The first two are of recordings that start and are not cut off.
PageShowsWhatIs == Page!PageShowsWhatIs

\* What has begun ends: the turns that wait for the cache are served (gemini_llm.py:92), a
\* caller who leaves ends the call and its transcriber, or Deepgram is told to end it and its
\* close does (stream.py:60-61), a synthesiser's call ends once the server has finished,
\* failed or gone (cartesia_tts.py:12-13), a turn of the slow path ends
\* (pipeline.py:95-105), with the transcriber it dropped (pipeline.py:216), and the page
\* comes back to idle unless a recorder failed or two microphones are on (app.js:3).
EverythingEnds ==
  /\ WaitersServed
  /\ Call!HangUpEndsCall
  /\ Speech!Terminates
  /\ Slow!TurnsEnd
  /\ Slow!ProvidersReleased
  /\ Page!PageReturns
=============================================================================
