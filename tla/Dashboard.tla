------------------------------ MODULE Dashboard ------------------------------
(***************************************************************************)
(* The reference dashboard, frontend/app.js: one page, whose callbacks     *)
(* (clicks, the microphone's grant, the recorder's stop, the stream of the *)
(* answer, the end of the playback, timers) run one at a time in any order *)
(* and share its variables.  Recordings and turns are numbered.            *)
(*                                                                         *)
(* What a page can promise depends on its user, who is one of three:       *)
(*   patient   waits until nothing is under way, an answer included        *)
(*   careful   clicks whenever the page lets them, to interrupt an answer  *)
(*             too, but starts no second microphone beside one that is on  *)
(*             or being asked for, which the browser shows                 *)
(*   hasty     clicks whenever the page lets them                          *)
(***************************************************************************)
EXTENDS Naturals, FiniteSets, FiniteSetsExt

CONSTANTS
  MaxRecordings, \* bound: microphones asked for
  MaxTurns       \* bound: requests made

ConstantsAssumption == MaxRecordings \in Nat /\ MaxTurns \in Nat

VARIABLES
  user,
  failed,   \* history: a granted microphone was not recorded, or its recorder ended by itself
  state,    \* idle, listening, thinking, speaking
  asks,     \* history: getUserMedia() calls made
  asking,   \* of these, in flight
  mic,      \* micStream: the latest one granted
  live,     \* recordings whose microphone is on
  recorder, \* the latest recorder, [n, on |-> whether it is not inactive]
  chunks,   \* whether there is anything in the list of chunks
  stopping, \* onstop events to come: [n, send]
  loops,    \* recordings whose voice-activity loop runs
  turns,    \* [1 .. MaxTurns -> the state of a turn]
  sounding, \* turns with audio scheduled on the shared AudioContext
  timers    \* pending setState("idle"): of errors, and of playbacks

mics == <<asks, asking, mic, live, recorder, chunks, stopping, loops>>
vars == <<user, failed, state, mics, turns, sounding, timers>>

TurnState == {"none", "encoding", "fetching", "streaming", "playing", "over"}

Init ==
  /\ user \in {"patient", "careful", "hasty"} /\ failed = FALSE
  /\ state = "idle" /\ asks = 0 /\ asking = 0 /\ mic = 0 /\ live = {} /\ loops = {}
  /\ recorder = [n |-> 0, on |-> FALSE] /\ chunks = FALSE /\ stopping = {}
  /\ turns = [t \in 1 .. MaxTurns |-> "none"] /\ sounding = {}
  /\ timers = [flash |-> 0, finish |-> 0]

\* The next request, in the state it starts with.
NewTurn(s) ==
  \E t \in DOMAIN turns :
    /\ turns[t] = "none" /\ \A u \in 1 .. t - 1 : turns[u] # "none"
    /\ turns' = [turns EXCEPT ![t] = s]

Open(t) == turns[t] \notin {"none", "over"}

NoTimer == timers.flash = 0 /\ timers.finish = 0

\* Nothing is under way that the page does not show, and no answer is.
Settled == asking = 0 /\ stopping = {} /\ NoTimer /\ sounding = {} /\ state # "speaking"

Clicks == user = "patient" => Settled
MicFree == user = "careful" => asking = 0 /\ live = {}

\* The bounds: a turn is left for every recording that may still become one.
MayAsk ==
  Cardinality({t \in DOMAIN turns : turns[t] = "none"})
    > asking + Cardinality(stopping) + (IF recorder.on THEN 1 ELSE 0)
MayRecord == MayAsk /\ asks < MaxRecordings

-----------------------------------------------------------------------------
(* The microphone.                                                         *)

\* The state changes only when the microphone is granted.
StartListening ==
  /\ Clicks /\ MicFree /\ MayRecord
  /\ asks' = asks + 1 /\ asking' = asking + 1
  /\ UNCHANGED <<failed, state, mic, live, recorder, chunks, stopping, loops, turns, timers>>

ClickIdle == state = "idle" /\ StartListening /\ UNCHANGED sounding

\* Barge-in: the nodes are stopped; the answer's stream is not.
ClickSpeaking == state = "speaking" /\ StartListening /\ sounding' = {}

\* The recorder starts, and with it the page listens.
Records(n) == recorder' = [n |-> n, on |-> TRUE] /\ state' = "listening"

\* What is done after the grant is outside the try: if the recorder cannot be made or
\* started the page stays as it is, with the microphone on; if the loop cannot, nothing
\* but a click ends the recording.
NotRecorded(n) ==
  /\ failed' = TRUE /\ UNCHANGED loops
  /\ \/ recorder' \in {recorder, [n |-> n, on |-> FALSE]} /\ UNCHANGED state
     \/ Records(n)

Granted ==
  /\ asking > 0 /\ asking' = asking - 1
  /\ mic' = mic + 1 /\ live' = live \cup {mic'} /\ chunks' = FALSE
  /\ \/ Records(mic') /\ loops' = loops \cup {mic'} /\ UNCHANGED failed
     \/ NotRecorded(mic')
  /\ UNCHANGED <<asks, stopping, turns, sounding, timers>>

\* A recorder that ends by itself, with its microphone or without, has no onstop yet.
RecorderEnds ==
  /\ recorder.on /\ recorder' = [recorder EXCEPT !.on = FALSE]
  /\ live' \in {live, live \ {recorder.n}} /\ chunks' \in {chunks, TRUE}
  /\ failed' = TRUE
  /\ UNCHANGED <<state, asks, asking, mic, stopping, loops, turns, sounding, timers>>

Flash == timers' = [timers EXCEPT !.flash = @ + 1]

Denied ==
  /\ asking > 0 /\ asking' = asking - 1
  /\ Flash
  /\ UNCHANGED <<failed, state, asks, mic, live, recorder, chunks, stopping, loops, turns, sounding>>

\* stopListening(), which cancels the loop that was scheduled last.  A recorder that has
\* stopped already has no turn to come, and the page thinks nevertheless.
StopListening(send, ended) ==
  /\ loops' = loops \ ended
  /\ recorder' = [recorder EXCEPT !.on = FALSE]
  /\ stopping' = IF recorder.on THEN stopping \cup {[n |-> recorder.n, send |-> send]} ELSE stopping
  /\ state' = IF ~recorder.on /\ send THEN "thinking" ELSE state
  /\ UNCHANGED <<failed, asks, asking, mic, live, chunks, turns, sounding, timers>>

Latest(S) == IF S = {} THEN {} ELSE {Max(S)}

ClickListening == Clicks /\ state = "listening" /\ StopListening(TRUE, Latest(loops))

\* A loop hears silence after speech, nothing at all, or too much.  The loops run in
\* turn in every frame: the last one scheduled is the one before it.
LoopEnds(n) ==
  LET before == {m \in loops : m < n}
  IN  /\ n \in loops
      /\ \E spoke \in BOOLEAN :
           StopListening(spoke, {n} \cup Latest(IF before = {} THEN loops ELSE before))

\* onstop, behind the recorder's last data, if any: all recordings share the list.
Recorded(stop) ==
  /\ chunks' \in {chunks, TRUE}
  /\ IF stop.send /\ chunks' THEN state' = "thinking" /\ NewTurn("encoding")
     ELSE state' = "idle" /\ UNCHANGED turns

\* Mutation: the tracks are not stopped.
StoppedKeepsMic ==
  \E stop \in stopping :
    /\ stopping' = stopping \ {stop} /\ Recorded(stop)
    /\ UNCHANGED <<failed, asks, asking, mic, live, recorder, loops, sounding, timers>>

\* The latest microphone is switched off, whichever recording has stopped.
Stopped ==
  \E stop \in stopping :
    /\ stopping' = stopping \ {stop} /\ Recorded(stop)
    /\ live' = live \ {mic}
    /\ UNCHANGED <<failed, asks, asking, mic, recorder, loops, sounding, timers>>

-----------------------------------------------------------------------------
(* The turns.                                                              *)

\* A suggested question.
ClickPill ==
  /\ Clicks /\ MayAsk /\ state = "idle"
  /\ state' = "thinking" /\ NewTurn("fetching")
  /\ UNCHANGED <<failed, mics, sounding, timers>>

Moves(t, from, to) == turns[t] \in from /\ turns' = [turns EXCEPT ![t] = to]

Encoded(t) ==
  /\ Moves(t, {"encoding"}, "fetching") /\ state' = "thinking"
  /\ UNCHANGED <<failed, mics, sounding, timers>>

Answers(t) ==
  /\ Moves(t, {"fetching"}, "streaming")
  /\ UNCHANGED <<failed, state, mics, sounding, timers>>

\* The first chunk changes the state; every chunk is scheduled behind the others.
Chunk(t) ==
  /\ Moves(t, {"streaming", "playing"}, "playing")
  /\ state' = IF turns[t] = "streaming" THEN "speaking" ELSE state
  /\ sounding' = sounding \cup {t}
  /\ UNCHANGED <<failed, mics, timers>>

\* Mutation: an error leaves the page as it is.
FailsSilently(t) ==
  /\ Moves(t, {"fetching", "streaming", "playing"}, "over")
  /\ UNCHANGED <<failed, state, mics, sounding, timers>>

\* A response that is not ok, or an exception: what was scheduled plays on.
Fails(t) ==
  /\ Moves(t, {"fetching", "streaming", "playing"}, "over")
  /\ Flash
  /\ UNCHANGED <<failed, state, mics, sounding>>

\* The stream ends: finishWhenPlaybackEnds().
Ends(t) ==
  /\ Moves(t, {"streaming", "playing"}, "over")
  /\ IF turns[t] = "playing" THEN timers' = [timers EXCEPT !.finish = @ + 1] ELSE Flash
  /\ UNCHANGED <<failed, state, mics, sounding>>

SoundEnds(t) ==
  /\ t \in sounding /\ sounding' = sounding \ {t}
  /\ UNCHANGED <<failed, state, mics, turns, timers>>

Flashed ==
  /\ timers.flash > 0 /\ timers' = [timers EXCEPT !.flash = @ - 1]
  /\ state' = "idle"
  /\ UNCHANGED <<failed, mics, turns, sounding>>

\* The delay is what was left to play when the stream ended.
Finished ==
  /\ timers.finish > 0 /\ timers' = [timers EXCEPT !.finish = @ - 1]
  /\ sounding' = {} /\ state' = "idle"
  /\ UNCHANGED <<failed, mics, turns>>

TurnGoesOn(t) == Encoded(t) \/ Answers(t) \/ Fails(t) \/ Ends(t)

Step ==
  \/ ClickIdle \/ ClickSpeaking \/ ClickListening \/ ClickPill
  \/ Granted \/ Denied \/ RecorderEnds \/ Stopped \/ Flashed \/ Finished
  \/ \E n \in loops : LoopEnds(n)
  \/ \E t \in DOMAIN turns : TurnGoesOn(t) \/ Chunk(t) \/ SoundEnds(t)

Next == Step /\ UNCHANGED user

Spec == Init /\ [][Next]_vars

Runs(action) == action /\ UNCHANGED user

\* The browser runs its callbacks and the service ends every stream; a recording ends
\* after MAX_LISTEN_MS.  Nothing is assumed of the user.
Fairness ==
  /\ WF_vars(Runs(Granted \/ Denied)) /\ WF_vars(Runs(Stopped))
  /\ WF_vars(Runs(Flashed)) /\ WF_vars(Runs(Finished))
  /\ WF_vars(Runs(\E n \in loops : LoopEnds(n)))
  /\ \A t \in 1 .. MaxTurns :
       /\ WF_vars(Runs(Encoded(t))) /\ WF_vars(Runs(Answers(t) \/ Fails(t)))
       /\ SF_vars(Runs(Fails(t) \/ Ends(t)))

FairSpec == Spec /\ Fairness

-----------------------------------------------------------------------------
(* Properties.                                                             *)

\* Every variable has its type.
TypeOK ==
  /\ user \in {"patient", "careful", "hasty"} /\ failed \in BOOLEAN
  /\ state \in {"idle", "listening", "thinking", "speaking"}
  /\ asks \in 0 .. MaxRecordings /\ asking \in 0 .. MaxRecordings /\ mic \in 0 .. MaxRecordings
  /\ live \subseteq 1 .. MaxRecordings /\ loops \subseteq 1 .. MaxRecordings
  /\ recorder \in [n : 0 .. MaxRecordings, on : BOOLEAN] /\ chunks \in BOOLEAN
  /\ stopping \subseteq [n : 0 .. MaxRecordings, send : BOOLEAN]
  /\ turns \in [1 .. MaxTurns -> TurnState] /\ sounding \subseteq 1 .. MaxTurns
  /\ timers \in [flash : Nat, finish : Nat]

\* A patient user sees what is going on, as long as every recording starts and is not cut
\* off: a microphone is on only while the page shows that it listens, one turn is under
\* way at most, and no callback that is still to come switches the page behind its back
\* (app.js:64-90, 124-152, 196-200).  It does not hold of an answer that was interrupted:
\* its later chunks and its end find the page listening.
ShownIsTrue ==
  user = "patient" /\ ~failed =>
    /\ live # {} => state = "listening"
    /\ \A t, u \in DOMAIN turns : Open(t) /\ Open(u) => t = u
    /\ (\E t \in DOMAIN turns : Open(t)) => state \in {"thinking", "speaking"}

\* Wherever a careful user's clicks fall, between the chunks, the end and the timer of an
\* answer they interrupt too, one microphone is on at most and will be switched off, and
\* a page that listens or thinks has something to come that takes it on, as long as every
\* recording starts and is not cut off (app.js:56-90, 103-120).
NothingLeftOver ==
  user # "hasty" /\ ~failed =>
    /\ live \subseteq {mic} /\ (live # {} => mic \in loops \/ stopping # {})
    /\ state = "listening" => live # {}
    /\ state = "thinking" => stopping # {} \/ ~NoTimer \/ \E t \in DOMAIN turns : Open(t)

\* Whatever the user clicks and the browser refuses, a page that shows it is speaking is
\* never stuck there: an answer is still coming or a timer will take the page back.
SpeakingWillEnd ==
  state = "speaking" => ~NoTimer \/ \E t \in DOMAIN turns : turns[t] = "playing"

\* All of them.
PageShowsWhatIs == ShownIsTrue /\ NothingLeftOver /\ SpeakingWillEnd

\* "streams the answer [...] and plays it (teal) -> idle" (app.js:3): whatever fails in a
\* turn and whichever answer was interrupted, the page comes back to idle.  It may not
\* once a recorder has ended by itself: stopListening() then leaves it thinking with no
\* turn to come; or when two microphones are on, whose loops end the one recording.
PageReturns == user # "hasty" /\ state # "idle" ~> failed \/ state = "idle"
=============================================================================
