# A TLA+ model of the voice agent backend

The repository is a FastAPI service that answers spoken questions.  A client
sends one *turn* (audio or text) and receives a stream of server-sent events:
transcripts, answer text, audio, and `done`.  There are two paths.  The
*traditional* path runs speech-to-text, a language model and text-to-speech in
sequence; the *realtime* path hands the audio to a voice-to-voice model over one
websocket.  Everything runs in one process on one asyncio event loop, so
concurrency means interleaving at `await` and at the `yield`s of the nested
generators that make up a response.

This directory holds TLA+ modules of that system, TLC configurations that check
them on small instances, and proofs that TLAPS checks for every instance.

## Inventory

| component | state it keeps | operations | made correct by |
|---|---|---|---|
| turn state machine (`session/state.py`) | state, history | `transition`, `barge_in` | the transitions its callers make are always allowed |
| realtime pipeline (`pipelines/realtime/pipeline.py`) | `_active_turns` | `stream`, `_barge_in_if_speaking` | registry holds live turns of its session; one takeover per reply; a barge-in never fails the new turn |
| OpenAI Realtime (`providers/openai_realtime.py`, `grok_realtime.py`) | `_active`, per call: queue, attempts, connection | `converse`, `interrupt` | connections never leak; interrupts reach the right session; retries end |
| transcribers (`deepgram_stt.py`, `elevenlabs_stt.py`) | per call: queue, attempts, connection | `transcribe` | audio in order, once, bounded loss; the stream ends; failures surface |
| event counters, usage, latency (`observability/`) | counts per path | `turn`, `error`, `fallback`, `record` | every turn counted once, errors only when it raised |
| traditional pipeline, `turn_taking.py` | none of its own; the sessions | `stream`, `run`, `take_turn` | a prompt ends with its own question; what is metered is remembered; what it opened is closed |
| fallback (`pipelines/fallback.py`) | none | `stream`, `run` | replay only before the first event; honest counters |
| sessions and memory (`session/store.py`, `memory.py`) | sessions by tenant and id | `resolve`, `add_turn`, `build` | isolation by tenant; the longest suffix that fits |
| rate limiter (`ratelimit.py`) | buckets by key | `check`, `_prune` | admissions bounded by burst and rate; memory bounded |
| authentication (`auth.py`), correlation and errors (`errors.py`) | context variables | middleware | the tenant of a turn is that of its request; every response but a preflight's has its id |
| dispatch and API (`dispatch.py`, `api/voice.py`) | none | four endpoints | errors are problems; no client hears two paths |
| telephony (`telephony/`) | one media stream per call | `run_call`, `inbound_audio`, `send_audio` | no word asked twice, none missing but those a broken connection took; a hang-up ends the call |
| synthesisers (`cartesia_tts.py`, `elevenlabs_tts.py`), `gemini_live.py` | one socket and one sender task per call | `synthesize`, `converse` | ends when the server does, leaves nothing behind, ends cleanly only when all was said |
| language models (`gemini_llm.py`, `groq_llm.py`) | Gemini's shared cache and its lock | `generate` | one cache, never replaced, nobody stranded |
| dashboard (`frontend/app.js`) | the page's state, recorder, timers | clicks and callbacks | what is shown is true; nothing is left on; the page comes back to idle |
| assembly (`main.py`, `config.py`, `context/`, factories) | `app.state` | start-up | what is configured is on, in the right order, or the service does not start |
| logging (`observability/logging.py`, `pii.py`) | context variables | `format`, `scrub` | nothing under a sensitive key is written and no match of a pattern |
| metrics and usage (`metrics.py`, `usage.py`) | samples, totals | `record`, `summary` | quantiles in order; rounding errors bounded |
| evaluation (`evaluation/`) | a report | `evaluate`, `grounding_report` | verdicts are backed; reports complete |
| tools, streaming schemas, scripts | construction and data | | |

The interactions that matter.  Every realtime turn of every session shares **one**
`OpenAIRealtime` object (`_active` is an attribute of it), and turns of one session
share the pipeline's `_active_turns` entry.  A transcriber's call is four parties (the
pump task, a sender task per connection, the generator, the remote server) around one
bounded queue.  A client that disconnects does not close the generators it was pulling,
which then wait for the event loop's finaliser.  All turns of both paths share the
session store and the counters, and the slow ones one language model with its document
cache.  A request passes five layers, and what is behind a layer runs in a task of its
own that goes on when the layer is done.  A phone call is a loop over a transcriber whose
pump reads the caller's audio whatever the loop does.

The hazards that follow from this, each at its line, are the `hazards` of
`PROJECT.json`; one without a property says why.

## Modules

| module | what it is |
|---|---|
| `TurnState` | the transition table and the operations of the state machine, as operators on states |
| `PipelineContract` | abstract specification: what a pipeline promises its caller and the counters |
| `RealtimePipeline`, `RealtimePipelineProofs` | concurrent realtime turns over the shared provider; implements `PipelineContract` |
| `TraditionalPipeline`, `TraditionalPipelineProofs` | concurrent turns of the slow path over the shared sessions; implements `PipelineContract` |
| `VoiceDispatch`, `VoiceDispatchProofs` | endpoints, both pipelines and the fallback, composed of two `PipelineContract`s |
| `AudioRelay` | abstract specification: what a streaming provider promises about the audio |
| `ReconnectStream`, `ReconnectStreamProofs` | pump, queue, sender, generator and peer of `transcribe()` and `converse()`; implements `AudioRelay` |
| `TtsStream` | one `synthesize()` or Gemini Live `converse()`: sender task and receive loop |
| `TelephonyCall` | one phone call, with the caller and Twilio |
| `GeminiCache` | the document cache behind its lock |
| `ConversationMemory` | the window of a session's turns that `build()` keeps |
| `RateLimiter` | the token buckets of `ratelimit.py` |
| `RequestPath`, `RequestPathProofs` | requests through the layers, and their responses on the way back |
| `AppAssembly` | start-up from the environment to the routes, and who is answered what |
| `Dashboard` | the browser page, its callbacks and timers |
| `LogLine` | context ids, scrubbing and one line of the log |
| `Measurements` | percentiles and usage as integer arithmetic |
| `Evaluation` | the evaluation loop, the scorers and the citation check |
| `MCRealtimePipeline`, `MCReconnectStream` | instances of one module for TLC |
| `MCService`, `MCCalls`, `MCRecords` | suites: instances of several independent modules for TLC |
| `ServiceProofs` | theorems about `RateLimiter`, `AppAssembly` and the suite of `MCService` |
| `CallsProofs` | theorems about `GeminiCache`, `TtsStream`, `Dashboard`, `TelephonyCall` and the suite of `MCCalls` |
| `RecordsProofs` | theorems about `ConversationMemory`, `Measurements`, `LogLine`, `Evaluation` and the suite of `MCRecords`; induction, recursion and sums for them |

Each module's "Mutation" operators are the plausible bugs that its properties are
shown to detect; nothing else uses them.

A suite checks modules that share no state in one run.  The variable `part`, chosen in
the initial state, says which module moves; the others rest in one initial state, so
the states are the sum of the modules' and not their product, and the fairness of a
module that rests demands nothing because none of its fair actions is enabled there.  A
suite's property is a conjunction of named properties of the modules, each of them
defined and explained in its module.  `MCReconnectStream` has `service` in the same role:
a transcriber's stream, or OpenAI's.

### RealtimePipeline

`pc[t]` names the suspension point of turn `t` (the list is in the module's header).
An action runs from one suspension point to the next, all calls on the way included:
`StartTurn` is `_stream_impl` from the session lookup to the connect call inside
`converse()`.  State and code:

| variable | code |
|---|---|
| `activeTurns` | `RealtimePipeline._active_turns` |
| `machine` | the `TurnStateMachine` of each turn; the pipeline's entries are references to them |
| `previous`, `target` | the local variables `previous` and `conn` held across the awaits of a barge-in |
| `activeConn` | `OpenAIRealtime._active`, by the turn that owns the connection |
| `link`, `attempts`, `ending` | `conn`, `attempts` and the way out of the `try` in `converse()` |
| `turnCount`, `errorCount`, `doneCount` | `EventCounters` and the `record` calls |
| `reached` | history: which turn's `response.cancel` reached whose connection |

A client's disconnection is a cancellation where the turn is awaiting
(`CancelIdle`, `CancelConnected`), and at a `yield` it is `Abandon`: the event loop
then closes `_stream_impl` first and `converse()` only when that frame is gone
(`FinalisePipeline`, `FinaliseProvider`).  `interrupt()` sends two messages with a
suspension after each; a connection that is already dead fails them at once, which
the code suppresses (`StartUnsentBargeIn`).  A failure to connect is retried only if it is
one of `_RECOVERABLE`; any other raises at once (`ConnectFails`), here and in
`ReconnectStream`.  The audio side of `converse()` is in `ReconnectStream`; here audio only
arrives.

### ReconnectStream

One stream.  `queue`, `pump`, `sender`, `loop`, `conn`, `attempts` are the locals and
tasks of `transcribe()`/`_run()`; `watched` says whether the sender was put in the set
`asyncio.wait()` waits for; `taken`, `arrived` and `opened` are history.  Three Boolean
parameters distinguish the providers: `ClosesStream` (the transcribers tell the service
that the audio is over), `Configures` (OpenAI sends `session.update` first) and
`BudgetRefills` (OpenAI resets `attempts` on output).  A source may raise an exception
the retry loop catches (`Flaky`) or not (`Fatal`).  Results carry no content, so a lost
result is invisible here.  A chunk has `arrived` when `conn.send()` has returned
(`deepgram_stt.py:248`): what a socket had buffered when it broke is lost to the service
too, but the code cannot know of it and neither can the model, so `LossBounded` and
`RelaysAudio` are about the chunks the code gives to a connection.

`AudioRelay` has three variables: how much of the source was dealt with, what arrived,
and whether there is a channel.  The mapping takes `position` to the chunks taken minus
the one in flight, and `channel` to whether a sender runs.

### RateLimiter

`RateLimiter.check()` over the dictionary of buckets.  The clock counts whole seconds.
Tokens are floats in the code, and `elapsed * rate` added on every call need not sum to what
was earned: with 6 per minute ten refills of 0.1 make 0.9999999999999999, and a client that
was told 10 seconds is refused in the tenth.  So tokens are counted in grains, `Grain` of
them in a sixtieth of a token, and a result that is rounded may miss its value by up to
`Slip` grains, chosen anew at each call (`Refills`, `Delays`).  `Slip` is far larger here
than a double's error, which is what makes both ways of rounding reachable with small
numbers; `RetryAfterWithinASecond` says what is true in spite of it, and the code's promise
("retry after the indicated delay", line 127) holds up to a second.  `AdmitNew` includes the
pruning that makes room for the key, ties between equally stale buckets being left open.  A
pruned key starts again with a full bucket, as the code's comment says it may;
`ForgottenOnlyInACrowd` says what it takes.  The clock is monotonic, as `time.monotonic` is;
clocks that tests swap in are not modelled.

### TraditionalPipeline

`stage[t]` is the state of the turn's own machine, which here is also where the turn is,
and `atYield[t]` tells a turn that waits for its provider from one suspended at the
`yield` of an event.  Every session has its list of turns in `history`, keyed by tenant
and id as `SessionStore` does; a request without an id gets a fresh one.

| variable | code |
|---|---|
| `tenant`, `key` | `current_tenant()` and the session `resolve()` returned |
| `history` | `Session.turns` of each session |
| `prompt` | the turns that `memory.build()` and the prompt were given |
| `boundary`, `segments`, `answer` | the chunk `take_turn()` holds, `len(segments)`, `len(answer_parts)` |
| `open` | the provider generators not closed: one that is dropped stays until `Finalise` |
| `turnCount`, `errorCount`, `recorded` | `EventCounters`, `LatencyMetrics`, `UsageMetrics` |

A turn may fail at every await (`ProviderFails`), be cancelled there (`Cancel`), or be
dropped at a yield (`Abandon`).  `HearSilence` and `EndListening` leave the transcriber's
generator open: `take_turn()` returns, and nobody closes what it was pulling.  Texts are
counts of their parts.

### VoiceDispatch

Each turn has an endpoint (architecture and delivery) and a place `pc[t]`: in which of
the awaits of `stream()`/`run()` of `RealtimeWithFallback` it waits.  The two pipelines
are two instances of `PipelineContract`, which `RealtimePipeline` and
`TraditionalPipeline` are shown to implement, so an action here joins one step of a
contract with what the wrapper and the response do next: `PrimaryFails` is
`except Exception` before the first event, with `fallback()` and the start of the slow
turn in it.  `served` is which paths the client was sent events of, `answered` what the
HTTP response became.

### RequestPath and AppAssembly

`RequestPath` has two places per request, because `BaseHTTPMiddleware.call_next()` runs
what is further in in a task of its own: `outer[r]` is the layer that acts, `inner[r]` the
endpoint's task, which goes on after the layers have returned.  `outerAuth` and
`innerAuth` are the context variable in the two tasks, `stateAuth` is
`request.state.auth`.  A response picks up its headers on the way out.  Which layers are
installed is an initial choice; the decoding of a token is external.  A request has an
`origin` that is listed or not, or none.  A browser's preflight is answered by Starlette's
CORS layer, the outermost (`AnswerPreflight`), with 200 or 400 and without an id
(`test_cors.py:45-65`), so `errors.py:3` and `docs/api.md:195` do not hold of it and
`EveryResponseTraceable` excepts it.  Without CORS it passes the layers like any request.

`AppAssembly` is `create_app()`: every environment (11 settings) goes through validation,
the document, the pipelines, the layers and the routes, and then answers requests of
every kind of caller.  Here the order in which the layers are added decides their order,
and a setting that makes a step raise ends the start-up.  The media socket of
`router.py:61` is among the routes; HTTP layers do not see it, and it accepts whoever
connects, as the code does (the signature is the webhook's).

### TtsStream and TelephonyCall

`TtsStream` is the generator (`pc`, by its await), the sender task, the connection and its
unread frames.  The two `finally` clauses are the places `stopping` and `closing`; an
exception on its way out is `raised`, replaced by a later one as in Python.  `provider` is
whose call it is: only Cartesia's frames raise `TtsError`, ElevenLabs' loop does not look at
the done frame, and Gemini Live is never told that the audio is over
(`gemini_live.py:119-121`).  A call may be cancelled in both clauses: in `closing`
`CancelledError` passes `suppress(Exception)`, replaces the exception on its way and may
leave the handshake undone (`CancelClosing`, place `cut`).

`TelephonyCall` is `run_call()` with the router around it and Deepgram's transcriber inside,
in as much detail as a call can tell.  Words are numbers, a media frame carries one, and
each is on one of `wire`, `queued`, `heard`, `segments`, `asked`, or `lost`.  The pump and
the sender go on while the call thinks or speaks (`PumpReads`, `SenderSends`), which is why
a word said into a reply is not lost; but a connection that breaks takes along what it was
sent and has not yielded, and the word in the sender's hand (`LineBreaks`).  A bad frame
raises in `inbound_audio()` and comes out of the sender (`PumpChokes`, `SenderFails`),
unseen if the generator is at its yield, the hang of the finding `SenderFailureSurfaces`.
Deepgram may close early, late or never.

### GeminiCache

`phase[t]` is where `generate()` is.  The lock is taken without waiting only if it is free
and nobody waits, as `asyncio.Lock` does; a cancelled waiter leaves the queue.  A creation
that raises or is cancelled releases the lock, and the content may have been made at Gemini
or not (`GivesUp`): the answer of a create may be lost.  Such an upload is never used, and
the next turn makes another.

### Dashboard

Every callback of `app.js` is an action on the page's shared variables.  What follows the
grant of the microphone is outside the `try` (`app.js:69-73`): if the recorder cannot be made
or started the page stays as it is, with the microphone on, and if the voice detection
cannot start nothing but a click ends the recording (`NotRecorded`).  A recorder may also
end by itself (`RecorderEnds`); `stopListening()` then leaves the page thinking with no turn
to come (`app.js:89`), and only a reload helps.  `failed` records that either has happened.
All recordings share the list of chunks, and an empty one makes no turn (`Recorded`).

The user is one of three.  A *patient* one waits until no callback is to come and no answer
is playing.  A *careful* one clicks whenever the page lets them, on an answer that is being
played too (barge-in), but does not ask for a microphone while one is on or asked for.  A
*hasty* one does that as well.  `ShownIsTrue` is for patient users: after a barge-in the
interrupted answer's stream goes on and its later chunks play, and take the page to
`speaking` or `idle` while the microphone is on (`app.js:60`, `135-151`), although the
README of the repository has barge-in as a feature (`README.md:37`).  What is left of it
then is `NothingLeftOver` (one microphone, and it will be switched off; a page that listens
or thinks has something to come) and `PageReturns`.  Only `SpeakingWillEnd` is for hasty
users as well.

### ConversationMemory, Measurements, LogLine, Evaluation

Pure algorithms in small state machines that feed them every input in bounds.
`ConversationMemory` is the scan of `build()` as a recursive function, against the set of
turns its docstring describes.  `Measurements` keeps seconds as integer milliseconds and
percentiles times 100, and rounds where the code does.  `LogLine` has nested extras,
`scrub()` with its key lists, and the three ids.  A text is the set of what is private in
it: matches of the four patterns, which may lie one in another, and what no pattern matches.
The patterns are substituted in turn (`Substitute`), and one that is substituted inside
another's match breaks it: of `Bearer 123456789012-AbCdEf` the digits go first and the rest
of the credential stays.  So `NothingSensitiveWritten` promises that no *match* is written,
and says when a remainder may be.  Ids and keys of dicts are written as they are: the
docstring of `JsonFormatter` calls the ids "set by our own code", but a correlation id and a
session id may be the caller's (`errors.py:83`), which is what the property says of them.
`Evaluation` grades every answer built of up to two citations, two keywords
and a refusal; article numbers are sequences of digits, because the code looks for a
citation as a substring.

## Runs

| run | instance | shows |
|---|---|---|
| `three_turns` | realtime, 3 turns, 2 sessions, no retries, 1 chunk | two barge-ins racing for one reply, with a bystander session: registry, takeovers, deregistration |
| `retries` | realtime, 2 turns, 2 sessions, 1 retry, 2 chunks, with fairness | drops at every point of `converse()`: no leaked socket, no stale `_active`, honest counters, legal transitions, the pipeline contract; retries end and abandoned turns are released |
| `streams` | a transcriber (3 chunks, queue of 2, 2 retries) or OpenAI (queue of 1, 1 retry), source may fail | the queue, the loss, the budget, the refinement of `AudioRelay`, and that a transcription ends |
| `service` | limiter: 3 keys, room for 2, 30 per minute, grains of a third, a slip of 1, 4 s; 2 requests, 2 subjects, 2 tenants, every origin; 2 dispatched turns; every environment | budgets, identities, responses, the fallback, and what start-up puts together |
| `calls` | 4 turns at the cache; one synthesiser call of 2 frames; a phone call of 3 words and 1 reconnect; one slow turn; a page with 2 recordings and 2 requests; with fairness | what has begun ends, and nothing is repeated or left behind on the way, or lost but with a connection or a creation that failed |
| `records` | sessions of up to 5 turns; 3 samples; extras nested 2 deep; 2 questions; slow path with 2 turns, 2 tenants, 1 session id, 1 part per provider | what is remembered, measured, logged and graded; prompts, tenants, memory and counters of interleaved turns |
| `cross_session`, `stale_barge_in`, `dropped_interrupt` | realtime | violated: see Findings |
| `unwatched_sender`, `truncated_audio` | streams | violated: see Findings |
| `unreadable_errors` | 1 request | violated: see Findings |

The suites' properties and their parts:

| property | parts |
|---|---|
| `ServiceTypeOK`, `CallsTypeOK` | the type invariants of the suite's modules, and the limiter's bound on its table |
| `ResponsesReadable` | `EveryResponseTraceable`, `LayersReadableByBrowsers` (`RequestPath`), `ErrorsAreProblems` (`VoiceDispatch`) |
| `FallbackHonest` | `NoReplayAfterDelivery`, `MeteringHonest` (`VoiceDispatch`) |
| `AssembledSafely` | `CloudIsAuthenticated`, `LimitsKnownCallers`, `OneStore`, `GroundedAsConfigured`, `OnlyTwilioCalls`, `PublicStaysPublic` (`AppAssembly`) |
| `DocumentUploadedOnce` | `OneCacheForAll`, `UploadsAccounted` (`GeminiCache`) |
| `SpokenInFullOrRaised` | `NothingLeftBehind`, `CleanEndSaidAll`, `ErrorFrameRaisesTtsError` (`TtsStream`) |
| `PageShowsWhatIs` | `ShownIsTrue`, `NothingLeftOver`, `SpeakingWillEnd` (`Dashboard`) |
| `EverythingEnds` | `WaitersServed`, `HangUpEndsCall`, `Terminates` (`TtsStream`), `TurnsEnd`, `ProvidersReleased`, `PageReturns` |
| `MemoryIsTheTail` | `KeepsWhatFits`, `NothingLostUnderBudget`, `WithinBudget` |
| `ObservedFaithfully` | `QuantilesSeparate`, `AudioMeteredWithinRounding`, `NothingSensitiveWritten`, `OperationalSurvives` |
| `GradedHonestly` | `ReportsAreComplete`, `GroundedIsBacked`, `VerdictsHonest` |

There is at least one mutation for every part but some of the type invariants.

Bounds.  Three turns are the least with which two can race for a third's reply; a second
session is enough to confuse sessions.  One chunk makes a turn speak; a second arrives
after a barge-in or a retry has moved the machine.  A queue shorter than the source
makes the pump wait, and with three chunks one can be in flight, one queued and one
held.  Audio refills the budget, so one retry lets a connection fail both before and
after a success; two let it fail twice in a row.  On the slow path two turns are enough
to interleave two questions in one session or to name the same id in two tenants; one
part per provider is enough for every yield.  Three keys in a table for two force a
pruning; at 30 per minute a token takes two seconds, or a third one when the refills were
rounded down, and four of clock let a refused key be told, come back a second short and
come back again.  In the proofs `Slip` may be any error up to a 64th of a second's refill.  Four turns at the
cache are one that creates, two that wait and one that never uses it.  Two frames of
text let the sender fail between them.  Three words let one be asked, one be lost with a
connection, and one follow on the next.  Two recordings are an answer's and its
interruption's.  Lengths of turns are chosen on both sides of a
multiple of four characters, and one above the whole budget.  `MaxAudio`, `MaxMessages`,
`MaxParts`, `MaxWords`, `MaxRecordings`, `MaxServed` bound what the world outside does;
nothing depends on their values.  Runs set `CHECK_DEADLOCK FALSE` because turns, calls
and streams come to an end, and the suites stop at their bounds.

Fairness.  `RealtimePipeline!FairSpec` assumes weak fairness of each turn's server
steps only: ready tasks run, sleeps are finite, `websockets.connect` and `close` have
timeouts.  It assumes nothing of clients and of the remote server, so a turn may stay
in `receiving` for ever.  For a transcriber's stream it is assumed in addition that the
source goes on, that the consumer pulls, and that the service closes a stream after it
was told `CloseStream`, which is its documented protocol and the only way `transcribe()`
ever returns; even so `Terminates` has to except a stream that hangs with a failed sender
nobody watches (see Findings).  Nothing is assumed of OpenAI's streams.  On the slow path
providers answer or raise, but a transcriber that has signalled the end of the utterance
may go on for ever (`Owes`).  Of a synthesiser's server nothing is assumed: `Terminates` says that a call ends
*once* the server has finished, failed or gone, or the consumer has dropped it, for with a
server that stays silent it waits for ever (no timeout is set).  On the phone the model and
the synthesiser answer or raise, connections are opened or refused, a frame that is sent is
taken, and nothing is assumed of the caller and of Deepgram: `HangUpEndsCall` says that
after a hang-up the call ends *or* Deepgram has been told that the audio is over, or cannot
be told because the sender failed unseen; and that in both cases its close ends the call.
At the cache the creation is answered or raises, and a woken waiter runs.  In the browser
callbacks run and the service ends its streams; strong fairness only says that a stream
whose chunks keep coming ends (`Fails` or `Ends`).  Nothing is assumed of the user.

## Findings

Each is a property quoted from the repository, which TLC finds violated.

- `InterruptStaysInSession` (`openai_realtime.py:154`): a barge-in cancels the reply of
  whichever session connected last.
- `BargeInCapturesUtterance` (`realtime/pipeline.py:139`): the reply ends, or another
  turn takes over, while `interrupt()` is awaited; `barge_in()` raises and the new turn fails.
- `DroppedOnlyWhileReconnecting` (`openai_realtime.py:191`): one turn's cleanup resets
  `_active` for all, and the next interrupt is dropped although its reply is live.
- `SenderFailureSurfaces` (`deepgram_stt.py:205`): a sender that fails while the generator
  is suspended at `yield` is never waited for again.
- `CleanEndMeansExhausted` (`deepgram_stt.py:216`): a server that closes early ends the
  transcript without an error although audio is left.
- `ErrorsReadableByBrowsers` (`errors.py:123`): `main.py:97-98` says that error responses
  carry the CORS headers; the answer to an exception nobody handles is built by
  ServerErrorMiddleware, outside all layers.

Where the code differs from what its documentation says and the difference could be
stated exactly, the property says what the code does; these are not separate runs:

- `turn_taking.py:13-15` promises that the transcriber is closed with the turn; the
  generator below `_transcribe()` is only dropped (`pipeline.py:216`), so
  `ProvidersReleased` holds through the event loop's finaliser and not at the boundary.
- `errors.py:3` says every error is a problem body; a streaming response that has started
  ends without one (`voice.py:55`; `ErrorsAreProblems`).
- `errors.py:3` and `docs/api.md:195` promise an id on every response; a preflight is
  answered before there is one (`main.py:99`; `EveryResponseTraceable`).
- `ratelimit.py:127` promises admission after the indicated delay; it may take a second more
  (`RetryAfterWithinASecond`).
- `cartesia_tts.py:12` says error frames raise `TtsError`; a sender that failed as well
  raises where it is awaited and takes its place (`:160`; `ErrorFrameRaisesTtsError`).
- `gemini_llm.py:7` says the document is uploaded once; an upload whose turn is cancelled
  before the assignment, or whose answer is lost, is made again (`:97`; `UploadsAccounted`).
- `pii.py:3` speaks of a guarantee; a pattern may break the match of a later one, and ids and
  keys of dicts are not scrubbed (`NothingSensitiveWritten`).
- `memory.py:32` promises a text within the token budget; separators, the summary line and
  a single long turn are not charged (`WithinBudget`).
- `docs/configuration.md:110` lists the paths that stay public; with the prefix `/` they
  do not (`PublicStaysPublic`).
- `evaluation/grounding.py:9` counts a citation as supported when the document has it; a
  citation that is the beginning of another number counts too (`GroundedIsBacked`).
- `app.js:2-4` describes idle, listening, thinking, speaking in this order; a user who
  clicks while callbacks are pending, or interrupts an answer, gets other orders, and a
  recorder that fails or ends by itself can leave the page in one of them (`ShownIsTrue`,
  `NothingLeftOver`, `PageReturns`).

## Proofs

All theorems are about a specification, for every value of the constants allowed by the
named assumptions of its module.  The proof modules `ServiceProofs`, `CallsProofs`,
`RecordsProofs` and `ReconnectStreamProofs` extend the modules TLC is given, `MCService` instantiates
`RequestPathProofs` and `VoiceDispatchProofs`, and `MCCalls` and `MCRecords`
`TraditionalPipelineProofs`, so that a theorem and a run speak of the same definition.  What
a module that is instantiated requires of its constants (`ConstantsAssumption`) is an
assumption of its theorems, and the module that instantiates it meets it.  A suite's step is
a step of one of its parts while the others rest (`SuiteSteps`), hence the suite implements each part's `Spec` (`SuiteParts`), and what is
proved of a part is proved of the suite.

`RealtimePipelineProofs`: the checked invariants are not inductive by themselves.  The
inductive invariant adds which variables are meaningful at which suspension point:
a turn that has a machine has a key, a turn holding a connection is the one `link`
says, a turn in the middle of a barge-in has a `previous` of its own session, the
machine of a turn at each `pc` is in the part of the table it can have reached.
`OwnTransitionsCorrect` rests on the last part: after a barge-in a machine is in
LISTENING, from which IDLE is allowed, and SPEAKING is asked for only by the first
chunk, before anyone can barge in.  `TakeoverUnique` rests on a machine never being
SPEAKING again once it was taken over.  The action properties follow from the
invariant, one case per action.

`ReconnectStreamProofs`: the inductive invariant (`IInv`) adds what the pump and the
sender hold, that a sender lives only in a session, and the account of connections.
The heart is `QueueStep`: the queue is the rest of the source, so a marker is always
alone when a sender takes it, and putting it back leaves the queue as it was
(`TakeMarkerQueue`).  Recovering from an error is proved once (`RecoverOutcome`) and used
for the three actions that do it.  `RelayImplemented` maps every step to `Open`, `Break`,
`Arrive`, `Lose`, `Finish`, `Discard` or a stutter.

The rate limiter (`ServiceProofs`): the inductive invariant is an account per bucket.  What
it gave and still holds is at most its capacity plus the refill since its creation, a slip
per second included (`Paid`); and at the second a refused key was told, its bucket lacks no
more of a token than the slips of a minute and of the delay, and a second earlier it lacks a
token but for as much (`Told`).  That these slips are less than a second's refill
(`64 * Slip <= Rate`) is what makes the next second enough.  The arithmetic is in lemmas of
its own (`EarningsAdd`, `EarningsGrow`, `RoundingUp`, `DelayFits`, `RefillFits`); there is
always a rounding to choose (`RefillExists`).

Gemini's cache (`CallsProofs`): the two properties of the cache are inductive once it is known that
whoever creates holds the lock and that there is no cache as long as somebody does
(`LockGuardsCreation`), which is what the second check of the double check preserves.  The
steps are of three kinds (`QuietStep`, `TakesLock`, `CreationGivenUp`) and the creation
itself.  Uploads are counted with the finite set of the turns that gave a creation up
(`OneMoreGivenUp`), each of which is over and never tries again (`GivenUpIsOver`).  None of
this needs the queue: it holds in whatever order waiters are served.  The queue has an invariant
of its own (`LineCorrect`): whoever waits is in line exactly once, so a cancelled waiter
leaves without taking another's place.

`VoiceDispatchProofs`: `Placed` says what the place where a turn waits tells about both
pipelines, about what its client was sent and about its answer; that a replay starts only
from `Streaming(t, {})` is what keeps a client from hearing two paths.  The counters follow
by counting: a step moves one turn into or out of each counted set.  `Turn` may be
infinite; that only finitely many turns have been requested is part of the invariant.

`RequestPathProofs`: `Orderly` says what the places of a request's two tasks tell about its
identity, its charge and its answer.  The step that matters is the authentication layer's
return while the endpoint's task goes on: `IdentityKept` speaks of the inner task's context,
which the reset does not touch.  `Accounted` is the sum of a budget and of the requests
charged to it; here too the set of requests may be infinite.

`TraditionalPipelineProofs`: turns of one session interleave in its history, which only
grows.  So the invariant says what a turn has put there itself (`InMemory`), that its prompt
is still the beginning of the session (`Prompted`), and that whatever a session holds was
said by turns of that session (`SaidAtHome`); each survives what others append
(`OthersAppend`).  Every step is of one of four kinds (`Kinds`): it opens a session, asks,
answers, or leaves the histories alone.

The refinement of `PipelineContract`, in both pipelines' proof modules (`ContractKept`): the
initial states map to initial states, and every step moves at most its own turn's phase and
the counters as `Begin`, `Reject`, `Fail`, `Complete`, `Leave` or a stutter of the contract
does.  In
the realtime pipeline the same case analysis (`StepCounted`) gives `CountersCorrect`: the
counters are the cardinalities of sets of turns that change by at most one.  What
the contract itself counts is a theorem of its own (`ContractCounters` in
`TraditionalPipelineProofs`): it uses no more than the contract's steps, and the slow
path's counters (`CountersCorrect`) follow from it and the refinement.  The contract is
all that `VoiceDispatch` knows of the pipelines, so `FallbackCorrect` holds over both.

The other components, one section each.  A synthesiser's call (`CallsProofs`): what the
position of the generator says about the connection, the sender and the exception on its way
(`CallPlaced`), and that the sender stops only at the last frame.  The page (`CallsProofs`):
the invariant has a layer per kind of user.  `SpeakingWillEnd` holds for all.  For one who
asks for no second microphone there is at most one, off, on or about to be switched off
(`CarefulIsSafe`, lemma `PageCareful`).  One who waits takes the page through stages
(`Resting`, `Asking`, `Hearing`, `Pausing`, `Answering`, `Returning`) in each of which at
most one callback can come (`OneThingAtATime`).  A phone call (`CallsProofs`): the words from
the last question to the wire are one ascending sequence, `Flow`, and a step does one of four
things to it: a word moves from a place to the next, which leaves it as it is
(`WordsMoveOn`); a word is said at its end (`WordSaid`); a connection that breaks takes a
piece out of it (`WordsLost`); or it rests (`WordsRest`).  The start-up (`ServiceProofs`): each step leaves to the next what it has
checked (`AssembledSoFar`), and the order in which the layers are added puts the limiter
inside authentication (`LayersOrdered`), from which what any request is answered follows
(`OutcomesSafe`).  The evaluation (`RecordsProofs`): the cases run and those to come are an
injection of an interval into the seed set (`Plan`), so at the end they cover it; this needs
the seed set to be finite (`SeedSetAssumption`), as a file is.

`RecordsProofs`: the other records are computed by recursion, so their proofs are by
induction over data.  The library's induction theorems take an operator as a parameter and
cannot be used; what replaces them is stated over *sets*, as consequences of the
well-foundedness of the order of the naturals.  A set that contains 0 and with every number
its successor is all of `Nat` (`Induction`); there is a function on `0 .. n` that starts at
a value and goes on as a given function says (`Recursion`), which is what makes a `CHOOSE`n
recursive function satisfy its equation.  On these rest:

- *Sums over finite sets*: the community module's `SumFunctionOnSet` is a recursive choice
  of elements; that the choice does not matter (`SumAdds`), that larger sets and larger
  summands have larger sums (`SumMonotone`), and that what is bounded summand by summand is
  bounded in sum (`SumBounded`).
- *The memory* (`MemoryCorrect`).  The invariant is that the memory is `Build(turns)`, which
  is a fact about one call.  The loop invariant (`Scanning`, or `Filled` from
  the first line that did not fit, preserved by `ScanStep`): after `k` rounds the scan has kept
  the last `k` lines and used what they cost; a suffix that does not fit has no longer one that does (`CostFromLines`).  The length of
  the text follows from what the tokens of a line cover (`CostsType`).
- *Quantiles* (`QuantilesCorrect`).  An ascending order of finitely many samples exists
  (`OrderExists`: rank each by how many are before it), so `Sorted` is one.  A percentile is
  between the two samples its rank is between (`Between`), grows with the rank
  (`PercentileMonotone`), and half of the places are on either side of the middle (`Halves`).
- *The log* (`LogCorrect`).  Induction over the depth (`DepthInduction`): the recursive
  functions for `scrub()` and for the leaves of a value exist and do what their equations say
  (`ScrubDefined`, `LeavesDefined`).  In a text the patterns are followed one after the other
  (`TextCleaned`, from `SubstituteFrom`): what is left is what no pattern matches,
  or the rest of a token that an earlier pattern had broken (`DigitsBreak`).  A leaf of a scrubbed
  value is redacted, or has no sensitive key above it and only such remains in it
  (`ScrubCleans`); a harmless leaf is a leaf of the scrubbed value, at the same place
  (`ScrubSpares`).  Of the ids, only one the caller gave can have anything in it
  (`IdsOfCallers`).
- *Metering* (`MeteringCorrect`).  A turn changes one account by at most two roundings;
  every amount has a rounding (`AmountsRounded`), so recording blocks no turn.

Every safety invariant and action property that a passing run checks is the conclusion of a
theorem.

For the sake of the proofs some definitions avoid recursive operators, `SortSeq` and
selection over sequences while saying the same: `Refuses` and `Outcomes` of
`AppAssembly` find the outermost layer that refuses by its position; `CancelWaiting` of
`GeminiCache` removes the waiter at its place instead of selecting all others; `TotalOf` of
`ConversationMemory` is a sum over positions; `Sorted` of `Measurements` chooses an order in
which the samples ascend; `Value`, `Scrub` and `Leaves` of `LogLine` are recursive functions
on the values of bounded depth, with one argument at a time and `IF` instead of `CASE`,
which the prover's translation of recursive functions requires; and the parts of a suite's
property are conjoined in their own module.

Only model-checked, and why.  The liveness properties need fairness and `ENABLED`, which the
prover does not have: `RetriesEnd`, `AbandonedTurnsReleased`, `TranscriptionEnds` and all of
`EverythingEnds`.

## Plan

Done: the components of the inventory with state, each with its hazards' properties; the
refinements; and a theorem for every safety invariant and action property.  What is left:
results with content in `ReconnectStream`, to say which of them a recovery loses.

## Not modelled

- Wire formats, base64, mu-law conversion, prompt texts and the SSE text of events: data
  that no property tells apart.  The streaming schemas are data classes with validation.
- `tools.dispatch()` has no caller in the service; that the model is given the tools is in
  `AppAssembly`.
- Groq's cut of an over-long document, the rates in `summary()` of the counters, names of
  models and keys in the configuration.
- `LogLine` leaves out objects that the formatter renders with `str()`.
- A cached content that expires at Gemini (`gemini_llm.py:93`): the code has no reaction to
  it, so a model could only say that turns fail.
- `scripts/smoke.py` is a client of the running service.
- The remote services, the event loop, Starlette and `websockets` are modelled from how
  the code uses them, and marked external where a definition stands for them.
