---------------------------- MODULE VoiceDispatch ----------------------------
(***************************************************************************)
(* From the four endpoints (app/api/voice.py) through run_for_endpoint()   *)
(* (app/dispatch.py) to the two pipelines, the realtime one wrapped in     *)
(* RealtimeWithFallback (app/pipelines/fallback.py) when the settings say  *)
(* so (app/pipelines/factory.py).  Both pipelines are PipelineContract; an *)
(* action here joins a step of theirs with what the wrapper and the        *)
(* response do before the next suspension point.  pc[t] names the call     *)
(* that turn t is waiting in:                                              *)
(*                                                                         *)
(*   new       not requested yet                                           *)
(*   first     in `primary.__anext__()`: nothing was delivered             *)
(*   relaying  at or after `yield first`                                   *)
(*   replaying in `_fall_back()`'s stream of the traditional pipeline      *)
(*   rerunning in `await self._fallback.run(request)`                      *)
(*   direct    in a pipeline that is not wrapped                           *)
(*   running   in `await self._primary.run(request)`                       *)
(*   ended                                                                 *)
(***************************************************************************)
EXTENDS Naturals, FiniteSets

CONSTANT Turn

VARIABLES
  enabled,   \* settings.realtime_fallback_enabled
  pc,
  endpoint,  \* architecture and delivery of each turn
  served,    \* the paths whose events the client was sent
  answered,  \* what the HTTP response is
  fallbacks, \* EventCounters: fallbacks of the realtime path
  realtimePhase, realtimeTurns, realtimeErrors,
  slowPhase, slowTurns, slowErrors

realtime == <<realtimePhase, realtimeTurns, realtimeErrors>>
slow     == <<slowPhase, slowTurns, slowErrors>>
vars == <<enabled, pc, endpoint, served, answered, fallbacks, realtime, slow>>

R == INSTANCE PipelineContract
  WITH phase <- realtimePhase, turns <- realtimeTurns, errors <- realtimeErrors
S == INSTANCE PipelineContract
  WITH phase <- slowPhase, turns <- slowTurns, errors <- slowErrors

\* ENDPOINT_MAP; /slow and /stream are the same.  A complete realtime turn has no
\* endpoint, but run_turn() accepts it.
Endpoints == [architecture : {"realtime", "traditional"}, delivery : {"stream", "complete"}]

Answers == {"none", "sse", "json", "problem"}
Places  == {"new", "first", "relaying", "replaying", "rerunning", "direct", "running", "ended"}

Init ==
  /\ enabled \in BOOLEAN
  /\ pc = [t \in Turn |-> "new"]
  /\ endpoint \in [Turn -> Endpoints]
  /\ served = [t \in Turn |-> {}]
  /\ answered = [t \in Turn |-> "none"]
  /\ fallbacks = 0
  /\ R!Init /\ S!Init

-----------------------------------------------------------------------------
Complete(t)   == endpoint[t].delivery = "complete"
IsRealtime(t) == endpoint[t].architecture = "realtime"
Wrapped(t)    == IsRealtime(t) /\ enabled

GoTo(t, from, to) == pc[t] = from /\ pc' = [pc EXCEPT ![t] = to]

\* Mutation: no handler is installed, and an error is Starlette's plain text.
AnswerPlain(t, how) ==
  answered' = [answered EXCEPT ![t] =
    IF ~Complete(t) THEN "sse" ELSE IF how = "problem" THEN "text" ELSE how]

\* A streaming endpoint sends the status and headers of its response before it pulls
\* the first event; /complete answers when the turn is over.
Answer(t, how) ==
  answered' = [answered EXCEPT ![t] = IF Complete(t) THEN how ELSE "sse"]

Deliver(t, path) == served' = [served EXCEPT ![t] = @ \cup {path}]

same == <<enabled, endpoint>>

-----------------------------------------------------------------------------
(* A turn without the wrapper.                                             *)

RunDirect(t) ==
  /\ ~Wrapped(t) /\ GoTo(t, "new", "direct")
  /\ IF IsRealtime(t) THEN R!Begin(t) /\ UNCHANGED slow ELSE S!Begin(t) /\ UNCHANGED realtime
  /\ IF Complete(t) THEN UNCHANGED answered ELSE Answer(t, "sse")
  /\ UNCHANGED <<same, served, fallbacks>>

DirectEvent(t) ==
  /\ pc[t] = "direct"
  /\ IF Complete(t) THEN UNCHANGED served ELSE Deliver(t, endpoint[t].architecture)
  /\ UNCHANGED <<same, pc, answered, fallbacks, realtime, slow>>

DirectCompletes(t) ==
  /\ GoTo(t, "direct", "ended")
  /\ IF IsRealtime(t) THEN R!Complete(t) /\ UNCHANGED slow ELSE S!Complete(t) /\ UNCHANGED realtime
  /\ Answer(t, "json")
  /\ UNCHANGED <<same, served, fallbacks>>

DirectFails(t) ==
  /\ GoTo(t, "direct", "ended")
  /\ IF IsRealtime(t) THEN R!Fail(t) /\ UNCHANGED slow ELSE S!Fail(t) /\ UNCHANGED realtime
  /\ Answer(t, "problem")
  /\ UNCHANGED <<same, served, fallbacks>>

-----------------------------------------------------------------------------
(* RealtimeWithFallback.                                                   *)

\* stream() and run() start the realtime turn.
StartWrapped(t) ==
  /\ Wrapped(t) /\ GoTo(t, "new", IF Complete(t) THEN "running" ELSE "first")
  /\ R!Begin(t)
  /\ IF Complete(t) THEN UNCHANGED answered ELSE Answer(t, "sse")
  /\ UNCHANGED <<same, served, fallbacks, slow>>

\* Text input: a ValueError before anything is awaited, re-raised as the caller's.
RejectText(t) ==
  /\ IsRealtime(t) /\ GoTo(t, "new", "ended")
  /\ R!Reject(t)
  /\ Answer(t, "problem")
  /\ UNCHANGED <<same, served, fallbacks, slow>>

FirstEvent(t) ==
  /\ GoTo(t, "first", "relaying")
  /\ Deliver(t, "realtime")
  /\ UNCHANGED <<same, answered, fallbacks, realtime, slow>>

\* Mutation: the fallback is recorded when it has succeeded.
FallBackUnrecorded(t, from) ==
  /\ GoTo(t, from, IF Complete(t) THEN "rerunning" ELSE "replaying")
  /\ R!Fail(t) /\ S!Begin(t)
  /\ UNCHANGED <<same, served, answered, fallbacks>>

\* An exception that is no ValueError, before anything was delivered: the error is
\* counted by the realtime pipeline, the fallback recorded, and the turn started
\* again on the slow path, in one step.
FallBack(t, from) ==
  /\ GoTo(t, from, IF Complete(t) THEN "rerunning" ELSE "replaying")
  /\ R!Fail(t) /\ S!Begin(t)
  /\ fallbacks' = fallbacks + 1
  /\ UNCHANGED <<same, served, answered>>

PrimaryFails(t) == FallBack(t, "first") \/ FallBack(t, "running")

\* A ValueError of the caller's found later: audio that is not base64.
CallerErrs(t) ==
  /\ GoTo(t, "first", "ended") \/ GoTo(t, "running", "ended")
  /\ R!Fail(t)
  /\ Answer(t, "problem")
  /\ UNCHANGED <<same, served, fallbacks, slow>>

\* Mutation: the guard of the first event covers the whole stream.
MidstreamFallsBack(t) == FallBack(t, "relaying")

\* After the first event an exception propagates.
MidstreamFails(t) ==
  /\ GoTo(t, "relaying", "ended")
  /\ R!Fail(t)
  /\ UNCHANGED <<same, served, answered, fallbacks, slow>>

PrimaryCompletes(t) ==
  /\ GoTo(t, "relaying", "ended") \/ GoTo(t, "first", "ended") \/ GoTo(t, "running", "ended")
  /\ R!Complete(t)
  /\ Answer(t, "json")
  /\ UNCHANGED <<same, served, fallbacks, slow>>

ReplayEvent(t) ==
  /\ pc[t] = "replaying"
  /\ Deliver(t, "traditional")
  /\ UNCHANGED <<same, pc, answered, fallbacks, realtime, slow>>

FallbackCompletes(t) ==
  /\ GoTo(t, "replaying", "ended") \/ GoTo(t, "rerunning", "ended")
  /\ S!Complete(t)
  /\ Answer(t, "json")
  /\ UNCHANGED <<same, served, fallbacks, realtime>>

FallbackFails(t) ==
  /\ GoTo(t, "replaying", "ended") \/ GoTo(t, "rerunning", "ended")
  /\ S!Fail(t)
  /\ Answer(t, "problem")
  /\ UNCHANGED <<same, served, fallbacks, realtime>>

\* The client disconnects: a CancelledError or GeneratorExit is not an Exception.
Leave(t) ==
  /\ pc[t] \notin {"new", "ended"} /\ pc' = [pc EXCEPT ![t] = "ended"]
  /\ \/ R!Leave(t) /\ UNCHANGED slow
     \/ S!Leave(t) /\ UNCHANGED realtime
  /\ UNCHANGED <<same, served, answered, fallbacks>>

TurnStep(t) ==
  \/ RunDirect(t) \/ DirectEvent(t) \/ DirectCompletes(t) \/ DirectFails(t)
  \/ StartWrapped(t) \/ RejectText(t) \/ FirstEvent(t) \/ PrimaryFails(t)
  \/ CallerErrs(t) \/ MidstreamFails(t) \/ PrimaryCompletes(t)
  \/ ReplayEvent(t) \/ FallbackCompletes(t) \/ FallbackFails(t) \/ Leave(t)

Next == \E t \in Turn : TurnStep(t)

Spec == Init /\ [][Next]_vars

-----------------------------------------------------------------------------
(* Properties.                                                             *)

\* Every variable has its type.
TypeOK ==
  /\ enabled \in BOOLEAN /\ pc \in [Turn -> Places] /\ endpoint \in [Turn -> Endpoints]
  /\ served \in [Turn -> SUBSET {"realtime", "traditional"}]
  /\ answered \in [Turn -> Answers] /\ fallbacks \in Nat
  /\ realtimePhase \in [Turn -> R!Phases] /\ slowPhase \in [Turn -> R!Phases]
  /\ realtimeTurns \in Nat /\ realtimeErrors \in Nat
  /\ slowTurns \in Nat /\ slowErrors \in Nat

\* "replaying the turn would duplicate audio the client already played"
\* (fallback.py:10-11): no client is sent events of both paths, whenever the
\* realtime path fails.
NoReplayAfterDelivery == \A t \in Turn : Cardinality(served[t]) <= 1

Began(phase) == {t \in Turn : phase[t] # "idle"}
FellBack     == {t \in Began(slowPhase) : IsRealtime(t)}

\* "a fallback turn counts as a realtime turn + error and a traditional turn and one
\* realtime fallback" (fallback.py:14-16): the three counters, kept in three places,
\* agree on what happened, cancelled and rejected turns included.
MeteringHonest ==
  /\ fallbacks = Cardinality(FellBack)
  /\ realtimeTurns = Cardinality({t \in Turn : pc[t] # "new" /\ IsRealtime(t)})
  /\ slowTurns = Cardinality({t \in Turn : pc[t] # "new" /\ ~IsRealtime(t)}) + fallbacks
  /\ \A t \in FellBack : realtimePhase[t] = "failed"
  /\ realtimeErrors = Cardinality({t \in Turn : realtimePhase[t] = "failed"})
  /\ slowErrors = Cardinality({t \in Turn : slowPhase[t] = "failed"})

\* A fallback neither replays to a client what it was sent nor miscounts
\* (fallback.py:10-16).
FallbackHonest == NoReplayAfterDelivery /\ MeteringHonest

Raised(t) == slowPhase[t] = "failed" \/ (realtimePhase[t] = "failed" /\ slowPhase[t] = "idle")

\* "Every error leaves the service as a consistent Problem JSON body" (errors.py:3,
\* docs/api.md:195): the turns that /complete answers do, and only the errors of those
\* that nobody recovered; a streaming response has started, and ends without one.
ErrorsAreProblems ==
  \A t \in Turn : (answered[t] = "problem") <=> (Raised(t) /\ Complete(t))
=============================================================================
