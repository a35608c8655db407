--------------------------- MODULE RealtimePipeline ---------------------------
(***************************************************************************)
(* Concurrent turns of the fast (voice to voice) path:                     *)
(* app/pipelines/realtime/pipeline.py over the one OpenAIRealtime provider *)
(* (app/providers/openai_realtime.py) that every session shares.           *)
(*                                                                         *)
(* The server is one asyncio event loop, so a step runs from one           *)
(* suspension point to the next: an `await` that may block, or a `yield`   *)
(* at which the generators wait for the response to pull.  pc[t] names the *)
(* suspension point of turn t:                                             *)
(*                                                                         *)
(*   new          the request has not been handled yet                     *)
(*   cancelling   in interrupt(), sending response.cancel                  *)
(*   clearing     in interrupt(), sending input_audio_buffer.clear         *)
(*   connecting   in converse(), connecting or sleeping before a retry     *)
(*   configuring  in converse(), sending session.update                    *)
(*   receiving    in _run(), waiting for the next server event             *)
(*   yielding     at `yield AudioChunk`, waiting to be pulled              *)
(*   backoff      in converse()'s except clause, sleeping after a drop     *)
(*   closing      in converse()'s finally clause, awaiting conn.close()    *)
(*   finishing    at `yield Done`, waiting to be pulled                    *)
(*   abandoned    dropped at a yield: the event loop will finalise the     *)
(*                pipeline's generator                                     *)
(*   orphaned     pipeline finalised, converse() still to be finalised     *)
(*   ended        nothing of the turn is left                              *)
(*                                                                         *)
(* The server side of the sockets is external: it may close or drop a      *)
(* connection at any time and send audio at any time.  Audio chunks carry  *)
(* no content here; MaxAudio bounds how many one turn receives.            *)
(***************************************************************************)
EXTENDS TurnState, Naturals, FiniteSets

CONSTANTS
  Turn,           \* requests that may arrive, each handled once
  Session,        \* turn keys: the (tenant, session id) pairs
  None,           \* Python's None
  MaxReconnects,  \* retry budget of converse()
  MaxAudio        \* bound: audio chunks one turn may receive

ASSUME ConstantsAssumption ==
  /\ None \notin Turn
  /\ None \notin Session
  /\ None \notin States
  /\ MaxReconnects \in Nat
  /\ MaxAudio \in Nat

VARIABLES
  pc,          \* where each turn is suspended
  key,         \* turn_key of each turn that has resolved its session
  machine,     \* state of the TurnStateMachine each turn created, or None
  previous,    \* the turn whose machine _barge_in_if_speaking holds, or None
  target,      \* the connection interrupt() holds, by its owner, or None
  activeTurns, \* _active_turns: the registered turn of each key, or None
  activeConn,  \* the provider's _active connection, by its owner, or None
  link,        \* the connection each converse() holds
  attempts,    \* consecutive failures, per converse()
  chunks,      \* audio chunks received, per turn (0: first_audio is None)
  ending,      \* how converse() goes on once its connection is closed
  outcome,     \* how each ended turn ended
  turnCount,   \* EventCounters: turns of this path
  errorCount,  \* EventCounters: errors of this path
  doneCount,   \* turns recorded in LatencyMetrics and UsageMetrics
  reached      \* <<t, o>>: t's response.cancel reached o's connection

connVars == <<link, attempts, chunks, ending>>
counters == <<turnCount, doneCount>>
vars == <<pc, key, machine, previous, target, activeTurns, activeConn, connVars,
          outcome, turnCount, errorCount, doneCount, reached>>

Endings   == {"retry", "clean", "error", "cancelled", "finalised"}
Errors    == {"caller_error", "barge_in_error", "state_error", "provider_error"}
Outcomes  == Errors \cup {"none", "done", "cancelled"}
Links     == {"none", "up", "closed", "dropped"}

Init ==
  /\ pc          = [t \in Turn |-> "new"]
  /\ key         = [t \in Turn |-> None]
  /\ machine     = [t \in Turn |-> None]
  /\ previous    = [t \in Turn |-> None]
  /\ target      = [t \in Turn |-> None]
  /\ activeTurns = [k \in Session |-> None]
  /\ activeConn  = None
  /\ link        = [t \in Turn |-> "none"]
  /\ attempts    = [t \in Turn |-> 0]
  /\ chunks      = [t \in Turn |-> 0]
  /\ ending      = [t \in Turn |-> "retry"]
  /\ outcome     = [t \in Turn |-> "none"]
  /\ turnCount   = 0
  /\ errorCount  = 0
  /\ doneCount   = 0
  /\ reached     = {}

-----------------------------------------------------------------------------
(* Pieces of the handlers.                                                 *)

\* The turn runs on to its next suspension point.
GoTo(t, at) ==
  /\ pc' = [pc EXCEPT ![t] = at]
  /\ UNCHANGED <<outcome, errorCount>>

\* Mutation: `except BaseException` also counts the clients that went away.
StreamOverCountsCancels(t, how) ==
  /\ outcome' = [outcome EXCEPT ![t] = how]
  /\ errorCount' = errorCount + (IF how \in Errors \cup {"cancelled"} THEN 1 ELSE 0)

\* stream() is over: an Exception is counted as an error of the path, a
\* CancelledError or a GeneratorExit is not.
StreamOver(t, how) ==
  /\ outcome' = [outcome EXCEPT ![t] = how]
  /\ errorCount' = IF how \in Errors THEN errorCount + 1 ELSE errorCount

End(t, how) ==
  /\ pc' = [pc EXCEPT ![t] = "ended"]
  /\ StreamOver(t, how)

\* stream() counts the turn before anything else.
CountTurn == turnCount' = turnCount + 1

\* Mutation: the finally clause does not look whose registration it removes.
DeregisteredBlindly(t, k, r) == [r EXCEPT ![k] = None]

\* The finally clause of _stream_impl, run by turn t of key k when r is registered.
Deregistered(t, k, r) == [r EXCEPT ![k] = IF @ = t THEN None ELSE @]

Deregister(t) == activeTurns' = Deregistered(t, key[t], activeTurns)

\* Mutation: _active stays set when its connection is closed.
TeardownKeepsActive(t) ==
  /\ UNCHANGED activeConn
  /\ link'   = [link EXCEPT ![t] = "none"]
  /\ target' = [u \in Turn |-> IF target[u] = t THEN None ELSE target[u]]

\* The finally clause of converse(), up to `await conn.close()`: the provider's
\* _active is reset whoever set it, and the socket can no longer be written.
Teardown(t) ==
  /\ activeConn' = None
  /\ link'   = [link EXCEPT ![t] = "none"]
  /\ target' = [u \in Turn |-> IF target[u] = t THEN None ELSE target[u]]

\* _barge_in_if_speaking goes on to interrupt() only for a reply being spoken.
MidSpeech(u) == u # None /\ machine[u] = "speaking"

\* interrupt() can hand its message to the connection without failing at once.
CanSend(o) == o # None /\ link[o] = "up"

\* _stream_impl from the creation of the state machine to its first await.  The
\* audio is decoded after the turn has registered, and may not be base64.
EnterTurn(t, k, machines) ==
  /\ key'     = [key EXCEPT ![t] = k]
  /\ machine' = [machines EXCEPT ![t] = StartedMachine]
  /\ \/ /\ activeTurns' = [activeTurns EXCEPT ![k] = t]
        /\ GoTo(t, "connecting")
     \/ /\ activeTurns' = Deregistered(t, k, [activeTurns EXCEPT ![k] = t])
        /\ End(t, "caller_error")

-----------------------------------------------------------------------------
(* The pipeline, up to converse().                                         *)

\* Text input on the fast path: ValueError before any session is resolved.
RejectInput(t) ==
  /\ pc[t] = "new"
  /\ CountTurn
  /\ End(t, "caller_error")
  /\ UNCHANGED <<key, machine, previous, target, activeTurns, activeConn,
                 connVars, doneCount, reached>>

\* No reply of the session is being spoken: no barge-in.
StartTurn(t, k) ==
  /\ pc[t] = "new"
  /\ ~MidSpeech(activeTurns[k])
  /\ CountTurn
  /\ EnterTurn(t, k, machine)
  /\ UNCHANGED <<previous, target, activeConn, connVars, doneCount, reached>>

\* A barge-in whose interrupt() sends nothing (no _active, or a dead one):
\* it returns without suspending.
StartUnsentBargeIn(t, k) ==
  /\ pc[t] = "new"
  /\ MidSpeech(activeTurns[k])
  /\ ~CanSend(activeConn)
  /\ CountTurn
  /\ previous' = [previous EXCEPT ![t] = activeTurns[k]]
  /\ EnterTurn(t, k, [machine EXCEPT ![activeTurns[k]] = BargeIn(@)])
  /\ UNCHANGED <<target, activeConn, connVars, doneCount, reached>>

\* A barge-in that sends response.cancel to whatever connection _active is.
StartBargeIn(t, k) ==
  /\ pc[t] = "new"
  /\ MidSpeech(activeTurns[k])
  /\ CanSend(activeConn)
  /\ CountTurn
  /\ key'      = [key EXCEPT ![t] = k]
  /\ previous' = [previous EXCEPT ![t] = activeTurns[k]]
  /\ target'   = [target EXCEPT ![t] = activeConn]
  /\ reached'  = reached \cup {<<t, activeConn>>}
  /\ GoTo(t, "cancelling")
  /\ UNCHANGED <<machine, activeTurns, activeConn, connVars, doneCount>>

\* response.cancel is out; the second message goes to the same connection.
SendClear(t) ==
  /\ pc[t] = "cancelling"
  /\ CanSend(target[t])
  /\ GoTo(t, "clearing")
  /\ UNCHANGED <<key, machine, previous, target, activeTurns, activeConn,
                 connVars, counters, reached>>

\* Mutation: the turn that lost the race swallows InvalidTransition and goes on.
ResumeBargeInRegardless(t) ==
  /\ pc[t] \in {"cancelling", "clearing"}
  /\ target' = [target EXCEPT ![t] = None]
  /\ EnterTurn(t, key[t], [machine EXCEPT ![previous[t]] = BargeIn(@)])
  /\ UNCHANGED <<previous, activeConn, connVars, counters, reached>>

\* interrupt() returns (a failed send is suppressed, and ends it early): only
\* now does previous.barge_in() look at the machine again.
ResumeBargeIn(t) ==
  /\ pc[t] \in {"cancelling", "clearing"}
  /\ target' = [target EXCEPT ![t] = None]
  /\ IF CanBargeIn(machine[previous[t]])
     THEN EnterTurn(t, key[t], [machine EXCEPT ![previous[t]] = BargeIn(@)])
     ELSE /\ End(t, "barge_in_error")
          /\ UNCHANGED <<key, machine, activeTurns>>
  /\ UNCHANGED <<previous, activeConn, connVars, counters, reached>>

-----------------------------------------------------------------------------
(* The provider's reconnect loop, and what the pipeline does with it.      *)

\* Mutation: a connection that opens refills the retry budget.
ConnectRefills(t) ==
  /\ pc[t] = "connecting"
  /\ link' = [link EXCEPT ![t] = "up"]
  /\ attempts' = [attempts EXCEPT ![t] = 0]
  /\ activeConn' = t
  /\ GoTo(t, "configuring")
  /\ UNCHANGED <<key, machine, previous, target, activeTurns, chunks, ending,
                 counters, reached>>

Connect(t) ==
  /\ pc[t] = "connecting"
  /\ link' = [link EXCEPT ![t] = "up"]
  /\ activeConn' = t
  /\ GoTo(t, "configuring")
  /\ UNCHANGED <<key, machine, previous, target, activeTurns, attempts, chunks,
                 ending, counters, reached>>

\* A failure is charged to the retry budget, which it may exceed.
Charge(t) == attempts' = [attempts EXCEPT ![t] = @ + 1]

\* Mutation: the budget is compared before the failure is charged.
ConnectFailsOffByOne(t) ==
  /\ pc[t] = "connecting"
  /\ \/ /\ Charge(t)
        /\ IF attempts[t] > MaxReconnects
           THEN End(t, "provider_error") /\ Deregister(t)
           ELSE GoTo(t, "connecting") /\ UNCHANGED activeTurns
     \/ End(t, "provider_error") /\ Deregister(t) /\ UNCHANGED attempts
  /\ UNCHANGED <<key, machine, previous, target, activeConn, link, chunks,
                 ending, counters, reached>>

\* A recoverable error is charged to the budget; any other, a refused handshake say, is
\* raised at once.
ConnectFails(t) ==
  /\ pc[t] = "connecting"
  /\ \/ /\ Charge(t)
        /\ IF attempts'[t] > MaxReconnects
           THEN End(t, "provider_error") /\ Deregister(t)
           ELSE GoTo(t, "connecting") /\ UNCHANGED activeTurns
     \/ End(t, "provider_error") /\ Deregister(t) /\ UNCHANGED attempts
  /\ UNCHANGED <<key, machine, previous, target, activeConn, link, chunks,
                 ending, counters, reached>>

\* External: the server ends the session (close frame), or the socket breaks.
PeerLeaves(t, how) ==
  /\ link[t] = "up"
  /\ how \in {"closed", "dropped"}
  /\ link' = [link EXCEPT ![t] = how]
  /\ UNCHANGED <<pc, key, machine, previous, target, activeTurns, activeConn,
                 attempts, chunks, ending, outcome, errorCount, counters, reached>>

Configured(t) ==
  /\ pc[t] = "configuring"
  /\ link[t] = "up"
  /\ GoTo(t, "receiving")
  /\ UNCHANGED <<key, machine, previous, target, activeTurns, activeConn,
                 connVars, counters, reached>>

\* Mutation: every chunk of a turn moves its machine to SPEAKING.
SpeaksAlways(received) == TRUE

\* The first chunk of a turn moves its machine to SPEAKING.
SpeaksNow(received) == received = 0

\* Audio arrives (also audio buffered before the server left): the budget is
\* reset, and the turn starts to speak.  (A refused transition would raise in the
\* pipeline and leave converse() to the event loop.)
ReceiveAudio(t) ==
  /\ pc[t] = "receiving"
  /\ chunks[t] < MaxAudio
  /\ attempts' = [attempts EXCEPT ![t] = 0]
  /\ chunks'   = [chunks EXCEPT ![t] = @ + 1]
  /\ IF SpeaksNow(chunks[t]) /\ ~Can(machine[t], "speaking")
     THEN /\ pc' = [pc EXCEPT ![t] = "orphaned"]
          /\ StreamOver(t, "state_error")
          /\ Deregister(t)
          /\ UNCHANGED machine
     ELSE /\ machine' = [machine EXCEPT ![t] = IF SpeaksNow(chunks[t]) THEN "speaking" ELSE @]
          /\ GoTo(t, "yielding")
          /\ UNCHANGED activeTurns
  /\ UNCHANGED <<key, previous, target, activeConn, link, ending, counters,
                 reached>>

\* The response pulls again after an AudioChunk.
PullNext(t) ==
  /\ pc[t] = "yielding"
  /\ GoTo(t, "receiving")
  /\ UNCHANGED <<key, machine, previous, target, activeTurns, activeConn,
                 connVars, counters, reached>>

\* The receive loop sees the server's close: the session finished cleanly.
SessionEnds(t) ==
  /\ pc[t] = "receiving"
  /\ link[t] = "closed"
  /\ Teardown(t)
  /\ ending' = [ending EXCEPT ![t] = "clean"]
  /\ GoTo(t, "closing")
  /\ UNCHANGED <<key, machine, previous, activeTurns, attempts, chunks, counters,
                 reached>>

\* A recoverable error, from session.update, from the receive loop or from the
\* sender (to which a clean close is an error too).  Within the budget the loop
\* sleeps first and only then runs its finally clause.
SessionDrops(t) ==
  /\ pc[t] \in {"configuring", "receiving"}
  /\ link[t] \in {"closed", "dropped"}
  /\ Charge(t)
  /\ IF attempts'[t] > MaxReconnects
     THEN /\ Teardown(t)
          /\ ending' = [ending EXCEPT ![t] = "error"]
          /\ GoTo(t, "closing")
     ELSE /\ GoTo(t, "backoff")
          /\ UNCHANGED <<activeConn, link, target, ending>>
  /\ UNCHANGED <<key, machine, previous, activeTurns, chunks, counters, reached>>

BackoffEnds(t) ==
  /\ pc[t] = "backoff"
  /\ Teardown(t)
  /\ ending' = [ending EXCEPT ![t] = "retry"]
  /\ GoTo(t, "closing")
  /\ UNCHANGED <<key, machine, previous, activeTurns, attempts, chunks, counters,
                 reached>>

\* conn.close() has returned: try again, finish the turn, or end it.
Reconnect(t) ==
  /\ pc[t] = "closing"
  /\ ending[t] = "retry"
  /\ GoTo(t, "connecting")
  /\ UNCHANGED <<key, machine, previous, target, activeTurns, activeConn,
                 connVars, counters, reached>>

\* converse() is exhausted: the machine goes idle and Done is yielded.
FinishTurn(t) ==
  /\ pc[t] = "closing"
  /\ ending[t] = "clean"
  /\ IF Can(machine[t], "idle")
     THEN /\ machine' = [machine EXCEPT ![t] = Transition(@, "idle")]
          /\ doneCount' = doneCount + 1
          /\ GoTo(t, "finishing")
          /\ UNCHANGED activeTurns
     ELSE /\ End(t, "state_error")
          /\ Deregister(t)
          /\ UNCHANGED <<machine, doneCount>>
  /\ UNCHANGED <<key, previous, target, activeConn, connVars, turnCount, reached>>

\* Mutation: only a turn that succeeds deregisters.
FailTurnStaysRegistered(t) ==
  /\ pc[t] = "closing"
  /\ ending[t] = "error"
  /\ End(t, "provider_error")
  /\ UNCHANGED <<key, machine, previous, target, activeTurns, activeConn, connVars,
                 counters, reached>>

FailTurn(t) ==
  /\ pc[t] = "closing"
  /\ ending[t] = "error"
  /\ End(t, "provider_error")
  /\ Deregister(t)
  /\ UNCHANGED <<key, machine, previous, target, activeConn, connVars, counters,
                 reached>>

CompleteTurn(t) ==
  /\ pc[t] = "finishing"
  /\ End(t, "done")
  /\ Deregister(t)
  /\ UNCHANGED <<key, machine, previous, target, activeConn, connVars, counters,
                 reached>>

-----------------------------------------------------------------------------
(* The client goes away.                                                   *)

\* CancelledError inside interrupt(), connect(), a retry sleep or conn.close().
CancelIdle(t) ==
  /\ \/ pc[t] \in {"cancelling", "clearing", "connecting"}
     \/ pc[t] = "closing" /\ ending[t] # "finalised"
  /\ target' = [target EXCEPT ![t] = None]
  /\ End(t, "cancelled")
  /\ Deregister(t)
  /\ UNCHANGED <<key, machine, previous, activeConn, connVars, counters, reached>>

\* Mutation: the connection is closed by `except Exception`, not by finally.
CancelConnectedLeaks(t) ==
  /\ pc[t] \in {"configuring", "receiving", "backoff"}
  /\ ending' = [ending EXCEPT ![t] = "cancelled"]
  /\ GoTo(t, "closing")
  /\ UNCHANGED <<key, machine, previous, target, activeTurns, activeConn, link,
                 attempts, chunks, counters, reached>>

\* CancelledError while converse() holds a connection: its finally clause runs.
CancelConnected(t) ==
  /\ pc[t] \in {"configuring", "receiving", "backoff"}
  /\ Teardown(t)
  /\ ending' = [ending EXCEPT ![t] = "cancelled"]
  /\ GoTo(t, "closing")
  /\ UNCHANGED <<key, machine, previous, activeTurns, attempts, chunks, counters,
                 reached>>

CancelledClosed(t) ==
  /\ pc[t] = "closing"
  /\ ending[t] = "cancelled"
  /\ End(t, "cancelled")
  /\ Deregister(t)
  /\ UNCHANGED <<key, machine, previous, target, activeConn, connVars, counters,
                 reached>>

\* The response is cancelled while it sends an event: the generators stay
\* suspended at their yields and are left to the event loop.
Abandon(t) ==
  /\ pc[t] \in {"yielding", "finishing"}
  /\ GoTo(t, "abandoned")
  /\ UNCHANGED <<key, machine, previous, target, activeTurns, activeConn,
                 connVars, counters, reached>>

\* The event loop closes _stream_impl first: its finally clause deregisters.
FinalisePipeline(t) ==
  /\ pc[t] = "abandoned"
  /\ Deregister(t)
  /\ StreamOver(t, "cancelled")
  /\ pc' = [pc EXCEPT ![t] = IF link[t] = "none" THEN "ended" ELSE "orphaned"]
  /\ UNCHANGED <<key, machine, previous, target, activeConn, connVars, counters,
                 reached>>

\* Mutation: GeneratorExit is taken for a drop.
FinaliseProviderReconnects(t) ==
  /\ pc[t] = "orphaned"
  /\ Teardown(t)
  /\ ending' = [ending EXCEPT ![t] = "retry"]
  /\ GoTo(t, "closing")
  /\ UNCHANGED <<key, machine, previous, activeTurns, attempts, chunks, counters,
                 reached>>

\* Only when that frame is gone is converse() closed in turn.
FinaliseProvider(t) ==
  /\ pc[t] = "orphaned"
  /\ Teardown(t)
  /\ ending' = [ending EXCEPT ![t] = "finalised"]
  /\ GoTo(t, "closing")
  /\ UNCHANGED <<key, machine, previous, activeTurns, attempts, chunks, counters,
                 reached>>

ProviderFinalised(t) ==
  /\ pc[t] = "closing"
  /\ ending[t] = "finalised"
  /\ GoTo(t, "ended")
  /\ UNCHANGED <<key, machine, previous, target, activeTurns, activeConn,
                 connVars, counters, reached>>

-----------------------------------------------------------------------------
\* The steps the event loop, its timers and the connect timeout will take.
ServerStep(t) ==
  \/ SendClear(t) \/ ResumeBargeIn(t)
  \/ Connect(t) \/ ConnectFails(t) \/ Configured(t)
  \/ SessionEnds(t) \/ SessionDrops(t) \/ BackoffEnds(t)
  \/ Reconnect(t) \/ FinishTurn(t) \/ FailTurn(t) \/ CancelledClosed(t)
  \/ FinalisePipeline(t) \/ FinaliseProvider(t) \/ ProviderFinalised(t)

\* What clients and the remote server choose to do, or not.
ClientStep(t) ==
  \/ RejectInput(t)
  \/ \E k \in Session : StartTurn(t, k) \/ StartUnsentBargeIn(t, k) \/ StartBargeIn(t, k)
  \/ PullNext(t) \/ CompleteTurn(t)
  \/ CancelIdle(t) \/ CancelConnected(t) \/ Abandon(t)

RemoteStep(t) ==
  \/ \E how \in {"closed", "dropped"} : PeerLeaves(t, how)
  \/ ReceiveAudio(t)

Next == \E t \in Turn : ServerStep(t) \/ ClientStep(t) \/ RemoteStep(t)

Spec == Init /\ [][Next]_vars

\* Every awaited operation of the server side returns or fails in the end: the
\* event loop runs ready tasks, sleeps are finite, websockets.connect and
\* conn.close() have timeouts.  Nothing is assumed of clients and of the server.
FairSpec == Spec /\ \A t \in Turn : WF_vars(ServerStep(t))

-----------------------------------------------------------------------------
(* Properties.                                                             *)

Suspensions ==
  {"new", "cancelling", "clearing", "connecting", "configuring", "receiving",
   "yielding", "backoff", "closing", "finishing", "abandoned", "orphaned", "ended"}

\* The pipeline's frame is alive and inside the try whose finally deregisters.
Registrable(t) ==
  \/ pc[t] \in {"connecting", "configuring", "receiving", "yielding", "backoff",
               "finishing", "abandoned"}
  \/ pc[t] = "closing" /\ ending[t] # "finalised"

\* converse() of t is between the assignment of _active and its finally clause.
HoldsConnection(t) ==
  \/ pc[t] \in {"configuring", "receiving", "yielding", "backoff", "orphaned"}
  \/ pc[t] = "abandoned" /\ link[t] # "none"

\* Every variable has its type.
TypeOK ==
  /\ pc          \in [Turn -> Suspensions]
  /\ key         \in [Turn -> Session \cup {None}]
  /\ machine     \in [Turn -> States \cup {None}]
  /\ previous    \in [Turn -> Turn \cup {None}]
  /\ target      \in [Turn -> Turn \cup {None}]
  /\ activeTurns \in [Session -> Turn \cup {None}]
  /\ activeConn  \in Turn \cup {None}
  /\ link        \in [Turn -> Links]
  /\ attempts    \in [Turn -> 0 .. MaxReconnects + 1]
  /\ chunks      \in [Turn -> 0 .. MaxAudio]
  /\ ending      \in [Turn -> Endings]
  /\ outcome     \in [Turn -> Outcomes]
  /\ turnCount   \in Nat
  /\ errorCount  \in Nat
  /\ doneCount   \in Nat
  /\ reached     \subseteq Turn \X Turn

\* _active_turns holds, under each key, only a turn of that very session whose
\* stream is still open: a turn that completed, failed, was cancelled or was
\* garbage-collected never stays behind to be barged into (pipeline.py:127-131).
RegistryHoldsLiveTurns ==
  \A k \in Session : activeTurns[k] # None =>
    /\ key[activeTurns[k]] = k
    /\ Registrable(activeTurns[k])

\* interrupt() never picks up a connection its converse() has let go: _active is
\* None or a connection still held (openai_realtime.py:176, 190-193).
ActiveConnectionIsHeld == activeConn # None => HoldsConnection(activeConn)

\* A connection is held exactly while its turn is between connecting and the
\* finally clause: whatever ends a turn, no socket outlives it.
ConnectionsReleased ==
  \A t \in Turn : link[t] # "none" <=> HoldsConnection(t)

\* A turn's own transitions are always legal, even when a barge-in has moved its
\* machine in between: InvalidTransition never ends an ordinary turn
\* (pipeline.py:101-117 over the table of state.py:29-35).
OwnTransitionsLegal == \A t \in Turn : outcome[t] # "state_error"

\* /counters stays honest: each handled request is one turn, each stream that
\* raised is one error, and a turn is metered once its machine went idle, not
\* when its client disconnected first (pipeline.py:72-82, 117-124).
CountersHonest ==
  /\ turnCount  = Cardinality({t \in Turn : pc[t] # "new"})
  /\ errorCount = Cardinality({t \in Turn : outcome[t] \in Errors})
  /\ doneCount  = Cardinality({t \in Turn : machine[t] = "idle"})

\* A turn whose audio is no base64 replaces the registration and removes it again.
ReplacedThenRemoved(t, k) ==
  \E u \in Turn \ {t} : /\ key'[u] = k
                        /\ outcome[u] = "none"
                        /\ outcome'[u] = "caller_error"

\* The registration of a session disappears only with the stream of the turn it
\* names, or of one that has just replaced it; a turn that has been replaced
\* cannot remove its successor's (pipeline.py:128-131).
OwnerDeregisters ==
  \A k \in Session, t \in Turn :
    (activeTurns[k] = t /\ activeTurns'[k] = None) =>
       outcome'[t] # "none" \/ ReplacedThenRemoved(t, k)

OnlyOwnerDeregisters == [][OwnerDeregisters]_vars

\* Another turn touches a machine in one way only: a turn of the same session
\* that started while it was SPEAKING takes it to LISTENING, once, at the moment
\* it enters itself (pipeline.py:133-140, state.py:87-97).
MovedByBargeIn ==
  \A t \in Turn : (machine'[t] # machine[t] /\ pc'[t] = pc[t]) =>
    /\ machine[t] = "speaking" /\ machine'[t] = "listening"
    /\ \E u \in Turn : /\ previous'[u] = t /\ key'[u] = key[t]
                       /\ machine[u] = None /\ machine'[u] # None

MachineMovedOnlyByBargeIn == [][MovedByBargeIn]_vars

\* However many turns race to interrupt a reply, one of them takes over from it:
\* the others find it no longer SPEAKING when interrupt() returns.
OneTakeoverPerReply ==
  \A t, u \in Turn :
    (/\ previous[t] = previous[u] /\ previous[t] # None
     /\ machine[t] # None /\ machine[u] # None) => t = u

\* The retry loop of converse() always gives up or gets to listen to the server:
\* connection failures and drops without audio exhaust the budget.
RetriesEnd ==
  \A t \in Turn : pc[t] = "connecting" ~> pc[t] \in {"receiving", "ended"}

\* A stream dropped by its client lets go of its registration and its socket,
\* although nobody closes the generators.
AbandonedTurnsReleased ==
  \A t \in Turn : pc[t] = "abandoned" ~> pc[t] = "ended"

\* tests/test_barge_in.py:5-6: other sessions are never interrupted.
InterruptStaysInSession ==
  \A p \in reached : key[p[1]] = key[p[2]]

\* state.py:90: a barge-in deterministically ends in LISTENING so the new
\* utterance can be captured: it does not fail the turn that carries it.
BargeInCapturesUtterance ==
  \A t \in Turn : outcome[t] # "barge_in_error"

\* openai_realtime.py:151-152: an interrupt is dropped only during a reconnect
\* window, when the reply being interrupted has no live connection.
DroppedOnlyWhileReconnecting ==
  [][\A t \in Turn : (pc[t] = "new" /\ pc'[t] # "new" /\ previous'[t] # None
                      /\ activeConn = None) => link[previous'[t]] # "up"]_vars

\* The abstract turn.
Phase(t) ==
  CASE pc[t] = "new"             -> "idle"
    [] outcome[t] = "done"       -> "done"
    [] outcome[t] \in Errors     -> "failed"
    [] outcome[t] = "cancelled"  -> "left"
    [] OTHER                     -> "running"

Contract == INSTANCE PipelineContract
  WITH phase <- [t \in Turn |-> Phase(t)], turns <- turnCount, errors <- errorCount

\* The turns keep the contract that the fallback (fallback.py:14-16) and the counters
\* rely on, whatever barge-ins, drops and disconnections do to one another: each is
\* counted once when it starts, and once as an error if and only if it raised.
KeepsContract == Contract!Spec
=============================================================================
