------------------------- MODULE TraditionalPipeline -------------------------
(***************************************************************************)
(* Concurrent turns of the slow path: app/pipelines/traditional/pipeline.py *)
(* over take_turn() (app/pipelines/turn_taking.py) and the SessionStore    *)
(* (app/session/store.py) that all turns share.                            *)
(*                                                                         *)
(* stage[t] is the state of the turn's own machine; in each stage the turn *)
(* either awaits its provider or, when atYield[t], is suspended at the     *)
(* `yield` of an event until the response pulls the next one:              *)
(*                                                                         *)
(*   new        the request has not been handled yet                       *)
(*   listening  pulling the transcriber through take_turn()                *)
(*   thinking   pulling the language model                                 *)
(*   speaking   pulling the synthesiser                                    *)
(*   finishing  idle again, at `yield Done`                                *)
(*   ended      stream() is over                                           *)
(*                                                                         *)
(* Each provider's generator is open while it is pulled, and closed when   *)
(* it ends or raises.  One that is merely dropped stays open until the     *)
(* event loop's hook finalises it.  Texts are counts of their parts.       *)
(***************************************************************************)
EXTENDS Naturals, Sequences, FiniteSets

CONSTANTS
  Turn,      \* requests that may arrive, each handled once
  Tenant,
  SessionId, \* session ids clients may send
  None,      \* Python's None
  MaxParts   \* bound: chunks one provider yields for one turn

ConstantsAssumption ==
  /\ None \notin Turn \cup Tenant \cup SessionId
  /\ Turn \cap SessionId = {}
  /\ MaxParts \in Nat

VARIABLES
  stage, atYield,
  tenant,    \* current_tenant() of each turn
  key,       \* the session each turn resolved
  history,   \* Session.turns of each session in the store
  prompt,    \* the turns each turn's prompt was built from
  boundary,  \* the chunk take_turn() holds signals the end of the turn
  parts,     \* chunks the provider of the current stage has yielded
  finals,    \* history: final segments the transcriber yielded
  segments,  \* len(segments)
  answer,    \* len(answer_parts)
  open,      \* stages whose provider's generator is not closed
  outcome,   \* how each stream() ended
  turnCount, errorCount, \* EventCounters of this path
  recorded   \* turns recorded in LatencyMetrics and UsageMetrics

stream == <<stage, atYield, outcome, errorCount>>
texts  == <<boundary, parts, finals, segments, answer>>
begun  == <<tenant, key, turnCount>>
vars == <<stream, texts, begun, history, prompt, open, recorded>>

Stages   == {"new", "listening", "thinking", "speaking", "finishing", "ended"}
Outcomes == {"none", "done", "error", "left"}
Keys     == Tenant \X (SessionId \cup Turn)

Init ==
  /\ stage = [t \in Turn |-> "new"] /\ atYield = [t \in Turn |-> FALSE]
  /\ tenant = [t \in Turn |-> None] /\ key = [t \in Turn |-> None]
  /\ history = << >> /\ prompt = [t \in Turn |-> << >>]
  /\ boundary = [t \in Turn |-> FALSE]
  /\ parts = [t \in Turn |-> 0] /\ finals = [t \in Turn |-> 0]
  /\ segments = [t \in Turn |-> 0] /\ answer = [t \in Turn |-> 0]
  /\ open = [t \in Turn |-> {}] /\ outcome = [t \in Turn |-> "none"]
  /\ turnCount = 0 /\ errorCount = 0 /\ recorded = {}

-----------------------------------------------------------------------------
(* Pieces of the handlers.                                                 *)

\* Mutation: sessions are looked up by their id alone.
ResolveAnyTenant(tn, id, t) ==
  IF \E k \in DOMAIN history : k[2] = id
  THEN CHOOSE k \in DOMAIN history : k[2] = id ELSE <<tn, IF id = None THEN t ELSE id>>

\* SessionStore.resolve(): the session a request names in its tenant, or a new one
\* under a fresh id (here the turn itself).
Resolve(tn, id, t) == <<tn, IF id = None THEN t ELSE id>>

\* get_or_create() and create().
WithSession(k) ==
  [j \in DOMAIN history \cup {k} |-> IF j \in DOMAIN history THEN history[j] ELSE << >>]

Entry(role, t, n) == [role |-> role, turn |-> t, text |-> n]

Counts  == 0 .. MaxParts + 1
Entries == [role : {"user", "agent"}, turn : Turn, text : Counts]

AddTurn(t, role, n) ==
  history' = [history EXCEPT ![key[t]] = Append(@, Entry(role, t, n))]

\* The turn goes on to its next suspension point.
GoTo(t, at, yielding) ==
  /\ stage' = [stage EXCEPT ![t] = at]
  /\ atYield' = [atYield EXCEPT ![t] = yielding]
  /\ UNCHANGED <<outcome, errorCount>>

\* Mutation: `except BaseException` also counts the clients that went away.
StreamOverCountsLeft(t, how) ==
  /\ stage' = [stage EXCEPT ![t] = "ended"]
  /\ atYield' = [atYield EXCEPT ![t] = FALSE]
  /\ outcome' = [outcome EXCEPT ![t] = how]
  /\ errorCount' = IF how = "done" THEN errorCount ELSE errorCount + 1

\* stream() is over; only an Exception is counted as an error of the path.
StreamOver(t, how) ==
  /\ stage' = [stage EXCEPT ![t] = "ended"]
  /\ atYield' = [atYield EXCEPT ![t] = FALSE]
  /\ outcome' = [outcome EXCEPT ![t] = how]
  /\ errorCount' = IF how = "error" THEN errorCount + 1 ELSE errorCount

\* stream() counts the turn, and _stream_impl resolves its session.
Begins(t, tn, id) ==
  /\ stage[t] = "new"
  /\ turnCount' = turnCount + 1
  /\ tenant' = [tenant EXCEPT ![t] = tn]
  /\ key' = [key EXCEPT ![t] = Resolve(tn, id, t)]
  /\ history' = WithSession(Resolve(tn, id, t))

\* The provider of the turn's stage yields another chunk.
CanYield(t) == ~atYield[t] /\ parts[t] < MaxParts

Yields(t) == CanYield(t) /\ parts' = [parts EXCEPT ![t] = @ + 1]

\* Mutation: the prompt is built before the question is added.
ThinkBuildsFirst(t, left) ==
  /\ AddTurn(t, "user", segments[t])
  /\ prompt' = [prompt EXCEPT ![t] = history[key[t]]]
  /\ GoTo(t, "thinking", FALSE)
  /\ parts' = [parts EXCEPT ![t] = 0]
  /\ open' = [open EXCEPT ![t] = left \cup {"thinking"}]

\* From the end of the utterance to the language model's first token: the question
\* is added, the prompt is built of the session's turns, and generate() is entered.
\* What is left open of the transcriber is no longer pulled.
Think(t, left) ==
  /\ AddTurn(t, "user", segments[t])
  /\ prompt' = [prompt EXCEPT ![t] = Append(history[key[t]], Entry("user", t, segments[t]))]
  /\ GoTo(t, "thinking", FALSE)
  /\ parts' = [parts EXCEPT ![t] = 0]
  /\ open' = [open EXCEPT ![t] = left \cup {"thinking"}]

-----------------------------------------------------------------------------
(* Listening.                                                              *)

\* Audio input: the transcriber's generator is opened.
BeginAudio(t, tn, id) ==
  /\ Begins(t, tn, id)
  /\ open' = [open EXCEPT ![t] = {"listening"}]
  /\ GoTo(t, "listening", FALSE)
  /\ UNCHANGED <<texts, prompt, recorded>>

\* Text input is one final chunk that ends the turn.
BeginText(t, tn, id) ==
  /\ Begins(t, tn, id)
  /\ finals' = [finals EXCEPT ![t] = 1] /\ segments' = [segments EXCEPT ![t] = 1]
  /\ boundary' = [boundary EXCEPT ![t] = TRUE]
  /\ GoTo(t, "listening", TRUE)
  /\ UNCHANGED <<parts, answer, open, prompt, recorded>>

\* Audio that is not base64 raises from _transcribe().
RejectAudio(t, tn, id) ==
  /\ Begins(t, tn, id)
  /\ StreamOver(t, "error")
  /\ UNCHANGED <<texts, open, prompt, recorded>>

\* Mutation: take_turn() stops before the chunk that ends the turn.
HearExcludesLast(t, final, last) ==
  /\ stage[t] = "listening" /\ Yields(t)
  /\ boundary' = [boundary EXCEPT ![t] = last]
  /\ finals' = [finals EXCEPT ![t] = IF final THEN @ + 1 ELSE @]
  /\ segments' = [segments EXCEPT ![t] = IF final /\ ~last THEN @ + 1 ELSE @]
  /\ GoTo(t, "listening", TRUE)
  /\ UNCHANGED <<answer, begun, history, prompt, open, recorded>>

\* A chunk with a text, partial or final, is passed on as an event.
Hear(t, final, last) ==
  /\ stage[t] = "listening" /\ Yields(t)
  /\ boundary' = [boundary EXCEPT ![t] = last]
  /\ finals' = [finals EXCEPT ![t] = IF final THEN @ + 1 ELSE @]
  /\ segments' = [segments EXCEPT ![t] = IF final THEN @ + 1 ELSE @]
  /\ GoTo(t, "listening", TRUE)
  /\ UNCHANGED <<answer, begun, history, prompt, open, recorded>>

\* A chunk without a text that ends the turn.  take_turn() closes _transcribe(),
\* which drops the transcriber's generator: it stays open.
HearSilence(t) ==
  /\ stage[t] = "listening" /\ CanYield(t)
  /\ Think(t, open[t])
  /\ UNCHANGED <<boundary, finals, segments, answer, begun, recorded>>

\* The transcriber's stream ends without the signal: a complete turn too.
TranscriptEnds(t) ==
  /\ stage[t] = "listening" /\ ~atYield[t]
  /\ Think(t, {})
  /\ UNCHANGED <<boundary, finals, segments, answer, begun, recorded>>

\* The response pulls the next event; the event was the last of the turn.
EndListening(t) ==
  /\ stage[t] = "listening" /\ atYield[t] /\ boundary[t]
  /\ Think(t, open[t])
  /\ UNCHANGED <<boundary, finals, segments, answer, begun, recorded>>

\* Mutation: take_turn() drains the transcriber.
PullNextDrains(t) ==
  /\ atYield[t] /\ stage[t] \in {"listening", "thinking", "speaking"}
  /\ GoTo(t, stage[t], FALSE)
  /\ UNCHANGED <<texts, begun, history, prompt, open, recorded>>

\* The response pulls the next event, and the provider is pulled in turn.
PullNext(t) ==
  /\ atYield[t] /\ stage[t] \in {"listening", "thinking", "speaking"}
  /\ stage[t] = "listening" => ~boundary[t]
  /\ GoTo(t, stage[t], FALSE)
  /\ UNCHANGED <<texts, begun, history, prompt, open, recorded>>

-----------------------------------------------------------------------------
(* Thinking and speaking.                                                  *)

Token(t) ==
  /\ stage[t] = "thinking" /\ Yields(t)
  /\ answer' = [answer EXCEPT ![t] = @ + 1]
  /\ GoTo(t, "thinking", TRUE)
  /\ UNCHANGED <<boundary, finals, segments, begun, history, prompt, open, recorded>>

\* The answer is complete: it is remembered, and the synthesiser is started on it.
AnswerComplete(t) ==
  /\ stage[t] = "thinking" /\ ~atYield[t]
  /\ AddTurn(t, "agent", answer[t])
  /\ open' = [open EXCEPT ![t] = (@ \ {"thinking"}) \cup {"speaking"}]
  /\ parts' = [parts EXCEPT ![t] = 0]
  /\ GoTo(t, "speaking", FALSE)
  /\ UNCHANGED <<boundary, finals, segments, answer, begun, prompt, recorded>>

Sound(t) ==
  /\ stage[t] = "speaking" /\ Yields(t)
  /\ GoTo(t, "speaking", TRUE)
  /\ UNCHANGED <<boundary, finals, segments, answer, begun, history, prompt, open, recorded>>

\* Speech is complete: latency and usage are recorded before `yield Done`.
SpeechComplete(t) ==
  /\ stage[t] = "speaking" /\ ~atYield[t]
  /\ open' = [open EXCEPT ![t] = @ \ {"speaking"}]
  /\ recorded' = recorded \cup {t}
  /\ GoTo(t, "finishing", TRUE)
  /\ UNCHANGED <<texts, begun, history, prompt>>

Finish(t) ==
  /\ stage[t] = "finishing"
  /\ StreamOver(t, "done")
  /\ UNCHANGED <<texts, begun, history, prompt, open, recorded>>

-----------------------------------------------------------------------------
(* Failures and disconnections.                                            *)

\* The provider that is awaited raises; its generator is over, but a transcriber
\* dropped earlier is not.
ProviderFails(t) ==
  /\ ~atYield[t] /\ stage[t] \in {"listening", "thinking", "speaking"}
  /\ StreamOver(t, "error")
  /\ open' = [open EXCEPT ![t] = @ \ {stage[t]}]
  /\ UNCHANGED <<texts, begun, history, prompt, recorded>>

\* Cancelled while it awaits its provider, which unwinds with it.
Cancel(t) ==
  /\ ~atYield[t] /\ stage[t] \in {"listening", "thinking", "speaking"}
  /\ StreamOver(t, "left")
  /\ open' = [open EXCEPT ![t] = @ \ {stage[t]}]
  /\ UNCHANGED <<texts, begun, history, prompt, recorded>>

\* Dropped at a yield: the generators are finalised from the outside inwards, and
\* each provider's when nothing refers to it any more.
Abandon(t) ==
  /\ atYield[t]
  /\ StreamOver(t, "left")
  /\ UNCHANGED <<texts, begun, history, prompt, open, recorded>>

\* Mutation: the hook finalises only the generators of streams that have ended.
FinaliseOnlyEnded(t, s) ==
  /\ s \in open[t] /\ stage[t] = "ended" /\ outcome[t] = "left"
  /\ open' = [open EXCEPT ![t] = @ \ {s}]
  /\ UNCHANGED <<stream, texts, begun, history, prompt, recorded>>

\* The event loop finalises a provider's generator that nothing pulls any more.
Finalise(t, s) ==
  /\ s \in open[t] /\ stage[t] # s
  /\ open' = [open EXCEPT ![t] = @ \ {s}]
  /\ UNCHANGED <<stream, texts, begun, history, prompt, recorded>>

ProviderStep(t) ==
  \/ \E final, last \in BOOLEAN : Hear(t, final, last)
  \/ HearSilence(t) \/ TranscriptEnds(t) \/ Token(t) \/ AnswerComplete(t)
  \/ Sound(t) \/ SpeechComplete(t) \/ ProviderFails(t)

ClientStep(t) ==
  \/ EndListening(t) \/ PullNext(t) \/ Finish(t) \/ Abandon(t)

TurnStep(t) ==
  \/ \E tn \in Tenant, id \in SessionId \cup {None} :
       BeginAudio(t, tn, id) \/ BeginText(t, tn, id) \/ RejectAudio(t, tn, id)
  \/ ProviderStep(t) \/ ClientStep(t) \/ Cancel(t)
  \/ \E s \in Stages : Finalise(t, s)

Next == \E t \in Turn : TurnStep(t)

Spec == Init /\ [][Next]_vars

\* A transcriber that has signalled the end of the turn may go on for ever.
Owes(t) == stage[t] = "listening" => ~boundary[t]

\* Providers answer or raise in finite time, and yield finitely much; the response
\* pulls or is dropped; the event loop runs the finalisers.
Fairness ==
  \A t \in Turn :
    /\ WF_vars(Owes(t) /\ ProviderStep(t)) /\ WF_vars(ClientStep(t))
    /\ WF_vars(\E s \in Stages : Finalise(t, s))

FairSpec == Spec /\ Fairness

-----------------------------------------------------------------------------
(* Properties.                                                             *)

\* Every variable has its type.
TypeOK ==
  /\ stage \in [Turn -> Stages] /\ atYield \in [Turn -> BOOLEAN]
  /\ tenant \in [Turn -> Tenant \cup {None}] /\ key \in [Turn -> Keys \cup {None}]
  /\ DOMAIN history \subseteq Keys /\ history \in [DOMAIN history -> Seq(Entries)]
  /\ prompt \in [Turn -> Seq(Entries)] /\ boundary \in [Turn -> BOOLEAN]
  /\ open \in [Turn -> SUBSET {"listening", "thinking", "speaking"}]
  /\ outcome \in [Turn -> Outcomes] /\ recorded \subseteq Turn
  /\ \A f \in {parts, finals, segments, answer} : f \in [Turn -> Counts]
  /\ turnCount \in Nat /\ errorCount \in Nat

Positions(t, role) ==
  {i \in 1 .. Len(history[key[t]]) :
     history[key[t]][i].turn = t /\ history[key[t]][i].role = role}

\* A prompt is what the session held when the question was asked, and ends with the
\* turn's own question, however turns of one session interleave (lines 130-134: no
\* await lies between add_turn() and build()).
PromptAsksOwnQuestion ==
  \A t \in Turn : prompt[t] # << >> =>
    /\ prompt[t] = SubSeq(history[key[t]], 1, Len(prompt[t]))
    /\ prompt[t][Len(prompt[t])] = Entry("user", t, finals[t])

\* "sessions are isolated per tenant" (session/store.py:5): whatever ids clients
\* choose, a session holds what was said in its own tenant only.
TenantsIsolated ==
  \A k \in DOMAIN history : \A i \in 1 .. Len(history[k]) :
    tenant[history[k][i].turn] = k[1]

\* What is remembered is what happened: a turn that was recorded in metrics and usage
\* has one question and, after it, one answer in its session, with every final
\* segment of the transcript (turn_taking.py:17-19) and every token that was streamed.
RecordedTurnsRemembered ==
  \A t \in recorded : \E i, j \in 1 .. Len(history[key[t]]) :
    /\ i < j /\ Positions(t, "user") = {i} /\ Positions(t, "agent") = {j}
    /\ history[key[t]][i].text = finals[t] /\ history[key[t]][j].text = answer[t]

\* The abstract turn.
Phase(t) ==
  CASE stage[t] = "new"      -> "idle"
    [] outcome[t] = "done"   -> "done"
    [] outcome[t] = "error"  -> "failed"
    [] outcome[t] = "left"   -> "left"
    [] OTHER                 -> "running"

Contract == INSTANCE PipelineContract
  WITH phase <- [t \in Turn |-> Phase(t)], turns <- turnCount, errors <- errorCount

\* The turns keep the contract that the fallback and the counters rely on.
KeepsContract == Contract!Spec

\* A turn that has begun ends, however long its transcriber would go on (pipeline.py:120).
TurnsEnd == \A t \in Turn : stage[t] # "new" ~> stage[t] = "ended"

\* The transcriber does not outlive its turn for ever, the one that an early end of turn
\* dropped included (pipeline.py:216, turn_taking.py:13-15).
ProvidersReleased == \A t \in Turn : "listening" \in open[t] ~> "listening" \notin open[t]
=============================================================================
