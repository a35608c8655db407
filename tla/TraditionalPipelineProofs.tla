----------------------- MODULE TraditionalPipelineProofs -----------------------
(***************************************************************************)
(* Theorems about TraditionalPipeline, for any turns, tenants and session  *)
(* ids.  Turns of one session interleave in its history, which only grows; *)
(* so what a turn relies on is what it has itself put there, and that the  *)
(* others only add behind it.  Every step is one of four kinds: it opens a *)
(* session, asks, answers, or leaves the histories as they are.            *)
(***************************************************************************)
EXTENDS TraditionalPipeline, SequenceTheorems, FiniteSetTheorems, TLAPS

-----------------------------------------------------------------------------
(* The invariant.                                                          *)

Session(t) == history[key[t]]

\* What the stage of a turn says about its own variables.
Ordered(t) ==
  /\ stage[t] = "new" => ~atYield[t] /\ parts[t] = 0 /\ finals[t] = 0 /\ answer[t] = 0
  /\ stage[t] \in {"new", "listening"} => prompt[t] = << >> /\ answer[t] = 0
  /\ stage[t] = "listening" =>
       finals[t] <= parts[t] \/ (finals[t] = 1 /\ atYield[t] /\ boundary[t])
  /\ stage[t] = "thinking" => answer[t] = parts[t]
  /\ segments[t] = finals[t]
  /\ stage[t] = "ended" <=> outcome[t] # "none"
  /\ stage[t] = "ended" => ~atYield[t]
  /\ t \in recorded => stage[t] \in {"finishing", "ended"}

\* A turn that has begun has a session of its tenant.
Homed(t) == stage[t] # "new" => key[t] \in DOMAIN history /\ key[t][1] = tenant[t]

\* Whatever a session holds was said by turns of that session that listen no more.
SaidAtHome ==
  \A k \in DOMAIN history : \A i \in 1 .. Len(history[k]) :
    LET u == history[k][i].turn IN key[u] = k /\ stage[u] \notin {"new", "listening"}

\* A prompt is a prefix of the session, and ends with the turn's question.
Prompted(t) ==
  prompt[t] # << >> =>
    /\ Len(prompt[t]) <= Len(Session(t))
    /\ \A i \in 1 .. Len(prompt[t]) : prompt[t][i] = Session(t)[i]
    /\ prompt[t][Len(prompt[t])] = Entry("user", t, finals[t])

\* Where a sequence of entries holds those of turn t in a role.
Of(s, t, role) == {i \in 1 .. Len(s) : s[i].turn = t /\ s[i].role = role}

Asked(s, t, n) ==
  /\ \E i \in 1 .. Len(s) : Of(s, t, "user") = {i} /\ s[i].text = n
  /\ Of(s, t, "agent") = {}

Remembered(s, t, n, m) ==
  \E i, j \in 1 .. Len(s) :
    /\ i < j /\ Of(s, t, "user") = {i} /\ Of(s, t, "agent") = {j}
    /\ s[i].text = n /\ s[j].text = m

\* The question is in the session while the answer is produced, both are from then on.
InMemory(t) ==
  /\ stage[t] = "thinking" => Asked(Session(t), t, finals[t])
  /\ stage[t] \in {"speaking", "finishing"} \/ t \in recorded =>
       Remembered(Session(t), t, finals[t], answer[t])

IInv ==
  /\ TypeOK
  /\ SaidAtHome
  /\ \A t \in Turn : Ordered(t) /\ Homed(t) /\ Prompted(t) /\ InMemory(t)
-----------------------------------------------------------------------------
(* Sequences of entries that grow.                                         *)

\* An entry that is added is the only new one, and it is the last.
LEMMA AppendOf ==
  ASSUME NEW s \in Seq(Entries), NEW e \in Entries, NEW t, NEW role
  PROVE  Of(Append(s, e), t, role) =
           IF e.turn = t /\ e.role = role THEN Of(s, t, role) \cup {Len(s) + 1} ELSE Of(s, t, role)
  BY DEF Of

\* What the others add does not change what a turn has in its session.
LEMMA OthersAppend ==
  ASSUME NEW s \in Seq(Entries), NEW e \in Entries, NEW t, e.turn # t, NEW n, NEW m
  PROVE  /\ Asked(s, t, n) => Asked(Append(s, e), t, n)
         /\ Remembered(s, t, n, m) => Remembered(Append(s, e), t, n, m)
<1>1. \A role : Of(Append(s, e), t, role) = Of(s, t, role)
  BY AppendOf
<1>2. /\ Len(Append(s, e)) = Len(s) + 1 /\ Len(s) \in Nat
      /\ \A i \in 1 .. Len(s) : Append(s, e)[i] = s[i]
  OBVIOUS
<1>3. QED
  BY <1>1, <1>2 DEF Asked, Remembered

\* A turn that adds its first entry has asked.
LEMMA FirstAsked ==
  ASSUME NEW s \in Seq(Entries), NEW t \in Turn, NEW n \in Counts,
         \A i \in 1 .. Len(s) : s[i].turn # t
  PROVE  Asked(Append(s, Entry("user", t, n)), t, n)
<1> DEFINE e == Entry("user", t, n)
<1>1. e \in Entries /\ e.turn = t /\ e.role = "user" /\ e.text = n
  BY DEF Entry, Entries
<1>2. Of(s, t, "user") = {} /\ Of(s, t, "agent") = {}
  BY DEF Of
<1>3. Of(Append(s, e), t, "user") = {Len(s) + 1} /\ Of(Append(s, e), t, "agent") = {}
  BY <1>1, <1>2, AppendOf
<1>4. Append(s, e)[Len(s) + 1] = e /\ Len(s) + 1 \in 1 .. Len(Append(s, e))
  BY <1>1
<1>5. QED
  BY <1>1, <1>3, <1>4 DEF Asked

\* The answer comes after the question.
LEMMA ThenRemembered ==
  ASSUME NEW s \in Seq(Entries), NEW t \in Turn, NEW n, NEW m \in Counts, Asked(s, t, n)
  PROVE  Remembered(Append(s, Entry("agent", t, m)), t, n, m)
<1> DEFINE e == Entry("agent", t, m)
<1>1. e \in Entries /\ e.turn = t /\ e.role = "agent" /\ e.text = m
  BY DEF Entry, Entries
<1>2. PICK i \in 1 .. Len(s) : Of(s, t, "user") = {i} /\ s[i].text = n
  BY DEF Asked
<1>3. Of(s, t, "agent") = {}
  BY DEF Asked
<1>4. Of(Append(s, e), t, "user") = {i} /\ Of(Append(s, e), t, "agent") = {Len(s) + 1}
  BY <1>1, <1>2, <1>3, AppendOf
<1>5. /\ Append(s, e)[Len(s) + 1] = e /\ Append(s, e)[i] = s[i]
      /\ i < Len(s) + 1 /\ i \in 1 .. Len(Append(s, e)) /\ Len(s) + 1 \in 1 .. Len(Append(s, e))
  BY <1>1
<1>6. QED
  BY <1>1, <1>2, <1>4, <1>5 DEF Remembered

-----------------------------------------------------------------------------
(* The four kinds of steps.                                                *)

Opens(t) ==
  /\ stage[t] = "new" /\ stage'[t] \in {"listening", "ended"}
  /\ \E tn \in Tenant, id \in SessionId \cup {None} :
       /\ tenant' = [tenant EXCEPT ![t] = tn]
       /\ key' = [key EXCEPT ![t] = Resolve(tn, id, t)]
       /\ history' = WithSession(Resolve(tn, id, t))
  /\ UNCHANGED <<prompt, recorded>>

Asks(t) ==
  /\ stage[t] = "listening" /\ stage'[t] = "thinking"
  /\ AddTurn(t, "user", segments[t])
  /\ prompt' = [prompt EXCEPT ![t] = Append(Session(t), Entry("user", t, segments[t]))]
  /\ UNCHANGED <<tenant, key, finals, answer, recorded>>

Answers(t) ==
  /\ stage[t] = "thinking" /\ stage'[t] = "speaking"
  /\ AddTurn(t, "agent", answer[t])
  /\ UNCHANGED <<tenant, key, prompt, finals, answer, recorded>>

GoesOn(t) ==
  /\ UNCHANGED <<tenant, key, history, prompt>>
  /\ stage[t] # "listening" => finals'[t] = finals[t]
  /\ stage[t] # "thinking" => answer'[t] = answer[t]
  /\ \/ stage'[t] = stage[t] /\ UNCHANGED recorded
     \/ stage[t] = "speaking" /\ stage'[t] = "finishing" /\ recorded' = recorded \cup {t}
     \/ stage[t] # "new" /\ stage'[t] = "ended" /\ UNCHANGED recorded

\* Every step of a turn is of one of these kinds.
LEMMA Kinds ==
  ASSUME TypeOK, NEW t \in Turn, Ordered(t), TurnStep(t)
  PROVE  Opens(t) \/ Asks(t) \/ Answers(t) \/ GoesOn(t)
<1> USE DEF TypeOK, stream, texts, begun, GoTo, StreamOver, Yields, CanYield, Begins,
        Opens, Asks, Answers, GoesOn, Session, Stages
<1>1. ASSUME NEW tn \in Tenant, NEW id \in SessionId \cup {None}, BeginAudio(t, tn, id) PROVE Opens(t) \/ GoesOn(t)
  BY <1>1 DEF BeginAudio
<1>2. ASSUME NEW tn \in Tenant, NEW id \in SessionId \cup {None}, BeginText(t, tn, id) PROVE Opens(t) \/ GoesOn(t)
  BY <1>2 DEF BeginText
<1>3. ASSUME NEW tn \in Tenant, NEW id \in SessionId \cup {None}, RejectAudio(t, tn, id) PROVE Opens(t) \/ GoesOn(t)
  BY <1>3 DEF RejectAudio
<1>4. ASSUME NEW final \in BOOLEAN, NEW last \in BOOLEAN, Hear(t, final, last) PROVE Opens(t) \/ GoesOn(t)
  BY <1>4 DEF Hear
<1>5. CASE HearSilence(t)
  BY <1>5 DEF HearSilence, Think, AddTurn
<1>6. CASE TranscriptEnds(t)
  BY <1>6 DEF TranscriptEnds, Think, AddTurn
<1>7. CASE EndListening(t)
  BY <1>7 DEF EndListening, Think, AddTurn
<1>8. CASE PullNext(t)
  BY <1>8 DEF PullNext
<1>9. CASE Token(t)
  BY <1>9 DEF Token
<1>10. CASE AnswerComplete(t)
  BY <1>10 DEF AnswerComplete, AddTurn
<1>11. CASE Sound(t)
  BY <1>11 DEF Sound
<1>12. CASE SpeechComplete(t)
  BY <1>12 DEF SpeechComplete
<1>13. CASE Finish(t)
  BY <1>13 DEF Finish
<1>14. CASE ProviderFails(t)
  BY <1>14 DEF ProviderFails
<1>15. CASE Cancel(t)
  BY <1>15 DEF Cancel
<1>16. CASE Abandon(t)
  BY <1>16 DEF Abandon, Ordered
<1>17. ASSUME NEW s \in Stages, Finalise(t, s) PROVE Opens(t) \/ GoesOn(t)
  BY <1>17 DEF Finalise
<1>18. QED
  BY <1>1, <1>2, <1>3, <1>4, <1>5, <1>6, <1>7, <1>8, <1>9, <1>10, <1>11, <1>12, <1>13, <1>14, <1>15, <1>16, <1>17
  DEF TurnStep, ProviderStep, ClientStep

\* A step of a turn touches nothing of another one, but for its session.
LEMMA OthersUntouched ==
  ASSUME TypeOK, NEW t \in Turn, TurnStep(t), NEW u \in Turn, u # t
  PROVE  /\ stage'[u] = stage[u] /\ atYield'[u] = atYield[u] /\ outcome'[u] = outcome[u]
         /\ tenant'[u] = tenant[u] /\ key'[u] = key[u] /\ prompt'[u] = prompt[u]
         /\ boundary'[u] = boundary[u] /\ parts'[u] = parts[u] /\ finals'[u] = finals[u]
         /\ segments'[u] = segments[u] /\ answer'[u] = answer[u]
         /\ u \in recorded' <=> u \in recorded
<1> DEFINE Same ==
         /\ stage'[u] = stage[u] /\ atYield'[u] = atYield[u] /\ outcome'[u] = outcome[u]
         /\ tenant'[u] = tenant[u] /\ key'[u] = key[u] /\ prompt'[u] = prompt[u]
         /\ boundary'[u] = boundary[u] /\ parts'[u] = parts[u] /\ finals'[u] = finals[u]
         /\ segments'[u] = segments[u] /\ answer'[u] = answer[u]
         /\ u \in recorded' <=> u \in recorded
<1> USE DEF TypeOK, stream, texts, begun, GoTo, StreamOver, Yields, CanYield, Begins
<1>1. ASSUME NEW tn \in Tenant, NEW id \in SessionId \cup {None}, BeginAudio(t, tn, id) PROVE Same
  BY <1>1 DEF BeginAudio
<1>2. ASSUME NEW tn \in Tenant, NEW id \in SessionId \cup {None}, BeginText(t, tn, id) PROVE Same
  BY <1>2 DEF BeginText
<1>3. ASSUME NEW tn \in Tenant, NEW id \in SessionId \cup {None}, RejectAudio(t, tn, id) PROVE Same
  BY <1>3 DEF RejectAudio
<1>4. ASSUME NEW final \in BOOLEAN, NEW last \in BOOLEAN, Hear(t, final, last) PROVE Same
  BY <1>4 DEF Hear
<1>5. CASE HearSilence(t)
  BY <1>5 DEF HearSilence, Think, AddTurn
<1>6. CASE TranscriptEnds(t)
  BY <1>6 DEF TranscriptEnds, Think, AddTurn
<1>7. CASE EndListening(t)
  BY <1>7 DEF EndListening, Think, AddTurn
<1>8. CASE PullNext(t)
  BY <1>8 DEF PullNext
<1>9. CASE Token(t)
  BY <1>9 DEF Token
<1>10. CASE AnswerComplete(t)
  BY <1>10 DEF AnswerComplete, AddTurn
<1>11. CASE Sound(t)
  BY <1>11 DEF Sound
<1>12. CASE SpeechComplete(t)
  BY <1>12 DEF SpeechComplete
<1>13. CASE Finish(t)
  BY <1>13 DEF Finish
<1>14. CASE ProviderFails(t)
  BY <1>14 DEF ProviderFails
<1>15. CASE Cancel(t)
  BY <1>15 DEF Cancel
<1>16. CASE Abandon(t)
  BY <1>16 DEF Abandon
<1>17. ASSUME NEW s \in Stages, Finalise(t, s) PROVE Same
  BY <1>17 DEF Finalise
<1>18. QED
  BY <1>1, <1>2, <1>3, <1>4, <1>5, <1>6, <1>7, <1>8, <1>9, <1>10, <1>11, <1>12, <1>13, <1>14, <1>15, <1>16, <1>17
  DEF TurnStep, ProviderStep, ClientStep

\* A step leaves the variables of its turn in order.
LEMMA OwnOrder ==
  ASSUME ConstantsAssumption, TypeOK, NEW t \in Turn, Ordered(t), TurnStep(t)
  PROVE  Ordered(t)'
<1> USE DEF ConstantsAssumption, TypeOK, Ordered, stream, texts, begun, GoTo, StreamOver,
            Yields, CanYield, Begins, Counts
<1>1. ASSUME NEW tn \in Tenant, NEW id \in SessionId \cup {None}, BeginAudio(t, tn, id) PROVE Ordered(t)'
  BY <1>1 DEF BeginAudio
<1>2. ASSUME NEW tn \in Tenant, NEW id \in SessionId \cup {None}, BeginText(t, tn, id) PROVE Ordered(t)'
  BY <1>2 DEF BeginText
<1>3. ASSUME NEW tn \in Tenant, NEW id \in SessionId \cup {None}, RejectAudio(t, tn, id) PROVE Ordered(t)'
  BY <1>3 DEF RejectAudio
<1>4. ASSUME NEW final \in BOOLEAN, NEW last \in BOOLEAN, Hear(t, final, last) PROVE Ordered(t)'
  BY <1>4 DEF Hear
<1>5. CASE HearSilence(t)
  BY <1>5 DEF HearSilence, Think, AddTurn
<1>6. CASE TranscriptEnds(t)
  BY <1>6 DEF TranscriptEnds, Think, AddTurn
<1>7. CASE EndListening(t)
  BY <1>7 DEF EndListening, Think, AddTurn
<1>8. CASE PullNext(t)
  BY <1>8 DEF PullNext
<1>9. CASE Token(t)
  BY <1>9 DEF Token
<1>10. CASE AnswerComplete(t)
  BY <1>10 DEF AnswerComplete, AddTurn
<1>11. CASE Sound(t)
  BY <1>11 DEF Sound
<1>12. CASE SpeechComplete(t)
  BY <1>12 DEF SpeechComplete
<1>13. CASE Finish(t)
  BY <1>13 DEF Finish
<1>14. CASE ProviderFails(t)
  BY <1>14 DEF ProviderFails
<1>15. CASE Cancel(t)
  BY <1>15 DEF Cancel
<1>16. CASE Abandon(t)
  BY <1>16 DEF Abandon
<1>17. ASSUME NEW s \in Stages, Finalise(t, s) PROVE Ordered(t)'
  BY <1>17 DEF Finalise
<1>18. QED
  BY <1>1, <1>2, <1>3, <1>4, <1>5, <1>6, <1>7, <1>8, <1>9, <1>10, <1>11, <1>12, <1>13, <1>14, <1>15, <1>16, <1>17
  DEF TurnStep, ProviderStep, ClientStep

\* A session that is opened is empty, and the others stay.
LEMMA SessionOpened ==
  ASSUME TypeOK, NEW k \in Keys, history' = WithSession(k)
  PROVE  /\ DOMAIN history' = DOMAIN history \cup {k} /\ DOMAIN history' \subseteq Keys
         /\ history' \in [DOMAIN history' -> Seq(Entries)]
         /\ \A j \in DOMAIN history' : IF j \in DOMAIN history THEN history'[j] = history[j]
                                         ELSE history'[j] = << >>
<1>1. history' = [j \in DOMAIN history \cup {k} |-> IF j \in DOMAIN history THEN history[j] ELSE << >>]
  BY DEF WithSession
<1>2. << >> \in Seq(Entries)
  OBVIOUS
<1>3. QED
  BY <1>1, <1>2 DEF TypeOK

\* An entry that is added stands at the end of its turn's session.
LEMMA SessionExtended ==
  ASSUME TypeOK, NEW t \in Turn, key[t] \in DOMAIN history, NEW role \in {"user", "agent"},
         NEW n \in Counts, AddTurn(t, role, n)
  PROVE  /\ Entry(role, t, n) \in Entries
         /\ DOMAIN history' = DOMAIN history /\ history' \in [DOMAIN history' -> Seq(Entries)]
         /\ history'[key[t]] = Append(Session(t), Entry(role, t, n))
         /\ \A k \in DOMAIN history : k # key[t] => history'[k] = history[k]
<1>1. Entry(role, t, n) \in Entries
  BY DEF Entry, Entries
<1>2. Append(Session(t), Entry(role, t, n)) \in Seq(Entries)
  BY <1>1 DEF TypeOK, Session
<1>3. history' = [history EXCEPT ![key[t]] = Append(Session(t), Entry(role, t, n))]
  BY DEF AddTurn, Session
<1>4. QED
  BY <1>1, <1>2, <1>3 DEF TypeOK

\* The sessions and prompts keep their types.
LEMMA TextsTyped ==
  ASSUME TypeOK, NEW t \in Turn, Homed(t), Opens(t) \/ Asks(t) \/ Answers(t) \/ GoesOn(t)
  PROVE  /\ tenant' \in [Turn -> Tenant \cup {None}] /\ key' \in [Turn -> Keys \cup {None}]
         /\ DOMAIN history' \subseteq Keys /\ history' \in [DOMAIN history' -> Seq(Entries)]
         /\ prompt' \in [Turn -> Seq(Entries)]
<1>1. CASE Opens(t)
  <2>1. PICK tn \in Tenant, id \in SessionId \cup {None} :
          /\ tenant' = [tenant EXCEPT ![t] = tn]
          /\ key' = [key EXCEPT ![t] = Resolve(tn, id, t)]
          /\ history' = WithSession(Resolve(tn, id, t))
    BY <1>1 DEF Opens
  <2>2. Resolve(tn, id, t) \in Keys
    BY DEF Resolve, Keys
  <2>3. QED
    BY <1>1, <2>1, <2>2, SessionOpened DEF Opens, TypeOK
<1>2. CASE Asks(t)
  <2>1. key[t] \in DOMAIN history /\ segments[t] \in Counts /\ AddTurn(t, "user", segments[t])
    BY <1>2 DEF Asks, Homed, TypeOK
  <2>2. Append(Session(t), Entry("user", t, segments[t])) \in Seq(Entries)
    BY <2>1, SessionExtended DEF TypeOK, Session
  <2>3. QED
    BY <1>2, <2>1, <2>2, SessionExtended DEF Asks, TypeOK
<1>3. CASE Answers(t)
  <2>1. key[t] \in DOMAIN history /\ answer[t] \in Counts /\ AddTurn(t, "agent", answer[t])
    BY <1>3 DEF Answers, Homed, TypeOK
  <2>2. QED
    BY <1>3, <2>1, SessionExtended DEF Answers, TypeOK
<1>4. CASE GoesOn(t)
  BY <1>4 DEF GoesOn, TypeOK
<1>5. QED
  BY <1>1, <1>2, <1>3, <1>4

\* So do all the others.
LEMMA TypeStep ==
  ASSUME ConstantsAssumption, TypeOK, NEW t \in Turn, Ordered(t), Homed(t), TurnStep(t)
  PROVE  TypeOK'
<1> DEFINE Rest ==
         /\ stage' \in [Turn -> Stages] /\ atYield' \in [Turn -> BOOLEAN]
         /\ boundary' \in [Turn -> BOOLEAN]
         /\ open' \in [Turn -> SUBSET {"listening", "thinking", "speaking"}]
         /\ outcome' \in [Turn -> Outcomes] /\ recorded' \subseteq Turn
         /\ parts' \in [Turn -> Counts] /\ finals' \in [Turn -> Counts]
         /\ segments' \in [Turn -> Counts] /\ answer' \in [Turn -> Counts]
         /\ turnCount' \in Nat /\ errorCount' \in Nat
<1>1. Rest
  <2>0. /\ stage \in [Turn -> Stages] /\ atYield \in [Turn -> BOOLEAN]
        /\ boundary \in [Turn -> BOOLEAN]
        /\ open \in [Turn -> SUBSET {"listening", "thinking", "speaking"}]
        /\ outcome \in [Turn -> Outcomes] /\ recorded \subseteq Turn
        /\ parts \in [Turn -> Counts] /\ finals \in [Turn -> Counts]
        /\ segments \in [Turn -> Counts] /\ answer \in [Turn -> Counts]
        /\ turnCount \in Nat /\ errorCount \in Nat
    BY DEF TypeOK
  <2> USE <2>0
      DEF ConstantsAssumption, stream, texts, begun, GoTo, StreamOver, Yields, CanYield, Begins, Counts,
          Stages, Outcomes
<2>1. ASSUME NEW tn \in Tenant, NEW id \in SessionId \cup {None}, BeginAudio(t, tn, id) PROVE Rest
  BY <2>1 DEF BeginAudio
<2>2. ASSUME NEW tn \in Tenant, NEW id \in SessionId \cup {None}, BeginText(t, tn, id) PROVE Rest
  BY <2>2 DEF BeginText
<2>3. ASSUME NEW tn \in Tenant, NEW id \in SessionId \cup {None}, RejectAudio(t, tn, id) PROVE Rest
  BY <2>3 DEF RejectAudio
<2>4. ASSUME NEW final \in BOOLEAN, NEW last \in BOOLEAN, Hear(t, final, last) PROVE Rest
  BY <2>4 DEF Hear, Ordered
<2>5. CASE HearSilence(t)
  BY <2>5 DEF HearSilence, Think, AddTurn
<2>6. CASE TranscriptEnds(t)
  BY <2>6 DEF TranscriptEnds, Think, AddTurn
<2>7. CASE EndListening(t)
  BY <2>7 DEF EndListening, Think, AddTurn
<2>8. CASE PullNext(t)
  BY <2>8 DEF PullNext
<2>9. CASE Token(t)
  BY <2>9 DEF Token, Ordered
<2>10. CASE AnswerComplete(t)
  BY <2>10 DEF AnswerComplete, AddTurn
<2>11. CASE Sound(t)
  BY <2>11 DEF Sound
<2>12. CASE SpeechComplete(t)
  BY <2>12 DEF SpeechComplete
<2>13. CASE Finish(t)
  BY <2>13 DEF Finish
<2>14. CASE ProviderFails(t)
  BY <2>14 DEF ProviderFails
<2>15. CASE Cancel(t)
  BY <2>15 DEF Cancel
<2>16. CASE Abandon(t)
  BY <2>16 DEF Abandon
<2>17. ASSUME NEW s \in Stages, Finalise(t, s) PROVE Rest
  BY <2>17 DEF Finalise
<2>18. QED
  BY <2>1, <2>2, <2>3, <2>4, <2>5, <2>6, <2>7, <2>8, <2>9, <2>10, <2>11, <2>12, <2>13, <2>14, <2>15, <2>16, <2>17
  DEF TurnStep, ProviderStep, ClientStep
<1>2. QED
  BY <1>1, Kinds, TextsTyped DEF TypeOK

-----------------------------------------------------------------------------
(* What is said and remembered.                                            *)

Kind(t) == Opens(t) \/ Asks(t) \/ Answers(t) \/ GoesOn(t)

\* A step of turn t leaves a session as it is or adds an entry of t to it.
LEMMA SessionsGrow ==
  ASSUME TypeOK, NEW t \in Turn, Homed(t), Kind(t), NEW k \in DOMAIN history
  PROVE  /\ k \in DOMAIN history' /\ history[k] \in Seq(Entries)
         /\ \/ history'[k] = history[k]
            \/ \E e \in Entries : e.turn = t /\ history'[k] = Append(history[k], e)
<1>1. CASE Opens(t)
  <2>1. PICK tn \in Tenant, id \in SessionId \cup {None} : history' = WithSession(Resolve(tn, id, t))
    BY <1>1 DEF Opens
  <2>2. Resolve(tn, id, t) \in Keys
    BY DEF Resolve, Keys
  <2>3. QED
    BY <2>1, <2>2, SessionOpened DEF TypeOK
<1>2. CASE Asks(t)
  <2>1. key[t] \in DOMAIN history /\ segments[t] \in Counts /\ AddTurn(t, "user", segments[t])
    BY <1>2 DEF Asks, Homed, TypeOK
  <2>2. Entry("user", t, segments[t]).turn = t
    BY DEF Entry
  <2>3. /\ Entry("user", t, segments[t]) \in Entries /\ DOMAIN history' = DOMAIN history
        /\ history'[key[t]] = Append(Session(t), Entry("user", t, segments[t]))
        /\ k # key[t] => history'[k] = history[k]
    BY <2>1, SessionExtended
  <2>4. QED
    BY <2>2, <2>3 DEF TypeOK, Session
<1>3. CASE Answers(t)
  <2>1. key[t] \in DOMAIN history /\ answer[t] \in Counts /\ AddTurn(t, "agent", answer[t])
    BY <1>3 DEF Answers, Homed, TypeOK
  <2>2. Entry("agent", t, answer[t]).turn = t
    BY DEF Entry
  <2>3. /\ Entry("agent", t, answer[t]) \in Entries /\ DOMAIN history' = DOMAIN history
        /\ history'[key[t]] = Append(Session(t), Entry("agent", t, answer[t]))
        /\ k # key[t] => history'[k] = history[k]
    BY <2>1, SessionExtended
  <2>4. QED
    BY <2>2, <2>3 DEF TypeOK, Session
<1>4. CASE GoesOn(t)
  BY <1>4 DEF GoesOn, TypeOK
<1>5. QED
  BY <1>1, <1>2, <1>3, <1>4 DEF Kind

\* The turn that moves has the session of its tenant.
LEMMA HomedStep ==
  ASSUME TypeOK, NEW t \in Turn, Homed(t), Kind(t)
  PROVE  Homed(t)'
<1>1. CASE Opens(t)
  <2>1. PICK tn \in Tenant, id \in SessionId \cup {None} :
          /\ tenant' = [tenant EXCEPT ![t] = tn]
          /\ key' = [key EXCEPT ![t] = Resolve(tn, id, t)]
          /\ history' = WithSession(Resolve(tn, id, t))
    BY <1>1 DEF Opens
  <2>2. Resolve(tn, id, t) \in Keys /\ Resolve(tn, id, t)[1] = tn
    BY DEF Resolve, Keys
  <2>3. key'[t] = Resolve(tn, id, t) /\ tenant'[t] = tn
    BY <2>1 DEF TypeOK
  <2>4. key'[t] \in DOMAIN history'
    BY <2>1, <2>2, <2>3, SessionOpened
  <2>5. QED
    BY <2>2, <2>3, <2>4 DEF Homed
<1>2. CASE ~Opens(t)
  <2>1. UNCHANGED <<tenant, key>> /\ (stage[t] = "new" => stage'[t] = "new")
    BY <1>2 DEF Kind, Asks, Answers, GoesOn
  <2>2. QED
    BY <2>1, SessionsGrow DEF Homed
<1>3. QED
  BY <1>1, <1>2

\* Sessions hold what was said in them.
LEMMA SaidStep ==
  ASSUME TypeOK, SaidAtHome, NEW t \in Turn, Homed(t), Kind(t),
         \A u \in Turn : u # t => key'[u] = key[u] /\ stage'[u] = stage[u]
  PROVE  SaidAtHome'
<1> SUFFICES ASSUME NEW k \in DOMAIN history', NEW i \in 1 .. Len(history'[k])
             PROVE  /\ key'[history'[k][i].turn] = k
                    /\ stage'[history'[k][i].turn] \notin {"new", "listening"}
  BY DEF SaidAtHome
<1>1. ASSUME k \in DOMAIN history, i \in 1 .. Len(history[k]), history'[k][i] = history[k][i]
      PROVE  /\ key'[history'[k][i].turn] = k
             /\ stage'[history'[k][i].turn] \notin {"new", "listening"}
  <2> DEFINE u == history[k][i].turn
  <2>1. u \in Turn
    <3>1. history[k] \in Seq(Entries)
      BY <1>1 DEF TypeOK
    <3>2. history[k][i] \in Entries
      BY <1>1, <3>1
    <3>3. QED
      BY <3>2 DEF Entries
  <2>2. key[u] = k /\ stage[u] \notin {"new", "listening"}
    BY <1>1 DEF SaidAtHome
  <2>3. u = t => key' = key /\ stage'[u] \notin {"new", "listening"}
    BY <2>2 DEF Kind, Opens, Asks, Answers, GoesOn
  <2>4. QED
    BY <1>1, <2>1, <2>2, <2>3
<1>2. CASE Opens(t)
  <2>1. PICK tn \in Tenant, id \in SessionId \cup {None} : history' = WithSession(Resolve(tn, id, t))
    BY <1>2 DEF Opens
  <2>2. Resolve(tn, id, t) \in Keys
    BY DEF Resolve, Keys
  <2>3. IF k \in DOMAIN history THEN history'[k] = history[k] ELSE history'[k] = << >>
    BY <2>1, <2>2, SessionOpened
  <2>4. k \in DOMAIN history
    <3>1. history'[k] # << >>
      OBVIOUS
    <3>2. QED
      BY <2>3, <3>1
  <2>5. QED
    BY <1>1, <2>3, <2>4
<1>3. ASSUME NEW role \in {"user", "agent"}, NEW n \in Counts, AddTurn(t, role, n),
             stage[t] # "new", key' = key, stage'[t] \notin {"new", "listening"}
      PROVE  /\ key'[history'[k][i].turn] = k
             /\ stage'[history'[k][i].turn] \notin {"new", "listening"}
  <2>1. key[t] \in DOMAIN history
    BY <1>3 DEF Homed
  <2>2. /\ Entry(role, t, n) \in Entries /\ Entry(role, t, n).turn = t
        /\ DOMAIN history' = DOMAIN history
        /\ history'[key[t]] = Append(Session(t), Entry(role, t, n))
        /\ k # key[t] => history'[k] = history[k]
    BY <1>3, <2>1, SessionExtended DEF Entry
  <2>3. CASE k # key[t]
    BY <1>1, <2>2, <2>3
  <2>4. CASE k = key[t] /\ i = Len(history[k]) + 1
    <3>1. history'[k][i] = Entry(role, t, n)
      BY <2>1, <2>2, <2>4 DEF Session, TypeOK
    <3>2. QED
      BY <1>3, <2>2, <2>4, <3>1
  <2>5. CASE k = key[t] /\ i # Len(history[k]) + 1
    <3>1. i \in 1 .. Len(history[k]) /\ history'[k][i] = history[k][i]
      BY <2>1, <2>2, <2>5 DEF Session, TypeOK
    <3>2. QED
      BY <1>1, <2>2, <3>1
  <2>6. QED
    BY <2>3, <2>4, <2>5
<1>4. CASE Asks(t)
  BY <1>3, <1>4 DEF Asks, TypeOK
<1>5. CASE Answers(t)
  BY <1>3, <1>5 DEF Answers, TypeOK
<1>6. CASE GoesOn(t)
  BY <1>1, <1>6 DEF GoesOn
<1>7. QED
  BY <1>2, <1>4, <1>5, <1>6 DEF Kind

\* What a turn relies on is not disturbed by the entries of another one.
LEMMA OthersRemember ==
  ASSUME TypeOK, NEW t \in Turn, Homed(t), Kind(t), NEW u \in Turn, u # t,
         Ordered(u), Homed(u), Prompted(u), InMemory(u),
         stage'[u] = stage[u], tenant'[u] = tenant[u], key'[u] = key[u], prompt'[u] = prompt[u],
         finals'[u] = finals[u], answer'[u] = answer[u], u \in recorded' <=> u \in recorded
  PROVE  Homed(u)' /\ Prompted(u)' /\ InMemory(u)'
<1>1. CASE stage[u] = "new"
  BY <1>1 DEF Ordered, Homed, Prompted, InMemory
<1>2. CASE stage[u] # "new"
  <2>1. key[u] \in DOMAIN history
    BY <1>2 DEF Homed
  <2>2. /\ key[u] \in DOMAIN history' /\ Session(u) \in Seq(Entries)
        /\ \/ history'[key[u]] = Session(u)
           \/ \E e \in Entries : e.turn = t /\ history'[key[u]] = Append(Session(u), e)
    BY <2>1, SessionsGrow DEF Session
  <2>3. Homed(u)'
    BY <2>2 DEF Homed
  <2>4. Prompted(u)'
    <3>1. Len(history'[key[u]]) >= Len(Session(u))
      BY <2>2
    <3>2. \A i \in 1 .. Len(Session(u)) : history'[key[u]][i] = Session(u)[i]
      BY <2>2
    <3>3. Len(Session(u)) \in Nat /\ prompt[u] \in Seq(Entries)
      BY <2>2 DEF TypeOK
    <3>4. QED
      BY <3>1, <3>2, <3>3 DEF Prompted, Session
  <2>5. InMemory(u)'
    <3>1. /\ Asked(Session(u), u, finals[u]) => Asked(history'[key[u]], u, finals[u])
          /\ Remembered(Session(u), u, finals[u], answer[u]) =>
               Remembered(history'[key[u]], u, finals[u], answer[u])
      BY <2>2, OthersAppend
    <3>2. QED
      BY <3>1 DEF InMemory, Session
  <2>6. QED
    BY <2>3, <2>4, <2>5
<1>3. QED
  BY <1>1, <1>2

\* The prompt of the turn that moves stays what its session held, its question last.
LEMMA OwnPrompt ==
  ASSUME TypeOK, NEW t \in Turn, Ordered(t), Homed(t), Prompted(t), Kind(t)
  PROVE  Prompted(t)'
<1>1. CASE Opens(t)
  BY <1>1 DEF Opens, Ordered, Prompted
<1>2. CASE Asks(t)
  <2>1. /\ key[t] \in DOMAIN history /\ segments[t] \in Counts /\ AddTurn(t, "user", segments[t])
        /\ key' = key /\ finals' = finals /\ segments[t] = finals[t]
    BY <1>2 DEF Asks, Homed, Ordered, TypeOK
  <2>2. /\ Entry("user", t, finals[t]) \in Entries /\ Session(t) \in Seq(Entries)
        /\ history'[key[t]] = Append(Session(t), Entry("user", t, finals[t]))
    BY <2>1, SessionExtended DEF TypeOK, Session
  <2>3. prompt'[t] = Append(Session(t), Entry("user", t, finals[t]))
    BY <1>2, <2>1 DEF Asks, TypeOK
  <2>4. Session(t)' = prompt'[t]
    BY <2>1, <2>2, <2>3 DEF Session
  <2>5. Len(prompt'[t]) = Len(Session(t)) + 1 /\ prompt'[t][Len(Session(t)) + 1] = Entry("user", t, finals[t])
    BY <2>2, <2>3
  <2>6. Entry("user", t, finals[t])' = Entry("user", t, finals[t])
    BY <2>1 DEF Entry
  <2>7. Len(prompt'[t]) \in Nat
    BY <2>2, <2>3
  <2>8. QED
    BY <2>4, <2>5, <2>6, <2>7 DEF Prompted
<1>3. CASE Answers(t)
  <2>1. /\ key[t] \in DOMAIN history /\ answer[t] \in Counts /\ AddTurn(t, "agent", answer[t])
        /\ key' = key /\ finals' = finals /\ prompt' = prompt
    BY <1>3 DEF Answers, Homed, TypeOK
  <2>2. /\ Entry("agent", t, answer[t]) \in Entries /\ Session(t) \in Seq(Entries)
        /\ Session(t)' = Append(Session(t), Entry("agent", t, answer[t]))
    BY <2>1, SessionExtended DEF TypeOK, Session
  <2>3. /\ Len(Session(t)') >= Len(Session(t)) /\ Len(Session(t)) \in Nat
        /\ \A i \in 1 .. Len(Session(t)) : Session(t)'[i] = Session(t)[i]
    BY <2>2
  <2>4. Len(prompt[t]) \in Nat /\ Len(Session(t)') \in Nat
    BY <2>2 DEF TypeOK
  <2>5. QED
    BY <2>1, <2>3, <2>4 DEF Prompted, Entry
<1>4. CASE GoesOn(t)
  <2>1. prompt[t] # << >> => finals'[t] = finals[t]
    BY <1>4 DEF GoesOn, Ordered
  <2>2. QED
    BY <1>4, <2>1 DEF GoesOn, Prompted, Session, Entry
<1>5. QED
  BY <1>1, <1>2, <1>3, <1>4 DEF Kind

\* So does what it has asked and answered.
LEMMA OwnMemory ==
  ASSUME TypeOK, SaidAtHome, NEW t \in Turn, Ordered(t), Homed(t), InMemory(t), Kind(t)
  PROVE  InMemory(t)'
<1>1. CASE Opens(t)
  <2>1. t \notin recorded' /\ stage'[t] \in {"listening", "ended"}
    BY <1>1 DEF Opens, Ordered
  <2>2. QED
    BY <2>1 DEF InMemory
<1>2. CASE Asks(t)
  <2>1. /\ key[t] \in DOMAIN history /\ segments[t] \in Counts /\ AddTurn(t, "user", segments[t])
        /\ key' = key /\ finals' = finals /\ segments[t] = finals[t]
        /\ stage'[t] = "thinking" /\ t \notin recorded'
    BY <1>2 DEF Asks, Homed, Ordered, TypeOK
  <2>2. /\ Session(t) \in Seq(Entries)
        /\ Session(t)' = Append(Session(t), Entry("user", t, finals[t]))
    BY <2>1, SessionExtended DEF TypeOK, Session
  <2>3. \A i \in 1 .. Len(Session(t)) : Session(t)[i].turn # t
    BY <1>2, <2>1 DEF SaidAtHome, Session, Asks
  <2>4. Asked(Session(t)', t, finals[t])
    BY <2>1, <2>2, <2>3, FirstAsked
  <2>5. QED
    BY <2>1, <2>4 DEF InMemory
<1>3. CASE Answers(t)
  <2>1. /\ key[t] \in DOMAIN history /\ answer[t] \in Counts /\ AddTurn(t, "agent", answer[t])
        /\ key' = key /\ finals' = finals /\ answer' = answer
        /\ stage[t] = "thinking" /\ stage'[t] = "speaking"
    BY <1>3 DEF Answers, Homed, TypeOK
  <2>2. /\ Session(t) \in Seq(Entries)
        /\ Session(t)' = Append(Session(t), Entry("agent", t, answer[t]))
    BY <2>1, SessionExtended DEF TypeOK, Session
  <2>3. Remembered(Session(t)', t, finals[t], answer[t])
    BY <2>1, <2>2, ThenRemembered DEF InMemory
  <2>4. QED
    BY <2>1, <2>3 DEF InMemory
<1>4. CASE GoesOn(t)
  <2>1. Session(t)' = Session(t)
    BY <1>4 DEF GoesOn, Session
  <2>2. stage'[t] = "thinking" => stage[t] = "thinking" /\ finals'[t] = finals[t]
    BY <1>4 DEF GoesOn
  <2>3. stage'[t] \in {"speaking", "finishing"} \/ t \in recorded' =>
          /\ stage[t] \in {"speaking", "finishing"} \/ t \in recorded
          /\ finals'[t] = finals[t] /\ answer'[t] = answer[t]
    BY <1>4 DEF GoesOn, Ordered
  <2>4. QED
    BY <2>1, <2>2, <2>3 DEF InMemory
<1>5. QED
  BY <1>1, <1>2, <1>3, <1>4 DEF Kind

-----------------------------------------------------------------------------
\* Initially there are no sessions and no turns.
LEMMA InitIInv == ASSUME ConstantsAssumption PROVE Init => IInv
<1> SUFFICES ASSUME Init PROVE IInv
  OBVIOUS
<1>1. DOMAIN history = {} /\ history \in [{} -> Seq(Entries)]
  <2>1. << >> \in [1 .. 0 -> Seq(Entries)]
    OBVIOUS
  <2>2. 1 .. 0 = {}
    OBVIOUS
  <2>3. QED
    BY <2>1, <2>2 DEF Init
<1>2. TypeOK
  <2>1. prompt \in [Turn -> Seq(Entries)]
    BY DEF Init
  <2>2. \A f \in {parts, finals, segments, answer} : f \in [Turn -> Counts]
    BY DEF ConstantsAssumption, Init, Counts
  <2>3. QED
    BY <1>1, <2>1, <2>2 DEF Init, TypeOK, Stages, Outcomes
<1>3. QED
  BY <1>1, <1>2 DEF Init, IInv, SaidAtHome, Ordered, Homed, Prompted, InMemory

\* Every step preserves the invariant.
LEMMA NextIInv == ASSUME ConstantsAssumption PROVE IInv /\ [Next]_vars => IInv'
<1> SUFFICES ASSUME IInv, [Next]_vars PROVE IInv'
  OBVIOUS
<1>1. CASE UNCHANGED vars
  <2>1. TypeOK'
    BY <1>1 DEF vars, stream, texts, begun, IInv, TypeOK
  <2>2. SaidAtHome'
    BY <1>1 DEF vars, stream, texts, begun, IInv, SaidAtHome
  <2>3. \A t \in Turn : Ordered(t)' /\ Homed(t)'
    BY <1>1 DEF vars, stream, texts, begun, IInv, Ordered, Homed
  <2>4. \A t \in Turn : Prompted(t)'
    BY <1>1 DEF vars, stream, texts, begun, IInv, Prompted, Session, Entry
  <2>5. \A t \in Turn : InMemory(t)'
    BY <1>1 DEF vars, stream, texts, begun, IInv, InMemory, Session
  <2>6. QED
    BY <2>1, <2>2, <2>3, <2>4, <2>5 DEF IInv
<1>2. ASSUME NEW t \in Turn, TurnStep(t) PROVE IInv'
  <2>1. TypeOK /\ SaidAtHome /\ Ordered(t) /\ Homed(t) /\ Prompted(t) /\ InMemory(t)
    BY DEF IInv
  <2>2. Kind(t)
    BY <1>2, <2>1, Kinds DEF Kind
  <2>3. TypeOK'
    BY <1>2, <2>1, TypeStep
  <2>4. \A u \in Turn : u # t => key'[u] = key[u] /\ stage'[u] = stage[u]
    BY <1>2, <2>1, OthersUntouched
  <2>5. SaidAtHome'
    BY <2>1, <2>2, <2>4, SaidStep
  <2>6. Ordered(t)' /\ Homed(t)' /\ Prompted(t)' /\ InMemory(t)'
    BY <1>2, <2>1, <2>2, OwnOrder, HomedStep, OwnPrompt, OwnMemory
  <2>7. ASSUME NEW u \in Turn, u # t PROVE Ordered(u)' /\ Homed(u)' /\ Prompted(u)' /\ InMemory(u)'
    <3>1. Ordered(u) /\ Homed(u) /\ Prompted(u) /\ InMemory(u)
      BY DEF IInv
    <3>2. /\ stage'[u] = stage[u] /\ atYield'[u] = atYield[u] /\ outcome'[u] = outcome[u]
          /\ tenant'[u] = tenant[u] /\ key'[u] = key[u] /\ prompt'[u] = prompt[u]
          /\ boundary'[u] = boundary[u] /\ parts'[u] = parts[u] /\ finals'[u] = finals[u]
          /\ segments'[u] = segments[u] /\ answer'[u] = answer[u]
          /\ u \in recorded' <=> u \in recorded
      BY <1>2, <2>1, <2>7, OthersUntouched
    <3>3. Ordered(u)'
      BY <3>1, <3>2 DEF Ordered
    <3>4. Homed(u)' /\ Prompted(u)' /\ InMemory(u)'
      BY <2>1, <2>2, <2>7, <3>1, <3>2, OthersRemember
    <3>5. QED
      BY <3>3, <3>4
  <2>8. QED
    BY <2>3, <2>5, <2>6, <2>7 DEF IInv
<1>3. QED
  BY <1>1, <1>2 DEF Next

-----------------------------------------------------------------------------
(* The theorems.                                                           *)

\* The invariant holds in every behaviour.
THEOREM Invariance == ASSUME ConstantsAssumption PROVE Spec => []IInv
  BY InitIInv, NextIInv, PTL DEF Spec

\* Every variable has its type.
THEOREM TypeCorrect == ASSUME ConstantsAssumption PROVE Spec => []TypeOK
<1>1. IInv => TypeOK
  BY DEF IInv
<1>2. QED
  BY <1>1, Invariance, PTL

\* A prompt is what the session held when the question was asked, and ends with the turn's
\* own question, however turns of one session interleave (pipeline.py:130-134).
THEOREM PromptsAskOwnQuestions == ASSUME ConstantsAssumption PROVE Spec => []PromptAsksOwnQuestion
<1>1. IInv => PromptAsksOwnQuestion
  <2> SUFFICES ASSUME IInv, NEW t \in Turn, prompt[t] # << >>
               PROVE  /\ prompt[t] = SubSeq(history[key[t]], 1, Len(prompt[t]))
                      /\ prompt[t][Len(prompt[t])] = Entry("user", t, finals[t])
    BY DEF PromptAsksOwnQuestion
  <2>1. /\ TypeOK /\ Ordered(t) /\ Homed(t)
        /\ Len(prompt[t]) <= Len(Session(t))
        /\ \A i \in 1 .. Len(prompt[t]) : prompt[t][i] = Session(t)[i]
        /\ prompt[t][Len(prompt[t])] = Entry("user", t, finals[t])
    BY DEF IInv, Prompted
  <2>2. prompt[t] \in Seq(Entries) /\ Session(t) \in Seq(Entries)
    BY <2>1 DEF TypeOK, Ordered, Homed, Session
  <2> DEFINE p == SubSeq(Session(t), 1, Len(prompt[t]))
  <2>3. \A i \in 1 .. Len(prompt[t]) : Session(t)[i] \in Entries
    BY <2>1, <2>2
  <2>4. /\ p \in Seq(Entries) /\ Len(p) = Len(prompt[t])
        /\ \A i \in 1 .. Len(prompt[t]) : p[i] = Session(t)[i]
    BY <2>1, <2>2
  <2>5. prompt[t] = p
    BY <2>1, <2>2, <2>4, SeqEqual
  <2>6. QED
    BY <2>1, <2>5 DEF Session
<1>2. QED
  BY <1>1, Invariance, PTL

\* "sessions are isolated per tenant" (session/store.py:5), whatever ids clients choose.
THEOREM TenantsAreIsolated == ASSUME ConstantsAssumption PROVE Spec => []TenantsIsolated
<1>1. IInv => TenantsIsolated
  <2> SUFFICES ASSUME IInv, NEW k \in DOMAIN history, NEW i \in 1 .. Len(history[k])
               PROVE  tenant[history[k][i].turn] = k[1]
    BY DEF TenantsIsolated
  <2>1. history[k] \in Seq(Entries)
    BY DEF IInv, TypeOK
  <2>2. history[k][i] \in Entries /\ history[k][i].turn \in Turn
    <3>1. history[k][i] \in Entries
      BY <2>1
    <3>2. QED
      BY <3>1 DEF Entries
  <2>3. key[history[k][i].turn] = k /\ stage[history[k][i].turn] # "new"
    BY DEF IInv, SaidAtHome
  <2>4. QED
    BY <2>2, <2>3 DEF IInv, Homed
<1>2. QED
  BY <1>1, Invariance, PTL

\* A turn that was recorded in metrics and usage has one question and, after it, one answer
\* in its session, with all that was heard and all that was streamed (turn_taking.py:17-19).
THEOREM RecordedAreRemembered == ASSUME ConstantsAssumption PROVE Spec => []RecordedTurnsRemembered
<1>1. IInv => RecordedTurnsRemembered
  <2> SUFFICES ASSUME IInv, NEW t \in recorded
               PROVE  \E i, j \in 1 .. Len(history[key[t]]) :
                        /\ i < j /\ Positions(t, "user") = {i} /\ Positions(t, "agent") = {j}
                        /\ history[key[t]][i].text = finals[t] /\ history[key[t]][j].text = answer[t]
    BY DEF RecordedTurnsRemembered
  <2>1. t \in Turn
    BY DEF IInv, TypeOK
  <2>2. Remembered(Session(t), t, finals[t], answer[t])
    BY <2>1 DEF IInv, InMemory
  <2>3. PICK i, j \in 1 .. Len(Session(t)) :
          /\ i < j /\ Of(Session(t), t, "user") = {i} /\ Of(Session(t), t, "agent") = {j}
          /\ Session(t)[i].text = finals[t] /\ Session(t)[j].text = answer[t]
    BY <2>2 DEF Remembered
  <2>4. \A role : Positions(t, role) = Of(Session(t), t, role)
    BY DEF Positions, Of, Session
  <2>5. QED
    BY <2>3, <2>4 DEF Session
<1>2. QED
  BY <1>1, Invariance, PTL

-----------------------------------------------------------------------------
(* The refinement: what the dispatch and the counters may rely on.         *)

Phases == [t \in Turn |-> Phase(t)]

\* A step moves its turn's phase only.
LEMMA PhaseMoves ==
  ASSUME IInv, NEW t \in Turn, TurnStep(t)
  PROVE  Phases' = [Phases EXCEPT ![t] = Phase(t)']
<1>1. ASSUME NEW u \in Turn, u # t PROVE Phase(u)' = Phase(u)
  <2>1. stage'[u] = stage[u] /\ outcome'[u] = outcome[u]
    BY <1>1, OthersUntouched DEF IInv
  <2>2. QED
    BY <2>1 DEF Phase
<1>2. QED
  BY <1>1 DEF Phases

\* What the steps do to a turn's phase and to the counters.
Moved(t, from, to) == Phase(t) = from /\ Phase(t)' = to

\* A step moves a turn from one phase to the next and counts it, or leaves both alone.
LEMMA PhaseStep ==
  ASSUME TypeOK, NEW t \in Turn, Ordered(t), TurnStep(t)
  PROVE  \/ Moved(t, "idle", "running") /\ turnCount' = turnCount + 1 /\ errorCount' = errorCount
         \/ Moved(t, "idle", "failed") /\ turnCount' = turnCount + 1 /\ errorCount' = errorCount + 1
         \/ Moved(t, "running", "failed") /\ turnCount' = turnCount /\ errorCount' = errorCount + 1
         \/ Moved(t, "running", "done") /\ UNCHANGED <<turnCount, errorCount>>
         \/ Moved(t, "running", "left") /\ UNCHANGED <<turnCount, errorCount>>
         \/ Phase(t)' = Phase(t) /\ UNCHANGED <<turnCount, errorCount>>
<1> DEFINE Step ==
         \/ Moved(t, "idle", "running") /\ turnCount' = turnCount + 1 /\ errorCount' = errorCount
         \/ Moved(t, "idle", "failed") /\ turnCount' = turnCount + 1 /\ errorCount' = errorCount + 1
         \/ Moved(t, "running", "failed") /\ turnCount' = turnCount /\ errorCount' = errorCount + 1
         \/ Moved(t, "running", "done") /\ UNCHANGED <<turnCount, errorCount>>
         \/ Moved(t, "running", "left") /\ UNCHANGED <<turnCount, errorCount>>
         \/ Phase(t)' = Phase(t) /\ UNCHANGED <<turnCount, errorCount>>
<1> USE DEF TypeOK, Ordered, stream, texts, begun, GoTo, StreamOver, Yields, CanYield, Begins,
        Phase, Moved, Stages, Outcomes
<1>1. ASSUME NEW tn \in Tenant, NEW id \in SessionId \cup {None}, BeginAudio(t, tn, id) PROVE Step
  BY <1>1 DEF BeginAudio
<1>2. ASSUME NEW tn \in Tenant, NEW id \in SessionId \cup {None}, BeginText(t, tn, id) PROVE Step
  BY <1>2 DEF BeginText
<1>3. ASSUME NEW tn \in Tenant, NEW id \in SessionId \cup {None}, RejectAudio(t, tn, id) PROVE Step
  BY <1>3 DEF RejectAudio
<1>4. ASSUME NEW final \in BOOLEAN, NEW last \in BOOLEAN, Hear(t, final, last) PROVE Step
  BY <1>4 DEF Hear
<1>5. CASE HearSilence(t)
  BY <1>5 DEF HearSilence, Think, AddTurn
<1>6. CASE TranscriptEnds(t)
  BY <1>6 DEF TranscriptEnds, Think, AddTurn
<1>7. CASE EndListening(t)
  BY <1>7 DEF EndListening, Think, AddTurn
<1>8. CASE PullNext(t)
  BY <1>8 DEF PullNext
<1>9. CASE Token(t)
  BY <1>9 DEF Token
<1>10. CASE AnswerComplete(t)
  BY <1>10 DEF AnswerComplete, AddTurn
<1>11. CASE Sound(t)
  BY <1>11 DEF Sound
<1>12. CASE SpeechComplete(t)
  BY <1>12 DEF SpeechComplete
<1>13. CASE Finish(t)
  BY <1>13 DEF Finish
<1>14. CASE ProviderFails(t)
  BY <1>14 DEF ProviderFails
<1>15. CASE Cancel(t)
  BY <1>15 DEF Cancel
<1>16. CASE Abandon(t)
  BY <1>16 DEF Abandon
<1>17. ASSUME NEW s \in Stages, Finalise(t, s) PROVE Step
  BY <1>17 DEF Finalise
<1>18. QED
  BY <1>1, <1>2, <1>3, <1>4, <1>5, <1>6, <1>7, <1>8, <1>9, <1>10, <1>11, <1>12, <1>13, <1>14, <1>15, <1>16, <1>17
  DEF TurnStep, ProviderStep, ClientStep

\* Every step of a turn is one of the contract's, or none.
LEMMA ContractStep == IInv /\ [Next]_vars => [Contract!Next]_<<Phases, turnCount, errorCount>>
<1> SUFFICES ASSUME IInv, [Next]_vars PROVE [Contract!Next]_<<Phases, turnCount, errorCount>>
  OBVIOUS
<1>1. CASE UNCHANGED vars
  BY <1>1 DEF vars, stream, begun, Phases, Phase
<1>2. ASSUME NEW t \in Turn, TurnStep(t) PROVE [Contract!Next]_<<Phases, turnCount, errorCount>>
  <2>1. /\ Phases' = [Phases EXCEPT ![t] = Phase(t)'] /\ Phases[t] = Phase(t)
        /\ Phases \in [Turn -> {"idle", "running", "done", "failed", "left"}]
    BY <1>2, PhaseMoves DEF Phases, Phase
  <2>2. TypeOK /\ Ordered(t)
    BY DEF IInv
  <2>3. CASE Phase(t)' = Phase(t) /\ UNCHANGED <<turnCount, errorCount>>
    <3>1. Phases' = Phases
      BY <2>1, <2>3
    <3>2. QED
      BY <2>3, <3>1
  <2>4. ASSUME NEW from, NEW to, Moved(t, from, to)
        PROVE  Contract!Moves(t, from, to)
    BY <2>1, <2>4 DEF Moved, Contract!Moves, Phases
  <2>5. CASE Moved(t, "idle", "running") /\ turnCount' = turnCount + 1 /\ errorCount' = errorCount
    BY <2>4, <2>5 DEF Contract!Next, Contract!Begin
  <2>6. CASE Moved(t, "idle", "failed") /\ turnCount' = turnCount + 1 /\ errorCount' = errorCount + 1
    BY <2>4, <2>6 DEF Contract!Next, Contract!Reject
  <2>7. CASE Moved(t, "running", "failed") /\ turnCount' = turnCount /\ errorCount' = errorCount + 1
    BY <2>4, <2>7 DEF Contract!Next, Contract!Fail
  <2>8. CASE Moved(t, "running", "done") /\ UNCHANGED <<turnCount, errorCount>>
    BY <2>4, <2>8 DEF Contract!Next, Contract!Complete
  <2>9. CASE Moved(t, "running", "left") /\ UNCHANGED <<turnCount, errorCount>>
    BY <2>4, <2>9 DEF Contract!Next, Contract!Leave
  <2>10. QED
    BY <1>2, <2>2, <2>3, <2>5, <2>6, <2>7, <2>8, <2>9, PhaseStep
<1>3. QED
  BY <1>1, <1>2 DEF Next

\* The slow path keeps the contract: a turn is counted once, and as an error exactly
\* when its stream raised (dispatch.py, Pipeline).
THEOREM ContractKept == ASSUME ConstantsAssumption PROVE Spec => KeepsContract
<1>1. Init => Contract!Init
  BY DEF Init, Contract!Init, Phase
<1>2. IInv /\ [Next]_vars => [Contract!Next]_<<Phases, turnCount, errorCount>>
  BY ContractStep
<1>3. QED
  BY <1>1, <1>2, Invariance, PTL DEF Spec, KeepsContract, Contract!Spec, Phases
-----------------------------------------------------------------------------
(* What a pipeline that keeps the contract counts.                         *)

Begun == {t \in Turn : Phases[t] # "idle"}

Raised == {t \in Turn : Phases[t] = "failed"}

Counted ==
  /\ IsFiniteSet(Begun)
  /\ turnCount = Cardinality(Begun) /\ errorCount = Cardinality(Raised)

\* A set that is given one element, or none, is counted.
LEMMA OneMore ==
  ASSUME NEW A, NEW x, IsFiniteSet(A), x \notin A
  PROVE  IsFiniteSet(A \cup {x}) /\ Cardinality(A \cup {x}) = Cardinality(A) + 1
BY FS_AddElement

\* A step of the contract moves one turn, and counts it where it goes.
LEMMA ContractCounts ==
  ASSUME Counted, [Contract!Next]_<<Phases, turnCount, errorCount>>
  PROVE  Counted'
<1>1. Raised \in SUBSET Begun /\ IsFiniteSet(Raised)
  <2>1. Raised \in SUBSET Begun
    BY DEF Raised, Begun
  <2> QED  BY <2>1, FS_Subset DEF Counted
<1>2. CASE UNCHANGED <<Phases, turnCount, errorCount>>
  BY <1>2 DEF Counted, Begun, Raised
<1>3. ASSUME NEW t \in Turn, NEW from, NEW to, Contract!Moves(t, from, to)
      PROVE  /\ Phases[t] = from /\ Phases'[t] = to
             /\ \A u \in Turn \ {t} : Phases'[u] = Phases[u]
  BY <1>3 DEF Contract!Moves, Phases
<1>4. ASSUME NEW t \in Turn, Contract!Begin(t) PROVE Counted'
  <2>1. Begun' = Begun \cup {t} /\ t \notin Begun /\ Raised' = Raised
    BY <1>3, <1>4 DEF Contract!Begin, Begun, Raised
  <2> QED  BY <1>4, <2>1, OneMore DEF Contract!Begin, Counted
<1>5. ASSUME NEW t \in Turn, Contract!Reject(t) PROVE Counted'
  <2>1. /\ Begun' = Begun \cup {t} /\ t \notin Begun
        /\ Raised' = Raised \cup {t} /\ t \notin Raised
    BY <1>3, <1>5 DEF Contract!Reject, Begun, Raised
  <2> QED  BY <1>1, <1>5, <2>1, OneMore DEF Contract!Reject, Counted
<1>6. ASSUME NEW t \in Turn, Contract!Fail(t) PROVE Counted'
  <2>1. Begun' = Begun /\ Raised' = Raised \cup {t} /\ t \notin Raised
    BY <1>3, <1>6 DEF Contract!Fail, Begun, Raised
  <2> QED  BY <1>1, <1>6, <2>1, OneMore DEF Contract!Fail, Counted
<1>7. ASSUME NEW t \in Turn, Contract!Complete(t) \/ Contract!Leave(t) PROVE Counted'
  <2>1. Begun' = Begun /\ Raised' = Raised
    BY <1>3, <1>7 DEF Contract!Complete, Contract!Leave, Begun, Raised
  <2> QED  BY <1>7, <2>1 DEF Contract!Complete, Contract!Leave, Counted
<1> QED  BY <1>2, <1>4, <1>5, <1>6, <1>7 DEF Contract!Next

\* Whatever happens inside, a pipeline that keeps the contract has counted the turns that
\* have begun and, as errors, those whose stream raised (counters.py).
THEOREM ContractCounters == KeepsContract => []Counted
<1>1. Contract!Init => Counted
  <2> SUFFICES ASSUME Contract!Init PROVE Counted
    OBVIOUS
  <2>1. Begun = {} /\ Raised = {}
    BY DEF Contract!Init, Begun, Raised, Phases
  <2> QED  BY <2>1, FS_EmptySet DEF Contract!Init, Counted
<1>2. Counted /\ [Contract!Next]_<<Phases, turnCount, errorCount>> => Counted'
  BY ContractCounts
<1> QED  BY <1>1, <1>2, PTL DEF KeepsContract, Contract!Spec, Phases

\* The slow path's counters: every turn once when it begins, as an error exactly those
\* that raised, however they interleave and whoever leaves (pipeline.py:97-104).
THEOREM CountersCorrect ==
  ASSUME ConstantsAssumption PROVE
  Spec => [](/\ turnCount = Cardinality({t \in Turn : stage[t] # "new"})
             /\ errorCount = Cardinality({t \in Turn : outcome[t] = "error"}))
<1>1. ASSUME IInv, Counted
      PROVE  /\ turnCount = Cardinality({t \in Turn : stage[t] # "new"})
             /\ errorCount = Cardinality({t \in Turn : outcome[t] = "error"})
  <2>1. \A t \in Turn : stage[t] = "new" => outcome[t] = "none"
    BY <1>1 DEF IInv, Ordered
  <2>2. \A t \in Turn : (Phases[t] = "idle" <=> stage[t] = "new")
                        /\ (Phases[t] = "failed" <=> outcome[t] = "error")
    BY <2>1 DEF Phases, Phase
  <2>3. /\ Begun = {t \in Turn : stage[t] # "new"}
        /\ Raised = {t \in Turn : outcome[t] = "error"}
    BY <2>2 DEF Begun, Raised
  <2> QED  BY <1>1, <2>3 DEF Counted
<1> QED  BY <1>1, Invariance, ContractKept, ContractCounters, PTL
=============================================================================
