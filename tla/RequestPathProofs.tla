--------------------------- MODULE RequestPathProofs ---------------------------
(***************************************************************************)
(* Theorems about RequestPath, for any set of requests, callers and        *)
(* addresses, and any burst.  The invariant says what the places of a      *)
(* request's two tasks tell about its identity, its charge and its answer; *)
(* only finitely many requests have been charged in any state, so budgets  *)
(* can be accounted for by counting.                                       *)
(***************************************************************************)
EXTENDS RequestPath, FiniteSetTheorems, TLAPS

-----------------------------------------------------------------------------
(* The invariant.                                                          *)

\* The identity below the authentication layer is the one the token proves.
Identified(r) ==
  LET auth == IF Guarded(r, "auth") THEN token[r] ELSE None IN
    /\ Guarded(r, "auth") => token[r] # None
    /\ stateAuth[r] = auth /\ innerAuth[r] = auth

\* Once the limiter or the endpoint has the request, it is identified.
IdentityKept(r) == outer[r] \in {"limit", "waiting"} \/ inner[r] # "none" => Identified(r)

\* The endpoint's task exists from the admission on; until then nothing is charged
\* and no response has started.
NotYetAdmitted(r) ==
  outer[r] \in {"arriving", "auth", "limit"} =>
    inner[r] = "none" /\ charged[r] = {} /\ status[r] = None

\* A response that has not started holds the layers where they are.
NotYetAnswered(r) ==
  /\ inner[r] = "handling" => outer[r] = "waiting" /\ status[r] = None
  /\ inner[r] = "raised" => outer[r] = "sent" \/ (outer[r] = "waiting" /\ status[r] = None)

\* A request is charged to its caller's key, and its turn runs for its caller's tenant.
ChargedToCaller(r) ==
  \A k \in charged[r] : k = IF "auth" \in installed THEN token[r].subject ELSE address[r]

RunsForCaller(r) ==
  turnTenant[r] # None =>
    turnTenant[r] = IF "auth" \in installed THEN token[r].tenant ELSE Default

\* An answer made by the endpoint or a layer carries its id, a preflight's was sent at once,
\* and the answer to a raising endpoint comes from outside of the layers.
SentComplete(r) ==
  /\ outer[r] = "sent" => "request-id" \in headers[r] \/ AnsweredByCors(r)
  /\ outer[r] = "sent" /\ inner[r] # "raised" => CorsFor(r) \subseteq headers[r]
  /\ "cors" \in headers[r] => CorsFor(r) = {"cors"}

Orderly(r) ==
  /\ IdentityKept(r) /\ NotYetAdmitted(r) /\ NotYetAnswered(r)
  /\ ChargedToCaller(r) /\ RunsForCaller(r) /\ SentComplete(r)

ChargedTo(k) == {r \in Request : k \in charged[r]}

\* A budget and what was taken from it are the burst.
Accounted ==
  \A k \in Subject \cup Address :
    IsFiniteSet(ChargedTo(k)) /\ budget[k] + Cardinality(ChargedTo(k)) = Burst

IInv == TypeOK /\ (\A r \in Request : Orderly(r)) /\ Accounted

-----------------------------------------------------------------------------
\* Initially every request is on its way and every budget is full.
LEMMA InitIInv == ASSUME ConstantsAssumption PROVE Init => IInv
<1> SUFFICES ASSUME Init PROVE IInv
  OBVIOUS
<1>1. TypeOK
  BY DEF ConstantsAssumption, Init, TypeOK, Outer, Inner, Identity, Origins
<1>2. \A r \in Request : Orderly(r)
  BY DEF Init, Orderly, IdentityKept, NotYetAdmitted, NotYetAnswered, ChargedToCaller,
     RunsForCaller, SentComplete, CorsFor, AnsweredByCors
<1>3. \A k \in Subject \cup Address : ChargedTo(k) = {}
  BY DEF Init, ChargedTo
<1>4. Accounted
  BY <1>3, FS_EmptySet DEF ConstantsAssumption, Init, Accounted
<1>5. QED
  BY <1>1, <1>2, <1>4 DEF IInv

-----------------------------------------------------------------------------
(* What a step does.                                                       *)

\* Every step keeps the types.
LEMMA TypeStep ==
  ASSUME ConstantsAssumption, TypeOK, NEW r \in Request, Orderly(r), RequestStep(r)
  PROVE  TypeOK'
<1> USE DEF ConstantsAssumption, TypeOK, given, auths, Outer, Inner, Identity, Codes, Headers, Layers, Origins
<1>0. CASE AnswerPreflight(r)
  BY <1>0 DEF AnswerPreflight, At, CorsFor, AnsweredByCors
<1>1. CASE Correlate(r)
  BY <1>1 DEF Correlate, At
<1>2. CASE Unauthorized(r)
  BY <1>2 DEF Unauthorized, At, Respond
<1>3. CASE Authenticate(r)
  BY <1>3 DEF Authenticate, At
<1>4. CASE TooMany(r)
  BY <1>4 DEF TooMany, At, Respond, KeyOf
<1>5. CASE Admit(r)
  <2>1. outer' \in [Request -> Outer] /\ inner' \in [Request -> Inner]
    BY <1>5 DEF Admit, At
  <2>2. KeyOf(r) \in Subject \cup Address
    BY DEF KeyOf
  <2>3. budget' \in [Subject \cup Address -> 0 .. Burst]
    <3>1. CASE Guarded(r, "limit")
      <4>1. budget[KeyOf(r)] \in 0 .. Burst /\ budget[KeyOf(r)] > 0
        BY <1>5, <2>2, <3>1 DEF Admit
      <4>2. budget[KeyOf(r)] - 1 \in 0 .. Burst
        BY <4>1
      <4>3. budget' = [budget EXCEPT ![KeyOf(r)] = budget[KeyOf(r)] - 1]
        BY <1>5, <3>1 DEF Admit
      <4>4. QED
        BY <4>2, <4>3
    <3>2. CASE ~Guarded(r, "limit")
      BY <1>5, <3>2 DEF Admit
    <3>3. QED
      BY <3>1, <3>2
  <2>4. charged' \in [Request -> SUBSET (Subject \cup Address)]
    BY <1>5, <2>2 DEF Admit
  <2>5. QED
    BY <1>5, <2>1, <2>3, <2>4 DEF Admit
<1>6. CASE StartStream(r)
  BY <1>6 DEF StartStream
<1>7. CASE StreamTurn(r)
  BY <1>7 DEF StreamTurn, RunTurn, CallerTenant
<1>8. CASE CompleteTurn(r)
  BY <1>8 DEF CompleteTurn, RunTurn, CallerTenant
<1>9. CASE HandledError(r)
  BY <1>9 DEF HandledError, Respond
<1>10. CASE Raise(r)
  BY <1>10 DEF Raise, RunTurn, CallerTenant
<1>11. CASE Relay(r)
  BY <1>11 DEF Relay, At
<1>12. CASE ResetAuth(r)
  BY <1>12 DEF ResetAuth, At
<1>13. CASE Send(r)
  BY <1>13 DEF Send, At, CorsFor
<1>14. CASE ServerError(r)
  BY <1>14 DEF ServerError, Respond
<1>15. QED
  BY <1>0, <1>1, <1>2, <1>3, <1>4, <1>5, <1>6, <1>7, <1>8, <1>9, <1>10, <1>11, <1>12, <1>13, <1>14 DEF RequestStep

\* A step of a request touches nothing of another one.
LEMMA OthersUntouched ==
  ASSUME TypeOK, NEW r \in Request, RequestStep(r), NEW q \in Request, q # r
  PROVE  /\ UNCHANGED given
         /\ outer'[q] = outer[q] /\ inner'[q] = inner[q] /\ charged'[q] = charged[q]
         /\ stateAuth'[q] = stateAuth[q] /\ innerAuth'[q] = innerAuth[q]
         /\ status'[q] = status[q] /\ headers'[q] = headers[q] /\ turnTenant'[q] = turnTenant[q]
<1> USE DEF TypeOK, given, auths
<1>0. CASE AnswerPreflight(r)
  BY <1>0 DEF AnswerPreflight, At, CorsFor, AnsweredByCors
<1>1. CASE Correlate(r)
  BY <1>1 DEF Correlate, At
<1>2. CASE Unauthorized(r)
  BY <1>2 DEF Unauthorized, At, Respond
<1>3. CASE Authenticate(r)
  BY <1>3 DEF Authenticate, At
<1>4. CASE TooMany(r)
  BY <1>4 DEF TooMany, At, Respond, KeyOf
<1>5. CASE Admit(r)
  BY <1>5 DEF Admit, At, KeyOf
<1>6. CASE StartStream(r)
  BY <1>6 DEF StartStream
<1>7. CASE StreamTurn(r)
  BY <1>7 DEF StreamTurn, RunTurn, CallerTenant
<1>8. CASE CompleteTurn(r)
  BY <1>8 DEF CompleteTurn, RunTurn, CallerTenant
<1>9. CASE HandledError(r)
  BY <1>9 DEF HandledError, Respond
<1>10. CASE Raise(r)
  BY <1>10 DEF Raise, RunTurn, CallerTenant
<1>11. CASE Relay(r)
  BY <1>11 DEF Relay, At
<1>12. CASE ResetAuth(r)
  BY <1>12 DEF ResetAuth, At
<1>13. CASE Send(r)
  BY <1>13 DEF Send, At, CorsFor
<1>14. CASE ServerError(r)
  BY <1>14 DEF ServerError, Respond
<1>15. QED
  BY <1>0, <1>1, <1>2, <1>3, <1>4, <1>5, <1>6, <1>7, <1>8, <1>9, <1>10, <1>11, <1>12, <1>13, <1>14 DEF RequestStep

\* A step leaves its own request in order.
LEMMA OwnOrder ==
  ASSUME TypeOK, NEW r \in Request, Orderly(r), RequestStep(r)
  PROVE  Orderly(r)'
<1> USE DEF TypeOK, given, auths, Guarded, Orderly, Identified, IdentityKept, NotYetAdmitted,
        NotYetAnswered, ChargedToCaller, RunsForCaller, SentComplete, Outer, Inner, CorsFor, AnsweredByCors
<1>0. CASE AnswerPreflight(r)
  BY <1>0 DEF AnswerPreflight, At, CorsFor, AnsweredByCors
<1>1. CASE Correlate(r)
  BY <1>1 DEF Correlate, At
<1>2. CASE Unauthorized(r)
  BY <1>2 DEF Unauthorized, At, Respond
<1>3. CASE Authenticate(r)
  BY <1>3 DEF Authenticate, At
<1>4. CASE TooMany(r)
  BY <1>4 DEF TooMany, At, Respond, KeyOf
<1>5. CASE Admit(r)
  <2>1. /\ outer[r] = "limit" /\ outer'[r] = "waiting" /\ inner[r] = "none" /\ inner'[r] = "handling"
        /\ Identified(r) /\ charged[r] = {} /\ turnTenant'[r] = turnTenant[r]
        /\ UNCHANGED <<installed, protected, origin, token, address, stateAuth, innerAuth, status, headers>>
    BY <1>5 DEF Admit, At
  <2>2. charged'[r] = IF Guarded(r, "limit") THEN {KeyOf(r)} ELSE {}
    BY <1>5, <2>1 DEF Admit
  <2>3. Guarded(r, "limit") =>
          KeyOf(r) = IF "auth" \in installed THEN token[r].subject ELSE address[r]
    BY <2>1 DEF KeyOf
  <2>4. ChargedToCaller(r)'
    BY <2>1, <2>2, <2>3
  <2>5. status'[r] = None
    BY <1>5, <2>1 DEF Admit
  <2>6. QED
    BY <2>1, <2>4, <2>5
<1>6. CASE StartStream(r)
  BY <1>6 DEF StartStream
<1>7. CASE StreamTurn(r)
  BY <1>7 DEF StreamTurn, RunTurn, CallerTenant
<1>8. CASE CompleteTurn(r)
  BY <1>8 DEF CompleteTurn, RunTurn, CallerTenant
<1>9. CASE HandledError(r)
  BY <1>9 DEF HandledError, Respond
<1>10. CASE Raise(r)
  BY <1>10 DEF Raise, RunTurn, CallerTenant
<1>11. CASE Relay(r)
  BY <1>11 DEF Relay, At
<1>12. CASE ResetAuth(r)
  BY <1>12 DEF ResetAuth, At
<1>13. CASE Send(r)
  BY <1>13 DEF Send, At, CorsFor
<1>14. CASE ServerError(r)
  BY <1>14 DEF ServerError, Respond
<1>15. QED
  BY <1>0, <1>1, <1>2, <1>3, <1>4, <1>5, <1>6, <1>7, <1>8, <1>9, <1>10, <1>11, <1>12, <1>13, <1>14 DEF RequestStep

-----------------------------------------------------------------------------
(* Accounting.                                                             *)

\* A step charges nobody, or charges its request's key while a token is taken there.
LEMMA StepCharges ==
  ASSUME ConstantsAssumption, TypeOK, NEW r \in Request, Orderly(r), RequestStep(r)
  PROVE  \/ UNCHANGED <<budget, charged>>
         \/ /\ charged[r] = {} /\ charged' = [charged EXCEPT ![r] = {KeyOf(r)}]
            /\ KeyOf(r) \in Subject \cup Address
            /\ budget' = [budget EXCEPT ![KeyOf(r)] = @ - 1]
<1>1. CASE Admit(r)
  <2>1. charged[r] = {}
    BY <1>1 DEF Admit, At, Orderly, NotYetAdmitted
  <2>2. KeyOf(r) \in Subject \cup Address
    BY DEF KeyOf, TypeOK, Identity
  <2>3. QED
    BY <1>1, <2>1, <2>2 DEF Admit, TypeOK
<1>2. CASE ~Admit(r)
  BY <1>2 DEF RequestStep, AnswerPreflight, Correlate, Unauthorized, Authenticate, TooMany, StartStream, StreamTurn,
     CompleteTurn, HandledError, Raise, Relay, ResetAuth, Send, ServerError
<1>3. QED
  BY <1>1, <1>2

\* What is gone from a budget is what its requests were charged.
LEMMA AccountedStep ==
  ASSUME ConstantsAssumption, TypeOK, Accounted, NEW r \in Request, Orderly(r), RequestStep(r)
  PROVE  Accounted'
<1>1. CASE UNCHANGED <<budget, charged>>
  BY <1>1 DEF Accounted, ChargedTo
<1>2. CASE /\ charged[r] = {} /\ charged' = [charged EXCEPT ![r] = {KeyOf(r)}]
           /\ KeyOf(r) \in Subject \cup Address
           /\ budget' = [budget EXCEPT ![KeyOf(r)] = @ - 1]
  <2> SUFFICES ASSUME NEW k \in Subject \cup Address
               PROVE  IsFiniteSet(ChargedTo(k)') /\ budget'[k] + Cardinality(ChargedTo(k)') = Burst
    BY DEF Accounted, ChargedTo
  <2>1. /\ IsFiniteSet(ChargedTo(k)) /\ Cardinality(ChargedTo(k)) \in Nat
        /\ budget[k] + Cardinality(ChargedTo(k)) = Burst
    BY FS_CardinalityType DEF Accounted
  <2>2. budget[k] \in Nat /\ Burst \in Nat
    BY DEF TypeOK, ConstantsAssumption
  <2>3. CASE k = KeyOf(r)
    <3>1. r \notin ChargedTo(k) /\ ChargedTo(k)' = ChargedTo(k) \cup {r}
      BY <1>2, <2>3 DEF ChargedTo, TypeOK
    <3>2. IsFiniteSet(ChargedTo(k)') /\ Cardinality(ChargedTo(k)') = Cardinality(ChargedTo(k)) + 1
      BY <2>1, <3>1, FS_AddElement
    <3>3. budget'[k] = budget[k] - 1
      BY <1>2, <2>3 DEF TypeOK
    <3>4. QED
      BY <2>1, <2>2, <3>2, <3>3
  <2>4. CASE k # KeyOf(r)
    <3>1. ChargedTo(k)' = ChargedTo(k)
      BY <1>2, <2>4 DEF ChargedTo, TypeOK
    <3>2. budget'[k] = budget[k]
      BY <1>2, <2>4 DEF TypeOK
    <3>3. QED
      BY <2>1, <3>1, <3>2
  <2>5. QED
    BY <2>3, <2>4
<1>3. QED
  BY <1>1, <1>2, StepCharges

\* Every step preserves the invariant.
LEMMA NextIInv == ASSUME ConstantsAssumption PROVE IInv /\ [Next]_vars => IInv'
<1> SUFFICES ASSUME IInv, [Next]_vars PROVE IInv'
  OBVIOUS
<1>1. CASE UNCHANGED vars
  BY <1>1 DEF vars, given, auths, IInv, TypeOK, Orderly, Guarded, Identified, IdentityKept, NotYetAdmitted,
     NotYetAnswered, ChargedToCaller, RunsForCaller, SentComplete, CorsFor, AnsweredByCors,
     Accounted, ChargedTo
<1>2. ASSUME NEW r \in Request, RequestStep(r) PROVE IInv'
  <2>1. TypeOK'
    BY <1>2, TypeStep DEF IInv
  <2>2. \A q \in Request : Orderly(q)'
    <3>1. Orderly(r)'
      BY <1>2, OwnOrder DEF IInv
    <3>2. ASSUME NEW q \in Request, q # r PROVE Orderly(q)'
      <4>1. /\ UNCHANGED given
            /\ outer'[q] = outer[q] /\ inner'[q] = inner[q] /\ charged'[q] = charged[q]
            /\ stateAuth'[q] = stateAuth[q] /\ innerAuth'[q] = innerAuth[q]
            /\ status'[q] = status[q] /\ headers'[q] = headers[q] /\ turnTenant'[q] = turnTenant[q]
        BY <1>2, <3>2, OthersUntouched DEF IInv
      <4>2. Orderly(q)
        BY DEF IInv
      <4>3. QED
        BY <4>1, <4>2 DEF given, Orderly, Guarded, Identified, IdentityKept, NotYetAdmitted,
           NotYetAnswered, ChargedToCaller, RunsForCaller, SentComplete, CorsFor, AnsweredByCors
    <3>3. QED
      BY <3>1, <3>2
  <2>3. Accounted'
    BY <1>2, AccountedStep DEF IInv
  <2>4. QED
    BY <2>1, <2>2, <2>3 DEF IInv
<1>3. QED
  BY <1>1, <1>2 DEF Next

-----------------------------------------------------------------------------
(* The theorems.                                                           *)

\* The invariant holds in every behaviour, whatever the settings.
THEOREM Invariance == ASSUME ConstantsAssumption PROVE Spec => []IInv
<1>1. Init => IInv
  BY InitIInv
<1>2. IInv /\ [Next]_vars => IInv'
  BY NextIInv
<1>3. QED
  BY <1>1, <1>2, PTL DEF Spec

\* A turn runs for the tenant its own request's token names, although its body is produced
\* after the authentication layer has reset its variable (auth.py:104-105).
THEOREM TurnsRunForTheirCallers == ASSUME ConstantsAssumption PROVE Spec => []TurnRunsForItsCaller
<1>1. IInv => TurnRunsForItsCaller
  BY DEF IInv, Orderly, RunsForCaller, TurnRunsForItsCaller
<1>2. Spec => []IInv
  BY Invariance
<1>3. QED
  BY <1>1, <1>2, PTL

\* What is gone from a budget was spent by the requests of its own key (main.py:81-83).
THEOREM BudgetsSpentByTheirOwn == ASSUME ConstantsAssumption PROVE Spec => []BudgetSpentByItsOwn
<1>1. IInv => BudgetSpentByItsOwn
  BY DEF IInv, Orderly, ChargedToCaller, Accounted, ChargedTo, BudgetSpentByItsOwn
<1>2. Spec => []IInv
  BY Invariance
<1>3. QED
  BY <1>1, <1>2, PTL

\* Whichever layer answers, the response carries the request's id, but to a preflight,
\* which CORS answers (main.py:91, 99).
THEOREM ResponsesTraceable == ASSUME ConstantsAssumption PROVE Spec => []EveryResponseTraceable
<1>1. IInv => EveryResponseTraceable
  BY DEF IInv, Orderly, SentComplete, EveryResponseTraceable
<1>2. Spec => []IInv
  BY Invariance
<1>3. QED
  BY <1>1, <1>2, PTL

\* A browser of an allowed origin can read every refusal, and every error but that of a
\* raising endpoint; no other one can read anything (main.py:94-98, errors.py:123).
THEOREM AnswersReadable == ASSUME ConstantsAssumption PROVE Spec => []LayersReadableByBrowsers
<1>1. IInv => LayersReadableByBrowsers
  BY DEF IInv, Orderly, SentComplete, CorsFor, BrowsersCanRead, LayersReadableByBrowsers
<1>2. Spec => []IInv
  BY Invariance
<1>3. QED
  BY <1>1, <1>2, PTL
=============================================================================
