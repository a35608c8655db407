----------------------------- MODULE RequestPath -----------------------------
(***************************************************************************)
(* A request on its way through the layers app/main.py installs, from the  *)
(* outside in: ServerErrorMiddleware (Starlette's), CORS, correlation id   *)
(* (app/errors.py), authentication (app/auth.py), rate limiting            *)
(* (app/ratelimit.py), the endpoint (app/api/voice.py); and of its answer  *)
(* on the way back.                                                        *)
(*                                                                         *)
(* BaseHTTPMiddleware.call_next() runs what is further in in a task of its *)
(* own, with a copy of the context variables; it returns when the response *)
(* starts, while the body is still being produced in there.  So there are  *)
(* two places: outer[r], the layer that is about to act, and inner[r],     *)
(* what the endpoint's task does.  The limiter is a budget per key here    *)
(* (RateLimiter has its details).                                          *)
(*                                                                         *)
(* Starlette's CORS layer is the outermost of the application's own: it    *)
(* answers a browser's preflights itself, so no other layer sees them.     *)
(***************************************************************************)
EXTENDS Naturals, FiniteSets

CONSTANTS
  Request,
  Subject,  \* `sub` of a valid token
  Tenant,   \* its `tenant`
  Address,  \* client addresses
  None,     \* Python's None
  Burst     \* requests one key is admitted

ConstantsAssumption ==
  /\ None \notin Subject \cup Tenant
  /\ Burst \in Nat

VARIABLES
  installed,  \* layers the settings turned on: "cors", "auth", "limit"
  protected,  \* the path is under the API prefix
  origin,     \* whether the Origin header names one of ALLOWED_ORIGINS, if there is one
  preflight,  \* a browser's OPTIONS request, with Origin and Access-Control-Request-Method
  token,      \* the identity the Authorization header proves, or None
  address,
  outer, inner,
  stateAuth,  \* request.state.auth
  outerAuth,  \* current_auth_var in the authentication layer's task
  innerAuth,  \* and in the tasks below it
  budget,     \* what is left of each key's budget
  charged,    \* history: the keys each request was charged to
  status,     \* of the response: None until one starts
  headers,    \* of the response, as the layers add them
  turnTenant  \* history: the tenant the turn ran for

given == <<installed, protected, origin, preflight, token, address>>
auths == <<stateAuth, outerAuth, innerAuth>>
vars == <<given, auths, outer, inner, budget, charged, status, headers, turnTenant>>

Identity == [subject : Subject, tenant : Tenant]
Default  == "default"
Layers   == {"cors", "auth", "limit"}
Outer    == {"arriving", "auth", "limit", "waiting", "leaving", "correlating", "sent"}
Codes    == {200, 400, 401, 404, 405, 422, 429, 500}
Origins  == {"none", "allowed", "other"}
Headers  == {"request-id", "limit", "retry-after", "cors"}
Inner    == {"none", "handling", "streaming", "over", "raised"}

Init ==
  /\ installed \in SUBSET Layers
  /\ protected \in [Request -> BOOLEAN]
  /\ origin \in [Request -> Origins]
  /\ preflight \in [Request -> BOOLEAN]
  /\ \A r \in Request : preflight[r] => origin[r] # "none"
  /\ token \in [Request -> Identity \cup {None}]
  /\ address \in [Request -> Address]
  /\ outer = [r \in Request |-> "arriving"] /\ inner = [r \in Request |-> "none"]
  /\ stateAuth = [r \in Request |-> None]
  /\ outerAuth = [r \in Request |-> None] /\ innerAuth = [r \in Request |-> None]
  /\ budget = [k \in Subject \cup Address |-> Burst]
  /\ charged = [r \in Request |-> {}]
  /\ status = [r \in Request |-> None] /\ headers = [r \in Request |-> {}]
  /\ turnTenant = [r \in Request |-> None]

-----------------------------------------------------------------------------
Guarded(r, layer) == layer \in installed /\ protected[r]

At(r, from, to) == outer[r] = from /\ outer' = [outer EXCEPT ![r] = to]

\* problem_response(): the body and the X-Request-ID header carry the id that the
\* correlation layer left in request.state.
Respond(r, code, extra) ==
  /\ status' = [status EXCEPT ![r] = code]
  /\ headers' = [headers EXCEPT ![r] = {"request-id"} \cup extra]

AnsweredByCors(r) == "cors" \in installed /\ preflight[r]

\* The header is for the origins that are listed; a wildcard is refused at start-up.
CorsFor(r) == IF "cors" \in installed /\ origin[r] = "allowed" THEN {"cors"} ELSE {}

\* A preflight is refused to an origin that is not allowed, and to one that is when it
\* asks for another method or header than the configured ones.
AnswerPreflight(r) ==
  /\ AnsweredByCors(r)
  /\ At(r, "arriving", "sent")
  /\ \E code \in (IF origin[r] = "allowed" THEN {200, 400} ELSE {400}) :
       status' = [status EXCEPT ![r] = code]
  /\ headers' = [headers EXCEPT ![r] = CorsFor(r)]
  /\ UNCHANGED <<given, auths, inner, budget, charged, turnTenant>>

\* CORS lets the request pass; the correlation id is assigned.
Correlate(r) ==
  /\ ~AnsweredByCors(r)
  /\ At(r, "arriving", "auth")
  /\ UNCHANGED <<given, auths, inner, budget, charged, status, headers, turnTenant>>

Unauthorized(r) ==
  /\ Guarded(r, "auth") /\ token[r] = None
  /\ At(r, "auth", "correlating")
  /\ Respond(r, 401, {})
  /\ UNCHANGED <<given, auths, inner, budget, charged, turnTenant>>

\* Mutation: the context variable is set when the endpoint's task already exists.
AuthenticateLate(r) ==
  /\ Guarded(r, "auth") => token[r] # None
  /\ At(r, "auth", "limit")
  /\ LET auth == IF Guarded(r, "auth") THEN token[r] ELSE None IN
       /\ stateAuth' = [stateAuth EXCEPT ![r] = auth]
       /\ outerAuth' = [outerAuth EXCEPT ![r] = auth]
  /\ UNCHANGED <<given, innerAuth, inner, budget, charged, status, headers, turnTenant>>

\* The identity is put in request.state and the context variable, and call_next()
\* copies the context for the tasks below.  A path that is not protected skips it.
Authenticate(r) ==
  /\ Guarded(r, "auth") => token[r] # None
  /\ At(r, "auth", "limit")
  /\ LET auth == IF Guarded(r, "auth") THEN token[r] ELSE None IN
       /\ stateAuth' = [stateAuth EXCEPT ![r] = auth]
       /\ outerAuth' = [outerAuth EXCEPT ![r] = auth]
       /\ innerAuth' = [innerAuth EXCEPT ![r] = auth]
  /\ UNCHANGED <<given, inner, budget, charged, status, headers, turnTenant>>

\* Mutation: the address alone.
KeyByAddress(r) == address[r]

\* _key_of(): the strongest identity available.
KeyOf(r) == IF stateAuth[r] # None THEN stateAuth[r].subject ELSE address[r]

TooMany(r) ==
  /\ Guarded(r, "limit") /\ budget[KeyOf(r)] = 0
  /\ At(r, "limit", "leaving")
  /\ Respond(r, 429, {"limit", "retry-after"})
  /\ UNCHANGED <<given, auths, inner, budget, charged, turnTenant>>

\* Mutation: a request takes its token whether or not there is one.
AdmitUnchecked(r) ==
  /\ At(r, "limit", "waiting")
  /\ IF Guarded(r, "limit")
     THEN /\ budget' = [budget EXCEPT ![KeyOf(r)] = @ - 1]
          /\ charged' = [charged EXCEPT ![r] = @ \cup {KeyOf(r)}]
     ELSE UNCHANGED <<budget, charged>>
  /\ inner' = [inner EXCEPT ![r] = "handling"]
  /\ UNCHANGED <<given, auths, status, headers, turnTenant>>

Admit(r) ==
  /\ Guarded(r, "limit") => budget[KeyOf(r)] > 0
  /\ At(r, "limit", "waiting")
  /\ IF Guarded(r, "limit")
     THEN /\ budget' = [budget EXCEPT ![KeyOf(r)] = @ - 1]
          /\ charged' = [charged EXCEPT ![r] = @ \cup {KeyOf(r)}]
     ELSE UNCHANGED <<budget, charged>>
  /\ inner' = [inner EXCEPT ![r] = "handling"]
  /\ UNCHANGED <<given, auths, status, headers, turnTenant>>

-----------------------------------------------------------------------------
(* The endpoint.                                                           *)

\* current_tenant(), in the endpoint's task.
CallerTenant(r) == IF innerAuth[r] = None THEN Default ELSE innerAuth[r].tenant

RunTurn(r) ==
  /\ protected[r]
  /\ turnTenant' = [turnTenant EXCEPT ![r] = CallerTenant(r)]

\* A streaming endpoint starts its response without having pulled anything.
StartStream(r) ==
  /\ inner[r] = "handling" /\ protected[r] /\ ~preflight[r]
  /\ inner' = [inner EXCEPT ![r] = "streaming"]
  /\ status' = [status EXCEPT ![r] = 200]
  /\ UNCHANGED <<given, auths, outer, budget, charged, headers, turnTenant>>

\* The body is pulled, while the layers go on or after they are done: the turn runs.
StreamTurn(r) ==
  /\ inner[r] = "streaming" /\ RunTurn(r)
  /\ inner' = [inner EXCEPT ![r] = "over"]
  /\ UNCHANGED <<given, auths, outer, budget, charged, status, headers>>

\* /complete, whose turn runs before the response starts, and the operations.
CompleteTurn(r) ==
  /\ inner[r] = "handling" /\ ~preflight[r]
  /\ RunTurn(r) \/ UNCHANGED turnTenant
  /\ inner' = [inner EXCEPT ![r] = "over"]
  /\ status' = [status EXCEPT ![r] = 200]
  /\ UNCHANGED <<given, auths, outer, budget, charged, headers>>

\* An unknown path, a method it does not have, as a preflight's that CORS let through, a
\* body that does not validate: answered inside the layers.
HandledError(r) ==
  /\ inner[r] = "handling"
  /\ inner' = [inner EXCEPT ![r] = "over"]
  /\ \E code \in (IF preflight[r] THEN {404, 405} ELSE {404, 405, 422}) : Respond(r, code, {})
  /\ UNCHANGED <<given, auths, outer, budget, charged, turnTenant>>

\* Any other exception before the response started leaves through all layers.
Raise(r) ==
  /\ inner[r] = "handling" /\ ~preflight[r]
  /\ RunTurn(r) \/ UNCHANGED turnTenant
  /\ inner' = [inner EXCEPT ![r] = "raised"]
  /\ UNCHANGED <<given, auths, outer, budget, charged, status, headers>>

-----------------------------------------------------------------------------
(* The way back.                                                           *)

\* The response has started: the rate limiting layer adds its headers.
Relay(r) ==
  /\ At(r, "waiting", "leaving")
  /\ status[r] # None
  /\ headers' = [headers EXCEPT ![r] = IF Guarded(r, "limit") THEN @ \cup {"limit"} ELSE @]
  /\ UNCHANGED <<given, auths, inner, budget, charged, status, turnTenant>>

\* The authentication layer resets its context variable, the stream going on.
ResetAuth(r) ==
  /\ At(r, "leaving", "correlating")
  /\ outerAuth' = [outerAuth EXCEPT ![r] = None]
  /\ UNCHANGED <<given, stateAuth, innerAuth, inner, budget, charged, status, headers, turnTenant>>

\* Mutation: only what has no id yet is given one.
SendUncorrelated(r) ==
  /\ At(r, "correlating", "sent")
  /\ headers' = [headers EXCEPT ![r] = @ \cup CorsFor(r)]
  /\ UNCHANGED <<given, auths, inner, budget, charged, status, turnTenant>>

\* Mutation: CORS sits inside the layers that refuse.
SendRefusalsBare(r) ==
  /\ At(r, "correlating", "sent")
  /\ headers' = [headers EXCEPT ![r] =
       @ \cup {"request-id"} \cup (IF status[r] \in {401, 429} THEN {} ELSE CorsFor(r))]
  /\ UNCHANGED <<given, auths, inner, budget, charged, status, turnTenant>>

\* The correlation layer echoes its id, CORS adds its header for an allowed origin.
Send(r) ==
  /\ At(r, "correlating", "sent")
  /\ headers' = [headers EXCEPT ![r] = @ \cup {"request-id"} \cup CorsFor(r)]
  /\ UNCHANGED <<given, auths, inner, budget, charged, status, turnTenant>>

\* The exception unwinds every layer; the outermost answers it.
ServerError(r) ==
  /\ outer[r] = "waiting" /\ inner[r] = "raised"
  /\ outer' = [outer EXCEPT ![r] = "sent"]
  /\ outerAuth' = [outerAuth EXCEPT ![r] = None]
  /\ Respond(r, 500, {})
  /\ UNCHANGED <<given, stateAuth, innerAuth, inner, budget, charged, turnTenant>>

RequestStep(r) ==
  \/ AnswerPreflight(r)
  \/ Correlate(r) \/ Unauthorized(r) \/ Authenticate(r) \/ TooMany(r) \/ Admit(r)
  \/ StartStream(r) \/ StreamTurn(r) \/ CompleteTurn(r) \/ HandledError(r) \/ Raise(r)
  \/ Relay(r) \/ ResetAuth(r) \/ Send(r) \/ ServerError(r)

Next == \E r \in Request : RequestStep(r)

Spec == Init /\ [][Next]_vars

-----------------------------------------------------------------------------
(* Properties.                                                             *)

\* Every variable has its type.
TypeOK ==
  /\ installed \subseteq Layers /\ protected \in [Request -> BOOLEAN]
  /\ origin \in [Request -> Origins] /\ preflight \in [Request -> BOOLEAN]
  /\ token \in [Request -> Identity \cup {None}] /\ address \in [Request -> Address]
  /\ outer \in [Request -> Outer] /\ inner \in [Request -> Inner]
  /\ \A f \in {stateAuth, outerAuth, innerAuth} : f \in [Request -> Identity \cup {None}]
  /\ budget \in [Subject \cup Address -> 0 .. Burst]
  /\ charged \in [Request -> SUBSET (Subject \cup Address)]
  /\ status \in [Request -> Codes \cup {None}] /\ headers \in [Request -> SUBSET Headers]
  /\ turnTenant \in [Request -> Tenant \cup {None, Default}]

\* "resetting here cannot strip the tenant from an in-flight turn" (auth.py:104-105):
\* a turn runs for the tenant of its own request's token, although its body is
\* produced after the authentication layer has returned, and other requests go on.
TurnRunsForItsCaller ==
  \A r \in Request : turnTenant[r] # None =>
    turnTenant[r] = IF "auth" \in installed THEN token[r].tenant ELSE Default

\* The limiter "buckets by the validated subject, falling back to the client IP when
\* auth is off" (main.py:81-83), and a request that proves no identity spends nobody's
\* budget: what is gone from a budget was spent by its own requests.
BudgetSpentByItsOwn ==
  /\ \A r \in Request : \A k \in charged[r] :
       k = IF "auth" \in installed THEN token[r].subject ELSE address[r]
  /\ \A k \in Subject \cup Address :
       budget[k] + Cardinality({r \in Request : k \in charged[r]}) = Burst

\* "correlation ids on every response" (main.py:91), but for the preflights, which CORS
\* answers outside of the layer that assigns the ids: whichever layer answers, and however
\* many layers the answer passes, it carries the request's id.
EveryResponseTraceable ==
  \A r \in Request :
    outer[r] = "sent" => "request-id" \in headers[r] \/ AnsweredByCors(r)

\* "it is the outermost layer and error responses carry the CORS headers an allowed browser
\* client needs to read them" (main.py:97-98): whichever layer answers.
BrowsersCanRead(r) ==
  outer[r] = "sent" /\ "cors" \in installed /\ origin[r] = "allowed" => "cors" \in headers[r]

\* What is true of it: an answer that passes the layers can be read by an allowed browser,
\* refusals of any layer included; and "opens exactly those origins" (test_cors.py:4-5):
\* nothing can be read by another one.
LayersReadableByBrowsers ==
  \A r \in Request :
    /\ inner[r] # "raised" => BrowsersCanRead(r)
    /\ "cors" \in headers[r] => "cors" \in installed /\ origin[r] = "allowed"

\* What the comment says of every error (main.py:97-98; also errors.py:3, docs/api.md:195,
\* for a browser reads no id from what it cannot read).  The answer to an endpoint that
\* raised is made by ServerErrorMiddleware, outside of every layer that was added.
ErrorsReadableByBrowsers == \A r \in Request : BrowsersCanRead(r)
=============================================================================
