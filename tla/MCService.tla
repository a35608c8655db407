------------------------------ MODULE MCService ------------------------------
(***************************************************************************)
(* The parts of the HTTP service for TLC, side by side: the rate limiter's *)
(* buckets, a request in the layers, a turn in the dispatch, the start-up. *)
(* They share no state, so `part`, chosen at the start, says which of them *)
(* moves while the others rest in one initial state: what is checked is    *)
(* the sum of the four state spaces, where a product would add nothing.    *)
(***************************************************************************)
EXTENDS RateLimiter, TLC

CONSTANTS RequestBurst, Request, Subject, Tenant, Address, None, Turn, Registered, Unknown, MaxServed

VARIABLES
  part,
  installed, protected, origin, preflight, token, address, outer, inner, stateAuth, outerAuth, innerAuth,
  budget, charged, status, headers, turnTenant,
  enabled, pc, endpoint, served, answered, fallbacks,
  realtimePhase, realtimeTurns, realtimeErrors, slowPhase, slowTurns, slowErrors,
  env, settings, step, document, llm, pipelines, layers, routes, answers

requestVars ==
  <<installed, protected, origin, preflight, token, address, outer, inner, stateAuth, outerAuth, innerAuth,
    budget, charged, status, headers, turnTenant>>
dispatchVars ==
  <<enabled, pc, endpoint, served, answered, fallbacks,
    realtimePhase, realtimeTurns, realtimeErrors, slowPhase, slowTurns, slowErrors>>
assemblyVars ==
  <<env, settings, step, document, llm, pipelines, layers, routes, answers>>

Requests == INSTANCE RequestPathProofs WITH Burst <- RequestBurst
Dispatch == INSTANCE VoiceDispatchProofs
Assembly == INSTANCE AppAssembly

ASSUME ServiceAssumption ==
  /\ Requests!ConstantsAssumption
  /\ Assembly!ConstantsAssumption

Symmetry ==
  Permutations(Key) \cup Permutations(Request) \cup Permutations(Subject)
    \cup Permutations(Tenant) \cup Permutations(Turn)

-----------------------------------------------------------------------------
\* The CORS layer keeps nothing that requests share, so one cross-origin request, next to
\* others that prove no identity, shows what it does.
Browsers == {r \in Request : origin[r] # "none"}

OneBrowser ==
  /\ Cardinality(Browsers) <= 1
  /\ Browsers # {} => \A r \in Request \ Browsers : token[r] = None

\* A part that does not move has nothing to choose either.
RequestsRest ==
  /\ installed = {} /\ protected = [r \in Request |-> FALSE]
  /\ origin = [r \in Request |-> "none"] /\ preflight = [r \in Request |-> FALSE]
  /\ token = [r \in Request |-> None]

DispatchRests ==
  /\ enabled = FALSE
  /\ endpoint = [t \in Turn |-> [architecture |-> "realtime", delivery |-> "stream"]]

AssemblyRests == env = CHOOSE e \in Assembly!Environments : TRUE

SuiteInit ==
  /\ part \in {"limiter", "requests", "dispatch", "assembly"}
  /\ IF part = "requests" THEN TRUE ELSE RequestsRest
  /\ IF part = "dispatch" THEN TRUE ELSE DispatchRests
  /\ IF part = "assembly" THEN TRUE ELSE AssemblyRests
  /\ Init /\ Requests!Init /\ Dispatch!Init /\ Assembly!Init
  /\ OneBrowser

SuiteNext ==
  /\ UNCHANGED part
  /\ \/ /\ part = "limiter" /\ Next
        /\ UNCHANGED <<requestVars, dispatchVars, assemblyVars>>
     \/ /\ part = "requests" /\ Requests!Next
        /\ UNCHANGED <<vars, dispatchVars, assemblyVars>>
     \/ /\ part = "dispatch" /\ Dispatch!Next
        /\ UNCHANGED <<vars, requestVars, assemblyVars>>
     \/ /\ part = "assembly" /\ Assembly!Next
        /\ UNCHANGED <<vars, requestVars, dispatchVars>>

SuiteSpec == SuiteInit /\ [][SuiteNext]_<<part, vars, requestVars, dispatchVars, assemblyVars>>

-----------------------------------------------------------------------------
(* The properties, each a conjunction of the modules' own where they are   *)
(* about one thing; AdmissionBounded, RetryAfterWithinASecond and          *)
(* ForgottenOnlyInACrowd of RateLimiter are here already.                  *)

\* Every variable has its type, and the limiter's table its bound (ratelimit.py:58).
ServiceTypeOK ==
  /\ TypeOK
  /\ MemoryBounded
  /\ Requests!TypeOK
  /\ Dispatch!TypeOK
  /\ Assembly!TypeOK

\* A turn runs for the tenant of its request's own token (auth.py:104-105).
TurnRunsForItsCaller == Requests!TurnRunsForItsCaller

\* No budget is spent by other requests than its own (main.py:81-83).
BudgetSpentByItsOwn == Requests!BudgetSpentByItsOwn

\* Every response but a preflight's carries its request's correlation id (main.py:91); what
\* passes the layers, refusals among it, can be read by the browsers of allowed origins and
\* by no others (main.py:94-98); problem bodies are the answers to the failed turns of
\* /complete (errors.py:3).
ResponsesReadable ==
  /\ Requests!EveryResponseTraceable
  /\ Requests!LayersReadableByBrowsers
  /\ Dispatch!ErrorsAreProblems

\* A fallback neither replays to a client what it was sent nor miscounts: the three
\* counters agree on what happened (fallback.py:10-16).
FallbackHonest == Dispatch!FallbackHonest

\* What a start-up that succeeds has put together: in the cloud nobody without a token
\* reaches the API (auth.py:4-5), the limiter charges only who has proved their identity
\* (main.py:81-83), every path uses the application's session store (main.py:63), the
\* model is grounded in the configured document (loader.py:87), the webhook answers
\* nobody but Twilio (twiml.py:7-8), and the public paths are open unless the prefix is
\* "/" (docs/configuration.md:110).
AssembledSafely == Assembly!AssembledSafely
=============================================================================
