----------------------------- MODULE AppAssembly -----------------------------
(***************************************************************************)
(* create_app() of app/main.py: from the environment through load_settings *)
(* (app/config.py), load_document (app/context/loader.py), the provider    *)
(* and pipeline factories and the installation of the layers to the        *)
(* routes, and then the answers of the assembled service.  A step that     *)
(* raises ends the start-up.  What a layer does to one request is in       *)
(* RequestPath; here it is which layers there are, in which order, and for *)
(* which paths.                                                            *)
(***************************************************************************)
EXTENDS Naturals, Sequences, FiniteSets, SequencesExt

CONSTANTS
  Registered, \* provider names the factories know
  Unknown,    \* a name they do not
  MaxServed   \* bound: requests answered

ConstantsAssumption == Unknown \notin Registered /\ MaxServed \in Nat

VARIABLES
  env,       \* the environment and the document file, as the process finds them
  settings,  \* the Settings, or << >> before they are loaded
  step,      \* the next step of create_app(), "serving", or "failed"
  document,  \* app.state.document
  llm,       \* the language model of the traditional pipeline
  pipelines, \* the registry, by architecture
  layers,    \* middleware, the outermost first
  routes,    \* [path, needs] of what is mounted
  answers    \* history: [path, caller, status, by] of the requests served

built == <<document, llm, pipelines, layers, routes>>
vars == <<env, settings, step, built, answers>>

Environments ==
  [environment : {"local", "cloud"},
   secret      : {"unset", "short", "strong"},
   origins     : {"none", "known", "wildcard"},
   prefix      : {"root", "versioned"},
   provider    : Registered \cup {Unknown},
   fallback    : BOOLEAN,
   rate        : BOOLEAN,
   telephony   : BOOLEAN,
   public_url  : BOOLEAN,
   twilio_auth : BOOLEAN,
   file        : {"unset", "missing", "empty", "oversized", "fits"}]

\* Objects are named by where they were built: the application's or a default of its own.
Init ==
  /\ env \in Environments
  /\ settings = << >> /\ step = "settings"
  /\ document = "unset" /\ llm = [grounded |-> 0, tools |-> FALSE]
  /\ pipelines = << >> /\ layers = << >> /\ routes = {} /\ answers = {}

-----------------------------------------------------------------------------
(* Start-up.                                                               *)

\* Mutation: the secrets are required in no environment.
InvalidNothingRequired(e) == e.secret = "short" \/ e.origins = "wildcard"

\* The validators of Settings: secret strength, known origins, secrets of the cloud.
Invalid(e) ==
  \/ e.secret = "short"
  \/ e.origins = "wildcard"
  \/ e.environment = "cloud" /\ e.secret = "unset"

\* A step of create_app() that raises under `bad` and otherwise goes on to `next`.
Step(from, bad, next) ==
  /\ step = from
  /\ step' = IF bad THEN "failed" ELSE next

LoadSettings ==
  /\ Step("settings", Invalid(env), "document")
  /\ settings' = IF Invalid(env) THEN settings ELSE env
  /\ UNCHANGED <<env, built, answers>>

\* Mutation: an oversized document is cut to the window.
UnreadableCuts(file) == file \in {"missing", "empty"}

\* What load_document() refuses; without a path grounding is off.
Unreadable(file) == file \in {"missing", "empty", "oversized"}

LoadDocument ==
  /\ Step("document", Unreadable(settings.file), "pipelines")
  /\ document' = settings.file
  /\ UNCHANGED <<env, settings, llm, pipelines, layers, routes, answers>>

\* Mutation: `session_store or SessionStore()`, and a new store is empty, hence falsy.
StoreGivenTruthy(store) == "own"

\* `session_store if session_store is not None else SessionStore()`.
StoreGiven(store) == IF store = "None" THEN "own" ELSE store

\* The realtime pipeline as it is registered: it falls back on the traditional one.
Realtime(traditional, realtime, enabled) ==
  IF enabled THEN [name |-> "fallback", store |-> traditional.store, inner |-> realtime]
  ELSE realtime

\* build_pipeline_registry(): the providers first, whose names may be unknown; the
\* traditional pipeline's constructor grounds the model and gives it the tools.
BuildPipelines ==
  LET store       == StoreGiven(StoreGiven("app"))
      traditional == [name |-> "traditional", store |-> store]
      realtime    == [name |-> "realtime", store |-> store]
      unknown     == settings.provider \notin Registered
  IN  /\ Step("pipelines", unknown, "layers")
      /\ IF unknown THEN UNCHANGED <<llm, pipelines>>
         ELSE /\ pipelines' = [traditional |-> traditional,
                               realtime |-> Realtime(traditional, realtime, settings.fallback)]
              /\ llm' = [grounded |-> llm.grounded + (IF document = "unset" THEN 0 ELSE 1),
                         tools |-> TRUE]
      /\ UNCHANGED <<env, settings, document, layers, routes, answers>>

\* Mutation: authentication is added first, and so sits inside the limiter.
AddedAuthFirst(s) ==
  << >> \o (IF s.secret = "unset" THEN << >> ELSE <<"auth">>)
        \o (IF s.rate THEN <<"limit">> ELSE << >>)
        \o <<"correlation">>
        \o (IF s.origins = "none" THEN << >> ELSE <<"cors">>)

\* The layers in the order create_app() adds them.
Added(s) ==
  << >> \o (IF s.rate THEN <<"limit">> ELSE << >>)
        \o (IF s.secret = "unset" THEN << >> ELSE <<"auth">>)
        \o <<"correlation">>
        \o (IF s.origins = "none" THEN << >> ELSE <<"cors">>)

\* add_middleware() puts each one around those before it.
InstallLayers ==
  /\ Step("layers", FALSE, "routes")
  /\ layers' = Reverse(Added(settings))
  /\ UNCHANGED <<env, settings, document, llm, pipelines, routes, answers>>

Public == {"/healthz", "/", "/ui"}
Api    == {"/config", "/metrics", "/contract", "/voice/fast", "/voice/slow"}

Voice  == "/telephony/voice"   \* Twilio's webhook
Socket == "/telephony/stream"  \* the WebSocket of a call's media

Routes(s) == Public \cup Api \cup (IF s.telephony THEN {Voice, Socket} ELSE {})

MountRoutes ==
  /\ Step("routes", FALSE, "serving")
  /\ routes' = Routes(settings)
  /\ UNCHANGED <<env, settings, document, llm, pipelines, layers, answers>>

-----------------------------------------------------------------------------
(* The service.                                                            *)

\* Mutation: the layers skip nothing but the probe.
UnderPrefixOrPage(path) == path # "/healthz"

\* path.startswith(api_prefix.rstrip("/") + "/"): with the prefix "/", every path.
UnderPrefix(path) == settings.prefix = "root" \/ path \in Api

Paths   == Public \cup Api \cup {Voice, Socket}
Callers == {"anonymous", "bearer", "twilio"} \* by what the request proves

\* Whether a layer may answer instead of passing the request on.  BaseHTTPMiddleware passes
\* on whatever is not HTTP.
Refuses(layer, path, caller) ==
  path # Socket /\ UnderPrefix(path) /\ (layer = "limit" \/ (layer = "auth" /\ caller # "bearer"))

\* Mutation: the signature is not validated.
WebhookUnsigned(caller) == IF settings.public_url THEN 200 ELSE 503

\* telephony_voice(): without a public URL nothing can be answered; with Twilio's token
\* the signature must match.
Webhook(caller) ==
  IF ~settings.public_url THEN 503
  ELSE IF settings.twilio_auth /\ caller # "twilio" THEN 403 ELSE 200

\* The endpoint's own answer: telephony_stream() accepts every socket, and the router
\* refuses one that has no route.
Endpoint(path, caller) ==
  IF path = Socket THEN IF path \in routes THEN 101 ELSE 403
  ELSE IF path \notin routes THEN 404
  ELSE IF path = Voice THEN Webhook(caller) ELSE 200

\* From the outside in: without a token nothing passes authentication, and the limiter
\* may have a token left or not.
Outcomes(path, caller) ==
  LET at(layer) == {i \in DOMAIN layers : layers[i] = layer /\ Refuses(layer, path, caller)}
      reached   == \E i \in at("limit") : \A j \in at("auth") : i < j
  IN  (IF at("auth") = {} THEN {[status |-> Endpoint(path, caller), by |-> "route"]}
       ELSE {[status |-> 401, by |-> "auth"]})
      \cup (IF reached THEN {[status |-> 429, by |-> "limit"]} ELSE {})

Serve ==
  /\ step = "serving" /\ Cardinality(answers) < MaxServed
  /\ \E path \in Paths, caller \in Callers : \E o \in Outcomes(path, caller) :
       answers' = answers \cup {[path |-> path, caller |-> caller, status |-> o.status, by |-> o.by]}
  /\ UNCHANGED <<env, settings, step, built>>

Next == LoadSettings \/ LoadDocument \/ BuildPipelines \/ InstallLayers \/ MountRoutes \/ Serve

Spec == Init /\ [][Next]_vars

-----------------------------------------------------------------------------
(* Properties.                                                             *)

\* Every variable has its type.
TypeOK ==
  /\ env \in Environments /\ settings \in Environments \cup {<< >>}
  /\ step \in {"settings", "document", "pipelines", "layers", "routes", "serving", "failed"}
  /\ document \in {"unset", "missing", "empty", "oversized", "fits"}
  /\ llm \in [grounded : Nat, tools : BOOLEAN]
  /\ \A i \in DOMAIN layers : layers[i] \in {"limit", "auth", "correlation", "cors"}
  /\ routes \subseteq Paths

\* "cloud deployments are always authenticated" (auth.py:4-5): whatever else is set, no
\* caller without a token gets past the layers to anything of the API.
CloudIsAuthenticated ==
  env.environment = "cloud" =>
    \A a \in answers : a.path \in Api /\ a.caller # "bearer" => a.status = 401

\* Only a caller who has proved who they are is charged to the limiter when
\* authentication is on ("sits innermost -- inside auth", main.py:81-83).
LimitsKnownCallers ==
  settings # << >> /\ settings.secret # "unset" =>
    \A a \in answers : a.by = "limit" => a.caller = "bearer"

\* A turn reaches one session store, the application's, on every path, the fallback's
\* included (main.py:63, factory.py:32, pipeline.py:74-76).
OneStore ==
  pipelines # << >> =>
    /\ pipelines.traditional.store = "app"
    /\ pipelines.realtime.store = "app"

\* The model is grounded in the document once when there is one, and the service that
\* runs has a document if one was configured: nothing configured is silently off.
GroundedAsConfigured ==
  step = "serving" =>
    /\ env.file \in {"unset", "fits"}
    /\ llm.grounded = (IF env.file = "fits" THEN 1 ELSE 0)

\* "only Twilio can drive the endpoint" (twiml.py:7-8), the webhook, once its token is
\* configured, and nobody does when telephony is off or the service cannot be reached.  The
\* media socket, which passes the layers, is there only with telephony.
OnlyTwilioCalls ==
  /\ \A a \in answers : a.path = Voice /\ a.status = 200 =>
       /\ env.telephony /\ env.public_url
       /\ env.twilio_auth => a.caller = "twilio"
  /\ \A a \in answers : a.path = Socket => (a.status = 101 <=> env.telephony)

\* "/healthz, /, the docs, and /ui stay public" (docs/configuration.md:110), unless
\* API_PREFIX is "/", which settings accept and which protects every path.
PublicStaysPublic ==
  \A a \in answers : a.path \in Public /\ a.status # 200 => env.prefix = "root"

\* What a start-up that succeeds has put together.
AssembledSafely ==
  /\ CloudIsAuthenticated
  /\ LimitsKnownCallers
  /\ OneStore
  /\ GroundedAsConfigured
  /\ OnlyTwilioCalls
  /\ PublicStaysPublic
=============================================================================
