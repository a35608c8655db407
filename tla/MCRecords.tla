------------------------------ MODULE MCRecords ------------------------------
(***************************************************************************)
(* What the service keeps and writes about its turns, for TLC: turns of    *)
(* the slow path and the sessions they write, the memory of a session, the *)
(* collectors of /metrics and /usage, a line of the log, a report of the   *)
(* evaluation.  `part`, chosen at the start, says which of them moves;     *)
(* they share nothing.                                                     *)
(***************************************************************************)
EXTENDS Evaluation, TLC

CONSTANTS
  Budget, CharsPerToken, SummaryLine, Lengths, MaxTurns,
  Path, Tenant, Latencies, Sizes, MaxRecorded, MaxDepth,
  Turn, Customer, SessionId, None, MaxParts

VARIABLES
  part,
  turns, memory,
  samples, usage, bytes,
  ids, record, line,
  stage, atYield, tenant, session, history, prompt, boundary, parts, finals, segments, answer,
  open, ended, turnCount, errorCount, recorded

memoryVars == <<turns, memory>>
measuredVars == <<samples, usage, bytes>>
loggedVars == <<ids, record, line>>
slowVars ==
  <<stage, atYield, tenant, session, history, prompt, boundary, parts, finals, segments, answer,
    open, ended, turnCount, errorCount, recorded>>

Memory == INSTANCE ConversationMemory

Measured == INSTANCE Measurements WITH MaxTurns <- MaxRecorded

Logged == INSTANCE LogLine

Slow == INSTANCE TraditionalPipelineProofs
          WITH Tenant <- Customer, key <- session, outcome <- ended

ASSUME RecordsAssumption ==
  /\ ArticlesAssumption /\ SeedSetAssumption
  /\ Memory!BudgetAssumption /\ Memory!LengthsAssumption
  /\ Measured!BoundsAssumption
  /\ Logged!DepthAssumption
  /\ Slow!ConstantsAssumption

\* The document has Article 21; answers may also cite Article 2 and Article 14.
ArticlesCited == {<<2, 1>>, <<2>>, <<1, 4>>}
ArticlesThere == {<<2, 1>>}

Symmetry ==
  Permutations(Path) \cup Permutations(Word) \cup Permutations(Turn) \cup Permutations(Customer)

-----------------------------------------------------------------------------
\* Parts that do not move have nothing to choose either.
LogRests ==
  record = [key |-> "other", value |-> Logged!Number, depth |-> 0, message |-> {}, exc |-> {}]

EvaluationRests ==
  todo = CHOOSE q \in [1 .. Cardinality(Case) -> Case] : {q[i] : i \in DOMAIN q} = Case

SuiteInit ==
  /\ part \in {"memory", "metrics", "log", "evaluation", "slow"}
  /\ IF part = "log" THEN TRUE ELSE LogRests
  /\ IF part = "evaluation" THEN TRUE ELSE EvaluationRests
  /\ Init /\ Memory!Init /\ Measured!Init /\ Logged!Init /\ Slow!Init

SuiteNext ==
  /\ UNCHANGED part
  /\ \/ /\ part = "memory" /\ Memory!Next
        /\ UNCHANGED <<measuredVars, loggedVars, slowVars, vars>>
     \/ /\ part = "metrics" /\ Measured!Next
        /\ UNCHANGED <<memoryVars, loggedVars, slowVars, vars>>
     \/ /\ part = "log" /\ Logged!Next
        /\ UNCHANGED <<memoryVars, measuredVars, slowVars, vars>>
     \/ /\ part = "evaluation" /\ Next
        /\ UNCHANGED <<memoryVars, measuredVars, loggedVars, slowVars>>
     \/ /\ part = "slow" /\ Slow!Next
        /\ UNCHANGED <<memoryVars, measuredVars, loggedVars, vars>>

SuiteSpec ==
  SuiteInit /\ [][SuiteNext]_<<part, vars, memoryVars, measuredVars, loggedVars, slowVars>>

-----------------------------------------------------------------------------
(* The properties, each a conjunction of a module's own; GradedHonestly of *)
(* Evaluation is here already.                                             *)

\* The memory keeps the newest turns that fit and drops none without need
\* (memory.py:32-56).
MemoryIsTheTail ==
  /\ Memory!KeepsWhatFits
  /\ Memory!NothingLostUnderBudget
  /\ Memory!WithinBudget

\* Half of the samples are on either side of the median and the 95th percentile is
\* between it and the largest (metrics.py:14-25), metered seconds are exact up to rounding
\* (usage.py:22-53), a line of the log holds nothing that is under a sensitive key and no
\* match of a pattern but perhaps the rest of a broken one, however deep it is nested, and
\* what is harmless is logged as it was (pii.py:3-20).
ObservedFaithfully ==
  /\ Measured!QuantilesSeparate
  /\ Measured!AudioMeteredWithinRounding
  /\ Logged!NothingSensitiveWritten
  /\ Logged!OperationalSurvives

\* A turn's prompt is the history of its session up to its own question, whichever other
\* turns of the session go on meanwhile (traditional/pipeline.py:133-134).
PromptAsksOwnQuestion == Slow!PromptAsksOwnQuestion

\* Nothing a turn says is in a session of another tenant (store.py:53-61).
TenantsIsolated == Slow!TenantsIsolated

\* A turn that is recorded is in its session's history, question and answer, once each and in
\* this order (traditional/pipeline.py:133-175).
RecordedTurnsRemembered == Slow!RecordedTurnsRemembered

\* The slow path keeps the pipelines' contract: phases in order, counters that count each
\* turn once.
KeepsContract == Slow!KeepsContract
=============================================================================
