----------------------------- MODULE Evaluation -----------------------------
(***************************************************************************)
(* The offline evaluation: evaluate() of evaluation/harness.py and         *)
(* grounding_report() of evaluation/grounding.py over one seed set, with   *)
(* extract_citations() of app/context/grounding.py.  A question is put to  *)
(* the application, whose answer may be anything; a turn that is answered  *)
(* with an error raises, and ends the evaluation without a report.  An     *)
(* article is the sequence of its digits: "Article 21" is <<2, 1>>.        *)
(***************************************************************************)
EXTENDS Naturals, Sequences, FiniteSets, SequencesExt

CONSTANTS
  Case,     \* questions of the seed set
  Article,  \* articles an answer may cite
  InDocument, \* those the document contains
  Word      \* keywords; the document's words are those of its articles

ArticlesAssumption == InDocument \subseteq Article
SeedSetAssumption  == IsFiniteSet(Case)

VARIABLES
  todo,    \* cases not run yet
  results, \* one result per case run, in order
  outcome  \* "running", "report", or "aborted"

vars == <<todo, results, outcome>>

\* What an answer is made of: citations in the order of their appearance, the keywords
\* it contains, how many of its significant words the document has, and a refusal.
Answers ==
  [cites : {<< >>} \cup {<<a>> : a \in Article} \cup (Article \X Article),
   words : SUBSET Word, hits : 0 .. 2, significant : {2}, refusal : BOOLEAN]

Init == todo \in [1 .. Cardinality(Case) -> Case] /\ IsInjective(todo) /\ results = << >> /\ outcome = "running"

-----------------------------------------------------------------------------
\* extract_citations(): without repetitions, in the order of first appearance.
Cited(answer) ==
  LET c == answer.cites
  IN  IF Len(c) = 2 /\ c[1] = c[2] THEN <<c[1]>> ELSE c

\* Mutation: one supported citation is enough.
SupportedByAny(cited) ==
  cited # << >> => \E i \in DOMAIN cited : \E d \in InDocument : IsPrefix(cited[i], d)

\* `c.lower() in doc_lower`: the citation is somewhere in the text.
Supported(cited) ==
  \A i \in DOMAIN cited : \E d \in InDocument : IsPrefix(cited[i], d)

\* grounding_report() with the default threshold of one half.
Report(answer) ==
  LET cited == Cited(answer)
  IN  [cited |-> cited, supported |-> Supported(cited), refused |-> answer.refusal,
       grounded |-> answer.refusal \/ (cited # << >> /\ Supported(cited)
                                       /\ 2 * answer.hits >= answer.significant)]

\* Mutation: one keyword is enough.
PassesAny(answer) == Word = {} \/ answer.words # {}

\* keyword_scorer(), every case expecting every keyword.
Passes(answer) == Word \subseteq answer.words

RunCase(answer) ==
  /\ outcome = "running" /\ todo # << >>
  /\ todo' = Tail(todo)
  /\ results' = Append(results, [case |-> Head(todo), answer |-> answer,
                                 passed |-> Passes(answer), report |-> Report(answer)])
  /\ UNCHANGED outcome

\* Mutation: a case that raises is skipped.
RunnerSkips ==
  /\ outcome = "running" /\ todo # << >>
  /\ todo' = Tail(todo)
  /\ UNCHANGED <<results, outcome>>

\* raise_for_status(): the exception goes through evaluate().
RunnerRaises ==
  /\ outcome = "running" /\ todo # << >>
  /\ outcome' = "aborted"
  /\ UNCHANGED <<todo, results>>

Finish ==
  /\ outcome = "running" /\ todo = << >>
  /\ outcome' = "report"
  /\ UNCHANGED <<todo, results>>

Next == (\E a \in Answers : RunCase(a)) \/ RunnerRaises \/ Finish

Spec == Init /\ [][Next]_vars

-----------------------------------------------------------------------------
(* Properties.                                                             *)

\* A report is about the whole seed set, each case once: its rates are over what was
\* asked and not over what happened to be answered (harness.py:122-134).
ReportsAreComplete ==
  outcome = "report" => Len(results) = Cardinality(Case) /\ {results[i].case : i \in DOMAIN results} = Case

\* An answer graded as grounded without being a refusal cites something, and none of its
\* citations is absent from the document altogether (grounding.py:12-15).
GroundedIsBacked ==
  \A r \in ToSet(results) : r.report.grounded /\ ~r.answer.refusal =>
    /\ r.answer.cites # << >>
    /\ \A c \in ToSet(r.answer.cites) : \E d \in InDocument : IsPrefix(c, d)

\* A case passes only with every keyword, and an honest refusal is never marked down.
VerdictsHonest ==
  \A r \in ToSet(results) :
    /\ r.passed => r.answer.words = Word
    /\ r.answer.refusal => r.report.grounded

\* The three together.
GradedHonestly == ReportsAreComplete /\ GroundedIsBacked /\ VerdictsHonest
=============================================================================
