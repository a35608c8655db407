------------------------------- MODULE LogLine -------------------------------
(***************************************************************************)
(* A line of the service's structured log: the ids bound to the context    *)
(* on the way (app/errors.py, the pipelines), the record with its message, *)
(* an extra and an exception, and what JsonFormatter                       *)
(* (app/observability/logging.py) makes of it with scrub()                 *)
(* (app/observability/pii.py).  A text is the set of what is private in    *)
(* it: matches of the patterns, which may lie one in another, and what no  *)
(* pattern matches.  An extra is built from texts, numbers, lists, dicts.  *)
(***************************************************************************)
EXTENDS Naturals, Sequences, FiniteSets, SequencesExt

CONSTANT MaxDepth \* bound: nesting of the extra

DepthAssumption == MaxDepth \in Nat

Patterns == <<"email", "phone", "bearer", "jwt">> \* _PATTERNS

\* What is found in a text: a match of a pattern, the match of another in it or not, and
\* what is private but of no shape.  A token may have a run of digits in it, and may be a JWT.
Match(s)     == [shape |-> s, holds |-> "nothing"]
Within(t, s) == [shape |-> s, holds |-> t]
Unseen       == Match("none")
Findings ==
  {Match("email"), Match("phone"), Match("bearer"), Match("jwt"), Unseen,
   Within("phone", "bearer"), Within("phone", "jwt"), Within("jwt", "bearer")}

\* Names of keys; a "telling" one has a match of a pattern in it.
Keys == {"content", "credential", "other", "telling"}

Text(s)    == [is |-> "text", found |-> s]
Number     == [is |-> "number"]
List(s)    == [is |-> "list", items |-> s]
Dict(k, v) == [is |-> "dict", key |-> k, value |-> v]
Redacted   == [is |-> "redacted"]

VARIABLES
  ids,     \* context variables: where each id comes from, "unset" before it is bound,
           \* and what is found in it
  record,  \* [key, value, depth, message, exc]: an extra and the other texts
  line     \* << >>, or what was written

vars == <<ids, record, line>>

Unset   == [from |-> "unset", found |-> {}]
Own     == [from |-> "service", found |-> {}]
Ids     == {Own} \cup [from : {"caller"}, found : {{}, {Match("email")}}]

Init ==
  /\ ids = [correlation |-> Unset, session |-> Unset, tenant |-> Unset] /\ line = << >>
  /\ record \in [key : Keys, depth : {0},
                 value : {Number, Text({})} \cup {Text({o}) : o \in Findings},
                 message : {{}, {Match("email"), Within("phone", "jwt")}},
                 exc : {{}, {Match("phone"), Within("jwt", "bearer")}}]

\* _is_sensitive_key().
IsSensitive(key) == key \in {"content", "credential"}

\* pattern.sub(): its matches go, and a match it lies in is broken: what remains of that
\* may no longer match its own pattern.
Substitute(p, found) ==
  UNION {IF o.shape = p THEN {} ELSE IF o.holds = p THEN {Unseen} ELSE {o} : o \in found}

\* Mutation: the patterns are substituted from the last to the first.
ScrubTextBackwards(found) ==
  Substitute("email", Substitute("phone", Substitute("bearer", Substitute("jwt", found))))

\* scrub_text(): each pattern is substituted in turn.
ScrubText(found) ==
  Substitute("jwt", Substitute("bearer", Substitute("phone", Substitute("email", found))))

\* What an extra may hold: texts, numbers, and lists and dicts of what is less deep.
Value[depth \in 0 .. MaxDepth] ==
  IF depth = 0 THEN {Number, Redacted} \cup [is : {"text"}, found : SUBSET Findings]
  ELSE Value[depth - 1] \cup [is : {"list"}, items : Seq(Value[depth - 1])]
         \cup [is : {"dict"}, key : Keys, value : Value[depth - 1]]

Extras == Value[MaxDepth]

\* Mutation: lists are passed through.
ScrubDicts(v, key) ==
  LET scrub[w \in Extras] == [k \in Keys |->
        IF IsSensitive(k) THEN Redacted
        ELSE IF w.is = "text" THEN Text(ScrubText(w.found))
        ELSE IF w.is = "dict" THEN Dict(w.key, scrub[w.value][w.key])
        ELSE w]
  IN  scrub[v][key]

\* Mutation: numbers are redacted as well.
ScrubAll(v, key) ==
  LET scrub[w \in Extras] == [k \in Keys |->
        IF IsSensitive(k) \/ w = Number THEN Redacted
        ELSE IF w.is = "text" THEN Text(ScrubText(w.found))
        ELSE IF w.is = "dict" THEN Dict(w.key, scrub[w.value][w.key])
        ELSE IF w.is = "list" THEN List([i \in DOMAIN w.items |-> scrub[w.items[i]]["other"]])
        ELSE w]
  IN  scrub[v][key]

\* scrub(): a value under a sensitive key goes as a whole, a list's items have no key.
Scrub(v, key) ==
  LET scrub[w \in Extras] == [k \in Keys |->
        IF IsSensitive(k) THEN Redacted
        ELSE IF w.is = "text" THEN Text(ScrubText(w.found))
        ELSE IF w.is = "dict" THEN Dict(w.key, scrub[w.value][w.key])
        ELSE IF w.is = "list" THEN List([i \in DOMAIN w.items |-> scrub[w.items[i]]["other"]])
        ELSE w]
  IN  scrub[v][key]

-----------------------------------------------------------------------------
\* CorrelationIdMiddleware: the caller's X-Request-ID, or a new one.
BindRequest ==
  /\ ids.correlation = Unset /\ line = << >>
  /\ \E id \in Ids : ids' = [ids EXCEPT !.correlation = id]
  /\ UNCHANGED <<record, line>>

\* A pipeline binds the session it resolved, the caller's id or a new one, and the tenant.
BindTurn ==
  /\ ids.correlation # Unset /\ ids.session = Unset /\ line = << >>
  /\ \E id \in Ids : ids' = [ids EXCEPT !.session = id, !.tenant = Own]
  /\ UNCHANGED <<record, line>>

\* The extra grows: into a dict, or into a list with something harmless beside it.
Nest ==
  /\ line = << >> /\ record.depth < MaxDepth
  /\ \E v \in {Dict(k, record.value) : k \in Keys} \cup {List(<<Number, record.value>>)} :
       record' = [record EXCEPT !.value = v, !.depth = @ + 1]
  /\ UNCHANGED <<ids, line>>

\* JsonFormatter.format(): the bound ids as they are, the rest scrubbed.
Format ==
  /\ line = << >>
  /\ line' = <<[ids |-> ids, message |-> ScrubText(record.message),
                extra |-> Scrub(record.value, record.key), exc |-> ScrubText(record.exc)]>>
  /\ UNCHANGED <<ids, record>>

Next == BindRequest \/ BindTurn \/ Nest \/ Format

Spec == Init /\ [][Next]_vars

-----------------------------------------------------------------------------
(* Properties.                                                             *)

\* The leaves of an extra, each with the keys and positions on the way to it.
Leaves(v, keys) ==
  LET leaves[w \in Extras] == [ks \in Seq([key : Keys, at : Nat]) |->
        IF w.is = "dict" THEN leaves[w.value][Append(ks, [key |-> w.key, at |-> 0])]
        ELSE IF w.is = "list"
        THEN UNION {leaves[w.items[i]][Append(ks, [key |-> "other", at |-> i])] : i \in DOMAIN w.items}
        ELSE {<<ks, w>>}]
  IN  leaves[v][keys]

Top == <<[key |-> record.key, at |-> 0]>>
Hidden(keys) == \E i \in DOMAIN keys : keys[i].key \in {"content", "credential"}

\* A match broken by a pattern that is substituted before its own.
Broken(o) == \E i, j \in DOMAIN Patterns : i < j /\ Patterns[i] = o.holds /\ Patterns[j] = o.shape

\* What may be written of a text: no match of a pattern.  What no pattern matches stays, and
\* so may the rest of a match that an earlier pattern broke.
Cleaned(written, found) ==
  /\ written \subseteq {Unseen}
  /\ written # {} => Unseen \in found \/ \E o \in found : Broken(o)

\* "makes this a guarantee rather than a convention" (pii.py:3-7), as far as it goes.  In the
\* message, the exception and an extra, however deep it is nested, nothing is written of
\* what is under a sensitive key and no match of a pattern, but perhaps the rest of one that
\* an earlier pattern had broken.  Keys stay as they are, telling ones too, each where it
\* was, and so do the ids: what is found in one was in an id that the caller gave.
NothingSensitiveWritten ==
  \A l \in ToSet(line) :
    /\ Cleaned(l.message, record.message) /\ Cleaned(l.exc, record.exc)
    /\ \A i \in DOMAIN l.ids : l.ids[i].found # {} => l.ids[i].from = "caller"
    /\ \A leaf \in Leaves(l.extra, Top) : leaf[2] # Redacted =>
         /\ ~Hidden(leaf[1])
         /\ \E source \in Leaves(record.value, Top) :
              /\ source[1] = leaf[1] /\ source[2].is = leaf[2].is
              /\ leaf[2].is = "text" => Cleaned(leaf[2].found, source[2].found)

\* "operational identifiers must survive untouched" (pii.py:18-20): what is neither
\* under a sensitive key nor has anything private in it is written as it was, in its place.
OperationalSurvives ==
  \A l \in ToSet(line) : \A leaf \in Leaves(record.value, Top) :
    ~Hidden(leaf[1]) /\ leaf[2] \in {Number, Text({})} => leaf \in Leaves(l.extra, Top)
=============================================================================
