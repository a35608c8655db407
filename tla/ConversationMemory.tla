-------------------------- MODULE ConversationMemory --------------------------
(***************************************************************************)
(* ConversationMemory.build() of app/session/memory.py over a session that *)
(* grows turn by turn: the rolling memory is rebuilt from all its turns    *)
(* each time.  A turn is the length of its rendered line, "role: text".    *)
(***************************************************************************)
EXTENDS Naturals, Sequences, FiniteSets, Functions

CONSTANTS
  Budget,       \* token_budget
  CharsPerToken,
  SummaryLine,  \* length of the summary line, 0 without a summarizer
  Lengths,      \* lengths of a rendered turn
  MaxTurns      \* bound: turns of the session

BudgetAssumption  == Budget \in Nat \ {0} /\ CharsPerToken \in Nat \ {0}
LengthsAssumption == Lengths \subseteq Nat /\ SummaryLine \in Nat /\ MaxTurns \in Nat

VARIABLES
  turns, \* the rendered turns of the session
  memory \* [kept |-> positions of the turns kept, text |-> length of the context]

\* Mutation: the tokens are rounded down.
EstimateFloor(length) == length \div CharsPerToken

\* estimate_tokens().
Estimate(length) == (length + CharsPerToken - 1) \div CharsPerToken

\* Mutation: a turn that does not fit is skipped and older ones are still tried.
TakeSkipping(scan, i, cost) ==
  IF scan.kept # {} /\ scan.used + cost > Budget THEN scan
  ELSE [scan EXCEPT !.kept = @ \cup {i}, !.used = @ + cost]

\* The body of the loop for position i: the first turn is kept whatever it costs, and
\* the first one that does not fit ends the scan.
Take(scan, i, cost) ==
  IF scan.full \/ (scan.kept # {} /\ scan.used + cost > Budget)
  THEN [scan EXCEPT !.full = TRUE]
  ELSE [scan EXCEPT !.kept = @ \cup {i}, !.used = @ + cost]

\* The loop, from the most recent turn to the oldest.
Kept(lines) ==
  LET n == Len(lines)
      scan[k \in 0 .. n] ==
        IF k = 0 THEN [kept |-> {}, used |-> 0, full |-> FALSE]
        ELSE Take(scan[k - 1], n - k + 1, Estimate(lines[n - k + 1]))
  IN  scan[n].kept

Costs(lines) == [i \in DOMAIN lines |-> Estimate(lines[i])]

\* What the lines, or their costs, at some positions come to.
TotalOf(lengths, positions) == SumFunctionOnSet(lengths, positions)

\* Mutation: the summary is written although nothing was evicted.
BuildAlwaysSums(lines) ==
  [kept |-> Kept(lines),
   text |-> TotalOf(lines, Kept(lines)) + SummaryLine + Cardinality(Kept(lines))]

\* The lines joined by newlines; evicted turns become the summary line, or nothing.
Build(lines) ==
  LET kept    == Kept(lines)
      summary == IF Cardinality(kept) < Len(lines) THEN SummaryLine ELSE 0
      count   == Cardinality(kept) + (IF summary > 0 THEN 1 ELSE 0)
  IN  [kept |-> kept,
       text |-> TotalOf(lines, kept) + summary + (IF count > 0 THEN count - 1 ELSE 0)]

Init == turns = << >> /\ memory = Build(<< >>)

AddTurn(length) ==
  /\ Len(turns) < MaxTurns
  /\ turns' = Append(turns, length) /\ memory' = Build(turns')

Next == \E length \in Lengths : AddTurn(length)

Spec == Init /\ [][Next]_<<turns, memory>>

-----------------------------------------------------------------------------
(* Properties.                                                             *)

\* What the loop keeps is what its docstring promises (memory.py:34-36): the turns from
\* which on everything fits the budget together, and always the last.
KeepsWhatFits ==
  memory.kept = {i \in DOMAIN turns :
                   i = Len(turns) \/ TotalOf(Costs(turns), i .. Len(turns)) <= Budget}

\* Whatever fits the budget whole is rendered whole, and without a summary.
NothingLostUnderBudget ==
  TotalOf(Costs(turns), DOMAIN turns) <= Budget
    => memory.text = TotalOf(turns, DOMAIN turns) + (IF turns = << >> THEN 0 ELSE Len(turns) - 1)

\* "Return the memory context string within the token budget" (memory.py:32), as far as
\* the code keeps it: the newlines and the summary line are not charged, and a single
\* last turn is kept whatever its size.
WithinBudget ==
  Cardinality(memory.kept) > 1 =>
    memory.text <= Budget * CharsPerToken + Cardinality(memory.kept) - 1
                     + (IF Cardinality(memory.kept) < Len(turns) THEN SummaryLine + 1 ELSE 0)
=============================================================================
