---------------------------- MODULE Measurements ----------------------------
(***************************************************************************)
(* The collectors behind /metrics and /usage: LatencyMetrics and           *)
(* percentile() of app/observability/metrics.py, UsageMetrics and          *)
(* audio_seconds() of app/observability/usage.py, fed by turns that end in *)
(* any order on any path.  Seconds with three decimals are milliseconds    *)
(* here, and a percentile is multiplied by 100.                            *)
(***************************************************************************)
EXTENDS Integers, Sequences, FiniteSets, Functions

CONSTANTS
  Path, Tenant,
  Latencies, \* samples of a stage, ms
  Sizes,     \* bytes of audio a turn takes or gives
  MaxTurns   \* bound: turns recorded

BoundsAssumption == Latencies \subseteq Nat /\ Sizes \subseteq Nat /\ MaxTurns \in Nat

BytesPerMs == 48 \* 24 kHz PCM16 mono

VARIABLES
  samples, \* [Path -> the samples of a stage, as recorded]
  usage,   \* [Path \X Tenant -> [ms, turns]]
  bytes    \* history: [Path \X Tenant -> bytes of audio recorded]

vars == <<samples, usage, bytes>>

Init ==
  /\ samples = [p \in Path |-> << >>]
  /\ usage = [k \in Path \X Tenant |-> [ms |-> 0, turns |-> 0]]
  /\ bytes = [k \in Path \X Tenant |-> 0]

-----------------------------------------------------------------------------
\* percentile() of samples in order, times 100: pct is in percent, rank in hundredths.
Percentile(ordered, pct) ==
  LET rank == (Len(ordered) - 1) * pct
      low  == rank \div 100
      at(i) == ordered[i + 1]
  IN  IF rank % 100 = 0 THEN 100 * at(low)
      ELSE 100 * at(low) + (at(low + 1) - at(low)) * (rank % 100)

\* sorted().
Sorted(values) ==
  LET order == CHOOSE p \in Bijection(DOMAIN values, DOMAIN values) :
                 \A i, j \in DOMAIN values : i < j => values[p[i]] <= values[p[j]]
  IN  [i \in DOMAIN values |-> values[order[i]]]

\* Mutation: the samples in the order they came.
SummaryUnsorted(values) ==
  [count |-> Len(values), p50 |-> Percentile(values, 50), p95 |-> Percentile(values, 95),
   max |-> values[Len(values)]]

\* LatencyMetrics.summary(), of one stage with samples.
Summary(values) ==
  LET ordered == Sorted(values)
  IN  [count |-> Len(ordered), p50 |-> Percentile(ordered, 50), p95 |-> Percentile(ordered, 95),
       max |-> ordered[Len(ordered)]]

\* Mutation: the fraction is cut off.
MillisecondsCut(size) == {size \div BytesPerMs}

\* round(num_bytes / 48000, 3): the nearest, and on a tie either.
Milliseconds(size) ==
  {n \in {size \div BytesPerMs, size \div BytesPerMs + 1} :
     2 * (n * BytesPerMs - size) <= BytesPerMs /\ 2 * (size - n * BytesPerMs) <= BytesPerMs}

-----------------------------------------------------------------------------
\* UsageMetrics.record(): one turn of the path and the tenant.
AddUsage(key, ms) ==
  usage' = [usage EXCEPT ![key] = [ms |-> @.ms + ms, turns |-> @.turns + 1]]

\* A turn that completes records its latency, and what it took and gave, rounded apart.
TurnCompletes(path, tenant, latency, taken, given) ==
  /\ \E t \in Milliseconds(taken), g \in Milliseconds(given) : AddUsage(<<path, tenant>>, t + g)
  /\ bytes' = [bytes EXCEPT ![<<path, tenant>>] = @ + taken + given]
  /\ samples' = [samples EXCEPT ![path] = Append(@, latency)]

Recorded(p) == Len(samples[p])

Next ==
  \E path \in Path, tenant \in Tenant, latency \in Latencies, taken, given \in Sizes :
    /\ \A p \in Path : Recorded(p) < MaxTurns
    /\ TurnCompletes(path, tenant, latency, taken, given)

Spec == Init /\ [][Next]_vars

-----------------------------------------------------------------------------
(* Properties.                                                             *)

\* Half of the samples are on either side of the median, and the 95th percentile is between
\* it and the largest, whatever the order they came in and however few they are
\* (metrics.py:14-25, 38-49).
QuantilesSeparate ==
  \A p \in Path : samples[p] # << >> =>
    LET s == Summary(samples[p])
        below(v) == Cardinality({i \in DOMAIN samples[p] : 100 * samples[p][i] <= v})
        above(v) == Cardinality({i \in DOMAIN samples[p] : 100 * samples[p][i] >= v})
    IN  /\ 2 * below(s.p50) >= s.count /\ 2 * above(s.p50) >= s.count
        /\ s.p50 <= s.p95 /\ s.p95 <= 100 * s.max /\ above(100 * s.max) >= 1

\* Metering is exact up to rounding: after any turns in any order a tenant is charged its
\* own audio on its own path to within half a millisecond per amount (usage.py:22-53).
AudioMeteredWithinRounding ==
  \A k \in Path \X Tenant :
    LET error == usage[k].ms * BytesPerMs - bytes[k]
    IN  error <= BytesPerMs * usage[k].turns /\ -error <= BytesPerMs * usage[k].turns
=============================================================================
