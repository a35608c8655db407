----------------------------- MODULE RateLimiter -----------------------------
(***************************************************************************)
(* The token buckets of app/ratelimit.py: RateLimiter.check() and its      *)
(* pruning, as every request under the API prefix calls it.  check() never *)
(* awaits, so each call is one step.                                       *)
(*                                                                         *)
(* The clock counts whole seconds up to MaxTime.  Tokens are floats in the *)
(* code, and a minute of refills need not add up to per_minute tokens:     *)
(* with per_minute = 6, ten refills of 0.1 make 0.9999999999999999.  Here  *)
(* they are counted in grains, Grain of them in a sixtieth of a token, so  *)
(* that `_rate = per_minute / 60.0` is a whole number of grains, and every *)
(* float operation that rounds may miss its value by up to Slip grains.    *)
(* Capping at the burst, taking a token from more than one, and a refill   *)
(* after no time at all are exact in floats and here.                      *)
(***************************************************************************)
EXTENDS Integers, FiniteSets

CONSTANTS
  Key,        \* subjects and client addresses
  PerMinute,  \* RATE_LIMIT_PER_MINUTE
  Burst,      \* max(1, burst)
  MaxKeys,    \* MAX_TRACKED_KEYS
  Grain,      \* grains in a sixtieth of a token
  Slip,       \* how many grains rounding may take from, or add to, one result
  MaxTime     \* bound: the last second of the clock

ASSUME ConstantsAssumption ==
  /\ IsFiniteSet(Key)
  /\ PerMinute \in Nat \ {0}
  /\ Burst \in Nat \ {0}
  /\ MaxKeys \in Nat \ {0}
  /\ Grain \in Nat \ {0}
  /\ Slip \in Nat
  /\ 64 * Slip <= PerMinute * Grain  \* a double's 53 bits leave far more room
  /\ MaxTime \in Nat

VARIABLES
  now,       \* clock()
  tracked,   \* the keys of _buckets
  tokens,    \* tokens of each tracked key's bucket
  updated,   \* when the bucket was last refilled
  created,   \* history: when the bucket was created
  admitted,  \* history: requests admitted since then
  comeBack   \* history: when a key was first told to retry since it was last
             \* admitted; 0: it was not refused since then

vars == <<now, tracked, tokens, updated, created, admitted, comeBack>>

Cost == 60 * Grain

\* The refill of a second.
Rate == PerMinute * Grain

Capacity == Cost * Burst

Init ==
  /\ now = 0
  /\ tracked  = {}
  /\ tokens   = [k \in Key |-> 0]
  /\ updated  = [k \in Key |-> 0]
  /\ created  = [k \in Key |-> 0]
  /\ admitted = [k \in Key |-> 0]
  /\ comeBack = [k \in Key |-> 0]

-----------------------------------------------------------------------------
\* Mutation: the bucket is not capped at its capacity.
Uncapped(sum) == sum

Capped(sum) == IF sum <= Capacity THEN sum ELSE Capacity

\* What a tracked key's bucket may hold once it is refilled.
Refills(k) ==
  LET exact == tokens[k] + Rate * (now - updated[k]) IN
    IF now = updated[k] THEN {tokens[k]}
    ELSE {Capped(sum) : sum \in exact - Slip .. exact + Slip}

\* Mutation: the delay is rounded down.
DelaysRoundedDown(missing) == {(missing + e) \div Rate : e \in -Slip .. Slip}

\* Retry-After: the seconds until the missing tokens are earned, rounded up from a
\* quotient above zero.
Delays(missing) ==
  {IF missing + e > 0 THEN (missing + e + Rate - 1) \div Rate ELSE 1 : e \in -Slip .. Slip}

\* Mutation: one key too many.
HasRoomForOneMore == Cardinality(tracked) <= MaxKeys

HasRoom == Cardinality(tracked) < MaxKeys

\* _prune() drops the stalest half of the buckets, one at least.
PruneCount(n) == IF n \div 2 > 1 THEN n \div 2 ELSE 1

\* Mutation: the freshest are dropped.
PruningsReversed ==
  {kept \in SUBSET tracked :
     /\ Cardinality(tracked \ kept) = PruneCount(Cardinality(tracked))
     /\ \A d \in tracked \ kept, j \in kept : updated[d] >= updated[j]}

\* The sets of keys pruning may keep; sorted() breaks ties by age of the entry,
\* which is left open here.
Prunings ==
  {kept \in SUBSET tracked :
     /\ Cardinality(tracked \ kept) = PruneCount(Cardinality(tracked))
     /\ \A d \in tracked \ kept, j \in kept : updated[d] <= updated[j]}

Tick ==
  /\ now < MaxTime
  /\ now' = now + 1
  /\ UNCHANGED <<tracked, tokens, updated, created, admitted, comeBack>>

\* A key with a bucket, and a token in it once refilled.
Admit(k) ==
  /\ k \in tracked
  /\ \E r \in Refills(k) :
       /\ r >= Cost
       /\ tokens' = [tokens EXCEPT ![k] = r - Cost]
  /\ updated'  = [updated EXCEPT ![k] = now]
  /\ admitted' = [admitted EXCEPT ![k] = @ + 1]
  /\ comeBack' = [comeBack EXCEPT ![k] = 0]
  /\ UNCHANGED <<now, tracked, created>>

\* A refused request leaves the refill in the bucket, and is told when to retry.
TurnAway(k) ==
  /\ k \in tracked
  /\ \E r \in Refills(k) :
       /\ r < Cost
       /\ tokens' = [tokens EXCEPT ![k] = r]
       /\ \E d \in Delays(Cost - r) :
            comeBack' = [comeBack EXCEPT ![k] = IF @ = 0 THEN now + d ELSE @]
  /\ UNCHANGED <<now, tracked, created, admitted>>

\* Mutation: a refusal refills the bucket but does not note the time.
RefuseForgetsTime(k) == TurnAway(k) /\ UNCHANGED updated

\* 429 with Retry-After.
Refuse(k) == TurnAway(k) /\ updated' = [updated EXCEPT ![k] = now]

\* A key without a bucket gets a full one, others being pruned when there is no
\* room, and takes its first token from it.
AdmitNew(k) ==
  /\ k \notin tracked
  /\ \E kept \in (IF HasRoom THEN {tracked} ELSE Prunings) : tracked' = kept \cup {k}
  /\ tokens'   = [tokens EXCEPT ![k] = Capacity - Cost]
  /\ updated'  = [updated EXCEPT ![k] = now]
  /\ created'  = [created EXCEPT ![k] = now]
  /\ admitted' = [admitted EXCEPT ![k] = 1]
  /\ comeBack' = [comeBack EXCEPT ![k] = 0]
  /\ UNCHANGED now

Next == Tick \/ \E k \in Key : Admit(k) \/ Refuse(k) \/ AdmitNew(k)

Spec == Init /\ [][Next]_vars

-----------------------------------------------------------------------------
(* Properties.                                                             *)

\* Every variable has its type; no bucket holds more than its capacity.
TypeOK ==
  /\ now \in 0 .. MaxTime
  /\ tracked \subseteq Key
  /\ tokens   \in [Key -> 0 .. Capacity]
  /\ updated  \in [Key -> 0 .. MaxTime]
  /\ created  \in [Key -> 0 .. MaxTime]
  /\ admitted \in [Key -> Nat]
  /\ comeBack \in [Key -> Nat]

\* "A classic token bucket per key" (line 45): from the creation of its bucket a
\* key is never admitted more often than the burst and the elapsed time, with what
\* rounding may add to it, pay for, however its requests, the refusals among them,
\* are spread over time.
AdmissionBounded ==
  \A k \in tracked :
    Cost * admitted[k] <= Capacity + (Rate + Slip) * (now - created[k])

\* The dictionary of buckets never outgrows its bound (lines 33-35, 69-71).
MemoryBounded == Cardinality(tracked) <= MaxKeys

\* "Rate limit exceeded; retry after the indicated delay" (line 127) is right within a
\* second, and no better: at the indicated second the refills may not have added up to
\* a token yet, as they may when it comes early by one.  A refused key that stays tracked
\* is admitted when it comes back a second later than it was first told, however often it
\* asked in between, and refused when it comes more than a second earlier
\* (lines 73-80, 130).
RetryAfterWithinASecond ==
  \A k \in tracked : comeBack[k] # 0 =>
    /\ now > comeBack[k] => \A r \in Refills(k) : r >= Cost
    /\ now < comeBack[k] - 1 => \A r \in Refills(k) : r < Cost

\* A bucket is forgotten, with the throttling it stands for, only when the table
\* is full and the half that stays has been used at least as recently.
ForgetsTheStalest ==
  \A k \in tracked \ tracked' :
    Cardinality({j \in tracked \ {k} : updated[j] >= updated[k]})
      >= MaxKeys - PruneCount(MaxKeys)

ForgottenOnlyInACrowd == [][ForgetsTheStalest]_vars
=============================================================================
