----------------------------- MODULE ServiceProofs -----------------------------
(***************************************************************************)
(* Theorems about the parts of the HTTP service MCService puts side by     *)
(* side: the rate limiter, for all keys, rates, bursts and table sizes;    *)
(* the start-up (Assembly), for all names; and what RequestPathProofs      *)
(* (Requests) and VoiceDispatchProofs (Dispatch) prove of theirs.  At the  *)
(* end they are theorems of SuiteSpec, the specification TLC checks.       *)
(***************************************************************************)
EXTENDS MCService, SequenceTheorems, FiniteSetTheorems, TLAPS

-----------------------------------------------------------------------------
(* The rate limiter.                                                       *)

\* A tracked bucket was created, updated and is looked at in this order.
TimesOrdered(k) == created[k] <= updated[k] /\ updated[k] <= now

\* What a bucket has given and still holds is paid for.
Paid(k) ==
  Cost * admitted[k] + tokens[k] <= Capacity + (Rate + Slip) * (updated[k] - created[k])

\* Where a refused key stands against the second it was told to come back: what its
\* bucket holds then lacks no more than the roundings of a minute and of the delay, and
\* a second earlier it lacks a token but for as much.
Told(k) ==
  comeBack[k] # 0 =>
    /\ tokens[k] + (Rate - Slip) * (comeBack[k] - updated[k]) >= Cost - 62 * Slip
    /\ tokens[k] + (Rate + Slip) * (comeBack[k] - 1 - updated[k]) < Cost + 62 * Slip

IInv ==
  /\ TypeOK
  /\ \A k \in tracked : TimesOrdered(k) /\ Paid(k) /\ Told(k)
  /\ MemoryBounded

-----------------------------------------------------------------------------
(* Arithmetic.                                                             *)

\* The constants as numbers.
LEMMA Numbers ==
  /\ Grain \in Nat /\ Grain >= 1 /\ Slip \in Nat /\ Burst \in Nat /\ Burst >= 1
  /\ Rate \in Nat /\ Rate >= Grain /\ 64 * Slip <= Rate
  /\ Cost \in Nat /\ Cost = 60 * Grain /\ Capacity \in Nat /\ Capacity >= Cost
  /\ MaxKeys \in Nat /\ MaxKeys >= 1 /\ MaxTime \in Nat
<1>1. /\ Grain \in Nat /\ Grain >= 1 /\ Slip \in Nat /\ Burst \in Nat /\ Burst >= 1
      /\ PerMinute \in Nat /\ PerMinute >= 1 /\ 64 * Slip <= Rate
      /\ MaxKeys \in Nat /\ MaxKeys >= 1 /\ MaxTime \in Nat
  BY ConstantsAssumption DEF Rate
<1>2. Rate \in Nat /\ Rate >= Grain
  BY <1>1 DEF Rate
<1>3. Cost \in Nat /\ Cost = 60 * Grain
  BY <1>1 DEF Cost
<1>4. Capacity \in Nat /\ Capacity >= Cost
  BY <1>1, <1>3 DEF Capacity
<1>5. QED
  BY <1>1, <1>2, <1>3, <1>4

\* Elapsed time can be split.
LEMMA EarningsAdd ==
  ASSUME NEW p \in Nat, NEW a \in Int, NEW b \in Int, NEW c \in Int
  PROVE  p * (a - c) = p * (a - b) + p * (b - c)
  OBVIOUS

\* More time never earns less.
LEMMA EarningsGrow ==
  ASSUME NEW p \in Nat, NEW a \in Int, NEW b \in Int, a <= b
  PROVE  p * a <= p * b
  OBVIOUS

\* A quotient rounded up is the least number of portions that is enough.
LEMMA RoundingUp ==
  ASSUME NEW p \in Nat, p >= 1, NEW m \in Nat, m >= 1
  PROVE  LET d == (m + p - 1) \div p
         IN  d \in Nat /\ d >= 1 /\ p * d >= m /\ p * (d - 1) < m
<1> DEFINE d == (m + p - 1) \div p
<1>1. d \in Int /\ p * d <= m + p - 1 /\ m + p - 1 < p * d + p
  OBVIOUS
<1>2. d >= 1
  <2>1. SUFFICES ASSUME d <= 0 PROVE FALSE
    BY <1>1
  <2>2. p * d <= 0
    BY <1>1, <2>1
  <2>3. QED
    BY <1>1, <2>2
<1>3. p * (d - 1) = p * d - p
  BY <1>1
<1>4. QED
  BY <1>1, <1>2, <1>3

\* A delay is the missing tokens' in whole seconds, but for one rounding, and a minute
\* and a second at most.
LEMMA DelayFits ==
  ASSUME NEW m \in Nat, m >= 1, m <= Cost, NEW d \in Delays(m)
  PROVE  /\ d \in 1 .. 61
         /\ Rate * d >= m - Slip /\ Rate * (d - 1) < m + Slip
<1>1. PICK e \in -Slip .. Slip : d = IF m + e > 0 THEN (m + e + Rate - 1) \div Rate ELSE 1
  BY DEF Delays
<1>2. /\ e \in Int /\ e <= Slip /\ -Slip <= e /\ Rate \in Nat /\ Rate >= 1
      /\ Slip \in Nat /\ Cost \in Nat /\ Cost <= 60 * Rate /\ 64 * Slip <= Rate
  BY Numbers
<1>3. d \in Nat /\ d >= 1 /\ Rate * d >= m + e /\ Rate * (d - 1) < m + Slip
  <2>1. CASE m + e > 0
    <3>1. m + e \in Nat /\ m + e >= 1
      BY <1>2, <2>1
    <3>2. d = ((m + e) + Rate - 1) \div Rate
      BY <1>1, <2>1
    <3>3. d \in Nat /\ d >= 1 /\ Rate * d >= m + e /\ Rate * (d - 1) < m + e
      BY <1>2, <3>1, <3>2, RoundingUp
    <3>4. Rate * (d - 1) \in Int
      BY <1>2, <3>3
    <3>5. QED
      BY <1>2, <3>3, <3>4
  <2>2. CASE ~(m + e > 0)
    BY <1>1, <1>2, <2>2
  <2>3. QED
    BY <2>1, <2>2
<1>4. d <= 61
  <2>1. SUFFICES ASSUME d >= 62 PROVE FALSE
    BY <1>3
  <2>2. Rate * 61 <= Rate * (d - 1)
    BY <1>2, <1>3, <2>1, EarningsGrow
  <2>3. Rate * (d - 1) \in Int
    BY <1>2, <1>3
  <2>4. QED
    BY <1>2, <1>3, <2>2, <2>3
<1>5. Rate * d \in Int
  BY <1>2, <1>3
<1>6. QED
  BY <1>2, <1>3, <1>4, <1>5

\* A refill, capped or not, is within a rounding for every second of what was earned.
LEMMA RefillFits ==
  ASSUME NEW k \in Key, TypeOK, updated[k] <= now, NEW r \in Refills(k)
  PROVE  /\ r \in 0 .. Capacity
         /\ r <= tokens[k] + (Rate + Slip) * (now - updated[k])
         /\ r < Cost => r >= tokens[k] + (Rate - Slip) * (now - updated[k])
<1> DEFINE t == now - updated[k]
           exact == tokens[k] + Rate * t
<1>1. /\ tokens[k] \in 0 .. Capacity /\ t \in Nat /\ Rate * t \in Nat /\ Slip * t \in Nat
      /\ Rate \in Nat /\ Slip \in Nat /\ Capacity \in Nat /\ Cost \in Nat /\ Capacity >= Cost
      /\ 64 * Slip <= Rate /\ updated[k] \in Int /\ now \in Int
  BY Numbers DEF TypeOK
<1>2. (Rate + Slip) * t = Rate * t + Slip * t /\ (Rate - Slip) * t = Rate * t - Slip * t
  BY <1>1
<1>3. CASE t = 0
  <2>1. now = updated[k]
    <3>1. now \in Int /\ updated[k] \in Int
      BY <1>1
    <3>2. QED
      BY <1>3, <3>1
  <2>2. r = tokens[k]
    BY <2>1 DEF Refills
  <2>3. Rate * t = 0 /\ Slip * t = 0
    BY <1>1, <1>3
  <2>4. (Rate + Slip) * t = 0 /\ (Rate - Slip) * t = 0
    BY <1>2, <2>3
  <2> HIDE DEF t
  <2>5. r \in 0 .. Capacity /\ r <= tokens[k] + (Rate + Slip) * t /\ r >= tokens[k] + (Rate - Slip) * t
    BY <1>1, <2>2, <2>4
  <2>6. QED
    BY <2>5 DEF t
<1>4. CASE t >= 1
  <2>1. PICK sum \in exact - Slip .. exact + Slip : r = Capped(sum)
    BY <1>1, <1>4 DEF Refills
  <2>2. Rate <= Rate * t /\ Slip <= Slip * t
    BY <1>1, <1>4
  <2>3. sum \in Int /\ exact - Slip <= sum /\ sum <= exact + Slip /\ exact \in Int
    BY <1>1, <2>1
  <2> HIDE DEF t
  <2>4. sum >= 0 /\ sum <= tokens[k] + (Rate * t + Slip * t) /\ sum >= tokens[k] + (Rate * t - Slip * t)
    BY <1>1, <2>2, <2>3
  <2>5. r = IF sum <= Capacity THEN sum ELSE Capacity
    BY <2>1 DEF Capped
  <2>6. /\ r \in 0 .. Capacity /\ r <= sum
        /\ r < Cost => r = sum
    <3>1. sum \in Int /\ sum >= 0
      BY <2>3, <2>4
    <3>2. Capacity \in Nat /\ Cost \in Nat /\ Capacity >= Cost
      BY <1>1
    <3>3. QED
      BY <2>5, <3>1, <3>2
  <2>7. /\ r <= tokens[k] + (Rate + Slip) * t
        /\ r < Cost => r >= tokens[k] + (Rate - Slip) * t
    BY <1>1, <1>2, <2>3, <2>4, <2>6
  <2>8. QED
    BY <2>6, <2>7 DEF t
<1>5. QED
  BY <1>1, <1>3, <1>4

\* There is always a refill.
LEMMA RefillExists ==
  ASSUME NEW k \in Key, TypeOK, updated[k] <= now
  PROVE  Refills(k) # {}
<1> DEFINE exact == tokens[k] + Rate * (now - updated[k])
           near == exact - Slip .. exact + Slip
<1>1. exact \in Int /\ Slip \in Nat
  BY Numbers DEF TypeOK
<1> HIDE DEF exact
<1>2. exact \in near
  BY <1>1
<1>3. CASE now = updated[k]
  BY <1>3 DEF Refills
<1>4. CASE now # updated[k]
  <2>1. Refills(k) = {Capped(sum) : sum \in near}
    BY <1>4 DEF Refills, exact
  <2>2. QED
    BY <1>2, <2>1
<1>5. QED
  BY <1>3, <1>4

-----------------------------------------------------------------------------
(* The steps.                                                              *)

\* The invariant holds initially.
LEMMA InitIInv == Init => IInv
<1> SUFFICES ASSUME Init PROVE IInv
  OBVIOUS
<1>1. TypeOK
  <2>1. 0 \in 0 .. MaxTime /\ 0 \in 0 .. Capacity
    BY Numbers
  <2>2. QED
    BY <2>1 DEF Init, TypeOK
<1>2. MemoryBounded
  BY FS_EmptySet, Numbers DEF Init, MemoryBounded
<1>3. QED
  BY <1>1, <1>2 DEF Init, IInv

\* The clock ticks: nothing but the elapsed time changes.
LEMMA TickStep ==
  ASSUME IInv, Tick
  PROVE  IInv'
<1>1. now' \in 0 .. MaxTime /\ now' = now + 1
  BY Numbers DEF IInv, TypeOK, Tick
<1>2. TypeOK' /\ MemoryBounded'
  BY <1>1 DEF IInv, TypeOK, Tick, MemoryBounded
<1>3. ASSUME NEW k \in tracked
      PROVE  TimesOrdered(k)' /\ Paid(k)' /\ Told(k)'
  <2>1. updated[k] \in Nat /\ now \in Nat /\ k \in Key
    BY Numbers DEF IInv, TypeOK
  <2>2. TimesOrdered(k) /\ Paid(k) /\ Told(k)
    BY DEF IInv
  <2>3. UNCHANGED <<tokens, updated, created, admitted, comeBack>>
    BY DEF Tick
  <2>4. TimesOrdered(k)'
    BY <1>1, <2>1, <2>2, <2>3 DEF TimesOrdered
  <2>5. Paid(k)' /\ Told(k)'
    BY <2>2, <2>3 DEF Paid, Told
  <2>6. QED
    BY <2>4, <2>5
<1>4. tracked' = tracked
  BY DEF Tick
<1>5. QED
  BY <1>2, <1>3, <1>4 DEF IInv

\* What is known of a tracked key when it is looked at.
LEMMA Looked ==
  ASSUME IInv, NEW k \in tracked
  PROVE  /\ k \in Key /\ now \in Nat /\ updated[k] \in Nat /\ created[k] \in Nat
         /\ tokens[k] \in 0 .. Capacity /\ admitted[k] \in Nat /\ comeBack[k] \in Nat
         /\ created[k] <= updated[k] /\ updated[k] <= now
         /\ \A r \in Refills(k) :
              /\ r \in 0 .. Capacity
              /\ Cost * admitted[k] + r <= Capacity + (Rate + Slip) * (now - created[k])
<1>1. /\ k \in Key /\ now \in Nat /\ updated[k] \in Nat /\ created[k] \in Nat
      /\ tokens[k] \in 0 .. Capacity /\ admitted[k] \in Nat /\ comeBack[k] \in Nat
  BY Numbers DEF IInv, TypeOK
<1>2. created[k] <= updated[k] /\ updated[k] <= now
  BY DEF IInv, TimesOrdered
<1>3. ASSUME NEW r \in Refills(k)
      PROVE  /\ r \in 0 .. Capacity
             /\ Cost * admitted[k] + r <= Capacity + (Rate + Slip) * (now - created[k])
  <2>1. /\ r \in 0 .. Capacity
        /\ r <= tokens[k] + (Rate + Slip) * (now - updated[k])
    BY <1>1, <1>2, RefillFits DEF IInv
  <2>2. Rate + Slip \in Nat /\ Cost \in Nat /\ Capacity \in Nat
    BY Numbers
  <2>3. (Rate + Slip) * (now - created[k])
          = (Rate + Slip) * (now - updated[k]) + (Rate + Slip) * (updated[k] - created[k])
    BY <1>1, <2>2, EarningsAdd
  <2>4. Cost * admitted[k] + tokens[k]
          <= Capacity + (Rate + Slip) * (updated[k] - created[k])
    BY DEF IInv, Paid
  <2>5. /\ Cost * admitted[k] \in Nat
        /\ (Rate + Slip) * (updated[k] - created[k]) \in Int
        /\ (Rate + Slip) * (now - updated[k]) \in Int
    BY <1>1, <2>2
  <2>6. QED
    BY <1>1, <2>1, <2>2, <2>3, <2>4, <2>5
<1>4. QED
  BY <1>1, <1>2, <1>3

\* A key that a step leaves alone keeps its account.
LEMMA OthersKept ==
  ASSUME IInv, NEW j \in tracked, now' = now,
         /\ tokens'[j] = tokens[j] /\ updated'[j] = updated[j]
         /\ created'[j] = created[j] /\ admitted'[j] = admitted[j]
         /\ comeBack'[j] = comeBack[j]
  PROVE  TimesOrdered(j)' /\ Paid(j)' /\ Told(j)'
  BY DEF IInv, TimesOrdered, Paid, Told

\* An admitted request is paid from the refilled bucket.
LEMMA AdmitStep ==
  ASSUME IInv, NEW k \in Key, Admit(k)
  PROVE  IInv'
<1>1. k \in tracked /\ UNCHANGED <<now, tracked, created>>
  BY DEF Admit
<1>2. PICK r \in Refills(k) :
         /\ r >= Cost
         /\ tokens'   = [tokens EXCEPT ![k] = r - Cost]
         /\ updated'  = [updated EXCEPT ![k] = now]
         /\ admitted' = [admitted EXCEPT ![k] = admitted[k] + 1]
         /\ comeBack' = [comeBack EXCEPT ![k] = 0]
  BY DEF Admit
<1>3. r \in 0 .. Capacity /\ r - Cost \in 0 .. Capacity
      /\ now \in 0 .. MaxTime /\ admitted[k] + 1 \in Nat /\ admitted[k] \in Nat
  BY <1>1, <1>2, Looked, Numbers DEF IInv, TypeOK
<1>4. TypeOK' /\ MemoryBounded'
  BY <1>1, <1>2, <1>3 DEF IInv, TypeOK, MemoryBounded
<1>5. /\ tokens'[k] = r - Cost /\ updated'[k] = now
      /\ admitted'[k] = admitted[k] + 1 /\ comeBack'[k] = 0
      /\ created'[k] = created[k]
  BY <1>1, <1>2 DEF IInv, TypeOK
<1>6. TimesOrdered(k)' /\ Told(k)'
  BY <1>1, <1>5, Looked DEF TimesOrdered, Told
<1>7. Paid(k)'
  <2>1. Cost * admitted[k] + r <= Capacity + (Rate + Slip) * (now - created[k])
    BY <1>1, <1>2, Looked
  <2>2. Cost * (admitted[k] + 1) + (r - Cost) = Cost * admitted[k] + r
    BY <1>3, Numbers
  <2>3. QED
    BY <1>1, <1>5, <2>1, <2>2 DEF Paid
<1>8. ASSUME NEW j \in tracked, j # k
      PROVE  TimesOrdered(j)' /\ Paid(j)' /\ Told(j)'
  <2>1. /\ tokens'[j] = tokens[j] /\ updated'[j] = updated[j]
        /\ created'[j] = created[j] /\ admitted'[j] = admitted[j]
        /\ comeBack'[j] = comeBack[j]
    BY <1>1, <1>2, <1>8 DEF IInv, TypeOK
  <2>2. QED
    BY <1>1, <2>1, OthersKept
<1>9. QED
  BY <1>1, <1>4, <1>6, <1>7, <1>8 DEF IInv

\* A refused request notes the refill, and when the missing tokens are earned.
LEMMA RefuseStep ==
  ASSUME IInv, NEW k \in Key, Refuse(k)
  PROVE  IInv'
<1>1. k \in tracked /\ UNCHANGED <<now, tracked, created, admitted>>
      /\ updated' = [updated EXCEPT ![k] = now]
  BY DEF Refuse, TurnAway
<1>2. PICK r \in Refills(k) :
         /\ r < Cost
         /\ tokens' = [tokens EXCEPT ![k] = r]
         /\ \E d \in Delays(Cost - r) :
              comeBack' = [comeBack EXCEPT ![k] = IF comeBack[k] = 0 THEN now + d ELSE comeBack[k]]
  BY DEF Refuse, TurnAway
<1>3. PICK d \in Delays(Cost - r) :
         comeBack' = [comeBack EXCEPT ![k] = IF comeBack[k] = 0 THEN now + d ELSE comeBack[k]]
  BY <1>2
<1>4. /\ r \in 0 .. Capacity /\ now \in 0 .. MaxTime /\ now \in Nat /\ Cost \in Nat
      /\ Cost - r \in Nat /\ Cost - r >= 1 /\ Cost - r <= Cost /\ comeBack[k] \in Nat
  BY <1>1, <1>2, Looked, Numbers DEF IInv, TypeOK
<1>5. d \in 1 .. 61 /\ Rate * d >= Cost - r - Slip /\ Rate * (d - 1) < Cost - r + Slip
  BY <1>4, DelayFits
<1>6. TypeOK' /\ MemoryBounded'
  BY <1>1, <1>2, <1>3, <1>4, <1>5 DEF IInv, TypeOK, MemoryBounded
<1>7. /\ tokens'[k] = r /\ updated'[k] = now
      /\ comeBack'[k] = (IF comeBack[k] = 0 THEN now + d ELSE comeBack[k])
      /\ created'[k] = created[k] /\ admitted'[k] = admitted[k]
  BY <1>1, <1>2, <1>3 DEF IInv, TypeOK
<1>8. TimesOrdered(k)' /\ Paid(k)' /\ Told(k)'
  <2>1. TimesOrdered(k)' /\ Paid(k)'
    BY <1>1, <1>2, <1>7, Looked DEF TimesOrdered, Paid
  <2>2. /\ Rate \in Nat /\ Slip \in Nat /\ 64 * Slip <= Rate
        /\ Rate - Slip \in Nat /\ Rate + Slip \in Nat
    BY Numbers
  <2>3. ASSUME comeBack[k] = 0 PROVE Told(k)'
    <3>1. /\ (Rate - Slip) * d = Rate * d - Slip * d
          /\ (Rate + Slip) * (d - 1) = Rate * (d - 1) + Slip * (d - 1)
          /\ Slip * d \in Nat /\ Rate * d \in Nat /\ Rate * (d - 1) \in Nat
          /\ Slip * (d - 1) \in Nat
      BY <1>5, <2>2
    <3>2. Slip * d <= Slip * 61 /\ Slip * (d - 1) <= Slip * 60
      BY <1>5, <2>2, EarningsGrow
    <3>3. /\ r + (Rate - Slip) * d >= Cost - 62 * Slip
          /\ r + (Rate + Slip) * (d - 1) < Cost + 62 * Slip
      BY <1>4, <1>5, <2>2, <3>1, <3>2
    <3>4. (now + d) - now = d /\ (now + d) - 1 - now = d - 1
      BY <1>4, <1>5
    <3>5. QED
      BY <1>1, <1>7, <2>3, <3>3, <3>4 DEF Told
  <2>4. ASSUME comeBack[k] # 0 PROVE Told(k)'
    <3>1. /\ tokens[k] + (Rate - Slip) * (comeBack[k] - updated[k]) >= Cost - 62 * Slip
          /\ tokens[k] + (Rate + Slip) * (comeBack[k] - 1 - updated[k]) < Cost + 62 * Slip
      BY <1>1, <2>4 DEF IInv, Told
    <3>2. updated[k] \in Nat /\ tokens[k] \in Nat /\ updated[k] <= now /\ k \in Key /\ r \in Nat
      BY <1>1, <1>4, Looked
    <3>3. /\ r <= tokens[k] + (Rate + Slip) * (now - updated[k])
          /\ r >= tokens[k] + (Rate - Slip) * (now - updated[k])
      BY <1>2, <3>2, RefillFits DEF IInv
    <3>4. /\ (Rate - Slip) * (comeBack[k] - updated[k])
               = (Rate - Slip) * (comeBack[k] - now) + (Rate - Slip) * (now - updated[k])
          /\ (Rate + Slip) * ((comeBack[k] - 1) - updated[k])
               = (Rate + Slip) * ((comeBack[k] - 1) - now) + (Rate + Slip) * (now - updated[k])
      <4>1. /\ comeBack[k] \in Int /\ comeBack[k] - 1 \in Int
            /\ now \in Int /\ updated[k] \in Int
        BY <1>4, <3>2
      <4>2. (Rate - Slip) * (comeBack[k] - updated[k])
               = (Rate - Slip) * (comeBack[k] - now) + (Rate - Slip) * (now - updated[k])
        BY <2>2, <4>1, EarningsAdd
      <4>3. (Rate + Slip) * ((comeBack[k] - 1) - updated[k])
               = (Rate + Slip) * ((comeBack[k] - 1) - now) + (Rate + Slip) * (now - updated[k])
        BY <2>2, <4>1, EarningsAdd
      <4>4. QED
        BY <4>2, <4>3
    <3>5. /\ (Rate - Slip) * (comeBack[k] - now) \in Int
          /\ (Rate - Slip) * (now - updated[k]) \in Int
          /\ (Rate + Slip) * ((comeBack[k] - 1) - now) \in Int
          /\ (Rate + Slip) * (now - updated[k]) \in Int
      BY <1>4, <2>2, <3>2
    <3>6. /\ r + (Rate - Slip) * (comeBack[k] - now) >= Cost - 62 * Slip
          /\ r + (Rate + Slip) * (comeBack[k] - 1 - now) < Cost + 62 * Slip
      BY <1>4, <2>2, <3>1, <3>2, <3>3, <3>4, <3>5
    <3>7. QED
      BY <1>1, <1>7, <2>4, <3>6 DEF Told
  <2>5. QED
    BY <2>1, <2>3, <2>4
<1>9. ASSUME NEW j \in tracked, j # k
      PROVE  TimesOrdered(j)' /\ Paid(j)' /\ Told(j)'
  <2>1. /\ tokens'[j] = tokens[j] /\ updated'[j] = updated[j]
        /\ created'[j] = created[j] /\ admitted'[j] = admitted[j]
        /\ comeBack'[j] = comeBack[j]
    BY <1>1, <1>2, <1>3, <1>9 DEF IInv, TypeOK
  <2>2. QED
    BY <1>1, <2>1, OthersKept
<1>10. QED
  BY <1>1, <1>6, <1>8, <1>9 DEF IInv

\* Pruning makes room for one key at least.
LEMMA PruningMakesRoom ==
  ASSUME IInv, NEW kept \in Prunings, ~HasRoom
  PROVE  /\ kept \subseteq tracked
         /\ Cardinality(kept) = MaxKeys - PruneCount(MaxKeys)
         /\ Cardinality(kept) < MaxKeys
<1>1. IsFiniteSet(tracked)
  BY ConstantsAssumption, FS_Subset DEF IInv, TypeOK
<1>2. Cardinality(tracked) \in Nat
  BY <1>1, FS_CardinalityType
<1>3. Cardinality(tracked) = MaxKeys
  BY <1>2, Numbers DEF IInv, MemoryBounded, HasRoom
<1>4. kept \subseteq tracked /\ Cardinality(tracked \ kept) = PruneCount(MaxKeys)
  BY <1>3 DEF Prunings
<1>5. tracked \cap kept = kept
  BY <1>4
<1>6. Cardinality(tracked \ kept) = Cardinality(tracked) - Cardinality(kept)
  BY <1>1, <1>5, FS_Difference
<1>7. Cardinality(kept) \in Nat
  BY <1>1, <1>4, FS_Subset, FS_CardinalityType
<1>8. PruneCount(MaxKeys) \in Nat /\ PruneCount(MaxKeys) >= 1
  BY Numbers DEF PruneCount
<1>9. QED
  BY <1>3, <1>4, <1>6, <1>7, <1>8, Numbers

\* A new key finds room and starts with a full bucket.
LEMMA AdmitNewStep ==
  ASSUME IInv, NEW k \in Key, AdmitNew(k)
  PROVE  IInv'
<1>1. /\ k \notin tracked /\ now' = now
      /\ tokens'   = [tokens EXCEPT ![k] = Capacity - Cost]
      /\ updated'  = [updated EXCEPT ![k] = now]
      /\ created'  = [created EXCEPT ![k] = now]
      /\ admitted' = [admitted EXCEPT ![k] = 1]
      /\ comeBack' = [comeBack EXCEPT ![k] = 0]
  BY DEF AdmitNew
<1>2. PICK kept \in (IF HasRoom THEN {tracked} ELSE Prunings) : tracked' = kept \cup {k}
  BY DEF AdmitNew
<1>3. IsFiniteSet(tracked) /\ Cardinality(tracked) \in Nat
  BY ConstantsAssumption, FS_Subset, FS_CardinalityType DEF IInv, TypeOK
<1>4. kept \subseteq tracked /\ Cardinality(kept) < MaxKeys
  <2>1. CASE HasRoom
    BY <1>2, <2>1 DEF HasRoom
  <2>2. CASE ~HasRoom
    BY <1>2, <2>2, PruningMakesRoom
  <2>3. QED
    BY <2>1, <2>2
<1>5. MemoryBounded'
  <2>1. IsFiniteSet(kept) /\ Cardinality(kept) \in Nat
    BY <1>3, <1>4, FS_Subset, FS_CardinalityType
  <2>2. Cardinality(kept \cup {k}) = Cardinality(kept) + 1
    BY <1>1, <1>4, <2>1, FS_AddElement
  <2>3. QED
    BY <1>2, <1>4, <2>1, <2>2, Numbers DEF MemoryBounded
<1>6. TypeOK'
  <2>1. now \in 0 .. MaxTime /\ Capacity - Cost \in 0 .. Capacity
    BY Numbers DEF IInv, TypeOK
  <2>2. tracked' \subseteq Key
    BY <1>2, <1>4 DEF IInv, TypeOK
  <2>3. QED
    BY <1>1, <2>1, <2>2 DEF IInv, TypeOK
<1>7. TimesOrdered(k)' /\ Paid(k)' /\ Told(k)'
  <2>1. /\ tokens'[k] = Capacity - Cost /\ updated'[k] = now /\ created'[k] = now
        /\ admitted'[k] = 1 /\ comeBack'[k] = 0 /\ now \in Nat
    BY <1>1, Numbers DEF IInv, TypeOK
  <2>2. Cost * 1 + (Capacity - Cost) <= Capacity + (Rate + Slip) * (now - now)
    BY <2>1, Numbers
  <2>3. QED
    BY <1>1, <2>1, <2>2 DEF TimesOrdered, Paid, Told
<1>8. ASSUME NEW j \in kept
      PROVE  TimesOrdered(j)' /\ Paid(j)' /\ Told(j)'
  <2>1. j \in tracked /\ j # k /\ j \in Key
    BY <1>1, <1>4 DEF IInv, TypeOK
  <2>2. /\ tokens'[j] = tokens[j] /\ updated'[j] = updated[j]
        /\ created'[j] = created[j] /\ admitted'[j] = admitted[j]
        /\ comeBack'[j] = comeBack[j]
    BY <1>1, <2>1 DEF IInv, TypeOK
  <2>3. QED
    BY <1>1, <2>1, <2>2, OthersKept
<1>9. QED
  BY <1>2, <1>5, <1>6, <1>7, <1>8 DEF IInv

\* Every step keeps the invariant.
LEMMA NextIInv == IInv /\ [Next]_vars => IInv'
<1> SUFFICES ASSUME IInv, [Next]_vars PROVE IInv'
  OBVIOUS
<1>1. CASE Tick
  BY <1>1, TickStep
<1>2. ASSUME NEW k \in Key, Admit(k) PROVE IInv'
  BY <1>2, AdmitStep
<1>3. ASSUME NEW k \in Key, Refuse(k) PROVE IInv'
  BY <1>3, RefuseStep
<1>4. ASSUME NEW k \in Key, AdmitNew(k) PROVE IInv'
  BY <1>4, AdmitNewStep
<1>5. CASE UNCHANGED vars
  BY <1>5 DEF vars, IInv, TypeOK, MemoryBounded, TimesOrdered, Paid, Told
<1>6. QED
  BY <1>1, <1>2, <1>3, <1>4, <1>5 DEF Next

-----------------------------------------------------------------------------
(* The theorems.                                                           *)

\* The invariant is inductive, so it always holds.
THEOREM Invariance == Spec => []IInv
<1>1. Init => IInv
  BY InitIInv
<1>2. IInv /\ [Next]_vars => IInv'
  BY NextIInv
<1>3. QED
  BY <1>1, <1>2, PTL DEF Spec

\* Every variable keeps its type, and a bucket its capacity.
THEOREM TypeCorrect == Spec => []TypeOK
<1>1. IInv => TypeOK
  BY DEF IInv
<1>2. QED
  BY Invariance, <1>1, PTL

\* The table never outgrows its bound.
THEOREM MemoryCorrect == Spec => []MemoryBounded
<1>1. IInv => MemoryBounded
  BY DEF IInv
<1>2. QED
  BY Invariance, <1>1, PTL

\* Burst and elapsed time pay for every admitted request.
THEOREM AdmissionCorrect == Spec => []AdmissionBounded
<1>1. IInv => AdmissionBounded
  <2>1. SUFFICES ASSUME IInv, NEW k \in tracked
                 PROVE  Cost * admitted[k] <= Capacity + (Rate + Slip) * (now - created[k])
    BY DEF AdmissionBounded
  <2>2. /\ k \in Key /\ updated[k] <= now /\ admitted[k] \in Nat /\ now - created[k] \in Int
    BY <2>1, Looked
  <2>3. PICK r \in Refills(k) : TRUE
    BY <2>1, <2>2, RefillExists DEF IInv
  <2>4. /\ Cost * admitted[k] + r <= Capacity + (Rate + Slip) * (now - created[k])
        /\ r \in 0 .. Capacity
    BY <2>1, <2>3, Looked
  <2>5. Cost * admitted[k] \in Int /\ (Rate + Slip) * (now - created[k]) \in Int
    BY <2>2, Numbers
  <2>6. QED
    BY <2>4, <2>5, Numbers
<1>2. QED
  BY Invariance, <1>1, PTL

\* The delay of a 429 is right within a second, whatever the rounding.
THEOREM RetryAfterCorrect == Spec => []RetryAfterWithinASecond
<1>1. IInv => RetryAfterWithinASecond
  <2>1. SUFFICES ASSUME IInv, NEW k \in tracked, comeBack[k] # 0, NEW r \in Refills(k)
                 PROVE  /\ now > comeBack[k] => r >= Cost
                        /\ now < comeBack[k] - 1 => r < Cost
    BY DEF RetryAfterWithinASecond
  <2>2. /\ now \in Nat /\ updated[k] \in Nat /\ comeBack[k] \in Nat /\ k \in Key
        /\ tokens[k] \in Nat /\ r \in Nat /\ updated[k] <= now
    BY <2>1, Looked, Numbers
  <2>3. /\ Rate \in Nat /\ Slip \in Nat /\ 64 * Slip <= Rate /\ Cost \in Nat
        /\ Rate - Slip \in Nat /\ Rate + Slip \in Nat
    BY Numbers
  <2>4. /\ tokens[k] + (Rate - Slip) * (comeBack[k] - updated[k]) >= Cost - 62 * Slip
        /\ tokens[k] + (Rate + Slip) * ((comeBack[k] - 1) - updated[k]) < Cost + 62 * Slip
    BY <2>1 DEF IInv, Told
  <2>5. /\ r <= tokens[k] + (Rate + Slip) * (now - updated[k])
        /\ r < Cost => r >= tokens[k] + (Rate - Slip) * (now - updated[k])
    BY <2>1, <2>2, RefillFits DEF IInv
  <2>6. ASSUME now > comeBack[k] PROVE r >= Cost
    <3>1. (Rate - Slip) * (now - updated[k])
            = (Rate - Slip) * (now - comeBack[k]) + (Rate - Slip) * (comeBack[k] - updated[k])
      BY <2>2, <2>3, EarningsAdd
    <3>2. (Rate - Slip) * 1 <= (Rate - Slip) * (now - comeBack[k])
      BY <2>2, <2>3, <2>6, EarningsGrow
    <3>3. /\ (Rate - Slip) * (now - comeBack[k]) \in Int
          /\ (Rate - Slip) * (comeBack[k] - updated[k]) \in Int
      BY <2>2, <2>3
    <3>4. QED
      BY <2>2, <2>3, <2>4, <2>5, <3>1, <3>2, <3>3
  <2>7. ASSUME now < comeBack[k] - 1 PROVE r < Cost
    <3>1. (Rate + Slip) * ((comeBack[k] - 1) - updated[k])
            = (Rate + Slip) * ((comeBack[k] - 1) - now) + (Rate + Slip) * (now - updated[k])
      BY <2>2, <2>3, EarningsAdd
    <3>2. (Rate + Slip) * 1 <= (Rate + Slip) * ((comeBack[k] - 1) - now)
      BY <2>2, <2>3, <2>7, EarningsGrow
    <3>3. /\ (Rate + Slip) * ((comeBack[k] - 1) - now) \in Int
          /\ (Rate + Slip) * (now - updated[k]) \in Int
      BY <2>2, <2>3
    <3>4. QED
      BY <2>2, <2>3, <2>4, <2>5, <3>1, <3>2, <3>3
  <2>8. QED
    BY <2>6, <2>7
<1>2. QED
  BY Invariance, <1>1, PTL

\* Only a crowd of keys at least as recent makes the limiter forget one.
THEOREM ForgettingCorrect == Spec => ForgottenOnlyInACrowd
<1>1. ASSUME IInv, NEW k \in Key, AdmitNew(k) PROVE ForgetsTheStalest
  <2>1. SUFFICES ASSUME NEW j \in tracked, j \notin tracked'
                 PROVE  Cardinality({i \in tracked \ {j} : updated[i] >= updated[j]})
                          >= MaxKeys - PruneCount(MaxKeys)
    BY DEF ForgetsTheStalest
  <2>2. PICK kept \in (IF HasRoom THEN {tracked} ELSE Prunings) : tracked' = kept \cup {k}
    BY <1>1 DEF AdmitNew
  <2>3. ~HasRoom /\ kept \in Prunings
    BY <2>1, <2>2
  <2>4. kept \subseteq tracked /\ Cardinality(kept) = MaxKeys - PruneCount(MaxKeys)
    BY <1>1, <2>3, PruningMakesRoom
  <2>5. \A i \in kept : updated[j] <= updated[i]
    BY <2>1, <2>2, <2>3 DEF Prunings
  <2> DEFINE crowd == {i \in tracked \ {j} : updated[i] >= updated[j]}
  <2>6. kept \subseteq crowd
    BY <1>1, <2>1, <2>2, <2>4, <2>5 DEF IInv, TypeOK
  <2>7. IsFiniteSet(tracked)
    BY <1>1, ConstantsAssumption, FS_Subset DEF IInv, TypeOK
  <2>8. IsFiniteSet(crowd)
    BY <2>7, FS_Subset
  <2>9. Cardinality(kept) <= Cardinality(crowd)
    BY <2>6, <2>8, FS_Subset
  <2>10. Cardinality(kept) \in Nat /\ Cardinality(crowd) \in Nat
    BY <2>6, <2>8, FS_Subset, FS_CardinalityType
  <2>11. QED
    BY <2>4, <2>9, <2>10
<1>2. ASSUME IInv, [Next]_vars PROVE [ForgetsTheStalest]_vars
  <2>1. CASE UNCHANGED tracked
    BY <2>1 DEF ForgetsTheStalest
  <2>2. ASSUME NEW k \in Key, AdmitNew(k) PROVE ForgetsTheStalest
    BY <1>1, <1>2, <2>2
  <2>3. QED
    BY <1>2, <2>1, <2>2 DEF Next, Tick, Admit, Refuse, TurnAway, vars
<1>3. QED
  BY Invariance, <1>2, PTL DEF Spec, ForgottenOnlyInACrowd
-----------------------------------------------------------------------------
(* The assembled service.                                                  *)

\* The steps of the start-up still to come are behind it or have not begun.
Loaded    == step \notin {"settings", "failed"}
Grounding == step \in {"pipelines", "layers", "routes", "serving"}
Unbuilt   == step \in {"settings", "document", "pipelines"}

\* The limiter is inside authentication, which is there as soon as there is a secret.
LayersOrdered ==
  /\ env.secret # "unset" => \E i \in DOMAIN layers : layers[i] = "auth"
  /\ \A i, j \in DOMAIN layers : layers[i] = "limit" /\ layers[j] = "auth" => j < i

\* What each step of the start-up has left behind.
AssembledSoFar ==
  /\ layers \in Seq({"limit", "auth", "correlation", "cors"})
  /\ settings # << >> => settings = env
  /\ Loaded => settings = env /\ ~Assembly!Invalid(env)
  /\ Grounding => document = env.file /\ ~Assembly!Unreadable(env.file)
  /\ Unbuilt => llm = [grounded |-> 0, tools |-> FALSE] /\ pipelines = << >>
  /\ step \in {"layers", "routes", "serving"} =>
       llm.grounded = IF document = "unset" THEN 0 ELSE 1
  /\ step \in {"routes", "serving"} => LayersOrdered
  /\ step = "serving" => routes = Assembly!Routes(env)
  /\ answers # {} => step = "serving"

\* What the service has answered.
AnswersSafe ==
  /\ Assembly!CloudIsAuthenticated
  /\ \A a \in answers : a.by = "limit" /\ env.secret # "unset" => a.caller = "bearer"
  /\ Assembly!OnlyTwilioCalls
  /\ Assembly!PublicStaysPublic

AssemblyInv == Assembly!TypeOK /\ AssembledSoFar /\ Assembly!OneStore /\ AnswersSafe

\* Before the start-up there is nothing.
LEMMA AssemblyInit ==
  ASSUME Assembly!ConstantsAssumption, Assembly!Init PROVE AssemblyInv
<1> USE DEF Assembly!Init
<1>1. Assembly!TypeOK
  BY DEF Assembly!TypeOK
<1>2. AssembledSoFar
  BY DEF AssembledSoFar, Loaded, Grounding, Unbuilt
<1>3. Assembly!OneStore /\ AnswersSafe
  BY DEF Assembly!OneStore, AnswersSafe, Assembly!CloudIsAuthenticated, Assembly!OnlyTwilioCalls,
         Assembly!PublicStaysPublic
<1> QED  BY <1>1, <1>2, <1>3 DEF AssemblyInv

\* The layers as they are added: authentication, as soon as there is a secret, after the
\* limiter.
LEMMA AddedInOrder ==
  ASSUME NEW e, NEW s, s = Assembly!Added(e)
  PROVE  /\ s \in Seq({"limit", "auth", "correlation", "cors"})
         /\ e.secret # "unset" => \E i \in DOMAIN s : s[i] = "auth"
         /\ \A i, j \in DOMAIN s : s[i] = "limit" /\ s[j] = "auth" => i < j
<1> DEFINE limit == IF e.rate THEN <<"limit">> ELSE << >>
           auth  == IF e.secret = "unset" THEN << >> ELSE <<"auth">>
           cors  == IF e.origins = "none" THEN << >> ELSE <<"cors">>
<1>1. s = << >> \o limit \o auth \o <<"correlation">> \o cors
  BY DEF Assembly!Added
<1>2. s = limit \o auth \o <<"correlation">> \o cors
  BY <1>1
<1>3. cors \in Seq({"cors"})
  <2>1. << >> \in Seq({"cors"}) /\ <<"cors">> \in Seq({"cors"})
    OBVIOUS
  <2>2. cors = << >> \/ cors = <<"cors">>
    OBVIOUS
  <2> QED  BY <2>1, <2>2
<1>4. CASE e.rate /\ e.secret = "unset"
  <2>1. s = <<"limit", "correlation">> \o cors
    BY <1>2, <1>4
  <2> HIDE DEF cors
  <2>2. s \in Seq({"limit", "correlation", "cors"})
    BY <1>3, <2>1
  <2> QED  BY <1>4, <2>2
<1>5. CASE e.rate /\ e.secret # "unset"
  <2>1. s = <<"limit", "auth", "correlation">> \o cors
    BY <1>2, <1>5
  <2> HIDE DEF cors
  <2>2. s \in Seq({"limit", "auth", "correlation", "cors"})
    BY <1>3, <2>1
  <2>3. /\ 2 \in DOMAIN s /\ s[2] = "auth"
        /\ \A i \in DOMAIN s : (s[i] = "limit" => i = 1) /\ (s[i] = "auth" => i = 2)
    BY <1>3, <2>1
  <2> QED  BY <2>2, <2>3
<1>6. CASE ~e.rate /\ e.secret = "unset"
  <2>1. s = <<"correlation">> \o cors
    BY <1>2, <1>6
  <2> HIDE DEF cors
  <2>2. s \in Seq({"correlation", "cors"})
    BY <1>3, <2>1
  <2> QED  BY <1>6, <2>2
<1>7. CASE ~e.rate /\ e.secret # "unset"
  <2>1. s = <<"auth", "correlation">> \o cors
    BY <1>2, <1>7
  <2> HIDE DEF cors
  <2>2. s \in Seq({"auth", "correlation", "cors"}) /\ 1 \in DOMAIN s /\ s[1] = "auth"
    BY <1>3, <2>1
  <2> QED  BY <2>2
<1> QED  BY <1>4, <1>5, <1>6, <1>7

\* Each one goes around those before it: the order is turned over.
LEMMA LayersInOrder ==
  ASSUME layers' = Assembly!Reverse(Assembly!Added(env)), env' = env
  PROVE  /\ layers' \in Seq({"limit", "auth", "correlation", "cors"})
         /\ LayersOrdered'
<1> DEFINE s == Assembly!Added(env)
<1>1. /\ s \in Seq({"limit", "auth", "correlation", "cors"})
      /\ env.secret # "unset" => \E i \in DOMAIN s : s[i] = "auth"
      /\ \A i, j \in DOMAIN s : s[i] = "limit" /\ s[j] = "auth" => i < j
  BY AddedInOrder
<1>2. layers' = [i \in 1 .. Len(s) |-> s[(Len(s) - i) + 1]]
  BY DEF Assembly!Reverse
<1> HIDE DEF s
<1>3. Len(s) \in Nat /\ DOMAIN s = 1 .. Len(s) /\ DOMAIN layers' = 1 .. Len(s)
  BY <1>1, <1>2
<1>4. \A i \in DOMAIN layers' : (Len(s) - i) + 1 \in DOMAIN s /\ layers'[i] = s[(Len(s) - i) + 1]
  BY <1>2, <1>3
<1>5. layers' \in Seq({"limit", "auth", "correlation", "cors"})
  BY <1>1, <1>2, <1>3
<1>6. env'.secret # "unset" => \E i \in DOMAIN layers' : layers'[i] = "auth"
  <2> SUFFICES ASSUME env.secret # "unset" PROVE \E i \in DOMAIN layers' : layers'[i] = "auth"
    OBVIOUS
  <2>1. PICK k \in DOMAIN s : s[k] = "auth"
    BY <1>1
  <2>2. (Len(s) - k) + 1 \in DOMAIN layers' /\ layers'[(Len(s) - k) + 1] = s[k]
    BY <1>2, <1>3
  <2> QED  BY <2>1, <2>2
<1>7. ASSUME NEW i \in DOMAIN layers', NEW j \in DOMAIN layers',
             layers'[i] = "limit", layers'[j] = "auth"
      PROVE  j < i
  <2>1. (Len(s) - i) + 1 < (Len(s) - j) + 1
    BY <1>1, <1>4, <1>7
  <2> QED  BY <1>3, <2>1
<1> QED  BY <1>5, <1>6, <1>7 DEF LayersOrdered

\* Every answer the service can give has its reason in the layers and the environment.
LEMMA OutcomesSafe ==
  ASSUME layers \in Seq({"limit", "auth", "correlation", "cors"}), LayersOrdered,
         settings = env, routes = Assembly!Routes(env),
         NEW path \in Assembly!Paths, NEW who \in Assembly!Callers,
         NEW o \in Assembly!Outcomes(path, who)
  PROVE  /\ env.secret # "unset" /\ path \in Assembly!Api /\ who # "bearer" => o.status = 401
         /\ o.by = "limit" /\ env.secret # "unset" => who = "bearer"
         /\ path = Assembly!Voice /\ o.status = 200 =>
              env.telephony /\ env.public_url /\ (env.twilio_auth => who = "twilio")
         /\ path = Assembly!Socket => (o.status = 101 <=> env.telephony)
         /\ path \in Assembly!Public /\ o.status # 200 => env.prefix = "root"
<1> DEFINE at(layer) == {i \in DOMAIN layers :
                           layers[i] = layer /\ Assembly!Refuses(layer, path, who)}
           reached   == \E i \in at("limit") : \A j \in at("auth") : i < j
<1>1. \/ at("auth") = {} /\ o = [status |-> Assembly!Endpoint(path, who), by |-> "route"]
      \/ at("auth") # {} /\ o = [status |-> 401, by |-> "auth"]
      \/ reached /\ o = [status |-> 429, by |-> "limit"]
  BY DEF Assembly!Outcomes
<1>2. ASSUME env.secret # "unset", Assembly!UnderPrefix(path), who # "bearer",
             path # Assembly!Socket
      PROVE  at("auth") # {} /\ ~reached
  <2>1. PICK j \in DOMAIN layers : layers[j] = "auth"
    BY <1>2 DEF LayersOrdered
  <2>2. j \in at("auth")
    BY <1>2, <2>1 DEF Assembly!Refuses
  <2>3. \A i \in at("limit") : j < i
    BY <2>1 DEF LayersOrdered
  <2> QED  BY <2>2, <2>3
<1>3. reached => Assembly!UnderPrefix(path) /\ path # Assembly!Socket
  BY DEF Assembly!Refuses
<1>4. at("auth") # {} => Assembly!UnderPrefix(path) /\ path # Assembly!Socket
  BY DEF Assembly!Refuses
<1> HIDE DEF at, reached
<1>5. path \in Assembly!Public /\ Assembly!UnderPrefix(path) => env.prefix = "root"
  BY DEF Assembly!UnderPrefix, Assembly!Public, Assembly!Api
<1>6. path \in Assembly!Public => Assembly!Endpoint(path, who) = 200
  BY DEF Assembly!Endpoint, Assembly!Public, Assembly!Routes, Assembly!Voice, Assembly!Socket
<1>7. path = Assembly!Voice /\ Assembly!Endpoint(path, who) = 200 =>
        env.telephony /\ env.public_url /\ (env.twilio_auth => who = "twilio")
  BY DEF Assembly!Endpoint, Assembly!Webhook, Assembly!Routes, Assembly!Public, Assembly!Api,
     Assembly!Voice, Assembly!Socket
<1>8. path \in Assembly!Api => Assembly!UnderPrefix(path) /\ path # Assembly!Socket
  BY DEF Assembly!UnderPrefix, Assembly!Api, Assembly!Socket
<1>9. path = Assembly!Socket => (Assembly!Endpoint(path, who) = 101 <=> env.telephony)
  BY DEF Assembly!Endpoint, Assembly!Routes, Assembly!Public, Assembly!Api, Assembly!Voice,
     Assembly!Socket
<1>10. ASSUME env.secret # "unset", path \in Assembly!Api, who # "bearer" PROVE o.status = 401
  BY <1>1, <1>2, <1>8, <1>10
<1>11. ASSUME o.by = "limit", env.secret # "unset" PROVE who = "bearer"
  BY <1>1, <1>2, <1>3, <1>11
<1>12. ASSUME path = Assembly!Voice, o.status = 200
       PROVE  env.telephony /\ env.public_url /\ (env.twilio_auth => who = "twilio")
  BY <1>1, <1>7, <1>12
<1>13. ASSUME path = Assembly!Socket PROVE o.status = 101 <=> env.telephony
  BY <1>1, <1>3, <1>4, <1>9, <1>13
<1>14. ASSUME path \in Assembly!Public, o.status # 200 PROVE env.prefix = "root"
  BY <1>1, <1>3, <1>4, <1>5, <1>6, <1>14
<1> QED  BY <1>10, <1>11, <1>12, <1>13, <1>14

\* Every step of the start-up, taken or failed, and every answer keep the invariant.
LEMMA AssemblyNext ==
  ASSUME Assembly!ConstantsAssumption, AssemblyInv, [Assembly!Next]_(Assembly!vars)
  PROVE  AssemblyInv'
<1> USE DEF Assembly!built
<1>i. Assembly!TypeOK /\ AssembledSoFar /\ Assembly!OneStore /\ AnswersSafe
  BY DEF AssemblyInv
<1>a. UNCHANGED <<env, answers>> => AnswersSafe'
  BY <1>i DEF AnswersSafe, Assembly!CloudIsAuthenticated, Assembly!OnlyTwilioCalls,
       Assembly!PublicStaysPublic
<1>o. UNCHANGED pipelines => Assembly!OneStore'
  BY <1>i DEF Assembly!OneStore
<1>1. CASE Assembly!LoadSettings
  <2>1. step = "settings" /\ step' \in {"document", "failed"} /\ UNCHANGED <<env, Assembly!built, answers>>
    BY <1>1 DEF Assembly!LoadSettings, Assembly!Step
  <2>2. /\ step' = "document" => settings' = env /\ ~Assembly!Invalid(env)
        /\ settings' \in {settings, env}
    BY <1>1 DEF Assembly!LoadSettings, Assembly!Step
  <2>3. Assembly!TypeOK'
    BY <1>i, <2>1, <2>2 DEF Assembly!TypeOK
  <2>4. AssembledSoFar'
    BY <1>i, <2>1, <2>2 DEF AssembledSoFar, Loaded, Grounding, Unbuilt, Assembly!Invalid
  <2> QED  BY <1>a, <1>o, <2>1, <2>3, <2>4 DEF AssemblyInv
<1>2. CASE Assembly!LoadDocument
  <2>1. /\ step = "document" /\ step' \in {"pipelines", "failed"}
        /\ UNCHANGED <<env, settings, llm, pipelines, layers, routes, answers>>
        /\ settings = env /\ document' = env.file
        /\ step' = "pipelines" => ~Assembly!Unreadable(env.file)
    BY <1>i, <1>2 DEF Assembly!LoadDocument, Assembly!Step, AssembledSoFar, Loaded
  <2>2. Assembly!TypeOK'
    BY <1>i, <2>1 DEF Assembly!TypeOK, Assembly!Environments
  <2>3. AssembledSoFar'
    BY <1>i, <2>1 DEF AssembledSoFar, Loaded, Grounding, Unbuilt, Assembly!Invalid, Assembly!Unreadable
  <2> QED  BY <1>a, <1>o, <2>1, <2>2, <2>3 DEF AssemblyInv
<1>3. CASE Assembly!BuildPipelines
  <2>1. step = "pipelines" /\ UNCHANGED <<env, settings, document, layers, routes, answers>>
    BY <1>3 DEF Assembly!BuildPipelines, Assembly!Step
  <2>2. CASE settings.provider \notin Registered
    <3>1. step' = "failed" /\ UNCHANGED <<llm, pipelines>>
      BY <1>3, <2>2 DEF Assembly!BuildPipelines, Assembly!Step
    <3>2. Assembly!TypeOK'
      BY <1>i, <2>1, <3>1 DEF Assembly!TypeOK
    <3>3. AssembledSoFar'
      BY <1>i, <2>1, <3>1 DEF AssembledSoFar, Loaded, Grounding, Unbuilt
    <3> QED  BY <1>a, <1>o, <2>1, <3>1, <3>2, <3>3 DEF AssemblyInv
  <2>3. CASE settings.provider \in Registered
    <3>1. /\ step' = "layers" /\ llm = [grounded |-> 0, tools |-> FALSE]
          /\ llm' = [grounded |-> llm.grounded + (IF document = "unset" THEN 0 ELSE 1), tools |-> TRUE]
      BY <1>i, <1>3, <2>3 DEF Assembly!BuildPipelines, Assembly!Step, AssembledSoFar, Unbuilt
    <3>2. llm' = [grounded |-> IF document = "unset" THEN 0 ELSE 1, tools |-> TRUE]
      BY <3>1
    <3>3. Assembly!TypeOK'
      BY <1>i, <2>1, <3>1, <3>2 DEF Assembly!TypeOK
    <3>4. AssembledSoFar'
      BY <1>i, <2>1, <3>1, <3>2 DEF AssembledSoFar, Loaded, Grounding, Unbuilt, Assembly!Invalid,
           Assembly!Unreadable
    <3>5. Assembly!OneStore'
      BY <1>3, <2>3 DEF Assembly!BuildPipelines, Assembly!StoreGiven, Assembly!Realtime, Assembly!OneStore
    <3> QED  BY <1>a, <2>1, <3>3, <3>4, <3>5 DEF AssemblyInv
  <2> QED  BY <2>2, <2>3
<1>4. CASE Assembly!InstallLayers
  <2>1. /\ step = "layers" /\ step' = "routes"
        /\ UNCHANGED <<env, settings, document, llm, pipelines, routes, answers>>
        /\ settings = env /\ layers' = Assembly!Reverse(Assembly!Added(env))
    BY <1>i, <1>4 DEF Assembly!InstallLayers, Assembly!Step, AssembledSoFar, Loaded
  <2>2. layers' \in Seq({"limit", "auth", "correlation", "cors"}) /\ LayersOrdered'
    BY <2>1, LayersInOrder
  <2>3. Assembly!TypeOK'
    BY <1>i, <2>1, <2>2 DEF Assembly!TypeOK
  <2>4. AssembledSoFar'
    BY <1>i, <2>1, <2>2 DEF AssembledSoFar, Loaded, Grounding, Unbuilt, Assembly!Invalid,
         Assembly!Unreadable
  <2> QED  BY <1>a, <1>o, <2>1, <2>3, <2>4 DEF AssemblyInv
<1>5. CASE Assembly!MountRoutes
  <2>1. /\ step = "routes" /\ step' = "serving"
        /\ UNCHANGED <<env, settings, document, llm, pipelines, layers, answers>>
        /\ settings = env /\ routes' = Assembly!Routes(env)
    BY <1>i, <1>5 DEF Assembly!MountRoutes, Assembly!Step, AssembledSoFar, Loaded
  <2>2. Assembly!TypeOK'
    BY <1>i, <2>1 DEF Assembly!TypeOK, Assembly!Routes, Assembly!Paths
  <2>3. AssembledSoFar'
    BY <1>i, <2>1 DEF AssembledSoFar, Loaded, Grounding, Unbuilt, Assembly!Invalid,
         Assembly!Unreadable, LayersOrdered
  <2> QED  BY <1>a, <1>o, <2>1, <2>2, <2>3 DEF AssemblyInv
<1>6. CASE Assembly!Serve
  <2>1. PICK path \in Assembly!Paths, who \in Assembly!Callers :
          \E o \in Assembly!Outcomes(path, who) :
            answers' = answers \cup
              {[path |-> path, caller |-> who, status |-> o.status, by |-> o.by]}
    BY <1>6 DEF Assembly!Serve
  <2>2. PICK o \in Assembly!Outcomes(path, who) :
          answers' = answers \cup
            {[path |-> path, caller |-> who, status |-> o.status, by |-> o.by]}
    BY <2>1
  <2>3. step = "serving" /\ UNCHANGED <<env, settings, step, Assembly!built>>
    BY <1>6 DEF Assembly!Serve
  <2>4. /\ settings = env /\ ~Assembly!Invalid(env) /\ LayersOrdered /\ routes = Assembly!Routes(env)
        /\ layers \in Seq({"limit", "auth", "correlation", "cors"})
    BY <1>i, <2>3 DEF AssembledSoFar, Loaded
  <2>5. env.environment = "cloud" => env.secret # "unset"
    BY <2>4 DEF Assembly!Invalid
  <2>6. AnswersSafe'
    BY <1>i, <2>2, <2>3, <2>4, <2>5, OutcomesSafe DEF AnswersSafe, Assembly!CloudIsAuthenticated,
         Assembly!OnlyTwilioCalls, Assembly!PublicStaysPublic
  <2>7. Assembly!TypeOK' /\ AssembledSoFar'
    BY <1>i, <2>3 DEF Assembly!TypeOK, AssembledSoFar, Loaded, Grounding, Unbuilt, LayersOrdered
  <2> QED  BY <1>o, <2>3, <2>6, <2>7 DEF AssemblyInv
<1>7. CASE UNCHANGED Assembly!vars
  <2>1. Assembly!TypeOK' /\ AssembledSoFar'
    BY <1>i, <1>7 DEF Assembly!vars, Assembly!TypeOK, AssembledSoFar, Loaded, Grounding, Unbuilt,
         LayersOrdered
  <2> QED  BY <1>a, <1>o, <1>7, <2>1 DEF Assembly!vars, AssemblyInv
<1> QED
  BY <1>1, <1>2, <1>3, <1>4, <1>5, <1>6, <1>7 DEF Assembly!Next

\* What each step of the start-up leaves to the next holds in every state, for every set of
\* registered and unknown names.
THEOREM AssemblyInvariance ==
  ASSUME Assembly!ConstantsAssumption PROVE Assembly!Spec => []AssemblyInv
<1>1. Assembly!Init => AssemblyInv
  BY AssemblyInit
<1>2. AssemblyInv /\ [Assembly!Next]_(Assembly!vars) => AssemblyInv'
  BY AssemblyNext
<1> QED  BY <1>1, <1>2, PTL DEF Assembly!Spec

\* Whatever the environment sets, a service that starts is put together safely: in the
\* cloud nobody without a token reaches the API, the limiter charges only who has proved
\* their identity, every path uses the application's session store, the model is grounded
\* in the configured document, the webhook answers only Twilio and the public paths stay
\* public (auth.py:4-5, main.py:63, 81-83, twiml.py:7-8).
THEOREM AssemblyCorrect ==
  ASSUME Assembly!ConstantsAssumption PROVE Assembly!Spec => []Assembly!AssembledSafely
<1>1. ASSUME AssemblyInv PROVE Assembly!AssembledSafely
  <2>1. Assembly!LimitsKnownCallers
    BY <1>1 DEF AssemblyInv, AssembledSoFar, AnswersSafe, Assembly!LimitsKnownCallers
  <2>2. Assembly!GroundedAsConfigured
    BY <1>1 DEF AssemblyInv, AssembledSoFar, Grounding, Assembly!Unreadable, Assembly!TypeOK,
         Assembly!Environments, Assembly!GroundedAsConfigured
  <2> QED  BY <1>1, <2>1, <2>2 DEF AssemblyInv, AnswersSafe, Assembly!AssembledSafely
<1> QED  BY <1>1, AssemblyInvariance, PTL

-----------------------------------------------------------------------------
(* The suite: every part keeps its own specification, whichever moves.     *)

\* A step of the suite is a step of one part, and the others rest.
LEMMA SuiteSteps ==
  ASSUME [SuiteNext]_<<part, vars, requestVars, dispatchVars, assemblyVars>>
  PROVE  /\ [Next]_vars
         /\ [Requests!Next]_(Requests!vars)
         /\ [Dispatch!Next]_(Dispatch!vars)
         /\ [Assembly!Next]_(Assembly!vars)
<1>1. (UNCHANGED requestVars) => UNCHANGED Requests!vars
  BY DEF requestVars, Requests!vars, Requests!given, Requests!auths
<1>2. (UNCHANGED dispatchVars) => UNCHANGED Dispatch!vars
  BY DEF dispatchVars, Dispatch!vars, Dispatch!realtime, Dispatch!slow
<1>3. (UNCHANGED assemblyVars) => UNCHANGED Assembly!vars
  BY DEF assemblyVars, Assembly!vars, Assembly!built
<1>4. CASE UNCHANGED <<part, vars, requestVars, dispatchVars, assemblyVars>>
  BY <1>1, <1>2, <1>3, <1>4
<1>5. CASE SuiteNext
  BY <1>1, <1>2, <1>3, <1>5 DEF SuiteNext
<1> QED  BY <1>4, <1>5

\* The suite implements every one of its parts.
LEMMA SuiteParts == SuiteSpec => Spec /\ Requests!Spec /\ Dispatch!Spec /\ Assembly!Spec
<1>1. SuiteInit => Init /\ Requests!Init /\ Dispatch!Init /\ Assembly!Init
  BY DEF SuiteInit
<1> QED  BY <1>1, SuiteSteps, PTL DEF SuiteSpec, Spec, Requests!Spec, Dispatch!Spec, Assembly!Spec

\* What the parts assume of their constants.
LEMMA PartsAssumed == Requests!ConstantsAssumption /\ Assembly!ConstantsAssumption
  BY ServiceAssumption

\* Every variable has its type in every state, and the limiter's table its bound
\* (ratelimit.py:58).
THEOREM ServiceTypeCorrect == SuiteSpec => []ServiceTypeOK
<1>1. Spec => [](TypeOK /\ MemoryBounded)
  BY TypeCorrect, MemoryCorrect, PTL
<1>2. Requests!Spec => []Requests!IInv
  BY PartsAssumed, Requests!Invariance
<1>3. Requests!IInv => Requests!TypeOK
  BY DEF Requests!IInv
<1>4. Dispatch!Spec => []Dispatch!IInv
  BY Dispatch!Invariance
<1>5. Dispatch!IInv => Dispatch!TypeOK
  BY DEF Dispatch!IInv
<1>6. Assembly!Spec => []AssemblyInv
  BY PartsAssumed, AssemblyInvariance
<1>7. AssemblyInv => Assembly!TypeOK
  BY DEF AssemblyInv
<1> QED
  BY <1>1, <1>2, <1>3, <1>4, <1>5, <1>6, <1>7, SuiteParts, PTL DEF ServiceTypeOK

\* A turn runs for the tenant of its own request's token, although its body is produced
\* after the authentication layer has returned, in tasks with contexts of their own, and
\* whatever the other requests do meanwhile (auth.py:104-105).
THEOREM TurnsRunForTheirCallers == SuiteSpec => []TurnRunsForItsCaller
<1>1. Requests!Spec => []Requests!TurnRunsForItsCaller
  BY PartsAssumed, Requests!TurnsRunForTheirCallers
<1> QED  BY <1>1, SuiteParts, PTL DEF TurnRunsForItsCaller

\* What is gone from a budget was spent by requests of that key, each charged to its
\* caller: nobody spends another one's budget (main.py:81-83).
THEOREM BudgetsSpentByTheirOwn == SuiteSpec => []BudgetSpentByItsOwn
<1>1. Requests!Spec => []Requests!BudgetSpentByItsOwn
  BY PartsAssumed, Requests!BudgetsSpentByTheirOwn
<1> QED  BY <1>1, SuiteParts, PTL DEF BudgetSpentByItsOwn

\* Every response but a preflight's carries its request's id; the browsers of allowed
\* origins can read every answer but the one built outside of every layer, and no others
\* can; problem bodies answer the failed turns of /complete and nothing else
\* (main.py:91-98, errors.py:3).
THEOREM ResponsesCorrect == SuiteSpec => []ResponsesReadable
<1>1. Requests!Spec => []Requests!EveryResponseTraceable
  BY PartsAssumed, Requests!ResponsesTraceable
<1>2. Requests!Spec => []Requests!LayersReadableByBrowsers
  BY PartsAssumed, Requests!AnswersReadable
<1>3. Dispatch!Spec => []Dispatch!ErrorsAreProblems
  BY Dispatch!ProblemsCorrect
<1> QED  BY <1>1, <1>2, <1>3, SuiteParts, PTL DEF ResponsesReadable

\* No client is sent events of both paths, and the three counters agree on what happened,
\* whenever the realtime path fails and whoever leaves meanwhile (fallback.py:10-16).
THEOREM FallbackCorrect == SuiteSpec => []FallbackHonest
<1>1. Dispatch!Spec => []Dispatch!FallbackHonest
  BY Dispatch!FallbackCorrect
<1> QED  BY <1>1, SuiteParts, PTL DEF FallbackHonest

\* A service that starts is put together safely, whatever the environment sets.
THEOREM StartUpCorrect == SuiteSpec => []AssembledSafely
<1>1. Assembly!Spec => []Assembly!AssembledSafely
  BY PartsAssumed, AssemblyCorrect
<1> QED  BY <1>1, SuiteParts, PTL DEF AssembledSafely
=============================================================================
