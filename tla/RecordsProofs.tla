----------------------------- MODULE RecordsProofs -----------------------------
(***************************************************************************)
(* Theorems about what the service keeps and writes about its turns: the   *)
(* memory of a session, the collectors of /metrics and /usage, a line of   *)
(* the log, a report of the evaluation, for all values of their constants. *)
(* The model's recursions are functions; that there is such a function,    *)
(* and what it computes, is shown by induction over a set of numbers.      *)
(***************************************************************************)
EXTENDS MCRecords, SequenceTheorems, FiniteSetTheorems, WellFoundedInduction, TLAPS

-----------------------------------------------------------------------------
(* Induction over the naturals, and recursion.                             *)

\* The order of the naturals, as the library writes it.
LEMMA Below == \A m, n \in Nat : m < n => <<m, n>> \in OpToRel(<, Nat)
BY DEF OpToRel

\* Some naturals have a least among them.
LEMMA LeastOf ==
  ASSUME NEW T \in SUBSET Nat, T # {}
  PROVE  \E n \in T : \A m \in T : n <= m
<1>1. PICK R : IsWellFoundedOn(R, Nat) /\ \A m, n \in Nat : m < n => <<m, n>> \in R
  BY NatLessThanWellFounded, Below, Zenon
<1>2. PICK n \in T : \A m \in T : <<m, n>> \notin R
  <2>1. IsWellFoundedOn(R, Nat) /\ T \subseteq Nat
    BY <1>1
  <2> QED  BY <2>1, WFMin, Zenon
<1>3. \A m \in T : ~ (m < n)
  BY <1>1, <1>2
<1> QED  BY <1>3

\* Induction, over a set: the library's theorem takes an operator.
LEMMA Induction ==
  ASSUME NEW S, 0 \in S, \A n \in Nat : n \in S => n + 1 \in S
  PROVE  Nat \subseteq S
<1>1. SUFFICES ASSUME Nat \ S # {} PROVE FALSE
  OBVIOUS
<1>2. PICK n \in Nat \ S : \A m \in Nat \ S : n <= m
  BY <1>1, LeastOf
<1> QED  BY <1>2, n - 1 \in Nat

\* A function on 0 .. n that starts at c and goes on as step says.
Recurs(f, c, step, n) == f[0] = c /\ \A k \in 1 .. n : f[k] = step[<<f[k - 1], k>>]

\* What a step makes of what was before can be followed for any number of steps.
LEMMA Recursion ==
  ASSUME NEW V, NEW c \in V, NEW step \in [V \X Nat -> V], NEW n \in Nat
  PROVE  \E f \in [0 .. n -> V] : Recurs(f, c, step, n)
<1> DEFINE Follows(f, m) == f[0] = c /\ \A k \in 1 .. m : f[k] = step[<<f[k - 1], k>>]
           S == {m \in Nat : \E f \in [0 .. m -> V] : Follows(f, m)}
<1>1. 0 \in S
  <2>1. [k \in 0 .. 0 |-> c] \in [0 .. 0 -> V] /\ Follows([k \in 0 .. 0 |-> c], 0)
    OBVIOUS
  <2> QED  BY <2>1
<1>2. ASSUME NEW m \in Nat, m \in S
      PROVE  m + 1 \in S
  <2>1. PICK f \in [0 .. m -> V] : Follows(f, m)
    BY <1>2
  <2> DEFINE g == [k \in 0 .. m + 1 |-> IF k = m + 1 THEN step[<<f[m], m + 1>>] ELSE f[k]]
  <2>2. g \in [0 .. m + 1 -> V]
    OBVIOUS
  <2>3. Follows(g, m + 1)
    <3>1. g[0] = c
      BY <2>1
    <3>2. ASSUME NEW k \in 1 .. m + 1
          PROVE  g[k] = step[<<g[k - 1], k>>]
      <4>1. k - 1 \in 0 .. m /\ k - 1 # m + 1 /\ g[k - 1] = f[k - 1]
        OBVIOUS
      <4>2. CASE k = m + 1
        BY <4>1, <4>2
      <4>3. CASE k # m + 1
        <5>1. k \in 1 .. m /\ g[k] = f[k]
          BY <4>3
        <5>2. f[k] = step[<<f[k - 1], k>>]
          BY <2>1, <5>1
        <5> HIDE DEF g
        <5> QED  BY <4>1, <5>1, <5>2
      <4> QED  BY <4>2, <4>3
    <3> QED  BY <3>1, <3>2
  <2> HIDE DEF g
  <2> QED  BY <2>2, <2>3
<1>3. n \in S
  <2> HIDE DEF S
  <2> QED  BY <1>1, <1>2, Induction
<1> QED  BY <1>3 DEF Recurs

-----------------------------------------------------------------------------
(* Sums over finite sets.                                                  *)

\* A function on the subsets of U that adds up f, a chosen element at a time.
Pick(s) == CHOOSE x \in s : TRUE
Iterates(g, f, U) == g = [s \in SUBSET U |->
    IF s = {} THEN 0 ELSE f[Pick(s)] + g[s \ {Pick(s)}]]

\* A function on all the sets of a finite set exists that adds a chosen element at a time.
LEMMA IterationExists ==
  ASSUME NEW f, NEW U, IsFiniteSet(U), f \in [U -> Nat]
  PROVE  \E g \in [SUBSET U -> Nat] : Iterates(g, f, U)
<1> DEFINE V == [SUBSET U -> Nat]
           N == Cardinality(U)
           More(h) == [s \in SUBSET U |-> IF s = {} THEN 0 ELSE f[Pick(s)] + h[s \ {Pick(s)}]]
           step == [p \in V \X Nat |-> More(p[1])]
           c == [s \in SUBSET U |-> 0]
<1>1. \A s \in SUBSET U : s # {} => Pick(s) \in s
  BY DEF Pick
<1>2. \A h \in V : More(h) \in V
  BY <1>1
<1>3. step \in [V \X Nat -> V] /\ c \in V
  BY <1>2
<1>4. N \in Nat
  BY FS_CardinalityType
<1>5. PICK h \in [0 .. N -> V] : Recurs(h, c, step, N)
  <2> HIDE DEF V, N, step, c, More
  <2>1. c \in V /\ step \in [V \X Nat -> V] /\ N \in Nat
    BY <1>3, <1>4
  <2> QED  BY <2>1, Recursion, Zenon
<1>6. \A k \in 1 .. N : h[k] = More(h[k - 1])
  <2> TAKE k \in 1 .. N
  <2>1. k - 1 \in 0 .. N /\ k \in Nat
    BY <1>4
  <2>2. h[k - 1] \in V
    BY <2>1
  <2>3. step[<<h[k - 1], k>>] = More(h[k - 1])
    BY <2>1, <2>2
  <2> QED  BY <1>5, <2>3 DEF Recurs
<1>7. \A s \in SUBSET U : Cardinality(s) \in 0 .. N
  BY <1>4, FS_Subset, FS_CardinalityType
<1> DEFINE g == [s \in SUBSET U |-> h[Cardinality(s)][s]]
<1>8. g \in [SUBSET U -> Nat]
  <2> SUFFICES ASSUME NEW s \in SUBSET U
               PROVE  h[Cardinality(s)][s] \in Nat
    OBVIOUS
  <2>1. h[Cardinality(s)] \in V
    <3> HIDE DEF V, N
    <3> QED  BY <1>7
  <2> QED  BY <2>1
<1>9. ASSUME NEW s \in SUBSET U
      PROVE  g[s] = IF s = {} THEN 0 ELSE f[Pick(s)] + g[s \ {Pick(s)}]
  <2>1. CASE s = {}
    <3>1. Cardinality(s) = 0
      BY <2>1, FS_EmptySet
    <3> QED  BY <1>5, <2>1, <3>1 DEF Recurs
  <2>2. CASE s # {}
    <3> DEFINE x == Pick(s)
               r == s \ {x}
    <3>1. x \in s
      BY <1>1, <2>2
    <3>2. Cardinality(r) = Cardinality(s) - 1
      BY <3>1, FS_RemoveElement, FS_Subset
    <3>3. Cardinality(s) \in 1 .. N
      BY <2>2, <1>7, FS_EmptySet, FS_Subset
    <3>4. h[Cardinality(s)][s] = f[x] + h[Cardinality(s) - 1][r]
      BY <1>6, <3>3, <2>2
    <3> QED  BY <2>2, <3>2, <3>4
  <2> QED  BY <2>1, <2>2
<1>10. Iterates(g, f, U)
  <2> HIDE DEF g
  <2> QED  BY <1>8, <1>9 DEF Iterates
<1> QED
  <2> HIDE DEF g
  <2> QED  BY <1>8, <1>10

\* Two such functions agree wherever both are defined.
LEMMA IterationUnique ==
  ASSUME NEW f, NEW U, IsFiniteSet(U), NEW W \in SUBSET U,
         NEW g, Iterates(g, f, U), NEW h, Iterates(h, f, W), NEW s \in SUBSET W
  PROVE  g[s] = h[s]
<1> DEFINE S == {n \in Nat : \A r \in SUBSET W : Cardinality(r) = n => g[r] = h[r]}
<1>1. \A r \in SUBSET W :
        /\ g[r] = IF r = {} THEN 0 ELSE f[Pick(r)] + g[r \ {Pick(r)}]
        /\ h[r] = IF r = {} THEN 0 ELSE f[Pick(r)] + h[r \ {Pick(r)}]
  BY Zenon DEF Iterates
<1>2. \A r \in SUBSET W : IsFiniteSet(r) /\ Cardinality(r) \in Nat
  BY FS_Subset, FS_CardinalityType
<1>3. 0 \in S
  BY <1>1, <1>2, FS_EmptySet
<1>4. ASSUME NEW n \in Nat, n \in S
      PROVE  n + 1 \in S
  <2> SUFFICES ASSUME NEW r \in SUBSET W, Cardinality(r) = n + 1
               PROVE  g[r] = h[r]
    OBVIOUS
  <2> DEFINE q == r \ {Pick(r)}
  <2>1. r # {}
    BY FS_EmptySet
  <2>2. Pick(r) \in r
    BY <2>1 DEF Pick
  <2>3. Cardinality(q) = n
    BY <1>2, <2>2, FS_RemoveElement
  <2>4. g[q] = h[q]
    BY <1>4, <2>3
  <2> QED  BY <1>1, <2>1, <2>4
<1>5. Nat \subseteq S
  <2> HIDE DEF S
  <2> QED  BY <1>3, <1>4, Induction
<1> QED  BY <1>2, <1>5

\* The community module's sum over a finite set, by elements.
LEMMA SumByElements ==
  ASSUME NEW f, NEW U, IsFiniteSet(U), f \in [U -> Nat], NEW W \in SUBSET U
  PROVE  /\ SumFunctionOnSet(f, W) \in Nat
         /\ W = {} => SumFunctionOnSet(f, W) = 0
         /\ W # {} => SumFunctionOnSet(f, W) = f[Pick(W)] + SumFunctionOnSet(f, W \ {Pick(W)})
<1>1. PICK g \in [SUBSET U -> Nat] : Iterates(g, f, U)
  BY IterationExists
<1>2. ASSUME NEW r \in SUBSET U
      PROVE  SumFunctionOnSet(f, r) = g[r]
  <2> DEFINE h == CHOOSE h : Iterates(h, f, r)
  <2>1. IsFiniteSet(r) /\ \A q \in SUBSET r : q \in SUBSET U
    BY FS_Subset
  <2>2. Iterates([q \in SUBSET r |-> g[q]], f, r)
    <3>1. \A q \in SUBSET r : g[q] = IF q = {} THEN 0 ELSE f[Pick(q)] + g[q \ {Pick(q)}]
      BY <1>1, <2>1, Zenon DEF Iterates
    <3> QED  BY <3>1 DEF Iterates
  <2>3. Iterates(h, f, r)
    BY <2>2
  <2>4. g[r] = h[r]
    <3> HIDE DEF h
    <3> QED  BY <1>1, <2>3, IterationUnique
  <2> QED  BY <2>4 DEF SumFunctionOnSet, FoldFunctionOnSet, MapThenFoldSet, Iterates, Pick
<1>3. g[W] = IF W = {} THEN 0 ELSE f[Pick(W)] + g[W \ {Pick(W)}]
  BY <1>1, Zenon DEF Iterates
<1> QED  BY <1>1, <1>2, <1>3

\* The order in which it adds does not matter.
LEMMA SumAdds ==
  ASSUME NEW f, NEW U, IsFiniteSet(U), f \in [U -> Nat], NEW W \in SUBSET U, NEW x \in U \ W
  PROVE  SumFunctionOnSet(f, W \cup {x}) = f[x] + SumFunctionOnSet(f, W)
<1> DEFINE Sum(r) == SumFunctionOnSet(f, r)
           S == {n \in Nat : \A r \in SUBSET U : \A y \in U \ r :
                               Cardinality(r) = n => Sum(r \cup {y}) = f[y] + Sum(r)}
<1>1. \A r \in SUBSET U : /\ Sum(r) \in Nat
                          /\ r = {} => Sum(r) = 0
                          /\ r # {} => Sum(r) = f[Pick(r)] + Sum(r \ {Pick(r)})
  BY SumByElements
<1>2. \A r \in SUBSET U : IsFiniteSet(r) /\ Cardinality(r) \in Nat
  BY FS_Subset, FS_CardinalityType
<1>0. \A r : r # {} => Pick(r) \in r
  BY DEF Pick
<1> HIDE DEF Sum
<1>3. 0 \in S
  <2> SUFFICES ASSUME NEW r \in SUBSET U, NEW y \in U \ r, Cardinality(r) = 0
               PROVE  Sum(r \cup {y}) = f[y] + Sum(r)
    OBVIOUS
  <2>1. r = {}
    BY <1>2, FS_EmptySet
  <2>2. Pick({y}) = y
    BY <1>0
  <2>3. Sum({y}) = f[Pick({y})] + Sum({y} \ {Pick({y})})
    BY <1>1
  <2>4. {y} \ {y} = {} /\ r \cup {y} = {y}
    BY <2>1
  <2> QED  BY <2>1, <2>2, <2>3, <2>4
<1>4. ASSUME NEW n \in Nat, n \in S
      PROVE  n + 1 \in S
  <2> SUFFICES ASSUME NEW r \in SUBSET U, NEW y \in U \ r, Cardinality(r) = n + 1
               PROVE  Sum(r \cup {y}) = f[y] + Sum(r)
    OBVIOUS
  <2> DEFINE t == r \cup {y}
             z == Pick(t)
  <2>1. z \in t /\ t \in SUBSET U
    BY <1>0
  <2>2. Sum(t) = f[z] + Sum(t \ {z})
    BY <1>1, <2>1
  <2>3. CASE z = y
    <3>1. t \ {z} = r
      BY <2>3
    <3> QED  BY <2>2, <2>3, <3>1
  <2>4. CASE z # y
    <3> DEFINE q == r \ {z}
    <3> HIDE DEF z
    <3>1. z \in r /\ q \in SUBSET U /\ z \in U \ q /\ y \in U \ q
      BY <2>1, <2>4
    <3>2. Cardinality(q) = n
      BY <1>2, <3>1, FS_RemoveElement
    <3>3. Sum(q \cup {z}) = f[z] + Sum(q) /\ Sum(q \cup {y}) = f[y] + Sum(q)
      BY <1>4, <3>1, <3>2
    <3>4. q \cup {z} = r /\ q \cup {y} = t \ {z}
      BY <3>1, <2>4
    <3>5. f[z] \in Nat /\ f[y] \in Nat /\ Sum(q) \in Nat
      BY <1>1, <3>1
    <3>6. Sum(r) = f[z] + Sum(q) /\ Sum(t \ {z}) = f[y] + Sum(q)
      BY <3>3, <3>4
    <3>7. Sum(t) = f[y] + Sum(r)
      <4> HIDE DEF q, t
      <4> QED  BY <2>2, <3>5, <3>6
    <3> QED  BY <3>7
  <2> QED  BY <2>3, <2>4
<1>5. Nat \subseteq S
  <2> HIDE DEF S
  <2> QED  BY <1>3, <1>4, Induction
<1> QED  BY <1>2, <1>5 DEF Sum

\* Induction over the subsets of a finite set.
LEMMA SubsetInduction ==
  ASSUME NEW U, IsFiniteSet(U), NEW S, {} \in S,
         \A W \in SUBSET U : \A x \in U \ W : W \in S => W \cup {x} \in S
  PROVE  SUBSET U \subseteq S
<1> DEFINE N == {n \in Nat : \A W \in SUBSET U : Cardinality(W) = n => W \in S}
<1>1. \A W \in SUBSET U : IsFiniteSet(W) /\ Cardinality(W) \in Nat
  BY FS_Subset, FS_CardinalityType
<1>2. 0 \in N
  BY <1>1, FS_EmptySet
<1>3. ASSUME NEW n \in Nat, n \in N
      PROVE  n + 1 \in N
  <2> SUFFICES ASSUME NEW W \in SUBSET U, Cardinality(W) = n + 1
               PROVE  W \in S
    OBVIOUS
  <2>0. W # {}
    BY <1>1, FS_EmptySet
  <2>1. PICK x : x \in W
    BY <2>0
  <2> DEFINE R == W \ {x}
  <2>2. Cardinality(R) = n
    <3>1. IsFiniteSet(W)
      BY <1>1
    <3>2. Cardinality(R) = Cardinality(W) - 1
      BY <2>1, <3>1, FS_RemoveElement
    <3> QED  BY <3>2
  <2>3. R \in SUBSET U /\ x \in U \ R /\ R \cup {x} = W
    BY <2>1
  <2> HIDE DEF R
  <2>4. R \in S
    BY <1>3, <2>2, <2>3
  <2> QED  BY <2>3, <2>4
<1>4. Nat \subseteq N
  <2> HIDE DEF N
  <2> QED  BY <1>2, <1>3, Induction
<1> QED  BY <1>1, <1>4

\* More elements sum to more.
LEMMA SumMonotone ==
  ASSUME NEW f, NEW U, IsFiniteSet(U), f \in [U -> Nat],
         NEW W \in SUBSET U, NEW R \in SUBSET W
  PROVE  SumFunctionOnSet(f, R) <= SumFunctionOnSet(f, W)
<1> DEFINE Sum(X) == SumFunctionOnSet(f, X)
           S == {X \in SUBSET U : Sum(R) <= Sum(R \cup X)}
<1>1. \A X \in SUBSET U : Sum(X) \in Nat
  BY SumByElements
<1>2. \A X \in SUBSET U : \A x \in U \ X : Sum(X \cup {x}) = f[x] + Sum(X)
  BY SumAdds
<1> HIDE DEF Sum
<1>3. {} \in S
  <2>1. R \cup {} = R /\ R \in SUBSET U
    OBVIOUS
  <2> QED  BY <1>1, <2>1
<1>4. ASSUME NEW X \in SUBSET U, NEW x \in U \ X, X \in S
      PROVE  X \cup {x} \in S
  <2>1. R \cup (X \cup {x}) = (R \cup X) \cup {x}
    OBVIOUS
  <2>2. CASE x \in R
    <3>1. R \cup (X \cup {x}) = R \cup X
      BY <2>2
    <3> QED  BY <1>4, <3>1
  <2>3. CASE x \notin R
    <3>1. R \cup X \in SUBSET U /\ x \in U \ (R \cup X) /\ R \in SUBSET U
      BY <2>3
    <3>2. Sum((R \cup X) \cup {x}) = f[x] + Sum(R \cup X)
      BY <1>2, <3>1
    <3>3. f[x] \in Nat /\ Sum(R \cup X) \in Nat /\ Sum(R) \in Nat
      BY <1>1, <3>1
    <3>4. Sum(R) <= Sum(R \cup X)
      BY <1>4
    <3>5. Sum(R) <= Sum((R \cup X) \cup {x})
      BY <3>2, <3>3, <3>4
    <3> QED  BY <2>1, <3>5
  <2> QED  BY <2>2, <2>3
<1>5. W \in S
  <2> HIDE DEF S
  <2> QED  BY <1>3, <1>4, SubsetInduction
<1>6. R \cup W = W
  OBVIOUS
<1> QED  BY <1>5, <1>6 DEF Sum

\* Multiplying from the left keeps the order.
LEMMA ProductMonotone == \A c, m, n \in Nat : m <= n => c * m <= c * n
OBVIOUS

\* What is bounded element by element is bounded in sum.
LEMMA SumBounded ==
  ASSUME NEW U, IsFiniteSet(U), NEW f \in [U -> Nat], NEW g \in [U -> Nat], NEW c \in Nat,
         \A x \in U : f[x] <= c * g[x], NEW W \in SUBSET U
  PROVE  SumFunctionOnSet(f, W) <= c * SumFunctionOnSet(g, W)
<1> DEFINE F(X) == SumFunctionOnSet(f, X)
           G(X) == SumFunctionOnSet(g, X)
           S == {X \in SUBSET U : F(X) <= c * G(X)}
<1>1. \A X \in SUBSET U : F(X) \in Nat /\ G(X) \in Nat
  BY SumByElements
<1>2. \A X \in SUBSET U : \A x \in U \ X : F(X \cup {x}) = f[x] + F(X)
        /\ G(X \cup {x}) = g[x] + G(X)
  BY SumAdds
<1>3. F({}) = 0 /\ G({}) = 0
  BY SumByElements
<1> HIDE DEF F, G
<1>4. {} \in S
  BY <1>3
<1>5. ASSUME NEW X \in SUBSET U, NEW x \in U \ X, X \in S
      PROVE  X \cup {x} \in S
  <2>1. f[x] \in Nat /\ g[x] \in Nat /\ F(X) \in Nat /\ G(X) \in Nat
    BY <1>1
  <2>2. c * (g[x] + G(X)) = c * g[x] + c * G(X)
    BY <2>1
  <2>3. f[x] + F(X) <= c * g[x] + c * G(X)
    <3>1. c * g[x] \in Nat /\ c * G(X) \in Nat
      BY <2>1
    <3>2. f[x] <= c * g[x] /\ F(X) <= c * G(X)
      BY <1>5
    <3> QED  BY <2>1, <3>1, <3>2
  <2>4. F(X \cup {x}) = f[x] + F(X) /\ G(X \cup {x}) = g[x] + G(X)
    BY <1>2
  <2>5. F(X \cup {x}) <= c * G(X \cup {x})
    BY <2>2, <2>3, <2>4
  <2> QED  BY <2>5
<1>6. W \in S
  <2> HIDE DEF S
  <2> QED  BY <1>4, <1>5, SubsetInduction
<1> QED  BY <1>6 DEF F, G

-----------------------------------------------------------------------------
(* The memory of a session.                                                *)

\* The constants of the memory are as the model assumes.
LEMMA MemoryAssumption == Memory!BudgetAssumption /\ Memory!LengthsAssumption
BY RecordsAssumption, Zenon

\* What the scan may hold: any positions, what they cost together, and whether it is full.
Scans == [kept : SUBSET Int, used : Nat, full : BOOLEAN]

\* The scan over some lines, step by step from the newest.
ScanAt(f, lines, k) ==
  IF k = 0 THEN [kept |-> {}, used |-> 0, full |-> FALSE]
  ELSE Memory!Take(f[k - 1], Len(lines) - k + 1, Memory!Estimate(lines[Len(lines) - k + 1]))
Scanned(f, lines) == f = [k \in 0 .. Len(lines) |-> ScanAt(f, lines, k)]

\* estimate_tokens() charges every character.
LEMMA EstimateType ==
  ASSUME NEW l \in Nat
  PROVE  Memory!Estimate(l) \in Nat /\ l <= CharsPerToken * Memory!Estimate(l)
BY MemoryAssumption DEF Memory!Estimate, Memory!BudgetAssumption

\* The body of the loop leaves a scan.
LEMMA TakeType ==
  ASSUME NEW scan \in Scans, NEW i \in Int, NEW cost \in Nat
  PROVE  Memory!Take(scan, i, cost) \in Scans
<1>1. scan.kept \in SUBSET Int /\ scan.used \in Nat /\ scan.full \in BOOLEAN
  BY DEF Scans
<1>2. [scan EXCEPT !.full = TRUE] \in Scans
  BY DEF Scans
<1>3. [scan EXCEPT !.kept = @ \cup {i}, !.used = @ + cost] \in Scans
  <2>1. scan.kept \cup {i} \in SUBSET Int /\ scan.used + cost \in Nat
    BY <1>1
  <2> QED  BY <2>1 DEF Scans
<1> QED  BY <1>2, <1>3 DEF Memory!Take

\* What the body of the loop changes.
LEMMA TakeResult ==
  ASSUME NEW scan \in Scans, NEW i \in Int, NEW cost \in Nat
  PROVE  LET next == Memory!Take(scan, i, cost)
         IN  IF scan.full \/ (scan.kept # {} /\ scan.used + cost > Budget)
             THEN next.full /\ next.kept = scan.kept
             ELSE next.full = scan.full /\ next.kept = scan.kept \cup {i}
               /\ next.used = scan.used + cost
BY DEF Scans, Memory!Take

\* The model's loop is such a scan.
LEMMA KeptScanned ==
  ASSUME NEW lines
  PROVE  Memory!Kept(lines) = (CHOOSE f : Scanned(f, lines))[Len(lines)].kept
BY DEF Memory!Kept, Scanned, ScanAt

\* There is a scan over any lines.
LEMMA ScanExists ==
  ASSUME NEW lines \in Seq(Nat)
  PROVE  \E f \in [0 .. Len(lines) -> Scans] : Scanned(f, lines)
<1> DEFINE n == Len(lines)
           c == [kept |-> {}, used |-> 0, full |-> FALSE]
           at(k) == n - k + 1
           step == [p \in Scans \X Nat |->
                      IF p[2] \in 1 .. n
                        THEN Memory!Take(p[1], at(p[2]), Memory!Estimate(lines[at(p[2])]))
                      ELSE p[1]]
<1>1. c \in Scans /\ n \in Nat
  BY DEF Scans
<1>2. step \in [Scans \X Nat -> Scans]
  <2> SUFFICES ASSUME NEW scan \in Scans, NEW k \in 1 .. n
               PROVE  Memory!Take(scan, at(k), Memory!Estimate(lines[at(k)])) \in Scans
    OBVIOUS
  <2>1. at(k) \in Int /\ lines[at(k)] \in Nat
    BY <1>1
  <2>2. Memory!Estimate(lines[at(k)]) \in Nat
    BY <2>1, EstimateType
  <2> HIDE DEF at
  <2> QED  BY <2>1, <2>2, TakeType
<1>3. PICK f \in [0 .. n -> Scans] : Recurs(f, c, step, n)
  <2> HIDE DEF n, c, step
  <2> QED  BY <1>1, <1>2, Recursion, Zenon
<1>4. ASSUME NEW k \in 1 .. n
      PROVE  f[k] = Memory!Take(f[k - 1], at(k), Memory!Estimate(lines[at(k)]))
  <2>1. k - 1 \in 0 .. n /\ k \in Nat
    BY <1>1
  <2>2. f[k - 1] \in Scans /\ f[k] = step[<<f[k - 1], k>>]
    BY <1>3, <2>1 DEF Recurs
  <2> QED  BY <2>1, <2>2
<1>5. f[0] = c
  BY <1>3 DEF Recurs
<1>6. \A k \in 0 .. n : f[k] = ScanAt(f, lines, k)
  <2> TAKE k \in 0 .. n
  <2>1. CASE k = 0
    BY <1>5, <2>1 DEF ScanAt
  <2>2. CASE k # 0
    <3>1. k \in 1 .. n
      BY <1>1, <2>2
    <3>2. f[k] = Memory!Take(f[k - 1], at(k), Memory!Estimate(lines[at(k)]))
      BY <1>4, <3>1
    <3> QED  BY <2>2, <3>2 DEF ScanAt
  <2> QED  BY <2>1, <2>2
<1>7. Scanned(f, lines)
  BY <1>6 DEF Scanned
<1> QED  BY <1>7

\* What the lines from position i on cost.
CostFrom(lines, i) == Memory!TotalOf(Memory!Costs(lines), i .. Len(lines))

\* Every line has a cost, and no more characters than that pays for.
LEMMA CostsType ==
  ASSUME NEW lines \in Seq(Nat)
  PROVE  /\ Memory!Costs(lines) \in [1 .. Len(lines) -> Nat]
         /\ \A i \in 1 .. Len(lines) :
              /\ Memory!Costs(lines)[i] = Memory!Estimate(lines[i])
              /\ lines[i] <= CharsPerToken * Memory!Costs(lines)[i]
<1>1. DOMAIN lines = 1 .. Len(lines) /\ \A i \in 1 .. Len(lines) : lines[i] \in Nat
  OBVIOUS
<1> QED  BY <1>1, EstimateType DEF Memory!Costs

\* The model's sum is that of the community module.
LEMMA SumInMemory ==
  ASSUME NEW f, NEW U
  PROVE  Memory!TotalOf(f, U) = SumFunctionOnSet(f, U)
BY DEF Memory!TotalOf, Memory!SumFunctionOnSet, Memory!FoldFunctionOnSet, Memory!MapThenFoldSet,
       SumFunctionOnSet, FoldFunctionOnSet, MapThenFoldSet

\* The model counts as this module does.
LEMMA CardinalityInMemory == \A S : Memory!Cardinality(S) = Cardinality(S)
BY DEF Memory!Cardinality, Cardinality

\* The costs from a line on add up from the last line, and earlier ones cost no less.
LEMMA CostFromLines ==
  ASSUME NEW lines \in Seq(Nat)
  PROVE  /\ \A i \in Nat \ {0} : CostFrom(lines, i) \in Nat
         /\ CostFrom(lines, Len(lines) + 1) = 0
         /\ \A i \in 1 .. Len(lines) :
              CostFrom(lines, i) = Memory!Estimate(lines[i]) + CostFrom(lines, i + 1)
         /\ \A i, j \in Nat \ {0} : i <= j => CostFrom(lines, j) <= CostFrom(lines, i)
<1> DEFINE n == Len(lines)
           U == 1 .. n
           C == Memory!Costs(lines)
<1>1. IsFiniteSet(U) /\ C \in [U -> Nat] /\ n \in Nat
  BY FS_Interval, CostsType
<1> HIDE DEF C
<1>2. \A i \in Nat \ {0} : CostFrom(lines, i) = SumFunctionOnSet(C, i .. n) /\ i .. n \in SUBSET U
  BY SumInMemory DEF CostFrom, C
<1>3. \A i \in Nat \ {0} : CostFrom(lines, i) \in Nat
  BY <1>1, <1>2, SumByElements
<1>4. CostFrom(lines, n + 1) = 0
  <2>1. n + 1 .. n = {} /\ n + 1 \in Nat \ {0}
    BY <1>1
  <2> QED  BY <1>1, <1>2, <2>1, SumByElements
<1>5. ASSUME NEW i \in U
      PROVE  CostFrom(lines, i) = Memory!Estimate(lines[i]) + CostFrom(lines, i + 1)
  <2>1. i .. n = (i + 1 .. n) \cup {i} /\ i \in U \ (i + 1 .. n) /\ i + 1 .. n \in SUBSET U
    BY <1>1
  <2>2. SumFunctionOnSet(C, i .. n) = C[i] + SumFunctionOnSet(C, i + 1 .. n)
    <3> DEFINE R == i + 1 .. n
    <3>1. R \in SUBSET U /\ i \in U \ R /\ i .. n = R \cup {i}
      BY <2>1
    <3> HIDE DEF U, R
    <3>2. SumFunctionOnSet(C, R \cup {i}) = C[i] + SumFunctionOnSet(C, R)
      BY <1>1, <3>1, SumAdds
    <3> QED  BY <3>1, <3>2 DEF R
  <2>3. C[i] = Memory!Estimate(lines[i])
    BY CostsType DEF C
  <2>4. i \in Nat \ {0} /\ i + 1 \in Nat \ {0}
    BY <1>1
  <2> QED  BY <1>2, <2>2, <2>3, <2>4
<1>6. ASSUME NEW i \in Nat \ {0}, NEW j \in Nat \ {0}, i <= j
      PROVE  CostFrom(lines, j) <= CostFrom(lines, i)
  <2>1. j .. n \in SUBSET (i .. n)
    BY <1>1, <1>6
  <2> QED  BY <1>1, <1>2, <2>1, SumMonotone
<1> QED  BY <1>3, <1>4, <1>5, <1>6

\* The scan after k lines: it has kept all of them, or it is full at a line that did not fit.
Scanning(scan, lines, k) ==
  LET a == Len(lines) - k + 1
  IN  /\ ~ scan.full
      /\ scan.kept = a .. Len(lines)
      /\ scan.used = CostFrom(lines, a)
      /\ k > 1 => CostFrom(lines, a) <= Budget
Filled(scan, lines) ==
  /\ scan.full
  /\ \E a \in 2 .. Len(lines) :
       /\ scan.kept = a .. Len(lines)
       /\ a # Len(lines) => CostFrom(lines, a) <= Budget
       /\ CostFrom(lines, a - 1) > Budget

\* One round of the loop, whatever came before.
LEMMA ScanStep ==
  ASSUME NEW lines \in Seq(Nat), NEW k \in 0 .. Len(lines) - 1, NEW scan \in Scans,
         Scanning(scan, lines, k) \/ Filled(scan, lines)
  PROVE  LET next == Memory!Take(scan, Len(lines) - k, Memory!Estimate(lines[Len(lines) - k]))
         IN  Scanning(next, lines, k + 1) \/ Filled(next, lines)
<1> DEFINE n == Len(lines)
           a == n - k + 1
           i == n - k
           cost == Memory!Estimate(lines[i])
           next == Memory!Take(scan, i, cost)
<1>1. /\ n \in Nat /\ a \in Nat /\ i \in Nat /\ k \in Nat
      /\ a = n - k + 1 /\ i = n - k /\ a >= 2 /\ a <= n + 1 /\ i > 0 /\ i <= n
  OBVIOUS
<1>2. CostFrom(lines, i) = cost + CostFrom(lines, i + 1) /\ cost \in Nat
  <2>1. \A j \in 1 .. n : CostFrom(lines, j) = Memory!Estimate(lines[j]) + CostFrom(lines, j + 1)
    BY CostFromLines
  <2>2. i \in 1 .. n /\ lines[i] \in Nat
    BY <1>1
  <2> HIDE DEF i, n
  <2> QED  BY <2>1, <2>2, EstimateType
<1>3. CostFrom(lines, a) \in Nat /\ CostFrom(lines, i) \in Nat
  <2>1. \A j \in Nat \ {0} : CostFrom(lines, j) \in Nat
    BY CostFromLines
  <2> HIDE DEF n, a, i, cost, next
  <2>2. a \in Nat \ {0} /\ i \in Nat \ {0}
    BY <1>1
  <2> QED  BY <2>1, <2>2
<1>4. IF scan.full \/ (scan.kept # {} /\ scan.used + cost > Budget)
      THEN next.full /\ next.kept = scan.kept
      ELSE next.full = scan.full /\ next.kept = scan.kept \cup {i} /\ next.used = scan.used + cost
  <2> HIDE DEF cost
  <2> QED  BY <1>1, <1>2, TakeResult
<1> SUFFICES Scanning(next, lines, k + 1) \/ Filled(next, lines)
  OBVIOUS
<1> HIDE DEF n, a, i, cost, next
<1>5. CASE Filled(scan, lines)
  <2>1. next.full /\ next.kept = scan.kept
    BY <1>4, <1>5 DEF Filled
  <2> QED  BY <1>5, <2>1 DEF Filled
<1>6. CASE Scanning(scan, lines, k)
  <2>1. /\ ~ scan.full /\ scan.kept = a .. n /\ scan.used = CostFrom(lines, a)
        /\ k > 1 => CostFrom(lines, a) <= Budget
    BY <1>6 DEF Scanning, a, n
  <2>2. scan.kept = {} <=> k = 0
    <3>1. k = 0 => a .. n = {}
      BY <1>1
    <3>2. k # 0 => n \in a .. n
      BY <1>1
    <3> QED  BY <2>1, <3>1, <3>2
  <2>3. CostFrom(lines, i) = scan.used + cost
    BY <1>1, <1>2, <1>3, <2>1
  <2>4. CASE k # 0 /\ CostFrom(lines, i) > Budget
    <3>1. next.full /\ next.kept = a .. n
      BY <1>4, <2>1, <2>2, <2>3, <2>4
    <3>2. a \in 2 .. n /\ (a # n => k > 1) /\ a - 1 = i
      BY <1>1, <2>4
    <3>3. Filled(next, lines)
      BY <2>1, <2>4, <3>1, <3>2 DEF Filled, n
    <3> QED  BY <3>3
  <2>5. CASE k = 0 \/ ~ (CostFrom(lines, i) > Budget)
    <3>1. ~ next.full /\ next.kept = scan.kept \cup {i} /\ next.used = scan.used + cost
      BY <1>4, <2>1, <2>2, <2>3, <2>5
    <3>2. (a .. n) \cup {i} = i .. n
      BY <1>1
    <3>3. n - (k + 1) + 1 = i
      BY <1>1
    <3>4. k + 1 > 1 => (CostFrom(lines, i) <= Budget \/ k = 0)
      BY <1>1, <1>3, <2>5, MemoryAssumption DEF Memory!BudgetAssumption
    <3>5. next.kept = i .. n /\ next.used = CostFrom(lines, i)
      BY <2>1, <2>3, <3>1, <3>2
    <3>6. Scanning(next, lines, k + 1)
      BY <1>1, <3>1, <3>3, <3>4, <3>5 DEF Scanning, n
    <3> QED  BY <3>6
  <2> QED  BY <2>4, <2>5
<1> QED  BY <1>5, <1>6

\* The whole loop.
LEMMA LoopResult ==
  ASSUME NEW lines \in Seq(Nat)
  PROVE  \E scan \in Scans : /\ Memory!Kept(lines) = scan.kept
                             /\ Scanning(scan, lines, Len(lines)) \/ Filled(scan, lines)
<1> DEFINE n == Len(lines)
           f == CHOOSE f : Scanned(f, lines)
<1>1. Scanned(f, lines)
  BY ScanExists
<1>2. n \in Nat
  OBVIOUS
<1> HIDE DEF f
<1>10. \A k \in 0 .. n : f[k] = ScanAt(f, lines, k)
  BY <1>1, Zenon DEF Scanned
<1>3. f[0] = [kept |-> {}, used |-> 0, full |-> FALSE]
  BY <1>10, <1>2 DEF ScanAt
<1>4. \A k \in 1 .. n : f[k] = Memory!Take(f[k - 1], n - k + 1, Memory!Estimate(lines[n - k + 1]))
  <2> TAKE k \in 1 .. n
  <2>1. k \in 0 .. n /\ k # 0
    BY <1>2
  <2> QED  BY <1>10, <2>1 DEF ScanAt
<1> DEFINE Holds(k) == f[k] \in Scans /\ (Scanning(f[k], lines, k) \/ Filled(f[k], lines))
           S == {k \in Nat : k <= n => Holds(k)}
<1>5. 0 \in S
  <2>1. f[0] \in Scans
    BY <1>3 DEF Scans
  <2>2. CostFrom(lines, n - 0 + 1) = 0
    BY <1>2, CostFromLines
  <2>3. n - 0 + 1 .. n = {}
    BY <1>2
  <2>4. Scanning(f[0], lines, 0)
    BY <1>3, <2>2, <2>3 DEF Scanning
  <2> QED  BY <2>1, <2>4
<1>6. ASSUME NEW k \in Nat, k \in S
      PROVE  k + 1 \in S
  <2> SUFFICES ASSUME k + 1 <= n
               PROVE  Holds(k + 1)
    OBVIOUS
  <2>1. Holds(k) /\ k \in 0 .. n - 1
    BY <1>2, <1>6
  <2>2. n - (k + 1) + 1 = n - k /\ (k + 1) - 1 = k /\ k + 1 \in 1 .. n /\ n - k \in 1 .. n
    BY <1>2
  <2>3. f[k + 1] = Memory!Take(f[k], n - k, Memory!Estimate(lines[n - k]))
    BY <1>4, <2>2
  <2>4. f[k + 1] \in Scans
    <3>1. lines[n - k] \in Nat /\ n - k \in Int
      BY <2>2
    <3>2. Memory!Estimate(lines[n - k]) \in Nat
      BY <3>1, EstimateType
    <3> QED  BY <2>1, <2>3, <3>1, <3>2, TakeType
  <2>5. Scanning(f[k + 1], lines, k + 1) \/ Filled(f[k + 1], lines)
    BY <2>1, <2>3, ScanStep
  <2> QED  BY <2>4, <2>5
<1>7. Holds(n)
  <2>1. Nat \subseteq S
    <3> HIDE DEF S
    <3> QED  BY <1>5, <1>6, Induction
  <2> QED  BY <1>2, <2>1
<1>8. Memory!Kept(lines) = f[n].kept
  BY KeptScanned DEF f
<1> QED  BY <1>7, <1>8

\* What the loop keeps, for any lines: the last, and every line from which on all fit.
LEMMA LoopKeeps ==
  ASSUME NEW lines \in Seq(Nat)
  PROVE  /\ Memory!Kept(lines) =
              {i \in 1 .. Len(lines) : i = Len(lines) \/ CostFrom(lines, i) <= Budget}
         /\ lines # << >> => \E a \in 1 .. Len(lines) :
              /\ Memory!Kept(lines) = a .. Len(lines)
              /\ a = Len(lines) \/ CostFrom(lines, a) <= Budget
         /\ lines = << >> => Memory!Kept(lines) = {}
<1> DEFINE n == Len(lines)
<1>1. PICK scan \in Scans : /\ Memory!Kept(lines) = scan.kept
                            /\ Scanning(scan, lines, n) \/ Filled(scan, lines)
  BY LoopResult
<1>2. n \in Nat /\ (lines = << >> <=> n = 0)
  OBVIOUS
<1>3. \A i, j \in Nat \ {0} : i <= j => CostFrom(lines, j) <= CostFrom(lines, i)
  BY CostFromLines
<1>4. \A i \in Nat \ {0} : CostFrom(lines, i) \in Nat
  BY CostFromLines
<1>5. Budget \in Nat
  BY MemoryAssumption DEF Memory!BudgetAssumption
<1> HIDE DEF n
<1>6. CASE Scanning(scan, lines, n)
  <2>1. scan.kept = 1 .. n /\ (n > 1 => CostFrom(lines, 1) <= Budget)
    BY <1>2, <1>6 DEF Scanning, n
  <2>2. \A i \in 1 .. n : i = n \/ CostFrom(lines, i) <= Budget
    <3> SUFFICES ASSUME NEW i \in 1 .. n, i # n
                 PROVE  CostFrom(lines, i) <= Budget
      OBVIOUS
    <3>1. n > 1 /\ i \in Nat \ {0} /\ 1 \in Nat \ {0} /\ 1 <= i
      BY <1>2
    <3>2. CostFrom(lines, i) <= CostFrom(lines, 1) /\ CostFrom(lines, 1) <= Budget
      BY <1>3, <2>1, <3>1
    <3> QED  BY <1>4, <1>5, <3>1, <3>2
  <2>3. n # 0 => 1 \in 1 .. n
    BY <1>2
  <2>4. n = 0 => 1 .. n = {}
    OBVIOUS
  <2> QED  BY <1>1, <1>2, <2>1, <2>2, <2>3, <2>4 DEF n
<1>7. CASE Filled(scan, lines)
  <2>1. PICK a \in 2 .. n : /\ scan.kept = a .. n
                            /\ a # n => CostFrom(lines, a) <= Budget
                            /\ CostFrom(lines, a - 1) > Budget
    BY <1>7 DEF Filled, n
  <2>2. a \in 1 .. n /\ n # 0 /\ a \in Nat \ {0} /\ a - 1 \in Nat \ {0}
    BY <1>2
  <2>3. ASSUME NEW i \in 1 .. n
        PROVE  i \in a .. n <=> (i = n \/ CostFrom(lines, i) <= Budget)
    <3>1. i \in Nat \ {0} /\ CostFrom(lines, i) \in Nat /\ CostFrom(lines, a) \in Nat
            /\ CostFrom(lines, a - 1) \in Nat
      BY <1>4, <2>2
    <3>2. CASE i >= a
      <4>1. CostFrom(lines, i) <= CostFrom(lines, a)
        BY <1>3, <2>2, <3>1, <3>2
      <4>2. i = n \/ a # n
        BY <1>2, <2>2, <3>2
      <4> QED  BY <1>5, <2>1, <2>2, <3>1, <3>2, <4>1, <4>2
    <3>3. CASE ~ (i >= a)
      <4>1. i <= a - 1 /\ i # n /\ i \notin a .. n
        BY <1>2, <2>2, <3>1, <3>3
      <4>2. CostFrom(lines, a - 1) <= CostFrom(lines, i)
        BY <1>3, <2>2, <3>1, <4>1
      <4> QED  BY <1>5, <2>1, <3>1, <4>1, <4>2
    <3> QED  BY <3>2, <3>3
  <2>4. a .. n \subseteq 1 .. n
    BY <2>2
  <2> QED  BY <1>1, <1>2, <2>1, <2>2, <2>3, <2>4 DEF n
<1> QED  BY <1>1, <1>6, <1>7

\* The memory was built from the turns there are.
Rebuilt ==
  /\ turns \in Seq(Nat)
  /\ memory = Memory!Build(turns)

\* Every turn rebuilds the memory from all turns.
LEMMA RebuiltCorrect == Memory!Spec => []Rebuilt
<1>1. Memory!Init => Rebuilt
  BY DEF Memory!Init, Rebuilt
<1>2. Rebuilt /\ [Memory!Next]_<<turns, memory>> => Rebuilt'
  <2> SUFFICES ASSUME Rebuilt, [Memory!Next]_<<turns, memory>>
               PROVE  Rebuilt'
    OBVIOUS
  <2>1. ASSUME NEW length \in Lengths, Memory!AddTurn(length)
        PROVE  Rebuilt'
    <3>1. length \in Nat /\ turns' = Append(turns, length) /\ memory' = Memory!Build(turns')
      BY <2>1, MemoryAssumption DEF Memory!AddTurn, Memory!LengthsAssumption
    <3>2. turns' \in Seq(Nat)
      BY <3>1 DEF Rebuilt
    <3> QED  BY <3>1, <3>2 DEF Rebuilt
  <2>2. CASE UNCHANGED <<turns, memory>>
    BY <2>2 DEF Rebuilt
  <2> QED  BY <2>1, <2>2 DEF Memory!Next
<1> QED  BY <1>1, <1>2, PTL DEF Memory!Spec

\* What is built of any lines.
LEMMA BuildKeeps ==
  ASSUME NEW lines \in Seq(Nat)
  PROVE  LET kept    == Memory!Kept(lines)
             text    == Memory!Build(lines).text
             count   == Cardinality(kept)
             summary == IF count < Len(lines) THEN SummaryLine ELSE 0
         IN  /\ count \in 0 .. Len(lines) /\ (lines # << >> => count > 0)
             /\ Memory!TotalOf(lines, kept) \in Nat
             /\ count > 1 => Memory!TotalOf(lines, kept) <= Budget * CharsPerToken
             /\ text = Memory!TotalOf(lines, kept) + summary
                         + (IF count > 0 THEN count - 1 ELSE 0) + (IF summary > 0 THEN 1 ELSE 0)
<1> DEFINE n == Len(lines)
           U == 1 .. n
           kept == Memory!Kept(lines)
           count == Cardinality(kept)
           total == Memory!TotalOf(lines, kept)
           summary == IF count < n THEN SummaryLine ELSE 0
<1>1. n \in Nat /\ IsFiniteSet(U) /\ lines \in [U -> Nat] /\ (lines = << >> <=> n = 0)
  BY FS_Interval
<1>2. kept \in SUBSET U
  BY LoopKeeps
<1>3. total = SumFunctionOnSet(lines, kept) /\ total \in Nat
  <2> HIDE DEF U, kept
  <2> QED  BY <1>1, <1>2, SumInMemory, SumByElements
<1>4. ASSUME lines # << >>
      PROVE  \E a \in U : /\ kept = a .. n /\ count = n - a + 1
                          /\ count > 1 => CostFrom(lines, a) <= Budget
  <2>1. PICK a \in U : kept = a .. n /\ (a = n \/ CostFrom(lines, a) <= Budget)
    BY <1>4, LoopKeeps
  <2>2. a \in Int /\ n \in Int /\ ~ (a > n)
    BY <1>1
  <2> HIDE DEF kept, n
  <2>3. count = n - a + 1
    BY <2>1, <2>2, FS_Interval
  <2>4. count > 1 => a # n
    BY <2>2, <2>3
  <2> QED  BY <2>1, <2>3, <2>4
<1>5. lines = << >> => count = 0
  BY LoopKeeps, FS_EmptySet
<1>6. count \in 0 .. n /\ (lines # << >> => count > 0)
  BY <1>1, <1>4, <1>5
<1>7. ASSUME count > 1
      PROVE  total <= Budget * CharsPerToken
  <2> DEFINE C == Memory!Costs(lines)
  <2>1. PICK a \in U : kept = a .. n /\ CostFrom(lines, a) <= Budget
    BY <1>4, <1>5, <1>7
  <2>2. C \in [U -> Nat] /\ \A i \in U : lines[i] <= CharsPerToken * C[i]
    BY CostsType
  <2>3. CharsPerToken \in Nat /\ Budget \in Nat
    BY MemoryAssumption DEF Memory!BudgetAssumption
  <2>4. CostFrom(lines, a) = SumFunctionOnSet(C, kept) /\ SumFunctionOnSet(C, kept) \in Nat
    <3>1. CostFrom(lines, a) = SumFunctionOnSet(C, kept)
      BY <2>1, SumInMemory DEF CostFrom
    <3> HIDE DEF C, U, kept
    <3> QED  BY <1>1, <1>2, <2>2, <3>1, SumByElements
  <2>5. total <= CharsPerToken * SumFunctionOnSet(C, kept)
    <3> HIDE DEF C, U, kept
    <3> QED  BY <1>1, <1>2, <1>3, <2>2, <2>3, SumBounded
  <2>6. CharsPerToken * SumFunctionOnSet(C, kept) <= CharsPerToken * Budget
    <3> DEFINE sum == SumFunctionOnSet(C, kept)
    <3>1. sum \in Nat /\ sum <= Budget
      BY <2>1, <2>4
    <3> HIDE DEF sum
    <3>2. CharsPerToken * sum <= CharsPerToken * Budget
      BY <2>3, <3>1, ProductMonotone
    <3> QED  BY <3>2 DEF sum
  <2> HIDE DEF C, U, kept, count, total
  <2>7. /\ CharsPerToken * Budget = Budget * CharsPerToken /\ CharsPerToken * Budget \in Nat
        /\ CharsPerToken * SumFunctionOnSet(C, kept) \in Nat
    BY <2>3, <2>4
  <2> QED  BY <1>3, <2>5, <2>6, <2>7
<1>8. Memory!Build(lines).text = total + summary
        + (IF count > 0 THEN count - 1 ELSE 0) + (IF summary > 0 THEN 1 ELSE 0)
  <2>1. summary \in Nat /\ (count = 0 => summary = 0)
    BY <1>1, <1>5, <1>6, MemoryAssumption DEF Memory!LengthsAssumption
  <2>2. count \in Nat
    BY <1>1, <1>6
  <2> HIDE DEF U
  <2> DEFINE c     == Memory!Cardinality(kept)
             more  == IF c < n THEN SummaryLine ELSE 0
             all   == c + (IF more > 0 THEN 1 ELSE 0)
             words == total + more + (IF all > 0 THEN all - 1 ELSE 0)
  <2>3. c = count
    BY CardinalityInMemory
  <2>4. Memory!Build(lines) = [kept |-> kept, text |-> words]
    BY Zenon DEF Memory!Build
  <2>5. Memory!Build(lines).text = words
    <3> HIDE DEF words, kept
    <3> QED  BY <2>4
  <2>6. more = summary
    BY <2>3
  <2> HIDE DEF n, kept, count, total, summary, c, more
  <2>7. words = total + summary + (IF count > 0 THEN count - 1 ELSE 0)
                + (IF summary > 0 THEN 1 ELSE 0)
    BY <1>3, <2>1, <2>2, <2>3, <2>6
  <2> QED  BY <2>5, <2>7
<1> QED  BY <1>3, <1>6, <1>7, <1>8

\* A memory that is rebuilt from all turns is the newest of them that fit.
LEMMA RebuiltIsTheTail ==
  ASSUME Rebuilt
  PROVE  Memory!KeepsWhatFits /\ Memory!NothingLostUnderBudget /\ Memory!WithinBudget
<1> DEFINE n == Len(turns)
           kept == Memory!Kept(turns)
           count == Cardinality(kept)
           total == Memory!TotalOf(turns, kept)
<1>1. turns \in Seq(Nat) /\ memory.kept = kept /\ memory.text = Memory!Build(turns).text
  <2>3. Memory!Build(turns).kept = kept
    BY DEF Memory!Build
  <2> QED  BY <2>3 DEF Rebuilt
<1>2. n \in Nat /\ DOMAIN turns = 1 .. n /\ (turns = << >> <=> n = 0)
  BY <1>1
<1>3. /\ count \in 0 .. n /\ (turns # << >> => count > 0)
      /\ total \in Nat /\ (count > 1 => total <= Budget * CharsPerToken)
      /\ memory.text = total + (IF count < n THEN SummaryLine ELSE 0)
           + (IF count > 0 THEN count - 1 ELSE 0)
           + (IF (IF count < n THEN SummaryLine ELSE 0) > 0 THEN 1 ELSE 0)
  BY <1>1, BuildKeeps
<1>4. Memory!KeepsWhatFits
  BY <1>1, <1>2, LoopKeeps DEF Memory!KeepsWhatFits, CostFrom
<1>5. Memory!NothingLostUnderBudget
  <2> SUFFICES ASSUME Memory!TotalOf(Memory!Costs(turns), DOMAIN turns) <= Budget
               PROVE  memory.text = Memory!TotalOf(turns, DOMAIN turns)
                                      + (IF turns = << >> THEN 0 ELSE n - 1)
    BY DEF Memory!NothingLostUnderBudget
  <2>1. CostFrom(turns, 1) <= Budget
    BY <1>2 DEF CostFrom
  <2>2. \A i \in 1 .. n : CostFrom(turns, i) <= Budget
    <3> TAKE i \in 1 .. n
    <3>1. i \in Nat \ {0} /\ 1 \in Nat \ {0} /\ 1 <= i
      BY <1>2
    <3>2. CostFrom(turns, i) <= CostFrom(turns, 1) /\ CostFrom(turns, i) \in Nat
            /\ CostFrom(turns, 1) \in Nat
      BY <1>1, <3>1, CostFromLines
    <3> QED  BY <2>1, <3>2, MemoryAssumption DEF Memory!BudgetAssumption
  <2>3. kept = 1 .. n
    BY <1>1, <2>2, LoopKeeps
  <2>4. count = n
    <3>1. 1 \in Int /\ n \in Int /\ (1 > n => n = 0)
      BY <1>2
    <3> HIDE DEF n, kept
    <3> QED  BY <1>2, <2>3, <3>1, FS_Interval
  <2>5. total = Memory!TotalOf(turns, DOMAIN turns)
    BY <1>2, <2>3
  <2> HIDE DEF n, kept, count, total
  <2> QED  BY <1>2, <1>3, <2>4, <2>5
<1>6. Memory!WithinBudget
  <2>1. Budget * CharsPerToken \in Nat /\ SummaryLine \in Nat
    BY MemoryAssumption DEF Memory!BudgetAssumption, Memory!LengthsAssumption
  <2> SUFFICES ASSUME count > 1
               PROVE  memory.text <= Budget * CharsPerToken + count - 1
                                       + (IF count < n THEN SummaryLine + 1 ELSE 0)
    BY <1>1, CardinalityInMemory DEF Memory!WithinBudget
  <2> DEFINE most == Budget * CharsPerToken
  <2> HIDE DEF n, kept, count, total, most
  <2>2. most \in Nat /\ total <= most
    BY <1>3, <2>1 DEF most
  <2>3. memory.text <= most + count - 1 + (IF count < n THEN SummaryLine + 1 ELSE 0)
    BY <1>2, <1>3, <2>1, <2>2
  <2> QED  BY <2>3 DEF most
<1> QED  BY <1>4, <1>5, <1>6

\* Whatever turns a session has, its memory is the newest that fit, whole when all fit, and
\* within the budget as far as the code keeps it (memory.py:32-56).
THEOREM MemoryCorrect ==
  Memory!Spec => [](Memory!KeepsWhatFits /\ Memory!NothingLostUnderBudget /\ Memory!WithinBudget)
BY RebuiltCorrect, RebuiltIsTheTail, PTL

-----------------------------------------------------------------------------
(* Median and 95th percentile.                                             *)

\* The constants of the collectors are as the model assumes.
LEMMA MeasuredAssumption == Measured!BoundsAssumption
BY RecordsAssumption, Zenon

\* The places p puts the values in ascend.
Ascends(p, s) == \A i, j \in DOMAIN s : i < j => s[p[i]] <= s[p[j]]

\* Numbers can be put in order: each takes the place that its rank gives it.
LEMMA OrderExists ==
  ASSUME NEW n \in Nat, NEW s \in [1 .. n -> Nat]
  PROVE  \E p \in Bijection(1 .. n, 1 .. n) : Ascends(p, s)
<1> DEFINE D == 1 .. n
           Before(i, j) == s[i] < s[j] \/ (s[i] = s[j] /\ i <= j)
           Lower(i) == {j \in D : Before(j, i)}
           rank == [i \in D |-> Cardinality(Lower(i))]
<1>1. IsFiniteSet(D) /\ Cardinality(D) = n
  BY FS_Interval
<1>2. ASSUME NEW i \in D
      PROVE  IsFiniteSet(Lower(i)) /\ rank[i] \in D
  <2>1. Lower(i) \in SUBSET D /\ i \in Lower(i)
    OBVIOUS
  <2>2. IsFiniteSet(Lower(i)) /\ Cardinality(Lower(i)) <= n
    <3> HIDE DEF D, Lower
    <3> QED  BY <1>1, <2>1, FS_Subset
  <2>3. Cardinality(Lower(i)) \in Nat /\ Cardinality(Lower(i)) # 0
    <3> HIDE DEF Lower
    <3> QED  BY <2>1, <2>2, FS_EmptySet, FS_CardinalityType
  <2> DEFINE c == Cardinality(Lower(i))
  <2>4. rank[i] = c
    OBVIOUS
  <2> HIDE DEF c, rank
  <2>5. c \in 1 .. n
    BY <2>2, <2>3 DEF c
  <2> QED  BY <2>2, <2>4, <2>5
<1>3. ASSUME NEW i \in D, NEW j \in D, Before(i, j), i # j
      PROVE  rank[i] < rank[j]
  <2>1. Lower(i) \in SUBSET Lower(j) /\ j \in Lower(j) /\ j \notin Lower(i)
    BY <1>3
  <2>2. IsFiniteSet(Lower(j)) /\ IsFiniteSet(Lower(i))
    BY <1>2
  <2>3. Cardinality(Lower(i)) <= Cardinality(Lower(j))
          /\ Cardinality(Lower(i)) # Cardinality(Lower(j))
    <3> HIDE DEF Lower
    <3> QED  BY <2>1, <2>2, FS_Subset
  <2>4. Cardinality(Lower(i)) \in Nat /\ Cardinality(Lower(j)) \in Nat
    BY <2>2, FS_CardinalityType
  <2> DEFINE a == Cardinality(Lower(i))
             b == Cardinality(Lower(j))
  <2>5. rank[i] = a /\ rank[j] = b
    OBVIOUS
  <2> HIDE DEF a, b, rank
  <2>6. a < b
    BY <2>3, <2>4 DEF a, b
  <2> QED  BY <2>5, <2>6
<1>4. \A i, j \in D : Before(i, j) \/ Before(j, i)
  OBVIOUS
<1>5. \A i \in D : rank[i] \in D
  BY <1>2
<1> DEFINE r == rank
<1>6. r \in [D -> D]
  <2>1. rank = [i \in D |-> rank[i]]
    OBVIOUS
  <2> HIDE DEF rank
  <2> QED  BY <1>5, <2>1
<1> HIDE DEF rank
<1>7. \A i, j \in D : r[i] = r[j] => i = j
  <2> SUFFICES ASSUME NEW i \in D, NEW j \in D, i # j
               PROVE  r[i] # r[j]
    OBVIOUS
  <2>1. r[i] < r[j] \/ r[j] < r[i]
    BY <1>3, <1>4
  <2> QED  BY <1>5, <2>1
<1>8. r \in Injection(D, D)
  BY <1>6, <1>7 DEF Injection, IsInjective
<1>9. \A k \in D : \E i \in D : r[i] = k
  <2>1. r \in Surjection(D, D)
    <3> HIDE DEF D, r
    <3> QED  BY <1>1, <1>8, FS_Injection
  <2> QED  BY <2>1 DEF Surjection
<1> DEFINE p == [k \in D |-> CHOOSE i \in D : r[i] = k]
<1>10. p \in [D -> D] /\ \A k \in D : r[p[k]] = k
  BY <1>9
<1> HIDE DEF p
<1>11. p \in Bijection(D, D)
  <2>1. \A i \in D : p[r[i]] = i
    BY <1>6, <1>7, <1>10
  <2>2. p \in Surjection(D, D)
    BY <1>6, <1>10, <2>1 DEF Surjection
  <2>3. p \in Injection(D, D)
    <3>1. \A i, j \in D : p[i] = p[j] => i = j
      BY <1>10, Zenon
    <3> QED  BY <1>10, <3>1 DEF Injection, IsInjective
  <2> QED  BY <2>2, <2>3 DEF Bijection
<1>12. Ascends(p, s)
  <2> SUFFICES ASSUME NEW i \in D, NEW j \in D, i < j, ~ (s[p[i]] <= s[p[j]])
               PROVE  FALSE
    BY DEF Ascends
  <2>1. p[i] \in D /\ p[j] \in D /\ r[p[i]] = i /\ r[p[j]] = j
    BY <1>10
  <2>2. Before(p[j], p[i]) /\ p[i] # p[j]
    BY <2>1
  <2>3. r[p[j]] < r[p[i]]
    BY <1>3, <2>1, <2>2
  <2> QED  BY <2>1, <2>3
<1> QED  BY <1>11, <1>12

\* sorted() takes an order in which the values ascend.
LEMMA SortedUnfolds ==
  ASSUME NEW s
  PROVE  Measured!Sorted(s) =
           LET p == CHOOSE p \in Bijection(DOMAIN s, DOMAIN s) : Ascends(p, s)
           IN  [i \in DOMAIN s |-> s[p[i]]]
BY DEF Measured!Sorted, Ascends, Measured!Bijection, Measured!Injection, Measured!Surjection,
       Measured!IsInjective, Bijection, Injection, Surjection, IsInjective

\* What sorted() gives: the same numbers, in order.
LEMMA SortedCorrect ==
  ASSUME NEW s \in Seq(Nat)
  PROVE  LET o == Measured!Sorted(s)
         IN  /\ o \in [1 .. Len(s) -> Nat] /\ Len(o) = Len(s)
             /\ \A i, j \in 1 .. Len(s) : i <= j => o[i] <= o[j]
             /\ \E p \in Bijection(1 .. Len(s), 1 .. Len(s)) : \A i \in 1 .. Len(s) : o[i] = s[p[i]]
<1> DEFINE n == Len(s)
           D == 1 .. n
           o == Measured!Sorted(s)
           p == CHOOSE p \in Bijection(D, D) : Ascends(p, s)
<1>1. n \in Nat /\ DOMAIN s = D /\ s \in [D -> Nat]
  OBVIOUS
<1>2. p \in Bijection(D, D) /\ Ascends(p, s)
  BY <1>1, OrderExists, Zenon
<1>3. o = [i \in D |-> s[p[i]]]
  BY <1>1, SortedUnfolds
<1> HIDE DEF p, o
<1>4. p \in [D -> D]
  BY <1>2 DEF Bijection, Injection
<1>5. o \in [D -> Nat] /\ \A i \in D : o[i] = s[p[i]]
  BY <1>1, <1>3, <1>4
<1>6. Len(o) = n
  BY <1>1, <1>3
<1>7. \A i, j \in D : i <= j => o[i] <= o[j]
  <2> SUFFICES ASSUME NEW i \in D, NEW j \in D, i <= j
               PROVE  o[i] <= o[j]
    OBVIOUS
  <2>1. CASE i = j
    BY <1>5, <2>1
  <2>2. CASE i < j
    BY <1>1, <1>2, <1>5, <2>2 DEF Ascends
  <2> QED  BY <2>1, <2>2
<1>8. \E q \in Bijection(D, D) : \A i \in D : o[i] = s[q[i]]
  BY <1>2, <1>5
<1> QED  BY <1>5, <1>6, <1>7, <1>8 DEF o

\* At least as many samples satisfy a condition as places in the order do.
LEMMA PlacesCount ==
  ASSUME NEW n \in Nat, NEW p \in Bijection(1 .. n, 1 .. n),
         NEW X \in SUBSET (1 .. n), NEW a \in 1 .. n, NEW b \in 1 .. n, a <= b,
         \A k \in a .. b : p[k] \in X
  PROVE  Cardinality(X) \in Nat /\ Cardinality(X) >= b - a + 1
<1> DEFINE K == a .. b
           f == [k \in K |-> p[k]]
<1>1. IsFiniteSet(X)
  <2>1. IsFiniteSet(1 .. n)
    BY FS_Interval
  <2> QED  BY <2>1, FS_Subset
<1>2. p \in [1 .. n -> 1 .. n] /\ \A i, j \in 1 .. n : p[i] = p[j] => i = j
  BY DEF Bijection, Injection, IsInjective
<1>3. K \subseteq 1 .. n
  OBVIOUS
<1>4. f \in Injection(K, X)
  <2>1. f \in [K -> X]
    OBVIOUS
  <2>2. \A i, j \in K : f[i] = f[j] => i = j
    BY <1>2, <1>3
  <2> HIDE DEF K, f
  <2> QED  BY <2>1, <2>2 DEF Injection, IsInjective
<1>5. Cardinality(K) <= Cardinality(X)
  <2> HIDE DEF K, f
  <2> QED  BY <1>1, <1>4, FS_Injection
<1>6. Cardinality(K) = b - a + 1
  <2>1. a \in Int /\ b \in Int /\ ~ (a > b)
    OBVIOUS
  <2> QED  BY <2>1, FS_Interval
<1>7. Cardinality(X) \in Nat
  BY <1>1, FS_CardinalityType
<1> DEFINE c == Cardinality(K)
           x == Cardinality(X)
<1>8. c = b - a + 1 /\ c <= x /\ x \in Nat
  BY <1>5, <1>6, <1>7
<1> HIDE DEF c, x
<1>9. x \in Nat /\ x >= b - a + 1
  BY <1>8
<1> QED  BY <1>9 DEF x

\* The rank of a percentile among n samples: the place below it, what is left over in
\* hundredths, and the place above it.
Low(n, pct)  == ((n - 1) * pct) \div 100
Rest(n, pct) == ((n - 1) * pct) % 100
High(n, pct) == IF Rest(n, pct) = 0 THEN Low(n, pct) ELSE Low(n, pct) + 1

\* Both places are there.
LEMMA RankInside ==
  ASSUME NEW n \in Nat \ {0}, NEW pct \in 0 .. 100
  PROVE  /\ (n - 1) * pct \in Nat /\ (n - 1) * pct = 100 * Low(n, pct) + Rest(n, pct)
         /\ Low(n, pct) \in 0 .. n - 1 /\ Rest(n, pct) \in 0 .. 99 /\ High(n, pct) \in 0 .. n - 1
<1> DEFINE m == n - 1
           rank == m * pct
           l == rank \div 100
           r == rank % 100
<1>1. m \in Nat /\ pct \in Nat /\ pct <= 100
  OBVIOUS
<1> HIDE DEF m
<1>2. m * pct <= m * 100 /\ m * pct \in Nat
  BY <1>1, ProductMonotone
<1>3. rank \in Nat /\ rank <= 100 * m
  BY <1>1, <1>2
<1> HIDE DEF rank
<1>4. l \in Nat /\ r \in 0 .. 99 /\ rank = 100 * l + r
  BY <1>3
<1> HIDE DEF l, r
<1>5. l \in 0 .. m /\ (IF r = 0 THEN l ELSE l + 1) \in 0 .. m
  BY <1>1, <1>3, <1>4
<1>6. Low(n, pct) = l /\ Rest(n, pct) = r
  BY DEF Low, Rest, l, r, rank, m
<1> HIDE DEF m
<1> QED  BY <1>3, <1>4, <1>5, <1>6 DEF High, rank, m

\* A percentile is where its rank says between two samples.
Around(n, o, pct) ==
  LET a == o[Low(n, pct) + 1]
      b == o[High(n, pct) + 1]
      v == Measured!Percentile(o, pct)
  IN  /\ a \in Nat /\ b \in Nat /\ a <= b
      /\ v = 100 * a + (b - a) * Rest(n, pct)
      /\ v \in Nat /\ 100 * a <= v /\ v <= 100 * b

\* A percentile lies between the two samples around its rank.
LEMMA Between ==
  ASSUME NEW n \in Nat \ {0}, NEW o \in [1 .. n -> Nat], Len(o) = n,
         \A i, j \in 1 .. n : i <= j => o[i] <= o[j], NEW pct \in 0 .. 100
  PROVE  Around(n, o, pct)
<1> DEFINE low  == Low(n, pct)
           rest == Rest(n, pct)
           high == High(n, pct)
           a == o[low + 1]
           b == o[high + 1]
           v == Measured!Percentile(o, pct)
<1>1. low \in 0 .. n - 1 /\ high \in 0 .. n - 1 /\ rest \in 0 .. 99
  BY RankInside
<1>2. high = IF rest = 0 THEN low ELSE low + 1
  BY DEF High
<1>3. v = IF rest = 0 THEN 100 * o[low + 1]
          ELSE 100 * o[low + 1] + (o[low + 1 + 1] - o[low + 1]) * rest
  BY DEF Measured!Percentile, Low, Rest
<1> HIDE DEF low, rest, high, v
<1>4. a \in Nat /\ b \in Nat /\ a <= b
  <2>1. low + 1 \in 1 .. n /\ high + 1 \in 1 .. n /\ low + 1 <= high + 1
    BY <1>1, <1>2
  <2> QED  BY <2>1
<1> DEFINE d == b - a
<1>5. d \in Nat
  BY <1>4
<1>6. v = 100 * a + d * rest
  <2>1. CASE rest = 0
    <3>1. v = 100 * a /\ d * rest = 0
      BY <1>3, <1>5, <2>1
    <3> QED  BY <1>4, <3>1
  <2>2. CASE rest # 0
    BY <1>2, <1>3, <2>2
  <2> QED  BY <2>1, <2>2
<1> HIDE DEF d
<1>7. d * rest <= d * 100 /\ d * rest \in Nat /\ d * 100 = 100 * d
  BY <1>1, <1>5, ProductMonotone
<1> DEFINE q == d * rest
<1>8. q \in Nat /\ q <= 100 * d /\ v = 100 * a + q
  BY <1>6, <1>7
<1> HIDE DEF a, b, q
<1>9. v \in Nat /\ 100 * a <= v /\ v <= 100 * b
  BY <1>4, <1>5, <1>8 DEF d
<1> QED  BY <1>4, <1>6, <1>9 DEF Around, a, b, v, d, high, low, rest

\* A higher percentile has no lower rank.
LEMMA RankMonotone ==
  ASSUME NEW n \in Nat \ {0}, NEW x \in 0 .. 100, NEW y \in 0 .. 100, x <= y
  PROVE  /\ Low(n, x) <= Low(n, y)
         /\ Low(n, x) = Low(n, y) => Rest(n, x) <= Rest(n, y)
         /\ Low(n, x) < Low(n, y) => High(n, x) <= Low(n, y)
<1> DEFINE m == n - 1
           l == Low(n, x)
           r == Rest(n, x)
           h == Low(n, y)
           t == Rest(n, y)
<1>1. m \in Nat /\ x \in Nat /\ y \in Nat
  OBVIOUS
<1>2. m * x = 100 * l + r /\ m * y = 100 * h + t
  BY RankInside
<1>3. l \in Nat /\ r \in 0 .. 99 /\ h \in Nat /\ t \in 0 .. 99
  <2>1. l \in 0 .. n - 1 /\ r \in 0 .. 99 /\ h \in 0 .. n - 1 /\ t \in 0 .. 99
    BY RankInside
  <2> HIDE DEF l, r, h, t
  <2> QED  BY <2>1
<1> HIDE DEF m
<1>4. m * x <= m * y
  BY <1>1, ProductMonotone
<1>5. 100 * l + r <= 100 * h + t
  BY <1>2, <1>4
<1>6. High(n, x) = IF r = 0 THEN l ELSE l + 1
  BY DEF High
<1> HIDE DEF l, r, h, t
<1>7. l <= h /\ (l = h => r <= t) /\ (l < h => (IF r = 0 THEN l ELSE l + 1) <= h)
  BY <1>3, <1>5
<1> QED  BY <1>6, <1>7 DEF l, r, h, t

\* A higher percentile is no lower.
LEMMA PercentileMonotone ==
  ASSUME NEW n \in Nat \ {0}, NEW o \in [1 .. n -> Nat], Len(o) = n,
         \A i, j \in 1 .. n : i <= j => o[i] <= o[j],
         NEW x \in 0 .. 100, NEW y \in 0 .. 100, x <= y
  PROVE  Measured!Percentile(o, x) <= Measured!Percentile(o, y)
<1> DEFINE lx == Low(n, x)
           hx == High(n, x)
           rx == Rest(n, x)
           ly == Low(n, y)
           hy == High(n, y)
           ry == Rest(n, y)
           ax == o[lx + 1]
           bx == o[hx + 1]
           ay == o[ly + 1]
           by == o[hy + 1]
           vx == Measured!Percentile(o, x)
           vy == Measured!Percentile(o, y)
<1>1. /\ lx \in 0 .. n - 1 /\ hx \in 0 .. n - 1 /\ rx \in 0 .. 99
      /\ ly \in 0 .. n - 1 /\ hy \in 0 .. n - 1 /\ ry \in 0 .. 99
  BY RankInside
<1>2. /\ ax \in Nat /\ bx \in Nat /\ ax <= bx /\ vx = 100 * ax + (bx - ax) * rx
      /\ vx \in Nat /\ 100 * ax <= vx /\ vx <= 100 * bx
  <2>1. Around(n, o, x)
    BY Between
  <2> QED  BY <2>1, Zenon DEF Around
<1>3. /\ ay \in Nat /\ by \in Nat /\ ay <= by /\ vy = 100 * ay + (by - ay) * ry
      /\ vy \in Nat /\ 100 * ay <= vy /\ vy <= 100 * by
  <2>1. Around(n, o, y)
    BY Between
  <2> QED  BY <2>1, Zenon DEF Around
<1>4. lx <= ly /\ (lx = ly => rx <= ry) /\ (lx < ly => hx <= ly)
  BY RankMonotone
<1>5. hx = (IF rx = 0 THEN lx ELSE lx + 1) /\ hy = (IF ry = 0 THEN ly ELSE ly + 1)
  BY DEF High
<1> HIDE DEF lx, hx, rx, ly, hy, ry, vx, vy
<1>6. CASE lx < ly
  <2>1. hx + 1 \in 1 .. n /\ ly + 1 \in 1 .. n /\ hx + 1 <= ly + 1
    BY <1>1, <1>4, <1>6
  <2>2. bx <= ay
    BY <2>1
  <2> HIDE DEF ax, bx, ay, by
  <2>3. vx <= vy
    BY <1>2, <1>3, <2>2
  <2> QED  BY <2>3 DEF vx, vy
<1>7. CASE lx = ly
  <2>1. ax = ay
    BY <1>7
  <2>2. CASE rx = 0
    <3>1. vx = 100 * ax
      <4>1. hx = lx
        BY <1>5, <2>2
      <4>2. bx = ax
        BY <4>1
      <4> HIDE DEF ax, bx
      <4> QED  BY <1>2, <4>2
    <3> HIDE DEF ay, ax
    <3>2. vx <= vy
      BY <1>2, <1>3, <2>1, <3>1
    <3> QED  BY <3>2 DEF vx, vy
  <2>3. CASE rx # 0
    <3>1. ry # 0 /\ rx <= ry
      BY <1>1, <1>4, <1>7, <2>3
    <3>2. hx = hy
      BY <1>5, <1>7, <2>3, <3>1
    <3>3. bx = by
      BY <3>2
    <3> HIDE DEF ax, bx, ay, by
    <3> DEFINE d == bx - ax
    <3>4. d \in Nat /\ vx = 100 * ax + d * rx /\ vy = 100 * ax + d * ry
      BY <1>2, <1>3, <2>1, <3>3
    <3> HIDE DEF d
    <3>5. d * rx <= d * ry /\ d * rx \in Nat /\ d * ry \in Nat
      BY <1>1, <3>1, <3>4, ProductMonotone
    <3> DEFINE l == d * rx
               r == d * ry
    <3>6. vx = 100 * ax + l /\ vy = 100 * ax + r /\ l \in Nat /\ r \in Nat /\ l <= r
      BY <3>4, <3>5
    <3> HIDE DEF l, r
    <3>7. vx <= vy
      BY <1>2, <3>6
    <3> QED  BY <3>7 DEF vx, vy
  <2> QED  BY <2>2, <2>3
<1> QED  BY <1>1, <1>4, <1>6, <1>7

\* The median's places: half of the samples are not above, half are not below.
LEMMA Halves ==
  ASSUME NEW n \in Nat, NEW l \in Nat, NEW r \in Nat, r <= 99, 50 * n - 50 = 100 * l + r
  PROVE  2 * (l + 1) >= n /\ (r = 0 => 2 * (n - l) >= n) /\ (r # 0 => 2 * (n - (l + 1)) >= n)
<1>1. 50 * n = 100 * l + r + 50
  OBVIOUS
<1>2. 2 * (l + 1) >= n
  <2>1. CASE n <= 2 * l + 2
    BY <2>1
  <2>2. CASE n >= 2 * l + 3
    BY <1>1, <2>2
  <2> QED  BY <2>1, <2>2
<1>3. r = 0 => 2 * (n - l) >= n
  BY <1>1
<1>4. r # 0 => 2 * (n - (l + 1)) >= n
  <2>1. CASE n >= 2 * l + 2
    BY <2>1
  <2>2. CASE n <= 2 * l + 1
    BY <1>1, <2>2
  <2> QED  BY <2>1, <2>2
<1> QED  BY <1>2, <1>3, <1>4

\* The summary of any samples, as QuantilesSeparate says it of those of a path.
LEMMA SummaryCorrect ==
  ASSUME NEW s \in Seq(Nat), s # << >>
  PROVE  LET sum == Measured!Summary(s)
             below(v) == Cardinality({i \in DOMAIN s : 100 * s[i] <= v})
             above(v) == Cardinality({i \in DOMAIN s : 100 * s[i] >= v})
         IN  /\ 2 * below(sum.p50) >= sum.count /\ 2 * above(sum.p50) >= sum.count
             /\ sum.p50 <= sum.p95 /\ sum.p95 <= 100 * sum.max /\ above(100 * sum.max) >= 1
<1> DEFINE n == Len(s)
           D == 1 .. n
           o == Measured!Sorted(s)
           below(v) == {i \in D : 100 * s[i] <= v}
           above(v) == {i \in D : 100 * s[i] >= v}
           low  == Low(n, 50)
           high == High(n, 50)
           p50 == Measured!Percentile(o, 50)
           p95 == Measured!Percentile(o, 95)
<1>1. n \in Nat \ {0} /\ DOMAIN s = D /\ s \in [D -> Nat]
  OBVIOUS
<1>2. /\ o \in [D -> Nat] /\ Len(o) = n
      /\ \A i, j \in D : i <= j => o[i] <= o[j]
  BY SortedCorrect
<1>3. PICK p \in Bijection(D, D) : \A i \in D : o[i] = s[p[i]]
  BY SortedCorrect
<1>4. \A i \in D : p[i] \in D
  BY <1>3 DEF Bijection, Injection
<1> HIDE DEF o
<1>5. /\ low \in 0 .. n - 1 /\ high \in 0 .. n - 1 /\ p50 \in Nat
      /\ 100 * o[low + 1] <= p50 /\ p50 <= 100 * o[high + 1]
  <2>1. low \in 0 .. n - 1 /\ high \in 0 .. n - 1
    BY <1>1, RankInside
  <2> HIDE DEF n
  <2>2. p50 \in Nat /\ 100 * o[low + 1] <= p50 /\ p50 <= 100 * o[high + 1]
    <3>1. 50 \in 0 .. 100
      OBVIOUS
    <3>2. Around(n, o, 50)
      BY <1>1, <1>2, <3>1, Between
    <3> QED  BY <3>2, Zenon DEF Around, low, high, p50
  <2> QED  BY <2>1, <2>2
<1>6. p50 <= p95
  <2>1. 50 \in 0 .. 100 /\ 95 \in 0 .. 100 /\ 50 <= 95
    OBVIOUS
  <2> HIDE DEF n
  <2> QED  BY <1>1, <1>2, <2>1, PercentileMonotone, Zenon
<1>7. p95 \in Nat /\ p95 <= 100 * o[n]
  <2> DEFINE h == High(n, 95)
  <2>1. h \in 0 .. n - 1 /\ p95 \in Nat /\ p95 <= 100 * o[h + 1]
    <3>1. h \in 0 .. n - 1
      BY <1>1, RankInside
    <3> HIDE DEF n
    <3>2. 95 \in 0 .. 100
      OBVIOUS
    <3>3. p95 \in Nat /\ p95 <= 100 * o[h + 1]
      <4>1. Around(n, o, 95)
        BY <1>1, <1>2, <3>2, Between
      <4> QED  BY <4>1, Zenon DEF Around, h, p95
    <3> QED  BY <3>1, <3>3
  <2> HIDE DEF h, p95
  <2>2. h + 1 \in D /\ n \in D /\ h + 1 <= n
    BY <1>1, <2>1
  <2>3. o[h + 1] <= o[n] /\ o[h + 1] \in Nat /\ o[n] \in Nat
    BY <1>2, <2>2
  <2> QED  BY <2>1, <2>3
<1>8. 2 * (low + 1) >= n /\ 2 * (n - high) >= n
  <2>1. n \in Nat \ {0}
    BY <1>1
  <2> HIDE DEF n
  <2>2. (n - 1) * 50 = 100 * low + Rest(n, 50) /\ low \in Nat /\ Rest(n, 50) \in 0 .. 99
    BY <2>1, RankInside
  <2> DEFINE r == Rest(n, 50)
  <2>3. high = (IF r = 0 THEN low ELSE low + 1)
    BY DEF High
  <2> HIDE DEF low, high, r
  <2>4. r \in 0 .. 99 /\ (n - 1) * 50 = 100 * low + r
    BY <2>2 DEF r
  <2>5. 50 * n - 50 = 100 * low + r
    BY <2>1, <2>4
  <2>6. n \in Nat /\ low \in Nat /\ r \in Nat /\ r <= 99
    BY <2>1, <2>2, <2>4
  <2>7. 2 * (low + 1) >= n /\ (r = 0 => 2 * (n - low) >= n) /\ (r # 0 => 2 * (n - (low + 1)) >= n)
    BY <2>5, <2>6, Halves
  <2> QED  BY <2>3, <2>7
<1> HIDE DEF low, high, p50, p95
<1>9. 2 * Cardinality(below(p50)) >= n
  <2>1. 1 \in D /\ low + 1 \in D /\ 1 <= low + 1
    BY <1>1, <1>5
  <2>2. \A k \in 1 .. low + 1 : p[k] \in below(p50)
    <3> TAKE k \in 1 .. low + 1
    <3>1. k \in D /\ k <= low + 1
      BY <2>1
    <3>2. o[k] <= o[low + 1] /\ o[k] \in Nat /\ o[low + 1] \in Nat /\ o[k] = s[p[k]] /\ p[k] \in D
      BY <1>2, <1>3, <1>4, <2>1, <3>1
    <3>3. 100 * s[p[k]] <= p50
      <4> DEFINE a == o[k]
                 b == o[low + 1]
      <4>1. a <= b /\ a \in Nat /\ b \in Nat /\ 100 * b <= p50 /\ p50 \in Nat /\ s[p[k]] = a
        BY <1>5, <3>2
      <4> HIDE DEF a, b
      <4> QED  BY <4>1
    <3> QED  BY <3>2, <3>3
  <2> DEFINE X == below(p50)
  <2>3. X \in SUBSET D /\ \A k \in 1 .. low + 1 : p[k] \in X
    BY <2>2
  <2> HIDE DEF X
  <2>4. Cardinality(X) \in Nat /\ Cardinality(X) >= (low + 1) - 1 + 1
    <3> DEFINE k == low + 1
    <3>1. n \in Nat /\ k \in 1 .. n /\ 1 <= k /\ 1 \in 1 .. n /\ \A i \in 1 .. k : p[i] \in X
      BY <1>1, <2>1, <2>3
    <3> HIDE DEF n, k
    <3>2. Cardinality(X) \in Nat /\ Cardinality(X) >= k - 1 + 1
      BY <2>3, <3>1, PlacesCount
    <3> QED  BY <3>2 DEF k
  <2> DEFINE c == Cardinality(X)
  <2>5. c \in Nat /\ c >= low + 1
    BY <1>5, <2>4
  <2> HIDE DEF c
  <2>6. 2 * c >= n
    BY <1>1, <1>5, <1>8, <2>5
  <2> QED  BY <2>6 DEF c, X
<1>10. 2 * Cardinality(above(p50)) >= n
  <2>1. n \in D /\ high + 1 \in D /\ high + 1 <= n
    BY <1>1, <1>5
  <2>2. \A k \in high + 1 .. n : p[k] \in above(p50)
    <3> TAKE k \in high + 1 .. n
    <3>1. k \in D /\ high + 1 <= k
      BY <2>1
    <3>2. o[high + 1] <= o[k] /\ o[k] \in Nat /\ o[high + 1] \in Nat /\ o[k] = s[p[k]] /\ p[k] \in D
      BY <1>2, <1>3, <1>4, <2>1, <3>1
    <3>3. 100 * s[p[k]] >= p50
      <4> DEFINE a == o[k]
                 b == o[high + 1]
      <4>1. b <= a /\ a \in Nat /\ b \in Nat /\ p50 <= 100 * b /\ p50 \in Nat /\ s[p[k]] = a
        BY <1>5, <3>2
      <4> HIDE DEF a, b
      <4> QED  BY <4>1
    <3> QED  BY <3>2, <3>3
  <2> DEFINE X == above(p50)
  <2>3. X \in SUBSET D /\ \A k \in high + 1 .. n : p[k] \in X
    BY <2>2
  <2> HIDE DEF X
  <2>4. Cardinality(X) \in Nat /\ Cardinality(X) >= n - (high + 1) + 1
    <3> HIDE DEF n
    <3>1. n \in Nat
      BY <1>1
    <3> QED  BY <3>1, <2>1, <2>3, PlacesCount, Zenon
  <2> DEFINE c == Cardinality(X)
  <2>5. c \in Nat /\ c >= n - high
    BY <1>1, <1>5, <2>4
  <2> HIDE DEF c
  <2>6. 2 * c >= n
    BY <1>1, <1>5, <1>8, <2>5
  <2> QED  BY <2>6 DEF c, X
<1>11. Cardinality(above(100 * o[n])) >= 1
  <2>1. n \in D /\ p[n] \in D /\ o[n] = s[p[n]] /\ o[n] \in Nat
    BY <1>1, <1>2, <1>3, <1>4
  <2> DEFINE X == above(100 * o[n])
  <2>2. X \in SUBSET D /\ p[n] \in X
    BY <2>1
  <2> HIDE DEF X
  <2>3. Cardinality(X) \in Nat /\ Cardinality(X) # 0
    <3>1. IsFiniteSet(D)
      BY <1>1, FS_Interval
    <3>2. IsFiniteSet(X)
      BY <2>2, <3>1, FS_Subset
    <3> QED  BY <2>2, <3>2, FS_EmptySet, FS_CardinalityType
  <2> DEFINE c == Cardinality(X)
  <2>4. c \in Nat /\ c # 0
    BY <2>3
  <2> HIDE DEF c
  <2>5. c >= 1
    BY <2>4
  <2> QED  BY <2>5 DEF c, X
<1>12. /\ Measured!Summary(s).count = n /\ Measured!Summary(s).p50 = p50
       /\ Measured!Summary(s).p95 = p95 /\ Measured!Summary(s).max = o[n]
  BY <1>2 DEF Measured!Summary, p50, p95, o
<1> QED  BY <1>1, <1>6, <1>7, <1>9, <1>10, <1>11, <1>12

\* The collectors' model counts as this module does.
LEMMA CardinalityMeasured == \A S : Measured!Cardinality(S) = Cardinality(S)
BY DEF Measured!Cardinality, Cardinality

\* Samples are natural numbers.
Sampled == samples \in [Path -> Seq(Nat)]

\* Natural samples have their quantiles where they should be.
LEMMA SampledQuantiles == ASSUME Sampled PROVE Measured!QuantilesSeparate
<1> SUFFICES ASSUME NEW p \in Path, samples[p] # << >>
             PROVE  LET s == Measured!Summary(samples[p])
                        below(v) == Cardinality({i \in DOMAIN samples[p] :
                          100 * samples[p][i] <= v})
                        above(v) == Cardinality({i \in DOMAIN samples[p] :
                          100 * samples[p][i] >= v})
                    IN  /\ 2 * below(s.p50) >= s.count /\ 2 * above(s.p50) >= s.count
                        /\ s.p50 <= s.p95 /\ s.p95 <= 100 * s.max /\ above(100 * s.max) >= 1
  BY CardinalityMeasured, Zenon DEF Measured!QuantilesSeparate
<1>1. samples[p] \in Seq(Nat)
  BY DEF Sampled
<1> QED  BY <1>1, SummaryCorrect, Zenon

\* Whatever turns complete in whatever order, half of a path's samples are on either side
\* of the median, and the 95th percentile is between it and the largest (metrics.py:14-25,
\* 38-49).
THEOREM QuantilesCorrect == Measured!Spec => []Measured!QuantilesSeparate
<1>1. Measured!Init => Sampled
  BY DEF Measured!Init, Sampled
<1>2. Sampled /\ [Measured!Next]_(Measured!vars) => Sampled'
  <2> SUFFICES ASSUME Sampled, [Measured!Next]_(Measured!vars) PROVE Sampled'
    OBVIOUS
  <2>1. CASE UNCHANGED Measured!vars
    BY <2>1 DEF Measured!vars, Sampled
  <2>2. ASSUME NEW p \in Path, NEW t \in Tenant, NEW l \in Latencies, NEW a \in Sizes,
               NEW b \in Sizes,
               Measured!TurnCompletes(p, t, l, a, b)
        PROVE  Sampled'
    <3>1. l \in Nat
      BY MeasuredAssumption DEF Measured!BoundsAssumption
    <3>2. samples' = [samples EXCEPT ![p] = Append(@, l)]
      BY <2>2 DEF Measured!TurnCompletes
    <3> QED  BY <3>1, <3>2 DEF Sampled
  <2> QED  BY <2>1, <2>2 DEF Measured!Next
<1> QED  BY <1>1, <1>2, SampledQuantiles, PTL DEF Measured!Spec

-----------------------------------------------------------------------------
(* Usage metering.                                                         *)

\* Accounts are natural numbers, and right up to rounding.
MeteringInv ==
  /\ usage \in [Path \X Tenant -> [ms : Nat, turns : Nat]]
  /\ bytes \in [Path \X Tenant -> Nat]
  /\ Measured!AudioMeteredWithinRounding

\* An amount is rounded to within half a millisecond.
LEMMA RoundedToNearest ==
  ASSUME NEW size \in Nat, NEW n \in Measured!Milliseconds(size)
  PROVE  /\ n \in Nat
         /\ 2 * (n * 48 - size) <= 48 /\ 2 * (size - n * 48) <= 48
BY DEF Measured!Milliseconds, Measured!BytesPerMs

\* Every amount has a rounding, so metering never keeps a turn from completing
\* (usage.py:22-53).
THEOREM AmountsRounded == \A size \in Nat : Measured!Milliseconds(size) # {}
<1> SUFFICES ASSUME NEW size \in Nat PROVE Measured!Milliseconds(size) # {}
  OBVIOUS
<1> DEFINE q == size \div 48
<1>1. q \in Nat /\ 48 * q <= size /\ size < 48 * q + 48
  OBVIOUS
<1>2. CASE 2 * (size - 48 * q) <= 48
  <2>1. 2 * (q * 48 - size) <= 48 /\ 2 * (size - q * 48) <= 48
    BY <1>1, <1>2
  <2> QED  BY <2>1 DEF Measured!Milliseconds, Measured!BytesPerMs
<1>3. CASE ~(2 * (size - 48 * q) <= 48)
  <2>1. 2 * ((q + 1) * 48 - size) <= 48 /\ 2 * (size - (q + 1) * 48) <= 48
    BY <1>1, <1>3
  <2> QED  BY <2>1 DEF Measured!Milliseconds, Measured!BytesPerMs
<1> QED  BY <1>2, <1>3

\* A turn moves one account, by no more than its two roundings.
LEMMA MeteringNext ==
  ASSUME Measured!BoundsAssumption, MeteringInv, [Measured!Next]_(Measured!vars)
  PROVE  MeteringInv'
<1>1. CASE UNCHANGED Measured!vars
  BY <1>1 DEF Measured!vars, MeteringInv, Measured!AudioMeteredWithinRounding
<1>2. ASSUME NEW p \in Path, NEW o \in Tenant, NEW latency \in Latencies,
             NEW taken \in Sizes, NEW given \in Sizes,
             Measured!TurnCompletes(p, o, latency, taken, given)
      PROVE  MeteringInv'
  <2> DEFINE k == <<p, o>>
  <2>1. taken \in Nat /\ given \in Nat /\ k \in Path \X Tenant
    BY DEF Measured!BoundsAssumption
  <2>2. PICK t \in Measured!Milliseconds(taken), g \in Measured!Milliseconds(given) :
          usage' = [usage EXCEPT ![k] =
            [ms |-> usage[k].ms + (t + g), turns |-> usage[k].turns + 1]]
    BY <1>2 DEF Measured!TurnCompletes, Measured!AddUsage
  <2>3. bytes' = [bytes EXCEPT ![k] = bytes[k] + taken + given]
    BY <1>2 DEF Measured!TurnCompletes
  <2>4. /\ t \in Nat /\ 2 * (t * 48 - taken) <= 48 /\ 2 * (taken - t * 48) <= 48
        /\ g \in Nat /\ 2 * (g * 48 - given) <= 48 /\ 2 * (given - g * 48) <= 48
    BY <2>1, RoundedToNearest
  <2> HIDE DEF k
  <2>5. /\ usage' \in [Path \X Tenant -> [ms : Nat, turns : Nat]]
        /\ bytes' \in [Path \X Tenant -> Nat]
        /\ usage[k].ms \in Nat /\ usage[k].turns \in Nat /\ bytes[k] \in Nat
    BY <2>1, <2>2, <2>3, <2>4 DEF MeteringInv
  <2>6. /\ usage'[k].ms = usage[k].ms + (t + g) /\ usage'[k].turns = usage[k].turns + 1
        /\ bytes'[k] = bytes[k] + taken + given
        /\ \A j \in (Path \X Tenant) \ {k} : usage'[j] = usage[j] /\ bytes'[j] = bytes[j]
    BY <2>1, <2>2, <2>3 DEF MeteringInv
  <2>7. \A j \in Path \X Tenant :
          /\ usage[j].ms * 48 - bytes[j] <= 48 * usage[j].turns
          /\ -(usage[j].ms * 48 - bytes[j]) <= 48 * usage[j].turns
    BY DEF MeteringInv, Measured!AudioMeteredWithinRounding, Measured!BytesPerMs
  <2>8. /\ usage'[k].ms * 48 - bytes'[k] <= 48 * usage'[k].turns
        /\ -(usage'[k].ms * 48 - bytes'[k]) <= 48 * usage'[k].turns
    BY <2>1, <2>4, <2>5, <2>6, <2>7
  <2>9. \A j \in Path \X Tenant :
          /\ usage'[j].ms * 48 - bytes'[j] <= 48 * usage'[j].turns
          /\ -(usage'[j].ms * 48 - bytes'[j]) <= 48 * usage'[j].turns
    BY <2>6, <2>7, <2>8
  <2>10. Measured!AudioMeteredWithinRounding'
    BY <2>9 DEF Measured!AudioMeteredWithinRounding, Measured!BytesPerMs
  <2> QED  BY <2>5, <2>10 DEF MeteringInv
<1> QED  BY <1>1, <1>2 DEF Measured!Next

\* Metering is exact up to rounding: whatever turns complete in whatever order, a tenant
\* is charged its own audio on its own path to within half a millisecond per amount
\* (usage.py:22-53).
THEOREM MeteringCorrect ==
  ASSUME Measured!BoundsAssumption PROVE Measured!Spec => []Measured!AudioMeteredWithinRounding
<1>1. Measured!Init => MeteringInv
  BY DEF Measured!Init, MeteringInv, Measured!AudioMeteredWithinRounding, Measured!BytesPerMs
<1>2. MeteringInv /\ [Measured!Next]_(Measured!vars) => MeteringInv'
  BY MeteringNext
<1>3. MeteringInv => Measured!AudioMeteredWithinRounding
  BY DEF MeteringInv
<1> QED  BY <1>1, <1>2, <1>3, PTL DEF Measured!Spec

-----------------------------------------------------------------------------
(* A line of the log: how deep an extra may be.                            *)

\* The depth of the extras is bounded, as the model assumes.
LEMMA LoggedDepth == Logged!DepthAssumption
BY RecordsAssumption, Zenon

\* A function on the depths up to n that is defined as Value is.
ValueAt(f, d) ==
  IF d = 0 THEN {Logged!Number, Logged!Redacted} \cup [is : {"text"}, found : SUBSET Logged!Findings]
  ELSE f[d - 1] \cup [is : {"list"}, items : Seq(f[d - 1])]
         \cup [is : {"dict"}, key : Logged!Keys, value : f[d - 1]]

\* How Value is defined.
LEMMA ValueUnfolds ==
  Logged!Value = CHOOSE f : f = [d \in 0 .. MaxDepth |-> ValueAt(f, d)]
BY DEF Logged!Value, ValueAt

\* There is a function that is defined as Value is, to any depth.
LEMMA ValueExists ==
  ASSUME NEW n \in Nat PROVE \E f : f = [d \in 0 .. n |-> ValueAt(f, d)]
<1> DEFINE S == {m \in Nat : \E f : f = [d \in 0 .. m |-> ValueAt(f, d)]}
<1>1. 0 \in S
  <2> DEFINE f == [d \in 0 .. 0 |-> ValueAt(<< >>, 0)]
  <2>1. f = [d \in 0 .. 0 |-> ValueAt(f, d)]
    BY DEF ValueAt
  <2> HIDE DEF f
  <2> QED  BY <2>1
<1>2. ASSUME NEW m \in Nat, m \in S PROVE m + 1 \in S
  <2>1. PICK f : f = [d \in 0 .. m |-> ValueAt(f, d)]
    BY <1>2
  <2> DEFINE g == [d \in 0 .. m + 1 |-> ValueAt(f, d)]
  <2>2. \A d \in 0 .. m + 1 : ValueAt(g, d) = ValueAt(f, d)
    <3> TAKE d \in 0 .. m + 1
    <3>1. CASE d = 0
      BY <3>1 DEF ValueAt
    <3>2. CASE d # 0
      <4>1. d - 1 \in 0 .. m /\ d - 1 \in 0 .. m + 1
        BY <3>2
      <4>2. g[d - 1] = f[d - 1]
        BY <2>1, <4>1
      <4> HIDE DEF g
      <4> QED  BY <3>2, <4>2 DEF ValueAt
    <3> QED  BY <3>1, <3>2
  <2>3. g = [d \in 0 .. m + 1 |-> ValueAt(g, d)]
    BY <2>2
  <2> HIDE DEF g
  <2> QED  BY <2>3
<1>3. n \in S
  <2> HIDE DEF S
  <2> QED  BY <1>1, <1>2, Induction
<1> QED  BY <1>3

\* Value is what its definition says.
LEMMA ValueDefined == \A d \in 0 .. MaxDepth : Logged!Value[d] = ValueAt(Logged!Value, d)
<1>1. MaxDepth \in Nat
  BY LoggedDepth DEF Logged!DepthAssumption
<1>2. Logged!Value = [d \in 0 .. MaxDepth |-> ValueAt(Logged!Value, d)]
  BY <1>1, ValueExists, ValueUnfolds
<1> QED  BY <1>2

\* The depth is bounded.
LEMMA DepthNatural == MaxDepth \in Nat
BY LoggedDepth DEF Logged!DepthAssumption

\* What is less deep is a part of what is deeper.
LEMMA ValueGrows ==
  ASSUME NEW d \in 1 .. MaxDepth
  PROVE  /\ d - 1 \in 0 .. MaxDepth
         /\ Logged!Value[d] =
              Logged!Value[d - 1] \cup [is : {"list"}, items : Seq(Logged!Value[d - 1])]
                                \cup [is : {"dict"}, key : Logged!Keys, value : Logged!Value[d - 1]]
<1>1. d \in 0 .. MaxDepth /\ d # 0 /\ d - 1 \in 0 .. MaxDepth
  BY DepthNatural
<1> QED  BY <1>1, ValueDefined, Zenon DEF ValueAt

\* Every depth up to the bound is within an extra.
LEMMA ValuesAreExtras == \A d \in 0 .. MaxDepth : Logged!Value[d] \subseteq Logged!Extras
<1> DEFINE M == MaxDepth
           S == {k \in Nat : k <= M => Logged!Value[M - k] \subseteq Logged!Extras}
<1>1. M \in Nat
  BY DepthNatural
<1>2. 0 \in S
  BY <1>1 DEF Logged!Extras
<1>3. ASSUME NEW k \in Nat, k \in S PROVE k + 1 \in S
  <2> SUFFICES ASSUME k + 1 <= M PROVE Logged!Value[M - (k + 1)] \subseteq Logged!Extras
    OBVIOUS
  <2>1. k <= M /\ M - k \in 1 .. MaxDepth /\ M - (k + 1) = (M - k) - 1
    BY <1>1
  <2>2. Logged!Value[(M - k) - 1] \subseteq Logged!Value[M - k]
    <3> DEFINE d == M - k
    <3> HIDE DEF d
    <3>1. d \in 1 .. MaxDepth
      BY <2>1 DEF d
    <3>2. Logged!Value[d - 1] \subseteq Logged!Value[d]
      BY <3>1, ValueGrows
    <3> QED  BY <3>2 DEF d
  <2> QED  BY <1>3, <2>1, <2>2
<1>4. Nat \subseteq S
  <2> HIDE DEF S
  <2> QED  BY <1>2, <1>3, Induction
<1> SUFFICES ASSUME NEW d \in 0 .. MaxDepth PROVE Logged!Value[d] \subseteq Logged!Extras
  OBVIOUS
<1>5. M - d \in Nat /\ M - d <= M /\ M - (M - d) = d
  BY <1>1
<1> QED  BY <1>4, <1>5

\* What a value may be: plain, or a list or dict of what is at most d deep.
Plain(w) == w.is \notin {"list", "dict"}
InList(w, d) == w \in [is : {"list"}, items : Seq(Logged!Value[d])]
InDict(w, d) == w \in [is : {"dict"}, key : Logged!Keys, value : Logged!Value[d]]

\* What is not nested.
LEMMA ValueZero ==
  ASSUME NEW w \in Logged!Value[0]
  PROVE  /\ w = Logged!Number \/ w = Logged!Redacted
              \/ \E s \in SUBSET Logged!Findings : w = Logged!Text(s)
         /\ Plain(w)
<1>1. Logged!Value[0] =
        {Logged!Number, Logged!Redacted} \cup [is : {"text"}, found : SUBSET Logged!Findings]
  <2>1. 0 \in 0 .. MaxDepth
    BY DepthNatural
  <2>2. Logged!Value[0] = ValueAt(Logged!Value, 0)
    BY <2>1, ValueDefined, Zenon
  <2> QED  BY <2>2, Zenon DEF ValueAt
<1>2. w = Logged!Number \/ w = Logged!Redacted
        \/ w \in [is : {"text"}, found : SUBSET Logged!Findings]
  BY <1>1
<1>3. ASSUME w \in [is : {"text"}, found : SUBSET Logged!Findings]
      PROVE  w = Logged!Text(w.found) /\ w.found \in SUBSET Logged!Findings
  BY <1>3 DEF Logged!Text
<1> QED  BY <1>2, <1>3 DEF Plain, Logged!Number, Logged!Redacted, Logged!Text

\* What a value of a depth is made of: of what is less deep.
LEMMA ValueParts ==
  \A d \in 0 .. MaxDepth : \A w \in Logged!Value[d] :
    \/ w \in Logged!Value[0]
    \/ d # 0 /\ InList(w, d - 1)
    \/ d # 0 /\ InDict(w, d - 1)
<1> DEFINE Made(d) == \A w \in Logged!Value[d] :
                        \/ w \in Logged!Value[0]
                        \/ d # 0 /\ InList(w, d - 1)
                        \/ d # 0 /\ InDict(w, d - 1)
           S == {d \in Nat : d <= MaxDepth => Made(d)}
<1>1. 0 \in S
  OBVIOUS
<1>2. ASSUME NEW d \in Nat, d \in S PROVE d + 1 \in S
  <2> SUFFICES ASSUME d + 1 <= MaxDepth, NEW w \in Logged!Value[d + 1]
               PROVE  \/ w \in Logged!Value[0]
                      \/ InList(w, d)
                      \/ InDict(w, d)
    OBVIOUS
  <2> DEFINE e == d + 1
  <2>1. e \in 1 .. MaxDepth /\ e - 1 = d /\ d <= MaxDepth
    BY DepthNatural
  <2>2. w \in Logged!Value[d] \/ InList(w, d) \/ InDict(w, d)
    <3> HIDE DEF e
    <3>1. Logged!Value[e] =
            Logged!Value[e - 1] \cup [is : {"list"}, items : Seq(Logged!Value[e - 1])]
                                \cup [is : {"dict"}, key : Logged!Keys, value : Logged!Value[e - 1]]
      BY <2>1, ValueGrows
    <3>2. w \in Logged!Value[e]
      BY DEF e
    <3> QED  BY <2>1, <3>1, <3>2 DEF InList, InDict
  <2>3. ASSUME w \in Logged!Value[d]
        PROVE  \/ w \in Logged!Value[0]
               \/ InList(w, d)
               \/ InDict(w, d)
    <3>1. CASE d = 0
      BY <2>3, <3>1
    <3>2. CASE d # 0
      <4>1. d - 1 \in Nat /\ d \in 1 .. MaxDepth
        BY <2>1, <3>2
      <4>2. Logged!Value[d - 1] \subseteq Logged!Value[d]
        BY <4>1, ValueGrows
      <4>3. w \in Logged!Value[0] \/ InList(w, d - 1) \/ InDict(w, d - 1)
        BY <1>2, <2>1, <2>3
      <4>4. InList(w, d - 1) => InList(w, d)
        BY <4>2 DEF InList
      <4>5. InDict(w, d - 1) => InDict(w, d)
        BY <4>2 DEF InDict
      <4> QED  BY <4>3, <4>4, <4>5
    <3> QED  BY <3>1, <3>2
  <2> QED  BY <2>2, <2>3
<1>3. Nat \subseteq S
  <2> HIDE DEF S
  <2> QED  BY <1>1, <1>2, Induction
<1> SUFFICES ASSUME NEW d \in 0 .. MaxDepth PROVE Made(d)
  OBVIOUS
<1>4. d \in S /\ d <= MaxDepth
  BY <1>3, DepthNatural
<1> QED  BY <1>4

-----------------------------------------------------------------------------
\* What scrub() does to w under k, with f for what is inside.
ScrubAt(f, w, k) ==
  IF Logged!IsSensitive(k) THEN Logged!Redacted
  ELSE IF w.is = "text" THEN Logged!Text(Logged!ScrubText(w.found))
  ELSE IF w.is = "dict" THEN Logged!Dict(w.key, f[w.value][w.key])
  ELSE IF w.is = "list" THEN Logged!List([i \in DOMAIN w.items |-> f[w.items[i]]["other"]])
  ELSE w
Scrubs(f, V) == f = [w \in V |-> [k \in Logged!Keys |-> ScrubAt(f, w, k)]]

\* How scrub() is defined.
LEMMA ScrubUnfolds ==
  \A v, key : Logged!Scrub(v, key) = (CHOOSE f : Scrubs(f, Logged!Extras))[v][key]
BY DEF Logged!Scrub, ScrubAt, Scrubs

\* Functions that agree on what is less deep scrub alike.
LEMMA ScrubAgrees ==
  ASSUME NEW d \in 1 .. MaxDepth, NEW f, NEW g,
         \A w \in Logged!Value[d - 1] : \A k \in Logged!Keys : f[w][k] = g[w][k],
         NEW w \in Logged!Value[d], NEW k \in Logged!Keys
  PROVE  ScrubAt(f, w, k) = ScrubAt(g, w, k)
<1>1. d \in 0 .. MaxDepth /\ d # 0 /\ "other" \in Logged!Keys
  BY DepthNatural DEF Logged!Keys
<1>2. CASE w \in Logged!Value[0]
  BY <1>2, ValueZero DEF ScrubAt, Plain
<1>3. CASE InDict(w, d - 1)
  <2>1. w.is = "dict" /\ w.key \in Logged!Keys /\ w.value \in Logged!Value[d - 1]
    BY <1>3 DEF InDict
  <2>2. f[w.value][w.key] = g[w.value][w.key]
    BY <2>1
  <2> QED  BY <2>1, <2>2 DEF ScrubAt
<1>4. CASE InList(w, d - 1)
  <2>1. w.is = "list" /\ w.items \in Seq(Logged!Value[d - 1])
    BY <1>4 DEF InList
  <2>2. \A i \in DOMAIN w.items : f[w.items[i]]["other"] = g[w.items[i]]["other"]
    <3> TAKE i \in DOMAIN w.items
    <3>1. w.items[i] \in Logged!Value[d - 1]
      BY <2>1
    <3> QED  BY <1>1, <3>1
  <2>3. [i \in DOMAIN w.items |-> f[w.items[i]]["other"]] =
          [i \in DOMAIN w.items |-> g[w.items[i]]["other"]]
    BY <2>2
  <2> QED  BY <2>1, <2>3, Zenon DEF ScrubAt
<1> QED  BY <1>1, <1>2, <1>3, <1>4, ValueParts

\* There is a function that scrubs as deep as one likes.
LEMMA ScrubExists ==
  \A d \in 0 .. MaxDepth : \E f : Scrubs(f, Logged!Value[d])
<1> DEFINE S == {d \in Nat : d <= MaxDepth => \E f : Scrubs(f, Logged!Value[d])}
<1>1. 0 \in S
  <2> DEFINE f == [w \in Logged!Value[0] |-> [k \in Logged!Keys |-> ScrubAt(<< >>, w, k)]]
  <2>1. \A w \in Logged!Value[0] : \A k \in Logged!Keys : ScrubAt(<< >>, w, k) = ScrubAt(f, w, k)
    <3> HIDE DEF f
    <3> QED  BY ValueZero DEF ScrubAt, Plain
  <2>2. f = [w \in Logged!Value[0] |-> [k \in Logged!Keys |-> ScrubAt(f, w, k)]]
    BY <2>1
  <2> HIDE DEF f
  <2> QED  BY <2>2 DEF Scrubs
<1>2. ASSUME NEW d \in Nat, d \in S PROVE d + 1 \in S
  <2> SUFFICES ASSUME d + 1 <= MaxDepth PROVE \E f : Scrubs(f, Logged!Value[d + 1])
    OBVIOUS
  <2> DEFINE e == d + 1
             V == Logged!Value[d]
             W == Logged!Value[e]
  <2>1. e \in 1 .. MaxDepth /\ e - 1 = d /\ d <= MaxDepth
    BY DepthNatural
  <2>2. V \subseteq W
    <3>1. Logged!Value[e - 1] \subseteq Logged!Value[e]
      <4> HIDE DEF e
      <4> QED  BY <2>1, ValueGrows
    <3> QED  BY <2>1, <3>1
  <2>3. PICK f : Scrubs(f, V)
    BY <1>2, <2>1
  <2> DEFINE g == [w \in W |-> [k \in Logged!Keys |-> ScrubAt(f, w, k)]]
  <2>4. \A w \in V : \A k \in Logged!Keys : f[w][k] = g[w][k]
    <3> TAKE w \in V
    <3> TAKE k \in Logged!Keys
    <3>1. f[w][k] = ScrubAt(f, w, k)
      <4> HIDE DEF V
      <4> QED  BY <2>3 DEF Scrubs
    <3>2. g[w][k] = ScrubAt(f, w, k)
      <4> HIDE DEF V, W
      <4> QED  BY <2>2
    <3> QED  BY <3>1, <3>2
  <2> HIDE DEF g
  <2>5. \A w \in W : \A k \in Logged!Keys : ScrubAt(f, w, k) = ScrubAt(g, w, k)
    <3>1. \A w \in Logged!Value[e - 1] : \A k \in Logged!Keys : f[w][k] = g[w][k]
      BY <2>1, <2>4
    <3> HIDE DEF e
    <3> QED  BY <2>1, <3>1, ScrubAgrees
  <2>6. g = [w \in W |-> [k \in Logged!Keys |-> ScrubAt(g, w, k)]]
    <3> HIDE DEF W
    <3> QED  BY <2>5 DEF g
  <2> QED  BY <2>6 DEF Scrubs
<1>3. Nat \subseteq S
  <2> HIDE DEF S
  <2> QED  BY <1>1, <1>2, Induction
<1> SUFFICES ASSUME NEW d \in 0 .. MaxDepth PROVE \E f : Scrubs(f, Logged!Value[d])
  OBVIOUS
<1>4. d \in S /\ d <= MaxDepth
  BY <1>3, DepthNatural
<1> QED  BY <1>4

\* What scrub() does to an extra, and to its parts.
LEMMA ScrubDefined ==
  ASSUME NEW w \in Logged!Extras, NEW k \in Logged!Keys
  PROVE  Logged!Scrub(w, k) =
           IF Logged!IsSensitive(k) THEN Logged!Redacted
           ELSE IF w.is = "text" THEN Logged!Text(Logged!ScrubText(w.found))
           ELSE IF w.is = "dict" THEN Logged!Dict(w.key, Logged!Scrub(w.value, w.key))
           ELSE IF w.is = "list"
             THEN Logged!List([i \in DOMAIN w.items |-> Logged!Scrub(w.items[i], "other")])
           ELSE w
<1> DEFINE f == CHOOSE f : Scrubs(f, Logged!Extras)
<1>1. Scrubs(f, Logged!Extras)
  <2>1. \E g : Scrubs(g, Logged!Extras)
    BY DepthNatural, ScrubExists DEF Logged!Extras
  <2> QED  BY <2>1, Zenon
<1>2. \A v, key : Logged!Scrub(v, key) = f[v][key]
  BY ScrubUnfolds
<1> HIDE DEF f
<1>3. f[w][k] = ScrubAt(f, w, k)
  BY <1>1 DEF Scrubs
<1> QED  BY <1>2, <1>3 DEF ScrubAt

-----------------------------------------------------------------------------
\* The ways to a leaf, and a step further on one.
Paths == Seq([key : Logged!Keys, at : Nat])
Onto(ks, k, i) == Append(ks, [key |-> k, at |-> i])

\* The leaves of w, with f for what is inside.
LeavesAt(f, w, ks) ==
  IF w.is = "dict" THEN f[w.value][Onto(ks, w.key, 0)]
  ELSE IF w.is = "list"
  THEN UNION {f[w.items[i]][Onto(ks, "other", i)] : i \in DOMAIN w.items}
  ELSE {<<ks, w>>}
Finds(f, V) == f = [w \in V |-> [ks \in Paths |-> LeavesAt(f, w, ks)]]

\* How the leaves are defined.
LEMMA LeavesUnfolds ==
  \A v, keys : Logged!Leaves(v, keys) = (CHOOSE f : Finds(f, Logged!Extras))[v][keys]
BY DEF Logged!Leaves, LeavesAt, Finds, Onto, Paths

\* A path to a value goes on to its parts.
LEMMA PathGrows ==
  ASSUME NEW ks \in Paths, NEW k \in Logged!Keys, NEW i \in Nat
  PROVE  /\ Onto(ks, k, i) \in Paths
         /\ Logged!Hidden(Onto(ks, k, i)) <=> Logged!Hidden(ks) \/ Logged!IsSensitive(k)
<1> DEFINE step == [key |-> k, at |-> i]
           more == Append(ks, step)
<1>1. ks \in Seq([key : Logged!Keys, at : Nat]) /\ step \in [key : Logged!Keys, at : Nat]
        /\ step.key = k
  BY DEF Paths
<1> HIDE DEF step
<1>2. /\ more \in Seq([key : Logged!Keys, at : Nat]) /\ DOMAIN more = 1 .. Len(ks) + 1
      /\ Len(ks) \in Nat /\ DOMAIN ks = 1 .. Len(ks)
      /\ \A j \in 1 .. Len(ks) : more[j] = ks[j]
      /\ more[Len(ks) + 1] = step
  BY <1>1
<1> HIDE DEF more
<1>3. (\E j \in DOMAIN more : more[j].key \in {"content", "credential"})
        <=> (\E j \in DOMAIN ks : ks[j].key \in {"content", "credential"})
          \/ k \in {"content", "credential"}
  <2>1. ASSUME NEW j \in DOMAIN more, more[j].key \in {"content", "credential"}
        PROVE  (\E i2 \in DOMAIN ks : ks[i2].key \in {"content", "credential"})
                 \/ k \in {"content", "credential"}
    <3>1. CASE j \in 1 .. Len(ks)
      BY <1>2, <2>1, <3>1
    <3>2. CASE j = Len(ks) + 1
      BY <1>1, <1>2, <2>1, <3>2
    <3> QED  BY <1>2, <3>1, <3>2
  <2>2. ASSUME NEW j \in DOMAIN ks, ks[j].key \in {"content", "credential"}
        PROVE  \E i2 \in DOMAIN more : more[i2].key \in {"content", "credential"}
    <3>1. j \in DOMAIN more /\ more[j] = ks[j]
      BY <1>2
    <3> QED  BY <2>2, <3>1
  <2>3. ASSUME k \in {"content", "credential"}
        PROVE  \E i2 \in DOMAIN more : more[i2].key \in {"content", "credential"}
    <3>1. Len(ks) + 1 \in DOMAIN more
      BY <1>2
    <3> QED  BY <1>1, <1>2, <2>3, <3>1
  <2> QED  BY <2>1, <2>2, <2>3
<1>4. Onto(ks, k, i) = more
  BY DEF Onto, more, step
<1> QED  BY <1>2, <1>3, <1>4 DEF Logged!Hidden, Logged!IsSensitive, Paths

\* Functions that agree on what is less deep find the same leaves.
LEMMA LeavesAgree ==
  ASSUME NEW d \in 1 .. MaxDepth, NEW f, NEW g,
         \A w \in Logged!Value[d - 1] : \A ks \in Paths : f[w][ks] = g[w][ks],
         NEW w \in Logged!Value[d], NEW ks \in Paths
  PROVE  LeavesAt(f, w, ks) = LeavesAt(g, w, ks)
<1>1. d \in 0 .. MaxDepth /\ d # 0 /\ "other" \in Logged!Keys /\ 0 \in Nat
  BY DepthNatural DEF Logged!Keys
<1>2. CASE w \in Logged!Value[0]
  BY <1>2, ValueZero DEF LeavesAt, Plain
<1>3. CASE InDict(w, d - 1)
  <2>1. w.is = "dict" /\ w.key \in Logged!Keys /\ w.value \in Logged!Value[d - 1]
    BY <1>3 DEF InDict
  <2>2. Onto(ks, w.key, 0) \in Paths
    BY <1>1, <2>1, PathGrows
  <2>3. f[w.value][Onto(ks, w.key, 0)] = g[w.value][Onto(ks, w.key, 0)]
    BY <2>1, <2>2
  <2> QED  BY <2>1, <2>3 DEF LeavesAt
<1>4. CASE InList(w, d - 1)
  <2>1. w.is = "list" /\ w.items \in Seq(Logged!Value[d - 1])
    BY <1>4 DEF InList
  <2>2. \A i \in DOMAIN w.items : f[w.items[i]][Onto(ks, "other", i)] =
          g[w.items[i]][Onto(ks, "other", i)]
    <3> TAKE i \in DOMAIN w.items
    <3>1. w.items[i] \in Logged!Value[d - 1] /\ i \in Nat
      BY <2>1
    <3>2. Onto(ks, "other", i) \in Paths
      BY <1>1, <3>1, PathGrows
    <3> QED  BY <3>1, <3>2
  <2>3. {f[w.items[i]][Onto(ks, "other", i)] : i \in DOMAIN w.items} =
          {g[w.items[i]][Onto(ks, "other", i)] : i \in DOMAIN w.items}
    BY <2>2
  <2>4. w.is # "dict"
    BY <2>1
  <2> QED  BY <2>1, <2>3, <2>4, Zenon DEF LeavesAt
<1> QED  BY <1>1, <1>2, <1>3, <1>4, ValueParts

\* There is a function that finds the leaves as deep as one likes.
LEMMA LeavesExist ==
  \A d \in 0 .. MaxDepth : \E f : Finds(f, Logged!Value[d])
<1> DEFINE S == {d \in Nat : d <= MaxDepth => \E f : Finds(f, Logged!Value[d])}
<1>1. 0 \in S
  <2> DEFINE f == [w \in Logged!Value[0] |-> [ks \in Paths |-> LeavesAt(<< >>, w, ks)]]
  <2>1. \A w \in Logged!Value[0] : \A ks \in Paths : LeavesAt(<< >>, w, ks) = LeavesAt(f, w, ks)
    <3> HIDE DEF f
    <3> QED  BY ValueZero DEF LeavesAt, Plain
  <2>2. f = [w \in Logged!Value[0] |-> [ks \in Paths |-> LeavesAt(f, w, ks)]]
    BY <2>1
  <2> HIDE DEF f
  <2> QED  BY <2>2 DEF Finds
<1>2. ASSUME NEW d \in Nat, d \in S PROVE d + 1 \in S
  <2> SUFFICES ASSUME d + 1 <= MaxDepth PROVE \E f : Finds(f, Logged!Value[d + 1])
    OBVIOUS
  <2> DEFINE e == d + 1
             V == Logged!Value[d]
             W == Logged!Value[e]
  <2>1. e \in 1 .. MaxDepth /\ e - 1 = d /\ d <= MaxDepth
    BY DepthNatural
  <2>2. V \subseteq W
    <3>1. Logged!Value[e - 1] \subseteq Logged!Value[e]
      <4> HIDE DEF e
      <4> QED  BY <2>1, ValueGrows
    <3> QED  BY <2>1, <3>1
  <2>3. PICK f : Finds(f, V)
    BY <1>2, <2>1
  <2> DEFINE g == [w \in W |-> [ks \in Paths |-> LeavesAt(f, w, ks)]]
  <2>4. \A w \in V : \A ks \in Paths : f[w][ks] = g[w][ks]
    <3> TAKE w \in V
    <3> TAKE ks \in Paths
    <3>1. f[w][ks] = LeavesAt(f, w, ks)
      <4> HIDE DEF V
      <4> QED  BY <2>3 DEF Finds
    <3>2. g[w][ks] = LeavesAt(f, w, ks)
      <4> HIDE DEF V, W
      <4> QED  BY <2>2
    <3> QED  BY <3>1, <3>2
  <2> HIDE DEF g
  <2>5. \A w \in W : \A ks \in Paths : LeavesAt(f, w, ks) = LeavesAt(g, w, ks)
    <3>1. \A w \in Logged!Value[e - 1] : \A ks \in Paths : f[w][ks] = g[w][ks]
      BY <2>1, <2>4
    <3> HIDE DEF e
    <3> QED  BY <2>1, <3>1, LeavesAgree
  <2>6. g = [w \in W |-> [ks \in Paths |-> LeavesAt(g, w, ks)]]
    <3> HIDE DEF W
    <3> QED  BY <2>5 DEF g
  <2> QED  BY <2>6 DEF Finds
<1>3. Nat \subseteq S
  <2> HIDE DEF S
  <2> QED  BY <1>1, <1>2, Induction
<1> SUFFICES ASSUME NEW d \in 0 .. MaxDepth PROVE \E f : Finds(f, Logged!Value[d])
  OBVIOUS
<1>4. d \in S /\ d <= MaxDepth
  BY <1>3, DepthNatural
<1> QED  BY <1>4

\* What the leaves of an extra are: those of its parts.
LEMMA LeavesDefined ==
  ASSUME NEW w \in Logged!Extras, NEW ks \in Paths
  PROVE  Logged!Leaves(w, ks) =
           IF w.is = "dict" THEN Logged!Leaves(w.value, Onto(ks, w.key, 0))
           ELSE IF w.is = "list"
             THEN UNION {Logged!Leaves(w.items[i], Onto(ks, "other", i)) : i \in DOMAIN w.items}
           ELSE {<<ks, w>>}
<1> DEFINE f == CHOOSE f : Finds(f, Logged!Extras)
<1>1. Finds(f, Logged!Extras)
  <2>1. \E g : Finds(g, Logged!Extras)
    BY DepthNatural, LeavesExist DEF Logged!Extras
  <2> QED  BY <2>1, Zenon
<1>2. \A v, keys : Logged!Leaves(v, keys) = f[v][keys]
  BY LeavesUnfolds
<1> HIDE DEF f
<1>3. f[w][ks] = LeavesAt(f, w, ks)
  BY <1>1 DEF Finds
<1> QED  BY <1>2, <1>3 DEF LeavesAt

-----------------------------------------------------------------------------
\* Where what a substitution leaves comes from.
LEMMA SubstituteFrom ==
  ASSUME NEW p, NEW found, NEW x \in Logged!Substitute(p, found)
  PROVE  \/ x \in found /\ x.shape # p /\ x.holds # p
         \/ x = Logged!Unseen /\ \E o \in found : o.shape # p /\ o.holds = p
<1>1. PICK o \in found :
        x \in IF o.shape = p THEN {} ELSE IF o.holds = p THEN {Logged!Unseen} ELSE {o}
  BY DEF Logged!Substitute
<1> QED  BY <1>1

\* A run of digits in a token breaks it: the numbers go first.
LEMMA DigitsBreak ==
  ASSUME NEW o \in Logged!Findings, o.holds = "phone"
  PROVE  Logged!Broken(o)
<1>1. o.shape \in {"bearer", "jwt"}
  BY DEF Logged!Findings, Logged!Match, Logged!Within, Logged!Unseen
<1>2. /\ 2 \in DOMAIN Logged!Patterns /\ Logged!Patterns[2] = "phone"
      /\ 3 \in DOMAIN Logged!Patterns /\ Logged!Patterns[3] = "bearer"
      /\ 4 \in DOMAIN Logged!Patterns /\ Logged!Patterns[4] = "jwt"
  BY DEF Logged!Patterns
<1>3. CASE o.shape = "bearer"
  BY <1>2, <1>3 DEF Logged!Broken
<1>4. CASE o.shape = "jwt"
  BY <1>2, <1>4 DEF Logged!Broken
<1> QED  BY <1>1, <1>3, <1>4

\* What is left of a text when each pattern has been substituted in turn.
LEMMA TextCleaned ==
  ASSUME NEW found \in SUBSET Logged!Findings
  PROVE  /\ Logged!ScrubText(found) \in SUBSET Logged!Findings
         /\ Logged!Cleaned(Logged!ScrubText(found), found)
         /\ found = {} => Logged!ScrubText(found) = {}
<1> DEFINE A == Logged!Substitute("email", found)
           B == Logged!Substitute("phone", A)
           C == Logged!Substitute("bearer", B)
           D == Logged!Substitute("jwt", C)
<1>1. /\ Logged!Unseen \in Logged!Findings /\ Logged!Unseen.shape = "none"
      /\ Logged!Unseen.holds = "nothing"
      /\ \A o \in Logged!Findings : /\ o.shape \in {"email", "phone", "bearer", "jwt", "none"}
                                    /\ o.holds \in {"nothing", "phone", "jwt"}
                                    /\ o.shape = "none" => o = Logged!Unseen
                                    /\ o.holds = "jwt" => o.shape = "bearer"
  BY DEF Logged!Findings, Logged!Match, Logged!Within, Logged!Unseen
<1>2. \A x \in A : x \in found /\ x.shape # "email"
  BY <1>1, SubstituteFrom
<1>9. /\ Logged!Unseen.shape = "none" /\ Logged!Unseen.holds = "nothing"
      /\ \A o \in found : /\ o.holds # "bearer"
                          /\ o.shape \in {"email", "phone", "bearer", "jwt"} \/ o = Logged!Unseen
                          /\ o.holds = "jwt" => o.shape = "bearer"
  BY <1>1
<1> DEFINE Left == \E o \in found : o.holds = "phone"
<1> HIDE DEF A
<1>3. \A x \in B : \/ x \in found /\ x.shape \notin {"email", "phone"} /\ x.holds # "phone"
                   \/ x = Logged!Unseen /\ Left
  <2> SUFFICES ASSUME NEW x \in B
               PROVE  \/ x \in found /\ x.shape \notin {"email", "phone"} /\ x.holds # "phone"
                      \/ x = Logged!Unseen /\ Left
    OBVIOUS
  <2>1. \/ x \in A /\ x.shape # "phone" /\ x.holds # "phone"
        \/ x = Logged!Unseen /\ \E o \in A : o.shape # "phone" /\ o.holds = "phone"
    BY SubstituteFrom
  <2> HIDE DEF B
  <2> QED  BY <1>2, <2>1
<1> HIDE DEF B
<1>4. \A x \in C : \/ x \in found /\ x.shape \notin {"email", "phone", "bearer"} /\ x.holds # "phone"
                   \/ x = Logged!Unseen /\ Left
  <2> SUFFICES ASSUME NEW x \in C
               PROVE  \/ /\ x \in found /\ x.holds # "phone"
                         /\ x.shape \notin {"email", "phone", "bearer"}
                      \/ x = Logged!Unseen /\ Left
    OBVIOUS
  <2>1. \/ x \in B /\ x.shape # "bearer" /\ x.holds # "bearer"
        \/ x = Logged!Unseen /\ \E o \in B : o.shape # "bearer" /\ o.holds = "bearer"
    BY SubstituteFrom
  <2> HIDE DEF C, Left
  <2>2. \A o \in B : o.holds # "bearer"
    BY <1>3, <1>9
  <2> QED  BY <1>3, <2>1, <2>2
<1> HIDE DEF C
<1>5. \A x \in D : x = Logged!Unseen /\ (x \in found \/ Left)
  <2> SUFFICES ASSUME NEW x \in D PROVE x = Logged!Unseen /\ (x \in found \/ Left)
    OBVIOUS
  <2>1. \/ x \in C /\ x.shape # "jwt" /\ x.holds # "jwt"
        \/ x = Logged!Unseen /\ \E o \in C : o.shape # "jwt" /\ o.holds = "jwt"
    BY SubstituteFrom
  <2> HIDE DEF D, Left
  <2>2. \A o \in C : o.holds = "jwt" => o.shape = "bearer" /\ o \in found
    BY <1>4, <1>9
  <2>3. ASSUME x \in C, x.shape # "jwt", x # Logged!Unseen PROVE FALSE
    BY <1>4, <1>9, <2>3
  <2>4. ASSUME x \in C, x = Logged!Unseen PROVE x \in found \/ Left
    BY <1>4, <2>4
  <2>5. ASSUME NEW o \in C, o.holds = "jwt" PROVE FALSE
    BY <1>4, <1>9, <2>2, <2>5
  <2> QED  BY <2>1, <2>3, <2>4, <2>5
<1>6. D = Logged!ScrubText(found)
  BY DEF Logged!ScrubText, A, B, C
<1> HIDE DEF D
<1>7. Left => \E o \in found : Logged!Broken(o)
  BY DigitsBreak
<1>8. found = {} => D = {}
  BY <1>5
<1> QED  BY <1>1, <1>5, <1>6, <1>7, <1>8 DEF Logged!Cleaned

\* What scrub() does to what is not nested.
LEMMA ScrubPlain ==
  ASSUME NEW w \in Logged!Value[0], NEW k \in Logged!Keys, ~Logged!IsSensitive(k)
  PROVE  /\ w \in {Logged!Number, Logged!Redacted, Logged!Text({})} => Logged!Scrub(w, k) = w
         /\ Logged!Scrub(w, k) \in Logged!Value[0]
         /\ Logged!Scrub(w, k).is = w.is
         /\ w.is = "text" => Logged!Cleaned(Logged!Scrub(w, k).found, w.found)
<1>1. w \in Logged!Extras
  BY DepthNatural, ValuesAreExtras
<1>2. /\ w = Logged!Number \/ w = Logged!Redacted
           \/ \E s \in SUBSET Logged!Findings : w = Logged!Text(s)
      /\ w.is # "list" /\ w.is # "dict"
  BY ValueZero DEF Plain
<1>3. Logged!Scrub(w, k) = IF w.is = "text" THEN Logged!Text(Logged!ScrubText(w.found)) ELSE w
  <2>1. Logged!Scrub(w, k) =
           IF Logged!IsSensitive(k) THEN Logged!Redacted
           ELSE IF w.is = "text" THEN Logged!Text(Logged!ScrubText(w.found))
           ELSE IF w.is = "dict" THEN Logged!Dict(w.key, Logged!Scrub(w.value, w.key))
           ELSE IF w.is = "list"
             THEN Logged!List([i \in DOMAIN w.items |-> Logged!Scrub(w.items[i], "other")])
           ELSE w
    BY <1>1, ScrubDefined
  <2> QED  BY <1>2, <2>1, Zenon
<1>4. w \in {Logged!Number, Logged!Redacted} => w.is # "text"
  BY DEF Logged!Number, Logged!Redacted
<1>5. \A s : Logged!Text(s).is = "text" /\ Logged!Text(s).found = s
  BY DEF Logged!Text
<1>6. ASSUME NEW s \in SUBSET Logged!Findings, w = Logged!Text(s)
      PROVE  /\ Logged!Scrub(w, k) = Logged!Text(Logged!ScrubText(s)) /\ w.found = s
             /\ Logged!Scrub(w, k) \in Logged!Value[0]
             /\ Logged!Cleaned(Logged!ScrubText(s), s) /\ (s = {} => Logged!ScrubText(s) = {})
  <2>1. Logged!Scrub(w, k) = Logged!Text(Logged!ScrubText(s)) /\ w.found = s
    BY <1>3, <1>5, <1>6
  <2>2. Logged!Value[0] =
          {Logged!Number, Logged!Redacted} \cup [is : {"text"}, found : SUBSET Logged!Findings]
    <3>1. 0 \in 0 .. MaxDepth
      BY DepthNatural
    <3> QED  BY <3>1, ValueDefined, Zenon DEF ValueAt
  <2>3. /\ Logged!ScrubText(s) \in SUBSET Logged!Findings
        /\ Logged!Cleaned(Logged!ScrubText(s), s) /\ (s = {} => Logged!ScrubText(s) = {})
    BY <1>6, TextCleaned
  <2>4. \A t \in SUBSET Logged!Findings :
          Logged!Text(t) \in [is : {"text"}, found : SUBSET Logged!Findings]
    BY DEF Logged!Text
  <2> QED  BY <2>1, <2>2, <2>3, <2>4
<1>7. CASE w \in {Logged!Number, Logged!Redacted}
  BY <1>3, <1>4, <1>7
<1>8. CASE w \notin {Logged!Number, Logged!Redacted}
  <2>1. PICK s \in SUBSET Logged!Findings : w = Logged!Text(s)
    BY <1>2, <1>8
  <2>2. w = Logged!Text({}) => s = {}
    BY <2>1 DEF Logged!Text
  <2> QED  BY <1>5, <1>6, <1>8, <2>1, <2>2
<1> QED  BY <1>7, <1>8

\* What scrub() does to a dict, and where the leaves of what it gives are.
LEMMA ScrubDict ==
  ASSUME NEW d \in 1 .. MaxDepth, NEW w, InDict(w, d - 1), NEW k \in Logged!Keys, NEW ks \in Paths,
         Logged!Scrub(w.value, w.key) \in Logged!Value[d - 1]
  PROVE  /\ w.key \in Logged!Keys /\ w.value \in Logged!Value[d - 1]
         /\ Logged!Leaves(w, ks) = Logged!Leaves(w.value, Onto(ks, w.key, 0))
         /\ ~Logged!IsSensitive(k) =>
              /\ Logged!Scrub(w, k) \in Logged!Value[d]
              /\ Logged!Leaves(Logged!Scrub(w, k), ks) =
                   Logged!Leaves(Logged!Scrub(w.value, w.key), Onto(ks, w.key, 0))
<1>1. w.is = "dict" /\ w.key \in Logged!Keys /\ w.value \in Logged!Value[d - 1]
  BY DEF InDict
<1>2. /\ d \in 0 .. MaxDepth
      /\ Logged!Value[d] =
           Logged!Value[d - 1] \cup [is : {"list"}, items : Seq(Logged!Value[d - 1])]
                                \cup [is : {"dict"}, key : Logged!Keys, value : Logged!Value[d - 1]]
  BY DepthNatural, ValueGrows
<1>3. Logged!Value[d] \subseteq Logged!Extras
  BY <1>2, ValuesAreExtras
<1>4. w \in Logged!Extras
  BY <1>2, <1>3 DEF InDict
<1>5. Logged!Leaves(w, ks) = Logged!Leaves(w.value, Onto(ks, w.key, 0))
  BY <1>1, <1>4, LeavesDefined
<1>6. ASSUME ~Logged!IsSensitive(k)
      PROVE  /\ Logged!Scrub(w, k) \in Logged!Value[d]
             /\ Logged!Leaves(Logged!Scrub(w, k), ks) =
                  Logged!Leaves(Logged!Scrub(w.value, w.key), Onto(ks, w.key, 0))
  <2> DEFINE y == Logged!Scrub(w.value, w.key)
             z == Logged!Scrub(w, k)
  <2>1. z = Logged!Dict(w.key, y)
    <3>1. w.is # "text"
      BY <1>1
    <3> QED  BY <1>1, <1>4, <1>6, <3>1, ScrubDefined, Zenon
  <2>2. y \in Logged!Value[d - 1]
    OBVIOUS
  <2> HIDE DEF y, z
  <2>3. z \in [is : {"dict"}, key : Logged!Keys, value : Logged!Value[d - 1]] /\ z.is = "dict"
          /\ z.key = w.key /\ z.value = y
    BY <1>1, <2>1, <2>2 DEF Logged!Dict
  <2>4. z \in Logged!Value[d] /\ z \in Logged!Extras
    BY <1>2, <1>3, <2>3
  <2>5. Logged!Leaves(z, ks) = Logged!Leaves(z.value, Onto(ks, z.key, 0))
    BY <2>3, <2>4, LeavesDefined
  <2> QED  BY <2>3, <2>4, <2>5 DEF y, z
<1> QED  BY <1>1, <1>5, <1>6

\* What scrub() does to a list, and where the leaves of what it gives are.
LEMMA ScrubList ==
  ASSUME NEW d \in 1 .. MaxDepth, NEW w, InList(w, d - 1), NEW k \in Logged!Keys, NEW ks \in Paths,
         \A i \in DOMAIN w.items : Logged!Scrub(w.items[i], "other") \in Logged!Value[d - 1]
  PROVE  /\ \A i \in DOMAIN w.items : w.items[i] \in Logged!Value[d - 1] /\ i \in Nat
         /\ Logged!Leaves(w, ks) =
              UNION {Logged!Leaves(w.items[i], Onto(ks, "other", i)) : i \in DOMAIN w.items}
         /\ ~Logged!IsSensitive(k) =>
              /\ Logged!Scrub(w, k) \in Logged!Value[d]
              /\ Logged!Leaves(Logged!Scrub(w, k), ks) =
                   UNION {Logged!Leaves(Logged!Scrub(w.items[i], "other"), Onto(ks, "other", i)) :
                     i \in DOMAIN w.items}
<1>1. w.is = "list" /\ w.items \in Seq(Logged!Value[d - 1])
  BY DEF InList
<1>2. /\ d \in 0 .. MaxDepth
      /\ Logged!Value[d] =
           Logged!Value[d - 1] \cup [is : {"list"}, items : Seq(Logged!Value[d - 1])]
                                \cup [is : {"dict"}, key : Logged!Keys, value : Logged!Value[d - 1]]
  BY DepthNatural, ValueGrows
<1>3. Logged!Value[d] \subseteq Logged!Extras
  BY <1>2, ValuesAreExtras
<1>4. w \in Logged!Extras
  BY <1>2, <1>3 DEF InList
<1>5. \A i \in DOMAIN w.items : w.items[i] \in Logged!Value[d - 1] /\ i \in Nat
  BY <1>1
<1>6. w.is # "dict" /\ w.is # "text"
  BY <1>1
<1>7. Logged!Leaves(w, ks) =
        UNION {Logged!Leaves(w.items[i], Onto(ks, "other", i)) : i \in DOMAIN w.items}
  BY <1>1, <1>4, <1>6, LeavesDefined, Zenon
<1>8. ASSUME ~Logged!IsSensitive(k)
      PROVE  /\ Logged!Scrub(w, k) \in Logged!Value[d]
             /\ Logged!Leaves(Logged!Scrub(w, k), ks) =
                   UNION {Logged!Leaves(Logged!Scrub(w.items[i], "other"), Onto(ks, "other", i)) :
                     i \in DOMAIN w.items}
  <2> DEFINE ys == [i \in DOMAIN w.items |-> Logged!Scrub(w.items[i], "other")]
             z == Logged!Scrub(w, k)
  <2>1. z = Logged!List(ys)
    BY <1>1, <1>4, <1>6, <1>8, ScrubDefined, Zenon
  <2>2. ys \in Seq(Logged!Value[d - 1]) /\ DOMAIN ys = DOMAIN w.items
    <3>1. DOMAIN w.items = 1 .. Len(w.items) /\ Len(w.items) \in Nat
      BY <1>1
    <3> QED  BY <3>1
  <2>3. \A i \in DOMAIN w.items : ys[i] = Logged!Scrub(w.items[i], "other")
    OBVIOUS
  <2> HIDE DEF ys, z
  <2>4. z \in [is : {"list"}, items : Seq(Logged!Value[d - 1])] /\ z.is = "list" /\ z.items = ys
    BY <2>1, <2>2 DEF Logged!List
  <2>5. z \in Logged!Value[d] /\ z \in Logged!Extras /\ z.is # "dict"
    BY <1>2, <1>3, <2>4
  <2>6. Logged!Leaves(z, ks) =
          UNION {Logged!Leaves(z.items[i], Onto(ks, "other", i)) : i \in DOMAIN z.items}
    BY <2>4, <2>5, LeavesDefined, Zenon
  <2>7. {Logged!Leaves(z.items[i], Onto(ks, "other", i)) : i \in DOMAIN z.items}
          = {Logged!Leaves(Logged!Scrub(w.items[i], "other"), Onto(ks, "other", i)) :
            i \in DOMAIN w.items}
    <3>1. DOMAIN z.items = DOMAIN w.items
            /\ \A i \in DOMAIN w.items : z.items[i] = Logged!Scrub(w.items[i], "other")
      BY <2>2, <2>3, <2>4
    <3> QED  BY <3>1
  <2> QED  BY <2>5, <2>6, <2>7 DEF z
<1> QED  BY <1>5, <1>7, <1>8

\* Induction over the depth.
LEMMA DepthInduction ==
  ASSUME NEW S, 0 \in S, \A d \in 1 .. MaxDepth : d - 1 \in S => d \in S
  PROVE  0 .. MaxDepth \subseteq S
<1> DEFINE T == {n \in Nat : n <= MaxDepth => n \in S}
<1>1. 0 \in T
  OBVIOUS
<1>2. ASSUME NEW n \in Nat, n \in T PROVE n + 1 \in T
  <2> SUFFICES ASSUME n + 1 <= MaxDepth PROVE n + 1 \in S
    OBVIOUS
  <2>1. n \in S /\ n + 1 \in 1 .. MaxDepth /\ (n + 1) - 1 = n
    BY <1>2, DepthNatural
  <2> QED  BY <2>1
<1>3. Nat \subseteq T
  <2> HIDE DEF T
  <2> QED  BY <1>1, <1>2, Induction
<1> QED  BY <1>3, DepthNatural

\* What is not nested is allowed at any depth.
LEMMA ZeroEverywhere == \A d \in 0 .. MaxDepth : Logged!Value[0] \subseteq Logged!Value[d]
<1> DEFINE S == {d \in 0 .. MaxDepth : Logged!Value[0] \subseteq Logged!Value[d]}
<1>1. 0 \in S
  BY DepthNatural
<1>2. ASSUME NEW d \in 1 .. MaxDepth, d - 1 \in S PROVE d \in S
  <2>1. Logged!Value[d - 1] \subseteq Logged!Value[d]
    BY ValueGrows
  <2> QED  BY <1>2, <2>1, DepthNatural
<1>3. 0 .. MaxDepth \subseteq S
  <2> HIDE DEF S
  <2> QED  BY <1>1, <1>2, DepthInduction
<1> QED  BY <1>3

\* What is redacted is a leaf.
LEMMA RedactedLeaf ==
  /\ Logged!Redacted \in Logged!Value[0]
  /\ \A w \in Logged!Value[0], ks \in Paths : Logged!Leaves(w, ks) = {<<ks, w>>}
<1>1. Logged!Value[0] = ValueAt(Logged!Value, 0)
  BY DepthNatural, ValueDefined
<1>2. Logged!Redacted \in Logged!Value[0]
  BY <1>1 DEF ValueAt
<1>3. ASSUME NEW w \in Logged!Value[0], NEW ks \in Paths
      PROVE  Logged!Leaves(w, ks) = {<<ks, w>>}
  <2>1. w \in Logged!Extras /\ w.is # "dict" /\ w.is # "list"
    BY DepthNatural, ValuesAreExtras, ValueZero DEF Plain
  <2> QED  BY <2>1, LeavesDefined, Zenon
<1> QED  BY <1>2, <1>3

\* A value under a sensitive key is one leaf, and redacted.
LEMMA ScrubSensitive ==
  ASSUME NEW w \in Logged!Extras, NEW k \in Logged!Keys, Logged!IsSensitive(k), NEW ks \in Paths
  PROVE  /\ Logged!Scrub(w, k) = Logged!Redacted
         /\ Logged!Leaves(Logged!Scrub(w, k), ks) = {<<ks, Logged!Redacted>>}
<1>1. Logged!Scrub(w, k) = Logged!Redacted
  BY ScrubDefined, Zenon
<1> QED  BY <1>1, RedactedLeaf

\* What is scrubbed is no deeper than it was.
LEMMA ScrubKeeps ==
  \A d \in 0 .. MaxDepth : \A w \in Logged!Value[d], k \in Logged!Keys :
    Logged!Scrub(w, k) \in Logged!Value[d]
<1> DEFINE Kept(d) == \A w \in Logged!Value[d], k \in Logged!Keys :
             Logged!Scrub(w, k) \in Logged!Value[d]
           S == {d \in 0 .. MaxDepth : Kept(d)}
<1>1. "other" \in Logged!Keys /\ << >> \in Paths
  BY DEF Logged!Keys, Paths
<1>2. ASSUME NEW d \in 0 .. MaxDepth, NEW w \in Logged!Value[d], NEW k \in Logged!Keys,
             Logged!IsSensitive(k) \/ w \in Logged!Value[0]
      PROVE  Logged!Scrub(w, k) \in Logged!Value[d]
  <2>1. Logged!Value[0] \subseteq Logged!Value[d] /\ w \in Logged!Extras
    BY ZeroEverywhere, ValuesAreExtras
  <2>2. CASE Logged!IsSensitive(k)
    BY <1>1, <2>1, <2>2, ScrubSensitive, RedactedLeaf
  <2>3. CASE w \in Logged!Value[0] /\ ~Logged!IsSensitive(k)
    BY <2>1, <2>3, ScrubPlain
  <2> QED  BY <1>2, <2>2, <2>3
<1>3. 0 \in S
  BY <1>2, DepthNatural
<1>4. ASSUME NEW d \in 1 .. MaxDepth, d - 1 \in S PROVE d \in S
  <2>1. d \in 0 .. MaxDepth /\ d # 0
    BY DepthNatural
  <2> SUFFICES ASSUME NEW w \in Logged!Value[d], NEW k \in Logged!Keys, ~Logged!IsSensitive(k)
               PROVE  Logged!Scrub(w, k) \in Logged!Value[d]
    BY <1>2, <2>1
  <2>2. CASE InDict(w, d - 1)
    <3>1. w.key \in Logged!Keys /\ w.value \in Logged!Value[d - 1]
      BY <2>2 DEF InDict
    <3>2. Logged!Scrub(w.value, w.key) \in Logged!Value[d - 1]
      BY <1>4, <3>1
    <3> QED  BY <1>1, <2>2, <3>2, ScrubDict
  <2>3. CASE InList(w, d - 1)
    <3>1. \A i \in DOMAIN w.items : w.items[i] \in Logged!Value[d - 1]
      BY <2>3 DEF InList
    <3>2. \A i \in DOMAIN w.items : Logged!Scrub(w.items[i], "other") \in Logged!Value[d - 1]
      BY <1>1, <1>4, <3>1
    <3> QED  BY <1>1, <2>3, <3>2, ScrubList
  <2> QED  BY <1>2, <2>1, <2>2, <2>3, ValueParts
<1>5. 0 .. MaxDepth \subseteq S
  <2> HIDE DEF S
  <2> QED  BY <1>3, <1>4, DepthInduction
<1> QED  BY <1>5

\* Under a sensitive key everything is hidden.
LEMMA HiddenStays ==
  \A d \in 0 .. MaxDepth : \A w \in Logged!Value[d], ks \in Paths :
    Logged!Hidden(ks) => \A leaf \in Logged!Leaves(w, ks) : Logged!Hidden(leaf[1])
<1> DEFINE Stays(d) == \A w \in Logged!Value[d], ks \in Paths :
                         Logged!Hidden(ks)
                           => \A leaf \in Logged!Leaves(w, ks) : Logged!Hidden(leaf[1])
           S == {d \in 0 .. MaxDepth : Stays(d)}
<1>1. "other" \in Logged!Keys /\ 0 \in Nat
  BY DEF Logged!Keys
<1>2. Stays(0)
  BY RedactedLeaf
<1>3. 0 \in S
  BY <1>2, DepthNatural
<1>4. ASSUME NEW d \in 1 .. MaxDepth, d - 1 \in S PROVE d \in S
  <2>1. d \in 0 .. MaxDepth /\ d # 0 /\ d - 1 \in 0 .. MaxDepth
    BY DepthNatural
  <2> SUFFICES ASSUME NEW w \in Logged!Value[d], NEW ks \in Paths, Logged!Hidden(ks),
                      NEW leaf \in Logged!Leaves(w, ks)
               PROVE  Logged!Hidden(leaf[1])
    BY <2>1
  <2>2. CASE w \in Logged!Value[0]
    BY <1>2, <2>2
  <2>3. CASE InDict(w, d - 1)
    <3>1. w.key \in Logged!Keys /\ w.value \in Logged!Value[d - 1]
      BY <2>3 DEF InDict
    <3>2. Logged!Scrub(w.value, w.key) \in Logged!Value[d - 1]
      BY <2>1, <3>1, ScrubKeeps
    <3>3. leaf \in Logged!Leaves(w.value, Onto(ks, w.key, 0))
      BY <1>1, <2>3, <3>2, ScrubDict
    <3>4. Onto(ks, w.key, 0) \in Paths /\ Logged!Hidden(Onto(ks, w.key, 0))
      BY <1>1, <3>1, PathGrows
    <3> QED  BY <1>4, <3>1, <3>3, <3>4
  <2>4. CASE InList(w, d - 1)
    <3>1. \A i \in DOMAIN w.items : w.items[i] \in Logged!Value[d - 1]
      BY <2>4 DEF InList
    <3>2. \A i \in DOMAIN w.items : Logged!Scrub(w.items[i], "other") \in Logged!Value[d - 1]
      BY <1>1, <2>1, <3>1, ScrubKeeps
    <3>3. /\ Logged!Leaves(w, ks) =
               UNION {Logged!Leaves(w.items[i], Onto(ks, "other", i)) : i \in DOMAIN w.items}
          /\ \A i \in DOMAIN w.items : i \in Nat
      BY <1>1, <2>4, <3>2, ScrubList
    <3>4. PICK i \in DOMAIN w.items : leaf \in Logged!Leaves(w.items[i], Onto(ks, "other", i))
      BY <3>3
    <3>5. Onto(ks, "other", i) \in Paths /\ Logged!Hidden(Onto(ks, "other", i))
      BY <1>1, <3>3, PathGrows
    <3> QED  BY <1>4, <3>1, <3>4, <3>5
  <2> QED  BY <2>1, <2>2, <2>3, <2>4, ValueParts
<1>5. 0 .. MaxDepth \subseteq S
  <2> HIDE DEF S
  <2> QED  BY <1>3, <1>4, DepthInduction
<1> QED  BY <1>5

-----------------------------------------------------------------------------
\* A leaf that may be written: redacted, or under harmless keys and what is left of a leaf
\* that was in its place.
Harmless(leaf, sources) ==
  leaf[2] # Logged!Redacted =>
    /\ ~Logged!Hidden(leaf[1])
    /\ \E source \in sources :
         /\ source[1] = leaf[1] /\ source[2].is = leaf[2].is
         /\ leaf[2].is = "text" => Logged!Cleaned(leaf[2].found, source[2].found)

\* With more leaves to come from.
LEMMA HarmlessGrows ==
  ASSUME NEW leaf, NEW S, NEW T, S \subseteq T, Harmless(leaf, S) PROVE Harmless(leaf, T)
BY DEF Harmless

\* What scrub() leaves is harmless.
LEMMA ScrubCleans ==
  \A d \in 0 .. MaxDepth : \A w \in Logged!Value[d], k \in Logged!Keys, ks \in Paths :
    (Logged!Hidden(ks) => Logged!IsSensitive(k)) =>
      \A leaf \in Logged!Leaves(Logged!Scrub(w, k), ks) : Harmless(leaf, Logged!Leaves(w, ks))
<1> DEFINE Clean(d) == \A w \in Logged!Value[d], k \in Logged!Keys, ks \in Paths :
                         (Logged!Hidden(ks) => Logged!IsSensitive(k)) =>
                           \A leaf \in Logged!Leaves(Logged!Scrub(w, k), ks) : Harmless(leaf, Logged!Leaves(w, ks))
           S == {d \in 0 .. MaxDepth : Clean(d)}
<1>1. "other" \in Logged!Keys /\ 0 \in Nat /\ ~Logged!IsSensitive("other")
  BY DEF Logged!Keys, Logged!IsSensitive
<1>2. ASSUME NEW d \in 0 .. MaxDepth, NEW w \in Logged!Value[d], NEW k \in Logged!Keys,
             NEW ks \in Paths,
             Logged!Hidden(ks) => Logged!IsSensitive(k),
             Logged!IsSensitive(k) \/ w \in Logged!Value[0],
             NEW leaf \in Logged!Leaves(Logged!Scrub(w, k), ks)
      PROVE  Harmless(leaf, Logged!Leaves(w, ks))
  <2>1. w \in Logged!Extras
    BY ValuesAreExtras
  <2>2. CASE Logged!IsSensitive(k)
    BY <2>1, <2>2, ScrubSensitive DEF Harmless
  <2>3. CASE w \in Logged!Value[0] /\ ~Logged!IsSensitive(k)
    <3> DEFINE y == Logged!Scrub(w, k)
    <3>1. /\ y \in Logged!Value[0] /\ y.is = w.is
          /\ w.is = "text" => Logged!Cleaned(y.found, w.found)
      BY <2>3, ScrubPlain
    <3>2. leaf = <<ks, y>> /\ <<ks, w>> \in Logged!Leaves(w, ks)
      BY <1>2, <2>3, <3>1, RedactedLeaf
    <3> HIDE DEF y
    <3> DEFINE source == <<ks, w>>
    <3>3. source[1] = ks /\ source[2] = w /\ leaf[1] = ks /\ leaf[2] = y
      BY <3>2
    <3>4. source \in Logged!Leaves(w, ks) /\ ~Logged!Hidden(ks)
      BY <1>2, <2>3, <3>2
    <3> HIDE DEF source
    <3> QED  BY <3>1, <3>3, <3>4 DEF Harmless
  <2> QED  BY <1>2, <2>2, <2>3
<1>3. 0 \in S
  BY <1>2, DepthNatural
<1>4. ASSUME NEW d \in 1 .. MaxDepth, d - 1 \in S PROVE d \in S
  <2>1. d \in 0 .. MaxDepth /\ d # 0 /\ d - 1 \in 0 .. MaxDepth
    BY DepthNatural
  <2> SUFFICES ASSUME NEW w \in Logged!Value[d], NEW k \in Logged!Keys, NEW ks \in Paths,
                      ~Logged!Hidden(ks), ~Logged!IsSensitive(k),
                      NEW leaf \in Logged!Leaves(Logged!Scrub(w, k), ks)
               PROVE  Harmless(leaf, Logged!Leaves(w, ks))
    BY <1>2, <2>1
  <2>2. CASE w \in Logged!Value[0]
    BY <1>2, <2>1, <2>2
  <2>3. CASE InDict(w, d - 1)
    <3>1. w.key \in Logged!Keys /\ w.value \in Logged!Value[d - 1]
      BY <2>3 DEF InDict
    <3>2. Logged!Scrub(w.value, w.key) \in Logged!Value[d - 1]
      BY <2>1, <3>1, ScrubKeeps
    <3>3. leaf \in Logged!Leaves(Logged!Scrub(w.value, w.key), Onto(ks, w.key, 0))
      BY <2>3, <3>2, ScrubDict
    <3>4. Onto(ks, w.key, 0) \in Paths
            /\ (Logged!Hidden(Onto(ks, w.key, 0)) => Logged!IsSensitive(w.key))
      BY <1>1, <3>1, PathGrows
    <3>5. Logged!Leaves(w, ks) = Logged!Leaves(w.value, Onto(ks, w.key, 0))
      BY <2>3, <3>2, ScrubDict
    <3> QED  BY <1>4, <3>1, <3>3, <3>4, <3>5
  <2>4. CASE InList(w, d - 1)
    <3>1. \A i \in DOMAIN w.items : w.items[i] \in Logged!Value[d - 1]
      BY <2>4 DEF InList
    <3>2. \A i \in DOMAIN w.items : Logged!Scrub(w.items[i], "other") \in Logged!Value[d - 1]
      BY <1>1, <2>1, <3>1, ScrubKeeps
    <3>3. /\ Logged!Leaves(Logged!Scrub(w, k), ks) =
               UNION {Logged!Leaves(Logged!Scrub(w.items[i], "other"), Onto(ks, "other", i)) :
                 i \in DOMAIN w.items}
          /\ \A i \in DOMAIN w.items : i \in Nat
      BY <2>4, <3>2, ScrubList
    <3>4. PICK i \in DOMAIN w.items :
            leaf \in Logged!Leaves(Logged!Scrub(w.items[i], "other"), Onto(ks, "other", i))
      BY <3>3
    <3>5. Onto(ks, "other", i) \in Paths /\ ~Logged!Hidden(Onto(ks, "other", i))
      BY <1>1, <3>3, PathGrows
    <3>6. Harmless(leaf, Logged!Leaves(w.items[i], Onto(ks, "other", i)))
      BY <1>1, <1>4, <3>1, <3>4, <3>5
    <3>7. Logged!Leaves(w.items[i], Onto(ks, "other", i)) \subseteq Logged!Leaves(w, ks)
      BY <2>4, <3>2, ScrubList
    <3> QED  BY <3>6, <3>7, HarmlessGrows
  <2> QED  BY <2>1, <2>2, <2>3, <2>4, ValueParts
<1>5. 0 .. MaxDepth \subseteq S
  <2> HIDE DEF S
  <2> QED  BY <1>3, <1>4, DepthInduction
<1> QED  BY <1>5

\* What is harmless is where it was.
LEMMA ScrubSpares ==
  \A d \in 0 .. MaxDepth : \A w \in Logged!Value[d], k \in Logged!Keys, ks \in Paths :
    (Logged!IsSensitive(k) => Logged!Hidden(ks)) =>
      \A leaf \in Logged!Leaves(w, ks) :
        ~Logged!Hidden(leaf[1]) /\ leaf[2] \in {Logged!Number, Logged!Text({})}
          => leaf \in Logged!Leaves(Logged!Scrub(w, k), ks)
<1> DEFINE Spares(d) == \A w \in Logged!Value[d], k \in Logged!Keys, ks \in Paths :
                          (Logged!IsSensitive(k) => Logged!Hidden(ks)) =>
                            \A leaf \in Logged!Leaves(w, ks) :
                              ~Logged!Hidden(leaf[1])
                                /\ leaf[2] \in {Logged!Number, Logged!Text({})}
                                => leaf \in Logged!Leaves(Logged!Scrub(w, k), ks)
           S == {d \in 0 .. MaxDepth : Spares(d)}
<1>1. "other" \in Logged!Keys /\ 0 \in Nat /\ ~Logged!IsSensitive("other")
  BY DEF Logged!Keys, Logged!IsSensitive
<1>2. ASSUME NEW d \in 0 .. MaxDepth, NEW w \in Logged!Value[d], NEW k \in Logged!Keys,
             NEW ks \in Paths,
             Logged!IsSensitive(k) => Logged!Hidden(ks),
             Logged!IsSensitive(k) \/ w \in Logged!Value[0],
             NEW leaf \in Logged!Leaves(w, ks),
             ~Logged!Hidden(leaf[1]), leaf[2] \in {Logged!Number, Logged!Text({})}
      PROVE  leaf \in Logged!Leaves(Logged!Scrub(w, k), ks)
  <2>1. ~Logged!IsSensitive(k)
    BY <1>2, HiddenStays
  <2>2. w \in Logged!Value[0] /\ leaf = <<ks, w>>
    BY <1>2, <2>1, RedactedLeaf
  <2>3. Logged!Scrub(w, k) = w
    <3>1. w \in {Logged!Number, Logged!Text({})}
      BY <1>2, <2>2
    <3> QED  BY <2>1, <2>2, <3>1, ScrubPlain
  <2> QED  BY <2>3
<1>3. 0 \in S
  BY <1>2, DepthNatural
<1>4. ASSUME NEW d \in 1 .. MaxDepth, d - 1 \in S PROVE d \in S
  <2>1. d \in 0 .. MaxDepth /\ d # 0 /\ d - 1 \in 0 .. MaxDepth
    BY DepthNatural
  <2> SUFFICES ASSUME NEW w \in Logged!Value[d], NEW k \in Logged!Keys, NEW ks \in Paths,
                      ~Logged!IsSensitive(k),
                      NEW leaf \in Logged!Leaves(w, ks),
                      ~Logged!Hidden(leaf[1]), leaf[2] \in {Logged!Number, Logged!Text({})}
               PROVE  leaf \in Logged!Leaves(Logged!Scrub(w, k), ks)
    BY <1>2, <2>1
  <2>2. CASE w \in Logged!Value[0]
    BY <1>2, <2>1, <2>2
  <2>3. CASE InDict(w, d - 1)
    <3>1. w.key \in Logged!Keys /\ w.value \in Logged!Value[d - 1]
      BY <2>3 DEF InDict
    <3>2. Logged!Scrub(w.value, w.key) \in Logged!Value[d - 1]
      BY <2>1, <3>1, ScrubKeeps
    <3>3. /\ leaf \in Logged!Leaves(w.value, Onto(ks, w.key, 0))
          /\ Logged!Leaves(Logged!Scrub(w, k), ks) =
               Logged!Leaves(Logged!Scrub(w.value, w.key), Onto(ks, w.key, 0))
      BY <2>3, <3>2, ScrubDict
    <3>4. Onto(ks, w.key, 0) \in Paths
            /\ (Logged!IsSensitive(w.key) => Logged!Hidden(Onto(ks, w.key, 0)))
      BY <1>1, <3>1, PathGrows
    <3>5. leaf \in Logged!Leaves(Logged!Scrub(w.value, w.key), Onto(ks, w.key, 0))
      BY <1>4, <3>1, <3>3, <3>4
    <3> QED  BY <3>3, <3>5
  <2>4. CASE InList(w, d - 1)
    <3>1. \A i \in DOMAIN w.items : w.items[i] \in Logged!Value[d - 1]
      BY <2>4 DEF InList
    <3>2. \A i \in DOMAIN w.items : Logged!Scrub(w.items[i], "other") \in Logged!Value[d - 1]
      BY <1>1, <2>1, <3>1, ScrubKeeps
    <3>3. /\ Logged!Leaves(w, ks) =
               UNION {Logged!Leaves(w.items[i], Onto(ks, "other", i)) : i \in DOMAIN w.items}
          /\ Logged!Leaves(Logged!Scrub(w, k), ks) =
               UNION {Logged!Leaves(Logged!Scrub(w.items[i], "other"), Onto(ks, "other", i)) :
                 i \in DOMAIN w.items}
          /\ \A i \in DOMAIN w.items : i \in Nat
      BY <2>4, <3>2, ScrubList
    <3>4. PICK i \in DOMAIN w.items : leaf \in Logged!Leaves(w.items[i], Onto(ks, "other", i))
      BY <3>3
    <3>5. Onto(ks, "other", i) \in Paths
      BY <1>1, <3>3, PathGrows
    <3>6. leaf \in Logged!Leaves(Logged!Scrub(w.items[i], "other"), Onto(ks, "other", i))
      BY <1>1, <1>4, <3>1, <3>4, <3>5
    <3> QED  BY <3>3, <3>6
  <2> QED  BY <2>1, <2>2, <2>3, <2>4, ValueParts
<1>5. 0 .. MaxDepth \subseteq S
  <2> HIDE DEF S
  <2> QED  BY <1>3, <1>4, DepthInduction
<1> QED  BY <1>5

-----------------------------------------------------------------------------
\* The record is an extra as deep as it says, and a line says what scrub() makes of it.
IdSet == Logged!Ids \cup {Logged!Unset}
IdRecords == [correlation : IdSet, session : IdSet, tenant : IdSet]
Texts == SUBSET Logged!Findings
LogInv ==
  /\ ids \in IdRecords
  /\ record \in [key : Logged!Keys, value : Logged!Extras, depth : 0 .. MaxDepth,
                 message : Texts, exc : Texts]
  /\ record.value \in Logged!Value[record.depth]
  /\ \A l \in Logged!ToSet(line) :
       /\ l.ids \in IdRecords
       /\ Logged!Cleaned(l.message, record.message) /\ Logged!Cleaned(l.exc, record.exc)
       /\ l.extra = Logged!Scrub(record.value, record.key)

\* No line is written before the first.
LEMMA NoLine == line = << >> => Logged!ToSet(line) = {}
BY DEF Logged!ToSet

\* A record starts flat.
LEMMA LogInitially == Logged!Init => LogInv
<1> SUFFICES ASSUME Logged!Init PROVE LogInv
  OBVIOUS
<1> DEFINE Flat == {Logged!Number, Logged!Text({})} \cup {Logged!Text({o}) : o \in Logged!Findings}
           Messages == {{}, {Logged!Match("email"), Logged!Within("phone", "jwt")}}
           Excs == {{}, {Logged!Match("phone"), Logged!Within("jwt", "bearer")}}
<1>1. /\ record.value \in Flat /\ record.depth = 0 /\ line = << >>
      /\ record \in [key : Logged!Keys, depth : {0}, value : Flat, message : Messages, exc : Excs]
  BY DEF Logged!Init
<1>2. Logged!Value[0] =
        {Logged!Number, Logged!Redacted} \cup [is : {"text"}, found : SUBSET Logged!Findings]
  <2>1. 0 \in 0 .. MaxDepth
    BY DepthNatural
  <2> QED  BY <2>1, ValueDefined, Zenon DEF ValueAt
<1>3. \A s \in Texts :
        Logged!Text(s) \in [is : {"text"}, found : SUBSET Logged!Findings]
  BY DEF Logged!Text, Texts
<1>4. record.value \in Logged!Value[0]
  <2>1. {} \in Texts /\ \A o \in Logged!Findings : {o} \in Texts
    BY DEF Texts
  <2>2. Flat \subseteq Logged!Value[0]
    BY <1>2, <1>3, <2>1
  <2> QED  BY <1>1, <2>2
<1>5. Logged!Value[0] \subseteq Logged!Extras /\ 0 \in 0 .. MaxDepth
  BY DepthNatural, ValuesAreExtras
<1>6. Messages \subseteq Texts /\ Excs \subseteq Texts
  BY DEF Texts, Logged!Findings, Logged!Match, Logged!Within
<1> HIDE DEF Flat, Messages, Excs
<1>7. record \in [key : Logged!Keys, value : Logged!Extras, depth : 0 .. MaxDepth,
                  message : Texts, exc : Texts]
  BY <1>1, <1>4, <1>5, <1>6
<1>8. ids \in IdRecords
  BY DEF Logged!Init, IdRecords, IdSet
<1> QED  BY <1>1, <1>4, <1>7, <1>8, NoLine DEF LogInv

\* A step of the log nests the extra one level deeper, or writes it.
LEMMA LogStep == LogInv /\ [Logged!Next]_(Logged!vars) => LogInv'
<1> SUFFICES ASSUME LogInv, [Logged!Next]_(Logged!vars) PROVE LogInv'
  OBVIOUS
<1>1. CASE UNCHANGED <<record, line>> /\ ids' \in IdRecords
  BY <1>1 DEF LogInv, Logged!ToSet
<1>2. CASE Logged!Nest
  <2> DEFINE d == record.depth
             e == d + 1
  <2>1. PICK v \in {Logged!Dict(k, record.value) : k \in Logged!Keys}
          \cup {Logged!List(<<Logged!Number, record.value>>)} :
          record' = [record EXCEPT !.value = v, !.depth = @ + 1]
    BY <1>2 DEF Logged!Nest
  <2>2. line = << >> /\ line' = << >> /\ d < MaxDepth
    BY <1>2 DEF Logged!Nest
  <2>3. d \in 0 .. MaxDepth /\ record.value \in Logged!Value[d]
    BY DEF LogInv
  <2>4. e \in 1 .. MaxDepth /\ e - 1 = d /\ e \in 0 .. MaxDepth
    BY <2>2, <2>3, DepthNatural
  <2>5. Logged!Number \in Logged!Value[d]
    <3>1. Logged!Value[0] =
            {Logged!Number, Logged!Redacted} \cup [is : {"text"}, found : SUBSET Logged!Findings]
      <4>1. 0 \in 0 .. MaxDepth
        BY DepthNatural
      <4> QED  BY <4>1, ValueDefined, Zenon DEF ValueAt
    <3> QED  BY <2>3, <3>1, ZeroEverywhere
  <2>6. v \in [is : {"list"}, items : Seq(Logged!Value[d])]
          \/ v \in [is : {"dict"}, key : Logged!Keys, value : Logged!Value[d]]
    <3>1. CASE v = Logged!List(<<Logged!Number, record.value>>)
      <4>1. <<Logged!Number, record.value>> \in Seq(Logged!Value[d])
        <5> DEFINE V == Logged!Value[d]
                   a == Logged!Number
                   b == record.value
        <5>1. a \in V /\ b \in V
          BY <2>3, <2>5
        <5> HIDE DEF V, a, b
        <5>2. <<a, b>> \in Seq(V)
          BY <5>1
        <5> QED  BY <5>2 DEF V, a, b
      <4> QED  BY <3>1, <4>1 DEF Logged!List
    <3>2. CASE \E k \in Logged!Keys : v = Logged!Dict(k, record.value)
      BY <2>3, <3>2 DEF Logged!Dict
    <3> QED  BY <2>1, <3>1, <3>2
  <2>7. v \in Logged!Value[e]
    <3>1. Logged!Value[e] =
            Logged!Value[e - 1] \cup [is : {"list"}, items : Seq(Logged!Value[e - 1])]
                                \cup [is : {"dict"}, key : Logged!Keys, value : Logged!Value[e - 1]]
      <4> HIDE DEF e
      <4> QED  BY <2>4, ValueGrows
    <3> QED  BY <2>4, <2>6, <3>1
  <2>8. v \in Logged!Extras
    BY <2>4, <2>7, ValuesAreExtras
  <2>9. /\ record' \in [key : Logged!Keys, value : Logged!Extras, depth : 0 .. MaxDepth,
                        message : Texts, exc : Texts]
        /\ record'.value = v /\ record'.depth = e
    <3>1. record \in [key : Logged!Keys, value : Logged!Extras, depth : 0 .. MaxDepth,
                      message : Texts, exc : Texts]
      BY DEF LogInv
    <3> QED  BY <2>1, <2>4, <2>8, <3>1
  <2>10. Logged!ToSet(line') = {} /\ ids' \in IdRecords
    BY <1>2, <2>2, NoLine DEF Logged!ToSet, Logged!Nest, LogInv
  <2> QED  BY <2>7, <2>9, <2>10 DEF LogInv, Logged!ToSet
<1>3. CASE Logged!Format
  <2> DEFINE l == [ids |-> ids, message |-> Logged!ScrubText(record.message),
                   extra |-> Logged!Scrub(record.value, record.key),
                     exc |-> Logged!ScrubText(record.exc)]
  <2>1. line' = <<l>> /\ record' = record /\ ids' = ids /\ ids \in IdRecords
    BY <1>3 DEF Logged!Format, LogInv
  <2>2. record.message \in Texts /\ record.exc \in Texts
    BY DEF LogInv
  <2>3. /\ Logged!Cleaned(Logged!ScrubText(record.message), record.message)
        /\ Logged!Cleaned(Logged!ScrubText(record.exc), record.exc)
    BY <2>2, TextCleaned DEF Texts
  <2>4. /\ l.ids = ids /\ l.extra = Logged!Scrub(record.value, record.key)
        /\ Logged!Cleaned(l.message, record.message) /\ Logged!Cleaned(l.exc, record.exc)
    BY <2>3
  <2> HIDE DEF l
  <2>5. \A m \in {line'[i] : i \in DOMAIN line'} : m = l
    BY <2>1
  <2> QED  BY <2>1, <2>4, <2>5 DEF LogInv, Logged!ToSet
<1>4. CASE Logged!BindRequest \/ Logged!BindTurn
  <2>1. ids \in [correlation : IdSet, session : IdSet, tenant : IdSet]
    BY DEF LogInv, IdRecords
  <2>2. Logged!Own \in IdSet /\ Logged!Ids \subseteq IdSet
    BY DEF IdSet, Logged!Ids
  <2>3. UNCHANGED <<record, line>>
    BY <1>4 DEF Logged!BindRequest, Logged!BindTurn
  <2>4. CASE Logged!BindRequest
    <3>1. PICK id \in IdSet : ids' = [ids EXCEPT !.correlation = id]
      BY <2>2, <2>4 DEF Logged!BindRequest
    <3> QED  BY <1>1, <2>1, <2>3, <3>1 DEF IdRecords
  <2>5. CASE Logged!BindTurn
    <3>1. PICK id \in IdSet : ids' = [ids EXCEPT !.session = id, !.tenant = Logged!Own]
      BY <2>2, <2>5 DEF Logged!BindTurn
    <3> QED  BY <1>1, <2>1, <2>2, <2>3, <3>1 DEF IdRecords
  <2> QED  BY <1>4, <2>4, <2>5
<1>5. CASE UNCHANGED Logged!vars
  BY <1>1, <1>5 DEF Logged!vars, LogInv
<1> QED  BY <1>2, <1>3, <1>4, <1>5 DEF Logged!Next

\* The way to the extra itself.
LEMMA TopPath ==
  ASSUME LogInv
  PROVE  Logged!Top \in Paths /\ (Logged!Hidden(Logged!Top) <=> Logged!IsSensitive(record.key))
<1>1. record.key \in Logged!Keys
  BY DEF LogInv
<1>2. Logged!Top = Onto(<< >>, record.key, 0)
  BY DEF Logged!Top, Onto
<1>3. << >> \in Paths /\ ~Logged!Hidden(<< >>)
  BY DEF Paths, Logged!Hidden
<1> QED  BY <1>1, <1>2, <1>3, PathGrows

\* An id has something in it only when the caller gave it.
LEMMA IdsOfCallers ==
  ASSUME NEW r \in IdRecords, NEW i \in DOMAIN r, r[i].found # {}
  PROVE  r[i].from = "caller"
<1>1. \A id \in IdSet : id.found # {} => id.from = "caller"
  BY DEF IdSet, Logged!Ids, Logged!Own, Logged!Unset
<1>2. r[i] \in IdSet
  BY DEF IdRecords
<1> QED  BY <1>1, <1>2

\* Nothing that is under a sensitive key and no match of a pattern is in the line, and what is
\* harmless is there where it was.
LEMMA LogFaithful ==
  ASSUME LogInv PROVE Logged!NothingSensitiveWritten /\ Logged!OperationalSurvives
<1> DEFINE written == Logged!Scrub(record.value, record.key)
<1>1. record.key \in Logged!Keys /\ record.depth \in 0 .. MaxDepth
        /\ record.value \in Logged!Value[record.depth]
  BY DEF LogInv
<1>2. Logged!Top \in Paths /\ (Logged!Hidden(Logged!Top) <=> Logged!IsSensitive(record.key))
  BY TopPath
<1>3. ASSUME NEW l \in Logged!ToSet(line)
      PROVE  /\ l.ids \in IdRecords /\ l.extra = written
             /\ Logged!Cleaned(l.message, record.message) /\ Logged!Cleaned(l.exc, record.exc)
  BY DEF LogInv
<1>4. \A leaf \in Logged!Leaves(written, Logged!Top) :
        Harmless(leaf, Logged!Leaves(record.value, Logged!Top))
  BY <1>1, <1>2, ScrubCleans
<1>5. \A leaf \in Logged!Leaves(record.value, Logged!Top) :
        ~Logged!Hidden(leaf[1]) /\ leaf[2] \in {Logged!Number, Logged!Text({})}
          => leaf \in Logged!Leaves(written, Logged!Top)
  BY <1>1, <1>2, ScrubSpares
<1> HIDE DEF written
<1>6. Logged!NothingSensitiveWritten
  <2> SUFFICES ASSUME NEW l \in Logged!ToSet(line)
               PROVE  /\ Logged!Cleaned(l.message, record.message)
                      /\ Logged!Cleaned(l.exc, record.exc)
                      /\ \A i \in DOMAIN l.ids : l.ids[i].found # {} => l.ids[i].from = "caller"
                      /\ \A leaf \in Logged!Leaves(l.extra, Logged!Top) :
                           Harmless(leaf, Logged!Leaves(record.value, Logged!Top))
    BY DEF Logged!NothingSensitiveWritten, Harmless
  <2>1. \A i \in DOMAIN l.ids : l.ids[i].found # {} => l.ids[i].from = "caller"
    BY <1>3, IdsOfCallers
  <2> QED  BY <1>3, <1>4, <2>1
<1>7. Logged!OperationalSurvives
  BY <1>3, <1>5 DEF Logged!OperationalSurvives
<1> QED  BY <1>6, <1>7

\* Whatever a record holds and however deep, its line holds nothing under a sensitive key and
\* no match of a pattern in a text, but perhaps the rest of one that an earlier pattern had
\* broken; an id has something in it only when the caller gave it; and what is harmless is
\* there as it was (pii.py:3-20, logging.py:50-64).
THEOREM LogCorrect ==
  Logged!Spec => [](Logged!NothingSensitiveWritten /\ Logged!OperationalSurvives)
BY LogInitially, LogStep, LogFaithful, PTL DEF Logged!Spec

-----------------------------------------------------------------------------
(* The evaluation.                                                         *)

\* The order the cases are run in: those that have been, then those that are to come.
Plan ==
  [i \in 1 .. Cardinality(Case) |->
     IF i <= Len(results) THEN results[i].case ELSE todo[i - Len(results)]]

\* A result is about a case and an answer, and says of it what the scorers say.
Result(r) ==
  /\ r.answer \in Answers
  /\ r.passed = Passes(r.answer) /\ r.report = Report(r.answer)

GradingInv ==
  /\ todo \in Seq(Case) /\ results \in Seq({results[i] : i \in DOMAIN results})
  /\ Len(results) + Len(todo) = Cardinality(Case)
  /\ Plan \in Injection(1 .. Cardinality(Case), Case)
  /\ \A i \in DOMAIN results : Result(results[i])
  /\ outcome = "report" => todo = << >>

\* Before the first case the order is that of the seed set.
LEMMA GradingInit == ASSUME SeedSetAssumption, Init PROVE GradingInv
<1> DEFINE N == Cardinality(Case)
<1>1. N \in Nat
  BY FS_CardinalityType DEF SeedSetAssumption
<1>2. todo \in [1 .. N -> Case] /\ results = << >> /\ outcome = "running"
  BY DEF Init
<1>3. todo \in Seq(Case) /\ Len(todo) = N /\ Len(results) = 0
  BY <1>1, <1>2
<1>4. Plan = todo
  BY <1>1, <1>2, <1>3 DEF Plan
<1>5. todo \in Injection(1 .. N, Case)
  BY DEF Init, Injection, IsInjective
<1>6. results \in Seq({results[i] : i \in DOMAIN results}) /\ DOMAIN results = {}
  BY <1>2
<1> QED  BY <1>1, <1>2, <1>3, <1>4, <1>5, <1>6 DEF GradingInv

\* Running a case leaves the order as it was.
LEMMA PlanKept ==
  ASSUME SeedSetAssumption, GradingInv, todo # << >>,
         NEW r, r.case = Head(todo), todo' = Tail(todo), results' = Append(results, r)
  PROVE  /\ Plan' = Plan
         /\ todo' \in Seq(Case) /\ results' \in Seq({results'[i] : i \in DOMAIN results'})
         /\ Len(results') + Len(todo') = Cardinality(Case)
         /\ \A i \in DOMAIN results' : results'[i] = r
              \/ (i \in DOMAIN results /\ results'[i] = results[i])
<1> DEFINE N == Cardinality(Case)
           R == {results[i] : i \in DOMAIN results} \cup {r}
<1>1. N \in Nat
  BY FS_CardinalityType DEF SeedSetAssumption
<1>2. todo \in Seq(Case) /\ results \in Seq(R) /\ Len(results) + Len(todo) = N
  BY DEF GradingInv
<1>3. Len(results) \in Nat /\ Len(todo) \in Nat \ {0}
  BY <1>2
<1>4. /\ Len(results') = Len(results) + 1 /\ Len(todo') = Len(todo) - 1
      /\ todo' \in Seq(Case) /\ results' \in Seq(R)
      /\ DOMAIN results' = 1 .. Len(results) + 1 /\ DOMAIN results = 1 .. Len(results)
      /\ \A i \in 1 .. Len(results) : results'[i] = results[i]
      /\ results'[Len(results) + 1] = r
      /\ \A i \in 1 .. Len(todo) - 1 : todo'[i] = todo[i + 1]
      /\ Head(todo) = todo[1]
  BY <1>2
<1>5. ASSUME NEW i \in 1 .. N PROVE Plan'[i] = Plan[i]
  <2>1. CASE i <= Len(results)
    BY <1>3, <1>4, <1>5, <2>1 DEF Plan
  <2>2. CASE i = Len(results) + 1
    BY <1>3, <1>4, <1>5, <2>2 DEF Plan
  <2>3. CASE i > Len(results) + 1
    <3>1. i - Len(results) - 1 \in 1 .. Len(todo) - 1
      BY <1>1, <1>2, <1>3, <2>3
    <3>2. todo'[i - Len(results) - 1] = todo[i - Len(results)]
      BY <1>3, <1>4, <3>1
    <3>3. i - Len(results') = i - Len(results) - 1 /\ ~(i <= Len(results')) /\ ~(i <= Len(results))
      BY <1>1, <1>3, <1>4, <2>3
    <3>4. Plan'[i] = todo'[i - Len(results')] /\ Plan[i] = todo[i - Len(results)]
      BY <1>5, <3>3 DEF Plan
    <3> QED  BY <3>2, <3>3, <3>4
  <2> QED  BY <1>1, <1>3, <2>1, <2>2, <2>3
<1>6. Plan' = Plan
  BY <1>5 DEF Plan
<1>7. results' \in Seq({results'[i] : i \in DOMAIN results'})
  <2> DEFINE rs == results'
             S == {rs[i] : i \in DOMAIN rs}
  <2>1. Len(rs) \in Nat /\ rs \in [1 .. Len(rs) -> R]
    <3>1. rs \in Seq(R)
      BY <1>4
    <3> HIDE DEF rs, R
    <3> QED  BY <3>1
  <2>2. rs \in [1 .. Len(rs) -> S]
    BY <2>1
  <2> HIDE DEF rs, S
  <2>3. rs \in Seq(S)
    BY <2>1, <2>2, SeqDef
  <2> QED  BY <2>3 DEF rs, S
<1> QED  BY <1>2, <1>3, <1>4, <1>6, <1>7

\* A case that is run keeps its place in the order, and its result is scored.
LEMMA GradingNext ==
  ASSUME SeedSetAssumption, GradingInv, [Next]_(vars)
  PROVE  GradingInv'
<1>1. ASSUME NEW a \in Answers, RunCase(a) PROVE GradingInv'
  <2> DEFINE r == [case |-> Head(todo), answer |-> a, passed |-> Passes(a),
                   report |-> Report(a)]
  <2>1. /\ outcome = "running" /\ todo # << >> /\ outcome' = outcome
        /\ todo' = Tail(todo) /\ results' = Append(results, r)
    BY <1>1 DEF RunCase
  <2>2. r.case = Head(todo) /\ Result(r)
    BY <1>1 DEF Result
  <2> HIDE DEF r
  <2>3. \A i \in DOMAIN results' : Result(results'[i])
    BY <2>1, <2>2, PlanKept DEF GradingInv
  <2> QED  BY <2>1, <2>2, <2>3, PlanKept DEF GradingInv, Result
<1>2. CASE RunnerRaises \/ Finish \/ UNCHANGED vars
  <2>1. UNCHANGED <<todo, results>> /\ (outcome' = "report" => todo = << >>)
    BY <1>2 DEF RunnerRaises, Finish, vars, GradingInv
  <2>2. Plan' = Plan
    BY <2>1 DEF Plan
  <2> QED  BY <2>1, <2>2 DEF GradingInv, Result
<1> QED  BY <1>1, <1>2 DEF Next

\* The cases run and those to come are the seed set in an order without repetition, for
\* every finite seed set.
THEOREM GradingInvariance == ASSUME SeedSetAssumption PROVE Spec => []GradingInv
<1>1. Init => GradingInv
  BY GradingInit
<1>2. GradingInv /\ [Next]_(vars) => GradingInv'
  BY GradingNext
<1> QED  BY <1>1, <1>2, PTL DEF Spec

\* Every citation of an answer is among those that are looked up.
LEMMA CitedCovers ==
  ASSUME NEW a \in Answers
  PROVE  /\ \A c \in ToSet(a.cites) :
              \E k \in DOMAIN Cited(a) : Cited(a)[k] = c
         /\ Cited(a) # << >> => a.cites # << >>
<1>1. a.cites \in Seq(Article)
  <2>1. a.cites \in {<< >>} \cup {<<b>> : b \in Article} \cup (Article \X Article)
    BY DEF Answers
  <2>2. CASE a.cites = << >>
    BY <2>2
  <2>3. CASE \E b \in Article : a.cites = <<b>>
    BY <2>3
  <2>4. CASE \E b, c \in Article : a.cites = <<b, c>>
    BY <2>4
  <2> QED  BY <2>1, <2>2, <2>3, <2>4
<1>2. CASE Len(a.cites) = 2 /\ a.cites[1] = a.cites[2]
  <2>1. Cited(a) = <<a.cites[1]>>
    BY <1>2 DEF Cited
  <2>2. \A i \in DOMAIN a.cites : a.cites[i] = a.cites[1]
    BY <1>1, <1>2
  <2>3. a.cites # << >>
    BY <1>2
  <2> QED  BY <2>1, <2>2, <2>3 DEF ToSet
<1>3. CASE ~(Len(a.cites) = 2 /\ a.cites[1] = a.cites[2])
  BY <1>3 DEF Cited, ToSet
<1> QED  BY <1>2, <1>3

\* What a report calls grounded.
LEMMA ReportGrounded ==
  ASSUME NEW a \in Answers
  PROVE  /\ Report(a).grounded /\ ~a.refusal => Cited(a) # << >> /\ Supported(Cited(a))
         /\ a.refusal => Report(a).grounded
<1> DEFINE g == a.refusal
             \/ (Cited(a) # << >> /\ Supported(Cited(a)) /\ 2 * a.hits >= a.significant)
<1>1. Report(a).grounded = g
  BY Zenon DEF Report
<1>2. g /\ ~a.refusal => Cited(a) # << >> /\ Supported(Cited(a))
  OBVIOUS
<1>3. a.refusal => g
  OBVIOUS
<1> HIDE DEF g
<1> QED  BY <1>1, <1>2, <1>3

\* A report covers the whole seed set, each case once, an answer graded as grounded that is
\* no refusal cites something and nothing the document lacks, and a case passes only with
\* every keyword: harness.py:122-134, grounding.py:12-15.
THEOREM GradingCorrect ==
  ASSUME SeedSetAssumption PROVE Spec => []GradedHonestly
<1>1. ASSUME GradingInv PROVE GradedHonestly
  <2>1. ReportsAreComplete
    <3> SUFFICES ASSUME outcome = "report"
                 PROVE  /\ Len(results) = Cardinality(Case)
                        /\ {results[i].case : i \in DOMAIN results} = Case
      BY DEF ReportsAreComplete
    <3>1. Cardinality(Case) \in Nat /\ IsFiniteSet(Case)
      BY FS_CardinalityType DEF SeedSetAssumption
    <3>2. Len(results) = Cardinality(Case) /\ DOMAIN results = 1 .. Cardinality(Case)
      BY <1>1, <3>1 DEF GradingInv
    <3>3. Plan \in Surjection(1 .. Cardinality(Case), Case)
      <4>1. Cardinality(1 .. Cardinality(Case)) = Cardinality(Case)
        BY <3>1, FS_Interval
      <4> QED  BY <1>1, <3>1, <4>1, FS_Injection DEF GradingInv
    <3>4. \A i \in 1 .. Cardinality(Case) : Plan[i] = results[i].case
      BY <3>1, <3>2 DEF Plan
    <3> QED  BY <3>2, <3>3, <3>4 DEF Surjection
  <2>2. ASSUME NEW i \in DOMAIN results, results[i].report.grounded, ~results[i].answer.refusal
        PROVE  /\ results[i].answer.cites # << >>
               /\ \A c \in ToSet(results[i].answer.cites) :
                    \E d \in InDocument : IsPrefix(c, d)
    <3> DEFINE a == results[i].answer
    <3>1. a \in Answers /\ results[i].report = Report(a)
      BY <1>1 DEF GradingInv, Result
    <3>2. Cited(a) # << >> /\ Supported(Cited(a))
      BY <2>2, <3>1, ReportGrounded
    <3> QED  BY <3>1, <3>2, CitedCovers DEF Supported
  <2>3. ASSUME NEW i \in DOMAIN results
        PROVE  /\ results[i].passed => results[i].answer.words = Word
               /\ results[i].answer.refusal => results[i].report.grounded
    <3> DEFINE a == results[i].answer
    <3>1. /\ a \in Answers /\ results[i].report = Report(a)
          /\ results[i].passed = Passes(a)
      BY <1>1 DEF GradingInv, Result
    <3>2. a.words \subseteq Word
      BY <3>1 DEF Answers
    <3>3. Passes(a) => a.words = Word
      BY <3>2 DEF Passes
    <3>4. results[i].passed => Passes(a)
      BY <3>1
    <3> QED  BY <3>1, <3>3, <3>4, ReportGrounded
  <2> QED
    BY <2>1, <2>2, <2>3 DEF GradedHonestly, GroundedIsBacked, VerdictsHonest,
       ToSet
<1> QED  BY <1>1, GradingInvariance, PTL

-----------------------------------------------------------------------------
(* The suite that TLC checks.                                              *)

\* A step of the suite is a step of each of its parts, or leaves it alone.
LEMMA SuiteSteps ==
  ASSUME [SuiteNext]_<<part, vars, memoryVars, measuredVars, loggedVars, slowVars>>
  PROVE  /\ [Next]_vars
         /\ [Memory!Next]_<<turns, memory>>
         /\ [Measured!Next]_(Measured!vars)
         /\ [Logged!Next]_(Logged!vars)
         /\ [Slow!Next]_(Slow!vars)
<1>1. (UNCHANGED memoryVars) => UNCHANGED <<turns, memory>>
  BY DEF memoryVars
<1>2. (UNCHANGED measuredVars) => UNCHANGED Measured!vars
  BY DEF measuredVars, Measured!vars
<1>3. (UNCHANGED loggedVars) => UNCHANGED Logged!vars
  BY DEF loggedVars, Logged!vars
<1>6. (UNCHANGED slowVars) => UNCHANGED Slow!vars
  BY DEF slowVars, Slow!vars, Slow!stream, Slow!texts, Slow!begun
<1>4. CASE UNCHANGED <<part, vars, memoryVars, measuredVars, loggedVars, slowVars>>
  BY <1>1, <1>2, <1>3, <1>4, <1>6
<1>5. CASE SuiteNext
  BY <1>1, <1>2, <1>3, <1>5, <1>6 DEF SuiteNext
<1> QED  BY <1>4, <1>5

\* The suite implements every one of its parts.
LEMMA SuiteParts ==
  SuiteSpec => Spec /\ Memory!Spec /\ Measured!Spec /\ Logged!Spec /\ Slow!Spec
<1>1. SuiteInit => Init /\ Memory!Init /\ Measured!Init /\ Logged!Init /\ Slow!Init
  BY DEF SuiteInit
<1> QED  BY <1>1, SuiteSteps, PTL DEF SuiteSpec, Spec, Memory!Spec, Measured!Spec, Logged!Spec,
           Slow!Spec

\* A session remembers the newest of its turns that fit, whatever the others of the
\* service's records do (memory.py:32-56).
THEOREM SessionsRemember == SuiteSpec => []MemoryIsTheTail
<1>1. Memory!Spec => [](/\ Memory!KeepsWhatFits
                        /\ Memory!NothingLostUnderBudget
                        /\ Memory!WithinBudget)
  BY MemoryCorrect, PTL
<1> QED  BY <1>1, SuiteParts, PTL DEF MemoryIsTheTail

\* What is observed of the turns is true of them, and of what is sensitive nothing is logged
\* with it but what the patterns leave (metrics.py:14-25, usage.py:22-53, pii.py:3-20).
THEOREM ObservationsFaithful == SuiteSpec => []ObservedFaithfully
<1>1. Measured!Spec => []Measured!QuantilesSeparate
  BY QuantilesCorrect
<1>2. Measured!Spec => []Measured!AudioMeteredWithinRounding
  BY MeasuredAssumption, MeteringCorrect
<1>3. Logged!Spec => [](Logged!NothingSensitiveWritten /\ Logged!OperationalSurvives)
  BY LogCorrect, PTL
<1> QED  BY <1>1, <1>2, <1>3, SuiteParts, PTL DEF ObservedFaithfully

\* A report is about the whole seed set and honest about every answer (harness.py:122-134).
THEOREM GradesHonest == SuiteSpec => []GradedHonestly
<1>1. ArticlesAssumption /\ SeedSetAssumption
  BY RecordsAssumption
<1>2. Spec => []GradedHonestly
  BY <1>1, GradingCorrect
<1> QED  BY <1>2, SuiteParts, PTL

\* Turns of one session that go on at the same time ask each its own question, of the history
\* as it was then (traditional/pipeline.py:133-134).
THEOREM QuestionsOwn == SuiteSpec => []PromptAsksOwnQuestion
<1>1. Slow!Spec => []Slow!PromptAsksOwnQuestion
  BY RecordsAssumption, Slow!PromptsAskOwnQuestions
<1> QED  BY <1>1, SuiteParts, PTL DEF PromptAsksOwnQuestion

\* A session holds what was said in its own tenant only, whatever id clients name
\* (store.py:53-61).
THEOREM SessionsOfTheirTenants == SuiteSpec => []TenantsIsolated
<1>1. Slow!Spec => []Slow!TenantsIsolated
  BY RecordsAssumption, Slow!TenantsAreIsolated
<1> QED  BY <1>1, SuiteParts, PTL DEF TenantsIsolated

\* A turn that is recorded is remembered, question and answer, once each and in this order
\* (traditional/pipeline.py:133-175).
THEOREM RecordedRemembered == SuiteSpec => []RecordedTurnsRemembered
<1>1. Slow!Spec => []Slow!RecordedTurnsRemembered
  BY RecordsAssumption, Slow!RecordedAreRemembered
<1> QED  BY <1>1, SuiteParts, PTL DEF RecordedTurnsRemembered

\* The slow path keeps the pipelines' contract (traditional/pipeline.py:95-105).
THEOREM SlowPathKeepsContract == SuiteSpec => KeepsContract
<1>1. Slow!Spec => Slow!KeepsContract
  BY RecordsAssumption, Slow!ContractKept
<1> QED  BY <1>1, SuiteParts, PTL DEF KeepsContract

=============================================================================
