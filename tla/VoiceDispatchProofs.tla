-------------------------- MODULE VoiceDispatchProofs --------------------------
(***************************************************************************)
(* Theorems about VoiceDispatch, for any set of turns, infinite ones       *)
(* included: in every state only finitely many have been requested, which  *)
(* is part of the invariant.  The heart of it is Placed: what the place    *)
(* where a turn waits says about both pipelines, about what its client was *)
(* sent and about its answer.  The counters follow from it by counting.    *)
(***************************************************************************)
EXTENDS VoiceDispatch, FiniteSetTheorems, TLAPS

-----------------------------------------------------------------------------
(* The invariant.                                                          *)

\* In the realtime pipeline, wrapped, and not fallen back.
Trying(t) == Wrapped(t) /\ realtimePhase[t] = "running" /\ slowPhase[t] = "idle"

\* In the traditional pipeline after the realtime one has failed.
Retrying(t) == Wrapped(t) /\ realtimePhase[t] = "failed" /\ slowPhase[t] = "running"

\* A streaming response is under way and has sent events of one path only.
Streaming(t, paths) == ~Complete(t) /\ answered[t] = "sse" /\ served[t] \subseteq paths

\* /complete has not answered yet, and sends no events.
Pending(t) == Complete(t) /\ answered[t] = "none" /\ served[t] = {}

Direct(t) ==
  /\ ~Wrapped(t)
  /\ Streaming(t, {endpoint[t].architecture}) \/ Pending(t)
  /\ IF IsRealtime(t) THEN realtimePhase[t] = "running" /\ slowPhase[t] = "idle"
     ELSE realtimePhase[t] = "idle" /\ slowPhase[t] = "running"

Over(t) ==
  /\ realtimePhase[t] # "running" /\ slowPhase[t] # "running"
  /\ realtimePhase[t] # "idle" <=> IsRealtime(t)
  /\ slowPhase[t] # "idle" => (IsRealtime(t) => realtimePhase[t] = "failed")
  /\ ~IsRealtime(t) => slowPhase[t] # "idle"
  /\ served[t] \subseteq {"realtime"} \/ served[t] \subseteq {"traditional"}
  /\ answered[t] = "problem" <=> Raised(t) /\ Complete(t)

Placed(t) ==
  /\ pc[t] = "new" =>
       realtimePhase[t] = "idle" /\ slowPhase[t] = "idle" /\ served[t] = {} /\ answered[t] = "none"
  /\ pc[t] = "first"     => Trying(t) /\ Streaming(t, {})
  /\ pc[t] = "relaying"  => Trying(t) /\ Streaming(t, {"realtime"})
  /\ pc[t] = "running"   => Trying(t) /\ Pending(t)
  /\ pc[t] = "replaying" => Retrying(t) /\ Streaming(t, {"traditional"})
  /\ pc[t] = "rerunning" => Retrying(t) /\ Pending(t)
  /\ pc[t] = "direct"    => Direct(t)
  /\ pc[t] = "ended"     => Over(t)

Requested == {t \in Turn : pc[t] # "new"}

IInv ==
  /\ TypeOK
  /\ \A t \in Turn : Placed(t)
  /\ IsFiniteSet(Requested)
  /\ MeteringHonest

-----------------------------------------------------------------------------
\* Initially nothing was requested.
LEMMA InitIInv == Init => IInv
<1> SUFFICES ASSUME Init PROVE IInv
  OBVIOUS
<1>1. TypeOK
  BY DEF Init, TypeOK, Places, Answers, R!Init, S!Init, R!Phases
<1>2. \A t \in Turn : Placed(t)
  BY DEF Init, Placed, R!Init, S!Init
<1>3. Requested = {} /\ FellBack = {}
  BY DEF Init, Requested, FellBack, Began, S!Init
<1>4. MeteringHonest
  <2>1. /\ {t \in Turn : pc[t] # "new" /\ IsRealtime(t)} = {}
        /\ {t \in Turn : pc[t] # "new" /\ ~IsRealtime(t)} = {}
        /\ {t \in Turn : realtimePhase[t] = "failed"} = {}
        /\ {t \in Turn : slowPhase[t] = "failed"} = {}
    BY DEF Init, R!Init, S!Init
  <2>2. QED
    BY <1>3, <2>1, FS_EmptySet DEF MeteringHonest, Init, R!Init, S!Init
<1>5. QED
  BY <1>1, <1>2, <1>3, <1>4, FS_EmptySet DEF IInv

-----------------------------------------------------------------------------
(* Where the turns are.                                                    *)

\* Every step keeps the types.
LEMMA TypeStep ==
  ASSUME TypeOK, NEW t \in Turn, TurnStep(t)
  PROVE  TypeOK'
<1> USE DEF TypeOK, Places, Answers, R!Phases, same, realtime, slow, Complete, IsRealtime,
        Wrapped, GoTo, Answer, R!Moves, S!Moves, Endpoints
<1>1. CASE RunDirect(t)
  <2>1. CASE IsRealtime(t)
    BY <1>1, <2>1 DEF RunDirect, R!Begin, S!Begin
  <2>2. CASE ~IsRealtime(t)
    BY <1>1, <2>2 DEF RunDirect, R!Begin, S!Begin
  <2>3. QED
    BY <2>1, <2>2
<1>2. CASE DirectEvent(t)
  BY <1>2 DEF DirectEvent, Deliver
<1>3. CASE DirectCompletes(t)
  <2>1. CASE IsRealtime(t)
    BY <1>3, <2>1 DEF DirectCompletes, R!Complete, S!Complete
  <2>2. CASE ~IsRealtime(t)
    BY <1>3, <2>2 DEF DirectCompletes, R!Complete, S!Complete
  <2>3. QED
    BY <2>1, <2>2
<1>4. CASE DirectFails(t)
  <2>1. CASE IsRealtime(t)
    BY <1>4, <2>1 DEF DirectFails, R!Fail, S!Fail
  <2>2. CASE ~IsRealtime(t)
    BY <1>4, <2>2 DEF DirectFails, R!Fail, S!Fail
  <2>3. QED
    BY <2>1, <2>2
<1>5. CASE StartWrapped(t)
  BY <1>5 DEF StartWrapped, R!Begin
<1>6. CASE RejectText(t)
  BY <1>6 DEF RejectText, R!Reject
<1>7. CASE FirstEvent(t)
  BY <1>7 DEF FirstEvent, Deliver
<1>8. CASE PrimaryFails(t)
  <2>1. CASE FallBack(t, "first")
    BY <2>1 DEF FallBack, R!Fail, S!Begin
  <2>2. CASE FallBack(t, "running")
    BY <2>2 DEF FallBack, R!Fail, S!Begin
  <2>3. QED
    BY <1>8, <2>1, <2>2 DEF PrimaryFails
<1>9. CASE CallerErrs(t)
  BY <1>9 DEF CallerErrs, R!Fail
<1>10. CASE MidstreamFails(t)
  BY <1>10 DEF MidstreamFails, R!Fail
<1>11. CASE PrimaryCompletes(t)
  BY <1>11 DEF PrimaryCompletes, R!Complete
<1>12. CASE ReplayEvent(t)
  BY <1>12 DEF ReplayEvent, Deliver
<1>13. CASE FallbackCompletes(t)
  BY <1>13 DEF FallbackCompletes, S!Complete
<1>14. CASE FallbackFails(t)
  BY <1>14 DEF FallbackFails, S!Fail
<1>15. CASE Leave(t)
  BY <1>15 DEF Leave, R!Leave, S!Leave
<1>16. QED
  BY <1>1, <1>2, <1>3, <1>4, <1>5, <1>6, <1>7, <1>8, <1>9, <1>10, <1>11, <1>12, <1>13, <1>14, <1>15 DEF TurnStep

\* A step of a turn touches nothing of another one.
LEMMA OthersUntouched ==
  ASSUME TypeOK, NEW t \in Turn, TurnStep(t), NEW u \in Turn, u # t
  PROVE  /\ UNCHANGED <<enabled, endpoint>>
         /\ pc'[u] = pc[u] /\ served'[u] = served[u] /\ answered'[u] = answered[u]
         /\ realtimePhase'[u] = realtimePhase[u] /\ slowPhase'[u] = slowPhase[u]
<1> USE DEF TypeOK, same, realtime, slow, GoTo, Answer, R!Moves, S!Moves
<1>1. CASE RunDirect(t)
  BY <1>1 DEF RunDirect, R!Begin, S!Begin
<1>2. CASE DirectEvent(t)
  BY <1>2 DEF DirectEvent, Deliver
<1>3. CASE DirectCompletes(t)
  BY <1>3 DEF DirectCompletes, R!Complete, S!Complete
<1>4. CASE DirectFails(t)
  BY <1>4 DEF DirectFails, R!Fail, S!Fail
<1>5. CASE StartWrapped(t)
  BY <1>5 DEF StartWrapped, R!Begin
<1>6. CASE RejectText(t)
  BY <1>6 DEF RejectText, R!Reject
<1>7. CASE FirstEvent(t)
  BY <1>7 DEF FirstEvent, Deliver
<1>8. CASE PrimaryFails(t)
  BY <1>8 DEF PrimaryFails, FallBack, R!Fail, S!Begin
<1>9. CASE CallerErrs(t)
  BY <1>9 DEF CallerErrs, R!Fail
<1>10. CASE MidstreamFails(t)
  BY <1>10 DEF MidstreamFails, R!Fail
<1>11. CASE PrimaryCompletes(t)
  BY <1>11 DEF PrimaryCompletes, R!Complete
<1>12. CASE ReplayEvent(t)
  BY <1>12 DEF ReplayEvent, Deliver
<1>13. CASE FallbackCompletes(t)
  BY <1>13 DEF FallbackCompletes, S!Complete
<1>14. CASE FallbackFails(t)
  BY <1>14 DEF FallbackFails, S!Fail
<1>15. CASE Leave(t)
  BY <1>15 DEF Leave, R!Leave, S!Leave
<1>16. QED
  BY <1>1, <1>2, <1>3, <1>4, <1>5, <1>6, <1>7, <1>8, <1>9, <1>10, <1>11, <1>12, <1>13, <1>14, <1>15 DEF TurnStep

\* The turn that moves comes to its next place.
LEMMA OwnPlace ==
  ASSUME TypeOK, NEW t \in Turn, Placed(t), TurnStep(t)
  PROVE  Placed(t)'
<1> USE DEF TypeOK, Places, Endpoints, same, realtime, slow, Placed, Complete, IsRealtime,
        Wrapped, GoTo, Answer, R!Moves, S!Moves, Trying, Retrying, Streaming, Pending,
        Direct, Over, Raised
<1>1. CASE RunDirect(t)
  BY <1>1 DEF RunDirect, R!Begin, S!Begin
<1>2. CASE DirectEvent(t)
  BY <1>2 DEF DirectEvent, Deliver
<1>3. CASE DirectCompletes(t)
  BY <1>3 DEF DirectCompletes, R!Complete, S!Complete
<1>4. CASE DirectFails(t)
  BY <1>4 DEF DirectFails, R!Fail, S!Fail
<1>5. CASE StartWrapped(t)
  BY <1>5 DEF StartWrapped, R!Begin
<1>6. CASE RejectText(t)
  BY <1>6 DEF RejectText, R!Reject
<1>7. CASE FirstEvent(t)
  BY <1>7 DEF FirstEvent, Deliver
<1>8. CASE PrimaryFails(t)
  BY <1>8 DEF PrimaryFails, FallBack, R!Fail, S!Begin
<1>9. CASE CallerErrs(t)
  BY <1>9 DEF CallerErrs, R!Fail
<1>10. CASE MidstreamFails(t)
  BY <1>10 DEF MidstreamFails, R!Fail
<1>11. CASE PrimaryCompletes(t)
  BY <1>11 DEF PrimaryCompletes, R!Complete
<1>12. CASE ReplayEvent(t)
  BY <1>12 DEF ReplayEvent, Deliver
<1>13. CASE FallbackCompletes(t)
  BY <1>13 DEF FallbackCompletes, S!Complete
<1>14. CASE FallbackFails(t)
  BY <1>14 DEF FallbackFails, S!Fail
<1>15. CASE Leave(t)
  BY <1>15 DEF Leave, R!Leave, S!Leave
<1>16. QED
  BY <1>1, <1>2, <1>3, <1>4, <1>5, <1>6, <1>7, <1>8, <1>9, <1>10, <1>11, <1>12, <1>13, <1>14, <1>15 DEF TurnStep

-----------------------------------------------------------------------------
(* Counting.                                                               *)

RealtimeTurns  == {t \in Turn : pc[t] # "new" /\ IsRealtime(t)}
SlowTurns      == {t \in Turn : pc[t] # "new" /\ ~IsRealtime(t)}
RealtimeFailed == {t \in Turn : realtimePhase[t] = "failed"}
SlowFailed     == {t \in Turn : slowPhase[t] = "failed"}

\* B is A with n members more, all of them x.
Grows(A, B, x, n) == IF n = 1 THEN x \notin A /\ B = A \cup {x} ELSE B = A

\* A set that grows by n members is n larger.
LEMMA GrowsCounted ==
  ASSUME NEW A, NEW B, NEW x, NEW n \in {0, 1}, IsFiniteSet(A), Grows(A, B, x, n)
  PROVE  /\ IsFiniteSet(B)
         /\ Cardinality(A) \in Nat /\ Cardinality(B) = Cardinality(A) + n
<1>1. Cardinality(A) \in Nat
  BY FS_CardinalityType
<1>2. CASE n = 1
  BY <1>1, <1>2, FS_AddElement DEF Grows
<1>3. CASE n = 0
  BY <1>1, <1>3 DEF Grows
<1>4. QED
  BY <1>2, <1>3

\* What is counted was requested, and so is finite.
LEMMA CountedFinite ==
  ASSUME IInv
  PROVE  /\ IsFiniteSet(RealtimeTurns) /\ IsFiniteSet(SlowTurns) /\ IsFiniteSet(FellBack)
         /\ IsFiniteSet(RealtimeFailed) /\ IsFiniteSet(SlowFailed)
<1>1. RealtimeTurns \in SUBSET Requested /\ SlowTurns \in SUBSET Requested
  BY DEF RealtimeTurns, SlowTurns, Requested
<1>2. \A t \in Turn : pc[t] = "new" => realtimePhase[t] = "idle" /\ slowPhase[t] = "idle"
  BY DEF IInv, Placed
<1>3. RealtimeFailed \in SUBSET Requested /\ SlowFailed \in SUBSET Requested
  BY <1>2 DEF RealtimeFailed, SlowFailed, Requested
<1>4. FellBack \in SUBSET Requested
  BY <1>2 DEF FellBack, Began, Requested
<1>5. QED
  BY <1>1, <1>3, <1>4, FS_Subset DEF IInv

\* The numbers by which a step of t moves what is counted and the counters.
Metered(t, rt, st, rf, sf, fb) ==
  /\ Grows(RealtimeTurns, RealtimeTurns', t, rt) /\ realtimeTurns' = realtimeTurns + rt
  /\ Grows(SlowTurns, SlowTurns', t, st) /\ slowTurns' = slowTurns + st + fb
  /\ Grows(RealtimeFailed, RealtimeFailed', t, rf) /\ realtimeErrors' = realtimeErrors + rf
  /\ Grows(SlowFailed, SlowFailed', t, sf) /\ slowErrors' = slowErrors + sf
  /\ Grows(FellBack, FellBack', t, fb) /\ fallbacks' = fallbacks + fb

\* When the counters move with the turns they count, they stay honest.
LEMMA MeteringStep ==
  ASSUME IInv, TypeOK', \A u \in Turn : Placed(u)', NEW t \in Turn,
         NEW rt \in {0, 1}, NEW st \in {0, 1}, NEW rf \in {0, 1}, NEW sf \in {0, 1}, NEW fb \in {0, 1},
         Metered(t, rt, st, rf, sf, fb)
  PROVE  MeteringHonest'
<1>1. /\ fallbacks = Cardinality(FellBack)
      /\ realtimeTurns = Cardinality(RealtimeTurns)
      /\ slowTurns = Cardinality(SlowTurns) + fallbacks
      /\ realtimeErrors = Cardinality(RealtimeFailed)
      /\ slowErrors = Cardinality(SlowFailed)
  BY DEF IInv, MeteringHonest, RealtimeTurns, SlowTurns, RealtimeFailed, SlowFailed
<1>2. fallbacks' = Cardinality(FellBack')
  BY <1>1, CountedFinite, GrowsCounted DEF Metered
<1>3. realtimeTurns' = Cardinality(RealtimeTurns')
  BY <1>1, CountedFinite, GrowsCounted DEF Metered
<1>4. slowTurns' = Cardinality(SlowTurns') + fallbacks'
  <2>1. Cardinality(SlowTurns') = Cardinality(SlowTurns) + st /\ Cardinality(SlowTurns) \in Nat
    BY CountedFinite, GrowsCounted DEF Metered
  <2>2. fallbacks \in Nat
    BY DEF IInv, TypeOK
  <2>3. QED
    BY <1>1, <2>1, <2>2 DEF Metered
<1>5. realtimeErrors' = Cardinality(RealtimeFailed')
  BY <1>1, CountedFinite, GrowsCounted DEF Metered
<1>6. slowErrors' = Cardinality(SlowFailed')
  BY <1>1, CountedFinite, GrowsCounted DEF Metered
<1>7. \A u \in FellBack' : realtimePhase'[u] = "failed"
  <2>1. ASSUME NEW u \in FellBack' PROVE realtimePhase'[u] = "failed"
    <3>1. u \in Turn /\ slowPhase'[u] # "idle" /\ IsRealtime(u)'
      BY DEF FellBack, Began, IsRealtime
    <3>2. Placed(u)' /\ pc'[u] \in Places
      BY <3>1 DEF TypeOK
    <3>3. QED
      BY <3>1, <3>2 DEF Placed, Places, Trying, Retrying, Direct, Over, IsRealtime
  <2>2. QED
    BY <2>1
<1>8. QED
  BY <1>2, <1>3, <1>4, <1>5, <1>6, <1>7
  DEF MeteringHonest, RealtimeTurns, SlowTurns, RealtimeFailed, SlowFailed

\* Each step moves what is counted by the same numbers as the counters.
LEMMA StepMetered ==
  ASSUME TypeOK, NEW t \in Turn, Placed(t), TurnStep(t)
  PROVE  \E rt, st, rf, sf, fb \in {0, 1} : Metered(t, rt, st, rf, sf, fb)
<1> USE DEF TypeOK, same, realtime, slow, GoTo, R!Moves, S!Moves, Grows, Metered,
        RealtimeTurns, SlowTurns, RealtimeFailed, SlowFailed, FellBack, Began,
        Wrapped, IsRealtime, Placed, Trying, Retrying, Direct
<1>1. CASE RunDirect(t)
  <2>1. CASE IsRealtime(t)
    <3>1. Metered(t, 1, 0, 0, 0, 0)
      BY <1>1, <2>1 DEF RunDirect, R!Begin, S!Begin
    <3>2. QED
      BY <3>1
  <2>2. CASE ~IsRealtime(t)
    <3>1. Metered(t, 0, 1, 0, 0, 0)
      BY <1>1, <2>2 DEF RunDirect, R!Begin, S!Begin
    <3>2. QED
      BY <3>1
  <2>3. QED
    BY <2>1, <2>2
<1>2. CASE DirectEvent(t)
  <2>1. Metered(t, 0, 0, 0, 0, 0)
    BY <1>2 DEF DirectEvent
  <2>2. QED
    BY <2>1
<1>3. CASE DirectCompletes(t)
  <2>1. Metered(t, 0, 0, 0, 0, 0)
    BY <1>3 DEF DirectCompletes, R!Complete, S!Complete
  <2>2. QED
    BY <2>1
<1>4. CASE DirectFails(t)
  <2>1. CASE IsRealtime(t)
    <3>1. Metered(t, 0, 0, 1, 0, 0)
      BY <1>4, <2>1 DEF DirectFails, R!Fail, S!Fail
    <3>2. QED
      BY <3>1
  <2>2. CASE ~IsRealtime(t)
    <3>1. Metered(t, 0, 0, 0, 1, 0)
      BY <1>4, <2>2 DEF DirectFails, R!Fail, S!Fail
    <3>2. QED
      BY <3>1
  <2>3. QED
    BY <2>1, <2>2
<1>5. CASE StartWrapped(t)
  <2>1. Metered(t, 1, 0, 0, 0, 0)
    BY <1>5 DEF StartWrapped, R!Begin
  <2>2. QED
    BY <2>1
<1>6. CASE RejectText(t)
  <2>1. Metered(t, 1, 0, 1, 0, 0)
    BY <1>6 DEF RejectText, R!Reject
  <2>2. QED
    BY <2>1
<1>7. CASE FirstEvent(t)
  <2>1. Metered(t, 0, 0, 0, 0, 0)
    BY <1>7 DEF FirstEvent
  <2>2. QED
    BY <2>1
<1>8. CASE PrimaryFails(t)
  <2>1. Metered(t, 0, 0, 1, 0, 1)
    BY <1>8 DEF PrimaryFails, FallBack, R!Fail, S!Begin
  <2>2. QED
    BY <2>1
<1>9. CASE CallerErrs(t)
  <2>1. Metered(t, 0, 0, 1, 0, 0)
    BY <1>9 DEF CallerErrs, R!Fail
  <2>2. QED
    BY <2>1
<1>10. CASE MidstreamFails(t)
  <2>1. Metered(t, 0, 0, 1, 0, 0)
    BY <1>10 DEF MidstreamFails, R!Fail
  <2>2. QED
    BY <2>1
<1>11. CASE PrimaryCompletes(t)
  <2>1. Metered(t, 0, 0, 0, 0, 0)
    BY <1>11 DEF PrimaryCompletes, R!Complete
  <2>2. QED
    BY <2>1
<1>12. CASE ReplayEvent(t)
  <2>1. Metered(t, 0, 0, 0, 0, 0)
    BY <1>12 DEF ReplayEvent
  <2>2. QED
    BY <2>1
<1>13. CASE FallbackCompletes(t)
  <2>1. Metered(t, 0, 0, 0, 0, 0)
    BY <1>13 DEF FallbackCompletes, S!Complete
  <2>2. QED
    BY <2>1
<1>14. CASE FallbackFails(t)
  <2>1. Metered(t, 0, 0, 0, 1, 0)
    BY <1>14 DEF FallbackFails, S!Fail
  <2>2. QED
    BY <2>1
<1>15. CASE Leave(t)
  <2>1. Metered(t, 0, 0, 0, 0, 0)
    BY <1>15 DEF Leave, R!Leave, S!Leave
  <2>2. QED
    BY <2>1
<1>16. QED
  BY <1>1, <1>2, <1>3, <1>4, <1>5, <1>6, <1>7, <1>8, <1>9, <1>10, <1>11, <1>12, <1>13, <1>14, <1>15 DEF TurnStep

\* Every step preserves the invariant.
LEMMA NextIInv == IInv /\ [Next]_vars => IInv'
<1> SUFFICES ASSUME IInv, [Next]_vars PROVE IInv'
  OBVIOUS
<1>1. CASE UNCHANGED vars
  BY <1>1 DEF vars, realtime, slow, IInv, TypeOK, Placed, Requested, MeteringHonest, FellBack, Began,
     Complete, IsRealtime, Wrapped, Trying, Retrying, Streaming, Pending, Direct, Over, Raised
<1>2. ASSUME NEW t \in Turn, TurnStep(t) PROVE IInv'
  <2>1. TypeOK'
    BY <1>2, TypeStep DEF IInv
  <2>2. \A u \in Turn : Placed(u)'
    <3>1. Placed(t)'
      BY <1>2, OwnPlace DEF IInv
    <3>2. ASSUME NEW u \in Turn, u # t PROVE Placed(u)'
      <4>1. /\ UNCHANGED <<enabled, endpoint>>
            /\ pc'[u] = pc[u] /\ served'[u] = served[u] /\ answered'[u] = answered[u]
            /\ realtimePhase'[u] = realtimePhase[u] /\ slowPhase'[u] = slowPhase[u]
        BY <1>2, <3>2, OthersUntouched DEF IInv
      <4>2. Placed(u)
        BY DEF IInv
      <4>3. QED
        BY <4>1, <4>2 DEF Placed, Complete, IsRealtime, Wrapped, Trying, Retrying, Streaming,
           Pending, Direct, Over, Raised
    <3>3. QED
      BY <3>1, <3>2
  <2>3. IsFiniteSet(Requested')
    <3>1. Requested' \in SUBSET (Requested \cup {t})
      <4>1. \A u \in Turn : u # t => pc'[u] = pc[u]
        BY <1>2, OthersUntouched DEF IInv
      <4>2. QED
        BY <4>1 DEF Requested
    <3>2. IsFiniteSet(Requested \cup {t})
      BY FS_AddElement DEF IInv
    <3>3. QED
      BY <3>1, <3>2, FS_Subset
  <2>4. MeteringHonest'
    <3>1. PICK rt, st, rf, sf, fb \in {0, 1} : Metered(t, rt, st, rf, sf, fb)
      BY <1>2, StepMetered DEF IInv
    <3>2. QED
      BY <2>1, <2>2, <3>1, MeteringStep
  <2>5. QED
    BY <2>1, <2>2, <2>3, <2>4 DEF IInv
<1>3. QED
  BY <1>1, <1>2 DEF Next

-----------------------------------------------------------------------------
(* The theorems.                                                           *)

\* The invariant holds in every behaviour of every set of turns.
THEOREM Invariance == Spec => []IInv
  BY InitIInv, NextIInv, PTL DEF Spec

\* No client is sent events of both paths, and the three counters agree on what happened,
\* whenever the realtime path fails and whoever leaves meanwhile (fallback.py:10-16).
THEOREM FallbackCorrect == Spec => []FallbackHonest
<1>1. IInv => FallbackHonest
  <2> SUFFICES ASSUME IInv PROVE NoReplayAfterDelivery
    BY DEF IInv, FallbackHonest
  <2>1. ASSUME NEW t \in Turn PROVE Cardinality(served[t]) <= 1
    <3>1. \E path \in {"realtime", "traditional"} : served[t] \subseteq {path}
      <4>1. Placed(t) /\ pc[t] \in Places /\ endpoint[t] \in Endpoints
        BY DEF IInv, TypeOK
      <4>2. QED
        BY <4>1 DEF Placed, Places, Endpoints, Trying, Retrying, Streaming, Pending, Direct, Over
    <3>2. PICK path \in {"realtime", "traditional"} : served[t] = {} \/ served[t] = {path}
      BY <3>1
    <3>3. Cardinality({}) = 0 /\ Cardinality({path}) = 1
      BY FS_EmptySet, FS_Singleton
    <3>4. QED
      BY <3>2, <3>3
  <2>2. QED
    BY <2>1 DEF NoReplayAfterDelivery
<1>2. QED
  BY <1>1, Invariance, PTL

\* A problem body is the answer to the failed turns of /complete that nobody recovered,
\* and to no other (errors.py:3).
THEOREM ProblemsCorrect == Spec => []ErrorsAreProblems
<1>1. IInv => ErrorsAreProblems
  <2> SUFFICES ASSUME IInv, NEW t \in Turn
               PROVE  (answered[t] = "problem") <=> (Raised(t) /\ Complete(t))
    BY DEF ErrorsAreProblems
  <2>1. Placed(t) /\ pc[t] \in Places
    BY DEF IInv, TypeOK
  <2>2. QED
    BY <2>1 DEF Placed, Places, Trying, Retrying, Streaming, Pending, Direct, Over, Raised
<1>2. QED
  BY <1>1, Invariance, PTL
=============================================================================
