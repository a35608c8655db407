------------------------ MODULE RealtimePipelineProofs ------------------------
(***************************************************************************)
(* Theorems about RealtimePipeline, for every set of turns and sessions    *)
(* and every retry budget.  IInv is the inductive invariant: each part     *)
(* says what the position of a turn implies about one piece of its state.  *)
(***************************************************************************)
EXTENDS RealtimePipeline, FiniteSetTheorems, TLAPS

\* A turn that may still try to connect, or is connected, is within its budget.
BudgetLeft(t) ==
  \/ pc[t] \in {"new", "cancelling", "clearing", "connecting", "configuring",
               "receiving", "yielding", "backoff"}
  \/ pc[t] = "closing" /\ ending[t] = "retry"

WithinBudget == \A t \in Turn : BudgetLeft(t) => attempts[t] <= MaxReconnects

\* The stream has its outcome only once the pipeline's frame is gone.
OutcomeIsLast ==
  \A t \in Turn : outcome[t] # "none" =>
    \/ pc[t] \in {"ended", "orphaned"}
    \/ pc[t] = "closing" /\ ending[t] = "finalised"

\* Before a turn enters the pipeline it has no machine and has heard nothing.
\* From then on its machine tells whether it has started to speak.
MachineFollowsTurn ==
  \A t \in Turn :
    /\ pc[t] \in {"new", "cancelling", "clearing"} => machine[t] = None /\ chunks[t] = 0
    /\ (Registrable(t) /\ machine[t] # "idle") \/ HoldsConnection(t) =>
          \/ chunks[t] = 0 /\ machine[t] = "thinking"
          \/ chunks[t] > 0 /\ machine[t] \in {"speaking", "listening"}
    /\ machine[t] = "speaking" => chunks[t] > 0
    /\ machine[t] = "idle" =>
          \/ pc[t] \in {"finishing", "ended"}
          \/ pc[t] = "abandoned" /\ link[t] = "none"

\* A reply that was taken over has spoken and will not speak again.
TakenOverIsSilent ==
  \A t \in Turn :
    (previous[t] # None /\ machine[t] # None) =>
       /\ machine[previous[t]] \in {"listening", "idle"}
       /\ chunks[previous[t]] > 0

\* A turn inside interrupt() holds the machine of the reply it interrupts,
\* and has resolved its session.
InterrupterHoldsPrevious ==
  \A t \in Turn :
    /\ pc[t] = "new" => previous[t] = None
    /\ pc[t] \in {"cancelling", "clearing"} =>
          /\ previous[t] # None
          /\ key[t] \in Session
          /\ key[previous[t]] = key[t]
          /\ machine[previous[t]] # None

IInv ==
  /\ TypeOK
  /\ WithinBudget
  /\ RegistryHoldsLiveTurns
  /\ OutcomeIsLast
  /\ ConnectionsReleased
  /\ ActiveConnectionIsHeld
  /\ MachineFollowsTurn
  /\ TakenOverIsSilent
  /\ InterrupterHoldsPrevious
  /\ OwnTransitionsLegal
  /\ OneTakeoverPerReply

-----------------------------------------------------------------------------
\* Every step preserves the types; within the budget one failure more is typed.
LEMMA TypeStep ==
  ASSUME TypeOK, WithinBudget, [Next]_vars
  PROVE  TypeOK' /\ WithinBudget'
<1> USE ConstantsAssumption
<1>1. ASSUME NEW t \in Turn, RejectInput(t)
      PROVE  TypeOK' /\ WithinBudget'
  BY <1>1 DEF RejectInput, End, StreamOver, CountTurn, TypeOK, connVars, counters,
       Endings, Errors, Outcomes, Links, Suspensions, WithinBudget,
       BudgetLeft
<1>2. ASSUME NEW t \in Turn, NEW k \in Session, StartTurn(t, k)
      PROVE  TypeOK' /\ WithinBudget'
  BY <1>2 DEF StartTurn, EnterTurn, CountTurn, End, StreamOver, GoTo, Deregistered,
       StartedMachine, Transition, Can, Allowed, States, TypeOK, connVars, counters,
       Endings, Errors, Outcomes, Links, Suspensions, WithinBudget,
       BudgetLeft
<1>3. ASSUME NEW t \in Turn, NEW k \in Session, StartUnsentBargeIn(t, k)
      PROVE  TypeOK' /\ WithinBudget'
  BY <1>3 DEF StartUnsentBargeIn, EnterTurn, CountTurn, End, StreamOver, GoTo,
       Deregistered, StartedMachine, BargeIn, CanBargeIn, Transition, Can, Allowed,
       States, MidSpeech, TypeOK, connVars, counters, Endings, Errors, Outcomes,
       Links, Suspensions, WithinBudget, BudgetLeft
<1>4. ASSUME NEW t \in Turn, NEW k \in Session, StartBargeIn(t, k)
      PROVE  TypeOK' /\ WithinBudget'
  BY <1>4 DEF StartBargeIn, CountTurn, GoTo, MidSpeech, CanSend, TypeOK, connVars,
       counters, Endings, Errors, Outcomes, Links, Suspensions, States,
       WithinBudget, BudgetLeft
<1>5. ASSUME NEW t \in Turn, SendClear(t)
      PROVE  TypeOK' /\ WithinBudget'
  BY <1>5 DEF SendClear, GoTo, TypeOK, connVars, counters, Endings, Errors,
       Outcomes, Links, Suspensions, WithinBudget, BudgetLeft
<1>6. ASSUME NEW t \in Turn, ResumeBargeIn(t)
      PROVE  TypeOK' /\ WithinBudget'
  BY <1>6 DEF ResumeBargeIn, EnterTurn, End, StreamOver, GoTo, Deregistered,
       StartedMachine, BargeIn, CanBargeIn, Transition, Can, Allowed, States,
       TypeOK, connVars, counters, Endings, Errors, Outcomes, Links, Suspensions,
       States, WithinBudget, BudgetLeft
<1>7. ASSUME NEW t \in Turn, Connect(t)
      PROVE  TypeOK' /\ WithinBudget'
  BY <1>7 DEF Connect, GoTo, TypeOK, connVars, counters, Endings, Errors, Outcomes,
       Links, Suspensions, WithinBudget, BudgetLeft
<1>8. ASSUME NEW t \in Turn, ConnectFails(t)
      PROVE  TypeOK' /\ WithinBudget'
  BY <1>8 DEF ConnectFails, Charge, End, StreamOver, GoTo, Deregister, Deregistered,
       TypeOK, connVars, counters, Endings, Errors, Outcomes, Links, Suspensions,
       States, WithinBudget, BudgetLeft
<1>9. ASSUME NEW t \in Turn, NEW how \in {"closed", "dropped"}, PeerLeaves(t, how)
      PROVE  TypeOK' /\ WithinBudget'
  BY <1>9 DEF PeerLeaves, TypeOK, connVars, counters, Endings, Errors, Outcomes,
       Links, Suspensions, WithinBudget, BudgetLeft
<1>10. ASSUME NEW t \in Turn, Configured(t)
      PROVE  TypeOK' /\ WithinBudget'
  BY <1>10 DEF Configured, GoTo, TypeOK, connVars, counters, Endings, Errors,
       Outcomes, Links, Suspensions, WithinBudget, BudgetLeft
<1>11. ASSUME NEW t \in Turn, ReceiveAudio(t)
      PROVE  TypeOK' /\ WithinBudget'
  BY <1>11 DEF ReceiveAudio, GoTo, StreamOver, Deregister, Deregistered, SpeaksNow,
       Can, Allowed, States, TypeOK, connVars, counters, Endings, Errors, Outcomes,
       Links, Suspensions, WithinBudget, BudgetLeft
<1>12. ASSUME NEW t \in Turn, PullNext(t)
      PROVE  TypeOK' /\ WithinBudget'
  BY <1>12 DEF PullNext, GoTo, TypeOK, connVars, counters, Endings, Errors,
       Outcomes, Links, Suspensions, WithinBudget, BudgetLeft
<1>13. ASSUME NEW t \in Turn, SessionEnds(t)
      PROVE  TypeOK' /\ WithinBudget'
  BY <1>13 DEF SessionEnds, GoTo, Teardown, TypeOK, connVars, counters, Endings,
       Errors, Outcomes, Links, Suspensions, WithinBudget, BudgetLeft
<1>14. ASSUME NEW t \in Turn, SessionDrops(t)
      PROVE  TypeOK' /\ WithinBudget'
  BY <1>14 DEF SessionDrops, GoTo, Teardown, Charge, TypeOK, connVars, counters,
       Endings, Errors, Outcomes, Links, Suspensions, WithinBudget,
       BudgetLeft
<1>15. ASSUME NEW t \in Turn, BackoffEnds(t)
      PROVE  TypeOK' /\ WithinBudget'
  BY <1>15 DEF BackoffEnds, GoTo, Teardown, TypeOK, connVars, counters, Endings,
       Errors, Outcomes, Links, Suspensions, WithinBudget, BudgetLeft
<1>16. ASSUME NEW t \in Turn, Reconnect(t)
      PROVE  TypeOK' /\ WithinBudget'
  BY <1>16 DEF Reconnect, GoTo, TypeOK, connVars, counters, Endings, Errors,
       Outcomes, Links, Suspensions, WithinBudget, BudgetLeft
<1>17. ASSUME NEW t \in Turn, FinishTurn(t)
      PROVE  TypeOK' /\ WithinBudget'
  BY <1>17 DEF FinishTurn, GoTo, End, StreamOver, Deregister, Deregistered,
       Transition, Can, Allowed, States, TypeOK, connVars, counters, Endings,
       Errors, Outcomes, Links, Suspensions, WithinBudget, BudgetLeft
<1>18. ASSUME NEW t \in Turn, FailTurn(t)
      PROVE  TypeOK' /\ WithinBudget'
  <2>1. TypeOK'
    <3>1. /\ activeTurns' \in [Session -> Turn \cup {None}]
          /\ UNCHANGED <<key, machine, previous, target, activeConn, turnCount,
                         doneCount, connVars, reached>>
      BY <1>18 DEF FailTurn, Deregister, Deregistered, TypeOK, counters
    <3>2. /\ pc' \in [Turn -> Suspensions]
          /\ outcome' \in [Turn -> Outcomes]
          /\ errorCount' \in Nat
      BY <1>18 DEF FailTurn, End, StreamOver, TypeOK, Errors, Outcomes, Suspensions
    <3>3. QED
      BY <3>1, <3>2 DEF TypeOK, connVars
  <2>2. WithinBudget'
    BY <1>18 DEF FailTurn, End, TypeOK, connVars, WithinBudget, BudgetLeft
  <2>3. QED
    BY <2>1, <2>2
<1>19. ASSUME NEW t \in Turn, CompleteTurn(t)
      PROVE  TypeOK' /\ WithinBudget'
  BY <1>19 DEF CompleteTurn, End, StreamOver, Deregister, Deregistered, TypeOK,
       connVars, counters, Endings, Errors, Outcomes, Links, Suspensions, States,
       WithinBudget, BudgetLeft
<1>20. ASSUME NEW t \in Turn, CancelIdle(t)
      PROVE  TypeOK' /\ WithinBudget'
  BY <1>20 DEF CancelIdle, End, StreamOver, Deregister, Deregistered, TypeOK,
       connVars, counters, Endings, Errors, Outcomes, Links, Suspensions, States,
       WithinBudget, BudgetLeft
<1>21. ASSUME NEW t \in Turn, CancelConnected(t)
      PROVE  TypeOK' /\ WithinBudget'
  BY <1>21 DEF CancelConnected, GoTo, Teardown, TypeOK, connVars, counters, Endings,
       Errors, Outcomes, Links, Suspensions, WithinBudget, BudgetLeft
<1>22. ASSUME NEW t \in Turn, CancelledClosed(t)
      PROVE  TypeOK' /\ WithinBudget'
  BY <1>22 DEF CancelledClosed, End, StreamOver, Deregister, Deregistered, TypeOK,
       connVars, counters, Endings, Errors, Outcomes, Links, Suspensions, States,
       WithinBudget, BudgetLeft
<1>23. ASSUME NEW t \in Turn, Abandon(t)
      PROVE  TypeOK' /\ WithinBudget'
  BY <1>23 DEF Abandon, GoTo, TypeOK, connVars, counters, Endings, Errors, Outcomes,
       Links, Suspensions, WithinBudget, BudgetLeft
<1>24. ASSUME NEW t \in Turn, FinalisePipeline(t)
      PROVE  TypeOK' /\ WithinBudget'
  BY <1>24 DEF FinalisePipeline, StreamOver, Deregister, Deregistered, TypeOK,
       connVars, counters, Endings, Errors, Outcomes, Links, Suspensions, States,
       WithinBudget, BudgetLeft
<1>25. ASSUME NEW t \in Turn, FinaliseProvider(t)
      PROVE  TypeOK' /\ WithinBudget'
  BY <1>25 DEF FinaliseProvider, GoTo, Teardown, TypeOK, connVars, counters,
       Endings, Errors, Outcomes, Links, Suspensions, WithinBudget,
       BudgetLeft
<1>26. ASSUME NEW t \in Turn, ProviderFinalised(t)
      PROVE  TypeOK' /\ WithinBudget'
  BY <1>26 DEF ProviderFinalised, GoTo, TypeOK, connVars, counters, Endings, Errors,
       Outcomes, Links, Suspensions, WithinBudget, BudgetLeft
<1>27. CASE UNCHANGED vars
  BY <1>27 DEF vars, connVars, TypeOK, Endings, Errors, Outcomes, Links,
       Suspensions, States, WithinBudget, BudgetLeft
<1>28. QED
  BY <1>1, <1>2, <1>3, <1>4, <1>5, <1>6, <1>7, <1>8, <1>9, <1>10, <1>11, <1>12,
       <1>13, <1>14, <1>15, <1>16, <1>17, <1>18, <1>19, <1>20, <1>21, <1>22, <1>23,
       <1>24, <1>25, <1>26, <1>27 DEF Next, ServerStep, ClientStep, RemoteStep

\* Every step keeps the registry to live turns and outcomes to closed streams.
LEMMA RegistryStep ==
  ASSUME TypeOK, RegistryHoldsLiveTurns, OutcomeIsLast, [Next]_vars
  PROVE  RegistryHoldsLiveTurns' /\ OutcomeIsLast'
<1> USE ConstantsAssumption
<1>1. ASSUME NEW t \in Turn, RejectInput(t)
      PROVE  RegistryHoldsLiveTurns' /\ OutcomeIsLast'
  BY <1>1 DEF RejectInput, End, StreamOver, CountTurn, TypeOK, connVars, counters,
       Endings, Errors, Outcomes, Links, Suspensions, States,
       RegistryHoldsLiveTurns, OutcomeIsLast, Registrable
<1>2. ASSUME NEW t \in Turn, NEW k \in Session, StartTurn(t, k)
      PROVE  RegistryHoldsLiveTurns' /\ OutcomeIsLast'
  BY <1>2 DEF StartTurn, EnterTurn, CountTurn, End, StreamOver, GoTo, Deregistered,
       StartedMachine, Transition, Can, Allowed, States, TypeOK, connVars, counters,
       Endings, Errors, Outcomes, Links, Suspensions, States,
       RegistryHoldsLiveTurns, OutcomeIsLast, Registrable
<1>3. ASSUME NEW t \in Turn, NEW k \in Session, StartUnsentBargeIn(t, k)
      PROVE  RegistryHoldsLiveTurns' /\ OutcomeIsLast'
  BY <1>3 DEF StartUnsentBargeIn, EnterTurn, CountTurn, End, StreamOver, GoTo,
       Deregistered, StartedMachine, BargeIn, CanBargeIn, Transition, Can, Allowed,
       States, MidSpeech, TypeOK, connVars, counters, Endings, Errors, Outcomes,
       Links, Suspensions, States, RegistryHoldsLiveTurns, OutcomeIsLast,
       Registrable
<1>4. ASSUME NEW t \in Turn, NEW k \in Session, StartBargeIn(t, k)
      PROVE  RegistryHoldsLiveTurns' /\ OutcomeIsLast'
  BY <1>4 DEF StartBargeIn, CountTurn, GoTo, MidSpeech, CanSend, TypeOK, connVars,
       counters, Endings, Errors, Outcomes, Links, Suspensions, States,
       RegistryHoldsLiveTurns, OutcomeIsLast, Registrable
<1>5. ASSUME NEW t \in Turn, SendClear(t)
      PROVE  RegistryHoldsLiveTurns' /\ OutcomeIsLast'
  BY <1>5 DEF SendClear, GoTo, TypeOK, connVars, counters, Endings, Errors,
       Outcomes, Links, Suspensions, States, RegistryHoldsLiveTurns, OutcomeIsLast,
       Registrable
<1>6. ASSUME NEW t \in Turn, ResumeBargeIn(t)
      PROVE  RegistryHoldsLiveTurns' /\ OutcomeIsLast'
  BY <1>6 DEF ResumeBargeIn, EnterTurn, End, StreamOver, GoTo, Deregistered,
       StartedMachine, BargeIn, CanBargeIn, Transition, Can, Allowed, States,
       TypeOK, connVars, counters, Endings, Errors, Outcomes, Links, Suspensions,
       States, RegistryHoldsLiveTurns, OutcomeIsLast, Registrable
<1>7. ASSUME NEW t \in Turn, Connect(t)
      PROVE  RegistryHoldsLiveTurns' /\ OutcomeIsLast'
  BY <1>7 DEF Connect, GoTo, TypeOK, connVars, counters, Endings, Errors, Outcomes,
       Links, Suspensions, States, RegistryHoldsLiveTurns, OutcomeIsLast,
       Registrable
<1>8. ASSUME NEW t \in Turn, ConnectFails(t)
      PROVE  RegistryHoldsLiveTurns' /\ OutcomeIsLast'
  BY <1>8 DEF ConnectFails, Charge, End, StreamOver, GoTo, Deregister, Deregistered,
       TypeOK, connVars, counters, Endings, Errors, Outcomes, Links, Suspensions,
       States, RegistryHoldsLiveTurns, OutcomeIsLast, Registrable
<1>9. ASSUME NEW t \in Turn, NEW how \in {"closed", "dropped"}, PeerLeaves(t, how)
      PROVE  RegistryHoldsLiveTurns' /\ OutcomeIsLast'
  BY <1>9 DEF PeerLeaves, TypeOK, connVars, counters, Endings, Errors, Outcomes,
       Links, Suspensions, States, RegistryHoldsLiveTurns, OutcomeIsLast,
       Registrable
<1>10. ASSUME NEW t \in Turn, Configured(t)
      PROVE  RegistryHoldsLiveTurns' /\ OutcomeIsLast'
  BY <1>10 DEF Configured, GoTo, TypeOK, connVars, counters, Endings, Errors,
       Outcomes, Links, Suspensions, States, RegistryHoldsLiveTurns, OutcomeIsLast,
       Registrable
<1>11. ASSUME NEW t \in Turn, ReceiveAudio(t)
      PROVE  RegistryHoldsLiveTurns' /\ OutcomeIsLast'
  BY <1>11 DEF ReceiveAudio, GoTo, StreamOver, Deregister, Deregistered, SpeaksNow,
       Can, Allowed, States, TypeOK, connVars, counters, Endings, Errors, Outcomes,
       Links, Suspensions, States, RegistryHoldsLiveTurns, OutcomeIsLast,
       Registrable
<1>12. ASSUME NEW t \in Turn, PullNext(t)
      PROVE  RegistryHoldsLiveTurns' /\ OutcomeIsLast'
  BY <1>12 DEF PullNext, GoTo, TypeOK, connVars, counters, Endings, Errors,
       Outcomes, Links, Suspensions, States, RegistryHoldsLiveTurns, OutcomeIsLast,
       Registrable
<1>13. ASSUME NEW t \in Turn, SessionEnds(t)
      PROVE  RegistryHoldsLiveTurns' /\ OutcomeIsLast'
  BY <1>13 DEF SessionEnds, GoTo, Teardown, TypeOK, connVars, counters, Endings,
       Errors, Outcomes, Links, Suspensions, States, RegistryHoldsLiveTurns,
       OutcomeIsLast, Registrable
<1>14. ASSUME NEW t \in Turn, SessionDrops(t)
      PROVE  RegistryHoldsLiveTurns' /\ OutcomeIsLast'
  BY <1>14 DEF SessionDrops, GoTo, Teardown, Charge, TypeOK, connVars, counters,
       Endings, Errors, Outcomes, Links, Suspensions, States,
       RegistryHoldsLiveTurns, OutcomeIsLast, Registrable
<1>15. ASSUME NEW t \in Turn, BackoffEnds(t)
      PROVE  RegistryHoldsLiveTurns' /\ OutcomeIsLast'
  BY <1>15 DEF BackoffEnds, GoTo, Teardown, TypeOK, connVars, counters, Endings,
       Errors, Outcomes, Links, Suspensions, States, RegistryHoldsLiveTurns,
       OutcomeIsLast, Registrable
<1>16. ASSUME NEW t \in Turn, Reconnect(t)
      PROVE  RegistryHoldsLiveTurns' /\ OutcomeIsLast'
  BY <1>16 DEF Reconnect, GoTo, TypeOK, connVars, counters, Endings, Errors,
       Outcomes, Links, Suspensions, States, RegistryHoldsLiveTurns, OutcomeIsLast,
       Registrable
<1>17. ASSUME NEW t \in Turn, FinishTurn(t)
      PROVE  RegistryHoldsLiveTurns' /\ OutcomeIsLast'
  BY <1>17 DEF FinishTurn, GoTo, End, StreamOver, Deregister, Deregistered,
       Transition, Can, Allowed, States, TypeOK, connVars, counters, Endings,
       Errors, Outcomes, Links, Suspensions, States, RegistryHoldsLiveTurns,
       OutcomeIsLast, Registrable
<1>18. ASSUME NEW t \in Turn, FailTurn(t)
      PROVE  RegistryHoldsLiveTurns' /\ OutcomeIsLast'
  BY <1>18 DEF FailTurn, End, StreamOver, Deregister, Deregistered, TypeOK,
       connVars, counters, Endings, Errors, Outcomes, Links, Suspensions, States,
       RegistryHoldsLiveTurns, OutcomeIsLast, Registrable
<1>19. ASSUME NEW t \in Turn, CompleteTurn(t)
      PROVE  RegistryHoldsLiveTurns' /\ OutcomeIsLast'
  BY <1>19 DEF CompleteTurn, End, StreamOver, Deregister, Deregistered, TypeOK,
       connVars, counters, Endings, Errors, Outcomes, Links, Suspensions, States,
       RegistryHoldsLiveTurns, OutcomeIsLast, Registrable
<1>20. ASSUME NEW t \in Turn, CancelIdle(t)
      PROVE  RegistryHoldsLiveTurns' /\ OutcomeIsLast'
  BY <1>20 DEF CancelIdle, End, StreamOver, Deregister, Deregistered, TypeOK,
       connVars, counters, Endings, Errors, Outcomes, Links, Suspensions, States,
       RegistryHoldsLiveTurns, OutcomeIsLast, Registrable
<1>21. ASSUME NEW t \in Turn, CancelConnected(t)
      PROVE  RegistryHoldsLiveTurns' /\ OutcomeIsLast'
  BY <1>21 DEF CancelConnected, GoTo, Teardown, TypeOK, connVars, counters, Endings,
       Errors, Outcomes, Links, Suspensions, States, RegistryHoldsLiveTurns,
       OutcomeIsLast, Registrable
<1>22. ASSUME NEW t \in Turn, CancelledClosed(t)
      PROVE  RegistryHoldsLiveTurns' /\ OutcomeIsLast'
  BY <1>22 DEF CancelledClosed, End, StreamOver, Deregister, Deregistered, TypeOK,
       connVars, counters, Endings, Errors, Outcomes, Links, Suspensions, States,
       RegistryHoldsLiveTurns, OutcomeIsLast, Registrable
<1>23. ASSUME NEW t \in Turn, Abandon(t)
      PROVE  RegistryHoldsLiveTurns' /\ OutcomeIsLast'
  BY <1>23 DEF Abandon, GoTo, TypeOK, connVars, counters, Endings, Errors, Outcomes,
       Links, Suspensions, States, RegistryHoldsLiveTurns, OutcomeIsLast,
       Registrable
<1>24. ASSUME NEW t \in Turn, FinalisePipeline(t)
      PROVE  RegistryHoldsLiveTurns' /\ OutcomeIsLast'
  BY <1>24 DEF FinalisePipeline, StreamOver, Deregister, Deregistered, TypeOK,
       connVars, counters, Endings, Errors, Outcomes, Links, Suspensions, States,
       RegistryHoldsLiveTurns, OutcomeIsLast, Registrable
<1>25. ASSUME NEW t \in Turn, FinaliseProvider(t)
      PROVE  RegistryHoldsLiveTurns' /\ OutcomeIsLast'
  BY <1>25 DEF FinaliseProvider, GoTo, Teardown, TypeOK, connVars, counters,
       Endings, Errors, Outcomes, Links, Suspensions, States,
       RegistryHoldsLiveTurns, OutcomeIsLast, Registrable
<1>26. ASSUME NEW t \in Turn, ProviderFinalised(t)
      PROVE  RegistryHoldsLiveTurns' /\ OutcomeIsLast'
  BY <1>26 DEF ProviderFinalised, GoTo, TypeOK, connVars, counters, Endings, Errors,
       Outcomes, Links, Suspensions, States, RegistryHoldsLiveTurns, OutcomeIsLast,
       Registrable
<1>27. CASE UNCHANGED vars
  BY <1>27 DEF vars, connVars, TypeOK, Endings, Errors, Outcomes, Links,
       Suspensions, States, RegistryHoldsLiveTurns, OutcomeIsLast, Registrable
<1>28. QED
  BY <1>1, <1>2, <1>3, <1>4, <1>5, <1>6, <1>7, <1>8, <1>9, <1>10, <1>11, <1>12,
       <1>13, <1>14, <1>15, <1>16, <1>17, <1>18, <1>19, <1>20, <1>21, <1>22, <1>23,
       <1>24, <1>25, <1>26, <1>27 DEF Next, ServerStep, ClientStep, RemoteStep

\* Every step keeps connections to the turns that hold them.
LEMMA ConnectionStep ==
  ASSUME TypeOK, ConnectionsReleased, ActiveConnectionIsHeld, [Next]_vars
  PROVE  ConnectionsReleased' /\ ActiveConnectionIsHeld'
<1> USE ConstantsAssumption
<1>1. ASSUME NEW t \in Turn, RejectInput(t)
      PROVE  ConnectionsReleased' /\ ActiveConnectionIsHeld'
  BY <1>1 DEF RejectInput, End, StreamOver, CountTurn, TypeOK, connVars, counters,
       Endings, Errors, Outcomes, Links, Suspensions, States, ConnectionsReleased,
       ActiveConnectionIsHeld, HoldsConnection
<1>2. ASSUME NEW t \in Turn, NEW k \in Session, StartTurn(t, k)
      PROVE  ConnectionsReleased' /\ ActiveConnectionIsHeld'
  BY <1>2 DEF StartTurn, EnterTurn, CountTurn, End, StreamOver, GoTo, Deregistered,
       StartedMachine, Transition, Can, Allowed, States, TypeOK, connVars, counters,
       Endings, Errors, Outcomes, Links, Suspensions, States, ConnectionsReleased,
       ActiveConnectionIsHeld, HoldsConnection
<1>3. ASSUME NEW t \in Turn, NEW k \in Session, StartUnsentBargeIn(t, k)
      PROVE  ConnectionsReleased' /\ ActiveConnectionIsHeld'
  BY <1>3 DEF StartUnsentBargeIn, EnterTurn, CountTurn, End, StreamOver, GoTo,
       Deregistered, StartedMachine, BargeIn, CanBargeIn, Transition, Can, Allowed,
       States, MidSpeech, TypeOK, connVars, counters, Endings, Errors, Outcomes,
       Links, Suspensions, States, ConnectionsReleased, ActiveConnectionIsHeld,
       HoldsConnection
<1>4. ASSUME NEW t \in Turn, NEW k \in Session, StartBargeIn(t, k)
      PROVE  ConnectionsReleased' /\ ActiveConnectionIsHeld'
  BY <1>4 DEF StartBargeIn, CountTurn, GoTo, MidSpeech, CanSend, TypeOK, connVars,
       counters, Endings, Errors, Outcomes, Links, Suspensions, States,
       ConnectionsReleased, ActiveConnectionIsHeld, HoldsConnection
<1>5. ASSUME NEW t \in Turn, SendClear(t)
      PROVE  ConnectionsReleased' /\ ActiveConnectionIsHeld'
  BY <1>5 DEF SendClear, GoTo, TypeOK, connVars, counters, Endings, Errors,
       Outcomes, Links, Suspensions, States, ConnectionsReleased,
       ActiveConnectionIsHeld, HoldsConnection
<1>6. ASSUME NEW t \in Turn, ResumeBargeIn(t)
      PROVE  ConnectionsReleased' /\ ActiveConnectionIsHeld'
  BY <1>6 DEF ResumeBargeIn, EnterTurn, End, StreamOver, GoTo, Deregistered,
       StartedMachine, BargeIn, CanBargeIn, Transition, Can, Allowed, States,
       TypeOK, connVars, counters, Endings, Errors, Outcomes, Links, Suspensions,
       States, ConnectionsReleased, ActiveConnectionIsHeld, HoldsConnection
<1>7. ASSUME NEW t \in Turn, Connect(t)
      PROVE  ConnectionsReleased' /\ ActiveConnectionIsHeld'
  BY <1>7 DEF Connect, GoTo, TypeOK, connVars, counters, Endings, Errors, Outcomes,
       Links, Suspensions, States, ConnectionsReleased, ActiveConnectionIsHeld,
       HoldsConnection
<1>8. ASSUME NEW t \in Turn, ConnectFails(t)
      PROVE  ConnectionsReleased' /\ ActiveConnectionIsHeld'
  BY <1>8 DEF ConnectFails, Charge, End, StreamOver, GoTo, Deregister, Deregistered,
       TypeOK, connVars, counters, Endings, Errors, Outcomes, Links, Suspensions,
       States, ConnectionsReleased, ActiveConnectionIsHeld, HoldsConnection
<1>9. ASSUME NEW t \in Turn, NEW how \in {"closed", "dropped"}, PeerLeaves(t, how)
      PROVE  ConnectionsReleased' /\ ActiveConnectionIsHeld'
  BY <1>9 DEF PeerLeaves, TypeOK, connVars, counters, Endings, Errors, Outcomes,
       Links, Suspensions, States, ConnectionsReleased, ActiveConnectionIsHeld,
       HoldsConnection
<1>10. ASSUME NEW t \in Turn, Configured(t)
      PROVE  ConnectionsReleased' /\ ActiveConnectionIsHeld'
  BY <1>10 DEF Configured, GoTo, TypeOK, connVars, counters, Endings, Errors,
       Outcomes, Links, Suspensions, States, ConnectionsReleased,
       ActiveConnectionIsHeld, HoldsConnection
<1>11. ASSUME NEW t \in Turn, ReceiveAudio(t)
      PROVE  ConnectionsReleased' /\ ActiveConnectionIsHeld'
  BY <1>11 DEF ReceiveAudio, GoTo, StreamOver, Deregister, Deregistered, SpeaksNow,
       Can, Allowed, States, TypeOK, connVars, counters, Endings, Errors, Outcomes,
       Links, Suspensions, States, ConnectionsReleased, ActiveConnectionIsHeld,
       HoldsConnection
<1>12. ASSUME NEW t \in Turn, PullNext(t)
      PROVE  ConnectionsReleased' /\ ActiveConnectionIsHeld'
  BY <1>12 DEF PullNext, GoTo, TypeOK, connVars, counters, Endings, Errors,
       Outcomes, Links, Suspensions, States, ConnectionsReleased,
       ActiveConnectionIsHeld, HoldsConnection
<1>13. ASSUME NEW t \in Turn, SessionEnds(t)
      PROVE  ConnectionsReleased' /\ ActiveConnectionIsHeld'
  BY <1>13 DEF SessionEnds, GoTo, Teardown, TypeOK, connVars, counters, Endings,
       Errors, Outcomes, Links, Suspensions, States, ConnectionsReleased,
       ActiveConnectionIsHeld, HoldsConnection
<1>14. ASSUME NEW t \in Turn, SessionDrops(t)
      PROVE  ConnectionsReleased' /\ ActiveConnectionIsHeld'
  BY <1>14 DEF SessionDrops, GoTo, Teardown, Charge, TypeOK, connVars, counters,
       Endings, Errors, Outcomes, Links, Suspensions, States, ConnectionsReleased,
       ActiveConnectionIsHeld, HoldsConnection
<1>15. ASSUME NEW t \in Turn, BackoffEnds(t)
      PROVE  ConnectionsReleased' /\ ActiveConnectionIsHeld'
  BY <1>15 DEF BackoffEnds, GoTo, Teardown, TypeOK, connVars, counters, Endings,
       Errors, Outcomes, Links, Suspensions, States, ConnectionsReleased,
       ActiveConnectionIsHeld, HoldsConnection
<1>16. ASSUME NEW t \in Turn, Reconnect(t)
      PROVE  ConnectionsReleased' /\ ActiveConnectionIsHeld'
  BY <1>16 DEF Reconnect, GoTo, TypeOK, connVars, counters, Endings, Errors,
       Outcomes, Links, Suspensions, States, ConnectionsReleased,
       ActiveConnectionIsHeld, HoldsConnection
<1>17. ASSUME NEW t \in Turn, FinishTurn(t)
      PROVE  ConnectionsReleased' /\ ActiveConnectionIsHeld'
  BY <1>17 DEF FinishTurn, GoTo, End, StreamOver, Deregister, Deregistered,
       Transition, Can, Allowed, States, TypeOK, connVars, counters, Endings,
       Errors, Outcomes, Links, Suspensions, States, ConnectionsReleased,
       ActiveConnectionIsHeld, HoldsConnection
<1>18. ASSUME NEW t \in Turn, FailTurn(t)
      PROVE  ConnectionsReleased' /\ ActiveConnectionIsHeld'
  BY <1>18 DEF FailTurn, End, StreamOver, Deregister, Deregistered, TypeOK,
       connVars, counters, Endings, Errors, Outcomes, Links, Suspensions, States,
       ConnectionsReleased, ActiveConnectionIsHeld, HoldsConnection
<1>19. ASSUME NEW t \in Turn, CompleteTurn(t)
      PROVE  ConnectionsReleased' /\ ActiveConnectionIsHeld'
  BY <1>19 DEF CompleteTurn, End, StreamOver, Deregister, Deregistered, TypeOK,
       connVars, counters, Endings, Errors, Outcomes, Links, Suspensions, States,
       ConnectionsReleased, ActiveConnectionIsHeld, HoldsConnection
<1>20. ASSUME NEW t \in Turn, CancelIdle(t)
      PROVE  ConnectionsReleased' /\ ActiveConnectionIsHeld'
  BY <1>20 DEF CancelIdle, End, StreamOver, Deregister, Deregistered, TypeOK,
       connVars, counters, Endings, Errors, Outcomes, Links, Suspensions, States,
       ConnectionsReleased, ActiveConnectionIsHeld, HoldsConnection
<1>21. ASSUME NEW t \in Turn, CancelConnected(t)
      PROVE  ConnectionsReleased' /\ ActiveConnectionIsHeld'
  BY <1>21 DEF CancelConnected, GoTo, Teardown, TypeOK, connVars, counters, Endings,
       Errors, Outcomes, Links, Suspensions, States, ConnectionsReleased,
       ActiveConnectionIsHeld, HoldsConnection
<1>22. ASSUME NEW t \in Turn, CancelledClosed(t)
      PROVE  ConnectionsReleased' /\ ActiveConnectionIsHeld'
  BY <1>22 DEF CancelledClosed, End, StreamOver, Deregister, Deregistered, TypeOK,
       connVars, counters, Endings, Errors, Outcomes, Links, Suspensions, States,
       ConnectionsReleased, ActiveConnectionIsHeld, HoldsConnection
<1>23. ASSUME NEW t \in Turn, Abandon(t)
      PROVE  ConnectionsReleased' /\ ActiveConnectionIsHeld'
  BY <1>23 DEF Abandon, GoTo, TypeOK, connVars, counters, Endings, Errors, Outcomes,
       Links, Suspensions, States, ConnectionsReleased, ActiveConnectionIsHeld,
       HoldsConnection
<1>24. ASSUME NEW t \in Turn, FinalisePipeline(t)
      PROVE  ConnectionsReleased' /\ ActiveConnectionIsHeld'
  BY <1>24 DEF FinalisePipeline, StreamOver, Deregister, Deregistered, TypeOK,
       connVars, counters, Endings, Errors, Outcomes, Links, Suspensions, States,
       ConnectionsReleased, ActiveConnectionIsHeld, HoldsConnection
<1>25. ASSUME NEW t \in Turn, FinaliseProvider(t)
      PROVE  ConnectionsReleased' /\ ActiveConnectionIsHeld'
  BY <1>25 DEF FinaliseProvider, GoTo, Teardown, TypeOK, connVars, counters,
       Endings, Errors, Outcomes, Links, Suspensions, States, ConnectionsReleased,
       ActiveConnectionIsHeld, HoldsConnection
<1>26. ASSUME NEW t \in Turn, ProviderFinalised(t)
      PROVE  ConnectionsReleased' /\ ActiveConnectionIsHeld'
  BY <1>26 DEF ProviderFinalised, GoTo, TypeOK, connVars, counters, Endings, Errors,
       Outcomes, Links, Suspensions, States, ConnectionsReleased,
       ActiveConnectionIsHeld, HoldsConnection
<1>27. CASE UNCHANGED vars
  BY <1>27 DEF vars, connVars, TypeOK, Endings, Errors, Outcomes, Links,
       Suspensions, States, ConnectionsReleased, ActiveConnectionIsHeld,
       HoldsConnection
<1>28. QED
  BY <1>1, <1>2, <1>3, <1>4, <1>5, <1>6, <1>7, <1>8, <1>9, <1>10, <1>11, <1>12,
       <1>13, <1>14, <1>15, <1>16, <1>17, <1>18, <1>19, <1>20, <1>21, <1>22, <1>23,
       <1>24, <1>25, <1>26, <1>27 DEF Next, ServerStep, ClientStep, RemoteStep

\* Every step keeps machines in line with their turns.
LEMMA MachineStep ==
  ASSUME IInv, [Next]_vars
  PROVE  MachineFollowsTurn' /\ InterrupterHoldsPrevious' /\ OwnTransitionsLegal'
<1> USE ConstantsAssumption
<1>1. ASSUME NEW t \in Turn, RejectInput(t)
      PROVE  MachineFollowsTurn' /\ InterrupterHoldsPrevious' /\ OwnTransitionsLegal'
  BY <1>1 DEF RejectInput, End, StreamOver, CountTurn, TypeOK, connVars, counters,
       Endings, Errors, Outcomes, Links, Suspensions, States, IInv,
       MachineFollowsTurn, InterrupterHoldsPrevious, OwnTransitionsLegal,
       RegistryHoldsLiveTurns, OutcomeIsLast, Registrable, HoldsConnection,
       ConnectionsReleased
<1>2. ASSUME NEW t \in Turn, NEW k \in Session, StartTurn(t, k)
      PROVE  MachineFollowsTurn' /\ InterrupterHoldsPrevious' /\ OwnTransitionsLegal'
  BY <1>2 DEF StartTurn, EnterTurn, CountTurn, End, StreamOver, GoTo, Deregistered,
       StartedMachine, Transition, Can, Allowed, States, TypeOK, connVars, counters,
       Endings, Errors, Outcomes, Links, Suspensions, States, IInv,
       MachineFollowsTurn, InterrupterHoldsPrevious, OwnTransitionsLegal,
       RegistryHoldsLiveTurns, OutcomeIsLast, Registrable, HoldsConnection,
       ConnectionsReleased
<1>3. ASSUME NEW t \in Turn, NEW k \in Session, StartUnsentBargeIn(t, k)
      PROVE  MachineFollowsTurn' /\ InterrupterHoldsPrevious' /\ OwnTransitionsLegal'
  BY <1>3 DEF StartUnsentBargeIn, EnterTurn, CountTurn, End, StreamOver, GoTo,
       Deregistered, StartedMachine, BargeIn, CanBargeIn, Transition, Can, Allowed,
       States, MidSpeech, TypeOK, connVars, counters, Endings, Errors, Outcomes,
       Links, Suspensions, States, IInv, MachineFollowsTurn,
       InterrupterHoldsPrevious, OwnTransitionsLegal, RegistryHoldsLiveTurns,
       OutcomeIsLast, Registrable, HoldsConnection, ConnectionsReleased
<1>4. ASSUME NEW t \in Turn, NEW k \in Session, StartBargeIn(t, k)
      PROVE  MachineFollowsTurn' /\ InterrupterHoldsPrevious' /\ OwnTransitionsLegal'
  BY <1>4 DEF StartBargeIn, CountTurn, GoTo, MidSpeech, CanSend, TypeOK, connVars,
       counters, Endings, Errors, Outcomes, Links, Suspensions, States, IInv,
       MachineFollowsTurn, InterrupterHoldsPrevious, OwnTransitionsLegal,
       RegistryHoldsLiveTurns, OutcomeIsLast, Registrable, HoldsConnection,
       ConnectionsReleased
<1>5. ASSUME NEW t \in Turn, SendClear(t)
      PROVE  MachineFollowsTurn' /\ InterrupterHoldsPrevious' /\ OwnTransitionsLegal'
  BY <1>5 DEF SendClear, GoTo, TypeOK, connVars, counters, Endings, Errors,
       Outcomes, Links, Suspensions, States, IInv, MachineFollowsTurn,
       InterrupterHoldsPrevious, OwnTransitionsLegal, RegistryHoldsLiveTurns,
       OutcomeIsLast, Registrable, HoldsConnection, ConnectionsReleased
<1>6. ASSUME NEW t \in Turn, ResumeBargeIn(t)
      PROVE  MachineFollowsTurn' /\ InterrupterHoldsPrevious' /\ OwnTransitionsLegal'
  BY <1>6 DEF ResumeBargeIn, EnterTurn, End, StreamOver, GoTo, Deregistered,
       StartedMachine, BargeIn, CanBargeIn, Transition, Can, Allowed, States,
       TypeOK, connVars, counters, Endings, Errors, Outcomes, Links, Suspensions,
       States, IInv, MachineFollowsTurn, InterrupterHoldsPrevious,
       OwnTransitionsLegal, RegistryHoldsLiveTurns, OutcomeIsLast, Registrable,
       HoldsConnection, ConnectionsReleased
<1>7. ASSUME NEW t \in Turn, Connect(t)
      PROVE  MachineFollowsTurn' /\ InterrupterHoldsPrevious' /\ OwnTransitionsLegal'
  BY <1>7 DEF Connect, GoTo, TypeOK, connVars, counters, Endings, Errors, Outcomes,
       Links, Suspensions, States, IInv, MachineFollowsTurn,
       InterrupterHoldsPrevious, OwnTransitionsLegal, RegistryHoldsLiveTurns,
       OutcomeIsLast, Registrable, HoldsConnection, ConnectionsReleased
<1>8. ASSUME NEW t \in Turn, ConnectFails(t)
      PROVE  MachineFollowsTurn' /\ InterrupterHoldsPrevious' /\ OwnTransitionsLegal'
  BY <1>8 DEF ConnectFails, Charge, End, StreamOver, GoTo, Deregister, Deregistered,
       TypeOK, connVars, counters, Endings, Errors, Outcomes, Links, Suspensions,
       States, IInv, MachineFollowsTurn, InterrupterHoldsPrevious,
       OwnTransitionsLegal, RegistryHoldsLiveTurns, OutcomeIsLast, Registrable,
       HoldsConnection, ConnectionsReleased
<1>9. ASSUME NEW t \in Turn, NEW how \in {"closed", "dropped"}, PeerLeaves(t, how)
      PROVE  MachineFollowsTurn' /\ InterrupterHoldsPrevious' /\ OwnTransitionsLegal'
  BY <1>9 DEF PeerLeaves, TypeOK, connVars, counters, Endings, Errors, Outcomes,
       Links, Suspensions, States, IInv, MachineFollowsTurn,
       InterrupterHoldsPrevious, OwnTransitionsLegal, RegistryHoldsLiveTurns,
       OutcomeIsLast, Registrable, HoldsConnection, ConnectionsReleased
<1>10. ASSUME NEW t \in Turn, Configured(t)
      PROVE  MachineFollowsTurn' /\ InterrupterHoldsPrevious' /\ OwnTransitionsLegal'
  BY <1>10 DEF Configured, GoTo, TypeOK, connVars, counters, Endings, Errors,
       Outcomes, Links, Suspensions, States, IInv, MachineFollowsTurn,
       InterrupterHoldsPrevious, OwnTransitionsLegal, RegistryHoldsLiveTurns,
       OutcomeIsLast, Registrable, HoldsConnection, ConnectionsReleased
<1>11. ASSUME NEW t \in Turn, ReceiveAudio(t)
      PROVE  MachineFollowsTurn' /\ InterrupterHoldsPrevious' /\ OwnTransitionsLegal'
  BY <1>11 DEF ReceiveAudio, GoTo, StreamOver, Deregister, Deregistered, SpeaksNow,
       Can, Allowed, States, TypeOK, connVars, counters, Endings, Errors, Outcomes,
       Links, Suspensions, States, IInv, MachineFollowsTurn,
       InterrupterHoldsPrevious, OwnTransitionsLegal, RegistryHoldsLiveTurns,
       OutcomeIsLast, Registrable, HoldsConnection, ConnectionsReleased
<1>12. ASSUME NEW t \in Turn, PullNext(t)
      PROVE  MachineFollowsTurn' /\ InterrupterHoldsPrevious' /\ OwnTransitionsLegal'
  BY <1>12 DEF PullNext, GoTo, TypeOK, connVars, counters, Endings, Errors,
       Outcomes, Links, Suspensions, States, IInv, MachineFollowsTurn,
       InterrupterHoldsPrevious, OwnTransitionsLegal, RegistryHoldsLiveTurns,
       OutcomeIsLast, Registrable, HoldsConnection, ConnectionsReleased
<1>13. ASSUME NEW t \in Turn, SessionEnds(t)
      PROVE  MachineFollowsTurn' /\ InterrupterHoldsPrevious' /\ OwnTransitionsLegal'
  BY <1>13 DEF SessionEnds, GoTo, Teardown, TypeOK, connVars, counters, Endings,
       Errors, Outcomes, Links, Suspensions, States, IInv, MachineFollowsTurn,
       InterrupterHoldsPrevious, OwnTransitionsLegal, RegistryHoldsLiveTurns,
       OutcomeIsLast, Registrable, HoldsConnection, ConnectionsReleased
<1>14. ASSUME NEW t \in Turn, SessionDrops(t)
      PROVE  MachineFollowsTurn' /\ InterrupterHoldsPrevious' /\ OwnTransitionsLegal'
  BY <1>14 DEF SessionDrops, GoTo, Teardown, Charge, TypeOK, connVars, counters,
       Endings, Errors, Outcomes, Links, Suspensions, States, IInv,
       MachineFollowsTurn, InterrupterHoldsPrevious, OwnTransitionsLegal,
       RegistryHoldsLiveTurns, OutcomeIsLast, Registrable, HoldsConnection,
       ConnectionsReleased
<1>15. ASSUME NEW t \in Turn, BackoffEnds(t)
      PROVE  MachineFollowsTurn' /\ InterrupterHoldsPrevious' /\ OwnTransitionsLegal'
  BY <1>15 DEF BackoffEnds, GoTo, Teardown, TypeOK, connVars, counters, Endings,
       Errors, Outcomes, Links, Suspensions, States, IInv, MachineFollowsTurn,
       InterrupterHoldsPrevious, OwnTransitionsLegal, RegistryHoldsLiveTurns,
       OutcomeIsLast, Registrable, HoldsConnection, ConnectionsReleased
<1>16. ASSUME NEW t \in Turn, Reconnect(t)
      PROVE  MachineFollowsTurn' /\ InterrupterHoldsPrevious' /\ OwnTransitionsLegal'
  BY <1>16 DEF Reconnect, GoTo, TypeOK, connVars, counters, Endings, Errors,
       Outcomes, Links, Suspensions, States, IInv, MachineFollowsTurn,
       InterrupterHoldsPrevious, OwnTransitionsLegal, RegistryHoldsLiveTurns,
       OutcomeIsLast, Registrable, HoldsConnection, ConnectionsReleased
<1>17. ASSUME NEW t \in Turn, FinishTurn(t)
      PROVE  MachineFollowsTurn' /\ InterrupterHoldsPrevious' /\ OwnTransitionsLegal'
  BY <1>17 DEF FinishTurn, GoTo, End, StreamOver, Deregister, Deregistered,
       Transition, Can, Allowed, States, TypeOK, connVars, counters, Endings,
       Errors, Outcomes, Links, Suspensions, States, IInv, MachineFollowsTurn,
       InterrupterHoldsPrevious, OwnTransitionsLegal, RegistryHoldsLiveTurns,
       OutcomeIsLast, Registrable, HoldsConnection, ConnectionsReleased
<1>18. ASSUME NEW t \in Turn, FailTurn(t)
      PROVE  MachineFollowsTurn' /\ InterrupterHoldsPrevious' /\ OwnTransitionsLegal'
  BY <1>18 DEF FailTurn, End, StreamOver, Deregister, Deregistered, TypeOK,
       connVars, counters, Endings, Errors, Outcomes, Links, Suspensions, States,
       IInv, MachineFollowsTurn, InterrupterHoldsPrevious, OwnTransitionsLegal,
       RegistryHoldsLiveTurns, OutcomeIsLast, Registrable, HoldsConnection,
       ConnectionsReleased
<1>19. ASSUME NEW t \in Turn, CompleteTurn(t)
      PROVE  MachineFollowsTurn' /\ InterrupterHoldsPrevious' /\ OwnTransitionsLegal'
  BY <1>19 DEF CompleteTurn, End, StreamOver, Deregister, Deregistered, TypeOK,
       connVars, counters, Endings, Errors, Outcomes, Links, Suspensions, States,
       IInv, MachineFollowsTurn, InterrupterHoldsPrevious, OwnTransitionsLegal,
       RegistryHoldsLiveTurns, OutcomeIsLast, Registrable, HoldsConnection,
       ConnectionsReleased
<1>20. ASSUME NEW t \in Turn, CancelIdle(t)
      PROVE  MachineFollowsTurn' /\ InterrupterHoldsPrevious' /\ OwnTransitionsLegal'
  BY <1>20 DEF CancelIdle, End, StreamOver, Deregister, Deregistered, TypeOK,
       connVars, counters, Endings, Errors, Outcomes, Links, Suspensions, States,
       IInv, MachineFollowsTurn, InterrupterHoldsPrevious, OwnTransitionsLegal,
       RegistryHoldsLiveTurns, OutcomeIsLast, Registrable, HoldsConnection,
       ConnectionsReleased
<1>21. ASSUME NEW t \in Turn, CancelConnected(t)
      PROVE  MachineFollowsTurn' /\ InterrupterHoldsPrevious' /\ OwnTransitionsLegal'
  BY <1>21 DEF CancelConnected, GoTo, Teardown, TypeOK, connVars, counters, Endings,
       Errors, Outcomes, Links, Suspensions, States, IInv, MachineFollowsTurn,
       InterrupterHoldsPrevious, OwnTransitionsLegal, RegistryHoldsLiveTurns,
       OutcomeIsLast, Registrable, HoldsConnection, ConnectionsReleased
<1>22. ASSUME NEW t \in Turn, CancelledClosed(t)
      PROVE  MachineFollowsTurn' /\ InterrupterHoldsPrevious' /\ OwnTransitionsLegal'
  BY <1>22 DEF CancelledClosed, End, StreamOver, Deregister, Deregistered, TypeOK,
       connVars, counters, Endings, Errors, Outcomes, Links, Suspensions, States,
       IInv, MachineFollowsTurn, InterrupterHoldsPrevious, OwnTransitionsLegal,
       RegistryHoldsLiveTurns, OutcomeIsLast, Registrable, HoldsConnection,
       ConnectionsReleased
<1>23. ASSUME NEW t \in Turn, Abandon(t)
      PROVE  MachineFollowsTurn' /\ InterrupterHoldsPrevious' /\ OwnTransitionsLegal'
  BY <1>23 DEF Abandon, GoTo, TypeOK, connVars, counters, Endings, Errors, Outcomes,
       Links, Suspensions, States, IInv, MachineFollowsTurn,
       InterrupterHoldsPrevious, OwnTransitionsLegal, RegistryHoldsLiveTurns,
       OutcomeIsLast, Registrable, HoldsConnection, ConnectionsReleased
<1>24. ASSUME NEW t \in Turn, FinalisePipeline(t)
      PROVE  MachineFollowsTurn' /\ InterrupterHoldsPrevious' /\ OwnTransitionsLegal'
  BY <1>24 DEF FinalisePipeline, StreamOver, Deregister, Deregistered, TypeOK,
       connVars, counters, Endings, Errors, Outcomes, Links, Suspensions, States,
       IInv, MachineFollowsTurn, InterrupterHoldsPrevious, OwnTransitionsLegal,
       RegistryHoldsLiveTurns, OutcomeIsLast, Registrable, HoldsConnection,
       ConnectionsReleased
<1>25. ASSUME NEW t \in Turn, FinaliseProvider(t)
      PROVE  MachineFollowsTurn' /\ InterrupterHoldsPrevious' /\ OwnTransitionsLegal'
  BY <1>25 DEF FinaliseProvider, GoTo, Teardown, TypeOK, connVars, counters,
       Endings, Errors, Outcomes, Links, Suspensions, States, IInv,
       MachineFollowsTurn, InterrupterHoldsPrevious, OwnTransitionsLegal,
       RegistryHoldsLiveTurns, OutcomeIsLast, Registrable, HoldsConnection,
       ConnectionsReleased
<1>26. ASSUME NEW t \in Turn, ProviderFinalised(t)
      PROVE  MachineFollowsTurn' /\ InterrupterHoldsPrevious' /\ OwnTransitionsLegal'
  BY <1>26 DEF ProviderFinalised, GoTo, TypeOK, connVars, counters, Endings, Errors,
       Outcomes, Links, Suspensions, States, IInv, MachineFollowsTurn,
       InterrupterHoldsPrevious, OwnTransitionsLegal, RegistryHoldsLiveTurns,
       OutcomeIsLast, Registrable, HoldsConnection, ConnectionsReleased
<1>27. CASE UNCHANGED vars
  BY <1>27 DEF vars, connVars, TypeOK, Endings, Errors, Outcomes, Links,
       Suspensions, States, IInv, MachineFollowsTurn, InterrupterHoldsPrevious,
       OwnTransitionsLegal, RegistryHoldsLiveTurns, OutcomeIsLast, Registrable,
       HoldsConnection, ConnectionsReleased
<1>28. QED
  BY <1>1, <1>2, <1>3, <1>4, <1>5, <1>6, <1>7, <1>8, <1>9, <1>10, <1>11, <1>12,
       <1>13, <1>14, <1>15, <1>16, <1>17, <1>18, <1>19, <1>20, <1>21, <1>22, <1>23,
       <1>24, <1>25, <1>26, <1>27 DEF Next, ServerStep, ClientStep, RemoteStep

\* Taking over from a reply that is speaking: nobody had, and it falls silent.
LEMMA TakeoverPreserved ==
  ASSUME IInv, NEW t \in Turn, NEW p \in Turn,
         machine[p] = "speaking", machine[t] = None,
         previous' = [previous EXCEPT ![t] = p],
         machine' = [machine EXCEPT ![p] = "listening", ![t] = "thinking"],
         chunks' = chunks
  PROVE  TakenOverIsSilent' /\ OneTakeoverPerReply'
<1>1. /\ machine \in [Turn -> States \cup {None}] /\ None \notin States /\ None \notin Turn
      /\ previous \in [Turn -> Turn \cup {None}]
  BY ConstantsAssumption DEF IInv, TypeOK
<1>2. p # t
  BY <1>1 DEF States
<1>3. \A u \in Turn : previous[u] = p => machine[u] = None
  BY <1>1 DEF IInv, TakenOverIsSilent, States
<1>4. TakenOverIsSilent'
  <2>1. SUFFICES ASSUME NEW u \in Turn, previous'[u] # None, machine'[u] # None
                 PROVE  /\ machine'[previous'[u]] \in {"listening", "idle"}
                        /\ chunks'[previous'[u]] > 0
    BY DEF TakenOverIsSilent
  <2>2. CASE u = t
    BY <2>2, <1>1, <1>2 DEF IInv, MachineFollowsTurn
  <2>3. CASE u # t
    <3>1. previous[u] # None /\ previous'[u] = previous[u] /\ machine[u] # None
      BY <2>1, <2>3, <1>1 DEF States
    <3>2. /\ machine[previous[u]] \in {"listening", "idle"} /\ chunks[previous[u]] > 0
          /\ previous[u] \in Turn
      BY <3>1, <1>1 DEF IInv, TakenOverIsSilent
    <3>3. previous[u] # t /\ previous[u] # p
      BY <3>2, <1>1 DEF States
    <3>4. QED
      BY <3>1, <3>2, <3>3, <1>1
  <2>4. QED
    BY <2>2, <2>3
<1>5. OneTakeoverPerReply'
  <2>1. \A u \in Turn \ {t} : previous'[u] = p => machine'[u] = None
    BY <1>1, <1>2, <1>3 DEF States
  <2>2. \A u \in Turn \ {t} : machine'[u] # None <=> machine[u] # None
    BY <1>1 DEF States
  <2>3. QED
    BY <2>1, <2>2, <1>1 DEF IInv, OneTakeoverPerReply
<1>6. QED
  BY <1>4, <1>5

\* Every step leaves a taken-over reply silent, and taken over once.
LEMMA TakeoverStep ==
  ASSUME IInv, [Next]_vars
  PROVE  TakenOverIsSilent' /\ OneTakeoverPerReply'
<1> USE ConstantsAssumption
<1>1. ASSUME NEW t \in Turn, RejectInput(t)
      PROVE  TakenOverIsSilent' /\ OneTakeoverPerReply'
  BY <1>1 DEF RejectInput, End, StreamOver, CountTurn, TypeOK, connVars, counters,
       Endings, Errors, Outcomes, Links, Suspensions, States, IInv,
       MachineFollowsTurn, InterrupterHoldsPrevious, TakenOverIsSilent,
       OneTakeoverPerReply, RegistryHoldsLiveTurns, Registrable
<1>2. ASSUME NEW t \in Turn, NEW k \in Session, StartTurn(t, k)
      PROVE  TakenOverIsSilent' /\ OneTakeoverPerReply'
  BY <1>2 DEF StartTurn, EnterTurn, CountTurn, End, StreamOver, GoTo, Deregistered,
       StartedMachine, Transition, Can, Allowed, States, TypeOK, connVars, counters,
       Endings, Errors, Outcomes, Links, Suspensions, States, IInv,
       MachineFollowsTurn, InterrupterHoldsPrevious, TakenOverIsSilent,
       OneTakeoverPerReply, RegistryHoldsLiveTurns, Registrable
<1>3. ASSUME NEW t \in Turn, NEW k \in Session, StartUnsentBargeIn(t, k)
      PROVE  TakenOverIsSilent' /\ OneTakeoverPerReply'
  <2> DEFINE p == activeTurns[k]
  <2>1. p \in Turn /\ machine[p] = "speaking" /\ machine[t] = None
    BY <1>3 DEF StartUnsentBargeIn, MidSpeech, IInv, TypeOK, MachineFollowsTurn
  <2>2. /\ previous' = [previous EXCEPT ![t] = p]
        /\ machine' = [machine EXCEPT ![p] = "listening", ![t] = "thinking"]
        /\ chunks' = chunks
    BY <1>3, <2>1 DEF StartUnsentBargeIn, EnterTurn, BargeIn, CanBargeIn,
         StartedMachine, Transition, Can, Allowed, States, connVars, IInv, TypeOK
  <2>3. QED
    BY <2>1, <2>2, TakeoverPreserved
<1>4. ASSUME NEW t \in Turn, NEW k \in Session, StartBargeIn(t, k)
      PROVE  TakenOverIsSilent' /\ OneTakeoverPerReply'
  BY <1>4 DEF StartBargeIn, CountTurn, GoTo, MidSpeech, CanSend, TypeOK, connVars,
       counters, Endings, Errors, Outcomes, Links, Suspensions, States, IInv,
       MachineFollowsTurn, InterrupterHoldsPrevious, TakenOverIsSilent,
       OneTakeoverPerReply, RegistryHoldsLiveTurns, Registrable
<1>5. ASSUME NEW t \in Turn, SendClear(t)
      PROVE  TakenOverIsSilent' /\ OneTakeoverPerReply'
  BY <1>5 DEF SendClear, GoTo, TypeOK, connVars, counters, Endings, Errors,
       Outcomes, Links, Suspensions, States, IInv, MachineFollowsTurn,
       InterrupterHoldsPrevious, TakenOverIsSilent, OneTakeoverPerReply,
       RegistryHoldsLiveTurns, Registrable
<1>6. ASSUME NEW t \in Turn, ResumeBargeIn(t)
      PROVE  TakenOverIsSilent' /\ OneTakeoverPerReply'
  <2> DEFINE p == previous[t]
  <2>1. p \in Turn /\ machine[t] = None /\ previous' = previous /\ chunks' = chunks
    BY <1>6 DEF ResumeBargeIn, connVars, IInv, TypeOK, MachineFollowsTurn,
         InterrupterHoldsPrevious
  <2>2. CASE CanBargeIn(machine[p])
    <3>1. /\ machine[p] = "speaking"
          /\ previous' = [previous EXCEPT ![t] = p]
          /\ machine' = [machine EXCEPT ![p] = "listening", ![t] = "thinking"]
      BY <1>6, <2>1, <2>2 DEF ResumeBargeIn, EnterTurn, BargeIn, CanBargeIn,
           StartedMachine, Transition, Can, Allowed, States, IInv, TypeOK
    <3>2. QED
      BY <3>1, <2>1, TakeoverPreserved
  <2>3. CASE ~CanBargeIn(machine[p])
    BY <1>6, <2>1, <2>3 DEF ResumeBargeIn, IInv, TakenOverIsSilent, OneTakeoverPerReply
  <2>4. QED
    BY <2>2, <2>3
<1>7. ASSUME NEW t \in Turn, Connect(t)
      PROVE  TakenOverIsSilent' /\ OneTakeoverPerReply'
  BY <1>7 DEF Connect, GoTo, TypeOK, connVars, counters, Endings, Errors, Outcomes,
       Links, Suspensions, States, IInv, MachineFollowsTurn,
       InterrupterHoldsPrevious, TakenOverIsSilent, OneTakeoverPerReply,
       RegistryHoldsLiveTurns, Registrable
<1>8. ASSUME NEW t \in Turn, ConnectFails(t)
      PROVE  TakenOverIsSilent' /\ OneTakeoverPerReply'
  BY <1>8 DEF ConnectFails, Charge, End, StreamOver, GoTo, Deregister, Deregistered,
       TypeOK, connVars, counters, Endings, Errors, Outcomes, Links, Suspensions,
       States, IInv, MachineFollowsTurn, InterrupterHoldsPrevious,
       TakenOverIsSilent, OneTakeoverPerReply, RegistryHoldsLiveTurns, Registrable
<1>9. ASSUME NEW t \in Turn, NEW how \in {"closed", "dropped"}, PeerLeaves(t, how)
      PROVE  TakenOverIsSilent' /\ OneTakeoverPerReply'
  BY <1>9 DEF PeerLeaves, TypeOK, connVars, counters, Endings, Errors, Outcomes,
       Links, Suspensions, States, IInv, MachineFollowsTurn,
       InterrupterHoldsPrevious, TakenOverIsSilent, OneTakeoverPerReply,
       RegistryHoldsLiveTurns, Registrable
<1>10. ASSUME NEW t \in Turn, Configured(t)
      PROVE  TakenOverIsSilent' /\ OneTakeoverPerReply'
  BY <1>10 DEF Configured, GoTo, TypeOK, connVars, counters, Endings, Errors,
       Outcomes, Links, Suspensions, States, IInv, MachineFollowsTurn,
       InterrupterHoldsPrevious, TakenOverIsSilent, OneTakeoverPerReply,
       RegistryHoldsLiveTurns, Registrable
<1>11. ASSUME NEW t \in Turn, ReceiveAudio(t)
      PROVE  TakenOverIsSilent' /\ OneTakeoverPerReply'
  BY <1>11 DEF ReceiveAudio, GoTo, StreamOver, Deregister, Deregistered, SpeaksNow,
       Can, Allowed, States, TypeOK, connVars, counters, Endings, Errors, Outcomes,
       Links, Suspensions, States, IInv, MachineFollowsTurn,
       InterrupterHoldsPrevious, TakenOverIsSilent, OneTakeoverPerReply,
       RegistryHoldsLiveTurns, Registrable
<1>12. ASSUME NEW t \in Turn, PullNext(t)
      PROVE  TakenOverIsSilent' /\ OneTakeoverPerReply'
  BY <1>12 DEF PullNext, GoTo, TypeOK, connVars, counters, Endings, Errors,
       Outcomes, Links, Suspensions, States, IInv, MachineFollowsTurn,
       InterrupterHoldsPrevious, TakenOverIsSilent, OneTakeoverPerReply,
       RegistryHoldsLiveTurns, Registrable
<1>13. ASSUME NEW t \in Turn, SessionEnds(t)
      PROVE  TakenOverIsSilent' /\ OneTakeoverPerReply'
  BY <1>13 DEF SessionEnds, GoTo, Teardown, TypeOK, connVars, counters, Endings,
       Errors, Outcomes, Links, Suspensions, States, IInv, MachineFollowsTurn,
       InterrupterHoldsPrevious, TakenOverIsSilent, OneTakeoverPerReply,
       RegistryHoldsLiveTurns, Registrable
<1>14. ASSUME NEW t \in Turn, SessionDrops(t)
      PROVE  TakenOverIsSilent' /\ OneTakeoverPerReply'
  BY <1>14 DEF SessionDrops, GoTo, Teardown, Charge, TypeOK, connVars, counters,
       Endings, Errors, Outcomes, Links, Suspensions, States, IInv,
       MachineFollowsTurn, InterrupterHoldsPrevious, TakenOverIsSilent,
       OneTakeoverPerReply, RegistryHoldsLiveTurns, Registrable
<1>15. ASSUME NEW t \in Turn, BackoffEnds(t)
      PROVE  TakenOverIsSilent' /\ OneTakeoverPerReply'
  BY <1>15 DEF BackoffEnds, GoTo, Teardown, TypeOK, connVars, counters, Endings,
       Errors, Outcomes, Links, Suspensions, States, IInv, MachineFollowsTurn,
       InterrupterHoldsPrevious, TakenOverIsSilent, OneTakeoverPerReply,
       RegistryHoldsLiveTurns, Registrable
<1>16. ASSUME NEW t \in Turn, Reconnect(t)
      PROVE  TakenOverIsSilent' /\ OneTakeoverPerReply'
  BY <1>16 DEF Reconnect, GoTo, TypeOK, connVars, counters, Endings, Errors,
       Outcomes, Links, Suspensions, States, IInv, MachineFollowsTurn,
       InterrupterHoldsPrevious, TakenOverIsSilent, OneTakeoverPerReply,
       RegistryHoldsLiveTurns, Registrable
<1>17. ASSUME NEW t \in Turn, FinishTurn(t)
      PROVE  TakenOverIsSilent' /\ OneTakeoverPerReply'
  BY <1>17 DEF FinishTurn, GoTo, End, StreamOver, Deregister, Deregistered,
       Transition, Can, Allowed, States, TypeOK, connVars, counters, Endings,
       Errors, Outcomes, Links, Suspensions, States, IInv, MachineFollowsTurn,
       InterrupterHoldsPrevious, TakenOverIsSilent, OneTakeoverPerReply,
       RegistryHoldsLiveTurns, Registrable
<1>18. ASSUME NEW t \in Turn, FailTurn(t)
      PROVE  TakenOverIsSilent' /\ OneTakeoverPerReply'
  BY <1>18 DEF FailTurn, End, StreamOver, Deregister, Deregistered, TypeOK,
       connVars, counters, Endings, Errors, Outcomes, Links, Suspensions, States,
       IInv, MachineFollowsTurn, InterrupterHoldsPrevious, TakenOverIsSilent,
       OneTakeoverPerReply, RegistryHoldsLiveTurns, Registrable
<1>19. ASSUME NEW t \in Turn, CompleteTurn(t)
      PROVE  TakenOverIsSilent' /\ OneTakeoverPerReply'
  BY <1>19 DEF CompleteTurn, End, StreamOver, Deregister, Deregistered, TypeOK,
       connVars, counters, Endings, Errors, Outcomes, Links, Suspensions, States,
       IInv, MachineFollowsTurn, InterrupterHoldsPrevious, TakenOverIsSilent,
       OneTakeoverPerReply, RegistryHoldsLiveTurns, Registrable
<1>20. ASSUME NEW t \in Turn, CancelIdle(t)
      PROVE  TakenOverIsSilent' /\ OneTakeoverPerReply'
  BY <1>20 DEF CancelIdle, End, StreamOver, Deregister, Deregistered, TypeOK,
       connVars, counters, Endings, Errors, Outcomes, Links, Suspensions, States,
       IInv, MachineFollowsTurn, InterrupterHoldsPrevious, TakenOverIsSilent,
       OneTakeoverPerReply, RegistryHoldsLiveTurns, Registrable
<1>21. ASSUME NEW t \in Turn, CancelConnected(t)
      PROVE  TakenOverIsSilent' /\ OneTakeoverPerReply'
  BY <1>21 DEF CancelConnected, GoTo, Teardown, TypeOK, connVars, counters, Endings,
       Errors, Outcomes, Links, Suspensions, States, IInv, MachineFollowsTurn,
       InterrupterHoldsPrevious, TakenOverIsSilent, OneTakeoverPerReply,
       RegistryHoldsLiveTurns, Registrable
<1>22. ASSUME NEW t \in Turn, CancelledClosed(t)
      PROVE  TakenOverIsSilent' /\ OneTakeoverPerReply'
  BY <1>22 DEF CancelledClosed, End, StreamOver, Deregister, Deregistered, TypeOK,
       connVars, counters, Endings, Errors, Outcomes, Links, Suspensions, States,
       IInv, MachineFollowsTurn, InterrupterHoldsPrevious, TakenOverIsSilent,
       OneTakeoverPerReply, RegistryHoldsLiveTurns, Registrable
<1>23. ASSUME NEW t \in Turn, Abandon(t)
      PROVE  TakenOverIsSilent' /\ OneTakeoverPerReply'
  BY <1>23 DEF Abandon, GoTo, TypeOK, connVars, counters, Endings, Errors, Outcomes,
       Links, Suspensions, States, IInv, MachineFollowsTurn,
       InterrupterHoldsPrevious, TakenOverIsSilent, OneTakeoverPerReply,
       RegistryHoldsLiveTurns, Registrable
<1>24. ASSUME NEW t \in Turn, FinalisePipeline(t)
      PROVE  TakenOverIsSilent' /\ OneTakeoverPerReply'
  BY <1>24 DEF FinalisePipeline, StreamOver, Deregister, Deregistered, TypeOK,
       connVars, counters, Endings, Errors, Outcomes, Links, Suspensions, States,
       IInv, MachineFollowsTurn, InterrupterHoldsPrevious, TakenOverIsSilent,
       OneTakeoverPerReply, RegistryHoldsLiveTurns, Registrable
<1>25. ASSUME NEW t \in Turn, FinaliseProvider(t)
      PROVE  TakenOverIsSilent' /\ OneTakeoverPerReply'
  BY <1>25 DEF FinaliseProvider, GoTo, Teardown, TypeOK, connVars, counters,
       Endings, Errors, Outcomes, Links, Suspensions, States, IInv,
       MachineFollowsTurn, InterrupterHoldsPrevious, TakenOverIsSilent,
       OneTakeoverPerReply, RegistryHoldsLiveTurns, Registrable
<1>26. ASSUME NEW t \in Turn, ProviderFinalised(t)
      PROVE  TakenOverIsSilent' /\ OneTakeoverPerReply'
  BY <1>26 DEF ProviderFinalised, GoTo, TypeOK, connVars, counters, Endings, Errors,
       Outcomes, Links, Suspensions, States, IInv, MachineFollowsTurn,
       InterrupterHoldsPrevious, TakenOverIsSilent, OneTakeoverPerReply,
       RegistryHoldsLiveTurns, Registrable
<1>27. CASE UNCHANGED vars
  BY <1>27 DEF vars, connVars, TypeOK, Endings, Errors, Outcomes, Links,
       Suspensions, States, IInv, MachineFollowsTurn, InterrupterHoldsPrevious,
       TakenOverIsSilent, OneTakeoverPerReply, RegistryHoldsLiveTurns, Registrable
<1>28. QED
  BY <1>1, <1>2, <1>3, <1>4, <1>5, <1>6, <1>7, <1>8, <1>9, <1>10, <1>11, <1>12,
       <1>13, <1>14, <1>15, <1>16, <1>17, <1>18, <1>19, <1>20, <1>21, <1>22, <1>23,
       <1>24, <1>25, <1>26, <1>27 DEF Next, ServerStep, ClientStep, RemoteStep


-----------------------------------------------------------------------------
\* Before the first turn nothing is registered, held or under way.
LEMMA InitIInv == Init => IInv
  BY ConstantsAssumption DEF Init, IInv, TypeOK, WithinBudget, BudgetLeft,
     RegistryHoldsLiveTurns, OutcomeIsLast, ConnectionsReleased, HoldsConnection,
     ActiveConnectionIsHeld, MachineFollowsTurn, TakenOverIsSilent, Registrable,
     InterrupterHoldsPrevious, OwnTransitionsLegal, OneTakeoverPerReply,
     Suspensions, States, Links, Endings, Outcomes, Errors

\* Every step keeps the invariant, part by part.
LEMMA NextIInv == IInv /\ [Next]_vars => IInv'
  BY TypeStep, RegistryStep, ConnectionStep, MachineStep, TakeoverStep DEF IInv

\* The inductive invariant holds in every state.
THEOREM Invariance == Spec => []IInv
  BY InitIInv, NextIInv, PTL DEF Spec

\* Every variable keeps its type, whatever the turns, sessions and bounds are.
THEOREM TypeCorrect == Spec => []TypeOK
<1>1. IInv => TypeOK
  BY DEF IInv
<1>2. QED
  BY <1>1, Invariance, PTL

\* _active_turns never holds a turn that is over, or a turn of another session.
THEOREM RegistryCorrect == Spec => []RegistryHoldsLiveTurns
<1>1. IInv => RegistryHoldsLiveTurns
  BY DEF IInv
<1>2. QED
  BY <1>1, Invariance, PTL

\* _active is a connection some converse() still holds.
THEOREM ActiveConnectionCorrect == Spec => []ActiveConnectionIsHeld
<1>1. IInv => ActiveConnectionIsHeld
  BY DEF IInv
<1>2. QED
  BY <1>1, Invariance, PTL

\* No socket outlives its turn.
THEOREM NoConnectionLeak == Spec => []ConnectionsReleased
<1>1. IInv => ConnectionsReleased
  BY DEF IInv
<1>2. QED
  BY <1>1, Invariance, PTL

\* A turn's own transitions never raise InvalidTransition.
THEOREM OwnTransitionsCorrect == Spec => []OwnTransitionsLegal
<1>1. IInv => OwnTransitionsLegal
  BY DEF IInv
<1>2. QED
  BY <1>1, Invariance, PTL

\* Of the turns that race to interrupt one reply, at most one takes over.
THEOREM TakeoverUnique == Spec => []OneTakeoverPerReply
<1>1. IInv => OneTakeoverPerReply
  BY DEF IInv
<1>2. QED
  BY <1>1, Invariance, PTL

-----------------------------------------------------------------------------
\* No step removes a registration but its owner's end, or its replacement's.
LEMMA DeregistrationStep ==
  ASSUME IInv, Next
  PROVE  OwnerDeregisters
<1> USE ConstantsAssumption
<1>1. ASSUME NEW t \in Turn, RejectInput(t)
      PROVE  OwnerDeregisters
  BY <1>1 DEF RejectInput, End, StreamOver, CountTurn, IInv, TypeOK, connVars,
       counters, RegistryHoldsLiveTurns, OutcomeIsLast, Registrable,
       OwnerDeregisters, ReplacedThenRemoved, Errors, States
<1>2. ASSUME NEW t \in Turn, NEW k \in Session, StartTurn(t, k)
      PROVE  OwnerDeregisters
  BY <1>2 DEF StartTurn, EnterTurn, CountTurn, End, StreamOver, GoTo, Deregistered,
       StartedMachine, Transition, Can, Allowed, States, IInv, TypeOK, connVars,
       counters, RegistryHoldsLiveTurns, OutcomeIsLast, Registrable,
       OwnerDeregisters, ReplacedThenRemoved, Errors, States
<1>3. ASSUME NEW t \in Turn, NEW k \in Session, StartUnsentBargeIn(t, k)
      PROVE  OwnerDeregisters
  BY <1>3 DEF StartUnsentBargeIn, EnterTurn, CountTurn, End, StreamOver, GoTo,
       Deregistered, StartedMachine, BargeIn, CanBargeIn, Transition, Can, Allowed,
       States, MidSpeech, IInv, TypeOK, connVars, counters, RegistryHoldsLiveTurns,
       OutcomeIsLast, Registrable, OwnerDeregisters, ReplacedThenRemoved, Errors,
       States
<1>4. ASSUME NEW t \in Turn, NEW k \in Session, StartBargeIn(t, k)
      PROVE  OwnerDeregisters
  BY <1>4 DEF StartBargeIn, CountTurn, GoTo, MidSpeech, CanSend, IInv, TypeOK,
       connVars, counters, RegistryHoldsLiveTurns, OutcomeIsLast, Registrable,
       OwnerDeregisters, ReplacedThenRemoved, Errors, States
<1>5. ASSUME NEW t \in Turn, SendClear(t)
      PROVE  OwnerDeregisters
  BY <1>5 DEF SendClear, GoTo, IInv, TypeOK, connVars, counters,
       RegistryHoldsLiveTurns, OutcomeIsLast, Registrable, OwnerDeregisters,
       ReplacedThenRemoved, Errors, States
<1>6. ASSUME NEW t \in Turn, ResumeBargeIn(t)
      PROVE  OwnerDeregisters
  BY <1>6 DEF ResumeBargeIn, EnterTurn, End, StreamOver, GoTo, Deregistered,
       StartedMachine, BargeIn, CanBargeIn, Transition, Can, Allowed, States, IInv,
       TypeOK, connVars, counters, RegistryHoldsLiveTurns, OutcomeIsLast,
       Registrable, OwnerDeregisters, ReplacedThenRemoved, Errors, States
<1>7. ASSUME NEW t \in Turn, Connect(t)
      PROVE  OwnerDeregisters
  BY <1>7 DEF Connect, GoTo, IInv, TypeOK, connVars, counters,
       RegistryHoldsLiveTurns, OutcomeIsLast, Registrable, OwnerDeregisters,
       ReplacedThenRemoved, Errors, States
<1>8. ASSUME NEW t \in Turn, ConnectFails(t)
      PROVE  OwnerDeregisters
  BY <1>8 DEF ConnectFails, Charge, End, StreamOver, GoTo, Deregister, Deregistered,
       IInv, TypeOK, connVars, counters, RegistryHoldsLiveTurns, OutcomeIsLast,
       Registrable, OwnerDeregisters, ReplacedThenRemoved, Errors, States
<1>9. ASSUME NEW t \in Turn, NEW how \in {"closed", "dropped"}, PeerLeaves(t, how)
      PROVE  OwnerDeregisters
  BY <1>9 DEF PeerLeaves, IInv, TypeOK, connVars, counters, RegistryHoldsLiveTurns,
       OutcomeIsLast, Registrable, OwnerDeregisters, ReplacedThenRemoved, Errors,
       States
<1>10. ASSUME NEW t \in Turn, Configured(t)
      PROVE  OwnerDeregisters
  BY <1>10 DEF Configured, GoTo, IInv, TypeOK, connVars, counters,
       RegistryHoldsLiveTurns, OutcomeIsLast, Registrable, OwnerDeregisters,
       ReplacedThenRemoved, Errors, States
<1>11. ASSUME NEW t \in Turn, ReceiveAudio(t)
      PROVE  OwnerDeregisters
  BY <1>11 DEF ReceiveAudio, GoTo, StreamOver, Deregister, Deregistered, SpeaksNow,
       Can, Allowed, States, IInv, TypeOK, connVars, counters,
       RegistryHoldsLiveTurns, OutcomeIsLast, Registrable, OwnerDeregisters,
       ReplacedThenRemoved, Errors, States
<1>12. ASSUME NEW t \in Turn, PullNext(t)
      PROVE  OwnerDeregisters
  BY <1>12 DEF PullNext, GoTo, IInv, TypeOK, connVars, counters,
       RegistryHoldsLiveTurns, OutcomeIsLast, Registrable, OwnerDeregisters,
       ReplacedThenRemoved, Errors, States
<1>13. ASSUME NEW t \in Turn, SessionEnds(t)
      PROVE  OwnerDeregisters
  BY <1>13 DEF SessionEnds, GoTo, Teardown, IInv, TypeOK, connVars, counters,
       RegistryHoldsLiveTurns, OutcomeIsLast, Registrable, OwnerDeregisters,
       ReplacedThenRemoved, Errors, States
<1>14. ASSUME NEW t \in Turn, SessionDrops(t)
      PROVE  OwnerDeregisters
  BY <1>14 DEF SessionDrops, GoTo, Teardown, Charge, IInv, TypeOK, connVars,
       counters, RegistryHoldsLiveTurns, OutcomeIsLast, Registrable,
       OwnerDeregisters, ReplacedThenRemoved, Errors, States
<1>15. ASSUME NEW t \in Turn, BackoffEnds(t)
      PROVE  OwnerDeregisters
  BY <1>15 DEF BackoffEnds, GoTo, Teardown, IInv, TypeOK, connVars, counters,
       RegistryHoldsLiveTurns, OutcomeIsLast, Registrable, OwnerDeregisters,
       ReplacedThenRemoved, Errors, States
<1>16. ASSUME NEW t \in Turn, Reconnect(t)
      PROVE  OwnerDeregisters
  BY <1>16 DEF Reconnect, GoTo, IInv, TypeOK, connVars, counters,
       RegistryHoldsLiveTurns, OutcomeIsLast, Registrable, OwnerDeregisters,
       ReplacedThenRemoved, Errors, States
<1>17. ASSUME NEW t \in Turn, FinishTurn(t)
      PROVE  OwnerDeregisters
  BY <1>17 DEF FinishTurn, GoTo, End, StreamOver, Deregister, Deregistered,
       Transition, Can, Allowed, States, IInv, TypeOK, connVars, counters,
       RegistryHoldsLiveTurns, OutcomeIsLast, Registrable, OwnerDeregisters,
       ReplacedThenRemoved, Errors, States
<1>18. ASSUME NEW t \in Turn, FailTurn(t)
      PROVE  OwnerDeregisters
  BY <1>18 DEF FailTurn, End, StreamOver, Deregister, Deregistered, IInv, TypeOK,
       connVars, counters, RegistryHoldsLiveTurns, OutcomeIsLast, Registrable,
       OwnerDeregisters, ReplacedThenRemoved, Errors, States
<1>19. ASSUME NEW t \in Turn, CompleteTurn(t)
      PROVE  OwnerDeregisters
  BY <1>19 DEF CompleteTurn, End, StreamOver, Deregister, Deregistered, IInv,
       TypeOK, connVars, counters, RegistryHoldsLiveTurns, OutcomeIsLast,
       Registrable, OwnerDeregisters, ReplacedThenRemoved, Errors, States
<1>20. ASSUME NEW t \in Turn, CancelIdle(t)
      PROVE  OwnerDeregisters
  BY <1>20 DEF CancelIdle, End, StreamOver, Deregister, Deregistered, IInv, TypeOK,
       connVars, counters, RegistryHoldsLiveTurns, OutcomeIsLast, Registrable,
       OwnerDeregisters, ReplacedThenRemoved, Errors, States
<1>21. ASSUME NEW t \in Turn, CancelConnected(t)
      PROVE  OwnerDeregisters
  BY <1>21 DEF CancelConnected, GoTo, Teardown, IInv, TypeOK, connVars, counters,
       RegistryHoldsLiveTurns, OutcomeIsLast, Registrable, OwnerDeregisters,
       ReplacedThenRemoved, Errors, States
<1>22. ASSUME NEW t \in Turn, CancelledClosed(t)
      PROVE  OwnerDeregisters
  BY <1>22 DEF CancelledClosed, End, StreamOver, Deregister, Deregistered, IInv,
       TypeOK, connVars, counters, RegistryHoldsLiveTurns, OutcomeIsLast,
       Registrable, OwnerDeregisters, ReplacedThenRemoved, Errors, States
<1>23. ASSUME NEW t \in Turn, Abandon(t)
      PROVE  OwnerDeregisters
  BY <1>23 DEF Abandon, GoTo, IInv, TypeOK, connVars, counters,
       RegistryHoldsLiveTurns, OutcomeIsLast, Registrable, OwnerDeregisters,
       ReplacedThenRemoved, Errors, States
<1>24. ASSUME NEW t \in Turn, FinalisePipeline(t)
      PROVE  OwnerDeregisters
  BY <1>24 DEF FinalisePipeline, StreamOver, Deregister, Deregistered, IInv, TypeOK,
       connVars, counters, RegistryHoldsLiveTurns, OutcomeIsLast, Registrable,
       OwnerDeregisters, ReplacedThenRemoved, Errors, States
<1>25. ASSUME NEW t \in Turn, FinaliseProvider(t)
      PROVE  OwnerDeregisters
  BY <1>25 DEF FinaliseProvider, GoTo, Teardown, IInv, TypeOK, connVars, counters,
       RegistryHoldsLiveTurns, OutcomeIsLast, Registrable, OwnerDeregisters,
       ReplacedThenRemoved, Errors, States
<1>26. ASSUME NEW t \in Turn, ProviderFinalised(t)
      PROVE  OwnerDeregisters
  BY <1>26 DEF ProviderFinalised, GoTo, IInv, TypeOK, connVars, counters,
       RegistryHoldsLiveTurns, OutcomeIsLast, Registrable, OwnerDeregisters,
       ReplacedThenRemoved, Errors, States
<1>27. QED
  BY <1>1, <1>2, <1>3, <1>4, <1>5, <1>6, <1>7, <1>8, <1>9, <1>10, <1>11, <1>12,
       <1>13, <1>14, <1>15, <1>16, <1>17, <1>18, <1>19, <1>20, <1>21, <1>22, <1>23,
       <1>24, <1>25, <1>26 DEF Next, ServerStep, ClientStep, RemoteStep

\* No step moves the machine of another turn but a barge-in that takes over.
LEMMA BargeInStep ==
  ASSUME IInv, Next
  PROVE  MovedByBargeIn
<1> USE ConstantsAssumption
<1>1. ASSUME NEW t \in Turn, RejectInput(t)
      PROVE  MovedByBargeIn
  BY <1>1 DEF RejectInput, End, StreamOver, CountTurn, IInv, TypeOK, connVars,
       counters, MovedByBargeIn, MachineFollowsTurn, InterrupterHoldsPrevious,
       RegistryHoldsLiveTurns, States
<1>2. ASSUME NEW t \in Turn, NEW k \in Session, StartTurn(t, k)
      PROVE  MovedByBargeIn
  BY <1>2 DEF StartTurn, EnterTurn, CountTurn, End, StreamOver, GoTo, Deregistered,
       StartedMachine, Transition, Can, Allowed, States, IInv, TypeOK, connVars,
       counters, MovedByBargeIn, MachineFollowsTurn, InterrupterHoldsPrevious,
       RegistryHoldsLiveTurns, States
<1>3. ASSUME NEW t \in Turn, NEW k \in Session, StartUnsentBargeIn(t, k)
      PROVE  MovedByBargeIn
  BY <1>3 DEF StartUnsentBargeIn, EnterTurn, CountTurn, End, StreamOver, GoTo,
       Deregistered, StartedMachine, BargeIn, CanBargeIn, Transition, Can, Allowed,
       States, MidSpeech, IInv, TypeOK, connVars, counters, MovedByBargeIn,
       MachineFollowsTurn, InterrupterHoldsPrevious, RegistryHoldsLiveTurns, States
<1>4. ASSUME NEW t \in Turn, NEW k \in Session, StartBargeIn(t, k)
      PROVE  MovedByBargeIn
  BY <1>4 DEF StartBargeIn, CountTurn, GoTo, MidSpeech, CanSend, IInv, TypeOK,
       connVars, counters, MovedByBargeIn, MachineFollowsTurn,
       InterrupterHoldsPrevious, RegistryHoldsLiveTurns, States
<1>5. ASSUME NEW t \in Turn, SendClear(t)
      PROVE  MovedByBargeIn
  BY <1>5 DEF SendClear, GoTo, IInv, TypeOK, connVars, counters, MovedByBargeIn,
       MachineFollowsTurn, InterrupterHoldsPrevious, RegistryHoldsLiveTurns, States
<1>6. ASSUME NEW t \in Turn, ResumeBargeIn(t)
      PROVE  MovedByBargeIn
  BY <1>6 DEF ResumeBargeIn, EnterTurn, End, StreamOver, GoTo, Deregistered,
       StartedMachine, BargeIn, CanBargeIn, Transition, Can, Allowed, States, IInv,
       TypeOK, connVars, counters, MovedByBargeIn, MachineFollowsTurn,
       InterrupterHoldsPrevious, RegistryHoldsLiveTurns, States
<1>7. ASSUME NEW t \in Turn, Connect(t)
      PROVE  MovedByBargeIn
  BY <1>7 DEF Connect, GoTo, IInv, TypeOK, connVars, counters, MovedByBargeIn,
       MachineFollowsTurn, InterrupterHoldsPrevious, RegistryHoldsLiveTurns, States
<1>8. ASSUME NEW t \in Turn, ConnectFails(t)
      PROVE  MovedByBargeIn
  BY <1>8 DEF ConnectFails, Charge, End, StreamOver, GoTo, Deregister, Deregistered,
       IInv, TypeOK, connVars, counters, MovedByBargeIn, MachineFollowsTurn,
       InterrupterHoldsPrevious, RegistryHoldsLiveTurns, States
<1>9. ASSUME NEW t \in Turn, NEW how \in {"closed", "dropped"}, PeerLeaves(t, how)
      PROVE  MovedByBargeIn
  BY <1>9 DEF PeerLeaves, IInv, TypeOK, connVars, counters, MovedByBargeIn,
       MachineFollowsTurn, InterrupterHoldsPrevious, RegistryHoldsLiveTurns, States
<1>10. ASSUME NEW t \in Turn, Configured(t)
      PROVE  MovedByBargeIn
  BY <1>10 DEF Configured, GoTo, IInv, TypeOK, connVars, counters, MovedByBargeIn,
       MachineFollowsTurn, InterrupterHoldsPrevious, RegistryHoldsLiveTurns, States
<1>11. ASSUME NEW t \in Turn, ReceiveAudio(t)
      PROVE  MovedByBargeIn
  BY <1>11 DEF ReceiveAudio, GoTo, StreamOver, Deregister, Deregistered, SpeaksNow,
       Can, Allowed, States, IInv, TypeOK, connVars, counters, MovedByBargeIn,
       MachineFollowsTurn, InterrupterHoldsPrevious, RegistryHoldsLiveTurns, States
<1>12. ASSUME NEW t \in Turn, PullNext(t)
      PROVE  MovedByBargeIn
  BY <1>12 DEF PullNext, GoTo, IInv, TypeOK, connVars, counters, MovedByBargeIn,
       MachineFollowsTurn, InterrupterHoldsPrevious, RegistryHoldsLiveTurns, States
<1>13. ASSUME NEW t \in Turn, SessionEnds(t)
      PROVE  MovedByBargeIn
  BY <1>13 DEF SessionEnds, GoTo, Teardown, IInv, TypeOK, connVars, counters,
       MovedByBargeIn, MachineFollowsTurn, InterrupterHoldsPrevious,
       RegistryHoldsLiveTurns, States
<1>14. ASSUME NEW t \in Turn, SessionDrops(t)
      PROVE  MovedByBargeIn
  BY <1>14 DEF SessionDrops, GoTo, Teardown, Charge, IInv, TypeOK, connVars,
       counters, MovedByBargeIn, MachineFollowsTurn, InterrupterHoldsPrevious,
       RegistryHoldsLiveTurns, States
<1>15. ASSUME NEW t \in Turn, BackoffEnds(t)
      PROVE  MovedByBargeIn
  BY <1>15 DEF BackoffEnds, GoTo, Teardown, IInv, TypeOK, connVars, counters,
       MovedByBargeIn, MachineFollowsTurn, InterrupterHoldsPrevious,
       RegistryHoldsLiveTurns, States
<1>16. ASSUME NEW t \in Turn, Reconnect(t)
      PROVE  MovedByBargeIn
  BY <1>16 DEF Reconnect, GoTo, IInv, TypeOK, connVars, counters, MovedByBargeIn,
       MachineFollowsTurn, InterrupterHoldsPrevious, RegistryHoldsLiveTurns, States
<1>17. ASSUME NEW t \in Turn, FinishTurn(t)
      PROVE  MovedByBargeIn
  BY <1>17 DEF FinishTurn, GoTo, End, StreamOver, Deregister, Deregistered,
       Transition, Can, Allowed, States, IInv, TypeOK, connVars, counters,
       MovedByBargeIn, MachineFollowsTurn, InterrupterHoldsPrevious,
       RegistryHoldsLiveTurns, States
<1>18. ASSUME NEW t \in Turn, FailTurn(t)
      PROVE  MovedByBargeIn
  BY <1>18 DEF FailTurn, End, StreamOver, Deregister, Deregistered, IInv, TypeOK,
       connVars, counters, MovedByBargeIn, MachineFollowsTurn,
       InterrupterHoldsPrevious, RegistryHoldsLiveTurns, States
<1>19. ASSUME NEW t \in Turn, CompleteTurn(t)
      PROVE  MovedByBargeIn
  BY <1>19 DEF CompleteTurn, End, StreamOver, Deregister, Deregistered, IInv,
       TypeOK, connVars, counters, MovedByBargeIn, MachineFollowsTurn,
       InterrupterHoldsPrevious, RegistryHoldsLiveTurns, States
<1>20. ASSUME NEW t \in Turn, CancelIdle(t)
      PROVE  MovedByBargeIn
  BY <1>20 DEF CancelIdle, End, StreamOver, Deregister, Deregistered, IInv, TypeOK,
       connVars, counters, MovedByBargeIn, MachineFollowsTurn,
       InterrupterHoldsPrevious, RegistryHoldsLiveTurns, States
<1>21. ASSUME NEW t \in Turn, CancelConnected(t)
      PROVE  MovedByBargeIn
  BY <1>21 DEF CancelConnected, GoTo, Teardown, IInv, TypeOK, connVars, counters,
       MovedByBargeIn, MachineFollowsTurn, InterrupterHoldsPrevious,
       RegistryHoldsLiveTurns, States
<1>22. ASSUME NEW t \in Turn, CancelledClosed(t)
      PROVE  MovedByBargeIn
  BY <1>22 DEF CancelledClosed, End, StreamOver, Deregister, Deregistered, IInv,
       TypeOK, connVars, counters, MovedByBargeIn, MachineFollowsTurn,
       InterrupterHoldsPrevious, RegistryHoldsLiveTurns, States
<1>23. ASSUME NEW t \in Turn, Abandon(t)
      PROVE  MovedByBargeIn
  BY <1>23 DEF Abandon, GoTo, IInv, TypeOK, connVars, counters, MovedByBargeIn,
       MachineFollowsTurn, InterrupterHoldsPrevious, RegistryHoldsLiveTurns, States
<1>24. ASSUME NEW t \in Turn, FinalisePipeline(t)
      PROVE  MovedByBargeIn
  BY <1>24 DEF FinalisePipeline, StreamOver, Deregister, Deregistered, IInv, TypeOK,
       connVars, counters, MovedByBargeIn, MachineFollowsTurn,
       InterrupterHoldsPrevious, RegistryHoldsLiveTurns, States
<1>25. ASSUME NEW t \in Turn, FinaliseProvider(t)
      PROVE  MovedByBargeIn
  BY <1>25 DEF FinaliseProvider, GoTo, Teardown, IInv, TypeOK, connVars, counters,
       MovedByBargeIn, MachineFollowsTurn, InterrupterHoldsPrevious,
       RegistryHoldsLiveTurns, States
<1>26. ASSUME NEW t \in Turn, ProviderFinalised(t)
      PROVE  MovedByBargeIn
  BY <1>26 DEF ProviderFinalised, GoTo, IInv, TypeOK, connVars, counters,
       MovedByBargeIn, MachineFollowsTurn, InterrupterHoldsPrevious,
       RegistryHoldsLiveTurns, States
<1>27. QED
  BY <1>1, <1>2, <1>3, <1>4, <1>5, <1>6, <1>7, <1>8, <1>9, <1>10, <1>11, <1>12,
       <1>13, <1>14, <1>15, <1>16, <1>17, <1>18, <1>19, <1>20, <1>21, <1>22, <1>23,
       <1>24, <1>25, <1>26 DEF Next, ServerStep, ClientStep, RemoteStep

\* A registration goes with the stream of its own turn, or of a turn that has
\* just replaced it: a replaced turn never deregisters its successor.
THEOREM DeregistrationCorrect == Spec => OnlyOwnerDeregisters
<1>1. IInv /\ [Next]_vars => [OwnerDeregisters]_vars
  BY DeregistrationStep
<1>2. QED
  BY <1>1, Invariance, PTL DEF Spec, OnlyOwnerDeregisters

\* The machine of a turn is moved by another turn only from SPEAKING to LISTENING,
\* by a turn of the same session that enters in that very step.
THEOREM BargeInCorrect == Spec => MachineMovedOnlyByBargeIn
<1>1. IInv /\ [Next]_vars => [MovedByBargeIn]_vars
  BY BargeInStep
<1>2. QED
  BY <1>1, Invariance, PTL DEF Spec, MachineMovedOnlyByBargeIn

-----------------------------------------------------------------------------
(* Counting.  Turns may be infinitely many; those that have begun are not. *)

TurnStep(t) == ServerStep(t) \/ ClientStep(t) \/ RemoteStep(t)

\* By what a step of t moves the counters, and what has happened to t then: it
\* began, its stream raised, its machine went idle.
Counted(t, b, f, d) ==
  /\ turnCount' = turnCount + b /\ errorCount' = errorCount + f /\ doneCount' = doneCount + d
  /\ \A u \in Turn \ {t} :
       /\ pc'[u] = pc[u] /\ outcome'[u] = outcome[u]
       /\ machine'[u] = "idle" <=> machine[u] = "idle"
  /\ IF b = 1 THEN pc[t] = "new" /\ pc'[t] # "new" ELSE pc'[t] = "new" <=> pc[t] = "new"
  /\ IF f = 1 THEN outcome[t] = "none" /\ outcome'[t] \in Errors
     ELSE \/ outcome'[t] = outcome[t]
          \/ b = 0 /\ outcome[t] = "none" /\ outcome'[t] \in {"done", "cancelled"}
  /\ IF d = 1 THEN machine[t] # "idle" /\ machine'[t] = "idle"
     ELSE machine'[t] = "idle" <=> machine[t] = "idle"

\* Every step of a turn changes its part of the counters by what it does to the turn.
LEMMA StepCounted ==
  ASSUME IInv, NEW t \in Turn, TurnStep(t)
  PROVE  \E b, f, d \in {0, 1} : Counted(t, b, f, d)
<1> USE ConstantsAssumption
        DEF IInv, TypeOK, OutcomeIsLast, MachineFollowsTurn, InterrupterHoldsPrevious, Registrable,
            ConnectionsReleased, HoldsConnection, connVars, counters, StreamOver, Errors, CountTurn, Counted
<1>1. CASE RejectInput(t)
  <2>1. Counted(t, 1, 1, 0)
    BY <1>1 DEF RejectInput, End
  <2>2. QED
    BY <2>1
<1>2. ASSUME NEW k \in Session, StartTurn(t, k) PROVE \E b, f, d \in {0, 1} : Counted(t, b, f, d)
  <2>1. CASE pc'[t] = "ended"
    <3>1. Counted(t, 1, 1, 0)
      BY <1>2, <2>1 DEF StartTurn, EnterTurn, End, GoTo, StartedMachine, Transition, Can, Allowed, States
    <3>2. QED
      BY <3>1
  <2>2. CASE pc'[t] # "ended"
    <3>1. Counted(t, 1, 0, 0)
      BY <1>2, <2>2 DEF StartTurn, EnterTurn, End, GoTo, StartedMachine, Transition, Can, Allowed, States
    <3>2. QED
      BY <3>1
  <2>3. QED
    BY <2>1, <2>2
<1>3. ASSUME NEW k \in Session, StartUnsentBargeIn(t, k) PROVE \E b, f, d \in {0, 1} : Counted(t, b, f, d)
  <2>1. CASE pc'[t] = "ended"
    <3>1. Counted(t, 1, 1, 0)
      BY <1>3, <2>1 DEF StartUnsentBargeIn, EnterTurn, End, GoTo, MidSpeech, BargeIn, CanBargeIn, StartedMachine, Transition, Can, Allowed, States
    <3>2. QED
      BY <3>1
  <2>2. CASE pc'[t] # "ended"
    <3>1. Counted(t, 1, 0, 0)
      BY <1>3, <2>2 DEF StartUnsentBargeIn, EnterTurn, End, GoTo, MidSpeech, BargeIn, CanBargeIn, StartedMachine, Transition, Can, Allowed, States
    <3>2. QED
      BY <3>1
  <2>3. QED
    BY <2>1, <2>2
<1>4. ASSUME NEW k \in Session, StartBargeIn(t, k) PROVE \E b, f, d \in {0, 1} : Counted(t, b, f, d)
  <2>1. Counted(t, 1, 0, 0)
    BY <1>4 DEF StartBargeIn, GoTo
  <2>2. QED
    BY <2>1
<1>5. CASE SendClear(t)
  <2>1. Counted(t, 0, 0, 0)
    BY <1>5 DEF SendClear, GoTo
  <2>2. QED
    BY <2>1
<1>6. CASE ResumeBargeIn(t)
  <2>1. CASE pc'[t] = "ended"
    <3>1. Counted(t, 0, 1, 0)
      BY <1>6, <2>1 DEF ResumeBargeIn, EnterTurn, End, GoTo, BargeIn, CanBargeIn, StartedMachine, Transition, Can, Allowed, States
    <3>2. QED
      BY <3>1
  <2>2. CASE pc'[t] # "ended"
    <3>1. Counted(t, 0, 0, 0)
      BY <1>6, <2>2 DEF ResumeBargeIn, EnterTurn, End, GoTo, BargeIn, CanBargeIn, StartedMachine, Transition, Can, Allowed, States
    <3>2. QED
      BY <3>1
  <2>3. QED
    BY <2>1, <2>2
<1>7. CASE Connect(t)
  <2>1. Counted(t, 0, 0, 0)
    BY <1>7 DEF Connect, GoTo
  <2>2. QED
    BY <2>1
<1>8. CASE ConnectFails(t)
  <2>1. CASE pc'[t] = "ended"
    <3>1. Counted(t, 0, 1, 0)
      BY <1>8, <2>1 DEF ConnectFails, End, GoTo
    <3>2. QED
      BY <3>1
  <2>2. CASE pc'[t] # "ended"
    <3>1. Counted(t, 0, 0, 0)
      BY <1>8, <2>2 DEF ConnectFails, End, GoTo
    <3>2. QED
      BY <3>1
  <2>3. QED
    BY <2>1, <2>2
<1>9. ASSUME NEW how \in {"closed", "dropped"}, PeerLeaves(t, how) PROVE \E b, f, d \in {0, 1} : Counted(t, b, f, d)
  <2>1. Counted(t, 0, 0, 0)
    BY <1>9 DEF PeerLeaves
  <2>2. QED
    BY <2>1
<1>10. CASE Configured(t)
  <2>1. Counted(t, 0, 0, 0)
    BY <1>10 DEF Configured, GoTo
  <2>2. QED
    BY <2>1
<1>11. CASE ReceiveAudio(t)
  <2>1. CASE pc'[t] = "orphaned"
    <3>1. Counted(t, 0, 1, 0)
      BY <1>11, <2>1 DEF ReceiveAudio, SpeaksNow, GoTo
    <3>2. QED
      BY <3>1
  <2>2. CASE pc'[t] # "orphaned"
    <3>1. Counted(t, 0, 0, 0)
      BY <1>11, <2>2 DEF ReceiveAudio, SpeaksNow, GoTo
    <3>2. QED
      BY <3>1
  <2>3. QED
    BY <2>1, <2>2
<1>12. CASE PullNext(t)
  <2>1. Counted(t, 0, 0, 0)
    BY <1>12 DEF PullNext, GoTo
  <2>2. QED
    BY <2>1
<1>13. CASE SessionEnds(t)
  <2>1. Counted(t, 0, 0, 0)
    BY <1>13 DEF SessionEnds, GoTo
  <2>2. QED
    BY <2>1
<1>14. CASE SessionDrops(t)
  <2>1. Counted(t, 0, 0, 0)
    BY <1>14 DEF SessionDrops, GoTo
  <2>2. QED
    BY <2>1
<1>15. CASE BackoffEnds(t)
  <2>1. Counted(t, 0, 0, 0)
    BY <1>15 DEF BackoffEnds, GoTo
  <2>2. QED
    BY <2>1
<1>16. CASE Reconnect(t)
  <2>1. Counted(t, 0, 0, 0)
    BY <1>16 DEF Reconnect, GoTo
  <2>2. QED
    BY <2>1
<1>17. CASE FinishTurn(t)
  <2>1. CASE pc'[t] = "ended"
    <3>1. Counted(t, 0, 1, 0)
      BY <1>17, <2>1 DEF FinishTurn, End, GoTo, Transition, Can, Allowed, States
    <3>2. QED
      BY <3>1
  <2>2. CASE pc'[t] # "ended"
    <3>1. Counted(t, 0, 0, 1)
      BY <1>17, <2>2 DEF FinishTurn, End, GoTo, Transition, Can, Allowed, States
    <3>2. QED
      BY <3>1
  <2>3. QED
    BY <2>1, <2>2
<1>18. CASE FailTurn(t)
  <2>1. Counted(t, 0, 1, 0)
    BY <1>18 DEF FailTurn, End
  <2>2. QED
    BY <2>1
<1>19. CASE CompleteTurn(t)
  <2>1. Counted(t, 0, 0, 0)
    BY <1>19 DEF CompleteTurn, End
  <2>2. QED
    BY <2>1
<1>20. CASE CancelIdle(t)
  <2>1. Counted(t, 0, 0, 0)
    BY <1>20 DEF CancelIdle, End
  <2>2. QED
    BY <2>1
<1>21. CASE CancelConnected(t)
  <2>1. Counted(t, 0, 0, 0)
    BY <1>21 DEF CancelConnected, GoTo
  <2>2. QED
    BY <2>1
<1>22. CASE CancelledClosed(t)
  <2>1. Counted(t, 0, 0, 0)
    BY <1>22 DEF CancelledClosed, End
  <2>2. QED
    BY <2>1
<1>23. CASE Abandon(t)
  <2>1. Counted(t, 0, 0, 0)
    BY <1>23 DEF Abandon, GoTo
  <2>2. QED
    BY <2>1
<1>24. CASE FinalisePipeline(t)
  <2>1. Counted(t, 0, 0, 0)
    BY <1>24 DEF FinalisePipeline
  <2>2. QED
    BY <2>1
<1>25. CASE FinaliseProvider(t)
  <2>1. Counted(t, 0, 0, 0)
    BY <1>25 DEF FinaliseProvider, GoTo
  <2>2. QED
    BY <2>1
<1>26. CASE ProviderFinalised(t)
  <2>1. Counted(t, 0, 0, 0)
    BY <1>26 DEF ProviderFinalised, GoTo
  <2>2. QED
    BY <2>1
<1>27. QED
  BY <1>1, <1>2, <1>3, <1>4, <1>5, <1>6, <1>7, <1>8, <1>9, <1>10, <1>11, <1>12, <1>13,
     <1>14, <1>15, <1>16, <1>17, <1>18, <1>19, <1>20, <1>21, <1>22, <1>23, <1>24, <1>25, <1>26 DEF TurnStep, ServerStep, ClientStep, RemoteStep

BegunTurns  == {t \in Turn : pc[t] # "new"}
FailedTurns == {t \in Turn : outcome[t] \in Errors}
IdleTurns   == {t \in Turn : machine[t] = "idle"}

CIInv == IInv /\ IsFiniteSet(BegunTurns) /\ CountersHonest

\* A set that gains n members, all of them x, is n larger.
LEMMA GainCounted ==
  ASSUME NEW S, NEW T, NEW x, NEW n \in {0, 1}, IsFiniteSet(S),
         IF n = 1 THEN x \notin S /\ T = S \cup {x} ELSE T = S
  PROVE  IsFiniteSet(T) /\ Cardinality(T) = Cardinality(S) + n
<1>1. Cardinality(S) \in Nat
  BY FS_CardinalityType
<1>2. CASE n = 1
  BY <1>1, <1>2, FS_AddElement
<1>3. CASE n = 0
  BY <1>1, <1>3
<1>4. QED
  BY <1>2, <1>3

\* Initially nothing has happened and nothing is counted.
LEMMA InitCIInv == Init => CIInv
<1> SUFFICES ASSUME Init PROVE CIInv
  OBVIOUS
<1>1. BegunTurns = {} /\ FailedTurns = {} /\ IdleTurns = {}
  BY ConstantsAssumption DEF Init, BegunTurns, FailedTurns, IdleTurns, Errors, States
<1>2. CountersHonest
  BY <1>1, FS_EmptySet DEF Init, CountersHonest, BegunTurns, FailedTurns, IdleTurns
<1>3. QED
  BY <1>1, <1>2, InitIInv, FS_EmptySet DEF CIInv

\* Every step keeps the counters in agreement with what happened.
LEMMA NextCIInv == CIInv /\ [Next]_vars => CIInv'
<1> SUFFICES ASSUME CIInv, [Next]_vars PROVE CIInv'
  OBVIOUS
<1>1. IInv'
  BY NextIInv DEF CIInv
<1>2. CASE UNCHANGED vars
  BY <1>1, <1>2 DEF vars, CIInv, CountersHonest, BegunTurns
<1>3. ASSUME NEW t \in Turn, TurnStep(t) PROVE CIInv'
  <2>1. PICK b, f, d \in {0, 1} : Counted(t, b, f, d)
    BY <1>3, StepCounted DEF CIInv
  <2>2. IsFiniteSet(BegunTurns) /\ IsFiniteSet(FailedTurns) /\ IsFiniteSet(IdleTurns)
    <3>1. FailedTurns \in SUBSET BegunTurns /\ IdleTurns \in SUBSET BegunTurns
      BY DEF CIInv, IInv, OutcomeIsLast, MachineFollowsTurn, FailedTurns, IdleTurns, BegunTurns, Errors
    <3>2. QED
      BY <3>1, FS_Subset DEF CIInv
  <2>3. IF b = 1 THEN t \notin BegunTurns /\ BegunTurns' = BegunTurns \cup {t} ELSE BegunTurns' = BegunTurns
    BY <2>1 DEF Counted, BegunTurns
  <2>4. IF f = 1 THEN t \notin FailedTurns /\ FailedTurns' = FailedTurns \cup {t} ELSE FailedTurns' = FailedTurns
    BY <2>1 DEF Counted, FailedTurns, Errors
  <2>5. IF d = 1 THEN t \notin IdleTurns /\ IdleTurns' = IdleTurns \cup {t} ELSE IdleTurns' = IdleTurns
    BY <2>1 DEF Counted, IdleTurns
  <2>6. /\ turnCount = Cardinality(BegunTurns) /\ errorCount = Cardinality(FailedTurns)
        /\ doneCount = Cardinality(IdleTurns)
    BY DEF CIInv, CountersHonest, BegunTurns, FailedTurns, IdleTurns
  <2>7. IsFiniteSet(BegunTurns') /\ turnCount' = Cardinality(BegunTurns')
    BY <2>1, <2>2, <2>3, <2>6, GainCounted DEF Counted
  <2>8. errorCount' = Cardinality(FailedTurns')
    BY <2>1, <2>2, <2>4, <2>6, GainCounted DEF Counted
  <2>9. doneCount' = Cardinality(IdleTurns')
    BY <2>1, <2>2, <2>5, <2>6, GainCounted DEF Counted
  <2>10. QED
    BY <1>1, <2>7, <2>8, <2>9 DEF CIInv, CountersHonest, BegunTurns, FailedTurns, IdleTurns
<1>4. QED
  BY <1>2, <1>3 DEF Next, TurnStep

\* The counters agree with what happened, for infinitely many turns too
\* (pipeline.py:72-82, 117-124).
THEOREM CountersCorrect == Spec => []CountersHonest
<1>1. CIInv => CountersHonest
  BY DEF CIInv
<1>2. QED
  BY <1>1, InitCIInv, NextCIInv, PTL DEF Spec

-----------------------------------------------------------------------------
(* The refinement.                                                         *)

Phases == [t \in Turn |-> Phase(t)]

\* Every step is one of the contract's, or none.
LEMMA ContractStep ==
  IInv /\ IInv' /\ [Next]_vars => [Contract!Next]_<<Phases, turnCount, errorCount>>
<1> SUFFICES ASSUME IInv, IInv', [Next]_vars PROVE [Contract!Next]_<<Phases, turnCount, errorCount>>
  OBVIOUS
<1>1. CASE UNCHANGED vars
  BY <1>1 DEF vars, Phases, Phase
<1>2. ASSUME NEW t \in Turn, TurnStep(t) PROVE [Contract!Next]_<<Phases, turnCount, errorCount>>
  <2>1. PICK b, f, d \in {0, 1} : Counted(t, b, f, d)
    BY <1>2, StepCounted
  <2>2. turnCount' = turnCount + b /\ errorCount' = errorCount + f /\ turnCount \in Nat /\ errorCount \in Nat
    BY <2>1 DEF Counted, IInv, TypeOK
  <2>3. Phases' = [Phases EXCEPT ![t] = Phase(t)'] /\ Phases[t] = Phase(t)
    <3>1. ASSUME NEW u \in Turn, u # t PROVE Phase(u)' = Phase(u)
      BY <2>1, <3>1 DEF Counted, Phase
    <3>2. QED
      BY <3>1 DEF Phases
  <2>4. /\ pc[t] = "new" => outcome[t] = "none"
        /\ pc'[t] = "new" => outcome'[t] = "none"
    BY DEF IInv, OutcomeIsLast
  <2>5. CASE b = 1 /\ f = 0
    <3>1. Phase(t) = "idle" /\ Phase(t)' = "running"
      BY <2>1, <2>4, <2>5 DEF Counted, Phase, Errors
    <3>2. Contract!Moves(t, "idle", "running")
      BY <2>3, <3>1 DEF Contract!Moves, Phases
    <3>3. turnCount' = turnCount + 1 /\ errorCount' = errorCount
      BY <2>2, <2>5
    <3>4. QED
      BY <3>2, <3>3 DEF Contract!Next, Contract!Begin
  <2>6. CASE b = 1 /\ f = 1
    <3>1. Phase(t) = "idle" /\ Phase(t)' = "failed"
      BY <2>1, <2>4, <2>6 DEF Counted, Phase, Errors
    <3>2. Contract!Moves(t, "idle", "failed")
      BY <2>3, <3>1 DEF Contract!Moves, Phases
    <3>3. turnCount' = turnCount + 1 /\ errorCount' = errorCount + 1
      BY <2>2, <2>6
    <3>4. QED
      BY <3>2, <3>3 DEF Contract!Next, Contract!Reject
  <2>7. CASE b = 0 /\ f = 1
    <3>1. Phase(t) = "running" /\ Phase(t)' = "failed"
      BY <2>1, <2>4, <2>7 DEF Counted, Phase, Errors
    <3>2. Contract!Moves(t, "running", "failed")
      BY <2>3, <3>1 DEF Contract!Moves, Phases
    <3>3. turnCount' = turnCount /\ errorCount' = errorCount + 1
      BY <2>2, <2>7
    <3>4. QED
      BY <3>2, <3>3 DEF Contract!Next, Contract!Fail
  <2>8. CASE b = 0 /\ f = 0 /\ outcome'[t] = outcome[t]
    <3>1. Phase(t)' = Phase(t)
      BY <2>1, <2>8 DEF Counted, Phase
    <3>2. Phases' = Phases
      BY <2>3, <3>1 DEF Phases
    <3>3. QED
      BY <2>2, <2>8, <3>2
  <2>9. CASE b = 0 /\ f = 0 /\ outcome'[t] # outcome[t]
    <3>1. outcome[t] = "none" /\ outcome'[t] \in {"done", "cancelled"}
      BY <2>1, <2>9 DEF Counted
    <3>2. pc[t] # "new" /\ pc'[t] # "new"
      BY <2>1, <2>4, <2>9, <3>1 DEF Counted
    <3>3. Phase(t) = "running" /\ Phase(t)' \in {"done", "left"}
      BY <3>1, <3>2 DEF Phase, Errors
    <3>4. UNCHANGED <<turnCount, errorCount>>
      BY <2>2, <2>9
    <3>5. Contract!Moves(t, "running", "done") \/ Contract!Moves(t, "running", "left")
      BY <2>3, <3>3 DEF Contract!Moves, Phases
    <3>6. QED
      BY <3>4, <3>5 DEF Contract!Next, Contract!Complete, Contract!Leave
  <2>10. QED
    BY <2>5, <2>6, <2>7, <2>8, <2>9
<1>3. QED
  BY <1>1, <1>2 DEF Next, TurnStep

\* The fast path keeps the contract, whatever barge-ins, drops and disconnections do to one
\* another: a turn is counted once, and as an error exactly when its stream raised.
THEOREM ContractKept == Spec => KeepsContract
<1>1. Init => Contract!Init
  <2> SUFFICES ASSUME Init PROVE Contract!Init
    OBVIOUS
  <2>1. \A t \in Turn : Phase(t) = "idle"
    BY DEF Init, Phase, Errors
  <2>2. [t \in Turn |-> Phase(t)] = [t \in Turn |-> "idle"]
    BY <2>1
  <2>3. turnCount = 0 /\ errorCount = 0
    BY DEF Init
  <2>4. QED
    BY <2>2, <2>3 DEF Contract!Init
<1>2. IInv /\ IInv' /\ [Next]_vars => [Contract!Next]_<<Phases, turnCount, errorCount>>
  BY ContractStep
<1>3. QED
  BY <1>1, <1>2, Invariance, PTL DEF Spec, KeepsContract, Contract!Spec, Phases
=============================================================================
