------------------------------ MODULE TurnState ------------------------------
(***************************************************************************)
(* The per-turn state machine of app/session/state.py: the transition      *)
(* table and the operations that move a machine along it.  A machine is    *)
(* its current state; the recorded history of transitions is a debug trace *)
(* and is left out.  An operation that raises InvalidTransition leaves the *)
(* state as it was: Can and CanBargeIn tell the caller that it raises.     *)
(***************************************************************************)

States == {"idle", "listening", "thinking", "speaking", "interrupted"}

\* The transitions allowed out of each state.
Allowed ==
  [s \in States |->
     CASE s = "idle"        -> {"listening"}
       [] s = "listening"   -> {"thinking", "idle"}
       [] s = "thinking"    -> {"speaking", "idle"}
       [] s = "speaking"    -> {"interrupted", "listening", "idle"}
       [] s = "interrupted" -> {"listening", "idle"}]

Can(s, to) == to \in Allowed[s]

\* transition(): the new state, or the old one when InvalidTransition is raised.
Transition(s, to) == IF Can(s, to) THEN to ELSE s

\* barge_in() raises unless the reply is being spoken.
CanBargeIn(s) == s = "speaking"

\* Mutation: barge_in() forgets its second transition.
BargeInStopsHalfway(s) ==
  IF CanBargeIn(s) THEN Transition(s, "interrupted") ELSE s

\* barge_in(): speaking -> interrupted -> listening, in one call.
BargeIn(s) ==
  IF CanBargeIn(s)
  THEN Transition(Transition(s, "interrupted"), "listening")
  ELSE s

\* What every turn does before it awaits anything: idle -> listening -> thinking.
StartedMachine == Transition(Transition("idle", "listening"), "thinking")
=============================================================================
