--------------------------- MODULE PipelineContract ---------------------------
(***************************************************************************)
(* What a pipeline (app/dispatch.py, Pipeline) promises its caller and the *)
(* counters about the turns it is given, whatever happens inside:          *)
(* a turn is counted once, when its stream is first pulled, and again as   *)
(* an error if and only if the stream raised.  A stream its consumer left  *)
(* is neither complete nor an error.                                       *)
(*                                                                         *)
(* RealtimePipeline and TraditionalPipeline implement it; VoiceDispatch is *)
(* composed of two of it.                                                  *)
(***************************************************************************)
EXTENDS Naturals

CONSTANT Turn

VARIABLES
  phase,   \* of each turn
  turns,   \* EventCounters: turns of this path
  errors   \* EventCounters: errors of this path

Phases == {"idle", "running", "done", "failed", "left"}

Init ==
  /\ phase = [t \in Turn |-> "idle"]
  /\ turns = 0
  /\ errors = 0

Moves(t, from, to) == phase[t] = from /\ phase' = [phase EXCEPT ![t] = to]

Begin(t) == Moves(t, "idle", "running") /\ turns' = turns + 1 /\ UNCHANGED errors

\* The turn raises before it waits for anything.
Reject(t) == Moves(t, "idle", "failed") /\ turns' = turns + 1 /\ errors' = errors + 1

Fail(t) == Moves(t, "running", "failed") /\ errors' = errors + 1 /\ UNCHANGED turns

Complete(t) == Moves(t, "running", "done") /\ UNCHANGED <<turns, errors>>

\* Cancelled while it waits, or dropped at a yield.
Leave(t) == Moves(t, "running", "left") /\ UNCHANGED <<turns, errors>>

Next ==
  \E t \in Turn : Begin(t) \/ Reject(t) \/ Fail(t) \/ Complete(t) \/ Leave(t)

Spec == Init /\ [][Next]_<<phase, turns, errors>>
=============================================================================
