------------------------------ MODULE AudioRelay ------------------------------
(***************************************************************************)
(* What a streaming provider promises about the audio it relays to its     *)
(* remote service over connections that may break: the chunks 1 .. Chunks  *)
(* of the source arrive in order and none arrives twice, a connection      *)
(* costs at most the one chunk that was in flight when it broke, and       *)
(* nothing arrives any more once the relay is over.  No code is modelled   *)
(* here: this is the specification that ReconnectStream implements.        *)
(***************************************************************************)
EXTENDS Naturals, Sequences

CONSTANT Chunks

VARIABLES
  position,  \* chunks dealt with: arrived or lost
  arrived,   \* the chunks the remote service got, in the order it got them
  channel    \* "down", "up" or "over"

vars == <<position, arrived, channel>>

Init ==
  /\ position = 0
  /\ arrived = << >>
  /\ channel = "down"

Open == channel = "down" /\ channel' = "up" /\ UNCHANGED <<position, arrived>>

Break == channel = "up" /\ channel' = "down" /\ UNCHANGED <<position, arrived>>

Arrive ==
  /\ channel = "up"
  /\ position < Chunks
  /\ position' = position + 1
  /\ arrived' = Append(arrived, position + 1)
  /\ UNCHANGED channel

\* The chunk in flight is lost with its connection.
Lose ==
  /\ channel = "up"
  /\ position < Chunks
  /\ position' = position + 1
  /\ channel' = "down"
  /\ UNCHANGED arrived

\* The relay ends, with the connection or without it.
Finish ==
  /\ channel # "over"
  /\ channel' = "over"
  /\ position' \in {position, position + 1}
  /\ position' <= Chunks
  /\ UNCHANGED arrived

\* What was still in flight when the relay ended goes nowhere.
Discard ==
  /\ channel = "over"
  /\ position < Chunks
  /\ position' = position + 1
  /\ UNCHANGED <<arrived, channel>>

Next == Open \/ Break \/ Arrive \/ Lose \/ Finish \/ Discard

Spec == Init /\ [][Next]_vars
=============================================================================
