-------------------------- MODULE MCReconnectStream --------------------------
(***************************************************************************)
(* Instances of ReconnectStream for TLC; the markers are model values.     *)
(* `service` is whose stream it is: a transcriber's, with the constants of *)
(* the cfg file, or OpenAI's converse() over a queue of one chunk, of      *)
(* which no liveness is promised: the service may never close.             *)
(***************************************************************************)
EXTENDS ReconnectStream

VARIABLE service

OpenAI == INSTANCE ReconnectStream
  WITH QueueMax <- 1, MaxReconnects <- 1,
       ClosesStream <- FALSE, Configures <- TRUE, BudgetRefills <- TRUE

EitherInit == service \in {"stt", "realtime"} /\ Init

EitherNext ==
  /\ UNCHANGED service
  /\ \/ service = "stt" /\ Next
     \/ service = "realtime" /\ OpenAI!Next

Transcribes(step) == service = "stt" /\ step /\ UNCHANGED service

EitherSpec ==
  /\ EitherInit /\ [][EitherNext]_<<vars, service>>
  /\ WF_vars(Transcribes(PumpStep)) /\ WF_vars(Transcribes(SenderStep))
  /\ WF_vars(Transcribes(LoopStep)) /\ WF_vars(Transcribes(Resume))
  /\ WF_vars(Transcribes(ServerCloses))

\* A transcriber's stream ends, or hangs with an unwatched sender that has failed.
TranscriptionEnds == service = "stt" => Terminates

\* The budget bounds the connections of the stream whose budget is never refilled.
BudgetHolds == service = "stt" => BudgetBoundsConnections
=============================================================================
