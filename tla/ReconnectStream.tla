--------------------------- MODULE ReconnectStream ---------------------------
(***************************************************************************)
(* The streaming providers that survive dropped sockets: transcribe() of   *)
(* app/providers/deepgram_stt.py (and elevenlabs_stt.py, which mirrors it) *)
(* and converse() of app/providers/openai_realtime.py.  Source lines are   *)
(* Deepgram's unless said otherwise.                                       *)
(*                                                                         *)
(* Four parties share one event loop:                                      *)
(*   pump    reads the source once and fills a bounded queue               *)
(*   sender  one per connection: drains the queue into the socket          *)
(*   loop    the generator itself: connects, waits for messages and for    *)
(*           its sender, yields results, reconnects within a budget        *)
(*   server  external: receives, answers, closes or drops the connection   *)
(*                                                                         *)
(* The chunks of the source are the numbers 1 .. Chunks, so that order and *)
(* loss can be told; a result carries no content and MaxMessages bounds    *)
(* how many the server sends.  The three providers differ in three ways,   *)
(* which are parameters: whether the end of the audio is told to the       *)
(* server, whether a connection is configured before use, and whether      *)
(* results refill the retry budget.                                        *)
(***************************************************************************)
EXTENDS Naturals, Sequences

CONSTANTS
  Chunks,         \* audio chunks the source holds
  QueueMax,       \* QUEUE_MAXSIZE
  MaxReconnects,  \* max_reconnects
  MaxMessages,    \* bound: results the server sends
  ClosesStream,   \* TRUE for the transcribers: CloseStream ends the audio
  Configures,     \* TRUE for OpenAI: session.update opens the session
  BudgetRefills,  \* TRUE for OpenAI: a result resets attempts to 0
  SourceMayFail,  \* whether the source may raise
  EOS,            \* the end marker
  Fatal,          \* an exception of the source the retry loop lets through
  Flaky,          \* one it takes for a drop (ConnectionError, OSError, timeout)
  Nothing         \* no item in hand

Markers == {EOS, Fatal, Flaky}

ASSUME ConstantsAssumption ==
  /\ Chunks \in Nat
  /\ QueueMax \in Nat \ {0}
  /\ MaxReconnects \in Nat
  /\ MaxMessages \in Nat
  /\ {ClosesStream, Configures, BudgetRefills, SourceMayFail} \subseteq BOOLEAN
  /\ (Markers \cup {Nothing}) \cap Nat = {}
  /\ Nothing \notin Markers
  /\ EOS \notin {Fatal, Flaky} /\ Fatal # Flaky

VARIABLES
  read,      \* chunks the pump has read from the source
  pump,      \* "reading", "putting", "done" or "cancelled"
  held,      \* the item the pump is putting into a full queue
  queue,     \* the bounded queue
  sender,    \* the sender task: "none", "getting", "sending", "done", "failed"
  item,      \* what the sender is sending, or the source error it failed with
  loop,      \* where the generator is suspended
  watched,   \* the sender is in the set asyncio.wait() waits for
  conn,      \* the connection: "none", "up", "closed" or "dropped" (by the peer)
  attempts,  \* failures charged to the retry budget
  messages,  \* results received
  result,    \* how the generator ended
  taken,     \* history: chunks senders took from the queue
  arrived,   \* history: chunks the server got, in order
  opened     \* history: connections opened

senderVars == <<sender, item, taken, arrived>>
pumpVars   == <<read, pump, held>>
vars == <<pumpVars, queue, senderVars, loop, watched, conn, attempts, messages,
          result, opened>>

Results == {"none", "clean", "failed", "source_error", "closed"}

Init ==
  /\ read = 0 /\ pump = "reading" /\ held = Nothing
  /\ queue = << >>
  /\ sender = "none" /\ item = Nothing /\ taken = 0 /\ arrived = << >>
  /\ loop = "connecting" /\ watched = FALSE
  /\ conn = "none" /\ attempts = 0 /\ messages = 0
  /\ result = "none" /\ opened = 0

SenderRuns == sender \in {"getting", "sending"}

-----------------------------------------------------------------------------
(* The pump.                                                               *)

\* queue.put(): at once when there is room, else the pump waits with the item.
Put(x) ==
  IF Len(queue) < QueueMax
  THEN /\ queue' = Append(queue, x)
       /\ held' = Nothing
       /\ pump' = IF x \in Markers THEN "done" ELSE "reading"
  ELSE /\ held' = x
       /\ pump' = "putting"
       /\ UNCHANGED queue

PumpReads ==
  /\ pump = "reading"
  /\ read < Chunks
  /\ read' = read + 1
  /\ Put(read + 1)
  /\ UNCHANGED <<senderVars, loop, watched, conn, attempts, messages, result, opened>>

\* The source is exhausted, or raises.
PumpEnds(x) ==
  /\ pump = "reading"
  /\ x = EOS => read = Chunks
  /\ x # EOS => SourceMayFail
  /\ Put(x)
  /\ UNCHANGED <<read, senderVars, loop, watched, conn, attempts, messages,
                 result, opened>>

PumpPuts ==
  /\ pump = "putting"
  /\ Len(queue) < QueueMax
  /\ Put(held)
  /\ UNCHANGED <<read, senderVars, loop, watched, conn, attempts, messages,
                 result, opened>>

-----------------------------------------------------------------------------
(* The sender.                                                             *)

\* Mutation: the end marker is not put back.
RemarkForgets(q, x) == q

\* A marker is left in the queue for the sender of the next connection.
Remark(q, x) == Append(q, x)

TakeChunk ==
  /\ sender = "getting" /\ queue # << >> /\ Head(queue) \notin Markers
  /\ queue' = Tail(queue)
  /\ item' = Head(queue)
  /\ taken' = taken + 1
  /\ sender' = "sending"
  /\ UNCHANGED <<pumpVars, arrived, loop, watched, conn, attempts, messages,
                 result, opened>>

TakeMarker ==
  /\ sender = "getting" /\ queue # << >> /\ Head(queue) \in Markers
  /\ queue' = Remark(Tail(queue), Head(queue))
  /\ item' = Head(queue)
  /\ sender' = CASE Head(queue) # EOS -> "failed"
                 [] Head(queue) = EOS /\ ClosesStream -> "sending"
                 [] OTHER -> "done"
  /\ UNCHANGED <<pumpVars, taken, arrived, loop, watched, conn, attempts,
                 messages, result, opened>>

Send ==
  /\ sender = "sending" /\ conn = "up"
  /\ IF item = EOS
     THEN sender' = "done" /\ UNCHANGED arrived
     ELSE sender' = "getting" /\ arrived' = Append(arrived, item)
  /\ item' = Nothing
  /\ UNCHANGED <<pumpVars, queue, taken, loop, watched, conn, attempts, messages,
                 result, opened>>

\* Mutation: the failed send is swallowed and the sender drains on.
SendFailsSilently ==
  /\ sender = "sending" /\ conn # "up"
  /\ sender' = "getting"
  /\ item' = Nothing
  /\ UNCHANGED <<pumpVars, queue, taken, arrived, loop, watched, conn, attempts,
                 messages, result, opened>>

\* Mutation: the chunk that could not be sent goes to the back of the queue.
SendFailsRequeues ==
  /\ sender = "sending" /\ conn # "up"
  /\ sender' = "failed"
  /\ item' = Nothing
  /\ queue' = IF Len(queue) < QueueMax THEN Append(queue, item) ELSE queue
  /\ UNCHANGED <<pumpVars, taken, arrived, loop, watched, conn, attempts,
                 messages, result, opened>>

\* conn.send() raises ConnectionClosed; what was being sent is not put back.
SendFails ==
  /\ sender = "sending" /\ conn # "up"
  /\ sender' = "failed"
  /\ item' = Nothing
  /\ UNCHANGED <<pumpVars, queue, taken, arrived, loop, watched, conn, attempts,
                 messages, result, opened>>

-----------------------------------------------------------------------------
(* The generator.                                                          *)

Charge == attempts' = attempts + 1

\* The generator is over: the pump is cancelled and awaited.
End(how) ==
  /\ loop' = "over"
  /\ result' = how
  /\ pump' = IF pump = "done" THEN "done" ELSE "cancelled"
  /\ held' = Nothing

\* The session's finally clauses: its sender is cancelled, the socket closed.
DropSender == sender' = "none" /\ item' = Nothing
CloseConnection == conn' = "none" /\ watched' = FALSE

\* asyncio.create_task(sender), and the first asyncio.wait().
StartSession ==
  /\ sender' = "getting"
  /\ item' = Nothing
  /\ loop' = "waiting"
  /\ watched' = TRUE

Connect ==
  /\ loop = "connecting"
  /\ conn' = "up"
  /\ opened' = opened + 1
  /\ IF Configures
     THEN loop' = "configuring" /\ UNCHANGED <<sender, item, watched>>
     ELSE StartSession
  /\ UNCHANGED <<pumpVars, queue, taken, arrived, attempts, messages, result>>

\* Mutation: the budget is compared before the failure is charged.
ConnectFailsOffByOne ==
  /\ loop = "connecting"
  /\ \/ /\ Charge
        /\ IF attempts > MaxReconnects
           THEN End("failed")
           ELSE UNCHANGED <<loop, result, pump, held>>
     \/ End("failed") /\ UNCHANGED attempts
  /\ UNCHANGED <<read, queue, senderVars, watched, conn, messages, opened>>

\* A recoverable error is charged to the budget; any other, a refused handshake say, is
\* raised at once.
ConnectFails ==
  /\ loop = "connecting"
  /\ \/ /\ Charge
        /\ IF attempts' > MaxReconnects
           THEN End("failed")
           ELSE UNCHANGED <<loop, result, pump, held>>
     \/ End("failed") /\ UNCHANGED attempts
  /\ UNCHANGED <<read, queue, senderVars, watched, conn, messages, opened>>

Configured ==
  /\ loop = "configuring" /\ conn = "up"
  /\ StartSession
  /\ UNCHANGED <<pumpVars, queue, taken, arrived, conn, attempts, messages,
                 result, opened>>

\* A recoverable error: sleep and reconnect, or give up.  The finally clause of
\* _run() awaits its sender first, and a source error raised there wins.
Recover ==
  IF item = Fatal
  THEN End("source_error") /\ CloseConnection /\ UNCHANGED attempts
  ELSE /\ Charge
       /\ IF attempts' > MaxReconnects
          THEN End("failed") /\ CloseConnection
          ELSE /\ loop' = "backoff" /\ watched' = FALSE
               /\ UNCHANGED <<conn, result, pump, held>>

ConfigureFails ==
  /\ loop = "configuring" /\ conn # "up"
  /\ Recover
  /\ UNCHANGED <<read, queue, senderVars, messages, opened>>

\* The receive loop looks at its sender only if it was in the set waited for.
SenderFailureSeen == watched /\ sender = "failed"

SenderRaises ==
  /\ loop = "waiting" /\ SenderFailureSeen
  /\ Recover
  /\ DropSender
  /\ UNCHANGED <<read, queue, taken, arrived, messages, opened>>

\* asyncio.wait() returned for a sender that is done: wait for messages only.
SenderDone ==
  /\ loop = "waiting" /\ watched /\ sender = "done"
  /\ watched' = FALSE
  /\ UNCHANGED <<pumpVars, queue, senderVars, loop, conn, attempts, messages,
                 result, opened>>

\* Mutation: the transcribers' budget is refilled too.
ReceiveRefills ==
  /\ loop = "waiting" /\ ~SenderFailureSeen
  /\ messages < MaxMessages
  /\ messages' = messages + 1
  /\ attempts' = 0
  /\ loop' = "yielding"
  /\ UNCHANGED <<pumpVars, queue, senderVars, watched, conn, result, opened>>

\* A result is received (also one buffered before the peer left) and yielded.
Receive ==
  /\ loop = "waiting" /\ ~SenderFailureSeen
  /\ messages < MaxMessages
  /\ messages' = messages + 1
  /\ attempts' = IF BudgetRefills THEN 0 ELSE attempts
  /\ loop' = "yielding"
  /\ UNCHANGED <<pumpVars, queue, senderVars, watched, conn, result, opened>>

\* The consumer pulls: the next wait has the sender in its set if it still runs.
Resume ==
  /\ loop = "yielding"
  /\ loop' = "waiting"
  /\ watched' = SenderRuns
  /\ UNCHANGED <<pumpVars, queue, senderVars, conn, attempts, messages, result,
                 opened>>

\* The server's close ends the iteration, and with it the generator.
SessionEnds ==
  /\ loop = "waiting" /\ ~SenderFailureSeen /\ conn = "closed"
  /\ End(IF item = Fatal THEN "source_error" ELSE "clean")
  /\ DropSender
  /\ CloseConnection
  /\ UNCHANGED <<read, queue, taken, arrived, attempts, messages, opened>>

SessionDrops ==
  /\ loop = "waiting" /\ ~SenderFailureSeen /\ conn = "dropped"
  /\ Recover
  /\ DropSender
  /\ UNCHANGED <<read, queue, taken, arrived, messages, opened>>

BackoffEnds ==
  /\ loop = "backoff"
  /\ loop' = "connecting"
  /\ CloseConnection
  /\ UNCHANGED <<pumpVars, queue, senderVars, attempts, messages, result, opened>>

-----------------------------------------------------------------------------
(* The consumer and the server.                                            *)

\* The consumer is cancelled while the generator awaits: all finally clauses run.
Cancelled ==
  /\ loop \in {"connecting", "configuring", "waiting", "backoff"}
  /\ End("closed")
  /\ DropSender
  /\ CloseConnection
  /\ UNCHANGED <<read, queue, taken, arrived, attempts, messages, opened>>

\* The consumer closes the generator at a yield.  Nothing closes _run(), which is
\* left to the event loop with its sender still running.
Closed ==
  /\ loop = "yielding"
  /\ End("closed")
  /\ CloseConnection
  /\ UNCHANGED <<read, queue, senderVars, attempts, messages, opened>>

FinaliseRun ==
  /\ loop = "over" /\ sender # "none"
  /\ DropSender
  /\ UNCHANGED <<pumpVars, queue, taken, arrived, loop, watched, conn, attempts,
                 messages, result, opened>>

PeerLeaves(how) ==
  /\ conn = "up"
  /\ conn' = how
  /\ UNCHANGED <<pumpVars, queue, senderVars, loop, watched, attempts, messages,
                 result, opened>>

-----------------------------------------------------------------------------
PumpStep   == PumpReads \/ (\E x \in Markers : PumpEnds(x)) \/ PumpPuts
SenderStep == TakeChunk \/ TakeMarker \/ Send \/ SendFails
LoopStep ==
  \/ Connect \/ ConnectFails \/ Configured \/ ConfigureFails
  \/ SenderRaises \/ SenderDone \/ SessionEnds \/ SessionDrops \/ BackoffEnds
  \/ FinaliseRun
PeerStep == Receive \/ \E how \in {"closed", "dropped"} : PeerLeaves(how)
ConsumerStep == Resume \/ Cancelled \/ Closed

Next == PumpStep \/ SenderStep \/ LoopStep \/ PeerStep \/ ConsumerStep

Spec == Init /\ [][Next]_vars

\* The transcription service closes the stream once it was told to (external).
ServerCloses == sender = "done" /\ ClosesStream /\ PeerLeaves("closed")

\* What is fair: the source goes on, tasks of the event loop run, a consumer that has
\* not gone away pulls, and the service closes the streams it is told to close.
FairSpec ==
  /\ Spec
  /\ WF_vars(PumpStep) /\ WF_vars(SenderStep) /\ WF_vars(LoopStep)
  /\ WF_vars(Resume) /\ WF_vars(ServerCloses)

-----------------------------------------------------------------------------
(* Properties.                                                             *)

Item == (1 .. Chunks) \cup Markers

\* Every variable has its type; the queue never exceeds its bound.
TypeOK ==
  /\ read \in 0 .. Chunks
  /\ pump \in {"reading", "putting", "done", "cancelled"}
  /\ held \in Item \cup {Nothing}
  /\ queue \in Seq(Item) /\ Len(queue) <= QueueMax
  /\ sender \in {"none", "getting", "sending", "done", "failed"}
  /\ item \in Item \cup {Nothing}
  /\ loop \in {"connecting", "configuring", "waiting", "yielding", "backoff", "over"}
  /\ watched \in BOOLEAN
  /\ conn \in {"none", "up", "closed", "dropped"}
  /\ attempts \in 0 .. MaxReconnects + 1
  /\ messages \in 0 .. MaxMessages
  /\ result \in Results
  /\ taken \in 0 .. Chunks
  /\ arrived \in Seq(1 .. Chunks)
  /\ opened \in Nat

\* The queue ends with a marker.
Marked == queue # << >> /\ queue[Len(queue)] \in Markers

\* The chunks waiting in the queue.
Backlog == IF Marked THEN Len(queue) - 1 ELSE Len(queue)

\* The queue is the part of the source between the chunks taken and the chunks
\* read, with the end marker behind it from the moment the pump is done: senders
\* come and go, and each one finds the end of the audio (lines 178-190, 233-248).
QueueIsRestOfSource ==
  /\ \A i \in 1 .. Backlog : queue[i] = taken + i
  /\ taken + Backlog <= read
  /\ pump # "cancelled" => read = taken + Backlog + (IF held \in 1 .. Chunks THEN 1 ELSE 0)
  /\ pump = "done" <=> Marked

\* A chunk is being sent.
InFlight == sender = "sending" /\ item \notin Markers

\* The chunks dealt with, one way or the other.
Position == IF InFlight THEN taken - 1 ELSE taken

\* The relay has a channel while a sender runs.
Channel == IF loop = "over" THEN "over" ELSE IF SenderRuns THEN "up" ELSE "down"

\* What the service gets is what the abstract relay promises: in order, without
\* duplicates, at most one chunk lost per connection, nothing after the end.
Relay == INSTANCE AudioRelay
  WITH position <- Position, channel <- Channel

RelaysAudio == Relay!Spec

\* Over all connections no more chunks are lost than connections broke, and the
\* connection on which the sender is still alive, or has said CloseStream, has
\* lost none: when the service is told that the audio is over it has the rest.
LossBounded ==
  Position - Len(arrived) <=
    opened - (IF sender \in {"getting", "sending", "done"} THEN 1 ELSE 0)

\* The budget of the transcribers is for the whole stream: however connections
\* fail, at most MaxReconnects + 1 of them are opened (lines 147-168).
BudgetBoundsConnections == ~BudgetRefills => opened <= MaxReconnects + 1

\* The stream ends, one way or another, however the source's chunks, the drops
\* and the results interleave: no task waits for another for ever, but for a
\* generator that sleeps on while the sender it does not watch has failed.
Terminates == <>(loop = "over") \/ <>[](loop = "waiting" /\ sender = "failed" /\ ~watched)

\* deepgram_stt.py:195-196: "a sender failure is surfaced promptly (via
\* asyncio.wait) even while the receive side is blocked".
SenderFailureSurfaces == (loop = "waiting" /\ sender = "failed") => watched

\* deepgram_stt.py:162: the generator returns when "audio exhausted and stream
\* finished cleanly".
CleanEndMeansExhausted == result = "clean" => pump = "done" /\ Backlog = 0
=============================================================================
