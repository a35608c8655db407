------------------------- MODULE ReconnectStreamProofs -------------------------
(***************************************************************************)
(* Theorems about ReconnectStream, for every source, queue size, budget    *)
(* and kind of provider: its type invariant, what its queue holds, how     *)
(* much audio can be lost, how many connections a transcriber opens, and   *)
(* that it implements AudioRelay.                                          *)
(***************************************************************************)
EXTENDS MCReconnectStream, SequenceTheorems, TLAPS

\* The pump holds an item exactly while it waits for room, the last one it read.
PumpHolds ==
  /\ pump = "putting" <=> held # Nothing
  /\ held \in 1 .. Chunks => held = read

\* What a sender has in hand: the chunk taken last, or a marker.
SenderHolds ==
  /\ sender \in {"none", "getting"} => item = Nothing
  /\ sender = "sending" => item = EOS \/ item \in 1 .. Chunks
  /\ InFlight => item = taken

\* No sender without a session, no session once the generator is over.
LoopInControl ==
  /\ loop \in {"connecting", "configuring", "backoff"} => sender = "none"
  /\ loop = "connecting" => conn = "none"
  /\ loop = "over" => conn = "none" /\ pump \in {"done", "cancelled"}
  /\ loop # "over" => attempts <= MaxReconnects /\ pump # "cancelled"

\* A connection being configured has not lost a chunk yet.
NothingLostYet == loop = "configuring" => Position - Len(arrived) <= opened - 1

\* Without refills each connection but the current one was charged for.
ConnectionsCharged ==
  ~BudgetRefills =>
    /\ opened <= attempts + 1
    /\ loop \in {"connecting", "backoff"} => opened <= attempts
    /\ opened <= MaxReconnects + 1

IInv ==
  /\ TypeOK
  /\ QueueIsRestOfSource
  /\ PumpHolds
  /\ SenderHolds
  /\ LoopInControl
  /\ LossBounded
  /\ NothingLostYet
  /\ ConnectionsCharged

-----------------------------------------------------------------------------
(* The queue.                                                              *)

\* Markers and chunk numbers cannot be confused.
LEMMA MarkersAreNoChunks ==
  /\ \A x \in Markers : x \notin Nat /\ x # Nothing
  /\ Nothing \notin Nat
  /\ EOS # Fatal /\ EOS # Flaky /\ Fatal # Flaky
  BY ConstantsAssumption DEF Markers

\* queue.put() keeps the bound.
LEMMA PutTyped ==
  ASSUME TypeOK, NEW x \in Item, Put(x)
  PROVE  /\ queue' \in Seq(Item) /\ Len(queue') <= QueueMax
         /\ pump' \in {"reading", "putting", "done"}
         /\ held' \in Item \cup {Nothing}
         /\ pump' = "putting" <=> held' # Nothing
<1>1. x # Nothing
  BY MarkersAreNoChunks DEF Item
<1>2. CASE Len(queue) < QueueMax
  <2>1. queue' = Append(queue, x) /\ held' = Nothing /\ pump' \in {"reading", "done"}
    BY <1>2 DEF Put
  <2>2. queue \in Seq(Item) /\ Len(queue) \in Nat /\ QueueMax \in Nat
    BY LenProperties, ConstantsAssumption DEF TypeOK
  <2>3. queue' \in Seq(Item) /\ Len(queue') = Len(queue) + 1
    BY <2>1, <2>2, AppendProperties
  <2>4. QED
    BY <1>2, <2>1, <2>2, <2>3
<1>3. CASE ~(Len(queue) < QueueMax)
  BY <1>1, <1>3 DEF Put, TypeOK
<1>4. QED
  BY <1>2, <1>3

\* Putting the next chunk of the source, or letting the pump wait with it.
LEMMA PutChunk ==
  ASSUME TypeOK, QueueIsRestOfSource, NEW x \in 1 .. Chunks, Put(x), ~Marked,
         x = taken + Backlog + 1, read' = x, taken' = taken
  PROVE  QueueIsRestOfSource' /\ (held' \in 1 .. Chunks => held' = read')
<1>1. x \notin Markers /\ x \in Item /\ Backlog = Len(queue) /\ Nothing \notin 1 .. Chunks
  BY MarkersAreNoChunks DEF Backlog, Item
<1>2. queue \in Seq(Item) /\ Len(queue) \in Nat /\ taken \in Nat
  BY LenProperties DEF TypeOK
<1>3. CASE Len(queue) < QueueMax
  <2>1. /\ queue' = Append(queue, x) /\ held' = Nothing /\ pump' = "reading"
    BY <1>1, <1>3 DEF Put
  <2>2. /\ Len(queue') = Len(queue) + 1 /\ queue'[Len(queue) + 1] = x
        /\ \A i \in 1 .. Len(queue) : queue'[i] = queue[i]
    BY <1>1, <1>2, <2>1, AppendProperties
  <2>3. ~Marked' /\ Backlog' = Len(queue) + 1
    BY <1>1, <1>2, <2>2 DEF Marked, Backlog
  <2>4. \A i \in 1 .. Backlog' : queue'[i] = taken' + i
    BY <1>1, <1>2, <2>2, <2>3 DEF QueueIsRestOfSource
  <2>5. QED
    BY <1>1, <1>2, <2>1, <2>3, <2>4 DEF QueueIsRestOfSource
<1>4. CASE ~(Len(queue) < QueueMax)
  <2>1. queue' = queue /\ held' = x /\ pump' = "putting"
    BY <1>4 DEF Put
  <2>2. ~Marked' /\ Backlog' = Backlog
    BY <2>1 DEF Marked, Backlog
  <2>3. QED
    BY <1>1, <1>2, <2>1, <2>2 DEF QueueIsRestOfSource
<1>5. QED
  BY <1>3, <1>4

\* Putting the marker behind the last chunk, or letting the pump wait with it.
LEMMA PutMarker ==
  ASSUME TypeOK, QueueIsRestOfSource, NEW x \in Markers, Put(x), ~Marked,
         read = taken + Backlog, read' = read, taken' = taken
  PROVE  QueueIsRestOfSource' /\ (held' \in 1 .. Chunks => held' = read')
<1>1. x \notin 1 .. Chunks /\ x \in Item /\ Backlog = Len(queue) /\ Nothing \notin 1 .. Chunks
  BY MarkersAreNoChunks DEF Backlog, Item
<1>2. queue \in Seq(Item) /\ Len(queue) \in Nat /\ taken \in Nat
  BY LenProperties DEF TypeOK
<1>3. CASE Len(queue) < QueueMax
  <2>1. /\ queue' = Append(queue, x) /\ held' = Nothing /\ pump' = "done"
    BY <1>3 DEF Put
  <2>2. /\ Len(queue') = Len(queue) + 1 /\ queue'[Len(queue) + 1] = x
        /\ \A i \in 1 .. Len(queue) : queue'[i] = queue[i]
        /\ queue' # << >>
    BY <1>1, <1>2, <2>1, AppendProperties, EmptySeq
  <2>3. Marked' /\ Backlog' = Len(queue)
    BY <1>1, <1>2, <2>2 DEF Marked, Backlog
  <2>4. \A i \in 1 .. Backlog' : queue'[i] = taken' + i
    BY <1>1, <1>2, <2>2, <2>3 DEF QueueIsRestOfSource
  <2>5. QED
    BY <1>1, <1>2, <2>1, <2>3, <2>4 DEF QueueIsRestOfSource
<1>4. CASE ~(Len(queue) < QueueMax)
  <2>1. queue' = queue /\ held' = x /\ pump' = "putting"
    BY <1>4 DEF Put
  <2>2. ~Marked' /\ Backlog' = Backlog
    BY <2>1 DEF Marked, Backlog
  <2>3. QED
    BY <1>1, <1>2, <2>1, <2>2 DEF QueueIsRestOfSource
<1>5. QED
  BY <1>3, <1>4

\* A chunk at the head of the queue is the next one of the source.
LEMMA HeadIsNextChunk ==
  ASSUME TypeOK, QueueIsRestOfSource, queue # << >>, Head(queue) \notin Markers
  PROVE  /\ Backlog \in Nat \ {0} /\ Head(queue) = taken + 1
         /\ Head(queue) \in 1 .. Chunks
<1>1. queue \in Seq(Item) /\ Len(queue) \in Nat \ {0} /\ Head(queue) = queue[1]
      /\ taken \in 0 .. Chunks /\ Head(queue) \in Item
  BY HeadTailProperties, EmptySeq, LenProperties DEF TypeOK
<1>2. Backlog \in Nat \ {0}
  BY <1>1 DEF Backlog, Marked
<1>3. QED
  BY <1>1, <1>2, MarkersAreNoChunks DEF QueueIsRestOfSource, Item

\* Taking it leaves the rest of the source behind.
LEMMA TakeChunkQueue ==
  ASSUME TypeOK, QueueIsRestOfSource, queue # << >>, Head(queue) \notin Markers,
         queue' = Tail(queue), taken' = taken + 1, UNCHANGED <<read, pump, held>>
  PROVE  QueueIsRestOfSource'
<1>1. Backlog \in Nat \ {0} /\ taken \in Nat
  BY HeadIsNextChunk DEF TypeOK
<1>2. /\ queue \in Seq(Item) /\ Len(queue) \in Nat \ {0} /\ queue' \in Seq(Item)
      /\ Len(queue') = Len(queue) - 1
      /\ \A i \in 1 .. Len(queue') : queue'[i] = queue[i + 1]
      /\ queue[1] \notin Markers
  BY HeadTailProperties, EmptySeq, LenProperties DEF TypeOK
<1>3. queue' = << >> <=> Len(queue) = 1
  <2>1. queue' # << >> => Len(queue') # 0
    BY <1>2, EmptySeq
  <2>2. queue' = << >> => Len(queue') = 0
    OBVIOUS
  <2>3. QED
    BY <1>2, <2>1, <2>2
<1>4. Marked' <=> Marked
  BY <1>2, <1>3 DEF Marked
<1>5. Backlog' = Backlog - 1
  BY <1>2, <1>4 DEF Backlog
<1>6. \A i \in 1 .. Backlog' : queue'[i] = taken' + i
  <2>1. SUFFICES ASSUME NEW i \in 1 .. Backlog' PROVE queue'[i] = taken' + i
    OBVIOUS
  <2>2. i \in 1 .. Len(queue') /\ i + 1 \in 1 .. Backlog
    BY <1>1, <1>2, <1>4, <1>5 DEF Backlog
  <2>3. QED
    BY <1>1, <1>2, <2>2 DEF QueueIsRestOfSource
<1>7. taken' + Backlog' = taken + Backlog
  BY <1>1, <1>5
<1>8. QED
  BY <1>4, <1>6, <1>7 DEF QueueIsRestOfSource

\* A marker at the head is all there is, and is put back.
LEMMA TakeMarkerQueue ==
  ASSUME TypeOK, QueueIsRestOfSource, queue # << >>, Head(queue) \in Markers,
         queue' = Append(Tail(queue), Head(queue))
  PROVE  queue' = queue
<1>1. /\ queue \in Seq(Item) /\ Len(queue) \in Nat \ {0} /\ Head(queue) = queue[1]
      /\ Tail(queue) \in Seq(Item) /\ Len(Tail(queue)) = Len(queue) - 1
      /\ taken \in Nat /\ Head(queue) \in Item
  BY HeadTailProperties, EmptySeq, LenProperties DEF TypeOK
<1>2. ~(1 \in 1 .. Backlog)
  BY <1>1, MarkersAreNoChunks DEF QueueIsRestOfSource
<1>3. Len(queue) = 1
  BY <1>1, <1>2 DEF Backlog
<1>4. /\ queue' \in Seq(Item) /\ Len(queue') = 1 /\ queue'[1] = Head(queue)
  <2> DEFINE rest == Tail(queue)
             head == Head(queue)
  <2>1. rest \in Seq(Item) /\ Len(rest) = 0 /\ head \in Item
    BY <1>1, <1>3
  <2>2. Append(rest, head) \in Seq(Item) /\ Len(Append(rest, head)) = 1
        /\ Append(rest, head)[1] = head
    <3> HIDE DEF rest, head
    <3>1. QED
      BY <2>1, AppendProperties
  <2>3. QED
    BY <2>2
<1>5. \A i \in 1 .. Len(queue) : queue[i] = queue'[i]
  BY <1>1, <1>3, <1>4
<1>6. QED
  BY <1>1, <1>3, <1>4, <1>5, SeqEqual

\* The generator ends with its pump stopped; other steps leave the pump alone.
EndsPump ==
  /\ pump' = IF pump = "done" THEN "done" ELSE "cancelled"
  /\ held' = Nothing

\* A recoverable error is charged and followed by a new attempt, or ends it all.
LEMMA RecoverOutcome ==
  ASSUME TypeOK, LoopInControl, Recover, loop # "over"
  PROVE  \/ /\ loop' = "backoff" /\ watched' = FALSE /\ attempts' = attempts + 1
            /\ attempts' \in 0 .. MaxReconnects
            /\ UNCHANGED <<conn, result, pump, held>>
         \/ /\ loop' = "over" /\ watched' = FALSE /\ conn' = "none"
            /\ attempts' \in {attempts, attempts + 1}
            /\ attempts' \in 0 .. MaxReconnects + 1
            /\ result' \in Results /\ EndsPump
<1>1. attempts \in Nat /\ attempts <= MaxReconnects /\ MaxReconnects \in Nat
  BY ConstantsAssumption DEF TypeOK, LoopInControl
<1>2. CASE item = Fatal
  BY <1>1, <1>2 DEF Recover, End, EndsPump, CloseConnection, Results
<1>3. CASE item # Fatal /\ attempts + 1 > MaxReconnects
  BY <1>1, <1>3 DEF Recover, Charge, End, EndsPump, CloseConnection, Results
<1>4. CASE item # Fatal /\ ~(attempts + 1 > MaxReconnects)
  BY <1>1, <1>4 DEF Recover, Charge
<1>5. QED
  BY <1>2, <1>3, <1>4

\* So is a failure to connect.
LEMMA ConnectFailsOutcome ==
  ASSUME TypeOK, LoopInControl, ConnectFails
  PROVE  \/ /\ loop' = "connecting" /\ attempts' = attempts + 1
            /\ attempts' \in 0 .. MaxReconnects
            /\ UNCHANGED <<result, pump, held>>
         \/ /\ loop' = "over" /\ attempts' \in {attempts, attempts + 1}
            /\ attempts' \in 0 .. MaxReconnects + 1
            /\ result' \in Results /\ EndsPump
<1>1. attempts \in Nat /\ attempts <= MaxReconnects /\ MaxReconnects \in Nat
  BY ConstantsAssumption DEF TypeOK, LoopInControl, ConnectFails
<1>2. CASE Charge /\ attempts + 1 > MaxReconnects
  BY <1>1, <1>2 DEF ConnectFails, Charge, End, EndsPump, Results
<1>3. CASE Charge /\ ~(attempts + 1 > MaxReconnects)
  BY <1>1, <1>3 DEF ConnectFails, Charge
<1>4. CASE ~Charge
  BY <1>1, <1>4 DEF ConnectFails, End, EndsPump, Results
<1>5. QED
  BY <1>2, <1>3, <1>4

\* A connection opens with its sender, or is configured first.
LEMMA ConnectOutcome ==
  ASSUME TypeOK, Connect
  PROVE  \/ loop' = "configuring" /\ UNCHANGED <<sender, item, watched>>
         \/ loop' = "waiting" /\ sender' = "getting" /\ item' = Nothing /\ watched' = TRUE
  BY ConstantsAssumption DEF Connect, StartSession

\* It keeps the types of what it changes.
LEMMA RecoverTyped ==
  ASSUME TypeOK, LoopInControl, Recover, loop # "over"
  PROVE  /\ pump' \in {"reading", "putting", "done", "cancelled"}
         /\ held' \in Item \cup {Nothing}
         /\ loop' \in {"backoff", "over"} /\ watched' = FALSE
         /\ conn' \in {"none", "up", "closed", "dropped"}
         /\ attempts' \in 0 .. MaxReconnects + 1
         /\ result' \in Results
<1>1. MaxReconnects \in Nat
  BY ConstantsAssumption
<1>2. /\ pump \in {"reading", "putting", "done", "cancelled"}
      /\ held \in Item \cup {Nothing}
      /\ conn \in {"none", "up", "closed", "dropped"} /\ result \in Results
  BY DEF TypeOK
<1>3. CASE loop' = "backoff"
  BY <1>1, <1>2, <1>3, RecoverOutcome
<1>4. CASE loop' # "backoff"
  BY <1>1, <1>2, <1>4, RecoverOutcome DEF EndsPump
<1>5. QED
  BY <1>3, <1>4

\* The same for a failure to connect.
LEMMA ConnectFailsTyped ==
  ASSUME TypeOK, LoopInControl, ConnectFails
  PROVE  /\ pump' \in {"reading", "putting", "done", "cancelled"}
         /\ held' \in Item \cup {Nothing}
         /\ loop' \in {"connecting", "over"}
         /\ attempts' \in 0 .. MaxReconnects + 1
         /\ result' \in Results
<1>1. MaxReconnects \in Nat
  BY ConstantsAssumption
<1>2. /\ pump \in {"reading", "putting", "done", "cancelled"}
      /\ held \in Item \cup {Nothing} /\ result \in Results
  BY DEF TypeOK
<1>3. CASE loop' = "connecting"
  BY <1>1, <1>2, <1>3, ConnectFailsOutcome
<1>4. CASE loop' # "connecting"
  BY <1>1, <1>2, <1>4, ConnectFailsOutcome DEF EndsPump
<1>5. QED
  BY <1>3, <1>4

\* Every step keeps the types.
LEMMA TypeStep ==
  ASSUME TypeOK, QueueIsRestOfSource, PumpHolds, SenderHolds, LoopInControl, [Next]_vars
  PROVE  TypeOK'
<1> USE ConstantsAssumption
<1>1. CASE PumpReads
  <2>1. read + 1 \in Item /\ Put(read + 1)
    BY <1>1 DEF PumpReads, TypeOK, Item
  <2>2. /\ queue' \in Seq(Item) /\ Len(queue') <= QueueMax
        /\ pump' \in {"reading", "putting", "done"} /\ held' \in Item \cup {Nothing}
    BY <2>1, PutTyped
  <2>3. QED
    BY <1>1, <2>2 DEF PumpReads, senderVars, TypeOK
<1>2. ASSUME NEW x \in Markers, PumpEnds(x)
      PROVE  TypeOK'
  <2>1. x \in Item /\ Put(x)
    BY <1>2 DEF PumpEnds, Item
  <2>2. /\ queue' \in Seq(Item) /\ Len(queue') <= QueueMax
        /\ pump' \in {"reading", "putting", "done"} /\ held' \in Item \cup {Nothing}
    BY <2>1, PutTyped
  <2>3. QED
    BY <1>2, <2>2 DEF PumpEnds, senderVars, TypeOK
<1>3. CASE PumpPuts
  <2>1. held \in Item /\ Put(held)
    BY <1>3 DEF PumpPuts, TypeOK, PumpHolds
  <2>2. /\ queue' \in Seq(Item) /\ Len(queue') <= QueueMax
        /\ pump' \in {"reading", "putting", "done"} /\ held' \in Item \cup {Nothing}
    BY <2>1, PutTyped
  <2>3. QED
    BY <1>3, <2>2 DEF PumpPuts, senderVars, TypeOK
<1>4. CASE TakeChunk
  <2>1. Head(queue) = taken + 1 /\ Head(queue) \in 1 .. Chunks
    BY <1>4, HeadIsNextChunk DEF TakeChunk
  <2>2. queue' \in Seq(Item) /\ Len(queue') <= QueueMax
    <3>1. queue' = Tail(queue) /\ queue \in Seq(Item) /\ queue # << >>
          /\ Len(queue) <= QueueMax /\ Len(queue) \in Nat /\ QueueMax \in Nat
      BY <1>4, LenProperties DEF TakeChunk, TypeOK
    <3>2. QED
      BY <3>1, HeadTailProperties
  <2>3. taken' \in 0 .. Chunks /\ item' \in Item
    BY <1>4, <2>1 DEF TakeChunk, TypeOK, Item
  <2>4. QED
    BY <1>4, <2>2, <2>3 DEF TakeChunk, pumpVars, TypeOK
<1>5. CASE TakeMarker
  <2>1. queue' = queue
    BY <1>5, TakeMarkerQueue DEF TakeMarker, Remark
  <2>2. item' \in Item /\ sender' \in {"sending", "done", "failed"}
    BY <1>5 DEF TakeMarker, Item
  <2>3. QED
    BY <1>5, <2>1, <2>2 DEF TakeMarker, pumpVars, TypeOK
<1>6. CASE Send
  <2>1. arrived' \in Seq(1 .. Chunks)
    <3>1. CASE item = EOS
      BY <1>6, <3>1 DEF Send, TypeOK
    <3>2. CASE item # EOS
      <4>1. item \in 1 .. Chunks /\ arrived \in Seq(1 .. Chunks)
        BY <1>6, <3>2 DEF Send, SenderHolds, TypeOK
      <4>2. arrived' = Append(arrived, item)
        BY <1>6, <3>2 DEF Send
      <4>3. QED
        BY <4>1, <4>2, AppendProperties
    <3>3. QED
      BY <3>1, <3>2
  <2>2. QED
    BY <1>6, <2>1 DEF Send, pumpVars, TypeOK
<1>7. CASE SendFails
  BY <1>7 DEF SendFails, senderVars, pumpVars, TypeOK, Results, LoopInControl
<1>8. CASE Connect
  <2>1. CASE UNCHANGED <<sender, item, watched>> /\ loop' = "configuring"
    BY <1>8, <2>1 DEF Connect, pumpVars, TypeOK
  <2>2. CASE sender' = "getting" /\ item' = Nothing /\ watched' = TRUE /\ loop' = "waiting"
    BY <1>8, <2>2 DEF Connect, pumpVars, TypeOK
  <2>3. QED
    BY <1>8, <2>1, <2>2, ConnectOutcome
<1>9. CASE ConnectFails
  <2>1. /\ pump' \in {"reading", "putting", "done", "cancelled"}
        /\ held' \in Item \cup {Nothing}
        /\ loop' \in {"connecting", "over"}
        /\ attempts' \in 0 .. MaxReconnects + 1
        /\ result' \in Results
    BY <1>9, ConnectFailsTyped
  <2>2. QED
    BY <1>9, <2>1 DEF ConnectFails, senderVars, TypeOK
<1>10. CASE Configured
  BY <1>10 DEF Configured, StartSession, senderVars, pumpVars, TypeOK, Results,
       LoopInControl
<1>11. CASE ConfigureFails
  <2>1. Recover /\ loop # "over"
    BY <1>11 DEF ConfigureFails
  <2>2. UNCHANGED <<read, queue, taken, arrived, messages, opened>>
    BY <1>11 DEF ConfigureFails, senderVars
  <2>3. sender' \in {sender, "none"} /\ item' \in {item, Nothing}
    BY <1>11 DEF ConfigureFails, senderVars
  <2>4. /\ pump' \in {"reading", "putting", "done", "cancelled"}
        /\ held' \in Item \cup {Nothing}
        /\ loop' \in {"backoff", "over"} /\ watched' = FALSE
        /\ conn' \in {"none", "up", "closed", "dropped"}
        /\ attempts' \in 0 .. MaxReconnects + 1
        /\ result' \in Results
    BY <2>1, RecoverTyped
  <2>5. QED
    BY <2>2, <2>3, <2>4 DEF TypeOK
<1>12. CASE SenderRaises
  <2>1. Recover /\ loop # "over"
    BY <1>12 DEF SenderRaises
  <2>2. UNCHANGED <<read, queue, taken, arrived, messages, opened>>
    BY <1>12 DEF SenderRaises, senderVars
  <2>3. sender' \in {sender, "none"} /\ item' \in {item, Nothing}
    BY <1>12 DEF SenderRaises, senderVars, DropSender
  <2>4. /\ pump' \in {"reading", "putting", "done", "cancelled"}
        /\ held' \in Item \cup {Nothing}
        /\ loop' \in {"backoff", "over"} /\ watched' = FALSE
        /\ conn' \in {"none", "up", "closed", "dropped"}
        /\ attempts' \in 0 .. MaxReconnects + 1
        /\ result' \in Results
    BY <2>1, RecoverTyped
  <2>5. QED
    BY <2>2, <2>3, <2>4 DEF TypeOK
<1>13. CASE SenderDone
  BY <1>13 DEF SenderDone, senderVars, pumpVars, TypeOK, Results, LoopInControl
<1>14. CASE SessionEnds
  BY <1>14 DEF SessionEnds, End, DropSender, CloseConnection, SenderFailureSeen,
       senderVars, pumpVars, TypeOK, Results, LoopInControl
<1>15. CASE SessionDrops
  <2>1. Recover /\ loop # "over"
    BY <1>15 DEF SessionDrops
  <2>2. UNCHANGED <<read, queue, taken, arrived, messages, opened>>
    BY <1>15 DEF SessionDrops, senderVars
  <2>3. sender' \in {sender, "none"} /\ item' \in {item, Nothing}
    BY <1>15 DEF SessionDrops, senderVars, DropSender
  <2>4. /\ pump' \in {"reading", "putting", "done", "cancelled"}
        /\ held' \in Item \cup {Nothing}
        /\ loop' \in {"backoff", "over"} /\ watched' = FALSE
        /\ conn' \in {"none", "up", "closed", "dropped"}
        /\ attempts' \in 0 .. MaxReconnects + 1
        /\ result' \in Results
    BY <2>1, RecoverTyped
  <2>5. QED
    BY <2>2, <2>3, <2>4 DEF TypeOK
<1>16. CASE BackoffEnds
  BY <1>16 DEF BackoffEnds, CloseConnection, senderVars, pumpVars, TypeOK, Results,
       LoopInControl
<1>17. CASE FinaliseRun
  BY <1>17 DEF FinaliseRun, DropSender, senderVars, pumpVars, TypeOK, Results,
       LoopInControl
<1>18. CASE Receive
  BY <1>18 DEF Receive, SenderFailureSeen, senderVars, pumpVars, TypeOK, Results,
       LoopInControl
<1>19. ASSUME NEW how \in {"closed", "dropped"}, PeerLeaves(how)
      PROVE  TypeOK'
  BY <1>19 DEF PeerLeaves, senderVars, pumpVars, TypeOK, Results, LoopInControl
<1>20. CASE Resume
  BY <1>20 DEF Resume, SenderRuns, senderVars, pumpVars, TypeOK, Results,
       LoopInControl
<1>21. CASE Cancelled
  BY <1>21 DEF Cancelled, End, DropSender, CloseConnection, senderVars, pumpVars,
       TypeOK, Results, LoopInControl
<1>22. CASE Closed
  BY <1>22 DEF Closed, End, CloseConnection, senderVars, pumpVars, TypeOK, Results,
       LoopInControl
<1>23. CASE UNCHANGED vars
  BY <1>23 DEF vars, senderVars, pumpVars, TypeOK, Results, LoopInControl
<1>24. QED
  BY <1>1, <1>2, <1>3, <1>4, <1>5, <1>6, <1>7, <1>8, <1>9, <1>10, <1>11, <1>12,
       <1>13, <1>14, <1>15, <1>16, <1>17, <1>18, <1>19, <1>20, <1>21, <1>22, <1>23
       DEF Next, PumpStep, SenderStep, LoopStep, PeerStep, ConsumerStep

\* A step that leaves the queue alone leaves the rest of the source in it.
LEMMA QueueUntouched ==
  ASSUME TypeOK, QueueIsRestOfSource, PumpHolds, UNCHANGED <<read, queue, taken>>,
         UNCHANGED <<pump, held>> \/ EndsPump
  PROVE  QueueIsRestOfSource' /\ PumpHolds'
<1>1. Marked' = Marked /\ Backlog' = Backlog
  BY DEF Marked, Backlog
<1>2. CASE UNCHANGED <<pump, held>>
  BY <1>1, <1>2 DEF QueueIsRestOfSource, PumpHolds
<1>3. CASE EndsPump
  <2>1. Nothing \notin 1 .. Chunks
    BY MarkersAreNoChunks
  <2>2. pump = "done" => held = Nothing
    BY DEF PumpHolds
  <2>3. QED
    BY <1>1, <1>3, <2>1, <2>2 DEF EndsPump, QueueIsRestOfSource, PumpHolds
<1>4. QED
  BY <1>2, <1>3

\* Every step keeps the rest of the source in the queue.
LEMMA QueueStep ==
  ASSUME TypeOK, QueueIsRestOfSource, PumpHolds, LoopInControl, [Next]_vars
  PROVE  QueueIsRestOfSource' /\ PumpHolds'
<1> USE ConstantsAssumption
<1>1. CASE PumpReads
  <2>1. pump # "done" /\ pump # "cancelled" /\ pump = "reading"
    BY <1>1 DEF PumpReads
  <2>2. ~Marked
    BY <2>1 DEF QueueIsRestOfSource
  <2>3. read + 1 \in 1 .. Chunks /\ read + 1 \in Item /\ Put(read + 1)
        /\ read' = read + 1 /\ taken' = taken
    BY <1>1 DEF PumpReads, senderVars, TypeOK, Item
  <2>4. QueueIsRestOfSource' /\ (held' \in 1 .. Chunks => held' = read')
    <3>1. held \notin 1 .. Chunks
      BY <2>1, MarkersAreNoChunks DEF PumpHolds
    <3>2. read = taken + Backlog
      <4>1. taken \in Nat /\ Backlog \in Nat
        BY LenProperties, <2>2 DEF TypeOK, Backlog
      <4>2. QED
        BY <2>1, <3>1, <4>1 DEF QueueIsRestOfSource
    <3>3. QED
      BY <2>2, <2>3, <3>2, PutChunk
  <2>5. pump' = "putting" <=> held' # Nothing
    BY <2>3, PutTyped
  <2>6. QED
    BY <2>4, <2>5 DEF PumpHolds
<1>2. ASSUME NEW x \in Markers, PumpEnds(x)
      PROVE  QueueIsRestOfSource' /\ PumpHolds'
  <2>1. pump # "done" /\ pump # "cancelled" /\ pump = "reading"
    BY <1>2 DEF PumpEnds
  <2>2. ~Marked
    BY <2>1 DEF QueueIsRestOfSource
  <2>3. x \in Item /\ Put(x) /\ read' = read /\ taken' = taken
    BY <1>2 DEF PumpEnds, senderVars, Item
  <2>4. QueueIsRestOfSource' /\ (held' \in 1 .. Chunks => held' = read')
    <3>1. held \notin 1 .. Chunks
      BY <2>1, MarkersAreNoChunks DEF PumpHolds
    <3>2. read = taken + Backlog
      <4>1. taken \in Nat /\ Backlog \in Nat
        BY LenProperties, <2>2 DEF TypeOK, Backlog
      <4>2. QED
        BY <2>1, <3>1, <4>1 DEF QueueIsRestOfSource
    <3>3. QED
      BY <1>2, <2>2, <2>3, <3>2, PutMarker
  <2>5. pump' = "putting" <=> held' # Nothing
    BY <2>3, PutTyped
  <2>6. QED
    BY <2>4, <2>5 DEF PumpHolds
<1>3. CASE PumpPuts
  <2>1. pump # "done" /\ pump # "cancelled" /\ pump = "putting"
    BY <1>3 DEF PumpPuts
  <2>2. ~Marked
    BY <2>1 DEF QueueIsRestOfSource
  <2>3. held \in Item /\ Put(held) /\ read' = read /\ taken' = taken
    BY <2>1, <1>3 DEF PumpPuts, senderVars, TypeOK, PumpHolds
  <2>4. QueueIsRestOfSource' /\ (held' \in 1 .. Chunks => held' = read')
    <3>1. taken \in Nat /\ Backlog \in Nat
      BY LenProperties, <2>2 DEF TypeOK, Backlog
    <3>2. CASE held \in 1 .. Chunks
      <4>1. held = taken + Backlog + 1 /\ read' = held
        BY <2>1, <2>3, <3>1, <3>2 DEF QueueIsRestOfSource, PumpHolds
      <4>2. QED
        BY <2>2, <2>3, <3>2, <4>1, PutChunk
    <3>3. CASE held \in Markers
      <4>1. held \notin 1 .. Chunks
        BY <3>3, MarkersAreNoChunks
      <4>2. read = taken + Backlog
        BY <2>1, <3>1, <4>1 DEF QueueIsRestOfSource
      <4>3. QED
        BY <2>2, <2>3, <3>3, <4>2, PutMarker
    <3>4. QED
      BY <2>3, <3>2, <3>3 DEF Item
  <2>5. pump' = "putting" <=> held' # Nothing
    BY <2>3, PutTyped
  <2>6. QED
    BY <2>4, <2>5 DEF PumpHolds
<1>4. CASE TakeChunk
  <2>1. UNCHANGED <<read, pump, held>>
    BY <1>4 DEF TakeChunk, pumpVars
  <2>2. QueueIsRestOfSource'
    BY <1>4, <2>1, TakeChunkQueue DEF TakeChunk
  <2>3. QED
    BY <2>1, <2>2 DEF PumpHolds
<1>5. CASE TakeMarker
  <2>1. queue' = queue
    BY <1>5, TakeMarkerQueue DEF TakeMarker, Remark
  <2>2. QED
    BY <1>5, <2>1, QueueUntouched DEF TakeMarker, pumpVars
<1>6. CASE Send
  <2>1. UNCHANGED <<read, queue, taken>>
    BY <1>6 DEF Send, senderVars, pumpVars
  <2>2. UNCHANGED <<pump, held>> \/ EndsPump
    BY <1>6 DEF Send, pumpVars
  <2>3. QED
    BY <2>1, <2>2, QueueUntouched
<1>7. CASE SendFails
  <2>1. UNCHANGED <<read, queue, taken>>
    BY <1>7 DEF SendFails, senderVars, pumpVars
  <2>2. UNCHANGED <<pump, held>> \/ EndsPump
    BY <1>7 DEF SendFails, pumpVars
  <2>3. QED
    BY <2>1, <2>2, QueueUntouched
<1>8. CASE Connect
  <2>1. UNCHANGED <<read, queue, taken>>
    BY <1>8 DEF Connect, senderVars, pumpVars
  <2>2. UNCHANGED <<pump, held>> \/ EndsPump
    BY <1>8 DEF Connect, pumpVars
  <2>3. QED
    BY <2>1, <2>2, QueueUntouched
<1>9. CASE ConnectFails
  <2>1. UNCHANGED <<read, queue, taken>>
    BY <1>9 DEF ConnectFails, senderVars, pumpVars
  <2>2. UNCHANGED <<pump, held>> \/ EndsPump
    BY <1>9, ConnectFailsOutcome
  <2>3. QED
    BY <2>1, <2>2, QueueUntouched
<1>10. CASE Configured
  <2>1. UNCHANGED <<read, queue, taken>>
    BY <1>10 DEF Configured, senderVars, pumpVars
  <2>2. UNCHANGED <<pump, held>> \/ EndsPump
    BY <1>10 DEF Configured, pumpVars
  <2>3. QED
    BY <2>1, <2>2, QueueUntouched
<1>11. CASE ConfigureFails
  <2>1. UNCHANGED <<read, queue, taken>>
    BY <1>11 DEF ConfigureFails, senderVars, pumpVars
  <2>2. UNCHANGED <<pump, held>> \/ EndsPump
    BY <1>11, RecoverOutcome DEF ConfigureFails
  <2>3. QED
    BY <2>1, <2>2, QueueUntouched
<1>12. CASE SenderRaises
  <2>1. UNCHANGED <<read, queue, taken>>
    BY <1>12 DEF SenderRaises, senderVars, pumpVars
  <2>2. UNCHANGED <<pump, held>> \/ EndsPump
    BY <1>12, RecoverOutcome DEF SenderRaises
  <2>3. QED
    BY <2>1, <2>2, QueueUntouched
<1>13. CASE SenderDone
  <2>1. UNCHANGED <<read, queue, taken>>
    BY <1>13 DEF SenderDone, senderVars, pumpVars
  <2>2. UNCHANGED <<pump, held>> \/ EndsPump
    BY <1>13 DEF SenderDone, pumpVars
  <2>3. QED
    BY <2>1, <2>2, QueueUntouched
<1>14. CASE SessionEnds
  <2>1. UNCHANGED <<read, queue, taken>>
    BY <1>14 DEF SessionEnds, senderVars, pumpVars
  <2>2. UNCHANGED <<pump, held>> \/ EndsPump
    BY <1>14 DEF SessionEnds, End, EndsPump
  <2>3. QED
    BY <2>1, <2>2, QueueUntouched
<1>15. CASE SessionDrops
  <2>1. UNCHANGED <<read, queue, taken>>
    BY <1>15 DEF SessionDrops, senderVars, pumpVars
  <2>2. UNCHANGED <<pump, held>> \/ EndsPump
    BY <1>15, RecoverOutcome DEF SessionDrops
  <2>3. QED
    BY <2>1, <2>2, QueueUntouched
<1>16. CASE BackoffEnds
  <2>1. UNCHANGED <<read, queue, taken>>
    BY <1>16 DEF BackoffEnds, senderVars, pumpVars
  <2>2. UNCHANGED <<pump, held>> \/ EndsPump
    BY <1>16 DEF BackoffEnds, pumpVars
  <2>3. QED
    BY <2>1, <2>2, QueueUntouched
<1>17. CASE FinaliseRun
  <2>1. UNCHANGED <<read, queue, taken>>
    BY <1>17 DEF FinaliseRun, senderVars, pumpVars
  <2>2. UNCHANGED <<pump, held>> \/ EndsPump
    BY <1>17 DEF FinaliseRun, pumpVars
  <2>3. QED
    BY <2>1, <2>2, QueueUntouched
<1>18. CASE Receive
  <2>1. UNCHANGED <<read, queue, taken>>
    BY <1>18 DEF Receive, senderVars, pumpVars
  <2>2. UNCHANGED <<pump, held>> \/ EndsPump
    BY <1>18 DEF Receive, pumpVars
  <2>3. QED
    BY <2>1, <2>2, QueueUntouched
<1>19. ASSUME NEW how \in {"closed", "dropped"}, PeerLeaves(how)
      PROVE  QueueIsRestOfSource' /\ PumpHolds'
  <2>1. UNCHANGED <<read, queue, taken>>
    BY <1>19 DEF PeerLeaves, senderVars, pumpVars
  <2>2. UNCHANGED <<pump, held>> \/ EndsPump
    BY <1>19 DEF PeerLeaves, pumpVars
  <2>3. QED
    BY <2>1, <2>2, QueueUntouched
<1>20. CASE Resume
  <2>1. UNCHANGED <<read, queue, taken>>
    BY <1>20 DEF Resume, senderVars, pumpVars
  <2>2. UNCHANGED <<pump, held>> \/ EndsPump
    BY <1>20 DEF Resume, pumpVars
  <2>3. QED
    BY <2>1, <2>2, QueueUntouched
<1>21. CASE Cancelled
  <2>1. UNCHANGED <<read, queue, taken>>
    BY <1>21 DEF Cancelled, senderVars, pumpVars
  <2>2. UNCHANGED <<pump, held>> \/ EndsPump
    BY <1>21 DEF Cancelled, End, EndsPump
  <2>3. QED
    BY <2>1, <2>2, QueueUntouched
<1>22. CASE Closed
  <2>1. UNCHANGED <<read, queue, taken>>
    BY <1>22 DEF Closed, senderVars, pumpVars
  <2>2. UNCHANGED <<pump, held>> \/ EndsPump
    BY <1>22 DEF Closed, End, EndsPump
  <2>3. QED
    BY <2>1, <2>2, QueueUntouched
<1>23. CASE UNCHANGED vars
  BY <1>23, QueueUntouched DEF vars, senderVars, pumpVars
<1>24. QED
  BY <1>1, <1>2, <1>3, <1>4, <1>5, <1>6, <1>7, <1>8, <1>9, <1>10, <1>11, <1>12,
       <1>13, <1>14, <1>15, <1>16, <1>17, <1>18, <1>19, <1>20, <1>21, <1>22, <1>23
       DEF Next, PumpStep, SenderStep, LoopStep, PeerStep, ConsumerStep

\* A step that leaves the sender alone, ends it or starts one.
LEMMA SenderQuiet ==
  ASSUME SenderHolds,
         \/ UNCHANGED <<sender, item, taken>>
         \/ sender' \in {"none", "getting"} /\ item' = Nothing
  PROVE  SenderHolds'
  BY DEF SenderHolds, InFlight

\* Every step keeps what the sender has in hand.
LEMMA SenderStepHolds ==
  ASSUME TypeOK, QueueIsRestOfSource, SenderHolds, [Next]_vars
  PROVE  SenderHolds'
<1>1. CASE PumpReads
  <2>1. \/ UNCHANGED <<sender, item, taken>>
        \/ sender' \in {"none", "getting"} /\ item' = Nothing
    BY <1>1 DEF PumpReads, senderVars
  <2>2. QED
    BY <2>1, SenderQuiet
<1>2. ASSUME NEW x \in Markers, PumpEnds(x)
      PROVE  SenderHolds'
  <2>1. \/ UNCHANGED <<sender, item, taken>>
        \/ sender' \in {"none", "getting"} /\ item' = Nothing
    BY <1>2 DEF PumpEnds, senderVars
  <2>2. QED
    BY <2>1, SenderQuiet
<1>3. CASE PumpPuts
  <2>1. \/ UNCHANGED <<sender, item, taken>>
        \/ sender' \in {"none", "getting"} /\ item' = Nothing
    BY <1>3 DEF PumpPuts, senderVars
  <2>2. QED
    BY <2>1, SenderQuiet
<1>4. CASE TakeChunk
  <2>1. item' = taken' /\ sender' = "sending" /\ item' \in 1 .. Chunks
    BY <1>4, HeadIsNextChunk DEF TakeChunk
  <2>2. QED
    BY <2>1 DEF SenderHolds
<1>5. CASE TakeMarker
  <2>1. item' \in Markers /\ sender' \in {"sending", "done", "failed"}
        /\ (sender' = "sending" => item' = EOS)
    BY <1>5 DEF TakeMarker
  <2>2. QED
    BY <2>1 DEF SenderHolds, InFlight
<1>6. CASE Send
  BY <1>6 DEF Send, SenderHolds, InFlight
<1>7. CASE SendFails
  BY <1>7 DEF SendFails, SenderHolds, InFlight
<1>8. CASE Connect
  <2>1. \/ UNCHANGED <<sender, item, taken>>
        \/ sender' \in {"none", "getting"} /\ item' = Nothing
    BY <1>8 DEF Connect, StartSession, senderVars
  <2>2. QED
    BY <2>1, SenderQuiet
<1>9. CASE ConnectFails
  <2>1. \/ UNCHANGED <<sender, item, taken>>
        \/ sender' \in {"none", "getting"} /\ item' = Nothing
    BY <1>9 DEF ConnectFails, senderVars
  <2>2. QED
    BY <2>1, SenderQuiet
<1>10. CASE Configured
  <2>1. \/ UNCHANGED <<sender, item, taken>>
        \/ sender' \in {"none", "getting"} /\ item' = Nothing
    BY <1>10 DEF Configured, StartSession, senderVars
  <2>2. QED
    BY <2>1, SenderQuiet
<1>11. CASE ConfigureFails
  <2>1. \/ UNCHANGED <<sender, item, taken>>
        \/ sender' \in {"none", "getting"} /\ item' = Nothing
    BY <1>11 DEF ConfigureFails, senderVars
  <2>2. QED
    BY <2>1, SenderQuiet
<1>12. CASE SenderRaises
  <2>1. \/ UNCHANGED <<sender, item, taken>>
        \/ sender' \in {"none", "getting"} /\ item' = Nothing
    BY <1>12 DEF SenderRaises, DropSender, senderVars
  <2>2. QED
    BY <2>1, SenderQuiet
<1>13. CASE SenderDone
  <2>1. \/ UNCHANGED <<sender, item, taken>>
        \/ sender' \in {"none", "getting"} /\ item' = Nothing
    BY <1>13 DEF SenderDone, senderVars
  <2>2. QED
    BY <2>1, SenderQuiet
<1>14. CASE SessionEnds
  <2>1. \/ UNCHANGED <<sender, item, taken>>
        \/ sender' \in {"none", "getting"} /\ item' = Nothing
    BY <1>14 DEF SessionEnds, DropSender, senderVars
  <2>2. QED
    BY <2>1, SenderQuiet
<1>15. CASE SessionDrops
  <2>1. \/ UNCHANGED <<sender, item, taken>>
        \/ sender' \in {"none", "getting"} /\ item' = Nothing
    BY <1>15 DEF SessionDrops, DropSender, senderVars
  <2>2. QED
    BY <2>1, SenderQuiet
<1>16. CASE BackoffEnds
  <2>1. \/ UNCHANGED <<sender, item, taken>>
        \/ sender' \in {"none", "getting"} /\ item' = Nothing
    BY <1>16 DEF BackoffEnds, senderVars
  <2>2. QED
    BY <2>1, SenderQuiet
<1>17. CASE FinaliseRun
  <2>1. \/ UNCHANGED <<sender, item, taken>>
        \/ sender' \in {"none", "getting"} /\ item' = Nothing
    BY <1>17 DEF FinaliseRun, DropSender, senderVars
  <2>2. QED
    BY <2>1, SenderQuiet
<1>18. CASE Receive
  <2>1. \/ UNCHANGED <<sender, item, taken>>
        \/ sender' \in {"none", "getting"} /\ item' = Nothing
    BY <1>18 DEF Receive, senderVars
  <2>2. QED
    BY <2>1, SenderQuiet
<1>19. ASSUME NEW how \in {"closed", "dropped"}, PeerLeaves(how)
      PROVE  SenderHolds'
  <2>1. \/ UNCHANGED <<sender, item, taken>>
        \/ sender' \in {"none", "getting"} /\ item' = Nothing
    BY <1>19 DEF PeerLeaves, senderVars
  <2>2. QED
    BY <2>1, SenderQuiet
<1>20. CASE Resume
  <2>1. \/ UNCHANGED <<sender, item, taken>>
        \/ sender' \in {"none", "getting"} /\ item' = Nothing
    BY <1>20 DEF Resume, senderVars
  <2>2. QED
    BY <2>1, SenderQuiet
<1>21. CASE Cancelled
  <2>1. \/ UNCHANGED <<sender, item, taken>>
        \/ sender' \in {"none", "getting"} /\ item' = Nothing
    BY <1>21 DEF Cancelled, DropSender, senderVars
  <2>2. QED
    BY <2>1, SenderQuiet
<1>22. CASE Closed
  <2>1. \/ UNCHANGED <<sender, item, taken>>
        \/ sender' \in {"none", "getting"} /\ item' = Nothing
    BY <1>22 DEF Closed, senderVars
  <2>2. QED
    BY <2>1, SenderQuiet
<1>23. CASE UNCHANGED vars
  BY <1>23, SenderQuiet DEF vars, senderVars
<1>24. QED
  BY <1>1, <1>2, <1>3, <1>4, <1>5, <1>6, <1>7, <1>8, <1>9, <1>10, <1>11, <1>12,
       <1>13, <1>14, <1>15, <1>16, <1>17, <1>18, <1>19, <1>20, <1>21, <1>22, <1>23
       DEF Next, PumpStep, SenderStep, LoopStep, PeerStep, ConsumerStep

\* Every step keeps sender, socket and pump within the generator's control.
LEMMA ControlStep ==
  ASSUME TypeOK, LoopInControl, [Next]_vars
  PROVE  LoopInControl'
<1>1. CASE PumpReads
  BY <1>1 DEF PumpReads, Put, senderVars, LoopInControl
<1>2. ASSUME NEW x \in Markers, PumpEnds(x)
      PROVE  LoopInControl'
  BY <1>2 DEF PumpEnds, Put, senderVars, LoopInControl
<1>3. CASE PumpPuts
  BY <1>3 DEF PumpPuts, Put, senderVars, LoopInControl
<1>4. CASE TakeChunk
  BY <1>4 DEF TakeChunk, senderVars, pumpVars, LoopInControl
<1>5. CASE TakeMarker
  BY <1>5 DEF TakeMarker, Remark, senderVars, pumpVars, LoopInControl
<1>6. CASE Send
  BY <1>6 DEF Send, senderVars, pumpVars, LoopInControl
<1>7. CASE SendFails
  BY <1>7 DEF SendFails, senderVars, pumpVars, LoopInControl
<1>8. CASE Connect
  BY <1>8, ConnectOutcome DEF Connect, pumpVars, LoopInControl
<1>9. CASE ConnectFails
  <2>1. loop = "connecting" /\ UNCHANGED <<sender, conn>> /\ pump # "cancelled"
    BY <1>9 DEF ConnectFails, senderVars, LoopInControl
  <2>2. CASE loop' = "connecting"
    BY <1>9, <2>1, <2>2, ConnectFailsOutcome DEF LoopInControl
  <2>3. CASE loop' # "connecting"
    <3>1. conn' = "none"
      BY <2>1 DEF LoopInControl
    <3>2. loop' = "over" /\ EndsPump
      BY <1>9, <2>3, ConnectFailsOutcome
    <3>3. QED
      BY <2>1, <3>1, <3>2 DEF LoopInControl, EndsPump
  <2>4. QED
    BY <2>2, <2>3
<1>10. CASE Configured
  BY <1>10 DEF Configured, StartSession, senderVars, pumpVars, LoopInControl
<1>11. CASE ConfigureFails
  <2>1. Recover /\ loop # "over" /\ sender' = "none" /\ pump # "cancelled"
    BY <1>11 DEF ConfigureFails, DropSender, senderVars, LoopInControl
  <2>2. CASE loop' = "backoff"
    <3>1. attempts' \in 0 .. MaxReconnects /\ pump' = pump
      BY <2>1, <2>2, RecoverOutcome
    <3>2. QED
      BY <2>1, <2>2, <3>1, ConstantsAssumption DEF LoopInControl
  <2>3. CASE loop' # "backoff"
    <3>1. loop' = "over" /\ conn' = "none" /\ EndsPump
      BY <2>1, <2>3, RecoverOutcome
    <3>2. QED
      BY <2>1, <3>1 DEF LoopInControl, EndsPump
  <2>4. QED
    BY <2>2, <2>3
<1>12. CASE SenderRaises
  <2>1. Recover /\ loop # "over" /\ sender' = "none" /\ pump # "cancelled"
    BY <1>12 DEF SenderRaises, DropSender, senderVars, LoopInControl
  <2>2. CASE loop' = "backoff"
    <3>1. attempts' \in 0 .. MaxReconnects /\ pump' = pump
      BY <2>1, <2>2, RecoverOutcome
    <3>2. QED
      BY <2>1, <2>2, <3>1, ConstantsAssumption DEF LoopInControl
  <2>3. CASE loop' # "backoff"
    <3>1. loop' = "over" /\ conn' = "none" /\ EndsPump
      BY <2>1, <2>3, RecoverOutcome
    <3>2. QED
      BY <2>1, <3>1 DEF LoopInControl, EndsPump
  <2>4. QED
    BY <2>2, <2>3
<1>13. CASE SenderDone
  BY <1>13 DEF SenderDone, senderVars, pumpVars, LoopInControl
<1>14. CASE SessionEnds
  BY <1>14 DEF SessionEnds, End, DropSender, CloseConnection, SenderFailureSeen,
       senderVars, pumpVars, LoopInControl
<1>15. CASE SessionDrops
  <2>1. Recover /\ loop # "over" /\ sender' = "none" /\ pump # "cancelled"
    BY <1>15 DEF SessionDrops, DropSender, senderVars, LoopInControl
  <2>2. CASE loop' = "backoff"
    <3>1. attempts' \in 0 .. MaxReconnects /\ pump' = pump
      BY <2>1, <2>2, RecoverOutcome
    <3>2. QED
      BY <2>1, <2>2, <3>1, ConstantsAssumption DEF LoopInControl
  <2>3. CASE loop' # "backoff"
    <3>1. loop' = "over" /\ conn' = "none" /\ EndsPump
      BY <2>1, <2>3, RecoverOutcome
    <3>2. QED
      BY <2>1, <3>1 DEF LoopInControl, EndsPump
  <2>4. QED
    BY <2>2, <2>3
<1>16. CASE BackoffEnds
  BY <1>16 DEF BackoffEnds, CloseConnection, senderVars, pumpVars, LoopInControl
<1>17. CASE FinaliseRun
  BY <1>17 DEF FinaliseRun, DropSender, senderVars, pumpVars, LoopInControl
<1>18. CASE Receive
  <2>1. attempts' <= MaxReconnects
    BY <1>18, ConstantsAssumption DEF Receive, LoopInControl, TypeOK
  <2>2. QED
    BY <1>18, <2>1 DEF Receive, pumpVars, senderVars, LoopInControl
<1>19. ASSUME NEW how \in {"closed", "dropped"}, PeerLeaves(how)
      PROVE  LoopInControl'
  BY <1>19 DEF PeerLeaves, senderVars, pumpVars, LoopInControl
<1>20. CASE Resume
  BY <1>20 DEF Resume, SenderRuns, senderVars, pumpVars, LoopInControl
<1>21. CASE Cancelled
  BY <1>21 DEF Cancelled, End, DropSender, CloseConnection, senderVars, pumpVars,
       LoopInControl
<1>22. CASE Closed
  BY <1>22 DEF Closed, End, CloseConnection, senderVars, pumpVars, LoopInControl
<1>23. CASE UNCHANGED vars
  BY <1>23 DEF vars, senderVars, pumpVars, LoopInControl
<1>24. QED
  BY <1>1, <1>2, <1>3, <1>4, <1>5, <1>6, <1>7, <1>8, <1>9, <1>10, <1>11, <1>12,
       <1>13, <1>14, <1>15, <1>16, <1>17, <1>18, <1>19, <1>20, <1>21, <1>22, <1>23
       DEF Next, PumpStep, SenderStep, LoopStep, PeerStep, ConsumerStep

\* The numbers of which the loss is made.
LEMMA LossTypes ==
  ASSUME TypeOK
  PROVE  taken \in Nat /\ Len(arrived) \in Nat /\ opened \in Nat
  BY LenProperties DEF TypeOK

\* A step that neither sends nor connects loses nothing.
LEMMA LossQuiet ==
  ASSUME LossBounded, NothingLostYet, UNCHANGED <<sender, item, taken, arrived, opened>>,
         loop' = "configuring" => loop = "configuring"
  PROVE  LossBounded' /\ NothingLostYet'
  BY DEF LossBounded, NothingLostYet, Position, InFlight

\* With the sender goes at most the chunk it had in hand.
LEMMA LossDropped ==
  ASSUME TypeOK, SenderHolds, LossBounded, sender' \in {"none", "failed"},
         UNCHANGED <<taken, arrived, opened>>, loop' # "configuring"
  PROVE  LossBounded' /\ NothingLostYet'
<1>1. Position' = taken /\ NothingLostYet'
  BY DEF Position, InFlight, NothingLostYet
<1>2. CASE sender = "sending"
  <2>1. Position \in {taken, taken - 1} /\ Position - Len(arrived) <= opened - 1
    BY <1>2 DEF LossBounded, Position
  <2>2. taken - Len(arrived) <= opened
    BY <2>1, LossTypes
  <2>3. QED
    BY <1>1, <2>2, LossTypes DEF LossBounded
<1>3. CASE sender # "sending"
  <2>1. Position = taken
    BY <1>3 DEF Position, InFlight
  <2>2. taken - Len(arrived) <= opened
    BY <2>1, LossTypes DEF LossBounded
  <2>3. QED
    BY <1>1, <2>2, LossTypes DEF LossBounded
<1>4. QED
  BY <1>2, <1>3

\* Every step keeps the bound on what was lost.
LEMMA LossStep ==
  ASSUME TypeOK, SenderHolds, LoopInControl, LossBounded, NothingLostYet, [Next]_vars
  PROVE  LossBounded' /\ NothingLostYet'
<1>1. CASE PumpReads
  <2>1. /\ UNCHANGED <<sender, item, taken, arrived, opened>>
        /\ loop' = "configuring" => loop = "configuring"
    BY <1>1 DEF PumpReads, senderVars
  <2>2. QED
    BY <2>1, LossQuiet
<1>2. ASSUME NEW x \in Markers, PumpEnds(x)
      PROVE  LossBounded' /\ NothingLostYet'
  <2>1. /\ UNCHANGED <<sender, item, taken, arrived, opened>>
        /\ loop' = "configuring" => loop = "configuring"
    BY <1>2 DEF PumpEnds, senderVars
  <2>2. QED
    BY <2>1, LossQuiet
<1>3. CASE PumpPuts
  <2>1. /\ UNCHANGED <<sender, item, taken, arrived, opened>>
        /\ loop' = "configuring" => loop = "configuring"
    BY <1>3 DEF PumpPuts, senderVars
  <2>2. QED
    BY <2>1, LossQuiet
<1>4. CASE TakeChunk
  <2>1. /\ sender = "getting" /\ sender' = "sending" /\ taken' = taken + 1
        /\ UNCHANGED <<arrived, loop, opened>> /\ item' \notin Markers
        /\ loop' # "configuring"
    BY <1>4 DEF TakeChunk, LoopInControl
  <2>2. Position = taken /\ Position' = taken' - 1 /\ NothingLostYet'
    BY <2>1 DEF Position, InFlight, NothingLostYet
  <2>3. QED
    BY <2>1, <2>2, LossTypes DEF LossBounded
<1>5. CASE TakeMarker
  <2>1. /\ sender = "getting" /\ sender' \in {"sending", "done", "failed"}
        /\ UNCHANGED <<taken, arrived, opened>> /\ item' \in Markers
        /\ loop' # "configuring"
    BY <1>5 DEF TakeMarker, LoopInControl
  <2>2. Position = taken /\ Position' = taken /\ NothingLostYet'
    BY <2>1 DEF Position, InFlight, NothingLostYet
  <2>3. QED
    BY <2>1, <2>2, LossTypes DEF LossBounded
<1>6. CASE Send
  <2>1. /\ sender = "sending" /\ sender' \in {"done", "getting"}
        /\ UNCHANGED <<taken, opened>> /\ loop' # "configuring"
    BY <1>6 DEF Send, LoopInControl
  <2>2. Position' = taken /\ NothingLostYet'
    BY <2>1 DEF Position, InFlight, NothingLostYet
  <2>3. CASE item = EOS
    <3>1. Position = taken /\ UNCHANGED arrived
      BY <1>6, <2>3 DEF Send, Position, InFlight, Markers
    <3>2. QED
      BY <2>1, <2>2, <3>1, LossTypes DEF LossBounded
  <2>4. CASE item # EOS
    <3>1. item \in 1 .. Chunks /\ arrived \in Seq(1 .. Chunks)
          /\ arrived' = Append(arrived, item)
      BY <1>6, <2>4 DEF Send, SenderHolds, TypeOK
    <3>2. Len(arrived') = Len(arrived) + 1
      BY <3>1, AppendProperties
    <3>3. Position = taken - 1
      BY <2>1, <3>1, MarkersAreNoChunks DEF Position, InFlight
    <3>4. QED
      BY <2>1, <2>2, <3>2, <3>3, LossTypes DEF LossBounded
  <2>5. QED
    BY <2>3, <2>4
<1>7. CASE SendFails
  <2>1. sender' \in {"none", "failed"} /\ UNCHANGED <<taken, arrived, opened>>
        /\ loop' # "configuring"
    BY <1>7 DEF SendFails, DropSender, LoopInControl
  <2>2. QED
    BY <2>1, LossDropped
<1>8. CASE Connect
  <2>1. /\ sender = "none" /\ sender' \in {"none", "getting"} /\ opened' = opened + 1
        /\ UNCHANGED <<taken, arrived>>
    BY <1>8, ConnectOutcome DEF Connect, LoopInControl
  <2>2. Position = taken /\ Position' = taken
    BY <2>1 DEF Position, InFlight
  <2>3. taken - Len(arrived) <= opened
    BY <2>1, <2>2, LossTypes DEF LossBounded
  <2>4. QED
    BY <2>1, <2>2, <2>3, LossTypes DEF LossBounded, NothingLostYet
<1>9. CASE ConnectFails
  <2>1. UNCHANGED <<sender, item, taken, arrived, opened>> /\ loop' # "configuring"
    BY <1>9, ConnectFailsOutcome DEF ConnectFails, senderVars
  <2>2. QED
    BY <2>1, LossQuiet
<1>10. CASE Configured
  <2>1. /\ loop = "configuring" /\ sender = "none" /\ sender' = "getting"
        /\ loop' = "waiting" /\ UNCHANGED <<taken, arrived, opened>>
    BY <1>10 DEF Configured, StartSession, LoopInControl
  <2>2. Position = taken /\ Position' = taken
    BY <2>1 DEF Position, InFlight
  <2>3. taken - Len(arrived) <= opened - 1
    BY <2>1, <2>2 DEF NothingLostYet
  <2>4. QED
    BY <2>1, <2>2, <2>3 DEF LossBounded, NothingLostYet
<1>11. CASE ConfigureFails
  <2>1. sender' = "none" /\ UNCHANGED <<taken, arrived, opened>>
        /\ Recover /\ loop # "over"
    BY <1>11 DEF ConfigureFails, DropSender, senderVars, LoopInControl
  <2>2. loop' # "configuring"
    BY <2>1, RecoverOutcome
  <2>3. QED
    BY <2>1, <2>2, LossDropped
<1>12. CASE SenderRaises
  <2>1. sender' = "none" /\ UNCHANGED <<taken, arrived, opened>>
        /\ Recover /\ loop # "over"
    BY <1>12 DEF SenderRaises, DropSender, senderVars, LoopInControl
  <2>2. loop' # "configuring"
    BY <2>1, RecoverOutcome
  <2>3. QED
    BY <2>1, <2>2, LossDropped
<1>13. CASE SenderDone
  <2>1. /\ UNCHANGED <<sender, item, taken, arrived, opened>>
        /\ loop' = "configuring" => loop = "configuring"
    BY <1>13 DEF SenderDone, senderVars
  <2>2. QED
    BY <2>1, LossQuiet
<1>14. CASE SessionEnds
  <2>1. sender' = "none" /\ UNCHANGED <<taken, arrived, opened>>
        /\ loop' # "configuring"
    BY <1>14 DEF SessionEnds, DropSender, End
  <2>2. QED
    BY <2>1, LossDropped
<1>15. CASE SessionDrops
  <2>1. sender' = "none" /\ UNCHANGED <<taken, arrived, opened>>
        /\ Recover /\ loop # "over"
    BY <1>15 DEF SessionDrops, DropSender, senderVars, LoopInControl
  <2>2. loop' # "configuring"
    BY <2>1, RecoverOutcome
  <2>3. QED
    BY <2>1, <2>2, LossDropped
<1>16. CASE BackoffEnds
  <2>1. /\ UNCHANGED <<sender, item, taken, arrived, opened>>
        /\ loop' = "configuring" => loop = "configuring"
    BY <1>16 DEF BackoffEnds, senderVars
  <2>2. QED
    BY <2>1, LossQuiet
<1>17. CASE FinaliseRun
  <2>1. sender' \in {"none", "failed"} /\ UNCHANGED <<taken, arrived, opened>>
        /\ loop' # "configuring"
    BY <1>17 DEF FinaliseRun, DropSender, LoopInControl
  <2>2. QED
    BY <2>1, LossDropped
<1>18. CASE Receive
  <2>1. /\ UNCHANGED <<sender, item, taken, arrived, opened>>
        /\ loop' = "configuring" => loop = "configuring"
    BY <1>18 DEF Receive, senderVars
  <2>2. QED
    BY <2>1, LossQuiet
<1>19. ASSUME NEW how \in {"closed", "dropped"}, PeerLeaves(how)
      PROVE  LossBounded' /\ NothingLostYet'
  <2>1. /\ UNCHANGED <<sender, item, taken, arrived, opened>>
        /\ loop' = "configuring" => loop = "configuring"
    BY <1>19 DEF PeerLeaves, senderVars
  <2>2. QED
    BY <2>1, LossQuiet
<1>20. CASE Resume
  <2>1. /\ UNCHANGED <<sender, item, taken, arrived, opened>>
        /\ loop' = "configuring" => loop = "configuring"
    BY <1>20 DEF Resume, senderVars
  <2>2. QED
    BY <2>1, LossQuiet
<1>21. CASE Cancelled
  <2>1. sender' = "none" /\ UNCHANGED <<taken, arrived, opened>>
        /\ loop' # "configuring"
    BY <1>21 DEF Cancelled, DropSender, End
  <2>2. QED
    BY <2>1, LossDropped
<1>22. CASE Closed
  <2>1. /\ UNCHANGED <<sender, item, taken, arrived, opened>>
        /\ loop' = "configuring" => loop = "configuring"
    BY <1>22 DEF Closed, senderVars, End
  <2>2. QED
    BY <2>1, LossQuiet
<1>23. CASE UNCHANGED vars
  BY <1>23, LossQuiet DEF vars, senderVars
<1>24. QED
  BY <1>1, <1>2, <1>3, <1>4, <1>5, <1>6, <1>7, <1>8, <1>9, <1>10, <1>11, <1>12,
       <1>13, <1>14, <1>15, <1>16, <1>17, <1>18, <1>19, <1>20, <1>21, <1>22, <1>23
       DEF Next, PumpStep, SenderStep, LoopStep, PeerStep, ConsumerStep

\* Every step keeps the account of connections.
LEMMA BudgetStep ==
  ASSUME TypeOK, LoopInControl, ConnectionsCharged, [Next]_vars
  PROVE  ConnectionsCharged'
<1>1. CASE PumpReads
  <2>1. UNCHANGED <<attempts, opened>>
        /\ (loop' \in {"connecting", "backoff"} => loop \in {"connecting", "backoff"})
    BY <1>1 DEF PumpReads
  <2>2. QED
    BY <2>1 DEF ConnectionsCharged
<1>2. ASSUME NEW x \in Markers, PumpEnds(x)
      PROVE  ConnectionsCharged'
  <2>1. UNCHANGED <<attempts, opened>>
        /\ (loop' \in {"connecting", "backoff"} => loop \in {"connecting", "backoff"})
    BY <1>2 DEF PumpEnds
  <2>2. QED
    BY <2>1 DEF ConnectionsCharged
<1>3. CASE PumpPuts
  <2>1. UNCHANGED <<attempts, opened>>
        /\ (loop' \in {"connecting", "backoff"} => loop \in {"connecting", "backoff"})
    BY <1>3 DEF PumpPuts
  <2>2. QED
    BY <2>1 DEF ConnectionsCharged
<1>4. CASE TakeChunk
  <2>1. UNCHANGED <<attempts, opened>>
        /\ (loop' \in {"connecting", "backoff"} => loop \in {"connecting", "backoff"})
    BY <1>4 DEF TakeChunk
  <2>2. QED
    BY <2>1 DEF ConnectionsCharged
<1>5. CASE TakeMarker
  <2>1. UNCHANGED <<attempts, opened>>
        /\ (loop' \in {"connecting", "backoff"} => loop \in {"connecting", "backoff"})
    BY <1>5 DEF TakeMarker
  <2>2. QED
    BY <2>1 DEF ConnectionsCharged
<1>6. CASE Send
  <2>1. UNCHANGED <<attempts, opened>>
        /\ (loop' \in {"connecting", "backoff"} => loop \in {"connecting", "backoff"})
    BY <1>6 DEF Send
  <2>2. QED
    BY <2>1 DEF ConnectionsCharged
<1>7. CASE SendFails
  <2>1. UNCHANGED <<attempts, opened>>
        /\ (loop' \in {"connecting", "backoff"} => loop \in {"connecting", "backoff"})
    BY <1>7 DEF SendFails
  <2>2. QED
    BY <2>1 DEF ConnectionsCharged
<1>8. CASE Connect
  <2>1. opened' = opened + 1 /\ loop = "connecting" /\ attempts' = attempts
        /\ attempts <= MaxReconnects /\ loop' \in {"configuring", "waiting"}
    BY <1>8, ConnectOutcome DEF Connect, LoopInControl
  <2>2. opened \in Nat /\ attempts \in Nat /\ MaxReconnects \in Nat
    BY ConstantsAssumption DEF TypeOK
  <2>3. QED
    BY <2>1, <2>2 DEF ConnectionsCharged
<1>9. CASE ConnectFails
  <2>1. opened' = opened /\ loop = "connecting" /\ attempts' \in {attempts, attempts + 1}
    BY <1>9 DEF ConnectFails, Charge
  <2>2. opened \in Nat /\ attempts \in Nat
    BY DEF TypeOK
  <2>3. CASE attempts' = attempts + 1
    BY <2>1, <2>2, <2>3 DEF ConnectionsCharged
  <2>4. CASE attempts' = attempts
    BY <2>1, <2>2, <2>4 DEF ConnectionsCharged
  <2>5. QED
    BY <2>1, <2>3, <2>4
<1>10. CASE Configured
  <2>1. UNCHANGED <<attempts, opened>>
        /\ (loop' \in {"connecting", "backoff"} => loop \in {"connecting", "backoff"})
    BY <1>10 DEF Configured, StartSession
  <2>2. QED
    BY <2>1 DEF ConnectionsCharged
<1>11. CASE ConfigureFails
  <2>1. Recover /\ loop # "over" /\ opened' = opened
    BY <1>11 DEF ConfigureFails
  <2>2. loop' \in {"backoff", "over"} /\ attempts' \in {attempts, attempts + 1}
        /\ (loop' = "backoff" => attempts' = attempts + 1)
    BY <2>1, RecoverOutcome
  <2>3. opened \in Nat /\ attempts \in Nat
    BY DEF TypeOK
  <2>4. CASE loop' = "backoff" /\ attempts' = attempts + 1
    BY <2>1, <2>3, <2>4 DEF ConnectionsCharged
  <2>5. CASE loop' = "over" /\ attempts' = attempts
    BY <2>1, <2>3, <2>5 DEF ConnectionsCharged
  <2>6. CASE loop' = "over" /\ attempts' = attempts + 1
    BY <2>1, <2>3, <2>6 DEF ConnectionsCharged
  <2>7. QED
    BY <2>2, <2>4, <2>5, <2>6
<1>12. CASE SenderRaises
  <2>1. Recover /\ loop # "over" /\ opened' = opened
    BY <1>12 DEF SenderRaises
  <2>2. loop' \in {"backoff", "over"} /\ attempts' \in {attempts, attempts + 1}
        /\ (loop' = "backoff" => attempts' = attempts + 1)
    BY <2>1, RecoverOutcome
  <2>3. opened \in Nat /\ attempts \in Nat
    BY DEF TypeOK
  <2>4. CASE loop' = "backoff" /\ attempts' = attempts + 1
    BY <2>1, <2>3, <2>4 DEF ConnectionsCharged
  <2>5. CASE loop' = "over" /\ attempts' = attempts
    BY <2>1, <2>3, <2>5 DEF ConnectionsCharged
  <2>6. CASE loop' = "over" /\ attempts' = attempts + 1
    BY <2>1, <2>3, <2>6 DEF ConnectionsCharged
  <2>7. QED
    BY <2>2, <2>4, <2>5, <2>6
<1>13. CASE SenderDone
  <2>1. UNCHANGED <<attempts, opened>>
        /\ (loop' \in {"connecting", "backoff"} => loop \in {"connecting", "backoff"})
    BY <1>13 DEF SenderDone
  <2>2. QED
    BY <2>1 DEF ConnectionsCharged
<1>14. CASE SessionEnds
  <2>1. UNCHANGED <<attempts, opened>>
        /\ (loop' \in {"connecting", "backoff"} => loop \in {"connecting", "backoff"})
    BY <1>14 DEF SessionEnds, End
  <2>2. QED
    BY <2>1 DEF ConnectionsCharged
<1>15. CASE SessionDrops
  <2>1. Recover /\ loop # "over" /\ opened' = opened
    BY <1>15 DEF SessionDrops
  <2>2. loop' \in {"backoff", "over"} /\ attempts' \in {attempts, attempts + 1}
        /\ (loop' = "backoff" => attempts' = attempts + 1)
    BY <2>1, RecoverOutcome
  <2>3. opened \in Nat /\ attempts \in Nat
    BY DEF TypeOK
  <2>4. CASE loop' = "backoff" /\ attempts' = attempts + 1
    BY <2>1, <2>3, <2>4 DEF ConnectionsCharged
  <2>5. CASE loop' = "over" /\ attempts' = attempts
    BY <2>1, <2>3, <2>5 DEF ConnectionsCharged
  <2>6. CASE loop' = "over" /\ attempts' = attempts + 1
    BY <2>1, <2>3, <2>6 DEF ConnectionsCharged
  <2>7. QED
    BY <2>2, <2>4, <2>5, <2>6
<1>16. CASE BackoffEnds
  <2>1. UNCHANGED <<attempts, opened>>
        /\ (loop' \in {"connecting", "backoff"} => loop \in {"connecting", "backoff"})
    BY <1>16 DEF BackoffEnds
  <2>2. QED
    BY <2>1 DEF ConnectionsCharged
<1>17. CASE FinaliseRun
  <2>1. UNCHANGED <<attempts, opened>>
        /\ (loop' \in {"connecting", "backoff"} => loop \in {"connecting", "backoff"})
    BY <1>17 DEF FinaliseRun
  <2>2. QED
    BY <2>1 DEF ConnectionsCharged
<1>18. CASE Receive
  <2>1. opened' = opened /\ loop' = "yielding" /\ (~BudgetRefills => attempts' = attempts)
    BY <1>18 DEF Receive
  <2>2. QED
    BY <2>1 DEF ConnectionsCharged
<1>19. ASSUME NEW how \in {"closed", "dropped"}, PeerLeaves(how)
      PROVE  ConnectionsCharged'
  <2>1. UNCHANGED <<attempts, opened>>
        /\ (loop' \in {"connecting", "backoff"} => loop \in {"connecting", "backoff"})
    BY <1>19 DEF PeerLeaves
  <2>2. QED
    BY <2>1 DEF ConnectionsCharged
<1>20. CASE Resume
  <2>1. UNCHANGED <<attempts, opened>>
        /\ (loop' \in {"connecting", "backoff"} => loop \in {"connecting", "backoff"})
    BY <1>20 DEF Resume
  <2>2. QED
    BY <2>1 DEF ConnectionsCharged
<1>21. CASE Cancelled
  <2>1. UNCHANGED <<attempts, opened>>
        /\ (loop' \in {"connecting", "backoff"} => loop \in {"connecting", "backoff"})
    BY <1>21 DEF Cancelled, End
  <2>2. QED
    BY <2>1 DEF ConnectionsCharged
<1>22. CASE Closed
  <2>1. UNCHANGED <<attempts, opened>>
        /\ (loop' \in {"connecting", "backoff"} => loop \in {"connecting", "backoff"})
    BY <1>22 DEF Closed, End
  <2>2. QED
    BY <2>1 DEF ConnectionsCharged
<1>23. CASE UNCHANGED vars
  BY <1>23 DEF vars, ConnectionsCharged
<1>24. QED
  BY <1>1, <1>2, <1>3, <1>4, <1>5, <1>6, <1>7, <1>8, <1>9, <1>10, <1>11, <1>12,
       <1>13, <1>14, <1>15, <1>16, <1>17, <1>18, <1>19, <1>20, <1>21, <1>22, <1>23
       DEF Next, PumpStep, SenderStep, LoopStep, PeerStep, ConsumerStep

-----------------------------------------------------------------------------
(* The inductive invariant and the theorems.                               *)

\* The invariant holds initially.
LEMMA InitIInv == Init => IInv
<1> SUFFICES ASSUME Init PROVE IInv
  OBVIOUS
<1>1. (\A x \in Markers : x \notin Nat /\ x # Nothing) /\ Nothing \notin Nat
  BY MarkersAreNoChunks
<1>2. /\ read = 0 /\ queue = << >> /\ taken = 0 /\ arrived = << >> /\ opened = 0
      /\ pump = "reading" /\ held = Nothing /\ sender = "none" /\ item = Nothing
      /\ loop = "connecting" /\ conn = "none" /\ attempts = 0
  BY DEF Init
<1>3. Len(queue) = 0 /\ Len(arrived) = 0 /\ queue \in Seq(Item)
      /\ arrived \in Seq(1 .. Chunks)
  BY <1>2, EmptySeq
<1>4. ~Marked /\ Backlog = 0
  BY <1>2, <1>3 DEF Marked, Backlog
<1>5. Position = 0
  BY <1>2 DEF Position, InFlight
<1>6. TypeOK
  <2>1. /\ 0 \in 0 .. Chunks /\ 0 \in 0 .. MaxReconnects + 1 /\ 0 \in 0 .. MaxMessages
        /\ 0 <= QueueMax
    BY ConstantsAssumption
  <2>2. QED
    <3>1. Len(queue) <= QueueMax
      BY <1>3, <2>1
    <3>2. watched = FALSE /\ messages = 0 /\ result = "none"
      BY DEF Init
    <3>3. QED
      BY <1>2, <1>3, <2>1, <3>1, <3>2 DEF TypeOK, Results
<1>7. QueueIsRestOfSource /\ PumpHolds
  BY <1>1, <1>2, <1>4 DEF QueueIsRestOfSource, PumpHolds
<1>8. SenderHolds /\ LoopInControl
  BY <1>2, ConstantsAssumption DEF SenderHolds, InFlight, LoopInControl
<1>9. LossBounded /\ NothingLostYet
  BY <1>2, <1>3, <1>5 DEF LossBounded, NothingLostYet
<1>10. ConnectionsCharged
  BY <1>2, ConstantsAssumption DEF ConnectionsCharged
<1>11. QED
  BY <1>6, <1>7, <1>8, <1>9, <1>10 DEF IInv

\* Every step keeps it.
LEMMA NextIInv == IInv /\ [Next]_vars => IInv'
<1> SUFFICES ASSUME IInv, [Next]_vars PROVE IInv'
  OBVIOUS
<1>1. /\ TypeOK /\ QueueIsRestOfSource /\ PumpHolds /\ SenderHolds /\ LoopInControl
      /\ LossBounded /\ NothingLostYet /\ ConnectionsCharged
  BY DEF IInv
<1>2. TypeOK'
  BY <1>1, TypeStep
<1>3. QueueIsRestOfSource' /\ PumpHolds'
  BY <1>1, QueueStep
<1>4. SenderHolds'
  BY <1>1, SenderStepHolds
<1>5. LoopInControl'
  BY <1>1, ControlStep
<1>6. LossBounded' /\ NothingLostYet'
  BY <1>1, LossStep
<1>7. ConnectionsCharged'
  BY <1>1, BudgetStep
<1>8. QED
  BY <1>2, <1>3, <1>4, <1>5, <1>6, <1>7 DEF IInv

\* The invariant is inductive, so it always holds.
THEOREM Invariance == Spec => []IInv
<1>1. Init => IInv
  BY InitIInv
<1>2. IInv /\ [Next]_vars => IInv'
  BY NextIInv
<1>3. QED
  BY <1>1, <1>2, PTL DEF Spec

\* Every variable keeps its type, and the queue its bound.
THEOREM TypeCorrect == Spec => []TypeOK
<1>1. IInv => TypeOK
  BY DEF IInv
<1>2. QED
  BY Invariance, <1>1, PTL

\* The queue holds the rest of the source in order and ends with its end marker
\* once the pump is done, whichever sender drains it.
THEOREM QueueCorrect == Spec => []QueueIsRestOfSource
<1>1. IInv => QueueIsRestOfSource
  BY DEF IInv
<1>2. QED
  BY Invariance, <1>1, PTL

\* A connection costs at most the chunk it had in flight.
THEOREM LossCorrect == Spec => []LossBounded
<1>1. IInv => LossBounded
  BY DEF IInv
<1>2. QED
  BY Invariance, <1>1, PTL

\* A transcriber opens at most one connection more than its retry budget.
THEOREM BudgetCorrect == Spec => []BudgetBoundsConnections
<1>1. IInv => BudgetBoundsConnections
  BY DEF IInv, ConnectionsCharged, BudgetBoundsConnections
<1>2. QED
  BY Invariance, <1>1, PTL

-----------------------------------------------------------------------------
(* The refinement of AudioRelay.                                           *)

\* What was dealt with never exceeds the source.
LEMMA PositionTyped ==
  ASSUME TypeOK, QueueIsRestOfSource, SenderHolds
  PROVE  Position \in 0 .. Chunks /\ Chunks \in Nat
<1>1. taken \in 0 .. Chunks /\ Chunks \in Nat
  BY ConstantsAssumption DEF TypeOK
<1>2. CASE InFlight
  <2>1. item = taken /\ item \in 1 .. Chunks
    BY <1>2 DEF InFlight, SenderHolds, Markers
  <2>2. QED
    BY <1>1, <1>2, <2>1 DEF Position
<1>3. CASE ~InFlight
  BY <1>1, <1>3 DEF Position
<1>4. QED
  BY <1>2, <1>3

\* Nothing dealt with: the channel opens, breaks, ends or stays as it is.
LEMMA RelayRests ==
  ASSUME Position \in 0 .. Chunks, Position' = Position, arrived' = arrived,
         \/ Channel' = Channel
         \/ Channel = "down" /\ Channel' = "up"
         \/ Channel = "up" /\ Channel' = "down"
         \/ Channel # "over" /\ Channel' = "over"
  PROVE  [Relay!Next]_(Relay!vars)
<1>1. Position' \in {Position, Position + 1} /\ Position' <= Chunks
  BY ConstantsAssumption
<1>2. CASE Channel' = Channel
  BY <1>2 DEF Relay!vars
<1>3. CASE Channel = "down" /\ Channel' = "up"
  BY <1>3 DEF Relay!Next, Relay!Open
<1>4. CASE Channel = "up" /\ Channel' = "down"
  BY <1>4 DEF Relay!Next, Relay!Break
<1>5. CASE Channel # "over" /\ Channel' = "over"
  BY <1>1, <1>5 DEF Relay!Next, Relay!Finish
<1>6. QED
  BY <1>2, <1>3, <1>4, <1>5

\* The chunk in flight goes with its connection, or with the relay.
LEMMA RelayLoses ==
  ASSUME Position \in 0 .. Chunks, Position' \in 0 .. Chunks,
         Position' = Position + 1, arrived' = arrived,
         \/ Channel = "up" /\ Channel' = "down"
         \/ Channel' = "over"
  PROVE  [Relay!Next]_(Relay!vars)
<1>1. Position < Chunks /\ Position' <= Chunks
  BY ConstantsAssumption
<1>2. CASE Channel = "up" /\ Channel' = "down"
  BY <1>1, <1>2 DEF Relay!Next, Relay!Lose
<1>3. CASE Channel # "over" /\ Channel' = "over"
  BY <1>1, <1>3 DEF Relay!Next, Relay!Finish
<1>4. CASE Channel = "over" /\ Channel' = "over"
  BY <1>1, <1>4 DEF Relay!Next, Relay!Discard
<1>5. QED
  BY <1>2, <1>3, <1>4

\* A sender that is gone has lost at most what it had in flight.
LEMMA RelayDrops ==
  ASSUME TypeOK, QueueIsRestOfSource, SenderHolds,
         sender' \in {"none", "failed"}, taken' = taken, arrived' = arrived,
         loop = "over" => loop' = "over"
  PROVE  [Relay!Next]_(Relay!vars)
<1>1. Position \in 0 .. Chunks
  BY PositionTyped
<1>2. Position' = taken /\ Position' \in 0 .. Chunks
  BY DEF Position, InFlight, TypeOK
<1>3. Channel' = (IF loop' = "over" THEN "over" ELSE "down")
  BY DEF Channel, SenderRuns
<1>4. CASE InFlight
  <2>1. Position' = Position + 1
    BY <1>2, <1>4 DEF Position, TypeOK
  <2>2. Channel = (IF loop = "over" THEN "over" ELSE "up")
    BY <1>4 DEF Channel, SenderRuns, InFlight
  <2>3. QED
    BY <1>1, <1>2, <1>3, <2>1, <2>2, RelayLoses
<1>5. CASE ~InFlight
  <2>1. Position' = Position
    BY <1>2, <1>5 DEF Position
  <2>2. Channel \in {"up", "down", "over"} /\ (Channel = "over" => loop = "over")
    BY DEF Channel
  <2>3. QED
    BY <1>1, <1>3, <2>1, <2>2, RelayRests
<1>6. QED
  BY <1>4, <1>5

\* Every step is a step of the relay, or none.
LEMMA RelayStep ==
  ASSUME IInv, IInv', [Next]_vars
  PROVE  [Relay!Next]_(Relay!vars)
<1> USE DEF IInv
<1>1. Position \in 0 .. Chunks
  BY PositionTyped
<1>2. CASE PumpReads
  <2>1. UNCHANGED <<sender, item, taken, arrived>> /\ (loop = "over" <=> loop' = "over")
    BY <1>2 DEF PumpReads, senderVars
  <2>2. Position' = Position /\ Channel' = Channel
    BY <2>1 DEF Position, InFlight, Channel, SenderRuns
  <2>3. QED
    BY <1>1, <2>1, <2>2, RelayRests
<1>3. ASSUME NEW x \in Markers, PumpEnds(x)
      PROVE  [Relay!Next]_(Relay!vars)
  <2>1. UNCHANGED <<sender, item, taken, arrived>> /\ (loop = "over" <=> loop' = "over")
    BY <1>3 DEF PumpEnds, senderVars
  <2>2. Position' = Position /\ Channel' = Channel
    BY <2>1 DEF Position, InFlight, Channel, SenderRuns
  <2>3. QED
    BY <1>1, <2>1, <2>2, RelayRests
<1>4. CASE PumpPuts
  <2>1. UNCHANGED <<sender, item, taken, arrived>> /\ (loop = "over" <=> loop' = "over")
    BY <1>4 DEF PumpPuts, senderVars
  <2>2. Position' = Position /\ Channel' = Channel
    BY <2>1 DEF Position, InFlight, Channel, SenderRuns
  <2>3. QED
    BY <1>1, <2>1, <2>2, RelayRests
<1>5. CASE TakeChunk
  <2>1. /\ sender = "getting" /\ sender' = "sending" /\ taken' = taken + 1
        /\ arrived' = arrived /\ loop' = loop /\ item' \notin Markers
    BY <1>5 DEF TakeChunk
  <2>2. Position = taken /\ Position' = taken' - 1 /\ taken \in Nat
    BY <2>1 DEF Position, InFlight, TypeOK
  <2>3. Channel' = Channel
    BY <2>1 DEF Channel, SenderRuns
  <2>4. Position' = Position
    BY <2>1, <2>2
  <2>5. QED
    BY <1>1, <2>1, <2>3, <2>4, RelayRests
<1>6. CASE TakeMarker
  <2>1. /\ sender = "getting" /\ item' \in Markers
        /\ taken' = taken /\ arrived' = arrived /\ loop' = loop
    BY <1>6 DEF TakeMarker
  <2>2. Position' = Position
    BY <2>1 DEF Position, InFlight
  <2>3. \/ Channel' = Channel
        \/ Channel = "up" /\ Channel' = "down"
    BY <2>1 DEF Channel, SenderRuns
  <2>4. QED
    BY <1>1, <2>1, <2>2, <2>3, RelayRests
<1>7. CASE Send
  <2>1. /\ sender = "sending" /\ loop # "over" /\ loop' # "over" /\ taken' = taken
        /\ sender' \in {"done", "getting"} /\ Chunks' = Chunks
    BY <1>7 DEF Send, LoopInControl
  <2>2. Channel = "up" /\ Position' = taken
    BY <2>1 DEF Channel, SenderRuns, Position, InFlight
  <2>3. CASE item = EOS
    <3>1. Position = taken /\ arrived' = arrived
      BY <1>7, <2>3 DEF Send, Position, InFlight, Markers
    <3>2. Channel' = "down"
      BY <1>7, <2>1, <2>3 DEF Send, Channel, SenderRuns
    <3>3. QED
      BY <1>1, <2>2, <3>1, <3>2, RelayRests
  <2>4. CASE item # EOS
    <3>1. sender' = "getting" /\ arrived' = Append(arrived, item) /\ item \in 1 .. Chunks
      BY <1>7, <2>4 DEF Send, SenderHolds
    <3>2. InFlight /\ item = taken
      BY <2>1, <3>1, MarkersAreNoChunks DEF InFlight, SenderHolds
    <3>3. Position = taken - 1 /\ taken \in 1 .. Chunks
      BY <3>1, <3>2 DEF Position
    <3>4. Channel' = "up"
      BY <2>1, <3>1 DEF Channel, SenderRuns
    <3>5. /\ Position < Chunks /\ Position' = Position + 1
          /\ arrived' = Append(arrived, Position + 1)
      <4>1. Position + 1 = item
        BY <3>2, <3>3
      <4>2. QED
        BY <2>2, <3>1, <3>3, <4>1, ConstantsAssumption
    <3>6. QED
      BY <2>2, <3>4, <3>5 DEF Relay!Next, Relay!Arrive
  <2>5. QED
    BY <2>3, <2>4
<1>8. CASE SendFails
  <2>1. sender' \in {"none", "failed"} /\ taken' = taken /\ arrived' = arrived
        /\ (loop = "over" => loop' = "over")
    BY <1>8 DEF SendFails, DropSender
  <2>2. QED
    BY <2>1, RelayDrops
<1>9. CASE Connect
  <2>1. /\ sender = "none" /\ sender' \in {"none", "getting"} /\ loop # "over"
        /\ loop' # "over" /\ taken' = taken /\ arrived' = arrived
    BY <1>9, ConnectOutcome DEF Connect, LoopInControl
  <2>2. Position' = Position
    BY <2>1 DEF Position, InFlight
  <2>3. Channel = "down" /\ Channel' \in {"down", "up"}
    BY <2>1 DEF Channel, SenderRuns
  <2>4. QED
    BY <1>1, <2>1, <2>2, <2>3, RelayRests
<1>10. CASE ConnectFails
  <2>1. sender' \in {"none", "failed"} /\ taken' = taken /\ arrived' = arrived
        /\ (loop = "over" => loop' = "over")
    BY <1>10 DEF ConnectFails, senderVars, LoopInControl
  <2>2. QED
    BY <2>1, RelayDrops
<1>11. CASE Configured
  <2>1. /\ sender = "none" /\ sender' \in {"none", "getting"} /\ loop # "over"
        /\ loop' # "over" /\ taken' = taken /\ arrived' = arrived
    BY <1>11 DEF Configured, StartSession, LoopInControl
  <2>2. Position' = Position
    BY <2>1 DEF Position, InFlight
  <2>3. Channel = "down" /\ Channel' \in {"down", "up"}
    BY <2>1 DEF Channel, SenderRuns
  <2>4. QED
    BY <1>1, <2>1, <2>2, <2>3, RelayRests
<1>12. CASE ConfigureFails
  <2>1. sender' \in {"none", "failed"} /\ taken' = taken /\ arrived' = arrived
        /\ (loop = "over" => loop' = "over")
    BY <1>12 DEF ConfigureFails, senderVars, LoopInControl
  <2>2. QED
    BY <2>1, RelayDrops
<1>13. CASE SenderRaises
  <2>1. sender' \in {"none", "failed"} /\ taken' = taken /\ arrived' = arrived
        /\ (loop = "over" => loop' = "over")
    BY <1>13 DEF SenderRaises, DropSender
  <2>2. QED
    BY <2>1, RelayDrops
<1>14. CASE SenderDone
  <2>1. UNCHANGED <<sender, item, taken, arrived>> /\ (loop = "over" <=> loop' = "over")
    BY <1>14 DEF SenderDone, senderVars
  <2>2. Position' = Position /\ Channel' = Channel
    BY <2>1 DEF Position, InFlight, Channel, SenderRuns
  <2>3. QED
    BY <1>1, <2>1, <2>2, RelayRests
<1>15. CASE SessionEnds
  <2>1. sender' \in {"none", "failed"} /\ taken' = taken /\ arrived' = arrived
        /\ (loop = "over" => loop' = "over")
    BY <1>15 DEF SessionEnds, DropSender, End
  <2>2. QED
    BY <2>1, RelayDrops
<1>16. CASE SessionDrops
  <2>1. sender' \in {"none", "failed"} /\ taken' = taken /\ arrived' = arrived
        /\ (loop = "over" => loop' = "over")
    BY <1>16 DEF SessionDrops, DropSender
  <2>2. QED
    BY <2>1, RelayDrops
<1>17. CASE BackoffEnds
  <2>1. UNCHANGED <<sender, item, taken, arrived>> /\ (loop = "over" <=> loop' = "over")
    BY <1>17 DEF BackoffEnds, senderVars
  <2>2. Position' = Position /\ Channel' = Channel
    BY <2>1 DEF Position, InFlight, Channel, SenderRuns
  <2>3. QED
    BY <1>1, <2>1, <2>2, RelayRests
<1>18. CASE FinaliseRun
  <2>1. sender' \in {"none", "failed"} /\ taken' = taken /\ arrived' = arrived
        /\ (loop = "over" => loop' = "over")
    BY <1>18 DEF FinaliseRun, DropSender
  <2>2. QED
    BY <2>1, RelayDrops
<1>19. CASE Receive
  <2>1. UNCHANGED <<sender, item, taken, arrived>> /\ (loop = "over" <=> loop' = "over")
    BY <1>19 DEF Receive, senderVars
  <2>2. Position' = Position /\ Channel' = Channel
    BY <2>1 DEF Position, InFlight, Channel, SenderRuns
  <2>3. QED
    BY <1>1, <2>1, <2>2, RelayRests
<1>20. ASSUME NEW how \in {"closed", "dropped"}, PeerLeaves(how)
      PROVE  [Relay!Next]_(Relay!vars)
  <2>1. UNCHANGED <<sender, item, taken, arrived>> /\ (loop = "over" <=> loop' = "over")
    BY <1>20 DEF PeerLeaves, senderVars
  <2>2. Position' = Position /\ Channel' = Channel
    BY <2>1 DEF Position, InFlight, Channel, SenderRuns
  <2>3. QED
    BY <1>1, <2>1, <2>2, RelayRests
<1>21. CASE Resume
  <2>1. UNCHANGED <<sender, item, taken, arrived>> /\ (loop = "over" <=> loop' = "over")
    BY <1>21 DEF Resume, senderVars
  <2>2. Position' = Position /\ Channel' = Channel
    BY <2>1 DEF Position, InFlight, Channel, SenderRuns
  <2>3. QED
    BY <1>1, <2>1, <2>2, RelayRests
<1>22. CASE Cancelled
  <2>1. sender' \in {"none", "failed"} /\ taken' = taken /\ arrived' = arrived
        /\ (loop = "over" => loop' = "over")
    BY <1>22 DEF Cancelled, DropSender, End
  <2>2. QED
    BY <2>1, RelayDrops
<1>23. CASE Closed
  <2>1. UNCHANGED <<sender, item, taken, arrived>> /\ loop # "over" /\ loop' = "over"
    BY <1>23 DEF Closed, End, senderVars
  <2>2. Position' = Position /\ Channel # "over" /\ Channel' = "over"
    BY <2>1 DEF Position, InFlight, Channel, SenderRuns
  <2>3. QED
    BY <1>1, <2>1, <2>2, RelayRests
<1>24. CASE UNCHANGED vars
  BY <1>24 DEF vars, senderVars, pumpVars, Relay!vars, Position, InFlight, Channel, SenderRuns
<1>25. QED
  BY <1>2, <1>3, <1>4, <1>5, <1>6, <1>7, <1>8, <1>9, <1>10, <1>11, <1>12, <1>13,
       <1>14, <1>15, <1>16, <1>17, <1>18, <1>19, <1>20, <1>21, <1>22, <1>23, <1>24
       DEF Next, PumpStep, SenderStep, LoopStep, PeerStep, ConsumerStep

\* The detailed specification implements the abstract relay.
THEOREM RelayImplemented == Spec => RelaysAudio
<1>1. Init => Relay!Init
  BY DEF Init, Relay!Init, Position, InFlight, Channel, SenderRuns
<1>2. IInv /\ IInv' /\ [Next]_vars => [Relay!Next]_(Relay!vars)
  BY RelayStep
<1>3. QED
  BY Invariance, <1>1, <1>2, PTL DEF Spec, RelaysAudio, Relay!Spec

-----------------------------------------------------------------------------
(* The specification TLC checks, of a transcriber's stream or OpenAI's.    *)

\* A transcriber opens at most one connection more than its retry budget, which nothing
\* refills (deepgram_stt.py:147-168).
THEOREM TranscriberBudgetCorrect == EitherSpec => []BudgetHolds
<1> DEFINE Transcriber == service = "stt" => IInv
<1>1. EitherInit => Transcriber
  BY InitIInv DEF EitherInit
<1>2. Transcriber /\ [EitherNext]_<<vars, service>> => Transcriber'
  <2> SUFFICES ASSUME Transcriber, [EitherNext]_<<vars, service>>, service' = "stt" PROVE IInv'
    OBVIOUS
  <2>1. service = "stt"
    BY DEF EitherNext
  <2>2. IInv /\ [Next]_vars
    BY <2>1 DEF EitherNext
  <2> QED  BY <2>2, NextIInv
<1>3. Transcriber => BudgetHolds
  BY DEF IInv, ConnectionsCharged, BudgetBoundsConnections, BudgetHolds
<1> HIDE DEF Transcriber
<1> QED  BY <1>1, <1>2, <1>3, PTL DEF EitherSpec
=============================================================================
