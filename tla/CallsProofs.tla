------------------------------ MODULE CallsProofs ------------------------------
(***************************************************************************)
(* Theorems about the parts MCCalls puts side by side, for every value of  *)
(* their constants: Gemini's shared cache, a synthesiser's call (Speech),  *)
(* the dashboard (Page) and a phone call (Call).  At the end they are      *)
(* theorems of SuiteSpec, the specification TLC checks; the turn of the    *)
(* slow path is in TraditionalPipelineProofs, and that things end is left  *)
(* to TLC.                                                                 *)
(***************************************************************************)
EXTENDS MCCalls, SequenceTheorems, FiniteSetTheorems, TLAPS

-----------------------------------------------------------------------------
(* Gemini's cache, for any finite set of turns.  Who creates it does not   *)
(* depend on who is served next, so the line of those who wait has an      *)
(* invariant of its own.                                                   *)

Typed ==
  /\ phase \in [Turn -> {"idle", "waiting", "creating", "streaming", "done", "failed", "cancelled"}]
  /\ ref \in Nat /\ lock \in Turn \cup {None}
  /\ uploads \in Nat /\ used \in [Turn -> Nat] /\ givenUp \subseteq Turn

\* Whoever creates holds the lock, and there is no cache as long as it does: this is what
\* the second check of the double check is for.
LockGuardsCreation ==
  /\ \A t \in Turn : phase[t] = "creating" <=> lock = t
  /\ lock # None => ref = 0

\* A turn that gave its creation up never tries again.
GivenUpIsOver == \A t \in givenUp : phase[t] \in {"failed", "cancelled"}

IInv == Typed /\ LockGuardsCreation /\ GivenUpIsOver /\ OneCacheForAll /\ UploadsAccounted

-----------------------------------------------------------------------------
(* Counting.                                                               *)

\* The creations given up are finitely many.
LEMMA GivenUpFinite ==
  ASSUME Typed PROVE IsFiniteSet(givenUp) /\ Cardinality(givenUp) \in Nat
<1>1. IsFiniteSet(givenUp)
  BY TurnAssumption, FS_Subset DEF Typed
<1>2. QED
  BY <1>1, FS_CardinalityType

\* A creation that is given up is one more.
LEMMA OneMoreGivenUp ==
  ASSUME Typed, NEW t, t \notin givenUp, givenUp' = givenUp \cup {t}
  PROVE  Cardinality(givenUp') = Cardinality(givenUp) + 1
  BY GivenUpFinite, FS_AddElement

-----------------------------------------------------------------------------
(* The invariant.                                                          *)

\* Initially there is no cache and nobody creates one.
LEMMA InitEstablishes == Init => IInv
<1> SUFFICES ASSUME Init PROVE IInv
  OBVIOUS
<1>1. Typed
  BY DEF Init, Typed
<1>2. LockGuardsCreation /\ OneCacheForAll
  BY NoneAssumption DEF Init, LockGuardsCreation, OneCacheForAll
<1>3. UploadsAccounted
  BY <1>1, GivenUpFinite DEF Init, UploadsAccounted
<1>4. GivenUpIsOver
  BY DEF Init, GivenUpIsOver
<1>5. QED
  BY <1>1, <1>2, <1>3, <1>4 DEF IInv

\* A step that takes or waits for nothing and creates nothing.
LEMMA QuietStep ==
  ASSUME IInv, NEW t \in Turn, NEW p \in {"waiting", "streaming", "done", "failed", "cancelled"},
         NEW u \in {0, ref},
         phase[t] \notin {"creating", "failed", "cancelled"},
         phase' = [phase EXCEPT ![t] = p],
         used' = used \/ used' = [used EXCEPT ![t] = u],
         UNCHANGED <<ref, lock, uploads, givenUp>>
  PROVE  IInv'
<1>1. Typed'
  BY DEF IInv, Typed
<1>2. LockGuardsCreation'
  BY DEF IInv, Typed, LockGuardsCreation
<1>3. OneCacheForAll'
  BY DEF IInv, Typed, OneCacheForAll
<1>4. GivenUpIsOver'
  BY DEF IInv, Typed, GivenUpIsOver
<1>5. UploadsAccounted'
  BY DEF IInv, UploadsAccounted
<1>6. QED
  BY <1>1, <1>2, <1>3, <1>4, <1>5 DEF IInv

\* A turn takes the lock when there is no cache.
LEMMA TakesLock ==
  ASSUME IInv, NEW t \in Turn, lock = None, ref = 0, phase[t] \in {"idle", "waiting"},
         phase' = [phase EXCEPT ![t] = "creating"], lock' = t,
         UNCHANGED <<ref, uploads, used, givenUp>>
  PROVE  IInv'
<1>1. Typed'
  BY DEF IInv, Typed
<1>2. LockGuardsCreation'
  BY NoneAssumption DEF IInv, Typed, LockGuardsCreation
<1>3. OneCacheForAll'
  BY DEF IInv, OneCacheForAll
<1>4. GivenUpIsOver'
  BY DEF IInv, Typed, GivenUpIsOver
<1>5. UploadsAccounted'
  BY DEF IInv, UploadsAccounted
<1>6. QED
  BY <1>1, <1>2, <1>3, <1>4, <1>5 DEF IInv

\* The holder of the lock creates the cache.
LEMMA CreatedPreserves ==
  ASSUME IInv, NEW t \in Turn, Created(t)
  PROVE  IInv'
<1>1. /\ lock = t /\ ref = 0 /\ lock' = None /\ uploads' = uploads + 1 /\ ref' = uploads + 1
      /\ givenUp' = givenUp
  BY NoneAssumption DEF IInv, LockGuardsCreation, Created
<1>2. /\ phase' = [phase EXCEPT ![t] = "streaming"] /\ phase[t] = "creating"
      /\ used' = [used EXCEPT ![t] = uploads + 1]
  BY <1>1 DEF Created, Streams
<1>3. Typed'
  BY <1>1, <1>2 DEF IInv, Typed
<1>4. LockGuardsCreation'
  BY <1>1, <1>2, NoneAssumption DEF IInv, Typed, LockGuardsCreation
<1>5. OneCacheForAll'
  BY <1>1, <1>2 DEF IInv, Typed, OneCacheForAll
<1>6. GivenUpIsOver'
  BY <1>1, <1>2 DEF IInv, Typed, GivenUpIsOver
<1>7. UploadsAccounted'
  <2>1. Cardinality(givenUp) \in Nat
    BY GivenUpFinite DEF IInv
  <2>2. uploads <= Cardinality(givenUp) /\ uploads \in Nat
    BY <1>1, <2>1 DEF IInv, Typed, UploadsAccounted
  <2>3. uploads' <= Cardinality(givenUp') + 1 /\ ref' # 0
    BY <1>1, <2>1, <2>2
  <2>4. QED
    BY <2>3 DEF UploadsAccounted
<1>8. QED
  BY <1>3, <1>4, <1>5, <1>6, <1>7 DEF IInv

\* The holder of the lock gives up: no cache, and perhaps an upload that is lost.
LEMMA CreationGivenUp ==
  ASSUME IInv, NEW t \in Turn, NEW p \in {"failed", "cancelled"}, GivesUp(t, p)
  PROVE  IInv'
<1>1. /\ lock = t /\ ref = 0 /\ phase[t] = "creating" /\ phase' = [phase EXCEPT ![t] = p]
      /\ lock' = None /\ ref' = 0 /\ used' = used
      /\ givenUp' = givenUp \cup {t} /\ uploads' \in {uploads, uploads + 1}
  BY NoneAssumption DEF IInv, LockGuardsCreation, GivesUp
<1>2. Typed'
  BY <1>1 DEF IInv, Typed
<1>3. LockGuardsCreation'
  BY <1>1, NoneAssumption DEF IInv, Typed, LockGuardsCreation
<1>4. OneCacheForAll'
  BY <1>1 DEF IInv, OneCacheForAll
<1>5. GivenUpIsOver'
  BY <1>1 DEF IInv, Typed, GivenUpIsOver
<1>6. UploadsAccounted'
  <2>1. t \notin givenUp
    BY <1>1 DEF IInv, GivenUpIsOver
  <2>2. Cardinality(givenUp) \in Nat /\ Cardinality(givenUp') = Cardinality(givenUp) + 1
    BY <1>1, <2>1, GivenUpFinite, OneMoreGivenUp DEF IInv
  <2>3. uploads <= Cardinality(givenUp) /\ uploads \in Nat
    BY <1>1, <2>2 DEF IInv, Typed, UploadsAccounted
  <2>4. QED
    BY <1>1, <2>2, <2>3 DEF UploadsAccounted
<1>7. QED
  BY <1>2, <1>3, <1>4, <1>5, <1>6 DEF IInv

\* Every step preserves the invariant.
LEMMA NextPreserves == IInv /\ [Next]_vars => IInv'
<1> SUFFICES ASSUME IInv, [Next]_vars PROVE IInv'
  OBVIOUS
<1>1. CASE UNCHANGED vars
  BY <1>1 DEF vars, IInv, Typed, LockGuardsCreation, GivenUpIsOver, OneCacheForAll, UploadsAccounted
<1>2. ASSUME NEW t \in Turn, TurnStep(t) PROVE IInv'
  <2>1. CASE BeginAtOnce(t)
    <3>1. PICK u \in {0, ref} : used' = [used EXCEPT ![t] = u]
      BY <2>1 DEF BeginAtOnce, Streams
    <3>2. QED
      BY <2>1, <3>1, QuietStep DEF BeginAtOnce, Streams
  <2>2. CASE BeginCreating(t)
    BY <2>2, TakesLock DEF BeginCreating
  <2>3. CASE BeginWaiting(t)
    BY <2>3, QuietStep DEF BeginWaiting
  <2>4. CASE Acquire(t)
    <3>1. CASE ref # 0
      BY <2>4, <3>1, QuietStep DEF Acquire, Streams
    <3>2. CASE ref = 0
      BY <2>4, <3>2, TakesLock DEF Acquire
    <3>3. QED
      BY <3>1, <3>2
  <2>5. CASE Created(t)
    BY <2>5, CreatedPreserves
  <2>6. CASE CreateFails(t)
    BY <2>6, CreationGivenUp DEF CreateFails
  <2>7. CASE StreamEnds(t)
    BY <2>7, QuietStep DEF StreamEnds
  <2>8. CASE StreamFails(t)
    BY <2>8, QuietStep DEF StreamFails
  <2>9. CASE CancelWaiting(t)
    BY <2>9, QuietStep DEF CancelWaiting
  <2>10. CASE CancelCreating(t)
    BY <2>10, CreationGivenUp DEF CancelCreating
  <2>11. CASE CancelStream(t)
    BY <2>11, QuietStep DEF CancelStream
  <2>12. QED
    BY <1>2, <2>1, <2>2, <2>3, <2>4, <2>5, <2>6, <2>7, <2>8, <2>9, <2>10, <2>11 DEF TurnStep
<1>3. QED
  BY <1>1, <1>2 DEF Next

-----------------------------------------------------------------------------
(* The theorems.                                                           *)

\* The lock guards the creation, in every behaviour of every set of turns.
THEOREM Invariance == Spec => []IInv
  BY InitEstablishes, NextPreserves, PTL DEF Spec

\* All turns that stream from a cache share the one in use, and every upload is the one in
\* use or was lost with a creation that was given up (gemini_llm.py:7, 91-111).
THEOREM UploadCorrect == Spec => []DocumentUploadedOnce
<1>1. IInv => DocumentUploadedOnce
  BY DEF IInv, DocumentUploadedOnce
<1>2. QED
  BY <1>1, Invariance, PTL

\* Once there is a cache no step replaces it, whoever was waiting to create one.
THEOREM CacheKept == Spec => [][ref # 0 => ref' = ref]_vars
<1>1. IInv /\ [Next]_vars => [ref # 0 => ref' = ref]_vars
  <2> SUFFICES ASSUME IInv, Next, ref # 0 PROVE ref' = ref
    BY DEF vars
  <2>1. PICK t \in Turn : TurnStep(t)
    BY DEF Next
  <2>2. ~Created(t)
    BY NoneAssumption DEF IInv, LockGuardsCreation, Created
  <2>3. QED
    BY <2>1, <2>2
    DEF TurnStep, BeginAtOnce, BeginCreating, BeginWaiting, Acquire, CreateFails, StreamEnds,
        GivesUp, StreamFails, CancelWaiting, CancelCreating, CancelStream
<1>2. QED
  BY <1>1, Invariance, PTL DEF Spec

-----------------------------------------------------------------------------
(* The line of those who wait for the lock.                                *)

\* A turn that waits is in line, once, and nobody else is.
InLine ==
  /\ queue \in Seq(Turn)
  /\ \A i \in 1 .. Len(queue) : phase[queue[i]] = "waiting"
  /\ \A t \in Turn : phase[t] = "waiting" => \E i \in 1 .. Len(queue) : queue[i] = t
  /\ \A i, j \in 1 .. Len(queue) : queue[i] = queue[j] => i = j

\* A turn that neither waited nor will leaves the line alone.
LEMMA LineAlone ==
  ASSUME Typed, InLine, NEW t \in Turn, NEW p, p # "waiting", phase[t] # "waiting",
         phase' = [phase EXCEPT ![t] = p], queue' = queue
  PROVE  InLine'
<1>1. \A u \in Turn : phase'[u] = "waiting" <=> phase[u] = "waiting"
  BY DEF Typed
<1> QED  BY <1>1 DEF InLine

\* Whoever comes goes to its end.
LEMMA LineLonger ==
  ASSUME Typed, InLine, NEW t \in Turn, phase[t] # "waiting",
         phase' = [phase EXCEPT ![t] = "waiting"], queue' = Append(queue, t)
  PROVE  InLine'
<1>1. /\ queue' \in Seq(Turn) /\ Len(queue') = Len(queue) + 1 /\ Len(queue) \in Nat
      /\ queue'[Len(queue) + 1] = t
      /\ \A i \in 1 .. Len(queue) : queue'[i] = queue[i] /\ queue[i] \in Turn /\ queue[i] # t
  BY DEF InLine
<1>2. /\ phase'[t] = "waiting"
      /\ \A u \in Turn \ {t} : phase'[u] = phase[u]
  BY DEF Typed
<1>3. \A i \in 1 .. Len(queue') : phase'[queue'[i]] = "waiting"
  BY <1>1, <1>2 DEF InLine
<1>4. ASSUME NEW u \in Turn, phase'[u] = "waiting" PROVE \E i \in 1 .. Len(queue') : queue'[i] = u
  <2>1. CASE u = t
    BY <1>1, <2>1
  <2>2. CASE u # t
    <3>1. PICK i \in 1 .. Len(queue) : queue[i] = u
      BY <1>2, <1>4, <2>2 DEF InLine
    <3> QED  BY <1>1, <3>1
  <2> QED  BY <2>1, <2>2
<1>5. \A i, j \in 1 .. Len(queue') : queue'[i] = queue'[j] => i = j
  BY <1>1 DEF InLine
<1> QED  BY <1>1, <1>3, <1>4, <1>5 DEF InLine

\* Whoever leaves, from wherever it stood, is taken out, and the others keep their order.
LEMMA LineShorter ==
  ASSUME Typed, InLine, NEW t \in Turn, NEW p, p # "waiting", NEW i \in 1 .. Len(queue), queue[i] = t,
         phase' = [phase EXCEPT ![t] = p],
         queue' \in Seq(Turn), Len(queue') = Len(queue) - 1,
         \A j \in 1 .. Len(queue) - 1 : queue'[j] = IF j < i THEN queue[j] ELSE queue[j + 1]
  PROVE  InLine'
<1>1. Len(queue) \in Nat /\ (\A j \in 1 .. Len(queue) : queue[j] \in Turn)
  BY DEF InLine
<1>2. /\ phase'[t] # "waiting"
      /\ \A u \in Turn \ {t} : phase'[u] = phase[u]
  BY DEF Typed
<1>3. \A j \in 1 .. Len(queue') :
        \E k \in 1 .. Len(queue) : k = (IF j < i THEN j ELSE j + 1) /\ k # i /\ queue'[j] = queue[k]
  BY <1>1
<1>4. \A j \in 1 .. Len(queue') : queue'[j] # t /\ phase'[queue'[j]] = "waiting"
  BY <1>1, <1>2, <1>3 DEF InLine
<1>5. ASSUME NEW u \in Turn, phase'[u] = "waiting" PROVE \E j \in 1 .. Len(queue') : queue'[j] = u
  <2>1. PICK k \in 1 .. Len(queue) : queue[k] = u
    BY <1>2, <1>5 DEF InLine
  <2>2. k # i
    BY <1>2, <1>5, <2>1
  <2>3. CASE k < i
    BY <1>1, <2>1, <2>3
  <2>4. CASE k > i
    <3>1. k - 1 \in 1 .. Len(queue') /\ ~(k - 1 < i) /\ (k - 1) + 1 = k
      BY <1>1, <2>4
    <3> QED  BY <2>1, <3>1
  <2> QED  BY <1>1, <2>2, <2>3, <2>4
<1>6. \A j, k \in 1 .. Len(queue') : queue'[j] = queue'[k] => j = k
  <2> SUFFICES ASSUME NEW j \in 1 .. Len(queue'), NEW k \in 1 .. Len(queue'), queue'[j] = queue'[k]
               PROVE  j = k
    OBVIOUS
  <2>1. (IF j < i THEN j ELSE j + 1) = (IF k < i THEN k ELSE k + 1)
    BY <1>1, <1>3 DEF InLine
  <2> QED  BY <1>1, <2>1
<1> QED  BY <1>4, <1>5, <1>6 DEF InLine

\* An element taken out of a sequence.
LEMMA Removed ==
  ASSUME NEW s \in Seq(Turn), NEW i \in 1 .. Len(s)
  PROVE  /\ RemoveAt(s, i) \in Seq(Turn) /\ Len(RemoveAt(s, i)) = Len(s) - 1
         /\ \A j \in 1 .. Len(s) - 1 : RemoveAt(s, i)[j] = IF j < i THEN s[j] ELSE s[j + 1]
<1> DEFINE a == SubSeq(s, 1, i - 1)
           b == SubSeq(s, i + 1, Len(s))
<1>1. Len(s) \in Nat /\ \A j \in 1 .. Len(s) : s[j] \in Turn
  OBVIOUS
<1>2. a \in Seq(Turn) /\ Len(a) = i - 1 /\ \A j \in 1 .. i - 1 : a[j] = s[j]
  BY <1>1
<1>3. b \in Seq(Turn) /\ Len(b) = Len(s) - i /\ \A j \in 1 .. Len(s) - i : b[j] = s[i + j]
  BY <1>1
<1> HIDE DEF a, b
<1>4. /\ a \o b \in Seq(Turn) /\ Len(a \o b) = Len(s) - 1
      /\ \A j \in 1 .. Len(a) + Len(b) : (a \o b)[j] = IF j <= Len(a) THEN a[j] ELSE b[j - Len(a)]
  BY <1>1, <1>2, <1>3, ConcatProperties
<1>5. ASSUME NEW j \in 1 .. Len(s) - 1 PROVE (a \o b)[j] = IF j < i THEN s[j] ELSE s[j + 1]
  <2>1. CASE j < i
    BY <1>1, <1>2, <1>3, <1>4, <2>1
  <2>2. CASE ~(j < i)
    <3>1. j - (i - 1) \in 1 .. Len(s) - i /\ i + (j - (i - 1)) = j + 1
      BY <1>1, <2>2
    <3>2. (a \o b)[j] = b[j - (i - 1)]
      BY <1>1, <1>2, <1>3, <1>4, <2>2
    <3> QED  BY <1>3, <2>2, <3>1, <3>2
  <2> QED  BY <2>1, <2>2
<1> QED  BY <1>4, <1>5 DEF RemoveAt, a, b

\* Every step keeps the line.
LEMMA LineNext == ASSUME Typed, InLine, [Next]_vars PROVE InLine'
<1>1. CASE UNCHANGED vars
  BY <1>1 DEF vars, InLine
<1>2. ASSUME NEW t \in Turn, TurnStep(t) PROVE InLine'
  <2>1. CASE BeginAtOnce(t)
    BY <2>1, LineAlone DEF BeginAtOnce, Streams
  <2>2. CASE BeginCreating(t)
    BY <2>2, LineAlone DEF BeginCreating
  <2>3. CASE BeginWaiting(t)
    BY <2>3, LineLonger DEF BeginWaiting
  <2>4. CASE Acquire(t)
    <3>1. PICK p \in {"streaming", "creating"} : phase' = [phase EXCEPT ![t] = p]
      BY <2>4 DEF Acquire, Streams
    <3>2. /\ 1 \in 1 .. Len(queue) /\ queue[1] = t /\ queue' = Tail(queue)
          /\ queue' \in Seq(Turn) /\ Len(queue') = Len(queue) - 1
          /\ \A j \in 1 .. Len(queue) - 1 : queue'[j] = queue[j + 1]
      BY <2>4 DEF Acquire, InLine
    <3>3. \A j \in 1 .. Len(queue) - 1 : queue'[j] = IF j < 1 THEN queue[j] ELSE queue[j + 1]
      BY <3>2
    <3> QED  BY <3>1, <3>2, <3>3, LineShorter
  <2>5. CASE Created(t)
    BY <2>5, LineAlone DEF Created, Streams
  <2>6. CASE CreateFails(t)
    BY <2>6, LineAlone DEF CreateFails, GivesUp
  <2>7. CASE StreamEnds(t)
    BY <2>7, LineAlone DEF StreamEnds
  <2>8. CASE StreamFails(t)
    BY <2>8, LineAlone DEF StreamFails
  <2>9. CASE CancelWaiting(t)
    <3>1. PICK i \in 1 .. Len(queue) : queue[i] = t /\ queue' = RemoveAt(queue, i)
      BY <2>9 DEF CancelWaiting, InLine
    <3>2. queue \in Seq(Turn) /\ phase' = [phase EXCEPT ![t] = "cancelled"]
      BY <2>9 DEF CancelWaiting, InLine
    <3> QED  BY <3>1, <3>2, Removed, LineShorter
  <2>10. CASE CancelCreating(t)
    BY <2>10, LineAlone DEF CancelCreating, GivesUp
  <2>11. CASE CancelStream(t)
    BY <2>11, LineAlone DEF CancelStream
  <2>12. QED
    BY <1>2, <2>1, <2>2, <2>3, <2>4, <2>5, <2>6, <2>7, <2>8, <2>9, <2>10, <2>11 DEF TurnStep
<1> QED  BY <1>1, <1>2 DEF Next

\* Whoever waits for the lock stays in line, once, until it is served or cancelled:
\* no cancellation takes another one's place away (gemini_llm.py:94).
THEOREM LineCorrect == Spec => []InLine
<1>1. Init => InLine
  BY DEF Init, InLine
<1>2. IInv => Typed
  BY DEF IInv
<1>3. Typed /\ InLine /\ [Next]_vars => InLine'
  BY LineNext
<1> QED  BY <1>1, <1>2, <1>3, Invariance, PTL DEF Spec

-----------------------------------------------------------------------------
(* A synthesiser's call.                                                   *)

\* What the position of the generator says about the connection, the sender and the
\* exception on its way.
Unopened == pc \in {"created", "connecting"}
Receives == pc \in {"receiving", "yielding", "abandoned", "joining"}

CallPlaced ==
  /\ Unopened => conn = "none" /\ sender = "none" /\ raised = "none"
  /\ Receives => conn # "none" /\ sender \in {"running", "done", "failed"} /\ raised = "none"
  /\ pc = "stopping" => sender = "cancelling" /\ raised # "none"
  /\ pc = "closing" => sender \in {"done", "failed", "cancelled"}
  /\ pc \in {"ended", "cut"} => sender \notin {"running", "cancelling"}
  /\ pc = "ended" => conn \in {"none", "closed"}
  /\ pc = "cut" => raised = "cancelled"

\* The sender stops by itself at the last frame, and not before.
SenderCounts ==
  /\ sender = "none" => sent = 0
  /\ sender = "running" => sent < Frames
  /\ sender = "done" => sent = Frames

\* On the way out without an exception, the sender was seen done.
QuietMeansSaid == pc \in {"closing", "ended", "cut"} /\ raised = "none" => sent = Frames

\* An error frame is the last that is read, and its exception is on its way out.
ErrorIsOnItsWay ==
  read => /\ pc \in {"stopping", "closing", "ended", "cut"}
          /\ pc = "stopping" => raised = "tts"
          /\ pc \in {"closing", "ended"} => raised = IF sender = "failed" THEN "connection" ELSE "tts"

SpeechTypes ==
  /\ inbox \in Seq({"audio", "error", "done"})
  /\ emitted \in Nat /\ sent \in Nat /\ read \in BOOLEAN
  /\ Len(inbox) <= emitted + (IF finished THEN 1 ELSE 0)

SpeechInv ==
  /\ Speech!TypeOK /\ SpeechTypes
  /\ CallPlaced /\ SenderCounts /\ QuietMeansSaid /\ ErrorIsOnItsWay

\* The call starts in the invariant.
LEMMA SpeechInit ==
  ASSUME Speech!ConstantsAssumption, Speech!Init PROVE SpeechInv
<1>1. inbox \in Seq({"audio", "error", "done"}) /\ Len(inbox) = 0
  BY DEF Speech!Init
<1>b. finished \in BOOLEAN /\ read \in BOOLEAN
  BY Zenon DEF Speech!Init
<1>2. Speech!TypeOK
  BY <1>1, <1>b DEF Speech!ConstantsAssumption, Speech!Init, Speech!TypeOK
<1>3. SpeechTypes
  BY <1>1, <1>b DEF Speech!Init, SpeechTypes
<1>4. ErrorIsOnItsWay /\ QuietMeansSaid
  BY DEF Speech!Init, ErrorIsOnItsWay, QuietMeansSaid
<1> QED
  BY <1>2, <1>3, <1>4 DEF Speech!Init, SpeechInv, CallPlaced, Unopened, Receives, SenderCounts

\* What reading a frame leaves in the inbox.
LEMMA FramesRead ==
  ASSUME SpeechInv, NEW frame, Speech!Reads(frame)
  PROVE  /\ inbox' \in Seq({"audio", "error", "done"})
         /\ Len(inbox') <= Len(inbox)
BY DEF SpeechInv, SpeechTypes, Speech!Reads

\* However the generator is left, the inner finally clause keeps the invariant.
LEMMA UnwindKeeps ==
  ASSUME Speech!ConstantsAssumption, SpeechInv,
         NEW exc \in {"none", "connection", "tts", "exit", "cancelled"}, Speech!Unwind(exc),
         Receives, ~read, read' \in BOOLEAN, read' => exc = "tts",
         exc = "none" => sender # "running",
         UNCHANGED <<provider, conn, emitted, finished, sent>>,
         inbox' \in Seq({"audio", "error", "done"}), Len(inbox') <= Len(inbox)
  PROVE  SpeechInv'
<1>1. CASE sender = "running"
  BY <1>1 DEF Speech!ConstantsAssumption, SpeechInv, Speech!Unwind, Speech!TypeOK, SpeechTypes, CallPlaced,
       Unopened, Receives, SenderCounts, QuietMeansSaid, ErrorIsOnItsWay
<1>2. CASE sender # "running"
  BY <1>2 DEF Speech!ConstantsAssumption, SpeechInv, Speech!Unwind, Speech!TypeOK, SpeechTypes, CallPlaced,
       Unopened, Receives, SenderCounts, QuietMeansSaid, ErrorIsOnItsWay
<1> QED  BY <1>1, <1>2

\* Every step of the generator, the sender and the server keeps the invariant.
LEMMA SpeechNext ==
  ASSUME Speech!ConstantsAssumption, SpeechInv, [Speech!Next]_(Speech!vars)
  PROVE  SpeechInv'
<1> USE DEF Speech!ConstantsAssumption
<1>u. CASE UNCHANGED Speech!vars
  BY <1>u DEF Speech!vars, Speech!call, SpeechInv, Speech!TypeOK, SpeechTypes, CallPlaced,
       Unopened, Receives, SenderCounts, QuietMeansSaid, ErrorIsOnItsWay
<1>n. CASE Speech!Next
  <2> USE DEF Speech!Remote, Speech!Sending
  <2>0. UNCHANGED provider
    BY <1>n DEF Speech!Next
  <2>1. CASE Speech!Begin
    BY <2>0, <2>1 DEF Speech!Begin, SpeechInv, Speech!TypeOK, SpeechTypes, CallPlaced,
         Unopened, Receives, SenderCounts, QuietMeansSaid, ErrorIsOnItsWay
  <2>2. CASE Speech!Connected
    BY <2>0, <2>2 DEF Speech!Connected, SpeechInv, Speech!TypeOK, SpeechTypes, CallPlaced,
         Unopened, Receives, SenderCounts, QuietMeansSaid, ErrorIsOnItsWay
  <2>3. CASE Speech!ConnectFails
    BY <2>0, <2>3 DEF Speech!ConnectFails, SpeechInv, Speech!TypeOK, SpeechTypes, CallPlaced,
         Unopened, Receives, SenderCounts, QuietMeansSaid, ErrorIsOnItsWay
  <2>4. CASE Speech!ReadAudio
    <3>1. /\ inbox' \in Seq({"audio", "error", "done"})
          /\ Len(inbox') <= Len(inbox)
      BY <2>4, FramesRead DEF Speech!ReadAudio
    <3> QED
      BY <2>0, <2>4, <3>1 DEF Speech!ReadAudio, Speech!Reads, SpeechInv, Speech!TypeOK, SpeechTypes,
           CallPlaced, Unopened, Receives, SenderCounts, QuietMeansSaid, ErrorIsOnItsWay
  <2>5. CASE Speech!ReadDone
    <3>1. /\ inbox' \in Seq({"audio", "error", "done"})
          /\ Len(inbox') <= Len(inbox)
      BY <2>5, FramesRead DEF Speech!ReadDone
    <3> QED
      BY <2>0, <2>5, <3>1 DEF Speech!ReadDone, Speech!Reads, Speech!LoopEnds, SpeechInv, Speech!TypeOK,
           SpeechTypes, CallPlaced, Unopened, Receives, SenderCounts, QuietMeansSaid, ErrorIsOnItsWay
  <2>6. CASE Speech!ReadError
    <3>1. /\ inbox' \in Seq({"audio", "error", "done"})
          /\ Len(inbox') <= Len(inbox)
      BY <2>6, FramesRead DEF Speech!ReadError
    <3>2. pc = "receiving" /\ ~read
      BY <2>6 DEF Speech!ReadError, Speech!Reads, SpeechInv, SpeechTypes, ErrorIsOnItsWay
    <3>3. CASE Speech!RaisesErrors
      <4>1. Speech!Unwind("tts")
        BY <2>6, <3>3 DEF Speech!ReadError
      <4> QED
        BY <2>0, <2>6, <3>1, <3>2, <3>3, <4>1, UnwindKeeps
           DEF Speech!ReadError, Speech!RaisesErrors, Receives
    <3>4. CASE ~Speech!RaisesErrors
      <4>1. read' = FALSE
        BY <2>6, <3>4 DEF Speech!ReadError, Speech!RaisesErrors
      <4>2. read' \in BOOLEAN
        BY <4>1, Zenon
      <4>3. UNCHANGED <<pc, conn, emitted, finished, sender, sent, raised>>
        BY <2>6, <3>4 DEF Speech!ReadError
      <4> QED
        BY <2>0, <3>1, <3>2, <4>1, <4>2, <4>3 DEF SpeechInv, Speech!TypeOK, SpeechTypes,
             CallPlaced, Unopened, Receives, SenderCounts, QuietMeansSaid, ErrorIsOnItsWay
    <3> QED  BY <3>3, <3>4
  <2>7. CASE Speech!StreamEnds
    <3>1. pc = "receiving" /\ read = FALSE /\ inbox \in Seq({"audio", "error", "done"})
      BY <2>7 DEF Speech!StreamEnds, SpeechInv, SpeechTypes, ErrorIsOnItsWay
    <3>2. CASE conn = "closed"
      BY <2>0, <2>7, <3>2 DEF Speech!StreamEnds, Speech!LoopEnds, SpeechInv, Speech!TypeOK,
           SpeechTypes, CallPlaced, Unopened, Receives, SenderCounts, QuietMeansSaid, ErrorIsOnItsWay
    <3>3. CASE conn # "closed"
      <4>1. /\ UNCHANGED <<provider, conn, inbox, emitted, finished, sent, read>>
            /\ Speech!Unwind("connection")
        BY <2>0, <2>7, <3>3 DEF Speech!StreamEnds
      <4>2. Receives /\ ~read /\ ~read'
        BY <3>1, <4>1 DEF Receives
      <4>3. read' \in BOOLEAN
        BY <3>1, <4>1, Zenon
      <4>4. inbox' \in Seq({"audio", "error", "done"}) /\ Len(inbox') <= Len(inbox)
        BY <3>1, <4>1
      <4> QED
        BY <4>1, <4>2, <4>3, <4>4, UnwindKeeps
    <3> QED  BY <3>2, <3>3
  <2>8. CASE Speech!Joined
    BY <2>0, <2>8, UnwindKeeps DEF Speech!Joined, Receives, SpeechInv, SpeechTypes, ErrorIsOnItsWay
  <2>9. CASE Speech!Finalise
    BY <2>0, <2>9, UnwindKeeps DEF Speech!Finalise, Receives, SpeechInv, SpeechTypes, ErrorIsOnItsWay
  <2>10. CASE Speech!Cancel
    BY <2>0, <2>10, UnwindKeeps DEF Speech!Cancel, Receives, SpeechInv, SpeechTypes, ErrorIsOnItsWay
  <2>11. CASE Speech!SenderCancelled
    BY <2>0, <2>11 DEF Speech!SenderCancelled, SpeechInv, Speech!TypeOK, SpeechTypes, CallPlaced,
         Unopened, Receives, SenderCounts, QuietMeansSaid, ErrorIsOnItsWay
  <2>12. CASE Speech!Close
    BY <2>0, <2>12 DEF Speech!Close, SpeechInv, Speech!TypeOK, SpeechTypes, CallPlaced,
         Unopened, Receives, SenderCounts, QuietMeansSaid, ErrorIsOnItsWay
  <2>c. CASE Speech!CancelClosing
    BY <2>0, <2>c DEF Speech!CancelClosing, SpeechInv, Speech!TypeOK, SpeechTypes, CallPlaced,
         Unopened, Receives, SenderCounts, QuietMeansSaid, ErrorIsOnItsWay
  <2>13. CASE Speech!Pull \/ Speech!Abandon
    BY <2>0, <2>13 DEF Speech!Pull, Speech!Abandon, SpeechInv, Speech!TypeOK, SpeechTypes, CallPlaced,
         Unopened, Receives, SenderCounts, QuietMeansSaid, ErrorIsOnItsWay
  <2>14. CASE Speech!SenderStep
    BY <2>0, <2>14 DEF Speech!SenderStep, Speech!SendFrame, Speech!SendFails, SpeechInv, Speech!TypeOK,
         SpeechTypes, CallPlaced, Unopened, Receives, SenderCounts, QuietMeansSaid, ErrorIsOnItsWay
  <2>15. ASSUME NEW frame \in {"audio", "error"}, Speech!Emit(frame) PROVE SpeechInv'
    <3>1. inbox' \in Seq({"audio", "error", "done"}) /\ Len(inbox') = Len(inbox) + 1
      BY <2>15 DEF Speech!Emit, SpeechInv, SpeechTypes
    <3> QED
      BY <2>0, <2>15, <3>1 DEF Speech!Emit, SpeechInv, Speech!TypeOK, SpeechTypes, CallPlaced,
           Unopened, Receives, SenderCounts, QuietMeansSaid, ErrorIsOnItsWay
  <2>16. CASE Speech!EmitDone
    <3>1. inbox' \in Seq({"audio", "error", "done"}) /\ Len(inbox') = Len(inbox) + 1
      BY <2>16 DEF Speech!EmitDone, SpeechInv, SpeechTypes
    <3> QED
      BY <2>0, <2>16, <3>1 DEF Speech!EmitDone, SpeechInv, Speech!TypeOK, SpeechTypes, CallPlaced,
           Unopened, Receives, SenderCounts, QuietMeansSaid, ErrorIsOnItsWay
  <2>17. ASSUME NEW how \in {"closed", "dropped"}, Speech!PeerLeaves(how) PROVE SpeechInv'
    BY <2>0, <2>17 DEF Speech!PeerLeaves, SpeechInv, Speech!TypeOK, SpeechTypes, CallPlaced,
         Unopened, Receives, SenderCounts, QuietMeansSaid, ErrorIsOnItsWay
  <2> QED
    BY <1>n, <2>1, <2>2, <2>3, <2>4, <2>5, <2>6, <2>7, <2>8, <2>9, <2>10, <2>11, <2>12, <2>c,
       <2>13, <2>14, <2>15, <2>16, <2>17 DEF Speech!Next, Speech!Own, Speech!PeerStep
<1> QED  BY <1>u, <1>n

\* What the position of the generator says holds in every state of a synthesiser's call.
THEOREM SpeechInvariance == ASSUME Speech!ConstantsAssumption PROVE Speech!Spec => []SpeechInv
<1>1. Speech!Init => SpeechInv
  BY SpeechInit
<1>2. SpeechInv /\ [Speech!Next]_(Speech!vars) => SpeechInv'
  BY SpeechNext
<1> QED  BY <1>1, <1>2, PTL DEF Speech!Spec

\* A call that ends without an exception has said everything, an error frame raises, and
\* whichever way it ends, but for a cancelled conn.close(), no socket and no task is left
\* behind (cartesia_tts.py:12-13, 155-163), for every length of the text and of the audio,
\* and whatever the server does.
THEOREM SpeechCorrect ==
  ASSUME Speech!ConstantsAssumption PROVE Speech!Spec => []Speech!SpokenInFullOrRaised
<1>1. SpeechInv => Speech!SpokenInFullOrRaised
  BY DEF SpeechInv, CallPlaced, QuietMeansSaid, ErrorIsOnItsWay, Speech!SpokenInFullOrRaised,
         Speech!NothingLeftBehind, Speech!CleanEndSaidAll, Speech!ErrorFrameRaisesTtsError
<1> QED  BY <1>1, SpeechInvariance, PTL

-----------------------------------------------------------------------------
(* The dashboard.                                                          *)

\* The microphones that may still be granted are within the bound, and so are the numbers
\* of the recorders.
RecordingsCounted == mic + asking <= asks /\ recorder.n <= mic

\* A microphone is off, on, or about to be switched off.
MicOff == live = {} /\ loops = {} /\ recorder.on = FALSE /\ stopping = {}
MicOn  ==
  /\ live = {mic} /\ loops = {mic} /\ recorder.on = TRUE /\ recorder.n = mic /\ stopping = {}
  /\ asking = 0
MicStopping ==
  /\ live = {mic} /\ loops = {} /\ recorder.on = FALSE /\ asking = 0
  /\ \E stop \in [n : Nat, send : BOOLEAN] : stopping = {stop}

OneMicrophone ==
  /\ asking \in {0, 1}
  /\ MicOff \/ MicOn \/ MicStopping
  /\ state = "listening" => ~MicOff

ThinkingWillEnd ==
  state = "thinking" => stopping # {} \/ ~Page!NoTimer \/ \E t \in DOMAIN turns : Page!Open(t)

\* What a user who starts no second microphone may rely on.
CarefulIsSafe == user # "hasty" /\ failed = FALSE => OneMicrophone /\ ThinkingWillEnd

\* For a user who waits, one thing is under way at a time, and these are the stages it
\* goes through.
NoTurn    == \A t \in DOMAIN turns : ~Page!Open(t)
AtMostOne == \A t, u \in DOMAIN turns : Page!Open(t) /\ Page!Open(u) => t = u

Resting   == state = "idle" /\ asking = 0 /\ MicOff /\ NoTurn /\ Page!NoTimer
Asking    == state = "idle" /\ asking = 1 /\ MicOff /\ NoTurn /\ Page!NoTimer
Hearing   == state = "listening" /\ MicOn /\ NoTurn /\ Page!NoTimer
Pausing   == state = "listening" /\ MicStopping /\ NoTurn /\ Page!NoTimer
Answering == state \in {"thinking", "speaking"} /\ asking = 0 /\ MicOff /\ AtMostOne /\ Page!NoTimer
Returning ==
  /\ state # "listening" /\ asking = 0 /\ MicOff /\ NoTurn
  /\ timers.flash + timers.finish = 1

Staged == Resting \/ Asking \/ Hearing \/ Pausing \/ Answering \/ Returning
OneThingAtATime == user = "patient" /\ failed = FALSE => Staged

PageInv ==
  /\ Page!TypeOK /\ RecordingsCounted /\ Page!SpeakingWillEnd
  /\ CarefulIsSafe /\ OneThingAtATime

\* The page opens in the invariant.
LEMMA PageInit == ASSUME Page!ConstantsAssumption, Page!Init PROVE PageInv
<1> USE DEF Page!ConstantsAssumption, Page!Init
<1>0. failed \in BOOLEAN /\ chunks \in BOOLEAN /\ recorder.on \in BOOLEAN
  BY Zenon
<1>1. Page!TypeOK
  <2>1. recorder \in [n : 0 .. MaxRecordings, on : BOOLEAN] /\ timers \in [flash : Nat, finish : Nat]
    OBVIOUS
  <2> QED  BY <1>0, <2>1 DEF Page!TypeOK, Page!TurnState
<1>2. RecordingsCounted /\ Page!SpeakingWillEnd /\ CarefulIsSafe
  BY DEF RecordingsCounted, Page!SpeakingWillEnd, CarefulIsSafe, OneMicrophone, MicOff, ThinkingWillEnd
<1>3. Resting
  BY DEF Resting, MicOff, NoTurn, Page!Open, Page!NoTimer
<1> QED  BY <1>1, <1>2, <1>3 DEF PageInv, OneThingAtATime, Staged

\* Of one loop, the latest is that one.
LEMMA LatestOfOne == ASSUME NEW n \in Nat PROVE Page!Latest({n}) = {n}
<1>1. Page!Max({n}) = n
  BY DEF Page!Max
<1> QED  BY <1>1 DEF Page!Latest

\* Every callback and every click keeps the variables in their types.
LEMMA PageTyped ==
  ASSUME Page!ConstantsAssumption, Page!TypeOK, RecordingsCounted, Page!Next
  PROVE  Page!TypeOK' /\ RecordingsCounted'
<1> USE DEF Page!ConstantsAssumption, Page!TypeOK, RecordingsCounted
<1>0. user' = user
  BY DEF Page!Next
<1>r. /\ recorder \in [n : Nat, on : BOOLEAN] /\ recorder.n <= mic /\ mic <= MaxRecordings
      /\ asking \in Nat /\ mic \in Nat /\ asks \in Nat /\ mic + asking <= asks /\ asks <= MaxRecordings
      /\ timers \in [flash : Nat, finish : Nat]
  OBVIOUS
<1>f. ASSUME Page!Flash PROVE timers' \in [flash : Nat, finish : Nat]
  BY <1>r, <1>f DEF Page!Flash
<1>1. CASE Page!ClickIdle \/ Page!ClickSpeaking
  <2>1. /\ asks < MaxRecordings /\ asks' = asks + 1 /\ asking' = asking + 1 /\ sounding' \subseteq sounding
        /\ UNCHANGED <<failed, state, mic, live, recorder, chunks, stopping, loops, turns, timers>>
    BY <1>1 DEF Page!ClickIdle, Page!ClickSpeaking, Page!StartListening, Page!MayRecord
  <2>2. asks' \in 0 .. MaxRecordings /\ asking' \in 0 .. MaxRecordings /\ mic' + asking' <= asks'
    BY <1>r, <2>1
  <2> QED  BY <1>0, <2>1, <2>2
<1>2. CASE Page!Granted
  <2>1. /\ asking > 0 /\ asking' = asking - 1 /\ mic' = mic + 1 /\ live' = live \cup {mic'}
        /\ chunks' = FALSE /\ UNCHANGED <<asks, stopping, turns, sounding, timers>>
    BY <1>2 DEF Page!Granted
  <2>2. mic' \in 1 .. MaxRecordings /\ asking' \in 0 .. MaxRecordings /\ mic' + asking' <= asks'
    BY <1>r, <2>1
  <2>3. /\ recorder' = recorder \/ \E on \in BOOLEAN : recorder' = [n |-> mic', on |-> on]
        /\ state' \in {state, "listening"} /\ loops' \subseteq loops \cup {mic'}
    BY <1>2 DEF Page!Granted, Page!NotRecorded, Page!Records
  <2>5. failed' \in BOOLEAN /\ chunks' \in BOOLEAN
    <3>1. failed' = failed \/ failed' = TRUE
      BY <1>2 DEF Page!Granted, Page!NotRecorded
    <3> QED  BY <2>1, <3>1, Zenon
  <2>4. recorder' \in [n : 0 .. MaxRecordings, on : BOOLEAN] /\ recorder'.n <= mic'
    BY <1>r, <2>1, <2>2, <2>3
  <2> QED  BY <1>0, <2>1, <2>2, <2>3, <2>4, <2>5
<1>3. CASE Page!Denied
  BY <1>0, <1>3, <1>f DEF Page!Denied
<1>11. CASE Page!RecorderEnds
  <2>1. recorder' = [n |-> recorder.n, on |-> FALSE]
    BY <1>r, <1>11 DEF Page!RecorderEnds
  <2> QED  BY <1>0, <1>r, <1>11, <2>1 DEF Page!RecorderEnds
<1>4. ASSUME NEW send \in BOOLEAN, NEW ended, Page!StopListening(send, ended)
      PROVE  Page!TypeOK' /\ RecordingsCounted'
  <2>1. recorder' = [n |-> recorder.n, on |-> FALSE]
    BY <1>4 DEF Page!StopListening
  <2>2. stopping' \subseteq [n : 0 .. MaxRecordings, send : BOOLEAN]
    BY <1>4 DEF Page!StopListening
  <2>3. state' \in {"idle", "listening", "thinking", "speaking"}
    BY <1>4 DEF Page!StopListening
  <2> QED  BY <1>0, <1>4, <2>1, <2>2, <2>3 DEF Page!StopListening
<1>5. ASSUME NEW s \in {"encoding", "fetching"}, Page!NewTurn(s)
      PROVE  turns' \in [1 .. MaxTurns -> Page!TurnState]
  BY <1>5 DEF Page!NewTurn, Page!TurnState
<1>6. CASE Page!Stopped
  <2>1. PICK stop \in stopping : stopping' = stopping \ {stop} /\ Page!Recorded(stop)
    BY <1>6 DEF Page!Stopped
  <2>2. /\ turns' \in [1 .. MaxTurns -> Page!TurnState] /\ state' \in {"idle", "thinking"}
        /\ chunks' \in BOOLEAN
    BY <2>1, <1>5 DEF Page!Recorded
  <2> QED  BY <1>0, <1>6, <2>1, <2>2 DEF Page!Stopped
<1>7. CASE Page!ClickPill
  BY <1>0, <1>5, <1>7 DEF Page!ClickPill, Page!mics
<1>8. ASSUME NEW t \in DOMAIN turns, NEW from, NEW to \in Page!TurnState, Page!Moves(t, from, to)
      PROVE  turns' \in [1 .. MaxTurns -> Page!TurnState]
  BY <1>8 DEF Page!Moves
<1>9. ASSUME NEW t \in DOMAIN turns, Page!TurnGoesOn(t) \/ Page!Chunk(t) \/ Page!SoundEnds(t)
      PROVE  Page!TypeOK' /\ RecordingsCounted'
  <2>1. turns' \in [1 .. MaxTurns -> Page!TurnState]
    BY <1>8, <1>9 DEF Page!TurnGoesOn, Page!Encoded, Page!Answers, Page!Fails, Page!Ends, Page!Chunk,
         Page!SoundEnds, Page!TurnState
  <2>2. timers' \in [flash : Nat, finish : Nat]
    BY <1>9, <1>f, <1>r DEF Page!TurnGoesOn, Page!Encoded, Page!Answers, Page!Fails, Page!Ends,
         Page!Chunk, Page!SoundEnds
  <2>3. /\ UNCHANGED <<failed, asks, asking, mic, live, recorder, chunks, stopping, loops>>
        /\ state' \in {state, "thinking", "speaking"} /\ sounding' \subseteq sounding \cup {t}
    BY <1>9 DEF Page!TurnGoesOn, Page!Encoded, Page!Answers, Page!Fails, Page!Ends, Page!Chunk,
         Page!SoundEnds, Page!mics
  <2> QED  BY <1>0, <2>1, <2>2, <2>3
<1>10. CASE Page!Flashed \/ Page!Finished
  <2>1. timers' \in [flash : Nat, finish : Nat]
    BY <1>r, <1>10 DEF Page!Flashed, Page!Finished
  <2>2. /\ UNCHANGED <<failed, asks, asking, mic, live, recorder, chunks, stopping, loops, turns>>
        /\ state' = "idle" /\ sounding' \subseteq sounding
    BY <1>10 DEF Page!Flashed, Page!Finished, Page!mics
  <2> QED  BY <1>0, <2>1, <2>2
<1> QED
  BY <1>1, <1>2, <1>3, <1>4, <1>6, <1>7, <1>9, <1>10, <1>11
     DEF Page!Next, Page!Step, Page!ClickListening, Page!LoopEnds

\* A new timer is one that is pending.
LEMMA FlashPends == ASSUME Page!TypeOK, Page!Flash PROVE ~Page!NoTimer'
  BY DEF Page!TypeOK, Page!Flash, Page!NoTimer

\* A turn that is over has left a timer behind.
LEMMA EndPends ==
  ASSUME Page!TypeOK, NEW t \in DOMAIN turns, Page!Fails(t) \/ Page!Ends(t) PROVE ~Page!NoTimer'
<1>1. CASE Page!Flash
  BY <1>1, FlashPends
<1>2. CASE timers' = [timers EXCEPT !.finish = @ + 1]
  BY <1>2 DEF Page!TypeOK, Page!NoTimer
<1> QED  BY <1>1, <1>2 DEF Page!Fails, Page!Ends

\* A page that speaks goes on having something to end it.
LEMMA PageSpeaks ==
  ASSUME Page!TypeOK, Page!SpeakingWillEnd, Page!Next PROVE Page!SpeakingWillEnd'
<1> USE DEF Page!SpeakingWillEnd, Page!NoTimer
<1>1. CASE Page!ClickIdle \/ Page!ClickSpeaking
  BY <1>1 DEF Page!ClickIdle, Page!ClickSpeaking, Page!StartListening
<1>2. CASE Page!ClickPill \/ Page!Flashed \/ Page!Finished
  BY <1>2 DEF Page!ClickPill, Page!Flashed, Page!Finished
<1>7. CASE Page!Granted \/ Page!RecorderEnds
  BY <1>7 DEF Page!Granted, Page!RecorderEnds, Page!NotRecorded, Page!Records
<1>3. CASE Page!Denied
  BY <1>3, FlashPends DEF Page!Denied
<1>4. CASE Page!ClickListening \/ \E n \in loops : Page!LoopEnds(n)
  BY <1>4 DEF Page!ClickListening, Page!LoopEnds, Page!StopListening
<1>5. CASE Page!Stopped
  BY <1>5 DEF Page!Stopped, Page!Recorded
<1>6. ASSUME NEW t \in DOMAIN turns, Page!TurnGoesOn(t) \/ Page!Chunk(t) \/ Page!SoundEnds(t)
      PROVE  Page!SpeakingWillEnd'
  <2>1. CASE Page!Encoded(t)
    BY <2>1 DEF Page!Encoded
  <2>2. CASE Page!Answers(t)
    BY <2>2 DEF Page!TypeOK, Page!Answers, Page!Moves
  <2>3. CASE Page!Fails(t) \/ Page!Ends(t)
    BY <2>3, EndPends
  <2>4. CASE Page!Chunk(t)
    BY <2>4 DEF Page!TypeOK, Page!Chunk, Page!Moves
  <2>5. CASE Page!SoundEnds(t)
    BY <2>5 DEF Page!SoundEnds
  <2> QED  BY <1>6, <2>1, <2>2, <2>3, <2>4, <2>5 DEF Page!TurnGoesOn
<1> QED
  BY <1>1, <1>2, <1>3, <1>4, <1>5, <1>6, <1>7 DEF Page!Next, Page!Step

\* A new request is under way, and it is the only one if none was.
LEMMA NewTurnAlone ==
  ASSUME Page!TypeOK, NEW s \in {"encoding", "fetching"}, Page!NewTurn(s)
  PROVE  (\E t \in DOMAIN turns : Page!Open(t))' /\ (NoTurn => AtMostOne')
<1>1. PICK c \in DOMAIN turns : turns' = [turns EXCEPT ![c] = s]
  BY DEF Page!NewTurn
<1>2. DOMAIN turns' = DOMAIN turns /\ turns'[c] = s /\ \A t \in DOMAIN turns : t # c => turns'[t] = turns[t]
  BY <1>1
<1> QED  BY <1>2 DEF NoTurn, AtMostOne, Page!Open

\* A turn that moves is the one under way, and once it is over there is none.
LEMMA MovesAlone ==
  ASSUME Page!TypeOK, AtMostOne, NEW t \in DOMAIN turns, NEW from, NEW to,
         Page!Moves(t, from, to), "none" \notin from, "over" \notin from
  PROVE  AtMostOne' /\ (to = "over" => NoTurn')
<1>1. DOMAIN turns' = DOMAIN turns /\ \A u \in DOMAIN turns : u # t => turns'[u] = turns[u]
  BY DEF Page!Moves
<1>2. turns'[t] = to
  BY DEF Page!Moves
<1>3. Page!Open(t)
  BY DEF Page!Moves, Page!Open
<1>4. \A u \in DOMAIN turns : u # t => ~Page!Open(u)
  BY <1>3 DEF AtMostOne
<1>5. \A u \in DOMAIN turns' : u # t => ~Page!Open(u)'
  BY <1>1, <1>4 DEF Page!Open
<1> QED  BY <1>1, <1>2, <1>5 DEF AtMostOne, NoTurn, Page!Open

\* What a recording that ends does to the microphone.
LEMMA MicEnds ==
  ASSUME Page!TypeOK, OneMicrophone, NEW send \in BOOLEAN, NEW ended, Page!StopListening(send, ended)
  PROVE  /\ MicOn /\ mic \in ended => MicStopping' /\ state' = state
         /\ MicStopping => MicStopping' /\ stopping' # {}
         /\ asking' = asking
<1>1. recorder' = [n |-> recorder.n, on |-> FALSE]
  BY DEF Page!StopListening, Page!TypeOK
<1>2. ASSUME MicOn, mic \in ended PROVE MicStopping' /\ state' = state
  <2> DEFINE stop == [n |-> recorder.n, send |-> send]
  <2>1. stop \in [n : Nat, send : BOOLEAN] /\ stopping' = {stop}
    BY <1>2 DEF MicOn, Page!StopListening, Page!TypeOK
  <2> QED  BY <1>1, <1>2, <2>1 DEF MicOn, MicStopping, Page!StopListening
<1>3. ASSUME MicStopping PROVE MicStopping' /\ stopping' # {}
  BY <1>1, <1>3 DEF MicStopping, Page!StopListening
<1> QED  BY <1>2, <1>3 DEF Page!StopListening

\* The microphone of a user who starts no second one, through every click and callback.
LEMMA PageCareful ==
  ASSUME Page!ConstantsAssumption, PageInv, Page!Next PROVE CarefulIsSafe'
<1> SUFFICES ASSUME user' # "hasty", failed' = FALSE PROVE (OneMicrophone /\ ThinkingWillEnd)'
  BY DEF CarefulIsSafe
<1>f. failed = FALSE
  BY DEF Page!Next, Page!Step, Page!ClickIdle, Page!ClickSpeaking, Page!StartListening,
     Page!ClickListening, Page!ClickPill, Page!Granted, Page!NotRecorded, Page!Denied, Page!RecorderEnds,
     Page!Stopped, Page!Flashed, Page!Finished, Page!LoopEnds, Page!StopListening, Page!TurnGoesOn,
     Page!Encoded, Page!Answers, Page!Fails, Page!Ends, Page!Chunk, Page!SoundEnds
<1>i. /\ Page!TypeOK /\ OneMicrophone /\ ThinkingWillEnd
      /\ user \in {"patient", "careful"} /\ (user = "patient" => Staged)
  BY <1>f DEF PageInv, CarefulIsSafe, OneThingAtATime, Page!TypeOK, Page!Next
<1>m. mic \in Nat /\ asking \in Nat
  BY <1>i DEF Page!TypeOK, Page!ConstantsAssumption
<1>q. ASSUME UNCHANGED <<asking, mic, live, recorder, stopping, loops>>,
             state' = "listening" => state = "listening",
             ThinkingWillEnd'
      PROVE  (OneMicrophone /\ ThinkingWillEnd)'
  BY <1>i, <1>q DEF OneMicrophone, MicOff, MicOn, MicStopping
<1>1. CASE Page!ClickIdle \/ Page!ClickSpeaking
  <2>1. asking = 0 /\ MicOff
    <3>1. CASE user = "careful"
      BY <1>1, <1>i, <3>1 DEF Page!ClickIdle, Page!ClickSpeaking, Page!StartListening, Page!MicFree,
         OneMicrophone, MicOn, MicStopping
    <3>2. CASE user = "patient"
      <4>1. asking = 0 /\ stopping = {} /\ state = "idle"
        BY <1>1, <3>2 DEF Page!ClickIdle, Page!ClickSpeaking, Page!StartListening, Page!Clicks, Page!Settled
      <4> QED  BY <1>i, <3>2, <4>1 DEF Staged, Resting, Asking, Hearing, Pausing, Answering, Returning
    <3> QED  BY <1>i, <3>1, <3>2
  <2>2. /\ asking' = 1 /\ state' = state /\ state # "listening" /\ state # "thinking"
        /\ UNCHANGED <<mic, live, recorder, stopping, loops>>
    BY <1>1, <1>m, <2>1 DEF Page!ClickIdle, Page!ClickSpeaking, Page!StartListening
  <2> QED  BY <2>1, <2>2 DEF OneMicrophone, MicOff, ThinkingWillEnd
<1>2. CASE Page!Granted
  <2>1. /\ asking = 1 /\ asking' = 0 /\ MicOff
    BY <1>2, <1>i, <1>m DEF Page!Granted, OneMicrophone, MicOn, MicStopping
  <2>2. /\ recorder' = [n |-> mic', on |-> TRUE] /\ state' = "listening" /\ loops' = {mic'}
        /\ live' = {mic'} /\ stopping' = {}
    BY <1>2, <2>1, <1>f DEF Page!Granted, Page!NotRecorded, Page!Records, MicOff
  <2> QED  BY <2>1, <2>2 DEF OneMicrophone, MicOn, MicOff, ThinkingWillEnd
<1>3. CASE Page!Denied
  <2>1. asking = 1 /\ asking' = 0 /\ MicOff /\ UNCHANGED <<mic, live, recorder, stopping, loops, state>>
    BY <1>3, <1>i, <1>m DEF Page!Denied, OneMicrophone, MicOn, MicStopping
  <2>2. ~Page!NoTimer'
    BY <1>3, <1>i, FlashPends DEF Page!Denied
  <2> QED  BY <1>i, <2>1, <2>2 DEF OneMicrophone, MicOff, MicOn, MicStopping, ThinkingWillEnd
<1>4. CASE Page!RecorderEnds
  BY <1>4 DEF Page!RecorderEnds
<1>5. ASSUME NEW send \in BOOLEAN, NEW ended, Page!StopListening(send, ended),
             (MicOn /\ mic \in ended) \/ MicStopping
      PROVE  (OneMicrophone /\ ThinkingWillEnd)'
  <2>1. MicStopping'
    BY <1>5, <1>i, MicEnds
  <2> QED  BY <2>1 DEF MicStopping, MicOff, OneMicrophone, ThinkingWillEnd
<1>6. CASE Page!ClickListening
  <2>1. Page!StopListening(TRUE, Page!Latest(loops)) /\ state = "listening"
    BY <1>6 DEF Page!ClickListening
  <2>2. MicOn \/ MicStopping
    BY <1>i, <2>1 DEF OneMicrophone
  <2>3. MicOn => mic \in Page!Latest(loops)
    BY <1>m, LatestOfOne DEF MicOn
  <2> QED  BY <1>5, <2>1, <2>2, <2>3
<1>7. ASSUME NEW n \in loops, Page!LoopEnds(n) PROVE (OneMicrophone /\ ThinkingWillEnd)'
  <2>1. MicOn /\ n = mic
    BY <1>7, <1>i DEF OneMicrophone, MicOn, MicOff, MicStopping
  <2> DEFINE before == {m \in loops : m < n}
             others == Page!Latest(IF before = {} THEN loops ELSE before)
  <2>2. PICK spoke \in BOOLEAN : Page!StopListening(spoke, {n} \cup others)
    BY <1>7 DEF Page!LoopEnds
  <2> HIDE DEF others
  <2> QED  BY <1>5, <2>1, <2>2
<1>8. CASE Page!Stopped
  <2>1. PICK stop \in stopping :
          /\ stopping' = stopping \ {stop} /\ Page!Recorded(stop)
          /\ live' = live \ {mic}
          /\ UNCHANGED <<failed, asks, asking, mic, recorder, loops, sounding, timers>>
    BY <1>8 DEF Page!Stopped
  <2>2. MicStopping
    BY <1>i, <2>1 DEF OneMicrophone, MicOn, MicOff
  <2>3. MicOff' /\ asking' = 0
    BY <2>1, <2>2 DEF MicStopping, MicOff
  <2>4. state' = "idle" \/ (state' = "thinking" /\ Page!NewTurn("encoding"))
    BY <2>1 DEF Page!Recorded
  <2>5. Page!NewTurn("encoding") => (\E t \in DOMAIN turns : Page!Open(t))'
    BY <1>i, NewTurnAlone
  <2> QED  BY <2>3, <2>4, <2>5 DEF OneMicrophone, ThinkingWillEnd
<1>9. CASE Page!ClickPill
  <2>1. (\E t \in DOMAIN turns : Page!Open(t))'
    BY <1>9, <1>i, NewTurnAlone DEF Page!ClickPill
  <2> QED  BY <1>9, <1>q, <2>1 DEF Page!ClickPill, Page!mics, ThinkingWillEnd
<1>10. ASSUME NEW t \in DOMAIN turns, Page!TurnGoesOn(t) \/ Page!Chunk(t)
       PROVE  (OneMicrophone /\ ThinkingWillEnd)'
  <2>1. CASE Page!Fails(t) \/ Page!Ends(t)
    BY <1>i, <1>q, <2>1, EndPends DEF Page!Fails, Page!Ends, Page!mics, ThinkingWillEnd
  <2>2. CASE Page!Encoded(t) \/ Page!Answers(t) \/ Page!Chunk(t)
    <3>1. Page!Open(t)' /\ DOMAIN turns' = DOMAIN turns
      BY <1>i, <2>2 DEF Page!TypeOK, Page!Encoded, Page!Answers, Page!Chunk, Page!Moves, Page!Open
    <3>2. ThinkingWillEnd'
      BY <3>1 DEF ThinkingWillEnd
    <3> QED  BY <1>q, <2>2, <3>2 DEF Page!Encoded, Page!Answers, Page!Chunk, Page!mics
  <2> QED  BY <1>10, <2>1, <2>2 DEF Page!TurnGoesOn
<1>11. ASSUME NEW t \in DOMAIN turns, Page!SoundEnds(t) PROVE (OneMicrophone /\ ThinkingWillEnd)'
  <2>1. ThinkingWillEnd'
    BY <1>i, <1>11 DEF Page!SoundEnds, Page!mics, ThinkingWillEnd, Page!NoTimer, Page!Open
  <2> QED  BY <1>q, <1>11, <2>1 DEF Page!SoundEnds, Page!mics
<1>12. CASE Page!Flashed \/ Page!Finished
  BY <1>q, <1>12 DEF Page!Flashed, Page!Finished, Page!mics, ThinkingWillEnd
<1> QED
  BY <1>1, <1>2, <1>3, <1>4, <1>6, <1>7, <1>8, <1>9, <1>10, <1>11, <1>12 DEF Page!Next, Page!Step

\* One thing at a time: each callback and each click belongs to one stage and leads to
\* one.
LEMMA PageOrderly ==
  ASSUME Page!ConstantsAssumption, PageInv, Page!Next PROVE OneThingAtATime'
<1> SUFFICES ASSUME user' = "patient", failed' = FALSE PROVE Staged'
  BY DEF OneThingAtATime
<1>f. failed = FALSE
  BY DEF Page!Next, Page!Step, Page!ClickIdle, Page!ClickSpeaking, Page!StartListening,
     Page!ClickListening, Page!ClickPill, Page!Granted, Page!NotRecorded, Page!Denied, Page!RecorderEnds,
     Page!Stopped, Page!Flashed, Page!Finished, Page!LoopEnds, Page!StopListening, Page!TurnGoesOn,
     Page!Encoded, Page!Answers, Page!Fails, Page!Ends, Page!Chunk, Page!SoundEnds
<1>u. user = "patient"
  BY DEF Page!Next
<1>i. Page!TypeOK /\ Staged /\ OneMicrophone
  BY <1>f, <1>u DEF PageInv, OneThingAtATime, CarefulIsSafe
<1>c. Page!Clicks => asking = 0 /\ stopping = {} /\ Page!NoTimer /\ state # "speaking"
  BY <1>u DEF Page!Clicks, Page!Settled
<1>m. mic \in Nat /\ asking \in Nat
  BY <1>i DEF Page!TypeOK, Page!ConstantsAssumption
<1> USE DEF Staged
<1>1. CASE Page!ClickIdle
  <2>1. Resting
    BY <1>1, <1>c, <1>i DEF Page!ClickIdle, Page!StartListening, Asking, Hearing, Pausing, Answering,
       Returning, Page!NoTimer
  <2> QED
    BY <1>1, <2>1 DEF Page!ClickIdle, Page!StartListening, Resting, Asking, MicOff, NoTurn, Page!Open,
       Page!NoTimer
<1>2. CASE Page!ClickSpeaking
  BY <1>2, <1>c DEF Page!ClickSpeaking, Page!StartListening
<1>3. CASE Page!ClickPill
  <2>1. Resting
    BY <1>3, <1>c, <1>i DEF Page!ClickPill, Asking, Hearing, Pausing, Answering, Returning, Page!NoTimer
  <2>2. AtMostOne'
    BY <1>3, <1>i, <2>1, NewTurnAlone DEF Page!ClickPill, Resting
  <2> QED
    BY <1>3, <2>1, <2>2 DEF Page!ClickPill, Page!mics, Resting, Answering, MicOff, Page!NoTimer
<1>4. CASE Page!Granted \/ Page!Denied
  <2>1. Asking
    BY <1>4, <1>i, <1>m DEF Page!Granted, Page!Denied, Resting, Hearing, Pausing, Answering, Returning,
       MicOn, MicStopping
  <2>2. CASE Page!Granted
    <3>1. /\ recorder' = [n |-> mic', on |-> TRUE] /\ state' = "listening" /\ loops' = {mic'}
          /\ live' = {mic'} /\ stopping' = {} /\ asking' = 0
      BY <2>1, <2>2 DEF Page!Granted, Page!NotRecorded, Page!Records, Asking, MicOff
    <3>2. MicOn'
      BY <3>1 DEF MicOn
    <3> QED
      BY <2>1, <2>2, <3>1, <3>2 DEF Page!Granted, Asking, Hearing, NoTurn, Page!Open, Page!NoTimer
  <2>3. CASE Page!Denied
    <3>1. timers'.flash + timers'.finish = 1
      BY <1>i, <2>1, <2>3 DEF Page!Denied, Page!Flash, Asking, Page!NoTimer, Page!TypeOK
    <3> QED
      BY <2>1, <2>3, <3>1 DEF Page!Denied, Asking, Returning, MicOff, NoTurn, Page!Open
  <2> QED  BY <1>4, <2>2, <2>3
<1>5. ASSUME NEW send \in BOOLEAN, NEW ended, Page!StopListening(send, ended), Hearing, mic \in ended
      PROVE  Pausing'
  <2>1. MicStopping' /\ state' = state
    BY <1>5, <1>i, MicEnds DEF Hearing
  <2> QED
    BY <1>5, <2>1 DEF Page!StopListening, Hearing, Pausing, NoTurn, Page!Open, Page!NoTimer
<1>6. CASE Page!ClickListening
  <2>1. Hearing
    BY <1>6, <1>c, <1>i DEF Page!ClickListening, Resting, Asking, Pausing, Answering, Returning, MicStopping
  <2>2. mic \in Page!Latest(loops)
    BY <1>m, <2>1, LatestOfOne DEF Hearing, MicOn
  <2> QED  BY <1>5, <1>6, <2>1, <2>2 DEF Page!ClickListening
<1>7. ASSUME NEW n \in loops, Page!LoopEnds(n) PROVE Pausing'
  <2>1. Hearing
    BY <1>7, <1>i DEF Resting, Asking, Pausing, Answering, Returning, MicOff, MicStopping
  <2>2. n = mic
    BY <1>7, <2>1 DEF Hearing, MicOn
  <2> DEFINE before == {m \in loops : m < n}
             others == Page!Latest(IF before = {} THEN loops ELSE before)
  <2>3. PICK spoke \in BOOLEAN : Page!StopListening(spoke, {n} \cup others)
    BY <1>7 DEF Page!LoopEnds
  <2> HIDE DEF others
  <2> QED  BY <1>5, <2>1, <2>2, <2>3
<1>8. CASE Page!Stopped
  <2>1. PICK stop \in stopping :
          /\ stopping' = stopping \ {stop} /\ Page!Recorded(stop)
          /\ live' = live \ {mic}
          /\ UNCHANGED <<failed, asks, asking, mic, recorder, loops, sounding, timers>>
    BY <1>8 DEF Page!Stopped
  <2>2. Pausing
    BY <1>i, <2>1 DEF Resting, Asking, Hearing, Answering, Returning, MicOff, MicOn
  <2>3. MicOff' /\ asking' = 0 /\ Page!NoTimer'
    BY <2>1, <2>2 DEF Pausing, MicStopping, MicOff, Page!NoTimer
  <2>4. CASE state' = "thinking" /\ Page!NewTurn("encoding")
    <3>1. AtMostOne'
      BY <1>i, <2>2, <2>4, NewTurnAlone DEF Pausing
    <3> QED  BY <2>3, <2>4, <3>1 DEF Answering
  <2>5. CASE state' = "idle" /\ UNCHANGED turns
    BY <2>2, <2>3, <2>5 DEF Pausing, Resting, NoTurn, Page!Open
  <2> QED  BY <2>1, <2>4, <2>5 DEF Page!Recorded
<1>9. ASSUME NEW t \in DOMAIN turns, Page!TurnGoesOn(t) \/ Page!Chunk(t)
      PROVE  Answering' \/ Returning'
  <2>1. Page!Open(t)
    BY <1>9 DEF Page!TurnGoesOn, Page!Encoded, Page!Answers, Page!Fails, Page!Ends, Page!Chunk,
         Page!Moves, Page!Open
  <2>2. Answering
    BY <1>9, <1>i, <2>1 DEF Resting, Asking, Hearing, Pausing, Returning, NoTurn
  <2>3. AtMostOne' /\ (Page!Fails(t) \/ Page!Ends(t) => NoTurn')
    BY <1>9, <1>i, <2>2, MovesAlone DEF Answering, Page!TurnGoesOn, Page!Encoded, Page!Answers,
         Page!Fails, Page!Ends, Page!Chunk
  <2>4. CASE Page!Encoded(t) \/ Page!Answers(t) \/ Page!Chunk(t)
    BY <2>2, <2>3, <2>4 DEF Page!Encoded, Page!Answers, Page!Chunk, Page!mics, Answering, MicOff,
       Page!NoTimer
  <2>5. CASE Page!Fails(t) \/ Page!Ends(t)
    <3>1. timers'.flash + timers'.finish = 1
      BY <1>i, <2>2, <2>5 DEF Page!Fails, Page!Ends, Page!Flash, Answering, Page!NoTimer, Page!TypeOK
    <3> QED
      BY <2>2, <2>3, <2>5, <3>1 DEF Page!Fails, Page!Ends, Page!mics, Answering, Returning, MicOff
  <2> QED  BY <1>9, <2>4, <2>5 DEF Page!TurnGoesOn
<1>10. ASSUME NEW t \in DOMAIN turns, Page!SoundEnds(t) PROVE Staged'
  BY <1>10, <1>i DEF Page!SoundEnds, Page!mics, Resting, Asking, Hearing, Pausing, Answering, Returning,
       MicOff, MicOn, MicStopping, NoTurn, AtMostOne, Page!Open, Page!NoTimer
<1>11. CASE Page!Flashed \/ Page!Finished
  <2>1. Returning
    BY <1>11, <1>i DEF Page!Flashed, Page!Finished, Resting, Asking, Hearing, Pausing, Answering,
       Page!NoTimer
  <2>2. Page!NoTimer'
    BY <1>11, <1>i, <2>1 DEF Page!Flashed, Page!Finished, Returning, Page!NoTimer, Page!TypeOK
  <2> QED
    BY <1>11, <2>1, <2>2 DEF Page!Flashed, Page!Finished, Page!mics, Resting, Returning, MicOff, NoTurn,
         Page!Open
<1>12. CASE Page!RecorderEnds
  BY <1>12 DEF Page!RecorderEnds
<1> QED
  BY <1>1, <1>2, <1>3, <1>4, <1>6, <1>7, <1>8, <1>9, <1>10, <1>11, <1>12 DEF Page!Next, Page!Step

\* Every step keeps the page's promise to each of its users.
LEMMA PageNext ==
  ASSUME Page!ConstantsAssumption, PageInv, [Page!Next]_(Page!vars) PROVE PageInv'
<1>1. CASE Page!Next
  BY <1>1, PageTyped, PageSpeaks, PageCareful, PageOrderly DEF PageInv
<1>2. CASE UNCHANGED Page!vars
  <2>1. UNCHANGED <<user, failed, state, asks, asking, mic, live, recorder, chunks, stopping, loops,
                    turns, sounding, timers>>
    BY <1>2 DEF Page!vars, Page!mics
  <2>2. (Page!TypeOK /\ RecordingsCounted /\ Page!SpeakingWillEnd)'
    BY <2>1 DEF PageInv, Page!TypeOK, RecordingsCounted, Page!SpeakingWillEnd, Page!NoTimer
  <2>3. /\ MicOff' = MicOff /\ MicOn' = MicOn /\ MicStopping' = MicStopping
        /\ NoTurn' = NoTurn /\ AtMostOne' = AtMostOne /\ Page!NoTimer' = Page!NoTimer
        /\ (\E t \in DOMAIN turns : Page!Open(t))' = (\E t \in DOMAIN turns : Page!Open(t))
    BY <2>1 DEF MicOff, MicOn, MicStopping, NoTurn, AtMostOne, Page!NoTimer, Page!Open
  <2>4. CarefulIsSafe'
    BY <2>1, <2>3 DEF PageInv, CarefulIsSafe, OneMicrophone, ThinkingWillEnd
  <2>5. OneThingAtATime'
    BY <2>1, <2>3 DEF PageInv, OneThingAtATime, Staged, Resting, Asking, Hearing, Pausing, Answering,
       Returning
  <2> QED  BY <2>2, <2>4, <2>5 DEF PageInv
<1> QED  BY <1>1, <1>2

\* The page keeps its promises in every state.
THEOREM PageInvariance == ASSUME Page!ConstantsAssumption PROVE Page!Spec => []PageInv
<1>1. Page!Init => PageInv
  BY PageInit
<1>2. PageInv /\ [Page!Next]_(Page!vars) => PageInv'
  BY PageNext
<1> QED  BY <1>1, <1>2, PTL DEF Page!Spec

\* As long as recordings start and are not cut off, a patient user is shown what is going
\* on, and a page that listens or thinks is taken on and its one microphone switched off,
\* whichever answers a careful user interrupts; for any user, a page that shows it is
\* speaking is never stuck there (app.js:56-90, 103-152, 196-200).
THEOREM PageCorrect ==
  ASSUME Page!ConstantsAssumption PROVE Page!Spec => []Page!PageShowsWhatIs
<1>1. PageInv => Page!ShownIsTrue
  BY DEF PageInv, OneThingAtATime, Staged, Resting, Asking, Hearing, Pausing, Answering, Returning,
         MicOff, MicOn, MicStopping, NoTurn, AtMostOne, Page!ShownIsTrue
<1>2. PageInv => Page!NothingLeftOver
  BY DEF PageInv, CarefulIsSafe, OneMicrophone, MicOff, MicOn, MicStopping, ThinkingWillEnd,
         Page!NothingLeftOver
<1>3. PageInv => Page!PageShowsWhatIs
  BY <1>1, <1>2 DEF PageInv, Page!PageShowsWhatIs
<1> QED  BY <1>3, PageInvariance, PTL

-----------------------------------------------------------------------------
(* A phone call.  A word that moves on leaves the flow of the words as it  *)
(* is; only a new word lengthens it, and only a broken connection takes a  *)
(* piece out of it.                                                        *)

\* One stretch of words after another.
Joined(front, back) == front \o back

\* Stretches are joined in any order.
LEMMA JoinedInAnyOrder ==
  /\ \A a, b \in Seq(Nat) : Joined(a, b) \in Seq(Nat)
  /\ \A a, b, c \in Seq(Nat) : Joined(Joined(a, b), c) = Joined(a, Joined(b, c))
  BY ConcatProperties, ConcatAssociative DEF Joined

\* The empty stretch adds nothing.
LEMMA NothingJoined == \A a \in Seq(Nat) : Joined(a, << >>) = a
  BY ConcatEmptySeq DEF Joined

\* A word at the end of a stretch.
LEMMA WordJoined ==
  \A a \in Seq(Nat), n \in Nat :
    /\ <<n>> \in Seq(Nat) /\ Append(a, n) \in Seq(Nat) /\ Append(a, n) = Joined(a, <<n>>)
  BY AppendIsConcat, AppendProperties DEF Joined

\* A piece may count to the stretch before it or to the one behind it.
LEMMA PieceShifts ==
  ASSUME NEW p \in Seq(Nat), NEW q \in Seq(Nat), NEW h \in Seq(Nat), NEW t \in Seq(Nat)
  PROVE  Joined(Joined(p, Joined(q, h)), t) = Joined(Joined(p, q), Joined(h, t))
  BY JoinedInAnyOrder

\* A word goes from the front of a stretch to the end of the one before it.
Moved(from, to, fromThen, toThen) ==
  from # << >> /\ toThen = Append(to, Head(from)) /\ fromThen = Tail(from)

\* Whatever the two stretches follow, they read the same afterwards.
LEMMA WordMoves ==
  ASSUME NEW p \in Seq(Nat), NEW q \in Seq(Nat), NEW w \in Seq(Nat),
         NEW q1, NEW w1, Moved(w, q, w1, q1)
  PROVE  /\ q1 \in Seq(Nat) /\ w1 \in Seq(Nat)
         /\ Joined(Joined(p, q1), w1) = Joined(Joined(p, q), w)
<1> DEFINE h == <<Head(w)>>
<1>1. Head(w) \in Nat /\ w1 \in Seq(Nat)
  BY HeadTailProperties DEF Moved
<1>2. w = Joined(h, w1)
  BY <1>1 DEF Moved, Joined
<1>3. h \in Seq(Nat) /\ q1 = Joined(q, h) /\ q1 \in Seq(Nat)
  BY <1>1, WordJoined DEF Moved
<1> HIDE DEF h
<1>4. Joined(Joined(p, Joined(q, h)), w1) = Joined(Joined(p, q), Joined(h, w1))
  BY <1>1, <1>3, PieceShifts
<1> QED  BY <1>1, <1>2, <1>3, <1>4

\* A piece taken out of an ascending sequence.
LEMMA PieceTaken ==
  ASSUME NEW a \in Seq(Nat), NEW b \in Seq(Nat), NEW c \in Seq(Nat),
         Call!Ascending((a \o b) \o c)
  PROVE  /\ Call!Ascending(a \o c)
         /\ Call!ToSet((a \o b) \o c) = Call!ToSet(a \o c) \cup Call!ToSet(b)
         /\ Call!ToSet(a \o c) \cap Call!ToSet(b) = {}
<1> DEFINE whole == (a \o b) \o c
           rest == a \o c
           place(i) == IF i <= Len(a) THEN i ELSE i + Len(b)
<1>1. Len(a) \in Nat /\ Len(b) \in Nat /\ Len(c) \in Nat
  OBVIOUS
<1>2. /\ a \o b \in Seq(Nat) /\ Len(a \o b) = Len(a) + Len(b)
      /\ \A i \in 1 .. Len(a) + Len(b) : (a \o b)[i] = IF i <= Len(a) THEN a[i] ELSE b[i - Len(a)]
  BY ConcatProperties
<1>3. /\ whole \in Seq(Nat) /\ Len(whole) = Len(a) + Len(b) + Len(c)
      /\ \A i \in 1 .. Len(a) + Len(b) + Len(c) :
           whole[i] = IF i <= Len(a) + Len(b) THEN (a \o b)[i] ELSE c[i - (Len(a) + Len(b))]
  BY <1>2, ConcatProperties
<1>4. /\ rest \in Seq(Nat) /\ Len(rest) = Len(a) + Len(c)
      /\ \A i \in 1 .. Len(a) + Len(c) : rest[i] = IF i <= Len(a) THEN a[i] ELSE c[i - Len(a)]
  BY ConcatProperties
<1> HIDE DEF whole, rest
<1>5. DOMAIN whole = 1 .. Len(a) + Len(b) + Len(c) /\ DOMAIN rest = 1 .. Len(a) + Len(c)
      /\ DOMAIN b = 1 .. Len(b)
  BY <1>3, <1>4
<1>6. ASSUME NEW i \in 1 .. Len(a) + Len(c) PROVE place(i) \in DOMAIN whole /\ rest[i] = whole[place(i)]
  <2>1. CASE i <= Len(a)
    <3>1. /\ place(i) = i /\ i \in 1 .. Len(a) + Len(b) /\ i \in 1 .. Len(a) + Len(b) + Len(c)
          /\ i <= Len(a) + Len(b)
      BY <1>1, <2>1
    <3>2. whole[i] = a[i] /\ rest[i] = a[i]
      BY <1>2, <1>3, <1>4, <2>1, <3>1
    <3> QED  BY <1>5, <3>1, <3>2
  <2>2. CASE ~(i <= Len(a))
    <3>1. /\ place(i) = i + Len(b) /\ i + Len(b) \in 1 .. Len(a) + Len(b) + Len(c)
          /\ ~(i + Len(b) <= Len(a) + Len(b)) /\ (i + Len(b)) - (Len(a) + Len(b)) = i - Len(a)
      BY <1>1, <2>2
    <3> QED  BY <1>3, <1>4, <1>5, <2>2, <3>1
  <2> QED  BY <2>1, <2>2
<1>7. ASSUME NEW i \in 1 .. Len(b)
      PROVE  Len(a) + i \in DOMAIN whole /\ b[i] = whole[Len(a) + i]
  <2>1. /\ Len(a) + i \in 1 .. Len(a) + Len(b) /\ Len(a) + i \in 1 .. Len(a) + Len(b) + Len(c)
        /\ ~(Len(a) + i <= Len(a)) /\ Len(a) + i - Len(a) = i /\ Len(a) + i <= Len(a) + Len(b)
    BY <1>1
  <2> QED  BY <1>2, <1>3, <1>5, <2>1
<1>8. \A i, j \in DOMAIN whole : i < j => whole[i] < whole[j]
  BY DEF Call!Ascending, whole
<1>9. \A i, j \in DOMAIN whole : i # j => whole[i] # whole[j]
  <2> SUFFICES ASSUME NEW i \in DOMAIN whole, NEW j \in DOMAIN whole, i # j
               PROVE  whole[i] # whole[j]
    OBVIOUS
  <2>0. whole[i] \in Nat /\ whole[j] \in Nat
    BY <1>3
  <2>1. i \in Nat /\ j \in Nat /\ whole[i] \in Nat /\ whole[j] \in Nat
    BY <1>1, <1>5, <2>0
  <2>2. i < j \/ j < i
    BY <2>1
  <2>3. whole[i] < whole[j] \/ whole[j] < whole[i]
    BY <1>8, <2>2
  <2> QED  BY <2>1, <2>3
<1>10. Call!Ascending(rest)
  <2> SUFFICES ASSUME NEW i \in 1 .. Len(a) + Len(c), NEW j \in 1 .. Len(a) + Len(c), i < j
               PROVE  rest[i] < rest[j]
    BY <1>5 DEF Call!Ascending
  <2>1. place(i) < place(j)
    BY <1>1
  <2> QED  BY <1>6, <1>8, <2>1
<1>11. ASSUME NEW i \in DOMAIN whole
       PROVE  whole[i] \in Call!ToSet(rest) \cup Call!ToSet(b)
  <2>1. CASE i <= Len(a)
    <3>1. i \in 1 .. Len(a) + Len(c) /\ place(i) = i
      BY <1>1, <1>5, <2>1
    <3> QED  BY <1>5, <1>6, <3>1 DEF Call!ToSet
  <2>2. CASE i > Len(a) /\ i <= Len(a) + Len(b)
    <3>1. i - Len(a) \in 1 .. Len(b) /\ Len(a) + (i - Len(a)) = i
      BY <1>1, <1>5, <2>2
    <3>2. b[i - Len(a)] = whole[i]
      BY <1>7, <3>1
    <3> QED  BY <1>5, <3>1, <3>2 DEF Call!ToSet
  <2>3. CASE i > Len(a) + Len(b)
    <3>1. i - Len(b) \in 1 .. Len(a) + Len(c) /\ place(i - Len(b)) = i
      BY <1>1, <1>5, <2>3
    <3>2. rest[i - Len(b)] = whole[i]
      BY <1>6, <3>1
    <3> QED  BY <1>5, <3>1, <3>2 DEF Call!ToSet
  <2> QED  BY <1>1, <1>5, <2>1, <2>2, <2>3
<1>12. ASSUME NEW i \in 1 .. Len(a) + Len(c), NEW j \in 1 .. Len(b) PROVE rest[i] # b[j]
  <2>1. place(i) # Len(a) + j
    BY <1>1
  <2> QED  BY <1>6, <1>7, <1>9, <2>1
<1>13. Call!ToSet(whole) = Call!ToSet(rest) \cup Call!ToSet(b)
  <2>1. \A i \in DOMAIN rest : rest[i] \in Call!ToSet(whole)
    BY <1>5, <1>6 DEF Call!ToSet
  <2>2. \A i \in DOMAIN b : b[i] \in Call!ToSet(whole)
    BY <1>5, <1>7 DEF Call!ToSet
  <2> QED  BY <1>11, <2>1, <2>2 DEF Call!ToSet
<1>14. Call!ToSet(rest) \cap Call!ToSet(b) = {}
  BY <1>5, <1>12 DEF Call!ToSet
<1> QED  BY <1>10, <1>13, <1>14 DEF whole, rest

\* The same, of stretches.
LEMMA StretchTaken ==
  ASSUME NEW a \in Seq(Nat), NEW b \in Seq(Nat), NEW c \in Seq(Nat),
         Call!Ascending(Joined(Joined(a, b), c))
  PROVE  /\ Call!Ascending(Joined(a, c))
         /\ Call!ToSet(Joined(Joined(a, b), c)) = Call!ToSet(Joined(a, c)) \cup Call!ToSet(b)
         /\ Call!ToSet(Joined(a, c)) \cap Call!ToSet(b) = {}
<1>1. Joined(Joined(a, b), c) = (a \o b) \o c /\ Joined(a, c) = a \o c
  BY DEF Joined
<1> QED  BY <1>1, PieceTaken

\* The next word at the end of an ascending sequence.
LEMMA WordAdded ==
  ASSUME NEW f \in Seq(Nat), NEW n \in Nat, Call!Ascending(f), Call!ToSet(f) \subseteq 1 .. n
  PROVE  Call!Ascending(Append(f, n + 1)) /\ Call!ToSet(Append(f, n + 1)) = Call!ToSet(f) \cup {n + 1}
<1>1. /\ Len(Append(f, n + 1)) = Len(f) + 1 /\ Len(f) \in Nat
      /\ \A i \in 1 .. Len(f) : Append(f, n + 1)[i] = f[i] /\ f[i] \in 1 .. n
      /\ Append(f, n + 1)[Len(f) + 1] = n + 1
  BY AppendProperties DEF Call!ToSet
<1>2. DOMAIN Append(f, n + 1) = 1 .. Len(f) + 1 /\ DOMAIN f = 1 .. Len(f)
  BY <1>1
<1>3. Call!Ascending(Append(f, n + 1))
  <2> SUFFICES ASSUME NEW i \in 1 .. Len(f) + 1, NEW j \in 1 .. Len(f) + 1, i < j
               PROVE  Append(f, n + 1)[i] < Append(f, n + 1)[j]
    BY <1>2 DEF Call!Ascending
  <2>1. i \in 1 .. Len(f)
    BY <1>1
  <2>2. CASE j = Len(f) + 1
    BY <1>1, <2>1, <2>2
  <2>3. CASE j # Len(f) + 1
    <3>1. j \in 1 .. Len(f)
      BY <1>1, <2>3
    <3>2. f[i] < f[j]
      BY <1>2, <2>1, <3>1 DEF Call!Ascending
    <3> QED  BY <1>1, <2>1, <3>1, <3>2
  <2> QED  BY <2>2, <2>3
<1>4. Call!ToSet(Append(f, n + 1)) = Call!ToSet(f) \cup {n + 1}
  BY <1>1, <1>2 DEF Call!ToSet
<1> QED  BY <1>3, <1>4

\* The words of every stage are a sequence, and the retry budget is overdrawn only by the
\* failure that ends the call.
Stretches ==
  asked \in Seq(Nat) /\ words \in Seq(Nat) /\ heard \in Seq(Nat) /\ queued \in Seq(Nat) /\ wire \in Seq(Nat)

BudgetKept == callPhase \notin {"over", "closed"} => attempts <= MaxReconnects

CallInv == Call!TypeOK /\ BudgetKept /\ Stretches /\ Call!EachWordAskedOnce

\* A call starts in the invariant.
LEMMA CallInit == ASSUME Call!ConstantsAssumption, Call!Init PROVE CallInv
<1> USE DEF Call!ConstantsAssumption, Call!Init
<1>1. started \in BOOLEAN /\ stopped \in BOOLEAN
  BY Zenon
<1>2. Call!TypeOK
  BY <1>1 DEF Call!TypeOK
<1>3. BudgetKept /\ Stretches
  BY DEF BudgetKept, Stretches
<1>4. Call!Flow = << >>
  BY ConcatEmptySeq DEF Call!Flow
<1>5. Call!Ascending(<< >>) /\ Call!ToSet(<< >>) = {}
  BY DEF Call!Ascending, Call!ToSet
<1>6. Call!EachWordAskedOnce
  BY <1>4, <1>5 DEF Call!EachWordAskedOnce
<1> QED  BY <1>2, <1>3, <1>6 DEF CallInv

\* The types and the budget are kept by every step.
LEMMA CallTyped ==
  ASSUME Call!ConstantsAssumption, CallInv, Call!Next PROVE Call!TypeOK' /\ BudgetKept'
<1> USE DEF Call!ConstantsAssumption, CallInv, Call!TypeOK, BudgetKept, Call!inbound, Call!pump,
        Call!session, Call!talk
<1>1. CASE Call!Twilio
  <2>1. started' \in BOOLEAN /\ stopped' \in BOOLEAN
    BY <1>1, Zenon DEF Call!Twilio, Call!TwilioStarts, Call!CallerSpeaks, Call!HangsUp, Call!Disconnects
  <2> QED
    BY <1>1, <2>1 DEF Call!Twilio, Call!TwilioStarts, Call!CallerSpeaks, Call!HangsUp, Call!Disconnects
<1>2. CASE Call!CallStep
  BY <1>2 DEF Call!CallStep, Call!Started, Call!NeverStarts, Call!SpeechEnds, Call!Answered,
     Call!CallFails, Call!Raises, Call!RouterCloses, Call!FinaliseTranscriber, Call!Utters
<1>3. CASE Call!TaskStep
  BY <1>3 DEF Call!TaskStep, Call!PumpReads, Call!PumpEnds, Call!PumpChokes, Call!SenderSends,
     Call!SenderCloses, Call!SenderFails, Call!LineGoes, Call!Raises
<1>4. CASE Call!Hearing
  BY <1>4 DEF Call!Hearing, Call!HearFinal, Call!HearLast, Call!HearBoundary, Call!Ask,
     Call!Yields, Call!Pulled
<1>5. CASE Call!LineOpens \/ Call!TranscriptEnds
  BY <1>5 DEF Call!LineOpens, Call!TranscriptEnds, Call!Pulled
<1>6. CASE Call!LineFails \/ Call!LineBreaks
  <2>1. /\ Call!Pulled /\ Call!Retries /\ UNCHANGED <<caller, started, stopped, said, feed>>
        /\ line' \in {"none", line} /\ sending' \in {"none", sending}
    BY <1>6 DEF Call!LineFails, Call!LineBreaks
  <2>2. attempts \in Nat /\ attempts <= MaxReconnects /\ attempts' = attempts + 1
    BY <2>1 DEF Call!Pulled, Call!Retries
  <2>3. attempts' \in 0 .. MaxReconnects + 1
    BY <2>2
  <2>4. \/ attempts' <= MaxReconnects /\ UNCHANGED <<callPhase, stt>>
        \/ callPhase' = "over" /\ stt' \in {stt, "closed"}
    BY <2>1, <2>2 DEF Call!Retries, Call!Raises, Call!Pulled
  <2> QED  BY <2>1, <2>3, <2>4
<1> QED  BY <1>1, <1>2, <1>3, <1>4, <1>5, <1>6 DEF Call!Next, Call!PullStep

\* A step that keeps the flow and what is lost.
LEMMA FlowKept ==
  ASSUME CallInv, Call!Flow' = Call!Flow, UNCHANGED <<lost, said>>, attempts' \in {attempts, attempts + 1}
  PROVE  Call!EachWordAskedOnce'
<1>1. Call!Ascending(Call!Flow') /\ Call!ToSet(Call!Flow') = Call!ToSet(Call!Flow)
  BY DEF CallInv, Call!EachWordAskedOnce
<1>2. lost # {} => attempts' > 0
  BY DEF CallInv, Call!TypeOK, Call!EachWordAskedOnce
<1> QED  BY <1>1, <1>2 DEF CallInv, Call!EachWordAskedOnce

\* The flow of the words, stretch by stretch.
UpToNow == Joined(asked, words)
UpToHeard == Joined(UpToNow, heard)

\* The flow is the stretches joined, before and after a step.
LEMMA StretchesJoined ==
  /\ Call!Flow = Joined(Joined(UpToHeard, queued), wire)
  /\ Call!Flow' = Joined(Joined(UpToHeard', queued'), wire')
  BY DEF Call!Flow, Joined, UpToNow, UpToHeard

\* The stretches are sequences, however they are joined.
LEMMA StretchesTyped ==
  ASSUME Stretches
  PROVE  /\ UpToNow \in Seq(Nat) /\ UpToHeard \in Seq(Nat) /\ Joined(UpToHeard, queued) \in Seq(Nat)
         /\ Call!Flow \in Seq(Nat)
<1>1. UpToNow \in Seq(Nat)
  BY JoinedInAnyOrder DEF Stretches, UpToNow
<1>2. UpToHeard \in Seq(Nat)
  BY <1>1, JoinedInAnyOrder DEF Stretches, UpToHeard
<1>3. Joined(UpToHeard, queued) \in Seq(Nat)
  BY <1>2, JoinedInAnyOrder DEF Stretches
<1>4. Call!Flow \in Seq(Nat)
  BY <1>3, StretchesJoined, JoinedInAnyOrder DEF Stretches
<1> QED  BY <1>1, <1>2, <1>3, <1>4

\* Every step but a new word and a broken connection keeps the flow.
LEMMA WordsMoveOn ==
  ASSUME CallInv, Call!PumpReads \/ Call!SenderSends \/ Call!Hearing
  PROVE  Stretches' /\ Call!EachWordAskedOnce'
<1> USE DEF Call!inbound, Call!pump, Call!session, Call!talk
<1>0. Stretches /\ asked \in Seq(Nat) /\ words \in Seq(Nat) /\ heard \in Seq(Nat)
      /\ queued \in Seq(Nat) /\ wire \in Seq(Nat)
  BY DEF CallInv, Stretches
<1>j. UpToNow \in Seq(Nat) /\ UpToHeard \in Seq(Nat)
  BY <1>0, StretchesTyped
<1>m. UpToHeard = Joined(UpToNow, heard) /\ UpToHeard' = Joined(UpToNow', heard')
  BY DEF UpToHeard
<1>f. UpToNow = Joined(asked, words) /\ UpToNow' = Joined(asked', words')
  BY DEF UpToNow
<1>1. CASE Call!PumpReads
  <2>1. /\ Moved(wire, queued, wire', queued')
        /\ UNCHANGED <<asked, words, heard, lost, said, attempts>>
    BY <1>1 DEF Call!PumpReads, Moved
  <2>2. /\ queued' \in Seq(Nat) /\ wire' \in Seq(Nat)
        /\ Joined(Joined(UpToHeard, queued'), wire') = Joined(Joined(UpToHeard, queued), wire)
    BY <1>0, <1>j, <2>1, WordMoves
  <2>3. UpToHeard' = UpToHeard
    BY <1>m, <1>f, <2>1
  <2>4. Call!Flow' = Call!Flow
    BY <2>2, <2>3, StretchesJoined
  <2> QED  BY <1>0, <2>1, <2>2, <2>4, FlowKept DEF Stretches
<1>2. CASE Call!SenderSends
  <2>1. /\ Moved(queued, heard, queued', heard')
        /\ UNCHANGED <<asked, words, wire, lost, said, attempts>>
    BY <1>2 DEF Call!SenderSends, Moved
  <2>2. /\ heard' \in Seq(Nat) /\ queued' \in Seq(Nat)
        /\ Joined(Joined(UpToNow, heard'), queued') = Joined(Joined(UpToNow, heard), queued)
    BY <1>0, <1>j, <2>1, WordMoves
  <2>3. UpToNow' = UpToNow /\ wire' = wire
    BY <1>f, <2>1
  <2>4. Call!Flow' = Call!Flow
    BY <1>m, <2>2, <2>3, StretchesJoined
  <2> QED  BY <1>0, <2>1, <2>2, <2>4, FlowKept DEF Stretches
<1>3. CASE Call!HearFinal
  <2>1. /\ Moved(heard, words, heard', words')
        /\ UNCHANGED <<asked, queued, wire, lost, said, attempts>>
    BY <1>3 DEF Call!HearFinal, Moved
  <2>2. /\ words' \in Seq(Nat) /\ heard' \in Seq(Nat)
        /\ Joined(Joined(asked, words'), heard') = Joined(Joined(asked, words), heard)
    BY <1>0, <2>1, WordMoves
  <2>3. Call!Flow' = Call!Flow
    BY <1>m, <1>f, <2>1, <2>2, StretchesJoined
  <2> QED  BY <1>0, <2>1, <2>2, <2>3, FlowKept DEF Stretches
<1>4. CASE Call!HearLast
  <2> DEFINE question == Append(words, Head(heard))
  <2>1. /\ Moved(heard, words, heard', question) /\ words' = << >> /\ asked' = Joined(asked, question)
        /\ UNCHANGED <<queued, wire, lost, said, attempts>>
    BY <1>4 DEF Call!HearLast, Call!Ask, Moved, Joined
  <2> HIDE DEF question
  <2>2. /\ question \in Seq(Nat) /\ heard' \in Seq(Nat)
        /\ Joined(Joined(asked, question), heard') = Joined(Joined(asked, words), heard)
    BY <1>0, <2>1, WordMoves
  <2>3. asked' \in Seq(Nat)
    BY <1>0, <2>1, <2>2, JoinedInAnyOrder
  <2>4. Joined(asked', words') = asked'
    BY <2>1, <2>3, NothingJoined
  <2>5. words' \in Seq(Nat)
    BY <2>1
  <2>6. Call!Flow' = Call!Flow
    BY <1>m, <1>f, <2>1, <2>2, <2>4, StretchesJoined
  <2> QED  BY <1>0, <2>1, <2>2, <2>3, <2>5, <2>6, FlowKept DEF Stretches
<1>5. CASE Call!HearBoundary
  <2>1. /\ words' = << >> /\ asked' = asked \o words
        /\ UNCHANGED <<heard, queued, wire, lost, said, attempts>>
    BY <1>5 DEF Call!HearBoundary, Call!Ask
  <2>2. asked' = Joined(asked, words)
    BY <2>1 DEF Joined
  <2>3. asked' \in Seq(Nat) /\ Joined(asked', words') = asked'
    BY <1>0, <2>1, <2>2, JoinedInAnyOrder, NothingJoined
  <2>4. words' \in Seq(Nat)
    BY <2>1
  <2>5. Call!Flow' = Call!Flow
    BY <1>m, <1>f, <2>1, <2>2, <2>3, StretchesJoined
  <2> QED  BY <1>0, <2>1, <2>3, <2>4, <2>5, FlowKept DEF Stretches
<1> QED  BY <1>1, <1>2, <1>3, <1>4, <1>5 DEF Call!Hearing

\* A new word is one more at the end.
LEMMA WordSaid ==
  ASSUME CallInv, Call!CallerSpeaks PROVE Stretches' /\ Call!EachWordAskedOnce'
<1>1. /\ said \in Nat /\ said' = said + 1 /\ wire' = Append(wire, said + 1)
      /\ UNCHANGED <<asked, words, heard, queued, lost, attempts>>
  BY DEF CallInv, Call!TypeOK, Call!CallerSpeaks, Call!pump, Call!session, Call!talk
<1>2. Stretches /\ wire \in Seq(Nat)
  BY DEF CallInv, Stretches
<1>3. Stretches'
  BY <1>1, <1>2, AppendProperties DEF Stretches
<1>4. Joined(UpToHeard, queued) \in Seq(Nat) /\ Call!Flow \in Seq(Nat)
  BY <1>2, StretchesTyped
<1>5. UpToHeard' = UpToHeard
  BY <1>1 DEF UpToHeard, UpToNow
<1>6. Call!Flow' = Append(Call!Flow, said + 1)
  <2>1. said + 1 \in Nat
    BY <1>1
  <2>2. /\ <<said + 1>> \in Seq(Nat) /\ wire' = Joined(wire, <<said + 1>>)
        /\ Append(Call!Flow, said + 1) = Joined(Call!Flow, <<said + 1>>)
    BY <1>1, <1>2, <1>4, <2>1, WordJoined
  <2>3. Call!Flow' = Joined(Joined(UpToHeard, queued), wire') /\ Call!Flow = Joined(Joined(UpToHeard, queued), wire)
    BY <1>1, <1>5, StretchesJoined
  <2> QED  BY <1>2, <1>4, <2>2, <2>3, JoinedInAnyOrder
<1>7. Call!Ascending(Call!Flow) /\ Call!ToSet(Call!Flow) \subseteq 1 .. said /\ lost \subseteq 1 .. said
  BY DEF CallInv, Call!EachWordAskedOnce
<1>8. /\ Call!Ascending(Call!Flow') /\ Call!ToSet(Call!Flow') = Call!ToSet(Call!Flow) \cup {said + 1}
  BY <1>1, <1>4, <1>6, <1>7, WordAdded
<1>9. said + 1 \notin lost /\ 1 .. said + 1 = (1 .. said) \cup {said + 1}
  BY <1>1, <1>7
<1> QED  BY <1>1, <1>3, <1>8, <1>9 DEF CallInv, Call!EachWordAskedOnce

\* A broken connection takes a piece out of the flow, and that is what is lost.
LEMMA WordsLost ==
  ASSUME CallInv, Call!LineBreaks PROVE Stretches' /\ Call!EachWordAskedOnce'
<1>0. Stretches /\ asked \in Seq(Nat) /\ words \in Seq(Nat) /\ heard \in Seq(Nat)
      /\ queued \in Seq(Nat) /\ wire \in Seq(Nat)
  BY DEF CallInv, Stretches
<1>1. /\ heard' = << >> /\ UNCHANGED <<asked, words, wire, said>>
      /\ attempts \in Nat /\ attempts' = attempts + 1
  BY DEF Call!LineBreaks, Call!Retries, Call!inbound, Call!talk, CallInv, Call!TypeOK
<1>2. UpToNow \in Seq(Nat) /\ UpToHeard = Joined(UpToNow, heard) /\ UpToNow' = UpToNow
  BY <1>0, <1>1, StretchesTyped DEF UpToHeard, UpToNow
<1>m. UpToHeard' = UpToNow
  <2>1. UpToHeard' = Joined(UpToNow', heard')
    BY DEF UpToHeard
  <2> QED  BY <1>1, <1>2, <2>1, NothingJoined
<1>3. ASSUME NEW piece \in Seq(Nat), queued' \in Seq(Nat),
             Joined(Joined(UpToNow, piece), queued') = Joined(UpToHeard, queued),
             lost' = lost \cup Call!ToSet(piece)
      PROVE  Stretches' /\ Call!EachWordAskedOnce'
  <2> DEFINE after == Joined(queued', wire)
  <2>1. Stretches'
    BY <1>0, <1>1, <1>3 DEF Stretches
  <2>2. after \in Seq(Nat) /\ Joined(UpToNow, piece) \in Seq(Nat)
    BY <1>0, <1>2, <1>3, JoinedInAnyOrder
  <2>3. Call!Flow = Joined(Joined(UpToNow, piece), after)
    <3>1. Call!Flow = Joined(Joined(Joined(UpToNow, piece), queued'), wire)
      BY <1>3, StretchesJoined
    <3> QED  BY <1>0, <1>3, <2>2, <3>1, JoinedInAnyOrder
  <2>4. Call!Flow' = Joined(UpToNow, after)
    <3>1. Call!Flow' = Joined(Joined(UpToNow, queued'), wire)
      BY <1>1, <1>m, StretchesJoined
    <3> QED  BY <1>0, <1>2, <1>3, <3>1, JoinedInAnyOrder
  <2> HIDE DEF after
  <2>5. Call!Ascending(Call!Flow)
    BY DEF CallInv, Call!EachWordAskedOnce
  <2>6. /\ Call!Ascending(Call!Flow') /\ Call!ToSet(Call!Flow) = Call!ToSet(Call!Flow') \cup Call!ToSet(piece)
        /\ Call!ToSet(Call!Flow') \cap Call!ToSet(piece) = {}
    BY <1>2, <1>3, <2>2, <2>3, <2>4, <2>5, StretchTaken
  <2>7. attempts' > 0
    BY <1>1
  <2> QED  BY <1>1, <1>3, <2>1, <2>6, <2>7 DEF CallInv, Call!EachWordAskedOnce
<1>4. CASE lost' = lost \cup Call!ToSet(heard) /\ queued' = queued
  BY <1>0, <1>2, <1>3, <1>4
<1>5. CASE queued # << >> /\ lost' = lost \cup Call!ToSet(Append(heard, Head(queued))) /\ queued' = Tail(queued)
  <2> DEFINE piece == Append(heard, Head(queued))
  <2>0. Moved(queued, heard, queued', piece)
    BY <1>5 DEF Moved
  <2> HIDE DEF piece
  <2>1. /\ piece \in Seq(Nat) /\ queued' \in Seq(Nat)
        /\ Joined(Joined(UpToNow, piece), queued') = Joined(Joined(UpToNow, heard), queued)
    BY <1>0, <1>2, <2>0, WordMoves
  <2>2. lost' = lost \cup Call!ToSet(piece)
    BY <1>5 DEF piece
  <2> QED  BY <1>2, <1>3, <2>1, <2>2
<1> QED  BY <1>4, <1>5 DEF Call!LineBreaks

\* The steps that leave the words where they are.
LEMMA WordsRest ==
  ASSUME CallInv,
         \/ Call!TwilioStarts \/ Call!HangsUp \/ Call!Disconnects \/ Call!CallStep
         \/ Call!PumpEnds \/ Call!PumpChokes \/ Call!SenderCloses \/ Call!SenderFails \/ Call!LineGoes
         \/ Call!LineOpens \/ Call!LineFails \/ Call!TranscriptEnds
  PROVE  Stretches' /\ Call!EachWordAskedOnce'
<1>1. /\ UNCHANGED <<asked, words, heard, queued, wire, lost, said>>
      /\ attempts' \in {attempts, attempts + 1}
  BY DEF Call!TwilioStarts, Call!HangsUp, Call!Disconnects, Call!CallStep, Call!Started,
     Call!NeverStarts, Call!SpeechEnds, Call!Answered, Call!CallFails, Call!RouterCloses,
     Call!FinaliseTranscriber, Call!PumpEnds, Call!PumpChokes, Call!SenderCloses,
     Call!SenderFails, Call!LineGoes, Call!LineOpens, Call!LineFails, Call!Retries, Call!TranscriptEnds,
     Call!inbound, Call!pump, Call!session, Call!talk
<1>2. Call!Flow' = Call!Flow
  BY <1>1 DEF Call!Flow
<1>3. Call!EachWordAskedOnce'
  BY <1>1, <1>2, FlowKept
<1> QED  BY <1>1, <1>3 DEF CallInv, Stretches

\* The words stay in order from the caller to the model: every step of a call is one of
\* those above.
THEOREM CallInvariance == ASSUME Call!ConstantsAssumption PROVE Call!Spec => []CallInv
<1>1. Call!Init => CallInv
  BY CallInit
<1>2. ASSUME CallInv, Call!Next PROVE CallInv'
  <2>1. Stretches' /\ Call!EachWordAskedOnce'
    BY <1>2, WordsMoveOn, WordSaid, WordsLost, WordsRest
    DEF Call!Next, Call!Twilio, Call!TaskStep, Call!PullStep
  <2> QED  BY <1>2, <2>1, CallTyped DEF CallInv
<1>3. ASSUME CallInv, UNCHANGED Call!vars PROVE CallInv'
  BY <1>3 DEF Call!vars, Call!inbound, Call!pump, Call!session, Call!talk, CallInv, Call!TypeOK,
     BudgetKept, Stretches, Call!EachWordAskedOnce, Call!Flow
<1>4. CallInv /\ [Call!Next]_(Call!vars) => CallInv'
  BY <1>2, <1>3
<1> QED  BY <1>1, <1>4, PTL DEF Call!Spec

\* However often the transcriber reconnects, the model is asked every word once at most, in
\* the order they were said, and only words that a broken connection took along are never
\* asked later (telephony/bridge.py:68-76, deepgram_stt.py:163-169).
THEOREM CallCorrect ==
  ASSUME Call!ConstantsAssumption PROVE Call!Spec => []Call!EachWordAskedOnce
<1>1. CallInv => Call!EachWordAskedOnce
  BY DEF CallInv
<1> QED  BY <1>1, CallInvariance, PTL

-----------------------------------------------------------------------------
(* The suite: every part keeps its own steps, whichever moves.             *)

\* A step of the suite is a step of one part, and the others rest.
LEMMA SuiteSteps ==
  ASSUME [SuiteNext]_<<part, vars, callVars, speechVars, slowVars, pageVars>>
  PROVE  /\ [Next]_vars
         /\ [Call!Next]_(Call!vars)
         /\ [Speech!Next]_(Speech!vars)
         /\ [Slow!Next]_(Slow!vars)
         /\ [Page!Next]_(Page!vars)
<1>1. (UNCHANGED callVars) => UNCHANGED Call!vars
  BY DEF callVars, Call!vars, Call!inbound, Call!pump, Call!session, Call!talk
<1>2. (UNCHANGED speechVars) => UNCHANGED Speech!vars
  BY DEF speechVars, Speech!vars, Speech!call
<1>3. (UNCHANGED pageVars) => UNCHANGED Page!vars
  BY DEF pageVars, Page!vars, Page!mics
<1>4. (UNCHANGED slowVars) => UNCHANGED Slow!vars
  BY DEF slowVars, Slow!vars, Slow!stream, Slow!texts, Slow!begun
<1>5. CASE UNCHANGED <<part, vars, callVars, speechVars, slowVars, pageVars>>
  BY <1>1, <1>2, <1>3, <1>4, <1>5
<1>6. CASE SuiteNext
  BY <1>1, <1>2, <1>3, <1>4, <1>6 DEF SuiteNext
<1> QED  BY <1>5, <1>6

\* What the parts assume of their constants.
LEMMA PartsAssumed ==
  Call!ConstantsAssumption /\ Speech!ConstantsAssumption /\ Page!ConstantsAssumption
  BY CallsAssumption

\* The suite implements every one of these parts; its fairness is not needed for it.
LEMMA SuiteParts == SuiteSpec => Spec /\ Call!Spec /\ Speech!Spec /\ Slow!Spec /\ Page!Spec
<1>1. SuiteInit => Init /\ Call!Init /\ Speech!Init /\ Slow!Init /\ Page!Init
  BY DEF SuiteInit
<1> QED  BY <1>1, SuiteSteps, PTL DEF SuiteSpec, Spec, Call!Spec, Speech!Spec, Slow!Spec,
            Page!Spec

\* Every variable of the five parts has its type.
THEOREM CallsTypeCorrect == SuiteSpec => []CallsTypeOK
<1>1. IInv /\ InLine => TypeOK
  BY DEF IInv, Typed, InLine, TypeOK
<1>2. Call!Spec => []CallInv
  BY PartsAssumed, CallInvariance
<1>3. CallInv => Call!TypeOK
  BY DEF CallInv
<1>4. Speech!Spec => []SpeechInv
  BY PartsAssumed, SpeechInvariance
<1>5. SpeechInv => Speech!TypeOK
  BY DEF SpeechInv
<1>6. Page!Spec => []PageInv
  BY PartsAssumed, PageInvariance
<1>7. PageInv => Page!TypeOK
  BY DEF PageInv
<1>8. Slow!Spec => []Slow!TypeOK
  BY CallsAssumption, Slow!TypeCorrect
<1> QED
  BY <1>1, <1>2, <1>3, <1>4, <1>5, <1>6, <1>7, <1>8, Invariance, LineCorrect, SuiteParts, PTL
  DEF CallsTypeOK

\* All turns that stream from a cache share the one in use, and no upload is lost but with
\* a creation that raised or was cancelled, one at most with each (gemini_llm.py:7, 91-111).
THEOREM DocumentCorrect == SuiteSpec => []DocumentUploadedOnce
  BY UploadCorrect, SuiteParts, PTL

\* However often the transcriber reconnects, the model is asked every word once at most, in
\* the order they were said, and only those that a broken connection took along are never
\* asked later (telephony/bridge.py:68-76, deepgram_stt.py:163-169).
THEOREM WordsCorrect == SuiteSpec => []EachWordAskedOnce
<1>1. Call!Spec => []Call!EachWordAskedOnce
  BY PartsAssumed, CallCorrect
<1> QED  BY <1>1, SuiteParts, PTL DEF EachWordAskedOnce

\* A synthesiser's call leaves no socket and no task unless its conn.close() is cancelled,
\* has said everything when it ends without an exception, and raises at an error frame
\* (cartesia_tts.py:12-13, 155-163).
THEOREM SynthesisCorrect == SuiteSpec => []SpokenInFullOrRaised
<1>1. Speech!Spec => []Speech!SpokenInFullOrRaised
  BY PartsAssumed, SpeechCorrect
<1> QED  BY <1>1, SuiteParts, PTL DEF SpokenInFullOrRaised

\* As long as recordings start and are not cut off, a patient user is shown what is going
\* on, and an interrupted answer leaves no microphone on and no state that nothing will
\* change; for any user the page is never stuck speaking (app.js:56-152, 183-200).
THEOREM DashboardCorrect == SuiteSpec => []PageShowsWhatIs
<1>1. Page!Spec => []Page!PageShowsWhatIs
  BY PartsAssumed, PageCorrect
<1> QED  BY <1>1, SuiteParts, PTL DEF PageShowsWhatIs
=============================================================================
