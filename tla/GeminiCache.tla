---------------------------- MODULE GeminiCache ----------------------------
(***************************************************************************)
(* The language model of app/providers/gemini_llm.py shared by every turn: *)
(* generate() streams with the document's cached content, which            *)
(* _ensure_cache() creates on first use behind a double check and an       *)
(* asyncio.Lock.  A turn may be cancelled at any await: its caller hung    *)
(* up.  Cached contents are numbered as Gemini creates them.               *)
(***************************************************************************)
EXTENDS Naturals, Sequences, FiniteSets, SequencesExt

CONSTANTS
  Turn,
  Override, \* turns with a system prompt of their own, which is never cached
  None

ASSUME NoneAssumption == None \notin Turn

ASSUME TurnAssumption == IsFiniteSet(Turn)

VARIABLES
  phase,   \* [Turn -> where generate() is]
  ref,     \* self._cache_ref, 0 for None
  lock,    \* the turn that holds self._cache_lock
  queue,   \* the turns waiting for the lock
  uploads, \* external: cached contents Gemini has created
  used,    \* [Turn -> the cached content its stream refers to, 0 for none]
  givenUp  \* history: the turns whose creation raised or was cancelled

vars == <<phase, ref, lock, queue, uploads, used, givenUp>>

Init ==
  /\ phase = [t \in Turn |-> "idle"] /\ used = [t \in Turn |-> 0]
  /\ ref = 0 /\ lock = None /\ queue = << >> /\ uploads = 0 /\ givenUp = {}

Streams(t, r) ==
  /\ phase' = [phase EXCEPT ![t] = "streaming"]
  /\ used' = [used EXCEPT ![t] = r]

\* The document inlined, or the cache that is there already.
BeginAtOnce(t) ==
  /\ phase[t] = "idle" /\ (t \in Override \/ ref # 0)
  /\ Streams(t, IF t \in Override THEN 0 ELSE ref)
  /\ UNCHANGED <<ref, lock, queue, uploads, givenUp>>

\* The lock is taken without waiting when it is free and nobody waits.
BeginCreating(t) ==
  /\ phase[t] = "idle" /\ t \notin Override /\ ref = 0
  /\ lock = None /\ queue = << >>
  /\ phase' = [phase EXCEPT ![t] = "creating"] /\ lock' = t
  /\ UNCHANGED <<ref, queue, uploads, used, givenUp>>

BeginWaiting(t) ==
  /\ phase[t] = "idle" /\ t \notin Override /\ ref = 0
  /\ lock # None \/ queue # << >>
  /\ phase' = [phase EXCEPT ![t] = "waiting"] /\ queue' = Append(queue, t)
  /\ UNCHANGED <<ref, lock, uploads, used, givenUp>>

\* Mutation: the second check is missing.
AcquireUnchecked(t) ==
  /\ phase[t] = "waiting" /\ lock = None /\ queue # << >> /\ Head(queue) = t
  /\ queue' = Tail(queue)
  /\ phase' = [phase EXCEPT ![t] = "creating"] /\ lock' = t
  /\ UNCHANGED <<used, ref, uploads, givenUp>>

\* The first waiter wakes up and checks again; with a cache it lets go of the lock.
Acquire(t) ==
  /\ phase[t] = "waiting" /\ lock = None /\ queue # << >> /\ Head(queue) = t
  /\ queue' = Tail(queue)
  /\ IF ref # 0 THEN Streams(t, ref) /\ UNCHANGED lock
     ELSE phase' = [phase EXCEPT ![t] = "creating"] /\ lock' = t /\ UNCHANGED used
  /\ UNCHANGED <<ref, uploads, givenUp>>

\* Mutation: the cached content is not remembered.
CreatedForgotten(t) ==
  /\ phase[t] = "creating"
  /\ uploads' = uploads + 1 /\ UNCHANGED ref /\ lock' = None
  /\ Streams(t, uploads')
  /\ UNCHANGED <<queue, givenUp>>

Created(t) ==
  /\ phase[t] = "creating"
  /\ uploads' = uploads + 1 /\ ref' = uploads' /\ lock' = None
  /\ Streams(t, ref')
  /\ UNCHANGED <<queue, givenUp>>

\* Mutation: a creation that is given up keeps the lock.
GivesUpLocked(t, p) ==
  /\ phase[t] = "creating"
  /\ phase' = [phase EXCEPT ![t] = p]
  /\ givenUp' = givenUp \cup {t} /\ uploads' \in {uploads, uploads + 1}
  /\ UNCHANGED <<lock, ref, queue, used>>

\* The creation is given up: the lock is released and no name is stored.  The request
\* was on its way, so that Gemini may have created the content, whose name nobody will
\* learn: the answer was lost, came too late, or was no longer waited for.
GivesUp(t, p) ==
  /\ phase[t] = "creating"
  /\ phase' = [phase EXCEPT ![t] = p] /\ lock' = None
  /\ givenUp' = givenUp \cup {t} /\ uploads' \in {uploads, uploads + 1}
  /\ UNCHANGED <<ref, queue, used>>

\* Mutation: the failure is stored as the reference.
CreateFailsStored(t) ==
  /\ phase[t] = "creating"
  /\ phase' = [phase EXCEPT ![t] = "failed"] /\ lock' = None /\ ref' = None
  /\ givenUp' = givenUp \cup {t} /\ uploads' \in {uploads, uploads + 1}
  /\ UNCHANGED <<queue, used>>

\* It raises, before or after Gemini has made the content, and so the turn fails.
CreateFails(t) == GivesUp(t, "failed")

StreamEnds(t) ==
  /\ phase[t] = "streaming"
  /\ phase' = [phase EXCEPT ![t] = "done"]
  /\ UNCHANGED <<ref, lock, queue, uploads, used, givenUp>>

StreamFails(t) ==
  /\ phase[t] = "streaming"
  /\ phase' = [phase EXCEPT ![t] = "failed"]
  /\ UNCHANGED <<ref, lock, queue, uploads, used, givenUp>>

\* asyncio.Lock.acquire() takes the waiter out of its queue.
CancelWaiting(t) ==
  /\ phase[t] = "waiting"
  /\ phase' = [phase EXCEPT ![t] = "cancelled"]
  /\ \E i \in DOMAIN queue : queue[i] = t /\ queue' = RemoveAt(queue, i)
  /\ UNCHANGED <<ref, lock, uploads, used, givenUp>>

CancelCreating(t) == GivesUp(t, "cancelled")

CancelStream(t) ==
  /\ phase[t] = "streaming"
  /\ phase' = [phase EXCEPT ![t] = "cancelled"]
  /\ UNCHANGED <<ref, lock, queue, uploads, used, givenUp>>

CreationEnds(t) == Created(t) \/ CreateFails(t)

TurnStep(t) ==
  \/ BeginAtOnce(t) \/ BeginCreating(t) \/ BeginWaiting(t) \/ Acquire(t)
  \/ Created(t) \/ CreateFails(t) \/ StreamEnds(t) \/ StreamFails(t)
  \/ CancelWaiting(t) \/ CancelCreating(t) \/ CancelStream(t)

Next == \E t \in Turn : TurnStep(t)

Spec == Init /\ [][Next]_vars

\* The request that creates the content is answered or raises; a waiter that was woken
\* runs.
Fairness ==
  \A t \in Turn : WF_vars(CreationEnds(t)) /\ WF_vars(Acquire(t))

FairSpec == Spec /\ Fairness

-----------------------------------------------------------------------------
(* Properties.                                                             *)

\* Every variable has its type.
TypeOK ==
  /\ phase \in [Turn -> {"idle", "waiting", "creating", "streaming", "done", "failed", "cancelled"}]
  /\ ref \in Nat /\ lock \in Turn \cup {None} /\ queue \in Seq(Turn)
  /\ uploads \in Nat /\ used \in [Turn -> Nat] /\ givenUp \subseteq Turn

\* "every turn references that cache": two turns that stream from a cache stream from
\* the same one, whichever of them created it (gemini_llm.py:91-98).
OneCacheForAll == \A t \in Turn : used[t] # 0 => used[t] = ref

\* "the document (plus the system prompt) is uploaded once" (gemini_llm.py:7), but for
\* the creations that were given up, each of which may have cost an upload: turns that
\* only meet, are served late or fail later never pay twice.
UploadsAccounted == uploads <= Cardinality(givenUp) + (IF ref = 0 THEN 0 ELSE 1)

\* What the caching is for: one cache for all, and no upload but for it or a creation that
\* was given up.
DocumentUploadedOnce == OneCacheForAll /\ UploadsAccounted

\* A failure or a cancellation of the creator never strands the turns behind it.
WaitersServed == \A t \in Turn : phase[t] = "waiting" ~> phase[t] # "waiting"
=============================================================================
