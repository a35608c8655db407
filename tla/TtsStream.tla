------------------------------ MODULE TtsStream ------------------------------
(***************************************************************************)
(* One synthesize() call: the sender task and the receive loop that share  *)
(* a connection, in app/providers/cartesia_tts.py and elevenlabs_tts.py,   *)
(* and converse() of app/providers/gemini_live.py, which has the same      *)
(* shape.  pc names the suspension point of the generator:                 *)
(*                                                                         *)
(*   created     not pulled yet: nothing has run                           *)
(*   connecting  in `await self._connect()`                                *)
(*   receiving   waiting for the next message                              *)
(*   yielding    at `yield audio`                                          *)
(*   joining     in `await sender`, the receive loop being over            *)
(*   stopping    in the inner finally, awaiting the cancelled sender       *)
(*   closing     in the outer finally, awaiting conn.close()               *)
(*   abandoned   dropped at a yield, to be finalised by the event loop     *)
(*   ended                                                                 *)
(*   cut         ended too, conn.close() having been cancelled             *)
(*                                                                         *)
(* The text is what the pipelines pass: one string that is at hand, sent   *)
(* in Frames frames; the last tells Cartesia and ElevenLabs that the text  *)
(* is over, and nothing ever tells Gemini Live.  The server is external,   *)
(* and nothing is assumed of it: it may stay silent for ever.              *)
(***************************************************************************)
EXTENDS Naturals, Sequences, SequencesExt

CONSTANTS
  Frames,  \* frames that _send_text() sends
  MaxAudio \* bound: audio and error frames the server sends

ConstantsAssumption == Frames \in Nat \ {0} /\ MaxAudio \in Nat

VARIABLES
  provider, \* whose call it is
  pc,
  conn,     \* the connection
  inbox,    \* frames received and not yet read
  emitted,  \* how many of them the server has sent
  finished, \* it has sent its done frame
  sender,   \* the sender task
  sent,     \* frames it has sent
  raised,   \* the exception on its way out of the generator
  read      \* history: an error frame was read and raised

call == <<conn, inbox, emitted, finished, sender, sent, raised, read>>
vars == <<provider, pc, call>>

\* The receive loop ends at the server's done frame; ElevenLabs' is not looked at.
EndsOnDone == provider # "elevenlabs"

\* Error frames raise TtsError; the others have no such frame or ignore it.
RaisesErrors == provider = "cartesia"

Init ==
  /\ provider \in {"cartesia", "elevenlabs", "gemini_live"}
  /\ pc = "created" /\ conn = "none" /\ inbox = << >> /\ emitted = 0
  /\ finished = FALSE
  /\ sender = "none" /\ sent = 0 /\ raised = "none" /\ read = FALSE

Remote == <<conn, inbox, emitted, finished>>
Sending == <<sender, sent>>

-----------------------------------------------------------------------------
\* The first pull of the generator.
Begin ==
  /\ pc = "created"
  /\ pc' = "connecting"
  /\ UNCHANGED <<Remote, Sending, raised, read>>

Connected ==
  /\ pc = "connecting"
  /\ pc' = "receiving" /\ conn' = "open" /\ sender' = "running"
  /\ UNCHANGED <<inbox, emitted, finished, sent, raised, read>>

\* Not connected, or cancelled meanwhile: there is nothing to release.
ConnectFails ==
  /\ pc = "connecting"
  /\ pc' = "ended" /\ raised' \in {"connection", "cancelled"}
  /\ UNCHANGED <<Remote, Sending, read>>

\* Mutation: the closing frame is sent once more.
SendFrameAgain ==
  /\ sender = "running" /\ conn = "open"
  /\ sent' = sent + 1
  /\ sender' = IF sent = Frames THEN "done" ELSE "running"
  /\ UNCHANGED <<pc, Remote, raised, read>>

\* The sender sends the next frame; the last one ends it.
SendFrame ==
  /\ sender = "running" /\ conn = "open"
  /\ sent' = sent + 1
  /\ sender' = IF sent' = Frames THEN "done" ELSE "running"
  /\ UNCHANGED <<pc, Remote, raised, read>>

\* websockets.ConnectionClosed.
SendFails ==
  /\ sender = "running" /\ conn # "open"
  /\ sender' = "failed"
  /\ UNCHANGED <<pc, Remote, sent, raised, read>>

\* The server.
Emit(frame) ==
  /\ conn = "open" /\ emitted < MaxAudio
  /\ inbox' = Append(inbox, frame) /\ emitted' = emitted + 1
  /\ UNCHANGED <<pc, conn, finished, Sending, raised, read>>

EmitDone ==
  /\ conn = "open" /\ ~finished
  /\ inbox' = Append(inbox, "done") /\ finished' = TRUE
  /\ UNCHANGED <<pc, conn, emitted, Sending, raised, read>>

PeerLeaves(how) ==
  /\ conn = "open"
  /\ conn' = how
  /\ UNCHANGED <<pc, inbox, emitted, finished, Sending, raised, read>>

-----------------------------------------------------------------------------
\* Mutation: a sender that is still at work is left behind.
UnwindLeavesSender(exc) ==
  /\ pc' = "closing" /\ raised' = exc /\ UNCHANGED sender

\* The inner finally clause: a sender at work is cancelled and awaited; one that has
\* failed raises again here, for only ConnectionError, OSError and CancelledError are
\* suppressed, and takes the place of the exception that was on its way.
Unwind(exc) ==
  IF sender = "running"
  THEN pc' = "stopping" /\ raised' = exc /\ sender' = "cancelling"
  ELSE /\ pc' = "closing" /\ UNCHANGED sender
       /\ raised' = IF sender = "failed" THEN "connection" ELSE exc

\* Mutation: the stream is over when the server says so.
LoopEndsUnjoined == Unwind("none")

\* The receive loop is over: `await sender`.
LoopEnds == pc' = "joining" /\ UNCHANGED <<raised, sender>>

Reads(frame) ==
  /\ pc = "receiving" /\ inbox # << >> /\ Head(inbox) = frame
  /\ inbox' = Tail(inbox)

ReadAudio ==
  /\ Reads("audio")
  /\ pc' = "yielding"
  /\ UNCHANGED <<conn, emitted, finished, Sending, raised, read>>

\* Mutation: the done frame is only a frame without audio.
ReadDoneIgnored ==
  /\ Reads("done")
  /\ UNCHANGED <<pc, conn, emitted, finished, Sending, raised, read>>

ReadDone ==
  /\ Reads("done")
  /\ IF EndsOnDone THEN LoopEnds ELSE UNCHANGED <<pc, raised, sender>>
  /\ UNCHANGED <<conn, emitted, finished, sent, read>>

ReadError ==
  /\ Reads("error")
  /\ IF RaisesErrors THEN Unwind("tts") ELSE UNCHANGED <<pc, raised, sender>>
  /\ read' = RaisesErrors
  /\ UNCHANGED <<conn, emitted, finished, sent>>

\* The frames are used up and the connection is gone, in order or not.
StreamEnds ==
  /\ pc = "receiving" /\ inbox = << >> /\ conn \in {"closed", "dropped"}
  /\ IF conn = "closed" THEN LoopEnds ELSE Unwind("connection")
  /\ UNCHANGED <<Remote, sent, read>>

\* The sender is done, and its error surfaces.
Joined ==
  /\ pc = "joining" /\ sender \in {"done", "failed"}
  /\ Unwind("none")
  /\ UNCHANGED <<Remote, sent, read>>

Pull ==
  /\ pc = "yielding"
  /\ pc' = "receiving"
  /\ UNCHANGED <<Remote, Sending, raised, read>>

Abandon ==
  /\ pc = "yielding"
  /\ pc' = "abandoned"
  /\ UNCHANGED <<Remote, Sending, raised, read>>

\* aclose(): by the event loop, or by a consumer that unwinds.
Finalise ==
  /\ pc = "abandoned"
  /\ Unwind("exit")
  /\ UNCHANGED <<Remote, sent, read>>

Cancel ==
  /\ pc \in {"receiving", "joining"}
  /\ Unwind("cancelled")
  /\ UNCHANGED <<Remote, sent, read>>

\* Mutation: the CancelledError of the sender is not suppressed.
SenderCancelledRaises ==
  /\ pc = "stopping"
  /\ sender' = "cancelled" /\ pc' = "closing" /\ raised' = "cancelled"
  /\ UNCHANGED <<Remote, sent, read>>

\* The sender is awaited.  Its CancelledError is suppressed, and so is one of the call
\* itself that arrives here: such a cancellation is lost.
SenderCancelled ==
  /\ pc = "stopping"
  /\ sender' = "cancelled" /\ pc' = "closing"
  /\ UNCHANGED <<Remote, sent, raised, read>>

\* conn.close(), whose failure is suppressed.
Close ==
  /\ pc = "closing"
  /\ pc' = "ended" /\ conn' = "closed"
  /\ UNCHANGED <<inbox, emitted, finished, Sending, raised, read>>

\* CancelledError is no Exception: it takes the place of the exception on its way, and
\* the closing handshake may not have been over.
CancelClosing ==
  /\ pc = "closing"
  /\ pc' = "cut" /\ raised' = "cancelled" /\ conn' \in {conn, "closed"}
  /\ UNCHANGED <<inbox, emitted, finished, Sending, read>>

Own ==
  \/ Connected \/ ConnectFails \/ ReadAudio \/ ReadDone \/ ReadError \/ StreamEnds
  \/ Joined \/ Finalise \/ SenderCancelled \/ Close

SenderStep == SendFrame \/ SendFails

PeerStep ==
  \/ EmitDone \/ \E frame \in {"audio", "error"} : Emit(frame)
  \/ \E how \in {"closed", "dropped"} : PeerLeaves(how)

Next ==
  /\ UNCHANGED provider
  /\ \/ Own \/ SenderStep \/ PeerStep \/ Begin \/ Pull \/ Abandon
     \/ Cancel \/ CancelClosing

Spec == Init /\ [][Next]_vars

\* The event loop runs what is ready, a frame that is sent is sent, and the consumer pulls
\* or drops the call.  Nothing is assumed of the server.
Fairness ==
  /\ WF_vars(Own /\ UNCHANGED provider)
  /\ WF_vars(SenderStep /\ UNCHANGED provider)
  /\ WF_vars((Pull \/ Abandon) /\ UNCHANGED provider)

FairSpec == Spec /\ Fairness

-----------------------------------------------------------------------------
(* Properties.                                                             *)

\* Every variable has its type.
TypeOK ==
  /\ provider \in {"cartesia", "elevenlabs", "gemini_live"}
  /\ pc \in {"created", "connecting", "receiving", "yielding", "joining", "stopping", "closing",
             "abandoned", "ended", "cut"}
  /\ conn \in {"none", "open", "closed", "dropped"}
  /\ Len(inbox) <= emitted + 1 /\ emitted <= MaxAudio /\ finished \in BOOLEAN
  /\ sender \in {"none", "running", "done", "failed", "cancelling", "cancelled"}
  /\ sent \in 0 .. Frames
  /\ raised \in {"none", "connection", "tts", "exit", "cancelled"}

\* Whichever way the call ends, failures of the sender included, it leaves no socket
\* open and no task behind (cartesia_tts.py:156-163), but for a socket that was being
\* closed when the call was cancelled.
NothingLeftBehind ==
  /\ pc \in {"ended", "cut"} => sender \notin {"running", "cancelling"}
  /\ pc = "ended" => conn \in {"none", "closed"}

\* A call that ends without an exception has said everything: `await sender` "surfaces
\* any sender error once the stream ends" (cartesia_tts.py:155), so a reply cut short
\* by a server that finishes or closes early is not taken for a complete one.
CleanEndSaidAll == pc \in {"ended", "cut"} /\ raised = "none" => sent = Frames

\* The server has nothing more to say: it has closed or is lost, has sent the done frame
\* where the receive loop heeds it, or an error frame where that raises.
ServerIsThrough ==
  \/ conn \in {"closed", "dropped"}
  \/ EndsOnDone /\ finished
  \/ RaisesErrors /\ Contains(inbox, "error")

\* "a failed context must fail the turn, not hang it" (cartesia_tts.py:12-13): once the
\* server has finished, failed or gone, also when it keeps the socket open after its done
\* frame, or once the consumer has dropped it, a call ends.  With a server that does none
\* of these it waits for ever: no timeout is set.
Terminates == ServerIsThrough \/ pc = "abandoned" ~> pc \in {"ended", "cut"}

\* "Error frames raise TtsError" (cartesia_tts.py:12), whatever is cancelled and closed
\* on the way out, but for two cases: a sender that had failed raises again where it is
\* awaited (line 160), and a cancellation of conn.close() (line 163) is raised there; both
\* take the place of the TtsError.
ErrorFrameRaisesTtsError ==
  pc = "ended" /\ read => raised = IF sender = "failed" THEN "connection" ELSE "tts"

\* The three together.
SpokenInFullOrRaised == NothingLeftBehind /\ CleanEndSaidAll /\ ErrorFrameRaisesTtsError
=============================================================================
