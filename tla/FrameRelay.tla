----------------------------- MODULE FrameRelay -----------------------------
(***************************************************************************)
(* The traffic of one established backend WebSocket connection:            *)
(* handleWSFrame, handleWSClose, OnFrame, OnClose, OnError and the senders *)
(* of pkg/proxy/websocket.go; SendFrame, Close, CloseAll, closeConnection  *)
(* and receiveLoop of pkg/websocket/manager.go.                            *)
(*                                                                         *)
(* Every ws_frame is handled by a goroutine of its own, so the frames of   *)
(* Plugboard overlap, with each other and with a ws_close; writeMu lets    *)
(* one of them write at a time.  The frames of the backend are forwarded   *)
(* by the one receiveLoop.  Setting up the connection, and several of      *)
(* them, is what BackendSockets is about.                                  *)
(***************************************************************************)
EXTENDS Naturals, Sequences, FiniteSets

CONSTANTS
  Frames,      \* the ws_frame requests of Plugboard
  Closer,      \* the handler of a ws_close
  Stopper,     \* the goroutine that runs Stop, and so CloseAll
  CloseFrame,  \* the close frame
  Free,        \* nobody holds writeMu
  MaxBackend   \* bound: frames the backend sends

Agents == {Closer, Stopper}
Writers == Frames \cup Agents

ASSUME RelayAssumption ==
  /\ MaxBackend \in Nat
  /\ Closer # Stopper /\ Agents \cap Frames = {}
  /\ Free \notin Writers /\ CloseFrame \notin Frames

End == MaxBackend + 1  \* ws_closed, or the ws_error of OnError

VARIABLES
  entry,      \* the connection is in m.connections
  sock,       \* its socket
  stalled,    \* the backend does not drain it
  closed,     \* c.closed
  cancelled,  \* closeConnection has called c.cancel()
  writeMu,    \* who holds c.writeMu
  handed,     \* what the socket has taken: frames and the close frame
  frame,      \* where the goroutine of each ws_frame is
  errors,     \* history: the frames client.Send was called for with a ws_error
  dropped,    \* history: the frames given up in silence, as the code intends
  agent,      \* where each agent is in closeConnection
  stop,       \* where Stop is
  loop,       \* where receiveLoop is
  taken,      \* how many frames of the backend it has read
  uplink      \* what Plugboard got of receiveLoop

sockVars == <<entry, sock, closed, cancelled, handed>>
frameVars == <<frame, errors, dropped>>
closeVars == <<agent, stop>>
loopVars == <<loop, taken>>
vars == <<sockVars, stalled, writeMu, frameVars, closeVars, loopVars, uplink>>

FrameStates == {"none", "spawned", "looking", "locking", "writing", "failing", "done"}
AgentStates == {"idle", "marking", "cancelling", "locking", "writing", "shutting", "done"}

Init ==
  /\ entry = TRUE /\ sock = "open" /\ closed = FALSE /\ cancelled = FALSE
  /\ handed = <<>> /\ stalled = FALSE /\ writeMu = Free
  /\ frame = [f \in Frames |-> "none"]
  /\ errors = {} /\ dropped = {}
  /\ agent = [a \in Agents |-> "idle"] /\ stop = "running"
  /\ loop = "top" /\ taken = 0
  /\ uplink = <<>>

MgrDone == stop # "running"
CtxDone == stop = "stopped"
ConnDone == MgrDone \/ cancelled

\* client.Send: an error is logged only, and what the connection to Plugboard
\* has taken may still be lost with it.
Send(m) == uplink' \in {uplink, Append(uplink, m)}

FrameAt(f, from, to) ==
  frame[f] = from /\ frame' = [frame EXCEPT ![f] = to]

-----------------------------------------------------------------------------
(* handleWSFrame and SendFrame.                                            *)

FrameArrives(f) ==
  /\ FrameAt(f, "none", "spawned")
  /\ UNCHANGED <<sockVars, stalled, writeMu, errors, dropped, closeVars,
                 loopVars, uplink>>

\* Stop has cancelled t.ctx, or the frame carries no connection id.
FrameDropped(f) ==
  /\ FrameAt(f, "spawned", "done")
  /\ dropped' = dropped \cup {f}
  /\ UNCHANGED <<sockVars, stalled, writeMu, errors, closeVars,
                 loopVars, uplink>>

\* The data is decoded, or it is not base64.
FrameDecoded(f) ==
  /\ ~CtxDone
  /\ FrameAt(f, "spawned", "looking") \/ FrameAt(f, "spawned", "failing")
  /\ UNCHANGED <<sockVars, stalled, writeMu, errors, dropped, closeVars,
                 loopVars, uplink>>

\* Mutant: a connection that is closed is no error.
FrameLooksAway(f) ==
  /\ \/ ~entry /\ FrameAt(f, "looking", "failing")
     \/ entry /\ FrameAt(f, "looking", IF closed THEN "done" ELSE "locking")
  /\ UNCHANGED <<sockVars, stalled, writeMu, errors, dropped, closeVars,
                 loopVars, uplink>>

\* The entry, then its closed flag, then the opcode, which may be unknown.
FrameLooksUp(f) ==
  /\ \/ FrameAt(f, "looking", "failing")
     \/ entry /\ ~closed /\ FrameAt(f, "looking", "locking")
  /\ UNCHANGED <<sockVars, stalled, writeMu, errors, dropped, closeVars,
                 loopVars, uplink>>

\* Mutant: the write is not under writeMu.
LockNothing(w) == writeMu' = w

\* c.writeMu.Lock()
Lock(w) == writeMu = Free /\ writeMu' = w

FrameLocks(f) ==
  /\ FrameAt(f, "locking", "writing")
  /\ Lock(f)
  /\ UNCHANGED <<sockVars, stalled, errors, dropped, closeVars,
                 loopVars, uplink>>

CloseSent == \E i \in DOMAIN handed : handed[i] = CloseFrame

\* What the socket makes of a write.  A stalled one blocks it; one the peer
\* has left may still take it; after a close frame the library takes none.
CanTake ==
  /\ sock \in {"open", "dead"} /\ ~stalled
  /\ ~CloseSent
CanRefuse == sock \in {"dead", "closed"} \/ CloseSent

\* WriteMessage or WriteControl, without a deadline, and the Unlock after it.
FrameWritten(f) ==
  /\ FrameAt(f, "writing", "done")
  /\ CanTake
  /\ handed' = Append(handed, f)
  /\ writeMu' = Free
  /\ UNCHANGED <<entry, sock, closed, cancelled, stalled, errors, dropped,
                 closeVars, loopVars, uplink>>

\* Mutant: a write that fails returns without the Unlock.
FrameFailsLocked(f) ==
  /\ FrameAt(f, "writing", "failing")
  /\ CanRefuse
  /\ UNCHANGED <<sockVars, stalled, writeMu, errors, dropped, closeVars,
                 loopVars, uplink>>

FrameRefused(f) ==
  /\ FrameAt(f, "writing", "failing")
  /\ CanRefuse
  /\ writeMu' = Free
  /\ UNCHANGED <<sockVars, stalled, errors, dropped, closeVars,
                 loopVars, uplink>>

\* sendWSError: whether Send took it is logged only.
FrameError(f) ==
  /\ FrameAt(f, "failing", "done")
  /\ errors' = errors \cup {f}
  /\ UNCHANGED <<sockVars, stalled, writeMu, dropped, closeVars,
                 loopVars, uplink>>

-----------------------------------------------------------------------------
(* handleWSClose, closeConnection, and Stop with CloseAll.                 *)

AgentAt(a, from, to) ==
  agent[a] = from /\ agent' = [agent EXCEPT ![a] = to]

\* A ws_close is carried out during a shutdown, too.
CloseArrives ==
  /\ AgentAt(Closer, "idle", IF entry THEN "marking" ELSE "done")
  /\ UNCHANGED <<sockVars, stalled, writeMu, frameVars, stop,
                 loopVars, uplink>>

\* The closed flag, under closedMu.
Mark(a) ==
  /\ AgentAt(a, "marking", IF closed THEN "done" ELSE "cancelling")
  /\ closed' = TRUE
  /\ UNCHANGED <<entry, sock, cancelled, handed, stalled, writeMu, frameVars,
                 stop, loopVars, uplink>>

\* c.cancel()
Cancel(a) ==
  /\ AgentAt(a, "cancelling", "locking")
  /\ cancelled' = TRUE
  /\ UNCHANGED <<entry, sock, closed, handed, stalled, writeMu, frameVars,
                 stop, loopVars, uplink>>

AgentLocks(a) ==
  /\ AgentAt(a, "locking", "writing")
  /\ Lock(a)
  /\ UNCHANGED <<sockVars, stalled, frameVars, stop, loopVars,
                 uplink>>

\* The close frame is written or not; then the Unlock.
CloseWritten(a) ==
  /\ AgentAt(a, "writing", "shutting")
  /\ writeMu' = Free
  /\ \/ CanTake /\ handed' = Append(handed, CloseFrame)
     \/ CanRefuse /\ UNCHANGED handed
  /\ UNCHANGED <<entry, sock, closed, cancelled, stalled, frameVars, stop,
                 loopVars, uplink>>

\* c.conn.Close(), without writeMu, and the entry is deleted.
Shut(a) ==
  /\ AgentAt(a, "shutting", "done")
  /\ sock' = "closed" /\ entry' = FALSE
  /\ UNCHANGED <<closed, cancelled, handed, stalled, writeMu, frameVars, stop,
                 loopVars, uplink>>

StopAt(from, to) == stop = from /\ stop' = to

\* m.cancel()
StopBegins ==
  /\ StopAt("running", "collecting")
  /\ UNCHANGED <<sockVars, stalled, writeMu, frameVars, agent,
                 loopVars, uplink>>

\* The connection is in the snapshot of CloseAll, or not.
Collect ==
  /\ StopAt("collecting", "closing")
  /\ AgentAt(Stopper, "idle", IF entry THEN "marking" ELSE "done")
  /\ UNCHANGED <<sockVars, stalled, writeMu, frameVars,
                 loopVars, uplink>>

\* m.wg.Wait(), and Stop goes on to t.cancel().
CloseAllReturns ==
  /\ StopAt("closing", "stopped")
  /\ agent[Stopper] = "done" /\ loop = "done"
  /\ UNCHANGED <<sockVars, stalled, writeMu, frameVars, agent,
                 loopVars, uplink>>

-----------------------------------------------------------------------------
(* receiveLoop with its calls of OnFrame, OnClose and OnError.             *)

LoopAt(from, to) == loop = from /\ loop' = to

LoopTop ==
  /\ LoopAt("top", IF ConnDone THEN "leaving" ELSE "reading")
  /\ UNCHANGED <<sockVars, stalled, writeMu, frameVars, closeVars,
                 taken, uplink>>

\* The loop calls OnFrame itself: the next read waits for it.
LoopReads ==
  /\ sock # "closed" /\ taken < MaxBackend
  /\ LoopAt("reading", "top")
  /\ taken' = taken + 1
  /\ Send(taken')
  /\ UNCHANGED <<sockVars, stalled, writeMu, frameVars, closeVars>>

\* A read fails: the connection has ended, or the backend breaks the protocol on
\* an open one, and the library, which then says goodbye itself if it can write,
\* may refuse to from now on.  Nothing is said if the context is done by now.
LoopFails ==
  /\ LoopAt("reading", IF ConnDone THEN "leaving" ELSE "reporting")
  /\ sock' = IF sock = "open" /\ ~stalled THEN "dead" ELSE sock
  /\ UNCHANGED <<entry, closed, cancelled, handed, stalled, writeMu, frameVars,
                 closeVars, taken, uplink>>

\* Mutant: no return after the end was reported.
LoopReportsOn ==
  /\ LoopAt("reporting", "top")
  /\ Send(End)
  /\ UNCHANGED <<sockVars, stalled, writeMu, frameVars, closeVars, taken>>

\* OnClose or OnError.
LoopReports ==
  /\ LoopAt("reporting", "leaving")
  /\ Send(End)
  /\ UNCHANGED <<sockVars, stalled, writeMu, frameVars, closeVars, taken>>

LoopLeaves ==
  /\ LoopAt("leaving", "done")
  /\ entry' = FALSE
  /\ UNCHANGED <<sock, closed, cancelled, handed, stalled, writeMu, frameVars,
                 closeVars, taken, uplink>>

-----------------------------------------------------------------------------
(* The backend, and the connection to Plugboard.                           *)

BackendStalls ==
  /\ sock = "open" /\ ~stalled
  /\ stalled' = TRUE
  /\ UNCHANGED <<sockVars, writeMu, frameVars, closeVars, loopVars,
                 uplink>>

BackendDrains ==
  /\ stalled
  /\ stalled' = FALSE
  /\ UNCHANGED <<sockVars, writeMu, frameVars, closeVars, loopVars,
                 uplink>>

\* It closes the connection, or dies; a blocked write then fails.
BackendEnds ==
  /\ sock = "open"
  /\ sock' = "dead" /\ stalled' = FALSE
  /\ UNCHANGED <<entry, closed, cancelled, handed, writeMu, frameVars,
                 closeVars, loopVars, uplink>>

-----------------------------------------------------------------------------
Writing == \/ \E f \in Frames : FrameWritten(f) \/ FrameRefused(f)
           \/ \E a \in Agents : CloseWritten(a)
Relaying == \E f \in Frames : \/ FrameDropped(f) \/ FrameDecoded(f)
                             \/ FrameLooksUp(f) \/ FrameLocks(f) \/ FrameError(f)
Closing == \E a \in Agents : Mark(a) \/ Cancel(a) \/ AgentLocks(a) \/ Shut(a)
Stopping == Collect \/ CloseAllReturns
Receiving == LoopTop \/ (sock # "open" /\ LoopFails) \/ LoopReports \/ LoopLeaves
Environment == BackendStalls \/ BackendDrains \/ BackendEnds

\* Stop has returned from CloseAll, and every handler has ended.
Terminated ==
  /\ stop = "stopped"
  /\ UNCHANGED vars

Next ==
  \/ \E f \in Frames : FrameArrives(f)
  \/ CloseArrives \/ StopBegins
  \/ Relaying \/ Writing \/ Closing \/ Stopping
  \/ LoopReads \/ LoopFails \/ Receiving
  \/ Environment
  \/ Terminated

\* While some goroutine can go on, or take writeMu, one of them does; there are
\* finitely many steps for them to take.  The backend drains its connection
\* again and again, or ends it, so a write that blocks ends (SF).  It owes no
\* frames and no breach of the protocol, and Plugboard no requests.  Plugboard
\* drains, too: a client.Send, which has no deadline either, returns.
Fairness ==
  /\ WF_vars(Relaying \/ Closing \/ Stopping \/ Receiving)
  /\ SF_vars(Writing)
  /\ WF_vars(BackendDrains)

Spec == Init /\ [][Next]_vars
FairSpec == Spec /\ Fairness

-----------------------------------------------------------------------------
(* Properties.                                                             *)

\* Every variable has its type, and writeMu is held by who is writing: a
\* second writer at a time would make the library panic.
TypeOK ==
  /\ entry \in BOOLEAN /\ sock \in {"open", "dead", "closed"} /\ stalled \in BOOLEAN
  /\ closed \in BOOLEAN /\ cancelled \in BOOLEAN
  /\ handed \in Seq(Frames \cup {CloseFrame})
  /\ frame \in [Frames -> FrameStates] /\ agent \in [Agents -> AgentStates]
  /\ \A w \in Writers :
       writeMu = w <=> IF w \in Frames THEN frame[w] = "writing" ELSE agent[w] = "writing"
  /\ errors \subseteq Frames /\ dropped \subseteq Frames
  /\ stop \in {"running", "collecting", "closing", "stopped"}
  /\ loop \in {"top", "reading", "reporting", "leaving", "done"}
  /\ taken \in 0..MaxBackend
  /\ uplink \in Seq(1..End)

\* What Plugboard gets of the backend is in order, without doubles, and ends
\* with the report of the end, whatever is lost with the link in between.
Fifo == INSTANCE LossyFifo WITH
  sent <- taken,
  got <- uplink,
  over <- loop \in {"leaving", "done"}

FifoImplemented == Fifo!Spec

Count(f) == Cardinality({i \in DOMAIN handed : handed[i] = f})

\* However frames, ws_close and Stop overtake each other, a ws_frame that was
\* handled has been given to the backend once and before the close frame, or
\* client.Send was called with a ws_error for it, and not both; it is given up
\* in silence only where the handler means to, or where that Send fails.
FramesAreSettled ==
  /\ \A f \in Frames : frame[f] = "done" =>
       Count(f) = IF f \in errors \cup dropped THEN 0 ELSE 1
  /\ errors \cap dropped = {}
  /\ \A i \in DOMAIN handed : handed[i] = CloseFrame => i = Len(handed)

\* With a backend and a Plugboard that go on draining, every handler ends and
\* CloseAll returns: a write that blocks holds up the frames, the close frame and
\* CloseAll behind it, but not for ever.
RelayEnds ==
  /\ \A f \in Frames : frame[f] = "spawned" ~> frame[f] = "done"
  /\ stop = "collecting" ~> stop = "stopped"

=============================================================================
