--------------------------- MODULE BackendSockets ---------------------------
(***************************************************************************)
(* The backend WebSocket connections of the proxy: Manager.Connect, Close, *)
(* CloseAll, closeConnection and receiveLoop of pkg/websocket/manager.go,  *)
(* driven by handleWSConnect and handleWSClose of pkg/proxy/websocket.go.  *)
(*                                                                         *)
(* Every ws_connect and every ws_close is handled by a goroutine of its    *)
(* own, so they overlap.  The n-th ws_connect makes connection object n;   *)
(* the map of the manager is by connection id.  Close and CloseAll share   *)
(* closeConnection, which an agent (a ws_close handler, or the goroutine   *)
(* in Stop) takes through its steps.                                       *)
(*                                                                         *)
(* Nothing here has a deadline: a handshake, a close frame and a message   *)
(* to Plugboard take as long as the other side likes.                      *)
(***************************************************************************)
EXTENDS Naturals, FiniteSets

CONSTANTS
  Ids,        \* connection ids Plugboard uses
  Closers,    \* the ws_close requests
  Stopper,    \* the goroutine that runs Stop, and so CloseAll
  MaxConns,   \* bound: number of ws_connect requests
  NoId        \* the id of a request that has not come yet

ASSUME SocketAssumption ==
  /\ MaxConns \in Nat
  /\ Stopper \notin Closers
  /\ NoId \notin Ids

Conns == 1..MaxConns
Agents == Closers \cup {Stopper}
None == 0

VARIABLES
  connections,  \* m.connections: id -> object, None if absent
  id,           \* the id each object was made under
  handler,      \* where the goroutine of each ws_connect is
  reply,        \* what it answered Plugboard
  sock,         \* the proxy's end of each connection
  closed,       \* objects whose closed flag is set
  cancelled,    \* objects whose own cancel function was called
  mgrDone,      \* m.ctx was cancelled
  loop,         \* where each receiveLoop is
  ended,        \* objects whose end receiveLoop reported to Plugboard
  lastWords,    \* history: calls of the EventHandler a loop made that ended after
                \* its cancel
  agent,        \* where each agent is in closeConnection
  target,       \* the object the agent closes
  asked,        \* the ids whose ws_close has been carried out
  closeAll,     \* where CloseAll is
  toClose       \* the snapshot CloseAll works through

connectVars == <<id, handler, reply>>
loopVars == <<loop, ended, lastWords>>
agentVars == <<agent, target, asked>>
stopVars == <<closeAll, toClose, mgrDone>>
vars == <<connections, connectVars, sock, closed, cancelled, loopVars, agentVars, stopVars>>

HandlerStates == {"none", "looking", "dialing", "handshaking", "storing", "spawning",
                  "replying", "done"}
AgentStates == {"idle", "marking", "cancelling", "sending", "shutting", "deleting", "done"}
StopStates == {"idle", "collecting", "closing", "waiting", "parked", "woken", "done", "panicked"}

\* Where a receiveLoop is when it may still read a frame, and when it reads or
\* calls the EventHandler.
Reading == {"top", "reading", "forwarding"}
Talking == {"reading", "forwarding", "failed", "reporting"}
LoopStates == {"none", "leaving", "done"} \cup Reading \cup Talking

Init ==
  /\ connections = [i \in Ids |-> None]
  /\ id = [n \in Conns |-> NoId]
  /\ handler = [n \in Conns |-> "none"]
  /\ reply = [n \in Conns |-> "none"]
  /\ sock = [n \in Conns |-> "none"]
  /\ closed = {}
  /\ cancelled = {}
  /\ mgrDone = FALSE
  /\ loop = [n \in Conns |-> "none"]
  /\ ended = {}
  /\ lastWords = [n \in Conns |-> 0]
  /\ agent = [a \in Agents |-> "idle"]
  /\ target = [a \in Agents |-> None]
  /\ asked = {}
  /\ closeAll = "idle"
  /\ toClose = {}

\* c.ctx is a child of m.ctx.
CtxDone(n) == mgrDone \/ n \in cancelled

\* m.wg, between Add and Done.
Running(n) == loop[n] \in {"leaving"} \cup Reading \cup Talking

\* A panic of any goroutine ends the process.
Alive == closeAll # "panicked"

HandlerAt(n, from, to) ==
  handler[n] = from /\ handler' = [handler EXCEPT ![n] = to]

-----------------------------------------------------------------------------
(* handleWSConnect and Manager.Connect.                                    *)

\* A request is refused once Stop has cancelled t.ctx, right after CloseAll.
ConnectRequest(n) ==
  /\ closeAll # "done"
  /\ \A m \in 1..(n - 1) : handler[m] # "none"
  /\ HandlerAt(n, "none", "looking")
  /\ \E i \in Ids : id' = [id EXCEPT ![n] = i]
  /\ UNCHANGED <<connections, reply, sock, closed, cancelled, loopVars, agentVars, stopVars>>

\* sendWSError
ReplyError(n, from) ==
  /\ HandlerAt(n, from, "done")
  /\ reply' = [reply EXCEPT ![n] = "error"]
  /\ UNCHANGED <<connections, id, sock, closed, cancelled, loopVars, agentVars, stopVars>>

\* The id is taken: ws_error.  The lock is given up before the dial.
LookupId(n) ==
  /\ handler[n] = "looking"
  /\ \/ /\ connections[id[n]] # None
        /\ ReplyError(n, "looking")
     \/ /\ connections[id[n]] = None
        /\ HandlerAt(n, "looking", "dialing")
        /\ UNCHANGED <<connections, id, reply, sock, closed, cancelled,
                       loopVars, agentVars, stopVars>>

\* DialContext(m.ctx) reaches the backend: the name, the transport and TLS.
\* Up to here the dial ends with m.ctx.
Reach(n) ==
  /\ ~mgrDone
  /\ HandlerAt(n, "dialing", "handshaking")
  /\ UNCHANGED <<connections, id, reply, sock, closed, cancelled, loopVars, agentVars, stopVars>>

\* The backend answers the handshake.  The dialer waits for it without a look
\* at m.ctx, and has no HandshakeTimeout.
DialOk(n) ==
  /\ HandlerAt(n, "handshaking", "storing")
  /\ sock' = [sock EXCEPT ![n] = "open"]
  /\ UNCHANGED <<connections, id, reply, closed, cancelled, loopVars, agentVars, stopVars>>

\* Mutant: the dial is not bound to m.ctx, so only the backend can end it.
DialIgnoresContext(n) == ~mgrDone /\ ReplyError(n, "dialing")

DialFails(n) == ReplyError(n, "dialing")

\* The backend refuses the handshake, or its connection breaks.
HandshakeFails(n) == ReplyError(n, "handshaking")

\* Overwrites the entry of another object that got there first.
Store(n) ==
  /\ HandlerAt(n, "storing", "spawning")
  /\ connections' = [connections EXCEPT ![id[n]] = n]
  /\ UNCHANGED <<id, reply, sock, closed, cancelled, loopVars, agentVars, stopVars>>

\* wg.Add(1); go receiveLoop
Spawn(n) ==
  /\ HandlerAt(n, "spawning", "replying")
  /\ loop' = [loop EXCEPT ![n] = "top"]
  /\ UNCHANGED <<connections, id, reply, sock, closed, cancelled, ended, lastWords,
                 agentVars, stopVars>>

ReplyConnected(n) ==
  /\ HandlerAt(n, "replying", "done")
  /\ reply' = [reply EXCEPT ![n] = "connected"]
  /\ UNCHANGED <<connections, id, sock, closed, cancelled, loopVars, agentVars, stopVars>>

-----------------------------------------------------------------------------
(* receiveLoop.                                                            *)

LoopAt(n, from, to) ==
  /\ loop[n] = from /\ loop' = [loop EXCEPT ![n] = to]
  /\ UNCHANGED <<connections, connectVars, sock, closed, cancelled, agentVars, stopVars>>

\* A call of the EventHandler has ended.
Spoken(n) ==
  lastWords' = IF CtxDone(n) THEN [lastWords EXCEPT ![n] = @ + 1] ELSE lastWords

\* Mutant: the loop does not look at its context.
LoopReadsOn(n) ==
  /\ LoopAt(n, "top", "reading")
  /\ UNCHANGED <<ended, lastWords>>

LoopTop(n) ==
  /\ LoopAt(n, "top", IF CtxDone(n) THEN "leaving" ELSE "reading")
  /\ UNCHANGED <<ended, lastWords>>

\* A frame is read.
LoopFrame(n) ==
  /\ sock[n] = "open"
  /\ LoopAt(n, "reading", "forwarding")
  /\ UNCHANGED <<ended, lastWords>>

\* OnFrame has sent it to Plugboard, or not.
LoopForwarded(n) ==
  /\ LoopAt(n, "forwarding", "top")
  /\ Spoken(n)
  /\ UNCHANGED ended

\* ReadMessage fails: the proxy or the backend has ended the connection, or what
\* came is a close frame or no frame at all.  The socket may still be open.
LoopFails(n) ==
  /\ LoopAt(n, "reading", "failed")
  /\ UNCHANGED <<ended, lastWords>>

\* The second look at the context.
LoopError(n) ==
  /\ LoopAt(n, "failed", IF CtxDone(n) THEN "leaving" ELSE "reporting")
  /\ UNCHANGED <<ended, lastWords>>

\* OnClose or OnError has sent the end to Plugboard, or not.
LoopReported(n) ==
  /\ LoopAt(n, "reporting", "leaving")
  /\ ended' = ended \cup {n}
  /\ Spoken(n)

\* The last Done releases a Wait.
Release(n) ==
  closeAll' = IF closeAll = "parked" /\ \A m \in Conns \ {n} : ~Running(m)
              THEN "woken" ELSE closeAll

\* Mutant: the deferred delete is missing.
LoopLeaveKeepsEntry(n) ==
  /\ loop[n] = "leaving"
  /\ loop' = [loop EXCEPT ![n] = "done"]
  /\ lastWords' = [lastWords EXCEPT ![n] = 0]
  /\ Release(n)
  /\ UNCHANGED <<connections, connectVars, sock, closed, cancelled, ended,
                 agentVars, toClose, mgrDone>>

\* delete(m.connections, c.id), whichever object the entry holds by now, and
\* wg.Done.  The socket is not closed and the context not cancelled.
LoopLeave(n) ==
  /\ loop[n] = "leaving"
  /\ loop' = [loop EXCEPT ![n] = "done"]
  /\ connections' = [connections EXCEPT ![id[n]] = None]
  /\ lastWords' = [lastWords EXCEPT ![n] = 0]
  /\ Release(n)
  /\ UNCHANGED <<connectVars, sock, closed, cancelled, ended, agentVars, toClose, mgrDone>>

-----------------------------------------------------------------------------
(* handleWSClose, Manager.Close and closeConnection.                       *)

\* Plugboard closes an id it has asked to connect.  An id that is not in the
\* map is left alone: "Already closed or never existed".
CloseRequest(a) ==
  /\ a \in Closers /\ agent[a] = "idle"
  /\ \E i \in {id[n] : n \in Conns} \ {NoId} :
       IF connections[i] = None
       THEN /\ agent' = [agent EXCEPT ![a] = "done"]
            /\ asked' = asked \cup {i}
            /\ UNCHANGED target
       ELSE /\ agent' = [agent EXCEPT ![a] = "marking"]
            /\ target' = [target EXCEPT ![a] = connections[i]]
            /\ UNCHANGED asked
  /\ UNCHANGED <<connections, connectVars, sock, closed, cancelled, loopVars, stopVars>>

\* A ws_close handler ends; the Stopper is ready for its next connection.
Finish(a) ==
  /\ agent' = [agent EXCEPT ![a] = IF a = Stopper THEN "idle" ELSE "done"]
  /\ target' = [target EXCEPT ![a] = None]
  /\ asked' = IF a = Stopper THEN asked ELSE asked \cup {id[target[a]]}

\* Mutant: the closed flag is not set.
MarkForgets(a) ==
  /\ agent[a] = "marking"
  /\ \/ /\ target[a] \in closed
        /\ Finish(a)
     \/ /\ target[a] \notin closed
        /\ agent' = [agent EXCEPT ![a] = "cancelling"]
        /\ UNCHANGED <<target, asked>>
  /\ UNCHANGED <<connections, connectVars, sock, closed, cancelled, loopVars, stopVars>>

\* The closed flag makes sure that one agent only goes on.
Mark(a) ==
  /\ agent[a] = "marking"
  /\ \/ /\ target[a] \in closed
        /\ Finish(a)
        /\ UNCHANGED closed
     \/ /\ target[a] \notin closed
        /\ closed' = closed \cup {target[a]}
        /\ agent' = [agent EXCEPT ![a] = "cancelling"]
        /\ UNCHANGED <<target, asked>>
  /\ UNCHANGED <<connections, connectVars, sock, cancelled, loopVars, stopVars>>

Cancel(a) ==
  /\ agent[a] = "cancelling"
  /\ cancelled' = cancelled \cup {target[a]}
  /\ agent' = [agent EXCEPT ![a] = "sending"]
  /\ UNCHANGED <<connections, connectVars, sock, closed, loopVars, target, asked, stopVars>>

\* The close frame is written, with writeMu and no deadline, or fails.
SendClose(a) ==
  /\ agent[a] = "sending"
  /\ agent' = [agent EXCEPT ![a] = "shutting"]
  /\ UNCHANGED <<connections, connectVars, sock, closed, cancelled, loopVars,
                 target, asked, stopVars>>

\* Mutant: the close frame was sent, but the socket stays open.
ShutSendsOnly(a) ==
  /\ agent[a] = "shutting"
  /\ agent' = [agent EXCEPT ![a] = "deleting"]
  /\ UNCHANGED <<connections, connectVars, sock, closed, cancelled, loopVars,
                 target, asked, stopVars>>

\* c.conn.Close()
Shut(a) ==
  /\ agent[a] = "shutting"
  /\ sock' = [sock EXCEPT ![target[a]] = "closed"]
  /\ agent' = [agent EXCEPT ![a] = "deleting"]
  /\ UNCHANGED <<connections, connectVars, closed, cancelled, loopVars,
                 target, asked, stopVars>>

Delete(a) ==
  /\ agent[a] = "deleting"
  /\ connections' = [connections EXCEPT ![id[target[a]]] = None]
  /\ Finish(a)
  /\ UNCHANGED <<connectVars, sock, closed, cancelled, loopVars, stopVars>>

-----------------------------------------------------------------------------
(* CloseAll.                                                               *)

CloseAllCancel ==
  /\ closeAll = "idle"
  /\ mgrDone' = TRUE
  /\ closeAll' = "collecting"
  /\ UNCHANGED <<connections, connectVars, sock, closed, cancelled, loopVars,
                 agentVars, toClose>>

CloseAllCollect ==
  /\ closeAll = "collecting"
  /\ toClose' = {connections[i] : i \in Ids} \ {None}
  /\ closeAll' = "closing"
  /\ UNCHANGED <<connections, connectVars, sock, closed, cancelled, loopVars,
                 agentVars, mgrDone>>

CloseAllNext ==
  /\ closeAll = "closing" /\ agent[Stopper] = "idle"
  /\ \/ \E n \in toClose :
          /\ toClose' = toClose \ {n}
          /\ target' = [target EXCEPT ![Stopper] = n]
          /\ agent' = [agent EXCEPT ![Stopper] = "marking"]
          /\ UNCHANGED closeAll
     \/ /\ toClose = {}
        /\ closeAll' = "waiting"
        /\ UNCHANGED <<toClose, target, agent>>
  /\ UNCHANGED <<connections, connectVars, sock, closed, cancelled, loopVars, asked, mgrDone>>

NoneRuns == \A n \in Conns : ~Running(n)

WaitAt(from, to) ==
  /\ closeAll = from /\ closeAll' = to
  /\ UNCHANGED <<connections, connectVars, sock, closed, cancelled, loopVars,
                 agentVars, toClose, mgrDone>>

\* m.wg.Wait() returns at once, or waits for the last Done.
CloseAllWait == WaitAt("waiting", IF NoneRuns THEN "done" ELSE "parked")

\* Released, it looks once more, as the one of activeRequests does: the Add of a
\* Connect in between is a panic, "WaitGroup is reused before previous Wait has
\* returned".
CloseAllWakes == WaitAt("woken", IF NoneRuns THEN "done" ELSE "panicked")

-----------------------------------------------------------------------------
Connecting(n) == \/ ConnectRequest(n) \/ LookupId(n) \/ Reach(n) \/ DialOk(n) \/ DialFails(n)
                 \/ HandshakeFails(n) \/ Store(n) \/ Spawn(n) \/ ReplyConnected(n)
Receiving(n) == \/ LoopTop(n) \/ LoopFrame(n) \/ LoopForwarded(n) \/ LoopFails(n)
                \/ LoopError(n) \/ LoopReported(n) \/ LoopLeave(n)
Closing(a) == CloseRequest(a) \/ Mark(a) \/ Cancel(a) \/ SendClose(a) \/ Shut(a) \/ Delete(a)
StopAll == \/ CloseAllCancel \/ CloseAllCollect \/ CloseAllNext
           \/ CloseAllWait \/ CloseAllWakes

\* Stop has returned from CloseAll and every goroutine has ended, or the
\* process has.
Terminated ==
  /\ closeAll \in {"done", "panicked"}
  /\ UNCHANGED vars

Next ==
  \/ \E n \in Conns : Alive /\ (Connecting(n) \/ Receiving(n))
  \/ \E a \in Agents : Alive /\ Closing(a)
  \/ StopAll
  \/ Terminated

\* What happens by itself.  A dial that has not reached the backend is ended by
\* the cancelled m.ctx, and a read by the socket that is closed under it.
Progress ==
  \/ \E n \in Conns :
       \/ LookupId(n) \/ Store(n) \/ Spawn(n) \/ (mgrDone /\ DialFails(n))
       \/ LoopTop(n) \/ LoopError(n) \/ LoopLeave(n)
       \/ (sock[n] = "closed" /\ LoopFails(n))
  \/ \E a \in Agents :
       \/ Mark(a) \/ Cancel(a) \/ Shut(a) \/ Delete(a)
  \/ CloseAllCollect \/ CloseAllNext \/ CloseAllWait \/ CloseAllWakes

\* While some goroutine can go on, one of them does; once CloseAll has begun,
\* finitely many steps are left for them to take.  The backend owes neither a
\* handshake nor a frame nor a close, and nobody has to drain what is written:
\* what waits for that is in the properties.
Fairness == WF_vars(Alive /\ Progress)

Spec == Init /\ [][Next]_vars
FairSpec == Spec /\ Fairness

-----------------------------------------------------------------------------
(* Properties.                                                             *)

\* No other ws_connect carries the same id, as the handler's check intends.
OwnId(n) == \A m \in Conns \ {n} : id[m] # id[n]

IdsAreApart == \A n \in Conns : id[n] # NoId => OwnId(n)

\* Every variable has its type, and an object is cancelled by closeConnection
\* only after its closed flag was set, so the flag refuses every later frame.
TypeOK ==
  /\ connections \in [Ids -> 0..MaxConns]
  /\ id \in [Conns -> Ids \cup {NoId}]
  /\ handler \in [Conns -> HandlerStates]
  /\ reply \in [Conns -> {"none", "connected", "error"}]
  /\ sock \in [Conns -> {"none", "open", "closed"}]
  /\ closed \subseteq Conns /\ cancelled \subseteq closed /\ ended \subseteq Conns
  /\ mgrDone \in BOOLEAN
  /\ loop \in [Conns -> LoopStates]
  /\ agent \in [Agents -> AgentStates]
  /\ target \in [Agents -> 0..MaxConns]
  /\ asked \subseteq Ids
  /\ closeAll \in StopStates
  /\ toClose \subseteq Conns
  /\ lastWords \in [Conns -> Nat]

\* A receiveLoop that may still read can be reached: the map leads to its
\* connection, or an agent has cancelled and closed it.  Otherwise neither
\* ws_close nor CloseAll could ever end it.
Reachable(n) == connections[id[n]] = n \/ (n \in cancelled /\ sock[n] = "closed")

\* The map and the goroutines agree.  For every id used once, a loop that may
\* still read is reachable.  For every id an entry leads to a connection that is
\* served, so a frame goes to one that is, or to none.  And a loop that is gone
\* has told Plugboard, or was cancelled: no connection ends in silence.
MapMatchesLoops ==
  /\ \A n \in Conns : OwnId(n) /\ loop[n] \in Reading => Reachable(n)
  /\ \A i \in Ids :
       LET n == connections[i] IN
       n # None => id[n] = i /\ loop[n] # "done"
  /\ \A n \in Conns : loop[n] = "done" => n \in ended \/ CtxDone(n)

\* After its cancel Plugboard gets one more message of a connection at most: the
\* frame, or the end, that the loop was about to read or to report.  And once
\* CloseAll has returned it gets none, not even of a ws_connect that got
\* through: the EventHandler, which Stop takes apart next, is called no more.
CancelSilences ==
  /\ \A n \in Conns : lastWords[n] <= 1
  /\ closeAll = "done" => \A n \in Conns : loop[n] \notin Talking

\* What is written goes out or fails in the end: the close frames, for which the
\* backends, and the messages, for which Plugboard has to drain its connection.
PeersDrain ==
  /\ \A a \in Agents : []<>(agent[a] # "sending")
  /\ \A n \in Conns : []<>(loop[n] \notin {"forwarding", "reporting"})

\* CloseAll comes to an end, however the steps of ws_connect and ws_close lie and
\* however silent the backends are, for peers that drain; unless a Connect that
\* got through the dial makes Wait panic, or two requests share an id.  In that
\* case one may have removed the only way to the receiveLoop of the other, which
\* keeps CloseAll waiting for as long as its backend says nothing.
CloseAllReturns ==
  PeersDrain =>
    ((closeAll = "collecting") ~> (closeAll = "done" \/ ~Alive \/ ~IdsAreApart))

\* Once CloseAll has begun, no ws_connect goes on looking for its backend, not
\* even one that only then gets to its dial.  What stays is one that has reached
\* a backend and waits for the answer to its handshake.
StopReleasesDials == mgrDone ~> (~Alive \/ \A n \in Conns : handler[n] # "dialing")

\* That one too, as it is with CheckSupport, which sets a timeout.
StopEndsHandshakes == mgrDone ~> (~Alive \/ \A n \in Conns : handler[n] # "handshaking")

\* manager.go:252 has "Wait for all receiver goroutines to exit": the wait comes
\* to its end without a panic.
WaitReturns == Alive

\* manager_test.go:195 expects an error for a duplicate connection id: two
\* connections with one id are never established together.
OneConnectionPerId ==
  \A m, n \in Conns :
    m # n /\ Running(m) /\ Running(n) /\ ~CtxDone(m) /\ ~CtxDone(n) => id[m] # id[n]

\* manager.go:303 has the deferred function of receiveLoop "Ensure connection
\* is cleaned up": the socket of a finished loop has been closed, or an agent is
\* about to close it.
FinishedIsClosed ==
  \A n \in Conns : loop[n] = "done" /\ ~mgrDone =>
    \/ sock[n] = "closed"
    \/ \E a \in Agents : target[a] = n /\ agent[a] \in {"cancelling", "sending", "shutting"}

\* manager.go:224 takes an id that is not in the map for "Already closed or
\* never existed": once a ws_close has been carried out, no connection with
\* the id gets established.
CloseIsFinal ==
  \A n \in Conns : id[n] \in asked => ~(Running(n) /\ ~CtxDone(n) /\ sock[n] = "open")

\* manager.go:230: "CloseAll closes all backend WebSocket connections."
\* When it is over and the requests in progress are answered, none is open.
CloseAllClosesAll ==
  closeAll = "done" /\ (\A n \in Conns : handler[n] \in {"none", "done"} /\ ~Running(n))
    => \A n \in Conns : sock[n] # "open"
=============================================================================
