--------------------------- MODULE ChannelsClient ---------------------------
(***************************************************************************)
(* The connection lifecycle of the Phoenix Channels client,                *)
(* pkg/channels/client.go: Connect, Disconnect, Close, Send, the readLoop  *)
(* goroutine of every connection and the goroutine readLoop starts to      *)
(* watch its context.                                                      *)
(*                                                                         *)
(* The n-th successful dial creates socket n, read context n, reader n and *)
(* watcher n.  A critical section of connLock that does not block is one   *)
(* action, enabled when the lock is free; Connect holds the lock for the   *)
(* length of a dial and Send for the length of a write.                    *)
(***************************************************************************)
EXTENDS Naturals

CONSTANTS
  MaxConns,      \* bound: number of dials that may succeed
  PeerMayStall   \* may the peer stop draining the socket, so writes block?

ASSUME ConstantsAssumption ==
  /\ MaxConns \in Nat \ {0}
  /\ PeerMayStall \in BOOLEAN

Gens == 1..MaxConns

VARIABLES
  conn,       \* c.conn: the socket in use, 0 is nil
  sock,       \* state of each socket
  connected,  \* c.connected
  readCtx,    \* c.readCtx: the newest read context, 0 is nil
  cancelled,  \* the read contexts whose cancel function was called
  ctxDone,    \* c.ctx was cancelled
  connLock,   \* who holds c.connLock across a blocking call
  op,         \* what the one goroutine that opens and closes is doing
  rl,         \* program counter of each readLoop
  rlConn,     \* readLoop's local variable conn
  watch,      \* program counter of each context watcher
  watchCtx    \* the read context the watcher selects on

readerVars == <<rl, rlConn>>
watchVars == <<watch, watchCtx>>
ctxVars == <<readCtx, cancelled, ctxDone>>
vars == <<conn, sock, connected, ctxVars, connLock, op, readerVars, watchVars>>

SockStates == {"none", "open", "stalled", "dead", "closed"}
OpStates == {"idle", "dialing", "disconnecting",
             "closing", "cancelling", "draining", "closed"}
ReaderStates == {"none", "top", "reading", "awaitWatch", "cleanup", "flag", "done"}
WatcherStates == {"none", "start", "waiting", "closing", "done"}

Init ==
  /\ conn = 0
  /\ sock = [n \in Gens |-> "none"]
  /\ connected = FALSE
  /\ readCtx = 0
  /\ cancelled = {}
  /\ ctxDone = FALSE
  /\ connLock = "free"
  /\ op = "idle"
  /\ rl = [g \in Gens |-> "none"]
  /\ rlConn = [g \in Gens |-> 0]
  /\ watch = [g \in Gens |-> "none"]
  /\ watchCtx = [g \in Gens |-> 0]

-----------------------------------------------------------------------------
(* Helpers.                                                                *)

\* if c.conn != nil { c.conn.Close() }
CloseConn == sock' = [n \in Gens |-> IF n = conn THEN "closed" ELSE sock[n]]

\* if c.readCancel != nil { c.readCancel() }
CancelRead == cancelled' = cancelled \cup ({readCtx} \ {0})

-----------------------------------------------------------------------------
(* Connect.  Its callers (Start, attemptConnection) run in one goroutine   *)
(* and call it only when IsConnected is false or Disconnect has returned.  *)

\* Mutant: the stale connection is dropped without being closed.
ConnectBeginLeaks ==
  /\ op = "idle" /\ ~connected /\ connLock = "free"
  /\ conn' = 0
  /\ CancelRead
  /\ connLock' = "caller"
  /\ op' = "dialing"
  /\ UNCHANGED <<sock, connected, readCtx, ctxDone, readerVars, watchVars>>

ConnectBegin ==
  /\ op = "idle" /\ ~connected /\ connLock = "free"
  /\ CloseConn
  /\ conn' = 0
  /\ CancelRead
  /\ connLock' = "caller"
  /\ op' = "dialing"
  /\ UNCHANGED <<connected, readCtx, ctxDone, readerVars, watchVars>>

\* Mutant: no new read context is made for the new connection.
DialOkKeepsContext ==
  LET n == readCtx + 1 IN
  /\ op = "dialing" /\ n \in Gens
  /\ conn' = n
  /\ sock' = [sock EXCEPT ![n] = "open"]
  /\ connected' = TRUE
  /\ rl' = [rl EXCEPT ![n] = "top"]
  /\ watch' = [watch EXCEPT ![n] = "start"]
  /\ connLock' = "free"
  /\ op' = "idle"
  /\ UNCHANGED <<ctxVars, rlConn, watchCtx>>

\* The dial succeeds; reader and watcher of the new generation are started.
DialOk ==
  LET n == readCtx + 1 IN
  /\ op = "dialing" /\ n \in Gens
  /\ conn' = n
  /\ sock' = [sock EXCEPT ![n] = "open"]
  /\ connected' = TRUE
  /\ readCtx' = n
  /\ rl' = [rl EXCEPT ![n] = "top"]
  /\ watch' = [watch EXCEPT ![n] = "start"]
  /\ connLock' = "free"
  /\ op' = "idle"
  /\ UNCHANGED <<cancelled, ctxDone, rlConn, watchCtx>>

\* buildWSURL or the dial fails, at the latest after HandshakeTimeout.
DialFail ==
  /\ op = "dialing"
  /\ connLock' = "free"
  /\ op' = "idle"
  /\ UNCHANGED <<conn, sock, connected, ctxVars, readerVars, watchVars>>

-----------------------------------------------------------------------------
(* Disconnect, and Close, which begins with it.                            *)

\* The read context is cancelled before the lock is taken.
DisconnectBegin ==
  /\ op = "idle"
  /\ op' \in {"disconnecting", "closing"}
  /\ CancelRead
  /\ UNCHANGED <<conn, sock, connected, readCtx, ctxDone, connLock,
                 readerVars, watchVars>>

\* Mutant: the connection is forgotten but not closed.
DisconnectForgets ==
  /\ op \in {"disconnecting", "closing"} /\ connLock = "free"
  /\ conn' = 0
  /\ connected' = FALSE
  /\ op' = IF op = "closing" THEN "cancelling" ELSE "idle"
  /\ UNCHANGED <<sock, ctxVars, connLock, readerVars, watchVars>>

DisconnectLocked ==
  /\ op \in {"disconnecting", "closing"} /\ connLock = "free"
  /\ CloseConn
  /\ conn' = 0
  /\ connected' = FALSE
  /\ op' = IF op = "closing" THEN "cancelling" ELSE "idle"
  /\ UNCHANGED <<ctxVars, connLock, readerVars, watchVars>>

CloseCancel ==
  /\ op = "cancelling"
  /\ ctxDone' = TRUE
  /\ op' = "draining"
  /\ UNCHANGED <<conn, sock, connected, readCtx, cancelled, connLock,
                 readerVars, watchVars>>

\* Mutant: Close does not wait for the readers.
CloseHurries ==
  /\ op = "draining"
  /\ op' = "closed"
  /\ UNCHANGED <<conn, sock, connected, ctxVars, connLock, readerVars, watchVars>>

\* c.wg.Wait()
CloseWait ==
  /\ op = "draining"
  /\ \A g \in Gens : rl[g] \in {"none", "done"}
  /\ op' = "closed"
  /\ UNCHANGED <<conn, sock, connected, ctxVars, connLock, readerVars, watchVars>>

-----------------------------------------------------------------------------
(* Send, from any goroutine.  A write that does not block changes nothing  *)
(* here; one that blocks keeps connLock until the peer drains or drops.    *)

SendBlocks ==
  /\ connLock = "free"
  /\ conn # 0 /\ sock[conn] = "stalled"
  /\ connLock' = "sender"
  /\ UNCHANGED <<conn, sock, connected, ctxVars, op, readerVars, watchVars>>

SendReturns ==
  /\ connLock = "sender"
  /\ sock[conn] # "stalled"
  /\ connLock' = "free"
  /\ UNCHANGED <<conn, sock, connected, ctxVars, op, readerVars, watchVars>>

-----------------------------------------------------------------------------
(* readLoop.                                                               *)

\* The local conn is a fresh copy of c.conn on every round.
ReaderTop(g) ==
  /\ rl[g] = "top" /\ connLock = "free"
  /\ \/ /\ conn = 0
        /\ rl' = [rl EXCEPT ![g] = "awaitWatch"]
        /\ UNCHANGED rlConn
     \/ /\ conn # 0
        /\ rl' = [rl EXCEPT ![g] = "reading"]
        /\ rlConn' = [rlConn EXCEPT ![g] = conn]
  /\ UNCHANGED <<conn, sock, connected, ctxVars, connLock, op, watchVars>>

\* ReadMessage returns a message, which is parsed and handled or dropped.
ReaderMessage(g) ==
  /\ rl[g] = "reading" /\ sock[rlConn[g]] = "open"
  /\ rl' = [rl EXCEPT ![g] = "top"]
  /\ UNCHANGED <<conn, sock, connected, ctxVars, connLock, op, rlConn, watchVars>>

\* Mutant: the loop goes on after a read error.
ReaderErrorContinues(g) ==
  /\ rl[g] = "reading"
  /\ rl' = [rl EXCEPT ![g] = "top"]
  /\ UNCHANGED <<conn, sock, connected, ctxVars, connLock, op, rlConn, watchVars>>

\* ReadMessage fails; whatever the reason, be it that the peer breaks the
\* protocol on an open socket, the loop returns.
ReaderError(g) ==
  /\ rl[g] = "reading"
  /\ rl' = [rl EXCEPT ![g] = "awaitWatch"]
  /\ UNCHANGED <<conn, sock, connected, ctxVars, connLock, op, rlConn, watchVars>>

\* contextWg.Wait()
ReaderAwait(g) ==
  /\ rl[g] = "awaitWatch" /\ watch[g] = "done"
  /\ rl' = [rl EXCEPT ![g] = "cleanup"]
  /\ UNCHANGED <<conn, sock, connected, ctxVars, connLock, op, rlConn, watchVars>>

\* Mutant: the cleanup clears c.conn without closing the socket.
ReaderCleanupLeaks(g) ==
  /\ rl[g] = "cleanup" /\ connLock = "free"
  /\ conn' = 0
  /\ rl' = [rl EXCEPT ![g] = "flag"]
  /\ UNCHANGED <<sock, connected, ctxVars, connLock, op, rlConn, watchVars>>

\* The deferred cleanup acts on c.conn, whichever socket that is by now.
ReaderCleanup(g) ==
  /\ rl[g] = "cleanup" /\ connLock = "free"
  /\ CloseConn
  /\ conn' = 0
  /\ rl' = [rl EXCEPT ![g] = "flag"]
  /\ UNCHANGED <<connected, ctxVars, connLock, op, rlConn, watchVars>>

\* connected.Store(false) comes after the unlock; wg.Done follows.
ReaderFlag(g) ==
  /\ rl[g] = "flag"
  /\ connected' = FALSE
  /\ rl' = [rl EXCEPT ![g] = "done"]
  /\ UNCHANGED <<conn, sock, ctxVars, connLock, op, rlConn, watchVars>>

-----------------------------------------------------------------------------
(* The goroutine that watches the contexts for readLoop.                   *)

\* The select evaluates c.readCtx when the goroutine gets to run.
WatcherStart(g) ==
  /\ watch[g] = "start"
  /\ watch' = [watch EXCEPT ![g] = "waiting"]
  /\ watchCtx' = [watchCtx EXCEPT ![g] = readCtx]
  /\ UNCHANGED <<conn, sock, connected, ctxVars, connLock, op, readerVars>>

WatcherCancelled(g) ==
  /\ watch[g] = "waiting"
  /\ watchCtx[g] \in cancelled \/ ctxDone
  /\ watch' = [watch EXCEPT ![g] = "closing"]
  /\ UNCHANGED <<conn, sock, connected, ctxVars, connLock, op, readerVars, watchCtx>>

\* contextDone was closed by the reader on its way out.
WatcherReleased(g) ==
  /\ watch[g] = "waiting" /\ rl[g] = "awaitWatch"
  /\ watch' = [watch EXCEPT ![g] = "done"]
  /\ UNCHANGED <<conn, sock, connected, ctxVars, connLock, op, readerVars, watchCtx>>

\* Closes c.conn without clearing it.
WatcherClose(g) ==
  /\ watch[g] = "closing" /\ connLock = "free"
  /\ CloseConn
  /\ watch' = [watch EXCEPT ![g] = "done"]
  /\ UNCHANGED <<conn, connected, ctxVars, connLock, op, readerVars, watchCtx>>

-----------------------------------------------------------------------------
(* The peer and the network.                                               *)

PeerDrops ==
  /\ \E n \in Gens : /\ sock[n] \in {"open", "stalled"}
                     /\ sock' = [sock EXCEPT ![n] = "dead"]
  /\ UNCHANGED <<conn, connected, ctxVars, connLock, op, readerVars, watchVars>>

PeerStalls ==
  /\ PeerMayStall
  /\ \E n \in Gens : /\ sock[n] = "open"
                     /\ sock' = [sock EXCEPT ![n] = "stalled"]
  /\ UNCHANGED <<conn, connected, ctxVars, connLock, op, readerVars, watchVars>>

PeerDrains ==
  /\ \E n \in Gens : /\ sock[n] = "stalled"
                     /\ sock' = [sock EXCEPT ![n] = "open"]
  /\ UNCHANGED <<conn, connected, ctxVars, connLock, op, readerVars, watchVars>>

-----------------------------------------------------------------------------
Terminated == op = "closed" /\ UNCHANGED vars

Reader(g) == \/ ReaderTop(g) \/ ReaderMessage(g) \/ ReaderError(g)
             \/ ReaderAwait(g) \/ ReaderCleanup(g) \/ ReaderFlag(g)

Watcher(g) == \/ WatcherStart(g) \/ WatcherCancelled(g)
              \/ WatcherReleased(g) \/ WatcherClose(g)

Next ==
  \/ ConnectBegin \/ DialOk \/ DialFail
  \/ DisconnectBegin \/ DisconnectLocked \/ CloseCancel \/ CloseWait
  \/ SendBlocks \/ SendReturns
  \/ PeerDrops \/ PeerStalls \/ PeerDrains
  \/ \E g \in Gens : Reader(g) \/ Watcher(g)
  \/ Terminated

\* Goroutines that can run do run, a dial ends within HandshakeTimeout, and
\* a waiter for connLock is not overtaken for ever (Go mutexes hand over to
\* a starved waiter).  The peer owes nothing, and nobody has to call Connect,
\* Disconnect or Send.
Fairness ==
  /\ WF_vars(DialOk \/ DialFail)
  /\ SF_vars(DisconnectLocked)
  /\ WF_vars(CloseCancel)
  /\ WF_vars(CloseWait)
  /\ WF_vars(SendReturns)
  /\ \A g \in Gens :
       /\ SF_vars(ReaderTop(g) \/ ReaderCleanup(g))
       /\ WF_vars(ReaderError(g) /\ sock[rlConn[g]] \in {"dead", "closed"})
       /\ WF_vars(ReaderAwait(g) \/ ReaderFlag(g))
       /\ WF_vars(WatcherStart(g) \/ WatcherCancelled(g) \/ WatcherReleased(g))
       /\ SF_vars(WatcherClose(g))

Spec == Init /\ [][Next]_vars
FairSpec == Spec /\ Fairness

\* A peer that may be slow but drains what it is sent in the end, so that a
\* write which stalls again and again gets through at last.
DrainedSpec == FairSpec /\ WF_vars(PeerDrains) /\ SF_vars(SendReturns)

-----------------------------------------------------------------------------
(* Properties.                                                             *)

\* Every variable has its type, and c.conn is never a socket that was not
\* created: at most readCtx dials have succeeded.
TypeOK ==
  /\ readCtx \in 0..MaxConns
  /\ conn \in 0..readCtx
  /\ sock \in [Gens -> SockStates]
  /\ connected \in BOOLEAN
  /\ cancelled \subseteq Gens
  /\ ctxDone \in BOOLEAN
  /\ connLock \in {"free", "caller", "sender"}
  /\ op \in OpStates
  /\ rl \in [Gens -> ReaderStates]
  /\ rlConn \in [Gens -> 0..MaxConns]
  /\ watch \in [Gens -> WatcherStates]
  /\ watchCtx \in [Gens -> 0..MaxConns]

\* While IsConnected answers true, the reader of the newest connection has
\* not finished: somebody is left who will report the loss of the connection.
ConnectedIsWatched ==
  connected => readCtx # 0 /\ rl[readCtx] \notin {"none", "done"}

\* Sockets do not leak, however Connect, Disconnect, stale readers and
\* watchers interleave: a socket that is still open is the one in c.conn.
NoStraySocket ==
  \A n \in Gens : sock[n] \notin {"none", "closed"} => n = conn

\* A connection is never without an owner: neither is the flag up without a
\* reader, nor a socket open outside c.conn, where nobody would close it.
SocketsAreWatched == ConnectedIsWatched /\ NoStraySocket

\* When Close has returned, nothing of the client is left: no connection, no
\* open socket, no reader and no watcher that could still touch it.
ClosedIsQuiet ==
  op = "closed" =>
    /\ conn = 0 /\ ~connected
    /\ \A g \in Gens : /\ sock[g] \in {"none", "closed"}
                       /\ rl[g] \in {"none", "done"}
                       /\ watch[g] \in {"none", "done"}

\* The client implements the one-slot connection.
Slot == INSTANCE ConnectionSlot
          WITH opened <- readCtx,
               live <- {n \in Gens : sock[n] \notin {"none", "closed"}}
SlotImplemented == Slot!SlotSpec

\* A connection that dies under the client is reported: IsConnected turns
\* false, so monitorConnection gets to reconnect.
LossIsReported ==
  \A n \in Gens : (conn = n /\ sock[n] = "dead") ~> ~connected

\* Close returns, whatever readers and watchers are in the middle of.
CloseReturns == (op = "closing") ~> (op = "closed")

\* client.go:198 has Disconnect hold the lock "to prevent race with readLoop
\* cleanup": the goroutines of a replaced connection leave a newer one alone.
StaleReaderSparesNewConnection ==
  [][\A g \in Gens :
       \/ rl[g] = "cleanup" /\ rl'[g] = "flag"
       \/ watch[g] = "closing" /\ watch'[g] = "done"
       => conn \in {0, g}]_vars

\* The README promises a thread-safe connection with reading and writing
\* separated: a socket is read by one readLoop only.
OneReaderPerSocket ==
  \A g, h \in Gens :
    rl[g] = "reading" /\ rl[h] = "reading" /\ rlConn[g] = rlConn[h] => g = h

\* client.go:224: "IsConnected returns true if the client is connected".
\* The flag is false while the client has an open socket only until Connect
\* or Disconnect, which hold the lock, are through.
FlagTellsTheTruth ==
  conn # 0 /\ sock[conn] = "open" /\ connLock = "free" => connected

\* reconnect.go:200 counts on Disconnect to "Force disconnect" a connection
\* whose peer has gone silent: Disconnect returns.
DisconnectReturns == (op = "disconnecting") ~> (op = "idle")
=============================================================================
