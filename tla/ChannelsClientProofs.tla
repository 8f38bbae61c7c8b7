------------------------ MODULE ChannelsClientProofs ------------------------
(***************************************************************************)
(* Theorems about ChannelsClient, for every value of its constants.        *)
(***************************************************************************)
EXTENDS ChannelsClient, TLAPS

USE DEF Gens

-----------------------------------------------------------------------------
(* Type correctness.                                                       *)

\* The initial state is well typed.
LEMMA InitTyped == Init => TypeOK
  <1> SUFFICES ASSUME Init PROVE TypeOK
    OBVIOUS
  <1>1. /\ readCtx \in 0..MaxConns
        /\ conn \in 0..readCtx
        /\ cancelled \subseteq Gens
    BY ConstantsAssumption DEF ConstantsAssumption, Init
  <1>2. /\ connected \in BOOLEAN
        /\ ctxDone \in BOOLEAN
        /\ connLock \in {"free", "caller", "sender"}
        /\ op \in OpStates
    BY DEF Init, OpStates
  <1>3. /\ sock \in [Gens -> SockStates]
        /\ rl \in [Gens -> ReaderStates]
        /\ watch \in [Gens -> WatcherStates]
    BY DEF Init, SockStates, ReaderStates, WatcherStates
  <1>4. /\ rlConn \in [Gens -> 0..MaxConns]
        /\ watchCtx \in [Gens -> 0..MaxConns]
    BY ConstantsAssumption DEF ConstantsAssumption, Init
  <1>5. QED
    BY <1>1, <1>2, <1>3, <1>4 DEF TypeOK

\* Replacing one value of a function by another of its range.
LEMMA ExceptTyped ==
  ASSUME NEW S, NEW T, NEW f \in [S -> T], NEW a, NEW v \in T
  PROVE  [f EXCEPT ![a] = v] \in [S -> T]
  OBVIOUS

\* The connection a reader picks up is one that was created.
LEMMA ReaderTopTyped ==
  ASSUME TypeOK, NEW g \in Gens, ReaderTop(g)
  PROVE  rlConn' \in [Gens -> 0..MaxConns]
  <1>1. conn \in 0..MaxConns
    BY ConstantsAssumption DEF ConstantsAssumption, TypeOK
  <1>2. rlConn \in [Gens -> 0..MaxConns]
    BY DEF TypeOK
  <1>3. rlConn' = rlConn \/ rlConn' = [rlConn EXCEPT ![g] = conn]
    BY DEF ReaderTop
  <1>4. QED
    BY <1>1, <1>2, <1>3, ExceptTyped

\* Every step keeps the variables in their types.
LEMMA StepTyped == TypeOK /\ [Next]_vars => TypeOK'
  <1> SUFFICES ASSUME TypeOK, [Next]_vars PROVE TypeOK'
    OBVIOUS
  <1> USE ConstantsAssumption
      DEF ConstantsAssumption, TypeOK, SockStates, OpStates, ReaderStates, WatcherStates,
          ctxVars, readerVars, watchVars
  <1>1. CASE ConnectBegin
    BY <1>1 DEF ConnectBegin, CloseConn, CancelRead
  <1>2. CASE DialOk
    BY <1>2 DEF DialOk
  <1>3. CASE DialFail
    BY <1>3 DEF DialFail
  <1>4. CASE DisconnectBegin
    BY <1>4 DEF DisconnectBegin, CancelRead
  <1>5. CASE DisconnectLocked
    <2>1. conn' \in 0..readCtx' /\ readCtx' \in 0..MaxConns
      BY <1>5 DEF DisconnectLocked
    <2>2. sock' \in [Gens -> SockStates]
      BY <1>5 DEF DisconnectLocked, CloseConn
    <2>3. connected' \in BOOLEAN /\ op' \in OpStates
      BY <1>5 DEF DisconnectLocked
    <2>4. QED
      BY <1>5, <2>1, <2>2, <2>3 DEF DisconnectLocked
  <1>6. CASE CloseCancel
    BY <1>6 DEF CloseCancel
  <1>7. CASE CloseWait
    BY <1>7 DEF CloseWait
  <1>8. CASE SendBlocks \/ SendReturns
    BY <1>8 DEF SendBlocks, SendReturns
  <1>9. CASE PeerDrops \/ PeerStalls \/ PeerDrains
    BY <1>9 DEF PeerDrops, PeerStalls, PeerDrains
  <1>10. ASSUME NEW g \in Gens, Reader(g) PROVE TypeOK'
    <2>1. CASE ReaderTop(g)
      <3>1. rl' \in [Gens -> ReaderStates]
        BY <2>1 DEF ReaderTop
      <3>2. rlConn' \in [Gens -> 0..MaxConns]
        BY <2>1, ReaderTopTyped
      <3>3. UNCHANGED <<conn, sock, connected, readCtx, cancelled, ctxDone,
                        connLock, op, watch, watchCtx>>
        BY <2>1 DEF ReaderTop
      <3>4. QED
        BY <3>1, <3>2, <3>3
    <2>2. CASE ReaderMessage(g) \/ ReaderError(g) \/ ReaderAwait(g)
      BY <2>2 DEF ReaderMessage, ReaderError, ReaderAwait
    <2>3. CASE ReaderCleanup(g)
      BY <2>3 DEF ReaderCleanup, CloseConn
    <2>4. CASE ReaderFlag(g)
      BY <2>4 DEF ReaderFlag
    <2>5. QED
      BY <1>10, <2>1, <2>2, <2>3, <2>4 DEF Reader
  <1>11. ASSUME NEW g \in Gens, Watcher(g) PROVE TypeOK'
    <2>1. CASE WatcherStart(g)
      <3>1. readCtx \in 0..MaxConns
        OBVIOUS
      <3>2. /\ watch' \in [Gens -> WatcherStates]
            /\ watchCtx' \in [Gens -> 0..MaxConns]
        BY <2>1, <3>1, ExceptTyped DEF WatcherStart
      <3>3. QED
        BY <2>1, <3>2 DEF WatcherStart
    <2>2. CASE WatcherCancelled(g) \/ WatcherReleased(g)
      BY <2>2 DEF WatcherCancelled, WatcherReleased
    <2>3. CASE WatcherClose(g)
      BY <2>3 DEF WatcherClose, CloseConn
    <2>4. QED
      BY <1>11, <2>1, <2>2, <2>3 DEF Watcher
  <1>12. CASE Terminated \/ UNCHANGED vars
    BY <1>12 DEF Terminated, vars
  <1>13. QED
    BY <1>1, <1>2, <1>3, <1>4, <1>5, <1>6, <1>7, <1>8, <1>9, <1>10, <1>11, <1>12
       DEF Next

\* The client's variables keep their types in every behaviour; in particular
\* c.conn is nil or a socket that a successful Connect created.
THEOREM TypeCorrect == Spec => []TypeOK
  <1>1. TypeOK /\ [Next]_vars => TypeOK'
    BY StepTyped
  <1>2. QED
    BY InitTyped, <1>1, PTL DEF Spec

-----------------------------------------------------------------------------
(* The inductive invariants.  NoStraySocket is not inductive: it needs to  *)
(* know that nobody but Connect has the lock while it dials with conn nil, *)
(* and that the socket about to be created does not exist yet.             *)

DialHoldsLock ==
  /\ op = "dialing" => conn = 0
  /\ op = "dialing" <=> connLock = "caller"

FutureSocketsFresh == \A n \in Gens : n > readCtx => sock[n] = "none"

SlotInv == TypeOK /\ DialHoldsLock /\ FutureSocketsFresh /\ NoStraySocket

\* A reader that is past contextWg.Wait has no watcher any more.
WatcherGone ==
  \A g \in Gens :
    /\ rl[g] = "none" => watch[g] = "none"
    /\ rl[g] \in {"cleanup", "flag", "done"} => watch[g] = "done"

ShutDown ==
  /\ op \in {"cancelling", "draining", "closed"} => conn = 0 /\ ~connected
  /\ op = "closed" => \A g \in Gens : rl[g] \in {"none", "done"}

\* Closing c.conn leaves no open socket, because there was no other.
LEMMA CloseConnEmpties ==
  ASSUME NoStraySocket, CloseConn
  PROVE  \A n \in Gens : sock'[n] \in {"none", "closed"}
  BY DEF NoStraySocket, CloseConn

\* A step of the slot's inductive invariant.
LEMMA StepSlotInv == SlotInv /\ [Next]_vars => SlotInv'
  <1> SUFFICES ASSUME SlotInv, [Next]_vars PROVE SlotInv'
    OBVIOUS
  <1>0. TypeOK'
    BY StepTyped DEF SlotInv
  <1> USE DEF ctxVars, readerVars, watchVars
  <1>1. CASE ConnectBegin
    <2>1. \A n \in Gens : sock'[n] \in {"none", "closed"}
      BY <1>1, CloseConnEmpties DEF ConnectBegin, SlotInv
    <2>2. FutureSocketsFresh'
      BY <1>1 DEF ConnectBegin, SlotInv, TypeOK, FutureSocketsFresh, CloseConn
    <2>3. DialHoldsLock'
      BY <1>1 DEF ConnectBegin, DialHoldsLock
    <2>4. QED
      BY <1>0, <2>1, <2>2, <2>3 DEF SlotInv, NoStraySocket
  <1>2. CASE DialOk
    <2> DEFINE n == readCtx + 1
    <2>1. n \in Gens /\ conn = 0 /\ sock' = [sock EXCEPT ![n] = "open"]
          /\ conn' = n /\ readCtx' = n
      BY <1>2 DEF DialOk, SlotInv, DialHoldsLock
    <2>2. FutureSocketsFresh'
      BY <2>1 DEF SlotInv, TypeOK, FutureSocketsFresh
    <2>3. NoStraySocket'
      BY <2>1 DEF SlotInv, TypeOK, NoStraySocket
    <2>4. DialHoldsLock'
      BY <1>2 DEF DialOk, DialHoldsLock
    <2>5. QED
      BY <1>0, <2>2, <2>3, <2>4 DEF SlotInv
  <1>3. CASE DialFail
    BY <1>0, <1>3 DEF DialFail, SlotInv, DialHoldsLock, FutureSocketsFresh, NoStraySocket
  <1>4. CASE DisconnectBegin \/ CloseCancel \/ CloseWait
    BY <1>0, <1>4 DEF DisconnectBegin, CloseCancel, CloseWait,
                      SlotInv, DialHoldsLock, FutureSocketsFresh, NoStraySocket
  <1>5. ASSUME CloseConn, connLock = "free", op # "dialing", conn' = 0,
               UNCHANGED <<connLock, readCtx>>, op' # "dialing"
        PROVE  SlotInv'
    <2>1. NoStraySocket'
      BY <1>5, CloseConnEmpties DEF SlotInv, NoStraySocket
    <2>2. FutureSocketsFresh'
      BY <1>5 DEF SlotInv, TypeOK, FutureSocketsFresh, CloseConn
    <2>3. DialHoldsLock'
      BY <1>5 DEF DialHoldsLock
    <2>4. QED
      BY <1>0, <2>1, <2>2, <2>3 DEF SlotInv
  <1>6. CASE DisconnectLocked
    BY <1>5, <1>6 DEF DisconnectLocked
  <1>7. CASE SendBlocks \/ SendReturns
    BY <1>0, <1>7 DEF SendBlocks, SendReturns,
                      SlotInv, DialHoldsLock, FutureSocketsFresh, NoStraySocket
  <1>8. CASE PeerDrops \/ PeerStalls \/ PeerDrains
    <2>1. PICK n \in Gens, s \in {"open", "stalled", "dead"} :
            sock[n] \in {"open", "stalled"} /\ sock' = [sock EXCEPT ![n] = s]
      BY <1>8 DEF PeerDrops, PeerStalls, PeerDrains
    <2>2. UNCHANGED <<conn, readCtx, connLock, op>>
      BY <1>8 DEF PeerDrops, PeerStalls, PeerDrains
    <2>3. n = conn
      BY <2>1 DEF SlotInv, NoStraySocket
    <2>4. NoStraySocket'
      BY <2>1, <2>2, <2>3 DEF SlotInv, TypeOK, NoStraySocket
    <2>5. FutureSocketsFresh'
      BY <2>1, <2>2, <2>3 DEF SlotInv, TypeOK, FutureSocketsFresh
    <2>6. QED
      BY <1>0, <2>2, <2>4, <2>5 DEF SlotInv, DialHoldsLock
  <1>9. ASSUME NEW g \in Gens, Reader(g) PROVE SlotInv'
    <2>1. CASE ReaderCleanup(g)
      BY <1>5, <2>1 DEF ReaderCleanup, SlotInv, DialHoldsLock
    <2>2. CASE ReaderTop(g) \/ ReaderMessage(g) \/ ReaderError(g)
               \/ ReaderAwait(g) \/ ReaderFlag(g)
      <3>1. UNCHANGED <<conn, sock, readCtx, connLock, op>>
        BY <2>2 DEF ReaderTop, ReaderMessage, ReaderError, ReaderAwait, ReaderFlag
      <3>2. QED
        BY <1>0, <3>1 DEF SlotInv, DialHoldsLock, FutureSocketsFresh, NoStraySocket
    <2>3. QED
      BY <1>9, <2>1, <2>2 DEF Reader
  <1>10. ASSUME NEW g \in Gens, Watcher(g) PROVE SlotInv'
    <2>1. CASE WatcherClose(g)
      <3>1. \A n \in Gens : sock'[n] \in {"none", "closed"}
        BY <2>1, CloseConnEmpties DEF WatcherClose, SlotInv
      <3>2. FutureSocketsFresh'
        BY <2>1 DEF WatcherClose, SlotInv, TypeOK, FutureSocketsFresh, CloseConn
      <3>3. QED
        BY <1>0, <2>1, <3>1, <3>2 DEF WatcherClose, SlotInv, DialHoldsLock, NoStraySocket
    <2>2. CASE WatcherStart(g) \/ WatcherCancelled(g) \/ WatcherReleased(g)
      BY <1>0, <2>2 DEF WatcherStart, WatcherCancelled, WatcherReleased,
                        SlotInv, DialHoldsLock, FutureSocketsFresh, NoStraySocket
    <2>3. QED
      BY <1>10, <2>1, <2>2 DEF Watcher
  <1>11. CASE Terminated \/ UNCHANGED vars
    BY <1>0, <1>11 DEF Terminated, vars, SlotInv, DialHoldsLock,
                       FutureSocketsFresh, NoStraySocket
  <1>12. QED
    BY <1>1, <1>2, <1>3, <1>4, <1>6, <1>7, <1>8, <1>9, <1>10, <1>11 DEF Next

\* The slot's inductive invariant holds in every behaviour.
LEMMA SlotInvariant == Spec => []SlotInv
  <1>1. Init => SlotInv
    BY InitTyped DEF Init, SlotInv, DialHoldsLock, FutureSocketsFresh, NoStraySocket
  <1>2. SlotInv /\ [Next]_vars => SlotInv'
    BY StepSlotInv
  <1>3. QED
    BY <1>1, <1>2, PTL DEF Spec

\* No socket is leaked: whatever Connect, Disconnect, Close and the goroutines
\* of old connections do, an open socket is the one in c.conn.
THEOREM NoSocketLeaks == Spec => []NoStraySocket
  <1>1. SlotInv => NoStraySocket
    BY DEF SlotInv
  <1>2. QED
    BY SlotInvariant, <1>1, PTL

-----------------------------------------------------------------------------
(* The client implements ConnectionSlot.                                   *)

\* The refinement mapping of Slot: the open sockets.
OpenSockets == {n \in Gens : sock[n] \notin {"none", "closed"}}

\* Closing c.conn empties the slot if it was full.
LEMMA CloseConnShuts ==
  ASSUME NoStraySocket, CloseConn, UNCHANGED readCtx
  PROVE  [Slot!SlotNext]_<<readCtx, OpenSockets>>
  <1>1. OpenSockets' = {}
    BY CloseConnEmpties DEF OpenSockets
  <1>2. CASE OpenSockets = {}
    BY <1>1, <1>2
  <1>3. CASE OpenSockets # {}
    BY <1>1, <1>3 DEF Slot!SlotNext, Slot!Shut, OpenSockets
  <1>4. QED
    BY <1>2, <1>3

\* Every step of the client opens the slot, shuts it or leaves it alone.
LEMMA StepImplements ==
  SlotInv /\ [Next]_vars => [Slot!SlotNext]_<<readCtx, OpenSockets>>
  <1> SUFFICES ASSUME SlotInv, [Next]_vars
               PROVE  [Slot!SlotNext]_<<readCtx, OpenSockets>>
    OBVIOUS
  <1> USE DEF ctxVars, readerVars, watchVars
  <1>0. NoStraySocket
    BY DEF SlotInv
  <1>1. CASE ConnectBegin \/ DisconnectLocked
             \/ \E g \in Gens : ReaderCleanup(g) \/ WatcherClose(g)
    BY <1>0, <1>1, CloseConnShuts
       DEF ConnectBegin, DisconnectLocked, ReaderCleanup, WatcherClose
  <1>2. CASE DialOk
    <2>1. readCtx' = readCtx + 1 /\ readCtx + 1 \in Gens /\ conn = 0
          /\ sock' = [sock EXCEPT ![readCtx + 1] = "open"]
      BY <1>2 DEF DialOk, SlotInv, DialHoldsLock
    <2>2. OpenSockets = {}
      BY <2>1 DEF SlotInv, NoStraySocket, OpenSockets
    <2>3. OpenSockets' = {readCtx + 1}
      BY <2>1, <2>2 DEF SlotInv, TypeOK, OpenSockets
    <2>4. QED
      BY <2>1, <2>2, <2>3 DEF Slot!SlotNext, Slot!Open, OpenSockets
  <1>3. CASE PeerDrops \/ PeerStalls \/ PeerDrains
    <2>1. OpenSockets' = OpenSockets
      BY <1>3 DEF PeerDrops, PeerStalls, PeerDrains, SlotInv, TypeOK, OpenSockets
    <2>2. QED
      BY <1>3, <2>1 DEF PeerDrops, PeerStalls, PeerDrains
  <1>4. CASE DialFail \/ DisconnectBegin \/ CloseCancel \/ CloseWait
             \/ SendBlocks \/ SendReturns \/ Terminated \/ UNCHANGED vars
    <2>1. UNCHANGED <<sock, readCtx>>
      BY <1>4 DEF DialFail, DisconnectBegin, CloseCancel, CloseWait,
                  SendBlocks, SendReturns, Terminated, vars
    <2>2. QED
      BY <2>1 DEF OpenSockets
  <1>5. ASSUME NEW g \in Gens,
               \/ ReaderTop(g) \/ ReaderMessage(g) \/ ReaderError(g)
               \/ ReaderAwait(g) \/ ReaderFlag(g)
               \/ WatcherStart(g) \/ WatcherCancelled(g) \/ WatcherReleased(g)
        PROVE  [Slot!SlotNext]_<<readCtx, OpenSockets>>
    <2>1. UNCHANGED <<sock, readCtx>>
      BY <1>5 DEF ReaderTop, ReaderMessage, ReaderError, ReaderAwait, ReaderFlag,
                  WatcherStart, WatcherCancelled, WatcherReleased
    <2>2. QED
      BY <2>1 DEF OpenSockets
  <1>6. QED
    BY <1>1, <1>2, <1>3, <1>4, <1>5 DEF Next, Reader, Watcher

\* The client implements the one-slot connection: sockets are opened one at a
\* time, each a fresh one, and only while no other is open.
THEOREM ClientImplementsSlot == Spec => SlotImplemented
  <1>1. Init => Slot!SlotInit
    BY DEF Init, Slot!SlotInit
  <1>2. SlotInv /\ [Next]_vars => [Slot!SlotNext]_(Slot!slotVars)
    BY StepImplements DEF Slot!slotVars, OpenSockets
  <1>3. QED
    BY <1>1, <1>2, SlotInvariant, PTL DEF Spec, SlotImplemented, Slot!SlotSpec

-----------------------------------------------------------------------------
(* The flag and the shutdown.                                              *)

\* The newest connection keeps its reader while connected is true.  The
\* invariant is inductive as it stands.
LEMMA StepWatched ==
  TypeOK /\ ConnectedIsWatched /\ [Next]_vars => ConnectedIsWatched'
  <1> SUFFICES ASSUME TypeOK, ConnectedIsWatched, [Next]_vars
               PROVE  ConnectedIsWatched'
    OBVIOUS
  <1> USE DEF ctxVars, readerVars, watchVars
  <1>1. CASE DialOk
    BY <1>1 DEF DialOk, TypeOK, ConnectedIsWatched
  <1>2. CASE ConnectBegin \/ DialFail \/ DisconnectBegin \/ DisconnectLocked
             \/ CloseCancel \/ CloseWait \/ SendBlocks \/ SendReturns
             \/ PeerDrops \/ PeerStalls \/ PeerDrains \/ Terminated \/ UNCHANGED vars
    <2>1. UNCHANGED <<rl, readCtx>> /\ (connected' = connected \/ connected' = FALSE)
      BY <1>2 DEF ConnectBegin, DialFail, DisconnectBegin, DisconnectLocked,
                  CloseCancel, CloseWait, SendBlocks, SendReturns,
                  PeerDrops, PeerStalls, PeerDrains, Terminated, vars
    <2>2. QED
      BY <2>1 DEF ConnectedIsWatched
  <1>3. ASSUME NEW g \in Gens, Reader(g) PROVE ConnectedIsWatched'
    <2>1. CASE ReaderFlag(g)
      BY <2>1 DEF ReaderFlag, ConnectedIsWatched
    <2>2. CASE ReaderTop(g) \/ ReaderMessage(g) \/ ReaderError(g)
               \/ ReaderAwait(g) \/ ReaderCleanup(g)
      <3>1. UNCHANGED <<connected, readCtx>>
            /\ \E s \in ReaderStates \ {"none", "done"} : rl' = [rl EXCEPT ![g] = s]
        BY <2>2 DEF ReaderTop, ReaderMessage, ReaderError, ReaderAwait,
                    ReaderCleanup, ReaderStates
      <3>2. QED
        BY <3>1 DEF ConnectedIsWatched, TypeOK
    <2>3. QED
      BY <1>3, <2>1, <2>2 DEF Reader
  <1>4. ASSUME NEW g \in Gens, Watcher(g) PROVE ConnectedIsWatched'
    <2>1. UNCHANGED <<connected, readCtx, rl>>
      BY <1>4 DEF Watcher, WatcherStart, WatcherCancelled, WatcherReleased, WatcherClose
    <2>2. QED
      BY <2>1 DEF ConnectedIsWatched
  <1>5. QED
    BY <1>1, <1>2, <1>3, <1>4 DEF Next

\* While IsConnected answers true, the reader of the newest connection is
\* still there to report its loss.
THEOREM ConnectedHasReader == Spec => []ConnectedIsWatched
  <1>1. Init => ConnectedIsWatched
    BY DEF Init, ConnectedIsWatched
  <1>2. TypeOK /\ ConnectedIsWatched /\ [Next]_vars => ConnectedIsWatched'
    BY StepWatched
  <1>3. QED
    BY <1>1, <1>2, TypeCorrect, PTL DEF Spec

\* A connection is never without an owner, for any number of connections.
THEOREM ConnectionsHaveOwners == Spec => []SocketsAreWatched
  <1>1. ConnectedIsWatched /\ NoStraySocket => SocketsAreWatched
    BY DEF SocketsAreWatched
  <1>2. QED
    BY ConnectedHasReader, NoSocketLeaks, <1>1, PTL

\* Readers leave no watcher behind, and nothing restarts after Close.
LEMMA StepShutDown ==
  SlotInv /\ WatcherGone /\ ShutDown /\ [Next]_vars => (WatcherGone /\ ShutDown)'
  <1> SUFFICES ASSUME SlotInv, WatcherGone, ShutDown, [Next]_vars
               PROVE  WatcherGone' /\ ShutDown'
    OBVIOUS
  <1> USE DEF ctxVars, readerVars, watchVars
  <1>0. TypeOK
    BY DEF SlotInv
  <1>1. CASE DialOk
    BY <1>0, <1>1 DEF DialOk, TypeOK, WatcherGone, ShutDown
  <1>2. CASE ConnectBegin \/ DialFail \/ DisconnectBegin \/ DisconnectLocked
             \/ CloseCancel \/ CloseWait \/ SendBlocks \/ SendReturns
             \/ PeerDrops \/ PeerStalls \/ PeerDrains \/ Terminated \/ UNCHANGED vars
    <2>1. UNCHANGED <<rl, watch>>
      BY <1>2 DEF ConnectBegin, DialFail, DisconnectBegin, DisconnectLocked,
                  CloseCancel, CloseWait, SendBlocks, SendReturns,
                  PeerDrops, PeerStalls, PeerDrains, Terminated, vars
    <2>2. WatcherGone'
      BY <2>1 DEF WatcherGone
    <2>3. ShutDown'
      BY <1>2, <2>1 DEF ConnectBegin, DialFail, DisconnectBegin, DisconnectLocked,
                  CloseCancel, CloseWait, SendBlocks, SendReturns,
                  PeerDrops, PeerStalls, PeerDrains, Terminated, vars, ShutDown
    <2>4. QED
      BY <2>2, <2>3
  <1>3. ASSUME NEW g \in Gens, Reader(g) PROVE WatcherGone' /\ ShutDown'
    <2>1. \E s \in ReaderStates \ {"none"} :
            /\ rl' = [rl EXCEPT ![g] = s]
            /\ s \in {"cleanup", "flag", "done"} => watch[g] = "done"
      BY <1>3 DEF Reader, ReaderTop, ReaderMessage, ReaderError, ReaderAwait,
                  ReaderCleanup, ReaderFlag, ReaderStates, WatcherGone
    <2>2. UNCHANGED <<watch, op>> /\ rl[g] \notin {"none", "done"}
      BY <1>3 DEF Reader, ReaderTop, ReaderMessage, ReaderError, ReaderAwait,
                  ReaderCleanup, ReaderFlag
    <2>3. /\ conn' = conn \/ conn' = 0
          /\ connected' = connected \/ connected' = FALSE
      BY <1>3 DEF Reader, ReaderTop, ReaderMessage, ReaderError, ReaderAwait,
                  ReaderCleanup, ReaderFlag
    <2>4. WatcherGone'
      BY <1>0, <2>1, <2>2 DEF TypeOK, WatcherGone
    <2>5. ShutDown'
      BY <2>2, <2>3 DEF ShutDown
    <2>6. QED
      BY <2>4, <2>5
  <1>4. ASSUME NEW g \in Gens, Watcher(g) PROVE WatcherGone' /\ ShutDown'
    <2>1. /\ UNCHANGED <<rl, op, conn, connected>>
          /\ watch[g] \notin {"none", "done"}
          /\ \E s \in WatcherStates : watch' = [watch EXCEPT ![g] = s]
      BY <1>4 DEF Watcher, WatcherStart, WatcherCancelled, WatcherReleased,
                  WatcherClose, WatcherStates
    <2>2. QED
      BY <1>0, <2>1 DEF TypeOK, WatcherGone, ShutDown
  <1>5. QED
    BY <1>1, <1>2, <1>3, <1>4 DEF Next

\* Close leaves nothing behind: once it has returned there is no connection,
\* no open socket, no reader and no watcher.
THEOREM CloseLeavesNothing == Spec => []ClosedIsQuiet
  <1>1. Init => WatcherGone /\ ShutDown
    BY DEF Init, WatcherGone, ShutDown
  <1>2. SlotInv /\ (WatcherGone /\ ShutDown) /\ [Next]_vars => (WatcherGone /\ ShutDown)'
    BY StepShutDown
  <1>3. SlotInv /\ WatcherGone /\ ShutDown => ClosedIsQuiet
    BY DEF SlotInv, TypeOK, NoStraySocket, WatcherGone, ShutDown, ClosedIsQuiet
  <1>4. QED
    BY <1>1, <1>2, <1>3, SlotInvariant, PTL DEF Spec
=============================================================================
