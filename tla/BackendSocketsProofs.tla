------------------------ MODULE BackendSocketsProofs -------------------------
(***************************************************************************)
(* Theorems about BackendSockets, for any number of ws_connect and         *)
(* ws_close requests and any ids: the manager's map and its receive loops  *)
(* agree, and a loop that was cancelled falls silent.                      *)
(***************************************************************************)
EXTENDS BackendSockets, TLAPS

\* TypeOK in two parts.
ConnectionsTyped ==
  /\ connections \in [Ids -> 0..MaxConns]
  /\ id \in [Conns -> Ids \cup {NoId}]
  /\ handler \in [Conns -> HandlerStates]
  /\ reply \in [Conns -> {"none", "connected", "error"}]
  /\ sock \in [Conns -> {"none", "open", "closed"}]
  /\ loop \in [Conns -> LoopStates]

ClosingTyped ==
  /\ closed \subseteq Conns /\ cancelled \subseteq closed /\ ended \subseteq Conns
  /\ mgrDone \in BOOLEAN
  /\ agent \in [Agents -> AgentStates]
  /\ target \in [Agents -> 0..MaxConns]
  /\ asked \subseteq Ids
  /\ closeAll \in StopStates
  /\ toClose \subseteq Conns
  /\ lastWords \in [Conns -> Nat]

\* The handler of n has come to the map, or is through.
Stored(n) == handler[n] \in {"spawning", "replying", "done"}

RequestsHaveIds ==
  \A n \in Conns : /\ handler[n] = "none" <=> id[n] = NoId
                   /\ handler[n] \in HandlerStates \ {"replying", "done"} => loop[n] = "none"

EntriesAreServed ==
  \A i \in Ids : connections[i] # None =>
    /\ id[connections[i]] = i
    /\ Stored(connections[i])
    /\ loop[connections[i]] # "done"

\* How far closeConnection has got with its connection.
TargetsAreStored ==
  /\ \A a \in Agents :
       /\ agent[a] \notin {"idle", "done"} => target[a] \in Conns /\ Stored(target[a])
       /\ agent[a] \in {"cancelling", "sending", "shutting", "deleting"} => target[a] \in closed
       /\ agent[a] \in {"sending", "shutting", "deleting"} => target[a] \in cancelled
       /\ agent[a] = "deleting" => sock[target[a]] = "closed"
  /\ \A n \in toClose \cup closed : Stored(n)

CancelledAreShut ==
  \A n \in cancelled :
    \/ sock[n] = "closed"
    \/ \E a \in Agents : target[a] = n /\ agent[a] \in {"sending", "shutting"}

LoopsLeaveForAReason ==
  \A n \in Conns : loop[n] \in {"leaving", "done"} => n \in ended \/ CtxDone(n)

\* From the moment its entry is written, a loop that has not left is reachable.
LoopsAreReachable ==
  \A n \in Conns : OwnId(n) /\ (handler[n] = "spawning" \/ loop[n] \in Reading)
                     => Reachable(n)

CloseAllIsQuiet ==
  /\ closeAll # "idle" => mgrDone
  /\ closeAll = "done" => \A n \in Conns : loop[n] \notin Talking

\* The message that ends after the cancel was the last.
WordsAreLast ==
  \A n \in Conns : lastWords[n] # 0 =>
    lastWords[n] = 1 /\ CtxDone(n) /\ loop[n] \in {"top", "leaving"}

IInv ==
  /\ ConnectionsTyped /\ ClosingTyped
  /\ RequestsHaveIds /\ EntriesAreServed /\ TargetsAreStored
  /\ CancelledAreShut /\ LoopsLeaveForAReason /\ LoopsAreReachable
  /\ CloseAllIsQuiet /\ WordsAreLast

-----------------------------------------------------------------------------
LEMMA TypesHaveParts == TypeOK <=> ConnectionsTyped /\ ClosingTyped
BY DEF TypeOK, ConnectionsTyped, ClosingTyped

\* The map and the loops agree because of why a loop may leave.
LEMMA InvariantMatches == IInv => MapMatchesLoops
<1> SUFFICES ASSUME IInv PROVE MapMatchesLoops
  OBVIOUS
<1>1. \A n \in Conns : OwnId(n) /\ loop[n] \in Reading => Reachable(n)
  BY DEF IInv, LoopsAreReachable
<1>2. \A i \in Ids : connections[i] # None =>
        id[connections[i]] = i /\ loop[connections[i]] # "done"
  BY DEF IInv, EntriesAreServed
<1>3. \A n \in Conns : loop[n] = "done" => n \in ended \/ CtxDone(n)
  BY DEF IInv, LoopsLeaveForAReason
<1> QED
  BY <1>1, <1>2, <1>3 DEF MapMatchesLoops

\* No loop is cut short that talks still, and none talks for long.
LEMMA InvariantSilences == IInv => CancelSilences
BY DEF IInv, ClosingTyped, CloseAllIsQuiet, WordsAreLast, CancelSilences

-----------------------------------------------------------------------------
LEMMA ConnsAreNumbers ==
  /\ None \notin Conns /\ None \in 0..MaxConns
  /\ Conns \subseteq 0..MaxConns /\ 0..MaxConns \subseteq Conns \cup {None}
BY SocketAssumption DEF SocketAssumption, Conns, None

LEMMA InitIInv == Init => IInv
<1> SUFFICES ASSUME Init PROVE IInv
  OBVIOUS
<1> USE SocketAssumption, ConnsAreNumbers DEF Init, SocketAssumption
<1>1. ConnectionsTyped
  BY DEF ConnectionsTyped, HandlerStates, LoopStates
<1>2. agent \in [Agents -> AgentStates] /\ target \in [Agents -> 0..MaxConns]
  BY DEF AgentStates
<1>3. ClosingTyped
  BY <1>2 DEF ClosingTyped, StopStates
<1>4. RequestsHaveIds /\ EntriesAreServed /\ TargetsAreStored
  BY DEF RequestsHaveIds, EntriesAreServed, TargetsAreStored
<1>5. /\ CancelledAreShut /\ LoopsLeaveForAReason /\ LoopsAreReachable
      /\ CloseAllIsQuiet /\ WordsAreLast
  BY DEF CancelledAreShut, LoopsLeaveForAReason, LoopsAreReachable, CloseAllIsQuiet,
     WordsAreLast, Reading
<1> QED
  BY <1>1, <1>3, <1>4, <1>5 DEF IInv

\* handleWSConnect and Connect.
LEMMA ConnectingKeepsIInv ==
  ASSUME IInv, NEW n \in Conns, Connecting(n)
  PROVE  IInv'
<1> USE DEF IInv, HandlerAt, connectVars, loopVars, agentVars, stopVars
<1>0. n # None /\ n \in 0..MaxConns /\ NoId \notin Ids
  BY ConnsAreNumbers, SocketAssumption DEF SocketAssumption
<1>1. /\ UNCHANGED <<closed, cancelled, ended, lastWords, agentVars, stopVars>>
      /\ handler' = [handler EXCEPT ![n] = handler'[n]]
      /\ handler[n] # "done" /\ handler'[n] \in HandlerStates /\ handler'[n] # "none"
      /\ Stored(n) => Stored(n)'
      /\ handler'[n] = "spawning" => handler[n] = "storing"
      /\ handler[n] = "spawning" => handler'[n] = "replying"
      /\ handler'[n] \notin {"replying", "done"} => handler[n] \notin {"spawning", "replying"}
  BY DEF Connecting, ConnectRequest, LookupId, Reach, DialOk, DialFails, HandshakeFails,
     ReplyError, Store, Spawn, ReplyConnected,
     ConnectionsTyped, HandlerStates, Stored
<1>2. /\ id' = [id EXCEPT ![n] = id'[n]] /\ id'[n] \in Ids
      /\ IF handler[n] = "none" THEN handler'[n] = "looking" ELSE UNCHANGED id
  BY DEF Connecting, ConnectRequest, LookupId, Reach, DialOk, DialFails, HandshakeFails,
     ReplyError, Store, Spawn, ReplyConnected,
     ConnectionsTyped, RequestsHaveIds
<1>3. loop' = IF handler[n] = "spawning" THEN [loop EXCEPT ![n] = "top"] ELSE loop
  BY DEF Connecting, ConnectRequest, LookupId, Reach, DialOk, DialFails, HandshakeFails,
     ReplyError, Store, Spawn, ReplyConnected
<1>4. \/ UNCHANGED sock
      \/ handler[n] = "handshaking" /\ sock' = [sock EXCEPT ![n] = "open"]
  BY DEF Connecting, ConnectRequest, LookupId, Reach, DialOk, DialFails, HandshakeFails,
     ReplyError, Store, Spawn, ReplyConnected
<1>5. IF handler[n] = "storing"
      THEN connections' = [connections EXCEPT ![id[n]] = n] /\ handler'[n] = "spawning"
      ELSE UNCHANGED connections
  BY DEF Connecting, ConnectRequest, LookupId, Reach, DialOk, DialFails, HandshakeFails,
     ReplyError, Store, Spawn, ReplyConnected,
     ConnectionsTyped
<1>6. reply' \in [Conns -> {"none", "connected", "error"}]
  BY DEF Connecting, ConnectRequest, LookupId, Reach, DialOk, DialFails, HandshakeFails,
     ReplyError, Store, Spawn, ReplyConnected,
     ConnectionsTyped
<1>7. ~Stored(n) => n \notin closed \cup cancelled \cup toClose /\ loop[n] = "none"
  BY DEF TargetsAreStored, ClosingTyped, RequestsHaveIds, Stored, ConnectionsTyped, HandlerStates
<1>8. \A m \in Conns \ {n} : /\ handler'[m] = handler[m] /\ id'[m] = id[m]
                             /\ loop'[m] = loop[m] /\ sock'[m] = sock[m]
  BY <1>1, <1>2, <1>3, <1>4 DEF ConnectionsTyped
<1>9. \A m \in Conns : Stored(m) => Stored(m)' /\ id'[m] = id[m] /\ sock'[m] = sock[m]
  BY <1>1, <1>2, <1>4, <1>8 DEF Stored
<1>10. ConnectionsTyped'
  <2>1. handler' \in [Conns -> HandlerStates] /\ id' \in [Conns -> Ids \cup {NoId}]
    BY <1>1, <1>2 DEF ConnectionsTyped
  <2>2. sock' \in [Conns -> {"none", "open", "closed"}]
    BY <1>4 DEF ConnectionsTyped
  <2>3. loop' \in [Conns -> LoopStates]
    BY <1>3 DEF ConnectionsTyped, LoopStates, Reading
  <2>4. connections' \in [Ids -> 0..MaxConns]
    BY <1>0, <1>5 DEF ConnectionsTyped
  <2> QED
    BY <1>6, <2>1, <2>2, <2>3, <2>4 DEF ConnectionsTyped
<1>11. ClosingTyped' /\ CloseAllIsQuiet'
  BY <1>1, <1>3 DEF ClosingTyped, CloseAllIsQuiet, ConnectionsTyped, Talking
<1>12. RequestsHaveIds'
  <2>1. handler'[n] # "none" /\ id'[n] # NoId
    BY <1>0, <1>1, <1>2
  <2>2. handler'[n] \notin {"replying", "done"} => loop'[n] = "none"
    BY <1>1, <1>3, <1>7 DEF Stored, ConnectionsTyped, HandlerStates
  <2> QED
    BY <1>8, <2>1, <2>2 DEF RequestsHaveIds
<1>13. EntriesAreServed'
  <2> SUFFICES ASSUME NEW i \in Ids, connections'[i] # None
               PROVE  /\ id'[connections'[i]] = i
                      /\ Stored(connections[i])'
                      /\ loop'[connections'[i]] # "done"
    BY DEF EntriesAreServed
  <2>1. CASE connections'[i] = connections[i]
    <3>1. connections[i] \in Conns
      BY <2>1, ConnsAreNumbers DEF ConnectionsTyped
    <3> QED
      BY <1>3, <1>9, <2>1, <3>1 DEF EntriesAreServed, Stored, ConnectionsTyped
  <2>2. CASE connections'[i] # connections[i]
    <3>1. i = id[n] /\ connections'[i] = n /\ handler[n] = "storing" /\ handler'[n] = "spawning"
      BY <1>5, <2>2 DEF ConnectionsTyped
    <3> QED
      BY <1>2, <1>3, <1>7, <3>1 DEF Stored
  <2> QED
    BY <2>1, <2>2
<1>14. TargetsAreStored'
  BY <1>1, <1>9 DEF TargetsAreStored, ClosingTyped
<1>15. CancelledAreShut'
  BY <1>1, <1>9 DEF CancelledAreShut, TargetsAreStored, ClosingTyped
<1>16. LoopsLeaveForAReason'
  <2>1. loop'[n] \in {"leaving", "done"} => loop'[n] = loop[n]
    BY <1>3 DEF ConnectionsTyped
  <2> QED
    BY <1>1, <1>8, <2>1 DEF LoopsLeaveForAReason, CtxDone
<1>17. LoopsAreReachable'
  <2> SUFFICES ASSUME NEW m \in Conns, OwnId(m)',
                      handler'[m] = "spawning" \/ loop'[m] \in Reading
               PROVE  Reachable(m)'
    BY DEF LoopsAreReachable
  <2>1. CASE m = n /\ handler[n] = "storing"
    BY <1>2, <1>5, <2>1 DEF Reachable, ConnectionsTyped
  <2>2. CASE m = n /\ handler[n] # "storing"
    <3>1. handler[n] = "spawning" \/ loop[n] \in Reading
      BY <1>1, <1>3, <2>2 DEF ConnectionsTyped
    <3>2. Stored(n)
      BY <1>7, <3>1 DEF Stored, Reading
    <3>3. id' = id /\ connections' = connections
      BY <1>2, <1>5, <2>2, <3>2 DEF Stored
    <3> QED
      BY <1>1, <1>9, <2>2, <3>1, <3>2, <3>3 DEF LoopsAreReachable, Reachable, OwnId
  <2>3. CASE m # n
    <3>1. handler[m] = "spawning" \/ loop[m] \in Reading
      BY <1>8, <2>3
    <3>2. id'[m] = id[m] /\ id[m] # id'[n] /\ id[m] \in Ids
      BY <1>8, <2>3, <3>1 DEF OwnId, RequestsHaveIds, ConnectionsTyped, HandlerStates, Reading
    <3>3. OwnId(m)
      <4>1. ASSUME NEW k \in Conns \ {m}, id[k] = id[m]
            PROVE  FALSE
        BY <1>0, <1>2, <1>8, <2>3, <3>2, <4>1 DEF OwnId, RequestsHaveIds
      <4> QED
        BY <4>1 DEF OwnId
    <3>4. connections'[id[m]] = connections[id[m]]
      <4>1. id[n] # id[m]
        BY <2>3, <3>3 DEF OwnId
      <4> QED
        BY <1>5, <3>2, <4>1 DEF ConnectionsTyped
    <3> QED
      BY <1>1, <1>8, <2>3, <3>1, <3>2, <3>3, <3>4 DEF LoopsAreReachable, Reachable
  <2> QED
    BY <2>1, <2>2, <2>3
<1>18. WordsAreLast'
  BY <1>1, <1>3, <1>8 DEF WordsAreLast, CtxDone, ConnectionsTyped
<1> QED
  BY <1>10, <1>11, <1>12, <1>13, <1>14, <1>15, <1>16, <1>17, <1>18

\* receiveLoop.
LEMMA ReceivingKeepsIInv ==
  ASSUME IInv, NEW n \in Conns, Receiving(n)
  PROVE  IInv'
<1> USE DEF IInv, connectVars, loopVars, agentVars, stopVars
<1>1. UNCHANGED <<connectVars, sock, closed, cancelled, agentVars, toClose, mgrDone>>
  BY DEF Receiving, LoopTop, LoopFrame, LoopForwarded, LoopFails, LoopError, LoopReported,
     LoopLeave, LoopAt
<1>2. /\ loop' = [loop EXCEPT ![n] = loop'[n]]
      /\ loop[n] \in {"leaving"} \cup Reading \cup Talking
      /\ loop'[n] \in {"leaving", "done"} \cup Reading \cup Talking
      /\ loop'[n] \in Reading => loop[n] \in Reading
      /\ loop'[n] \in Talking => loop[n] \in Talking \/ (loop[n] = "top" /\ ~CtxDone(n))
      /\ loop'[n] = "leaving" => CtxDone(n) \/ n \in ended'
      /\ loop'[n] = "done" => loop[n] = "leaving"
  BY DEF Receiving, LoopTop, LoopFrame, LoopForwarded, LoopFails, LoopError, LoopReported,
     LoopLeave, LoopAt, ConnectionsTyped, Reading, Talking
<1>3. IF loop'[n] = "done"
      THEN connections' = [connections EXCEPT ![id[n]] = None] /\ Release(n)
      ELSE UNCHANGED <<connections, closeAll>>
  BY DEF Receiving, LoopTop, LoopFrame, LoopForwarded, LoopFails, LoopError, LoopReported,
     LoopLeave, LoopAt, ConnectionsTyped
<1>4. ended \subseteq ended' /\ ended' \subseteq Conns
  BY DEF Receiving, LoopTop, LoopFrame, LoopForwarded, LoopFails, LoopError, LoopReported,
     LoopLeave, ClosingTyped
<1>5. /\ loop' \in [Conns -> LoopStates]
      /\ \A m \in Conns \ {n} : loop'[m] = loop[m]
  BY <1>2 DEF ConnectionsTyped, LoopStates
<1>6. /\ closeAll' \in StopStates
      /\ closeAll' = "idle" <=> closeAll = "idle"
      /\ closeAll' = "done" <=> closeAll = "done"
  BY <1>3 DEF Release, ClosingTyped, StopStates
<1>7. ConnectionsTyped'
  <2>1. connections' \in [Ids -> 0..MaxConns]
    BY <1>3, ConnsAreNumbers DEF ConnectionsTyped
  <2> QED
    BY <1>1, <1>5, <2>1 DEF ConnectionsTyped
<1>8. WordsAreLast' /\ lastWords' \in [Conns -> Nat]
  <2>1. CASE loop[n] \in {"forwarding", "reporting"} /\ loop'[n] # "done"
    <3>1. /\ lastWords' = IF CtxDone(n) THEN [lastWords EXCEPT ![n] = @ + 1] ELSE lastWords
          /\ loop'[n] \in {"top", "leaving"}
      BY <2>1 DEF Receiving, LoopTop, LoopFrame, LoopForwarded, LoopFails, LoopError,
         LoopReported, LoopLeave, LoopAt, Spoken, ConnectionsTyped
    <3>2. lastWords[n] = 0
      BY <2>1 DEF WordsAreLast
    <3>3. lastWords' \in [Conns -> Nat] /\ (~CtxDone(n) => lastWords'[n] = 0)
      BY <3>1, <3>2 DEF ClosingTyped
    <3>4. CtxDone(n) => lastWords'[n] = 1
      BY <3>1, <3>2 DEF ClosingTyped
    <3>5. \A m \in Conns \ {n} : lastWords'[m] = lastWords[m]
      BY <3>1 DEF ClosingTyped
    <3> QED
      BY <1>1, <1>5, <3>1, <3>3, <3>4, <3>5 DEF WordsAreLast, CtxDone
  <2>2. CASE loop[n] \notin {"forwarding", "reporting"} /\ loop'[n] # "done"
    <3>1. lastWords' = lastWords
      BY <2>2 DEF Receiving, LoopTop, LoopFrame, LoopForwarded, LoopFails, LoopError,
         LoopReported, LoopLeave, LoopAt, ConnectionsTyped
    <3>2. lastWords[n] # 0 => loop'[n] \in {"top", "leaving"}
      BY <2>2 DEF WordsAreLast, Receiving, LoopTop, LoopFrame, LoopForwarded, LoopFails,
         LoopError, LoopReported, LoopLeave, LoopAt, ConnectionsTyped
    <3> QED
      BY <1>1, <1>5, <3>1, <3>2 DEF WordsAreLast, CtxDone, ClosingTyped
  <2>3. CASE loop'[n] = "done"
    <3>1. lastWords' = [lastWords EXCEPT ![n] = 0]
      BY <2>3 DEF Receiving, LoopTop, LoopFrame, LoopForwarded, LoopFails, LoopError,
         LoopReported, LoopLeave, LoopAt, ConnectionsTyped
    <3> QED
      BY <1>1, <1>5, <3>1 DEF WordsAreLast, CtxDone, ClosingTyped
  <2> QED
    BY <2>1, <2>2, <2>3
<1>9. ClosingTyped'
  BY <1>1, <1>4, <1>6, <1>8 DEF ClosingTyped
<1>10. RequestsHaveIds'
  <2>1. handler[n] \notin HandlerStates \ {"replying", "done"}
    BY <1>2 DEF RequestsHaveIds, Reading, Talking
  <2> QED
    BY <1>1, <1>5, <2>1 DEF RequestsHaveIds
<1>11. \A i \in Ids : connections'[i] \in {connections[i], None}
  BY <1>3 DEF ConnectionsTyped
<1>12. EntriesAreServed'
  <2> SUFFICES ASSUME NEW i \in Ids, connections'[i] # None
               PROVE  /\ id'[connections'[i]] = i
                      /\ Stored(connections[i])'
                      /\ loop'[connections'[i]] # "done"
    BY DEF EntriesAreServed
  <2>1. connections'[i] = connections[i] /\ connections[i] \in Conns
    BY <1>11, ConnsAreNumbers DEF ConnectionsTyped
  <2>2. id[connections[i]] = i /\ Stored(connections[i]) /\ loop[connections[i]] # "done"
    BY <2>1 DEF EntriesAreServed
  <2>3. loop'[connections[i]] # "done"
    BY <1>3, <1>5, <2>1, <2>2 DEF ConnectionsTyped
  <2> QED
    BY <1>1, <2>1, <2>2, <2>3 DEF Stored
<1>13. TargetsAreStored' /\ CancelledAreShut'
  BY <1>1 DEF TargetsAreStored, CancelledAreShut, Stored
<1>14. LoopsLeaveForAReason'
  <2>1. loop'[n] \in {"leaving", "done"} => n \in ended' \/ CtxDone(n)
    BY <1>2, <1>4 DEF LoopsLeaveForAReason
  <2> QED
    BY <1>1, <1>4, <1>5, <2>1 DEF LoopsLeaveForAReason, CtxDone
<1>15. LoopsAreReachable'
  <2> SUFFICES ASSUME NEW m \in Conns, OwnId(m),
                      handler[m] = "spawning" \/ loop'[m] \in Reading
               PROVE  Reachable(m)'
    BY <1>1 DEF LoopsAreReachable, OwnId
  <2>1. handler[m] = "spawning" \/ loop[m] \in Reading
    BY <1>2, <1>5
  <2>2. Reachable(m) /\ id[m] \in Ids
    BY <2>1 DEF LoopsAreReachable, RequestsHaveIds, ConnectionsTyped, HandlerStates, Reading
  <2>3. connections'[id[m]] = connections[id[m]]
    <3>1. CASE m = n
      <4>1. loop'[n] # "done"
        BY <1>2, <2>1, <3>1 DEF RequestsHaveIds, HandlerStates, Reading
      <4> QED
        BY <1>3, <4>1
    <3>2. CASE m # n
      BY <1>3, <2>2, <3>2 DEF OwnId, ConnectionsTyped
    <3> QED
      BY <3>1, <3>2
  <2> QED
    BY <1>1, <2>2, <2>3 DEF Reachable
<1>16. CloseAllIsQuiet'
  BY <1>1, <1>2, <1>5, <1>6 DEF CloseAllIsQuiet, CtxDone
<1> QED
  BY <1>7, <1>8, <1>9, <1>10, <1>12, <1>13, <1>14, <1>15, <1>16

\* Close and closeConnection.
LEMMA ClosingKeepsIInv ==
  ASSUME IInv, NEW a \in Agents, Closing(a)
  PROVE  IInv'
<1> USE DEF IInv, connectVars, loopVars, agentVars, stopVars
<1>1. UNCHANGED <<connectVars, loopVars, stopVars>>
  BY DEF Closing, CloseRequest, Mark, Cancel, SendClose, Shut, Delete
<1>2. \A n \in Conns : Stored(n) => id[n] \in Ids
  BY DEF RequestsHaveIds, ConnectionsTyped, HandlerStates, Stored
<1>3. \A n \in 0..MaxConns : n # None => n \in Conns
  BY ConnsAreNumbers
<1>4. /\ agent' \in [Agents -> AgentStates] /\ target' \in [Agents -> 0..MaxConns]
      /\ \A b \in Agents \ {a} : agent'[b] = agent[b] /\ target'[b] = target[b]
      /\ asked' \subseteq Ids
      /\ agent[a] \notin {"idle", "done"} /\ agent'[a] \notin {"idle", "done"} =>
           target'[a] = target[a]
      /\ agent'[a] \notin {"idle", "done"} => target'[a] \in Conns /\ Stored(target'[a])
  <2>1. CASE CloseRequest(a)
    <3>1. PICK i \in {id[n] : n \in Conns} \ {NoId} :
            IF connections[i] = None
            THEN /\ agent' = [agent EXCEPT ![a] = "done"]
                 /\ asked' = asked \cup {i}
                 /\ UNCHANGED target
            ELSE /\ agent' = [agent EXCEPT ![a] = "marking"]
                 /\ target' = [target EXCEPT ![a] = connections[i]]
                 /\ UNCHANGED asked
      BY <2>1 DEF CloseRequest
    <3>2. i \in Ids /\ connections[i] \in 0..MaxConns
      BY DEF ConnectionsTyped
    <3>3. CASE connections[i] = None
      BY <2>1, <3>1, <3>2, <3>3 DEF CloseRequest, ClosingTyped, AgentStates
    <3>4. CASE connections[i] # None
      <4>1. connections[i] \in Conns /\ Stored(connections[i])
        BY <1>3, <3>2, <3>4 DEF EntriesAreServed
      <4> QED
        BY <2>1, <3>1, <3>2, <3>4, <4>1 DEF CloseRequest, ClosingTyped, AgentStates
    <3> QED
      BY <3>3, <3>4
  <2>2. CASE ~CloseRequest(a)
    <3>1. /\ agent[a] \notin {"idle", "done"}
          /\ target' = [target EXCEPT ![a] = target'[a]]
          /\ target'[a] = IF agent'[a] \in {"idle", "done"} THEN None ELSE target[a]
          /\ agent' = [agent EXCEPT ![a] = agent'[a]] /\ agent'[a] \in AgentStates
          /\ asked' \in {asked, asked \cup {id[target[a]]}}
      BY <2>2 DEF Closing, Mark, Cancel, SendClose, Shut, Delete, Finish, ClosingTyped, AgentStates
    <3>2. target[a] \in Conns /\ Stored(target[a]) /\ id[target[a]] \in Ids
      BY <1>2, <3>1 DEF TargetsAreStored
    <3> QED
      BY <3>1, <3>2, ConnsAreNumbers DEF ClosingTyped
  <2> QED
    BY <2>1, <2>2
<1>5. /\ agent'[a] = "cancelling" => target[a] \in closed' /\ agent[a] = "marking"
      /\ agent'[a] = "sending" => target[a] \in cancelled' /\ agent[a] = "cancelling"
      /\ agent'[a] = "shutting" => agent[a] = "sending"
      /\ agent'[a] = "deleting" => sock' = [sock EXCEPT ![target[a]] = "closed"] /\ agent[a] = "shutting"
      /\ agent[a] = "sending" => agent'[a] = "shutting"
      /\ closed' = closed \/ (agent[a] = "marking" /\ closed' = closed \cup {target[a]})
      /\ IF agent[a] = "cancelling"
         THEN cancelled' = cancelled \cup {target[a]} /\ agent'[a] = "sending"
         ELSE cancelled' = cancelled
      /\ IF agent[a] = "shutting"
         THEN sock' = [sock EXCEPT ![target[a]] = "closed"]
         ELSE sock' = sock
      /\ IF agent[a] = "deleting"
         THEN connections' = [connections EXCEPT ![id[target[a]]] = None]
         ELSE connections' = connections
  BY DEF Closing, CloseRequest, Mark, Cancel, SendClose, Shut, Delete, Finish, ClosingTyped
<1>6. agent[a] \notin {"idle", "done"} => target[a] \in Conns /\ Stored(target[a])
  BY DEF TargetsAreStored
<1>7. /\ sock' \in [Conns -> {"none", "open", "closed"}]
      /\ \A n \in Conns : sock[n] = "closed" => sock'[n] = "closed"
  BY <1>5, <1>6 DEF ConnectionsTyped
<1>8. connections' \in [Ids -> 0..MaxConns]
  BY <1>5, ConnsAreNumbers DEF ConnectionsTyped
<1>9. closed' \subseteq Conns /\ cancelled' \subseteq closed' /\ closed \subseteq closed'
  BY <1>5, <1>6 DEF ClosingTyped, TargetsAreStored
<1>10. ConnectionsTyped' /\ RequestsHaveIds' /\ CloseAllIsQuiet'
  BY <1>1, <1>7, <1>8 DEF ConnectionsTyped, RequestsHaveIds, CloseAllIsQuiet
<1>11. ClosingTyped'
  BY <1>1, <1>4, <1>9 DEF ClosingTyped
<1>12. EntriesAreServed'
  <2>1. \A i \in Ids : connections'[i] \in {connections[i], None}
    BY <1>5 DEF ConnectionsTyped
  <2> QED
    BY <1>1, <2>1 DEF EntriesAreServed, Stored
<1>13. TargetsAreStored'
  <2>1. /\ agent'[a] \in {"cancelling", "sending", "shutting", "deleting"} => target'[a] \in closed'
        /\ agent'[a] \in {"sending", "shutting", "deleting"} => target'[a] \in cancelled'
        /\ agent'[a] = "deleting" => sock'[target'[a]] = "closed"
    <3>1. CASE agent'[a] = "cancelling"
      BY <1>4, <1>5, <3>1
    <3>2. CASE agent'[a] \in {"sending", "shutting"}
      BY <1>4, <1>5, <1>9, <3>2 DEF TargetsAreStored
    <3>3. CASE agent'[a] = "deleting"
      BY <1>4, <1>5, <1>6, <1>9, <3>3 DEF TargetsAreStored, ConnectionsTyped
    <3> QED
      BY <3>1, <3>2, <3>3
  <2>2. \A b \in Agents \ {a} :
          /\ agent'[b] \notin {"idle", "done"} => target'[b] \in Conns /\ Stored(target'[b])
          /\ agent'[b] \in {"cancelling", "sending", "shutting", "deleting"} => target'[b] \in closed'
          /\ agent'[b] \in {"sending", "shutting", "deleting"} => target'[b] \in cancelled'
          /\ agent'[b] = "deleting" => sock'[target'[b]] = "closed"
    <3> SUFFICES ASSUME NEW b \in Agents \ {a}
                 PROVE  /\ agent[b] \notin {"idle", "done"} => target[b] \in Conns /\ Stored(target[b])
                        /\ agent[b] \in {"cancelling", "sending", "shutting", "deleting"} => target[b] \in closed'
                        /\ agent[b] \in {"sending", "shutting", "deleting"} => target[b] \in cancelled'
                        /\ agent[b] = "deleting" => sock'[target[b]] = "closed"
      BY <1>4
    <3>1. cancelled \subseteq cancelled'
      BY <1>5
    <3> QED
      BY <1>7, <1>9, <3>1 DEF TargetsAreStored
  <2>3. \A n \in toClose \cup closed' : Stored(n)
    BY <1>5, <1>6 DEF TargetsAreStored
  <2> QED
    BY <1>1, <1>4, <2>1, <2>2, <2>3 DEF TargetsAreStored, Stored
<1>14. CancelledAreShut'
  <2> SUFFICES ASSUME NEW n \in cancelled', sock'[n] # "closed"
               PROVE  \E b \in Agents : target'[b] = n /\ agent'[b] \in {"sending", "shutting"}
    BY DEF CancelledAreShut
  <2>1. CASE n \notin cancelled
    BY <1>4, <1>5, <2>1
  <2>2. CASE n \in cancelled
    <3>1. n \in Conns /\ sock[n] # "closed"
      BY <1>7, <2>2 DEF ClosingTyped
    <3>2. PICK b \in Agents : target[b] = n /\ agent[b] \in {"sending", "shutting"}
      BY <2>2, <3>1 DEF CancelledAreShut
    <3>3. b # a \/ agent[a] = "sending"
      BY <1>5, <3>1, <3>2 DEF ConnectionsTyped
    <3> QED
      BY <1>4, <1>5, <3>2, <3>3
  <2> QED
    BY <2>1, <2>2
<1>15. LoopsLeaveForAReason'
  <2>1. cancelled \subseteq cancelled'
    BY <1>5
  <2> QED
    BY <1>1, <2>1 DEF LoopsLeaveForAReason, CtxDone
<1>16. LoopsAreReachable'
  <2> SUFFICES ASSUME NEW n \in Conns, OwnId(n),
                      handler[n] = "spawning" \/ loop[n] \in Reading
               PROVE  Reachable(n)'
    BY <1>1 DEF LoopsAreReachable, OwnId
  <2>1. Reachable(n) /\ id[n] \in Ids
    BY DEF LoopsAreReachable, RequestsHaveIds, ConnectionsTyped, HandlerStates, Reading
  <2>2. cancelled \subseteq cancelled'
    BY <1>5
  <2>3. CASE agent[a] = "deleting" /\ target[a] = n
    BY <1>7, <2>2, <2>3 DEF TargetsAreStored, Reachable
  <2>4. CASE agent[a] = "deleting" /\ target[a] # n
    <3>1. id[target[a]] # id[n]
      BY <1>6, <2>4 DEF OwnId
    <3>2. connections'[id[n]] = connections[id[n]]
      BY <1>5, <2>1, <2>4, <3>1 DEF ConnectionsTyped
    <3> QED
      BY <1>1, <1>7, <2>1, <2>2, <3>2 DEF Reachable
  <2>5. CASE agent[a] # "deleting"
    BY <1>1, <1>5, <1>7, <2>1, <2>2, <2>5 DEF Reachable
  <2> QED
    BY <2>3, <2>4, <2>5
<1>17. WordsAreLast'
  BY <1>1, <1>5 DEF WordsAreLast, CtxDone
<1> QED
  BY <1>10, <1>11, <1>12, <1>13, <1>14, <1>15, <1>16, <1>17

\* CloseAll; its snapshot and its waiting.
LEMMA StopAllKeepsIInv ==
  ASSUME IInv, StopAll
  PROVE  IInv'
<1> USE DEF IInv, connectVars, loopVars, agentVars, stopVars
<1>1. UNCHANGED <<connections, connectVars, sock, closed, cancelled, loopVars, asked>>
  BY DEF StopAll, CloseAllCancel, CloseAllCollect, CloseAllNext, CloseAllWait,
     CloseAllWakes, WaitAt
<1>2. /\ mgrDone => mgrDone'
      /\ closeAll' # "idle" => mgrDone'
      /\ mgrDone' \in BOOLEAN
  BY DEF StopAll, CloseAllCancel, CloseAllCollect, CloseAllNext, CloseAllWait,
     CloseAllWakes, WaitAt, CloseAllIsQuiet, ClosingTyped, StopStates
<1>3. /\ closeAll' \in StopStates
      /\ closeAll' = "done" => \A n \in Conns : loop[n] \notin Talking
  BY DEF StopAll, CloseAllCancel, CloseAllCollect, CloseAllNext, CloseAllWait,
     CloseAllWakes, WaitAt, CloseAllIsQuiet, ClosingTyped, StopStates, NoneRuns, Running, Talking
<1>4. toClose' \subseteq Conns /\ \A n \in toClose' : Stored(n)
  <2>1. CASE CloseAllCollect
    <3>1. \A i \in Ids : connections[i] # None => connections[i] \in Conns /\ Stored(connections[i])
      BY ConnsAreNumbers DEF ConnectionsTyped, EntriesAreServed
    <3> QED
      BY <2>1, <3>1 DEF CloseAllCollect
  <2>2. CASE ~CloseAllCollect
    <3>1. toClose' \subseteq toClose
      BY <2>2 DEF StopAll, CloseAllCancel, CloseAllNext, CloseAllWait,
     CloseAllWakes, WaitAt
    <3> QED
      BY <3>1 DEF ClosingTyped, TargetsAreStored
  <2> QED
    BY <2>1, <2>2
<1>5. \/ UNCHANGED <<agent, target>>
      \/ \E n \in toClose : /\ agent[Stopper] = "idle"
                            /\ target' = [target EXCEPT ![Stopper] = n]
                            /\ agent' = [agent EXCEPT ![Stopper] = "marking"]
  BY DEF StopAll, CloseAllCancel, CloseAllCollect, CloseAllNext, CloseAllWait,
     CloseAllWakes, WaitAt
<1>6. /\ agent' \in [Agents -> AgentStates] /\ target' \in [Agents -> 0..MaxConns]
      /\ \A a \in Agents : \/ agent'[a] = agent[a] /\ target'[a] = target[a]
                           \/ /\ agent[a] = "idle" /\ agent'[a] = "marking"
                              /\ target'[a] \in Conns /\ Stored(target'[a])
  <2>1. CASE UNCHANGED <<agent, target>>
    BY <2>1 DEF ClosingTyped
  <2>2. CASE ~UNCHANGED <<agent, target>>
    <3>1. PICK n \in toClose : /\ agent[Stopper] = "idle"
                               /\ target' = [target EXCEPT ![Stopper] = n]
                               /\ agent' = [agent EXCEPT ![Stopper] = "marking"]
      BY <1>5, <2>2
    <3>2. n \in Conns /\ n \in 0..MaxConns /\ Stored(n)
      BY ConnsAreNumbers DEF ClosingTyped, TargetsAreStored
    <3> QED
      BY <3>1, <3>2 DEF ClosingTyped, AgentStates
  <2> QED
    BY <2>1, <2>2
<1>7. ConnectionsTyped' /\ RequestsHaveIds' /\ EntriesAreServed'
  BY <1>1 DEF ConnectionsTyped, RequestsHaveIds, EntriesAreServed, Stored
<1>8. ClosingTyped' /\ CloseAllIsQuiet'
  BY <1>1, <1>2, <1>3, <1>4, <1>6 DEF ClosingTyped, CloseAllIsQuiet
<1>9. TargetsAreStored'
  BY <1>1, <1>4, <1>6 DEF TargetsAreStored, Stored
<1>10. CancelledAreShut'
  BY <1>1, <1>6 DEF CancelledAreShut
<1>11. LoopsLeaveForAReason' /\ LoopsAreReachable' /\ WordsAreLast'
  BY <1>1, <1>2 DEF LoopsLeaveForAReason, LoopsAreReachable, Reachable, OwnId, CtxDone,
     WordsAreLast
<1> QED
  BY <1>7, <1>8, <1>9, <1>10, <1>11

LEMMA StutterKeepsIInv ==
  ASSUME IInv, UNCHANGED vars
  PROVE  IInv'
BY DEF IInv, ConnectionsTyped, ClosingTyped, RequestsHaveIds, EntriesAreServed, TargetsAreStored,
   CancelledAreShut, LoopsLeaveForAReason, LoopsAreReachable, CloseAllIsQuiet, WordsAreLast,
   Stored, Reachable, OwnId, CtxDone, vars, connectVars, loopVars, agentVars, stopVars

LEMMA NextKeepsIInv == IInv /\ [Next]_vars => IInv'
<1> SUFFICES ASSUME IInv, [Next]_vars PROVE IInv'
  OBVIOUS
<1>1. CASE UNCHANGED vars
  BY <1>1, StutterKeepsIInv
<1>2. ASSUME NEW n \in Conns, Connecting(n) \/ Receiving(n) PROVE IInv'
  BY <1>2, ConnectingKeepsIInv, ReceivingKeepsIInv
<1>3. ASSUME NEW a \in Agents, Closing(a) PROVE IInv'
  BY <1>3, ClosingKeepsIInv
<1>4. CASE StopAll
  BY <1>4, StopAllKeepsIInv
<1> QED
  BY <1>1, <1>2, <1>3, <1>4 DEF Next, Terminated

\* The invariant holds in every reachable state.
THEOREM Invariance == Spec => []IInv
BY InitIInv, NextKeepsIInv, PTL DEF Spec

\* Every variable has its type, and closeConnection cancels a connection only
\* after its closed flag was set.
THEOREM TypeCorrect == Spec => []TypeOK
<1>1. IInv => TypeOK
  BY TypesHaveParts DEF IInv
<1> QED
  BY <1>1, Invariance, PTL

\* The manager's map and the receiveLoops agree: ws_close and CloseAll can end
\* every loop that may still read, an entry leads to a connection of its id that
\* is being served, and a loop is gone only after its end was reported or after
\* its context was cancelled.
THEOREM LoopsMatchTheMap == Spec => []MapMatchesLoops
BY InvariantMatches, Invariance, PTL

\* After its cancel a connection gets one more call of the EventHandler through at
\* most, and after CloseAll no receiveLoop reads or calls it.
THEOREM CancelledLoopsFallSilent == Spec => []CancelSilences
BY InvariantSilences, Invariance, PTL
=============================================================================
