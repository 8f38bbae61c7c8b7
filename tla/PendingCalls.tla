---------------------------- MODULE PendingCalls ----------------------------
(***************************************************************************)
(* Request and reply over the channels client, pkg/channels/client.go:     *)
(* NextRef, SendAndWait and the part of readLoop and handleMessage that    *)
(* routes a phx_reply to the call that waits for it.                       *)
(*                                                                         *)
(* The callers are joinChannel (Start, then the connection monitor) and    *)
(* refreshToken (the refresh loop).  Readers are the readLoop goroutines;  *)
(* there can be two while an old connection is being cleaned up.  The map  *)
(* and the channels are separate: a reader looks the channel up under      *)
(* requestLock and sends on it after the unlock.                           *)
(***************************************************************************)
EXTENDS Naturals

CONSTANTS
  Callers,     \* the goroutines that call SendAndWait
  Readers,     \* the readLoop goroutines
  MaxRef,      \* bound: references handed out
  MaxReplies   \* bound: replies the server sends to one reference

ASSUME CallAssumption == MaxRef \in Nat /\ MaxReplies \in Nat

Refs == 1..MaxRef
None == 0

VARIABLES
  refCounter,       \* c.refCounter
  pendingRequests,  \* c.pendingRequests: reference -> channel, None if absent
  made,             \* how many reply channels were made; they are numbered
  buffer,           \* reference of the reply in each channel, None if empty
  closed,           \* the channels that are closed
  pc,               \* where each caller is
  msgRef,           \* the reference of the caller's message
  replyChan,        \* the caller's reply channel
  outcome,          \* how the call under each reference ended
  asked,            \* the references whose request reached the server
  replies,          \* how many replies the server sent to each reference
  wire,             \* how many of them are still on their way
  held,             \* the reply a reader holds between lookup and send
  panicked          \* the process died in a send on a closed channel

chanVars == <<made, buffer, closed>>
callerVars == <<pc, msgRef, replyChan, outcome>>
serverVars == <<asked, replies, wire>>
vars == <<refCounter, pendingRequests, chanVars, callerVars, serverVars,
          held, panicked>>

CallerStates == {"idle", "numbered", "sending", "waiting", "removing", "closing"}
Outcomes == {"notCalled", "pending", "answered", "failed"}
NoReply == [ref |-> None, chan |-> None]

Init ==
  /\ refCounter = 0
  /\ pendingRequests = [r \in Refs |-> None]
  /\ made = 0
  /\ buffer = [ch \in Refs |-> None]
  /\ closed = {}
  /\ pc = [c \in Callers |-> "idle"]
  /\ msgRef = [c \in Callers |-> None]
  /\ replyChan = [c \in Callers |-> None]
  /\ outcome = [r \in Refs |-> "notCalled"]
  /\ asked = {}
  /\ replies = [r \in Refs |-> 0]
  /\ wire = [r \in Refs |-> 0]
  /\ held = [d \in Readers |-> NoReply]
  /\ panicked = FALSE

-----------------------------------------------------------------------------
(* SendAndWait.                                                            *)

\* Mutant: the counter is read and written without the atomic add, so that
\* two callers can be given the same reference.
NextRefRacy(c) ==
  /\ pc[c] = "idle" /\ ~panicked /\ refCounter < MaxRef
  /\ refCounter' \in {refCounter, refCounter + 1}
  /\ msgRef' = [msgRef EXCEPT ![c] = refCounter + 1]
  /\ pc' = [pc EXCEPT ![c] = "numbered"]
  /\ UNCHANGED <<pendingRequests, chanVars, replyChan, outcome, serverVars,
                 held, panicked>>

NextRef(c) ==
  /\ pc[c] = "idle" /\ ~panicked /\ refCounter < MaxRef
  /\ refCounter' = refCounter + 1
  /\ msgRef' = [msgRef EXCEPT ![c] = refCounter + 1]
  /\ pc' = [pc EXCEPT ![c] = "numbered"]
  /\ UNCHANGED <<pendingRequests, chanVars, replyChan, outcome, serverVars,
                 held, panicked>>

Register(c) ==
  /\ pc[c] = "numbered" /\ ~panicked /\ made < MaxRef
  /\ made' = made + 1
  /\ replyChan' = [replyChan EXCEPT ![c] = made + 1]
  /\ pendingRequests' = [pendingRequests EXCEPT ![msgRef[c]] = made + 1]
  /\ outcome' = [outcome EXCEPT ![msgRef[c]] = "pending"]
  /\ pc' = [pc EXCEPT ![c] = "sending"]
  /\ UNCHANGED <<refCounter, buffer, closed, msgRef, serverVars,
                 held, panicked>>

\* The call ends: what SendAndWait returns is decided, the defers follow.
Decide(c, result) ==
  /\ outcome' = [outcome EXCEPT ![msgRef[c]] = result]
  /\ pc' = [pc EXCEPT ![c] = "removing"]

SendOk(c) ==
  /\ pc[c] = "sending" /\ ~panicked
  /\ asked' = asked \cup {msgRef[c]}
  /\ pc' = [pc EXCEPT ![c] = "waiting"]
  /\ UNCHANGED <<refCounter, pendingRequests, chanVars, msgRef, replyChan, outcome,
                 replies, wire, held, panicked>>

\* Not connected, or the write fails.
SendError(c) ==
  /\ pc[c] = "sending" /\ ~panicked
  /\ Decide(c, "failed")
  /\ UNCHANGED <<refCounter, pendingRequests, chanVars, msgRef, replyChan, serverVars,
                 held, panicked>>

\* case reply := <-replyChan
GetReply(c) ==
  /\ pc[c] = "waiting" /\ ~panicked
  /\ buffer[replyChan[c]] # None
  /\ buffer' = [buffer EXCEPT ![replyChan[c]] = None]
  /\ Decide(c, "answered")
  /\ UNCHANGED <<refCounter, pendingRequests, made, closed, msgRef, replyChan, serverVars,
                 held, panicked>>

\* Mutant: SendAndWait does not give up as long as the channel is empty.
GiveUpNever(c) ==
  /\ pc[c] = "waiting" /\ ~panicked /\ buffer[replyChan[c]] # None
  /\ Decide(c, "failed")
  /\ UNCHANGED <<refCounter, pendingRequests, chanVars, msgRef, replyChan, serverVars,
                 held, panicked>>

\* case <-time.After(timeout) or, once Close cancelled it, <-c.ctx.Done().
\* Either may be chosen although a reply is in the channel.
GiveUp(c) ==
  /\ pc[c] = "waiting" /\ ~panicked
  /\ Decide(c, "failed")
  /\ UNCHANGED <<refCounter, pendingRequests, chanVars, msgRef, replyChan, serverVars,
                 held, panicked>>

\* Mutant: the entry stays in the map.
RemoveNothing(c) ==
  /\ pc[c] = "removing" /\ ~panicked
  /\ pc' = [pc EXCEPT ![c] = "closing"]
  /\ UNCHANGED <<refCounter, pendingRequests, chanVars, msgRef, replyChan, outcome,
                 serverVars, held, panicked>>

\* delete(c.pendingRequests, msg.Ref), under requestLock.
Remove(c) ==
  /\ pc[c] = "removing" /\ ~panicked
  /\ pendingRequests' = [pendingRequests EXCEPT ![msgRef[c]] = None]
  /\ pc' = [pc EXCEPT ![c] = "closing"]
  /\ UNCHANGED <<refCounter, chanVars, msgRef, replyChan, outcome,
                 serverVars, held, panicked>>

\* close(replyChan), after the unlock.
CloseChan(c) ==
  /\ pc[c] = "closing" /\ ~panicked
  /\ closed' = closed \cup {replyChan[c]}
  /\ pc' = [pc EXCEPT ![c] = "idle"]
  /\ UNCHANGED <<refCounter, pendingRequests, made, buffer, msgRef, replyChan, outcome,
                 serverVars, held, panicked>>

-----------------------------------------------------------------------------
(* readLoop and handleMessage, for a phx_reply.                            *)

\* Mutant: a reply goes to whichever call was registered last.
LookupNewest(d) ==
  /\ held[d] = NoReply /\ ~panicked
  /\ \E r \in Refs :
       /\ wire[r] > 0
       /\ wire' = [wire EXCEPT ![r] = @ - 1]
       /\ held' = [held EXCEPT ![d] = [ref |-> r, chan |-> made]]
  /\ UNCHANGED <<refCounter, pendingRequests, chanVars, callerVars, asked, replies,
                 panicked>>

\* A reply is read off the wire and its channel looked up under requestLock.
\* Nobody waits for it: phx_reply has no event handler, so it is dropped.
Lookup(d) ==
  /\ held[d] = NoReply /\ ~panicked
  /\ \E r \in Refs :
       /\ wire[r] > 0
       /\ wire' = [wire EXCEPT ![r] = @ - 1]
       /\ held' = IF pendingRequests[r] = None THEN held
                  ELSE [held EXCEPT ![d] = [ref |-> r, chan |-> pendingRequests[r]]]
  /\ UNCHANGED <<refCounter, pendingRequests, chanVars, callerVars, asked, replies,
                 panicked>>

\* select { case replyChan <- msg: default: }.  A full channel drops the
\* reply, a closed one panics, default or not.
Deliver(d) ==
  LET ch == held[d].chan IN
  /\ held[d] # NoReply /\ ~panicked
  /\ held' = [held EXCEPT ![d] = NoReply]
  /\ \/ /\ ch \in closed
        /\ panicked' = TRUE
        /\ UNCHANGED buffer
     \/ /\ ch \notin closed
        /\ buffer' = [buffer EXCEPT ![ch] = IF @ = None THEN held[d].ref ELSE @]
        /\ UNCHANGED panicked
  /\ UNCHANGED <<refCounter, pendingRequests, made, closed, callerVars, serverVars>>

-----------------------------------------------------------------------------
(* The server and the network.                                             *)

\* The server may reply never, once or more often, and as late as it likes.
ServerReplies ==
  /\ \E r \in asked :
       /\ replies[r] < MaxReplies
       /\ replies' = [replies EXCEPT ![r] = @ + 1]
       /\ wire' = [wire EXCEPT ![r] = @ + 1]
  /\ UNCHANGED <<refCounter, pendingRequests, chanVars, callerVars, asked,
                 held, panicked>>

\* The connection breaks; what was under way is lost.
ConnectionLost ==
  /\ wire' = [r \in Refs |-> 0]
  /\ UNCHANGED <<refCounter, pendingRequests, chanVars, callerVars, asked, replies,
                 held, panicked>>

-----------------------------------------------------------------------------
Caller(c) == \/ NextRef(c) \/ Register(c) \/ SendOk(c) \/ SendError(c)
             \/ GetReply(c) \/ GiveUp(c) \/ Remove(c) \/ CloseChan(c)

Next ==
  \/ \E c \in Callers : Caller(c)
  \/ \E d \in Readers : Lookup(d) \/ Deliver(d)
  \/ ServerReplies \/ ConnectionLost

\* A call under way goes on: the write returns (this module leaves blocked
\* writes to ChannelsClient) and the timer fires.  Nobody has to start a call
\* and the server owes no reply.
Fairness ==
  \A c \in Callers :
    /\ WF_vars(Register(c))
    /\ WF_vars(SendOk(c) \/ SendError(c))
    /\ WF_vars(GetReply(c) \/ GiveUp(c))
    /\ WF_vars(Remove(c))
    /\ WF_vars(CloseChan(c))

Spec == Init /\ [][Next]_vars
FairSpec == Spec /\ Fairness

-----------------------------------------------------------------------------
(* Properties.                                                             *)

\* Every variable has its type, and nobody holds a reference or a channel that
\* was not handed out: NextRef and make are the only source of them.
TypeOK ==
  /\ refCounter \in 0..MaxRef
  /\ pendingRequests \in [Refs -> 0..made]
  /\ made \in 0..MaxRef
  /\ buffer \in [Refs -> 0..MaxRef]
  /\ closed \subseteq 1..made
  /\ pc \in [Callers -> CallerStates]
  /\ msgRef \in [Callers -> 0..refCounter]
  /\ replyChan \in [Callers -> 0..made]
  /\ outcome \in [Refs -> Outcomes]
  /\ asked \subseteq 1..refCounter
  /\ replies \in [Refs -> 0..MaxReplies]
  /\ wire \in [Refs -> 0..MaxReplies]
  /\ held \in [Readers -> [ref : 0..MaxRef, chan : 0..made]]
  /\ panicked \in BOOLEAN

\* A caller inside SendAndWait is registered under its own reference with its
\* own channel: no other call can have overwritten or deleted the entry.
WaiterIsRegistered ==
  \A c \in Callers :
    pc[c] \in {"sending", "waiting", "removing"} =>
      pendingRequests[msgRef[c]] = replyChan[c]

\* The map does not grow: an entry belongs to a call that is still inside
\* SendAndWait.
NoForgottenEntry ==
  \A r \in Refs :
    pendingRequests[r] # None =>
      \E c \in Callers : /\ msgRef[c] = r
                         /\ pc[c] \in {"sending", "waiting", "removing"}

\* The map holds exactly the calls that are inside SendAndWait, each under its
\* own reference and with its own channel, in whatever order they end.
EntriesAreCalls == WaiterIsRegistered /\ NoForgottenEntry

\* A reply in a channel answers the reference of the call that made the
\* channel, even when replies are late, doubled or cross a new call.
OwnReply ==
  \A c \in Callers :
    pc[c] # "idle" /\ pc[c] # "numbered" =>
      buffer[replyChan[c]] \in {None, msgRef[c]}

\* SendAndWait implements CallOutcome.
Abstract == INSTANCE CallOutcome WITH replied <- {r \in Refs : replies[r] > 0}
OutcomeImplemented == Abstract!OutcomeSpec

\* A call comes back once its write does: with its reply, an error or the
\* timeout.
CallReturns ==
  \A c \in Callers : (pc[c] = "sending") ~> (pc[c] = "idle" \/ panicked)

\* handleMessage sends inside select with a default, so that a reply nobody
\* takes any more is dropped with "Reply channel full": routing a reply never
\* brings the process down.
NeverPanics == ~panicked
=============================================================================
