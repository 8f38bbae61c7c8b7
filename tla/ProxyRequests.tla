---------------------------- MODULE ProxyRequests ---------------------------
(***************************************************************************)
(* handleProxyRequest and Stop of pkg/proxy/telephone.go: every proxy_req  *)
(* is handled by a goroutine of its own, which readLoop starts, and Stop   *)
(* waits for those that have counted themselves in activeRequests.         *)
(*                                                                         *)
(* What a request carries is abstracted to whether it is valid and has an  *)
(* id to answer; what the backend does, to whether it answers in time.     *)
(***************************************************************************)
EXTENDS Naturals, FiniteSets

CONSTANT Requests   \* the requests Plugboard sends

ASSUME RequestsAssumption == IsFiniteSet(Requests)

VARIABLES
  handler,  \* where the goroutine of each request is
  answer,   \* the proxy_res it has made: none, a status, or "aborted" for a
            \* 502 whose cause is the cancelled t.ctx
  sent,     \* the requests whose proxy_res was written to the connection
  active,   \* t.activeRequests, a WaitGroup
  conn,     \* the Channels client is connected
  ctxDone,  \* t.ctx is cancelled
  stop,     \* where Stop is
  waiter,   \* the goroutine Stop has wait for activeRequests
  forced,   \* Stop went on after 30 seconds
  awaited   \* history: the requests counted when Stop began to wait

requestVars == <<handler, answer, sent>>
stopVars == <<ctxDone, stop, waiter, forced, awaited>>
vars == <<requestVars, active, conn, stopVars>>

Counted == {"validating", "forwarding", "answering", "finishing"}
HandlerStates == {"none", "spawned", "done"} \cup Counted
StopStates == {"running", "sockets", "waiting", "loops", "closing", "closed"}
WaiterStates == {"none", "starting", "waiting", "woken", "done", "panicked"}

Active == {r \in Requests : handler[r] \in Counted}

Init ==
  /\ handler = [r \in Requests |-> "none"]
  /\ answer = [r \in Requests |-> "none"]
  /\ sent = {}
  /\ active = 0
  /\ conn = TRUE
  /\ ctxDone = FALSE /\ stop = "running" /\ waiter = "none" /\ forced = FALSE /\ awaited = {}

\* A panic of any goroutine ends the process.
Alive == waiter # "panicked"

At(r, from, to) ==
  Alive /\ handler[r] = from /\ handler' = [handler EXCEPT ![r] = to]

Answering(r, from, what) ==
  /\ At(r, from, "answering")
  /\ answer' = [answer EXCEPT ![r] = what]
  /\ UNCHANGED <<sent, active, conn, stopVars>>

-----------------------------------------------------------------------------
(* handleMessage, handleProxyRequest, forwardToBackend, sendProxyResponse. *)

\* readLoop reads the request: go handler(msg).
Arrive(r) ==
  /\ conn
  /\ At(r, "none", "spawned")
  /\ UNCHANGED <<answer, sent, active, conn, stopVars>>

\* activeRequests.Add(1), by the goroutine itself.
Count(r) ==
  /\ At(r, "spawned", "validating")
  /\ active' = active + 1
  /\ UNCHANGED <<answer, sent, conn, stopVars>>

\* validateProxyRequest: 400, or nothing for a request without an id.
RejectInvalid(r) == Answering(r, "validating", "400")

\* Mutant: the early return misses activeRequests.Done.
DropUncounted(r) ==
  /\ At(r, "validating", "done")
  /\ UNCHANGED <<answer, sent, active, conn, stopVars>>

DropUnanswerable(r) ==
  /\ At(r, "validating", "finishing")
  /\ UNCHANGED <<answer, sent, active, conn, stopVars>>

Forward(r) ==
  /\ At(r, "validating", "forwarding")
  /\ UNCHANGED <<answer, sent, active, conn, stopVars>>

\* The backend's response was read to its end.
BackendAnswers(r) == ~ctxDone /\ Answering(r, "forwarding", "ok")

\* Refused path, backend error, oversized response, or RequestTimeout.
BackendFails(r) == Answering(r, "forwarding", "502")

\* The context of the request is derived from t.ctx.
Abort(r) == ctxDone /\ Answering(r, "forwarding", "aborted")

\* client.Send returns: it fails without a connection and may fail with one.  It
\* writes with no deadline, and so may not return at all.
Send(r) ==
  /\ At(r, "answering", "finishing")
  /\ \/ conn /\ sent' = sent \cup {r}
     \/ UNCHANGED sent
  /\ UNCHANGED <<answer, active, conn, stopVars>>

\* Done releases a Wait when the count gets to zero.
Release == waiter' = IF waiter = "waiting" /\ active' = 0 THEN "woken" ELSE waiter

\* The deferred activeRequests.Done().
Finish(r) ==
  /\ At(r, "finishing", "done")
  /\ active' = active - 1
  /\ Release
  /\ UNCHANGED <<answer, sent, conn, ctxDone, stop, forced, awaited>>

-----------------------------------------------------------------------------
(* The connection, and Stop.                                               *)

ConnectionLost ==
  /\ Alive /\ conn
  /\ conn' = FALSE
  /\ UNCHANGED <<requestVars, active, stopVars>>

\* The monitor reconnects; an attempt begun before t.cancel() may succeed
\* after it, until t.wg.Wait() is over.
Reconnect ==
  /\ Alive /\ ~conn /\ stop \notin {"closing", "closed"}
  /\ conn' = TRUE
  /\ UNCHANGED <<requestVars, active, stopVars>>

StopAt(from, to) ==
  Alive /\ stop = from /\ stop' = to

\* wsManager.CloseAll()
StopBegins ==
  /\ StopAt("running", "sockets")
  /\ UNCHANGED <<requestVars, active, conn, ctxDone, waiter, forced, awaited>>

\* t.cancel(), and a goroutine is started that waits for activeRequests.
StopCancels ==
  /\ StopAt("sockets", "waiting")
  /\ ctxDone' = TRUE /\ waiter' = "starting"
  /\ awaited' = Active
  /\ UNCHANGED <<requestVars, active, conn, forced>>

WaiterAt(from, to) ==
  /\ waiter = from /\ waiter' = to
  /\ UNCHANGED <<requestVars, active, conn, ctxDone, stop, forced, awaited>>

\* Wait returns at once, or waits for the Done that gets the count to zero.
WaiterStarts == WaiterAt("starting", IF active = 0 THEN "done" ELSE "waiting")

\* Wait, when it runs again after its release, looks at the count once more:
\* "WaitGroup is reused before previous Wait has returned".
WaiterWakes == WaiterAt("woken", IF active = 0 THEN "done" ELSE "panicked")

\* Mutant: the result of Wait is not waited for.
StopHurries ==
  /\ StopAt("waiting", "loops")
  /\ UNCHANGED <<requestVars, active, conn, ctxDone, waiter, forced, awaited>>

WaitEnds ==
  /\ StopAt("waiting", "loops")
  /\ waiter = "done"
  /\ UNCHANGED <<requestVars, active, conn, ctxDone, waiter, forced, awaited>>

\* After 30 seconds; a Wait that ends just then may be passed over.
WaitTimesOut ==
  /\ StopAt("waiting", "loops")
  /\ forced' = TRUE
  /\ UNCHANGED <<requestVars, active, conn, ctxDone, waiter, awaited>>

\* t.wg.Wait(): the background goroutines see the cancelled t.ctx.
LoopsEnd ==
  /\ StopAt("loops", "closing")
  /\ UNCHANGED <<requestVars, active, conn, ctxDone, waiter, forced, awaited>>

\* client.Close(); the token store and the health server follow.
CloseClient ==
  /\ StopAt("closing", "closed")
  /\ conn' = FALSE
  /\ UNCHANGED <<requestVars, active, ctxDone, waiter, forced, awaited>>

Terminated ==
  /\ stop = "closed" \/ ~Alive
  /\ UNCHANGED vars

-----------------------------------------------------------------------------
Handling(r) ==
  \/ Arrive(r) \/ Count(r) \/ RejectInvalid(r) \/ DropUnanswerable(r) \/ Forward(r)
  \/ BackendAnswers(r) \/ BackendFails(r) \/ Abort(r) \/ Send(r) \/ Finish(r)
Stopping == \/ StopBegins \/ StopCancels \/ WaitEnds \/ WaitTimesOut
            \/ WaiterStarts \/ WaiterWakes \/ LoopsEnd \/ CloseClient

Next ==
  \/ \E r \in Requests : Handling(r)
  \/ ConnectionLost \/ Reconnect
  \/ Stopping
  \/ Terminated

\* What a handler does by itself.  That it gets its response sent is not up to it.
Progress == \E r \in Requests :
  \/ Count(r) \/ RejectInvalid(r) \/ DropUnanswerable(r) \/ Forward(r)
  \/ BackendFails(r) \/ Finish(r)

\* Goroutines run, and a forwarded request ends by RequestTimeout at the latest
\* (BackendFails stays possible).  Requests need not come, the connection need not
\* break or come back, and Stop need not be called nor get on.  One condition does
\* for all: a behaviour has finitely many of these steps, so that none of them can
\* stay enabled.
Fairness == WF_vars(Progress)

Spec == Init /\ [][Next]_vars
FairSpec == Spec /\ Fairness

-----------------------------------------------------------------------------
(* Properties.                                                             *)

\* Every variable has its type.  The WaitGroup in particular never goes below
\* zero, which would make Done panic.
TypeOK ==
  /\ handler \in [Requests -> HandlerStates]
  /\ answer \in [Requests -> {"none", "400", "502", "ok", "aborted"}]
  /\ sent \subseteq Requests /\ awaited \subseteq Requests
  /\ active \in Nat
  /\ conn \in BOOLEAN /\ ctxDone \in BOOLEAN /\ forced \in BOOLEAN
  /\ stop \in StopStates /\ waiter \in WaiterStates

\* activeRequests counts the goroutines between Add and Done, on each of the
\* four ways out of the handler: a wait can neither hang nor end too early.
CountIsExact == active = Cardinality(Active)

\* When Stop has not been forced, each request it found counted is finished
\* before the background goroutines and the client are.
AwaitedAreFinished ==
  stop \in {"loops", "closing", "closed"} /\ ~forced =>
    \A r \in awaited : handler[r] = "done"

\* README.md:21 "Waits for active requests before stopping": when Stop has
\* ended in time, no request that had arrived is unfinished.
ArrivedAreFinished ==
  stop = "closed" /\ ~forced => \A r \in Requests : handler[r] \in {"none", "done"}

\* telephone.go:283 has "Wait for active requests to complete (with timeout)":
\* the wait ends in one of these two ways.  A request that counts itself
\* between the last Done and the return of Wait makes it panic.
WaitReturns == Alive

\* README.md:369 "Graceful shutdown waiting for active requests to complete":
\* a request in progress is not answered with a 502 because of the shutdown.
ShutdownAbortsNothing == \A r \in Requests : answer[r] # "aborted"
=============================================================================
