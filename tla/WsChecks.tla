------------------------------ MODULE WsChecks -------------------------------
(***************************************************************************)
(* The ws_check requests of Plugboard beside the proxy requests and Stop:  *)
(* handleWSCheck and sendWSCheckResult of pkg/proxy/websocket.go with      *)
(* CheckSupport of pkg/websocket/manager.go.                               *)
(*                                                                         *)
(* A check is handled by a goroutine that readLoop starts, like a proxy    *)
(* request, but it counts itself nowhere: Stop neither refuses it nor      *)
(* waits for it, and only t.ctx, which its own context is derived from,    *)
(* tells it of a shutdown.                                                 *)
(***************************************************************************)
EXTENDS ProxyRequests

CONSTANT Checks   \* the ws_check requests Plugboard sends

ASSUME ChecksAssumption == IsFiniteSet(Checks) /\ Checks \cap Requests = {}

VARIABLES
  check,      \* where the goroutine of each ws_check is
  supported,  \* the checks whose handshake has succeeded
  open,       \* the checks whose socket is open
  results     \* history: how many ws_check_result each has made

checkVars == <<check, supported, open, results>>
checksVars == <<vars, checkVars>>

CheckStates == {"none", "spawned", "dialing", "closing", "replying", "done"}

ChecksInit ==
  /\ Init
  /\ check = [c \in Checks |-> "none"]
  /\ supported = {} /\ open = {}
  /\ results = [c \in Checks |-> 0]

CheckAt(c, from, to) ==
  /\ Alive
  /\ check[c] = from /\ check' = [check EXCEPT ![c] = to]
  /\ UNCHANGED vars

-----------------------------------------------------------------------------
\* readLoop reads the request: go handler(msg).
CheckArrives(c) ==
  /\ conn
  /\ CheckAt(c, "none", "spawned")
  /\ UNCHANGED <<supported, open, results>>

\* No check_id: nothing can be answered.  A path that buildWSBackendURL
\* refuses is answered without a dial.  Otherwise CheckSupport dials.
CheckBegins(c) ==
  /\ \E to \in {"done", "replying", "dialing"} : CheckAt(c, "spawned", to)
  /\ UNCHANGED <<supported, open, results>>

\* The handshake succeeds within 3 seconds; once the transport is up, t.cancel()
\* does not end it.
CheckSucceeds(c) ==
  /\ CheckAt(c, "dialing", "closing")
  /\ supported' = supported \cup {c} /\ open' = open \cup {c}
  /\ UNCHANGED results

\* Mutant: the dial has no timeout, so that only t.cancel() ends it.
CheckDialsOn(c) ==
  /\ ctxDone
  /\ CheckAt(c, "dialing", "replying")
  /\ UNCHANGED <<supported, open, results>>

\* The backend refuses, or the 3 seconds or t.ctx are over.
CheckFails(c) ==
  /\ CheckAt(c, "dialing", "replying")
  /\ UNCHANGED <<supported, open, results>>

\* Mutant: the socket of a successful check is not closed.
CheckLeavesOpen(c) ==
  /\ CheckAt(c, "closing", "replying")
  /\ UNCHANGED <<supported, open, results>>

\* The close frame, with a deadline of 1 second, then conn.Close().
CheckCloses(c) ==
  /\ CheckAt(c, "closing", "replying")
  /\ open' = open \ {c}
  /\ UNCHANGED <<supported, results>>

\* sendWSCheckResult: client.Send returns; that it has failed is logged only.
CheckReplies(c) ==
  /\ CheckAt(c, "replying", "done")
  /\ results' = [results EXCEPT ![c] = @ + 1]
  /\ UNCHANGED <<supported, open>>

-----------------------------------------------------------------------------
Checking(c) == \/ CheckArrives(c) \/ CheckBegins(c) \/ CheckSucceeds(c) \/ CheckFails(c)
               \/ CheckCloses(c) \/ CheckReplies(c)

ChecksNext == (Next /\ UNCHANGED checkVars) \/ \E c \in Checks : Checking(c)

\* As for the requests; a dial ends by its 3 seconds (CheckFails), and the result
\* need not get sent.
ChecksFairness ==
  /\ Fairness
  /\ WF_checksVars(\E c \in Checks : CheckBegins(c) \/ CheckFails(c) \/ CheckCloses(c))

ChecksSpec == ChecksInit /\ [][ChecksNext]_checksVars
ChecksFairSpec == ChecksSpec /\ ChecksFairness

-----------------------------------------------------------------------------
(* Properties.                                                             *)

\* Every variable has its type.  A check's socket is open between a handshake
\* that succeeded and its close only, and one result at most is made, when the
\* check is over: no check leaves a connection at the backend behind.
ChecksTypeOK ==
  /\ TypeOK
  /\ check \in [Checks -> CheckStates]
  /\ supported \subseteq Checks
  /\ open = {c \in supported : check[c] = "closing"}
  /\ results \in [Checks -> {0, 1}]
  /\ \A c \in Checks : results[c] = 1 => check[c] = "done"

Busy ==
  \/ \E r \in Requests : handler[r] \notin {"none", "done"}
  \/ \E c \in Checks : check[c] \notin {"none", "done"}

\* Plugboard drains what is written: no client.Send waits for it for ever.
SendsReturn ==
  /\ \A r \in Requests : []<>(handler[r] # "answering")
  /\ \A c \in Checks : []<>(check[c] # "replying")

\* Every handler ends that was started, counted or not, whatever the backend and
\* Stop do and however often the connection breaks, for a Plugboard that drains;
\* unless the process panics.  Few requests come here, so that there is a moment
\* at which all have ended.
HandlersEnd == SendsReturn => (Busy ~> (~Busy \/ ~Alive))

\* README.md:21 "Waits for active requests before stopping": when Stop has
\* ended, no check is under way.
StopWaitsForChecks ==
  stop = "closed" => \A c \in Checks : check[c] \in {"none", "done"}
=============================================================================
