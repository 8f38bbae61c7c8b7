---------------------------- MODULE Reconnection ----------------------------
(***************************************************************************)
(* monitorConnection, reconnect and joinChannel, with heartbeatLoop beside *)
(* them (pkg/proxy/reconnect.go, pkg/proxy/telephone.go).                  *)
(*                                                                         *)
(* The Channels client is what its users see of it: connected or not.      *)
(* Time passes in heartbeat intervals; the monitor looks more often.  Only *)
(* the monitor calls reconnect, so ErrReconnectionInProgress cannot occur. *)
(* attemptConnection with its tokens is in TokenLifecycle: here it connects*)
(* or fails.  How long the monitor sleeps in between is Backoff's.         *)
(***************************************************************************)
EXTENDS Backoff

CONSTANTS
  MaxRetries,   \* config.MaxRetries
  InitialBackoff, MaxBackoff,  \* config: not checked to be positive, or in order
  MaxAttempts,  \* bound: attempts are counted up to here
  MaxAge        \* bound: intervals are counted up to here

Timeout == 3    \* heartbeatTimeout, in heartbeat intervals
Never == -1     \* the zero time of lastHeartbeat

ASSUME ReconnectionAssumption ==
  /\ MaxRetries \in Int
  /\ InitialBackoff \in Durations /\ MaxBackoff \in Durations
  /\ MaxAttempts \in Nat /\ MaxAttempts > MaxRetries /\ MaxAttempts > 0
  /\ MaxAge \in Nat /\ MaxAge > Timeout

VARIABLES
  conn,      \* t.client.IsConnected()
  alive,     \* Plugboard still answers on the connection
  joined,    \* the channel is joined on this connection
  stopping,  \* t.ctx is cancelled
  monitor,   \* where monitorConnection is
  attempt,   \* the locals of reconnect
  backoff,
  beat,      \* where heartbeatLoop is
  age,       \* intervals since lastHeartbeat
  uptime,    \* history: intervals since the connection was established
  tried      \* history: connection attempts since the channel was last joined

linkVars == <<conn, alive, joined>>
monitorVars == <<monitor, attempt, backoff>>
historyVars == <<uptime, tried>>
vars == <<linkVars, stopping, monitorVars, beat, age, historyVars>>

InReconnect == {"top", "connecting", "joining", "backoff"}
MonitorStates == {"watching", "suspecting", "done"} \cup InReconnect
BeatStates == {"idle", "due", "sending", "sent", "done"}

UpTo(bound, n) == IF n > bound THEN bound ELSE n

\* Start has connected, joined the channel and started both loops.
Init ==
  /\ conn = TRUE /\ alive = TRUE /\ joined = TRUE
  /\ stopping = FALSE
  /\ monitor = "watching" /\ attempt = 0 /\ backoff = InitialBackoff
  /\ beat = "idle" /\ age = Never
  /\ uptime = 0 /\ tried = 0

-----------------------------------------------------------------------------
(* The network, time, and Stop.                                            *)

\* readLoop notices that the connection is lost.
ConnectionLost ==
  /\ conn
  /\ conn' = FALSE /\ joined' = FALSE
  /\ UNCHANGED <<alive, stopping, monitorVars, beat, age, historyVars>>

\* Plugboard is gone without a trace: nothing can be read, and what is
\* written goes into the buffers of the network.
PlugboardFallsSilent ==
  /\ conn /\ alive
  /\ alive' = FALSE /\ joined' = FALSE
  /\ UNCHANGED <<conn, stopping, monitorVars, beat, age, historyVars>>

\* An interval is over.  A tick the heartbeat loop has not taken is dropped.
Tick ==
  /\ age' = IF age = Never THEN Never ELSE UpTo(MaxAge, age + 1)
  /\ uptime' = UpTo(MaxAge, uptime + 1)
  /\ beat' = IF beat = "idle" THEN "due" ELSE beat
  /\ UNCHANGED <<linkVars, stopping, monitorVars, tried>>

StopBegins ==
  /\ ~stopping
  /\ stopping' = TRUE
  /\ UNCHANGED <<linkVars, monitorVars, beat, age, historyVars>>

-----------------------------------------------------------------------------
(* heartbeatLoop and sendHeartbeat.                                        *)

HeartbeatTick ==
  /\ beat = "due"
  /\ beat' = IF conn THEN "sending" ELSE "idle"
  /\ UNCHANGED <<linkVars, stopping, monitorVars, age, historyVars>>

SendHeartbeat ==
  /\ beat = "sending"
  /\ \/ conn /\ beat' = "sent"
     \/ beat' = "idle"
  /\ UNCHANGED <<linkVars, stopping, monitorVars, age, historyVars>>

\* lastHeartbeat = time.Now(): it is the time of the send.  The handler of
\* heartbeat_ack changes nothing.
StampHeartbeat ==
  /\ beat = "sent"
  /\ beat' = "idle" /\ age' = 0
  /\ UNCHANGED <<linkVars, stopping, monitorVars, historyVars>>

HeartbeatStops ==
  /\ stopping /\ beat \in {"idle", "due"}
  /\ beat' = "done"
  /\ UNCHANGED <<linkVars, stopping, monitorVars, age, historyVars>>

-----------------------------------------------------------------------------
(* monitorConnection.                                                      *)

MonitorUnchanged == UNCHANGED <<linkVars, stopping, beat, age, historyVars>>

\* The monitor calls reconnect.
ReconnectBegins == monitor' = "top" /\ attempt' = 0 /\ backoff' = InitialBackoff

\* Until the next attempt, or until Stop.
Sleep ==
  /\ monitor' = "backoff"
  /\ backoff' \in calculateBackoffWithJitter(attempt, InitialBackoff, MaxBackoff)

LossSeen ==
  /\ monitor = "watching" /\ ~conn
  /\ ReconnectBegins
  /\ MonitorUnchanged

\* lastHeartbeat is read and compared.
HeartbeatTimeout ==
  /\ monitor = "watching" /\ conn
  /\ age > Timeout
  /\ monitor' = "suspecting"
  /\ UNCHANGED <<attempt, backoff>>
  /\ MonitorUnchanged

\* Disconnect, then reconnect.
ForceDisconnect ==
  /\ monitor = "suspecting"
  /\ conn' = FALSE /\ joined' = FALSE
  /\ ReconnectBegins
  /\ UNCHANGED <<alive, stopping, beat, age, historyVars>>

\* Mutant: t.ctx is looked at only while the connection is healthy.
MonitorStopsIfHealthy ==
  /\ monitor = "watching" /\ stopping /\ conn
  /\ monitor' = "done"
  /\ UNCHANGED <<attempt, backoff>>
  /\ MonitorUnchanged

MonitorStops ==
  /\ monitor = "watching" /\ stopping
  /\ monitor' = "done"
  /\ UNCHANGED <<attempt, backoff>>
  /\ MonitorUnchanged

-----------------------------------------------------------------------------
(* reconnect.                                                              *)

\* Mutant: the attempt is not counted.
ReconnectUncounted ==
  /\ monitor = "top"
  /\ IF stopping
     THEN monitor' = "watching" /\ UNCHANGED <<attempt, tried>>
     ELSE /\ monitor' = "connecting"
          /\ UNCHANGED attempt
          /\ tried' = UpTo(MaxAttempts, tried + 1)
  /\ UNCHANGED <<linkVars, stopping, backoff, beat, age, uptime>>

ReconnectTop ==
  /\ monitor = "top"
  /\ IF stopping
     THEN monitor' = "watching" /\ UNCHANGED <<attempt, tried>>
     ELSE /\ monitor' = "connecting"
          /\ attempt' = UpTo(MaxAttempts, attempt + 1)
          /\ tried' = UpTo(MaxAttempts, tried + 1)
  /\ UNCHANGED <<linkVars, stopping, backoff, beat, age, uptime>>

ConnectOk ==
  /\ monitor = "connecting"
  /\ conn' = TRUE /\ alive' = TRUE /\ joined' = FALSE
  /\ uptime' = 0
  /\ monitor' = "joining"
  /\ UNCHANGED <<stopping, attempt, backoff, beat, age, tried>>

\* Mutant: the monitor ends when reconnect gives up.
ConnectFailsForGood ==
  /\ monitor = "connecting"
  /\ IF MaxRetries > 0 /\ attempt >= MaxRetries
     THEN monitor' = "done" /\ UNCHANGED backoff
     ELSE Sleep
  /\ UNCHANGED attempt
  /\ MonitorUnchanged

\* With MaxRetries > 0 reconnect gives up after as many attempts, and the
\* monitor goes on watching: "will keep retrying indefinitely".
ConnectFails ==
  /\ monitor = "connecting"
  /\ IF MaxRetries > 0 /\ attempt >= MaxRetries
     THEN monitor' = "watching" /\ UNCHANGED backoff
     ELSE Sleep
  /\ UNCHANGED attempt
  /\ MonitorUnchanged

\* Mutant: the heartbeat tracking is not reset.
JoinKeepsAge ==
  /\ monitor = "joining" /\ conn /\ alive
  /\ joined' = TRUE
  /\ monitor' = "watching"
  /\ tried' = 0
  /\ UNCHANGED <<conn, alive, stopping, attempt, backoff, beat, age, uptime>>

\* The reply to phx_join is ok; the heartbeat tracking is reset.
JoinOk ==
  /\ monitor = "joining" /\ conn /\ alive
  /\ joined' = TRUE
  /\ age' = 0
  /\ monitor' = "watching"
  /\ tried' = 0
  /\ UNCHANGED <<conn, alive, stopping, attempt, backoff, beat, uptime>>

\* Mutant: the error of joinChannel is only logged.
JoinErrorLogged ==
  /\ monitor = "joining"
  /\ monitor' = "watching"
  /\ UNCHANGED <<attempt, backoff>>
  /\ MonitorUnchanged

\* A send error, an error reply or no reply in time: Disconnect.
JoinFails ==
  /\ monitor = "joining"
  /\ conn' = FALSE /\ joined' = FALSE
  /\ Sleep
  /\ UNCHANGED <<alive, stopping, attempt, beat, age, historyVars>>

\* time.After, or the cancelled t.ctx.
BackoffEnds ==
  /\ monitor = "backoff"
  /\ \/ monitor' = "top"
     \/ stopping /\ monitor' = "watching"
  /\ UNCHANGED <<attempt, backoff>>
  /\ MonitorUnchanged

-----------------------------------------------------------------------------
Environment == ConnectionLost \/ PlugboardFallsSilent \/ Tick \/ StopBegins
Heartbeat == HeartbeatTick \/ SendHeartbeat \/ StampHeartbeat \/ HeartbeatStops
Monitor == \/ LossSeen \/ HeartbeatTimeout \/ ForceDisconnect \/ MonitorStops
           \/ ReconnectTop \/ ConnectOk \/ ConnectFails \/ JoinOk \/ JoinFails \/ BackoffEnds

Next == Environment \/ Heartbeat \/ Monitor

\* Both goroutines run, timers fire, a dial and the wait for a reply have
\* timeouts.  That the write of a heartbeat or a join returns is supposed of
\* Plugboard: it has no deadline (ChannelsClient has what follows).  Plugboard
\* lets an attempt through again and again (SF): without that nobody could
\* reconnect.  select chooses at random among the cases that are ready, so
\* the cancelled t.ctx is not passed over for ever (SF of MonitorStops).
Fairness ==
  /\ WF_vars(Tick) /\ WF_vars(Heartbeat) /\ SF_vars(HeartbeatStops)
  /\ WF_vars(LossSeen) /\ WF_vars(HeartbeatTimeout) /\ WF_vars(ForceDisconnect)
  /\ SF_vars(MonitorStops) /\ WF_vars(ReconnectTop) /\ WF_vars(BackoffEnds)
  /\ WF_vars(ConnectOk \/ ConnectFails) /\ SF_vars(ConnectOk)
  /\ WF_vars(JoinOk \/ JoinFails) /\ SF_vars(JoinOk)

Spec == Init /\ [][Next]_vars
FairSpec == Spec /\ Fairness

-----------------------------------------------------------------------------
(* Properties.                                                             *)

\* Every variable has its type, and calculateBackoffWithJitter is called with
\* an attempt of at least 1.
TypeOK ==
  /\ conn \in BOOLEAN /\ alive \in BOOLEAN /\ joined \in BOOLEAN
  /\ stopping \in BOOLEAN
  /\ monitor \in MonitorStates /\ attempt \in 0..MaxAttempts
  /\ monitor \in {"connecting", "joining", "backoff"} => attempt > 0
  /\ backoff \in Durations
  /\ beat \in BeatStates /\ age \in Never..MaxAge
  /\ uptime \in 0..MaxAge /\ tried \in 0..MaxAttempts

\* While the monitor takes the connection for a healthy one the channel is
\* joined, or Plugboard has fallen silent: no connection is left half set up
\* by an attempt that failed or was interrupted by Stop.
WatchedIsJoined ==
  monitor \in {"watching", "suspecting", "done"} /\ conn => joined \/ ~alive

\* However often the exponential has overflowed, and whatever the processor
\* makes of that, the monitor sleeps between the two configured durations:
\* neither does it hammer Plugboard without a pause, nor sleep for ever.
DelayInRange ==
  monitor = "backoff" =>
    /\ backoff <= MaxBackoff
    /\ InitialBackoff <= MaxBackoff => backoff >= InitialBackoff

\* A connection is given the whole timeout before it is declared dead: no
\* heartbeat of an earlier connection counts against a new one.
FreshIsKept ==
  [][ForceDisconnect => uptime > Timeout]_vars

\* A lost connection is restored and the channel joined again, whatever
\* MaxRetries is, if Plugboard drains what it is sent.
Restored == ~conn ~> (joined \/ stopping)

\* Both loops end after Stop, even with Plugboard out of reach, if no write to
\* it blocks for ever.
LoopsStop == stopping ~> (monitor = "done" /\ beat = "done")

\* README.md:514: "Connection considered dead if no ack".  A connection on
\* which Plugboard no longer answers is given up.
SilenceIsNoticed == (conn /\ ~alive) ~> (~conn \/ alive \/ stopping)

\* .env.example:64: "Backoff increases exponentially with jitter up to this
\* maximum".  Once the exponential has reached the maximum, a delay is below
\* it by the jitter at most.
BackoffGrows ==
  monitor = "backoff" /\ InitialBackoff * 2^(attempt - 1) >= MaxBackoff =>
    backoff >= MaxBackoff - Quarter(MaxBackoff)

\* .env.example:68: "Maximum number of consecutive reconnection attempts
\* before giving up."  After that many attempts in a row there is no more.
RetriesAreLimited == MaxRetries > 0 => tried <= MaxRetries

\* .env.example:69: "0 to disable reconnection".
ZeroDisables == MaxRetries = 0 => tried = 0
=============================================================================
