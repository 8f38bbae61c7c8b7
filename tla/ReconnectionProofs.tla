------------------------- MODULE ReconnectionProofs --------------------------
(***************************************************************************)
(* Theorems about Reconnection: the monitor's delays, whatever overflows;  *)
(* and the two things the monitor must not get wrong about a connection,   *)
(* taking a half set up one for healthy and giving up a fresh one.         *)
(***************************************************************************)
EXTENDS Reconnection, TLAPS

\* A connection that is up but not watched yet is being joined; one that is
\* watched was established before the last heartbeat was counted.
JoinedWhenWatched ==
  /\ WatchedIsJoined
  /\ monitor \in {"top", "connecting", "backoff"} => ~conn

AgeOfThisConnection ==
  /\ monitor = "watching" /\ conn => age <= uptime
  /\ monitor = "suspecting" => uptime > Timeout

IInv == TypeOK /\ DelayInRange /\ JoinedWhenWatched /\ AgeOfThisConnection

-----------------------------------------------------------------------------
\* What the arithmetic wraps to is a duration.
LEMMA WrapIsDuration ==
  ASSUME NEW x \in Int
  PROVE  Wrap(x) \in Durations
<1> DEFINE n == 2 * (MaxInt + 1)
           y == x - MinInt
<1>1. n \in Nat \ {0} /\ MinInt \in Int /\ n + MinInt - 1 = MaxInt
  BY BackoffAssumption DEF BackoffAssumption, MinInt
<1>2. y \in Int
  BY <1>1
<1>3. y % n \in 0..(n - 1)
  <2> HIDE DEF n, y
  <2> QED
    BY <1>1, <1>2
<1> QED
  BY <1>1, <1>3 DEF Wrap, Durations

\* The jitter keeps a duration a duration, whether it overflows or not.
LEMMA JitteredIsDuration ==
  ASSUME NEW b \in Durations
  PROVE  Jittered(b) \subseteq Durations
<1>1. b \in Int
  BY BackoffAssumption DEF BackoffAssumption, Durations, MinInt
<1>2. Quarter(b) \in Int
  BY <1>1 DEF Quarter
<1>3. secureRandomDuration(2 * Quarter(b)) \subseteq Int
  BY <1>2 DEF secureRandomDuration
<1> QED
  BY <1>1, <1>2, <1>3, WrapIsDuration DEF Jittered

\* Whatever the conversion of the exponential makes of it, a delay is a
\* duration between the two configured ones.
LEMMA DelaysInRange ==
  ASSUME NEW attempt_, NEW initial \in Durations, NEW max \in Durations,
         NEW d \in calculateBackoffWithJitter(attempt_, initial, max)
  PROVE  /\ d \in Durations
         /\ d <= max
         /\ initial <= max => d >= initial
<1>1. PICK b \in Converted(initial * 2^(attempt_ - 1)) :
        \E e \in Jittered(AtMost(max, b)) : d = Clamp(e, initial, max)
  BY DEF calculateBackoffWithJitter
<1>2. b \in Durations
  BY <1>1, BackoffAssumption DEF BackoffAssumption, Converted, Durations, MinInt
<1>3. AtMost(max, b) \in Durations
  BY <1>2 DEF AtMost
<1>4. PICK e \in Durations : d = Clamp(e, initial, max)
  BY <1>1, <1>3, JitteredIsDuration
<1> QED
  BY <1>4, BackoffAssumption DEF BackoffAssumption, Clamp, AtMost, Durations, MinInt

-----------------------------------------------------------------------------
\* The initial state satisfies the invariant.
LEMMA InitIInv == Init => IInv
<1> SUFFICES ASSUME Init PROVE IInv
  OBVIOUS
<1>1. attempt \in 0..MaxAttempts /\ age \in Never..MaxAge /\ uptime \in 0..MaxAge
      /\ tried \in 0..MaxAttempts /\ age <= uptime
  BY ReconnectionAssumption DEF Init, ReconnectionAssumption, Never, Timeout
<1>2. TypeOK
  BY <1>1, ReconnectionAssumption
     DEF Init, TypeOK, ReconnectionAssumption, MonitorStates, InReconnect, BeatStates
<1>3. DelayInRange /\ JoinedWhenWatched
  BY DEF Init, DelayInRange, JoinedWhenWatched, WatchedIsJoined
<1>4. AgeOfThisConnection
  BY <1>1 DEF Init, AgeOfThisConnection
<1> QED
  BY <1>2, <1>3, <1>4 DEF IInv

\* A counter that stops at its bound stays in its range, and in order.
LEMMA UpToInRange ==
  ASSUME NEW bound \in Nat, NEW m \in 0..bound
  PROVE  UpTo(bound, m + 1) \in 0..bound /\ UpTo(bound, m + 1) >= m
BY DEF UpTo

\* Time, losses and the heartbeats leave the monitor alone.
LEMMA OthersKeepIInv ==
  ASSUME IInv, Environment \/ Heartbeat
  PROVE  IInv'
<1> USE ReconnectionAssumption DEF ReconnectionAssumption, IInv, Timeout, Never
<1>1. UNCHANGED monitorVars
  BY DEF Environment, Heartbeat, ConnectionLost, PlugboardFallsSilent, Tick, StopBegins,
         HeartbeatTick, SendHeartbeat, StampHeartbeat, HeartbeatStops
<1>2. DelayInRange'
  BY <1>1 DEF DelayInRange, monitorVars
<1>3. CASE ConnectionLost \/ PlugboardFallsSilent \/ StopBegins
  <2>1. UNCHANGED <<beat, age, historyVars>> /\ conn' \in BOOLEAN /\ alive' \in BOOLEAN
        /\ joined' \in BOOLEAN /\ stopping' \in BOOLEAN
    BY <1>3 DEF ConnectionLost, PlugboardFallsSilent, StopBegins, TypeOK, linkVars
  <2>2. TypeOK'
    BY <1>1, <2>1 DEF TypeOK, monitorVars, historyVars
  <2>3. JoinedWhenWatched'
    BY <1>1, <1>3 DEF ConnectionLost, PlugboardFallsSilent, StopBegins, JoinedWhenWatched,
       WatchedIsJoined, monitorVars, linkVars
  <2>4. conn' => conn
    BY <1>3 DEF ConnectionLost, PlugboardFallsSilent, StopBegins, linkVars
  <2>5. AgeOfThisConnection'
    BY <1>1, <2>1, <2>4 DEF AgeOfThisConnection, monitorVars, historyVars
  <2> QED
    BY <1>2, <2>2, <2>3, <2>5
<1>4. CASE Tick
  <2>1. uptime' \in 0..MaxAge /\ uptime' >= uptime
    BY <1>4, UpToInRange DEF Tick, TypeOK
  <2>2. age' \in Never..MaxAge /\ (age <= uptime => age' <= uptime')
    BY <1>4 DEF Tick, TypeOK, UpTo
  <2> QED
    BY <1>1, <1>2, <1>4, <2>1, <2>2 DEF Tick, TypeOK, BeatStates, JoinedWhenWatched,
       WatchedIsJoined, AgeOfThisConnection, monitorVars, linkVars
<1>5. CASE Heartbeat
  BY <1>1, <1>2, <1>5 DEF Heartbeat, HeartbeatTick, SendHeartbeat, StampHeartbeat, HeartbeatStops,
     TypeOK, BeatStates, JoinedWhenWatched, WatchedIsJoined, AgeOfThisConnection,
     monitorVars, historyVars, linkVars
<1> QED
  BY <1>3, <1>4, <1>5 DEF Environment

\* A sleep is entered with a delay of its range.
LEMMA SleepInRange ==
  ASSUME IInv, Sleep
  PROVE  backoff' \in Durations /\ DelayInRange'
BY DelaysInRange, ReconnectionAssumption DEF ReconnectionAssumption, Sleep, DelayInRange

\* monitorConnection and reconnect keep the invariant.
LEMMA MonitorKeepsIInv ==
  ASSUME IInv, Monitor
  PROVE  IInv'
<1> USE ReconnectionAssumption DEF ReconnectionAssumption, IInv, Timeout, Never
<1>1. CASE LossSeen \/ ForceDisconnect
  <2>1. /\ monitor' = "top" /\ attempt' = 0 /\ backoff' = InitialBackoff
        /\ UNCHANGED <<alive, stopping, beat, age, historyVars>>
        /\ conn' = FALSE /\ joined' \in BOOLEAN
    <3>1. CASE LossSeen
      BY <3>1 DEF LossSeen, ReconnectBegins, MonitorUnchanged, TypeOK, linkVars, historyVars
    <3>2. CASE ForceDisconnect
      BY <3>2 DEF ForceDisconnect, ReconnectBegins, historyVars
    <3> QED
      BY <1>1, <3>1, <3>2
  <2>2. TypeOK'
    <3>1. monitor' \in MonitorStates
      BY <2>1 DEF MonitorStates, InReconnect
    <3>2. attempt' \in 0..MaxAttempts /\ backoff' \in Durations
      BY <2>1
    <3>3. monitor' \notin {"connecting", "joining", "backoff"}
      BY <2>1
    <3> QED
      BY <2>1, <3>1, <3>2, <3>3 DEF TypeOK, historyVars
  <2>3. DelayInRange' /\ JoinedWhenWatched' /\ AgeOfThisConnection'
    BY <2>1 DEF DelayInRange, JoinedWhenWatched, WatchedIsJoined, AgeOfThisConnection
  <2> QED
    BY <2>2, <2>3
<1>2. CASE HeartbeatTimeout \/ MonitorStops
  BY <1>2 DEF HeartbeatTimeout, MonitorStops, MonitorUnchanged, TypeOK, MonitorStates,
     InReconnect, DelayInRange, JoinedWhenWatched, WatchedIsJoined, AgeOfThisConnection,
     historyVars, linkVars
<1>3. CASE ReconnectTop
  <2>1. UpTo(MaxAttempts, attempt + 1) \in 0..MaxAttempts /\ UpTo(MaxAttempts, attempt + 1) > 0
    BY DEF TypeOK, UpTo
  <2>2. UpTo(MaxAttempts, tried + 1) \in 0..MaxAttempts
    BY UpToInRange DEF TypeOK
  <2> QED
    BY <1>3, <2>1, <2>2 DEF ReconnectTop, TypeOK, MonitorStates, InReconnect, DelayInRange,
       JoinedWhenWatched, WatchedIsJoined, AgeOfThisConnection, linkVars
<1>4. CASE ConnectOk
  <2>1. TypeOK'
    <3>1. attempt > 0 /\ 0 \in 0..MaxAge
      BY <1>4 DEF ConnectOk, TypeOK
    <3> QED
      BY <1>4, <3>1 DEF ConnectOk, TypeOK, MonitorStates, InReconnect
  <2>2. DelayInRange' /\ JoinedWhenWatched' /\ AgeOfThisConnection'
    BY <1>4 DEF ConnectOk, DelayInRange, JoinedWhenWatched, WatchedIsJoined, AgeOfThisConnection
  <2> QED
    BY <2>1, <2>2
<1>5. CASE ConnectFails
  <2>1. backoff' \in Durations /\ DelayInRange'
    BY <1>5, SleepInRange DEF ConnectFails, DelayInRange, TypeOK
  <2> QED
    BY <1>5, <2>1 DEF ConnectFails, Sleep, MonitorUnchanged, TypeOK, MonitorStates, InReconnect,
       JoinedWhenWatched, WatchedIsJoined, AgeOfThisConnection, historyVars, linkVars
<1>6. CASE JoinOk
  BY <1>6 DEF JoinOk, TypeOK, MonitorStates, InReconnect, DelayInRange,
     JoinedWhenWatched, WatchedIsJoined, AgeOfThisConnection
<1>7. CASE JoinFails
  <2>1. backoff' \in Durations /\ DelayInRange'
    BY <1>7, SleepInRange DEF JoinFails
  <2> QED
    BY <1>7, <2>1 DEF JoinFails, Sleep, TypeOK, MonitorStates, InReconnect,
       JoinedWhenWatched, WatchedIsJoined, AgeOfThisConnection, historyVars
<1>8. CASE BackoffEnds
  BY <1>8 DEF BackoffEnds, MonitorUnchanged, TypeOK, MonitorStates, InReconnect, DelayInRange,
     JoinedWhenWatched, WatchedIsJoined, AgeOfThisConnection, historyVars, linkVars
<1> QED
  BY <1>1, <1>2, <1>3, <1>4, <1>5, <1>6, <1>7, <1>8 DEF Monitor

\* Every step keeps the invariant.
LEMMA StepIInv == IInv /\ [Next]_vars => IInv'
<1> SUFFICES ASSUME IInv, [Next]_vars PROVE IInv'
  OBVIOUS
<1>1. CASE UNCHANGED vars
  BY <1>1 DEF vars, IInv, TypeOK, DelayInRange, JoinedWhenWatched, WatchedIsJoined,
     AgeOfThisConnection, linkVars, monitorVars, historyVars
<1> QED
  BY <1>1, OthersKeepIInv, MonitorKeepsIInv DEF Next

\* IInv is an invariant of Reconnection.
THEOREM Invariance == Spec => []IInv
<1> QED
  BY InitIInv, StepIInv, PTL DEF Spec

\* The types hold, and no delay is computed for an attempt below 1.
THEOREM TypeCorrect == Spec => []TypeOK
<1>1. IInv => TypeOK
  BY DEF IInv
<1> QED
  BY <1>1, Invariance, PTL

\* For every width of the integers, every pair of configured durations and
\* every number of attempts, the monitor sleeps within their range.
THEOREM SleepsAreInRange == Spec => []DelayInRange
<1>1. IInv => DelayInRange
  BY DEF IInv
<1> QED
  BY <1>1, Invariance, PTL

\* No connection that is left half set up is watched as a healthy one.
THEOREM WatchedChannelIsJoined == Spec => []WatchedIsJoined
<1>1. IInv => WatchedIsJoined
  BY DEF IInv, JoinedWhenWatched
<1> QED
  BY <1>1, Invariance, PTL

\* No connection is given up before it has had the whole timeout.
THEOREM FreshConnectionIsKept == Spec => FreshIsKept
<1>1. IInv /\ [Next]_vars => [ForceDisconnect => uptime > Timeout]_vars
  BY DEF IInv, AgeOfThisConnection, ForceDisconnect
<1> QED
  BY <1>1, Invariance, PTL DEF Spec, FreshIsKept

-----------------------------------------------------------------------------
(* The exponential, as long as nothing overflows.                          *)

Exponential == InitialBackoff * 2^(attempt - 1)

NoOverflow ==
  /\ Exponential \in 0..MaxInt
  /\ MaxBackoff >= 0 /\ MaxBackoff + Quarter(MaxBackoff) <= MaxInt

\* A delay is the exponential, up to the maximum, with a quarter of jitter; or
\* what InitialBackoff has replaced.
DelayFollowsExponential ==
  monitor = "backoff" /\ NoOverflow =>
    LET aim == AtMost(MaxBackoff, Exponential)
    IN  /\ backoff >= aim - Quarter(aim)
        /\ backoff <= aim + Quarter(aim) \/ backoff <= InitialBackoff

DelayIsComputed ==
  monitor = "backoff" =>
    backoff \in calculateBackoffWithJitter(attempt, InitialBackoff, MaxBackoff)

LEMMA WrapKeepsDurations ==
  ASSUME NEW x \in Durations
  PROVE  Wrap(x) = x
<1> DEFINE n == 2 * (MaxInt + 1)
           y == x - MinInt
<1>1. n \in Nat \ {0} /\ y \in 0..(n - 1) /\ y + MinInt = x
  BY BackoffAssumption DEF BackoffAssumption, MinInt, Durations
<1>2. y % n = y
  <2> HIDE DEF n, y
  <2> QED
    BY <1>1
<1> QED
  BY <1>1, <1>2 DEF Wrap

\* Jitter takes a quarter at most, either way.
LEMMA JitterIsAQuarter ==
  ASSUME NEW max \in 0..MaxInt, max + Quarter(max) <= MaxInt, NEW aim \in 0..max,
         NEW d \in Jittered(aim)
  PROVE  d \in Int /\ aim - Quarter(aim) <= d /\ d <= aim + Quarter(aim)
<1>1. MaxInt \in Nat /\ max \in Nat /\ aim \in Nat
  BY BackoffAssumption DEF BackoffAssumption
<1>2. Quarter(aim) \in Nat /\ Quarter(aim) <= Quarter(max) /\ Quarter(aim) <= aim
  BY <1>1 DEF Quarter
<1>3. Quarter(max) \in Nat
  BY <1>1 DEF Quarter
<1>4. PICK n \in secureRandomDuration(2 * Quarter(aim)) : d = Wrap(aim + n - Quarter(aim))
  BY DEF Jittered
<1>5. n \in Nat /\ n <= 2 * Quarter(aim)
  BY <1>2, <1>4 DEF secureRandomDuration
<1>6. aim + n - Quarter(aim) \in Durations
  BY <1>1, <1>2, <1>3, <1>5 DEF Durations, MinInt
<1> QED
  BY <1>1, <1>2, <1>4, <1>5, <1>6, WrapKeepsDurations

\* A delay of calculateBackoffWithJitter where nothing overflows.
LEMMA DelaysFollow ==
  ASSUME NEW a, NEW initial \in Durations, NEW max \in 0..MaxInt,
         max + Quarter(max) <= MaxInt, initial * 2^(a - 1) \in 0..MaxInt,
         NEW d \in calculateBackoffWithJitter(a, initial, max)
  PROVE  LET aim == AtMost(max, initial * 2^(a - 1))
         IN  /\ d >= aim - Quarter(aim)
             /\ d <= aim + Quarter(aim) \/ d <= initial
<1> DEFINE p == initial * 2^(a - 1)
           aim == AtMost(max, p)
<1>1. p \in 0..MaxInt /\ MaxInt \in Nat /\ initial \in Int
  BY BackoffAssumption DEF BackoffAssumption, Durations, MinInt
<1>2. Converted(p) = {p}
  BY <1>1 DEF Converted, Durations, MinInt
<1>3. PICK e \in Jittered(aim) : d = Clamp(e, initial, max)
  BY <1>2 DEF calculateBackoffWithJitter
<1> HIDE DEF p
<1>4. aim \in 0..max
  BY <1>1 DEF AtMost
<1> HIDE DEF aim
<1>5. e \in Int /\ aim - Quarter(aim) <= e /\ e <= aim + Quarter(aim)
  BY <1>3, <1>4, JitterIsAQuarter
<1>6. Quarter(aim) \in Nat
  BY <1>1, <1>4 DEF Quarter
<1>7. d >= aim - Quarter(aim) /\ (d <= aim + Quarter(aim) \/ d <= initial)
  BY <1>1, <1>3, <1>4, <1>5, <1>6 DEF Clamp, AtMost
<1> QED
  BY <1>7 DEF aim, p

\* The delay is the one computed for the attempt that has failed.
LEMMA StepComputesDelay == DelayIsComputed /\ [Next]_vars => DelayIsComputed'
<1> SUFFICES ASSUME DelayIsComputed, [Next]_vars, monitor' = "backoff"
             PROVE  backoff' \in calculateBackoffWithJitter(attempt', InitialBackoff, MaxBackoff)
  BY DEF DelayIsComputed
<1>1. CASE ConnectFails \/ JoinFails
  BY <1>1 DEF ConnectFails, JoinFails, Sleep
<1>2. CASE UNCHANGED monitorVars
  BY <1>2 DEF DelayIsComputed, monitorVars
<1> QED
  BY <1>1, <1>2 DEF Next, Environment, Heartbeat, Monitor, ConnectionLost, PlugboardFallsSilent,
     Tick, StopBegins, HeartbeatTick, SendHeartbeat, StampHeartbeat, HeartbeatStops, LossSeen,
     HeartbeatTimeout, ForceDisconnect, ReconnectBegins, MonitorStops, ReconnectTop, ConnectOk,
     JoinOk, BackoffEnds, vars

\* reconnect.go:223: until something overflows, the delays follow the doubled
\* ones within a quarter, and once these have reached the maximum they stay
\* near it, as .env.example:64 says.
THEOREM DelaysGrowUntilOverflow ==
  Spec => []DelayFollowsExponential /\ [](NoOverflow => BackoffGrows)
<1>1. Init => DelayIsComputed
  BY DEF Init, DelayIsComputed
<1>2. DelayIsComputed => DelayFollowsExponential
  BY DelaysFollow, ReconnectionAssumption, BackoffAssumption
     DEF DelayIsComputed, DelayFollowsExponential, NoOverflow, Exponential,
         ReconnectionAssumption, BackoffAssumption, Durations, MinInt
<1>3. DelayFollowsExponential => (NoOverflow => BackoffGrows)
  BY ReconnectionAssumption, BackoffAssumption
     DEF DelayFollowsExponential, NoOverflow, Exponential, BackoffGrows, AtMost,
         ReconnectionAssumption, BackoffAssumption, Durations, MinInt
<1> QED
  BY <1>1, <1>2, <1>3, StepComputesDelay, PTL DEF Spec
=============================================================================
