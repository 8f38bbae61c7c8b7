-------------------------- MODULE TokenClockProofs ---------------------------
(***************************************************************************)
(* Theorems about TokenClock: how late tokenRefreshLoop can be, for every  *)
(* length of its delays, its timeouts and the tokens' lives.               *)
(***************************************************************************)
EXTENDS TokenClock, WellFoundedInduction, TLAPS

\* Claims that were found valid were not issued in the future.
InThePast(c) == c \in Claim /\ IssuedAt(c) <= now

ClaimsInUse ==
  /\ process = "starting" => InThePast(claims)
  /\ process = "up" => InThePast(claims)
  /\ loop = "storing" => InThePast(reply)
  /\ loop # "off" => InThePast(looked)
  /\ InThePast(env)
  /\ loop # "off" => process = "up"
  /\ process = "up" => loop # "off"

\* Where the loop may be how late.
OnTime ==
  process = "up" /\ fails < MaxFails =>
    LET asked == AskedBy(looked, since) + fails * Round
    IN  /\ loop = "sleeping" => wake <= asked
        /\ loop = "requesting" => wake <= asked + ReplyTimeout
        /\ loop \in {"storing", "cleaning"} => wake <= asked + ReplyTimeout + StoreTime
        /\ loop = "pausing" => wake + Immediately <= asked

IInv == TypeOK /\ ClaimsInUse /\ OnTime

-----------------------------------------------------------------------------
\* A whole second is not later than the moment in it.
LEMMA UnixIsPast ==
  ASSUME NEW t \in Nat
  PROVE  Unix(t) \in 0..t /\ Second * Unix(t) <= t
<1> DEFINE q == t \div Second
<1>1. q \in Int /\ t = Second * q + (t % Second) /\ t % Second \in 0..(Second - 1)
  BY ClaimsAssumption DEF ClaimsAssumption
<1>2. q >= 0 /\ q <= t /\ Second * q <= t
  BY <1>1, ClaimsAssumption DEF ClaimsAssumption
<1> QED
  BY <1>1, <1>2 DEF Unix

\* Division keeps the order, and does not make a number larger.
LEMMA DivMonotone ==
  ASSUME NEW a \in Nat, NEW b \in Nat, a <= b, NEW p \in Nat \ {0}
  PROVE  /\ a \div p \in Nat /\ b \div p \in Nat
         /\ a \div p <= b \div p /\ a \div p <= a
<1> DEFINE q == a \div p
           r == b \div p
<1>1. q \in Int /\ a = p * q + (a % p) /\ a % p \in 0..(p - 1)
  OBVIOUS
<1>2. r \in Int /\ b = p * r + (b % p) /\ b % p \in 0..(p - 1)
  OBVIOUS
<1>3. q >= 0 /\ r >= 0 /\ q <= a
  BY <1>1, <1>2
<1>4. q <= r
  <2> SUFFICES ASSUME q >= r + 1 PROVE FALSE
    BY <1>1, <1>2
  <2> HIDE DEF q, r
  <2>1. p * q >= p * (r + 1)
    BY <1>1, <1>2
  <2>2. p * (r + 1) = p * r + p
    BY <1>2
  <2> QED
    BY <2>1, <2>2, <1>1, <1>2
<1> QED
  BY <1>1, <1>2, <1>3, <1>4

\* A part of a number is smaller than the number.
LEMMA PartIsSmaller ==
  ASSUME NEW a \in Nat \ {0}, NEW p \in Nat \ {0, 1}
  PROVE  a \div p < a
<1> DEFINE q == a \div p
<1>1. q \in Nat /\ a = p * q + (a % p) /\ a % p \in 0..(p - 1)
  BY DivMonotone
<1> HIDE DEF q
<1>2. p * q >= 2 * q
  BY <1>1
<1>3. q < a
  BY <1>1, <1>2
<1> QED
  BY <1>3 DEF q

\* What Plugboard issues and Validate accepts was not issued in the future.
LEMMA AcceptedIsPast ==
  ASSUME now \in 0..MaxTime, NEW c \in Claim, Validate(c, now)
  PROVE  InThePast(c)
<1>1. c.iat \in Nat
  BY ClockAssumption DEF ClockAssumption, Claim, Issued
<1>2. now \in Nat
  BY ClockAssumption DEF ClockAssumption
<1>3. c.iat <= Unix(now) /\ Unix(now) \in Nat /\ Second * Unix(now) <= now
  BY <1>2, UnixIsPast DEF Validate
<1>4. Second * c.iat <= Second * Unix(now)
  BY <1>1, <1>3, ClaimsAssumption DEF ClaimsAssumption
<1> QED
  BY <1>1, <1>2, <1>3, <1>4, ClaimsAssumption DEF ClaimsAssumption, InThePast, IssuedAt

\* The moments of a token are numbers.
LEMMA Moments ==
  ASSUME NEW c \in Claim
  PROVE  /\ ExpiresAt(c) \in Nat /\ IssuedAt(c) \in Nat /\ Lifespan(c) \in Nat
         /\ HalfLife(c) = IssuedAt(c) + Lifespan(c) \div 2
         /\ Lifespan(c) \div 2 \in Nat
<1>1. PICK i \in Nat : c = Issued(i)
  BY ClockAssumption DEF ClockAssumption, Claim
<1>2. ExpiresAt(c) = Second * (i + Lifetime) /\ IssuedAt(c) = Second * i
  BY <1>1 DEF Issued, ExpiresAt, IssuedAt
<1>3. Second * (i + Lifetime) = Second * i + Second * Lifetime
  BY ClaimsAssumption, ClockAssumption DEF ClaimsAssumption, ClockAssumption
<1>4. Second * i \in Nat /\ Second * Lifetime \in Nat
  BY ClaimsAssumption, ClockAssumption DEF ClaimsAssumption, ClockAssumption
<1>5. ExpiresAt(c) \in Nat /\ IssuedAt(c) \in Nat /\ Lifespan(c) \in Nat
  BY <1>2, <1>3, <1>4 DEF Lifespan
<1> QED
  BY <1>5 DEF HalfLife

\* Whatever the jitter, the timer fires in time and not in the past.
LEMMA TimerIsSet ==
  ASSUME now \in 0..MaxTime, NEW c, InThePast(c), NEW w \in Schedule(c)
  PROVE  /\ w \in Nat /\ now < w
         /\ w <= AskedBy(c, now)
<1> DEFINE half == Lifespan(c) \div 2
           delay == TimeUntilHalfLife(c, now)
           range == delay \div JitterPart
           spread == half \div JitterPart
<1>1. /\ now \in Nat /\ Immediately \in Nat \ {0} /\ JitterPart \in Nat \ {0, 1}
      /\ JitterAbove \in Nat
  BY ClockAssumption DEF ClockAssumption
<1>2. /\ IssuedAt(c) \in Nat /\ IssuedAt(c) <= now
      /\ half \in Nat /\ HalfLife(c) = IssuedAt(c) + half
  BY Moments DEF InThePast
<1>3. delay \in Nat /\ delay <= half /\ (delay # 0 => now + delay = HalfLife(c))
  BY <1>1, <1>2 DEF TimeUntilHalfLife
<1>4. range \in Nat /\ spread \in Nat /\ range <= spread /\ (delay # 0 => range < delay)
  <2>1. range \in Nat /\ spread \in Nat /\ range <= spread
    BY <1>1, <1>2, <1>3, DivMonotone
  <2>2. delay # 0 => range < delay
    <3> HIDE DEF delay
    <3> QED
      BY <1>1, <1>3, PartIsSmaller
  <2> QED
    BY <2>1, <2>2
<1>5. AskedBy(c, now) = IF now + Immediately > HalfLife(c) + spread
                        THEN now + Immediately ELSE HalfLife(c) + spread
  BY DEF AskedBy
<1> HIDE DEF half, delay, range, spread
<1>6. CASE delay = 0
  <2>1. w = now + Immediately
    BY <1>1, <1>6 DEF Schedule, delay
  <2> QED
    BY <2>1, <1>1, <1>2, <1>4, <1>5
<1>7. CASE delay # 0 /\ delay > JitterAbove
  <2>1. w \in {now + delay + n - range : n \in Random!secureRandomDuration(2 * range)}
    BY <1>7 DEF Schedule, delay, range
  <2>2. PICK n \in Random!secureRandomDuration(2 * range) : w = now + delay + n - range
    BY <2>1
  <2>3. n \in Nat /\ n <= 2 * range
    BY <1>4 DEF Random!secureRandomDuration
  <2> QED
    BY <2>2, <2>3, <1>1, <1>2, <1>3, <1>4, <1>5, <1>7
<1>8. CASE delay # 0 /\ ~(delay > JitterAbove)
  <2>1. w = now + delay
    BY <1>1, <1>8 DEF Schedule, delay
  <2> QED
    BY <2>1, <1>1, <1>2, <1>3, <1>4, <1>5, <1>8
<1> QED
  BY <1>6, <1>7, <1>8

-----------------------------------------------------------------------------
\* The initial state satisfies the invariant.
LEMMA InitIInv == Init => IInv
<1> SUFFICES ASSUME Init PROVE IInv
  OBVIOUS
<1>1. Issued(0) \in Claim /\ 0 \in 0..MaxTime /\ 0 \in 0..MaxFails
  BY ClockAssumption DEF ClockAssumption, Claim
<1>2. rows = {} /\ committed = {} /\ env \in Claim /\ shift \in Shifts
  BY <1>1 DEF Init
<1>3. now \in 0..MaxTime /\ since \in 0..now /\ fails \in 0..MaxFails /\ wake \in Nat
  BY <1>1 DEF Init
<1>4. /\ key \in {1, 2} /\ process \in {"down", "starting", "up", "refused"}
      /\ loop = "off" /\ claims = None /\ reply = None /\ looked = None
  BY DEF Init
<1>5. connected \in BOOLEAN
  BY DEF Init
<1>6. TypeOK
  BY <1>2, <1>3, <1>4, <1>5 DEF TypeOK
<1>7. InThePast(env)
  BY <1>1, ClaimsAssumption DEF Init, InThePast, IssuedAt, Issued, ClaimsAssumption
<1> QED
  BY <1>6, <1>7 DEF Init, IInv, ClaimsInUse, OnTime

-----------------------------------------------------------------------------
\* The bounds of the state, for the steps.
LEMMA Bounds ==
  ASSUME TypeOK
  PROVE  /\ now \in Nat /\ now <= MaxTime /\ wake \in Nat /\ since \in Nat /\ since <= now
         /\ fails \in Nat /\ fails <= MaxFails
         /\ Immediately \in Nat \ {0} /\ RetryDelay \in Nat /\ ReplyTimeout \in Nat
         /\ StoreTime \in Nat /\ Round \in Nat
         /\ Round = ReplyTimeout + RetryDelay + Immediately
         /\ fails * Round \in Nat
         /\ (fails + 1) * Round = fails * Round + Round
<1>1. /\ now \in Nat /\ now <= MaxTime /\ wake \in Nat /\ since \in Nat /\ since <= now
      /\ fails \in Nat /\ fails <= MaxFails
  BY ClockAssumption DEF ClockAssumption, TypeOK
<1>2. /\ Immediately \in Nat \ {0} /\ RetryDelay \in Nat /\ ReplyTimeout \in Nat
      /\ StoreTime \in Nat /\ Round \in Nat
      /\ Round = ReplyTimeout + RetryDelay + Immediately
  BY ClockAssumption DEF ClockAssumption, Round
<1> QED
  BY <1>1, <1>2

\* A deadline is a number.
LEMMA AskedIsNumber ==
  ASSUME NEW c \in Claim, NEW from \in Nat
  PROVE  AskedBy(c, from) \in Nat
<1>1. (Lifespan(c) \div 2) \div JitterPart \in Nat
  BY Moments, DivMonotone, ClockAssumption DEF ClockAssumption
<1>2. HalfLife(c) \in Nat
  BY Moments
<1> QED
  BY <1>1, <1>2, ClockAssumption DEF ClockAssumption, AskedBy

\* What was issued by this clock was not issued in the future.
LEMMA IssuedIsPast ==
  ASSUME now \in 0..MaxTime
  PROVE  InThePast(Issued(Unix(now)))
<1>1. now \in Nat /\ MaxTime \in Nat /\ MaxSkew \in Nat
  BY ClockAssumption DEF ClockAssumption
<1>2. Unix(now) \in 0..(MaxTime + MaxSkew) /\ Second * Unix(now) <= now
  BY <1>1, UnixIsPast
<1> QED
  BY <1>2 DEF InThePast, Claim, Issued, IssuedAt

\* A lost connection, a replaced token or key: the claims in use are the same.
LEMMA WorldKeepsIInv ==
  ASSUME IInv, ConnectionLost \/ OperatorReplaces \/ KeyReplaced
  PROVE  IInv'
<1> USE DEF ConnectionLost, OperatorReplaces, KeyReplaced
<1>1. /\ UNCHANGED <<now, shift, claims, loopVars>>
      /\ rows' = rows /\ committed' = committed
  BY DEF diskVars
<1>2. key' \in {1, 2} /\ connected' \in BOOLEAN
  BY DEF IInv, TypeOK, diskVars
<1>3. process' = process \/ (process = "refused" /\ process' = "down")
  OBVIOUS
<1>4. env' = env \/ env' = Issued(Unix(now))
  BY DEF diskVars
<1> HIDE DEF ConnectionLost, OperatorReplaces, KeyReplaced
<1>5. InThePast(env')
  BY <1>4, IssuedIsPast DEF IInv, TypeOK, ClaimsInUse
<1>6. TypeOK'
  BY <1>1, <1>2, <1>3, <1>5 DEF IInv, TypeOK, loopVars, InThePast
<1>7. ClaimsInUse'
  BY <1>1, <1>3, <1>5 DEF IInv, ClaimsInUse, InThePast, loopVars
<1>8. OnTime'
  BY <1>1, <1>3 DEF IInv, OnTime, loopVars
<1> QED
  BY <1>6, <1>7, <1>8 DEF IInv

\* The claims of the original token are as old as those in use, and the timer
\* is that of the claims the loop looked at.
LEMMA ReconnectedKeepsIInv ==
  ASSUME IInv, Reconnected
  PROVE  IInv'
<1>1. /\ UNCHANGED <<now, shift, diskVars, process, loopVars>>
      /\ process = "up" /\ connected' = TRUE
  BY DEF Reconnected
<1>2. claims' \in {claims, env} /\ InThePast(claims')
  BY <1>1 DEF Reconnected, IInv, ClaimsInUse
<1>3. TypeOK'
  BY <1>1, <1>2 DEF IInv, TypeOK, InThePast, loopVars, diskVars
<1>4. ClaimsInUse'
  BY <1>1, <1>2 DEF IInv, ClaimsInUse, InThePast, loopVars, diskVars
<1>5. OnTime'
  BY <1>1 DEF IInv, OnTime, loopVars
<1> QED
  BY <1>3, <1>4, <1>5 DEF IInv

\* Time passes a moment only when nothing is due.
LEMMA TickKeepsIInv ==
  ASSUME IInv, Tick
  PROVE  IInv'
<1>1. /\ UNCHANGED <<shift, diskVars, process, connected, claims, loopVars>>
      /\ now' = now + 1 /\ now < MaxTime
      /\ loop = "off" \/ now < wake
  BY DEF Tick
<1>2. now' \in 0..MaxTime /\ since' \in 0..now'
  <2>1. since' = since /\ since \in Nat /\ since <= now /\ now \in Nat /\ MaxTime \in Nat
    BY <1>1, Bounds, ClockAssumption DEF IInv, loopVars, ClockAssumption
  <2> QED
    BY <1>1, <2>1
<1>3. loop' # "off" => now' <= wake'
  BY <1>1, Bounds DEF IInv, loopVars
<1>4. TypeOK'
  BY <1>1, <1>2, <1>3 DEF IInv, TypeOK, loopVars, diskVars
<1>5. ASSUME NEW c, InThePast(c) PROVE c \in Claim /\ IssuedAt(c) <= now'
  BY <1>1, <1>5, Bounds, Moments DEF IInv, InThePast
<1>6. ClaimsInUse'
  BY <1>1, <1>5 DEF IInv, ClaimsInUse, InThePast, loopVars, diskVars
<1>7. OnTime'
  BY <1>1 DEF IInv, OnTime, loopVars
<1> QED
  BY <1>4, <1>6, <1>7 DEF IInv

\* New starts on claims it has found valid; those of a row were valid once.
LEMMA NewKeepsIInv ==
  ASSUME IInv, New
  PROVE  IInv'
<1>1. /\ UNCHANGED <<now, shift, diskVars, connected, loopVars>>
      /\ process = "down"
  BY DEF New
<1>2. BootTokens \subseteq Claim
  <2>1. \A r \in rows : r.claims \in Claim
    BY DEF IInv, TypeOK, Row
  <2>2. LoadToken \subseteq rows /\ env \in Claim
    BY DEF LoadToken, IInv, TypeOK
  <2> QED
    BY <2>1, <2>2 DEF BootTokens
<1>3. \/ process' = "refused" /\ claims' = claims
      \/ process' = "starting" /\ InThePast(claims')
  BY <1>2, AcceptedIsPast DEF New, IInv, TypeOK
<1>4. loop = "off"
  BY <1>1 DEF IInv, ClaimsInUse
<1>5. claims' \in Claim \cup {None} /\ process' \in {"refused", "starting"}
  BY <1>3 DEF IInv, TypeOK, InThePast
<1>6. TypeOK'
  BY <1>1, <1>5 DEF IInv, TypeOK, loopVars, diskVars
<1>7. ClaimsInUse'
  BY <1>1, <1>3, <1>4 DEF IInv, ClaimsInUse, InThePast, loopVars, diskVars
<1>8. OnTime'
  BY <1>5 DEF OnTime
<1> QED
  BY <1>6, <1>7, <1>8 DEF IInv

\* The loop starts with a timer that fires in time.
LEMMA StartedKeepsIInv ==
  ASSUME IInv, Started
  PROVE  IInv'
<1>1. /\ UNCHANGED <<now, shift, diskVars, claims, reply>>
      /\ process' = "up" /\ loop' = "sleeping" /\ wake' \in Schedule(claims)
      /\ looked' = claims /\ since' = now /\ fails' = 0
      /\ InThePast(claims) /\ InThePast(env)
  BY DEF Started, IInv, ClaimsInUse
<1>2. connected' \in BOOLEAN
  BY DEF Started
<1>3. wake' \in Nat /\ now <= wake' /\ wake' <= AskedBy(claims, now)
  BY <1>1, TimerIsSet DEF IInv, TypeOK
<1>4. since' \in 0..now' /\ fails' \in 0..MaxFails
  BY <1>1, Bounds, ClockAssumption DEF ClockAssumption, IInv
<1>5. TypeOK'
  BY <1>1, <1>2, <1>3, <1>4 DEF IInv, TypeOK, diskVars
<1>6. ClaimsInUse'
  BY <1>1 DEF ClaimsInUse, InThePast, diskVars
<1>7. OnTime'
  <2>1. AskedBy(claims, now) \in Nat /\ 0 * Round = 0
    BY <1>1, AskedIsNumber, Bounds DEF IInv, InThePast
  <2> QED
    BY <1>1, <1>3, <2>1 DEF OnTime
<1> QED
  BY <1>5, <1>6, <1>7 DEF IInv

\* Nothing is left but the database.
LEMMA EndsKeepsIInv ==
  ASSUME IInv, Ends
  PROVE  IInv'
<1>1. /\ UNCHANGED <<now, shift, diskVars>>
      /\ process' = "down" /\ claims' = None /\ reply' = None /\ looked' = None
      /\ loop' = "off" /\ wake' = 0 /\ since' = 0 /\ fails' = 0
  BY DEF Ends
<1>2. connected' \in BOOLEAN
  BY DEF Ends
<1>3. since' \in 0..now' /\ fails' \in 0..MaxFails /\ wake' \in Nat
  BY <1>1, Bounds, ClockAssumption DEF ClockAssumption, IInv
<1>4. TypeOK'
  BY <1>1, <1>2, <1>3 DEF IInv, TypeOK, diskVars
<1> QED
  BY <1>1, <1>4 DEF IInv, ClaimsInUse, OnTime, InThePast, diskVars

\* A failed round costs its pause.
LEMMA PauseKeepsIInv ==
  ASSUME IInv, Pause, loop # "off",
         process = "up" /\ fails < MaxFails =>
           now <= AskedBy(looked, since) + fails * Round + ReplyTimeout
  PROVE  IInv'
<1>1. /\ UNCHANGED <<now, shift, diskVars, process, connected, claims, reply, looked, since>>
      /\ loop' = "pausing" /\ wake' = now + RetryDelay
      /\ fails' = IF fails < MaxFails THEN fails + 1 ELSE fails
  BY DEF Pause
<1>2. process = "up" /\ InThePast(claims) /\ InThePast(looked) /\ InThePast(env)
  BY DEF IInv, ClaimsInUse
<1>3. wake' \in Nat /\ now <= wake' /\ fails' \in 0..MaxFails
  BY <1>1, Bounds, ClockAssumption DEF IInv, ClockAssumption
<1>4. TypeOK'
  BY <1>1, <1>3 DEF IInv, TypeOK, diskVars
<1>5. ClaimsInUse'
  BY <1>1, <1>2 DEF ClaimsInUse, InThePast, diskVars
<1>6. ASSUME fails' < MaxFails
      PROVE  wake' + Immediately <= AskedBy(looked, since) + fails' * Round
  <2>1. fails' = fails + 1 /\ fails < MaxFails
    BY <1>1, <1>6, Bounds, ClockAssumption DEF IInv, ClockAssumption
  <2>2. AskedBy(looked, since) \in Nat
    BY <1>2, AskedIsNumber, Bounds DEF IInv, InThePast
  <2>3. now <= AskedBy(looked, since) + fails * Round + ReplyTimeout
    BY <1>2, <2>1
  <2>4. fails' * Round = fails * Round + Round
    BY <2>1, Bounds DEF IInv
  <2> QED
    BY <1>1, <2>2, <2>3, <2>4, Bounds DEF IInv
<1>7. OnTime'
  BY <1>1, <1>6 DEF OnTime
<1> QED
  BY <1>4, <1>5, <1>7 DEF IInv

\* The timer that was set in time has fired: the loop asks, or it pauses.
LEMMA DueKeepsIInv ==
  ASSUME IInv, Due \/ DueUnconnected
  PROVE  IInv'
<1>1. /\ loop = "sleeping" /\ now = wake /\ process = "up"
      /\ InThePast(claims) /\ InThePast(looked) /\ InThePast(env)
  BY DEF Due, DueUnconnected, IInv, ClaimsInUse
<1>2. AskedBy(looked, since) \in Nat
  BY <1>1, AskedIsNumber, Bounds DEF IInv, InThePast
<1>3. fails < MaxFails => now <= AskedBy(looked, since) + fails * Round
  BY <1>1 DEF IInv, OnTime
<1>4. CASE DueUnconnected
  <2>1. Pause
    BY <1>4 DEF DueUnconnected
  <2>2. fails < MaxFails => now <= AskedBy(looked, since) + fails * Round + ReplyTimeout
    BY <1>2, <1>3, Bounds DEF IInv
  <2> QED
    BY <2>1, <2>2, <1>1, PauseKeepsIInv
<1>5. CASE Due
  <2>1. /\ UNCHANGED <<now, shift, diskVars, process, connected, claims, reply, looked, since, fails>>
        /\ loop' = "requesting" /\ wake' = now + ReplyTimeout
    BY <1>5 DEF Due
  <2>2. wake' \in Nat /\ now <= wake'
    BY <2>1, Bounds DEF IInv
  <2>3. TypeOK'
    BY <2>1, <2>2 DEF IInv, TypeOK, diskVars
  <2>4. ClaimsInUse'
    BY <2>1, <1>1 DEF ClaimsInUse, InThePast, diskVars
  <2>5. fails < MaxFails => wake' <= AskedBy(looked, since) + fails * Round + ReplyTimeout
    BY <2>1, <1>2, <1>3, Bounds DEF IInv
  <2>6. OnTime'
    BY <2>1, <2>5 DEF OnTime
  <2> QED
    BY <2>3, <2>4, <2>6 DEF IInv
<1> QED
  BY <1>4, <1>5

\* An answer comes in time, and its claims are not from the future.
LEMMA AnsweredKeepsIInv ==
  ASSUME IInv, Answered
  PROVE  IInv'
<1>1. /\ UNCHANGED <<now, shift, diskVars, process, connected, claims, looked, since, fails>>
      /\ loop = "requesting" /\ loop' = "storing" /\ wake' = now + StoreTime
  BY DEF Answered
<1>2. /\ process = "up" /\ now <= wake
      /\ InThePast(claims) /\ InThePast(looked) /\ InThePast(env)
  BY <1>1 DEF IInv, ClaimsInUse, TypeOK
<1>3. PICK skew \in 0..MaxSkew :
        reply' = Issued(Unix(now) + skew) /\ Validate(reply', now)
  BY DEF Answered
<1>4. reply' \in Claim
  <2>1. Unix(now) \in Nat /\ Unix(now) <= now
    BY UnixIsPast, Bounds DEF IInv
  <2>2. Unix(now) + skew \in 0..(MaxTime + MaxSkew)
    BY <2>1, Bounds, ClockAssumption DEF ClockAssumption, IInv
  <2> QED
    BY <1>3, <2>2 DEF Claim
<1>5. InThePast(reply')
  BY <1>3, <1>4, AcceptedIsPast DEF IInv, TypeOK
<1>6. wake' \in Nat /\ now <= wake'
  BY <1>1, Bounds DEF IInv
<1>7. TypeOK'
  BY <1>1, <1>4, <1>6 DEF IInv, TypeOK, diskVars
<1>8. ClaimsInUse'
  BY <1>1, <1>2, <1>5 DEF ClaimsInUse, InThePast, diskVars
<1>9. fails < MaxFails =>
        wake' <= AskedBy(looked, since) + fails * Round + ReplyTimeout + StoreTime
  <2>1. AskedBy(looked, since) \in Nat
    BY <1>2, AskedIsNumber, Bounds DEF IInv, InThePast
  <2>2. fails < MaxFails => wake <= AskedBy(looked, since) + fails * Round + ReplyTimeout
    BY <1>1, <1>2 DEF IInv, OnTime
  <2> QED
    BY <2>1, <2>2, <1>1, <1>2, Bounds DEF IInv
<1>10. OnTime'
  BY <1>1, <1>9 DEF OnTime
<1> QED
  BY <1>7, <1>8, <1>10 DEF IInv

LEMMA RequestFailsKeepsIInv ==
  ASSUME IInv, RequestFails
  PROVE  IInv'
<1>1. loop = "requesting" /\ Pause
  BY DEF RequestFails
<1>2. /\ process = "up" /\ now <= wake
      /\ InThePast(claims) /\ InThePast(looked) /\ InThePast(env)
  BY <1>1 DEF IInv, ClaimsInUse, TypeOK
<1>3. fails < MaxFails => wake <= AskedBy(looked, since) + fails * Round + ReplyTimeout
  BY <1>1, <1>2 DEF IInv, OnTime
<1>4. AskedBy(looked, since) \in Nat
  BY <1>2, AskedIsNumber, Bounds DEF IInv, InThePast
<1>5. fails < MaxFails => now <= AskedBy(looked, since) + fails * Round + ReplyTimeout
  BY <1>2, <1>3, <1>4, Bounds DEF IInv
<1> QED
  BY <1>1, <1>5, PauseKeepsIInv

\* The new claims are in use; the loop has not looked at them.
LEMMA StoredKeepsIInv ==
  ASSUME IInv, Stored
  PROVE  IInv'
<1> DEFINE row == [claims |-> reply, saved |-> now, key |-> key]
<1>1. /\ UNCHANGED <<now, shift, key, env, process, connected, wake, looked, since, fails>>
      /\ loop = "storing" /\ loop' = "cleaning" /\ claims' = reply /\ reply' = None
  BY DEF Stored
<1>2. /\ process = "up" /\ now <= wake
      /\ InThePast(reply) /\ InThePast(looked) /\ InThePast(env)
  BY <1>1 DEF IInv, ClaimsInUse, TypeOK
<1>3. rows' \subseteq committed' /\ committed' \subseteq Row
  <2>1. row \in Row
    BY <1>2 DEF Row, InThePast, IInv, TypeOK
  <2>2. PICK new \in {{}, {row}} : rows' = rows \cup new /\ committed' = committed \cup new
    BY DEF Stored
  <2>3. rows \subseteq committed /\ committed \subseteq Row
    BY DEF IInv, TypeOK
  <2> QED
    BY <2>1, <2>2, <2>3
<1>4. {claims', reply', looked'} \subseteq Claim \cup {None}
  BY <1>1, <1>2 DEF InThePast
<1>5. TypeOK'
  BY <1>1, <1>2, <1>3, <1>4 DEF IInv, TypeOK
<1>6. ClaimsInUse'
  BY <1>1, <1>2 DEF ClaimsInUse, InThePast
<1>7. OnTime'
  BY <1>1 DEF IInv, OnTime
<1> QED
  BY <1>5, <1>6, <1>7 DEF IInv

\* The loop starts afresh on whatever claims there are.
LEMMA CleansUpKeepsIInv ==
  ASSUME IInv, CleansUp
  PROVE  IInv'
<1>1. /\ UNCHANGED <<now, shift, key, env, committed, process, connected, claims, reply>>
      /\ loop = "cleaning" /\ loop' = "sleeping" /\ wake' \in Schedule(claims)
      /\ looked' = claims /\ since' = now /\ fails' = 0
  BY DEF CleansUp
<1>2. process = "up" /\ InThePast(claims) /\ InThePast(env)
  BY <1>1 DEF IInv, ClaimsInUse
<1>3. wake' \in Nat /\ now <= wake' /\ wake' <= AskedBy(claims, now)
  BY <1>1, <1>2, TimerIsSet DEF IInv, TypeOK
<1>4. since' \in 0..now' /\ fails' \in 0..MaxFails
  BY <1>1, Bounds, ClockAssumption DEF ClockAssumption, IInv
<1>5. rows' \subseteq committed'
  BY <1>1 DEF CleansUp, Cleaned, IInv, TypeOK
<1>6. TypeOK'
  BY <1>1, <1>3, <1>4, <1>5 DEF IInv, TypeOK
<1>7. ClaimsInUse'
  BY <1>1, <1>2 DEF ClaimsInUse, InThePast
<1>8. OnTime'
  <2>1. AskedBy(claims, now) \in Nat /\ 0 * Round = 0
    BY <1>2, AskedIsNumber, Bounds DEF IInv, InThePast
  <2> QED
    BY <1>1, <1>3, <2>1 DEF OnTime
<1> QED
  BY <1>6, <1>7, <1>8 DEF IInv

\* After a pause the timer is set anew: on the same claims in what is left of
\* their time, and on others afresh.
LEMMA PauseEndsKeepsIInv ==
  ASSUME IInv, PauseEnds
  PROVE  IInv'
<1>1. /\ UNCHANGED <<now, shift, diskVars, process, connected, claims, reply>>
      /\ loop = "pausing" /\ now = wake
      /\ loop' = "sleeping" /\ wake' \in Schedule(claims) /\ looked' = claims
      /\ \/ claims = looked /\ UNCHANGED <<since, fails>>
         \/ since' = now /\ fails' = 0
  BY DEF PauseEnds
<1>2. process = "up" /\ InThePast(claims) /\ InThePast(env)
  BY <1>1 DEF IInv, ClaimsInUse
<1>3. wake' \in Nat /\ now <= wake' /\ wake' <= AskedBy(claims, now)
  BY <1>1, <1>2, TimerIsSet DEF IInv, TypeOK
<1>4. since' \in 0..now' /\ fails' \in 0..MaxFails
  BY <1>1, Bounds, ClockAssumption DEF ClockAssumption, IInv, TypeOK
<1>5. TypeOK'
  BY <1>1, <1>3, <1>4 DEF IInv, TypeOK, diskVars
<1>6. ClaimsInUse'
  BY <1>1, <1>2 DEF ClaimsInUse, InThePast, diskVars
<1>7. /\ AskedBy(claims, since) \in Nat
      /\ AskedBy(claims, now) \in Nat
  BY <1>2, AskedIsNumber, Bounds DEF IInv, InThePast
<1>8. CASE since' = now /\ fails' = 0
  <2>1. 0 * Round = 0
    BY Bounds DEF IInv
  <2> QED
    BY <1>1, <1>3, <1>5, <1>6, <1>7, <1>8, <2>1 DEF OnTime, IInv
<1>9. CASE claims = looked /\ UNCHANGED <<since, fails>>
  <2>1. \/ AskedBy(claims, now) = now + Immediately
        \/ AskedBy(claims, now) <= AskedBy(claims, since)
    <3>1. HalfLife(claims) + (Lifespan(claims) \div 2) \div JitterPart \in Nat
      BY <1>2, Moments, DivMonotone, ClockAssumption DEF InThePast, ClockAssumption
    <3> QED
      BY <3>1, Bounds DEF AskedBy, IInv
  <2>2. fails < MaxFails => now + Immediately <= AskedBy(claims, since) + fails * Round
    BY <1>1, <1>2, <1>9 DEF IInv, OnTime
  <2>3. fails < MaxFails => wake' <= AskedBy(claims, since) + fails * Round
    BY <1>3, <1>7, <2>1, <2>2, Bounds DEF IInv
  <2>4. OnTime'
    BY <1>1, <1>9, <2>3 DEF OnTime
  <2> QED
    BY <1>5, <1>6, <2>4 DEF IInv
<1> QED
  BY <1>1, <1>8, <1>9

-----------------------------------------------------------------------------
\* Every step keeps the invariant.
LEMMA NextIInv == IInv /\ [Next]_vars => IInv'
<1> SUFFICES ASSUME IInv, [Next]_vars PROVE IInv'
  OBVIOUS
<1>1. CASE World
  BY <1>1, WorldKeepsIInv, ReconnectedKeepsIInv, TickKeepsIInv DEF World
<1>2. CASE Main
  BY <1>2, NewKeepsIInv, StartedKeepsIInv, EndsKeepsIInv DEF Main
<1>3. CASE RefreshLoop
  BY <1>3, DueKeepsIInv, AnsweredKeepsIInv, RequestFailsKeepsIInv, StoredKeepsIInv,
     CleansUpKeepsIInv, PauseEndsKeepsIInv DEF RefreshLoop
<1>4. CASE UNCHANGED vars
  BY <1>4 DEF vars, diskVars, loopVars, IInv, TypeOK, ClaimsInUse, InThePast, OnTime
<1> QED
  BY <1>1, <1>2, <1>3, <1>4 DEF Next

\* Being on time at every place of the loop is what the deadline says.
LEMMA OnTimeMeetsDeadline ==
  ASSUME IInv
  PROVE  RefreshedInTime
<1> SUFFICES ASSUME process = "up", fails < MaxFails
             PROVE  /\ now <= Deadline
                    /\ claims = looked /\ Deadline < ExpiresAt(looked) => Status # "degraded"
  BY DEF RefreshedInTime
<1>1. InThePast(looked) /\ loop # "off" /\ now <= wake
  BY DEF IInv, ClaimsInUse, TypeOK
<1>2. AskedBy(looked, since) \in Nat /\ ExpiresAt(looked) \in Nat
  BY <1>1, AskedIsNumber, Moments, Bounds DEF IInv, InThePast
<1>3. loop \in {"sleeping", "requesting", "storing", "cleaning", "pausing"}
  BY <1>1 DEF IInv, TypeOK
<1>4. now <= Deadline
  <2> DEFINE asked == AskedBy(looked, since) + fails * Round
  <2>1. /\ loop = "sleeping" => wake <= asked
        /\ loop = "requesting" => wake <= asked + ReplyTimeout
        /\ loop \in {"storing", "cleaning"} => wake <= asked + ReplyTimeout + StoreTime
        /\ loop = "pausing" => wake + Immediately <= asked
    BY DEF IInv, OnTime
  <2>2. asked \in Nat
    BY <1>2, Bounds DEF IInv
  <2> HIDE DEF asked
  <2>3. now <= asked + ReplyTimeout + StoreTime
    BY <1>1, <1>3, <2>1, <2>2, Bounds DEF IInv
  <2> QED
    BY <2>3 DEF Deadline, asked
<1>5. ASSUME claims = looked, Deadline < ExpiresAt(looked) PROVE Status # "degraded"
  <2>1. Deadline \in Nat
    BY <1>2, Bounds DEF Deadline, IInv
  <2>2. ExpiresIn(claims, now) > 0
    BY <1>2, <1>4, <1>5, <2>1, Bounds DEF ExpiresIn, IInv
  <2> QED
    BY <2>2 DEF Status
<1> QED
  BY <1>4, <1>5

\* The invariant holds in every behaviour.
THEOREM Invariance == Spec => []IInv
BY InitIInv, NextIInv, PTL DEF Spec

\* The variables of the token's clock have their types, whatever the lengths
\* of the delays, and no timer is ever overdue.
THEOREM TypeCorrect == Spec => []TypeOK
<1>1. IInv => TypeOK
  BY DEF IInv
<1> QED
  BY <1>1, Invariance, PTL

\* For every lifetime of the tokens, every delay and timeout, any number of
\* failures and of reconnections with the original token: tokenRefreshLoop has
\* looked at the claims again by the deadline that follows from those it looked
\* at, and Telephone is not degraded where these are the ones in use and that
\* is before they expire.
THEOREM TokensAreReplacedInTime == Spec => []RefreshedInTime
BY Invariance, OnTimeMeetsDeadline, PTL

-----------------------------------------------------------------------------
(* Which row of the database New starts on.                                *)

\* A row was committed while its token had not expired.
RowsWereLive == \A r \in committed : r.saved <= now /\ r.saved <= ExpiresAt(r.claims)

\* A row that the loop commits next is later than all that there are.
NextSaveIsLater ==
  \A r \in committed :
    /\ loop = "sleeping" => r.saved < wake
    /\ loop \in {"requesting", "storing", "pausing"} => r.saved < now

\* No two rows were committed at one moment.
SavedOneByOne == \A r, q \in committed : r.saved = q.saved => r = q

\* Unless the clock was put back, a cleanup removes what has expired only.
CleanupIsHonest == ClockAgrees => CleanupSparesTheLive

RowsInv == RowsWereLive /\ NextSaveIsLater /\ SavedOneByOne /\ CleanupIsHonest

\* The moments of a row are numbers.
LEMMA RowMoments ==
  ASSUME TypeOK, NEW r \in committed
  PROVE  /\ r.saved \in Nat /\ r.saved <= MaxTime /\ r.claims \in Claim
         /\ ExpiresAt(r.claims) \in Nat /\ now \in Nat /\ ShiftAt \in Nat /\ shift \in Int
<1>1. r.saved \in 0..MaxTime /\ r.claims \in Claim
  BY DEF TypeOK, Row
<1>2. shift \in Int /\ now \in Nat /\ ShiftAt \in Nat /\ MaxTime \in Nat
  BY ClockAssumption DEF ClockAssumption, TypeOK, Shifts
<1> QED
  BY <1>1, <1>2, Moments

\* Unless the clock was put back between the moments that are compared, the
\* texts of the local clock have the order of the times.
LEMMA TextsInOrder ==
  ASSUME shift \in Int, NEW a \in Nat, NEW b \in Nat,
         shift >= 0 \/ (a < ShiftAt /\ b < ShiftAt) \/ (a >= ShiftAt /\ b >= ShiftAt)
  PROVE  (Text(a) > Text(b) <=> a > b) /\ (Text(a) >= Text(b) <=> a >= b)
BY ClockAssumption DEF ClockAssumption, Text

\* They do so for all the moments that the queries look at.
LEMMA TextsAgree ==
  ASSUME TypeOK, RowsWereLive, ClockAgrees, NEW r \in committed
  PROVE  /\ Text(ExpiresAt(r.claims)) > Text(now) <=> ExpiresAt(r.claims) > now
         /\ Text(ExpiresAt(r.claims)) >= Text(now) <=> ExpiresAt(r.claims) >= now
         /\ \A q \in committed : Text(q.saved) <= Text(r.saved) <=> q.saved <= r.saved
<1>1. \A q \in committed :
        /\ q.saved \in Nat /\ ExpiresAt(q.claims) \in Nat
        /\ q.saved <= now /\ q.saved <= ExpiresAt(q.claims)
  BY RowMoments DEF RowsWereLive
<1>2. now \in Nat /\ ShiftAt \in Nat /\ shift \in Int
  BY RowMoments
<1>3. \A q, t \in committed :
        \A a \in {q.saved, ExpiresAt(q.claims), now}, b \in {t.saved, now} :
          shift >= 0 \/ (a < ShiftAt /\ b < ShiftAt) \/ (a >= ShiftAt /\ b >= ShiftAt)
  BY <1>1, <1>2 DEF ClockAgrees
<1> QED
  BY <1>1, <1>2, <1>3, TextsInOrder

\* Time and more rows can only take the agreement away.
LEMMA AgreedBefore ==
  ASSUME TypeOK, TypeOK', shift' = shift, now <= now', committed \subseteq committed', ClockAgrees'
  PROVE  ClockAgrees
BY ClockAssumption DEF ClockAgrees, TypeOK, ClockAssumption

LEMMA InitRowsInv == Init => RowsInv
BY DEF Init, RowsInv, RowsWereLive, NextSaveIsLater, SavedOneByOne, CleanupIsHonest,
       CleanupSparesTheLive

\* A step that leaves the table alone, and lets no time pass that the loop
\* counts on, keeps what is known of the rows.
LEMMA SameRows ==
  ASSUME IInv, IInv', RowsInv, UNCHANGED <<shift, rows, committed>>, now <= now', NextSaveIsLater'
  PROVE  RowsInv'
<1>1. RowsWereLive'
  <2> SUFFICES ASSUME NEW r \in committed
               PROVE  r.saved <= now' /\ r.saved <= ExpiresAt(r.claims)
    BY DEF RowsWereLive
  <2>1. now \in Nat /\ now' \in Nat /\ r.saved \in Nat
    BY RowMoments, ClockAssumption DEF IInv, TypeOK, ClockAssumption
  <2> QED
    BY <2>1 DEF RowsInv, RowsWereLive
<1>2. SavedOneByOne'
  BY DEF RowsInv, SavedOneByOne
<1>3. CleanupIsHonest'
  <2> SUFFICES ASSUME ClockAgrees', NEW r \in committed \ rows
               PROVE  ExpiresAt(r.claims) <= now'
    BY DEF CleanupIsHonest, CleanupSparesTheLive
  <2>1. ExpiresAt(r.claims) <= now
    BY AgreedBefore DEF IInv, RowsInv, CleanupIsHonest, CleanupSparesTheLive
  <2>2. now \in Nat /\ now' \in Nat /\ ExpiresAt(r.claims) \in Nat
    BY RowMoments, ClockAssumption DEF IInv, TypeOK, ClockAssumption
  <2> QED
    BY <2>1, <2>2
<1> QED
  BY <1>1, <1>2, <1>3 DEF RowsInv

\* Every timer is set for a later moment, so that no two rows are saved at one.
LEMMA TimersSeparateSaves ==
  ASSUME IInv, RowsInv, ~Stored, ~CleansUp, [Next]_vars
  PROVE  NextSaveIsLater' /\ UNCHANGED <<shift, rows, committed>> /\ now <= now'
<1>1. UNCHANGED <<shift, rows, committed>>
  BY DEF Next, World, Main, RefreshLoop, Tick, ConnectionLost, Reconnected, OperatorReplaces,
     KeyReplaced, New, Started, Ends, Due, DueUnconnected, Pause, Answered, RequestFails,
     PauseEnds, vars, diskVars
<1>2. now' = now \/ (Tick /\ now' = now + 1)
  BY DEF Next, World, Main, RefreshLoop, Tick, ConnectionLost, Reconnected, OperatorReplaces,
     KeyReplaced, New, Started, Ends, Due, DueUnconnected, Pause, Answered, RequestFails,
     PauseEnds, vars
<1>3. now \in Nat /\ wake \in Nat
  BY Bounds DEF IInv
<1>4. now <= now'
  BY <1>2, <1>3
<1> SUFFICES ASSUME NEW r \in committed
             PROVE  /\ loop' = "sleeping" => r.saved < wake'
                    /\ loop' \in {"requesting", "storing", "pausing"} => r.saved < now'
  BY <1>1, <1>4 DEF NextSaveIsLater
<1>5. /\ r.saved \in Nat /\ r.saved <= now
      /\ loop = "sleeping" => r.saved < wake
      /\ loop \in {"requesting", "storing", "pausing"} => r.saved < now
  BY RowMoments DEF IInv, RowsInv, RowsWereLive, NextSaveIsLater
<1>6. CASE UNCHANGED loopVars
  BY <1>2, <1>3, <1>4, <1>5, <1>6 DEF loopVars
<1>7. CASE Started \/ PauseEnds
  <2>1. InThePast(claims) /\ wake' \in Schedule(claims) /\ loop' = "sleeping"
    BY <1>7 DEF Started, PauseEnds, IInv, ClaimsInUse
  <2>2. wake' \in Nat /\ now < wake'
    BY <2>1, TimerIsSet DEF IInv, TypeOK
  <2> QED
    BY <1>3, <1>5, <2>1, <2>2
<1>8. CASE Due \/ DueUnconnected
  <2>1. loop = "sleeping" /\ now = wake /\ now' = now /\ loop' \in {"requesting", "pausing"}
    BY <1>8 DEF Due, DueUnconnected, Pause
  <2> QED
    BY <1>5, <2>1
<1>9. CASE Answered \/ RequestFails
  <2>1. loop = "requesting" /\ now' = now /\ loop' \in {"storing", "pausing"}
    BY <1>9 DEF Answered, RequestFails, Pause
  <2> QED
    BY <1>5, <2>1
<1>10. CASE Ends
  BY <1>10 DEF Ends
<1>11. CASE World \/ New \/ UNCHANGED vars
  <2>1. UNCHANGED loopVars
    BY <1>11 DEF World, Tick, ConnectionLost, Reconnected, OperatorReplaces, KeyReplaced, New, vars
  <2> QED
    BY <1>6, <2>1
<1> QED
  BY <1>7, <1>8, <1>9, <1>10, <1>11 DEF Next, Main, RefreshLoop

\* What is stored was found valid, and is later than every row there is.
LEMMA StoredKeepsRowsInv ==
  ASSUME IInv, IInv', RowsInv, Stored
  PROVE  RowsInv'
<1> DEFINE row == [claims |-> reply, saved |-> now, key |-> key]
<1>1. /\ UNCHANGED <<now, shift, key>> /\ loop = "storing" /\ loop' = "cleaning"
      /\ InThePast(reply)
  BY DEF Stored, IInv, ClaimsInUse
<1>2. PICK new \in {{}, IF ExpiresAt(reply) < now THEN {} ELSE {row}} :
        rows' = rows \cup new /\ committed' = committed \cup new
  BY DEF Stored
<1>3. now \in Nat /\ ExpiresAt(reply) \in Nat
  BY <1>1, Bounds, Moments DEF IInv, InThePast
<1>4. \A r \in committed' \ committed :
        r = row /\ r.saved = now /\ r.claims = reply /\ ExpiresAt(reply) >= now
  BY <1>2, <1>3
<1>5. \A r \in committed : r.saved \in Nat /\ r.saved < now
  BY <1>1, RowMoments DEF IInv, RowsInv, NextSaveIsLater
<1>6. committed' \ rows' \subseteq committed \ rows
  BY <1>2
<1> HIDE DEF row
<1>7. RowsWereLive'
  BY <1>1, <1>3, <1>4, <1>5 DEF RowsInv, RowsWereLive
<1>8. NextSaveIsLater'
  BY <1>1 DEF NextSaveIsLater
<1>9. SavedOneByOne'
  BY <1>3, <1>4, <1>5 DEF RowsInv, SavedOneByOne
<1>10. CleanupIsHonest'
  <2> SUFFICES ASSUME ClockAgrees' PROVE CleanupSparesTheLive'
    BY DEF CleanupIsHonest
  <2>1. ClockAgrees
    BY <1>1, <1>2, <1>3, AgreedBefore DEF IInv
  <2> QED
    BY <1>1, <1>6, <2>1 DEF RowsInv, CleanupIsHonest, CleanupSparesTheLive
<1> QED
  BY <1>7, <1>8, <1>9, <1>10 DEF RowsInv

\* The cleanup takes rows away that have expired.
LEMMA CleansUpKeepsRowsInv ==
  ASSUME IInv, IInv', RowsInv, CleansUp
  PROVE  RowsInv'
<1>1. /\ UNCHANGED <<now, shift, committed>> /\ loop' = "sleeping"
      /\ wake' \in Schedule(claims) /\ InThePast(claims) /\ rows' \in {rows, Cleaned}
  BY DEF CleansUp, IInv, ClaimsInUse
<1>2. RowsWereLive' /\ SavedOneByOne'
  BY <1>1 DEF RowsInv, RowsWereLive, SavedOneByOne
<1>3. NextSaveIsLater'
  <2>1. wake' \in Nat /\ now < wake' /\ now \in Nat
    BY <1>1, TimerIsSet, Bounds DEF IInv, TypeOK
  <2>2. \A r \in committed : r.saved \in Nat /\ r.saved <= now
    BY RowMoments DEF IInv, RowsInv, RowsWereLive
  <2> QED
    BY <1>1, <2>1, <2>2 DEF NextSaveIsLater
<1>4. CleanupIsHonest'
  <2> SUFFICES ASSUME ClockAgrees', NEW r \in committed \ rows'
               PROVE  ExpiresAt(r.claims) <= now
    BY <1>1 DEF CleanupIsHonest, CleanupSparesTheLive
  <2>1. ClockAgrees
    BY <1>1 DEF ClockAgrees
  <2>2. CASE r \in rows
    <3>1. ~(Text(ExpiresAt(r.claims)) >= Text(now))
      BY <1>1, <2>2 DEF Cleaned
    <3>2. ~(ExpiresAt(r.claims) >= now)
      BY <2>1, <3>1, TextsAgree DEF IInv, RowsInv
    <3> QED
      BY <3>2, RowMoments DEF IInv
  <2>3. CASE r \notin rows
    BY <2>1, <2>3 DEF RowsInv, CleanupIsHonest, CleanupSparesTheLive
  <2> QED
    BY <2>2, <2>3
<1> QED
  BY <1>2, <1>3, <1>4 DEF RowsInv

LEMMA NextRowsInv == IInv /\ IInv' /\ RowsInv /\ [Next]_vars => RowsInv'
<1>1. ASSUME IInv, IInv', RowsInv, [Next]_vars, ~Stored, ~CleansUp PROVE RowsInv'
  <2>1. NextSaveIsLater' /\ UNCHANGED <<shift, rows, committed>> /\ now <= now'
    BY <1>1, TimersSeparateSaves
  <2> QED
    BY <1>1, <2>1, SameRows
<1> QED
  BY <1>1, StoredKeepsRowsInv, CleansUpKeepsRowsInv

\* What is known of the rows holds in every behaviour.
THEOREM RowsInvariance == Spec => []RowsInv
<1>1. IInv /\ IInv' /\ RowsInv /\ [Next]_vars => RowsInv'
  BY NextRowsInv
<1> QED
  BY <1>1, InitRowsInv, Invariance, PTL DEF Spec

\* Where the clocks agree, what SQLite finds valid is what is live, of all the
\* rows there ever were, and the last by the texts is the last.
LEMMA LoadsTheNewest ==
  ASSUME TypeOK, RowsInv, ClockAgrees
  PROVE  LoadToken = NewestLive
<1>1. /\ RowsWereLive /\ rows \subseteq committed
      /\ \A r \in committed \ rows : ExpiresAt(r.claims) <= now
  BY DEF TypeOK, RowsInv, CleanupIsHonest, CleanupSparesTheLive
<1>2. \A r \in committed : ExpiresAt(r.claims) \in Nat /\ now \in Nat
  BY RowMoments
<1>3. \A r \in committed : Text(ExpiresAt(r.claims)) > Text(now) <=> ExpiresAt(r.claims) > now
  BY <1>1, TextsAgree
<1>4. \A r, q \in committed : Text(q.saved) <= Text(r.saved) <=> q.saved <= r.saved
  BY <1>1, TextsAgree
<1> DEFINE valid == {r \in rows : Text(ExpiresAt(r.claims)) > Text(now)}
           live == {r \in committed : ExpiresAt(r.claims) > now}
<1>5. valid = live /\ live \subseteq committed
  BY <1>1, <1>2, <1>3
<1>6. /\ LoadToken = {r \in valid : \A q \in valid : Text(q.saved) <= Text(r.saved)}
      /\ NewestLive = {r \in live : \A q \in live : q.saved <= r.saved}
  BY DEF LoadToken, NewestLive
<1> HIDE DEF valid, live
<1> QED
  BY <1>4, <1>5, <1>6

\* There is at most one row to start on.
LEMMA NewestIsOne ==
  ASSUME TypeOK, RowsInv, NEW r \in NewestLive
  PROVE  NewestLive = {r}
<1> SUFFICES ASSUME NEW q \in NewestLive PROVE q = r
  OBVIOUS
<1>1. r \in committed /\ q \in committed /\ q.saved <= r.saved /\ r.saved <= q.saved
  BY DEF NewestLive
<1>2. r.saved \in Nat /\ q.saved \in Nat
  BY <1>1, RowMoments
<1>3. r.saved = q.saved
  BY <1>1, <1>2
<1> QED
  BY <1>1, <1>3 DEF RowsInv, SavedOneByOne

LEMMA RowsBootNewestLive == TypeOK /\ RowsInv => BootsNewestLive
<1> SUFFICES ASSUME TypeOK, RowsInv PROVE BootsNewestLive
  OBVIOUS
<1>1. ASSUME NEW c \in BootTokens PROVE c = env \/ ExpiresAt(c) > now
  BY <1>1 DEF BootTokens
<1>2. ASSUME ClockAgrees
      PROVE  BootTokens = IF \E r \in NewestLive : r.key = key
                          THEN {r.claims : r \in NewestLive} ELSE {env}
  <2>1. LoadToken = NewestLive
    BY <1>2, LoadsTheNewest
  <2>2. CASE NewestLive = {}
    BY <2>1, <2>2 DEF BootTokens
  <2>3. ASSUME NEW r \in NewestLive
        PROVE  BootTokens = IF \E q \in NewestLive : q.key = key
                            THEN {q.claims : q \in NewestLive} ELSE {env}
    <3>1. NewestLive = {r}
      BY NewestIsOne
    <3>2. ExpiresAt(r.claims) > now
      BY DEF NewestLive
    <3>3. BootTokens = {IF r.key = key THEN r.claims ELSE env}
      BY <2>1, <3>1, <3>2 DEF BootTokens
    <3> QED
      BY <3>1, <3>3
  <2> QED
    BY <2>2, <2>3
<1> QED
  BY <1>1, <1>2 DEF BootsNewestLive

LEMMA LeastExists ==
  ASSUME NEW S, S \subseteq Nat, S # {}
  PROVE  \E m \in S : \A x \in S : m <= x
<1> DEFINE less == {ss \in Nat \X Nat : ss[1] < ss[2]}
<1>1. IsWellFoundedOn(less, Nat)
  BY NatLessThanWellFounded, Zenon DEF OpToRel
<1>2. \A x \in S, m \in S : <<x, m>> \notin less => m <= x
  OBVIOUS
<1> HIDE DEF less
<1>3. PICK m \in S : \A x \in S : <<x, m>> \notin less
  BY <1>1, WFMin
<1> QED
  BY <1>2, <1>3

\* Of some rows, one was saved last: MaxTime bounds the moments.
LEMMA LastExists ==
  ASSUME TypeOK, NEW R \in SUBSET committed, R # {}
  PROVE  \E r \in R : \A q \in R : q.saved <= r.saved
<1> DEFINE left == {MaxTime - r.saved : r \in R}
<1>1. MaxTime \in Nat /\ \A r \in R : r.saved \in Nat /\ r.saved <= MaxTime
  BY RowMoments, ClockAssumption DEF ClockAssumption
<1>2. left # {} /\ left \subseteq Nat
  BY <1>1
<1>3. PICK m \in left : \A x \in left : m <= x
  <2> HIDE DEF left
  <2> QED
    BY <1>2, LeastExists
<1>4. PICK r \in R : m = MaxTime - r.saved
  OBVIOUS
<1>5. \A q \in R : MaxTime - r.saved <= MaxTime - q.saved
  BY <1>3, <1>4
<1>6. \A q \in R : q.saved <= r.saved
  <2> HIDE DEF left
  <2> SUFFICES ASSUME NEW q \in R PROVE q.saved <= r.saved
    OBVIOUS
  <2>1. MaxTime - r.saved <= MaxTime - q.saved /\ r.saved \in Nat /\ q.saved \in Nat
    BY <1>1, <1>5
  <2> QED
    BY <1>1, <2>1
<1> QED
  BY <1>6

LEMMA RowsDiagnosed == TypeOK /\ RowsInv => DiagnosisAgrees
<1> SUFFICES ASSUME TypeOK, RowsInv PROVE DiagnosisAgrees
  OBVIOUS
<1>1. ASSUME BootTokens # {env} PROVE Listed # {}
  <2>1. PICK r \in LoadToken : ExpiresAt(r.claims) > now
    BY <1>1 DEF BootTokens
  <2>2. r \in rows /\ r \in committed
    BY DEF LoadToken, TypeOK
  <2>3. ExpiresAt(r.claims) \in Nat /\ now \in Nat
    BY <2>2, RowMoments
  <2> QED
    BY <2>1, <2>2, <2>3 DEF Listed
<1>2. ASSUME ClockAgrees, NEW r \in Listed, ExpiresAt(r.claims) # now
      PROVE  LoadToken # {} /\ LoadToken \subseteq Listed
  <2> DEFINE live == {q \in committed : ExpiresAt(q.claims) > now}
  <2>1. LoadToken = NewestLive
    BY <1>2, LoadsTheNewest
  <2>2. r \in committed /\ r \in rows /\ ~(ExpiresAt(r.claims) < now)
    BY DEF Listed, TypeOK
  <2>3. r \in live
    BY <1>2, <2>2, RowMoments
  <2>4. \E q \in live : \A t \in live : t.saved <= q.saved
    BY <2>3, LastExists
  <2>5. LoadToken # {}
    BY <2>1, <2>4 DEF NewestLive
  <2>6. ASSUME NEW q \in LoadToken PROVE q \in Listed
    <3>1. q \in rows /\ q \in committed /\ ExpiresAt(q.claims) > now
      BY <2>1 DEF LoadToken, NewestLive, TypeOK
    <3>2. ExpiresAt(q.claims) \in Nat /\ now \in Nat
      BY <3>1, RowMoments
    <3> QED
      BY <3>1, <3>2 DEF Listed
  <2> QED
    BY <2>5, <2>6
<1> QED
  BY <1>1, <1>2 DEF DiagnosisAgrees

\* Whatever was done to the clock, New starts on no stored token that has
\* expired; and unless it was put back, on the newest live one there ever was.
THEOREM StartsOnNewestLive == Spec => []BootsNewestLive
<1>1. IInv => TypeOK
  BY DEF IInv
<1> QED
  BY <1>1, Invariance, RowsInvariance, RowsBootNewestLive, PTL

\* token-check and New agree on whether there is a token to start on, in the
\* cases DiagnosisAgrees names.
THEOREM TokenCheckAgrees == Spec => []DiagnosisAgrees
<1>1. IInv => TypeOK
  BY DEF IInv
<1> QED
  BY <1>1, Invariance, RowsInvariance, RowsDiagnosed, PTL

\* token_store.go:280: unless the clock was put back, CleanupExpiredTokens
\* removes no token that is live.
THEOREM CleanupIsHonestAlways == Spec => [](ClockAgrees => CleanupSparesTheLive)
<1>1. RowsInv => (ClockAgrees => CleanupSparesTheLive)
  BY DEF RowsInv, CleanupIsHonest
<1> QED
  BY <1>1, RowsInvariance, PTL

=============================================================================
