----------------------------- MODULE TokenClock -----------------------------
(***************************************************************************)
(* Telephone's token against the clock: which row of the database New      *)
(* takes (pkg/storage/token_store.go, pkg/proxy/telephone.go), when        *)
(* tokenRefreshLoop asks for the next token, what /health says meanwhile   *)
(* (pkg/proxy/health.go), and what token-check says of the database.       *)
(*                                                                         *)
(* Time passes in ticks, and a step that is due happens before the next    *)
(* tick.  The SQLite driver stores a time as the text of the local clock,  *)
(* and the queries compare texts: where the clocks are put forward or back *)
(* their order is not the order of time.                                   *)
(*                                                                         *)
(* TokenLifecycle has the interleavings of the steps that are one here,    *)
(* and the tokens that Plugboard knows.                                    *)
(***************************************************************************)
EXTENDS Claims

CONSTANTS
  Lifetime,      \* seconds between iat and exp of the tokens Plugboard issues
  MaxSkew,       \* seconds by which Plugboard's clock may be ahead
  Immediately,   \* the second before the refresh of a token past half-life
  RetryDelay,    \* the 5 seconds after a failed refresh
  ReplyTimeout,  \* the 10 seconds SendAndWait waits, for a write that returns
  StoreTime,     \* what persistTokenWithRetry and the cleanup take at most
  JitterAbove,   \* the minute above which a delay is randomised
  JitterPart,    \* by a 20th
  ShiftAt,       \* when the local clock is put forward or back
  PutForward, PutBack,  \* by how much
  MaxFails,      \* bound: failures are counted up to here
  MaxTime        \* bound: the last tick

ASSUME ClockAssumption ==
  /\ Lifetime \in Nat \ {0} /\ MaxSkew \in Nat
  /\ Immediately \in Nat \ {0} /\ RetryDelay \in Nat /\ ReplyTimeout \in Nat
  /\ StoreTime \in Nat /\ JitterAbove \in Nat /\ JitterPart \in Nat \ {0, 1}
  /\ ShiftAt \in Nat /\ PutForward \in Nat /\ PutBack \in Nat
  /\ MaxFails \in Nat \ {0} /\ MaxTime \in Nat

Random == INSTANCE Backoff WITH MaxInt <- MaxTime

Shifts == {0, PutForward, -PutBack}

None == [iat |-> -1, exp |-> -1]

VARIABLES
  now,
  shift,      \* the change of the local clock at ShiftAt
  key,        \* SECRET_KEY_BASE
  env,        \* TELEPHONE_TOKEN
  rows,       \* the table of tokens
  process,    \* where main is
  connected,  \* t.client.IsConnected()
  claims,     \* t.claims
  loop,       \* where tokenRefreshLoop is
  wake,       \* when its timer or its timeout fires
  reply,      \* the claims of the new token
  looked,     \* the loop's currentClaims
  since,      \* history: when the loop first looked at those
  fails,      \* history: failed refreshes since then
  committed   \* history: the rows ever committed

diskVars == <<key, env, rows, committed>>
loopVars == <<loop, wake, reply, looked, since, fails>>
vars == <<now, shift, diskVars, process, connected, claims, loopVars>>

Issued(iat) == [iat |-> iat, exp |-> iat + Lifetime]

Init ==
  /\ now = 0 /\ shift \in Shifts
  /\ key = 1 /\ env = Issued(0) /\ rows = {} /\ committed = {}
  /\ process = "down" /\ connected = FALSE /\ claims = None
  /\ loop = "off" /\ wake = 0
  /\ reply = None /\ looked = None /\ since = 0 /\ fails = 0

\* What the local clock shows at a moment: the text the driver writes.
Text(t) == IF t < ShiftAt THEN t ELSE t + shift

-----------------------------------------------------------------------------
(* The clock, the network and the operator.                                *)

\* Nobody is late: a timer that fires and a timeout that ends come first.
Tick ==
  /\ now < MaxTime
  /\ loop = "off" \/ now < wake
  /\ now' = now + 1
  /\ UNCHANGED <<shift, diskVars, process, connected, claims, loopVars>>

ConnectionLost ==
  /\ connected
  /\ connected' = FALSE
  /\ UNCHANGED <<now, shift, diskVars, process, claims, loopVars>>

\* attemptConnection: where the current token is not accepted, the original one
\* may be, and its claims are installed while the loop's timer stays as it is.
\* Plugboard does not accept an expired token.
Reconnected ==
  /\ process = "up" /\ ~connected
  /\ \E c \in {claims, env} :
       /\ ExpiresIn(c, now) > 0
       /\ claims' = c
  /\ connected' = TRUE
  /\ UNCHANGED <<now, shift, diskVars, process, loopVars>>

\* A Telephone that was refused gets a new token in its environment.
OperatorReplaces ==
  /\ process = "refused"
  /\ process' = "down" /\ env' = Issued(Unix(now))
  /\ UNCHANGED <<now, shift, key, rows, committed, connected, claims, loopVars>>

KeyReplaced ==
  /\ process = "down" /\ key = 1
  /\ key' = 2
  /\ UNCHANGED <<now, shift, env, rows, committed, process, connected, claims, loopVars>>

-----------------------------------------------------------------------------
(* New and Start.                                                          *)

\* LoadToken: the last updated of the rows whose expiration is ahead, all by
\* their texts.
LoadToken ==
  LET valid == {r \in rows : Text(ExpiresAt(r.claims)) > Text(now)}
  IN  {r \in valid : \A q \in valid : Text(q.saved) <= Text(r.saved)}

\* Mutant: New takes the row LoadToken found without a look at its expiration.
BootsUnchecked ==
  IF LoadToken = {} THEN {env}
  ELSE {IF r.key = key THEN r.claims ELSE env : r \in LoadToken}

\* New's choice.  A row written under another key cannot be decrypted.
BootTokens ==
  IF LoadToken = {} THEN {env}
  ELSE {IF r.key = key /\ ExpiresAt(r.claims) > now THEN r.claims ELSE env : r \in LoadToken}

New ==
  /\ process = "down"
  /\ \E c \in BootTokens :
       IF Validate(c, now)
       THEN process' = "starting" /\ claims' = c
       ELSE process' = "refused" /\ UNCHANGED claims
  /\ UNCHANGED <<now, shift, diskVars, connected, loopVars>>

\* Mutant: half of a lifespan from now on, whatever the age of the token.
ScheduleFromNow(c) == {now + Lifespan(c) \div 2}

\* When tokenRefreshLoop's next timer fires.
Schedule(c) ==
  LET delay == TimeUntilHalfLife(c, now)
      range == delay \div JitterPart
  IN  CASE delay = 0 -> {now + Immediately}
        [] delay > JitterAbove ->
             {now + delay + n - range : n \in Random!secureRandomDuration(2 * range)}
        [] OTHER -> {now + delay}

\* Start has connected and joined, and starts the loop, which looks at the
\* claims.
Started ==
  /\ process = "starting" /\ ExpiresIn(claims, now) > 0
  /\ process' = "up" /\ connected' = TRUE
  /\ loop' = "sleeping" /\ wake' \in Schedule(claims)
  /\ looked' = claims /\ since' = now /\ fails' = 0
  /\ UNCHANGED <<now, shift, diskVars, claims, reply>>

\* A crash, an exit or a Stop: only the database is left.
Ends ==
  /\ process \in {"starting", "up"}
  /\ process' = "down" /\ connected' = FALSE /\ claims' = None
  /\ loop' = "off" /\ wake' = 0
  /\ reply' = None /\ looked' = None /\ since' = 0 /\ fails' = 0
  /\ UNCHANGED <<now, shift, diskVars>>

-----------------------------------------------------------------------------
(* tokenRefreshLoop and refreshToken.                                      *)

\* The round has failed; the loop pauses.
Pause ==
  /\ loop' = "pausing" /\ wake' = now + RetryDelay
  /\ fails' = IF fails < MaxFails THEN fails + 1 ELSE fails
  /\ UNCHANGED <<now, shift, diskVars, process, connected, claims, reply, looked, since>>

\* The timer has fired.
Due ==
  /\ loop = "sleeping" /\ now = wake
  /\ connected
  /\ loop' = "requesting" /\ wake' = now + ReplyTimeout
  /\ UNCHANGED <<now, shift, diskVars, process, connected, claims, reply, looked, since, fails>>

DueUnconnected ==
  /\ loop = "sleeping" /\ now = wake
  /\ ~connected
  /\ Pause

\* Plugboard answers with a token of its own clock.
Answered ==
  /\ loop = "requesting" /\ connected
  /\ \E skew \in 0..MaxSkew :
       LET c == Issued(Unix(now) + skew)
       IN  /\ Validate(c, now)
           /\ reply' = c
  /\ loop' = "storing" /\ wake' = now + StoreTime
  /\ UNCHANGED <<now, shift, diskVars, process, connected, claims, looked, since, fails>>

\* An error, no answer in time, or an answer with a token from the future.
RequestFails ==
  /\ loop = "requesting"
  /\ Pause

\* persistTokenWithRetry, which may fail, and updateToken.  SaveToken refuses a
\* token that has expired.
Stored ==
  /\ loop = "storing"
  /\ LET row == [claims |-> reply, saved |-> now, key |-> key]
     IN  \E new \in {{}, IF ExpiresAt(reply) < now THEN {} ELSE {row}} :
           rows' = rows \cup new /\ committed' = committed \cup new
  /\ claims' = reply /\ reply' = None
  /\ loop' = "cleaning"
  /\ UNCHANGED <<now, shift, key, env, process, connected, wake, looked, since, fails>>

\* CleanupExpiredTokens, by the texts.
Cleaned == {r \in rows : Text(ExpiresAt(r.claims)) >= Text(now)}

\* The cleanup, which may fail, and the top of the loop: it looks at the claims
\* there are by now.
CleansUp ==
  /\ loop = "cleaning"
  /\ rows' \in {rows, Cleaned}
  /\ loop' = "sleeping" /\ wake' \in Schedule(claims)
  /\ looked' = claims /\ since' = now /\ fails' = 0
  /\ UNCHANGED <<now, shift, key, env, committed, process, connected, claims, reply>>

\* continue, to the top of the loop.
PauseEnds ==
  /\ loop = "pausing" /\ now = wake
  /\ loop' = "sleeping" /\ wake' \in Schedule(claims)
  /\ looked' = claims
  /\ IF claims = looked THEN UNCHANGED <<since, fails>> ELSE since' = now /\ fails' = 0
  /\ UNCHANGED <<now, shift, diskVars, process, connected, claims, reply>>

-----------------------------------------------------------------------------
World == Tick \/ ConnectionLost \/ Reconnected \/ OperatorReplaces \/ KeyReplaced
Main == New \/ Started \/ Ends
RefreshLoop ==
  Due \/ DueUnconnected \/ Answered \/ RequestFails \/ Stored \/ CleansUp \/ PauseEnds

Next == World \/ Main \/ RefreshLoop

Spec == Init /\ [][Next]_vars

-----------------------------------------------------------------------------
(* What the two reporters say.                                             *)

\* getHealthStatus, as if it read the flag and the claims at one moment.
Status ==
  CASE ~connected -> "unhealthy"
    [] connected /\ ExpiresIn(claims, now) > 0 -> "healthy"
    [] OTHER -> "degraded"

\* Mutant: the rows that have expired are printed as well.
ListedWithExpired == rows

\* queryAndPrintTokens: the rows it prints as valid.
Listed == {r \in rows : ~(ExpiresAt(r.claims) < now)}

-----------------------------------------------------------------------------
(* Properties.                                                             *)

Claim == {Issued(i) : i \in 0..(MaxTime + MaxSkew)}
Row == [claims : Claim, saved : 0..MaxTime, key : {1, 2}]

\* Every variable has its type; a token has been stored only after it was
\* found valid, and a timer that runs fires in the future or now.
TypeOK ==
  /\ now \in 0..MaxTime /\ shift \in Shifts
  /\ key \in {1, 2} /\ env \in Claim
  /\ committed \subseteq Row /\ rows \subseteq committed
  /\ process \in {"down", "starting", "up", "refused"} /\ connected \in BOOLEAN
  /\ {claims, reply, looked} \subseteq Claim \cup {None}
  /\ loop \in {"off", "sleeping", "requesting", "storing", "cleaning", "pausing"}
  /\ wake \in Nat /\ (loop # "off" => now <= wake)
  /\ since \in 0..now /\ fails \in 0..MaxFails

\* No moment that matters lies on the other side of a clock put back.
ClockAgrees ==
  \/ shift >= 0
  \/ \A r \in committed : now < ShiftAt /\ ExpiresAt(r.claims) < ShiftAt
  \/ \A r \in committed : r.saved >= ShiftAt

\* The row a reader of LoadToken's comment ("the most recent valid token")
\* expects, by the time and of all that was ever committed.
NewestLive ==
  LET live == {r \in committed : ExpiresAt(r.claims) > now}
  IN  {r \in live : \A q \in live : q.saved <= r.saved}

\* token_store.go:242 and telephone.go:145: New never starts on a stored token
\* that has expired, whatever was done to the clock.  Unless it was put back,
\* neither the comparisons of texts nor the cleanups lose a token: New takes
\* the newest live one there ever was, and the one in the environment if there
\* is none or it was stored under another key.
BootsNewestLive ==
  /\ \A c \in BootTokens : c = env \/ ExpiresAt(c) > now
  /\ ClockAgrees =>
       BootTokens = IF \E r \in NewestLive : r.key = key
                    THEN {r.claims : r \in NewestLive} ELSE {env}

\* cmd/token-check/main.go:143: token-check, which compares times, lists a row
\* as valid when New, which has SQLite compare texts, would start on it; and
\* the other way round, but for a clock put back, a key that was replaced, and
\* the very moment of the expiration.
DiagnosisAgrees ==
  /\ BootTokens # {env} => Listed # {}
  /\ ClockAgrees /\ (\E r \in Listed : ExpiresAt(r.claims) # now)
       => LoadToken # {} /\ LoadToken \subseteq Listed

\* When the loop asks for new claims, at the latest, if it first looks at some
\* at a given moment: at their half-life, or at once.
AskedBy(c, from) ==
  LET halfLife == HalfLife(c) + (Lifespan(c) \div 2) \div JitterPart
  IN  IF from + Immediately > halfLife THEN from + Immediately ELSE halfLife

\* What a failure costs.
Round == ReplyTimeout + RetryDelay + Immediately

\* When the loop looks again, at the latest.
Deadline == AskedBy(looked, since) + fails * Round + ReplyTimeout + StoreTime

\* telephone.go:431: whatever is lost, fails or is put back meanwhile, the loop
\* has looked again by the deadline that follows from the claims it looked at
\* and the failures since.  Where these are the claims in use, which a
\* reconnection with the original token undoes, and the deadline is short of
\* their expiration, /health does not report a degraded Telephone.
RefreshedInTime ==
  process = "up" /\ fails < MaxFails =>
    /\ now <= Deadline
    /\ claims = looked /\ Deadline < ExpiresAt(looked) => Status # "degraded"

\* README.md:20, "automatic refresh at half-life": a token in use does not
\* expire while Telephone is connected.  One that a reconnection puts back
\* does: the timer is that of the token it replaced.
NeverExpires == connected => ExpiresIn(claims, now) > 0

\* token_store.go:280 "removes expired tokens": a row that is gone has expired.
CleanupSparesTheLive ==
  \A r \in committed \ rows : ExpiresAt(r.claims) <= now
=============================================================================
