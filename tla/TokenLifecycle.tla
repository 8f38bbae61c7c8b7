--------------------------- MODULE TokenLifecycle ---------------------------
(***************************************************************************)
(* The authentication token of Telephone: where New takes it from, how     *)
(* tokenRefreshLoop replaces it, how attemptConnection falls back to the   *)
(* one in the environment, and what a crash leaves (pkg/proxy/telephone.go,*)
(* pkg/proxy/reconnect.go, pkg/storage/token_store.go).                    *)
(*                                                                         *)
(* Tokens are numbered in the order Plugboard issues them.  Plugboard is   *)
(* external: it knows one token, a refresh replaces it, and a restart of   *)
(* its own may bring back the one that was configured.                     *)
(*                                                                         *)
(* The refresh loop and the connection monitor are two goroutines that     *)
(* write currentToken and the client's token under two different locks.    *)
(***************************************************************************)
EXTENDS Naturals, FiniteSetsExt

CONSTANTS
  MaxTokens,   \* bound: tokens that are ever issued
  SaveTries,   \* attempts of persistTokenWithRetry
  CanForget,   \* may a restarted Plugboard know only the configured token?
  CanExpire    \* may tokens expire?

ASSUME TokenAssumption ==
  /\ MaxTokens \in Nat \ {0}
  /\ SaveTries \in Nat \ {0}
  /\ CanForget \in BOOLEAN /\ CanExpire \in BOOLEAN

Tokens == 1..MaxTokens
None == 0

VARIABLES
  hash,      \* the token Plugboard accepts
  root,      \* the token it was configured with
  issued,    \* how many tokens were issued
  expired,   \* the tokens that are past their expiration
  env,       \* TELEPHONE_TOKEN
  store,     \* the tokens in the database
  process,   \* where main is
  stopping,  \* t.ctx is cancelled
  conn,      \* the connection to Plugboard is up
  original,  \* t.originalToken
  current,   \* t.currentToken
  client,    \* the token of the Channels client
  refresh,   \* where tokenRefreshLoop is
  newToken,  \* the token it got
  tries,     \* attempts to save it
  request,   \* a refresh_token message is on its way
  answer,    \* the token in the reply on its way
  monitor,   \* where monitorConnection is
  saved,     \* the local currentToken of attemptConnection
  lost       \* history: issued tokens whose reply or whose save failed

serverVars == <<hash, root, issued, expired>>
diskVars == <<env, store>>
processVars == <<process, stopping>>
tokenVars == <<original, current, client>>
refreshVars == <<refresh, newToken, tries>>
wireVars == <<request, answer>>
monitorVars == <<monitor, saved>>
vars == <<serverVars, diskVars, processVars, conn, tokenVars, refreshVars,
          wireVars, monitorVars, lost>>

RefreshStates == {"off", "waiting", "requested", "saving", "adopting", "telling", "cleaning", "done"}
MonitorStates == {"off", "watching", "trying", "choosing", "lending", "tryingOriginal",
                  "restoring", "adoptingOriginal", "done"}

Init ==
  /\ hash = 1 /\ root = 1 /\ issued = 1 /\ expired = {}
  /\ env = 1 /\ store = {}
  /\ process = "down" /\ stopping = FALSE /\ conn = FALSE
  /\ original = None /\ current = None /\ client = None
  /\ refresh = "off" /\ newToken = None /\ tries = 0
  /\ request = FALSE /\ answer = None
  /\ monitor = "off" /\ saved = None
  /\ lost = {}

Accepts(t) == t = hash /\ t \notin expired

\* What is lost with the connection or with the process.
InReply == {answer} \ {None}
InHand == IF refresh = "saving" THEN {newToken} ELSE {}

-----------------------------------------------------------------------------
(* Plugboard, time and the operator.                                       *)

\* Plugboard answers a refresh: from now on it knows the new token only.  An
\* answer that nobody waits for is lost.
ServerRefreshes ==
  /\ request /\ issued < MaxTokens
  /\ issued' = issued + 1
  /\ hash' = issued + 1
  /\ request' = FALSE
  /\ IF conn /\ refresh = "requested"
     THEN answer' = issued + 1 /\ UNCHANGED lost
     ELSE lost' = lost \cup {issued + 1} /\ UNCHANGED answer
  /\ UNCHANGED <<root, expired, diskVars, processVars, conn, tokenVars,
                 refreshVars, monitorVars>>

\* The connection breaks.  A request on its way may still arrive.
ConnectionLost ==
  /\ conn
  /\ conn' = FALSE
  /\ request' \in {FALSE, request}
  /\ answer' = None
  /\ lost' = lost \cup InReply
  /\ UNCHANGED <<serverVars, diskVars, processVars, tokenVars, refreshVars, monitorVars>>

\* Plugboard restarts and does not recognise refreshed tokens.
ServerForgets ==
  /\ CanForget /\ hash # root
  /\ hash' = root
  /\ conn' = FALSE
  /\ request' = FALSE /\ answer' = None
  /\ lost' = lost \cup InReply
  /\ UNCHANGED <<root, issued, expired, diskVars, processVars, tokenVars,
                 refreshVars, monitorVars>>

Expire ==
  /\ CanExpire
  /\ \E t \in (1..issued) \ expired : expired' = expired \cup {t}
  /\ UNCHANGED <<hash, root, issued, diskVars, processVars, conn, tokenVars,
                 refreshVars, wireVars, monitorVars, lost>>

\* A Telephone that was refused gets a new token in its environment.
OperatorReplaces ==
  /\ process = "refused" /\ issued < MaxTokens
  /\ issued' = issued + 1
  /\ hash' = issued + 1 /\ root' = issued + 1 /\ env' = issued + 1
  /\ UNCHANGED <<expired, store, processVars, conn, tokenVars, refreshVars,
                 wireVars, monitorVars, lost>>

-----------------------------------------------------------------------------
(* main: New, Start, Stop, and the crash of the process.                   *)

\* Mutant: the oldest token of the database is loaded.
LoadsOldest ==
  IF store \ expired # {} THEN Min(store \ expired) ELSE env

\* LoadToken: the most recent of the tokens that have not expired; without
\* one New falls back to the environment.
BootToken ==
  IF store \ expired # {} THEN Max(store \ expired) ELSE env

\* New.  A database that cannot be read or decrypted counts as an empty one.
New ==
  /\ process \in {"down", "refused"}
  /\ \E t \in {BootToken, env} :
       IF t = None \/ t \in expired
       THEN process' = "refused" /\ UNCHANGED tokenVars
       ELSE /\ process' = "starting"
            /\ original' = env /\ current' = t /\ client' = t
  /\ UNCHANGED <<serverVars, diskVars, stopping, conn, refreshVars, wireVars,
                 monitorVars, lost>>

\* Start connects and joins, and then starts the goroutines.
StartOk ==
  /\ process = "starting" /\ Accepts(client)
  /\ process' = "up" /\ conn' = TRUE
  /\ request' = FALSE
  /\ refresh' = "waiting" /\ monitor' = "watching"
  /\ UNCHANGED <<serverVars, diskVars, stopping, tokenVars, newToken, tries,
                 answer, saved, lost>>

\* The process is gone, with all it had in memory.
Vanish(how) ==
  /\ process' = how /\ stopping' = FALSE /\ conn' = FALSE
  /\ original' = None /\ current' = None /\ client' = None
  /\ refresh' = "off" /\ newToken' = None /\ tries' = 0
  /\ monitor' = "off" /\ saved' = None
  /\ answer' = None
  /\ lost' = lost \cup InReply \cup InHand
  /\ UNCHANGED <<serverVars, diskVars, request>>

\* Connect fails and main exits: Start neither retries nor falls back.
StartRefused ==
  /\ process = "starting" /\ ~Accepts(client)
  /\ Vanish("refused")

\* A crash, or an exit because Plugboard cannot be reached.
Crash ==
  /\ process \in {"starting", "up"}
  /\ Vanish("down")

StopBegins ==
  /\ process = "up" /\ ~stopping
  /\ stopping' = TRUE
  /\ UNCHANGED <<serverVars, diskVars, process, conn, tokenVars, refreshVars,
                 wireVars, monitorVars, lost>>

\* t.wg.Wait(), then the client and the token store are closed.
StopEnds ==
  /\ stopping /\ refresh = "done" /\ monitor = "done"
  /\ Vanish("down")

-----------------------------------------------------------------------------
(* tokenRefreshLoop, refreshToken, persistTokenWithRetry.                  *)

\* Half-life is reached, or the 5 seconds after a failure are over; that t.ctx
\* is done as well by then need not keep the select from taking this case.
RefreshDue ==
  /\ refresh = "waiting" /\ conn
  /\ refresh' = "requested"
  /\ request' = TRUE
  /\ UNCHANGED <<serverVars, diskVars, processVars, conn, tokenVars, newToken,
                 tries, answer, monitorVars, lost>>

\* The reply is taken; a token that has expired is refused by Validate.
RefreshAnswered ==
  /\ refresh = "requested" /\ answer # None
  /\ answer' = None
  /\ IF answer \in expired
     THEN /\ refresh' = "waiting"
          /\ lost' = lost \cup {answer}
          /\ UNCHANGED <<newToken, tries>>
     ELSE /\ refresh' = "saving"
          /\ newToken' = answer /\ tries' = 1
          /\ UNCHANGED lost
  /\ UNCHANGED <<serverVars, diskVars, processVars, conn, tokenVars, request, monitorVars>>

\* Send error, error reply, or 10 seconds without a reply.
RefreshFails ==
  /\ refresh = "requested"
  /\ refresh' = "waiting"
  /\ answer' = None
  /\ lost' = lost \cup InReply
  /\ UNCHANGED <<serverVars, diskVars, processVars, conn, tokenVars, newToken,
                 tries, request, monitorVars>>

\* SaveToken inserts a row and commits.
SaveOk ==
  /\ refresh = "saving" /\ newToken \notin expired
  /\ store' = store \cup {newToken}
  /\ refresh' = "adopting"
  /\ UNCHANGED <<serverVars, env, processVars, conn, tokenVars, newToken,
                 tries, wireVars, monitorVars, lost>>

\* Mutant: one attempt too many.
SaveCountsTooFar ==
  /\ refresh = "saving"
  /\ IF tries > SaveTries \/ stopping
     THEN /\ refresh' = "adopting"
          /\ lost' = lost \cup {newToken}
          /\ UNCHANGED tries
     ELSE /\ tries' = tries + 1
          /\ UNCHANGED <<refresh, lost>>
  /\ UNCHANGED <<serverVars, diskVars, processVars, conn, tokenVars, newToken,
                 wireVars, monitorVars>>

\* SaveToken fails.  After the last attempt, or once t.ctx is cancelled, the
\* token is used without having been saved.
SaveFails ==
  /\ refresh = "saving"
  /\ IF tries = SaveTries \/ stopping
     THEN /\ refresh' = "adopting"
          /\ lost' = lost \cup {newToken}
          /\ UNCHANGED tries
     ELSE /\ tries' = tries + 1
          /\ UNCHANGED <<refresh, lost>>
  /\ UNCHANGED <<serverVars, diskVars, processVars, conn, tokenVars, newToken,
                 wireVars, monitorVars>>

\* t.ctx is cancelled in the pause before another attempt.
SaveCut ==
  /\ refresh = "saving" /\ tries > 1 /\ stopping
  /\ refresh' = "adopting"
  /\ lost' = lost \cup {newToken}
  /\ UNCHANGED <<serverVars, diskVars, processVars, conn, tokenVars, newToken,
                 tries, wireVars, monitorVars>>

\* updateToken
Adopt ==
  /\ refresh = "adopting"
  /\ current' = newToken
  /\ refresh' = "telling"
  /\ UNCHANGED <<serverVars, diskVars, processVars, conn, original, client,
                 newToken, tries, wireVars, monitorVars, lost>>

\* client.UpdateToken
Tell ==
  /\ refresh = "telling"
  /\ client' = newToken
  /\ refresh' = "cleaning"
  /\ UNCHANGED <<serverVars, diskVars, processVars, conn, original, current,
                 newToken, tries, wireVars, monitorVars, lost>>

\* CleanupExpiredTokens, which may fail.
Clean ==
  /\ refresh = "cleaning"
  /\ store' \in {store, store \ expired}
  /\ refresh' = "waiting" /\ newToken' = None /\ tries' = 0
  /\ UNCHANGED <<serverVars, env, processVars, conn, tokenVars, wireVars,
                 monitorVars, lost>>

RefreshStops ==
  /\ refresh = "waiting" /\ stopping
  /\ refresh' = "done"
  /\ UNCHANGED <<serverVars, diskVars, processVars, conn, tokenVars, newToken,
                 tries, wireVars, monitorVars, lost>>

-----------------------------------------------------------------------------
(* monitorConnection and attemptConnection.                                *)

MonitorAt(from, to) ==
  monitor = from /\ monitor' = to

\* Mutant: reconnect does not look at t.ctx between its attempts.
MonitorIgnoresStop ==
  /\ ~conn
  /\ MonitorAt("watching", "trying")
  /\ UNCHANGED <<serverVars, diskVars, processVars, conn, tokenVars, refreshVars,
                 wireVars, saved, lost>>

\* The monitor sees that the connection is lost, or the backoff is over.
MonitorTick ==
  /\ ~conn /\ ~stopping
  /\ MonitorAt("watching", "trying")
  /\ UNCHANGED <<serverVars, diskVars, processVars, conn, tokenVars, refreshVars,
                 wireVars, saved, lost>>

\* client.Connect succeeds with whatever token the client has by now.
ConnectOk(from, to) ==
  /\ Accepts(client)
  /\ MonitorAt(from, to)
  /\ conn' = TRUE
  /\ request' = FALSE
  /\ UNCHANGED <<serverVars, diskVars, processVars, tokenVars, refreshVars,
                 answer, saved, lost>>

ConnectFails(from, to) ==
  /\ MonitorAt(from, to)
  /\ UNCHANGED <<serverVars, diskVars, processVars, conn, tokenVars, refreshVars,
                 wireVars, saved, lost>>

TryCurrent == ConnectOk("trying", "watching")
TryCurrentFails == ConnectFails("trying", "choosing")

\* getCurrentToken, and is there another token to fall back to?
Choose ==
  /\ MonitorAt("choosing", IF original \in {None, current} THEN "watching" ELSE "lending")
  /\ saved' = current
  /\ UNCHANGED <<serverVars, diskVars, processVars, conn, tokenVars, refreshVars,
                 wireVars, lost>>

Lend ==
  /\ MonitorAt("lending", "tryingOriginal")
  /\ client' = original
  /\ UNCHANGED <<serverVars, diskVars, processVars, conn, original, current,
                 refreshVars, wireVars, saved, lost>>

TryOriginal == ConnectOk("tryingOriginal", "adoptingOriginal")
TryOriginalFails == ConnectFails("tryingOriginal", "restoring")

\* Mutant: the client keeps the original token.
RestoreNothing ==
  /\ MonitorAt("restoring", "watching")
  /\ UNCHANGED <<serverVars, diskVars, processVars, conn, tokenVars,
                 refreshVars, wireVars, saved, lost>>

\* client.UpdateToken(currentToken), the token that was read in Choose.
Restore ==
  /\ MonitorAt("restoring", "watching")
  /\ client' = saved
  /\ UNCHANGED <<serverVars, diskVars, processVars, conn, original, current,
                 refreshVars, wireVars, saved, lost>>

AdoptOriginal ==
  /\ MonitorAt("adoptingOriginal", "watching")
  /\ current' = original
  /\ UNCHANGED <<serverVars, diskVars, processVars, conn, original, client,
                 refreshVars, wireVars, saved, lost>>

MonitorStops ==
  /\ stopping
  /\ MonitorAt("watching", "done")
  /\ UNCHANGED <<serverVars, diskVars, processVars, conn, tokenVars, refreshVars,
                 wireVars, saved, lost>>

-----------------------------------------------------------------------------
Environment == ServerRefreshes \/ ConnectionLost \/ ServerForgets \/ Expire \/ OperatorReplaces
Main == New \/ StartOk \/ StartRefused \/ Crash \/ StopBegins \/ StopEnds
Saving == SaveOk \/ SaveFails \/ SaveCut
RefreshLoop == \/ RefreshDue \/ RefreshAnswered \/ RefreshFails \/ Saving
               \/ Adopt \/ Tell \/ Clean \/ RefreshStops
Monitor == \/ MonitorTick \/ TryCurrent \/ TryCurrentFails \/ Choose \/ Lend
           \/ TryOriginal \/ TryOriginalFails \/ Restore \/ AdoptOriginal \/ MonitorStops

Next == Environment \/ Main \/ RefreshLoop \/ Monitor

\* The goroutines run.  A refresh waits for its reply 10 seconds at most and
\* every database call has a timeout, so both end, if the write before the wait
\* does, which has no deadline and is supposed to return; and of two cases that are
\* ready a select takes the one that stops at last (SF).  The network lets an
\* attempt through again and again (SF): Plugboard is up more often than not.
Fairness ==
  /\ WF_vars(RefreshAnswered \/ RefreshFails) /\ WF_vars(Saving)
  /\ WF_vars(Adopt) /\ WF_vars(Tell) /\ WF_vars(Clean) /\ SF_vars(RefreshStops)
  /\ WF_vars(MonitorTick) /\ WF_vars(Choose) /\ WF_vars(Lend) /\ WF_vars(Restore)
  /\ WF_vars(AdoptOriginal) /\ WF_vars(MonitorStops)
  /\ WF_vars(TryCurrent \/ TryCurrentFails) /\ SF_vars(TryCurrent)
  /\ WF_vars(TryOriginal \/ TryOriginalFails) /\ SF_vars(TryOriginal)
  /\ WF_vars(StopEnds)

Spec == Init /\ [][Next]_vars
FairSpec == Spec /\ Fairness

-----------------------------------------------------------------------------
(* Properties.                                                             *)

\* Every variable has its type: a token in memory, on the wire or on disk was
\* issued, and persistTokenWithRetry never exceeds its attempts.
TypeOK ==
  /\ hash \in Tokens /\ root \in Tokens /\ issued \in Tokens
  /\ expired \subseteq 1..issued
  /\ env \in Tokens /\ store \subseteq 1..issued
  /\ process \in {"down", "starting", "up", "refused"}
  /\ stopping \in BOOLEAN /\ conn \in BOOLEAN /\ request \in BOOLEAN
  /\ original \in 0..issued /\ current \in 0..issued /\ client \in 0..issued
  /\ refresh \in RefreshStates /\ newToken \in 0..issued /\ tries \in 0..SaveTries
  /\ answer \in 0..issued
  /\ monitor \in MonitorStates /\ saved \in 0..issued
  /\ lost \subseteq 1..issued

\* Whatever the moment of a crash, Telephone starts again with the token that
\* Plugboard knows, unless the reply with that token or the attempts to save
\* it had failed, they are still on their way, or the token has expired.
RestartKeepsToken ==
  hash \notin {root} \cup lost \cup InReply \cup InHand \cup expired => BootToken = hash

\* A token is saved before it is used: a token in use is the configured one,
\* or it is in the database, or it could not be saved, or it has expired.
SavedBeforeUse ==
  current # None => current \in {env} \cup store \cup lost \cup expired

\* No crash between the rotation at Plugboard, the save, the adoption and the
\* cleanup costs the process a token that Plugboard knows and that was saved,
\* nor does it run on a token that a crash would cost it.
TokenIsKept == RestartKeepsToken /\ SavedBeforeUse

\* As long as Plugboard accepts the current token, a Telephone that lost its
\* connection gets it back, whatever the refresh loop and the fallback do from
\* then on, and although Restore may have given the client an older token:
\* then there is an original token to fall back to, and the next Restore
\* repairs it.  In "telling" the refresh loop is about to give the client
\* another token; FallbackReconnects says what becomes of that.
Reconnects ==
  (/\ process = "up" /\ ~conn /\ Accepts(current) /\ refresh # "telling"
   /\ client = current \/ original # current)
    ~> (conn \/ process # "up" \/ stopping \/ ~Accepts(current))

\* A Stop comes to an end, whatever the two goroutines were doing, if no write
\* to Plugboard blocks for ever.
StopReturns == stopping ~> process = "down"

\* telephone.go:545 "CRITICAL: Update the client's token for reconnection":
\* when neither goroutine is changing them, the client has the current token.
TokensAgree ==
  process = "up" /\ refresh \in {"waiting", "requested"} /\ monitor = "watching"
    => client = current

\* reconnect.go:115 falls back to the original token to handle "server
\* restarts where refreshed tokens may not be recognized": a Telephone that
\* Plugboard would accept with its original token does get connected.
FallbackReconnects ==
  (process = "up" /\ ~conn /\ original = hash)
    ~> (conn \/ process # "up" \/ stopping \/ original # hash)

\* cmd/token-check/main.go:192-195 fixes token issues by a new token in the
\* environment: with a valid one Telephone is not refused again.
NewTokenHelps ==
  [][StartRefused => ~Accepts(env)]_vars
=============================================================================
