# Telephone in TLA+

Telephone (this repository) is the client side of a reverse proxy: it keeps one
Phoenix Channels connection to the server, Plugboard, receives HTTP requests and
WebSocket traffic over it, forwards them to a local backend, and refreshes its
own authentication token on the way. The modules here model its core logic, TLC
checks them on small instances, and TLAPS proves the most important properties
for every value of the constants.

    tlc -config Client.cfg ChannelsClient      # model-check one component
    tlapm ChannelsClientProofs.tla             # check its proofs

Paths below are relative to the repository root; `client.go` is
`pkg/channels/client.go`, `manager.go` is `pkg/websocket/manager.go`, and
`telephone.go`, `reconnect.go`, `websocket.go` are in `pkg/proxy`.

## 1. The system

Inventory: the components, the state each keeps, its operations, and what makes
it correct.

| Component | State | Operations | Correct when |
|---|---|---|---|
| Channels client, connection (`client.go`) | `conn`, `connected`, `readCtx`/`readCancel`, `ctx`, `connLock` | `Connect`, `Disconnect`, `Close`, `Send`, `IsConnected`; per connection a `readLoop` goroutine and a goroutine that watches its context | no socket leaks, a loss is reported, `Close` ends and leaves nothing behind |
| Channels client, calls (`client.go`) | `refCounter`, `pendingRequests`, one buffered channel per call | `NextRef`, `SendAndWait`, `handleMessage` | a reply reaches the call it answers and no other; every call returns; the map holds the calls in progress and nothing else |
| Backend WebSocket manager, its connections (`manager.go`, `websocket.go`) | `connections` by id, per connection a socket, a context, a `closed` flag; `wg` | `Connect`, `Close`, `CloseAll`, `closeConnection`, `receiveLoop`, the handlers of `ws_connect` and `ws_close` | map and receive loops agree, a connection closed on purpose is not reported as failed, shutdown ends |
| Backend WebSocket manager, its traffic | `writeMu` and the socket of one connection | `SendFrame`, the handler of `ws_frame`, `OnFrame`, `OnClose`, `OnError` | a frame is written or reported; Plugboard sees a prefix in order, then the end; locks do not hold up shutdown for ever |
| WebSocket checks | one goroutine per check | `CheckSupport`, the handler of `ws_check` | nothing is left open, every check ends |
| Token lifecycle (`telephone.go`, `reconnect.go`, `token_store.go`, `main.go`) | `originalToken`, `currentToken`, the client's `token`, the database, the environment | `New`, `Start`, `Stop`, `refreshToken`, `persistTokenWithRetry`, `attemptConnection`, `SaveToken`, `LoadToken`, `CleanupExpiredTokens` | a crash never loses the token Plugboard knows; the client keeps a token that is accepted |
| JWT claims and the clock (`jwt.go`, `telephone.go`, `token_store.go`) | `claims`, the timer of `tokenRefreshLoop`, the texts of times in the database | `Validate`, `IsExpired`, `ExpiresIn`, `TimeUntilHalfLife`, the schedule of the refresh, the queries of the store | a token is replaced in time; `New` starts on the newest live one |
| Reconnection and heartbeat (`reconnect.go`, `telephone.go`) | the monitor's position, `attempt`, `lastHeartbeat` | `monitorConnection`, `reconnect`, `joinChannel`, `heartbeatLoop`, `calculateBackoffWithJitter` | a lost connection is replaced, a fresh one is kept, delays stay in range, both loops stop |
| HTTP proxy requests and shutdown (`telephone.go`) | one goroutine per request, `activeRequests` | `handleProxyRequest`, `forwardToBackend`, `sendProxyResponse`, `Stop` | the WaitGroup is exact, every handler ends, shutdown is graceful |
| Response reader (`telephone.go`) | `chunks`, `totalSize`, the pooled buffer | the read loop of `forwardToBackend`, the chunked response | Plugboard gets the body, memory is bounded |
| Health server, token-check | none of their own | `getHealthStatus`, `queryAndPrintTokens` | what they say is what the program would do |
| Path and payload validation, Phoenix messages, configuration, logging, encryption and schema of the store | none that changes | | not modelled, see section 9 |

How they interact. `main` calls `New`, `Start` and, on a signal, `Stop`. `Start`
connects, joins the channel and starts three goroutines: `monitorConnection`,
`heartbeatLoop` and `tokenRefreshLoop`; these share the client and the tokens.
`readLoop` reads every message from Plugboard: a `phx_reply` goes to the waiting
call through `pendingRequests`; every other event is handled by a goroutine of its
own (`client.go:412`), which is where `proxy_req`, `ws_connect`, `ws_frame`,
`ws_close` and `ws_check` begin, so all of them overlap and none is ordered. The manager calls
back into `telephone.go` from its receive loops, and those send through the
client. `Stop` cancels `t.ctx`, closes all backend sockets, waits for the counted
requests for 30 seconds at most, for the background goroutines without a limit,
and closes the client and the database.

What is hard about it: goroutines of a replaced connection that act on the
fields of the new one; a lock that is held across a dial or a write; a channel
that is looked up under a lock and used after it; check and use of the
connection map in two critical sections with a dial in between; two goroutines
that write the same token under two different locks; a crash between Plugboard's
rotation of the token and the commit; timeouts that race late answers;
frames that overtake each other and the close behind them; times that are
compared as texts, in seconds or in nanoseconds; delays that overflow; and a
shutdown that meets all of these at any moment. `PROJECT.json` lists them as
hazards, each at its line with the properties that watch it.

## 2. Modules

| Module | What it is |
|---|---|
| `ConnectionSlot` | abstract: one slot for a socket, every socket is fresh, none comes back |
| `ChannelsClient` | the connection lifecycle of the client; implements `ConnectionSlot` |
| `CallOutcome` | abstract: a call is made once and ends once, answered only by a reply the server gave to it |
| `PendingCalls` | `NextRef`, `SendAndWait` and reply routing; implements `CallOutcome` |
| `BackendSockets` | the manager's `Connect`, `Close`, `CloseAll` and `receiveLoop`, with the handlers of `ws_connect` and `ws_close` |
| `LossyFifo` | abstract: messages may be lost, but arrive in order and once, the end after all of them |
| `FrameRelay` | the frames of one established connection in both directions; implements `LossyFifo` |
| `TokenLifecycle` | where tokens come from, their refresh, the fallback to the original one, crashes and restarts |
| `Claims` | the arithmetic of `jwt.go` |
| `TokenClock` | tokens against the clock: when they are replaced, which row `New` takes, what `/health` and token-check say; uses `Claims` and `Backoff` |
| `Backoff` | `calculateBackoffWithJitter` on integers of a machine |
| `Reconnection` | the monitor, `reconnect`, the join and the heartbeat loop; extends `Backoff` |
| `ProxyRequests` | `handleProxyRequest` and the whole of `Stop` |
| `WsChecks` | composes `ProxyRequests` with the `ws_check` handlers |
| `ResponseReader` | how a body is cut into chunks and put on the wire |

`ChannelsClientProofs`, `PendingCallsProofs`, `BackendSocketsProofs`,
`FrameRelayProofs`, `TokenLifecycleProofs`, `TokenClockProofs`, `ReconnectionProofs` and
`ProxyRequestsProofs` hold the theorems about the module they are named after, the last
one also those about `WsChecks` and `ResponseReader`.

Conventions. A goroutine is a program counter with the names of what it is about
to do. One action is one critical section, or one blocking call's completion;
everything between two of them that other goroutines could see is a step of its
own. A definition whose comment begins with *Mutant:* is not part of a
specification: it is a deliberately wrong version of the action after it, and
shows that a property would notice.

### ChannelsClient

The n-th successful dial makes socket, read context, reader and watcher n;
`readCtx` is the newest one. `connLock` says who keeps the lock across a blocking
call: `Connect` for a dial (`ConnectBegin`, then `DialOk` or `DialFail`) and
`Send` for a write (`SendBlocks`, `SendReturns`). All other critical sections are
one action guarded by a free lock. A reader goes through *top* (read `c.conn`
under the lock), *reading*, *awaitWatch* (`contextWg.Wait`), *cleanup* (the locked
part of the deferred function) and *flag* (`connected.Store(false)`, outside the
lock). A watcher is started by the reader, reads `c.readCtx` when it gets to run
and not when it was started, and closes whatever `c.conn` holds when its context
ends. `Connect` is only called while `IsConnected` is false or after `Disconnect`,
by one goroutine at a time, as `Start` and `attemptConnection` do.

### PendingCalls

A call takes a reference (`NextRef`), registers a new channel (`Register`), sends
(`SendOk`, `SendError`), waits (`GetReply`, `GiveUp`) and runs its deferred function
(`client.go:260-265`), which has two steps: delete the entry under the lock (`Remove`),
close the channel after the unlock (`CloseChan`). A reader looks the channel up under the lock
(`Lookup`) and sends after the unlock (`Deliver`); a send on a closed channel
ends the process (`panicked`). The server replies never, once or more often, and a
lost connection drops what is under way.

### BackendSockets

The n-th `ws_connect` makes object n under an id of its choice, the id of another
one included. `LookupId` is the check under the read lock. The dial without a lock has
two parts: *dialing*, which the manager's context ends, until `Reach` has the transport
up, and *handshaking*, which only the backend ends (`DialOk`, `HandshakeFails`), because the
dialer neither looks at the context any more nor has a timeout. `Store` is the write to
the map, `Spawn` the receive loop, and `ReplyConnected` the message to Plugboard, which
comes after the loop has begun.

A receive loop looks at its context at the *top* and once more when a read has *failed*
(`LoopError`), and calls the `EventHandler` in steps of their own (`LoopForwarded`,
`LoopReported`), so that a cancel comes between the look and the message. A read fails
for any reason and at any time, on a socket that is still open too (`LoopFails`).
`lastWords` is history: how many of these calls have ended after the cancel. `LoopLeave`
deletes the entry by id, whoever it belongs to by then, and neither closes the socket nor
cancels the context.

`closeConnection` is taken in its steps (`Mark`, `Cancel`, `SendClose`, `Shut`, `Delete`) by the
handler of a `ws_close` or by the goroutine that runs `CloseAll`, which cancels the
manager's context first, then takes its list, then waits for the receive loops. That
wait is *parked* until the last `Done`, and then looks at the count once more, as
`sync.WaitGroup` does: the `Add` of a `Connect` that got through in between is a panic.

### FrameRelay

One connection, from the moment it is established. A frame of Plugboard goes through its
own goroutine: *spawned*, *looking* (the entry, then the closed flag, then the opcode),
*locking* and *writing* (under `writeMu`), and *failing* (`sendWSError`) where something
is wrong. An agent, the `ws_close` handler or the goroutine of `Stop`, marks the
connection closed, cancels its context, takes `writeMu` for the close frame, and closes
the socket after the unlock. `handed` is what the socket has taken, `uplink` what
Plugboard got: a `Send` on the way there may fail and is only logged. A stalled backend
blocks a write, which has no deadline, with `writeMu` held; its end makes the write
fail. A read of the receive loop fails when the connection has ended, or on an open one
when the backend breaks the protocol (`LoopFails`), and the end is reported in a step of
its own (`LoopReports`). `errors` are the frames for which a `ws_error` was tried: that
its `Send` fails is only logged. `taken` numbers the frames the receive loop has read,
and `End` stands for `ws_closed` or the `ws_error` of `OnError`.

### TokenLifecycle

Tokens are numbered in the order Plugboard issues them; Plugboard knows one of
them (`hash`). A refresh replaces it before the reply is sent, so a crash or a loss
in between is a state. `lost` is history: the tokens whose reply or whose save
failed, which nobody can be expected to have. The database is a set of tokens with
atomic inserts and deletes, as SQLite transactions are. `New` prefers the database
to the environment (`BootToken`), and a database that cannot be read counts as
empty. A refresh writes `currentToken` (`Adopt`) and the client's token (`Tell`) under
two locks; `attemptConnection` reads the first (`Choose`), writes the second (`Lend`,
`Restore`) and, after a fallback that worked, the first (`AdoptOriginal`).

### Claims and TokenClock

`Claims` keeps the difference between the checks of `jwt.go`: `IsExpired` and `Validate`
compare whole seconds, `ExpiresIn` is a duration. `TokenClock` has a clock that ticks in
fractions of a second, and a step that is due comes before the next tick, as a
timer or a timeout would have it. `Schedule` is the delay `tokenRefreshLoop` computes,
with its minimum of a second and its jitter above a minute; `Answered`, `RequestFails`,
`Stored` and `CleansUp` are `refreshToken` with its timeout, what saving may take, and the
cleanup after it. `looked` are the claims the loop looked at when it set its timer, and
they need not stay those in use: `Reconnected` installs the claims of the original token
where the fallback to it succeeds, while the timer stays as it is. The SQLite
driver writes a time as the text of the local clock and the queries compare texts:
`Text` puts every moment after `ShiftAt` forward or back, which is a change of the time
zone or of daylight saving time. `LoadToken` and `Cleaned` are the two queries on these
texts; `BootTokens` is the choice `New` makes of the result (the set has several
elements when rows carry the same time). `Status` is what `getHealthStatus` answers and
`Listed` the rows token-check prints as valid, which it compares as times. The
concurrency of the same operations is in `TokenLifecycle`, where they are steps.

### Backoff and Reconnection

`Backoff` follows `calculateBackoffWithJitter` through its conversions: a `float64`
power of two that is out of range of an `int64` becomes the smallest integer on
amd64 and the largest on arm64 (the language leaves it open, so both are
allowed), the addition of the jitter wraps around, and the result is clamped at
both ends.

In `Reconnection` time passes in heartbeat intervals (`Tick`), with the timeout at
three of them as in `config.go`; the monitor runs more often than that. `age` is the
time since `lastHeartbeat`, `uptime` the real age of the connection. `monitor` is
where the goroutine is: *watching* and *suspecting* in `monitorConnection`, *top*,
*connecting*, *joining* and *backoff* in `reconnect`. The tokens of `attemptConnection`
are in `TokenLifecycle`; here it connects or fails.

### ProxyRequests and WsChecks

A handler goes from *spawned* (the goroutine exists, `Add(1)` has not run) through
*validating*, *forwarding* and *answering* to *finishing* (`Done`); the four ways out
are an invalid request that can be answered, one that cannot, a backend failure,
and an answer. `Stop` is modelled step by step with its 30 second limit, and so is
the goroutine it has wait for the WaitGroup (`waiter`): it is woken by the last `Done`
and looks at the counter once more before `Wait` returns, as `sync.WaitGroup` does; a
counter that is not zero then is a panic.

`WsChecks` extends it with the `ws_check` goroutines: they share the connection and the
cancelled `t.ctx` with the requests and `Stop`, and count themselves nowhere. In both
modules a goroutine that sends (*answering*, *replying*) may stay there for ever.

### ResponseReader

A body is any sequence of bytes. As UTF-8 a *lead* byte with the *cont* byte after it
makes one character; in a binary body both occur alone. The transport chooses how many
bytes a `Read` returns and whether the end comes with the last of them. `Marshal` is
what `encoding/json` does: it replaces the bytes that are not part of a valid character.
`Respond` is the choice between a plain and a chunked response.

## 3. Runs

A passing run checks safety and liveness of one component together, under the
specification with fairness where it has liveness properties. Each property has a
mutant: a wrong version of one definition under which TLC finds it violated.

| Run | Module | Shows |
|---|---|---|
| `Client` | `ChannelsClient` | no stray socket, a connected client is watched, a loss is reported, `Close` returns and leaves nothing, `ConnectionSlot` is implemented |
| `Calls` | `PendingCalls` | the map holds the calls in progress, replies reach their call, every call returns, `CallOutcome` is implemented |
| `Sockets` | `BackendSockets` | map and receive loops agree, a cancelled connection sends one more message at most and none after `CloseAll`, `CloseAll` returns for peers that drain, dials are released |
| `Relay` | `FrameRelay` | every frame is settled, one writer at a time, `LossyFifo` is implemented, every handler and `CloseAll` end for peers that drain |
| `Tokens` | `TokenLifecycle` | a restart finds the token, a token is saved before it is used, the client gets back to Plugboard, `Stop` ends |
| `TokenClock` | `TokenClock` | `New` starts on the newest live token, token-check agrees with it, the refresh loop looks at the claims again by its deadline, whatever a reconnection puts back |
| `Reconnect` | `Reconnection` | nothing half set up is taken for healthy, nothing fresh is given up, delays stay in range, losses are repaired, both loops stop |
| `Requests` | `WsChecks` | the WaitGroup is exact, `Stop` waits for what it found counted, checks close what they open, handlers end if their sends return |
| `Reader` | `ResponseReader` | the response is complete and is the body, but for invalid UTF-8 and characters cut in two; memory is bounded |
| `CallsLateReply` | `PendingCalls` | violated: a late reply panics on a closed channel |
| `ReconnectSilence` | `Reconnection` | violated: a silent Plugboard is never noticed |
| `RequestsWait` | `ProxyRequests` | violated: a request that comes as the wait ends makes it panic |

Bounds, and why they are enough.

- `Client`: two connections. Everything about an old reader or watcher is about
  what it does to the one that replaced it. That three or more change nothing for
  the safety properties is what the theorems say.
- `Calls`: two callers, two readers, two references and two replies for each. Two
  calls at once is what Telephone can have (a join and a refresh), two readers is
  an old and a new connection, and a second reply is a doubled one. The theorems
  cover every number.
- `Sockets`: two requests over two ids, so ids may differ or be shared, one
  `ws_close` and the goroutine of `Stop`. Every interaction the code has is of one
  object with one other, or with one agent. The theorems cover every number.
- `Relay`: two frames of Plugboard, so that one can overtake, follow or wait behind the
  other, a frame of the backend and its end, one `ws_close` and `Stop`. The frames of the
  backend come from one loop, so a second one meets nothing the first does not; the
  theorems cover every number.
- `Tokens`: three tokens: the configured one, a refreshed one, and one that
  overtakes it. Two save attempts distinguish the first, a repeated and the last.
- `TokenClock`: half seconds, tokens that live for four seconds and a horizon of six. A
  token is thus replaced more than once and expires within the horizon, rows are saved
  and expire on either side of the clock change at tick 11, and a clock put back goes
  back past both. The jitter begins above one and a half seconds instead of a minute, so
  that delays with and without it occur. Plugboard's clock is ahead by a
  second at most, and two failures of a refresh are counted.
- `Reconnect`: integers of four bits and delays of 3 and 6, so that the second
  attempt reaches the maximum's range and the third overflows. `MaxRetries` 2 and
  attempts counted up to 3, so the limit is passed; ages up to 4 with a timeout of 3,
  so it is passed too. Counters saturate, and nothing is cut off.
- `Requests`: two requests, one of which may be counted while the other is not, and
  one check. Checks do not touch each other.
- `Reader`: all bodies of up to 8 bytes, a limit of 4 and chunks of 2, so that bodies
  end below, at and above the limit and at and inside a chunk, with characters on
  every boundary and with bytes that are part of none.

Deadlock is checked in every run; where the program ends, a `Terminated` action says so.
`TokenClock` and `Reconnection` do not end; in `TokenClock` a Telephone that has ended
can always be started again, and at the last tick too.

## 4. Fairness

Goroutines that can run do run, and timers fire. What the code bounds by a timeout
ends: a dial to Plugboard, the wait for a reply, a database operation, a request to the
backend, the dial of a check. What it does not bound is not fair: a backend owes neither
a handshake nor a frame nor a close, Plugboard owes no reply, nobody has to make a
request or a call.

No write has a deadline. A call is bounded only from the end of its `Send` on, for the
timer comes after it (`client.go:268`, `client.go:276`); a heartbeat, a join, a response
or a `ws_error` is not bounded at all. `ChannelsClient` models the write that blocks,
with the lock it keeps; the other modules suppose that peers drain, each where it says
so: `CloseAllReturns` and `HandlersEnd` carry it as a premise (`PeersDrain`,
`SendsReturn`), as `[]<>` of nobody stuck in a send, and `CallReturns`, `RelayEnds`,
`Restored`, `LoopsStop`, `Reconnects` and `StopReturns` hold under fairness that takes a
write to return.

In `BackendSockets`, `FrameRelay`, `ProxyRequests` and `WsChecks` one weak fairness
condition stands for all goroutines: some step is taken while some goroutine can go on.
In the situations the properties speak of, finitely many steps are left, so that each
goroutine gets its turn without a condition of its own. The dial of `Connect` is fair
only once `CloseAll` has cancelled its context, since it has no other bound, and the
handshake after it never: cancelling does not end it. A read that fails is fair only on
a socket that has ended (`ReaderError` of `ChannelsClient`, `LoopFails`), although it
may fail on one that has not.

Strong fairness is used in five places:

- waiting for `connLock`: Go's mutex hands over to a waiter that has starved for a
  millisecond, so it is not overtaken for ever;
- a `select` with several ready cases chooses at random, so a cancelled context is
  seen in the end (`MonitorStops`, `HeartbeatStops`, `RefreshStops`);
- the network lets an attempt through again and again (`ConnectOk`, `JoinOk`,
  `TryCurrent`, `TryOriginal`): this is an assumption, without which nobody could
  reconnect, and `LoopsStop` and `StopReturns` do not depend on its outcome;
- `DrainedSpec` of `ChannelsClient` supposes a peer that drains what it is sent in
  the end, so that a write which holds the lock returns. The code does not secure
  this: `Send` has no write deadline. `CloseReturns` and `LossIsReported` are checked
  under it, and `DisconnectReturns` in section 7 is what happens otherwise;
- `Writing` of `FrameRelay` supposes the same of a backend: it drains or ends its
  connection, again and again, so that a write with `writeMu` held returns.

## 5. Properties worth a word

`SocketsAreWatched`. The flag `connected` is an atomic outside the lock and can be
wrong in either direction. What the monitor needs is only this: while it is true,
the reader of the newest connection is still there to set it to false, and no socket
is open outside `c.conn`, where nobody would close it.

`EntriesAreCalls` is an equality between the map and the goroutines: every call inside
`SendAndWait` is registered under its own reference with its own channel, and every
entry belongs to such a call.

`MapMatchesLoops` relates the manager's map to its goroutines in both directions: a loop
that may still read can be reached through the map, or has been cancelled and shut; an
entry leads to a connection that is served; and a loop that is gone has told Plugboard or
was cancelled, so that no connection ends in silence. The first excepts an id used
twice, where `OneConnectionPerId` of section 7 shows what happens. It does not say that the
socket of a loop that is gone is closed: see `FinishedIsClosed`.

`CancelSilences`. The loop looks at its context and reports in two steps, so a connection
closed on purpose may still send what it was about to: one frame or its end, and no more.
What `Stop` relies on is the second half: when `CloseAll` has returned, no loop calls the
`EventHandler` again, although a `ws_connect` may still get through its handshake and
start one.

`StopReleasesDials` is about the dial proper. The handshake behind it is not released
(`StopEndsHandshakes` in section 7).

`CloseAllReturns` supposes peers that drain, excepts the panic of `m.wg.Wait()`
(`WaitReturns` in section 7), and leaves out shared ids for the reason above. With two
connections under one id the receive loop that ends first deletes the entry of the
other; then neither `Close` nor `CloseAll` reaches that one, and `m.wg.Wait()` waits for
as long as its backend says nothing.

`FramesAreSettled` says what the code keeps of frames that overtake each other and
a `ws_close`: not their order, but that each is written once and before the close
frame, or that a `ws_error` for it is tried, and not both.

`TokenIsKept`. Plugboard rotates the token before Telephone has it. The property
says exactly which crashes hurt: those while the new token is in the reply or in the
hands of a save, and those after a save that failed; and that a token is in the
database before it is in use.

`Reconnects` holds although the fallback changes the client's token behind the
refresh loop's back, because every failed round puts back `currentToken`. Its
premise leaves out one step, *telling*: see `FallbackReconnects` below.

`RefreshedInTime` gives the latest moment at which the loop looks at the claims again,
from those it looked at and the moment it first did: their half-life, the jitter, the
failures so far, the timeout of a call and the time of a save. A reconnection that puts
the original token back changes the claims in use and not the timer, so the deadline
follows from what the loop looked at. Only where that is what is in use, and the
deadline is before its expiration, `/health` is never *degraded*; `NeverExpires` in section 7 is
what happens otherwise.

`BootsNewestLive` and `DiagnosisAgrees` hold although times are compared as texts: that the
order of the texts is wrong around a clock that is put back is what `ClockAgrees`
excepts, and `New` looks at the expiration of the row once more, as a time.

`DelayInRange` needs no assumption on the configured delays or the width of the
integers but their range: the clamping at both ends catches what the conversion and
the wrapping make of an overflow.

`CountIsExact` and `AwaitedAreFinished`: `Stop` waits for exactly the handlers that
have counted themselves; what it misses are those that have not (`ArrivedAreFinished`).

`HandlersEnd` is about the handlers' own ways: as long as Plugboard drains, no other part
of the program, no order of `Stop`, losses and checks, keeps one of them for ever.

`ResponseIsFaithful` says byte by byte what Plugboard gets: the body, with exactly those
bytes replaced that are no valid UTF-8 and those of the characters that a chunk boundary
cuts in two.

## 6. What is proved

Assumptions are the named `ASSUME`s on the constants, as weak as the code allows:
any number of connections, callers, readers, references, frames and tokens, any
finite set of requests, any delays and limits in range. All theorems are about `Spec`,
without fairness. In each module the theorems follow from one inductive invariant,
`IInv` where nothing else is said, and TLC has checked every inductive invariant, as an
invariant of the module's run, before it was proved.

Every invariant the passing runs check is a theorem, and so is every action property and
refinement. Beside them stand theorems that no run needs: under which condition a claim
of section 7 *does* hold.

`ChannelsClientProofs`

- `TypeCorrect`, by one step per action.
- `ConnectionsHaveOwners`: `SocketsAreWatched` is not inductive. `SlotInv` adds that a
  dial holds the lock with `c.conn` empty (`DialHoldsLock`; without it a dial could
  overwrite an open connection) and that sockets beyond `readCtx` were never used
  (`FutureSocketsFresh`). Closing `c.conn` then leaves no open socket at all, which
  is the lemma every step that touches it cites. For the flag: only `DialOk` sets it,
  and makes a reader; a reader ends only in the step that clears it.
- `ClientImplementsSlot`: the initial state maps to an empty slot; every step is
  `Open`, `Shut` or a stutter under `opened <- readCtx` and the open sockets. It uses
  `SlotInv` for *Open only when empty*.
- `CloseLeavesNothing`: `WatcherGone` (a reader in its cleanup has no watcher any
  more) and `ShutDown` (from *cancelling* on there is no connection) give it,
  together with `SlotInv`.

`PendingCallsProofs`

- The invariant: calls have references and channels of their own
  (`OwnNames`), they are registered, no entry is forgotten, replies on their way to
  a channel answer its call (`RepliesOnCourse`, which has to speak of what a reader
  holds between lookup and send), nothing is received that was not sent
  (`NothingInvented`, which also keeps `TypeOK`), and outcomes follow the callers
  (`OutcomeFollows`). `TypeCorrect` and `MapHoldsTheCalls` follow from it.
- `CallsImplementOutcome`: every step is a step of `CallOutcome` or a stutter. That a
  call ends at most once needs `OutcomeFollows`, that it is answered only by what
  the server said needs `RepliesOnCourse` and `NothingInvented`.
- Where the process can die (`NeverPanics`). `LookupsFindOpenChannels`: what is in the map
  is open, so a lookup never returns a closed channel. `OnlyLateRepliesPanic`: the channel a
  reader is about to send on is closed only when its call has ended (`LateInv`).
  `OneReplyIsSafeOnceTaken`: if Plugboard replies to a reference once at most, such a
  call never got an answer, because the one reply is still in the reader's hand (`OnlyReply`).

`BackendSocketsProofs`

- The invariant says where a handler, an agent and a loop are when an object is in
  the map, in the snapshot, marked or cancelled (`EntriesAreServed`, `TargetsAreStored`,
  `RequestsHaveIds`); that a cancelled object is shut or about to be (`CancelledAreShut`);
  that a loop leaves only after it has reported its end or was cancelled
  (`LoopsLeaveForAReason`); and that an object is reachable from the moment it is
  stored, before its loop exists (`LoopsAreReachable`).
- `LoopsMatchTheMap` follows, and so does `TypeCorrect`.
- `CancelledLoopsFallSilent`: a loop that has made its one call after the cancel cannot be on
  the way to another, because every way there passes a look at the context (`WordsAreLast`);
  and no loop that starts after `CloseAll` has returned gets past its first look
  (`CloseAllIsQuiet`).

`FrameRelayProofs`

- `FramesSettle` is inductive once frames that are not done count as zero
  (`PendingFrames`); a write is the one step that changes the count, by one
  (`WriteIsCounted`, with the cardinality of a finite set).
- `TypeCorrect` includes that `writeMu` is held by who is writing.
- `RelayImplementsFifo`: every step is a step of `LossyFifo` or a stutter, because what
  Plugboard has was read before (`UplinkIsPast`).
- `PlugboardSeesOrder`: the order of what Plugboard has (`UplinkInOrder`) is kept by
  every step of `LossyFifo`, so it holds of the relay by the same lemma the refinement
  rests on (`StepFifo`).

`TokenLifecycleProofs`

- `CrashesKeepTheToken`: Plugboard knows the configured token or the newest one
  (`HashIsRootOrNewest`), and a token it knows that is not on its way is in the database
  (`HashIsKept`), so it is the one `New` takes: the greatest element of a set of
  numbers. That there is one is proved by well-foundedness (`MaxIsNewest`).
- `TypeCorrect`.

`TokenClockProofs`

- `TokensAreReplacedInTime`: `OnTime` says for every place of the loop how late its
  timer may be, counted from the claims the loop looked at, since those in use may be
  others; each round that fails costs at most the timeout, the pause and the second
  before the next attempt. `ClaimsInUse` adds that claims found valid were not issued in
  the future, from which a half-life is bounded. The proof needs arithmetic of `\div`
  that is stated as lemmas (`UnixIsPast`, `DivMonotone`).
- `StartsOnNewestLive`: a row was live when it was saved (`RowsWereLive`), two rows are never
  saved at one moment (`SavedOneByOne`), and while a save is ahead it is ahead of every row
  (`NextSaveIsLater`). If the clock was not put back, the order of the texts is that of the
  moments (`TextsInOrder`, `TextsAgree`), so the last row `New` finds is the newest live one.
  That there is one follows from the well-foundedness of the natural numbers (`LeastExists`,
  `LastExists`, `NewestIsOne`). Saves are apart because every timer is set for a later moment
  (`TimerIsSet`), for which a jitter must be less than the whole delay: the assumption
  `JitterPart > 1`, where telephone.go:452 has 20.
- `TokenCheckAgrees`: `token-check` compares moments and `New` the texts of the same rows;
  `DiagnosisAgrees` names the cases in which that makes a difference (section 5).
- `CleanupIsHonestAlways`: unless the clock was put back, a row that is gone has
  expired. It is a part of the invariant (`CleanupIsHonest`): the newest row ever saved
  is found only if no cleanup removed it.
- `TypeCorrect`.

`ReconnectionProofs`

- `SleepsAreInRange`: `DelaysInRange` is about the operator alone, for every width and
  every outcome of the conversion; the monitor sleeps only for such a delay.
- `WatchedChannelIsJoined` and `FreshConnectionIsKept`: a monitor in *top*, *connecting*
  or *backoff* has no connection (`JoinedWhenWatched`), and a watched connection is at
  least as old as its last heartbeat (`AgeOfThisConnection`).
- `DelaysGrowUntilOverflow`: every delay comes from `calculateBackoff`, and as long as
  neither the doubled delay nor the maximum with its jitter leaves the width of a
  duration (`NoOverflow`), it is the doubled initial delay, or the maximum if that is
  less, within a quarter; only `INITIAL_BACKOFF` may stand in for less
  (`DelayFollowsExponential`).
- `TypeCorrect`.

`ProxyRequestsProofs`

- `WaitGroupCounts`: the counter equals the number of handlers between `Add` and
  `Done`, by adding or removing one element of a finite set.
- `StopWaitsForCounted`: the count says nothing about which requests are counted.
  `IInv` adds that an awaited request is counted or done (`AwaitedAreCounted`), so
  that a count of zero means all of them are done.

- `ChecksRefine`: every step of `WsChecks` is one of `ProxyRequests` or a stutter, so what holds
  of the counter and of `Stop` holds with any number of checks beside them
  (`ChecksDisturbNothing`).
- `ResponseArrivesWhole`: the invariant of the reader (`ReaderIInv`) says that what was
  read, what is kept and what was sent are pieces of one body, cut at the same places.
  Joining pieces is a fold, and what it does to one more piece is proved by taking a
  shortest counterexample instead of by induction.
- `MemoryStaysBounded`: what is kept is compared with the limit after every chunk, and only
  then is another one read.
- `ExactResponses`: Plugboard gets the very body if and only if every byte of it belongs to a
  valid character and no chunk boundary cuts one; a single chunk has no such boundary.
  That is where `WireIsBody` does hold.
- `ReaderTypeCorrect`, `ChecksTypeCorrect`.

Only model-checked: liveness (`CallReturns`, `LossIsReported`, `CloseReturns`,
`Restored`, `LoopsStop`, `SilenceIsNoticed`, `RelayEnds`, `HandlersEnd`,
`CloseAllReturns`, `StopReleasesDials`, `Reconnects`, `StopReturns`), because TLAPS has
neither `ENABLED` nor fairness. Induction over data is out of the prover's reach as well
(the induction theorems take an operator as a parameter); where a proof needs it, a
least counterexample is taken instead.

## 7. Claims the code does not keep

Three runs end in a counterexample, on claims the repository makes about itself;
`PROJECT.json` lists them as findings with the lines. More claims of this kind are
stated in the modules, and TLC finds each of them violated when it is put into the
configuration of the module in place of the properties there:

| Property | The claim | What happens |
|---|---|---|
| `StaleReaderSparesNewConnection` (`ChannelsClient`) | client.go:198 "to prevent race with readLoop cleanup" | the cleanup of an old reader takes the lock after a new `Connect`, and closes what `c.conn` holds then |
| `OneReaderPerSocket` (`ChannelsClient`) | README.md:376 "Thread-safe connection management with read/write separation" | a reader that handles a message while the connection is replaced goes on with the new `c.conn`, next to that one's own reader |
| `FlagTellsTheTruth` (`ChannelsClient`) | client.go:224 "IsConnected returns true if the client is connected" | the `connected.Store(false)` of an old reader comes after the unlock, and after the `true` of a `Connect` in between |
| `DisconnectReturns` (`ChannelsClient`, `FairSpec`) | reconnect.go:200 "Force disconnect and reconnect" | `Send` keeps `connLock` in a write to a peer that does not drain; `Disconnect` waits for the lock |
| `OneConnectionPerId` (`BackendSockets`) | manager_test.go:195 "Expected error for duplicate connection ID" | two overlapping requests pass the check before either stores |
| `CloseIsFinal` (`BackendSockets`) | manager.go:224 "Already closed or never existed" | a `ws_close` during the dial finds no entry, and the dial succeeds after it |
| `FinishedIsClosed` (`BackendSockets`) | manager.go:303 "Ensure connection is cleaned up" | the deferred function deletes the entry and does not close the socket; after that nobody can |
| `CloseAllClosesAll` (`BackendSockets`) | manager.go:230 "CloseAll closes all backend WebSocket connections." | after `m.cancel()` a receive loop deletes its entry before the list is taken; its socket stays open |
| `StopEndsHandshakes` (`BackendSockets`, `FairSpec`) | manager.go:412 "Configure dialer with subprotocols and handshake timeout", in `CheckSupport` | the dialer of `Connect` has no timeout and does not look at the cancelled context once the transport is up |
| `WaitReturns` (`BackendSockets`) | manager.go:252 "Wait for all receiver goroutines to exit" | a `Connect` that got through its handshake counts its loop between the last `Done` and the return of `Wait`: a panic |
| `TokensAgree` (`TokenLifecycle`) | telephone.go:545 "CRITICAL: Update the client's token for reconnection" | `attemptConnection` puts back the token it read before a refresh |
| `FallbackReconnects` (`TokenLifecycle`, `FairSpec`) | reconnect.go:115 "try falling back to it" | `AdoptOriginal` between `Adopt` and `Tell`: `currentToken` is the original one, the client has another, and the fallback is skipped for ever |
| `NewTokenHelps` (`TokenLifecycle`) | cmd/token-check/main.go:193-194, a new token in `.env` | a token in the database that has not expired hides it |
| `NeverExpires` (`TokenClock`) | README.md:20 "automatic refresh at half-life" | after failed rounds, a start late in its life, or a reconnection that puts back the original token under the timer of the newer one, a token expires while Telephone is connected |
| `CleanupSparesTheLive` (`TokenClock`) | token_store.go:280 "removes expired tokens" | the texts are compared: a row that expires after the clock is put back has a smaller text than the present, and is removed although it is live |
| `BackoffGrows` (`Reconnection`) | .env.example:64 "Backoff increases exponentially with jitter up to this maximum" | where the overflowing conversion gives the smallest integer (amd64), the delay is `INITIAL_BACKOFF` again: with one second, after some 35 attempts |
| `RetriesAreLimited` (`Reconnection`) | .env.example:68 "before giving up" | the monitor calls `reconnect` again on its next tick |
| `ZeroDisables` (`Reconnection`, `MaxRetries = 0`) | .env.example:69 "0 to disable reconnection" | only a positive limit is compared |
| `ArrivedAreFinished` (`ProxyRequests`) | README.md:21 "Waits for active requests before stopping" | `Add(1)` runs in the handler's own goroutine, so a request can arrive and not be counted yet |
| `ShutdownAbortsNothing` (`ProxyRequests`) | README.md:369 "Graceful shutdown waiting for active requests to complete" | `t.cancel()` comes before the wait, and the requests to the backend are derived from `t.ctx` |
| `StopWaitsForChecks` (`WsChecks`) | README.md:21, as above | a `ws_check` counts itself nowhere |
| `OversizedIsRejected` (`ResponseReader`) | README.md:510 "Responses exceeding this are rejected" | the loop is left on `io.EOF` before the size is compared |
| `WireIsBody` (`ResponseReader`) | telephone_test.go:448 "Verify chunks reconstruct the original body" | what is no valid UTF-8 is replaced when the chunks are marshalled: any binary body, and a character cut by a chunk boundary |

## 8. Where the models depart from the code

- Memory is sequentially consistent, as Go's locks, atomics and channels make it
  where the code uses them.
- `ChannelsClient` leaves out the messages themselves: a reader handles one and goes
  back to *top*. `PendingCalls` in turn leaves out connections and blocked writes.
- `Send` is one write at a time, as `connLock` makes it. That it may block is in
  `ChannelsClient`, `BackendSockets`, `ProxyRequests` and `WsChecks`; elsewhere a write returns.
- In `PendingCalls` references only grow, as `refCounter` does, up to the bound; the
  wrap of the 64 bit counter is left out.
- `FrameRelay` has one connection that is never made again, and the frames of
  Plugboard carry no data. Headers and subprotocols of a `ws_connect` are left out.
- In `TokenLifecycle` and `ProxyRequests` the connection is up or down; in
  `Reconnection` it is also silent.
- `TokenLifecycle` counts time only as the set of tokens that have expired;
  `TokenClock` has the time, and takes a refresh in four steps.
- `TokenClock` changes the local clock once, and takes the claims that are names to be there.
- `Status` reads the flag and the claims at one moment; the code reads them apart,
  which one answer of `/health` can show and nothing else.
- `ResponseReader` uses characters of one and two bytes, which suffice to cut one, and has
  each invalid byte replaced by itself, as `encoding/json` does.
- In `BackendSockets` and `FrameRelay` a read may fail at any time, for whatever reason; the
  library's own answer to a breach of the protocol is part of that failure.

## 9. Not modelled

Path and payload validation, the WebSocket URL and the header filter are pure functions
over strings that lean on `net/url` and `path.Clean`, with table-driven tests; their
outcome is a choice in the models. Encryption, key derivation and the schema of the
token store are third-party code behind a sequential interface: `TokenClock` knows of
them that a row can be read with the key it was written under. The Phoenix message
format is encoding of arrays, what JSON does to a body apart. Configuration and logging
are read once and keep no state that changes; that durations may be zero or negative is
a hazard no property covers, since `NewTicker` panics on them. Of the health server and
of token-check only the judgement is modelled (`Status`, `Listed`); the rest reads and
prints. `UpdateURL`, `ParseJWT`, `IsAtHalfLife` and `Stats` have no caller. Third-party
code (gorilla/websocket, SQLite, net/http, encoding/json) is modelled as far as the code
uses it and marked external.

## 10. Plan

Done: every component with state or concurrency, the abstract specifications and their
refinements, and proofs of all the safety properties the runs check. What would come next:

1. A composition of `ChannelsClient` with the monitor and the refresh loop, so that
   a stale flag meets `reconnect` and a blocked `Send` meets the heartbeat; the
   abstract view `Reconnection` takes of the client shown to be implemented by it.
2. An abstract specification of graceful shutdown across `ProxyRequests`,
   `BackendSockets` and the client, stating what of `README.md` can be kept.
3. The safety core of the liveness properties as theorems: that in every state in which
   something is awaited, some step that brings it nearer is not blocked.
4. More of section 7 turned round: under which condition each claim does hold, as
   is proved for `NeverPanics`, `BackoffGrows`, `CleanupSparesTheLive` and `WireIsBody`.
