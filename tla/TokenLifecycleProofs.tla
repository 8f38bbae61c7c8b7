------------------------ MODULE TokenLifecycleProofs -------------------------
(***************************************************************************)
(* Theorems about TokenLifecycle: no crash costs a Telephone the token     *)
(* that Plugboard knows, for any number of tokens and attempts to save.    *)
(***************************************************************************)
EXTENDS TokenLifecycle, WellFoundedInduction, TLAPS

\* Plugboard knows the configured token or the newest one, so a token in the
\* database that it knows is the greatest there is.
HashIsRootOrNewest ==
  /\ env \in 1..issued /\ root \in 1..issued
  /\ hash \in {root, issued}

\* The token Plugboard knows is on its way, or is where New will find it.
HashIsKept == hash \notin {root} \cup lost \cup InReply \cup InHand \cup expired => hash \in store

\* A process that is not up has no refresh loop, and tokens in memory only
\* once New has read them.
MemoryFollowsProcess ==
  /\ process # "up" => refresh = "off"
  /\ process \in {"down", "refused"} => current = None /\ original = None
  /\ original \in {None, env}

\* What the refresh loop is about to adopt was saved, or could not be.
NewTokenIsKept ==
  /\ refresh \in {"saving", "adopting"} => newToken # None
  /\ refresh = "adopting" => newToken \in store \cup lost \cup expired

\* TypeOK in three parts.
PlacesTyped ==
  /\ process \in {"down", "starting", "up", "refused"}
  /\ stopping \in BOOLEAN /\ conn \in BOOLEAN /\ request \in BOOLEAN
  /\ refresh \in RefreshStates /\ monitor \in MonitorStates

IssuedTyped ==
  /\ hash \in Tokens /\ root \in Tokens /\ issued \in Tokens
  /\ expired \subseteq 1..issued
  /\ env \in Tokens /\ store \subseteq 1..issued
  /\ lost \subseteq 1..issued

MemoryTyped ==
  /\ original \in 0..issued /\ current \in 0..issued /\ client \in 0..issued
  /\ newToken \in 0..issued /\ tries \in 0..SaveTries
  /\ answer \in 0..issued /\ saved \in 0..issued

IInv ==
  /\ PlacesTyped /\ IssuedTyped /\ MemoryTyped
  /\ HashIsRootOrNewest
  /\ HashIsKept
  /\ MemoryFollowsProcess
  /\ NewTokenIsKept
  /\ SavedBeforeUse

-----------------------------------------------------------------------------
\* LoadToken finds the newest token, if it is there.
LEMMA MaxIsNewest ==
  ASSUME NEW n \in Nat, NEW S, S \subseteq 1..n, n \in S
  PROVE  Max(S) = n
<1>1. n \in S /\ \A y \in S : n >= y
  OBVIOUS
<1>2. \A x \in S : (\A y \in S : x >= y) => x = n
  OBVIOUS
<1> QED
  BY <1>1, <1>2 DEF Max

LEMMA MaxIsMember ==
  ASSUME NEW n \in Nat, NEW S, S \subseteq 1..n, S # {}
  PROVE  Max(S) \in S
<1> DEFINE below == {n - x : x \in S}
           less == {ss \in Nat \X Nat : ss[1] < ss[2]}
<1>1. below \subseteq Nat
  OBVIOUS
<1>2. below # {}
  <2>1. PICK x \in S : TRUE
    OBVIOUS
  <2>2. n - x \in below
    OBVIOUS
  <2> QED
    BY <2>2
<1>3. \A e \in below, d \in below : <<e, d>> \notin less => d <= e
  BY <1>1
<1>4. PICK d \in below : \A e \in below : <<e, d>> \notin less
  <2>1. IsWellFoundedOn(less, Nat)
    BY NatLessThanWellFounded, Zenon DEF OpToRel
  <2> HIDE DEF below, less
  <2> QED
    BY <2>1, <1>1, <1>2, WFMin
<1>5. PICK m \in S : d = n - m
  OBVIOUS
<1>6. \A y \in S : m >= y
  <2> TAKE y \in S
  <2>1. n - y \in below
    OBVIOUS
  <2>2. d <= n - y
    BY <1>3, <1>4, <2>1
  <2>3. m \in Int /\ y \in Int
    OBVIOUS
  <2> QED
    BY <1>5, <2>2, <2>3
<1> QED
  BY <1>6 DEF Max

LEMMA TypesHaveParts == TypeOK <=> PlacesTyped /\ IssuedTyped /\ MemoryTyped
BY DEF TypeOK, PlacesTyped, IssuedTyped, MemoryTyped

\* What New starts on was issued, and it is in the database or the environment.
LEMMA BootTokenIsKnown ==
  ASSUME IssuedTyped, HashIsRootOrNewest
  PROVE  BootToken \in 1..issued /\ BootToken \in {env} \cup store
<1> DEFINE live == store \ expired
<1>1. issued \in Nat /\ live \subseteq 1..issued
  BY TokenAssumption DEF IssuedTyped, Tokens, TokenAssumption
<1>2. CASE live # {}
  <2>1. Max(live) \in live
    BY <1>1, <1>2, MaxIsMember
  <2> QED
    BY <1>1, <1>2, <2>1 DEF BootToken
<1>3. CASE live = {}
  BY <1>3 DEF BootToken, HashIsRootOrNewest
<1> QED
  BY <1>2, <1>3

-----------------------------------------------------------------------------
LEMMA InitIInv == Init => IInv
<1> SUFFICES ASSUME Init PROVE IInv
  OBVIOUS
<1> USE TokenAssumption DEF Init, TokenAssumption, None
<1>1. PlacesTyped
  BY DEF PlacesTyped, RefreshStates, MonitorStates
<1>2. IssuedTyped /\ MemoryTyped
  BY DEF IssuedTyped, MemoryTyped, Tokens
<1>3. HashIsRootOrNewest /\ HashIsKept
  BY DEF HashIsRootOrNewest, HashIsKept
<1>4. MemoryFollowsProcess /\ NewTokenIsKept /\ SavedBeforeUse
  BY DEF MemoryFollowsProcess, NewTokenIsKept, SavedBeforeUse
<1> QED
  BY <1>1, <1>2, <1>3, <1>4 DEF IInv

LEMMA EnvironmentKeepsIInv ==
  ASSUME IInv, Environment
  PROVE  IInv'
<1> USE TokenAssumption DEF IInv, TokenAssumption, diskVars, processVars, tokenVars,
        refreshVars, monitorVars, serverVars, wireVars, None
<1>1. PlacesTyped'
  BY DEF Environment, ServerRefreshes, ConnectionLost, ServerForgets, Expire, OperatorReplaces,
     PlacesTyped
<1>2. UNCHANGED <<store, tokenVars, refreshVars, monitorVars, process>>
      /\ expired \subseteq expired' /\ lost \subseteq lost'
  BY DEF Environment, ServerRefreshes, ConnectionLost, ServerForgets, Expire, OperatorReplaces
<1>3. env' = env \/ process = "refused"
  BY DEF Environment, ServerRefreshes, ConnectionLost, ServerForgets, Expire, OperatorReplaces
<1>4. MemoryFollowsProcess' /\ NewTokenIsKept' /\ SavedBeforeUse'
  BY <1>2, <1>3 DEF MemoryFollowsProcess, NewTokenIsKept, SavedBeforeUse
<1>5. CASE ServerRefreshes
  <2>1. issued' = issued + 1 /\ issued' \in Tokens /\ hash' = issued'
        /\ UNCHANGED <<root, env, expired>>
    BY <1>5 DEF ServerRefreshes, IssuedTyped, Tokens
  <2>2. /\ answer' \in {answer, issued'} /\ lost' \in {lost, lost \cup {issued'}}
        /\ answer' = issued' \/ issued' \in lost'
    BY <1>5 DEF ServerRefreshes
  <2>3. issued \in Nat /\ 1..issued \subseteq 1..issued' /\ 0..issued \subseteq 0..issued'
        /\ issued' \in 1..issued'
    BY <2>1 DEF IssuedTyped, Tokens
  <2>4. IssuedTyped'
    BY <1>2, <2>1, <2>2, <2>3 DEF IssuedTyped
  <2>5. MemoryTyped'
    BY <1>2, <2>1, <2>2, <2>3 DEF MemoryTyped
  <2>6. HashIsRootOrNewest'
    BY <2>1, <2>3 DEF HashIsRootOrNewest
  <2>7. HashIsKept'
    BY <2>1, <2>2, <2>3 DEF HashIsKept, InReply
  <2> QED
    BY <1>1, <1>4, <2>4, <2>5, <2>6, <2>7
<1>6. CASE ConnectionLost \/ ServerForgets
  <2>1. lost' = lost \cup InReply /\ answer' = None /\ UNCHANGED <<root, issued, expired, env>>
        /\ hash' \in {hash, root}
    BY <1>6 DEF ConnectionLost, ServerForgets
  <2>2. issued \in Nat /\ InReply \subseteq 1..issued
    BY DEF IssuedTyped, MemoryTyped, Tokens, InReply
  <2>3. IssuedTyped' /\ MemoryTyped'
    BY <1>2, <2>1, <2>2 DEF IssuedTyped, MemoryTyped
  <2>4. HashIsRootOrNewest'
    BY <2>1 DEF HashIsRootOrNewest
  <2>5. HashIsKept'
    BY <1>2, <2>1 DEF HashIsKept, InReply, InHand
  <2> QED
    BY <1>1, <1>4, <2>3, <2>4, <2>5
<1>7. CASE Expire
  <2>1. UNCHANGED <<hash, root, issued, answer, env, lost>> /\ expired' \subseteq 1..issued
    BY <1>7 DEF Expire, IssuedTyped
  <2> QED
    BY <1>1, <1>2, <1>4, <2>1 DEF IssuedTyped, MemoryTyped, HashIsRootOrNewest, HashIsKept,
       InReply, InHand
<1>8. CASE OperatorReplaces
  <2>1. issued' = issued + 1 /\ issued' \in Tokens /\ hash' = issued' /\ root' = issued'
        /\ env' = issued' /\ UNCHANGED <<expired, answer, lost>>
    BY <1>8 DEF OperatorReplaces, IssuedTyped, Tokens
  <2>2. issued \in Nat /\ 1..issued \subseteq 1..issued' /\ 0..issued \subseteq 0..issued'
        /\ issued' \in 1..issued'
    BY <2>1 DEF IssuedTyped, Tokens
  <2>3. IssuedTyped' /\ MemoryTyped'
    BY <1>2, <2>1, <2>2 DEF IssuedTyped, MemoryTyped
  <2>4. HashIsRootOrNewest' /\ HashIsKept'
    BY <2>1, <2>2 DEF HashIsRootOrNewest, HashIsKept
  <2> QED
    BY <1>1, <1>4, <2>3, <2>4
<1> QED
  BY <1>5, <1>6, <1>7, <1>8 DEF Environment

\* What is lost with a process was issued.
LEMMA LostWasIssued ==
  ASSUME IInv
  PROVE  InReply \cup InHand \subseteq 1..issued
BY TokenAssumption DEF TokenAssumption, IInv, IssuedTyped, MemoryTyped, NewTokenIsKept, Tokens,
   InReply, InHand, None

LEMMA MainKeepsIInv ==
  ASSUME IInv, Main
  PROVE  IInv'
<1> USE TokenAssumption DEF IInv, TokenAssumption, diskVars, processVars, tokenVars,
        refreshVars, monitorVars, serverVars, wireVars, None
<1>1. UNCHANGED <<serverVars, diskVars>>
  BY DEF Main, New, StartOk, StartRefused, Crash, StopBegins, StopEnds, Vanish
<1>2. HashIsRootOrNewest'
  BY <1>1 DEF HashIsRootOrNewest
<1>3. CASE New
  <2>1. BootToken \in 1..issued /\ BootToken \in {env} \cup store /\ env \in 1..issued
    BY BootTokenIsKnown DEF HashIsRootOrNewest
  <2>2. /\ UNCHANGED <<stopping, conn, refreshVars, wireVars, monitorVars, lost>>
        /\ process' \in {"starting", "refused"}
        /\ \/ UNCHANGED tokenVars
           \/ /\ process' = "starting" /\ original' = env
              /\ current' \in {BootToken, env} /\ client' = current'
    BY <1>3 DEF New
  <2>3. process \in {"down", "refused"} /\ (process' = "refused" => UNCHANGED tokenVars)
    BY <1>3 DEF New
  <2>4. PlacesTyped'
    BY <2>2 DEF PlacesTyped
  <2>5. IssuedTyped' /\ MemoryTyped'
    BY <1>1, <2>1, <2>2 DEF IssuedTyped, MemoryTyped
  <2>6. HashIsKept' /\ NewTokenIsKept' /\ MemoryFollowsProcess' /\ SavedBeforeUse'
    BY <1>1, <2>1, <2>2, <2>3 DEF HashIsKept, InReply, InHand, NewTokenIsKept,
       MemoryFollowsProcess, SavedBeforeUse
  <2> QED
    BY <1>2, <2>4, <2>5, <2>6
<1>4. CASE StartOk \/ StopBegins
  <2>1. UNCHANGED <<tokenVars, newToken, tries, answer, saved, lost>>
        /\ refresh' \in {refresh, "waiting"} /\ process' \in {process, "up"}
        /\ (refresh' # refresh => process = "starting" /\ process' = "up")
        /\ process \in {"starting", "up"}
    BY <1>4 DEF StartOk, StopBegins
  <2>2. PlacesTyped'
    BY <1>4 DEF StartOk, StopBegins, PlacesTyped, RefreshStates, MonitorStates
  <2>3. IssuedTyped' /\ MemoryTyped'
    BY <1>1, <2>1 DEF IssuedTyped, MemoryTyped
  <2>4. HashIsKept' /\ NewTokenIsKept' /\ MemoryFollowsProcess' /\ SavedBeforeUse'
    BY <1>1, <2>1 DEF HashIsKept, InReply, InHand, NewTokenIsKept, MemoryFollowsProcess,
       SavedBeforeUse
  <2> QED
    BY <1>2, <2>2, <2>3, <2>4
<1>5. ASSUME NEW how \in {"down", "refused"}, Vanish(how)
      PROVE  IInv'
  <2>1. /\ process' = how /\ original' = None /\ current' = None /\ client' = None
        /\ refresh' = "off" /\ newToken' = None /\ tries' = 0 /\ saved' = None
        /\ answer' = None /\ lost' = lost \cup InReply \cup InHand
    BY <1>5 DEF Vanish
  <2>2. PlacesTyped'
    BY <1>5 DEF Vanish, PlacesTyped, RefreshStates, MonitorStates
  <2>3. IssuedTyped' /\ MemoryTyped'
    <3>1. InReply \cup InHand \subseteq 1..issued
      BY LostWasIssued
    <3>2. issued \in Nat /\ lost \subseteq 1..issued
      BY DEF IssuedTyped, Tokens
    <3>3. lost' \subseteq 1..issued
      BY <2>1, <3>1, <3>2
    <3>4. IssuedTyped'
      BY <1>1, <3>3 DEF IssuedTyped
    <3>5. MemoryTyped'
      BY <1>1, <2>1, <3>2 DEF MemoryTyped
    <3> QED
      BY <3>4, <3>5
  <2>4. HashIsKept' /\ NewTokenIsKept' /\ MemoryFollowsProcess' /\ SavedBeforeUse'
    BY <1>1, <2>1 DEF HashIsKept, InReply, InHand, NewTokenIsKept, MemoryFollowsProcess,
       SavedBeforeUse
  <2> QED
    BY <1>2, <2>2, <2>3, <2>4
<1> QED
  BY <1>3, <1>4, <1>5 DEF Main, StartRefused, Crash, StopEnds

LEMMA RefreshLoopKeepsIInv ==
  ASSUME IInv, RefreshLoop
  PROVE  IInv'
<1> USE TokenAssumption DEF IInv, TokenAssumption, diskVars, processVars, tokenVars,
        refreshVars, monitorVars, serverVars, wireVars, None
<1>1. UNCHANGED <<serverVars, env, processVars, conn, original, monitorVars>>
  BY DEF RefreshLoop, RefreshDue, RefreshAnswered, RefreshFails, Saving, SaveOk,
     SaveFails, SaveCut, Adopt, Tell, Clean, RefreshStops
<1>2. HashIsRootOrNewest'
  BY <1>1 DEF HashIsRootOrNewest
<1>3. PlacesTyped'
  BY <1>1 DEF RefreshLoop, RefreshDue, RefreshAnswered, RefreshFails, Saving, SaveOk,
     SaveFails, SaveCut, Adopt, Tell, Clean, RefreshStops, PlacesTyped, RefreshStates
<1>4. refresh # "off" /\ refresh' # "off"
  BY DEF RefreshLoop, RefreshDue, RefreshAnswered, RefreshFails, Saving, SaveOk,
     SaveFails, SaveCut, Adopt, Tell, Clean, RefreshStops
<1>5. MemoryFollowsProcess'
  BY <1>1, <1>4 DEF MemoryFollowsProcess, PlacesTyped
<1>6. CASE RefreshDue \/ RefreshAnswered \/ RefreshFails \/ RefreshStops
  <2>1. UNCHANGED <<store, tokenVars>> /\ answer' \in {answer, None}
        /\ lost' \in {lost, lost \cup InReply}
        /\ refresh \in {"waiting", "requested"} /\ refresh' # "adopting"
    BY <1>6 DEF RefreshDue, RefreshAnswered, RefreshFails, RefreshStops, InReply
  <2>2. \/ refresh' # "saving" /\ UNCHANGED <<newToken, tries>>
           /\ (answer' = answer \/ lost' = lost \cup InReply)
        \/ refresh' = "saving" /\ newToken' = answer /\ answer # None /\ tries' = 1
    BY <1>6 DEF RefreshDue, RefreshAnswered, RefreshFails, RefreshStops, InReply
  <2>3. IssuedTyped' /\ MemoryTyped'
    <3>1. issued \in Nat /\ lost' \subseteq 1..issued
      BY <2>1, LostWasIssued DEF IssuedTyped, Tokens
    <3>2. IssuedTyped'
      BY <1>1, <2>1, <3>1 DEF IssuedTyped
    <3>3. MemoryTyped'
      BY <1>1, <2>1, <2>2, <3>1 DEF MemoryTyped
    <3> QED
      BY <3>2, <3>3
  <2>4. HashIsKept'
    BY <1>1, <2>1, <2>2 DEF HashIsKept, InReply, InHand
  <2>5. NewTokenIsKept' /\ SavedBeforeUse'
    BY <1>1, <2>1, <2>2 DEF NewTokenIsKept, SavedBeforeUse
  <2> QED
    BY <1>2, <1>3, <1>5, <2>3, <2>4, <2>5
<1>7. CASE Saving
  <2>1. UNCHANGED <<tokenVars, newToken, wireVars>> /\ tries' \in {tries, tries + 1}
        /\ refresh = "saving" /\ refresh' \in {"saving", "adopting"}
        /\ store \subseteq store' /\ store' \subseteq store \cup {newToken}
        /\ lost \subseteq lost' /\ lost' \subseteq lost \cup {newToken}
        /\ (refresh' = "adopting" => newToken \in store' \cup lost')
    BY <1>7 DEF Saving, SaveOk, SaveFails, SaveCut
  <2>2. tries' \in 0..SaveTries
    BY <1>7 DEF Saving, SaveOk, SaveFails, SaveCut, MemoryTyped
  <2>3. IssuedTyped' /\ MemoryTyped'
    BY <1>1, <2>1, <2>2, LostWasIssued DEF IssuedTyped, MemoryTyped, InHand
  <2>4. HashIsKept'
    BY <1>1, <2>1 DEF HashIsKept, InReply, InHand
  <2>5. NewTokenIsKept' /\ SavedBeforeUse'
    BY <1>1, <2>1 DEF NewTokenIsKept, SavedBeforeUse
  <2> QED
    BY <1>2, <1>3, <1>5, <2>3, <2>4, <2>5
<1>8. CASE Adopt \/ Tell \/ Clean
  <2>1. UNCHANGED <<wireVars, lost>> /\ refresh \in {"adopting", "telling", "cleaning"}
        /\ refresh' \in {"telling", "cleaning", "waiting"}
        /\ newToken' \in {newToken, None} /\ tries' \in {tries, 0}
        /\ client' \in {client, newToken} /\ store' \in {store, store \ expired}
        /\ current' = (IF refresh = "adopting" THEN newToken ELSE current)
    BY <1>8 DEF Adopt, Tell, Clean
  <2>2. IssuedTyped'
    BY <1>1, <2>1 DEF IssuedTyped
  <2>3. MemoryTyped'
    BY <1>1, <2>1 DEF MemoryTyped, IssuedTyped, Tokens
  <2>4. HashIsKept'
    BY <1>1, <2>1 DEF HashIsKept, InReply, InHand
  <2>5. NewTokenIsKept' /\ SavedBeforeUse'
    BY <1>1, <2>1 DEF NewTokenIsKept, SavedBeforeUse
  <2> QED
    BY <1>2, <1>3, <1>5, <2>2, <2>3, <2>4, <2>5
<1> QED
  BY <1>6, <1>7, <1>8 DEF RefreshLoop

LEMMA MonitorKeepsIInv ==
  ASSUME IInv, Monitor
  PROVE  IInv'
<1> USE TokenAssumption DEF IInv, TokenAssumption, diskVars, processVars, tokenVars,
        refreshVars, monitorVars, serverVars, wireVars, None
<1>1. UNCHANGED <<serverVars, diskVars, processVars, original, refreshVars, answer, lost>>
      /\ client' \in {client, original, saved} /\ current' \in {current, original}
      /\ saved' \in {saved, current}
  BY DEF Monitor, MonitorTick, TryCurrent, TryCurrentFails, Choose, Lend, TryOriginal,
     TryOriginalFails, Restore, AdoptOriginal, MonitorStops, MonitorAt, ConnectOk, ConnectFails
<1>2. PlacesTyped'
  BY DEF Monitor, MonitorTick, TryCurrent, TryCurrentFails, Choose, Lend, TryOriginal,
     TryOriginalFails, Restore, AdoptOriginal, MonitorStops, MonitorAt, ConnectOk, ConnectFails,
     PlacesTyped, MonitorStates
<1>3. IssuedTyped' /\ MemoryTyped'
  BY <1>1 DEF IssuedTyped, MemoryTyped
<1>4. HashIsRootOrNewest' /\ HashIsKept' /\ NewTokenIsKept'
  BY <1>1 DEF HashIsRootOrNewest, HashIsKept, InReply, InHand, NewTokenIsKept
<1>5. MemoryFollowsProcess' /\ SavedBeforeUse'
  BY <1>1 DEF MemoryFollowsProcess, SavedBeforeUse
<1> QED
  BY <1>2, <1>3, <1>4, <1>5

-----------------------------------------------------------------------------
THEOREM Invariance == Spec => []IInv
<1>1. IInv /\ [Next]_vars => IInv'
  <2> SUFFICES ASSUME IInv, [Next]_vars PROVE IInv'
    OBVIOUS
  <2>1. CASE UNCHANGED vars
    BY <2>1 DEF vars, IInv, PlacesTyped, IssuedTyped, MemoryTyped, HashIsRootOrNewest, HashIsKept, MemoryFollowsProcess,
       NewTokenIsKept, SavedBeforeUse, InReply, InHand, serverVars, diskVars, processVars,
       tokenVars, refreshVars, wireVars, monitorVars
  <2> QED
    BY <2>1, EnvironmentKeepsIInv, MainKeepsIInv, RefreshLoopKeepsIInv, MonitorKeepsIInv DEF Next
<1> QED
  BY <1>1, InitIInv, PTL DEF Spec

\* For any number of tokens, the variables have their types.
THEOREM TypeCorrect == Spec => []TypeOK
BY Invariance, TypesHaveParts, PTL DEF IInv

\* Where Plugboard's token was neither lost on the way, nor failed to be saved,
\* New starts on it.
LEMMA KeptTokenIsLoaded == IInv => TokenIsKept
<1> SUFFICES ASSUME IInv PROVE TokenIsKept
  OBVIOUS
<1>1. ASSUME hash \notin {root} \cup lost \cup InReply \cup InHand \cup expired
      PROVE  BootToken = hash
  <2>1. issued \in Nat /\ store \ expired \subseteq 1..issued
    BY TokenAssumption DEF IInv, IssuedTyped, Tokens, TokenAssumption
  <2>2. hash = issued /\ hash \in store \ expired
    BY <1>1 DEF IInv, HashIsRootOrNewest, HashIsKept
  <2>3. Max(store \ expired) = issued
    BY <2>1, <2>2, MaxIsNewest
  <2> QED
    BY <2>2, <2>3 DEF BootToken
<1> QED
  BY <1>1 DEF IInv, TokenIsKept, RestartKeepsToken

\* Whatever fails or crashes, and whenever: the token Plugboard knows is the
\* one Telephone starts again with, and the one in use is not at risk.
THEOREM CrashesKeepTheToken == Spec => []TokenIsKept
BY Invariance, KeptTokenIsLoaded, PTL
=============================================================================
