------------------------ MODULE ProxyRequestsProofs -------------------------
(***************************************************************************)
(* Theorems about proxy requests and what belongs to them.                 *)
(*                                                                         *)
(* ProxyRequests: the WaitGroup counts the goroutines that are between Add *)
(* and Done, and a Stop that is not forced has waited for all the requests *)
(* it found counted.  WsChecks: the checks disturb none of this and leave  *)
(* no socket behind.  ResponseReader: the response Plugboard gets is the   *)
(* body, but for what is no whole character, and it fits into memory.      *)
(***************************************************************************)
EXTENDS WsChecks, ResponseReader, FiniteSetTheorems, SequenceTheorems, WellFoundedInduction, TLAPS

\* An awaited request stays counted until it is done.
AwaitedAreCounted == \A r \in awaited : handler[r] \in Counted \cup {"done"}

\* Only Stop sets forced and awaited, and only when it gets that far.
NotYet == stop \in {"running", "sockets"} => awaited = {}

\* A Wait that was released or has returned saw the count at zero, and no
\* awaited request counts itself again.
ReleasedIsFinished ==
  waiter \in {"woken", "done"} => \A r \in awaited : handler[r] = "done"

\* There is no waiter before Stop begins to wait.
WaiterStartsLate == stop \in {"running", "sockets"} => waiter = "none"

\* The inductive invariant: CountIsExact alone does not say that an awaited
\* request is still counted when the count reaches zero.
IInv == /\ TypeOK /\ CountIsExact /\ AwaitedAreCounted /\ NotYet
        /\ ReleasedIsFinished /\ WaiterStartsLate /\ AwaitedAreFinished

-----------------------------------------------------------------------------
\* A subset of the requests is finite, and it is empty if it counts nothing.
LEMMA ActiveIsFinite ==
  /\ IsFiniteSet(Active)
  /\ Cardinality(Active) \in Nat
  /\ Cardinality(Active) = 0 <=> Active = {}
<1>1. IsFiniteSet(Active)
  BY RequestsAssumption, FS_Subset DEF RequestsAssumption, Active
<1> QED
  BY <1>1, FS_CardinalityType, FS_EmptySet

\* A request that is counted and was not makes one more.
LEMMA CountOneMore ==
  ASSUME NEW r \in Requests, CountIsExact, r \notin Active,
         Active' = Active \cup {r}, active' = active + 1
  PROVE  CountIsExact'
<1>1. Cardinality(Active \cup {r}) = Cardinality(Active) + 1
  BY ActiveIsFinite, FS_AddElement
<1> QED
  BY <1>1 DEF CountIsExact

\* A request that was counted and is done makes one less.
LEMMA CountOneLess ==
  ASSUME NEW r \in Requests, CountIsExact, r \in Active,
         Active' = Active \ {r}, active' = active - 1
  PROVE  CountIsExact' /\ active' \in Nat
<1>1. Cardinality(Active \ {r}) = Cardinality(Active) - 1
  BY ActiveIsFinite, FS_RemoveElement
<1>2. Cardinality(Active) # 0
  BY ActiveIsFinite
<1> QED
  BY <1>1, <1>2, ActiveIsFinite DEF CountIsExact

\* A step of one handler between two counted states changes no count.
LEMMA SameActive ==
  ASSUME TypeOK, NEW r \in Requests, NEW to,
         handler' = [handler EXCEPT ![r] = to],
         handler[r] \in Counted <=> to \in Counted
  PROVE  Active' = Active
BY DEF Active, TypeOK

-----------------------------------------------------------------------------
\* The initial state satisfies the invariant: nothing is counted.
LEMMA InitIInv == Init => IInv
<1> SUFFICES ASSUME Init PROVE IInv
  OBVIOUS
<1>1. Active = {}
  BY DEF Init, Active, Counted
<1>2. CountIsExact
  BY <1>1, FS_EmptySet DEF Init, CountIsExact
<1>3. TypeOK
  BY DEF Init, TypeOK, HandlerStates, StopStates, WaiterStates
<1> QED
  BY <1>2, <1>3 DEF Init, IInv, AwaitedAreCounted, NotYet, ReleasedIsFinished,
     WaiterStartsLate, AwaitedAreFinished

\* What a handler does that leaves the counted states alone or is not done yet.
LEMMA AwaitedKept ==
  ASSUME IInv, NEW r \in Requests, NEW to,
         handler' = [handler EXCEPT ![r] = to],
         handler[r] # "done",
         handler[r] \in Counted => to \in Counted \cup {"done"},
         UNCHANGED stopVars
  PROVE  /\ AwaitedAreCounted' /\ NotYet' /\ ReleasedIsFinished' /\ WaiterStartsLate'
         /\ AwaitedAreFinished'
<1> USE DEF IInv
<1>1. AwaitedAreCounted'
  BY DEF AwaitedAreCounted, TypeOK, stopVars
<1>2. NotYet'
  BY DEF NotYet, stopVars
<1>3. AwaitedAreFinished'
  BY DEF AwaitedAreFinished, TypeOK, stopVars
<1>4. ReleasedIsFinished' /\ WaiterStartsLate'
  BY DEF ReleasedIsFinished, WaiterStartsLate, TypeOK, stopVars
<1> QED
  BY <1>1, <1>2, <1>3, <1>4

\* The last Done, which may release the waiter, leaves no awaited request.
LEMMA FinishKeepsIInv ==
  ASSUME IInv, NEW r \in Requests, Finish(r)
  PROVE  IInv'
<1> USE DEF IInv
<1>1. r \in Active /\ Active' = Active \ {r}
  BY DEF Finish, At, Active, TypeOK, Counted
<1>2. CountIsExact' /\ active' \in Nat
  BY <1>1, CountOneLess DEF Finish
<1>3. waiter' \in WaiterStates
  BY DEF Finish, Release, TypeOK, WaiterStates
<1>4. TypeOK'
  BY <1>2, <1>3 DEF Finish, At, TypeOK, HandlerStates, Counted
<1>5. AwaitedAreCounted' /\ NotYet' /\ AwaitedAreFinished'
  BY DEF Finish, At, AwaitedAreCounted, NotYet, AwaitedAreFinished, TypeOK
<1>6. active' = 0 => \A q \in awaited' : handler'[q] = "done"
  <2> SUFFICES ASSUME active' = 0 PROVE \A q \in awaited' : handler'[q] = "done"
    OBVIOUS
  <2>1. Active' = {}
    BY <1>1, <1>2, ActiveIsFinite, FS_Subset, FS_EmptySet DEF CountIsExact
  <2> QED
    BY <1>4, <1>5, <2>1 DEF AwaitedAreCounted, Active, TypeOK
<1>7. ReleasedIsFinished'
  <2>1. CASE waiter' = waiter
    BY <2>1 DEF Finish, At, ReleasedIsFinished, TypeOK
  <2>2. CASE active' = 0
    BY <1>6, <2>2 DEF ReleasedIsFinished
  <2> QED
    BY <2>1, <2>2 DEF Finish, Release
<1>8. WaiterStartsLate'
  BY DEF Finish, Release, WaiterStartsLate
<1> QED
  BY <1>2, <1>4, <1>5, <1>7, <1>8

\* Every step of a handler keeps the invariant.
LEMMA HandlingKeepsIInv ==
  ASSUME IInv, NEW r \in Requests, Handling(r)
  PROVE  IInv'
<1> USE DEF IInv
<1>1. CASE Arrive(r)
  <2>1. TypeOK'
    BY <1>1 DEF Arrive, At, TypeOK, HandlerStates, stopVars
  <2>2. Active' = Active
    BY <1>1, SameActive DEF Arrive, At, Counted
  <2>3. CountIsExact'
    BY <1>1, <2>2 DEF Arrive, CountIsExact
  <2> QED
    BY <1>1, <2>1, <2>3, AwaitedKept DEF Arrive, At, Counted
<1>2. CASE Count(r)
  <2>1. TypeOK'
    BY <1>2 DEF Count, At, TypeOK, HandlerStates, Counted, stopVars
  <2>2. r \notin Active /\ Active' = Active \cup {r}
    BY <1>2 DEF Count, At, Active, TypeOK, Counted
  <2>3. CountIsExact'
    BY <1>2, <2>2, CountOneMore DEF Count
  <2> QED
    BY <1>2, <2>1, <2>3, AwaitedKept DEF Count, At, Counted
<1>3. ASSUME NEW from \in Counted, NEW what \in {"400", "502", "ok", "aborted"},
             Answering(r, from, what)
      PROVE  IInv'
  <2>1. TypeOK'
    BY <1>3 DEF Answering, At, TypeOK, HandlerStates, Counted, stopVars
  <2>2. Active' = Active
    BY <1>3, SameActive DEF Answering, At, Counted
  <2>3. CountIsExact'
    BY <1>3, <2>2 DEF Answering, CountIsExact
  <2>4. handler[r] # "done"
    BY <1>3 DEF Answering, At, Counted
  <2> QED
    BY <1>3, <2>1, <2>3, <2>4, AwaitedKept DEF Answering, At, Counted
<1>4. CASE DropUnanswerable(r) \/ Forward(r)
  <2>1. TypeOK'
    BY <1>4 DEF DropUnanswerable, Forward, At, TypeOK, HandlerStates, Counted, stopVars
  <2>2. Active' = Active
    BY <1>4, SameActive DEF DropUnanswerable, Forward, At, Counted
  <2>3. CountIsExact'
    BY <1>4, <2>2 DEF DropUnanswerable, Forward, CountIsExact
  <2> QED
    BY <1>4, <2>1, <2>3, AwaitedKept DEF DropUnanswerable, Forward, At, Counted
<1>5. CASE Send(r)
  <2>1. TypeOK'
    BY <1>5 DEF Send, At, TypeOK, HandlerStates, Counted, stopVars
  <2>2. Active' = Active
    BY <1>5, SameActive DEF Send, At, Counted
  <2>3. CountIsExact'
    BY <1>5, <2>2 DEF Send, CountIsExact
  <2> QED
    BY <1>5, <2>1, <2>3, AwaitedKept DEF Send, At, Counted
<1>6. CASE Finish(r)
  BY <1>6, FinishKeepsIInv
<1>7. CASE RejectInvalid(r)
  BY <1>3, <1>7 DEF RejectInvalid, Counted
<1>8. CASE BackendAnswers(r)
  BY <1>3, <1>8 DEF BackendAnswers, Counted
<1>9. CASE BackendFails(r)
  BY <1>3, <1>9 DEF BackendFails, Counted
<1>10. CASE Abort(r)
  BY <1>3, <1>10 DEF Abort, Counted
<1> QED
  BY <1>1, <1>2, <1>4, <1>5, <1>6, <1>7, <1>8, <1>9, <1>10 DEF Handling

\* Every step of Stop keeps it.
LEMMA StoppingKeepsIInv ==
  ASSUME IInv, Stopping
  PROVE  IInv'
<1> USE DEF IInv
<1>1. UNCHANGED <<requestVars, active>>
  BY DEF Stopping, StopBegins, StopCancels, WaitEnds, WaitTimesOut, WaiterStarts, WaiterWakes,
     WaiterAt, LoopsEnd, CloseClient
<1>2. CountIsExact' /\ Active' = Active
  BY <1>1 DEF CountIsExact, Active, requestVars
<1>3. CASE StopBegins
  BY <1>1, <1>2, <1>3 DEF StopBegins, StopAt, TypeOK, StopStates, WaiterStates, requestVars,
     AwaitedAreCounted, NotYet, ReleasedIsFinished, WaiterStartsLate, AwaitedAreFinished
<1>4. CASE StopCancels
  BY <1>1, <1>2, <1>4 DEF StopCancels, StopAt, TypeOK, StopStates, WaiterStates, requestVars,
     AwaitedAreCounted, NotYet, ReleasedIsFinished, WaiterStartsLate, AwaitedAreFinished, Active
<1>5. CASE WaitEnds
  BY <1>1, <1>2, <1>5 DEF WaitEnds, StopAt, TypeOK, StopStates, WaiterStates, requestVars,
     AwaitedAreCounted, NotYet, ReleasedIsFinished, WaiterStartsLate, AwaitedAreFinished
<1>6. CASE WaitTimesOut
  BY <1>1, <1>2, <1>6 DEF WaitTimesOut, StopAt, TypeOK, StopStates, WaiterStates, requestVars,
     AwaitedAreCounted, NotYet, ReleasedIsFinished, WaiterStartsLate, AwaitedAreFinished
<1>7. CASE LoopsEnd
  BY <1>1, <1>2, <1>7 DEF LoopsEnd, StopAt, TypeOK, StopStates, WaiterStates, requestVars,
     AwaitedAreCounted, NotYet, ReleasedIsFinished, WaiterStartsLate, AwaitedAreFinished
<1>8. CASE CloseClient
  BY <1>1, <1>2, <1>8 DEF CloseClient, StopAt, TypeOK, StopStates, WaiterStates, requestVars,
     AwaitedAreCounted, NotYet, ReleasedIsFinished, WaiterStartsLate, AwaitedAreFinished
<1>9. CASE WaiterStarts \/ WaiterWakes
  <2>1. UNCHANGED <<handler, awaited, stop, forced>> /\ TypeOK'
    BY <1>1, <1>9 DEF WaiterStarts, WaiterWakes, WaiterAt, TypeOK, WaiterStates, requestVars
  <2>2. AwaitedAreCounted' /\ NotYet' /\ AwaitedAreFinished'
    BY <2>1 DEF AwaitedAreCounted, NotYet, AwaitedAreFinished
  <2>3. WaiterStartsLate'
    BY <1>9, <2>1 DEF WaiterStarts, WaiterWakes, WaiterAt, WaiterStartsLate
  <2>4. active = 0 => \A r \in awaited : handler[r] = "done"
    BY ActiveIsFinite DEF CountIsExact, AwaitedAreCounted, Active, TypeOK
  <2>5. waiter' \in {"woken", "done"} => active = 0
    BY <1>9 DEF WaiterStarts, WaiterWakes, WaiterAt
  <2> QED
    BY <1>2, <2>1, <2>2, <2>3, <2>4, <2>5 DEF ReleasedIsFinished
<1> QED
  BY <1>3, <1>4, <1>5, <1>6, <1>7, <1>8, <1>9 DEF Stopping

\* The connection may come and go, and nothing may happen at all.
LEMMA OthersKeepIInv ==
  ASSUME IInv, ConnectionLost \/ Reconnect \/ Terminated \/ UNCHANGED vars
  PROVE  IInv'
<1>1. UNCHANGED <<requestVars, active, stopVars>> /\ conn' \in BOOLEAN
  BY DEF ConnectionLost, Reconnect, Terminated, vars, IInv, TypeOK
<1>2. TypeOK'
  BY <1>1 DEF IInv, TypeOK, requestVars, stopVars
<1>3. CountIsExact'
  BY <1>1 DEF IInv, CountIsExact, Active, requestVars
<1>4. AwaitedAreCounted' /\ NotYet' /\ AwaitedAreFinished'
  BY <1>1 DEF IInv, AwaitedAreCounted, NotYet, AwaitedAreFinished, requestVars, stopVars
<1>5. ReleasedIsFinished' /\ WaiterStartsLate'
  BY <1>1 DEF IInv, ReleasedIsFinished, WaiterStartsLate, requestVars, stopVars
<1> QED
  BY <1>2, <1>3, <1>4, <1>5 DEF IInv

\* Every step keeps the invariant.
LEMMA StepIInv == IInv /\ [Next]_vars => IInv'
<1> SUFFICES ASSUME IInv, [Next]_vars PROVE IInv'
  OBVIOUS
<1> QED
  BY HandlingKeepsIInv, StoppingKeepsIInv, OthersKeepIInv DEF Next

\* IInv is an invariant of ProxyRequests.
THEOREM Invariance == Spec => []IInv
<1> QED
  BY InitIInv, StepIInv, PTL DEF Spec

\* The types hold; in particular Done is never called more often than Add.
THEOREM TypeCorrect == Spec => []TypeOK
<1>1. IInv => TypeOK
  BY DEF IInv
<1> QED
  BY <1>1, Invariance, PTL

\* For any finite set of requests, activeRequests counts the goroutines
\* between Add and Done and no other.
THEOREM WaitGroupCounts == Spec => []CountIsExact
<1>1. IInv => CountIsExact
  BY DEF IInv
<1> QED
  BY <1>1, Invariance, PTL

\* For any finite set of requests, a Stop that was not forced has waited for
\* every request it found counted.
THEOREM StopWaitsForCounted == Spec => []AwaitedAreFinished
<1>1. IInv => AwaitedAreFinished
  BY DEF IInv
<1> QED
  BY <1>1, Invariance, PTL
-----------------------------------------------------------------------------
(* The ws_check requests beside them (WsChecks).                           *)

\* A check that moves on changes nothing of the requests and of Stop.
LEMMA CheckingIsBeside ==
  ASSUME NEW c \in Checks, Checking(c)
  PROVE  /\ UNCHANGED vars
         /\ \E to \in CheckStates : check' = [check EXCEPT ![c] = to]
BY DEF Checking, CheckArrives, CheckBegins, CheckSucceeds, CheckFails, CheckCloses, CheckReplies,
       CheckAt, CheckStates

\* Every step beside the checks is one of ProxyRequests, or none at all.
LEMMA ChecksStepRefines == [ChecksNext]_checksVars => [Next]_vars
BY CheckingIsBeside DEF ChecksNext, checksVars

\* ChecksSpec implements Spec: what is proved of the requests and of Stop holds
\* with any number of checks beside them.
THEOREM ChecksRefine == ChecksSpec => Spec
<1>1. ChecksInit => Init
  BY DEF ChecksInit
<1> QED
  BY <1>1, ChecksStepRefines, PTL DEF ChecksSpec, Spec

\* What each step of a check does to its socket and its result.
LEMMA CheckKeepsTypes ==
  ASSUME ChecksTypeOK, NEW c \in Checks, Checking(c), TypeOK'
  PROVE  ChecksTypeOK'
<1> USE DEF ChecksTypeOK
<1>1. check' \in [Checks -> CheckStates]
  BY CheckingIsBeside
<1>2. CASE CheckArrives(c) \/ CheckBegins(c) \/ CheckFails(c)
  <2>1. UNCHANGED <<supported, open, results>>
    BY <1>2 DEF CheckArrives, CheckBegins, CheckFails
  <2>2. check[c] \notin {"closing", "done"} /\ check'[c] # "closing"
    BY <1>2 DEF CheckArrives, CheckBegins, CheckFails, CheckAt
  <2>3. \A d \in Checks \ {c} : check'[d] = check[d]
    BY CheckingIsBeside
  <2> QED
    BY <1>1, <2>1, <2>2, <2>3
<1>3. CASE CheckSucceeds(c)
  <2>1. /\ check[c] = "dialing" /\ check' = [check EXCEPT ![c] = "closing"]
        /\ supported' = supported \cup {c} /\ open' = open \cup {c} /\ results' = results
    BY <1>3 DEF CheckSucceeds, CheckAt
  <2> QED
    BY <1>1, <2>1
<1>4. CASE CheckCloses(c)
  <2>1. /\ check[c] = "closing" /\ check' = [check EXCEPT ![c] = "replying"]
        /\ open' = open \ {c} /\ UNCHANGED <<supported, results>>
    BY <1>4 DEF CheckCloses, CheckAt
  <2> QED
    BY <1>1, <2>1
<1>5. CASE CheckReplies(c)
  <2>1. /\ check[c] = "replying" /\ check' = [check EXCEPT ![c] = "done"]
        /\ results' = [results EXCEPT ![c] = @ + 1] /\ UNCHANGED <<supported, open>>
    BY <1>5 DEF CheckReplies, CheckAt
  <2>2. results[c] = 0
    BY <2>1
  <2> QED
    BY <1>1, <2>1, <2>2
<1> QED
  BY <1>2, <1>3, <1>4, <1>5 DEF Checking

\* For any number of checks, however they interleave with the requests and
\* with Stop: an open socket is one between a handshake that succeeded and its
\* close, and each check makes at most one ws_check_result, as its last act.
THEOREM ChecksTypeCorrect == ChecksSpec => []ChecksTypeOK
<1>1. ChecksInit => ChecksTypeOK
  <2> SUFFICES ASSUME ChecksInit PROVE ChecksTypeOK
    OBVIOUS
  <2>1. TypeOK
    BY InitIInv DEF ChecksInit, IInv
  <2> QED
    BY <2>1 DEF ChecksInit, ChecksTypeOK, CheckStates
<1>2. ChecksTypeOK /\ TypeOK' /\ [ChecksNext]_checksVars => ChecksTypeOK'
  <2>1. ASSUME ChecksTypeOK, TypeOK', UNCHANGED checkVars PROVE ChecksTypeOK'
    BY <2>1 DEF ChecksTypeOK, checkVars
  <2> QED
    BY <2>1, CheckKeepsTypes DEF ChecksNext, checksVars
<1> QED
  BY <1>1, <1>2, ChecksRefine, TypeCorrect, PTL DEF ChecksSpec

\* With checks beside them, activeRequests still counts the handlers of the
\* requests and nothing else, and a Stop that was not forced has waited for
\* the ones it found counted.
THEOREM ChecksDisturbNothing == ChecksSpec => [](CountIsExact /\ AwaitedAreFinished)
BY ChecksRefine, WaitGroupCounts, StopWaitsForCounted, PTL
-----------------------------------------------------------------------------
(* How the body of a response is read and sent (ResponseReader).           *)

\* A set of natural numbers that is not empty has a least element.
LEMMA LeastExists ==
  ASSUME NEW S, S \subseteq Nat, S # {}
  PROVE  \E m \in S : \A x \in S : m <= x
<1> DEFINE less == {ss \in Nat \X Nat : ss[1] < ss[2]}
<1>1. IsWellFoundedOn(less, Nat)
  BY NatLessThanWellFounded, Zenon DEF OpToRel
<1>2. \A e \in S, d \in S : <<e, d>> \notin less => d <= e
  OBVIOUS
<1> HIDE DEF less
<1>3. PICK d \in S : \A e \in S : <<e, d>> \notin less
  BY <1>1, WFMin
<1> QED
  BY <1>2, <1>3

\* f puts the first n sequences of cs together, one after the other.
Flattens(f, cs, n) ==
  \A i \in 1..n : f[i] = IF i = 1 THEN cs[i] ELSE f[i - 1] \o cs[i]

LEMMA FlattenExists ==
  ASSUME NEW S, NEW cs \in Seq(Seq(S))
  PROVE  \E f \in [1..Len(cs) -> Seq(S)] : Flattens(f, cs, Len(cs))
<1> DEFINE Good(n) == \E f \in [1..n -> Seq(S)] : Flattens(f, cs, n)
           bad == {n \in 0..Len(cs) : ~Good(n)}
<1>1. bad = {}
  <2> SUFFICES ASSUME bad # {} PROVE FALSE
    OBVIOUS
  <2>1. bad \subseteq Nat
    OBVIOUS
  <2> HIDE DEF bad
  <2>2. PICK m \in bad : \A x \in bad : m <= x
    BY <2>1, LeastExists
  <2> USE DEF bad
  <2>3. m # 0
    <3>1. PICK f \in [1..0 -> Seq(S)] : TRUE
      <4>1. [i \in 1..0 |-> cs[i]] \in [1..0 -> Seq(S)]
        OBVIOUS
      <4> QED
        BY <4>1
    <3>2. Flattens(f, cs, 0)
      BY DEF Flattens
    <3>3. Good(0)
      BY <3>1, <3>2
    <3> HIDE DEF Good
    <3> QED
      BY <3>3
  <2>4. Good(m - 1)
    <3> HIDE DEF Good
    <3> QED
      BY <2>2, <2>3
  <2>5. PICK f \in [1..m-1 -> Seq(S)] : Flattens(f, cs, m - 1)
    BY <2>4
  <2> DEFINE last == IF m = 1 THEN cs[m] ELSE f[m - 1] \o cs[m]
             g == [i \in 1..m |-> IF i = m THEN last ELSE f[i]]
  <2>6. last \in Seq(S)
    <3>1. cs[m] \in Seq(S)
      BY <2>3
    <3>2. m # 1 => f[m - 1] \in Seq(S)
      BY <2>3
    <3> QED
      BY <3>1, <3>2
  <2>7. g \in [1..m -> Seq(S)]
    BY <2>6
  <2>8. Flattens(g, cs, m)
    <3> SUFFICES ASSUME NEW i \in 1..m
                 PROVE  g[i] = IF i = 1 THEN cs[i] ELSE g[i - 1] \o cs[i]
      BY DEF Flattens
    <3> HIDE DEF last
    <3>1. CASE i = m
      <4>1. g[i] = last
        BY <3>1
      <4>2. i # 1 => g[i - 1] = f[m - 1]
        BY <2>3, <3>1
      <4> QED
        BY <3>1, <4>1, <4>2 DEF last
    <3>2. CASE i # m
      <4>1. i \in 1..m-1 /\ g[i] = f[i]
        BY <3>2
      <4>2. i # 1 => g[i - 1] = f[i - 1]
        BY <3>2
      <4> QED
        BY <2>5, <4>1, <4>2 DEF Flattens
    <3> QED
      BY <3>1, <3>2
  <2>9. Good(m)
    <3> HIDE DEF g
    <3> QED
      BY <2>7, <2>8
  <2> QED
    BY <2>9
<1>2. Good(Len(cs))
  <2> HIDE DEF Good
  <2> QED
    BY <1>1
<1> QED
  BY <1>2

\* There is one such function.
LEMMA FlattenIsUnique ==
  ASSUME NEW cs, NEW n \in Nat, NEW f, NEW g,
         Flattens(f, cs, n), Flattens(g, cs, n)
  PROVE  \A i \in 1..n : f[i] = g[i]
<1> DEFINE differ == {i \in 1..n : f[i] # g[i]}
<1> SUFFICES ASSUME differ # {} PROVE FALSE
  OBVIOUS
<1>1. differ \subseteq Nat
  OBVIOUS
<1> HIDE DEF differ
<1>2. PICK m \in differ : \A x \in differ : m <= x
  BY <1>1, LeastExists
<1> USE DEF differ
<1>3. CASE m = 1
  BY <1>3 DEF Flattens
<1>4. CASE m # 1
  <2>1. f[m - 1] = g[m - 1]
    BY <1>2, <1>4
  <2> QED
    BY <1>4, <2>1 DEF Flattens
<1> QED
  BY <1>3, <1>4

\* FlattenSeq of no piece is empty.
LEMMA FlattenEmpty == FlattenSeq(<<>>) = <<>>
BY DEF FlattenSeq

\* FlattenSeq of sequences is a sequence, and a piece more comes at its end.
LEMMA FlattenAppend ==
  ASSUME NEW S, NEW cs \in Seq(Seq(S)), NEW x \in Seq(S)
  PROVE  /\ FlattenSeq(cs) \in Seq(S)
         /\ FlattenSeq(Append(cs, x)) = FlattenSeq(cs) \o x
<1> DEFINE F(s) == CHOOSE f : f = [i \in 1..Len(s) |-> IF i = 1 THEN s[i] ELSE f[i - 1] \o s[i]]
<1>1. ASSUME NEW s \in Seq(Seq(S))
      PROVE  /\ Flattens(F(s), s, Len(s))
             /\ s # <<>> => F(s)[Len(s)] \in Seq(S)
             /\ FlattenSeq(s) = IF s = <<>> THEN <<>> ELSE F(s)[Len(s)]
  <2>1. PICK f \in [1..Len(s) -> Seq(S)] : Flattens(f, s, Len(s))
    BY FlattenExists
  <2>2. f = [i \in 1..Len(s) |-> IF i = 1 THEN s[i] ELSE f[i - 1] \o s[i]]
    BY <2>1 DEF Flattens
  <2>3. F(s) = [i \in 1..Len(s) |-> IF i = 1 THEN s[i] ELSE F(s)[i - 1] \o s[i]]
    BY <2>2
  <2>4. FlattenSeq(s) = IF s = <<>> THEN <<>> ELSE F(s)[Len(s)]
    BY DEF FlattenSeq
  <2> HIDE DEF F
  <2>5. Flattens(F(s), s, Len(s))
    BY <2>3 DEF Flattens
  <2>6. \A i \in 1..Len(s) : F(s)[i] = f[i]
    BY <2>1, <2>5, FlattenIsUnique
  <2>7. s # <<>> => F(s)[Len(s)] \in Seq(S)
    <3>1. s # <<>> => Len(s) \in 1..Len(s)
      OBVIOUS
    <3> QED
      BY <2>1, <2>6, <3>1
  <2> QED
    BY <2>4, <2>5, <2>7
<1> HIDE DEF F
<1>2. FlattenSeq(cs) \in Seq(S)
  BY <1>1
<1> DEFINE t == Append(cs, x)
<1>3. /\ t \in Seq(Seq(S)) /\ Len(t) = Len(cs) + 1 /\ t[Len(t)] = x
      /\ \A i \in 1..Len(cs) : t[i] = cs[i]
  BY AppendProperties
<1> HIDE DEF t
<1>4. Len(cs) \in Nat /\ t # <<>>
  BY <1>3
<1>5. \A i \in 1..Len(cs) : F(t)[i] = F(cs)[i]
  <2>1. Flattens(F(cs), cs, Len(cs))
    BY <1>1
  <2>2. Flattens(F(t), t, Len(t))
    BY <1>1, <1>3
  <2>3. Flattens(F(t), cs, Len(cs))
    BY <1>3, <1>4, <2>2 DEF Flattens
  <2> QED
    BY <1>4, <2>1, <2>3, FlattenIsUnique
<1>6. FlattenSeq(t) = F(t)[Len(t)]
  BY <1>1, <1>3, <1>4
<1>7. F(t)[Len(t)] = IF Len(t) = 1 THEN x ELSE F(t)[Len(cs)] \o x
  <2>1. Flattens(F(t), t, Len(t)) /\ Len(t) \in 1..Len(t) /\ Len(t) - 1 = Len(cs)
    BY <1>1, <1>3, <1>4
  <2> QED
    BY <1>3, <2>1 DEF Flattens
<1>8. CASE cs = <<>>
  <2>1. FlattenSeq(cs) \o x = x
    BY <1>8, FlattenEmpty
  <2> QED
    BY <1>2, <1>3, <1>6, <1>7, <1>8, <2>1 DEF t
<1>9. CASE cs # <<>>
  <2>1. Len(cs) \in 1..Len(cs) /\ Len(t) # 1
    BY <1>3, <1>9
  <2>2. FlattenSeq(cs) = F(cs)[Len(cs)]
    BY <1>1, <1>9
  <2> QED
    BY <1>2, <1>5, <1>6, <1>7, <2>1, <2>2 DEF t
<1> QED
  BY <1>8, <1>9

-----------------------------------------------------------------------------
\* Where the chunks cs end in what they are put together to.
EndsOf(cs) == {Len(FlattenSeq(SubSeq(cs, 1, k))) : k \in DOMAIN cs}

\* The i-th byte of b belongs to a character that is cut after e bytes.
CutAt(b, e, i) ==
  e < Len(b) /\ b[e] = "lead" /\ b[e + 1] = "cont" /\ i \in {e, e + 1}

\* The chunks as json.Marshal leaves them.
Pieces(cs) == [k \in DOMAIN cs |-> Marshal(cs[k])]

\* The chunks cs were read from the body b, and rest is left of it.
ReadSoFar(cs, rest, b) ==
  /\ cs \in Seq(Seq(Bytes)) /\ rest \in Seq(Bytes)
  /\ FlattenSeq(cs) \o rest = b
  /\ EndsOf(cs) \subseteq 1..Len(FlattenSeq(cs))
  /\ cs # <<>> => Len(FlattenSeq(cs)) \in EndsOf(cs)

\* Put together, the pieces are what was read, but for what is invalid or cut.
PiecesSoFar(cs, b) ==
  /\ Len(FlattenSeq(Pieces(cs))) = Len(FlattenSeq(cs))
  /\ \A i \in 1..Len(FlattenSeq(cs)) :
       FlattenSeq(Pieces(cs))[i] =
         IF IsWhole(b, i) /\ ~\E e \in EndsOf(cs) : CutAt(b, e, i) THEN b[i] ELSE "replaced"

\* A body is a sequence of bytes.
LEMMA BodyIsBytes ==
  ASSUME NEW b \in Bodies
  PROVE  b \in Seq(Bytes)
<1>1. PICK m \in 0..MaxBody : b \in [1..m -> Bytes]
  BY DEF Bodies, BoundedSeq, SeqOf
<1> QED
  BY <1>1, ReaderAssumption DEF ReaderAssumption

\* Marshalling changes no length.
LEMMA MarshalTyped ==
  ASSUME NEW x \in Seq(Bytes)
  PROVE  /\ Marshal(x) \in Seq(Bytes \cup {"replaced"})
         /\ Len(Marshal(x)) = Len(x)
         /\ \A i \in 1..Len(x) : Marshal(x)[i] = IF IsWhole(x, i) THEN x[i] ELSE "replaced"
BY DEF Marshal

\* The pieces of the chunks and of one chunk more.
LEMMA PiecesAppend ==
  ASSUME NEW cs \in Seq(Seq(Bytes)), NEW x \in Seq(Bytes)
  PROVE  /\ Pieces(cs) \in Seq(Seq(Bytes \cup {"replaced"}))
         /\ Pieces(Append(cs, x)) = Append(Pieces(cs), Marshal(x))
<1> DEFINE t == Append(cs, x)
<1>1. /\ t \in Seq(Seq(Bytes)) /\ Len(t) = Len(cs) + 1 /\ t[Len(cs) + 1] = x
      /\ \A i \in 1..Len(cs) : t[i] = cs[i]
  BY AppendProperties
<1>2. ASSUME NEW s \in Seq(Seq(Bytes))
      PROVE  /\ Pieces(s) \in Seq(Seq(Bytes \cup {"replaced"}))
             /\ Len(Pieces(s)) = Len(s)
             /\ \A k \in 1..Len(s) : Pieces(s)[k] = Marshal(s[k])
  <2>1. \A k \in 1..Len(s) : s[k] \in Seq(Bytes) /\ Marshal(s[k]) \in Seq(Bytes \cup {"replaced"})
    BY MarshalTyped
  <2>2. Pieces(s) = [k \in 1..Len(s) |-> Marshal(s[k])]
    BY DEF Pieces
  <2> QED
    BY <2>1, <2>2
<1> HIDE DEF t
<1>3. /\ Pieces(t) \in Seq(Seq(Bytes \cup {"replaced"}))
      /\ Append(Pieces(cs), Marshal(x)) \in Seq(Seq(Bytes \cup {"replaced"}))
      /\ Len(Pieces(t)) = Len(Append(Pieces(cs), Marshal(x)))
  BY <1>1, <1>2, MarshalTyped, AppendProperties
<1>4. \A i \in 1..Len(Pieces(t)) : Pieces(t)[i] = Append(Pieces(cs), Marshal(x))[i]
  <2> TAKE i \in 1..Len(Pieces(t))
  <2>1. i \in 1..Len(t) /\ Pieces(t)[i] = Marshal(t[i])
    BY <1>1, <1>2
  <2>2. /\ \A k \in 1..Len(cs) : Append(Pieces(cs), Marshal(x))[k] = Marshal(cs[k])
        /\ Append(Pieces(cs), Marshal(x))[Len(cs) + 1] = Marshal(x)
    BY <1>2, MarshalTyped, AppendProperties
  <2>3. CASE i = Len(cs) + 1
    BY <1>1, <2>1, <2>2, <2>3
  <2>4. CASE i \in 1..Len(cs)
    BY <1>1, <2>1, <2>2, <2>4
  <2>5. i = Len(cs) + 1 \/ i \in 1..Len(cs)
    BY <1>1, <2>1
  <2> QED
    BY <2>3, <2>4, <2>5
<1>5. Pieces(t) = Append(Pieces(cs), Marshal(x))
  BY <1>3, <1>4, SeqEqual
<1> QED
  BY <1>2, <1>5 DEF t

\* A chunk more has one end more.
LEMMA EndsAppend ==
  ASSUME NEW cs \in Seq(Seq(Bytes)), NEW x \in Seq(Bytes)
  PROVE  EndsOf(Append(cs, x)) = EndsOf(cs) \cup {Len(FlattenSeq(Append(cs, x)))}
<1> DEFINE t == Append(cs, x)
<1>1. /\ t \in Seq(Seq(Bytes)) /\ Len(t) = Len(cs) + 1
      /\ \A i \in 1..Len(cs) : t[i] = cs[i]
  BY AppendProperties
<1> HIDE DEF t
<1>2. \A k \in 1..Len(cs) : SubSeq(t, 1, k) = SubSeq(cs, 1, k)
  BY <1>1
<1>3. SubSeq(t, 1, Len(cs) + 1) = t
  BY <1>1, SubSeqFull
<1>4. DOMAIN cs = 1..Len(cs) /\ DOMAIN t = 1..Len(cs) \cup {Len(cs) + 1}
  BY <1>1
<1>5. EndsOf(t) = EndsOf(cs) \cup {Len(FlattenSeq(t))}
  BY <1>2, <1>3, <1>4 DEF EndsOf
<1> QED
  BY <1>5 DEF t

\* The next n bytes of rest make a chunk x that goes with the chunks cs.
ChunkFits(cs, rest, b, n) ==
  LET x == SubSeq(rest, 1, n) IN
  /\ x \in Seq(Bytes) /\ Len(x) = n
  /\ ReadSoFar(Append(cs, x), SubSeq(rest, n + 1, Len(rest)), b)
  /\ FlattenSeq(cs) \in Seq(Bytes)
  /\ FlattenSeq(Append(cs, x)) = FlattenSeq(cs) \o x
  /\ Len(b) = Len(FlattenSeq(cs)) + Len(rest)
  /\ \A j \in 1..n : b[Len(FlattenSeq(cs)) + j] = x[j]

\* A chunk more is what comes next in the body.
LEMMA ChunkIsNext ==
  ASSUME NEW cs, NEW rest, NEW b, ReadSoFar(cs, rest, b), NEW n \in 1..Len(rest)
  PROVE  ChunkFits(cs, rest, b, n)
<1> DEFINE x == SubSeq(rest, 1, n)
           flat == FlattenSeq(cs)
           left == SubSeq(rest, n + 1, Len(rest))
           t == Append(cs, x)
<1> USE DEF ReadSoFar
<1>1. rest \in Seq(Bytes) /\ Len(rest) \in Nat /\ n \in Nat /\ n >= 1 /\ cs \in Seq(Seq(Bytes))
  OBVIOUS
<1>2. x \in Seq(Bytes) /\ Len(x) = n /\ \A j \in 1..n : x[j] = rest[j]
  BY <1>1
<1>3. left \in Seq(Bytes)
  BY <1>1
<1>4. x \o left = rest
  <2>1. /\ 1 \in 1..Len(rest) + 1 /\ n \in 1 - 1..Len(rest) /\ Len(rest) \in n..Len(rest)
    BY <1>1
  <2>2. x \o left = SubSeq(rest, 1, Len(rest))
    BY <1>1, <2>1, ConcatAdjacentSubSeq
  <2> QED
    BY <1>1, <2>2, SubSeqFull
<1>5. flat \in Seq(Bytes) /\ FlattenSeq(t) = flat \o x
  BY <1>1, <1>2, FlattenAppend
<1>6. t \in Seq(Seq(Bytes)) /\ EndsOf(t) = EndsOf(cs) \cup {Len(FlattenSeq(t))}
  BY <1>1, <1>2, AppendProperties, EndsAppend
<1>7. EndsOf(cs) \subseteq 1..Len(flat) /\ flat \o rest = b
  OBVIOUS
<1> HIDE DEF x, flat, left, t
<1>8. (flat \o x) \o left = b
  <2>1. (flat \o x) \o left = flat \o (x \o left)
    <3> HIDE DEF ReadSoFar
    <3>1. flat \in Seq(Bytes) /\ x \in Seq(Bytes) /\ left \in Seq(Bytes)
      BY <1>2, <1>3, <1>5
    <3> QED
      BY <3>1, ConcatAssociative
  <2> QED
    BY <1>4, <1>7, <2>1
<1>9. Len(flat) \in Nat /\ Len(flat \o x) = Len(flat) + n /\ Len(b) = Len(flat) + Len(rest)
  BY <1>1, <1>2, <1>5, <1>7, ConcatProperties, LenProperties
<1>10. \A j \in 1..n : b[Len(flat) + j] = x[j]
  <2> TAKE j \in 1..n
  <2>1. Len(flat) + j \in 1..Len(flat) + Len(rest) /\ ~(Len(flat) + j <= Len(flat))
        /\ Len(flat) + j - Len(flat) = j
    BY <1>1, <1>9
  <2>2. (flat \o rest)[Len(flat) + j] = rest[j]
    BY <1>1, <1>5, <2>1, ConcatProperties
  <2> QED
    BY <1>2, <1>7, <2>2
<1>11. EndsOf(t) \subseteq 1..Len(FlattenSeq(t)) /\ Len(FlattenSeq(t)) \in EndsOf(t)
  <2>1. Len(FlattenSeq(t)) = Len(flat) + n
    BY <1>5, <1>9
  <2>2. 1..Len(flat) \subseteq 1..Len(flat) + n /\ Len(flat) + n \in 1..Len(flat) + n
    BY <1>1, <1>9
  <2> HIDE DEF ReadSoFar
  <2> QED
    BY <1>6, <1>7, <2>1, <2>2
<1>12. ReadSoFar(t, left, b)
  BY <1>3, <1>5, <1>6, <1>8, <1>11
<1> QED
  BY <1>2, <1>5, <1>9, <1>10, <1>12 DEF ChunkFits, x, flat, left, t

\* A byte is part of a whole character in the chunk x, which is what comes after
\* the first L bytes of b, if it is in b and no end of x cuts the character.
LEMMA CutByItsEnds ==
  ASSUME NEW b \in Seq(Bytes), NEW L \in Nat, NEW x \in Seq(Bytes), L + Len(x) <= Len(b),
         \A j \in 1..Len(x) : b[L + j] = x[j],
         NEW j \in 1..Len(x)
  PROVE  IsWhole(x, j) <=> /\ IsWhole(b, L + j)
                           /\ ~(L > 0 /\ CutAt(b, L, L + j))
                           /\ ~CutAt(b, L + Len(x), L + j)
<1>1. /\ Len(x) \in Nat /\ Len(b) \in Nat /\ L + j \in 1..Len(b) /\ j \in Nat /\ j >= 1 /\ j <= Len(x)
      /\ b[L + j] = x[j] /\ x[j] \in Bytes
  OBVIOUS
<1>2. L > 0 /\ CutAt(b, L, L + j) <=> L > 0 /\ j = 1 /\ b[L] = "lead" /\ b[L + j] = "cont"
  BY <1>1 DEF CutAt
<1>3. CutAt(b, L + Len(x), L + j) <=>
        j = Len(x) /\ L + j < Len(b) /\ b[L + j] = "lead" /\ b[L + j + 1] = "cont"
  BY <1>1 DEF CutAt
<1>4. j < Len(x) => x[j + 1] = b[L + j + 1]
  <2>1. j < Len(x) => j + 1 \in 1..Len(x) /\ L + (j + 1) = L + j + 1
    BY <1>1
  <2> QED
    BY <2>1
<1>5. j > 1 => x[j - 1] = b[L + j - 1]
  <2>1. j > 1 => j - 1 \in 1..Len(x) /\ L + (j - 1) = L + j - 1
    BY <1>1
  <2> QED
    BY <2>1
<1>6. CASE x[j] = "ascii"
  BY <1>1, <1>2, <1>3, <1>6 DEF IsWhole
<1>7. CASE x[j] = "lead"
  BY <1>1, <1>2, <1>3, <1>4, <1>7 DEF IsWhole
<1>8. CASE x[j] = "cont"
  <2>1. j = 1 => L + j - 1 = L
    BY <1>1
  <2> QED
    BY <1>1, <1>2, <1>3, <1>5, <1>8, <2>1 DEF IsWhole
<1> QED
  BY <1>1, <1>6, <1>7, <1>8 DEF Bytes

\* One piece more differs from the body where a byte is invalid or cut, only.
LEMMA PieceIsNext ==
  ASSUME NEW cs, NEW rest, NEW b \in Bodies, ReadSoFar(cs, rest, b), PiecesSoFar(cs, b),
         NEW n \in 1..Len(rest)
  PROVE  PiecesSoFar(Append(cs, SubSeq(rest, 1, n)), b)
<1> DEFINE x == SubSeq(rest, 1, n)
           t == Append(cs, x)
           L == Len(FlattenSeq(cs))
           got == FlattenSeq(Pieces(cs))
           cut(i) == \E e \in EndsOf(cs) : CutAt(b, e, i)
<1>1. /\ x \in Seq(Bytes) /\ Len(x) = n /\ rest \in Seq(Bytes) /\ cs \in Seq(Seq(Bytes))
      /\ FlattenSeq(cs) \in Seq(Bytes) /\ FlattenSeq(t) = FlattenSeq(cs) \o x
      /\ Len(b) = L + Len(rest)
      /\ \A j \in 1..n : b[L + j] = x[j]
  <2>1. rest \in Seq(Bytes) /\ cs \in Seq(Seq(Bytes))
    BY DEF ReadSoFar
  <2>2. ChunkFits(cs, rest, b, n)
    BY ChunkIsNext
  <2> QED
    BY <2>1, <2>2 DEF ChunkFits
<1>2. /\ L \in Nat /\ n \in Nat /\ n >= 1 /\ Len(rest) \in Nat /\ n <= Len(rest) /\ L + n <= Len(b)
      /\ Len(FlattenSeq(t)) = L + n
  BY <1>1, ConcatProperties, LenProperties
<1>3. EndsOf(t) = EndsOf(cs) \cup {L + n}
  BY <1>1, <1>2, EndsAppend
<1>4. EndsOf(cs) \subseteq 1..L /\ (L > 0 => L \in EndsOf(cs))
  BY FlattenEmpty DEF ReadSoFar
<1>5. /\ Marshal(x) \in Seq(Bytes \cup {"replaced"}) /\ Len(Marshal(x)) = n
      /\ \A j \in 1..n : Marshal(x)[j] = IF IsWhole(x, j) THEN x[j] ELSE "replaced"
  BY <1>1, MarshalTyped
<1>6. got \in Seq(Bytes \cup {"replaced"}) /\ FlattenSeq(Pieces(t)) = got \o Marshal(x)
  <2> DEFINE B == Bytes \cup {"replaced"}
  <2>1. Pieces(cs) \in Seq(Seq(B)) /\ Pieces(t) = Append(Pieces(cs), Marshal(x))
    BY <1>1, PiecesAppend
  <2>2. Marshal(x) \in Seq(B)
    BY <1>5
  <2> HIDE DEF B
  <2>3. got \in Seq(B) /\ FlattenSeq(Pieces(t)) = got \o Marshal(x)
    BY <2>1, <2>2, FlattenAppend
  <2> QED
    BY <2>3 DEF B
<1>7. Len(got) = L /\ \A i \in 1..L : got[i] = IF IsWhole(b, i) /\ ~cut(i) THEN b[i] ELSE "replaced"
  BY DEF PiecesSoFar
<1> HIDE DEF x, t, L, got
<1>8. /\ Len(got \o Marshal(x)) = L + n
      /\ \A i \in 1..L + n : (got \o Marshal(x))[i] = IF i <= L THEN got[i] ELSE Marshal(x)[i - L]
  <2> DEFINE B == Bytes \cup {"replaced"}
  <2>1. got \in Seq(B) /\ Marshal(x) \in Seq(B)
    BY <1>5, <1>6
  <2> HIDE DEF B
  <2>2. /\ Len(got \o Marshal(x)) = Len(got) + Len(Marshal(x))
        /\ \A i \in 1..Len(got) + Len(Marshal(x)) :
             (got \o Marshal(x))[i] = IF i <= Len(got) THEN got[i] ELSE Marshal(x)[i - Len(got)]
    BY <2>1, ConcatProperties
  <2> QED
    BY <1>5, <1>7, <2>2
<1>9. ASSUME NEW i \in 1..L + n
      PROVE  (got \o Marshal(x))[i] =
               IF IsWhole(b, i) /\ ~(cut(i) \/ CutAt(b, L + n, i)) THEN b[i] ELSE "replaced"
  <2>1. CASE i <= L
    <3>1. i \in 1..L /\ ~CutAt(b, L + n, i)
      BY <1>2, <2>1 DEF CutAt
    <3> QED
      BY <1>7, <1>8, <2>1, <3>1
  <2>2. CASE i > L
    <3>1. PICK j \in 1..n : i = L + j /\ i - L = j
      BY <1>2, <2>2
    <3>2. cut(i) <=> L > 0 /\ CutAt(b, L, i)
      BY <1>2, <1>4, <2>2 DEF CutAt
    <3>3. IsWhole(x, j) <=> IsWhole(b, i) /\ ~(cut(i) \/ CutAt(b, L + n, i))
      BY <1>1, <1>2, <3>1, <3>2, BodyIsBytes, CutByItsEnds
    <3>4. (got \o Marshal(x))[i] = IF IsWhole(x, j) THEN x[j] ELSE "replaced"
      BY <1>2, <1>5, <1>8, <2>2, <3>1
    <3> QED
      BY <1>1, <3>1, <3>3, <3>4
  <2> HIDE DEF cut
  <2>3. i <= L \/ i > L
    BY <1>2
  <2> QED
    BY <2>1, <2>2, <2>3
<1>10. \A i : (\E e \in EndsOf(t) : CutAt(b, e, i)) <=> cut(i) \/ CutAt(b, L + n, i)
  BY <1>3
<1>11. PiecesSoFar(t, b)
  <2> HIDE DEF cut
  <2> QED
    BY <1>2, <1>6, <1>8, <1>9, <1>10 DEF PiecesSoFar
<1> QED
  BY <1>11 DEF x, t

\* What the model sends is the pieces, however many there are.
LEMMA RespondSendsPieces ==
  ASSUME NEW cs \in Seq(Seq(Bytes))
  PROVE  Respond(cs) = Pieces(cs)
<1>1. DOMAIN cs = 1..Len(cs) /\ Len(cs) \in Nat
  OBVIOUS
<1>2. CASE Len(cs) > 1
  BY <1>2 DEF Respond, Pieces
<1>3. CASE Len(cs) = 1
  <2>1. Pieces(cs) = [k \in 1..1 |-> Marshal(cs[k])]
    BY <1>1, <1>3 DEF Pieces
  <2>2. Pieces(cs) = <<Marshal(cs[1])>>
    BY <2>1
  <2> QED
    BY <1>3, <2>2 DEF Respond
<1>4. CASE Len(cs) = 0
  <2>1. Pieces(cs) = [k \in 1..0 |-> Marshal(cs[k])]
    BY <1>1, <1>4 DEF Pieces
  <2>2. Pieces(cs) = <<>>
    BY <2>1
  <2> QED
    BY <1>4, <2>2 DEF Respond
<1> QED
  BY <1>1, <1>2, <1>3, <1>4


-----------------------------------------------------------------------------
\* When the response is complete nothing is unread and the pieces are sent.
Answered == state = "ok" => unread = <<>> /\ wire = Pieces(chunks)

\* While the loop goes on, what it has read is within the limit.
WithinLimit == state = "reading" => TotalSize <= MaxResponseSize

\* The inductive invariant of the reader.
ReaderIInv ==
  /\ ReaderTypeOK
  /\ ReadSoFar(chunks, unread, body) /\ PiecesSoFar(chunks, body)
  /\ Answered /\ WithinLimit /\ MemoryIsBounded

\* Nothing was read yet.
LEMMA InitReaderIInv == ReaderInit => ReaderIInv
<1> SUFFICES ASSUME ReaderInit PROVE ReaderIInv
  OBVIOUS
<1> USE DEF ReaderInit
<1>1. body \in Bodies /\ body \in Seq(Bytes)
  BY BodyIsBytes
<1>2. ReaderTypeOK
  BY <1>1 DEF ReaderTypeOK
<1>3. EndsOf(<<>>) = {} /\ Pieces(<<>>) = <<>>
  BY DEF EndsOf, Pieces
<1>4. ReadSoFar(chunks, unread, body)
  BY <1>1, <1>3, FlattenEmpty DEF ReadSoFar
<1>5. PiecesSoFar(chunks, body)
  BY <1>3, FlattenEmpty DEF PiecesSoFar
<1>6. Answered /\ WithinLimit /\ MemoryIsBounded
  BY <1>1, ReaderAssumption
     DEF Answered, WithinLimit, MemoryIsBounded, TotalSize, ReaderAssumption
<1> QED
  BY <1>2, <1>4, <1>5, <1>6 DEF ReaderIInv

\* A read adds a chunk, and its piece, to what was read.
LEMMA ReadKeepsReaderIInv ==
  ASSUME ReaderIInv, Read
  PROVE  ReaderIInv'
<1> USE DEF ReaderIInv
<1>1. PICK n \in 1..ChunkSize, eof \in BOOLEAN :
        /\ n <= Len(unread)
        /\ eof => n = Len(unread)
        /\ unread' = SubSeq(unread, n + 1, Len(unread))
        /\ chunks' = Append(chunks, SubSeq(unread, 1, n))
        /\ IF eof
           THEN state' = "ok" /\ wire' = Respond(chunks')
           ELSE /\ state' = IF TooLarge(n) THEN "tooLarge" ELSE "reading"
                /\ UNCHANGED wire
  BY DEF Read, Keep
<1>2. body' = body /\ state = "reading"
  BY DEF Read
<1>3. unread \in Seq(Bytes) /\ Len(unread) \in Nat /\ n \in 1..Len(unread) /\ n \in Nat
      /\ body \in Bodies /\ chunks \in Seq(Seq(Bytes))
  BY <1>1, ReaderAssumption DEF ReaderTypeOK, ReadSoFar, ReaderAssumption
<1> DEFINE x == SubSeq(unread, 1, n)
<1>4. /\ x \in Seq(Bytes) /\ Len(x) = n
      /\ ReadSoFar(chunks', unread', body')
  <2>1. ChunkFits(chunks, unread, body, n)
    BY <1>3, ChunkIsNext
  <2> QED
    BY <1>1, <1>2, <2>1 DEF ChunkFits
<1>5. PiecesSoFar(chunks', body')
  BY <1>1, <1>2, <1>3, PieceIsNext
<1>6. unread' \in Seq(Bytes) /\ Len(unread') = Len(unread) - n
  BY <1>1, <1>3
<1>7. ReaderTypeOK'
  <2>1. \A i \in DOMAIN chunks' : Len(chunks'[i]) \in 1..ChunkSize
    <3> HIDE DEF x
    <3>1. /\ chunks' \in Seq(Seq(Bytes)) /\ Len(chunks') = Len(chunks) + 1
          /\ chunks'[Len(chunks) + 1] = x
          /\ \A i \in 1..Len(chunks) : chunks'[i] = chunks[i]
      BY <1>1, <1>3, <1>4, AppendProperties DEF x
    <3>2. DOMAIN chunks' = 1..Len(chunks) \cup {Len(chunks) + 1} /\ DOMAIN chunks = 1..Len(chunks)
      BY <1>3, <3>1
    <3> QED
      BY <1>4, <3>1, <3>2 DEF ReaderTypeOK
  <2>2. wire' # <<>> => state' = "ok"
    BY <1>1, <1>2 DEF ReaderTypeOK
  <2>3. state' \in {"reading", "ok", "failed", "tooLarge"}
    BY <1>1
  <2> QED
    BY <1>2, <1>3, <1>6, <2>1, <2>2, <2>3 DEF ReaderTypeOK
<1>8. Answered'
  <2>1. CASE eof
    <3>1. wire' = Pieces(chunks')
      BY <1>1, <1>4, <2>1, RespondSendsPieces DEF ReadSoFar
    <3>2. Len(unread') = 0
      BY <1>1, <1>3, <1>6, <2>1
    <3>3. unread' = <<>>
      BY <1>6, <3>2
    <3>4. Pieces(chunks)' = Pieces(chunks')
      BY DEF Pieces, Marshal, IsWhole
    <3> QED
      BY <3>1, <3>3, <3>4 DEF Answered
  <2>2. CASE ~eof
    BY <1>1, <2>2 DEF Answered
  <2> QED
    BY <2>1, <2>2
<1>9. WithinLimit' /\ MemoryIsBounded'
  <2>1. TotalSize' = TotalSize + n
    <3>1. Len(body) \in Nat
      BY <1>3, BodyIsBytes
    <3> QED
      BY <1>2, <1>3, <1>6, <3>1 DEF TotalSize
  <2>2. TotalSize \in Int
    BY <1>3, BodyIsBytes DEF TotalSize
  <2> QED
    BY <1>1, <1>2, <1>3, <2>1, <2>2, ReaderAssumption
       DEF WithinLimit, MemoryIsBounded, TooLarge, ReaderAssumption
<1> QED
  BY <1>4, <1>5, <1>7, <1>8, <1>9

\* Every step keeps the invariant.
LEMMA StepReaderIInv == ReaderIInv /\ [ReaderNext]_readerVars => ReaderIInv'
<1> SUFFICES ASSUME ReaderIInv, [ReaderNext]_readerVars PROVE ReaderIInv'
  OBVIOUS
<1>1. CASE Read
  BY <1>1, ReadKeepsReaderIInv
<1>2. CASE ReadEnd
  <2>1. UNCHANGED <<body, unread, chunks>> /\ unread = <<>> /\ state' = "ok" /\ wire' = Respond(chunks)
    BY <1>2 DEF ReadEnd
  <2>2. Respond(chunks) = Pieces(chunks)
    BY RespondSendsPieces DEF ReaderIInv, ReadSoFar
  <2>3. ReaderTypeOK' /\ WithinLimit' /\ MemoryIsBounded'
    BY <2>1 DEF ReaderIInv, ReaderTypeOK, WithinLimit, MemoryIsBounded, TotalSize
  <2>4. Answered'
    BY <2>1, <2>2 DEF Answered
  <2> QED
    BY <2>1, <2>3, <2>4 DEF ReaderIInv
<1>3. CASE ReadFails
  BY <1>3 DEF ReadFails, ReaderIInv, ReaderTypeOK, Answered, WithinLimit, MemoryIsBounded, TotalSize
<1>4. CASE ReaderTerminated \/ UNCHANGED readerVars
  BY <1>4 DEF ReaderTerminated, readerVars, ReaderIInv, ReaderTypeOK, Answered, WithinLimit,
     MemoryIsBounded, TotalSize
<1> QED
  BY <1>1, <1>2, <1>3, <1>4 DEF ReaderNext

\* ReaderIInv is an invariant of the reader.
THEOREM ReaderInvariance == ReaderSpec => []ReaderIInv
BY InitReaderIInv, StepReaderIInv, PTL DEF ReaderSpec

\* The types hold for bodies, chunks and limits of any size.
THEOREM ReaderTypeCorrect == ReaderSpec => []ReaderTypeOK
<1>1. ReaderIInv => ReaderTypeOK
  BY DEF ReaderIInv
<1> QED
  BY <1>1, ReaderInvariance, PTL

\* The invariant says what becomes of every byte.
LEMMA ReaderIsFaithful == ReaderIInv => ResponseIsFaithful
<1> SUFFICES ASSUME ReaderIInv PROVE ResponseIsFaithful
  OBVIOUS
<1> USE DEF ReaderIInv
<1>1. FlattenSeq(chunks) \o unread = body
  BY DEF ReadSoFar
<1>2. CASE state = "ok"
  <2>1. unread = <<>> /\ wire = Pieces(chunks)
    BY <1>2 DEF Answered
  <2>2. FlattenSeq(chunks) \in Seq(Bytes)
    BY FlattenAppend, EmptySeq DEF ReadSoFar
  <2>3. FlattenSeq(chunks) = body
    BY <1>1, <2>1, <2>2
  <2>4. DOMAIN body = 1..Len(body)
    BY <2>2, <2>3
  <2>5. \A i : CutApart(i) <=> \E e \in EndsOf(chunks) : CutAt(body, e, i)
    BY DEF CutApart, EndsOf, CutAt
  <2> QED
    BY <1>1, <2>1, <2>3, <2>4, <2>5 DEF ResponseIsFaithful, PiecesSoFar
<1> QED
  BY <1>1, <1>2 DEF ResponseIsFaithful

\* However the transport cuts a body of any bytes and any length, Plugboard gets
\* the whole of it in order, but for the bytes that are no valid UTF-8 and the
\* characters that a chunk boundary cuts in two.
THEOREM ResponseArrivesWhole == ReaderSpec => []ResponseIsFaithful
BY ReaderIsFaithful, ReaderInvariance, PTL

\* For every limit and chunk size, what is held of a response exceeds the limit
\* by one chunk at most, whatever the backend sends; so does a response that
\* is accepted, although the limit is not applied to the last read.
THEOREM MemoryStaysBounded ==
  ReaderSpec => [](MemoryIsBounded /\ (state = "ok" => Len(body) <= MaxResponseSize + ChunkSize))
<1>1. ReaderIInv => (state = "ok" => Len(body) <= MaxResponseSize + ChunkSize)
  <2> SUFFICES ASSUME ReaderIInv, state = "ok" PROVE Len(body) <= MaxResponseSize + ChunkSize
    OBVIOUS
  <2>1. Len(unread) = 0 /\ Len(body) \in Nat
    BY BodyIsBytes DEF ReaderIInv, Answered, ReaderTypeOK
  <2> QED
    BY <2>1 DEF ReaderIInv, MemoryIsBounded, TotalSize
<1>2. ReaderIInv => MemoryIsBounded
  BY DEF ReaderIInv
<1> QED
  BY <1>1, <1>2, ReaderInvariance, PTL

\* Plugboard gets the response as the backend sent it, which the tests of the
\* repository expect of every response (WireIsBody), exactly if the body is valid
\* UTF-8 and no chunk boundary cuts a character of it; one chunk cuts none.
THEOREM ExactResponses ==
  ReaderSpec => [](state = "ok" =>
    /\ FlattenSeq(wire) = body <=> \A i \in DOMAIN body : IsWhole(body, i) /\ ~CutApart(i)
    /\ Len(wire) <= 1 => \A i \in DOMAIN body : ~CutApart(i))
<1> DEFINE Exact == FlattenSeq(wire) = body <=>
                      \A i \in DOMAIN body : IsWhole(body, i) /\ ~CutApart(i)
           OneChunk == Len(wire) <= 1 => \A i \in DOMAIN body : ~CutApart(i)
<1>1. ReaderIInv /\ state = "ok" => Exact /\ OneChunk
  <2> SUFFICES ASSUME ReaderIInv, state = "ok" PROVE Exact /\ OneChunk
    OBVIOUS
  <2> USE DEF ReaderIInv
  <2> DEFINE got == FlattenSeq(Pieces(chunks))
  <2>1. /\ unread = <<>> /\ wire = Pieces(chunks) /\ chunks \in Seq(Seq(Bytes))
        /\ body \in Seq(Bytes)
    BY BodyIsBytes DEF Answered, ReadSoFar, ReaderTypeOK
  <2>2. FlattenSeq(chunks) = body
    <3>1. FlattenSeq(chunks) \in Seq(Bytes)
      BY <2>1, FlattenAppend, EmptySeq
    <3> QED
      BY <2>1, <3>1 DEF ReadSoFar
  <2>3. got \in Seq(Bytes \cup {"replaced"})
    <3>1. Pieces(chunks) \in Seq(Seq(Bytes \cup {"replaced"}))
      BY <2>1, PiecesAppend, EmptySeq
    <3> QED
      BY <3>1, FlattenAppend, EmptySeq
  <2>4. /\ Len(got) = Len(body)
        /\ \A i \in DOMAIN body :
             got[i] = IF IsWhole(body, i) /\ ~CutApart(i) THEN body[i] ELSE "replaced"
    BY <2>1, ReaderIsFaithful DEF ResponseIsFaithful
  <2>5. OneChunk
    <3> SUFFICES ASSUME Len(wire) <= 1, NEW k \in DOMAIN chunks,
                        Len(FlattenSeq(SubSeq(chunks, 1, k))) < Len(body)
                 PROVE  FALSE
      BY DEF CutApart
    <3>1. Len(chunks) <= 1 /\ DOMAIN chunks = 1..Len(chunks)
      BY <2>1 DEF Pieces
    <3>2. k = Len(chunks)
      BY <2>1, <3>1
    <3>3. Len(FlattenSeq(SubSeq(chunks, 1, k))) = Len(body)
      BY <2>1, <2>2, <3>2, SubSeqFull
    <3> QED
      BY <2>1, <3>3
  <2> HIDE DEF got
  <2>6. Exact
    <3>1. \A i \in DOMAIN body : got[i] = body[i] <=> IsWhole(body, i) /\ ~CutApart(i)
      <4>1. \A i \in DOMAIN body : body[i] # "replaced"
        BY <2>1 DEF Bytes
      <4> QED
        BY <2>4, <4>1
    <3>2. got = body <=> \A i \in DOMAIN body : got[i] = body[i]
      <4>1. body \in Seq(Bytes \cup {"replaced"}) /\ DOMAIN body = 1..Len(body)
        BY <2>1
      <4> QED
        BY <2>3, <2>4, <4>1, SeqEqual
    <3> QED
      BY <2>1, <3>1, <3>2 DEF got
  <2> QED
    BY <2>5, <2>6
<1> QED
  BY <1>1, ReaderInvariance, PTL
=============================================================================
