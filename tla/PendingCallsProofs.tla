------------------------- MODULE PendingCallsProofs -------------------------
(***************************************************************************)
(* Theorems about PendingCalls, for every value of its constants.          *)
(***************************************************************************)
EXTENDS PendingCalls, TLAPS

USE CallAssumption DEF CallAssumption, Refs, None

-----------------------------------------------------------------------------
(* The inductive invariant.  Registered and InCall are the stretches of    *)
(* SendAndWait before the entry is deleted and before it returns.          *)

Registered(c) == pc[c] \in {"sending", "waiting", "removing"}
InCall(c) == Registered(c) \/ pc[c] = "closing"

\* References and channels of the calls under way are real and all different.
OwnNames ==
  /\ \A c \in Callers : pc[c] # "idle" => msgRef[c] # None
  /\ \A c \in Callers : InCall(c) => replyChan[c] # None
  /\ \A c, e \in Callers :
       c # e /\ pc[c] # "idle" /\ pc[e] # "idle" => msgRef[c] # msgRef[e]
  /\ \A c, e \in Callers :
       c # e /\ InCall(c) /\ InCall(e) => replyChan[c] # replyChan[e]

\* A reply on its way to a channel answers the call that made the channel.
RepliesOnCourse ==
  /\ \A ch \in Refs : ch > made => buffer[ch] = None
  /\ \A c \in Callers : InCall(c) => buffer[replyChan[c]] \in {None, msgRef[c]}
  /\ \A c \in Callers, d \in Readers :
       InCall(c) /\ held[d].chan = replyChan[c] => held[d].ref = msgRef[c]
  /\ \A d \in Readers : held[d].chan = None <=> held[d].ref = None

\* Nothing is received that the server did not send.
NothingInvented ==
  /\ \A r \in Refs : wire[r] <= replies[r]
  /\ \A ch \in Refs : buffer[ch] # None => replies[buffer[ch]] > 0
  /\ \A d \in Readers : held[d].ref # None => replies[held[d].ref] > 0

\* The outcome of a reference follows the caller that has it.
OutcomeFollows ==
  /\ \A r \in Refs : r > refCounter => outcome[r] = "notCalled"
  /\ \A c \in Callers : pc[c] = "numbered" => outcome[msgRef[c]] = "notCalled"
  /\ \A c \in Callers :
       pc[c] \in {"sending", "waiting"} => outcome[msgRef[c]] = "pending"
  /\ \A r \in asked : outcome[r] # "notCalled"

IInv == /\ TypeOK /\ OwnNames /\ WaiterIsRegistered /\ NoForgottenEntry
        /\ RepliesOnCourse /\ NothingInvented /\ OutcomeFollows

-----------------------------------------------------------------------------
(* Type correctness.  That wire never exceeds MaxReplies needs             *)
(* NothingInvented, so TypeOK is proved inside IInv.                       *)

\* Replacing one value of a function by another of its range.
LEMMA ExceptTyped ==
  ASSUME NEW S, NEW T, NEW f \in [S -> T], NEW a, NEW v \in T
  PROVE  [f EXCEPT ![a] = v] \in [S -> T]
  OBVIOUS

\* The initial state satisfies the invariant.
LEMMA InitInv == Init => IInv
  <1> SUFFICES ASSUME Init PROVE IInv
    OBVIOUS
  <1>1. TypeOK
    <2>0. panicked \in BOOLEAN
      BY DEF Init
    <2>1. refCounter \in 0..MaxRef /\ made \in 0..MaxRef
          /\ closed \subseteq 1..made /\ asked \subseteq 1..refCounter
      BY DEF Init
    <2>2. /\ pendingRequests \in [Refs -> 0..made]
          /\ buffer \in [Refs -> 0..MaxRef]
          /\ replies \in [Refs -> 0..MaxReplies]
          /\ wire \in [Refs -> 0..MaxReplies]
      BY DEF Init
    <2>3. /\ pc \in [Callers -> CallerStates]
          /\ msgRef \in [Callers -> 0..refCounter]
          /\ replyChan \in [Callers -> 0..made]
          /\ outcome \in [Refs -> Outcomes]
      BY DEF Init, CallerStates, Outcomes
    <2>4. held \in [Readers -> [ref : 0..MaxRef, chan : 0..made]]
      BY DEF Init, NoReply
    <2>5. QED
      BY <2>0, <2>1, <2>2, <2>3, <2>4 DEF TypeOK
  <1>2. OwnNames /\ WaiterIsRegistered
    BY DEF Init, OwnNames, WaiterIsRegistered, InCall, Registered
  <1>3. NoForgottenEntry /\ RepliesOnCourse
    BY DEF Init, NoForgottenEntry, RepliesOnCourse, InCall, Registered, NoReply
  <1>4. NothingInvented /\ OutcomeFollows
    BY DEF Init, NothingInvented, OutcomeFollows, NoReply
  <1>5. QED
    BY <1>1, <1>2, <1>3, <1>4 DEF IInv

\* Every step of a caller keeps the types.
LEMMA CallerTyped ==
  ASSUME IInv, NEW c \in Callers, Caller(c)
  PROVE  TypeOK'
  <1> USE DEF chanVars, callerVars, serverVars
  <1>0. TypeOK /\ OwnNames
    BY DEF IInv
  <1>1. CASE NextRef(c)
    <2>1. refCounter' \in 0..MaxRef
      BY <1>0, <1>1 DEF NextRef, TypeOK
    <2>2. msgRef' \in [Callers -> 0..refCounter']
      BY <1>0, <1>1 DEF NextRef, TypeOK
    <2>3. pc' \in [Callers -> CallerStates]
      BY <1>0, <1>1 DEF NextRef, TypeOK, CallerStates
    <2>4. asked' \subseteq 1..refCounter'
      BY <1>0, <1>1 DEF NextRef, TypeOK
    <2>5. QED
      BY <1>0, <1>1, <2>1, <2>2, <2>3, <2>4 DEF NextRef, TypeOK
  <1>2. CASE Register(c)
    <2>1. made' = made + 1 /\ made' \in 0..MaxRef
      BY <1>0, <1>2 DEF Register, TypeOK
    <2>2. pendingRequests' \in [Refs -> 0..made']
      <3>1. pendingRequests \in [Refs -> 0..made] /\ made \in Nat
        BY <1>0 DEF TypeOK
      <3>2. pendingRequests' = [pendingRequests EXCEPT ![msgRef[c]] = made + 1]
        BY <1>2 DEF Register
      <3>3. pendingRequests \in [Refs -> 0..made'] /\ made + 1 \in 0..made'
        BY <2>1, <3>1
      <3>4. QED
        BY <3>2, <3>3, ExceptTyped
    <2>3. replyChan' \in [Callers -> 0..made']
      BY <1>0, <1>2, <2>1 DEF Register, TypeOK
    <2>4. closed' \subseteq 1..made'
      BY <1>0, <1>2, <2>1 DEF Register, TypeOK
    <2>5. held' \in [Readers -> [ref : 0..MaxRef, chan : 0..made']]
      <3>1. held' = held /\ 0..made \subseteq 0..made'
        BY <1>0, <1>2, <2>1 DEF Register, TypeOK
      <3>2. QED
        BY <1>0, <3>1 DEF TypeOK
    <2>6. pc' \in [Callers -> CallerStates]
      BY <1>0, <1>2 DEF Register, TypeOK, CallerStates
    <2>7. outcome' \in [Refs -> Outcomes]
      BY <1>0, <1>2 DEF Register, TypeOK, Outcomes
    <2>8. QED
      BY <1>0, <1>2, <2>1, <2>2, <2>3, <2>4, <2>5, <2>6, <2>7 DEF Register, TypeOK
  <1>3. CASE SendOk(c)
    <2>1. asked' \subseteq 1..refCounter'
      <3>1. msgRef[c] \in 1..refCounter
        BY <1>0, <1>3 DEF SendOk, TypeOK, OwnNames
      <3>2. asked \subseteq 1..refCounter
        BY <1>0 DEF TypeOK
      <3>3. QED
        BY <1>3, <3>1, <3>2 DEF SendOk
    <2>2. pc' \in [Callers -> CallerStates]
      BY <1>0, <1>3 DEF SendOk, TypeOK, CallerStates
    <2>3. QED
      BY <1>0, <1>3, <2>1, <2>2 DEF SendOk, TypeOK
  <1>4. ASSUME NEW result \in {"answered", "failed"}, Decide(c, result)
        PROVE  pc' \in [Callers -> CallerStates] /\ outcome' \in [Refs -> Outcomes]
    BY <1>0, <1>4 DEF Decide, TypeOK, CallerStates, Outcomes
  <1>5. CASE SendError(c) \/ GiveUp(c)
    BY <1>0, <1>4, <1>5 DEF SendError, GiveUp, TypeOK
  <1>6. CASE GetReply(c)
    <2>1. buffer' \in [Refs -> 0..MaxRef]
      <3>1. buffer \in [Refs -> 0..MaxRef]
        BY <1>0 DEF TypeOK
      <3>2. QED
        BY <1>6, <3>1, ExceptTyped, None \in 0..MaxRef DEF GetReply
    <2>2. QED
      BY <1>0, <1>4, <1>6, <2>1 DEF GetReply, TypeOK
  <1>7. CASE Remove(c)
    <2>1. pendingRequests' \in [Refs -> 0..made]
      <3>1. pendingRequests \in [Refs -> 0..made] /\ made \in Nat
        BY <1>0 DEF TypeOK
      <3>2. QED
        BY <1>7, <3>1, ExceptTyped, None \in 0..made DEF Remove
    <2>2. pc' \in [Callers -> CallerStates]
      BY <1>0, <1>7 DEF Remove, TypeOK, CallerStates
    <2>3. QED
      BY <1>0, <1>7, <2>1, <2>2 DEF Remove, TypeOK
  <1>8. CASE CloseChan(c)
    <2>1. closed' \subseteq 1..made
      <3>1. replyChan[c] \in 1..made
        BY <1>0, <1>8 DEF CloseChan, TypeOK, OwnNames, InCall
      <3>2. closed \subseteq 1..made
        BY <1>0 DEF TypeOK
      <3>3. QED
        BY <1>8, <3>1, <3>2 DEF CloseChan
    <2>2. pc' \in [Callers -> CallerStates]
      BY <1>0, <1>8 DEF CloseChan, TypeOK, CallerStates
    <2>3. QED
      BY <1>0, <1>8, <2>1, <2>2 DEF CloseChan, TypeOK
  <1>9. QED
    BY <1>1, <1>2, <1>3, <1>5, <1>6, <1>7, <1>8 DEF Caller

\* What a reader picks up is a reply on the wire and the channel registered
\* for its reference.
LEMMA LookupStep ==
  ASSUME TypeOK, NEW d \in Readers, Lookup(d)
  PROVE  \E r \in Refs :
           /\ wire[r] > 0
           /\ wire' = [wire EXCEPT ![r] = wire[r] - 1]
           /\ \/ held' = held
              \/ /\ pendingRequests[r] # None
                 /\ held' = [held EXCEPT ![d] = [ref |-> r, chan |-> pendingRequests[r]]]
  BY DEF Lookup, TypeOK

\* Every step of a reader, the server or the network keeps the types.
LEMMA OthersTyped ==
  ASSUME IInv, \/ \E d \in Readers : Lookup(d) \/ Deliver(d)
               \/ ServerReplies \/ ConnectionLost \/ UNCHANGED vars
  PROVE  TypeOK'
  <1> USE DEF chanVars, callerVars, serverVars
  <1>0. TypeOK /\ NothingInvented
    BY DEF IInv
  <1>1. ASSUME NEW d \in Readers, Lookup(d) PROVE TypeOK'
    <2>1. PICK r \in Refs :
            /\ wire[r] > 0
            /\ wire' = [wire EXCEPT ![r] = wire[r] - 1]
            /\ \/ held' = held
               \/ /\ pendingRequests[r] # None
                  /\ held' = [held EXCEPT ![d] = [ref |-> r, chan |-> pendingRequests[r]]]
      BY <1>0, <1>1, LookupStep
    <2>2. wire' \in [Refs -> 0..MaxReplies]
      <3>1. wire \in [Refs -> 0..MaxReplies]
        BY <1>0 DEF TypeOK
      <3>2. QED
        BY <2>1, <3>1
    <2>3. held' \in [Readers -> [ref : 0..MaxRef, chan : 0..made]]
      <3>1. /\ held \in [Readers -> [ref : 0..MaxRef, chan : 0..made]]
            /\ pendingRequests[r] \in 0..made
        BY <1>0 DEF TypeOK
      <3>2. [ref |-> r, chan |-> pendingRequests[r]] \in [ref : 0..MaxRef, chan : 0..made]
        BY <3>1
      <3>3. QED
        BY <2>1, <3>1, <3>2
    <2>4. QED
      BY <1>0, <1>1, <2>2, <2>3 DEF Lookup, TypeOK
  <1>2. ASSUME NEW d \in Readers, Deliver(d) PROVE TypeOK'
    <2>1. held' \in [Readers -> [ref : 0..MaxRef, chan : 0..made]]
      BY <1>0, <1>2 DEF Deliver, NoReply, TypeOK
    <2>2. buffer' \in [Refs -> 0..MaxRef]
      <3>1. held[d].ref \in 0..MaxRef
        BY <1>0 DEF TypeOK
      <3>2. QED
        BY <1>0, <1>2, <3>1 DEF Deliver, TypeOK
    <2>3. panicked' \in BOOLEAN
      BY <1>0, <1>2 DEF Deliver, TypeOK
    <2>4. QED
      BY <1>0, <1>2, <2>1, <2>2, <2>3 DEF Deliver, TypeOK
  <1>3. CASE ServerReplies
    <2>1. PICK r \in asked : /\ replies[r] < MaxReplies
                             /\ replies' = [replies EXCEPT ![r] = @ + 1]
                             /\ wire' = [wire EXCEPT ![r] = @ + 1]
      BY <1>3 DEF ServerReplies
    <2>2. r \in Refs /\ wire[r] <= replies[r]
      BY <1>0 DEF TypeOK, NothingInvented
    <2>3. replies' \in [Refs -> 0..MaxReplies] /\ wire' \in [Refs -> 0..MaxReplies]
      <3>1. /\ replies \in [Refs -> 0..MaxReplies]
            /\ wire \in [Refs -> 0..MaxReplies]
        BY <1>0 DEF TypeOK
      <3>2. replies[r] + 1 \in 0..MaxReplies /\ wire[r] + 1 \in 0..MaxReplies
        BY <2>1, <2>2, <3>1, CallAssumption DEF CallAssumption
      <3>3. QED
        BY <2>1, <3>1, <3>2, ExceptTyped
    <2>4. QED
      BY <1>0, <1>3, <2>3 DEF ServerReplies, TypeOK
  <1>4. CASE ConnectionLost
    <2>1. wire' \in [Refs -> 0..MaxReplies]
      BY <1>4 DEF ConnectionLost
    <2>2. QED
      BY <1>0, <1>4, <2>1 DEF ConnectionLost, TypeOK
  <1>5. CASE UNCHANGED vars
    BY <1>0, <1>5 DEF vars, TypeOK
  <1>6. QED
    BY <1>1, <1>2, <1>3, <1>4, <1>5

-----------------------------------------------------------------------------
(* Names, registration and the pending map.                                *)

\* The names the callers hold are those handed out so far.
LEMMA NamesBounded ==
  ASSUME IInv
  PROVE  /\ refCounter \in Nat /\ refCounter <= MaxRef
         /\ made \in Nat /\ made <= MaxRef
         /\ \A e \in Callers :
              /\ msgRef[e] \in Nat /\ msgRef[e] <= refCounter
              /\ replyChan[e] \in Nat /\ replyChan[e] <= made
              /\ pc[e] # "idle" => msgRef[e] \in Refs
              /\ InCall(e) => replyChan[e] \in Refs
  <1>1. /\ refCounter \in 0..MaxRef /\ made \in 0..MaxRef
        /\ msgRef \in [Callers -> 0..refCounter]
        /\ replyChan \in [Callers -> 0..made]
    BY DEF IInv, TypeOK
  <1>2. \A e \in Callers : /\ msgRef[e] \in 0..refCounter
                           /\ replyChan[e] \in 0..made
                           /\ pc[e] # "idle" => msgRef[e] # None
                           /\ InCall(e) => replyChan[e] # None
    BY <1>1 DEF IInv, OwnNames
  <1>3. QED
    BY <1>1, <1>2

\* What the steps of a caller do to its own variables and to no other's.
LEMMA CallerMoves ==
  ASSUME TypeOK, NEW c \in Callers, Caller(c)
  PROVE  \A e \in Callers \ {c} :
           pc'[e] = pc[e] /\ msgRef'[e] = msgRef[e] /\ replyChan'[e] = replyChan[e]
  <1> USE DEF TypeOK, callerVars
  <1>1. CASE NextRef(c)
    BY <1>1 DEF NextRef
  <1>2. CASE Register(c)
    BY <1>2 DEF Register
  <1>3. CASE SendOk(c) \/ SendError(c) \/ GetReply(c) \/ GiveUp(c)
    BY <1>3 DEF SendOk, SendError, GetReply, GiveUp, Decide
  <1>4. CASE Remove(c) \/ CloseChan(c)
    BY <1>4 DEF Remove, CloseChan
  <1>5. QED
    BY <1>1, <1>2, <1>3, <1>4 DEF Caller

\* References and channels stay different from each other.
LEMMA CallerOwnNames ==
  ASSUME IInv, NEW c \in Callers, Caller(c)
  PROVE  OwnNames'
  <1> USE DEF callerVars, chanVars, serverVars
  <1>0. TypeOK /\ OwnNames
    BY DEF IInv
  <1>1. \A e \in Callers \ {c} :
           pc'[e] = pc[e] /\ msgRef'[e] = msgRef[e] /\ replyChan'[e] = replyChan[e]
    BY <1>0, CallerMoves
  <1>2. CASE NextRef(c)
    <2>1. /\ pc'[c] = "numbered" /\ msgRef'[c] = refCounter + 1
          /\ refCounter + 1 # None
          /\ \A e \in Callers : msgRef[e] # refCounter + 1
      <3>1. ASSUME NEW e \in Callers PROVE msgRef[e] # refCounter + 1
        <4>1. msgRef[e] \in Nat /\ refCounter \in Nat /\ msgRef[e] <= refCounter
          BY NamesBounded
        <4>2. QED
          BY <4>1
      <3>2. refCounter + 1 # None
        BY NamesBounded
      <3>3. QED
        BY <1>0, <1>2, <3>1, <3>2 DEF NextRef, TypeOK
    <2>2. QED
      BY <1>0, <1>1, <2>1 DEF OwnNames, InCall, Registered
  <1>3. CASE Register(c)
    <2>1. /\ pc[c] = "numbered" /\ pc'[c] = "sending"
          /\ replyChan'[c] = made + 1 /\ msgRef'[c] = msgRef[c]
          /\ made + 1 # None
          /\ \A e \in Callers : replyChan[e] # made + 1
      <3>1. ASSUME NEW e \in Callers PROVE replyChan[e] # made + 1
        <4>1. replyChan[e] \in Nat /\ made \in Nat /\ replyChan[e] <= made
          BY NamesBounded
        <4>2. QED
          BY <4>1
      <3>2. made + 1 # None
        BY NamesBounded
      <3>3. QED
        BY <1>0, <1>3, <3>1, <3>2 DEF Register, TypeOK
    <2>2. QED
      BY <1>0, <1>1, <2>1 DEF OwnNames, InCall, Registered
  <1>4. CASE SendOk(c) \/ SendError(c) \/ GetReply(c) \/ GiveUp(c)
             \/ Remove(c) \/ CloseChan(c)
    <2>1. /\ InCall(c) /\ (pc'[c] = "idle" \/ InCall(c)')
          /\ replyChan'[c] = replyChan[c] /\ msgRef'[c] = msgRef[c]
      BY <1>0, <1>4 DEF SendOk, SendError, GetReply, GiveUp, Remove, CloseChan, Decide,
                        TypeOK, InCall, Registered
    <2>2. QED
      BY <1>0, <1>1, <2>1 DEF OwnNames, InCall, Registered
  <1>5. QED
    BY <1>2, <1>3, <1>4 DEF Caller

\* The map holds exactly the calls that are inside SendAndWait.
LEMMA CallerRegistered ==
  ASSUME IInv, NEW c \in Callers, Caller(c)
  PROVE  WaiterIsRegistered' /\ NoForgottenEntry'
  <1> USE DEF callerVars, chanVars, serverVars
  <1>0. TypeOK /\ OwnNames /\ WaiterIsRegistered /\ NoForgottenEntry
    BY DEF IInv
  <1>1. \A e \in Callers \ {c} :
           pc'[e] = pc[e] /\ msgRef'[e] = msgRef[e] /\ replyChan'[e] = replyChan[e]
    BY <1>0, CallerMoves
  <1>2. CASE NextRef(c)
    <2>1. pc[c] = "idle" /\ pc'[c] = "numbered" /\ UNCHANGED pendingRequests
      BY <1>0, <1>2 DEF NextRef, TypeOK
    <2>2. QED
      BY <1>0, <1>1, <2>1 DEF WaiterIsRegistered, NoForgottenEntry
  <1>3. CASE Register(c)
    <2>1. /\ pc[c] = "numbered" /\ pc'[c] = "sending"
          /\ msgRef'[c] = msgRef[c] /\ replyChan'[c] = made + 1
          /\ msgRef[c] \in Refs
      <3>1. pc[c] = "numbered" /\ msgRef[c] \in Refs
        BY <1>3, NamesBounded DEF Register
      <3>2. QED
        BY <1>0, <1>3, <3>1 DEF Register, TypeOK
    <2>2. \A r \in Refs : pendingRequests'[r] =
            IF r = msgRef[c] THEN made + 1 ELSE pendingRequests[r]
      BY <1>0, <1>3 DEF Register, TypeOK
    <2>3. \A e \in Callers \ {c} : pc[e] # "idle" =>
             msgRef[e] # msgRef[c] /\ msgRef[e] \in Refs
      BY <1>0, <2>1, NamesBounded DEF OwnNames
    <2>4. WaiterIsRegistered'
      BY <1>0, <1>1, <2>1, <2>2, <2>3 DEF WaiterIsRegistered
    <2>5. NoForgottenEntry'
      BY <1>0, <1>1, <2>1, <2>2 DEF NoForgottenEntry
    <2>6. QED
      BY <2>4, <2>5
  <1>4. CASE SendOk(c) \/ SendError(c) \/ GetReply(c) \/ GiveUp(c)
    <2>1. /\ pc[c] \in {"sending", "waiting"} /\ pc'[c] \in {"waiting", "removing"}
          /\ UNCHANGED <<pendingRequests, msgRef, replyChan>>
      BY <1>0, <1>4 DEF SendOk, SendError, GetReply, GiveUp, Decide, TypeOK
    <2>2. QED
      BY <1>0, <1>1, <2>1 DEF WaiterIsRegistered, NoForgottenEntry
  <1>5. CASE Remove(c)
    <2>1. /\ pc[c] = "removing" /\ pc'[c] = "closing"
          /\ UNCHANGED <<msgRef, replyChan>>
      BY <1>0, <1>5 DEF Remove, TypeOK
    <2>2. \A r \in Refs : pendingRequests'[r] =
            IF r = msgRef[c] THEN None ELSE pendingRequests[r]
      BY <1>0, <1>5 DEF Remove, TypeOK
    <2>3. \A e \in Callers \ {c} : pc[e] # "idle" =>
             msgRef[e] # msgRef[c] /\ msgRef[e] \in Refs
      BY <1>0, <2>1, NamesBounded DEF OwnNames
    <2>4. WaiterIsRegistered'
      BY <1>0, <1>1, <2>1, <2>2, <2>3 DEF WaiterIsRegistered
    <2>5. NoForgottenEntry'
      BY <1>0, <1>1, <2>1, <2>2 DEF NoForgottenEntry
    <2>6. QED
      BY <2>4, <2>5
  <1>6. CASE CloseChan(c)
    <2>1. /\ pc[c] = "closing" /\ pc'[c] = "idle"
          /\ UNCHANGED <<pendingRequests, msgRef, replyChan>>
      BY <1>0, <1>6 DEF CloseChan, TypeOK
    <2>2. QED
      BY <1>0, <1>1, <2>1 DEF WaiterIsRegistered, NoForgottenEntry
  <1>7. QED
    BY <1>2, <1>3, <1>4, <1>5, <1>6 DEF Caller

-----------------------------------------------------------------------------
(* Replies on course.                                                      *)

\* A reply a caller finds in its channel answers its own reference, and the
\* channel of a new call starts empty.
LEMMA CallerOnCourse ==
  ASSUME IInv, NEW c \in Callers, Caller(c)
  PROVE  RepliesOnCourse'
  <1> USE DEF callerVars, chanVars, serverVars
  <1>0. TypeOK /\ OwnNames /\ RepliesOnCourse
    BY DEF IInv
  <1>1. \A e \in Callers \ {c} :
           pc'[e] = pc[e] /\ msgRef'[e] = msgRef[e] /\ replyChan'[e] = replyChan[e]
    BY <1>0, CallerMoves
  <1>2. CASE NextRef(c)
    <2>1. pc[c] = "idle" /\ pc'[c] = "numbered" /\ UNCHANGED <<held, buffer, made>>
      BY <1>0, <1>2 DEF NextRef, TypeOK
    <2>2. QED
      BY <1>0, <1>1, <2>1 DEF RepliesOnCourse, InCall, Registered
  <1>3. CASE Register(c)
    <2>1. /\ UNCHANGED <<held, buffer>> /\ made' = made + 1
          /\ replyChan'[c] = made + 1
      BY <1>0, <1>3 DEF Register, TypeOK
    <2>2. made \in Nat /\ made + 1 \in Refs
      BY <1>0, <1>3 DEF Register, TypeOK
    <2>3. buffer[made + 1] = None
      BY <1>0, <2>2 DEF RepliesOnCourse
    <2>4. ASSUME NEW d \in Readers PROVE held[d].chan # made + 1
      <3>1. held[d].chan \in 0..made
        BY <1>0 DEF TypeOK
      <3>2. QED
        BY <2>2, <3>1
    <2>5. \A ch \in Refs : ch > made + 1 => buffer[ch] = None
      BY <1>0, <2>2 DEF RepliesOnCourse
    <2>6. QED
      BY <1>0, <1>1, <2>1, <2>3, <2>4, <2>5 DEF RepliesOnCourse, InCall, Registered
  <1>4. CASE GetReply(c)
    <2>1. /\ UNCHANGED <<held, made, msgRef, replyChan>>
          /\ pc[c] = "waiting"
          /\ buffer' = [buffer EXCEPT ![replyChan[c]] = None]
      BY <1>4 DEF GetReply
    <2>2. \A ch \in Refs : buffer'[ch] = buffer[ch] \/ buffer'[ch] = None
      BY <1>0, <2>1 DEF TypeOK
    <2>3. \A e \in Callers : InCall(e)' => InCall(e) /\ replyChan[e] \in Refs
      BY <1>1, <2>1, NamesBounded DEF InCall, Registered
    <2>4. QED
      BY <1>0, <2>1, <2>2, <2>3 DEF RepliesOnCourse
  <1>5. CASE SendOk(c) \/ SendError(c) \/ GiveUp(c) \/ Remove(c) \/ CloseChan(c)
    <2>1. /\ UNCHANGED <<held, buffer, made, msgRef, replyChan>>
          /\ InCall(c)
      BY <1>5 DEF SendOk, SendError, GiveUp, Remove, CloseChan, InCall, Registered
    <2>2. \A e \in Callers : InCall(e)' => InCall(e)
      BY <1>1, <2>1 DEF InCall, Registered
    <2>3. QED
      BY <1>0, <2>1, <2>2 DEF RepliesOnCourse
  <1>6. QED
    BY <1>2, <1>3, <1>4, <1>5 DEF Caller

\* A reader picks the channel of the call that has the reply's reference, and
\* puts the reply into that channel.
LEMMA ReaderOnCourse ==
  ASSUME IInv, NEW d \in Readers, Lookup(d) \/ Deliver(d)
  PROVE  RepliesOnCourse'
  <1> USE DEF callerVars, chanVars, serverVars
  <1>0. /\ TypeOK /\ OwnNames /\ RepliesOnCourse
        /\ WaiterIsRegistered /\ NoForgottenEntry
    BY DEF IInv
  <1>1. CASE Lookup(d)
    <2>1. PICK r \in Refs :
            /\ wire[r] > 0
            /\ wire' = [wire EXCEPT ![r] = wire[r] - 1]
            /\ \/ held' = held
               \/ /\ pendingRequests[r] # None
                  /\ held' = [held EXCEPT ![d] = [ref |-> r, chan |-> pendingRequests[r]]]
      BY <1>0, <1>1, LookupStep
    <2>2. UNCHANGED <<pc, msgRef, replyChan, buffer, made>>
      BY <1>1 DEF Lookup
    <2>3. CASE held' = held
      BY <1>0, <2>2, <2>3 DEF RepliesOnCourse, InCall, Registered
    <2>4. CASE /\ pendingRequests[r] # None
               /\ held' = [held EXCEPT ![d] = [ref |-> r, chan |-> pendingRequests[r]]]
      <3>1. PICK e \in Callers : msgRef[e] = r /\ Registered(e)
        BY <1>0, <2>4 DEF NoForgottenEntry, Registered
      <3>2. pendingRequests[r] = replyChan[e]
        BY <1>0, <3>1 DEF WaiterIsRegistered, Registered
      <3>3. \A c \in Callers : InCall(c) /\ replyChan[c] = replyChan[e] => c = e
        BY <1>0, <3>1 DEF OwnNames, InCall
      <3>4. held'[d].chan = replyChan[e] /\ held'[d].ref = r /\ r # None
        BY <1>0, <2>4, <3>2 DEF TypeOK
      <3>5. \A x \in Readers \ {d} : held'[x] = held[x]
        BY <1>0, <2>4 DEF TypeOK
      <3>6. replyChan[e] # None
        BY <2>4, <3>2
      <3>7. QED
        BY <1>0, <2>2, <3>1, <3>3, <3>4, <3>5, <3>6
           DEF RepliesOnCourse, InCall, Registered
    <2>5. QED
      BY <2>1, <2>3, <2>4
  <1>2. CASE Deliver(d)
    <2>1. /\ UNCHANGED <<pc, msgRef, replyChan, made>>
          /\ held' = [held EXCEPT ![d] = NoReply]
          /\ \/ UNCHANGED buffer
             \/ buffer' = [buffer EXCEPT ![held[d].chan] =
                             IF buffer[held[d].chan] = None THEN held[d].ref
                             ELSE buffer[held[d].chan]]
      BY <1>2 DEF Deliver
    <2>2. held[d] # NoReply /\ held[d].chan \in 0..made /\ held[d].ref \in 0..MaxRef
      BY <1>0, <1>2 DEF Deliver, TypeOK
    <2>3. \A ch \in Refs : \/ buffer'[ch] = buffer[ch]
                           \/ ch = held[d].chan /\ buffer'[ch] = held[d].ref
      BY <1>0, <2>1 DEF TypeOK
    <2>4. \A ch \in Refs : ch > made => ch # held[d].chan
      BY <1>0, <2>2 DEF TypeOK
    <2>5. \A x \in Readers : held'[x] = held[x] \/ held'[x] = NoReply
      BY <1>0, <2>1 DEF TypeOK
    <2>6. \A c \in Callers : InCall(c) => replyChan[c] \in Refs
      BY NamesBounded
    <2>7. /\ \A ch \in Refs : ch > made => buffer'[ch] = None
          /\ \A c \in Callers : InCall(c) => buffer'[replyChan[c]] \in {None, msgRef[c]}
      BY <1>0, <2>3, <2>4, <2>6 DEF RepliesOnCourse
    <2>8. \A c \in Callers : InCall(c) => replyChan[c] # None
      BY <1>0 DEF OwnNames
    <2>9. QED
      BY <1>0, <2>1, <2>5, <2>7, <2>8 DEF RepliesOnCourse, InCall, Registered, NoReply
  <1>3. QED
    BY <1>1, <1>2

-----------------------------------------------------------------------------
(* Nothing invented, outcomes, and the invariant as a whole.               *)

\* Replies in flight, in a reader's hand or in a channel were sent.
LEMMA StepNotInvented ==
  ASSUME IInv, [Next]_vars
  PROVE  NothingInvented'
  <1> USE DEF callerVars, chanVars, serverVars
  <1>0. TypeOK /\ NothingInvented /\ OwnNames
    BY DEF IInv
  <1>t. /\ \A r \in Refs : wire[r] \in Nat /\ replies[r] \in Nat
        /\ \A ch \in Refs : buffer[ch] # None => buffer[ch] \in Refs
        /\ \A d \in Readers : held[d].ref # None => held[d].ref \in Refs
    <2>1. \A r \in Refs : wire[r] \in 0..MaxReplies /\ replies[r] \in 0..MaxReplies
      BY <1>0 DEF TypeOK
    <2>2. \A ch \in Refs : buffer[ch] \in 0..MaxRef
      BY <1>0 DEF TypeOK
    <2>3. \A d \in Readers : held[d].ref \in 0..MaxRef
      BY <1>0 DEF TypeOK
    <2>4. QED
      BY <2>1, <2>2, <2>3, CallAssumption DEF CallAssumption
  <1>1. ASSUME NEW c \in Callers, Caller(c) PROVE NothingInvented'
    <2>1. UNCHANGED <<wire, replies, held>>
      BY <1>1 DEF Caller, NextRef, Register, SendOk, SendError, GetReply, GiveUp,
                  Remove, CloseChan
    <2>2. \A ch \in Refs : buffer'[ch] = buffer[ch] \/ buffer'[ch] = None
      <3>1. CASE GetReply(c)
        BY <1>0, <3>1 DEF GetReply, TypeOK
      <3>2. CASE ~GetReply(c)
        BY <1>1, <3>2 DEF Caller, NextRef, Register, SendOk, SendError, GiveUp,
                          Remove, CloseChan
      <3>3. QED
        BY <3>1, <3>2
    <2>3. QED
      BY <1>0, <2>1, <2>2 DEF NothingInvented
  <1>2. ASSUME NEW d \in Readers, Lookup(d) PROVE NothingInvented'
    <2>1. PICK r \in Refs :
            /\ wire[r] > 0
            /\ wire' = [wire EXCEPT ![r] = wire[r] - 1]
            /\ \/ held' = held
               \/ /\ pendingRequests[r] # None
                  /\ held' = [held EXCEPT ![d] = [ref |-> r, chan |-> pendingRequests[r]]]
      BY <1>0, <1>2, LookupStep
    <2>2. UNCHANGED <<buffer, replies>>
      BY <1>2 DEF Lookup
    <2>3. \A q \in Refs : wire'[q] <= replies[q]
      <3>1. \A q \in Refs : wire'[q] = IF q = r THEN wire[r] - 1 ELSE wire[q]
        BY <1>0, <2>1 DEF TypeOK
      <3>2. QED
        BY <1>0, <1>t, <3>1 DEF NothingInvented
    <2>4. replies[r] > 0
      BY <1>0, <1>t, <2>1 DEF NothingInvented
    <2>5. \A x \in Readers : held'[x] = held[x] \/ held'[x].ref = r
      <3>1. held \in [Readers -> [ref : 0..MaxRef, chan : 0..made]]
        BY <1>0 DEF TypeOK
      <3>2. QED
        BY <2>1, <3>1
    <2>6. QED
      BY <1>0, <2>2, <2>3, <2>4, <2>5 DEF NothingInvented
  <1>3. ASSUME NEW d \in Readers, Deliver(d) PROVE NothingInvented'
    <2>1. /\ UNCHANGED <<wire, replies>>
          /\ held' = [held EXCEPT ![d] = NoReply]
          /\ \/ UNCHANGED buffer
             \/ buffer' = [buffer EXCEPT ![held[d].chan] =
                             IF buffer[held[d].chan] = None THEN held[d].ref
                             ELSE buffer[held[d].chan]]
      BY <1>3 DEF Deliver
    <2>2. \A ch \in Refs : buffer'[ch] = buffer[ch] \/ buffer'[ch] = held[d].ref
      BY <1>0, <2>1 DEF TypeOK
    <2>3. \A x \in Readers : held'[x] = held[x] \/ held'[x].ref = None
      BY <1>0, <2>1 DEF TypeOK, NoReply
    <2>4. QED
      BY <1>0, <2>1, <2>2, <2>3 DEF NothingInvented
  <1>4. CASE ServerReplies
    <2>1. PICK r \in asked : /\ replies' = [replies EXCEPT ![r] = @ + 1]
                             /\ wire' = [wire EXCEPT ![r] = @ + 1]
      BY <1>4 DEF ServerReplies
    <2>2. r \in Refs /\ UNCHANGED <<buffer, held>>
      BY <1>0, <1>4 DEF TypeOK, ServerReplies
    <2>3. \A q \in Refs : /\ replies'[q] = IF q = r THEN replies[r] + 1 ELSE replies[q]
                          /\ wire'[q] = IF q = r THEN wire[r] + 1 ELSE wire[q]
      BY <1>0, <2>1 DEF TypeOK
    <2>4. \A q \in Refs : wire'[q] <= replies'[q]
      BY <1>0, <1>t, <2>2, <2>3 DEF NothingInvented
    <2>5. \A q \in Refs : replies[q] > 0 => replies'[q] > 0
      BY <1>t, <2>2, <2>3
    <2>6. QED
      BY <1>0, <1>t, <2>2, <2>4, <2>5 DEF NothingInvented
  <1>5. CASE ConnectionLost
    <2>1. UNCHANGED <<buffer, held, replies>> /\ \A r \in Refs : wire'[r] = 0
      BY <1>5 DEF ConnectionLost
    <2>2. QED
      BY <1>0, <1>t, <2>1 DEF NothingInvented
  <1>6. CASE UNCHANGED vars
    BY <1>0, <1>6 DEF vars, NothingInvented
  <1>7. QED
    BY <1>1, <1>2, <1>3, <1>4, <1>5, <1>6 DEF Next

\* The outcome recorded under a reference follows the caller that holds it.
LEMMA CallerOutcome ==
  ASSUME IInv, NEW c \in Callers, Caller(c)
  PROVE  OutcomeFollows'
  <1> USE DEF callerVars, chanVars, serverVars
  <1>0. TypeOK /\ OwnNames /\ OutcomeFollows
    BY DEF IInv
  <1>1. \A e \in Callers \ {c} :
           pc'[e] = pc[e] /\ msgRef'[e] = msgRef[e] /\ replyChan'[e] = replyChan[e]
    BY <1>0, CallerMoves
  <1>a. asked \subseteq Refs /\ \A r \in asked : r <= refCounter
    BY <1>0, NamesBounded DEF TypeOK
  <1>2. CASE NextRef(c)
    <2>1. /\ pc'[c] = "numbered" /\ msgRef'[c] = refCounter + 1
          /\ UNCHANGED <<outcome, asked>> /\ refCounter' = refCounter + 1
          /\ refCounter + 1 \in Refs /\ refCounter + 1 > refCounter
      <3>1. refCounter \in Nat /\ refCounter < MaxRef
        BY <1>2, NamesBounded DEF NextRef
      <3>2. QED
        BY <1>0, <1>2, <3>1 DEF NextRef, TypeOK
    <2>2. \A r \in Refs : r > refCounter' => r > refCounter
      BY <2>1, NamesBounded
    <2>3. QED
      BY <1>0, <1>1, <2>1, <2>2 DEF OutcomeFollows
  <1>3. ASSUME NEW s \in {"pending", "answered", "failed"},
               pc[c] \in {"numbered", "sending", "waiting"},
               outcome' = [outcome EXCEPT ![msgRef[c]] = s],
               UNCHANGED <<refCounter, asked, msgRef>>,
               pc'[c] \in {"sending", "removing"},
               pc'[c] = "sending" => s = "pending"
        PROVE  OutcomeFollows'
    <2>1. msgRef[c] \in Refs /\ msgRef[c] <= refCounter /\ refCounter \in Nat
      BY <1>3, NamesBounded
    <2>2. \A r \in Refs : outcome'[r] = IF r = msgRef[c] THEN s ELSE outcome[r]
      BY <1>0, <1>3 DEF TypeOK
    <2>3. \A r \in Refs : r > refCounter => r # msgRef[c]
      BY <2>1
    <2>4. \A e \in Callers \ {c} : pc[e] # "idle" =>
             msgRef[e] # msgRef[c] /\ msgRef[e] \in Refs
      BY <1>0, <1>3, NamesBounded DEF OwnNames
    <2>5. \A r \in Refs : r > refCounter => outcome'[r] = "notCalled"
      BY <1>0, <2>2, <2>3 DEF OutcomeFollows
    <2>6. \A r \in asked : outcome'[r] # "notCalled"
      BY <1>0, <1>a, <2>2 DEF OutcomeFollows
    <2>7. \A e \in Callers : /\ pc'[e] = "numbered" => outcome'[msgRef[e]] = "notCalled"
                             /\ pc'[e] \in {"sending", "waiting"} =>
                                  outcome'[msgRef[e]] = "pending"
      BY <1>0, <1>1, <1>3, <2>1, <2>2, <2>4 DEF OutcomeFollows
    <2>8. QED
      BY <1>3, <2>5, <2>6, <2>7 DEF OutcomeFollows
  <1>4. CASE Register(c) \/ SendError(c) \/ GetReply(c) \/ GiveUp(c)
    BY <1>0, <1>3, <1>4 DEF Register, SendError, GetReply, GiveUp, Decide, TypeOK
  <1>5. CASE SendOk(c)
    <2>1. /\ pc[c] = "sending" /\ pc'[c] = "waiting"
          /\ UNCHANGED <<refCounter, outcome, msgRef>>
          /\ asked' = asked \cup {msgRef[c]}
      BY <1>0, <1>5 DEF SendOk, TypeOK
    <2>2. QED
      BY <1>0, <1>1, <2>1 DEF OutcomeFollows
  <1>6. CASE Remove(c) \/ CloseChan(c)
    <2>1. /\ pc'[c] \in {"closing", "idle"}
          /\ UNCHANGED <<refCounter, outcome, msgRef, asked>>
      BY <1>0, <1>6 DEF Remove, CloseChan, TypeOK
    <2>2. QED
      BY <1>0, <1>1, <2>1 DEF OutcomeFollows
  <1>7. QED
    BY <1>2, <1>4, <1>5, <1>6 DEF Caller

\* The invariant is inductive.
LEMMA StepInv == IInv /\ [Next]_vars => IInv'
  <1> SUFFICES ASSUME IInv, [Next]_vars PROVE IInv'
    OBVIOUS
  <1> USE DEF callerVars, chanVars, serverVars
  <1>1. NothingInvented'
    BY StepNotInvented
  <1>2. ASSUME NEW c \in Callers, Caller(c) PROVE IInv'
    BY <1>1, <1>2, CallerTyped, CallerOwnNames, CallerRegistered, CallerOnCourse,
       CallerOutcome DEF IInv
  <1>3. ASSUME UNCHANGED <<callerVars, pendingRequests, refCounter, asked>>
        PROVE  /\ OwnNames' /\ WaiterIsRegistered' /\ NoForgottenEntry'
               /\ OutcomeFollows'
    BY <1>3 DEF IInv, OwnNames, WaiterIsRegistered, NoForgottenEntry, OutcomeFollows,
                InCall, Registered
  <1>4. ASSUME NEW d \in Readers, Lookup(d) \/ Deliver(d) PROVE IInv'
    <2>1. UNCHANGED <<callerVars, pendingRequests, refCounter, asked>>
      BY <1>4 DEF Lookup, Deliver
    <2>2. QED
      BY <1>1, <1>3, <1>4, <2>1, OthersTyped, ReaderOnCourse DEF IInv
  <1>5. CASE ServerReplies \/ ConnectionLost \/ UNCHANGED vars
    <2>1. UNCHANGED <<callerVars, pendingRequests, refCounter, asked, held, buffer, made>>
      BY <1>5 DEF ServerReplies, ConnectionLost, vars
    <2>2. RepliesOnCourse'
      BY <2>1 DEF IInv, RepliesOnCourse, InCall, Registered
    <2>3. QED
      BY <1>1, <1>3, <1>5, <2>1, <2>2, OthersTyped DEF IInv
  <1>6. QED
    BY <1>2, <1>4, <1>5 DEF Next

\* The invariant holds in every behaviour.
LEMMA Invariant == Spec => []IInv
  <1>1. IInv /\ [Next]_vars => IInv'
    BY StepInv
  <1>2. QED
    BY InitInv, <1>1, PTL DEF Spec

\* A caller inside SendAndWait is registered under its own reference, with
\* its own channel, for any number of callers and calls.
THEOREM CallersAreRegistered == Spec => []WaiterIsRegistered
  <1>1. IInv => WaiterIsRegistered
    BY DEF IInv
  <1>2. QED
    BY Invariant, <1>1, PTL

\* The pending map holds no entry of a call that has returned.
THEOREM PendingMapDoesNotGrow == Spec => []NoForgottenEntry
  <1>1. IInv => NoForgottenEntry
    BY DEF IInv
  <1>2. QED
    BY Invariant, <1>1, PTL

\* The pending map holds exactly the calls inside SendAndWait.
THEOREM MapHoldsTheCalls == Spec => []EntriesAreCalls
  <1>1. WaiterIsRegistered /\ NoForgottenEntry => EntriesAreCalls
    BY DEF EntriesAreCalls
  <1>2. QED
    BY CallersAreRegistered, PendingMapDoesNotGrow, <1>1, PTL

\* The variables have their types, for any number of callers and readers.
THEOREM TypeCorrect == Spec => []TypeOK
  <1>1. IInv => TypeOK
    BY DEF IInv
  <1>2. QED
    BY Invariant, <1>1, PTL

\* A call only ever finds a reply to its own reference in its channel.
THEOREM RepliesReachTheirCall == Spec => []OwnReply
  <1>1. IInv => OwnReply
    BY DEF IInv, RepliesOnCourse, OwnReply, InCall, Registered, TypeOK, CallerStates
  <1>2. QED
    BY Invariant, <1>1, PTL

-----------------------------------------------------------------------------
(* Refinement.                                                             *)

Replied == {r \in Refs : replies[r] > 0}

\* Every step ends a call, makes one, is a reply of the server, or changes
\* nothing a caller can tell.
LEMMA StepOutcome ==
  IInv /\ [Next]_vars => [Abstract!OutcomeNext]_<<outcome, Replied>>
  <1> SUFFICES ASSUME IInv, [Next]_vars
               PROVE  [Abstract!OutcomeNext]_<<outcome, Replied>>
    OBVIOUS
  <1> USE DEF callerVars, chanVars, serverVars
  <1>0. TypeOK /\ OwnNames /\ OutcomeFollows /\ RepliesOnCourse /\ NothingInvented
    BY DEF IInv
  <1>1. ASSUME NEW c \in Callers, Register(c)
        PROVE  [Abstract!OutcomeNext]_<<outcome, Replied>>
    <2>1. msgRef[c] \in Refs /\ outcome[msgRef[c]] = "notCalled"
      BY <1>0, <1>1, NamesBounded DEF Register, OutcomeFollows
    <2>2. outcome' = [outcome EXCEPT ![msgRef[c]] = "pending"] /\ Replied' = Replied
      BY <1>1 DEF Register, Replied
    <2>3. QED
      BY <2>1, <2>2 DEF Abstract!OutcomeNext, Abstract!Make, Replied
  <1>2. ASSUME NEW c \in Callers, SendError(c) \/ GiveUp(c)
        PROVE  [Abstract!OutcomeNext]_<<outcome, Replied>>
    <2>1. msgRef[c] \in Refs /\ outcome[msgRef[c]] = "pending"
      BY <1>0, <1>2, NamesBounded DEF SendError, GiveUp, OutcomeFollows
    <2>2. outcome' = [outcome EXCEPT ![msgRef[c]] = "failed"] /\ Replied' = Replied
      BY <1>2 DEF SendError, GiveUp, Decide, Replied
    <2>3. QED
      BY <2>1, <2>2 DEF Abstract!OutcomeNext, Abstract!Failed, Replied
  <1>3. ASSUME NEW c \in Callers, GetReply(c)
        PROVE  [Abstract!OutcomeNext]_<<outcome, Replied>>
    <2>1. msgRef[c] \in Refs /\ outcome[msgRef[c]] = "pending"
      BY <1>0, <1>3, NamesBounded DEF GetReply, OutcomeFollows
    <2>2. outcome' = [outcome EXCEPT ![msgRef[c]] = "answered"] /\ Replied' = Replied
      BY <1>3 DEF GetReply, Decide, Replied
    <2>3. replyChan[c] \in Refs /\ buffer[replyChan[c]] = msgRef[c]
      BY <1>0, <1>3, NamesBounded DEF GetReply, RepliesOnCourse, InCall, Registered
    <2>4. msgRef[c] \in Replied
      BY <1>0, <2>1, <2>3 DEF NothingInvented, Replied
    <2>5. QED
      BY <2>1, <2>2, <2>4 DEF Abstract!OutcomeNext, Abstract!Answered, Replied
  <1>4. CASE ServerReplies
    <2>1. PICK r \in asked : replies' = [replies EXCEPT ![r] = @ + 1]
      BY <1>4 DEF ServerReplies
    <2>2. r \in Refs /\ outcome[r] # "notCalled" /\ UNCHANGED outcome
      BY <1>0, <1>4 DEF ServerReplies, TypeOK, OutcomeFollows
    <2>3. \A q \in Refs : replies[q] \in Nat
                          /\ replies'[q] = IF q = r THEN replies[q] + 1 ELSE replies[q]
      <3>1. replies \in [Refs -> 0..MaxReplies]
        BY <1>0 DEF TypeOK
      <3>2. QED
        BY <2>1, <3>1, CallAssumption DEF CallAssumption
    <2>4. Replied' = Replied \cup {r}
      <3>1. Replied' = {q \in Refs : replies'[q] > 0}
        BY DEF Replied
      <3>2. \A q \in Refs : replies'[q] > 0 <=> q = r \/ replies[q] > 0
        BY <2>3
      <3>3. QED
        BY <2>2, <3>1, <3>2 DEF Replied
    <2>5. QED
      BY <2>2, <2>4 DEF Abstract!OutcomeNext, Abstract!ServerAnswers, Replied
  <1>5. ASSUME UNCHANGED <<outcome, replies>>
        PROVE  [Abstract!OutcomeNext]_<<outcome, Replied>>
    BY <1>5 DEF Replied
  <1>6. ASSUME NEW c \in Callers, NextRef(c) \/ SendOk(c) \/ Remove(c) \/ CloseChan(c)
        PROVE  UNCHANGED <<outcome, replies>>
    BY <1>6 DEF NextRef, SendOk, Remove, CloseChan
  <1>7. ASSUME NEW d \in Readers, Lookup(d) \/ Deliver(d)
        PROVE  UNCHANGED <<outcome, replies>>
    BY <1>7 DEF Lookup, Deliver
  <1>8. CASE ConnectionLost \/ UNCHANGED vars
    BY <1>5, <1>8 DEF ConnectionLost, vars
  <1>9. QED
    BY <1>1, <1>2, <1>3, <1>4, <1>5, <1>6, <1>7, <1>8 DEF Next, Caller

\* SendAndWait implements CallOutcome: a call ends once, and is answered only
\* by a reply the server gave to its own reference.
THEOREM CallsImplementOutcome == Spec => OutcomeImplemented
  <1>1. Init => Abstract!OutcomeInit
    BY DEF Init, Abstract!OutcomeInit
  <1>2. IInv /\ [Next]_vars => [Abstract!OutcomeNext]_(Abstract!outcomeVars)
    BY StepOutcome DEF Abstract!outcomeVars, Replied
  <1>3. QED
    BY <1>1, <1>2, Invariant, PTL DEF Spec, OutcomeImplemented, Abstract!OutcomeSpec

-----------------------------------------------------------------------------
(* Which replies can bring the process down.                               *)

Ended(r) == outcome[r] \in {"answered", "failed"}

\* The map hands out no channel that is closed.
EntriesAreOpen == \A r \in Refs : pendingRequests[r] \notin closed

\* A channel is open for as long as its call lasts, a call that leaves has
\* ended, and a reader that holds a channel looked it up for a call that lasts
\* or has ended since.
LateInv ==
  /\ \A c \in Callers : InCall(c) => replyChan[c] \notin closed
  /\ \A c \in Callers : pc[c] \in {"removing", "closing"} => Ended(msgRef[c])
  /\ \A d \in Readers : held[d].chan # None =>
       \/ Ended(held[d].ref)
       \/ \E c \in Callers :
            InCall(c) /\ replyChan[c] = held[d].chan /\ msgRef[c] = held[d].ref

\* What a step does to outcome: a call that has ended stays so.
LEMMA EndedStays ==
  ASSUME IInv, [Next]_vars, NEW r \in Refs, Ended(r)
  PROVE  Ended(r)'
<1>1. [Abstract!OutcomeNext]_<<outcome, Replied>>
  BY StepOutcome
<1>2. outcome \in [Refs -> Outcomes]
  BY DEF IInv, TypeOK
<1> QED
  BY <1>1, <1>2 DEF Abstract!OutcomeNext, Abstract!Make, Abstract!ServerAnswers,
     Abstract!Answered, Abstract!Failed, Ended

LEMMA InitLate == Init => LateInv
BY DEF Init, LateInv, InCall, Registered, NoReply

LEMMA CallerKeepsLate ==
  ASSUME IInv, LateInv, NEW c \in Callers, Caller(c)
  PROVE  LateInv'
<1> USE DEF chanVars, callerVars, serverVars
<1>0. TypeOK /\ OwnNames
  BY DEF IInv
<1>1. \A e \in Callers \ {c} :
         pc'[e] = pc[e] /\ msgRef'[e] = msgRef[e] /\ replyChan'[e] = replyChan[e]
  BY <1>0, CallerMoves
<1>2. \A e \in Callers : pc[e] # "idle" => msgRef[e] \in Refs
  BY NamesBounded
<1>3. \A r \in Refs : Ended(r) => Ended(r)'
  BY EndedStays DEF Next
<1>4. held' = held
  BY DEF Caller, NextRef, Register, SendOk, SendError, GetReply, GiveUp, Remove, CloseChan
<1>5. \A d \in Readers : held[d].chan # None => held[d].ref \in Refs
  <2>1. \A d \in Readers : held[d] \in [ref : 0..MaxRef, chan : 0..made]
    BY <1>0 DEF TypeOK
  <2> QED
    BY <2>1 DEF IInv, RepliesOnCourse
<1>6. CASE CloseChan(c)
  <2>1. /\ pc[c] = "closing" /\ pc'[c] = "idle" /\ closed' = closed \cup {replyChan[c]}
        /\ UNCHANGED <<msgRef, replyChan, outcome>>
    BY <1>0, <1>6 DEF CloseChan, TypeOK
  <2>2. \A e \in Callers \ {c} : InCall(e) => replyChan[e] # replyChan[c]
    BY <1>0, <2>1 DEF OwnNames, InCall
  <2>3. \A e \in Callers : InCall(e)' => InCall(e) /\ e # c
    BY <1>1, <2>1 DEF InCall, Registered
  <2>4. \A e \in Callers : InCall(e)' => replyChan'[e] \notin closed'
    BY <2>1, <2>2, <2>3 DEF LateInv
  <2>5. \A e \in Callers : pc'[e] \in {"removing", "closing"} => Ended(msgRef[e])'
    BY <1>1, <2>1 DEF LateInv, Ended
  <2>6. ASSUME NEW d \in Readers, held[d].chan # None, ~Ended(held[d].ref)
        PROVE  \E e \in Callers :
                 InCall(e)' /\ replyChan'[e] = held[d].chan /\ msgRef'[e] = held[d].ref
    <3>1. PICK e \in Callers : InCall(e) /\ replyChan[e] = held[d].chan /\ msgRef[e] = held[d].ref
      BY <2>6 DEF LateInv
    <3>2. e # c
      BY <2>1, <2>6, <3>1 DEF LateInv
    <3> QED
      BY <1>1, <2>1, <3>1, <3>2 DEF InCall, Registered
  <2> QED
    BY <1>4, <2>1, <2>4, <2>5, <2>6 DEF LateInv, Ended
<1>7. CASE ~CloseChan(c)
  <2>1. closed' = closed
    BY <1>7 DEF Caller, NextRef, Register, SendOk, SendError, GetReply, GiveUp, Remove
  <2>2. InCall(c) => InCall(c)' /\ replyChan'[c] = replyChan[c] /\ msgRef'[c] = msgRef[c]
    BY <1>0, <1>7 DEF Caller, NextRef, Register, SendOk, SendError, GetReply, GiveUp, Remove,
       Decide, InCall, Registered, TypeOK
  <2>3. InCall(c)' => InCall(c) \/ replyChan'[c] = made + 1
    BY <1>0, <1>7 DEF Caller, NextRef, Register, SendOk, SendError, GetReply, GiveUp, Remove,
       Decide, InCall, Registered, TypeOK
  <2>4. made + 1 \notin closed
    BY <1>0, NamesBounded DEF TypeOK
  <2>5. \A e \in Callers : InCall(e)' => replyChan'[e] \notin closed'
    BY <1>1, <2>1, <2>2, <2>3, <2>4 DEF LateInv, InCall, Registered
  <2>6. pc'[c] \in {"removing", "closing"} => Ended(msgRef[c])' /\ msgRef'[c] = msgRef[c]
    <3>1. CASE SendError(c) \/ GetReply(c) \/ GiveUp(c)
      <4>1. PICK result \in {"answered", "failed"} : Decide(c, result)
        BY <3>1 DEF SendError, GetReply, GiveUp
      <4>2. msgRef[c] \in Refs /\ msgRef' = msgRef
        BY <1>2, <3>1 DEF SendError, GetReply, GiveUp
      <4> QED
        BY <1>0, <4>1, <4>2 DEF Decide, Ended, TypeOK
    <3>2. CASE Remove(c)
      BY <1>0, <3>2 DEF Remove, LateInv, Ended, TypeOK
    <3>3. CASE NextRef(c) \/ Register(c) \/ SendOk(c)
      BY <1>0, <3>3 DEF NextRef, Register, SendOk, TypeOK
    <3> QED
      BY <1>7, <3>1, <3>2, <3>3 DEF Caller
  <2>7. \A e \in Callers : pc'[e] \in {"removing", "closing"} => Ended(msgRef[e])'
    <3> SUFFICES ASSUME NEW e \in Callers, pc'[e] \in {"removing", "closing"}
                 PROVE  outcome'[msgRef'[e]] \in {"answered", "failed"}
      BY DEF Ended
    <3>1. CASE e = c
      BY <2>6, <3>1 DEF Ended
    <3>2. CASE e # c
      BY <1>1, <1>2, <1>3, <3>2 DEF LateInv, Ended
    <3> QED
      BY <3>1, <3>2
  <2>8. ASSUME NEW d \in Readers, held[d].chan # None
        PROVE  \/ Ended(held[d].ref)'
               \/ \E e \in Callers :
                    InCall(e)' /\ replyChan'[e] = held[d].chan /\ msgRef'[e] = held[d].ref
    <3>1. CASE Ended(held[d].ref)
      BY <1>3, <1>4, <1>5, <2>8, <3>1 DEF Ended
    <3>2. CASE ~Ended(held[d].ref)
      <4>1. PICK e \in Callers :
              InCall(e) /\ replyChan[e] = held[d].chan /\ msgRef[e] = held[d].ref
        BY <2>8, <3>2 DEF LateInv
      <4> QED
        BY <1>1, <2>2, <4>1 DEF InCall, Registered
    <3> QED
      BY <3>1, <3>2
  <2> QED
    BY <1>4, <2>5, <2>7, <2>8 DEF LateInv, Ended
<1> QED
  BY <1>6, <1>7

LEMMA StepLate == IInv /\ LateInv /\ [Next]_vars => LateInv'
<1> SUFFICES ASSUME IInv, LateInv, [Next]_vars PROVE LateInv'
  OBVIOUS
<1> USE DEF chanVars, callerVars, serverVars
<1>1. CASE \E c \in Callers : Caller(c)
  BY <1>1, CallerKeepsLate
<1>2. ASSUME UNCHANGED <<callerVars, closed>>,
             \A d \in Readers :
               \/ held'[d] = held[d]
               \/ held'[d].chan = None
               \/ \E c \in Callers : InCall(c) /\ replyChan[c] = held'[d].chan
                                               /\ msgRef[c] = held'[d].ref
      PROVE  LateInv'
  BY <1>2 DEF LateInv, InCall, Registered, Ended
<1>3. ASSUME NEW d \in Readers, Lookup(d) PROVE LateInv'
  <2>1. PICK r \in Refs :
          \/ held' = held
          \/ /\ pendingRequests[r] # None
             /\ held' = [held EXCEPT ![d] = [ref |-> r, chan |-> pendingRequests[r]]]
    BY <1>3, LookupStep DEF IInv
  <2>2. ASSUME pendingRequests[r] # None
        PROVE  \E c \in Callers : InCall(c) /\ replyChan[c] = pendingRequests[r] /\ msgRef[c] = r
    BY <2>2 DEF IInv, NoForgottenEntry, WaiterIsRegistered, InCall, Registered
  <2>3. UNCHANGED <<callerVars, closed>>
    BY <1>3 DEF Lookup
  <2>4. held \in [Readers -> [ref : 0..MaxRef, chan : 0..made]]
    BY DEF IInv, TypeOK
  <2> QED
    BY <1>2, <2>1, <2>2, <2>3, <2>4
<1>4. ASSUME NEW d \in Readers, Deliver(d) PROVE LateInv'
  BY <1>2, <1>4 DEF Deliver, NoReply, IInv, TypeOK
<1>5. CASE ServerReplies \/ ConnectionLost \/ UNCHANGED vars
  BY <1>2, <1>5 DEF ServerReplies, ConnectionLost, vars
<1> QED
  BY <1>1, <1>3, <1>4, <1>5 DEF Next

\* For any number of callers and readers, a reader never finds a channel in the
\* map that is closed: a send can meet a closed one only where the call was
\* removed and its channel closed after the lookup.
THEOREM LookupsFindOpenChannels == Spec => []EntriesAreOpen
<1>1. ASSUME IInv, LateInv, NEW r \in Refs PROVE pendingRequests[r] \notin closed
  <2>1. None \notin closed
    BY <1>1, NamesBounded DEF IInv, TypeOK
  <2>2. ASSUME pendingRequests[r] # None
        PROVE  \E c \in Callers : InCall(c) /\ replyChan[c] = pendingRequests[r]
    BY <1>1, <2>2 DEF IInv, NoForgottenEntry, WaiterIsRegistered, InCall, Registered
  <2> QED
    BY <1>1, <2>1, <2>2 DEF LateInv
<1>2. IInv /\ LateInv => EntriesAreOpen
  BY <1>1 DEF EntriesAreOpen
<1> QED
  BY <1>2, InitLate, StepLate, Invariant, PTL DEF Spec

\* client.go:397: the process dies in no send but that of a reply to a call
\* that has ended: a second reply, or one that came after the timeout.
THEOREM OnlyLateRepliesPanic ==
  Spec => [][panicked' # panicked => \E d \in Readers : Deliver(d) /\ Ended(held[d].ref)]_vars
<1>1. IInv /\ LateInv /\ [Next]_vars =>
        [panicked' # panicked => \E d \in Readers : Deliver(d) /\ Ended(held[d].ref)]_vars
  <2> SUFFICES ASSUME IInv, LateInv, Next, panicked' # panicked
               PROVE  \E d \in Readers : Deliver(d) /\ Ended(held[d].ref)
    OBVIOUS
  <2>1. PICK d \in Readers : Deliver(d)
    BY DEF Next, Caller, NextRef, Register, SendOk, SendError, GetReply, GiveUp, Remove,
       CloseChan, Lookup, ServerReplies, ConnectionLost
  <2>2. held[d].chan \in closed
    BY <2>1 DEF Deliver
  <2>3. held[d].chan # None
    BY <2>2, NamesBounded DEF IInv, TypeOK
  <2> QED
    BY <2>1, <2>2, <2>3 DEF LateInv
<1> QED
  BY <1>1, InitLate, StepLate, Invariant, PTL DEF Spec

\* Where the only reply to a reference is: on the wire, with one reader, in one
\* channel, or with the caller.
OnlyReply ==
  \A r \in Refs :
    /\ wire[r] > 0 => /\ \A d \in Readers : held[d].ref # r
                      /\ \A ch \in Refs : buffer[ch] # r
                      /\ outcome[r] # "answered"
    /\ \A d \in Readers : held[d].ref = r =>
         /\ \A e \in Readers : held[e].ref = r => e = d
         /\ \A ch \in Refs : buffer[ch] # r
         /\ outcome[r] # "answered"
    /\ \A ch \in Refs : buffer[ch] = r =>
         /\ \A other \in Refs : buffer[other] = r => other = ch
         /\ outcome[r] # "answered"
    /\ outcome[r] = "answered" => replies[r] > 0

LEMMA InitOnlyReply == Init => OnlyReply
BY DEF Init, OnlyReply, NoReply

LEMMA StepOnlyReply ==
  ASSUME MaxReplies <= 1, IInv, OnlyReply, [Next]_vars
  PROVE  OnlyReply'
<1> USE DEF chanVars, callerVars, serverVars
<1>0. /\ buffer \in [Refs -> 0..MaxRef] /\ outcome \in [Refs -> Outcomes]
      /\ replies \in [Refs -> 0..MaxReplies] /\ wire \in [Refs -> 0..MaxReplies]
      /\ held \in [Readers -> [ref : 0..MaxRef, chan : 0..made]]
  BY DEF IInv, TypeOK
<1>1. ASSUME UNCHANGED <<wire, held, buffer, replies>>,
             \A r \in Refs : outcome'[r] = "answered" => outcome[r] = "answered"
      PROVE  OnlyReply'
  BY <1>1 DEF OnlyReply
<1>2. ASSUME NEW c \in Callers,
             NextRef(c) \/ SendOk(c) \/ Remove(c) \/ CloseChan(c)
             \/ Register(c) \/ SendError(c) \/ GiveUp(c)
      PROVE  OnlyReply'
  <2>1. UNCHANGED <<wire, held, buffer, replies>>
    BY <1>2 DEF NextRef, SendOk, Remove, CloseChan, Register, SendError, GiveUp
  <2>2. \/ outcome' = outcome
        \/ \E s \in {"pending", "failed"} : outcome' = [outcome EXCEPT ![msgRef[c]] = s]
    BY <1>2 DEF NextRef, SendOk, Remove, CloseChan, Register, SendError, GiveUp, Decide
  <2>3. \A r \in Refs : outcome'[r] = "answered" => outcome[r] = "answered"
    BY <1>0, <2>2
  <2> QED
    BY <1>1, <2>1, <2>3
<1>3. ASSUME NEW c \in Callers, GetReply(c) PROVE OnlyReply'
  <2> DEFINE ch == replyChan[c]
             r == msgRef[c]
  <2>1. r \in Refs /\ ch \in Refs /\ buffer[ch] = r
    BY <1>3, NamesBounded DEF GetReply, IInv, RepliesOnCourse, InCall, Registered
  <2>2. /\ UNCHANGED <<wire, held, replies>>
        /\ buffer' = [buffer EXCEPT ![ch] = None]
        /\ outcome' = [outcome EXCEPT ![r] = "answered"]
    BY <1>3 DEF GetReply, Decide
  <2>3. replies[r] > 0
    BY <2>1 DEF IInv, NothingInvented
  <2> HIDE DEF ch, r
  <2>4. /\ \A q \in Refs : outcome'[q] = IF q = r THEN "answered" ELSE outcome[q]
        /\ \A q \in Refs : buffer'[q] = IF q = ch THEN None ELSE buffer[q]
    BY <1>0, <2>1, <2>2
  <2>5. \A q \in Refs : buffer[q] = r => q = ch
    BY <2>1 DEF OnlyReply
  <2>6. ~(wire[r] > 0)
    BY <2>1 DEF OnlyReply
  <2>7. ASSUME NEW d \in Readers, held[d].ref = r PROVE FALSE
    <3>1. \A q \in Refs : buffer[q] # r
      BY <2>1, <2>7 DEF OnlyReply
    <3> QED
      BY <2>1, <3>1
  <2>8. \A q \in Refs : buffer'[q] # None => buffer'[q] = buffer[q] /\ q # ch
    BY <2>4
  <2>9. \A q \in Refs : buffer'[q] # r
    BY <2>1, <2>5, <2>8
  <2>10. UNCHANGED <<wire, held, replies>>
    BY <2>2
  <2>11. \A q \in Refs \ {r} : outcome'[q] = outcome[q]
    BY <2>4
  <2> SUFFICES ASSUME NEW q \in Refs
               PROVE  /\ wire'[q] > 0 => /\ \A d \in Readers : held'[d].ref # q
                                         /\ \A at \in Refs : buffer'[at] # q
                                         /\ outcome'[q] # "answered"
                      /\ \A d \in Readers : held'[d].ref = q =>
                           /\ \A e \in Readers : held'[e].ref = q => e = d
                           /\ \A at \in Refs : buffer'[at] # q
                           /\ outcome'[q] # "answered"
                      /\ \A at \in Refs : buffer'[at] = q =>
                           /\ \A other \in Refs : buffer'[other] = q => other = at
                           /\ outcome'[q] # "answered"
                      /\ outcome'[q] = "answered" => replies'[q] > 0
    BY DEF OnlyReply
  <2>12. CASE q = r
    BY <2>3, <2>6, <2>7, <2>9, <2>10, <2>12
  <2>13. CASE q # r
    <3>1. outcome'[q] = outcome[q] /\ q # None
      BY <2>11, <2>13
    <3>2. \A at \in Refs : buffer'[at] = q => buffer[at] = q
      BY <2>8, <3>1
    <3> QED
      BY <2>10, <3>1, <3>2 DEF OnlyReply
  <2> QED
    BY <2>12, <2>13
<1>4. ASSUME NEW d \in Readers, Lookup(d) PROVE OnlyReply'
  <2>1. PICK r \in Refs :
          /\ wire[r] > 0
          /\ wire' = [wire EXCEPT ![r] = wire[r] - 1]
          /\ \/ held' = held
             \/ held' = [held EXCEPT ![d] = [ref |-> r, chan |-> pendingRequests[r]]]
    BY <1>4, LookupStep DEF IInv
  <2>2. UNCHANGED <<buffer, outcome, replies>> /\ held[d].ref = None
    BY <1>4 DEF Lookup, NoReply
  <2>3. \A q \in Refs : wire'[q] = (IF q = r THEN 0 ELSE wire[q])
    <3>1. wire[r] = 1
      BY <1>0, <2>1
    <3> QED
      BY <1>0, <2>1, <3>1
  <2>4. \A e \in Readers :
          held'[e].ref = held[e].ref \/ (e = d /\ held'[e].ref = r)
    BY <1>0, <2>1
  <2>5. /\ \A e \in Readers : held[e].ref # r
        /\ \A ch \in Refs : buffer[ch] # r
        /\ outcome[r] # "answered"
    BY <2>1 DEF OnlyReply
  <2> QED
    BY <2>2, <2>3, <2>4, <2>5 DEF OnlyReply
<1>5. ASSUME NEW d \in Readers, Deliver(d) PROVE OnlyReply'
  <2> DEFINE ch == held[d].chan
             r == held[d].ref
  <2>1. /\ UNCHANGED <<wire, replies, outcome>>
        /\ held' = [held EXCEPT ![d] = NoReply]
        /\ buffer' \in {buffer, [buffer EXCEPT ![ch] = IF @ = None THEN r ELSE @]}
        /\ held[d] # NoReply
    BY <1>5 DEF Deliver
  <2>2. r \in Refs /\ r # None
    <3>1. held[d] \in [ref : 0..MaxRef, chan : 0..made]
      BY <1>0
    <3>2. held[d].chan = None <=> held[d].ref = None
      BY DEF IInv, RepliesOnCourse
    <3> QED
      BY <2>1, <3>1, <3>2 DEF NoReply
  <2>3. /\ \A e \in Readers : held[e].ref = r => e = d
        /\ \A q \in Refs : buffer[q] # r
        /\ outcome[r] # "answered" /\ ~(wire[r] > 0)
    BY <2>2 DEF OnlyReply
  <2>4. \A e \in Readers : held'[e].ref = IF e = d THEN None ELSE held[e].ref
    BY <1>0, <2>1 DEF NoReply
  <2>5. \A q \in Refs : buffer'[q] = buffer[q] \/ (q = ch /\ buffer'[q] = r)
    BY <1>0, <2>1
  <2> HIDE DEF ch, r
  <2> QED
    BY <2>1, <2>2, <2>3, <2>4, <2>5 DEF OnlyReply
<1>6. CASE ServerReplies
  <2>1. PICK r \in asked : /\ replies[r] < MaxReplies
                           /\ replies' = [replies EXCEPT ![r] = @ + 1]
                           /\ wire' = [wire EXCEPT ![r] = @ + 1]
    BY <1>6 DEF ServerReplies
  <2>2. r \in Refs
    BY DEF IInv, OutcomeFollows, TypeOK
  <2>3. UNCHANGED <<held, buffer, outcome>>
    BY <1>6 DEF ServerReplies
  <2>4. replies[r] = 0
    BY <1>0, <2>1, <2>2
  <2>5. /\ \A d \in Readers : held[d].ref # r
        /\ \A ch \in Refs : buffer[ch] # r
        /\ outcome[r] # "answered"
    BY <2>2, <2>4 DEF IInv, NothingInvented, OnlyReply
  <2>6. \A q \in Refs : /\ q # r => wire'[q] = wire[q] /\ replies'[q] = replies[q]
                        /\ q = r => replies'[q] > 0
    BY <1>0, <2>1, <2>2, <2>4
  <2> QED
    BY <2>3, <2>5, <2>6 DEF OnlyReply
<1>7. CASE ConnectionLost
  <2>1. UNCHANGED <<held, buffer, outcome, replies>> /\ \A r \in Refs : ~(wire'[r] > 0)
    BY <1>7 DEF ConnectionLost
  <2> QED
    BY <2>1 DEF OnlyReply
<1>8. CASE UNCHANGED vars
  BY <1>1, <1>8 DEF vars
<1> QED
  BY <1>2, <1>3, <1>4, <1>5, <1>6, <1>7, <1>8 DEF Next, Caller

\* client.go:397: if Plugboard replies to a reference once at most, the process
\* dies only in the send of a reply that its call has not waited for.  A call
\* that got its answer cannot bring it down.
THEOREM OneReplyIsSafeOnceTaken ==
  ASSUME MaxReplies <= 1
  PROVE  Spec =>
           [][panicked' # panicked =>
                \E d \in Readers : Deliver(d) /\ outcome[held[d].ref] = "failed"]_vars
<1>1. IInv /\ OnlyReply /\ [Next]_vars => OnlyReply'
  BY StepOnlyReply
<1>2. IInv /\ OnlyReply /\
      [panicked' # panicked => \E d \in Readers : Deliver(d) /\ Ended(held[d].ref)]_vars =>
        [panicked' # panicked =>
           \E d \in Readers : Deliver(d) /\ outcome[held[d].ref] = "failed"]_vars
  <2> SUFFICES ASSUME IInv, OnlyReply, NEW d \in Readers, Deliver(d), Ended(held[d].ref)
               PROVE  outcome[held[d].ref] = "failed"
    BY DEF vars
  <2>1. held[d] \in [ref : 0..MaxRef, chan : 0..made] /\ held[d] # NoReply
    BY DEF IInv, TypeOK, Deliver
  <2>2. held[d].chan = None <=> held[d].ref = None
    BY DEF IInv, RepliesOnCourse
  <2>3. held[d].ref \in Refs
    BY <2>1, <2>2 DEF NoReply
  <2> QED
    BY <2>3 DEF OnlyReply, Ended
<1> QED
  BY <1>1, <1>2, InitOnlyReply, Invariant, OnlyLateRepliesPanic, PTL DEF Spec

=============================================================================
