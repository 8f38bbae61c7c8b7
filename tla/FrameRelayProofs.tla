-------------------------- MODULE FrameRelayProofs ---------------------------
(***************************************************************************)
(* Theorems about FrameRelay, for any number of frames in both directions: *)
(* one writer at a time, no frame lost without an answer or written twice, *)
(* and a first-in first-out link from the backend to Plugboard.            *)
(***************************************************************************)
EXTENDS FrameRelay, FiniteSetTheorems, TLAPS

\* TypeOK in two parts: the goroutines with their lock, and the rest.
GoroutinesTyped ==
  /\ frame \in [Frames -> FrameStates] /\ agent \in [Agents -> AgentStates]
  /\ \A f \in Frames : writeMu = f <=> frame[f] = "writing"
  /\ \A a \in Agents : writeMu = a <=> agent[a] = "writing"

TrafficTyped ==
  /\ entry \in BOOLEAN /\ sock \in {"open", "dead", "closed"} /\ stalled \in BOOLEAN
  /\ closed \in BOOLEAN /\ cancelled \in BOOLEAN
  /\ handed \in Seq(Frames \cup {CloseFrame})
  /\ errors \subseteq Frames /\ dropped \subseteq Frames
  /\ stop \in {"running", "collecting", "closing", "stopped"}
  /\ loop \in {"top", "reading", "reporting", "leaving", "done"}
  /\ taken \in 0..MaxBackend
  /\ uplink \in Seq(1..End)

\* A frame that is not done has been neither written nor reported.
PendingFrames ==
  \A f \in Frames : frame[f] # "done" => Count(f) = 0 /\ f \notin errors \cup dropped

\* What Plugboard got so far was read before.
UplinkIsPast ==
  loop \in {"top", "reading", "reporting"} => \A i \in DOMAIN uplink : uplink[i] <= taken

IInv ==
  /\ GoroutinesTyped /\ TrafficTyped
  /\ PendingFrames /\ FramesAreSettled
  /\ UplinkIsPast

-----------------------------------------------------------------------------
LEMMA TypesHaveParts == TypeOK <=> GoroutinesTyped /\ TrafficTyped
BY RelayAssumption DEF RelayAssumption, TypeOK, GoroutinesTyped, TrafficTyped, Writers

\* Nothing has been written of a sequence without elements.
LEMMA NothingHanded == ASSUME handed = <<>>, NEW f PROVE Count(f) = 0
<1>1. {i \in DOMAIN handed : handed[i] = f} = {}
  OBVIOUS
<1> QED
  BY <1>1, FS_EmptySet DEF Count

\* A write adds one to the count of what it writes.
LEMMA WriteIsCounted ==
  ASSUME handed \in Seq(Frames \cup {CloseFrame}), NEW x, NEW f,
         handed' = Append(handed, x)
  PROVE  /\ Count(f) \in Nat
         /\ Count(f)' = IF x = f THEN Count(f) + 1 ELSE Count(f)
<1> DEFINE written == {i \in DOMAIN handed : handed[i] = f}
           next == Len(handed) + 1
<1>1. IsFiniteSet(written) /\ next \notin written
  <2>1. written \subseteq 1..Len(handed) /\ Len(handed) \in Nat
    OBVIOUS
  <2>2. IsFiniteSet(1..Len(handed))
    BY <2>1, FS_Interval
  <2>3. next \notin written
    BY <2>1
  <2> HIDE DEF written
  <2> QED
    BY <2>1, <2>2, <2>3, FS_Subset
<1>2. {i \in DOMAIN handed' : handed'[i] = f} =
        IF x = f THEN written \cup {next} ELSE written
  OBVIOUS
<1> QED
  BY <1>1, <1>2, FS_AddElement, FS_CardinalityType DEF Count

-----------------------------------------------------------------------------
LEMMA CountStays == ASSUME UNCHANGED handed, NEW f PROVE Count(f)' = Count(f)
BY DEF Count

-----------------------------------------------------------------------------
LEMMA InitIInv == Init => IInv
<1> SUFFICES ASSUME Init PROVE IInv
  OBVIOUS
<1> USE RelayAssumption DEF Init, RelayAssumption
<1>1. GoroutinesTyped
  BY DEF GoroutinesTyped, FrameStates, AgentStates, Writers, Agents
<1>2. TrafficTyped
  <2>1. handed \in Seq(Frames \cup {CloseFrame}) /\ uplink \in Seq(1..End)
    OBVIOUS
  <2>2. taken \in 0..MaxBackend
    OBVIOUS
  <2> QED
    BY <2>1, <2>2 DEF TrafficTyped
<1>3. PendingFrames /\ FramesAreSettled
  BY NothingHanded DEF PendingFrames, FramesAreSettled
<1>4. UplinkIsPast
  BY DEF UplinkIsPast
<1> QED
  BY <1>1, <1>2, <1>3, <1>4 DEF IInv

\* A ws_frame, until it is written or refused.
LEMMA FrameKeepsIInv ==
  ASSUME IInv, NEW f \in Frames,
         \/ FrameArrives(f) \/ FrameDropped(f) \/ FrameDecoded(f)
         \/ FrameLooksUp(f) \/ FrameLocks(f) \/ FrameError(f)
  PROVE  IInv'
<1> USE RelayAssumption
    DEF RelayAssumption, IInv, FrameArrives, FrameDropped, FrameDecoded, FrameLooksUp,
        FrameLocks, FrameError, FrameAt, sockVars, closeVars, loopVars, frameVars
<1>1. /\ UNCHANGED <<sockVars, stalled, closeVars, loopVars, uplink>>
      /\ frame' = [frame EXCEPT ![f] = frame'[f]]
      /\ frame[f] \notin {"writing", "done"} /\ frame'[f] \in FrameStates
  BY DEF GoroutinesTyped, FrameStates
<1>2. GoroutinesTyped'
  <2>1. CASE FrameLocks(f)
    BY <1>1, <2>1 DEF GoroutinesTyped, Lock, Writers
  <2>2. CASE ~FrameLocks(f)
    BY <1>1, <2>2 DEF GoroutinesTyped
  <2> QED
    BY <2>1, <2>2
<1>3. /\ errors' \in {errors, errors \cup {f}} /\ dropped' \in {dropped, dropped \cup {f}}
      /\ UNCHANGED errors \/ UNCHANGED dropped
      /\ IF frame'[f] = "done" THEN f \in errors' \cup dropped'
                               ELSE UNCHANGED <<errors, dropped>>
  BY DEF GoroutinesTyped
<1>4. TrafficTyped'
  BY <1>1, <1>3 DEF TrafficTyped
<1>5. \A g \in Frames : Count(g)' = Count(g)
  BY <1>1, CountStays
<1>6. \A g \in Frames : g # f => frame'[g] = frame[g]
  BY <1>1 DEF GoroutinesTyped
<1>7. PendingFrames'
  BY <1>3, <1>5, <1>6 DEF PendingFrames
<1>8. FramesAreSettled'
  BY <1>1, <1>3, <1>5, <1>6 DEF PendingFrames, FramesAreSettled
<1>9. UplinkIsPast'
  BY <1>1 DEF UplinkIsPast
<1> QED
  BY <1>2, <1>4, <1>7, <1>8, <1>9

\* A write of a frame, or of the close frame after which there is none.
LEMMA WritingKeepsIInv ==
  ASSUME IInv, Writing
  PROVE  IInv'
<1> USE RelayAssumption
    DEF RelayAssumption, IInv, sockVars, closeVars, loopVars, frameVars
<1>1. UNCHANGED <<entry, sock, closed, cancelled, stalled, errors, dropped, stop, loopVars, uplink>>
  BY DEF Writing, FrameWritten, FrameRefused, CloseWritten
<1>2. UplinkIsPast'
  BY <1>1 DEF UplinkIsPast
<1>3. ASSUME NEW x \in Frames \cup {CloseFrame}, CanTake, handed' = Append(handed, x)
      PROVE  /\ handed' \in Seq(Frames \cup {CloseFrame})
             /\ \A i \in DOMAIN handed' : handed'[i] = CloseFrame => i = Len(handed')
             /\ \A g : Count(g) \in Nat /\ Count(g)' = IF x = g THEN Count(g) + 1 ELSE Count(g)
  <2>1. handed \in Seq(Frames \cup {CloseFrame}) /\ \A i \in DOMAIN handed : handed[i] # CloseFrame
    BY <1>3 DEF TrafficTyped, CanTake, CloseSent
  <2> QED
    BY <1>3, <2>1, WriteIsCounted
<1>4. ASSUME NEW f \in Frames, FrameWritten(f)
      PROVE  IInv'
  <2>1. /\ frame[f] = "writing" /\ frame' = [frame EXCEPT ![f] = "done"] /\ UNCHANGED agent
        /\ CanTake /\ handed' = Append(handed, f) /\ writeMu' = Free
    BY <1>4 DEF FrameWritten, FrameAt
  <2>2. GoroutinesTyped'
    BY <2>1 DEF GoroutinesTyped, Writers, FrameStates
  <2>3. TrafficTyped'
    BY <1>1, <1>3, <2>1 DEF TrafficTyped
  <2>4. Count(f)' = 1 /\ \A g \in Frames : g # f => Count(g)' = Count(g) /\ frame'[g] = frame[g]
    BY <1>3, <2>1 DEF PendingFrames, GoroutinesTyped
  <2>5. frame'[f] = "done" /\ f \notin errors' \cup dropped'
    BY <1>1, <2>1 DEF GoroutinesTyped, PendingFrames
  <2>6. PendingFrames'
    BY <1>1, <2>4, <2>5 DEF PendingFrames
  <2>7. FramesAreSettled'
    BY <1>1, <1>3, <2>1, <2>4, <2>5 DEF FramesAreSettled
  <2> QED
    BY <1>2, <2>2, <2>3, <2>6, <2>7
<1>5. ASSUME NEW f \in Frames, FrameRefused(f)
      PROVE  IInv'
  <2>1. /\ frame[f] = "writing" /\ frame' = [frame EXCEPT ![f] = "failing"]
        /\ UNCHANGED <<agent, handed>> /\ writeMu' = Free
    BY <1>5 DEF FrameRefused, FrameAt
  <2>2. GoroutinesTyped'
    BY <2>1 DEF GoroutinesTyped, Writers, FrameStates
  <2>3. TrafficTyped'
    BY <1>1, <2>1 DEF TrafficTyped
  <2>4. \A g \in Frames : Count(g)' = Count(g) /\ (frame'[g] = "done" <=> frame[g] = "done")
    BY <2>1, CountStays DEF GoroutinesTyped
  <2>5. PendingFrames' /\ FramesAreSettled'
    BY <1>1, <2>1, <2>4 DEF PendingFrames, FramesAreSettled
  <2> QED
    BY <1>2, <2>2, <2>3, <2>5
<1>6. ASSUME NEW a \in Agents, CloseWritten(a)
      PROVE  IInv'
  <2>1. /\ agent[a] = "writing" /\ agent' = [agent EXCEPT ![a] = "shutting"] /\ UNCHANGED frame
        /\ writeMu' = Free
        /\ UNCHANGED handed \/ (CanTake /\ handed' = Append(handed, CloseFrame))
    BY <1>6 DEF CloseWritten, AgentAt
  <2>2. GoroutinesTyped'
    BY <2>1 DEF GoroutinesTyped, Writers, AgentStates
  <2>3. /\ handed' \in Seq(Frames \cup {CloseFrame})
        /\ \A i \in DOMAIN handed' : handed'[i] = CloseFrame => i = Len(handed')
        /\ \A g \in Frames : Count(g)' = Count(g)
    BY <1>3, <2>1, CountStays DEF TrafficTyped, FramesAreSettled
  <2>4. TrafficTyped'
    BY <1>1, <2>3 DEF TrafficTyped
  <2>5. PendingFrames' /\ FramesAreSettled'
    BY <1>1, <2>1, <2>3 DEF PendingFrames, FramesAreSettled
  <2> QED
    BY <1>2, <2>2, <2>4, <2>5
<1> QED
  BY <1>4, <1>5, <1>6 DEF Writing

\* What leaves the frames and what was written alone.
LEMMA FramesUntouched ==
  ASSUME IInv, UNCHANGED <<handed, frame, errors, dropped>>
  PROVE  PendingFrames' /\ FramesAreSettled'
<1>1. \A g \in Frames : Count(g)' = Count(g)
  BY CountStays
<1> QED
  BY <1>1 DEF IInv, PendingFrames, FramesAreSettled

LEMMA ClosingKeepsIInv ==
  ASSUME IInv, CloseArrives \/ StopBegins \/ Closing \/ Stopping
  PROVE  IInv'
<1> USE RelayAssumption
    DEF RelayAssumption, IInv, CloseArrives, StopBegins, Closing, Stopping, Mark, Cancel, AgentLocks, Shut,
        Collect, CloseAllReturns, AgentAt, StopAt, sockVars, closeVars, loopVars, frameVars
<1>1. UNCHANGED <<stalled, handed, frameVars, loopVars, uplink>>
  OBVIOUS
<1>2. PendingFrames' /\ FramesAreSettled' /\ UplinkIsPast'
  BY <1>1, FramesUntouched DEF UplinkIsPast
<1>3. TrafficTyped'
  <2>1. /\ entry' \in {entry, FALSE} /\ sock' \in {sock, "closed"} /\ closed' \in {closed, TRUE}
        /\ cancelled' \in {cancelled, TRUE}
        /\ stop' \in {stop, "collecting", "closing", "stopped"}
    OBVIOUS
  <2>2. entry' \in BOOLEAN /\ closed' \in BOOLEAN /\ cancelled' \in BOOLEAN
    BY <2>1, Zenon DEF TrafficTyped
  <2> QED
    BY <1>1, <2>1, <2>2 DEF TrafficTyped
<1>4. GoroutinesTyped'
  <2>1. ASSUME NEW a \in Agents, AgentLocks(a)
        PROVE  GoroutinesTyped'
    BY <2>1 DEF GoroutinesTyped, Lock, Writers, AgentStates
  <2>2. ASSUME NEW a \in Agents, Mark(a) \/ Cancel(a) \/ Shut(a)
        PROVE  GoroutinesTyped'
    BY <2>2 DEF GoroutinesTyped, AgentStates
  <2>3. CASE CloseArrives \/ StopBegins \/ Collect \/ CloseAllReturns
    BY <2>3 DEF GoroutinesTyped, AgentStates, Agents
  <2> QED
    BY <2>1, <2>2, <2>3
<1> QED
  BY <1>2, <1>3, <1>4

LEMMA ReceivingKeepsIInv ==
  ASSUME IInv, LoopReads \/ LoopFails \/ Receiving
  PROVE  IInv'
<1> USE RelayAssumption
    DEF RelayAssumption, IInv, LoopReads, Receiving, LoopTop, LoopFails, LoopReports, LoopLeaves,
        LoopAt, Send, sockVars, closeVars, loopVars, frameVars
<1>1. UNCHANGED <<closed, cancelled, handed, stalled, writeMu, frameVars, closeVars>>
      /\ sock' \in {sock, "dead"}
      /\ entry' \in {entry, FALSE} /\ loop' \in {"top", "reading", "reporting", "leaving", "done"}
  OBVIOUS
<1>2. PendingFrames' /\ FramesAreSettled' /\ GoroutinesTyped'
  BY <1>1, FramesUntouched DEF GoroutinesTyped
<1>3. taken \in Nat /\ MaxBackend \in Nat /\ uplink \in Seq(1..End) /\ End = MaxBackend + 1
  BY DEF TrafficTyped, End
<1>4. taken' \in 0..MaxBackend /\ uplink' \in Seq(1..End)
  <2>1. CASE LoopReads
    <3>1. taken < MaxBackend /\ taken' = taken + 1 /\ taken \in 0..MaxBackend
      BY <2>1 DEF TrafficTyped
    <3>2. taken' \in 0..MaxBackend /\ taken' \in 1..End
      BY <1>3, <3>1
    <3>3. uplink' = uplink \/ uplink' = Append(uplink, taken')
      BY <2>1
    <3>4. uplink' \in Seq(1..End)
      BY <1>3, <3>2, <3>3
    <3> QED
      BY <3>2, <3>4
  <2>2. CASE LoopFails \/ Receiving
    <3>1. taken' = taken /\ uplink' \in {uplink, Append(uplink, End)}
      BY <2>2
    <3>2. End \in 1..End /\ taken \in 0..MaxBackend
      BY <1>3 DEF TrafficTyped
    <3> QED
      BY <1>3, <3>1, <3>2
  <2> QED
    BY <2>1, <2>2
<1>5. TrafficTyped'
  BY <1>1, <1>4 DEF TrafficTyped
<1>6. UplinkIsPast'
  <2>1. CASE LoopReads
    <3>1. taken' = taken + 1 /\ uplink' \in {uplink, Append(uplink, taken')} /\ loop = "reading"
      BY <2>1
    <3>2. \A i \in DOMAIN uplink : uplink[i] <= taken /\ uplink[i] \in Nat
      BY <1>3, <3>1 DEF UplinkIsPast
    <3>3. \A i \in DOMAIN uplink' : uplink'[i] <= taken'
      <4>1. CASE uplink' = uplink
        BY <1>3, <3>1, <3>2, <4>1
      <4>2. CASE uplink' = Append(uplink, taken')
        BY <1>3, <3>1, <3>2, <4>2
      <4> QED
        BY <3>1, <4>1, <4>2
    <3> QED
      BY <3>3 DEF UplinkIsPast
  <2>2. CASE LoopFails \/ Receiving
    BY <2>2 DEF UplinkIsPast
  <2> QED
    BY <2>1, <2>2
<1> QED
  BY <1>2, <1>5, <1>6

LEMMA EnvironmentKeepsIInv ==
  ASSUME IInv, Environment \/ UNCHANGED vars
  PROVE  IInv'
<1>1. UNCHANGED <<entry, closed, cancelled, handed, writeMu, frameVars, closeVars, loopVars, uplink>>
      /\ sock' \in {sock, "dead"} /\ stalled' \in {stalled, TRUE, FALSE}
  BY DEF Environment, BackendStalls, BackendDrains, BackendEnds, vars, sockVars, frameVars,
     closeVars, loopVars
<1>2. PendingFrames' /\ FramesAreSettled'
  BY <1>1, FramesUntouched DEF frameVars
<1> QED
  BY <1>1, <1>2 DEF IInv, GoroutinesTyped, TrafficTyped, UplinkIsPast, frameVars, closeVars,
     loopVars

-----------------------------------------------------------------------------
THEOREM Invariance == Spec => []IInv
<1>1. IInv /\ [Next]_vars => IInv'
  <2> SUFFICES ASSUME IInv, [Next]_vars PROVE IInv'
    OBVIOUS
  <2>1. CASE \E f \in Frames : FrameArrives(f)
    BY <2>1, FrameKeepsIInv
  <2>2. CASE Relaying
    BY <2>2, FrameKeepsIInv DEF Relaying
  <2> QED
    BY <2>1, <2>2, WritingKeepsIInv, ClosingKeepsIInv, ReceivingKeepsIInv,
       EnvironmentKeepsIInv DEF Next, Terminated
<1> QED
  BY <1>1, InitIInv, PTL DEF Spec

\* For any number of frames, the variables have their types, and two
\* goroutines never write on the connection at once.
THEOREM TypeCorrect == Spec => []TypeOK
BY Invariance, TypesHaveParts, PTL DEF IInv

\* For any number of frames: a ws_frame that was handled has been written once
\* and before the close frame, or reported, or dropped as intended.
THEOREM FramesSettle == Spec => []FramesAreSettled
BY Invariance, PTL DEF IInv

\* Every step of the relay is one of LossyFifo, or changes nothing there.
LEMMA StepFifo ==
  IInv /\ [Next]_vars => [Fifo!Next]_<<taken, uplink, loop \in {"leaving", "done"}>>
<1> SUFFICES ASSUME IInv, [Next]_vars
             PROVE  [Fifo!Next]_<<taken, uplink, loop \in {"leaving", "done"}>>
  OBVIOUS
<1>1. CASE LoopReads
  <2>1. /\ loop = "reading" /\ loop' = "top" /\ taken' = taken + 1
        /\ uplink' \in {uplink, Append(uplink, taken')}
    BY <1>1 DEF LoopReads, LoopAt, Send
  <2>2. taken \in Nat /\ \A i \in DOMAIN uplink : uplink[i] <= taken /\ uplink[i] \in Nat
    BY <2>1, RelayAssumption DEF RelayAssumption, IInv, TrafficTyped, UplinkIsPast, End
  <2>3. taken' \in 1..taken' /\ \A i \in DOMAIN uplink : uplink[i] < taken'
    BY <2>1, <2>2
  <2> QED
    BY <2>1, <2>3 DEF Fifo!Next, Fifo!Relay
<1>2. CASE LoopTop
  BY <1>2 DEF LoopTop, LoopAt, Fifo!Next, Fifo!Finish
<1>3. CASE LoopFails
  BY <1>3 DEF LoopFails, LoopAt, Fifo!Next, Fifo!Finish
<1>4. CASE LoopLeaves
  BY <1>4 DEF LoopLeaves, LoopAt
<1>5. CASE LoopReports
  BY <1>5 DEF LoopReports, LoopAt, Send, Fifo!Next, Fifo!Finish
<1>6. CASE ~(LoopReads \/ LoopTop \/ LoopFails \/ LoopReports \/ LoopLeaves)
  BY <1>6 DEF Next, FrameArrives, CloseArrives, StopBegins, Relaying, FrameDropped, FrameDecoded,
     FrameLooksUp, FrameLocks, FrameError, Writing, FrameWritten, FrameRefused, CloseWritten,
     Closing, Mark, Cancel, AgentLocks, Shut, Stopping, Collect, CloseAllReturns, Receiving,
     Environment, BackendStalls, BackendDrains, BackendEnds, Terminated, vars, loopVars
<1> QED
  BY <1>1, <1>2, <1>3, <1>4, <1>5, <1>6

\* For any number of frames of the backend, Plugboard gets a part of them in
\* their order and the end after them: the relay implements LossyFifo.
THEOREM RelayImplementsFifo == Spec => FifoImplemented
<1>1. Init => Fifo!Init
  BY DEF Init, Fifo!Init
<1> QED
  BY <1>1, StepFifo, Invariance, PTL DEF Spec, FifoImplemented, Fifo!Spec

\* What Plugboard got is in the order of the backend, without doubles, and
\* nothing follows the end.
UplinkInOrder ==
  /\ \A i, j \in DOMAIN uplink : i < j => uplink[i] < uplink[j]
  /\ \A i \in DOMAIN uplink : uplink[i] = End => i = Len(uplink)

\* What LossyFifo is for: whatever is lost, whoever closes the connection, and
\* for any number of frames, Plugboard sees those of the backend in their
\* order, none twice, and nothing after the report of the end.
THEOREM PlugboardSeesOrder == Spec => []UplinkInOrder
<1> DEFINE Increasing == \A i, j \in DOMAIN uplink : i < j => uplink[i] < uplink[j]
<1>1. Init => Increasing
  BY DEF Init
<1>2. ASSUME IInv, Increasing, [Next]_vars PROVE Increasing'
  <2>1. uplink' = uplink \/ \E n \in Nat : /\ uplink' = Append(uplink, n)
                                          /\ \A i \in DOMAIN uplink : uplink[i] < n
    <3>1. [Fifo!Next]_<<taken, uplink, loop \in {"leaving", "done"}>>
      BY <1>2, StepFifo
    <3>2. /\ taken \in Nat /\ taken < End /\ End \in Nat /\ uplink \in Seq(1..End)
          /\ loop \in {"top", "reading", "reporting", "leaving", "done"}
      BY <1>2, RelayAssumption DEF RelayAssumption, IInv, TrafficTyped, End
    <3>3. CASE Fifo!Relay
      BY <3>2, <3>3 DEF Fifo!Relay
    <3>4. CASE Fifo!Finish
      <4>1. \A i \in DOMAIN uplink : uplink[i] <= taken /\ uplink[i] \in Nat
        BY <1>2, <3>2, <3>4 DEF Fifo!Finish, IInv, UplinkIsPast
      <4> QED
        BY <3>2, <3>4, <4>1 DEF Fifo!Finish
    <3> QED
      BY <3>1, <3>3, <3>4 DEF Fifo!Next
  <2>2. uplink \in Seq(1..End)
    BY <1>2 DEF IInv, TrafficTyped
  <2> QED
    BY <1>2, <2>1, <2>2
<1>3. IInv /\ Increasing => UplinkInOrder
  <2> SUFFICES ASSUME IInv, Increasing, NEW i \in DOMAIN uplink, uplink[i] = End
               PROVE  i = Len(uplink)
    BY DEF UplinkInOrder
  <2>1. uplink \in Seq(1..End) /\ End \in Nat
    BY RelayAssumption DEF RelayAssumption, IInv, TrafficTyped, End
  <2>2. Len(uplink) \in DOMAIN uplink /\ uplink[Len(uplink)] <= End /\ i <= Len(uplink)
    BY <2>1
  <2> QED
    BY <2>1, <2>2
<1> HIDE DEF Increasing
<1>4. IInv /\ Increasing /\ [Next]_vars => Increasing'
  BY <1>2
<1> QED
  BY <1>1, <1>3, <1>4, Invariance, PTL DEF Spec
=============================================================================
