------------------------ MODULE SingleRecorderProofs ------------------------
(***************************************************************************)
(* Proofs for SingleRecorder, for every queue capacity, sequence width,    *)
(* warmup length, grace window and number of frames: type correctness, the *)
(* completeness of the in-band end marker, the order of the recorded       *)
(* frames and the balance of the counters.                                 *)
(***************************************************************************)
EXTENDS SingleRecorder, RingArithmetic, SequenceTheorems, TLAPS

-----------------------------------------------------------------------------
(* The sequence gate.                                                      *)

\* Within half of the sequence space the gate's signed difference is the true distance
\* between two send indices, across any number of wrap-arounds.
LEMMA DiffIsDistance ==
  ASSUME NEW i \in Nat, NEW j \in Nat, i - j < Half, j - i < Half
  PROVE  Diff(SeqOf(i), SeqOf(j)) = i - j
  <1>0. SeqMod \in Nat /\ SeqMod > 0 /\ Half \in Nat /\ SeqMod = 2 * Half
    BY SeqModAssumption DEF Half
  <1> DEFINE a == i % SeqMod  b == j % SeqMod  p == i \div SeqMod  q == j \div SeqMod
  <1>1. p \in Int /\ a \in 0..SeqMod - 1 /\ i = SeqMod * p + a  BY <1>0, DivMod
  <1>2. q \in Int /\ b \in 0..SeqMod - 1 /\ j = SeqMod * q + b  BY <1>0, DivMod
  <1> HIDE DEF a, b, p, q
  <1>3. p - q \in Int /\ SeqMod * (p - q) = SeqMod * p - SeqMod * q
    BY <1>0, <1>1, <1>2
  <1>3a. SeqMod * p \in Int /\ SeqMod * q \in Int  BY <1>0, <1>1, <1>2
  <1>4. SeqMod * (p - q) = (i - j) - (a - b)  BY <1>0, <1>1, <1>2, <1>3, <1>3a
  <1>5. SeqMod * (p - q) \in {-SeqMod, 0, SeqMod}
    <2>1. -(2 * SeqMod) < SeqMod * (p - q) /\ SeqMod * (p - q) < 2 * SeqMod
      BY <1>0, <1>1, <1>2, <1>4
    <2> QED  BY <1>0, <1>3, <2>1, SmallMultiple
  <1>6. (a - b) % SeqMod = IF a - b >= 0 THEN a - b ELSE (a - b) + SeqMod
    BY <1>0, <1>1, <1>2, SmallMod
  <1>7. AsSigned((a - b) % SeqMod) = i - j
    BY <1>0, <1>1, <1>2, <1>4, <1>5, <1>6 DEF AsSigned
  <1> QED  BY <1>7 DEF Diff, Sub, SeqOf, a, b

-----------------------------------------------------------------------------
(* The inductive invariant.                                                *)

\* The queue holds what was pushed and not yet popped, in order.
FifoInv ==
  /\ Len(pushed) = Len(popped) + Len(queue)
  /\ \A i \in 1..Len(popped) : popped[i] = pushed[i]
  /\ \A i \in 1..Len(queue) : queue[i] = pushed[Len(popped) + i]

\* The end marker is the last thing pushed, and only once; the recorder ends on it.
EndInv ==
  /\ \A i \in 1..Len(pushed) :
       pushed[i] = kEndSentinel => i = Len(pushed) /\ rxPc = "done"
  /\ rxPc = "done" => Len(pushed) > 0 /\ pushed[Len(pushed)] = kEndSentinel
  /\ histPc = "ended" => Len(popped) > 0 /\ popped[Len(popped)] = kEndSentinel
  /\ histPc # "ended" => \A i \in 1..Len(popped) : popped[i] # kEndSentinel

\* The gate remembers the number of the last accepted frame, and neither that frame nor
\* one in flight is half of the sequence space old.
GateInv ==
  /\ \A f \in wire : f < sent /\ (sent - 1) - f < Half
  /\ have => last = SeqOf(lastIdx) /\ lastIdx < sent /\ (sent - 1) - lastIdx < Half
  /\ ~have => warmupSeen = 0

\* Recorded frames increase and none is newer than the last accepted one.
OrderInv ==
  /\ RecordedInSendOrder
  /\ \A i \in 1..Len(pushed) : pushed[i] # kEndSentinel =>
       IF rxPc = "push" THEN pushed[i] < lastIdx ELSE pushed[i] <= lastIdx

\* Before the warmup ends nothing is recorded; after it the counters balance, on Rx's
\* side and on the recorder's.
CountInv ==
  /\ LossAccounting
  /\ rxPc = "push" => warmupSeen = kWarmupDiscard
  /\ warmupSeen < kWarmupDiscard => recorded = 0 /\ pushFailures = 0
  /\ recorded + (IF rxPc = "done" THEN 1 ELSE 0) = Len(pushed) + pushFailures
  /\ histRecorded + histDropped + (IF histPc = "ended" THEN 1 ELSE 0) = Len(popped)

IInv == TypeOK /\ FifoInv /\ EndInv /\ GateInv /\ OrderInv /\ CountInv

-----------------------------------------------------------------------------
(* One lemma per conjunct of the invariant.                                *)

\* The initial state satisfies the invariant.
LEMMA InitIInv == Init => IInv
  <1> SUFFICES ASSUME Init PROVE IInv  OBVIOUS
  <1> USE WarmupAssumption DEF Init, HInit
  <1>0. 0 \in 0..SeqMod - 1 /\ 0 \in 0..kWarmupDiscard  BY SeqModAssumption
  <1>1. TypeOK
    <2>1. << >> \in Seq(Sample)  BY EmptySeq
    <2> QED  BY <1>0, <2>1 DEF TypeOK
  <1>2. Len(pushed) = 0 /\ Len(popped) = 0 /\ Len(queue) = 0  OBVIOUS
  <1>3. FifoInv /\ EndInv  BY <1>2 DEF FifoInv, EndInv
  <1>4. GateInv  BY DEF GateInv
  <1>5. OrderInv  BY <1>2 DEF OrderInv, RecordedInSendOrder
  <1>6. CountInv  BY <1>2 DEF CountInv, LossAccounting
  <1> QED  BY <1>1, <1>3, <1>4, <1>5, <1>6 DEF IInv

\* What the gate computes is a number in range.
LEMMA GateTypes ==
  ASSUME NEW i \in Nat, NEW l \in 0..SeqMod - 1, NEW h
  PROVE  SeqOf(i) \in 0..SeqMod - 1 /\ LostBefore(h, l, SeqOf(i)) \in Nat
  <1>0. SeqMod \in Nat /\ SeqMod > 0 /\ Half \in Nat  BY SeqModAssumption DEF Half
  <1>1. SeqOf(i) \in 0..SeqMod - 1  BY <1>0, DivMod DEF SeqOf
  <1>2. Sub(SeqOf(i), l) \in 0..SeqMod - 1  BY <1>0, <1>1, DivMod DEF Sub
  <1>3. Diff(SeqOf(i), l) \in Int  BY <1>0, <1>2 DEF Diff, AsSigned
  <1> QED  BY <1>1, <1>3 DEF LostBefore

\* The gate keeps the types of the counters, on each of its three ways out.
LEMMA CountTypes ==
  ASSUME NEW i \in Nat, LostBefore(have, last, SeqOf(i)) \in Nat, RxGate(i),
         warmupSeen \in 0..kWarmupDiscard, recorded \in Nat, baseIdx \in Nat,
         lost \in Nat, dropped \in Nat, pushFailures \in Nat
  PROVE  /\ warmupSeen' \in 0..kWarmupDiscard /\ recorded' \in Nat
         /\ rxPc' \in {"poll", "push"} /\ baseIdx' \in Nat
         /\ lost' \in Nat /\ dropped' \in Nat /\ pushFailures' \in Nat
  <1> DEFINE gap == LostBefore(have, last, SeqOf(i))
  <1>1. \/ InWarmup(i, gap)
        \/ AfterWarmup(gap)
        \/ /\ dropped' = dropped + 1 /\ rxPc' = "poll"
           /\ UNCHANGED <<warmupSeen, recorded, lost, pushFailures, baseIdx>>
    BY DEF RxGate
  <1>2. gap \in Nat  OBVIOUS
  <1> HIDE DEF gap
  <1>3. CASE InWarmup(i, gap)  BY <1>2, <1>3, WarmupAssumption DEF InWarmup
  <1>4. CASE AfterWarmup(gap)  BY <1>2, <1>4 DEF AfterWarmup
  <1>5. CASE /\ dropped' = dropped + 1 /\ rxPc' = "poll"
             /\ UNCHANGED <<warmupSeen, recorded, lost, pushFailures, baseIdx>>
    BY <1>5
  <1> QED  BY <1>1, <1>3, <1>4, <1>5

\* Every step preserves the types.
LEMMA TypeStep == TypeOK /\ [Next]_vars => TypeOK'
  <1> SUFFICES ASSUME TypeOK, [Next]_vars PROVE TypeOK'  OBVIOUS
  <1> USE DEF TypeOK
  <1>1. CASE Tx
    <2> USE DEF hvars, histVars, linkVars, rxVars, gateVars, countVars
    <2>1. CASE TxAbort  BY <2>1 DEF TxAbort
    <2>2. CASE TxStart  BY <2>2 DEF TxStart
    <2>3. CASE TxCommit
      <3>1. wire' \in SUBSET Nat /\ sent' \in Nat  BY <2>3 DEF TxCommit
      <3> QED  BY <2>3, <3>1 DEF TxCommit
    <2>4. CASE TxFinish  BY <2>4 DEF TxFinish
    <2> QED  BY <1>1, <2>1, <2>2, <2>3, <2>4 DEF Tx
  <1>2. CASE Link
    BY <1>2 DEF Link, Lose, hvars, histVars, txVars, rxVars, gateVars, countVars
  <1>3. CASE Signal
    BY <1>3 DEF Signal, RequestStop, Rest, histVars, txVars, linkVars, rxVars,
                gateVars, countVars
  <1>4. CASE Join
    BY <1>4 DEF Join, hvars, histVars, txVars, linkVars, rxVars, gateVars, countVars
  <1>5. CASE Hist
    <2> USE DEF Rest, txVars, linkVars, rxVars, gateVars, countVars
    <2>1. CASE HistPop /\ UNCHANGED Rest
      <3>1. queue # << >> /\ Head(queue) \in Sample /\ Tail(queue) \in Seq(Sample)
        BY <2>1, HeadTailProperties DEF HistPop
      <3> QED  BY <2>1, <3>1 DEF HistPop
    <2>2. CASE HdrInitFails \/ HdrInit \/ HistFrontEmpty \/ HistCheckStop
      BY <1>5, <2>2 DEF Hist, HdrInitFails, HdrInit, HistFrontEmpty, HistCheckStop
    <2> QED  BY <1>5, <2>1, <2>2 DEF Hist, HistNext
  <1>6. CASE Rx
    <2> USE DEF hvars, histVars, txVars, linkVars, gateVars, countVars
    <2>1. CASE RxPollEmpty  BY <2>1 DEF RxPollEmpty
    <2>1a. CASE RxCheckDone
      <3>1. graceEmpty' \in Nat  BY <2>1a DEF RxCheckDone
      <3>2. rxPc' \in {"poll", "sentinel"}  BY <2>1a DEF RxCheckDone
      <3> QED  BY <2>1a, <3>1, <3>2 DEF RxCheckDone
    <2>1b. CASE RxStray  BY <2>1b DEF RxStray
    <2>2. CASE RxPush
      <3>1. queue' \in Seq(Sample) /\ pushed' \in Seq(Sample) /\ pushFailures' \in Nat
        <4>1. lastIdx \in Sample  BY DEF Sample
        <4>2. CASE Push(lastIdx) /\ UNCHANGED pushFailures  BY <4>1, <4>2 DEF Push
        <4>3. CASE ~(Push(lastIdx) /\ UNCHANGED pushFailures)
          BY <2>2, <4>3 DEF RxPush
        <4> QED  BY <4>2, <4>3
      <3> QED  BY <2>2, <3>1 DEF RxPush
    <2>3. CASE RxSentinel
      BY <2>3 DEF RxSentinel, Push, Sample, histVars, txVars, linkVars, gateVars, countVars
    <2>4. ASSUME NEW f \in wire, RxReceive(f) PROVE TypeOK'
      <3>1. f \in Nat /\ SeqOf(f) \in 0..SeqMod - 1 /\ LostBefore(have, last, SeqOf(f)) \in Nat
        BY GateTypes
      <3>2. wire' \in SUBSET Nat /\ dups' \in Nat /\ graceEmpty' \in Nat
        <4>1. \/ wire' = wire \ {f} /\ dups' = dups
              \/ wire' = wire /\ dups' = dups + 1
          BY <2>4 DEF RxReceive
        <4>2. graceEmpty' = 0  BY <2>4 DEF RxReceive
        <4>3. wire' \in SUBSET Nat  BY <4>1, Zenon
        <4>4. dups' \in Nat  BY <4>1
        <4> QED  BY <4>2, <4>3, <4>4
      <3>3. have' \in BOOLEAN /\ last' \in 0..SeqMod - 1 /\ lastIdx' \in Nat
        BY <2>4, <3>1 DEF RxReceive, RxGate
      <3>4. /\ warmupSeen' \in 0..kWarmupDiscard /\ recorded' \in Nat
            /\ rxPc' \in {"poll", "push"} /\ baseIdx' \in Nat
            /\ lost' \in Nat /\ dropped' \in Nat /\ pushFailures' \in Nat
        <4>1. RxGate(f)  BY <2>4 DEF RxReceive
        <4> QED  BY <3>1, <4>1, CountTypes
      <3> QED  BY <2>4, <3>2, <3>3, <3>4 DEF RxReceive
    <2> QED  BY <1>6, <2>1, <2>1a, <2>1b, <2>2, <2>3, <2>4 DEF Rx
  <1>7. CASE UNCHANGED vars
    BY <1>7 DEF vars, hvars, histVars, txVars, linkVars, rxVars, gateVars, countVars
  <1>8. CASE Returned  BY <1>7, <1>8 DEF Returned
  <1> QED  BY <1>1, <1>2, <1>3, <1>4, <1>5, <1>6, <1>7, <1>8 DEF Next

\* A push appends to the history and keeps the queue in step with it.
LEMMA PushFifo ==
  ASSUME TypeOK, FifoInv, NEW v \in Sample, Push(v), popped' = popped
  PROVE  /\ FifoInv'
         /\ Len(pushed') = Len(pushed) + 1
         /\ pushed'[Len(pushed) + 1] = v
         /\ \A i \in 1..Len(pushed) : pushed'[i] = pushed[i]
  <1>1. /\ pushed \in Seq(Sample) /\ queue \in Seq(Sample) /\ popped \in Seq(Sample)
        /\ pushed' = Append(pushed, v) /\ queue' = Append(queue, v)
    BY DEF TypeOK, Push
  <1>2. /\ Len(pushed') = Len(pushed) + 1 /\ pushed'[Len(pushed) + 1] = v
        /\ \A i \in 1..Len(pushed) : pushed'[i] = pushed[i]
        /\ Len(queue') = Len(queue) + 1 /\ queue'[Len(queue) + 1] = v
        /\ \A i \in 1..Len(queue) : queue'[i] = queue[i]
        /\ Len(pushed) \in Nat /\ Len(queue) \in Nat /\ Len(popped) \in Nat
    BY <1>1
  <1>3. FifoInv'
    <2>1. Len(pushed) = Len(popped) + Len(queue)  BY DEF FifoInv
    <2>2. Len(pushed') = Len(popped') + Len(queue')  BY <1>2, <2>1
    <2>3. \A i \in 1..Len(popped') : popped'[i] = pushed'[i]
      BY <1>2, <2>1 DEF FifoInv
    <2>4. ASSUME NEW i \in 1..Len(queue') PROVE queue'[i] = pushed'[Len(popped') + i]
      <3>1. CASE i = Len(queue) + 1  BY <1>2, <2>1, <3>1
      <3>2. CASE i \in 1..Len(queue)
        <4>1. queue'[i] = queue[i] /\ queue[i] = pushed[Len(popped) + i]
          BY <1>2, <3>2 DEF FifoInv
        <4>2. Len(popped) + i \in 1..Len(pushed)  BY <1>2, <2>1, <3>2
        <4> QED  BY <1>2, <4>1, <4>2
      <3> QED  BY <1>2, <3>1, <3>2
    <2> QED  BY <2>2, <2>3, <2>4 DEF FifoInv
  <1> QED  BY <1>2, <1>3

\* A pop moves the head of the queue to the end of the recorder's history.
LEMMA PopFifo ==
  ASSUME TypeOK, FifoInv, HistPop
  PROVE  /\ FifoInv'
         /\ Len(popped') = Len(popped) + 1
         /\ popped'[Len(popped) + 1] = Head(queue)
         /\ Head(queue) = pushed[Len(popped) + 1]
         /\ Len(popped) + 1 <= Len(pushed)
         /\ \A i \in 1..Len(popped) : popped'[i] = popped[i]
  <1>1. /\ pushed \in Seq(Sample) /\ queue \in Seq(Sample) /\ popped \in Seq(Sample)
        /\ queue # << >> /\ pushed' = pushed
        /\ popped' = Append(popped, Head(queue)) /\ queue' = Tail(queue)
    BY DEF TypeOK, HistPop
  <1>2. /\ Len(queue) \in Nat /\ Len(queue) > 0 /\ Head(queue) = queue[1]
        /\ Head(queue) \in Sample
        /\ Len(queue') = Len(queue) - 1
        /\ \A i \in 1..Len(queue') : queue'[i] = queue[i + 1]
    BY <1>1, HeadTailProperties, EmptySeq
  <1>3. /\ Len(popped') = Len(popped) + 1 /\ popped'[Len(popped) + 1] = Head(queue)
        /\ \A i \in 1..Len(popped) : popped'[i] = popped[i]
        /\ Len(popped) \in Nat /\ Len(pushed) \in Nat
    BY <1>1, <1>2
  <1>4. Head(queue) = pushed[Len(popped) + 1] /\ Len(popped) + 1 <= Len(pushed)
    BY <1>2, <1>3 DEF FifoInv
  <1>5. FifoInv'
    <2>0. Len(pushed) = Len(popped) + Len(queue)  BY DEF FifoInv
    <2>1. Len(pushed') = Len(popped') + Len(queue')
      <3>1. Len(pushed') = Len(pushed)  BY <1>1
      <3> QED  BY <1>2, <1>3, <2>0, <3>1
    <2>2. \A i \in 1..Len(popped') : popped'[i] = pushed'[i]
      BY <1>1, <1>3, <1>4 DEF FifoInv
    <2>3. ASSUME NEW i \in 1..Len(queue') PROVE queue'[i] = pushed'[Len(popped') + i]
      <3>1. queue'[i] = queue[i + 1] /\ i + 1 \in 1..Len(queue)  BY <1>2
      <3>2. queue[i + 1] = pushed[Len(popped) + (i + 1)]  BY <3>1 DEF FifoInv
      <3>3. Len(popped) + (i + 1) = Len(popped') + i  BY <1>2, <1>3
      <3> QED  BY <1>1, <3>1, <3>2, <3>3
    <2> QED  BY <2>1, <2>2, <2>3 DEF FifoInv
  <1> QED  BY <1>3, <1>4, <1>5

\* The steps that touch neither the queue nor the two threads' progress on it.
LEMMA QuietSteps ==
  ASSUME TypeOK,
         Tx \/ Link \/ Signal \/ Join \/ Returned \/ UNCHANGED vars
  PROVE  UNCHANGED <<queue, pushed, histVars, rxVars>>
  BY DEF Tx, TxAbort, TxStart, TxCommit, TxFinish, Link, Lose, Signal, RequestStop, Rest,
         Join, Returned, vars, hvars, rxVars

\* The recorder's steps leave Rx alone, and only a pop touches the queue.
LEMMA HistSteps ==
  ASSUME TypeOK, Hist
  PROVE  /\ UNCHANGED <<pushed, rxVars, linkVars, txVars>>
         /\ \/ HistPop
            \/ UNCHANGED <<queue, popped, histRecorded, histDropped>>
               /\ histPc \in {"init", "poll", "check"} /\ histPc' # "ended"
  BY DEF Hist, HistNext, HdrInitFails, HdrInit, HistFrontEmpty, HistCheckStop, HistPop, Rest

\* Rx's steps leave the recorder alone, and only a push touches the queue.
LEMMA RxSteps ==
  ASSUME TypeOK, Rx, ~RxPush, ~RxSentinel
  PROVE  /\ UNCHANGED <<queue, pushed, histVars>>
         /\ rxPc \in {"poll", "check"} /\ rxPc' # "done"
  <1> USE DEF hvars
  <1>1. CASE RxPollEmpty  BY <1>1 DEF RxPollEmpty
  <1>2. CASE RxCheckDone  BY <1>2 DEF RxCheckDone
  <1>3. CASE RxStray  BY <1>3 DEF RxStray
  <1>4. ASSUME NEW f \in wire, RxReceive(f)
        PROVE  /\ UNCHANGED <<queue, pushed, histVars>>
               /\ rxPc \in {"poll", "check"} /\ rxPc' # "done"
    BY <1>4 DEF RxReceive, RxGate, InWarmup, AfterWarmup
  <1> QED  BY <1>1, <1>2, <1>3, <1>4 DEF Rx

\* Every step keeps the queue's history and the place of the end marker.
LEMMA QueueStep == IInv /\ [Next]_vars => FifoInv' /\ EndInv'
  <1> SUFFICES ASSUME IInv, [Next]_vars PROVE FifoInv' /\ EndInv'  OBVIOUS
  <1>0. TypeOK /\ FifoInv /\ EndInv  BY DEF IInv
  <1>1. CASE Tx \/ Link \/ Signal \/ Join \/ Returned \/ UNCHANGED vars
    <2>1. UNCHANGED <<queue, pushed, histVars, rxVars>>  BY <1>0, <1>1, QuietSteps
    <2> QED  BY <1>0, <2>1 DEF FifoInv, EndInv, histVars, rxVars
  <1>2. CASE Hist
    <2>1. CASE HistPop
      <3>1. UNCHANGED <<pushed, rxPc>>  BY <1>0, <1>2, HistSteps DEF rxVars
      <3>2. /\ histPc = "poll"
            /\ histPc' = IF Head(queue) = kEndSentinel THEN "ended" ELSE "poll"
        BY <2>1 DEF HistPop
      <3>3. Len(popped) \in Nat  BY <1>0 DEF TypeOK
      <3>4. EndInv'  BY <1>0, <2>1, <3>1, <3>2, <3>3, PopFifo DEF EndInv
      <3> QED  BY <1>0, <2>1, <3>4, PopFifo
    <2>2. CASE ~HistPop
      BY <1>0, <1>2, <2>2, HistSteps DEF FifoInv, EndInv, rxVars
    <2> QED  BY <2>1, <2>2
  <1>3. CASE Rx
    <2>1. CASE RxPush
      <3>1. rxPc = "push" /\ rxPc' = "poll" /\ UNCHANGED histVars /\ lastIdx \in Nat
        BY <1>0, <2>1 DEF RxPush, TypeOK
      <3>2. CASE Push(lastIdx)
        <4>1. lastIdx \in Sample /\ lastIdx # kEndSentinel
          BY <3>1, SentinelAssumption DEF Sample
        <4>2. Len(pushed) \in Nat /\ Len(popped) \in Nat  BY <1>0 DEF TypeOK
        <4>3. UNCHANGED <<histPc, popped>>  BY <3>1 DEF histVars
        <4> QED  BY <1>0, <3>1, <3>2, <4>1, <4>2, <4>3, PushFifo DEF EndInv
      <3>3. CASE ~Push(lastIdx)
        <4>1. UNCHANGED <<queue, pushed>>  BY <2>1, <3>3 DEF RxPush
        <4> QED  BY <1>0, <3>1, <4>1 DEF FifoInv, EndInv, histVars
      <3> QED  BY <3>2, <3>3
    <2>2. CASE RxSentinel
      <3>1. /\ rxPc = "sentinel" /\ rxPc' = "done" /\ UNCHANGED histVars
            /\ Push(kEndSentinel) /\ kEndSentinel \in Sample /\ Len(pushed) \in Nat
        BY <1>0, <2>2 DEF RxSentinel, TypeOK, Sample
      <3> QED  BY <1>0, <3>1, PushFifo DEF EndInv, histVars
    <2>3. CASE ~RxPush /\ ~RxSentinel
      BY <1>0, <1>3, <2>3, RxSteps DEF FifoInv, EndInv, histVars
    <2> QED  BY <2>1, <2>2, <2>3
  <1> QED  BY <1>1, <1>2, <1>3 DEF Next

\* What the gate decides about a frame in flight: it accepts exactly the newer ones and
\* counts exactly the frames between.
LEMMA GateMeaning ==
  ASSUME IInv, NEW f \in wire
  PROVE  /\ f \in Nat /\ f < sent /\ (sent - 1) - f < Half
         /\ have => (Accepts(have, last, SeqOf(f)) <=> f > lastIdx)
         /\ have /\ f > lastIdx => LostBefore(have, last, SeqOf(f)) = (f - lastIdx) - 1
  <1>1. TypeOK /\ GateInv  BY DEF IInv
  <1>2. f \in Nat /\ lastIdx \in Nat /\ sent \in Nat /\ Half \in Nat
    BY <1>1, SeqModAssumption DEF TypeOK, Half
  <1>3. f < sent /\ (sent - 1) - f < Half  BY <1>1 DEF GateInv
  <1>4. ASSUME have
        PROVE  Diff(SeqOf(f), last) = f - lastIdx
    <2>1. last = SeqOf(lastIdx) /\ lastIdx < sent /\ (sent - 1) - lastIdx < Half
      BY <1>1, <1>4 DEF GateInv
    <2>2. f - lastIdx < Half /\ lastIdx - f < Half  BY <1>2, <1>3, <2>1
    <2> QED  BY <1>2, <2>1, <2>2, DiffIsDistance
  <1> QED  BY <1>2, <1>3, <1>4 DEF Accepts, LostBefore

\* The three outcomes of a reception.
LEMMA ReceiveOutcomes ==
  ASSUME IInv, NEW f \in wire, RxReceive(f)
  PROVE  /\ rxPc = "poll" /\ wire' \subseteq wire /\ UNCHANGED <<hvars, sent>>
         /\ \/ /\ have /\ rxPc' = "poll"
               /\ UNCHANGED <<have, last, lastIdx, warmupSeen, recorded, lost, pushFailures, baseIdx>>
            \/ /\ have => f > lastIdx
               /\ have' /\ last' = SeqOf(f) /\ lastIdx' = f
               /\ warmupSeen < kWarmupDiscard /\ warmupSeen' = warmupSeen + 1
               /\ rxPc' = "poll" /\ recorded' = recorded
               /\ IF warmupSeen' = kWarmupDiscard
                  THEN lost' = 0 /\ pushFailures' = 0 /\ baseIdx' = f
                  ELSE UNCHANGED <<pushFailures, baseIdx>>
            \/ /\ have /\ f > lastIdx
               /\ have' /\ last' = SeqOf(f) /\ lastIdx' = f
               /\ warmupSeen >= kWarmupDiscard /\ rxPc' = "push"
               /\ lost' = lost + ((f - lastIdx) - 1)
               /\ UNCHANGED <<warmupSeen, recorded, pushFailures, baseIdx>>
  <1>0. TypeOK /\ GateInv  BY DEF IInv
  <1>1. rxPc = "poll" /\ wire' \subseteq wire /\ UNCHANGED <<hvars, sent>>
    BY DEF RxReceive, txVars
  <1>2. RxGate(f)  BY DEF RxReceive
  <1>3. CASE ~Accepts(have, last, SeqOf(f))
    <2>1. have  BY <1>3 DEF Accepts
    <2> QED  BY <1>1, <1>2, <1>3, <2>1 DEF RxGate, gateVars
  <1>4. CASE Accepts(have, last, SeqOf(f))
    <2> DEFINE gap == LostBefore(have, last, SeqOf(f))
    <2>1. /\ have' /\ last' = SeqOf(f) /\ lastIdx' = f
          /\ InWarmup(f, gap) \/ AfterWarmup(gap)
      BY <1>2, <1>4 DEF RxGate
    <2>2. have => f > lastIdx  BY <1>4, GateMeaning
    <2>3. CASE InWarmup(f, gap)
      BY <1>1, <2>1, <2>2, <2>3 DEF InWarmup
    <2>4. CASE AfterWarmup(gap)
      <3>1. have  BY <1>0, <2>4, WarmupAssumption DEF AfterWarmup, GateInv
      <3>2. gap = (f - lastIdx) - 1  BY <2>2, <3>1, GateMeaning
      <3> HIDE DEF gap
      <3> QED  BY <1>1, <2>1, <2>2, <2>4, <3>1, <3>2 DEF AfterWarmup
    <2> QED  BY <2>1, <2>3, <2>4
  <1> QED  BY <1>3, <1>4

\* Rx's other steps leave the gate and the counters alone; only a push counts.
LEMMA OtherRxSteps ==
  ASSUME TypeOK, RxPollEmpty \/ RxCheckDone \/ RxStray \/ RxPush \/ RxSentinel
  PROVE  /\ UNCHANGED <<have, last, lastIdx, warmupSeen, baseIdx, lost, wire, sent>>
         /\ rxPc # "done" /\ rxPc' # "push"
         /\ ~RxPush => rxPc # "push" /\ UNCHANGED <<recorded, pushFailures>>
         /\ rxPc' = "done" => RxSentinel
  BY DEF RxPollEmpty, RxCheckDone, RxStray, RxPush, RxSentinel, hvars, txVars, linkVars,
         gateVars, countVars

\* Every step keeps what the gate remembers within half of the sequence space.
LEMMA GateStep == IInv /\ [Next]_vars => GateInv'
  <1> SUFFICES ASSUME IInv, [Next]_vars PROVE GateInv'  OBVIOUS
  <1>0. TypeOK /\ GateInv  BY DEF IInv
  <1>a. sent \in Nat /\ lastIdx \in Nat /\ wire \subseteq Nat  BY <1>0 DEF TypeOK
  <1>b. Half \in Nat /\ Half >= 1  BY SeqModAssumption DEF Half
  <1>1. CASE TxCommit
    <2>1. /\ wire' = wire \cup {sent} /\ sent' = sent + 1 /\ WithinHalf(sent)
          /\ UNCHANGED <<have, last, lastIdx, warmupSeen>>
      BY <1>1 DEF TxCommit, rxVars, gateVars, countVars
    <2>2. ASSUME NEW f \in wire' PROVE f < sent' /\ (sent' - 1) - f < Half
      <3>1. CASE f \in wire  BY <1>0, <1>a, <1>b, <2>1, <3>1 DEF GateInv, WithinHalf
      <3>2. CASE f = sent  BY <1>a, <1>b, <2>1, <3>2
      <3> QED  BY <2>1, <3>1, <3>2
    <2>3. have => last = SeqOf(lastIdx) /\ lastIdx < sent' /\ (sent' - 1) - lastIdx < Half
      BY <1>0, <1>a, <1>b, <2>1 DEF GateInv, WithinHalf
    <2>4. ~have => warmupSeen = 0  BY <1>0 DEF GateInv
    <2> QED  BY <2>1, <2>2, <2>3, <2>4 DEF GateInv
  <1>2. ASSUME NEW f \in wire, RxReceive(f) PROVE GateInv'
    BY <1>0, <1>2, GateMeaning, ReceiveOutcomes DEF GateInv
  <1>3. CASE RxPollEmpty \/ RxCheckDone \/ RxStray \/ RxPush \/ RxSentinel
    BY <1>0, <1>3, OtherRxSteps DEF GateInv
  <1>4. CASE Link \/ Hist \/ Signal \/ Join \/ Returned \/ UNCHANGED vars
             \/ TxAbort \/ TxStart \/ TxFinish
    <2>1. wire' \subseteq wire /\ UNCHANGED <<sent, have, last, lastIdx, warmupSeen>>
      BY <1>4 DEF Link, Lose, Hist, Signal, Rest, Join, Returned, TxAbort, TxStart, TxFinish,
                  vars, txVars, linkVars, rxVars, gateVars, countVars
    <2> QED  BY <1>0, <2>1 DEF GateInv
  <1> QED  BY <1>1, <1>2, <1>3, <1>4 DEF Next, Tx, Rx

\* Before the first accepted frame nothing has been pushed.
LEMMA NothingBeforeFirst ==
  ASSUME IInv, ~have, rxPc = "poll"
  PROVE  Len(pushed) = 0
  <1>1. warmupSeen < kWarmupDiscard  BY WarmupAssumption DEF IInv, GateInv
  <1>2. Len(pushed) \in Nat  BY DEF IInv, TypeOK
  <1> QED  BY <1>1, <1>2 DEF IInv, CountInv

\* Every step keeps the recorded frames in send order.
LEMMA OrderStep == IInv /\ [Next]_vars => OrderInv'
  <1> SUFFICES ASSUME IInv, [Next]_vars PROVE OrderInv'  OBVIOUS
  <1>0. TypeOK /\ FifoInv /\ EndInv /\ OrderInv  BY DEF IInv
  <1>a. lastIdx \in Nat /\ pushed \in Seq(Sample) /\ Len(pushed) \in Nat  BY <1>0 DEF TypeOK
  <1>b. \A i \in 1..Len(pushed) : pushed[i] \in Sample  BY <1>a, ElementOfSeq
  <1>1. CASE UNCHANGED <<pushed, lastIdx, rxPc>>
    BY <1>0, <1>1 DEF OrderInv, RecordedInSendOrder
  <1>2. ASSUME NEW f \in wire, RxReceive(f) PROVE OrderInv'
    <2>1. UNCHANGED pushed /\ rxPc = "poll"  BY <1>2, ReceiveOutcomes DEF hvars
    <2>2. RecordedInSendOrder'  BY <1>0, <2>1 DEF OrderInv, RecordedInSendOrder
    <2>3. CASE ~have
      BY <2>1, <2>2, <2>3, NothingBeforeFirst DEF OrderInv
    <2>4. CASE have
      <3>1. f \in Nat  BY GateMeaning
      <3>2. (lastIdx' = lastIdx /\ rxPc' = "poll") \/ (lastIdx' = f /\ f > lastIdx)
        BY <1>2, <2>4, ReceiveOutcomes
      <3>3. ASSUME NEW i \in 1..Len(pushed), pushed[i] # kEndSentinel
            PROVE  IF rxPc' = "push" THEN pushed[i] < lastIdx' ELSE pushed[i] <= lastIdx'
        <4>1. pushed[i] \in Nat  BY <1>b, <3>3 DEF Sample
        <4>2. pushed[i] <= lastIdx  BY <1>0, <2>1, <3>3 DEF OrderInv
        <4> QED  BY <1>a, <3>1, <3>2, <4>1, <4>2
      <3> QED  BY <2>1, <2>2, <3>3 DEF OrderInv
    <2> QED  BY <2>3, <2>4
  <1>3. CASE RxPush /\ Push(lastIdx)
    <2>1. rxPc = "push" /\ rxPc' = "poll" /\ popped' = popped /\ lastIdx' = lastIdx
      BY <1>3 DEF RxPush, histVars, gateVars
    <2>2. lastIdx \in Sample  BY <1>a DEF Sample
    <2>3. /\ Len(pushed') = Len(pushed) + 1 /\ pushed'[Len(pushed) + 1] = lastIdx
          /\ \A i \in 1..Len(pushed) : pushed'[i] = pushed[i]
      BY <1>0, <1>3, <2>1, <2>2, PushFifo
    <2>4. \A i \in 1..Len(pushed) : pushed[i] \in Nat /\ pushed[i] < lastIdx
      BY <1>0, <1>b, <2>1 DEF EndInv, OrderInv, Sample
    <2>5. RecordedInSendOrder'
      <3> SUFFICES ASSUME NEW i \in 1..Len(pushed'), NEW j \in 1..Len(pushed'), i < j
                   PROVE  pushed'[i] < pushed'[j]
        BY DEF RecordedInSendOrder
      <3>1. i \in 1..Len(pushed)  BY <1>a, <2>3
      <3>2. CASE j = Len(pushed) + 1  BY <2>3, <2>4, <3>1, <3>2
      <3>3. CASE j \in 1..Len(pushed)
        <4>1. pushed[j] # kEndSentinel  BY <2>4, <3>3, SentinelAssumption
        <4>2. pushed[i] < pushed[j]
          BY <1>0, <3>1, <3>3, <4>1 DEF OrderInv, RecordedInSendOrder
        <4> QED  BY <2>3, <3>1, <3>3, <4>2
      <3> QED  BY <1>a, <2>3, <3>2, <3>3
    <2>6. ASSUME NEW i \in 1..Len(pushed') PROVE pushed'[i] <= lastIdx'
      <3>1. CASE i = Len(pushed) + 1  BY <1>a, <2>1, <2>3, <3>1
      <3>2. CASE i \in 1..Len(pushed)  BY <1>a, <2>1, <2>3, <2>4, <3>2
      <3> QED  BY <1>a, <2>3, <3>1, <3>2
    <2> QED  BY <2>1, <2>5, <2>6 DEF OrderInv
  <1>4. CASE RxPush /\ ~Push(lastIdx)
    <2>1. rxPc = "push" /\ rxPc' = "poll" /\ pushed' = pushed /\ lastIdx' = lastIdx
      BY <1>4 DEF RxPush, gateVars
    <2>2. \A i \in 1..Len(pushed) : pushed[i] # kEndSentinel =>
            pushed[i] \in Nat /\ pushed[i] < lastIdx
      BY <1>0, <1>b, <2>1 DEF OrderInv, Sample
    <2>3. \A i \in 1..Len(pushed) : pushed[i] # kEndSentinel => pushed[i] <= lastIdx
      BY <1>a, <2>2
    <2> QED  BY <1>0, <2>1, <2>3 DEF OrderInv, RecordedInSendOrder
  <1>5. CASE RxSentinel
    <2>1. /\ rxPc = "sentinel" /\ rxPc' = "done" /\ popped' = popped /\ lastIdx' = lastIdx
          /\ Push(kEndSentinel) /\ kEndSentinel \in Sample
      BY <1>5 DEF RxSentinel, histVars, gateVars, Sample
    <2>2. /\ Len(pushed') = Len(pushed) + 1 /\ pushed'[Len(pushed) + 1] = kEndSentinel
          /\ \A i \in 1..Len(pushed) : pushed'[i] = pushed[i]
      BY <1>0, <2>1, PushFifo
    <2>3. \A i \in 1..Len(pushed') :
            pushed'[i] # kEndSentinel => i \in 1..Len(pushed) /\ pushed'[i] = pushed[i]
      BY <1>a, <2>2
    <2>4. RecordedInSendOrder'
      BY <1>0, <1>a, <2>2, <2>3 DEF OrderInv, RecordedInSendOrder
    <2>5. \A i \in 1..Len(pushed') : pushed'[i] # kEndSentinel => pushed'[i] <= lastIdx'
      BY <1>0, <2>1, <2>3 DEF OrderInv
    <2> QED  BY <2>1, <2>4, <2>5 DEF OrderInv
  <1>6. CASE RxPollEmpty \/ RxCheckDone \/ RxStray
    <2>1. pushed' = pushed /\ lastIdx' = lastIdx /\ rxPc # "push" /\ rxPc' # "push"
      BY <1>6 DEF RxPollEmpty, RxCheckDone, RxStray, hvars, gateVars
    <2> QED  BY <1>0, <2>1 DEF OrderInv, RecordedInSendOrder
  <1>7. CASE Tx \/ Link \/ Signal \/ Join \/ Returned \/ UNCHANGED vars
    BY <1>0, <1>1, <1>7, QuietSteps DEF rxVars, gateVars
  <1>8. CASE Hist  BY <1>0, <1>1, <1>8, HistSteps DEF rxVars, gateVars
  <1> QED  BY <1>2, <1>3, <1>4, <1>5, <1>6, <1>7, <1>8 DEF Next, Rx

\* Every step keeps the counters of Rx and of the recorder balanced.
LEMMA CountStep == IInv /\ [Next]_vars => CountInv'
  <1> SUFFICES ASSUME IInv, [Next]_vars PROVE CountInv'  OBVIOUS
  <1>0. TypeOK /\ FifoInv /\ EndInv /\ CountInv  BY DEF IInv
  <1>a. /\ lastIdx \in Nat /\ baseIdx \in Nat /\ recorded \in Nat /\ lost \in Nat
        /\ pushFailures \in Nat /\ histRecorded \in Nat /\ histDropped \in Nat
        /\ Len(pushed) \in Nat /\ Len(popped) \in Nat
        /\ warmupSeen \in 0..kWarmupDiscard /\ kWarmupDiscard \in Nat /\ kWarmupDiscard > 0
    BY <1>0, WarmupAssumption DEF TypeOK
  <1>1. CASE Tx \/ Link \/ Signal \/ Join \/ Returned \/ UNCHANGED vars
    <2>1. UNCHANGED <<queue, pushed, histVars, rxVars>>  BY <1>0, <1>1, QuietSteps
    <2> QED
      BY <1>0, <2>1 DEF CountInv, LossAccounting, histVars, rxVars, gateVars, countVars
  <1>2. CASE Hist
    <2>1. UNCHANGED <<pushed, rxVars>>  BY <1>0, <1>2, HistSteps
    <2>2. histRecorded' + histDropped' + (IF histPc' = "ended" THEN 1 ELSE 0) = Len(popped')
      <3>1. CASE HistPop
        <4>1. Len(popped') = Len(popped) + 1  BY <1>0, <3>1, PopFifo
        <4>2. /\ histPc = "poll"
              /\ histPc' = IF Head(queue) = kEndSentinel THEN "ended" ELSE "poll"
              /\ histRecorded' = IF Head(queue) \in Undecodable \cup {kEndSentinel}
                                 THEN histRecorded ELSE histRecorded + 1
              /\ histDropped' = IF Head(queue) \in Undecodable \ {kEndSentinel}
                                THEN histDropped + 1 ELSE histDropped
          BY <3>1 DEF HistPop
        <4>3. histRecorded + histDropped = Len(popped)  BY <1>0, <1>a, <4>2 DEF CountInv
        <4> QED  BY <1>a, <4>1, <4>2, <4>3
      <3>2. CASE ~HistPop
        BY <1>0, <1>2, <3>2, HistSteps DEF CountInv
      <3> QED  BY <3>1, <3>2
    <2> QED
      BY <1>0, <2>1, <2>2 DEF CountInv, LossAccounting, rxVars, gateVars, countVars
  <1>3. ASSUME NEW f \in wire, RxReceive(f) PROVE CountInv'
    <2>1. /\ UNCHANGED <<pushed, popped, histPc, histRecorded, histDropped>>
          /\ rxPc = "poll" /\ rxPc' # "done"
      BY <1>3, ReceiveOutcomes DEF hvars, histVars
    <2>2. f \in Nat  BY GateMeaning
    <2>3. warmupSeen = kWarmupDiscard => lastIdx - baseIdx = recorded + lost
      BY <1>0, <1>a, <2>1 DEF CountInv, LossAccounting
    <2>4. recorded = Len(pushed) + pushFailures
      BY <1>0, <1>a, <2>1 DEF CountInv
    <2>5. warmupSeen < kWarmupDiscard => recorded = 0 /\ pushFailures = 0
      BY <1>0 DEF CountInv
    <2>6. /\ LossAccounting'
          /\ rxPc' = "push" => warmupSeen' = kWarmupDiscard
          /\ warmupSeen' < kWarmupDiscard => recorded' = 0 /\ pushFailures' = 0
          /\ recorded' = Len(pushed) + pushFailures'
      <3>1. CASE /\ rxPc' = "poll"
                 /\ UNCHANGED <<lastIdx, warmupSeen, recorded, lost, pushFailures, baseIdx>>
        <4>0. recorded + lost + 0 = recorded + lost  BY <1>a
        <4>1. LossAccounting'  BY <2>3, <3>1, <4>0 DEF LossAccounting
        <4> QED  BY <2>4, <2>5, <3>1, <4>1
      <3>2. CASE /\ lastIdx' = f /\ warmupSeen < kWarmupDiscard /\ warmupSeen' = warmupSeen + 1
                 /\ rxPc' = "poll" /\ recorded' = recorded
                 /\ IF warmupSeen' = kWarmupDiscard
                    THEN lost' = 0 /\ pushFailures' = 0 /\ baseIdx' = f
                    ELSE UNCHANGED <<pushFailures, baseIdx>>
        BY <1>a, <2>2, <2>4, <2>5, <3>2 DEF LossAccounting
      <3>3. CASE /\ lastIdx' = f /\ warmupSeen >= kWarmupDiscard /\ rxPc' = "push"
                 /\ lost' = lost + ((f - lastIdx) - 1)
                 /\ UNCHANGED <<warmupSeen, recorded, pushFailures, baseIdx>>
        BY <1>a, <2>2, <2>3, <2>4, <3>3 DEF LossAccounting
      <3> QED  BY <1>3, <3>1, <3>2, <3>3, ReceiveOutcomes
    <2>7. recorded' = recorded  BY <1>3, ReceiveOutcomes
    <2> QED  BY <1>0, <1>a, <2>1, <2>6, <2>7 DEF CountInv
  <1>4. CASE RxPush
    <2>1. /\ rxPc = "push" /\ rxPc' = "poll" /\ recorded' = recorded + 1
          /\ UNCHANGED <<histVars, lastIdx, warmupSeen, lost, baseIdx>>
      BY <1>4 DEF RxPush, gateVars
    <2>2. Len(pushed') + pushFailures' = Len(pushed) + pushFailures + 1
      <3>1. CASE Push(lastIdx) /\ UNCHANGED pushFailures
        <4>1. lastIdx \in Sample /\ popped' = popped  BY <1>a, <2>1 DEF Sample, histVars
        <4>2. Len(pushed') = Len(pushed) + 1  BY <1>0, <3>1, <4>1, PushFifo
        <4> QED  BY <1>a, <3>1, <4>2
      <3>2. CASE ~(Push(lastIdx) /\ UNCHANGED pushFailures)
        <4>1. pushFailures' = pushFailures + 1 /\ pushed' = pushed  BY <1>4, <3>2 DEF RxPush
        <4> QED  BY <1>a, <4>1
      <3> QED  BY <3>1, <3>2
    <2>3. /\ warmupSeen = kWarmupDiscard /\ recorded = Len(pushed) + pushFailures
          /\ lastIdx - baseIdx = recorded + lost + 1
      BY <1>0, <1>a, <2>1 DEF CountInv, LossAccounting
    <2>4. LossAccounting'  BY <1>a, <2>1, <2>3 DEF LossAccounting
    <2>5. recorded' + 0 = Len(pushed') + pushFailures'  BY <1>a, <2>1, <2>2, <2>3
    <2> QED  BY <1>0, <1>a, <2>1, <2>3, <2>4, <2>5 DEF CountInv, histVars
  <1>5. CASE RxSentinel
    <2>1. /\ rxPc = "sentinel" /\ rxPc' = "done" /\ UNCHANGED <<histVars, lastIdx>>
          /\ UNCHANGED <<warmupSeen, lost, baseIdx, recorded, pushFailures>>
          /\ Push(kEndSentinel) /\ kEndSentinel \in Sample
      BY <1>5 DEF RxSentinel, gateVars, countVars, Sample
    <2>2. popped' = popped  BY <2>1 DEF histVars
    <2>3. Len(pushed') = Len(pushed) + 1  BY <1>0, <2>1, <2>2, PushFifo
    <2>4. recorded = Len(pushed) + pushFailures  BY <1>0, <1>a, <2>1 DEF CountInv
    <2>5. recorded' + 1 = Len(pushed') + pushFailures'  BY <1>a, <2>1, <2>3, <2>4
    <2> QED  BY <1>0, <2>1, <2>5 DEF CountInv, LossAccounting, histVars
  <1>6. CASE RxPollEmpty \/ RxCheckDone \/ RxStray
    <2>1. /\ UNCHANGED <<pushed, histVars, lastIdx>> /\ UNCHANGED countVars
          /\ rxPc \in {"poll", "check"} /\ rxPc' \notin {"push", "done"}
      BY <1>6 DEF RxPollEmpty, RxCheckDone, RxStray, hvars, gateVars
    <2> QED  BY <1>0, <2>1 DEF CountInv, LossAccounting, histVars, countVars
  <1> QED  BY <1>1, <1>2, <1>3, <1>4, <1>5, <1>6 DEF Next, Rx

-----------------------------------------------------------------------------
(* The theorems.                                                           *)

\* The invariant holds in every reachable state.
THEOREM Invariance == Spec => []IInv
  <1>1. IInv /\ [Next]_vars => IInv'
    <2>1. IInv => TypeOK  BY DEF IInv
    <2>2. IInv' <=> TypeOK' /\ FifoInv' /\ EndInv' /\ GateInv' /\ OrderInv' /\ CountInv'
      BY DEF IInv
    <2> QED  BY <2>1, <2>2, TypeStep, QueueStep, GateStep, OrderStep, CountStep
  <1> QED  BY <1>1, InitIInv, PTL DEF Spec

\* The variables keep their types.
THEOREM TypeCorrect == Spec => []TypeOK
  <1>1. IInv => TypeOK  BY DEF IInv
  <1> QED  BY <1>1, Invariance, PTL

\* The in-band end marker loses no tail: a recorder that ended on it has taken every
\* sample, whatever the capacity of the queue and however the threads interleave.
THEOREM EndMarkerComplete == Spec => []NoLostTail
  <1>1. IInv => NoLostTail
    <2> SUFFICES ASSUME IInv, histPc = "ended"
                 PROVE  queue = << >> /\ popped = pushed /\ rxPc = "done"
      BY DEF NoLostTail
    <2>1. FifoInv /\ EndInv /\ TypeOK  BY DEF IInv
    <2>2. /\ queue \in Seq(Sample) /\ pushed \in Seq(Sample) /\ popped \in Seq(Sample)
          /\ Len(queue) \in Nat /\ Len(popped) \in Nat /\ Len(pushed) \in Nat
      BY <2>1 DEF TypeOK
    <2>3. Len(popped) \in 1..Len(pushed) /\ pushed[Len(popped)] = kEndSentinel
      <3>1. Len(popped) > 0 /\ popped[Len(popped)] = kEndSentinel  BY <2>1 DEF EndInv
      <3> QED  BY <2>1, <2>2, <3>1 DEF FifoInv
    <2>4. Len(popped) = Len(pushed) /\ rxPc = "done"  BY <2>1, <2>3 DEF EndInv
    <2>5. Len(queue) = 0  BY <2>1, <2>2, <2>4 DEF FifoInv
    <2>6. queue = << >>  BY <2>2, <2>5, EmptySeq
    <2>7. popped = pushed
      <3>1. \A i \in 1..Len(popped) : popped[i] = pushed[i]  BY <2>1 DEF FifoInv
      <3> QED  BY <2>2, <2>4, <3>1, SeqEqual
    <2> QED  BY <2>4, <2>6, <2>7
  <1> QED  BY <1>1, Invariance, PTL

\* No frame is recorded twice or behind a newer one, for every width of the sequence
\* number, provided the link delays no frame by half of the sequence space.
THEOREM SendOrder == Spec => []RecordedInSendOrder
  <1>1. IInv => RecordedInSendOrder  BY DEF IInv, OrderInv
  <1> QED  BY <1>1, Invariance, PTL

\* The recorded and the lost frames account for every frame sent since the warmup.
THEOREM LossesAccounted == Spec => []LossAccounting
  <1>1. IInv => LossAccounting  BY DEF IInv, CountInv
  <1> QED  BY <1>1, Invariance, PTL

\* After a complete drain the report, the failed pushes and Rx's count agree.
THEOREM ReportMatches == Spec => []RecordedMatchesReport
  <1>1. IInv /\ NoLostTail => RecordedMatchesReport
    <2> SUFFICES ASSUME IInv, NoLostTail, histPc = "ended"
                 PROVE  histRecorded + histDropped + pushFailures = recorded
      BY DEF RecordedMatchesReport
    <2>1. popped = pushed /\ rxPc = "done"  BY DEF NoLostTail
    <2>2. /\ histRecorded \in Nat /\ histDropped \in Nat /\ pushFailures \in Nat
          /\ recorded \in Nat /\ Len(pushed) \in Nat
      BY DEF IInv, TypeOK
    <2>3. /\ recorded + 1 = Len(pushed) + pushFailures
          /\ histRecorded + histDropped + 1 = Len(popped)
      BY <2>1 DEF IInv, CountInv
    <2> QED  BY <2>1, <2>2, <2>3
  <1> QED  BY <1>1, Invariance, EndMarkerComplete, PTL

=============================================================================
