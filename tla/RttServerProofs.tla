--------------------------- MODULE RttServerProofs --------------------------
(***************************************************************************)
(* Proofs for the reflector, for every ring size, queue capacity, warm-up  *)
(* and number of frames: it implements Reflector, and every recorded       *)
(* turnaround pairs the stamps of a frame and its own answer.  And for     *)
(* every width of the clock: what the decoder makes of such a pair is the  *)
(* time between the two events.                                            *)
(***************************************************************************)
EXTENDS RttServer, HwDecode, RingArithmetic, SequenceTheorems, TLAPS

Frames == 0..MaxArrivals - 1

\* Frames are neither made nor answered twice: those answered, in hand and waiting are some
\* of those that arrived.  A slot that acquire() found free stays so until it is sent.
CountInv ==
  /\ rxRing \in Seq(Frames) /\ echoed \in Seq(Frames)
  /\ Len(echoed) + Len(rxRing) + (IF inHand = None THEN 0 ELSE 1) <= arrived
  /\ ringChecked /\ pc \in {"copy", "release", "commit"} => Len(echoed) - txTail < NbTxBufs
  /\ pc \in {"acquire", "copy", "release", "commit"} => polls < PollBudget

\* Where the frame in hand has its payload, and which answer the pair in flight is about.
HandInv ==
  /\ inHand # None <=> pc \in {"acquire", "copy", "release", "commit"}
  /\ pc \in {"acquire", "copy"} => rxf = inHand
  /\ pc \in {"release", "commit"} => dst = inHand
  /\ echoed # << >> => rxInFlight = echoed[Len(echoed)]
  /\ pc # "commit" /\ echoed # << >> => txSeqInFlight = Len(echoed) - 1
  /\ pc = "commit" => txSeqInFlight = Len(echoed)

\* A stamp with the tag of a send is that send's.
StampInv ==
  /\ txStamp \in [0..NbTxBufs - 1 -> [seq: Nat, minor: Nat \cup {NoStamp}]]
  /\ \A k \in 0..txTail - 1 : EntryAt(k).seq = k => EntryAt(k).minor = k

\* The pairs pushed; the end marker comes last, and only with hardware timestamps.
Pairs == IF hwTs /\ pc \in {"join", "returned"} THEN Len(pushed) - 1 ELSE Len(pushed)

PairInv ==
  /\ pc = "join" => hwTs
  /\ hwTs /\ pc \in {"join", "returned"} =>
       pushed # << >> /\ pushed[Len(pushed)] = kEndSentinel
  /\ \A i \in 1..Pairs :
       /\ pushed[i] \in Frames \X Frames
       /\ pushed[i][2] < txTsCursor
       /\ echoed[pushed[i][2] + 1] = pushed[i][1]
  /\ \A i, j \in 1..Pairs : i < j => pushed[i][2] < pushed[j][2]

IInv == TypeOK /\ CountInv /\ HandInv /\ StampInv /\ PairInv

-----------------------------------------------------------------------------
(* Constants and sequences *)

\* What is assumed of the constants, as the provers use it.
LEMMA Constants ==
  /\ recQueueCapacity \in Nat /\ NbTxBufs \in Nat /\ NbTxBufs > 0
  /\ PollBudget \in Nat /\ PollBudget > 0 /\ RxSlots \in Nat
  /\ kWarmupDiscard \in Nat /\ MaxArrivals \in Nat /\ None = -1
  BY CapacityAssumption, NbTxBufsAssumption, ServerAssumption DEF None

\* Initially nothing has arrived and nothing is stamped.
LEMMA InitIInv == Init => IInv
  <1> SUFFICES ASSUME Init PROVE IInv  OBVIOUS
  <1> USE Constants DEF Init, HInit, StampInit
  <1>0. {stop, hwTs, ringChecked} \subseteq BOOLEAN  BY Zenon
  <1>1. TypeOK  BY <1>0 DEF TypeOK, Payload, Sample
  <1>2. CountInv  BY DEF CountInv
  <1>3. HandInv  BY DEF HandInv
  <1>4. StampInv  BY DEF StampInv, EntryAt
  <1>5. PairInv  BY DEF PairInv, Pairs
  <1> QED  BY <1>1, <1>2, <1>3, <1>4, <1>5 DEF IInv

\* A push of a sample keeps the queue and its history sequences of samples.
LEMMA PushType ==
  ASSUME TypeOK, NEW v \in Sample, Push(v)
  PROVE  queue' \in Seq(Sample) /\ pushed' \in Seq(Sample)
  BY DEF Push, TypeOK

\* The stamp an idle poll pairs is that of the last answer, and it is new.
LEMMA PolledPair ==
  ASSUME IInv, pc = "poll", NEW t \in Polled, Paired(t)
  PROVE  /\ txTsCursor < txTail /\ CursorAfterPoll = txTsCursor + 1
         /\ t.minor = txTsCursor /\ txTsCursor = Len(echoed) - 1
         /\ txTsCursor \in Frames
         /\ rxInFlight = echoed[txTsCursor + 1] /\ rxInFlight \in Frames
  <1> USE Constants DEF IInv
  <1>1. /\ txTail \in 0..Len(echoed) /\ txTsCursor \in 0..txTail /\ Len(echoed) \in Nat
        /\ echoed \in Seq(Frames) /\ Len(echoed) <= arrived /\ arrived \in 0..MaxArrivals
    <2>1. echoed \in Seq(Frames) /\ rxRing \in Seq(Frames)  BY DEF CountInv
    <2>2. Len(echoed) \in Nat /\ Len(rxRing) \in Nat  BY <2>1, LenProperties
    <2> QED  BY <2>1, <2>2 DEF TypeOK, CountInv
  <1>2. txTsCursor # txTail /\ ~Overwritten /\ t = EntryAt(txTsCursor)
    BY DEF Polled
  <1>3. txTsCursor < txTail /\ t.seq = txTsCursor  BY <1>1, <1>2 DEF Overwritten
  <1>4. t.minor = txTsCursor  BY <1>1, <1>2, <1>3 DEF StampInv
  <1>5. echoed # << >> /\ Len(echoed) > 0  BY <1>1, <1>3
  <1>6. txSeqInFlight = Len(echoed) - 1 /\ rxInFlight = echoed[Len(echoed)]
    BY <1>5 DEF HandInv
  <1>7. txTsCursor = Len(echoed) - 1  BY <1>3, <1>6 DEF Paired
  <1>8. echoed[Len(echoed)] \in Frames  BY <1>1, <1>5, ElementOfSeq
  <1> QED  BY <1>1, <1>2, <1>3, <1>4, <1>6, <1>7, <1>8 DEF CursorAfterPoll, Frames

\* An idle poll moves the cursor forward, up to the last stamp.
LEMMA CursorAdvances ==
  ASSUME TypeOK
  PROVE  CursorAfterPoll \in txTsCursor..txTail
  BY DEF TypeOK, CursorAfterPoll, Overwritten

-----------------------------------------------------------------------------
(* Each conjunct of the invariant, kept by every step *)

\* Every step keeps the types.
LEMMA StepTypeOK == IInv /\ [Next]_vars => TypeOK'
  <1> SUFFICES ASSUME IInv, [Next]_vars PROVE TypeOK'  OBVIOUS
  <1> USE Constants DEF hvars, histVars, stampVars, rxVars, pairVars, countVars
  <1>0. TypeOK /\ Frames \subseteq Payload /\ None \in Payload  BY DEF IInv, Payload, Frames
  <1>1. CASE CheckStop  BY <1>0, <1>1 DEF CheckStop, TypeOK
  <1>2. CASE PollEmpty
    <2>1. /\ polls' \in 0..PollBudget /\ hwTs' = hwTs /\ txTail' = txTail
          /\ txTsCursor' \in 0..txTail
      BY <1>0, <1>2, CursorAdvances DEF PollEmpty, TypeOK
    <2>2. queue' \in Seq(Sample) /\ pushed' \in Seq(Sample)
      <3>1. CASE UNCHANGED <<queue, pushed>>  BY <1>0, <3>1 DEF TypeOK
      <3>2. ASSUME NEW t \in Polled, Paired(t), Push(<<rxInFlight, t.minor>>)
            PROVE  queue' \in Seq(Sample) /\ pushed' \in Seq(Sample)
        <4>1. <<rxInFlight, t.minor>> \in Sample
          BY <1>2, <3>2, PolledPair DEF PollEmpty, Sample, Frames
        <4> QED  BY <1>0, <3>2, <4>1, PushType
      <3> QED  BY <1>2, <3>1, <3>2 DEF PollEmpty
    <2>3. hwWarmup' \in 0..kWarmupDiscard /\ pushFailures' \in Nat
      <3>1. \/ hwWarmup' = hwWarmup /\ pushFailures' = pushFailures
            \/ hwWarmup < kWarmupDiscard /\ hwWarmup' = hwWarmup + 1 /\ pushFailures' = pushFailures
            \/ hwWarmup' = hwWarmup /\ pushFailures' = pushFailures + 1
        BY <1>2, Zenon DEF PollEmpty
      <3>2. hwWarmup \in 0..kWarmupDiscard /\ pushFailures \in Nat  BY <1>0 DEF TypeOK
      <3> QED  BY <3>1, <3>2
    <2> QED  BY <1>0, <1>2, <2>1, <2>2, <2>3 DEF PollEmpty, TypeOK
  <1>3. CASE Receive
    <2>1. Head(rxRing) \in Payload /\ Tail(rxRing) \in Seq(Payload)
      BY <1>0, <1>3, HeadTailProperties DEF TypeOK, Receive
    <2> QED  BY <1>0, <1>3, <2>1 DEF Receive, TypeOK
  <1>4. CASE Acquire  BY <1>0, <1>4 DEF Acquire, TypeOK
  <1>5. CASE Copy  BY <1>0, <1>5 DEF Copy, TypeOK
  <1>6. CASE Release  BY <1>0, <1>6 DEF Release, TypeOK
  <1>7. CASE Commit
    <2>1. echoed' \in Seq(Payload) /\ Len(echoed') = Len(echoed) + 1 /\ Len(echoed) \in Nat
      BY <1>0, <1>7, AppendProperties DEF Commit, TypeOK
    <2>2. (ringChecked => Len(echoed) - txTail < NbTxBufs) /\ polls < PollBudget
      BY <1>7 DEF IInv, CountInv, Commit
    <2>3. txTail \in 0..Len(echoed) /\ polls \in 0..PollBudget  BY <1>0 DEF TypeOK
    <2>4. /\ txTail \in 0..Len(echoed') /\ (ringChecked => Len(echoed') - txTail <= NbTxBufs)
          /\ polls + 1 \in 0..PollBudget
      BY <2>1, <2>2, <2>3
    <2> QED  BY <1>0, <1>7, <2>1, <2>4 DEF Commit, TypeOK
  <1>8. CASE Sentinel
    <2>1. queue' \in Seq(Sample) /\ pushed' \in Seq(Sample)
      <3>1. kEndSentinel \in Sample  BY DEF Sample
      <3> QED  BY <1>0, <1>8, <3>1, PushType DEF Sentinel, TypeOK
    <2> QED  BY <1>0, <1>8, <2>1 DEF Sentinel, TypeOK
  <1>9. CASE Join  BY <1>0, <1>9 DEF Join, TypeOK
  <1>10. CASE Hist
    <2>1. /\ queue' \in Seq(Sample) /\ popped' \in Seq(Sample)
          /\ histPc' \in {"init", "poll", "check", "ended", "stopped", "failed"}
          /\ histRecorded' \in Nat /\ histDropped' \in Nat /\ stop' = stop /\ pushed' = pushed
      <3>1. CASE HistPop
        <4>1. Head(queue) \in Sample /\ Tail(queue) \in Seq(Sample)
          BY <1>0, <3>1, HeadTailProperties DEF TypeOK, HistPop
        <4> QED  BY <1>0, <3>1, <4>1 DEF HistPop, TypeOK
      <3>2. CASE HdrInitFails \/ HdrInit \/ HistFrontEmpty \/ HistCheckStop
        BY <1>0, <3>2 DEF HdrInitFails, HdrInit, HistFrontEmpty, HistCheckStop, TypeOK
      <3> QED  BY <1>10, <3>1, <3>2 DEF Hist, HistNext
    <2> QED  BY <1>0, <1>10, <2>1 DEF Hist, Rest, TypeOK
  <1>11. CASE Signal
    BY <1>0, <1>11 DEF Signal, RequestStop, Rest, TypeOK
  <1>12. CASE Arrive
    <2>1. rxRing' \in Seq(Payload)
      <3>1. arrived \in Payload  BY <1>0, <1>12 DEF Arrive, TypeOK, Payload
      <3> QED  BY <1>0, <1>12, <3>1, AppendProperties DEF Arrive, TypeOK
    <2> QED  BY <1>0, <1>12, <2>1 DEF Arrive, TypeOK
  <1>13. CASE Overwrite
    BY <1>0, <1>13 DEF Overwrite, TypeOK
  <1>14. CASE CompleteSend
    <2>1. /\ UNCHANGED <<hvars, hwTs, ringChecked, pc, polls, rxVars, rxf, dst, inHand, echoed,
                         pairVars, countVars, txTsCursor>>
          /\ txTail < Len(echoed) /\ txTail' = txTail + 1
      BY <1>14 DEF CompleteSend, Complete
    <2>2. Len(echoed) \in Nat  BY <1>0 DEF TypeOK
    <2>3. /\ txTail' \in 0..Len(echoed) /\ txTsCursor \in 0..txTail'
          /\ (ringChecked => Len(echoed) - txTail' <= NbTxBufs)
      BY <1>0, <2>1, <2>2 DEF TypeOK
    <2> QED  BY <1>0, <2>1, <2>3 DEF TypeOK
  <1>15. CASE UNCHANGED vars
    BY <1>0, <1>15 DEF vars, TypeOK
  <1> QED  BY <1>1, <1>2, <1>3, <1>4, <1>5, <1>6, <1>7, <1>8, <1>9, <1>10, <1>11, <1>12, <1>13,
              <1>14, <1>15 DEF Next, Server, Nic, Done

\* No step makes a frame, and none sends without a free slot.
LEMMA StepCountInv == IInv /\ [Next]_vars => CountInv'
  <1> SUFFICES ASSUME IInv, [Next]_vars PROVE CountInv'  OBVIOUS
  <1> USE Constants
  <1>0. TypeOK /\ CountInv /\ HandInv  BY DEF IInv
  <1>00. /\ rxRing \in Seq(Frames) /\ echoed \in Seq(Frames)
         /\ Len(rxRing) \in Nat /\ Len(echoed) \in Nat /\ arrived \in Nat
    BY <1>0, LenProperties DEF CountInv, TypeOK
  <1>1. CASE CheckStop  BY <1>0, <1>1 DEF CheckStop, CountInv, stampVars, rxVars
  <1>2. CASE PollEmpty  BY <1>0, <1>2 DEF PollEmpty, CountInv, stampVars, rxVars
  <1>3. CASE Receive
    <2>1. /\ Head(rxRing) \in Frames /\ rxRing' \in Seq(Frames) /\ Len(rxRing') = Len(rxRing) - 1
      BY <1>00, <1>3, HeadTailProperties DEF Receive
    <2>2. inHand = None  BY <1>0, <1>3 DEF Receive, HandInv
    <2> QED  BY <1>0, <1>00, <1>3, <2>1, <2>2 DEF Receive, CountInv, stampVars, Frames
  <1>4. CASE Acquire
    <2>1. inHand' \in {inHand, None} /\ Len(echoed') = Len(echoed) /\ Len(rxRing') = Len(rxRing)
          /\ txTail' = txTail /\ arrived' = arrived
      BY <1>4 DEF Acquire, stampVars, rxVars
    <2> QED  BY <1>0, <1>00, <1>4, <2>1 DEF Acquire, TxRoom, CountInv, rxVars
  <1>5. CASE Copy  BY <1>0, <1>5 DEF Copy, CountInv, stampVars, rxVars
  <1>6. CASE Release  BY <1>0, <1>6 DEF Release, CountInv, stampVars, rxVars
  <1>7. CASE Commit
    <2>1. dst = inHand /\ inHand # None /\ inHand \in Payload
      BY <1>0, <1>7 DEF Commit, HandInv, TypeOK
    <2>2. dst \in Frames  BY <2>1 DEF Payload, Frames
    <2>3. echoed' \in Seq(Frames) /\ Len(echoed') = Len(echoed) + 1
      BY <1>00, <1>7, <2>2, AppendProperties DEF Commit
    <2> QED  BY <1>0, <1>00, <1>7, <2>1, <2>3 DEF Commit, CountInv, stampVars, rxVars
  <1>8. CASE Sentinel  BY <1>0, <1>8 DEF Sentinel, CountInv, stampVars, rxVars
  <1>9. CASE Join  BY <1>0, <1>9 DEF Join, CountInv, stampVars, rxVars
  <1>10. CASE Hist \/ Signal  BY <1>0, <1>10 DEF Hist, Signal, Rest, CountInv, stampVars, rxVars
  <1>12. CASE Arrive
    <2>1. arrived \in Frames  BY <1>0, <1>12 DEF Arrive, TypeOK, Frames
    <2>2. rxRing' \in Seq(Frames) /\ Len(rxRing') = Len(rxRing) + 1
      BY <1>00, <1>12, <2>1, AppendProperties DEF Arrive
    <2> QED  BY <1>0, <1>00, <1>12, <2>2 DEF Arrive, CountInv, stampVars
  <1>13. CASE Overwrite  BY <1>0, <1>13 DEF Overwrite, CountInv, stampVars, rxVars
  <1>14. CASE CompleteSend
    BY <1>0, <1>00, <1>14 DEF CompleteSend, Complete, CountInv, TypeOK, rxVars
  <1>15. CASE UNCHANGED vars  BY <1>0, <1>15 DEF vars, CountInv, stampVars, rxVars
  <1> QED  BY <1>1, <1>2, <1>3, <1>4, <1>5, <1>6, <1>7, <1>8, <1>9, <1>10, <1>12, <1>13,
              <1>14, <1>15 DEF Next, Server, Nic, Done

\* The payload in hand stays with its frame until it is sent.
LEMMA StepHandInv == IInv /\ [Next]_vars => HandInv'
  <1> SUFFICES ASSUME IInv, [Next]_vars PROVE HandInv'  OBVIOUS
  <1> USE Constants
  <1>0. TypeOK /\ CountInv /\ HandInv  BY DEF IInv
  <1>1. CASE CheckStop  BY <1>0, <1>1 DEF CheckStop, HandInv, pairVars
  <1>2. CASE PollEmpty  BY <1>0, <1>2 DEF PollEmpty, HandInv, pairVars
  <1>3. CASE Receive
    <2>1. Head(rxRing) \in Frames  BY <1>0, <1>3, HeadTailProperties DEF Receive, CountInv
    <2>2. Head(rxRing) # None  BY <2>1 DEF Frames
    <2> QED  BY <1>0, <1>3, <2>2 DEF Receive, HandInv, pairVars
  <1>4. CASE Acquire  BY <1>0, <1>4 DEF Acquire, HandInv, pairVars
  <1>5. CASE Copy  BY <1>0, <1>5 DEF Copy, HandInv, pairVars
  <1>6. CASE Release  BY <1>0, <1>6 DEF Release, HandInv
  <1>7. CASE Commit
    <2>1. /\ echoed' # << >> /\ Len(echoed') = Len(echoed) + 1 /\ Len(echoed) \in Nat
          /\ echoed'[Len(echoed')] = dst
      <3>1. echoed \in Seq(Payload) /\ dst \in Payload /\ echoed' = Append(echoed, dst)
        BY <1>0, <1>7 DEF Commit, TypeOK
      <3> QED  BY <3>1, AppendProperties
    <2> QED  BY <1>0, <1>7, <2>1 DEF Commit, HandInv
  <1>8. CASE Sentinel  BY <1>0, <1>8 DEF Sentinel, HandInv, pairVars
  <1>9. CASE Join  BY <1>0, <1>9 DEF Join, HandInv, pairVars
  <1>10. CASE Hist \/ Signal  BY <1>0, <1>10 DEF Hist, Signal, Rest, HandInv, pairVars
  <1>12. CASE Arrive  BY <1>0, <1>12 DEF Arrive, HandInv, pairVars
  <1>13. CASE Overwrite  BY <1>0, <1>13 DEF Overwrite, HandInv, pairVars
  <1>14. CASE CompleteSend  BY <1>0, <1>14 DEF CompleteSend, HandInv, pairVars
  <1>15. CASE UNCHANGED vars  BY <1>0, <1>15 DEF vars, HandInv, pairVars
  <1> QED  BY <1>1, <1>2, <1>3, <1>4, <1>5, <1>6, <1>7, <1>8, <1>9, <1>10, <1>12, <1>13,
              <1>14, <1>15 DEF Next, Server, Nic, Done

\* Only a completion writes a stamp, with the tag of its send.
LEMMA StepStampInv == IInv /\ [Next]_vars => StampInv'
  <1> SUFFICES ASSUME IInv, [Next]_vars PROVE StampInv'  OBVIOUS
  <1> USE Constants
  <1>0. StampInv /\ txTail \in Nat
    <2>1. TypeOK /\ Len(echoed) \in Nat  BY LenProperties DEF IInv, TypeOK
    <2> QED  BY <2>1 DEF IInv, TypeOK
  <1>1. CASE CompleteSend
    <2>1. /\ txStamp' = [txStamp EXCEPT ![txTail % NbTxBufs] = [seq |-> txTail, minor |-> txTail]]
          /\ txTail' = txTail + 1
      BY <1>1 DEF CompleteSend, Complete
    <2>2. \A k \in Nat : k % NbTxBufs \in 0..NbTxBufs - 1  BY DivMod
    <2>3. txStamp' \in [0..NbTxBufs - 1 -> [seq: Nat, minor: Nat \cup {NoStamp}]]
      BY <1>0, <2>1, <2>2 DEF StampInv
    <2>4. ASSUME NEW k \in 0..txTail' - 1, EntryAt(k)'.seq = k
          PROVE  EntryAt(k)'.minor = k
      <3>1. k \in Nat /\ k % NbTxBufs \in 0..NbTxBufs - 1 /\ (k < txTail \/ k = txTail)
        BY <1>0, <2>1, <2>2
      <3>2. CASE k % NbTxBufs = txTail % NbTxBufs
        <4>1. EntryAt(k)' = [seq |-> txTail, minor |-> txTail]
          BY <1>0, <2>1, <2>2, <3>1, <3>2 DEF EntryAt, StampInv
        <4> QED  BY <2>4, <4>1
      <3>3. CASE k % NbTxBufs # txTail % NbTxBufs
        <4>1. EntryAt(k)' = EntryAt(k) /\ k < txTail
          BY <1>0, <2>1, <2>2, <3>1, <3>3 DEF EntryAt, StampInv
        <4> QED  BY <1>0, <2>4, <3>1, <4>1 DEF StampInv
      <3> QED  BY <3>2, <3>3
    <2> QED  BY <2>3, <2>4 DEF StampInv
  <1>2. CASE UNCHANGED <<txStamp, txTail>>  BY <1>0, <1>2 DEF StampInv, EntryAt
  <1>3. CASE PollEmpty  BY <1>2, <1>3 DEF PollEmpty, stampVars
  <1>4. CASE CheckStop \/ Receive \/ Acquire \/ Copy \/ Release \/ Commit \/ Sentinel \/ Join
    BY <1>2, <1>4
    DEF CheckStop, Receive, Acquire, Copy, Release, Commit, Sentinel, Join, stampVars
  <1>5. CASE Hist \/ Signal \/ Arrive \/ Overwrite \/ UNCHANGED vars
    BY <1>2, <1>5 DEF Hist, Signal, Rest, Arrive, Overwrite, vars, stampVars
  <1> QED  BY <1>1, <1>3, <1>4, <1>5 DEF Next, Server, Nic, Done

\* A step that pushes nothing and answers nothing keeps the pairs.
LEMMA SamePairs ==
  ASSUME IInv, UNCHANGED <<hwTs, pushed, echoed>>, txTsCursor' \in Nat, txTsCursor' >= txTsCursor,
         pc' = "join" => pc = "join",
         pc \in {"join", "returned"} <=> pc' \in {"join", "returned"}
  PROVE  PairInv'
  <1>0. PairInv /\ txTsCursor \in Nat /\ Pairs' = Pairs
    <2>1. TypeOK /\ Len(echoed) \in Nat  BY LenProperties DEF IInv, TypeOK
    <2> QED  BY <2>1 DEF IInv, TypeOK, Pairs
  <1>1. ASSUME NEW i \in 1..Pairs
        PROVE  /\ pushed[i] \in Frames \X Frames /\ pushed[i][2] < txTsCursor'
               /\ echoed[pushed[i][2] + 1] = pushed[i][1]
    <2>1. pushed[i] \in Frames \X Frames /\ pushed[i][2] < txTsCursor  BY <1>0 DEF PairInv
    <2>2. pushed[i][2] \in Int  BY <2>1, Constants DEF Frames
    <2> QED  BY <1>0, <2>1, <2>2 DEF PairInv
  <1> QED  BY <1>0, <1>1 DEF PairInv

\* Every pair pushed is of a frame and its answer, and later than the pairs before it.
LEMMA StepPairInv == IInv /\ [Next]_vars => PairInv'
  <1> SUFFICES ASSUME IInv, [Next]_vars PROVE PairInv'  OBVIOUS
  <1> USE Constants
  <1>0. /\ TypeOK /\ PairInv /\ txTsCursor \in Nat /\ txTail \in Nat /\ Len(pushed) \in Nat
        /\ txTsCursor <= txTail /\ txTail <= Len(echoed) /\ Len(echoed) \in Nat
    <2>1. TypeOK /\ Len(echoed) \in Nat /\ Len(pushed) \in Nat  BY LenProperties DEF IInv, TypeOK
    <2> QED  BY <2>1 DEF IInv, TypeOK
  <1>1. CASE CheckStop  BY <1>0, <1>1, SamePairs DEF CheckStop, hvars, stampVars
  <1>2. CASE PollEmpty
    <2>0. /\ pc = "poll" /\ UNCHANGED <<pc, hwTs, echoed>>
          /\ Pairs = Len(pushed) /\ Pairs' = Len(pushed')
      BY <1>2 DEF PollEmpty, stampVars, Pairs
    <2>00. txTsCursor' \in Nat /\ txTsCursor' >= txTsCursor
      BY <1>0, <1>2, CursorAdvances DEF PollEmpty, stampVars
    <2>1. CASE UNCHANGED pushed  BY <2>0, <2>00, <2>1, SamePairs
    <2>2. ASSUME NEW t \in Polled, Paired(t), Push(<<rxInFlight, t.minor>>),
                 txTsCursor' = CursorAfterPoll
          PROVE  PairInv'
      <3> DEFINE v == <<rxInFlight, txTsCursor>>
      <3>1. /\ t.minor = txTsCursor /\ txTsCursor' = txTsCursor + 1 /\ v \in Frames \X Frames
            /\ echoed[txTsCursor + 1] = rxInFlight
        BY <2>0, <2>2, PolledPair
      <3>2. pushed' = Append(pushed, v)  BY <2>2, <3>1 DEF Push
      <3>3. /\ Len(pushed') = Len(pushed) + 1 /\ pushed'[Len(pushed) + 1] = v
            /\ \A i \in 1..Len(pushed) : pushed'[i] = pushed[i]
        <4>1. pushed \in Seq(Sample) /\ v \in Sample  BY <1>0, <3>1 DEF TypeOK, Sample, Frames
        <4> HIDE DEF v
        <4> QED  BY <3>2, <4>1, AppendProperties
      <3>4. v[1] = rxInFlight /\ v[2] = txTsCursor  OBVIOUS
      <3> HIDE DEF v
      <3>5. ASSUME NEW i \in 1..Len(pushed)
            PROVE  /\ pushed'[i] \in Frames \X Frames /\ pushed'[i][2] < txTsCursor
                   /\ pushed'[i][2] \in Int /\ echoed[pushed'[i][2] + 1] = pushed'[i][1]
        <4>1. /\ pushed[i] \in Frames \X Frames /\ pushed[i][2] < txTsCursor
              /\ echoed[pushed[i][2] + 1] = pushed[i][1]
          BY <1>0, <2>0 DEF PairInv
        <4>2. pushed[i][2] \in Int  BY <4>1 DEF Frames
        <4> QED  BY <3>3, <4>1, <4>2
      <3>6. ASSUME NEW i \in 1..Len(pushed')
            PROVE  /\ pushed'[i] \in Frames \X Frames /\ pushed'[i][2] < txTsCursor'
                   /\ echoed'[pushed'[i][2] + 1] = pushed'[i][1]
        <4>1. CASE i \in 1..Len(pushed)  BY <1>0, <2>0, <3>1, <3>5, <4>1
        <4>2. CASE i = Len(pushed) + 1  BY <1>0, <2>0, <3>1, <3>3, <3>4, <4>2
        <4> QED  BY <1>0, <3>3, <4>1, <4>2
      <3>7. ASSUME NEW i \in 1..Len(pushed'), NEW j \in 1..Len(pushed'), i < j
            PROVE  pushed'[i][2] < pushed'[j][2]
        <4>1. i \in 1..Len(pushed)  BY <1>0, <3>3, <3>7
        <4>2. CASE j \in 1..Len(pushed)
          BY <1>0, <2>0, <3>3, <3>7, <4>1, <4>2 DEF PairInv
        <4>3. CASE j = Len(pushed) + 1  BY <3>3, <3>4, <3>5, <4>1, <4>3
        <4> QED  BY <1>0, <3>3, <4>2, <4>3
      <3> QED  BY <2>0, <3>6, <3>7 DEF PairInv
    <2>3. \/ UNCHANGED pushed
          \/ \E t \in Polled : /\ Paired(t) /\ Push(<<rxInFlight, t.minor>>)
                               /\ txTsCursor' = CursorAfterPoll
      BY <1>2, Zenon DEF PollEmpty
    <2> QED  BY <2>1, <2>2, <2>3
  <1>3. CASE Receive  BY <1>0, <1>3, SamePairs DEF Receive, hvars, stampVars
  <1>4. CASE Acquire  BY <1>0, <1>4, SamePairs DEF Acquire, hvars, stampVars
  <1>5. CASE Copy  BY <1>0, <1>5, SamePairs DEF Copy, hvars, stampVars
  <1>6. CASE Release  BY <1>0, <1>6, SamePairs DEF Release, hvars, stampVars
  <1>7. CASE Commit
    <2>1. /\ UNCHANGED <<pushed, hwTs, txTsCursor>> /\ pc = "commit" /\ pc' = "poll"
          /\ Pairs' = Pairs
      BY <1>7 DEF Commit, hvars, stampVars, Pairs
    <2>2. \A k \in 1..Len(echoed) : echoed'[k] = echoed[k]
      <3>1. echoed \in Seq(Payload) /\ dst \in Payload /\ echoed' = Append(echoed, dst)
        BY <1>0, <1>7 DEF Commit, TypeOK
      <3> QED  BY <3>1, AppendProperties
    <2>3. ASSUME NEW i \in 1..Pairs
          PROVE  echoed'[pushed[i][2] + 1] = pushed[i][1]
      <3>1. /\ pushed[i] \in Frames \X Frames /\ pushed[i][2] < txTsCursor
            /\ echoed[pushed[i][2] + 1] = pushed[i][1]
        BY <1>0 DEF PairInv
      <3>2. pushed[i][2] \in Nat  BY <3>1 DEF Frames
      <3>3. pushed[i][2] + 1 \in 1..Len(echoed)  BY <1>0, <3>1, <3>2
      <3> QED  BY <2>2, <3>1, <3>3
    <2> QED  BY <1>0, <2>1, <2>3 DEF PairInv
  <1>8. CASE Sentinel
    <2>1. CASE ~hwTs
      <3>1. UNCHANGED <<hwTs, pushed, echoed, txTsCursor>> /\ pc = "sentinel" /\ pc' = "returned"
        BY <1>8, <2>1 DEF Sentinel, stampVars
      <3>2. Pairs' = Pairs  BY <2>1, <3>1 DEF Pairs
      <3> QED  BY <1>0, <2>1, <3>1, <3>2 DEF PairInv
    <2>2. CASE hwTs
      <3>1. /\ UNCHANGED <<hwTs, echoed, txTsCursor>> /\ pc = "sentinel" /\ pc' = "join"
            /\ pushed' = Append(pushed, kEndSentinel)
        BY <1>8, <2>2 DEF Sentinel, stampVars, Push
      <3>2. /\ Len(pushed') = Len(pushed) + 1 /\ pushed'[Len(pushed')] = kEndSentinel
            /\ \A i \in 1..Len(pushed) : pushed'[i] = pushed[i]
        <4>1. pushed \in Seq(Sample) /\ kEndSentinel \in Sample  BY <1>0 DEF TypeOK, Sample
        <4> QED  BY <3>1, <4>1, AppendProperties
      <3>3. Pairs = Len(pushed) /\ Pairs' = Len(pushed)  BY <1>0, <2>2, <3>1, <3>2 DEF Pairs
      <3>4. hwTs' /\ pushed' # << >>  BY <1>0, <2>2, <3>1, <3>2
      <3> QED  BY <1>0, <3>1, <3>2, <3>3, <3>4 DEF PairInv
    <2> QED  BY <2>1, <2>2
  <1>9. CASE Join
    <2>1. /\ UNCHANGED <<hwTs, pushed, echoed, txTsCursor>> /\ pc = "join" /\ pc' = "returned"
      BY <1>9 DEF Join, hvars, stampVars
    <2> QED  BY <1>0, <2>1, SamePairs
  <1>10. CASE Hist
    <2>1. UNCHANGED <<pc, hwTs, pushed, echoed, txTsCursor>>
      BY <1>10 DEF Hist, HistNext, HdrInitFails, HdrInit, HistFrontEmpty, HistCheckStop, HistPop,
                   Rest, stampVars
    <2> QED  BY <1>0, <2>1, SamePairs
  <1>11. CASE Signal
    <2>1. UNCHANGED <<pc, hwTs, pushed, echoed, txTsCursor>>
      BY <1>11 DEF Signal, RequestStop, Rest, stampVars
    <2> QED  BY <1>0, <2>1, SamePairs
  <1>12. CASE Arrive \/ Overwrite
    <2>1. UNCHANGED <<pc, hwTs, pushed, echoed, txTsCursor>>
      BY <1>12 DEF Arrive, Overwrite, hvars, stampVars
    <2> QED  BY <1>0, <2>1, SamePairs
  <1>13. CASE CompleteSend
    <2>1. UNCHANGED <<pc, hwTs, pushed, echoed, txTsCursor>>
      BY <1>13 DEF CompleteSend, Complete, hvars
    <2> QED  BY <1>0, <2>1, SamePairs
  <1>14. CASE UNCHANGED vars
    <2>1. UNCHANGED <<pc, hwTs, pushed, echoed, txTsCursor>>  BY <1>14 DEF vars, hvars, stampVars
    <2> QED  BY <1>0, <2>1, SamePairs
  <1> QED  BY <1>1, <1>2, <1>3, <1>4, <1>5, <1>6, <1>7, <1>8, <1>9, <1>10, <1>11, <1>12, <1>13,
              <1>14 DEF Next, Server, Nic, Done

\* The invariant holds in every reachable state.
LEMMA Invariance == Spec => []IInv
  <1>1. IInv /\ [Next]_vars => IInv'
    BY StepTypeOK, StepCountInv, StepHandInv, StepStampInv, StepPairInv DEF IInv
  <1> QED  BY InitIInv, <1>1, PTL DEF Spec

-----------------------------------------------------------------------------
(* The theorems about the reflector *)

\* Types, and with them the bounds: over a transport whose acquire() checks for a full ring
\* never more than NbTxBufs answers outstanding, over every one the stamp cursor never past
\* the last completion.
THEOREM ServerTypeCorrect == Spec => []TypeOK
  <1>1. IInv => TypeOK  BY DEF IInv
  <1> QED  BY Invariance, <1>1, PTL

\* Every recorded turnaround pairs the stamps of one frame and its own answer, once.
THEOREM ServerPairsTurnarounds == Spec => []TurnaroundPaired
  <1>1. IInv => TurnaroundPaired
    <2> SUFFICES ASSUME IInv PROVE TurnaroundPaired  OBVIOUS
    <2>1. PairInv /\ Len(pushed) \in Nat  BY LenProperties DEF IInv, TypeOK
    <2>2. ASSUME NEW i \in 1..Len(pushed), NEW j \in 1..Len(pushed), i < j
          PROVE  i \in 1..Pairs
      BY <2>1, <2>2 DEF Pairs
    <2>3. ASSUME NEW i \in 1..Len(pushed), pushed[i] # kEndSentinel
          PROVE  i \in 1..Pairs
      <3>1. CASE hwTs /\ pc \in {"join", "returned"}
        BY <2>1, <2>3, <3>1 DEF PairInv, Pairs
      <3>2. CASE ~(hwTs /\ pc \in {"join", "returned"})  BY <2>1, <3>2 DEF Pairs
      <3> QED  BY <3>1, <3>2
    <2> QED  BY <2>1, <2>2, <2>3 DEF TurnaroundPaired, PairInv
  <1> QED  BY Invariance, <1>1, PTL

\* A step that keeps the frame in hand and the ring keeps the abstract queue.
LEMMA SamePending ==
  ASSUME UNCHANGED <<inHand, rxRing, echoed>>
  PROVE  UNCHANGED Abstract!rvars
  BY DEF Pending, Abstract!rvars

\* With a frame in hand, the abstract queue starts with it.
LEMMA PendingInHand ==
  ASSUME NEW r \in Seq(Frames), NEW f \in Frames
  PROVE  /\ <<f>> \o r \in Seq(Frames) /\ <<f>> \o r # << >>
         /\ Head(<<f>> \o r) = f /\ Tail(<<f>> \o r) = r
  <1>1. <<f>> \in Seq(Frames) /\ Len(<<f>>) = 1 /\ <<f>>[1] = f  OBVIOUS
  <1> DEFINE s == <<f>>
  <1>2. s \in Seq(Frames) /\ Len(s) = 1 /\ s[1] = f  BY <1>1
  <1> HIDE DEF s
  <1> DEFINE c == s \o r
  <1>3. c \in Seq(Frames) /\ Len(c) = 1 + Len(r) /\ Len(r) \in Nat
    BY <1>2, ConcatProperties, LenProperties
  <1>4. c[1] = f /\ \A i \in 1..Len(r) : c[i + 1] = r[i]
    <2>1. s \in Seq(Frames)  BY <1>2
    <2>2. \A i \in 1..Len(s) + Len(r) : c[i] = IF i <= Len(s) THEN s[i] ELSE r[i - Len(s)]
      BY <2>1, ConcatProperties
    <2> HIDE DEF c
    <2> QED  BY <1>2, <1>3, <2>2
  <1> HIDE DEF c
  <1>5. c # << >>  BY <1>3
  <1>6. Head(c) = f  BY <1>3, <1>4, <1>5
  <1>7. Tail(c) = r
    <2>1. Tail(c) \in Seq(Frames) /\ Len(Tail(c)) = Len(r)  BY <1>3, <1>5, HeadTailProperties
    <2>2. \A i \in 1..Len(r) : Tail(c)[i] = r[i]
      BY <1>3, <1>4, <1>5, <2>1, HeadTailProperties
    <2> QED  BY <2>1, <2>2, SeqEqual
  <1> QED  BY <1>3, <1>5, <1>6, <1>7 DEF c, s

\* A sequence is its head followed by its tail.
LEMMA HeadThenTail ==
  ASSUME NEW s \in Seq(Frames), s # << >>
  PROVE  <<Head(s)>> \o Tail(s) = s
  <1>1. Len(s) \in Nat /\ Len(s) > 0  BY EmptySeq
  <1>2. SubSeq(s, 1, Len(s)) = <<s[1]>> \o SubSeq(s, 1 + 1, Len(s))
    BY <1>1, SubSeqRecursiveFirst
  <1>3. 1 + 1 = 2  OBVIOUS
  <1>4. Tail(s) = SubSeq(s, 2, Len(s)) /\ Head(s) = s[1] /\ SubSeq(s, 1, Len(s)) = s
    <2>1. Tail(s) = SubSeq(s, 2, Len(s))  BY TailIsSubSeq
    <2>2. SubSeq(s, 1, Len(s)) = s  BY SubSeqFull
    <2>3. Head(s) = s[1]  OBVIOUS
    <2> QED  BY <2>1, <2>2, <2>3
  <1> QED  BY <1>2, <1>3, <1>4

\* What arrives behind a queue arrives behind the queue and what is before it.
LEMMA AppendToConcat ==
  ASSUME NEW h \in Seq(Frames), NEW r \in Seq(Frames), NEW f \in Frames
  PROVE  h \o Append(r, f) = Append(h \o r, f)
  <1>1. <<f>> \in Seq(Frames)  OBVIOUS
  <1>2. h \o r \in Seq(Frames)  BY ConcatProperties
  <1>3. Append(r, f) = r \o <<f>> /\ Append(h \o r, f) = (h \o r) \o <<f>>
    BY <1>2, AppendIsConcat
  <1>4. (h \o r) \o <<f>> = h \o (r \o <<f>>)  BY <1>1, ConcatAssociative
  <1> QED  BY <1>3, <1>4

\* The reflector implements Reflector: it answers in the order of arrival, at most once
\* each, with the payload that arrived, although the buffer is given back before the send.
THEOREM ServerReflectsFaithfully == Spec => ReflectsFaithfully
  <1>1. Init => Abstract!Init
    BY DEF Init, Abstract!Init, Pending
  <1>2. IInv /\ [Next]_vars => [Abstract!Next]_(Abstract!rvars)
    <2> SUFFICES ASSUME IInv, [Next]_vars PROVE [Abstract!Next]_(Abstract!rvars)  OBVIOUS
    <2>0. /\ TypeOK /\ HandInv /\ rxRing \in Seq(Frames) /\ inHand \in Payload
      BY DEF IInv, CountInv, TypeOK
    <2>1. CASE Receive
      <3>1. Head(rxRing) \in Frames /\ rxRing # << >>
        BY <2>0, <2>1, HeadTailProperties DEF Receive
      <3>2. Pending = rxRing
        BY <2>0, <2>1, ConcatEmptySeq DEF Receive, HandInv, Pending
      <3>3. Pending' = <<Head(rxRing)>> \o Tail(rxRing)
        BY <2>1, <3>1, Constants DEF Receive, Pending, Frames
      <3>4. <<Head(rxRing)>> \o Tail(rxRing) = rxRing  BY <2>0, <3>1, HeadThenTail
      <3> QED  BY <2>1, <3>2, <3>3, <3>4 DEF Receive, Abstract!rvars
    <2>2. CASE Acquire
      <3>1. inHand # None /\ inHand \in Frames
        BY <2>0, <2>2, Constants DEF Acquire, HandInv, Payload, Frames
      <3>2. CASE UNCHANGED inHand
        BY <2>2, <3>2, SamePending DEF Acquire, rxVars
      <3>3. CASE inHand' = None
        <4>1. Pending = <<inHand>> \o rxRing  BY <3>1 DEF Pending
        <4>2. Pending' = rxRing
          BY <2>0, <2>2, <3>3, ConcatEmptySeq DEF Acquire, rxVars, Pending
        <4>3. Pending # << >> /\ Pending' = Tail(Pending)
          BY <2>0, <3>1, <4>1, <4>2, PendingInHand
        <4> QED  BY <2>2, <4>3 DEF Acquire, Abstract!Next, Abstract!Ignore
      <3> QED  BY <2>2, <3>2, <3>3 DEF Acquire
    <2>3. CASE Commit
      <3>1. inHand # None /\ inHand \in Frames /\ dst = inHand
        BY <2>0, <2>3, Constants DEF Commit, HandInv, Payload, Frames
      <3>2. Pending = <<inHand>> \o rxRing  BY <3>1 DEF Pending
      <3>3. Pending' = rxRing  BY <2>0, <2>3, ConcatEmptySeq DEF Commit, rxVars, Pending
      <3>4. Pending # << >> /\ Pending' = Tail(Pending) /\ Head(Pending) = dst
        BY <2>0, <3>1, <3>2, <3>3, PendingInHand
      <3> QED  BY <2>3, <3>4 DEF Commit, Abstract!Next, Abstract!Answer
    <2>4. CASE Arrive
      <3> DEFINE h == IF inHand = None THEN << >> ELSE <<inHand>>
      <3>1. arrived \in Frames /\ rxRing' = Append(rxRing, arrived) /\ UNCHANGED <<inHand, echoed>>
        BY <2>0, <2>4, Constants DEF Arrive, TypeOK, Frames
      <3>2. h \in Seq(Frames)
        <4>1. CASE inHand = None  BY <4>1
        <4>2. CASE inHand # None
          <5>1. inHand \in Frames  BY <2>0, <4>2, Constants DEF Payload, Frames
          <5> QED  BY <4>2, <5>1
        <4> QED  BY <4>1, <4>2
      <3>3. Pending = h \o rxRing /\ Pending' = h \o Append(rxRing, arrived)
        BY <3>1 DEF Pending
      <3> HIDE DEF h
      <3>4. h \o Append(rxRing, arrived) = Append(h \o rxRing, arrived)
        BY <2>0, <3>1, <3>2, AppendToConcat
      <3>5. Pending' = Append(Pending, arrived)  BY <3>3, <3>4
      <3> QED  BY <3>1, <3>5 DEF Abstract!Next, Abstract!Arrive, Frames
    <2>5. CASE \/ CheckStop \/ PollEmpty \/ Copy \/ Release \/ Sentinel \/ Join
               \/ Overwrite \/ CompleteSend
      <3>1. UNCHANGED <<inHand, rxRing, echoed>>
        BY <2>5 DEF CheckStop, PollEmpty, Copy, Release, Sentinel, Join, Overwrite, CompleteSend,
                    rxVars
      <3> QED  BY <3>1, SamePending
    <2>6. CASE Hist \/ Signal \/ UNCHANGED vars
      <3>1. UNCHANGED <<inHand, rxRing, echoed>>
        BY <2>6 DEF Hist, Signal, Rest, vars, rxVars
      <3> QED  BY <3>1, SamePending
    <2> QED  BY <2>1, <2>2, <2>3, <2>4, <2>5, <2>6 DEF Next, Server, Nic, Done
  <1> QED  BY <1>1, <1>2, Invariance, PTL DEF Spec, ReflectsFaithfully, Abstract!Spec

-----------------------------------------------------------------------------
(* The decoder *)

\* A multiple of the modulus does not change the remainder.
LEMMA ModShift ==
  ASSUME NEW M \in Nat, M > 0, NEW k \in Int, NEW y \in Int
  PROVE  (M * k + y) % M = y % M
  <1> DEFINE x == M * k + y
  <1>0. x \in Int /\ M * k \in Int /\ x = M * k + y  OBVIOUS
  <1> HIDE DEF x
  <1> DEFINE a == x \div M  r == x % M  b == y \div M  s == y % M
  <1>1. a \in Int /\ r \in 0..M - 1 /\ x = M * a + r  BY <1>0, DivMod
  <1>2. b \in Int /\ s \in 0..M - 1 /\ y = M * b + s  BY DivMod
  <1> HIDE DEF a, r, b, s
  <1>3. /\ a - b - k \in Int /\ M * (a - b - k) = M * a - M * b - M * k
        /\ M * a \in Int /\ M * b \in Int /\ M * k \in Int
    BY <1>1, <1>2
  <1>4. M * (a - b - k) = s - r  BY <1>0, <1>1, <1>2, <1>3
  <1>5. M * (a - b - k) \in {-M, 0, M}
    <2>1. -(2 * M) < M * (a - b - k) /\ M * (a - b - k) < 2 * M  BY <1>1, <1>2, <1>4
    <2> QED  BY <1>3, <2>1, SmallMultiple
  <1>6. r = s  BY <1>1, <1>2, <1>4, <1>5
  <1> QED  BY <1>6 DEF r, s, x

\* hwFoldRx gives the time within the second of a corrected stamp, whichever of its two
\* readings the adapter showed and wherever the correction took it.
LEMMA FoldExact ==
  ASSUME HwDecodeAssumption, NEW u \in Nat, NEW c \in Corrections, NEW raw \in RawAt(u)
  PROVE  hwFoldRx(raw, AsWord(c)) = {(u + c) % kOneSecQns}
  <1> DEFINE S == kOneSecQns  m == u % S  x == raw + c
  <1>0. /\ Word \in Nat /\ S \in Nat /\ kQnsOverrun \in Nat /\ MaxBack \in Nat
        /\ kQnsOverrun + 2 <= S /\ MaxBack < S /\ S + kQnsOverrun + 2 + MaxBack <= Word
        /\ c \in Int /\ -MaxBack <= c /\ c <= 2
    BY DEF HwDecodeAssumption, Corrections
  <1>1. m \in 0..S - 1 /\ u \div S \in Int /\ u = S * (u \div S) + m  BY <1>0, DivMod
  <1>2. raw \in {m, m + S} /\ raw < S + kQnsOverrun  BY DEF RawAt
  <1> HIDE DEF m, S
  <1>3. raw \in Nat /\ x \in Int /\ raw < Word - 1 /\ -Word < x /\ x < Word
    BY <1>0, <1>1, <1>2
  <1>4. (raw + AsWord(c)) % Word = x % Word
    <2>1. AsWord(c) \in 0..Word - 1 /\ c \div Word \in Int /\ c = Word * (c \div Word) + AsWord(c)
      BY <1>0, DivMod DEF AsWord
    <2> DEFINE k == c \div Word  y == raw + AsWord(c)
    <2>2. x = Word * k + y /\ y \in Int  BY <1>0, <1>3, <2>1
    <2>3. k \in Int /\ Word \in Nat /\ Word > 0  BY <1>0, <1>3, <2>1
    <2> HIDE DEF k, x, y
    <2>4. (Word * k + y) % Word = y % Word  BY <2>2, <2>3, ModShift
    <2> QED  BY <2>2, <2>4 DEF y
  <1>5. x % Word = IF x >= 0 THEN x ELSE x + Word  BY <1>0, <1>3, SmallMod
  <1>6. (u + c) % S = (m + c) % S
    <2> DEFINE k == u \div S  y == m + c  z == u + c
    <2>1. z = S * k + y /\ z \in Int /\ y \in Int  BY <1>0, <1>1
    <2>2. k \in Int /\ S \in Nat /\ S > 0  BY <1>0, <1>1
    <2> HIDE DEF k, y, z
    <2>3. (S * k + y) % S = y % S  BY <2>1, <2>2, ModShift
    <2> QED  BY <2>1, <2>3 DEF y, z
  <1>7. (m + c) % S = IF m + c < 0 THEN m + c + S ELSE IF m + c < S THEN m + c ELSE m + c - S
    <2>1. CASE m + c < S  BY <1>0, <1>1, <2>1, SmallMod
    <2>2. CASE m + c >= S
      <3>1. m + c = S * 1 + (m + c - S)  BY <1>0, <1>1
      <3> DEFINE y == m + c - S
      <3>3. 1 \in Int /\ y \in Int /\ S \in Nat /\ S > 0  BY <1>0, <1>1
      <3> HIDE DEF y
      <3>4. (S * 1 + y) % S = y % S  BY <3>3, ModShift, Zenon
      <3>2. (m + c) % S = (m + c - S) % S  BY <3>1, <3>4 DEF y
      <3>5. m + c - S \in Int /\ 0 <= m + c - S /\ -S < m + c - S /\ m + c - S < S /\ ~(m + c < 0)
        BY <1>0, <1>1, <2>2
      <3>6. (m + c - S) % S = m + c - S  BY <3>3, <3>5, SmallMod
      <3> QED  BY <1>0, <1>1, <2>2, <3>2, <3>5, <3>6
    <2> QED  BY <1>0, <1>1, <2>1, <2>2
  <1> DEFINE w == x % Word
  <1>8. hwFoldRx(raw, AsWord(c)) =
          {IF w < S THEN w ELSE IF w < S + kQnsOverrun + 2 THEN w - S ELSE (w + S) % Word}
    BY <1>3, <1>4 DEF hwFoldRx, kRxStampNone, S
  <1> HIDE DEF w, x
  <1>9. CASE x < 0
    <2>1. w = x + Word /\ x = m + c /\ raw = m
      BY <1>0, <1>1, <1>2, <1>3, <1>5, <1>9 DEF w, x
    <2>2. w >= S + kQnsOverrun + 2  BY <1>0, <1>1, <2>1
    <2>3. (w + S) % Word = x + S
      <3>1. w + S = Word * 1 + (x + S)  BY <1>0, <1>3, <2>1
      <3> DEFINE y == x + S
      <3>4. 1 \in Int /\ y \in Int /\ Word \in Nat /\ Word > 0  BY <1>0, <1>3
      <3> HIDE DEF y
      <3>5. (Word * 1 + y) % Word = y % Word  BY <3>4, ModShift, Zenon
      <3>2. (w + S) % Word = (x + S) % Word  BY <3>1, <3>5 DEF y
      <3>3. 0 <= x + S /\ x + S < Word  BY <1>0, <1>1, <1>9, <2>1
      <3> QED  BY <1>0, <1>3, <3>2, <3>3, SmallMod
    <2> QED  BY <1>0, <1>1, <1>3, <1>6, <1>7, <1>8, <1>9, <2>1, <2>2, <2>3 DEF S
  <1>10. CASE x >= 0
    <2>1. w = x  BY <1>5, <1>10 DEF w
    <2>2. w < S + kQnsOverrun + 2  BY <1>0, <1>1, <1>2, <1>3, <2>1 DEF x
    <2>3. (IF w < S THEN w ELSE w - S) = (m + c) % S
      <3>1. CASE raw = m  BY <1>0, <1>1, <1>3, <1>7, <1>10, <2>1, <3>1 DEF x
      <3>2. CASE raw = m + S
        <4>1. x = m + c + S  BY <1>0, <1>1, <3>2 DEF x
        <4>2. m < kQnsOverrun  BY <1>0, <1>1, <1>2, <3>2
        <4> QED  BY <1>0, <1>1, <1>3, <1>7, <2>1, <4>1, <4>2
      <3> QED  BY <1>2, <3>1, <3>2
    <2> QED  BY <1>6, <1>8, <2>2, <2>3 DEF S
  <1> QED  BY <1>3, <1>9, <1>10

\* hwDelta gives the time between two moments less than a second apart.
LEMMA DeltaExact ==
  ASSUME HwDecodeAssumption, NEW s \in Nat, NEW t \in Nat, s <= t, t - s < kOneSecQns
  PROVE  hwDelta(t % kOneSecQns, s % kOneSecQns) = t - s
  <1> DEFINE S == kOneSecQns  a == s % S  b == t % S  p == s \div S  q == t \div S
  <1>0. S \in Nat /\ S > 0  BY DEF HwDecodeAssumption
  <1>1. a \in 0..S - 1 /\ p \in Int /\ s = S * p + a  BY <1>0, DivMod
  <1>2. b \in 0..S - 1 /\ q \in Int /\ t = S * q + b  BY <1>0, DivMod
  <1>3. (t - s) % S = (b - a) % S
    <2> HIDE DEF a, b, p, q, S
    <2>1. q - p \in Int /\ S * (q - p) = S * q - S * p /\ S * p \in Int /\ S * q \in Int
      BY <1>0, <1>1, <1>2
    <2>2. t - s = S * (q - p) + (b - a)  BY <1>0, <1>1, <1>2, <2>1
    <2>3. t - s \in Int /\ b - a \in Int /\ q - p \in Int  BY <1>1, <1>2
    <2> DEFINE k == q - p  y == b - a
    <2>4. t - s = S * k + y /\ k \in Int /\ y \in Int  BY <2>2, <2>3
    <2> HIDE DEF k, y
    <2>5. (S * k + y) % S = y % S  BY <1>0, <2>4, ModShift
    <2> QED  BY <2>4, <2>5 DEF y
  <1> HIDE DEF a, b, p, q, S
  <1>4. (b - a) % S = IF b - a >= 0 THEN b - a ELSE b - a + S  BY <1>0, <1>1, <1>2, SmallMod
  <1>5. (t - s) % S = t - s
    <2>1. -S < t - s /\ t - s < S  BY <1>0 DEF S
    <2> QED  BY <1>0, <2>1, SmallMod
  <1>6. hwDelta(b, a) = t - s  BY <1>1, <1>2, <1>3, <1>4, <1>5 DEF hwDelta, S
  <1> QED  BY <1>6 DEF a, b, S

\* The quarter nanoseconds of the event with a TX stamp are the time within the second.
LEMMA TxMinorExact ==
  ASSUME HwDecodeAssumption, NEW t \in Nat
  PROVE  TxMinorOf(TxEventAt(t)) = t % kOneSecQns
  <1> DEFINE m == t % kOneSecQns  q == m \div 4  r == m % 4
  <1>0. kOneSecQns \in Nat /\ kOneSecQns > 0 /\ Word \in Nat /\ kOneSecQns <= Word
    BY DEF HwDecodeAssumption
  <1>1. m \in 0..kOneSecQns - 1  BY <1>0, DivMod
  <1> HIDE DEF m
  <1>2. q \in Int /\ r \in 0..3 /\ m = 4 * q + r  BY <1>1
  <1> HIDE DEF q, r
  <1>3. (r * 16384) \div 16384 = r
    <2>1. r = 0 \/ r = 1 \/ r = 2 \/ r = 3  BY <1>2
    <2> QED  BY <2>1
  <1>4. TxMinorOf(TxEventAt(t)) = (q * 4 + (r * 16384) \div 16384) % Word
    BY DEF TxMinorOf, TxEventAt, m, q, r
  <1>5. q * 4 + r = m  BY <1>2
  <1>6. m % Word = m  BY <1>0, <1>1, SmallMod
  <1> QED  BY <1>3, <1>4, <1>5, <1>6 DEF m

\* What decoding starts from: the two words of a frame sent at s and received at t.
LEMMA DecodableExact ==
  ASSUME HwDecodeAssumption, NEW s \in Nat, NEW t \in Nat, NEW c \in Corrections, t - c \in Nat,
         NEW raw \in RawAt(t - c), s % kOneSecQns # 0
  PROVE  Decodable(raw, TxMinorOf(TxEventAt(s)), AsWord(c)) = {t % kOneSecQns}
  <1>1. /\ kOneSecQns \in Nat /\ kOneSecQns > 0 /\ Word \in Nat /\ kOneSecQns + 2 <= Word
        /\ c \in Int
    <2>1. /\ Word \in Nat /\ kOneSecQns \in Nat /\ kQnsOverrun \in Nat /\ MaxBack \in Nat
          /\ kQnsOverrun + 2 <= kOneSecQns
          /\ kOneSecQns + kQnsOverrun + 2 + MaxBack <= Word
      BY DEF HwDecodeAssumption
    <2>2. c \in Int  BY <2>1 DEF Corrections
    <2> QED  BY <2>1, <2>2
  <1>2. s % kOneSecQns \in 0..kOneSecQns - 1  BY <1>1, DivMod
  <1>3. s % kOneSecQns \notin {0, kTxStampNone}  BY <1>1, <1>2 DEF kTxStampNone
  <1>4. hwFoldRx(raw, AsWord(c)) = {((t - c) + c) % kOneSecQns}  BY FoldExact
  <1>5. (t - c) + c = t  BY <1>1
  <1> QED  BY <1>3, <1>4, <1>5, TxMinorExact DEF Decodable

\* hwRoundTrip() of a frame sent at s and received at t is t - s, for every width of the
\* clock: wherever the second ends, and whatever the correction does to the RX stamp.
THEOREM RoundTripExact ==
  ASSUME HwDecodeAssumption, NEW s \in Nat, NEW t \in Nat, s <= t, t - s < kOneSecQns,
         NEW c \in Corrections, t - c \in Nat, NEW raw \in RawAt(t - c), s % kOneSecQns # 0
  PROVE  hwRoundTrip(raw, TxMinorOf(TxEventAt(s)), AsWord(c)) = {t - s}
  <1>1. Decodable(raw, TxMinorOf(TxEventAt(s)), AsWord(c)) = {t % kOneSecQns}
    BY DecodableExact
  <1>2. hwDelta(t % kOneSecQns, TxMinorOf(TxEventAt(s))) = t - s  BY TxMinorExact, DeltaExact
  <1> DEFINE tx == TxMinorOf(TxEventAt(s))  rx == t % kOneSecQns
             D == Decodable(raw, tx, AsWord(c))
  <1>3. D = {rx} /\ hwDelta(rx, tx) = t - s  BY <1>1, <1>2
  <1>4. hwRoundTrip(raw, tx, AsWord(c)) = {hwDelta(m, tx) : m \in D}  BY DEF hwRoundTrip
  <1> HIDE DEF tx, rx, D
  <1>5. {hwDelta(m, tx) : m \in D} = {t - s}  BY <1>3
  <1> QED  BY <1>4, <1>5 DEF tx

\* hwTurnaround() of a frame received at t and answered at s is s - t.
THEOREM TurnaroundExact ==
  ASSUME HwDecodeAssumption, NEW s \in Nat, NEW t \in Nat, t <= s, s - t < kOneSecQns,
         NEW c \in Corrections, t - c \in Nat, NEW raw \in RawAt(t - c), s % kOneSecQns # 0
  PROVE  hwTurnaround(raw, TxMinorOf(TxEventAt(s)), AsWord(c)) = {s - t}
  <1>1. Decodable(raw, TxMinorOf(TxEventAt(s)), AsWord(c)) = {t % kOneSecQns}
    BY DecodableExact
  <1>2. hwDelta(TxMinorOf(TxEventAt(s)), t % kOneSecQns) = s - t  BY TxMinorExact, DeltaExact
  <1> DEFINE tx == TxMinorOf(TxEventAt(s))  rx == t % kOneSecQns
             D == Decodable(raw, tx, AsWord(c))
  <1>3. D = {rx} /\ hwDelta(tx, rx) = s - t  BY <1>1, <1>2
  <1>4. hwTurnaround(raw, tx, AsWord(c)) = {hwDelta(tx, m) : m \in D}  BY DEF hwTurnaround
  <1> HIDE DEF tx, rx, D
  <1>5. {hwDelta(tx, m) : m \in D} = {s - t}  BY <1>3
  <1> QED  BY <1>4, <1>5 DEF tx

=============================================================================
