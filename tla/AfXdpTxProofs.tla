--------------------------- MODULE AfXdpTxProofs ----------------------------
(***************************************************************************)
(* Proofs for AfXdpTx, for every number of TX chunks and batch size: the   *)
(* count of outstanding frames is exact and bounded, and a caller that     *)
(* leaves at most NumTxFrames frames untransmitted gets what the TxRing    *)
(* concept promises.                                                       *)
(***************************************************************************)
EXTENDS AfXdpTx, RingArithmetic, SequenceTheorems

-----------------------------------------------------------------------------
(* The inductive invariant.                                                *)

\* The free-running positions follow one another, each ring within its size.
CountInv ==
  /\ reaped <= Transmitted /\ Transmitted <= taken /\ taken <= committed
  /\ committed - taken <= NumTxFrames
  /\ taken - reaped <= NumTxFrames
  /\ outstanding = committed - reaped
  /\ txFrameNb = committed % NumTxFrames

\* A descriptor on the TX ring or in the NIC's queue names the chunk of its position.
RingInv ==
  /\ \A k \in taken + 1 .. committed : ring[Cell(k)] = Cell(k)
  /\ \A k \in Transmitted + 1 .. taken : queue[Cell(k)] = Cell(k)

\* A chunk keeps its frame from acquire() until the NIC has read it.
ChunkInv ==
  /\ \A k \in Transmitted + 1 .. committed : chunk[Cell(k)] = k
  /\ pc \in {"commit", "spin", "spinDrain"} =>
        /\ pendingTx = txFrameNb
        /\ chunk[Cell(committed + 1)] = committed + 1
        /\ committed - Transmitted < NumTxFrames

-----------------------------------------------------------------------------

\* Cells are chunk numbers, and so is the next chunk.
LEMMA CellType ==
  ASSUME NEW k \in Int
  PROVE  Cell(k) \in Chunks /\ k % NumTxFrames \in Chunks
  <1>1. NumTxFrames \in Nat /\ NumTxFrames > 0  BY UmemAssumption
  <1> QED  BY <1>1, DivMod DEF Cell, Chunks

\* Positions less than a lap apart have their own cells.
LEMMA CellDistinct ==
  ASSUME NEW i \in Int, NEW j \in Int, i # j, i - j < NumTxFrames, j - i < NumTxFrames
  PROVE  Cell(i) # Cell(j)
  <1>1. NumTxFrames \in Nat /\ NumTxFrames > 0  BY UmemAssumption
  <1>2. CASE i < j
    <2>1. i - 1 \in Int /\ j - 1 \in Int /\ i - 1 < j - 1 /\ (j - 1) - (i - 1) < NumTxFrames
      BY <1>1, <1>2
    <2> QED  BY <1>1, <2>1, DistinctCells DEF Cell
  <1>3. CASE j < i
    <2>1. i - 1 \in Int /\ j - 1 \in Int /\ j - 1 < i - 1 /\ (i - 1) - (j - 1) < NumTxFrames
      BY <1>1, <1>3
    <2> QED  BY <1>1, <2>1, DistinctCells DEF Cell
  <1> QED  BY <1>2, <1>3

\* The counters and lengths are numbers.
LEMMA Numbers ==
  ASSUME TypeOK
  PROVE  /\ Transmitted \in Nat /\ committed \in Nat /\ taken \in Nat /\ reaped \in Nat
         /\ outstanding \in Nat /\ NumTxFrames \in Nat /\ NumTxFrames > 0
         /\ BatchSize \in Nat /\ BatchSize > 0 /\ Window \in Nat
  BY UmemAssumption, AfXdpTxAssumption DEF TypeOK, Transmitted

\* A completeTx() reaps what has completed, and at most one batch of it.
LEMMA PeekedBound ==
  ASSUME TypeOK, CountInv
  PROVE  Peeked \in 0 .. Transmitted - reaped
  BY Numbers DEF CountInv, Peeked

\* The variables have their types initially and after every step.
LEMMA TypeStep ==
  ASSUME TypeOK, CountInv, [Next]_vars
  PROVE  TypeOK'
  <1>0. TypeOK  OBVIOUS
  <1>1. CASE Acquire
    <2>1. committed + 1 \in Nat  BY <1>0, Numbers
    <2>2. chunk' \in [Chunks -> Nat]  BY <1>0, <1>1, <2>1 DEF TypeOK, Acquire
    <2> QED  BY <1>0, <1>1, <2>2 DEF TypeOK, Acquire
  <1>2. CASE ReserveFails  BY <1>0, <1>2 DEF TypeOK, ReserveFails
  <1>3. CASE Submit
    <2>1. committed + 1 \in Nat /\ outstanding + 1 \in Nat  BY <1>0, Numbers
    <2>2. ring' \in [Chunks -> Chunks]  BY <1>0, <1>3 DEF TypeOK, Submit
    <2>2a. txFrameNb \in Chunks  BY <1>0 DEF TypeOK
    <2>3. txFrameNb + 1 \in Int  BY <1>0, <2>2a, Numbers DEF Chunks
    <2>4. (txFrameNb + 1) % NumTxFrames \in Chunks  BY <2>3, CellType
    <2> QED  BY <1>0, <1>3, <2>1, <2>2, <2>4 DEF TypeOK, Submit
  <1>4. CASE NoKick  BY <1>0, <1>4 DEF TypeOK, NoKick, Draining
  <1>5. CASE KickTx
    <2>1. asleep' \in BOOLEAN  BY <1>0, <1>5, Zenon DEF TypeOK, KickTx
    <2>2. busy' \in Nat
      <3>1. busy \in Nat /\ busy' \in {busy, busy + 1}  BY <1>0, <1>5, Zenon DEF TypeOK, KickTx
      <3> QED  BY <3>1
    <2> QED  BY <1>0, <1>5, <2>1, <2>2 DEF TypeOK, KickTx, Draining
  <1>6. CASE Drain
    <2>0. Peeked \in 0 .. Transmitted - reaped  BY PeekedBound
    <2>1. reaped + Peeked \in Nat /\ outstanding - Peeked \in Nat
      BY <1>0, <2>0, Numbers DEF CountInv
    <2> QED  BY <1>0, <1>6, <2>1 DEF TypeOK, Drain, Drained
  <1>7. CASE DriverTake
    <2>0. taken + 1 \in Nat /\ taken + 1 \in Int  BY <1>0, Numbers
    <2>1. ring[Cell(taken + 1)] \in Chunks  BY <1>0, <2>0, CellType DEF TypeOK
    <2>2. queue' \in [Chunks -> Chunks]  BY <1>0, <1>7, <2>1 DEF TypeOK, DriverTake
    <2> QED  BY <1>0, <1>7, <2>0, <2>2 DEF TypeOK, DriverTake
  <1>8. CASE DriverSleep  BY <1>0, <1>8 DEF TypeOK, DriverSleep
  <1>9. CASE Transmit
    <2>0. Transmitted + 1 \in Int  BY <1>0, Numbers
    <2>1. queue[Cell(Transmitted + 1)] \in Chunks  BY <1>0, <2>0, CellType DEF TypeOK
    <2>2. chunk[queue[Cell(Transmitted + 1)]] \in Nat  BY <1>0, <2>1 DEF TypeOK
    <2>3. wire' \in Seq(Nat)  BY <1>0, <1>9, <2>2, AppendProperties DEF TypeOK, Transmit
    <2> QED  BY <1>0, <1>9, <2>3 DEF TypeOK, Transmit
  <1>10. CASE UNCHANGED vars  BY <1>0, <1>10 DEF TypeOK, vars
  <1> QED  BY <1>1, <1>2, <1>3, <1>4, <1>5, <1>6, <1>7, <1>8, <1>9, <1>10 DEF Next, Caller, Reserve, Done

\* Only Transmit lengthens the wire, by one.
LEMMA WireStep ==
  ASSUME TypeOK, CountInv, [Next]_vars
  PROVE  /\ Transmit => Transmitted' = Transmitted + 1
         /\ ~Transmit => UNCHANGED wire /\ Transmitted' = Transmitted
  <1>1. Transmit => Transmitted' = Transmitted + 1
    <2> SUFFICES ASSUME Transmit PROVE Transmitted' = Transmitted + 1  OBVIOUS
    <2>0. Transmitted + 1 \in Int  BY Numbers
    <2>1. queue[Cell(Transmitted + 1)] \in Chunks  BY <2>0, CellType DEF TypeOK
    <2>2. chunk[queue[Cell(Transmitted + 1)]] \in Nat /\ wire \in Seq(Nat)  BY <2>1 DEF TypeOK
    <2> QED  BY <2>2, AppendProperties DEF Transmit, Transmitted
  <1>2. ~Transmit => UNCHANGED wire
    BY DEF Next, Caller, Reserve, Done, Acquire, ReserveFails, Submit, NoKick, KickTx, Drain, DriverTake,
           DriverSleep, vars
  <1> QED  BY <1>1, <1>2 DEF Transmitted

\* The positions keep their order and their distances.
LEMMA CountStep ==
  ASSUME TypeOK, CountInv, [Next]_vars
  PROVE  CountInv'
  <1>0. TypeOK /\ TypeOK'  BY TypeStep
  <1>1. CASE Acquire
    <2>1. Transmitted' = Transmitted  BY <1>1 DEF Acquire, Transmitted
    <2> QED  BY <1>1, <2>1 DEF CountInv, Acquire
  <1>2. CASE ReserveFails
    <2>1. Transmitted' = Transmitted  BY <1>2 DEF ReserveFails, Transmitted
    <2> QED  BY <1>2, <2>1 DEF CountInv, ReserveFails
  <1>3. CASE Submit
    <2>1. Transmitted' = Transmitted  BY <1>3 DEF Submit, Transmitted
    <2>2. txFrameNb' = (committed + 1) % NumTxFrames
      BY <1>3, Numbers, NextCell DEF Submit, CountInv
    <2> QED  BY <1>3, <2>1, <2>2, Numbers DEF CountInv, Submit, RingHasRoom
  <1>4. CASE NoKick
    <2>1. Transmitted' = Transmitted  BY <1>4 DEF NoKick, Transmitted
    <2> QED  BY <1>4, <2>1 DEF CountInv, NoKick
  <1>5. CASE KickTx
    <2>1. Transmitted' = Transmitted  BY <1>5 DEF KickTx, Transmitted
    <2> QED  BY <1>5, <2>1 DEF CountInv, KickTx
  <1>6. CASE Drain
    <2>1. Transmitted' = Transmitted  BY <1>6 DEF Drain, Transmitted
    <2> QED  BY <1>6, <2>1, Numbers, PeekedBound DEF CountInv, Drain
  <1>7. CASE DriverTake
    <2>1. Transmitted' = Transmitted  BY <1>7 DEF DriverTake, Transmitted
    <2> QED  BY <1>7, <2>1, Numbers DEF CountInv, DriverTake
  <1>8. CASE DriverSleep
    <2>1. Transmitted' = Transmitted  BY <1>8 DEF DriverSleep, Transmitted
    <2> QED  BY <1>8, <2>1 DEF CountInv, DriverSleep
  <1>9. CASE Transmit
    <2>1. Transmitted' = Transmitted + 1  BY <1>9, WireStep
    <2>2. UNCHANGED <<committed, taken, reaped, outstanding, txFrameNb>> /\ Transmitted < taken
      BY <1>9 DEF Transmit
    <2> QED  BY <2>1, <2>2, Numbers DEF CountInv
  <1>10. CASE UNCHANGED vars
    <2>1. Transmitted' = Transmitted  BY <1>10 DEF vars, Transmitted
    <2> QED  BY <1>10, <2>1 DEF CountInv, vars
  <1> QED  BY <1>1, <1>2, <1>3, <1>4, <1>5, <1>6, <1>7, <1>8, <1>9, <1>10 DEF Next, Caller, Reserve, Done

\* The descriptors stay what the chunk order says.
LEMMA RingStep ==
  ASSUME TypeOK, CountInv, RingInv, [Next]_vars,
         pc = "commit" => pendingTx = txFrameNb
  PROVE  RingInv'
  <1>1. CASE Submit
    <2>0. committed + 1 \in Int /\ committed' = committed + 1 /\ UNCHANGED <<queue, taken, wire>>
      BY <1>1, Numbers DEF Submit
    <2>1. pendingTx = Cell(committed + 1)
      <3>1. (committed + 1) - 1 = committed  BY Numbers
      <3> QED  BY <1>1, <3>1 DEF Submit, CountInv, Cell
    <2>2. ASSUME NEW k \in taken + 1 .. committed + 1
          PROVE  ring'[Cell(k)] = Cell(k)
      <3>0. k \in Int /\ Cell(k) \in Chunks /\ Cell(committed + 1) \in Chunks
        BY <2>0, Numbers, CellType
      <3>1. CASE k = committed + 1
        BY <1>1, <2>1, <3>0, <3>1 DEF Submit, TypeOK
      <3>2. CASE k # committed + 1
        <4>1. k \in taken + 1 .. committed  BY <3>2, Numbers
        <4>2. k - (committed + 1) < NumTxFrames /\ (committed + 1) - k < NumTxFrames
          BY <1>1, <4>1, Numbers DEF Submit, RingHasRoom
        <4>3. Cell(k) # Cell(committed + 1)  BY <2>0, <3>0, <3>2, <4>2, CellDistinct
        <4> QED  BY <1>1, <3>0, <4>1, <4>3 DEF Submit, RingInv, TypeOK
      <3> QED  BY <3>1, <3>2
    <2> QED  BY <2>0, <2>2 DEF RingInv, Transmitted
  <1>2. CASE DriverTake
    <2>0. /\ taken + 1 \in Int /\ taken' = taken + 1 /\ UNCHANGED <<ring, committed, wire>>
          /\ taken < committed /\ taken - reaped < NumTxFrames
      BY <1>2, Numbers DEF DriverTake
    <2>1. ASSUME NEW k \in Transmitted + 1 .. taken + 1
          PROVE  queue'[Cell(k)] = Cell(k)
      <3>0. k \in Int /\ Cell(k) \in Chunks /\ Cell(taken + 1) \in Chunks
        BY <2>0, Numbers, CellType
      <3>1. CASE k = taken + 1
        <4>1. ring[Cell(taken + 1)] = Cell(taken + 1)
          <5>1. taken + 1 \in taken + 1 .. committed  BY <2>0, Numbers
          <5> QED  BY <5>1 DEF RingInv
        <4> QED  BY <1>2, <3>0, <3>1, <4>1 DEF DriverTake, TypeOK
      <3>2. CASE k # taken + 1
        <4>1. k \in Transmitted + 1 .. taken  BY <3>2, Numbers
        <4>2. k - (taken + 1) < NumTxFrames /\ (taken + 1) - k < NumTxFrames
          BY <2>0, <4>1, Numbers DEF CountInv
        <4>3. Cell(k) # Cell(taken + 1)  BY <2>0, <3>0, <3>2, <4>2, CellDistinct
        <4> QED  BY <1>2, <3>0, <4>1, <4>3 DEF DriverTake, RingInv, TypeOK
      <3> QED  BY <3>1, <3>2
    <2>2. \A k \in (taken + 1) + 1 .. committed : ring[Cell(k)] = Cell(k)
      BY Numbers DEF RingInv
    <2> QED  BY <2>0, <2>1, <2>2 DEF RingInv, Transmitted
  <1>3. CASE Transmit
    <2>1. Transmitted' = Transmitted + 1  BY <1>3, WireStep
    <2>2. UNCHANGED <<ring, queue, taken, committed>>  BY <1>3 DEF Transmit
    <2>3. \A k \in (Transmitted + 1) + 1 .. taken : queue[Cell(k)] = Cell(k)
      BY Numbers DEF RingInv
    <2> QED  BY <2>1, <2>2, <2>3 DEF RingInv
  <1>4. CASE ~Submit /\ ~DriverTake /\ ~Transmit
    <2>1. UNCHANGED <<ring, queue, taken, committed, wire>>
      BY <1>4 DEF Next, Caller, Reserve, Done, Acquire, ReserveFails, NoKick, KickTx, Drain, DriverSleep, vars
    <2> QED  BY <2>1 DEF RingInv, Transmitted
  <1> QED  BY <1>1, <1>2, <1>3, <1>4

\* A chunk is rewritten only after the NIC has read it, given the caller's pacing.
LEMMA ChunkStep ==
  ASSUME TypeOK, CountInv, ChunkInv, [Next]_vars, Window <= NumTxFrames
  PROVE  ChunkInv'
  <1>1. CASE Acquire
    <2>0. /\ committed + 1 \in Int /\ UNCHANGED <<committed, wire, txFrameNb>>
          /\ committed - Transmitted < NumTxFrames /\ pendingTx' = txFrameNb
          /\ Transmitted' = Transmitted
      BY <1>1, Numbers DEF Acquire, Transmitted
    <2>1. txFrameNb = Cell(committed + 1) /\ Cell(committed + 1) \in Chunks
      <3>1. (committed + 1) - 1 = committed  BY Numbers
      <3> QED  BY <2>0, <3>1, CellType DEF CountInv, Cell
    <2>2. chunk'[Cell(committed + 1)] = committed + 1
      BY <1>1, <2>1 DEF Acquire, TypeOK
    <2>3. ASSUME NEW k \in Transmitted + 1 .. committed
          PROVE  chunk'[Cell(k)] = k
      <3>0. k \in Int /\ Cell(k) \in Chunks  BY Numbers, CellType
      <3>1. k # committed + 1 /\ k - (committed + 1) < NumTxFrames
            /\ (committed + 1) - k < NumTxFrames
        BY <2>0, Numbers
      <3>2. Cell(k) # Cell(committed + 1)  BY <2>0, <3>0, <3>1, CellDistinct
      <3>3. chunk[Cell(k)] = k  BY DEF ChunkInv
      <3> QED  BY <1>1, <2>1, <3>0, <3>2, <3>3 DEF Acquire, TypeOK
    <2> QED  BY <2>0, <2>2, <2>3 DEF ChunkInv
  <1>2. CASE Submit
    <2>0. /\ UNCHANGED <<chunk, wire>> /\ committed' = committed + 1 /\ pc' = "tail"
          /\ pc = "commit" /\ Transmitted' = Transmitted
      BY <1>2 DEF Submit, Transmitted
    <2>1. \A k \in Transmitted + 1 .. committed + 1 : chunk[Cell(k)] = k
      <3> TAKE k \in Transmitted + 1 .. committed + 1
      <3>1. CASE k = committed + 1  BY <2>0, <3>1 DEF ChunkInv
      <3>2. CASE k # committed + 1
        <4>1. k \in Transmitted + 1 .. committed  BY <3>2, Numbers
        <4> QED  BY <4>1 DEF ChunkInv
      <3> QED  BY <3>1, <3>2
    <2> QED  BY <2>0, <2>1 DEF ChunkInv
  <1>3. CASE Transmit
    <2>1. Transmitted' = Transmitted + 1  BY <1>3, WireStep
    <2>2. UNCHANGED <<chunk, committed, pc, pendingTx, txFrameNb>>  BY <1>3 DEF Transmit
    <2>3. \A k \in (Transmitted + 1) + 1 .. committed : chunk[Cell(k)] = k
      BY Numbers DEF ChunkInv
    <2>4. committed - Transmitted < NumTxFrames => committed - (Transmitted + 1) < NumTxFrames
      BY Numbers
    <2> QED  BY <2>1, <2>2, <2>3, <2>4 DEF ChunkInv
  <1>4. CASE ~Acquire /\ ~Submit /\ ~Transmit
    <2>1. UNCHANGED <<chunk, committed, wire, pendingTx, txFrameNb>>
      BY <1>4 DEF Next, Caller, Reserve, Done, ReserveFails, NoKick, KickTx, Drain, DriverTake, DriverSleep, vars
    <2>2. pc' \in {"commit", "spin", "spinDrain"} => pc \in {"commit", "spin", "spinDrain"}
      BY <1>4 DEF Next, Caller, Reserve, Done, ReserveFails, NoKick, KickTx, Drain, DriverTake, DriverSleep,
                  vars, Draining, Drained
    <2> QED  BY <2>1, <2>2 DEF ChunkInv, Transmitted
  <1> QED  BY <1>1, <1>2, <1>3, <1>4

-----------------------------------------------------------------------------

\* Every ring is empty and every index zero initially.
LEMMA InitInvs == Init => TypeOK /\ CountInv /\ RingInv /\ ChunkInv
  <1> SUFFICES ASSUME Init PROVE TypeOK /\ CountInv /\ RingInv /\ ChunkInv  OBVIOUS
  <1>0. NumTxFrames \in Nat /\ NumTxFrames > 0  BY UmemAssumption
  <1>1. 0 \in Chunks /\ 0 % NumTxFrames = 0 /\ Len(wire) = 0  BY <1>0 DEF Chunks, Init
  <1>2. asleep \in BOOLEAN /\ wire \in Seq(Nat)  BY DEF Init
  <1>3. TypeOK  BY <1>1, <1>2 DEF Init, TypeOK
  <1>4. CountInv  BY <1>0, <1>1 DEF Init, CountInv, Transmitted
  <1>5. RingInv  BY <1>0, <1>1 DEF Init, RingInv, Transmitted
  <1>6. ChunkInv  BY <1>0, <1>1 DEF Init, ChunkInv, Transmitted
  <1> QED  BY <1>3, <1>4, <1>5, <1>6

\* The variables keep their types.
THEOREM TypeCorrect == Spec => []TypeOK
  <1>1. (TypeOK /\ CountInv) /\ [Next]_vars => (TypeOK /\ CountInv)'
    BY TypeStep, CountStep
  <1> QED  BY <1>1, InitInvs, PTL DEF Spec

\* outstanding_tx is exact and bounded by the two rings: the unsigned subtraction in
\* completeTx() never wraps, whatever the caller's pacing.
THEOREM OutstandingCorrect == Spec => []OutstandingExact
  <1>1. (TypeOK /\ CountInv) /\ [Next]_vars => (TypeOK /\ CountInv)'
    BY TypeStep, CountStep
  <1>2. TypeOK /\ CountInv => OutstandingExact
    BY Numbers DEF CountInv, OutstandingExact
  <1> QED  BY <1>1, <1>2, InitInvs, PTL DEF Spec

\* For a caller that leaves at most NumTxFrames frames untransmitted, AF_XDP transmit
\* implements the TxRing concept: no chunk is rewritten before the NIC has read it.
THEOREM PacedCallerServed ==
  ASSUME Window <= NumTxFrames
  PROVE  Spec => TransmitsFaithfully
  <1> DEFINE IInv == TypeOK /\ CountInv /\ RingInv /\ ChunkInv
  <1>1. Init => IInv /\ Abstract!TxInit
    <2>1. Init => Abstract!TxInit  BY DEF Init, Abstract!TxInit
    <2> QED  BY <2>1, InitInvs
  <1>2. IInv /\ [Next]_vars => IInv'
    <2> SUFFICES ASSUME IInv, [Next]_vars PROVE IInv'  OBVIOUS
    <2>1. pc = "commit" => pendingTx = txFrameNb  BY DEF ChunkInv
    <2> QED  BY <2>1, TypeStep, CountStep, RingStep, ChunkStep
  <1>3. IInv /\ [Next]_vars => [Abstract!Commit \/ Abstract!Transmit]_<<committed, wire>>
    <2> SUFFICES ASSUME IInv, [Next]_vars
                 PROVE  [Abstract!Commit \/ Abstract!Transmit]_<<committed, wire>>
      OBVIOUS
    <2>1. CASE Submit  BY <2>1 DEF Submit, Abstract!Commit
    <2>2. CASE Transmit
      <3>0. Transmitted + 1 \in Transmitted + 1 .. taken /\ Transmitted + 1 \in Transmitted + 1 .. committed
        <4>1. Transmitted < taken  BY <2>2 DEF Transmit
        <4>2. taken <= committed  BY DEF CountInv
        <4> QED  BY <4>1, <4>2, Numbers
      <3>1. chunk[queue[Cell(Transmitted + 1)]] = Transmitted + 1
        BY <3>0 DEF RingInv, ChunkInv
      <3>2. Len(wire) < committed  BY <2>2, Numbers DEF Transmit, CountInv, Transmitted
      <3> QED  BY <2>2, <3>1, <3>2 DEF Transmit, Transmitted, Abstract!Transmit
    <2>3. CASE ~Submit /\ ~Transmit
      BY <2>3 DEF Next, Caller, Reserve, Done, Acquire, ReserveFails, NoKick, KickTx, Drain, DriverTake,
                  DriverSleep, vars
    <2> QED  BY <2>1, <2>2, <2>3
  <1> HIDE DEF IInv
  <1> QED  BY <1>1, <1>2, <1>3, PTL DEF Spec, TransmitsFaithfully, Abstract!TxSpec

=============================================================================
