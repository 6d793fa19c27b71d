---------------------------- MODULE DpdkTxProofs ----------------------------
(***************************************************************************)
(* The reference count of the reused mbuf neither reaches zero under the   *)
(* driver nor overflows, no mbuf is lost, and the transmit half implements *)
(* TxRing, for every pool and ring size and every pace of reaping.         *)
(***************************************************************************)
EXTENDS DpdkTx, SequenceTheorems, FunctionTheorems, FiniteSetTheorems, TLAPS

\* How far the count is above the sends that will still be taken from it: two at least
\* between acquire() and commit(), one otherwise.
CountInv ==
    /\ ~txReuseInline => txReuse = 0
    /\ txReuseInline /\ pendingTx # 0 => txReuse # 0
    /\ txReuse # 0 =>
        /\ refcnt - Len(txq) >= 1
        /\ pendingTx # 0 => refcnt - Len(txq) >= 2
        /\ refcnt < REFCNT_LOW + REFCNT_TOPUP

IInv == TypeOK /\ CountInv

\* Acquiring a frame leaves the count at least two above the ring.
LEMMA AcquireKeeps ==
  ASSUME IInv, pendingTx = 0, NEW m \in Mbufs, AcquireReuse(m), UNCHANGED txq
  PROVE  /\ refcnt' \in Int /\ refcnt' - Len(txq') >= 2
         /\ refcnt' < REFCNT_LOW + REFCNT_TOPUP
         /\ txReuse' = m /\ free' \subseteq Mbufs /\ txReuseInline
  <1>0. /\ {NbTxDesc, REFCNT_LOW, REFCNT_TOPUP} \subseteq Nat
        /\ NbTxDesc + 1 < REFCNT_LOW /\ NbTxDesc + 1 < REFCNT_TOPUP
    BY DpdkTxAssumption
  <1>1. refcnt \in Int /\ Len(txq) \in Nat /\ Len(txq) <= NbTxDesc /\ free \subseteq Mbufs
    BY LenProperties DEF IInv, TypeOK
  <1> DEFINE count == IF txReuse = 0 THEN REFCNT_TOPUP ELSE refcnt
  <1>2. refcnt' = count + (IF count < REFCNT_LOW THEN REFCNT_TOPUP ELSE 0)
    BY DEF AcquireReuse
  <1>3. /\ count \in Int /\ count < REFCNT_LOW + REFCNT_TOPUP
        /\ count - Len(txq) >= 1
    BY <1>0, <1>1 DEF IInv, CountInv
  <1> HIDE DEF count
  <1>4. refcnt' \in Int /\ refcnt' - Len(txq) >= 2 /\ refcnt' < REFCNT_LOW + REFCNT_TOPUP
    BY <1>0, <1>1, <1>2, <1>3
  <1> QED  BY <1>1, <1>4 DEF AcquireReuse

\* Reaping takes as much from the count as from the ring.
LEMMA ReapKeeps ==
  ASSUME IInv, NEW k \in Nat, Reap(k),
         UNCHANGED <<txReuseInline, data, txReuse, pendingTx, committed, wire>>
  PROVE  IInv'
  <1>1. /\ txq \in Seq([mbuf : Mbufs, inlined : Nat]) /\ Len(txq) \in Nat
        /\ Len(txq) <= NbTxDesc /\ sent \in 0 .. Len(txq) /\ refcnt \in Int
        /\ free \subseteq Mbufs /\ NbTxDesc \in Nat
    BY DpdkTxAssumption, LenProperties DEF IInv, TypeOK
  <1>2. k <= sent /\ k <= Len(txq)  BY <1>1 DEF Reap
  <1>3. /\ txq' = SubSeq(txq, k + 1, Len(txq))
        /\ txq' \in Seq([mbuf : Mbufs, inlined : Nat]) /\ Len(txq') = Len(txq) - k
    <2>1. \A i \in k + 1 .. Len(txq) : txq[i] \in [mbuf : Mbufs, inlined : Nat]
      <3>1. \A i \in k + 1 .. Len(txq) : i \in 1 .. Len(txq)  BY <1>1
      <3> QED  BY <1>1, <3>1, ElementOfSeq
    <2>2. k + 1 \in 1 .. Len(txq) + 1 /\ Len(txq) \in 0 .. Len(txq)
          /\ k + 1 \in Int /\ Len(txq) \in Int
      BY <1>1, <1>2
    <2>3. SubSeq(txq, k + 1, Len(txq)) \in Seq([mbuf : Mbufs, inlined : Nat])
      BY <1>1, <2>1, <2>2, SubSeqProperties
    <2>4. Len(SubSeq(txq, k + 1, Len(txq))) = Len(txq) - k
      BY <1>1, <1>2, <2>1, <2>2, SubSeqProperties
    <2> QED  BY <2>3, <2>4 DEF Reap
  <1>4. sent' \in 0 .. Len(txq') /\ Len(txq') <= NbTxDesc  BY <1>1, <1>2, <1>3 DEF Reap
  <1>5. free' \subseteq Mbufs /\ refcnt' \in Int
    <2>1. \A i \in 1 .. k : txq[i] \in [mbuf : Mbufs, inlined : Nat]
      <3>1. \A i \in 1 .. k : i \in 1 .. Len(txq)  BY <1>1, <1>2
      <3> QED  BY <1>1, <3>1, ElementOfSeq
    <2>2. \A i \in 1 .. k : txq[i].mbuf \in Mbufs  BY <2>1
    <2>3. CASE txReuseInline  BY <1>1, <2>3 DEF Reap
    <2>4. CASE ~txReuseInline
      <3>1. free' = free \cup {txq[i].mbuf : i \in 1 .. k} /\ refcnt' = refcnt
        BY <2>4 DEF Reap
      <3>2. {txq[i].mbuf : i \in 1 .. k} \subseteq Mbufs  BY <2>2
      <3> QED  BY <1>1, <3>1, <3>2
    <2> QED  BY <2>3, <2>4
  <1>6. TypeOK'  BY <1>3, <1>4, <1>5 DEF IInv, TypeOK
  <1>7. CountInv'
    <2>1. CASE txReuse = 0  BY <2>1 DEF IInv, CountInv
    <2>2. CASE txReuse # 0
      <3>1. txReuseInline  BY <2>2 DEF IInv, CountInv
      <3>2. refcnt' = refcnt - k  BY <3>1 DEF Reap
      <3>3. refcnt' - Len(txq') = refcnt - Len(txq) /\ refcnt' <= refcnt
        <4>1. Len(txq') = Len(txq) - k  BY <1>3
        <4>2. refcnt \in Int /\ Len(txq) \in Nat  BY <1>1
        <4> QED  BY <3>2, <4>1, <4>2
      <3>4. refcnt' < REFCNT_LOW + REFCNT_TOPUP
        <4>1. refcnt < REFCNT_LOW + REFCNT_TOPUP  BY <2>2 DEF IInv, CountInv
        <4>2. REFCNT_LOW \in Nat /\ REFCNT_TOPUP \in Nat  BY DpdkTxAssumption
        <4>3. refcnt \in Int /\ refcnt' \in Int  BY <1>1, <1>5
        <4> QED  BY <3>3, <4>1, <4>2, <4>3
      <3> QED  BY <2>2, <3>1, <3>3, <3>4 DEF IInv, CountInv
    <2> QED  BY <2>1, <2>2
  <1> QED  BY <1>6, <1>7 DEF IInv

LEMMA Inductive == IInv /\ [Next]_vars => IInv'
  <1> SUFFICES ASSUME IInv, [Next]_vars PROVE IInv'  OBVIOUS
  <1>0. /\ txq \in Seq([mbuf : Mbufs, inlined : Nat]) /\ Len(txq) \in Nat
        /\ Len(txq) <= NbTxDesc /\ sent \in 0 .. Len(txq) /\ NbTxDesc \in Nat
        /\ 0 \notin Mbufs /\ committed \in Nat
    BY DpdkTxAssumption, LenProperties DEF IInv, TypeOK
  <1>1. CASE Acquire
    <2>1. PICK m \in Mbufs : /\ AcquireReuse(m) \/ AcquireAlloc(m)
                             /\ data' = [data EXCEPT ![m] = committed + 1]
                             /\ pendingTx' = m
      BY <1>1 DEF Acquire
    <2>2. /\ pendingTx = 0
          /\ UNCHANGED <<txReuseInline, txq, sent, committed, wire>>
      BY <1>1 DEF Acquire
    <2>3. data' \in [Mbufs -> Nat]
      <3>1. committed + 1 \in Nat /\ data \in [Mbufs -> Nat]  BY <1>0 DEF IInv, TypeOK
      <3> QED  BY <2>1, <3>1
    <2>4. CASE AcquireReuse(m)
      <3>1. /\ refcnt' \in Int /\ refcnt' - Len(txq') >= 2
            /\ refcnt' < REFCNT_LOW + REFCNT_TOPUP
            /\ txReuse' = m /\ free' \subseteq Mbufs /\ txReuseInline
        BY <2>2, <2>4, AcquireKeeps
      <3>2. TypeOK'  BY <2>1, <2>2, <2>3, <3>1 DEF IInv, TypeOK
      <3>3. refcnt' - Len(txq') >= 1  BY <1>0, <2>2, <3>1
      <3>4. CountInv'  BY <1>0, <2>2, <3>1, <3>3 DEF CountInv
      <3> QED  BY <3>2, <3>4 DEF IInv
    <2>5. CASE AcquireAlloc(m)
      <3>1. ~txReuseInline /\ txReuse = 0 /\ txReuse' = 0 /\ refcnt' = refcnt
            /\ free' \subseteq Mbufs
        BY <2>5 DEF AcquireAlloc, IInv, CountInv, TypeOK
      <3>2. TypeOK'  BY <2>1, <2>2, <2>3, <3>1 DEF IInv, TypeOK
      <3>3. CountInv'  BY <2>2, <3>1 DEF CountInv
      <3> QED  BY <3>2, <3>3 DEF IInv
    <2> QED  BY <2>1, <2>4, <2>5
  <1>2. CASE Commit
    <2>1. /\ pendingTx # 0 /\ pendingTx' = 0 /\ Len(txq) < NbTxDesc
          /\ txq' = Append(txq, [mbuf |-> pendingTx,
                                 inlined |-> IF txReuseInline THEN data[pendingTx] ELSE 0])
          /\ committed' = committed + 1
          /\ UNCHANGED <<txReuseInline, free, data, txReuse, refcnt, sent, wire>>
      BY <1>2 DEF Commit
    <2>2. pendingTx \in Mbufs /\ data[pendingTx] \in Nat  BY <2>1 DEF IInv, TypeOK
    <2>3. [mbuf |-> pendingTx, inlined |-> IF txReuseInline THEN data[pendingTx] ELSE 0]
          \in [mbuf : Mbufs, inlined : Nat]
      BY <2>2
    <2>4. txq' \in Seq([mbuf : Mbufs, inlined : Nat]) /\ Len(txq') = Len(txq) + 1
      BY <1>0, <2>1, <2>3, AppendProperties
    <2>5. Len(txq') <= NbTxDesc /\ sent' \in 0 .. Len(txq')  BY <1>0, <2>1, <2>4
    <2>6. TypeOK'  BY <1>0, <2>1, <2>4, <2>5 DEF IInv, TypeOK
    <2>7. txReuse # 0 => refcnt - (Len(txq) + 1) >= 1
      BY <1>0, <2>1 DEF IInv, CountInv, TypeOK
    <2>8. CountInv'  BY <2>1, <2>4, <2>7 DEF IInv, CountInv
    <2> QED  BY <2>6, <2>8 DEF IInv
  <1>3. CASE CommitRetry
    <2>1. sent \in Nat  BY <1>0
    <2> QED  BY <1>3, <2>1, ReapKeeps DEF CommitRetry
  <1>4. CASE EarlyReap
    <2>1. PICK k \in 1 .. sent : Reap(k)  BY <1>4 DEF EarlyReap
    <2>2. k \in Nat  BY <1>0
    <2> QED  BY <1>4, <2>1, <2>2, ReapKeeps DEF EarlyReap
  <1>5. CASE Transmit
    <2>1. /\ sent < Len(txq) /\ sent' = sent + 1
          /\ UNCHANGED <<txReuseInline, free, data, txReuse, refcnt, pendingTx, txq, committed>>
      BY <1>5 DEF Transmit
    <2>2. sent + 1 \in 1 .. Len(txq) /\ sent' \in 0 .. Len(txq)  BY <1>0, <2>1
    <2>3. txq[sent + 1] \in [mbuf : Mbufs, inlined : Nat]
      BY <1>0, <2>2, ElementOfSeq
    <2>4. wire' \in Seq(Nat)
      <3>1. (IF txq[sent + 1].inlined # 0 THEN txq[sent + 1].inlined
             ELSE data[txq[sent + 1].mbuf]) \in Nat
        BY <2>3 DEF IInv, TypeOK
      <3> QED  BY <1>5, <3>1, AppendProperties DEF Transmit, IInv, TypeOK
    <2>5. TypeOK'  BY <2>1, <2>2, <2>4 DEF IInv, TypeOK
    <2>6. CountInv'  BY <2>1 DEF IInv, CountInv
    <2> QED  BY <2>5, <2>6 DEF IInv
  <1>6. CASE AcquireFails \/ Done \/ UNCHANGED vars
    <2>1. UNCHANGED vars  BY <1>6 DEF AcquireFails, Done
    <2>2. TypeOK'  BY <2>1 DEF vars, IInv, TypeOK
    <2>3. CountInv'  BY <2>1 DEF vars, IInv, CountInv
    <2> QED  BY <2>2, <2>3 DEF IInv
  <1> QED  BY <1>1, <1>2, <1>3, <1>4, <1>5, <1>6 DEF Next, Caller

LEMMA Initial == Init => IInv
  <1> SUFFICES ASSUME Init PROVE IInv  OBVIOUS
  <1>1. TypeOK  BY DpdkTxAssumption DEF Init, TypeOK
  <1>2. CountInv  BY DEF Init, CountInv
  <1> QED  BY <1>1, <1>2 DEF IInv

LEMMA Invariant == Spec => []IInv
  BY Initial, Inductive, PTL DEF Spec

\* Descriptors refer to mbufs of the pool and the ring is never exceeded.
THEOREM TypeCorrect == Spec => []TypeOK
  <1>1. IInv => TypeOK  BY DEF IInv
  <1> QED  BY <1>1, Invariant, PTL

\* The claim beside REFCNT_LOW: the count lags the sends by at most the ring, so topping
\* it up in acquire() keeps it positive, and it never overflows.
THEOREM RefcntSafe == Spec => []RefcntInRange
  <1>1. IInv => RefcntInRange
    <2> SUFFICES ASSUME IInv, txReuse # 0
                 PROVE  0 < refcnt - Len(txq) /\ refcnt < RefcntWidth
      BY DEF RefcntInRange
    <2>1. refcnt \in Int /\ Len(txq) \in Nat  BY LenProperties DEF IInv, TypeOK
    <2>2. refcnt - Len(txq) >= 1 /\ refcnt < REFCNT_LOW + REFCNT_TOPUP
      BY DEF IInv, CountInv
    <2> QED  BY <2>1, <2>2, DpdkTxAssumption
  <1> QED  BY <1>1, Invariant, PTL

-----------------------------------------------------------------------------

\* The mbufs outside the pool.
Owned(m) == m \in {pendingTx, txReuse} \/ \E i \in 1 .. Len(txq) : txq[i].mbuf = m

\* Every mbuf is either in the pool or in use.  Without inline reuse each is in use
\* once; with it one mbuf serves every descriptor.
PlaceInv ==
    /\ \A m \in Mbufs : m \in free <=> ~Owned(m)
    /\ txReuseInline =>
        /\ pendingTx \in {0, txReuse}
        /\ \A i \in 1 .. Len(txq) : txq[i].mbuf = txReuse
    /\ ~txReuseInline =>
        /\ \A i \in 1 .. Len(txq) : txq[i].mbuf # pendingTx
        /\ \A i, j \in 1 .. Len(txq) : i # j => txq[i].mbuf # txq[j].mbuf

\* What the NIC will send for a descriptor.
BytesOf(i) == IF txReuseInline THEN txq[i].inlined ELSE data[txq[i].mbuf]

\* The unsent descriptors carry the frames that follow the last one on the wire.
NameInv ==
    /\ committed = Len(wire) + (Len(txq) - sent)
    /\ pendingTx # 0 => data[pendingTx] = committed + 1
    /\ \A i \in sent + 1 .. Len(txq) : BytesOf(i) = Len(wire) + (i - sent)
    /\ ~txReuseInline => \A i \in 1 .. Len(txq) : txq[i].inlined = 0

\* Reaping drops the oldest k descriptors and moves the others up.
LEMMA ReapShape ==
  ASSUME TypeOK, NEW k \in Nat, Reap(k)
  PROVE  /\ k <= sent /\ k <= Len(txq) /\ sent' = sent - k /\ Len(txq') = Len(txq) - k
         /\ \A i \in 1 .. Len(txq) - k : txq'[i] = txq[k + i]
  <1>1. /\ txq \in Seq([mbuf : Mbufs, inlined : Nat]) /\ Len(txq) \in Nat
        /\ sent \in 0 .. Len(txq)
    BY LenProperties DEF TypeOK
  <1>2. k <= sent /\ k <= Len(txq) /\ sent' = sent - k  BY <1>1 DEF Reap
  <1>3. \A i \in k + 1 .. Len(txq) : txq[i] \in [mbuf : Mbufs, inlined : Nat]
    <2>1. \A i \in k + 1 .. Len(txq) : i \in 1 .. Len(txq)  BY <1>1
    <2> QED  BY <1>1, <2>1, ElementOfSeq
  <1>4. k + 1 \in Int /\ Len(txq) \in Int  BY <1>1
  <1> DEFINE t == SubSeq(txq, k + 1, Len(txq))
  <1>5. /\ Len(t) = IF k + 1 <= Len(txq) THEN Len(txq) - (k + 1) + 1 ELSE 0
        /\ \A i \in 1 .. Len(txq) - (k + 1) + 1 : t[i] = txq[k + 1 + i - 1]
    BY <1>3, <1>4, SubSeqProperties
  <1>6. txq' = t  BY DEF Reap
  <1> HIDE DEF t
  <1>7. Len(t) = Len(txq) - k  BY <1>1, <1>2, <1>5
  <1>8. ASSUME NEW i \in 1 .. Len(txq) - k PROVE t[i] = txq[k + i]
    <2>1. i \in 1 .. Len(txq) - (k + 1) + 1 /\ k + 1 + i - 1 = k + i  BY <1>1
    <2> QED  BY <1>5, <2>1
  <1> QED  BY <1>2, <1>6, <1>7, <1>8

\* Reaping returns to the pool exactly the mbufs it takes from the ring.
LEMMA ReapPlaces ==
  ASSUME IInv, PlaceInv, NEW k \in Nat, Reap(k),
         UNCHANGED <<txReuseInline, data, txReuse, pendingTx, committed, wire>>
  PROVE  PlaceInv'
  <1>1. /\ TypeOK /\ Len(txq) \in Nat /\ free \subseteq Mbufs
        /\ txq \in Seq([mbuf : Mbufs, inlined : Nat]) /\ 0 \notin Mbufs
    BY DpdkTxAssumption, LenProperties DEF IInv, TypeOK
  <1>2. /\ k <= Len(txq) /\ Len(txq') = Len(txq) - k
        /\ \A i \in 1 .. Len(txq) - k : txq'[i] = txq[k + i]
    BY <1>1, ReapShape
  <1>3. \A i \in 1 .. Len(txq) - k : k + i \in 1 .. Len(txq)  BY <1>1, <1>2
  <1>4. CASE txReuseInline
    <2>1. free' = free  BY <1>4 DEF Reap
    <2>2. \A i \in 1 .. Len(txq') : txq'[i].mbuf = txReuse
      BY <1>2, <1>3, <1>4 DEF PlaceInv
    <2>3. \A m : Owned(m) => m \in {pendingTx, txReuse}  BY <1>4 DEF PlaceInv, Owned
    <2>4. \A m : Owned(m)' <=> m \in {pendingTx, txReuse}  BY <2>2 DEF Owned
    <2>5. \A m : Owned(m)' <=> Owned(m)  BY <2>3, <2>4 DEF Owned
    <2> QED  BY <1>4, <2>1, <2>2, <2>5 DEF PlaceInv
  <1>5. CASE ~txReuseInline
    <2>1. free' = free \cup {txq[i].mbuf : i \in 1 .. k}  BY <1>5 DEF Reap
    <2>2. txReuse = 0  BY <1>5 DEF IInv, CountInv
    <2>3. ASSUME NEW i \in 1 .. Len(txq'), NEW j \in 1 .. Len(txq'), i # j
          PROVE  txq'[i].mbuf # txq'[j].mbuf
      <3>1. i \in 1 .. Len(txq) - k /\ j \in 1 .. Len(txq) - k  BY <1>2
      <3>2. k + i \in 1 .. Len(txq) /\ k + j \in 1 .. Len(txq)  BY <1>3, <3>1
      <3>3. k + i # k + j  BY <1>1, <2>3, <3>1
      <3>4. txq'[i] = txq[k + i] /\ txq'[j] = txq[k + j]  BY <1>2, <3>1
      <3> QED  BY <1>5, <3>2, <3>3, <3>4 DEF PlaceInv
    <2>4. \A i \in 1 .. Len(txq') : txq'[i].mbuf # pendingTx  BY <1>2, <1>3, <1>5 DEF PlaceInv
    <2>5. ASSUME NEW m \in Mbufs PROVE m \in free' <=> ~Owned(m)'
      <3>1. m \in free <=> ~Owned(m)  BY DEF PlaceInv
      <3>2. CASE \E i \in 1 .. k : txq[i].mbuf = m
        <4>1. PICK i \in 1 .. k : txq[i].mbuf = m  BY <3>2
        <4>2. i \in 1 .. Len(txq)  BY <1>1, <1>2
        <4>3. m # pendingTx /\ m # txReuse  BY <1>1, <1>5, <2>2, <4>1, <4>2 DEF PlaceInv
        <4>4. ASSUME NEW j \in 1 .. Len(txq') PROVE txq'[j].mbuf # m
          <5>1. k + j \in 1 .. Len(txq) /\ k + j # i /\ txq'[j] = txq[k + j]
            BY <1>1, <1>2, <1>3
          <5> QED  BY <1>5, <4>1, <4>2, <5>1 DEF PlaceInv
        <4>5. ~Owned(m)'  BY <4>3, <4>4 DEF Owned
        <4>6. m \in free'  BY <2>1, <4>1
        <4> QED  BY <4>5, <4>6
      <3>3. CASE ~ \E i \in 1 .. k : txq[i].mbuf = m
        <4>1. m \in free' <=> m \in free  BY <2>1, <3>3
        <4>2. Owned(m)' => Owned(m)  BY <1>2, <1>3 DEF Owned
        <4>3. Owned(m) => Owned(m)'
          <5> SUFFICES ASSUME NEW i \in 1 .. Len(txq), txq[i].mbuf = m
                       PROVE  \E j \in 1 .. Len(txq') : txq'[j].mbuf = m
            BY DEF Owned
          <5>1. i - k \in 1 .. Len(txq) - k /\ k + (i - k) = i  BY <1>1, <1>2, <3>3
          <5>2. txq'[i - k] = txq[i]  BY <1>2, <5>1
          <5> QED  BY <1>2, <5>1, <5>2
        <4> QED  BY <3>1, <4>1, <4>2, <4>3
      <3> QED  BY <3>2, <3>3
    <2> QED  BY <1>5, <2>3, <2>4, <2>5 DEF PlaceInv
  <1> QED  BY <1>4, <1>5

\* acquire() takes one mbuf from the pool or reuses the one in use, and commit() moves
\* it to the ring.
LEMMA PlaceStep == IInv /\ PlaceInv /\ [Next]_vars => PlaceInv'
  <1> SUFFICES ASSUME IInv, PlaceInv, [Next]_vars PROVE PlaceInv'  OBVIOUS
  <1>0. /\ TypeOK /\ txq \in Seq([mbuf : Mbufs, inlined : Nat]) /\ Len(txq) \in Nat
        /\ sent \in 0 .. Len(txq) /\ 0 \notin Mbufs /\ free \subseteq Mbufs
        /\ \A i \in 1 .. Len(txq) : txq[i].mbuf \in Mbufs
    <2>1. txq \in Seq([mbuf : Mbufs, inlined : Nat]) /\ Len(txq) \in Nat
      BY LenProperties DEF IInv, TypeOK
    <2>2. \A i \in 1 .. Len(txq) : txq[i] \in [mbuf : Mbufs, inlined : Nat]
      BY <2>1, ElementOfSeq
    <2>3. \A i \in 1 .. Len(txq) : txq[i].mbuf \in Mbufs  BY <2>2
    <2> QED  BY <2>1, <2>3, DpdkTxAssumption DEF IInv, TypeOK
  <1>1. CASE Acquire
    <2>1. PICK m \in Mbufs : (AcquireReuse(m) \/ AcquireAlloc(m)) /\ pendingTx' = m
      BY <1>1 DEF Acquire
    <2>2. pendingTx = 0 /\ UNCHANGED <<txReuseInline, txq>>  BY <1>1 DEF Acquire
    <2>3. CASE AcquireReuse(m)
      <3>1. /\ txReuseInline /\ free' = free \ {m} /\ txReuse' = m
            /\ m \in IF txReuse = 0 THEN free ELSE {txReuse}
        BY <2>3 DEF AcquireReuse
      <3>2. \A i \in 1 .. Len(txq) : txq[i].mbuf = txReuse  BY <3>1 DEF PlaceInv
      <3>3. \A i \in 1 .. Len(txq) : txq[i].mbuf = m  BY <1>0, <3>1, <3>2
      <3>4. \A x \in Mbufs : Owned(x)' <=> Owned(x) \/ x = m
        BY <1>0, <2>1, <2>2, <3>1, <3>2, <3>3 DEF Owned
      <3>5. \A x \in Mbufs : x \in free' <=> ~Owned(x)'  BY <3>1, <3>4 DEF PlaceInv
      <3> QED  BY <2>1, <2>2, <3>1, <3>3, <3>5 DEF PlaceInv
    <2>4. CASE AcquireAlloc(m)
      <3>1. ~txReuseInline /\ m \in free /\ free' = free \ {m} /\ UNCHANGED txReuse
        BY <2>4 DEF AcquireAlloc
      <3>2. ~Owned(m)  BY <3>1 DEF PlaceInv
      <3>3. \A x \in Mbufs : Owned(x)' <=> Owned(x) \/ x = m
        BY <1>0, <2>1, <2>2, <3>1 DEF Owned
      <3>4. \A x \in Mbufs : x \in free' <=> ~Owned(x)'  BY <3>1, <3>3 DEF PlaceInv
      <3>5. \A i \in 1 .. Len(txq) : txq[i].mbuf # m  BY <3>2 DEF Owned
      <3> QED  BY <2>1, <2>2, <3>1, <3>4, <3>5 DEF PlaceInv
    <2> QED  BY <2>1, <2>3, <2>4
  <1>2. CASE Commit
    <2> DEFINE d == [mbuf |-> pendingTx,
                     inlined |-> IF txReuseInline THEN data[pendingTx] ELSE 0]
    <2>1. /\ pendingTx # 0 /\ pendingTx' = 0 /\ txq' = Append(txq, d)
          /\ UNCHANGED <<txReuseInline, free, txReuse>>
      BY <1>2 DEF Commit
    <2>2. d \in [mbuf : Mbufs, inlined : Nat] /\ d.mbuf = pendingTx
      <3>1. pendingTx \in Mbufs /\ data[pendingTx] \in Nat  BY <1>0, <2>1 DEF TypeOK
      <3> QED  BY <3>1
    <2> HIDE DEF d
    <2>3. /\ Len(txq') = Len(txq) + 1 /\ txq'[Len(txq) + 1] = d
          /\ \A i \in 1 .. Len(txq) : txq'[i] = txq[i]
      BY <1>0, <2>1, <2>2, AppendProperties
    <2>4. \A i \in 1 .. Len(txq') : i \in 1 .. Len(txq) \/ i = Len(txq) + 1
      BY <1>0, <2>3
    <2>5. Len(txq) + 1 \in 1 .. Len(txq') /\ \A i \in 1 .. Len(txq) : i \in 1 .. Len(txq')
      BY <1>0, <2>3
    <2>6. \A m \in Mbufs : Owned(m)' <=> Owned(m)
      BY <1>0, <2>1, <2>2, <2>3, <2>4, <2>5 DEF Owned
    <2>7. ASSUME NEW i \in 1 .. Len(txq')
          PROVE  txq'[i].mbuf \in Mbufs /\ (txReuseInline => txq'[i].mbuf = txReuse)
      <3>1. CASE i \in 1 .. Len(txq)  BY <1>0, <2>3, <3>1 DEF PlaceInv
      <3>2. CASE i = Len(txq) + 1
        <4>1. txq'[i].mbuf = pendingTx  BY <2>2, <2>3, <3>2
        <4>2. pendingTx \in Mbufs  BY <1>0, <2>1 DEF TypeOK
        <4> QED  BY <2>1, <4>1, <4>2 DEF PlaceInv
      <3> QED  BY <2>4, <3>1, <3>2
    <2>8. ASSUME ~txReuseInline, NEW i \in 1 .. Len(txq'), NEW j \in 1 .. Len(txq'), i # j
          PROVE  txq'[i].mbuf # txq'[j].mbuf
      <3>1. CASE i \in 1 .. Len(txq) /\ j \in 1 .. Len(txq)
        BY <2>3, <2>8, <3>1 DEF PlaceInv
      <3>2. CASE i = Len(txq) + 1 /\ j \in 1 .. Len(txq)
        BY <2>2, <2>3, <2>8, <3>2 DEF PlaceInv
      <3>3. CASE j = Len(txq) + 1 /\ i \in 1 .. Len(txq)
        BY <2>2, <2>3, <2>8, <3>3 DEF PlaceInv
      <3> QED  BY <2>4, <2>8, <3>1, <3>2, <3>3
    <2> QED  BY <1>0, <2>1, <2>6, <2>7, <2>8 DEF PlaceInv
  <1>3. CASE CommitRetry
    <2>1. sent \in Nat  BY <1>0
    <2> QED  BY <1>3, <2>1, ReapPlaces DEF CommitRetry
  <1>4. CASE EarlyReap
    <2>1. PICK k \in 1 .. sent : Reap(k)  BY <1>4 DEF EarlyReap
    <2>2. k \in Nat  BY <1>0
    <2> QED  BY <1>4, <2>1, <2>2, ReapPlaces DEF EarlyReap
  <1>5. CASE UNCHANGED <<txReuseInline, free, txReuse, pendingTx, txq>>
    BY <1>5 DEF PlaceInv, Owned
  <1> QED
    BY <1>1, <1>2, <1>3, <1>4, <1>5 DEF Next, Caller, AcquireFails, Transmit, Done, vars

\* The NIC sends the frame after the last one on the wire.
LEMMA SentBytes ==
  ASSUME IInv, NameInv, Transmit
  PROVE  wire' = Append(wire, Len(wire) + 1) /\ Len(wire') = Len(wire) + 1
  <1>1. /\ Len(txq) \in Nat /\ sent \in 0 .. Len(txq) /\ sent < Len(txq)
        /\ wire \in Seq(Nat) /\ Len(wire) \in Nat
    BY LenProperties DEF IInv, TypeOK, Transmit
  <1>2. sent + 1 \in sent + 1 .. Len(txq) /\ sent + 1 \in 1 .. Len(txq) /\ (sent + 1) - sent = 1
    BY <1>1
  <1>3. BytesOf(sent + 1) = Len(wire) + 1
    <2>1. BytesOf(sent + 1) = Len(wire) + ((sent + 1) - sent)  BY <1>2 DEF NameInv
    <2> QED  BY <1>2, <2>1
  <1> DEFINE d == txq[sent + 1]
  <1>4. (IF d.inlined # 0 THEN d.inlined ELSE data[d.mbuf]) = BytesOf(sent + 1)
    <2>1. CASE txReuseInline
      <3>1. d.inlined = Len(wire) + 1  BY <1>3, <2>1 DEF BytesOf
      <3>2. d.inlined # 0  BY <1>1, <3>1
      <3> QED  BY <2>1, <3>2 DEF BytesOf
    <2>2. CASE ~txReuseInline
      <3>1. d.inlined = 0  BY <1>2, <2>2 DEF NameInv
      <3> QED  BY <2>2, <3>1 DEF BytesOf
    <2> QED  BY <2>1, <2>2
  <1>5. wire' = Append(wire, Len(wire) + 1)  BY <1>3, <1>4 DEF Transmit
  <1>6. Len(Append(wire, Len(wire) + 1)) = Len(wire) + 1
    <2>1. Len(wire) + 1 \in Nat  BY <1>1
    <2> QED  BY <1>1, <2>1, AppendProperties
  <1> QED  BY <1>5, <1>6

\* The descriptors left after reaping carry the frames they carried.
LEMMA ReapNames ==
  ASSUME IInv, NameInv, NEW k \in Nat, Reap(k),
         UNCHANGED <<txReuseInline, data, txReuse, pendingTx, committed, wire>>
  PROVE  NameInv'
  <1>1. /\ TypeOK /\ Len(txq) \in Nat /\ sent \in 0 .. Len(txq) /\ Len(wire) \in Nat
    BY LenProperties DEF IInv, TypeOK
  <1>2. /\ k <= sent /\ sent' = sent - k /\ Len(txq') = Len(txq) - k
        /\ \A i \in 1 .. Len(txq) - k : txq'[i] = txq[k + i]
    BY <1>1, ReapShape
  <1>3. committed' = Len(wire') + (Len(txq') - sent')  BY <1>1, <1>2 DEF NameInv
  <1>4. ASSUME NEW i \in sent' + 1 .. Len(txq')
        PROVE  BytesOf(i)' = Len(wire') + (i - sent')
    <2>1. /\ i \in 1 .. Len(txq) - k /\ k + i \in sent + 1 .. Len(txq)
          /\ (k + i) - sent = i - sent'
      BY <1>1, <1>2
    <2>2. txq'[i] = txq[k + i]  BY <1>2, <2>1
    <2>3. BytesOf(i)' = BytesOf(k + i)  BY <2>2 DEF BytesOf
    <2>4. BytesOf(k + i) = Len(wire) + ((k + i) - sent)  BY <2>1 DEF NameInv
    <2> QED  BY <2>1, <2>3, <2>4
  <1>5. ASSUME ~txReuseInline, NEW i \in 1 .. Len(txq') PROVE txq'[i].inlined = 0
    <2>1. i \in 1 .. Len(txq) - k /\ k + i \in 1 .. Len(txq)  BY <1>1, <1>2
    <2> QED  BY <1>2, <1>5, <2>1 DEF NameInv
  <1>6. pendingTx' # 0 => data'[pendingTx'] = committed' + 1  BY DEF NameInv
  <1> QED  BY <1>3, <1>4, <1>5, <1>6 DEF NameInv

\* The caller writes only the mbuf it acquired, which no unsent descriptor reads.
LEMMA NameStep == IInv /\ PlaceInv /\ NameInv /\ [Next]_vars => NameInv'
  <1> SUFFICES ASSUME IInv, PlaceInv, NameInv, [Next]_vars PROVE NameInv'  OBVIOUS
  <1>0. /\ TypeOK /\ txq \in Seq([mbuf : Mbufs, inlined : Nat]) /\ Len(txq) \in Nat
        /\ sent \in 0 .. Len(txq) /\ 0 \notin Mbufs /\ committed \in Nat
        /\ data \in [Mbufs -> Nat] /\ wire \in Seq(Nat) /\ Len(wire) \in Nat
        /\ committed = Len(wire) + (Len(txq) - sent)
    BY DpdkTxAssumption, LenProperties DEF IInv, TypeOK, NameInv
  <1>00. \A i \in 1 .. Len(txq) : txq[i].mbuf \in Mbufs
    <2>1. \A i \in 1 .. Len(txq) : txq[i] \in [mbuf : Mbufs, inlined : Nat]
      BY <1>0, ElementOfSeq
    <2> QED  BY <2>1
  <1>1. CASE Acquire
    <2>1. PICK m \in Mbufs : /\ AcquireReuse(m) \/ AcquireAlloc(m)
                             /\ data' = [data EXCEPT ![m] = committed + 1]
                             /\ pendingTx' = m
      BY <1>1 DEF Acquire
    <2>2. UNCHANGED <<txReuseInline, txq, sent, committed, wire>>  BY <1>1 DEF Acquire
    <2>3. data'[pendingTx'] = committed' + 1  BY <1>0, <2>1, <2>2
    <2>4. ASSUME ~txReuseInline, NEW i \in 1 .. Len(txq) PROVE txq[i].mbuf # m
      <3>1. m \in free  BY <2>1, <2>4 DEF AcquireReuse, AcquireAlloc
      <3> QED  BY <3>1, <2>4 DEF PlaceInv, Owned
    <2>5. ASSUME NEW i \in sent + 1 .. Len(txq) PROVE BytesOf(i)' = BytesOf(i)
      <3>1. i \in 1 .. Len(txq)  BY <1>0
      <3>2. CASE txReuseInline  BY <2>2, <3>2 DEF BytesOf
      <3>3. CASE ~txReuseInline
        <4>1. txq[i].mbuf \in Mbufs /\ txq[i].mbuf # m  BY <1>00, <2>4, <3>1, <3>3
        <4>2. data'[txq[i].mbuf] = data[txq[i].mbuf]  BY <1>0, <2>1, <4>1
        <4> QED  BY <2>2, <3>3, <4>2 DEF BytesOf
      <3> QED  BY <3>2, <3>3
    <2> QED  BY <2>2, <2>3, <2>5 DEF NameInv
  <1>2. CASE Commit
    <2> DEFINE d == [mbuf |-> pendingTx,
                     inlined |-> IF txReuseInline THEN data[pendingTx] ELSE 0]
    <2>1. /\ pendingTx # 0 /\ pendingTx' = 0 /\ txq' = Append(txq, d)
          /\ committed' = committed + 1 /\ UNCHANGED <<txReuseInline, data, sent, wire>>
      BY <1>2 DEF Commit
    <2>2. /\ d \in [mbuf : Mbufs, inlined : Nat] /\ d.mbuf = pendingTx
          /\ d.inlined = IF txReuseInline THEN data[pendingTx] ELSE 0
      <3>1. pendingTx \in Mbufs /\ data[pendingTx] \in Nat  BY <1>0, <2>1 DEF TypeOK
      <3> QED  BY <3>1
    <2> HIDE DEF d
    <2>3. /\ Len(txq') = Len(txq) + 1 /\ txq'[Len(txq) + 1] = d
          /\ \A i \in 1 .. Len(txq) : txq'[i] = txq[i]
      BY <1>0, <2>1, <2>2, AppendProperties
    <2>4. committed' = Len(wire') + (Len(txq') - sent')  BY <1>0, <2>1, <2>3
    <2>5. data[pendingTx] = committed + 1  BY <2>1 DEF NameInv
    <2>6. ASSUME NEW i \in sent' + 1 .. Len(txq') PROVE BytesOf(i)' = Len(wire') + (i - sent')
      <3>1. CASE i = Len(txq) + 1
        <4>1. BytesOf(i)' = data[pendingTx]  BY <2>1, <2>2, <2>3, <3>1 DEF BytesOf
        <4> QED  BY <1>0, <2>1, <2>5, <3>1, <4>1
      <3>2. CASE i \in sent + 1 .. Len(txq)
        <4>1. i \in 1 .. Len(txq)  BY <1>0, <3>2
        <4>2. BytesOf(i)' = BytesOf(i)  BY <2>1, <2>3, <4>1 DEF BytesOf
        <4> QED  BY <2>1, <3>2, <4>2 DEF NameInv
      <3>3. i = Len(txq) + 1 \/ i \in sent + 1 .. Len(txq)
        <4>1. sent' = sent /\ Len(txq') = Len(txq) + 1  BY <2>1, <2>3
        <4>2. sent \in Nat /\ Len(txq) \in Nat  BY <1>0
        <4> QED  BY <4>1, <4>2
      <3> QED  BY <3>1, <3>2, <3>3
    <2>7. ASSUME ~txReuseInline, NEW i \in 1 .. Len(txq') PROVE txq'[i].inlined = 0
      <3>1. Len(txq') = Len(txq) + 1 /\ Len(txq) \in Nat  BY <1>0, <2>3
      <3>2. i = Len(txq) + 1 \/ i \in 1 .. Len(txq)  BY <3>1
      <3> QED  BY <2>2, <2>3, <2>7, <3>2 DEF NameInv
    <2> QED  BY <2>1, <2>4, <2>6, <2>7 DEF NameInv
  <1>3. CASE CommitRetry
    <2>1. sent \in Nat  BY <1>0
    <2> QED  BY <1>3, <2>1, ReapNames DEF CommitRetry
  <1>4. CASE EarlyReap
    <2>1. PICK k \in 1 .. sent : Reap(k)  BY <1>4 DEF EarlyReap
    <2>2. k \in Nat  BY <1>0
    <2> QED  BY <1>4, <2>1, <2>2, ReapNames DEF EarlyReap
  <1>5. CASE Transmit
    <2>1. /\ sent < Len(txq) /\ sent' = sent + 1
          /\ UNCHANGED <<txReuseInline, data, pendingTx, txq, committed>>
      BY <1>5 DEF Transmit
    <2>2. Len(wire') = Len(wire) + 1
      BY <1>0, <1>5, SentBytes DEF Transmit, IInv
    <2>3. committed' = Len(wire') + (Len(txq') - sent')  BY <1>0, <2>1, <2>2
    <2>4. ASSUME NEW i \in sent' + 1 .. Len(txq') PROVE BytesOf(i)' = Len(wire') + (i - sent')
      <3>1. i \in sent + 1 .. Len(txq) /\ i \in Int  BY <1>0, <2>1
      <3>2. BytesOf(i)' = BytesOf(i)  BY <2>1 DEF BytesOf
      <3>3. BytesOf(i) = Len(wire) + (i - sent)  BY <3>1 DEF NameInv
      <3> QED  BY <1>0, <2>1, <2>2, <3>1, <3>2, <3>3
    <2> QED  BY <2>1, <2>3, <2>4 DEF NameInv
  <1>6. CASE AcquireFails \/ Done \/ UNCHANGED vars
    BY <1>6 DEF AcquireFails, Done, vars, NameInv, BytesOf
  <1> QED  BY <1>1, <1>2, <1>3, <1>4, <1>5, <1>6 DEF Next, Caller

LEMMA Initially == Init => PlaceInv /\ NameInv
  <1> SUFFICES ASSUME Init PROVE PlaceInv /\ NameInv  OBVIOUS
  <1>1. 0 \notin Mbufs /\ Len(txq) = 0 /\ Len(wire) = 0  BY DpdkTxAssumption DEF Init
  <1>2. \A m \in Mbufs : m \in free /\ ~Owned(m)  BY <1>1 DEF Init, Owned
  <1>3. PlaceInv  BY <1>1, <1>2 DEF Init, PlaceInv
  <1>4. NameInv  BY <1>1 DEF Init, NameInv
  <1> QED  BY <1>3, <1>4

LEMMA FullInvariant == Spec => [](IInv /\ PlaceInv /\ NameInv)
  <1>1. IInv /\ PlaceInv /\ NameInv /\ [Next]_vars => (IInv /\ PlaceInv /\ NameInv)'
    BY Inductive, PlaceStep, NameStep
  <1> QED  BY <1>1, Initial, Initially, PTL DEF Spec

\* No mbuf is lost by acquire() and commit() or is in two places, in either way of
\* building a frame, for every pool and ring size and every pace of reaping.
THEOREM MbufsKept == Spec => []MbufsConserved
  <1>1. IInv /\ PlaceInv => MbufsConserved
    <2> SUFFICES ASSUME IInv, PlaceInv PROVE MbufsConserved  OBVIOUS
    <2> DEFINE queued == {txq[i].mbuf : i \in 1 .. Len(txq)}
               out == queued \cup ({txReuse, pendingTx} \ {0})
    <2>1. /\ Len(txq) \in Nat /\ txq \in Seq([mbuf : Mbufs, inlined : Nat])
          /\ free \subseteq Mbufs /\ {txReuse, pendingTx} \subseteq Mbufs \cup {0}
          /\ 0 \notin Mbufs
      BY DpdkTxAssumption, LenProperties DEF IInv, TypeOK
    <2>2. \A i \in 1 .. Len(txq) : txq[i].mbuf \in Mbufs
      <3>1. \A i \in 1 .. Len(txq) : txq[i] \in [mbuf : Mbufs, inlined : Nat]
        BY <2>1, ElementOfSeq
      <3> QED  BY <3>1
    <2>3. out \subseteq Mbufs /\ \A m \in Mbufs : m \in out <=> Owned(m)
      BY <2>1, <2>2 DEF Owned
    <2>4. free \cup out = Mbufs /\ free \cap out = {}
      <3> HIDE DEF out
      <3> QED  BY <2>1, <2>3 DEF PlaceInv
    <2>5. ASSUME ~txReuseInline PROVE Cardinality(queued) = Len(txq)
      <3> DEFINE f == [i \in 1 .. Len(txq) |-> txq[i].mbuf]
      <3>1. f \in [1 .. Len(txq) -> queued]  OBVIOUS
      <3>2. \A i, j \in 1 .. Len(txq) : f[i] = f[j] => i = j  BY <2>5 DEF PlaceInv
      <3>3. \A m \in queued : \E i \in 1 .. Len(txq) : f[i] = m  OBVIOUS
      <3> HIDE DEF f, queued
      <3>4. ExistsBijection(1 .. Len(txq), queued)
        <4>1. f \in Bijection(1 .. Len(txq), queued)  BY <3>1, <3>2, <3>3, Fun_IsBij
        <4> QED  BY <4>1, Fun_ExistsBij
      <3> QED  BY <2>1, <3>4, FS_CountingElements
    <2> QED  BY <2>4, <2>5 DEF MbufsConserved
  <1> QED  BY <1>1, FullInvariant, PTL

\* The transmit half of DPDK implements the TxRing concept for every pool and ring size:
\* each frame leaves once, in order, with the bytes it was committed with, whether it has
\* an mbuf of its own or shares the reused one.
THEOREM DpdkTransmitsFaithfully == Spec => TransmitsFaithfully
  <1>1. Init => Abstract!TxInit  BY DEF Init, Abstract!TxInit
  <1>2. IInv /\ PlaceInv /\ NameInv /\ [Next]_vars
          => [Abstract!Commit \/ Abstract!Transmit]_<<committed, wire>>
    <2> SUFFICES ASSUME IInv, PlaceInv, NameInv, [Next]_vars
                 PROVE  [Abstract!Commit \/ Abstract!Transmit]_<<committed, wire>>
      OBVIOUS
    <2>1. CASE Commit  BY <2>1 DEF Commit, Abstract!Commit
    <2>2. CASE Transmit
      <3>1. wire' = Append(wire, Len(wire) + 1)  BY <2>2, SentBytes
      <3>2. Len(wire) < committed
        <4>1. /\ Len(txq) \in Nat /\ sent \in 0 .. Len(txq) /\ sent < Len(txq)
              /\ Len(wire) \in Nat /\ committed = Len(wire) + (Len(txq) - sent)
          BY <2>2, LenProperties DEF IInv, TypeOK, Transmit, NameInv
        <4> QED  BY <4>1
      <3> QED  BY <2>2, <3>1, <3>2 DEF Transmit, Abstract!Transmit
    <2>3. CASE UNCHANGED <<committed, wire>>  BY <2>3
    <2> QED
      BY <2>1, <2>2, <2>3
      DEF Next, Caller, Acquire, AcquireFails, CommitRetry, EarlyReap, Done, vars
  <1> QED
    BY <1>1, <1>2, FullInvariant, PTL DEF Spec, TransmitsFaithfully, Abstract!TxSpec

=============================================================================
