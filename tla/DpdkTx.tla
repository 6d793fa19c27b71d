------------------------------- MODULE DpdkTx -------------------------------
(***************************************************************************)
(* The transmit half of the DPDK transport.  A frame is built either in an *)
(* mbuf of its own from the pool or, where the PMD copies frames into the  *)
(* descriptor, in one mbuf that is sent again and again; its reference     *)
(* count falls by one for each send the PMD reaps and is topped up.        *)
(***************************************************************************)
EXTENDS DpdkParameters, Sequences

CONSTANT MaxFrames  \* bound: frames the caller sends

VARIABLES txReuseInline,  \* m_txReuseInline, for frames of at most INLINE_SAFE_LEN
          free,       \* mbufs in the pool
          data,       \* the frame in each mbuf
          txReuse,    \* m_txReuse, or 0
          refcnt,     \* its reference count
          pendingTx,  \* m_pendingTx, or 0
          txq,        \* descriptors the PMD has not reaped: mbuf and inlined bytes
          sent,       \* how many of them the NIC has sent
          committed, wire

vars == <<txReuseInline, free, data, txReuse, refcnt, pendingTx, txq, sent, committed, wire>>

Init ==
    /\ txReuseInline \in BOOLEAN
    /\ free = Mbufs
    /\ data = [m \in Mbufs |-> 0]
    /\ txReuse = 0 /\ refcnt = 0 /\ pendingTx = 0
    /\ txq = << >> /\ sent = 0
    /\ committed = 0 /\ wire = << >>

\* Mutant of AcquireReuse: the count is set once and never topped up.
AcquireReuseNoTopup(m) ==
    /\ txReuseInline
    /\ m \in IF txReuse = 0 THEN free ELSE {txReuse}
    /\ free' = free \ {m}
    /\ refcnt' = IF txReuse = 0 THEN REFCNT_TOPUP ELSE refcnt
    /\ txReuse' = m

\* acquire(), inline reuse: the mbuf is allocated once and its count kept up.
AcquireReuse(m) ==
    /\ txReuseInline
    /\ m \in IF txReuse = 0 THEN free ELSE {txReuse}
    /\ free' = free \ {m}
    /\ LET count == IF txReuse = 0 THEN REFCNT_TOPUP ELSE refcnt
       IN  refcnt' = count + (IF count < REFCNT_LOW THEN REFCNT_TOPUP ELSE 0)
    /\ txReuse' = m

\* Mutant of AcquireAlloc: the mbuf handed out stays in the pool.
AcquireHeld(m) ==
    /\ ~txReuseInline
    /\ m \in free
    /\ UNCHANGED <<free, txReuse, refcnt>>

\* acquire(), an mbuf of its own.
AcquireAlloc(m) ==
    /\ ~txReuseInline
    /\ m \in free
    /\ free' = free \ {m}
    /\ UNCHANGED <<txReuse, refcnt>>

\* The caller acquires and fills the next frame.
Acquire ==
    /\ pendingTx = 0
    /\ committed < MaxFrames
    /\ \E m \in Mbufs :
        /\ AcquireReuse(m) \/ AcquireAlloc(m)
        /\ data' = [data EXCEPT ![m] = committed + 1]
        /\ pendingTx' = m
    /\ UNCHANGED <<txReuseInline, txq, sent, committed, wire>>

\* acquire(): the pool is empty.
AcquireFails ==
    /\ pendingTx = 0
    /\ free = {} /\ txReuse = 0
    /\ UNCHANGED vars

\* The PMD reaps k sent descriptors inside rte_eth_tx_burst().
Reap(k) ==
    /\ k <= sent
    /\ txq' = SubSeq(txq, k + 1, Len(txq))
    /\ sent' = sent - k
    /\ IF txReuseInline
       THEN refcnt' = refcnt - k /\ UNCHANGED free
       ELSE free' = free \cup {txq[i].mbuf : i \in 1 .. k} /\ UNCHANGED refcnt

\* Mutant of CommitRetry: the burst does not reap, so a full ring stays full.
CommitRetryGivesUp ==
    /\ pendingTx # 0
    /\ Len(txq) = NbTxDesc
    /\ UNCHANGED vars

\* commit(): rte_eth_tx_burst() finds the ring full and returns 0; it has reaped all it
\* could, so commit() will find room once the NIC has sent.
CommitRetry ==
    /\ pendingTx # 0
    /\ Len(txq) = NbTxDesc
    /\ sent > 0
    /\ Reap(sent)
    /\ UNCHANGED <<txReuseInline, data, txReuse, pendingTx, committed, wire>>

\* Mutant of Commit: the PMD keeps a pointer to the mbuf instead of its bytes.
CommitNotInlined ==
    /\ pendingTx # 0
    /\ Len(txq) < NbTxDesc
    /\ txq' = Append(txq, [mbuf |-> pendingTx, inlined |-> 0])
    /\ pendingTx' = 0
    /\ committed' = committed + 1
    /\ UNCHANGED <<txReuseInline, free, data, txReuse, refcnt, sent, wire>>

\* commit(): the descriptor is posted; only with inline reuse does the PMD copy the bytes.
Commit ==
    /\ pendingTx # 0
    /\ Len(txq) < NbTxDesc
    /\ txq' = Append(txq, [mbuf |-> pendingTx,
                           inlined |-> IF txReuseInline THEN data[pendingTx] ELSE 0])
    /\ pendingTx' = 0
    /\ committed' = committed + 1
    /\ UNCHANGED <<txReuseInline, free, data, txReuse, refcnt, sent, wire>>

\* The PMD may also reap early, on any call of rte_eth_tx_burst().
EarlyReap ==
    /\ pendingTx # 0
    /\ \E k \in 1 .. sent : Reap(k)
    /\ UNCHANGED <<txReuseInline, data, txReuse, pendingTx, committed, wire>>

\* The NIC sends the next descriptor.
Transmit ==
    /\ sent < Len(txq)
    /\ LET d == txq[sent + 1]
       IN  wire' = Append(wire, IF d.inlined # 0 THEN d.inlined ELSE data[d.mbuf])
    /\ sent' = sent + 1
    /\ UNCHANGED <<txReuseInline, free, data, txReuse, refcnt, pendingTx, txq, committed>>

Done == committed = MaxFrames /\ sent = Len(txq) /\ UNCHANGED vars

Caller == Acquire \/ AcquireFails \/ CommitRetry \/ Commit

Next == Caller \/ EarlyReap \/ Transmit \/ Done

Spec == Init /\ [][Next]_vars

\* The caller runs, its calls of rte_eth_tx_burst() included, and the NIC sends.
FairSpec == Spec /\ WF_vars(Caller) /\ WF_vars(Transmit)

-----------------------------------------------------------------------------

\* Type invariant: descriptors refer to mbufs of the pool.
TypeOK ==
    /\ txReuseInline \in BOOLEAN
    /\ free \subseteq Mbufs
    /\ data \in [Mbufs -> Nat]
    /\ {txReuse, pendingTx} \subseteq Mbufs \cup {0}
    /\ refcnt \in Int
    /\ txq \in Seq([mbuf : Mbufs, inlined : Nat]) /\ Len(txq) <= NbTxDesc
    /\ sent \in 0 .. Len(txq)
    /\ committed \in Nat /\ wire \in Seq(Nat)

\* The reused mbuf is never freed under the driver and its count never overflows: the
\* count lags the sends by at most the ring, and REFCNT_LOW covers the ring.
RefcntInRange == txReuse # 0 => 0 < refcnt - Len(txq) /\ refcnt < RefcntWidth

\* No mbuf is lost or in two places.
MbufsConserved ==
    LET queued == {txq[i].mbuf : i \in 1 .. Len(txq)}
        out == queued \cup ({txReuse, pendingTx} \ {0})
    IN  /\ free \cup out = Mbufs
        /\ free \cap out = {}
        /\ ~txReuseInline => Cardinality(queued) = Len(txq)

Abstract == INSTANCE TxRing

\* Both ways of building a frame implement the TxRing concept.
TransmitsFaithfully == Abstract!TxSpec

\* commit() gets out of its retry loop.
CommitReturns == pendingTx # 0 ~> pendingTx = 0
=============================================================================
