------------------------------- MODULE DpdkRx -------------------------------
(***************************************************************************)
(* The receive half of the DPDK transport.  rte_eth_rx_burst() hands over  *)
(* up to BurstSize mbufs at once; tryReceive() returns them one at a time  *)
(* and release() frees each.  The PMD refills its ring from the pool in    *)
(* its own time, and only inside rte_eth_rx_burst().                       *)
(***************************************************************************)
EXTENDS Integers, Sequences, FiniteSets, FiniteSetsExt, SequencesExt

CONSTANTS Mbufs,        \* the pool, a set of positive numbers
          NbRxDesc, BurstSize,
          MaxArrivals   \* bound: frames that arrive

DpdkRxAssumption ==
    /\ Mbufs \subseteq Nat \ {0} /\ IsFiniteSet(Mbufs)
    /\ {NbRxDesc, BurstSize, MaxArrivals} \subseteq Nat \ {0}
    /\ NbRxDesc <= Cardinality(Mbufs)

VARIABLES free,       \* mbufs in the pool
          data,       \* the frame in each mbuf
          ring,       \* mbufs on the receive ring, those with a frame first
          filled,     \* how many of them have a frame
          rxBurst,    \* m_rxBurst[0 .. m_rxCount - 1]
          rxIdx,      \* m_rxIdx
          pendingRx,  \* m_pendingRx, or 0
          started, arrived

vars == <<free, data, ring, filled, rxBurst, rxIdx, pendingRx, started, arrived>>

\* init(): the queue is set up with NbRxDesc mbufs of the pool.
Init ==
    /\ data = [m \in Mbufs |-> 0]
    /\ ring = [i \in 1 .. NbRxDesc |-> i]
    /\ free = Mbufs \ (1 .. NbRxDesc)
    /\ filled = 0
    /\ rxBurst = << >> /\ rxIdx = 0 /\ pendingRx = 0
    /\ started = TRUE
    /\ arrived = 0

\* A frame arrives in the next mbuf of the ring.
Store ==
    /\ started
    /\ arrived < MaxArrivals
    /\ filled < Len(ring)
    /\ data' = [data EXCEPT ![ring[filled + 1]] = arrived + 1]
    /\ filled' = filled + 1
    /\ arrived' = arrived + 1
    /\ UNCHANGED <<free, ring, rxBurst, rxIdx, pendingRx, started>>

\* A frame arrives and the ring has no mbuf for it (imissed).
Drop ==
    /\ started
    /\ arrived < MaxArrivals
    /\ filled = Len(ring)
    /\ arrived' = arrived + 1
    /\ UNCHANGED <<free, data, ring, filled, rxBurst, rxIdx, pendingRx, started>>

\* rte_eth_rx_burst() takes the first k mbufs and refills the ring with some of the pool.
RxBurst(k) ==
    /\ \E new \in SUBSET free :
        /\ Cardinality(new) <= NbRxDesc - Len(ring) + k
        /\ ring' = SubSeq(ring, k + 1, Len(ring)) \o SetToSortSeq(new, <)
        /\ free' = free \ new
    /\ filled' = filled - k

\* tryReceive(): the burst is used up and the next one is fetched.
TryReceiveBurst ==
    /\ started
    /\ pendingRx = 0
    /\ rxIdx >= Len(rxBurst)
    /\ LET k == Min({BurstSize, filled})
       IN  /\ RxBurst(k)
           /\ rxBurst' = SubSeq(ring, 1, k)
           /\ rxIdx' = 0
           /\ pendingRx' = IF k = 0 THEN 0 ELSE ring[1]
    /\ UNCHANGED <<data, started, arrived>>

\* tryReceive(): the next frame of the burst.
TryReceiveNext ==
    /\ started
    /\ pendingRx = 0
    /\ rxIdx < Len(rxBurst)
    /\ pendingRx' = rxBurst[rxIdx + 1]
    /\ UNCHANGED <<free, data, ring, filled, rxBurst, rxIdx, started, arrived>>

\* Mutant of Release: the whole burst is freed, not the mbuf in hand.
ReleaseWholeBurst ==
    /\ started
    /\ pendingRx # 0
    /\ free' = free \cup {rxBurst[i] : i \in 1 .. Len(rxBurst)}
    /\ pendingRx' = 0
    /\ rxIdx' = rxIdx + 1
    /\ UNCHANGED <<data, ring, filled, rxBurst, started, arrived>>

\* Mutant of Release: rxIdx is not advanced.
ReleaseNotNext ==
    /\ started
    /\ pendingRx # 0
    /\ free' = free \cup {pendingRx}
    /\ pendingRx' = 0
    /\ UNCHANGED <<data, ring, filled, rxBurst, rxIdx, started, arrived>>

\* release()
Release ==
    /\ started
    /\ pendingRx # 0
    /\ free' = free \cup {pendingRx}
    /\ pendingRx' = 0
    /\ rxIdx' = rxIdx + 1
    /\ UNCHANGED <<data, ring, filled, rxBurst, started, arrived>>

\* shutdown(): the frame in hand is freed and the port stopped; the rest of the burst is
\* left to the end of the process.
Shutdown ==
    /\ started
    /\ free' = IF pendingRx = 0 THEN free ELSE free \cup {pendingRx}
    /\ pendingRx' = 0
    /\ started' = FALSE
    /\ UNCHANGED <<data, ring, filled, rxBurst, rxIdx, arrived>>

\* shutdown() again, from the destructor.
ShutdownAgain == ~started /\ UNCHANGED vars

Next == Store \/ Drop \/ TryReceiveBurst \/ TryReceiveNext \/ Release \/ Shutdown
        \/ ShutdownAgain

Spec == Init /\ [][Next]_vars

-----------------------------------------------------------------------------

\* Type invariant: everything refers to mbufs of the pool.
TypeOK ==
    /\ free \subseteq Mbufs
    /\ data \in [Mbufs -> Nat]
    /\ ring \in Seq(Mbufs) /\ Len(ring) <= NbRxDesc
    /\ filled \in 0 .. Len(ring)
    /\ rxBurst \in Seq(Mbufs) /\ rxIdx \in 0 .. Len(rxBurst)
    /\ pendingRx \in Mbufs \cup {0}
    /\ started \in BOOLEAN
    /\ arrived \in Nat

\* The mbufs of the burst the caller has not released.
Unread == {rxBurst[i] : i \in rxIdx + 1 .. Len(rxBurst)}

\* While the port runs, an mbuf is in the pool, on the ring, or unread in the burst, and
\* in one place only: no frame is freed under its reader and no mbuf leaks.
MbufsConserved ==
    LET onRing == {ring[i] : i \in 1 .. Len(ring)}
    IN  started => /\ free \cup onRing \cup Unread = Mbufs
                   /\ Cardinality(free) + Len(ring) + Len(rxBurst) - rxIdx
                      = Cardinality(Mbufs)

\* The unread frames of the burst, without the one in hand or freed by shutdown().
RestOfBurst ==
    SelectSeq(SubSeq(rxBurst, rxIdx + 1, Len(rxBurst)),
              LAMBDA m : m # pendingRx /\ m \notin free)

Abstract == INSTANCE RxRing WITH
    guaranteed <- 0,
    waiting <- LET all == RestOfBurst \o SubSeq(ring, 1, filled)
               IN  [i \in 1 .. Len(all) |-> data[all[i]]],
    held <- IF pendingRx = 0 THEN 0 ELSE data[pendingRx]

\* Bursts implement the RxRing concept frame by frame, except that a ring the PMD has not
\* refilled may drop at any time.
ReceivesFaithfully == Abstract!RxSpec
=============================================================================
