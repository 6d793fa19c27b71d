------------------------------ MODULE AfXdpTx -------------------------------
(***************************************************************************)
(* The transmit half of the AF_XDP transport.  TX frames are chunks of the *)
(* UMEM, handed out round robin.  commit() puts the chunk's address on the *)
(* TX ring; the driver moves it to the NIC; the NIC reads the chunk and    *)
(* reports it on the completion ring, which completeTx() drains.  A ring   *)
(* position is a count of all entries ever made, so position k lives in    *)
(* cell (k - 1) % NumTxFrames, as the free-running indices of libxdp do.   *)
(***************************************************************************)
EXTENDS AfXdpParameters, Sequences

CONSTANTS BatchSize,    \* BATCH_SIZE: completions drained by one completeTx()
          NeedWakeup,   \* the template parameter of that name
          Window,       \* most frames the caller leaves untransmitted
          MaxFrames,    \* bound: frames the caller sends
          MaxBusy       \* bound: kicks that end with a benign errno

ASSUME AfXdpTxAssumption ==
    /\ {BatchSize, Window, MaxFrames} \subseteq Nat \ {0}
    /\ MaxBusy \in Nat
    /\ NeedWakeup \in BOOLEAN

VARIABLES chunk,        \* content of each TX chunk: the frame last written to it
          ring,         \* TX ring: the address in each cell
          queue,        \* NIC queue: the address in each cell
          txFrameNb,    \* m_txFrameNb
          pendingTx,    \* m_pendingTxAddr
          outstanding,  \* m_xsk.outstanding_tx
          pc,           \* "idle", "commit", "spin", "spinDrain", "tail", "tailDrain"
          committed,    \* entries put on the TX ring
          taken,        \* entries the driver has taken from it
          wire,         \* the frames the NIC has transmitted
          reaped,       \* completions drained
          asleep,       \* the driver has stopped and asked for a wakeup
          busy          \* benign failures so far

vars == <<chunk, ring, queue, txFrameNb, pendingTx, outstanding, pc,
          committed, taken, wire, reaped, asleep, busy>>

Chunks == 0 .. NumTxFrames - 1
Cell(k) == (k - 1) % NumTxFrames
Transmitted == Len(wire)

Init ==
    /\ chunk = [c \in Chunks |-> 0]
    /\ ring = [c \in Chunks |-> 0]
    /\ queue = [c \in Chunks |-> 0]
    /\ txFrameNb = 0 /\ pendingTx = 0 /\ outstanding = 0
    /\ pc = "idle"
    /\ committed = 0 /\ taken = 0 /\ wire = << >> /\ reaped = 0
    /\ asleep \in BOOLEAN
    /\ busy = 0

\* acquire() and the caller's write: the next chunk, whatever became of the frame
\* it last carried.  Only the caller's own pacing (Window) holds it back.
Acquire ==
    /\ pc = "idle"
    /\ committed < MaxFrames
    /\ committed - Transmitted < Window
    /\ pendingTx' = txFrameNb
    /\ chunk' = [chunk EXCEPT ![txFrameNb] = committed + 1]
    /\ pc' = "commit"
    /\ UNCHANGED <<ring, queue, txFrameNb, outstanding, committed, taken, wire, reaped, asleep, busy>>

\* xsk_ring_prod__reserve() on the TX ring.
RingHasRoom == committed - taken < NumTxFrames

\* commit(): no room on the TX ring, so completeTx() runs and the loop tries again.
ReserveFails ==
    /\ pc = "commit"
    /\ ~RingHasRoom
    /\ pc' = "spin"
    /\ UNCHANGED <<chunk, ring, queue, txFrameNb, pendingTx, outstanding, committed, taken, wire, reaped, asleep, busy>>

\* Mutant of Submit: the descriptor names the next chunk.
SubmitAfterAdvance ==
    /\ pc = "commit"
    /\ RingHasRoom
    /\ ring' = [ring EXCEPT ![Cell(committed + 1)] = (txFrameNb + 1) % NumTxFrames]
    /\ committed' = committed + 1
    /\ outstanding' = outstanding + 1
    /\ txFrameNb' = (txFrameNb + 1) % NumTxFrames
    /\ pc' = "tail"
    /\ UNCHANGED <<chunk, queue, pendingTx, taken, wire, reaped, asleep, busy>>

\* commit(): the descriptor is filled and published, the next chunk chosen.
Submit ==
    /\ pc = "commit"
    /\ RingHasRoom
    /\ ring' = [ring EXCEPT ![Cell(committed + 1)] = pendingTx]
    /\ committed' = committed + 1
    /\ outstanding' = outstanding + 1
    /\ txFrameNb' = (txFrameNb + 1) % NumTxFrames
    /\ pc' = "tail"
    /\ UNCHANGED <<chunk, queue, pendingTx, taken, wire, reaped, asleep, busy>>

\* commit(): the condition of its loop.  A caller with Window <= NumTxFrames always finds
\* room.
Reserve == IF RingHasRoom THEN Submit ELSE ReserveFails

\* Where completeTx() continues after the kick, and after the drain.
Draining == IF pc = "spin" THEN "spinDrain" ELSE "tailDrain"
Drained == IF pc = "spinDrain" THEN "commit" ELSE "idle"

\* completeTx() returns at once when nothing is outstanding; commit() never calls
\* it so (OutstandingExact).  The driver is running: no system call.
NoKick ==
    /\ pc \in {"spin", "tail"}
    /\ outstanding # 0
    /\ NeedWakeup /\ ~asleep
    /\ pc' = Draining
    /\ UNCHANGED <<chunk, ring, queue, txFrameNb, pendingTx, outstanding, committed, taken, wire, reaped, asleep, busy>>

\* Mutant of KickTx: no sendto().
KickForgotten ==
    /\ pc \in {"spin", "tail"}
    /\ outstanding # 0
    /\ ~NeedWakeup \/ asleep
    /\ pc' = Draining
    /\ UNCHANGED <<chunk, ring, queue, txFrameNb, pendingTx, outstanding, committed, taken, wire, reaped, asleep, busy>>

\* kickTx(): sendto() wakes the driver, or ends with a benign errno and
\* does not.  (Any other errno aborts the process, which ends the behaviour.)
KickTx ==
    /\ pc \in {"spin", "tail"}
    /\ outstanding # 0
    /\ ~NeedWakeup \/ asleep
    /\ \/ asleep' = FALSE /\ UNCHANGED busy
       \/ busy < MaxBusy /\ busy' = busy + 1 /\ UNCHANGED asleep
    /\ pc' = Draining
    /\ UNCHANGED <<chunk, ring, queue, txFrameNb, pendingTx, outstanding, committed, taken, wire, reaped>>

\* Completions one completeTx() finds.
Peeked == LET ready == Transmitted - reaped
          IN  IF ready < BatchSize THEN ready ELSE BatchSize

\* Mutant of Drain: one is subtracted, however many completions were drained.
DrainUncounted ==
    /\ pc \in {"spinDrain", "tailDrain"}
    /\ reaped' = reaped + Peeked
    /\ outstanding' = outstanding - (IF Peeked = 0 THEN 0 ELSE 1)
    /\ pc' = Drained
    /\ UNCHANGED <<chunk, ring, queue, txFrameNb, pendingTx, committed, taken, wire, asleep, busy>>

\* completeTx(): the completion ring is drained by at most one batch.
Drain ==
    /\ pc \in {"spinDrain", "tailDrain"}
    /\ reaped' = reaped + Peeked
    /\ outstanding' = outstanding - Peeked
    /\ pc' = Drained
    /\ UNCHANGED <<chunk, ring, queue, txFrameNb, pendingTx, committed, taken, wire, asleep, busy>>

\* The driver moves a descriptor to the NIC; it reserves a completion cell for it.
DriverTake ==
    /\ ~asleep
    /\ taken < committed
    /\ taken - reaped < NumTxFrames
    /\ queue' = [queue EXCEPT ![Cell(taken + 1)] = ring[Cell(taken + 1)]]
    /\ taken' = taken + 1
    /\ UNCHANGED <<chunk, ring, txFrameNb, pendingTx, outstanding, pc, committed, wire, reaped, asleep, busy>>

\* The driver stops; what is on the ring waits for the next wakeup.
DriverSleep ==
    /\ ~asleep
    /\ asleep' = TRUE
    /\ UNCHANGED <<chunk, ring, queue, txFrameNb, pendingTx, outstanding, pc, committed, taken, wire, reaped, busy>>

\* The NIC reads the chunk, sends it and reports the completion.
Transmit ==
    /\ Transmitted < taken
    /\ wire' = Append(wire, chunk[queue[Cell(Transmitted + 1)]])
    /\ UNCHANGED <<chunk, ring, queue, txFrameNb, pendingTx, outstanding, pc, committed, taken, reaped, asleep, busy>>

\* Every frame is submitted.  What a failed last kick left behind stays.
Done ==
    /\ pc = "idle"
    /\ committed = MaxFrames
    /\ UNCHANGED vars

Caller == Acquire \/ Reserve \/ NoKick \/ KickTx \/ Drain

Next == Caller \/ DriverTake \/ DriverSleep \/ Transmit \/ Done

Spec == Init /\ [][Next]_vars

\* The caller runs; a running driver serves its queue; the NIC transmits.
FairSpec == Spec /\ WF_vars(Caller) /\ SF_vars(DriverTake) /\ WF_vars(Transmit)

-----------------------------------------------------------------------------

\* Type invariant: chunk addresses, ring cells and counts in range.
TypeOK ==
    /\ chunk \in [Chunks -> Nat]
    /\ ring \in [Chunks -> Chunks]
    /\ queue \in [Chunks -> Chunks]
    /\ {txFrameNb, pendingTx} \subseteq Chunks
    /\ outstanding \in Nat
    /\ pc \in {"idle", "commit", "spin", "spinDrain", "tail", "tailDrain"}
    /\ {committed, taken, reaped} \subseteq Nat
    /\ wire \in Seq(Nat)
    /\ asleep \in BOOLEAN
    /\ busy \in Nat

\* outstanding_tx counts exactly the frames submitted and not yet reaped, so the
\* unsigned subtraction in completeTx() never wraps; it stays within the two rings.
OutstandingExact ==
    /\ outstanding = committed - reaped
    /\ reaped <= Transmitted
    /\ outstanding <= 2 * NumTxFrames

Abstract == INSTANCE TxRing

\* The TX half keeps the promise of the TxRing concept for a caller that never
\* leaves more than Window frames untransmitted (AFXDP::acquire checks nothing).
TransmitsFaithfully == Abstract!TxSpec

\* commit() returns: its loop on a full TX ring always gets the driver going again.
CommitReturns == (pc # "idle") ~> (pc = "idle")
=============================================================================
