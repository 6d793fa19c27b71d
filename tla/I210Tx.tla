------------------------------- MODULE I210Tx -------------------------------
(***************************************************************************)
(* The transmit ring of the user-space I210 driver.  Software appends      *)
(* descriptors and moves the tail register; the NIC sends from the head to *)
(* the tail and sets DD in each descriptor.  Software reclaims by DD, and  *)
(* only when its own count says the ring is full.                          *)
(***************************************************************************)
EXTENDS Integers, Sequences

CONSTANTS NumTxDesc,
          MaxFrames   \* bound: frames the caller sends

I210TxAssumption == {NumTxDesc, MaxFrames} \subseteq Nat \ {0}

Descs == 0 .. NumTxDesc - 1

VARIABLES buf,        \* the frame in the buffer of each descriptor, or 0
          dd,         \* the descriptors with the done bit
          txTail,     \* m_txTail
          txCleanHead, txInFlight,
          TDT, TDH,   \* the registers of the queue
          acquired,   \* the caller has a buffer
          committed, wire

vars == <<buf, dd, txTail, txCleanHead, txInFlight, TDT, TDH, acquired, committed, wire>>

\* initTx()
Init ==
    /\ buf = [d \in Descs |-> 0]
    /\ dd = {}
    /\ txTail = 0 /\ txCleanHead = 0 /\ txInFlight = 0
    /\ TDT = 0 /\ TDH = 0
    /\ acquired = FALSE
    /\ committed = 0 /\ wire = << >>

\* Mutant of After: the tail is not masked.
AfterNoMask(d) == d + 1

After(d) == (d + 1) % NumTxDesc

\* How many descriptors txReclaim() takes back: the run of done ones at its head.
Reclaimable ==
    CHOOSE k \in 0 .. txInFlight :
        /\ \A i \in 0 .. k - 1 : (txCleanHead + i) % NumTxDesc \in dd
        /\ k < txInFlight => (txCleanHead + k) % NumTxDesc \notin dd

\* What acquire() takes back first, when its count says the ring is full.
Reclaimed == IF txInFlight >= NumTxDesc THEN Reclaimable ELSE 0

\* Mutant of Acquire: no test that the ring is full.
AcquireUnchecked ==
    /\ ~acquired
    /\ committed < MaxFrames
    /\ txCleanHead' = (txCleanHead + Reclaimed) % NumTxDesc
    /\ txInFlight' = txInFlight - Reclaimed
    /\ dd' = dd \ ({(txCleanHead + i) % NumTxDesc : i \in 0 .. Reclaimed - 1} \cup {txTail})
    /\ buf' = [buf EXCEPT ![txTail] = committed + 1]
    /\ acquired' = TRUE
    /\ UNCHANGED <<txTail, TDT, TDH, committed, wire>>

\* Mutant of Acquire: the descriptor's done bit is not cleared.
AcquireKeepsDone ==
    /\ ~acquired
    /\ committed < MaxFrames
    /\ txInFlight - Reclaimed < NumTxDesc
    /\ txCleanHead' = (txCleanHead + Reclaimed) % NumTxDesc
    /\ txInFlight' = txInFlight - Reclaimed
    /\ buf' = [buf EXCEPT ![txTail] = committed + 1]
    /\ acquired' = TRUE
    /\ UNCHANGED <<dd, txTail, TDT, TDH, committed, wire>>

\* acquire(): the descriptor at the tail is written, which also clears its done bit, and
\* the caller fills its buffer.
Acquire ==
    /\ ~acquired
    /\ committed < MaxFrames
    /\ txInFlight - Reclaimed < NumTxDesc
    /\ txCleanHead' = (txCleanHead + Reclaimed) % NumTxDesc
    /\ txInFlight' = txInFlight - Reclaimed
    /\ dd' = dd \ ({(txCleanHead + i) % NumTxDesc : i \in 0 .. Reclaimed - 1} \cup {txTail})
    /\ buf' = [buf EXCEPT ![txTail] = committed + 1]
    /\ acquired' = TRUE
    /\ UNCHANGED <<txTail, TDT, TDH, committed, wire>>

\* acquire(): nothing to reclaim, so nullptr.
AcquireFails ==
    /\ ~acquired
    /\ txInFlight >= NumTxDesc
    /\ Reclaimable = 0
    /\ UNCHANGED vars

\* Mutant of Commit: TDT is written before the tail moves.
CommitOldTail ==
    /\ acquired
    /\ txTail' = After(txTail)
    /\ txInFlight' = txInFlight + 1
    /\ TDT' = txTail
    /\ committed' = committed + 1
    /\ acquired' = FALSE
    /\ UNCHANGED <<buf, dd, txCleanHead, TDH, wire>>

\* commit(): the tail and its register move.
Commit ==
    /\ acquired
    /\ txTail' = After(txTail)
    /\ txInFlight' = txInFlight + 1
    /\ TDT' = After(txTail)
    /\ committed' = committed + 1
    /\ acquired' = FALSE
    /\ UNCHANGED <<buf, dd, txCleanHead, TDH, wire>>

\* The NIC sends the frame at its head, as long as head and tail differ.
Transmit ==
    /\ TDH # TDT
    /\ wire' = Append(wire, buf[TDH])
    /\ dd' = dd \cup {TDH}
    /\ TDH' = (TDH + 1) % NumTxDesc
    /\ UNCHANGED <<buf, txTail, txCleanHead, txInFlight, TDT, acquired, committed>>

Done == committed = MaxFrames /\ TDH = TDT /\ UNCHANGED vars

Caller == Acquire \/ AcquireFails \/ Commit

Next == Caller \/ Transmit \/ Done

Spec == Init /\ [][Next]_vars

\* The caller keeps sending and the NIC transmits.
FairSpec == Spec /\ WF_vars(Caller) /\ WF_vars(Transmit)

-----------------------------------------------------------------------------

\* Type invariant: cursors and registers name descriptors.
TypeOK ==
    /\ buf \in [Descs -> Nat]
    /\ dd \subseteq Descs
    /\ {txTail, txCleanHead, TDT, TDH} \subseteq Descs
    /\ txInFlight \in 0 .. NumTxDesc
    /\ acquired \in BOOLEAN
    /\ committed \in Nat /\ wire \in Seq(Nat)

\* The count of unreclaimed descriptors never runs behind what the NIC still has to
\* send, so acquire() cannot hand out a buffer of which the NIC has not sent the frame.
CountCoversNic == committed - Len(wire) <= txInFlight

Abstract == INSTANCE TxRing

\* The ring implements the TxRing concept: order, content and no repetition.
TransmitsFaithfully == Abstract!TxSpec

\* NumTxDesc frames wait: the tail register has come round to the head, which the NIC
\* reads as an empty ring, and acquire() finds nothing to reclaim.
Wrapped == committed - Len(wire) = NumTxDesc

\* Every committed frame leaves, unless the ring wraps onto the NIC's head first.
HandedToNic == \A n \in 1 .. MaxFrames : committed >= n ~> Len(wire) >= n \/ Wrapped
=============================================================================
