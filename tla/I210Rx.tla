------------------------------- MODULE I210Rx -------------------------------
(***************************************************************************)
(* The receive ring of the user-space I210 driver.  The NIC fills          *)
(* descriptors from its head to the tail register and sets DD; software    *)
(* reads at its own cursor, and moves the register only after              *)
(* RX_FREE_THRESH releases.                                                *)
(***************************************************************************)
EXTENDS Integers, Sequences

CONSTANTS NumRxDesc, RX_FREE_THRESH,
          MaxArrivals  \* bound: frames that arrive

I210RxAssumption == {NumRxDesc, RX_FREE_THRESH, MaxArrivals} \subseteq Nat \ {0}

Descs == 0 .. NumRxDesc - 1

VARIABLES buf,       \* the frame in the buffer of each descriptor, or 0
          dd,        \* the descriptors with the done bit
          RDT, RDH,  \* the registers of the queue
          rxTail,    \* m_rxTail
          rxHeld,    \* m_rxHeld
          inHand,    \* the caller is between tryReceive() and release()
          arrived

vars == <<buf, dd, RDT, RDH, rxTail, rxHeld, inHand, arrived>>

\* initRx()
Init ==
    /\ buf = [d \in Descs |-> 0]
    /\ dd = {}
    /\ RDT = NumRxDesc - 1 /\ RDH = 0
    /\ rxTail = 0 /\ rxHeld = 0
    /\ inHand = FALSE
    /\ arrived = 0

\* A frame arrives; the NIC owns the descriptors from its head up to the tail.
Store ==
    /\ arrived < MaxArrivals
    /\ RDH # RDT
    /\ buf' = [buf EXCEPT ![RDH] = arrived + 1]
    /\ dd' = dd \cup {RDH}
    /\ RDH' = (RDH + 1) % NumRxDesc
    /\ arrived' = arrived + 1
    /\ UNCHANGED <<RDT, rxTail, rxHeld, inHand>>

\* A frame arrives and the NIC owns no descriptor (SRRCTL_DROP_EN).
Drop ==
    /\ arrived < MaxArrivals
    /\ RDH = RDT
    /\ arrived' = arrived + 1
    /\ UNCHANGED <<buf, dd, RDT, RDH, rxTail, rxHeld, inHand>>

\* tryReceive(): a frame at the cursor.
TryReceive ==
    /\ ~inHand
    /\ rxTail \in dd
    /\ inHand' = TRUE
    /\ UNCHANGED <<buf, dd, RDT, RDH, rxTail, rxHeld, arrived>>

\* tryReceive(): no done bit at the cursor.
TryReceiveEmpty == ~inHand /\ rxTail \notin dd /\ UNCHANGED vars

\* Without the reset of the descriptor to its read format.
ReleaseKeepsDone ==
    /\ inHand
    /\ rxTail' = (rxTail + 1) % NumRxDesc
    /\ IF rxHeld + 1 >= RX_FREE_THRESH
       THEN RDT' = (rxTail' - 1) % NumRxDesc /\ rxHeld' = 0
       ELSE RDT' = RDT /\ rxHeld' = rxHeld + 1
    /\ inHand' = FALSE
    /\ UNCHANGED <<buf, dd, RDH, arrived>>

\* The register gets the cursor itself.
ReleaseWholeRing ==
    /\ inHand
    /\ dd' = dd \ {rxTail}
    /\ rxTail' = (rxTail + 1) % NumRxDesc
    /\ IF rxHeld + 1 >= RX_FREE_THRESH
       THEN RDT' = rxTail' /\ rxHeld' = 0
       ELSE RDT' = RDT /\ rxHeld' = rxHeld + 1
    /\ inHand' = FALSE
    /\ UNCHANGED <<buf, RDH, arrived>>

\* release(): the descriptor goes back to its read format, which clears the done bit, and
\* every RX_FREE_THRESH-th call tells the NIC.
Release ==
    /\ inHand
    /\ dd' = dd \ {rxTail}
    /\ rxTail' = (rxTail + 1) % NumRxDesc
    /\ IF rxHeld + 1 >= RX_FREE_THRESH
       THEN RDT' = (rxTail' - 1) % NumRxDesc /\ rxHeld' = 0
       ELSE RDT' = RDT /\ rxHeld' = rxHeld + 1
    /\ inHand' = FALSE
    /\ UNCHANGED <<buf, RDH, arrived>>

Next == Store \/ Drop \/ TryReceive \/ TryReceiveEmpty \/ Release

Spec == Init /\ [][Next]_vars

-----------------------------------------------------------------------------

\* Type invariant: cursors and registers name descriptors.
TypeOK ==
    /\ buf \in [Descs -> Nat]
    /\ dd \subseteq Descs
    /\ {RDT, RDH, rxTail} \subseteq Descs
    /\ rxHeld \in 0 .. RX_FREE_THRESH - 1
    /\ inHand \in BOOLEAN
    /\ arrived \in Nat

Filled == (RDH - rxTail) % NumRxDesc  \* descriptors from the cursor to the NIC's head

\* A receiver that has read everything leaves the NIC a descriptor for the next frame,
\* although release() holds descriptors back (initRx(), release()).
NotStarved == Filled = 0 => RDH # RDT

Abstract == INSTANCE RxRing WITH
    guaranteed <- NumRxDesc - RX_FREE_THRESH,
    waiting <- LET first == IF inHand THEN 1 ELSE 0
               IN  [i \in 1 .. Filled - first |-> buf[(rxTail + first + i - 1) % NumRxDesc]],
    held <- IF inHand THEN buf[rxTail] ELSE 0

\* The ring implements the RxRing concept, with room for NumRxDesc - RX_FREE_THRESH
\* frames whatever release() holds back.
ReceivesFaithfully == Abstract!RxSpec
=============================================================================
