------------------------------ MODULE AfXdpRx -------------------------------
(***************************************************************************)
(* The receive half of the AF_XDP transport.  RX chunks of the UMEM go     *)
(* round: FILL ring, driver, RX ring, caller, FILL ring.  tryReceive()     *)
(* reserves the FILL entry that release() will fill, and aborts if there   *)
(* is none.                                                                *)
(***************************************************************************)
EXTENDS AfXdpParameters, Sequences

CONSTANT MaxArrivals  \* bound: frames that arrive

FillSize == 2 * NumRxFrames

RxChunks == NumTxFrames .. NumTxFrames + NumRxFrames - 1

VARIABLES chunk,       \* content of each RX chunk: the frame in it, or 0
          fill,        \* FILL ring: chunks offered to the driver
          posted,      \* chunks the driver has given to the NIC
          rx,          \* RX ring: chunks with a frame, the one in hand included
          inHand,      \* the caller is between tryReceive() and release()
          pendingRx,   \* m_pendingRxAddr
          arrived

vars == <<chunk, fill, posted, rx, inHand, pendingRx, arrived>>

\* xskPopulateFillRing(): every RX chunk is offered.
Init ==
    /\ chunk = [c \in RxChunks |-> 0]
    /\ fill = [i \in 1 .. NumRxFrames |-> NumTxFrames + i - 1]
    /\ posted = << >> /\ rx = << >>
    /\ inHand = FALSE
    /\ pendingRx = 0
    /\ arrived = 0

\* The driver refills the NIC, in its own time.
Post ==
    /\ fill # << >>
    /\ posted' = Append(posted, Head(fill))
    /\ fill' = Tail(fill)
    /\ UNCHANGED <<chunk, rx, inHand, pendingRx, arrived>>

\* A frame arrives in the first posted chunk.
Store ==
    /\ arrived < MaxArrivals
    /\ posted # << >>
    /\ chunk' = [chunk EXCEPT ![Head(posted)] = arrived + 1]
    /\ rx' = Append(rx, Head(posted))
    /\ posted' = Tail(posted)
    /\ arrived' = arrived + 1
    /\ UNCHANGED <<fill, inHand, pendingRx>>

\* A frame arrives and the NIC has no chunk for it.
Drop ==
    /\ arrived < MaxArrivals
    /\ posted = << >>
    /\ arrived' = arrived + 1
    /\ UNCHANGED <<chunk, fill, posted, rx, inHand, pendingRx>>

\* tryReceive(): an empty RX ring only polls the driver.
TryReceiveEmpty == ~inHand /\ rx = << >> /\ UNCHANGED vars

\* tryReceive(): the oldest frame, in place.
TryReceive ==
    /\ ~inHand
    /\ rx # << >>
    /\ pendingRx' = Head(rx)
    /\ inHand' = TRUE
    /\ UNCHANGED <<chunk, fill, posted, rx, arrived>>

\* Mutant of Release: the RX entry is not freed.
ReleaseKeepsRxSlot ==
    /\ inHand
    /\ fill' = Append(fill, pendingRx)
    /\ inHand' = FALSE
    /\ UNCHANGED <<chunk, posted, rx, pendingRx, arrived>>

\* Mutant of Release: the chunk after the one in hand is recycled.
ReleaseOffByOneChunk ==
    /\ inHand
    /\ fill' = Append(fill, pendingRx + 1)
    /\ rx' = Tail(rx)
    /\ inHand' = FALSE
    /\ UNCHANGED <<chunk, posted, pendingRx, arrived>>

\* release(): the chunk goes into the reserved FILL entry, then the RX entry is freed.
Release ==
    /\ inHand
    /\ fill' = Append(fill, pendingRx)
    /\ rx' = Tail(rx)
    /\ inHand' = FALSE
    /\ UNCHANGED <<chunk, posted, pendingRx, arrived>>

Next == Post \/ Store \/ Drop \/ TryReceiveEmpty \/ TryReceive \/ Release

Spec == Init /\ [][Next]_vars

-----------------------------------------------------------------------------

\* Type invariant: the rings hold addresses of RX chunks.
TypeOK ==
    /\ chunk \in [RxChunks -> Nat]
    /\ fill \in Seq(RxChunks) /\ posted \in Seq(RxChunks) /\ rx \in Seq(RxChunks)
    /\ inHand \in BOOLEAN
    /\ pendingRx \in RxChunks \cup {0}
    /\ arrived \in Nat

\* tryReceive() never finds the FILL ring full, so its abort ("kernel ring desync")
\* is unreachable however late the driver refills.
FillNeverFull == rx # << >> /\ ~inHand => Len(fill) < FillSize

\* No RX chunk is lost or duplicated on its way round the rings.
ChunksConserved ==
    LET all == fill \o posted \o rx
    IN  /\ Len(all) = NumRxFrames
        /\ \A c \in RxChunks : \E i \in 1 .. Len(all) : all[i] = c

FramesOf(ring) == [i \in 1 .. Len(ring) |-> chunk[ring[i]]]

Abstract == INSTANCE RxRing WITH
    guaranteed <- 0,
    waiting <- FramesOf(IF inHand THEN Tail(rx) ELSE rx),
    held <- IF inHand THEN chunk[pendingRx] ELSE 0

\* The RX half keeps the promise of the RxRing concept, except that a late driver may
\* drop a frame at any time (AFXDP::tryReceive and release).
ReceivesFaithfully == Abstract!RxSpec
=============================================================================
