------------------------------- MODULE TxRing -------------------------------
(***************************************************************************)
(* What the TxRing concept (common/RingConcepts.hpp) promises the          *)
(* benchmarks, whatever the transport.  acquire() lends a buffer, commit() *)
(* hands it over, and the frames leave in the order of the commits, each   *)
(* once, each with the bytes that were in the buffer when it was           *)
(* committed.  A frame is named by the position of its commit.             *)
(***************************************************************************)
EXTENDS Naturals, Sequences

VARIABLES committed,  \* number of commit() calls
          wire        \* the frames that left, oldest first

TxInit == committed = 0 /\ wire = << >>

Commit == committed' = committed + 1 /\ UNCHANGED wire

Transmit ==
    /\ Len(wire) < committed
    /\ wire' = Append(wire, Len(wire) + 1)
    /\ UNCHANGED committed

TxSpec == TxInit /\ [][Commit \/ Transmit]_<<committed, wire>>
=============================================================================
