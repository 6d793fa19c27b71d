------------------------------- MODULE RxRing -------------------------------
(***************************************************************************)
(* What the RxRing concept (common/RingConcepts.hpp) promises the          *)
(* benchmarks, whatever the transport.  Frames are delivered in the order  *)
(* of their arrival, each at most once; the one tryReceive() returned keeps*)
(* its bytes until release(); a frame may only be dropped while guaranteed *)
(* frames already wait.  A frame is named by the position of its arrival.  *)
(***************************************************************************)
EXTENDS Naturals, Sequences

VARIABLES guaranteed,  \* frames the ring always has room for; never changes
          arrived,     \* frames the wire delivered to the NIC
          waiting,     \* stored frames tryReceive() has not returned yet
          held         \* the frame the caller reads, or 0

RxInit == arrived = 0 /\ waiting = << >> /\ held = 0

Store ==
    /\ arrived' = arrived + 1
    /\ waiting' = Append(waiting, arrived + 1)
    /\ UNCHANGED held

Drop ==
    /\ Len(waiting) + (IF held = 0 THEN 0 ELSE 1) >= guaranteed
    /\ arrived' = arrived + 1
    /\ UNCHANGED <<waiting, held>>

Deliver ==
    /\ held = 0
    /\ waiting # << >>
    /\ held' = Head(waiting)
    /\ waiting' = Tail(waiting)
    /\ UNCHANGED arrived

Release ==
    /\ held # 0
    /\ held' = 0
    /\ UNCHANGED <<arrived, waiting>>

RxSpec == RxInit /\ [][Store \/ Drop \/ Deliver \/ Release]_<<arrived, waiting, held>>
=============================================================================
