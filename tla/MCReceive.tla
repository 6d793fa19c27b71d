----------------------------- MODULE MCReceive ------------------------------
(***************************************************************************)
(* The receive halves of the six transports as TransportDispatch.hpp       *)
(* offers them: the configuration names one transport, and only that one   *)
(* ever runs.  The others stay as they were initialised.  What the         *)
(* recorder makes of ef_vi's stamps (HwStamps) runs as a subject of its    *)
(* own.                                                                    *)
(***************************************************************************)
EXTENDS VerbsRx, AfXdpParameters

CONSTANTS MmapSlots, MmapArrivals,
          NumRxDesc, RX_FREE_THRESH, I210Arrivals,
          XdpArrivals,
          NbRxBufs, PushBatch, FlushAt, EvPollBatch, EfViArrivals,
          Mbufs, NbRxDesc, BurstSize, DpdkArrivals,
          Word, kOneSecQns, kQnsOverrun, MaxBack, MaxTime

VARIABLES transport,
          \* packet_mmap
          status, mmapData, kHead, writing, nextFrame, mmapInHand, mmapArrived,
          \* I210
          i210Buf, dd, RDT, RDH, rxTail, rxHeld, i210InHand, i210Arrived,
          \* AF_XDP
          chunk, fill, xdpPosted, rx, xdpInHand, pendingRxAddr, xdpArrived,
          \* ef_vi
          x2522Plus, efviBuf, marker, efviPosted, inited, pendingPush, released, reposted,
          rxNextIdx, heldId, caller, returned, rxTsRaw, rxPollHits, rxEvReconciled,
          efviArrived, stored, evented, evq,
          \* DPDK
          free, dpdkData, ring, filled, rxBurst, rxIdx, pendingRx, started, dpdkArrived,
          \* the decoding of ef_vi's stamps
          reflects, correction, now, sentAt, gotAt, txMinor, rxRaw, recorded, decoded

Mmap == INSTANCE PacketMmapRx WITH
    NumSlots <- MmapSlots, MaxArrivals <- MmapArrivals,
    data <- mmapData, inHand <- mmapInHand, arrived <- mmapArrived

I210 == INSTANCE I210Rx WITH
    MaxArrivals <- I210Arrivals,
    buf <- i210Buf, inHand <- i210InHand, arrived <- i210Arrived

Xdp == INSTANCE AfXdpRx WITH
    MaxArrivals <- XdpArrivals,
    posted <- xdpPosted, inHand <- xdpInHand, pendingRx <- pendingRxAddr, arrived <- xdpArrived

EfVi == INSTANCE EfViRx WITH
    MaxArrivals <- EfViArrivals,
    buf <- efviBuf, posted <- efviPosted, arrived <- efviArrived

Dpdk == INSTANCE DpdkRx WITH
    MaxArrivals <- DpdkArrivals, data <- dpdkData, arrived <- dpdkArrived

Stamps == INSTANCE HwStamps

ASSUME /\ Mmap!PacketMmapRxAssumption /\ I210!I210RxAssumption
       /\ EfVi!EfViRxAssumption /\ Dpdk!DpdkRxAssumption
       /\ Stamps!HwDecodeAssumption

mmapVars == <<status, mmapData, kHead, writing, nextFrame, mmapInHand, mmapArrived>>

i210Vars == <<i210Buf, dd, RDT, RDH, rxTail, rxHeld, i210InHand, i210Arrived>>

xdpVars == <<chunk, fill, xdpPosted, rx, xdpInHand, pendingRxAddr, xdpArrived>>

efviVars == <<x2522Plus, efviBuf, marker, efviPosted, inited, pendingPush, released,
              reposted, rxNextIdx, heldId, caller, returned, rxTsRaw, rxPollHits,
              rxEvReconciled, efviArrived, stored, evented, evq>>

dpdkVars == <<free, dpdkData, ring, filled, rxBurst, rxIdx, pendingRx, started, dpdkArrived>>

stampVars == <<reflects, correction, now, sentAt, gotAt, txMinor, rxRaw, recorded, decoded>>

allVars == <<transport, vars, mmapVars, i210Vars, xdpVars, efviVars, dpdkVars, stampVars>>

\* The tuning that matters to one transport is chosen for that one only.
MCInit ==
    /\ transport \in {"verbs", "packet_mmap", "i210", "af_xdp", "ef_vi", "dpdk", "ef_vi stamps"}
    /\ Init /\ Mmap!Init /\ I210!Init /\ Xdp!Init /\ Dpdk!Init
    /\ EfVi!Init /\ (x2522Plus => transport = "ef_vi")
    /\ Stamps!Init /\ (reflects \/ correction # 0 => transport = "ef_vi stamps")

\* A step of transport t leaves the others alone.
Drives(t) ==
    /\ transport = t
    /\ UNCHANGED transport
    /\ IF t = "verbs" THEN TRUE ELSE UNCHANGED vars
    /\ IF t = "packet_mmap" THEN TRUE ELSE UNCHANGED mmapVars
    /\ IF t = "i210" THEN TRUE ELSE UNCHANGED i210Vars
    /\ IF t = "af_xdp" THEN TRUE ELSE UNCHANGED xdpVars
    /\ IF t = "ef_vi" THEN TRUE ELSE UNCHANGED efviVars
    /\ IF t = "dpdk" THEN TRUE ELSE UNCHANGED dpdkVars
    /\ IF t = "ef_vi stamps" THEN TRUE ELSE UNCHANGED stampVars

MCNext ==
    \/ Drives("verbs") /\ Next
    \/ Drives("packet_mmap") /\ Mmap!Next
    \/ Drives("i210") /\ I210!Next
    \/ Drives("af_xdp") /\ Xdp!Next
    \/ Drives("ef_vi") /\ EfVi!Next
    \/ Drives("dpdk") /\ Dpdk!Next
    \/ Drives("ef_vi stamps") /\ Stamps!Next

\* The hot loop keeps calling tryReceive() and release().
EfViCaller == Drives("ef_vi") /\ EfVi!Caller

MCSpec == MCInit /\ [][MCNext]_allVars /\ WF_allVars(EfViCaller)

-----------------------------------------------------------------------------

\* Every transport's variables keep their types.
TypesOK ==
    /\ TypeOK /\ Mmap!TypeOK /\ I210!TypeOK /\ Xdp!TypeOK /\ EfVi!TypeOK /\ Dpdk!TypeOK
    /\ Stamps!TypeOK

\* Each transport implements the RxRing concept: frames come in order and at most once, one
\* in hand keeps its bytes until release(), and frames are dropped only when the room the
\* transport guarantees is used up.
EveryTransportReceives ==
    /\ ReceivesFaithfully
    /\ Mmap!ReceivesFaithfully
    /\ I210!ReceivesFaithfully
    /\ Xdp!ReceivesFaithfully
    /\ EfVi!ReceivesFaithfully
    /\ Dpdk!ReceivesFaithfully

\* Buffers stay in circulation: no AF_XDP chunk or DPDK mbuf is lost or in two places, the
\* FILL ring always has room for the chunk tryReceive() takes, and an I210 receiver that
\* has read everything leaves the NIC a descriptor.
BuffersCirculate ==
    /\ Xdp!ChunksConserved /\ Xdp!FillNeverFull
    /\ Dpdk!MbufsConserved
    /\ I210!NotStarved

\* ef_vi: hwRxTimestamp() is the stamp of the frame tryReceive() returned last, and the
\* recorder makes of a frame's two stamps the time between its two events.
EfViStampsTrue == EfVi!StampOfFrame /\ Stamps!DecodesExactly

\* ef_vi: rxFrameComplete() never runs ahead of the events.
EfViCompleteIsSound == EfVi!CompleteIsSound

\* ef_vi: a NIC without slots gets some again.
EfViSlotsComeBack == EfVi!SlotsComeBack
=============================================================================
