----------------------------- MODULE MCTransmit -----------------------------
(***************************************************************************)
(* The transmit halves of six transports as TransportDispatch.hpp offers  *)
(* them: the configuration names one transport, and only that one is ever  *)
(* driven.  The others stay as they were initialised.                      *)
(***************************************************************************)
EXTENDS VerbsTx, DpdkParameters, AfXdpParameters

CONSTANTS MmapSlots, MmapFrames, MmapErrors, MmapRetries,
          NumTxDesc, I210Frames,
          NbTxBufs, TxqSizes, EvPollBatch, EfViFrames,
          DpdkFrames,
          BatchSize, XdpFrames, XdpWindow, XdpBusy

VARIABLES transport,
          \* packet_mmap
          status, data, stamped, next, mmapPc, kHead, nicHead, mmapCommitted, mmapWire,
          bare, mmapErrors, retries,
          \* I210
          i210Buf, dd, i210Tail, txCleanHead, txInFlight, TDT, TDH, i210Acquired,
          i210Committed, i210Wire,
          \* ef_vi
          x2522Plus, txqSize, slot, txHead, txTail, acquired, txq, evq, txStamp, txTsCursor, polled,
          efviWire, overrun,
          \* DPDK
          txReuseInline, free, dpdkData, txReuse, refcnt, pendingTx, dpdkTxq, sent,
          dpdkCommitted, dpdkWire,
          \* AF_XDP
          chunk, ring, queue, txFrameNb, pendingTxAddr, outstanding, xdpPc, xdpCommitted,
          taken, xdpWire, reaped, asleep, busy

Mmap == INSTANCE PacketMmapTx WITH
    NumSlots <- MmapSlots, MaxFrames <- MmapFrames, MaxErrors <- MmapErrors,
    MaxRetries <- MmapRetries, pc <- mmapPc, committed <- mmapCommitted,
    wire <- mmapWire, errors <- mmapErrors

I210 == INSTANCE I210Tx WITH
    MaxFrames <- I210Frames, buf <- i210Buf, txTail <- i210Tail,
    acquired <- i210Acquired, committed <- i210Committed, wire <- i210Wire

EfVi == INSTANCE EfViTx WITH
    UseCtpio <- TRUE, HwTimestamps <- TRUE, MayFail <- TRUE, MaxFrames <- EfViFrames,
    wire <- efviWire

Dpdk == INSTANCE DpdkTx WITH
    MaxFrames <- DpdkFrames, data <- dpdkData, txq <- dpdkTxq,
    committed <- dpdkCommitted, wire <- dpdkWire

\* The caller leaves more frames untransmitted than there are chunks.
Xdp == INSTANCE AfXdpTx WITH
    NeedWakeup <- TRUE, Window <- XdpWindow, MaxFrames <- XdpFrames, MaxBusy <- XdpBusy,
    pendingTx <- pendingTxAddr, pc <- xdpPc, committed <- xdpCommitted, wire <- xdpWire

ASSUME Mmap!PacketMmapTxAssumption /\ I210!I210TxAssumption /\ EfVi!EfViTxAssumption

mmapVars == <<status, data, stamped, next, mmapPc, kHead, nicHead, mmapCommitted,
              mmapWire, bare, mmapErrors, retries>>

i210Vars == <<i210Buf, dd, i210Tail, txCleanHead, txInFlight, TDT, TDH, i210Acquired,
              i210Committed, i210Wire>>

efviVars == <<x2522Plus, txqSize, slot, txHead, txTail, acquired, txq, evq, txStamp, txTsCursor,
              polled, efviWire, overrun>>

dpdkVars == <<txReuseInline, free, dpdkData, txReuse, refcnt, pendingTx, dpdkTxq, sent,
              dpdkCommitted, dpdkWire>>

xdpVars == <<chunk, ring, queue, txFrameNb, pendingTxAddr, outstanding, xdpPc,
             xdpCommitted, taken, xdpWire, reaped, asleep, busy>>

allVars == <<transport, vars, mmapVars, i210Vars, efviVars, dpdkVars, xdpVars>>

\* The tunings that matter to one transport are chosen for that one only.
MCInit ==
    /\ transport \in {"verbs", "packet_mmap", "i210", "ef_vi", "dpdk", "af_xdp"}
    /\ Init /\ Mmap!Init /\ I210!Init /\ EfVi!Init /\ Dpdk!Init /\ Xdp!Init
    /\ x2522Plus => transport = "ef_vi"
    /\ txqSize = NbTxBufs \/ (transport = "ef_vi" /\ ~x2522Plus)
    /\ txReuseInline => transport = "dpdk"
    /\ asleep => transport = "af_xdp"

\* A step of transport t leaves the others alone.
Drives(t) ==
    /\ transport = t
    /\ UNCHANGED transport
    /\ IF t = "verbs" THEN TRUE ELSE UNCHANGED vars
    /\ IF t = "packet_mmap" THEN TRUE ELSE UNCHANGED mmapVars
    /\ IF t = "i210" THEN TRUE ELSE UNCHANGED i210Vars
    /\ IF t = "ef_vi" THEN TRUE ELSE UNCHANGED efviVars
    /\ IF t = "dpdk" THEN TRUE ELSE UNCHANGED dpdkVars
    /\ IF t = "af_xdp" THEN TRUE ELSE UNCHANGED xdpVars

MCNext ==
    \/ Drives("verbs") /\ Next
    \/ Drives("packet_mmap") /\ Mmap!Next
    \/ Drives("i210") /\ I210!Next
    \/ Drives("ef_vi") /\ EfVi!Next
    \/ Drives("dpdk") /\ Dpdk!Next
    \/ Drives("af_xdp") /\ Xdp!Next

\* The thread that sends: acquire(), commit() and, for ef_vi, the loop of commit() only.
Sender ==
    \/ Drives("verbs") /\ Caller
    \/ Drives("packet_mmap") /\ Mmap!Caller
    \/ Drives("i210") /\ I210!Caller
    \/ Drives("ef_vi") /\ (EfVi!CommitRetry \/ EfVi!Commit)
    \/ Drives("dpdk") /\ Dpdk!Caller
    \/ Drives("af_xdp") /\ Xdp!Caller

Nic ==
    \/ Drives("verbs") /\ Execute
    \/ Drives("packet_mmap") /\ Mmap!Transmit
    \/ Drives("i210") /\ I210!Transmit
    \/ Drives("ef_vi") /\ EfVi!Transmit
    \/ Drives("dpdk") /\ Dpdk!Transmit
    \/ Drives("af_xdp") /\ Xdp!Transmit

\* The AF_XDP driver stops and starts; while it runs it serves its ring.
Driver == Drives("af_xdp") /\ Xdp!DriverTake

MCSpec ==
    /\ MCInit /\ [][MCNext]_allVars
    /\ WF_allVars(Sender) /\ WF_allVars(Nic) /\ SF_allVars(Driver)

-----------------------------------------------------------------------------

\* Every transport's variables keep their types.
TypesOK ==
    /\ TypeOK /\ Mmap!TypeOK /\ I210!TypeOK /\ EfVi!TypeOK /\ Dpdk!TypeOK /\ Xdp!TypeOK

\* Each transport but AF_XDP implements the TxRing concept for an unpaced caller, whatever
\* send(), the posts and the NIC return: frames leave in order, each once, with the bytes
\* committed.  With packet_mmap these include the template prefillRing() wrote at startup.
\* Excepted are, in ef_vi's X2522Plus tuning, the bytes of exactly those frames whose slot
\* the caller had filled again before they left: its acquire() has no ring-full check.
EveryTransportTransmits ==
    /\ TransmitsFaithfully
    /\ Mmap!TransmitsFaithfully /\ []Mmap!TemplatePersists
    /\ I210!TransmitsFaithfully
    /\ EfVi!TransmitsFaithfully
    /\ Dpdk!TransmitsFaithfully

\* Sends make progress.  The loops commit() has in Verbs, ef_vi, DPDK and AF_XDP end:
\* completions arrive, the event queue is polled, the ring reaped, the sleeping driver
\* woken.  What packet_mmap and the I210 driver accept does leave, unless every slot has
\* met a send() error, or the I210's tail has come round to its head.
EverySendProgresses ==
    /\ CommitReturns
    /\ EfVi!CommitReturns
    /\ Dpdk!CommitReturns
    /\ Xdp!CommitReturns
    /\ Mmap!HandedToNic
    /\ I210!HandedToNic

\* What a transport counts agrees with the NIC: the I210's descriptors in flight, ef_vi's
\* tail, AF_XDP's outstanding frames with an unpaced caller, DPDK's mbufs and the
\* references of its reused mbuf.
AccountsMatchNic ==
    /\ I210!CountCoversNic
    /\ EfVi!TailFollowsNic
    /\ Xdp!OutstandingExact
    /\ Dpdk!MbufsConserved /\ Dpdk!RefcntInRange

\* ef_vi: pollTxTimestamp() never pairs a send with another send's stamp.
EfViStampsPaired == EfVi!StampsPaired
=============================================================================
