------------------------------- MODULE EfViTx -------------------------------
(***************************************************************************)
(* The transmit half of the ef_vi transport.  A frame is written into the  *)
(* CTPIO aperture and backed by a fallback descriptor whose DMA reads the  *)
(* slot later, if the aperture lost; completions come back through the     *)
(* event queue, with a hardware timestamp or without one, and free the     *)
(* slots in order.                                                         *)
(***************************************************************************)
EXTENDS Integers, Sequences, SequencesExt

CONSTANTS NbTxBufs,
          UseCtpio, HwTimestamps,
          TxqSizes,      \* the queue depths ef_vi_alloc_from_pd() may choose
          EvPollBatch,   \* kEvPollBatch
          MayFail,       \* whether sends may end in an error event
          MaxFrames      \* bound: frames the caller sends

EfViTxAssumption ==
    /\ {NbTxBufs, EvPollBatch, MaxFrames} \cup TxqSizes \subseteq Nat \ {0}
    /\ {UseCtpio, HwTimestamps, MayFail} \subseteq BOOLEAN

VARIABLES x2522Plus,   \* the Tuning the transport was built with: no ring-full checks
          txqSize,     \* descriptors of the virtual interface
          slot,        \* the frame in each transmit slot
          txHead,      \* m_txHead
          txTail,      \* m_txTail
          acquired,    \* between acquire() and commit()
          txq,         \* posted descriptors the NIC has not served
          evq,         \* the event queue
          txStamp,     \* m_txStamp
          txTsCursor,  \* m_txTsCursor
          polled,      \* what pollTxTimestamp() returned last
          wire,        \* the frames that left
          overrun      \* history: frames whose slot was filled again before they left

config == <<x2522Plus, txqSize>>

vars == <<config, slot, txHead, txTail, acquired, txq, evq, txStamp, txTsCursor, polled, wire, overrun>>

NoStamp == 0  \* kTxStampNone

Slots == 0 .. NbTxBufs - 1

Stamp(k, m) == [seq |-> k, minor |-> m]

Init ==
    /\ x2522Plus \in {b \in BOOLEAN : b => UseCtpio /\ HwTimestamps}
    /\ txqSize \in TxqSizes
    /\ slot = [s \in Slots |-> 0]
    /\ txHead = 0 /\ txTail = 0 /\ txTsCursor = 0
    /\ acquired = FALSE
    /\ txq = << >> /\ evq = << >> /\ wire = << >> /\ overrun = {}
    /\ txStamp = [s \in Slots |-> Stamp(0, NoStamp)]
    /\ polled = Stamp(0, NoStamp)

\* Mutant of Handle: the tail counts events, not the completions bundled in them.
HandleOnce(st, ev) == [tail |-> st.tail + 1, stamps |-> st.stamps]

\* pollEvent(): one event.  TX bundles n completions, a stamp or an error has one.
Handle(st, ev) ==
    [tail   |-> st.tail + ev.n,
     stamps |-> [s \in Slots |->
                    IF ev.kind = "stamped"
                    THEN IF s = ev.slot THEN Stamp(st.tail, ev.minor) ELSE st.stamps[s]
                    ELSE IF HwTimestamps /\ \E i \in 0 .. ev.n - 1 : s = (st.tail + i) % NbTxBufs
                         THEN Stamp(CHOOSE k \in st.tail .. st.tail + ev.n - 1 :
                                        k % NbTxBufs = s, NoStamp)
                         ELSE st.stamps[s]]]

PolledEvents == SubSeq(evq, 1, Min({EvPollBatch, Len(evq)}))

After == FoldLeft(Handle, [tail |-> txTail, stamps |-> txStamp], PolledEvents)

\* pollEvent(): a batch is fetched and all of it handled.
PollEvent ==
    /\ evq' = SubSeq(evq, Len(PolledEvents) + 1, Len(evq))
    /\ txTail' = After.tail
    /\ txStamp' = After.stamps

\* The unsent frames of the slot that acquire() is about to return.
Unsent == {i \in Len(wire) + 1 .. txHead : (i - 1) % NbTxBufs = txHead % NbTxBufs}

\* The caller, whom nothing paces, fills the slot.
Fill ==
    /\ slot' = [slot EXCEPT ![txHead % NbTxBufs] = txHead + 1]
    /\ overrun' = overrun \cup Unsent
    /\ acquired' = TRUE

\* acquire() with libciul: a full ring polls once and may still be full.
AcquireGeneric ==
    IF txHead - txTail < NbTxBufs
    THEN Fill /\ UNCHANGED <<txTail, txStamp, evq>>
    ELSE /\ PollEvent
         /\ IF txHead - txTail' < NbTxBufs THEN Fill ELSE UNCHANGED <<slot, acquired, overrun>>

\* acquire(), and the caller fills the frame in.
Acquire ==
    /\ ~acquired
    /\ txHead < MaxFrames
    /\ IF x2522Plus THEN Fill /\ UNCHANGED <<txTail, txStamp, evq>> ELSE AcquireGeneric
    /\ UNCHANGED <<config, txHead, txq, txTsCursor, polled, wire>>

\* Mutant of CommitRetry: the loop does not poll.
CommitRetryBlind ==
    /\ acquired /\ ~x2522Plus
    /\ txHead - txTail >= txqSize
    /\ UNCHANGED vars

\* commit(): no descriptor is free (-EAGAIN), so events are polled and the post repeated.
CommitRetry ==
    /\ acquired /\ ~x2522Plus
    /\ txHead - txTail >= txqSize
    /\ PollEvent
    /\ UNCHANGED <<config, slot, txHead, acquired, txq, txTsCursor, polled, wire, overrun>>

\* Mutant of Commit: the fallback descriptor names the next slot.
CommitNextSlot ==
    /\ acquired
    /\ x2522Plus \/ txHead - txTail < txqSize
    /\ txq' = Append(txq, [slot |-> (txHead + 1) % NbTxBufs, copy |-> 0])
    /\ txHead' = txHead + 1
    /\ acquired' = FALSE
    /\ UNCHANGED <<config, slot, txTail, evq, txStamp, txTsCursor, polled, wire, overrun>>

\* commit(): the aperture, then the descriptor.
Commit ==
    /\ acquired
    /\ x2522Plus \/ txHead - txTail < txqSize
    /\ LET s == txHead % NbTxBufs
       IN  txq' = Append(txq, [slot |-> s, copy |-> IF UseCtpio THEN slot[s] ELSE 0])
    /\ txHead' = txHead + 1
    /\ acquired' = FALSE
    /\ UNCHANGED <<config, slot, txTail, evq, txStamp, txTsCursor, polled, wire, overrun>>

\* commit(): the post fails for another reason; the frame is counted as an error and its
\* slot is the next one to be acquired again.
CommitError ==
    /\ MayFail
    /\ acquired /\ ~x2522Plus
    /\ acquired' = FALSE
    /\ UNCHANGED <<config, slot, txHead, txTail, txq, evq, txStamp, txTsCursor, polled, wire, overrun>>

\* Events are also polled by the receive half and by rxFrameComplete().
Poll ==
    /\ ~acquired
    /\ evq # << >>
    /\ PollEvent
    /\ UNCHANGED <<config, slot, txHead, acquired, txq, txTsCursor, polled, wire, overrun>>

\* Mutant of PollTxTimestamp: the tag of the entry is not compared.
PollUntagged ==
    /\ txTsCursor # txTail
    /\ polled' = Stamp(txTsCursor, txStamp[txTsCursor % NbTxBufs].minor)
    /\ txTsCursor' = txTsCursor + 1
    /\ UNCHANGED <<config, slot, txHead, txTail, acquired, txq, evq, txStamp, wire, overrun>>

\* pollTxTimestamp(): the next stamp, unless its entry was overwritten.
PollTxTimestamp ==
    /\ HwTimestamps
    /\ txTsCursor # txTail
    /\ LET entry == txStamp[txTsCursor % NbTxBufs]
       IN  IF entry.seq # txTsCursor
           THEN txTsCursor' = txTail /\ UNCHANGED polled
           ELSE txTsCursor' = txTsCursor + 1 /\ polled' = entry
    /\ UNCHANGED <<config, slot, txHead, txTail, acquired, txq, evq, txStamp, wire, overrun>>

\* The NIC sends the oldest frame, from the aperture or from the slot, and reports it:
\* with a stamp, alone, or together with the completions before it.
Transmit ==
    /\ txq # << >>
    /\ LET d == Head(txq)
           sent == {slot[d.slot]} \cup ({d.copy} \ {0})
           event(k, n) == [kind |-> k, n |-> n, slot |-> d.slot, minor |-> Len(wire) + 1]
           more == IF evq # << >> /\ Last(evq).kind = "plain" THEN Last(evq).n ELSE 0
       IN  /\ \E f \in sent : wire' = Append(wire, f)
           /\ \/ HwTimestamps /\ evq' = Append(evq, event("stamped", 1))
              \/ evq' = Append(evq, event("plain", 1))
              \/ more > 0 /\ evq' = Append(Front(evq), event("plain", more + 1))
    /\ txq' = Tail(txq)
    /\ UNCHANGED <<config, slot, txHead, txTail, acquired, txStamp, txTsCursor, polled,
                   overrun>>

\* A send ends in an error event.
TransmitError ==
    /\ MayFail
    /\ txq # << >>
    /\ evq' = Append(evq, [kind |-> "error", n |-> 1, slot |-> Head(txq).slot, minor |-> 0])
    /\ wire' = Append(wire, 0)
    /\ txq' = Tail(txq)
    /\ UNCHANGED <<config, slot, txHead, txTail, acquired, txStamp, txTsCursor, polled,
                   overrun>>

Done == txHead = MaxFrames /\ txq = << >> /\ UNCHANGED vars

Next == Acquire \/ CommitRetry \/ Commit \/ CommitError \/ Poll \/ PollTxTimestamp
        \/ Transmit \/ TransmitError \/ Done

Spec == Init /\ [][Next]_vars

\* commit() runs on, and the NIC serves what is posted.
FairSpec == Spec /\ WF_vars(CommitRetry \/ Commit) /\ WF_vars(Transmit)

-----------------------------------------------------------------------------

\* Type invariant: what is in flight is bounded by the slots, unless nobody checks.
TypeOK ==
    /\ slot \in [Slots -> Nat]
    /\ txTail \in Nat /\ txHead \in txTail .. MaxFrames
    /\ acquired \in BOOLEAN
    /\ \A i \in 1 .. Len(txq) : txq[i].slot \in Slots
    /\ txStamp \in [Slots -> [seq : Nat, minor : Nat]]
    /\ txTsCursor \in 0 .. txTail
    /\ ~x2522Plus => txHead - txTail <= NbTxBufs
    /\ overrun \subseteq 1 .. MaxFrames

\* A send that ended in an error event keeps the place of its frame, and so does, without
\* the ring-full check, a frame that was overwritten.
Abstract == INSTANCE TxRing WITH
    committed <- txHead,
    wire <- [i \in 1 .. Len(wire) |->
                IF wire[i] = 0 \/ (x2522Plus /\ i \in overrun) THEN i ELSE wire[i]]

\* Every committed frame leaves once, in order, with the bytes it was committed with,
\* whether the aperture or the fallback DMA sends it, or is reported by an error event.
\* The X2522Plus tuning promises its place only to a frame whose slot the caller, NbTxBufs
\* frames ahead of the NIC, filled again before it left; the others keep their bytes.
TransmitsFaithfully == Abstract!TxSpec

\* The completions handled so far are the oldest sends: what the tail has passed and what
\* waits in the event queue add up to what the NIC has served.
TailFollowsNic ==
    FoldLeft(LAMBDA a, ev : a + ev.n, txTail, evq) + Len(txq) = txHead

\* pollTxTimestamp() never pairs a send with the stamp of another one, however late it
\* looks and whichever completions came without a stamp.
StampsPaired == polled.minor \in {NoStamp, polled.seq + 1}

\* The retry loop of commit() ends.
CommitReturns == acquired ~> ~acquired
=============================================================================
