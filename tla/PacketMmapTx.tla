---------------------------- MODULE PacketMmapTx ----------------------------
(***************************************************************************)
(* The transmit half of the packet_mmap transport: a ring of frame slots   *)
(* shared with the kernel, whose tp_status word says who owns each slot.   *)
(* The program fills slot `next` and asks for its transmission with an     *)
(* empty send(); the kernel takes the requested slots in ring order and    *)
(* gives each back when the NIC is done with it.                           *)
(***************************************************************************)
EXTENDS Naturals, Sequences

CONSTANTS NumSlots,   \* RingConfig.blockNumber
          MaxFrames,  \* bound: frames the caller sends
          MaxErrors,  \* bound: send() calls that fail for good
          MaxRetries  \* bound: send() calls that fail with EAGAIN or EBUSY

PacketMmapTxAssumption ==
    /\ {NumSlots, MaxFrames} \subseteq Nat \ {0}
    /\ {MaxErrors, MaxRetries} \subseteq Nat

VARIABLES status,     \* tp_status of each slot
          data,       \* payload of each slot: the frame last written to it, or 0
          stamped,    \* slots whose bytes outside the payload are the template
          next,       \* m_nextSlot
          pc,         \* where the caller is
          kHead,      \* kernel: the next slot it looks at
          nicHead,    \* NIC: the next slot it transmits
          committed, wire, bare, errors, retries

vars == <<status, data, stamped, next, pc, kHead, nicHead, committed, wire, bare, errors, retries>>

Slots == 0 .. NumSlots - 1

\* The cursors wrap at the end of the ring.
After(s) == (s + 1) % NumSlots

Init ==
    /\ status = [s \in Slots |-> "AVAILABLE"]
    /\ data = [s \in Slots |-> 0]
    /\ stamped = {}
    /\ next = 0 /\ kHead = 0 /\ nicHead = 0
    /\ pc = "prefill"
    /\ committed = 0 /\ wire = << >> /\ bare = 0
    /\ errors = 0 /\ retries = 0

\* Mutant of Prefill: the last slot is left without the template.
PrefillShort ==
    /\ pc = "prefill"
    /\ stamped' = {s \in Slots : s + 1 < NumSlots /\ status[s] = "AVAILABLE"}
    /\ pc' = "idle"
    /\ UNCHANGED <<status, data, next, kHead, nicHead, committed, wire, bare, errors, retries>>

\* prefillRing(): the template goes into every available slot, once at startup.
Prefill ==
    /\ pc = "prefill"
    /\ stamped' = {s \in Slots : status[s] = "AVAILABLE"}
    /\ pc' = "idle"
    /\ UNCHANGED <<status, data, next, kHead, nicHead, committed, wire, bare, errors, retries>>

\* Mutant of Acquire: tp_status is not looked at.
AcquireUnchecked ==
    /\ pc = "idle"
    /\ committed < MaxFrames
    /\ data' = [data EXCEPT ![next] = committed + 1]
    /\ pc' = "acquired"
    /\ UNCHANGED <<status, stamped, next, kHead, nicHead, committed, wire, bare, errors, retries>>

\* acquire() and the caller's write of the payload.
Acquire ==
    /\ pc = "idle"
    /\ committed < MaxFrames
    /\ status[next] = "AVAILABLE"
    /\ data' = [data EXCEPT ![next] = committed + 1]
    /\ pc' = "acquired"
    /\ UNCHANGED <<status, stamped, next, kHead, nicHead, committed, wire, bare, errors, retries>>

\* acquire() returns nullptr: the slot is not available.  The caller asks again.
AcquireFails ==
    /\ pc = "idle"
    /\ committed < MaxFrames
    /\ status[next] # "AVAILABLE"
    /\ UNCHANGED vars

\* commit(), up to the system call: the slot is offered to the kernel.
Request ==
    /\ pc = "acquired"
    /\ status' = [status EXCEPT ![next] = "SEND_REQUEST"]
    /\ committed' = committed + 1
    /\ pc' = "kick"
    /\ UNCHANGED <<data, stamped, next, kHead, nicHead, wire, bare, errors, retries>>

\* The slots the kernel has been asked to send, in the order it takes them.
Requested == {k \in 0 .. NumSlots - 1 :
                \A j \in 0 .. k : status[(kHead + j) % NumSlots] = "SEND_REQUEST"}

\* The kernel queues the first n requested slots to the NIC.
Take(n) ==
    /\ status' = [s \in Slots |->
                    IF \E k \in 0 .. n - 1 : s = (kHead + k) % NumSlots
                    THEN "SENDING" ELSE status[s]]
    /\ kHead' = (kHead + n) % NumSlots

\* send() succeeds once the kernel has taken the oldest request; it may leave
\* later ones for the next call.  commit() moves to the next slot.
KickOk ==
    /\ pc = "kick"
    /\ \E k \in Requested : Take(k + 1)
    /\ next' = After(next)
    /\ pc' = "idle"
    /\ UNCHANGED <<data, stamped, nicHead, committed, wire, bare, errors, retries>>

\* Mutant of KickRetry: the loop gives up on EAGAIN.
KickRetryBreaks ==
    /\ pc = "kick"
    /\ retries < MaxRetries
    /\ \E k \in Requested : Take(k)
    /\ retries' = retries + 1
    /\ next' = After(next)
    /\ pc' = "idle"
    /\ UNCHANGED <<data, stamped, nicHead, committed, wire, bare, errors>>

\* send() fails with EAGAIN or EBUSY, possibly after taking some slots, and the
\* loop of commit() calls it again.
KickRetry ==
    /\ pc = "kick"
    /\ retries < MaxRetries
    /\ \E k \in Requested : Take(k)
    /\ retries' = retries + 1
    /\ UNCHANGED <<data, stamped, next, pc, nicHead, committed, wire, bare, errors>>

\* send() fails with any other error (ENETDOWN, ENOBUFS): commit() breaks out of
\* its loop and moves on; the slots not taken stay requested.
KickError ==
    /\ pc = "kick"
    /\ errors < MaxErrors
    /\ \E k \in Requested : Take(k)
    /\ errors' = errors + 1
    /\ next' = After(next)
    /\ pc' = "idle"
    /\ UNCHANGED <<data, stamped, nicHead, committed, wire, bare, retries>>

\* The NIC reads a queued slot, transmits it and gives it back.
Transmit ==
    /\ status[nicHead] = "SENDING"
    /\ wire' = Append(wire, data[nicHead])
    /\ bare' = bare + (IF nicHead \in stamped THEN 0 ELSE 1)
    /\ status' = [status EXCEPT ![nicHead] = "AVAILABLE"]
    /\ nicHead' = After(nicHead)
    /\ UNCHANGED <<data, stamped, next, pc, kHead, committed, errors, retries>>

\* Every frame is committed, and the kernel has none left to transmit unasked.
Done ==
    /\ pc = "idle"
    /\ committed = MaxFrames
    /\ \A s \in Slots : status[s] # "SENDING"
    /\ UNCHANGED vars

Caller == Prefill \/ Acquire \/ AcquireFails \/ Request \/ KickOk \/ KickRetry \/ KickError

Next == Caller \/ Transmit \/ Done

Spec == Init /\ [][Next]_vars

\* The caller keeps calling, a busy kernel eventually takes a slot, the NIC drains.
FairSpec == Spec /\ WF_vars(Caller) /\ WF_vars(Transmit)

-----------------------------------------------------------------------------

\* Type invariant: one requested, queued or available slot each; indices in the ring.
TypeOK ==
    /\ status \in [Slots -> {"AVAILABLE", "SEND_REQUEST", "SENDING"}]
    /\ data \in [Slots -> 0 .. MaxFrames]
    /\ stamped \subseteq Slots
    /\ {next, kHead, nicHead} \subseteq Slots
    /\ pc \in {"prefill", "idle", "acquired", "kick"}
    /\ committed \in 0 .. MaxFrames
    /\ wire \in Seq(1 .. MaxFrames)
    /\ bare \in 0 .. MaxFrames
    /\ errors \in 0 .. MaxErrors
    /\ retries \in 0 .. MaxRetries

Abstract == INSTANCE TxRing

\* The ring keeps the promise of the TxRing concept: frames leave in commit
\* order, once, with the committed bytes, although send() may take several slots,
\* none, or fail (PacketMmapTx::acquire and commit).
TransmitsFaithfully == Abstract!TxSpec

\* Every frame on the wire carries the template prefillRing() wrote at startup,
\* however often its slot has been recycled since.
TemplatePersists == bare = 0

\* commit() hands the frame to the NIC: while the caller keeps calling, a frame
\* leaves even if the send() of its own commit failed, as long as at least
\* MaxErrors commits follow it (PacketMmapTx::commit moves on after an error).
HandedToNic ==
    \A k \in 1 .. MaxFrames - MaxErrors : (committed >= k) ~> (Len(wire) >= k)
=============================================================================
