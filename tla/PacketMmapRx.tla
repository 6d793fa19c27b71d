---------------------------- MODULE PacketMmapRx ----------------------------
(***************************************************************************)
(* The receive half of the packet_mmap transport: a ring of frame slots    *)
(* the kernel fills in order and the program reads in order, each handing  *)
(* the slot to the other through its tp_status word.                       *)
(***************************************************************************)
EXTENDS Naturals, Sequences

CONSTANTS NumSlots,    \* RingConfig.blockNumber
          MaxArrivals  \* bound: frames that arrive

PacketMmapRxAssumption == {NumSlots, MaxArrivals} \subseteq Nat \ {0}

VARIABLES status,      \* tp_status of each slot: KERNEL or USER
          data,        \* the frame each slot holds, or 0
          kHead,       \* kernel: the slot of the next frame
          writing,     \* kernel: it is copying a frame into kHead
          nextFrame,   \* m_nextFrame
          inHand,      \* the caller is between tryReceive() and release()
          arrived

vars == <<status, data, kHead, writing, nextFrame, inHand, arrived>>

Slots == 0 .. NumSlots - 1

\* The cursors wrap at the end of the ring.
After(s) == (s + 1) % NumSlots

Init ==
    /\ status = [s \in Slots |-> "KERNEL"]
    /\ data = [s \in Slots |-> 0]
    /\ kHead = 0 /\ nextFrame = 0
    /\ writing = FALSE /\ inHand = FALSE
    /\ arrived = 0

\* The kernel copies an arriving frame into the slot at its head ...
KernelWrite ==
    /\ ~writing
    /\ arrived < MaxArrivals
    /\ status[kHead] = "KERNEL"
    /\ data' = [data EXCEPT ![kHead] = arrived + 1]
    /\ writing' = TRUE
    /\ UNCHANGED <<status, kHead, nextFrame, inHand, arrived>>

\* ... and only then hands the slot to the program.
KernelPublish ==
    /\ writing
    /\ status' = [status EXCEPT ![kHead] = "USER"]
    /\ kHead' = After(kHead)
    /\ writing' = FALSE
    /\ arrived' = arrived + 1
    /\ UNCHANGED <<data, nextFrame, inHand>>

\* The slot at the head still belongs to the program: the frame is lost.
KernelDrop ==
    /\ ~writing
    /\ arrived < MaxArrivals
    /\ status[kHead] # "KERNEL"
    /\ arrived' = arrived + 1
    /\ UNCHANGED <<status, data, kHead, writing, nextFrame, inHand>>

\* Mutant of TryReceive: the slot goes back to the kernel with the frame in hand.
TryReceiveReleases ==
    /\ ~inHand
    /\ status[nextFrame] = "USER"
    /\ status' = [status EXCEPT ![nextFrame] = "KERNEL"]
    /\ inHand' = TRUE
    /\ UNCHANGED <<data, kHead, writing, nextFrame, arrived>>

\* tryReceive(): a span into the slot; nothing changes while the slot is not USER.
TryReceive ==
    /\ ~inHand
    /\ status[nextFrame] = "USER"
    /\ inHand' = TRUE
    /\ UNCHANGED <<status, data, kHead, writing, nextFrame, arrived>>

\* release(): the slot goes back to the kernel and the cursor moves on.
Release ==
    /\ inHand
    /\ status' = [status EXCEPT ![nextFrame] = "KERNEL"]
    /\ nextFrame' = After(nextFrame)
    /\ inHand' = FALSE
    /\ UNCHANGED <<data, kHead, writing, arrived>>

\* tryReceive(): the next slot still belongs to the kernel.
TryReceiveEmpty == ~inHand /\ status[nextFrame] # "USER" /\ UNCHANGED vars

Next == KernelWrite \/ KernelPublish \/ KernelDrop \/ TryReceive \/ TryReceiveEmpty \/ Release

Spec == Init /\ [][Next]_vars

-----------------------------------------------------------------------------

\* Type invariant: every slot belongs to the kernel or to the program.
TypeOK ==
    /\ status \in [Slots -> {"KERNEL", "USER"}]
    /\ data \in [Slots -> 0 .. MaxArrivals]
    /\ {kHead, nextFrame} \subseteq Slots
    /\ {writing, inHand} \subseteq BOOLEAN
    /\ arrived \in 0 .. MaxArrivals

\* The k-th slot of the ring counted from the caller's cursor.
Ahead(k) == (nextFrame + k) % NumSlots

\* The frames in the USER slots, in the order the caller will meet them; the one
\* in its hand is not waiting.
Waiting ==
    LET first == IF inHand THEN 1 ELSE 0
        ready == {k \in first .. NumSlots - 1 : \A j \in first .. k : status[Ahead(j)] = "USER"}
        n == IF ready = {} THEN 0
             ELSE (CHOOSE k \in ready : \A j \in ready : j <= k) + 1 - first
    IN  [i \in 1 .. n |-> data[Ahead(first + i - 1)]]

Abstract == INSTANCE RxRing WITH
    guaranteed <- NumSlots,
    waiting <- Waiting,
    held <- IF inHand THEN data[nextFrame] ELSE 0

\* The ring keeps the promise of the RxRing concept: frames come in order, the
\* span stays intact until release() although the kernel keeps writing, and a
\* frame is dropped only when every slot is taken (PacketMmapRx::tryReceive and
\* release).
ReceivesFaithfully == Abstract!RxSpec
=============================================================================
