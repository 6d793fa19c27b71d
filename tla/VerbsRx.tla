------------------------------ MODULE VerbsRx -------------------------------
(***************************************************************************)
(* The receive half of the verbs transport, which drives the mlx5 receive  *)
(* queue and its completion ring directly.  The receive requests are       *)
(* written once; a slot is given back by moving the queue's head, and both *)
(* ring positions reach the NIC through doorbell records that keep only    *)
(* their low bits.  A completion is recognised by its owner bit.           *)
(***************************************************************************)
EXTENDS Integers, Sequences

CONSTANTS RqDepth,      \* the template parameter, a power of two
          WqeCnt,       \* rq.wqe_cnt as the provider rounded it
          CqeCnt,       \* cqe_cnt as the provider rounded it
          HeadWidth,    \* 2^16: what rqDbrec and wqe_counter can hold
          CiWidth,      \* 2^24: what cqDbrec can hold
          MaxArrivals,  \* bound: frames that arrive
          MaxErrors     \* bound: error completions

\* The geometry init() checks, and libmlx5's rounding of the CQ (cqe + 1, up to a
\* power of two).  For powers of two, dividing is comparing.
ASSUME VerbsRxAssumption ==
    /\ {RqDepth, WqeCnt, CqeCnt, HeadWidth, CiWidth} \subseteq Nat \ {0}
    /\ {MaxArrivals, MaxErrors} \subseteq Nat
    /\ WqeCnt % RqDepth = 0
    /\ HeadWidth % WqeCnt = 0 /\ HeadWidth > RqDepth + 1
    /\ CqeCnt > RqDepth
    /\ CiWidth > CqeCnt

Slots == 0 .. RqDepth - 1

VARIABLES slot,      \* the frame in each receive slot, or 0
          wqe,       \* the slot each receive request points to
          cqe,       \* the completion ring
          rqDbrec, cqDbrec,  \* the doorbell records
          produced,  \* requests the NIC has consumed, and completions written
          rqHead,    \* m_rqHead
          cqCi,      \* m_cqCi
          lastSlot,  \* m_lastSlot
          pc,        \* "idle", "held" until release(), "cq" between the doorbells
          arrived, errors

vars == <<slot, wqe, cqe, rqDbrec, cqDbrec, produced, rqHead, cqCi, lastSlot, pc,
          arrived, errors>>

\* prewriteRq(): every request points to the slot of its position.
Prewritten == [p \in 0 .. WqeCnt - 1 |-> p % RqDepth]

\* init() of the receive side.
Init ==
    /\ slot = [s \in Slots |-> 0]
    /\ wqe = Prewritten
    /\ cqe = [i \in 0 .. CqeCnt - 1 |-> [op |-> "invalid", owner |-> 1, ctr |-> 0]]
    /\ rqHead = RqDepth /\ rqDbrec = RqDepth % HeadWidth
    /\ cqCi = 0 /\ cqDbrec = 0
    /\ produced = 0
    /\ lastSlot = 0
    /\ pc = "idle"
    /\ arrived = 0 /\ errors = 0

\* The NIC sees a free receive request.
Posted == (rqDbrec - produced) % HeadWidth > 0

\* The NIC sees the completion ring full.
CqFull == (produced - cqDbrec) % CiWidth >= CqeCnt

OwnerOf(n) == (n \div CqeCnt) % 2

\* The NIC consumes the next request and completes it with op.
Complete(op) ==
    /\ cqe' = [cqe EXCEPT ![produced % CqeCnt] =
                  [op |-> op, owner |-> OwnerOf(produced), ctr |-> produced % HeadWidth]]
    /\ produced' = produced + 1
    /\ UNCHANGED <<wqe, rqDbrec, cqDbrec, rqHead, cqCi, lastSlot, pc>>

\* A frame arrives in the slot of the next request.
Store ==
    /\ arrived < MaxArrivals
    /\ Posted
    /\ slot' = [slot EXCEPT ![wqe[produced % WqeCnt]] = arrived + 1]
    /\ Complete("send")
    /\ arrived' = arrived + 1
    /\ UNCHANGED errors

\* A request completes in error, without a frame.
StoreError ==
    /\ errors < MaxErrors
    /\ Posted
    /\ Complete("error")
    /\ errors' = errors + 1
    /\ UNCHANGED <<slot, arrived>>

\* A frame arrives and there is no request for it.
Drop ==
    /\ arrived < MaxArrivals
    /\ ~Posted
    /\ arrived' = arrived + 1
    /\ UNCHANGED <<slot, wqe, cqe, rqDbrec, cqDbrec, produced, rqHead, cqCi, lastSlot,
                   pc, errors>>

Current == cqe[cqCi % CqeCnt]

\* Mutant of Valid: the owner bit is not tested.
ValidIgnoringOwner == Current.op # "invalid"

\* tryReceive(): the owner-bit test on the current completion.
Valid == Current.op # "invalid" /\ Current.owner = OwnerOf(cqCi)

\* tryReceive(): a frame, in place.  Nothing is consumed before release().
TryReceive ==
    /\ pc = "idle"
    /\ Valid
    /\ Current.op = "send"
    /\ lastSlot' = Current.ctr % RqDepth
    /\ pc' = "held"
    /\ UNCHANGED <<slot, wqe, cqe, rqDbrec, cqDbrec, produced, rqHead, cqCi, arrived,
                   errors>>

\* Mutant of GiveBack: the doorbell record is not cut to 16 bits.
GiveBackWideHead ==
    /\ rqHead' = rqHead + 1
    /\ rqDbrec' = rqHead + 1
    /\ pc' = "cq"
    /\ UNCHANGED <<slot, wqe, cqe, cqDbrec, produced, cqCi, lastSlot, arrived, errors>>

\* The first half of a consumption: the receive request is given back.
GiveBack ==
    /\ rqHead' = rqHead + 1
    /\ rqDbrec' = (rqHead + 1) % HeadWidth
    /\ pc' = "cq"
    /\ UNCHANGED <<slot, wqe, cqe, cqDbrec, produced, cqCi, lastSlot, arrived, errors>>

\* tryReceive(): an error completion is consumed and the caller sees nothing.
TryReceiveError ==
    /\ pc = "idle"
    /\ Valid
    /\ Current.op = "error"
    /\ GiveBack

\* release()
Release == pc = "held" /\ GiveBack

\* Mutant of Consume: the completion doorbell is not written.
ConsumeSilently ==
    /\ pc = "cq"
    /\ cqCi' = cqCi + 1
    /\ pc' = "idle"
    /\ UNCHANGED <<slot, wqe, cqe, rqDbrec, cqDbrec, produced, rqHead, lastSlot, arrived,
                   errors>>

\* The second half of a consumption, of a frame or of an error: the completion is.
Consume ==
    /\ pc = "cq"
    /\ cqCi' = cqCi + 1
    /\ cqDbrec' = (cqCi + 1) % CiWidth
    /\ pc' = "idle"
    /\ UNCHANGED <<slot, wqe, cqe, rqDbrec, produced, rqHead, lastSlot, arrived, errors>>

\* The caller polls on when no frame is left.
PollEmpty == pc = "idle" /\ ~Valid /\ UNCHANGED vars

Next == Store \/ StoreError \/ Drop \/ TryReceive \/ TryReceiveError \/ Release \/ Consume
        \/ PollEmpty

Spec == Init /\ [][Next]_vars

-----------------------------------------------------------------------------

\* Type invariant: doorbell records hold what fits in them.
TypeOK ==
    /\ slot \in [Slots -> Nat]
    /\ wqe \in [0 .. WqeCnt - 1 -> Slots]
    /\ cqe \in [0 .. CqeCnt - 1 -> [op : {"invalid", "send", "error"}, owner : {0, 1},
                                    ctr : 0 .. HeadWidth - 1]]
    /\ rqDbrec \in 0 .. HeadWidth - 1 /\ cqDbrec \in 0 .. CiWidth - 1
    /\ {produced, rqHead, cqCi, arrived, errors} \subseteq Nat
    /\ lastSlot \in Slots
    /\ pc \in {"idle", "held", "cq"}

\* The NIC never completes into a full completion ring, although release() gives the
\* request back before the completion.
CqNeverFull == Posted => ~CqFull

\* The completions tryReceive() has yet to return, oldest first.
Pending ==
    LET first == cqCi + (IF pc = "idle" THEN 0 ELSE 1)
    IN  SelectSeq([i \in 1 .. produced - first |-> cqe[(first + i - 1) % CqeCnt]],
                  LAMBDA c : c.op = "send")

Abstract == INSTANCE RxRing WITH
    guaranteed <- RqDepth - MaxErrors,
    waiting <- [i \in 1 .. Len(Pending) |-> slot[Pending[i].ctr % RqDepth]],
    held <- IF pc = "held" THEN slot[lastSlot] ELSE 0

\* The RX half implements the RxRing concept across every wrap of the two counters, the
\* owner bit and the slots, and drops a frame only when every request is taken.
ReceivesFaithfully == Abstract!RxSpec
=============================================================================
