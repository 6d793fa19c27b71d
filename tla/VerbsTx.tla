------------------------------ MODULE VerbsTx -------------------------------
(***************************************************************************)
(* The transmit half of the verbs transport.  Every frame is built in one  *)
(* buffer and copied inline into a work request; only every SignalEvery-th *)
(* request asks for a completion, and polling that completion retires it   *)
(* and all requests before it.  commit() polls once when two completions   *)
(* are due and, as a backstop, until fewer than SqDepth / SignalEvery - 1  *)
(* are.                                                                    *)
(***************************************************************************)
EXTENDS Integers, Sequences, FiniteSets

CONSTANTS SqDepth, SignalEvery,  \* the template parameters
          MaxFrames,             \* bound: frames the caller sends
          MaxPostErrors          \* bound: ibv_post_send() calls that fail

\* The static_assert of the class.
ASSUME VerbsTxAssumption ==
    /\ {SqDepth, SignalEvery, MaxFrames} \subseteq Nat \ {0}
    /\ 4 * SignalEvery <= SqDepth
    /\ MaxPostErrors \in Nat

VARIABLES buf,       \* the frame in the TX buffer
          txCount,   \* m_txCount: commit() calls
          unreaped,  \* m_unreaped
          posted,    \* the commits whose request is on the send queue or was
          wqe,       \* the bytes copied into the request of each commit
          executed,  \* the last commit whose request the NIC has executed, or 0
          retired,   \* the commit of the last completion polled, or 0
          wire, pc, errors

vars == <<buf, txCount, unreaped, posted, wqe, executed, retired, wire, pc, errors>>

Init ==
    /\ buf = 0 /\ txCount = 0 /\ unreaped = 0
    /\ posted = {}
    /\ wqe = << >>
    /\ executed = 0 /\ retired = 0
    /\ wire = << >>
    /\ pc = "idle"
    /\ errors = 0

\* The caller writes the next frame into the buffer acquire() returned.
Acquire ==
    /\ pc = "idle"
    /\ txCount < MaxFrames
    /\ buf' = txCount + 1
    /\ pc' = "post"
    /\ UNCHANGED <<txCount, unreaped, posted, wqe, executed, retired, wire, errors>>

\* The commits whose request asks for a completion.
Signaled(n) == n % SignalEvery = 0

\* Mutant of Count: every request is counted as a signaled one.
CountEvery ==
    /\ txCount' = txCount + 1
    /\ unreaped' = unreaped + 1
    /\ pc' = IF unreaped' >= 2 THEN "poll" ELSE "idle"

\* Counters after the first half of commit().
Count ==
    /\ txCount' = txCount + 1
    /\ unreaped' = unreaped + (IF Signaled(txCount + 1) THEN 1 ELSE 0)
    /\ pc' = IF unreaped' >= 2 THEN "poll" ELSE "idle"

\* Mutant of Post: the request is recorded under the counter's value before the increment.
PostOldCount ==
    /\ pc = "post"
    /\ Count
    /\ posted' = posted \cup {txCount}
    /\ wqe' = Append(wqe, buf)
    /\ UNCHANGED <<buf, executed, retired, wire, errors>>

\* commit(): the request is posted, with the bytes the buffer holds now.
Post ==
    /\ pc = "post"
    /\ Count
    /\ posted' = posted \cup {txCount + 1}
    /\ wqe' = Append(wqe, buf)
    /\ UNCHANGED <<buf, executed, retired, wire, errors>>

\* commit(): ibv_post_send() fails.  The error is printed; the counters stay counted.
PostFails ==
    /\ pc = "post"
    /\ errors < MaxPostErrors
    /\ Count
    /\ wqe' = Append(wqe, buf)
    /\ errors' = errors + 1
    /\ UNCHANGED <<buf, posted, executed, retired, wire>>

\* The completions ready on the send queue's CQ, oldest first in commit order.
Ready == {n \in posted : Signaled(n) /\ retired < n /\ n <= executed}

\* ibv_poll_cq() finds the oldest one.
Reap ==
    /\ \E n \in Ready : (\A m \in Ready : n <= m) /\ retired' = n
    /\ unreaped' = unreaped - 1

\* commit(): the single lazy poll.
Poll ==
    /\ pc = "poll"
    /\ \/ Reap
       \/ Ready = {} /\ UNCHANGED <<unreaped, retired>>
    /\ pc' = "backstop"
    /\ UNCHANGED <<buf, txCount, posted, wqe, executed, wire, errors>>

Due == SqDepth \div SignalEvery - 1

\* commit(): the backstop loop polls; while nothing is ready it spins.
BackstopPoll ==
    /\ pc = "backstop"
    /\ unreaped >= Due
    /\ \/ Reap
       \/ Ready = {} /\ UNCHANGED <<unreaped, retired>>
    /\ UNCHANGED <<buf, txCount, posted, wqe, executed, wire, pc, errors>>

\* Mutant of BackstopDone: the loop is left whatever unreaped is.
BackstopSkipped ==
    /\ pc = "backstop"
    /\ pc' = "idle"
    /\ UNCHANGED <<buf, txCount, unreaped, posted, wqe, executed, retired, wire, errors>>

\* commit(): the loop ends.
BackstopDone ==
    /\ pc = "backstop"
    /\ unreaped < Due
    /\ pc' = "idle"
    /\ UNCHANGED <<buf, txCount, unreaped, posted, wqe, executed, retired, wire, errors>>

\* Mutant of Execute: posted without IBV_SEND_INLINE, the bytes are read from the buffer.
ExecuteFromBuffer ==
    /\ \E n \in posted :
        /\ executed < n
        /\ \A m \in posted : executed < m => n <= m
        /\ executed' = n
        /\ wire' = Append(wire, buf)
    /\ UNCHANGED <<buf, txCount, unreaped, posted, wqe, retired, pc, errors>>

\* The NIC executes the oldest request and sends the bytes inlined in it.
Execute ==
    /\ \E n \in posted :
        /\ executed < n
        /\ \A m \in posted : executed < m => n <= m
        /\ executed' = n
        /\ wire' = Append(wire, wqe[n])
    /\ UNCHANGED <<buf, txCount, unreaped, posted, wqe, retired, pc, errors>>

\* Every frame is committed and executed.
Done ==
    /\ pc = "idle"
    /\ txCount = MaxFrames
    /\ \A n \in posted : n <= executed
    /\ UNCHANGED vars

Caller == Acquire \/ Post \/ PostFails \/ Poll \/ BackstopPoll \/ BackstopDone

Next == Caller \/ Execute \/ Done

Spec == Init /\ [][Next]_vars

\* The caller runs and the NIC executes what is posted.
FairSpec == Spec /\ WF_vars(Caller) /\ WF_vars(Execute)

-----------------------------------------------------------------------------

\* Type invariant: the counters count commits made.
TypeOK ==
    /\ buf \in Nat /\ txCount \in Nat /\ unreaped \in Nat
    /\ posted \subseteq 1 .. txCount
    /\ wqe \in Seq(Nat) /\ Len(wqe) = txCount
    /\ executed \in 0 .. txCount /\ retired \in 0 .. executed
    /\ wire \in Seq(Nat)
    /\ pc \in {"idle", "post", "poll", "backstop"}
    /\ errors \in Nat

\* Requests the provider still counts against the depth of the send queue.
InFlight == {n \in posted : retired < n}

\* The send queue never overflows: whenever commit() posts there is room, although
\* the hot path polls lazily and the NIC may lag behind as far as it likes.
SqNeverOverflows == pc = "post" => Cardinality(InFlight) < SqDepth

\* Frames are named by their rank among those whose post succeeded.
Abstract == INSTANCE TxRing WITH
    committed <- Cardinality(posted),
    wire <- [i \in 1 .. Len(wire) |->
                IF wire[i] \in posted THEN Cardinality({n \in posted : n <= wire[i]}) ELSE 0]

\* One buffer serves every frame, yet each frame whose post succeeded leaves once, in
\* order and as it was committed (IBV_SEND_INLINE); a failed post loses only its own.
TransmitsFaithfully == Abstract!TxSpec

\* commit() returns: its backstop loop ends once the NIC has caught up.
CommitReturns == (pc # "idle") ~> (pc = "idle")
=============================================================================
