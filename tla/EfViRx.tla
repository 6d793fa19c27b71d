------------------------------- MODULE EfViRx -------------------------------
(***************************************************************************)
(* The receive half of the ef_vi transport, polling the payload: the NIC   *)
(* writes frames into posted slots in order and tryReceive() watches the   *)
(* ethertype of the next slot, which release() cleared.  Events follow the *)
(* frames and are only counted; slots go back to the NIC in batches, in    *)
(* release() (libciul path) or on a miss (X2522Plus path).                 *)
(***************************************************************************)
EXTENDS Integers, Sequences, FiniteSets, SequencesExt

CONSTANTS NbRxBufs,
          PushBatch,    \* 8: the NIC takes descriptors in multiples of it
          FlushAt,      \* 64: release() pushes when so many are initialised
          EvPollBatch,  \* kEvPollBatch
          MaxArrivals   \* bound: frames that arrive

EfViRxAssumption ==
    /\ {NbRxBufs, PushBatch, FlushAt, EvPollBatch, MaxArrivals} \subseteq Nat \ {0}
    /\ NbRxBufs % PushBatch = 0 /\ FlushAt % PushBatch = 0

VARIABLES x2522Plus,    \* the Tuning the transport was built with
          buf,          \* the frame in each slot, and the stamp in its prefix
          marker,       \* slots whose ethertype is not zero
          posted,       \* slots the NIC may write, in order
          inited,       \* slots initialised and not pushed yet
          pendingPush,  \* m_rxPendingPush
          released, reposted,  \* m_rxReleased, m_rxReposted
          rxNextIdx, heldId,   \* m_rxNextIdx, m_heldId
          caller,       \* "idle", "missed" (in tryReceive) or "holds" a frame
          returned,     \* the frame tryReceive() returned last, until the next call
          rxTsRaw,      \* m_rxTsRaw
          rxPollHits, rxEvReconciled,  \* m_rxPollHits, m_rxEvReconciled
          arrived, stored,
          evented,      \* stored frames whose event is in the queue or handled
          evq           \* events: the frames each is about, and those it counts

rxState == <<x2522Plus, marker, posted, inited, pendingPush, released, reposted, rxNextIdx, heldId>>

nicState == <<buf, arrived, stored, evented>>

vars == <<rxState, caller, returned, rxTsRaw, rxPollHits, rxEvReconciled, nicState, evq>>

Slots == 0 .. NbRxBufs - 1

\* init(): every slot is zeroed and posted.
Init ==
    /\ x2522Plus \in BOOLEAN
    /\ buf = [s \in Slots |-> 0]
    /\ marker = {} /\ inited = << >> /\ pendingPush = 0
    /\ posted = [i \in 1 .. NbRxBufs |-> i - 1]
    /\ released = 0 /\ reposted = 0
    /\ rxNextIdx = 0 /\ heldId = 0
    /\ caller = "idle" /\ returned = 0 /\ rxTsRaw = 0
    /\ rxPollHits = 0 /\ rxEvReconciled = 0
    /\ arrived = 0 /\ stored = 0 /\ evented = 0
    /\ evq = << >>

\* A frame lands in the next posted slot, before its event.
Store ==
    /\ arrived < MaxArrivals
    /\ posted # << >>
    /\ buf' = [buf EXCEPT ![Head(posted)] = arrived + 1]
    /\ marker' = marker \cup {Head(posted)}
    /\ posted' = Tail(posted)
    /\ arrived' = arrived + 1 /\ stored' = stored + 1
    /\ UNCHANGED <<x2522Plus, inited, pendingPush, released, reposted, rxNextIdx, heldId, caller,
                   returned, rxTsRaw, rxPollHits, rxEvReconciled, evented, evq>>

\* A frame arrives and no slot is posted.
Drop ==
    /\ arrived < MaxArrivals
    /\ posted = << >>
    /\ arrived' = arrived + 1
    /\ UNCHANGED <<rxState, caller, returned, rxTsRaw, rxPollHits, rxEvReconciled, buf,
                   stored, evented, evq>>

\* The event of one frame, good (RX) or discarded (RX_DISCARD), or of several (RX_MULTI).
Event ==
    /\ \E k \in 1 .. stored - evented, good \in BOOLEAN :
        /\ evq' = Append(evq, [frames |-> k, counted |-> IF good THEN k ELSE 0])
        /\ evented' = evented + k
    /\ UNCHANGED <<rxState, caller, returned, rxTsRaw, rxPollHits, rxEvReconciled, buf,
                   arrived, stored>>

\* ef_vi_receive_push(): whole batches of initialised slots go to the NIC.
Push(ids) ==
    LET k == Len(ids) - (Len(ids) % PushBatch)
    IN  /\ posted' = posted \o SubSeq(ids, 1, k)
        /\ inited' = SubSeq(ids, k + 1, Len(ids))

Polled == SubSeq(evq, 1, Min({EvPollBatch, Len(evq)}))

\* Mutant of HandleEvents: every event counts the frames of the queue behind it.
HandleEventsAll ==
    /\ rxEvReconciled' = rxEvReconciled + Len(evq) + 1
    /\ evq' = << >>

\* pollEvent() with events in the queue: a batch is handled; discards are not counted.
HandleEvents ==
    /\ rxEvReconciled' = FoldLeft(LAMBDA n, ev : n + ev.counted, rxEvReconciled, Polled)
    /\ evq' = SubSeq(evq, Len(Polled) + 1, Len(evq))

\* Mutant of TryReceiveHit: the index is not wrapped.
TryReceiveHitNoMask ==
    /\ caller = "idle"
    /\ rxNextIdx \in marker
    /\ heldId' = rxNextIdx
    /\ rxNextIdx' = rxNextIdx + 1
    /\ rxPollHits' = rxPollHits + 1
    /\ caller' = "holds" /\ returned' = buf[rxNextIdx]
    /\ UNCHANGED rxTsRaw
    /\ UNCHANGED <<x2522Plus, marker, posted, inited, pendingPush, released, reposted, rxEvReconciled,
                   nicState, evq>>

\* tryReceive(): the marker of the next slot is set.
TryReceiveHit ==
    /\ caller = "idle"
    /\ rxNextIdx \in marker
    /\ heldId' = rxNextIdx
    /\ rxNextIdx' = (rxNextIdx + 1) % NbRxBufs
    /\ rxPollHits' = rxPollHits + 1
    /\ rxTsRaw' = IF x2522Plus THEN rxTsRaw ELSE buf[rxNextIdx]
    /\ caller' = "holds" /\ returned' = buf[rxNextIdx]
    /\ UNCHANGED <<x2522Plus, marker, posted, inited, pendingPush, released, reposted, rxEvReconciled,
                   nicState, evq>>

\* repostReleased(): the slots released since the last miss are initialised again.
RepostReleased ==
    /\ inited' = inited \o [i \in 1 .. released - reposted |-> (reposted + i - 1) % NbRxBufs]
    /\ pendingPush' = pendingPush + released - reposted
    /\ reposted' = released

\* tryReceive(): it is not set.
TryReceiveMiss ==
    /\ caller = "idle"
    /\ rxNextIdx \notin marker
    /\ IF x2522Plus THEN RepostReleased ELSE UNCHANGED <<inited, pendingPush, reposted>>
    /\ caller' = "missed" /\ returned' = 0
    /\ UNCHANGED <<x2522Plus, marker, posted, released, rxNextIdx, heldId, rxTsRaw, rxPollHits,
                   rxEvReconciled, nicState, evq>>

\* Mutant of PollMiss: pushing is left to release().
PollMissNoPush ==
    /\ caller = "missed"
    /\ caller' = "idle"
    /\ IF evq # << >> THEN HandleEvents ELSE UNCHANGED <<rxEvReconciled, evq>>
    /\ UNCHANGED <<x2522Plus, marker, posted, inited, pendingPush, released, reposted,
                   rxNextIdx, heldId, returned, rxTsRaw, rxPollHits, nicState>>

\* tryReceive(), its pollEvent(ev, true): events are handled, or, with none in the queue,
\* a full batch is pushed.
PollMiss ==
    /\ caller = "missed"
    /\ caller' = "idle"
    /\ IF evq # << >>
       THEN HandleEvents /\ UNCHANGED <<posted, inited, pendingPush>>
       ELSE /\ IF pendingPush >= PushBatch
               THEN Push(inited) /\ pendingPush' = pendingPush % PushBatch
               ELSE UNCHANGED <<posted, inited, pendingPush>>
            /\ UNCHANGED <<rxEvReconciled, evq>>
    /\ UNCHANGED <<x2522Plus, marker, released, reposted, rxNextIdx, heldId, returned, rxTsRaw,
                   rxPollHits, nicState>>

Freed(ids) ==
    IF pendingPush + 1 >= FlushAt
    THEN Push(ids) /\ pendingPush' = (pendingPush + 1) % PushBatch
    ELSE inited' = ids /\ pendingPush' = pendingPush + 1 /\ UNCHANGED posted

\* Mutant of Release: X2522Plus gives the slot back at once.
ReleaseReposts ==
    /\ caller = "holds"
    /\ caller' = "idle"
    /\ marker' = marker \ {heldId}
    /\ Freed(Append(inited, heldId))
    /\ UNCHANGED <<x2522Plus, released, reposted, rxNextIdx, heldId, returned, rxTsRaw, rxPollHits,
                   rxEvReconciled, nicState, evq>>

\* Mutant of Release: the marker stays.
ReleaseKeepsMarker ==
    /\ caller = "holds"
    /\ caller' = "idle"
    /\ Freed(Append(inited, heldId)) /\ UNCHANGED released
    /\ UNCHANGED <<x2522Plus, marker, reposted, rxNextIdx, heldId, returned, rxTsRaw, rxPollHits,
                   rxEvReconciled, nicState, evq>>

\* release(): the marker is cleared; the slot is initialised again, or only counted.
Release ==
    /\ caller = "holds"
    /\ caller' = "idle"
    /\ marker' = marker \ {heldId}
    /\ IF x2522Plus
       THEN released' = released + 1 /\ UNCHANGED <<inited, pendingPush, posted>>
       ELSE Freed(Append(inited, heldId)) /\ UNCHANGED released
    /\ UNCHANGED <<x2522Plus, reposted, rxNextIdx, heldId, returned, rxTsRaw, rxPollHits,
                   rxEvReconciled, nicState, evq>>

\* The polls of acquire(), commit() and rxFrameComplete(): events, but no push.
Poll ==
    /\ caller # "missed"
    /\ evq # << >>
    /\ HandleEvents
    /\ UNCHANGED <<rxState, caller, returned, rxTsRaw, rxPollHits, nicState>>

Caller == TryReceiveHit \/ TryReceiveMiss \/ PollMiss \/ Release

Next == Store \/ Drop \/ Event \/ Caller \/ Poll

Spec == Init /\ [][Next]_vars

\* The caller keeps calling tryReceive() and release().
FairSpec == Spec /\ WF_vars(Caller)

-----------------------------------------------------------------------------

\* Type invariant: pendingPush is the number of slots the next push can give.
TypeOK ==
    /\ buf \in [Slots -> Nat] /\ marker \subseteq Slots
    /\ {rxNextIdx, heldId} \subseteq Slots
    /\ pendingPush = Len(inited)
    /\ reposted \in Nat /\ released - reposted \in 0 .. NbRxBufs
    /\ caller \in {"idle", "missed", "holds"}

Waiting ==
    LET at(i) == (rxNextIdx + i - 1) % NbRxBufs
        n == Cardinality(marker \ IF caller = "holds" THEN {heldId} ELSE {})
    IN  [i \in 1 .. n |-> buf[at(i)]]

Abstract == INSTANCE RxRing WITH
    guaranteed <- IF x2522Plus THEN 0 ELSE NbRxBufs - FlushAt + 1,
    waiting <- Waiting,
    held <- IF caller = "holds" THEN buf[heldId] ELSE 0

\* Frames are returned in order, once each, and keep their bytes until release(): no slot
\* is written while its frame waits or is held, and none is read with an old marker.
ReceivesFaithfully == Abstract!RxSpec

\* hwRxTimestamp(), read after the reply is sent and even after release(), is the stamp of
\* the frame tryReceive() returned last.
StampOfFrame ==
    returned # 0 => (IF x2522Plus THEN buf[heldId] ELSE rxTsRaw) = returned

\* rxFrameComplete() only answers yes when the event of the last frame returned has come.
CompleteIsSound ==
    rxEvReconciled >= rxPollHits =>
        rxPollHits <= evented - FoldLeft(LAMBDA n, ev : n + ev.frames, 0, evq)

\* A NIC without slots gets some again, down to a ring of a single batch.
SlotsComeBack == posted = << >> ~> posted # << >>
=============================================================================
