------------------------------ MODULE RttClient ------------------------------
(***************************************************************************)
(* The round-trip benchmark's originator (Client.hpp): one frame in flight, *)
(* a spin for the echo that carries its sequence number, a timeout of one  *)
(* second, and the recorder thread of HistThread behind the queue.  The    *)
(* peer and the link are an environment that reflects, loses, duplicates,  *)
(* delays and reorders frames.                                             *)
(*                                                                         *)
(* A frame is identified by its send index and carries SeqOf(index); what  *)
(* arrives is an index with a destination address.  A sample is the pair   *)
(* of the arrival that was timed and the index of the frame whose send     *)
(* time was subtracted.                                                    *)
(***************************************************************************)
EXTENDS HistThread, AntiReplay, TxStamps

CONSTANTS
  SeesOwnTx,       \* a receive ring without stamps also sees our own frames (packet_mmap)
  MayLackStamp,    \* a completion or a received frame may carry no timestamp
  kWarmupDiscard,  \* round trips discarded at the start (500000)
  MaxSends,        \* bound: frames sent before the duration runs out
  MaxDup           \* bound: duplicated frames

ASSUME ClientAssumption ==
  /\ SeesOwnTx \in BOOLEAN /\ MayLackStamp \in BOOLEAN
  /\ kWarmupDiscard \in Nat /\ MaxSends \in Nat /\ MaxDup \in Nat

VARIABLES
  pc,                          \* the client's hot loop
  sent, recorded, timeouts,    \* the counters of run_client
  warmup, hwTxMissing, pushFailures,
  wire, inbound, dups,         \* indices on their way out, frames on their way in
  base                         \* history: frames sent when the warmup ended

linkVars == <<wire, inbound, dups>>
countVars == <<recorded, timeouts, warmup, hwTxMissing, pushFailures, base>>
vars == <<hvars, stampVars, pc, sent, countVars, linkVars>>

Echo(i) == [idx |-> i, dst |-> "client"]
OwnCopy(i) == [idx |-> i, dst |-> "server"]

Init ==
  /\ HInit /\ StampInit
  /\ pc = "start" /\ sent = 0
  /\ recorded = 0 /\ timeouts = 0 /\ warmup = 0 /\ hwTxMissing = 0 /\ pushFailures = 0
  /\ wire = {} /\ inbound = {} /\ dups = 0
  /\ base = 0

-----------------------------------------------------------------------------
(* run_client *)

\* frame_size below the minimum: return before the recorder thread exists.
Abort ==
  /\ pc = "start"
  /\ pc' = "aborted"
  /\ UNCHANGED <<hvars, stampVars, sent, countVars, linkVars>>

Start ==
  /\ pc = "start"
  /\ pc' = "top"
  /\ UNCHANGED <<hvars, stampVars, sent, countVars, linkVars>>

\* No frame or echo stays in flight while the whole sequence space goes by, and the NIC
\* completes sends before its ring is full (a null acquire only repeats the loop).
WithinSequenceSpace ==
  /\ \A i \in wire : sent - i < SeqMod
  /\ \A f \in inbound : sent - f.idx < SeqMod
  /\ hwTs => sent - txTail < NbTxBufs

Send ==
  /\ pc = "top"
  /\ ~stop
  /\ sent < MaxSends
  /\ WithinSequenceSpace
  /\ wire' = wire \cup {sent}
  /\ inbound' = inbound \cup IF SeesOwnTx /\ ~hwTs THEN {OwnCopy(sent)} ELSE {}
  /\ sent' = sent + 1
  /\ pc' = "spin"
  /\ UNCHANGED <<hvars, stampVars, countVars, dups>>

\* The duration has elapsed or a stop was requested.
Expire ==
  /\ pc = "top"
  /\ pc' = "sentinel"
  /\ UNCHANGED <<hvars, stampVars, sent, countVars, linkVars>>

\* try_push of a sample, counted in `recorded` whether it fitted or not.
PushSample(s) ==
  /\ \/ Push(s) /\ UNCHANGED pushFailures
     \/ QueueFull /\ pushFailures' = pushFailures + 1 /\ UNCHANGED <<queue, pushed>>
  /\ recorded' = recorded + 1
  /\ UNCHANGED <<warmup, hwTxMissing, base>>

\* Mutant of Warmup: the discarded round trips are not capped.
WarmupUncapped ==
  /\ warmup' = warmup + 1
  /\ base' = IF warmup' = kWarmupDiscard THEN sent ELSE base
  /\ UNCHANGED <<queue, pushed, recorded, hwTxMissing, pushFailures>>

Warmup ==
  /\ warmup < kWarmupDiscard
  /\ warmup' = warmup + 1
  /\ base' = IF warmup' = kWarmupDiscard THEN sent ELSE base
  /\ UNCHANGED <<queue, pushed, recorded, hwTxMissing, pushFailures>>

\* The raw RX stamp of frame f: a transport may report that it has none.
RxStamps(f) == {f} \cup IF MayLackStamp THEN {NoStamp} ELSE {}

\* (rx << 32) | tx: two all-ones halves make the 64-bit end marker.
Packed(rx, tx) == IF rx = NoStamp /\ tx = NoStamp THEN kEndSentinel ELSE <<rx, tx>>

\* The echo of the current frame in hardware-timestamp mode: fetch the frame's TX stamp.
MatchHw(f) ==
  LET cur == sent - 1 IN
  /\ hwTs
  /\ txTsCursor' = CursorAfterPollFor(cur)
  /\ UNCHANGED <<hwTs, txStamp, txTail>>
  /\ \/ Warmup
     \/ /\ warmup >= kWarmupDiscard
        /\ \E tx \in PolledFor(cur), rx \in RxStamps(f) : PushSample(Packed(rx, tx.minor))
     \/ /\ warmup >= kWarmupDiscard
        /\ PolledFor(cur) = {}
        /\ hwTxMissing' = hwTxMissing + 1
        /\ UNCHANGED <<queue, pushed, recorded, warmup, pushFailures, base>>

MatchSw(f) ==
  /\ ~hwTs
  /\ UNCHANGED stampVars
  /\ \/ Warmup
     \/ warmup >= kWarmupDiscard /\ PushSample(<<f, sent - 1>>)

\* The received frame is addressed to us and carries the sequence number just sent.
Ours(f) == f.dst = "client" /\ SeqOf(f.idx) = SeqOf(sent - 1)

\* A frame arrives; the link may deliver it again later.
Arrives(f) ==
  /\ pc = "spin"
  /\ \/ inbound' = inbound \ {f} /\ UNCHANGED dups
     \/ dups < MaxDup /\ dups' = dups + 1 /\ UNCHANGED inbound
  /\ UNCHANGED wire

Match(f) ==
  /\ Arrives(f)
  /\ Ours(f)
  /\ MatchHw(f) \/ MatchSw(f)
  /\ pc' = "top"
  /\ UNCHANGED <<stop, histVars, sent, timeouts>>

\* A stale echo or a copy of our own frame is released and the spin goes on.
Stale(f) ==
  /\ Arrives(f)
  /\ ~Ours(f)
  /\ UNCHANGED <<hvars, stampVars, pc, sent, countVars>>

\* Mutant of Timeout: a timeout during the warmup is counted too.
TimeoutInWarmup ==
  /\ pc = "spin"
  /\ pc' = "top"
  /\ timeouts' = timeouts + 1
  /\ UNCHANGED <<hvars, stampVars, sent, recorded, warmup, hwTxMissing, pushFailures, base,
                 linkVars>>

\* One second without the echo, or a stop request.
Timeout ==
  /\ pc = "spin"
  /\ pc' = "top"
  /\ timeouts' = IF warmup >= kWarmupDiscard THEN timeouts + 1 ELSE timeouts
  /\ UNCHANGED <<hvars, stampVars, sent, recorded, warmup, hwTxMissing, pushFailures, base,
                 linkVars>>

\* Mutant of Sentinel: the end marker is forgotten.
SentinelForgotten ==
  /\ pc = "sentinel"
  /\ pc' = "join"
  /\ UNCHANGED <<hvars, stampVars, sent, countVars, linkVars>>

\* Spin until the end marker fits.
Sentinel ==
  /\ pc = "sentinel"
  /\ Push(kEndSentinel)
  /\ pc' = "join"
  /\ UNCHANGED <<stop, histVars, stampVars, sent, countVars, linkVars>>

Join ==
  /\ pc = "join"
  /\ HistReturned
  /\ pc' = "returned"
  /\ UNCHANGED <<hvars, stampVars, sent, countVars, linkVars>>

\* The client has ended, or spins for a place in the queue that will not come.
Done ==
  /\ pc \in {"aborted", "returned"} \/ (pc = "sentinel" /\ Stranded)
  /\ UNCHANGED vars

-----------------------------------------------------------------------------
(* The link, the peer and the NIC *)

Reflect(i) ==
  /\ wire' = wire \ {i}
  /\ inbound' = inbound \cup {Echo(i)}
  /\ UNCHANGED <<hvars, stampVars, pc, sent, countVars, dups>>

Lose(i) ==
  /\ \/ wire' = wire \ {i} /\ UNCHANGED inbound
     \/ inbound' = inbound \ {Echo(i), OwnCopy(i)} /\ UNCHANGED wire
  /\ UNCHANGED <<hvars, stampVars, pc, sent, countVars, dups>>

CompleteSend ==
  /\ hwTs
  /\ txTail < sent
  /\ \E m \in {txTail} \cup IF MayLackStamp THEN {NoStamp} ELSE {} : Complete(m)
  /\ UNCHANGED <<hvars, pc, sent, countVars, linkVars>>

-----------------------------------------------------------------------------
Rest == <<stampVars, pc, sent, countVars, linkVars>>

Client == Abort \/ Start \/ Send \/ Expire \/ Timeout \/ Sentinel \/ Join
          \/ \E f \in inbound : Match(f) \/ Stale(f)
Hist == pc \notin {"start", "aborted"} /\ HistNext /\ UNCHANGED Rest
Signal == RequestStop /\ UNCHANGED Rest
Link == \/ \E i \in wire : Reflect(i)
        \/ \E i \in 0..sent - 1 : Lose(i)
        \/ CompleteSend

Next == Client \/ Hist \/ Signal \/ Link \/ Done

\* The two threads keep running; the duration runs out, and so does every timeout.
Fairness ==
  /\ WF_vars(Abort \/ Start) /\ SF_vars(Expire) /\ WF_vars(Timeout)
  /\ WF_vars(Sentinel) /\ WF_vars(Join) /\ WF_vars(Hist)

Spec == Init /\ [][Next]_vars
FairSpec == Spec /\ Fairness

-----------------------------------------------------------------------------
(* Properties *)

Index == 0..MaxSends - 1
Frame == [idx : Index, dst : {"client", "server"}]
Sample == ((Frame \cup {NoStamp}) \X (Index \cup {NoStamp})) \cup {kEndSentinel}

\* Every variable of the client, its recorder and the link has its type.
TypeOK ==
  /\ {stop, hwTs} \subseteq BOOLEAN
  /\ queue \in Seq(Sample) /\ pushed \in Seq(Sample) /\ popped \in Seq(Sample)
  /\ histPc \in {"init", "poll", "check", "ended", "stopped", "failed"}
  /\ histRecorded \in Nat /\ histDropped \in Nat
  /\ txStamp \in [0..NbTxBufs - 1 -> [seq : Nat, minor : Index \cup {NoStamp}]]
  /\ txTail \in 0..sent /\ txTsCursor \in 0..txTail
  /\ pc \in {"start", "top", "spin", "sentinel", "join", "returned", "aborted"}
  /\ sent \in 0..MaxSends /\ recorded \in Nat /\ timeouts \in Nat
  /\ warmup \in 0..kWarmupDiscard /\ hwTxMissing \in Nat /\ pushFailures \in Nat
  /\ wire \subseteq Index /\ inbound \subseteq Frame /\ dups \in Nat /\ base \in Nat

\* Every recorded round trip subtracts the send time of the very frame whose echo was
\* timed, and no frame is recorded twice: a late, duplicated or reordered echo, or the
\* TX stamp of another frame, never enters a sample.
RoundTripPaired ==
  /\ \A i \in 1..Len(pushed) :
       pushed[i] # kEndSentinel /\ pushed[i] \notin Undecodable =>
         pushed[i][1] = Echo(pushed[i][2])
  /\ \A i, j \in 1..Len(pushed) :
       i < j /\ pushed[j] # kEndSentinel /\ NoStamp \notin {pushed[i][1], pushed[j][1]}
         => pushed[i][1].idx < pushed[j][1].idx

\* After the warmup every frame sent is recorded, timed out, or lacked its TX stamp, and
\* is counted under exactly one of the three.
RoundTripAccounting ==
  warmup = kWarmupDiscard =>
    sent - base = recorded + timeouts + hwTxMissing + (IF pc = "spin" THEN 1 ELSE 0)

\* The recorder ended on the end marker: it has taken every sample of the run.
NoLostTail ==
  histPc = "ended" => queue = << >> /\ popped = pushed /\ pc \in {"join", "returned"}

\* The client returns, when the run ends and when it is stopped, except when the recorder
\* has left a full queue behind, so that the end marker never fits.
Termination == <>(pc \in {"returned", "aborted"} \/ Stranded)

=============================================================================
