--------------------------- MODULE SingleRecorder ---------------------------
(***************************************************************************)
(* The single-process one-way latency benchmark (SingleRecorder.hpp): a Tx *)
(* thread stamps and sends frames, an Rx thread receives them through the  *)
(* sequence gate and pushes the latencies, the recorder thread of          *)
(* HistThread drains them, and the coordinator joins the three.            *)
(*                                                                         *)
(* A frame is identified by its send index; it carries SeqOf(index).  The  *)
(* sample Rx pushes for a frame is represented by that frame's index, so   *)
(* the histories of the queue say which frames were recorded.              *)
(***************************************************************************)
EXTENDS HistThread, AntiReplay

CONSTANTS
  kWarmupDiscard,    \* accepted frames discarded at the start (500000)
  kGraceEmptyPolls,  \* empty polls after txDone before Rx gives up (2^20)
  MaxFrames,         \* bound: frames Tx sends before its duration runs out
  MaxDup,            \* bound: duplicated deliveries
  MaxStray           \* bound: runts and frames of other senders

ASSUME WarmupAssumption == kWarmupDiscard \in Nat \ {0}
ASSUME GraceAssumption == kGraceEmptyPolls \in Nat \ {0}
ASSUME BoundsAssumption ==
  MaxFrames \in Nat /\ MaxDup \in Nat /\ MaxStray \in Nat

VARIABLES
  txPc, sent, txDone,          \* Tx: control, frames committed, Shared::txDone
  wire,                        \* frames committed and not yet received
  dups, strays,                \* duplicated deliveries and stray frames so far
  rxPc, have, last,            \* Rx: control, AntiReplay::have and ::last
  graceEmpty, warmupSeen,      \* Rx: graceEmpty, m_warmupSeen
  recorded, lost, dropped,     \* Rx: the counters of RxThread::run
  pushFailures,                \* Shared::pushFailures
  mainPc,                      \* Bench::run: which thread it is joining
  lastIdx,                     \* history: send index of the last accepted frame
  baseIdx                      \* history: send index of the frame that ended the warmup

txVars == <<txPc, sent, txDone>>
linkVars == <<wire, dups, strays>>
gateVars == <<have, last, lastIdx>>
countVars == <<warmupSeen, recorded, lost, dropped, pushFailures, baseIdx>>
rxVars == <<rxPc, graceEmpty, gateVars, countVars>>
vars == <<hvars, txVars, linkVars, rxVars, mainPc>>

Init ==
  /\ HInit
  /\ txPc = "start" /\ sent = 0 /\ txDone = FALSE
  /\ wire = {} /\ dups = 0 /\ strays = 0
  /\ rxPc = "poll" /\ graceEmpty = 0
  /\ have = FALSE /\ last = 0 /\ lastIdx = 0
  /\ warmupSeen = 0 /\ recorded = 0 /\ lost = 0 /\ dropped = 0
  /\ pushFailures = 0 /\ baseIdx = 0
  /\ mainPc = "joinTx"

-----------------------------------------------------------------------------
(* TxThread::run *)

\* frame_size below the minimum: txDone is set and the thread returns.
TxAbort ==
  /\ txPc = "start"
  /\ txPc' = "done"
  /\ txDone' = TRUE
  /\ UNCHANGED <<hvars, sent, linkVars, rxVars, mainPc>>

TxStart ==
  /\ txPc = "start"
  /\ txPc' = "loop"
  /\ UNCHANGED <<hvars, sent, txDone, linkVars, rxVars, mainPc>>

\* The link delays and reorders, but a frame never stays in flight while half of
\* the sequence space goes by, and an outage is shorter than that too.  This is
\* what the gate relies on; nothing in the code enforces it.
WithinHalf(i) ==
  /\ \A f \in wire : i - f < Half
  /\ have => i - lastIdx < Half

\* acquire, stamp, commit.  (A null acquire only repeats the loop.)
TxCommit ==
  /\ txPc = "loop"
  /\ sent < MaxFrames
  /\ WithinHalf(sent)
  /\ wire' = wire \cup {sent}
  /\ sent' = sent + 1
  /\ UNCHANGED <<hvars, txPc, txDone, dups, strays, rxVars, mainPc>>

\* The duration has elapsed or a stop was requested: txDone.store(true).
TxFinish ==
  /\ txPc = "loop"
  /\ txPc' = "done"
  /\ txDone' = TRUE
  /\ UNCHANGED <<hvars, sent, linkVars, rxVars, mainPc>>

-----------------------------------------------------------------------------
(* The link *)

\* A frame is lost, in flight or because the receive ring was full.
Lose(f) ==
  /\ wire' = wire \ {f}
  /\ UNCHANGED <<hvars, txVars, dups, strays, rxVars, mainPc>>

-----------------------------------------------------------------------------
(* RxThread::run *)

\* tryReceive returned nothing (frames still in flight may arrive later).
RxPollEmpty ==
  /\ rxPc = "poll"
  /\ rxPc' = "check"
  /\ UNCHANGED <<hvars, txVars, linkVars, graceEmpty, gateVars, countVars, mainPc>>

\* After Tx is done, stop once the ring has stayed empty for the grace window.
RxCheckDone ==
  /\ rxPc = "check"
  /\ graceEmpty' = IF txDone THEN graceEmpty + 1 ELSE graceEmpty
  /\ rxPc' = IF graceEmpty' >= kGraceEmptyPolls THEN "sentinel" ELSE "poll"
  /\ UNCHANGED <<hvars, txVars, linkVars, gateVars, countVars, mainPc>>

\* A runt or a frame with another header: released, and the grace window restarts.
RxStray ==
  /\ rxPc = "poll"
  /\ strays < MaxStray
  /\ strays' = strays + 1
  /\ graceEmpty' = 0
  /\ UNCHANGED <<hvars, txVars, wire, dups, rxPc, gateVars, countVars, mainPc>>

\* RxThread::inWarmup on an accepted frame with index i, the gate having found `gap`
\* frames missing before it: the frame that completes the warmup resets the counters.
InWarmup(i, gap) ==
  /\ warmupSeen < kWarmupDiscard
  /\ warmupSeen' = warmupSeen + 1
  /\ IF warmupSeen' = kWarmupDiscard
     THEN /\ lost' = 0 /\ dropped' = 0 /\ pushFailures' = 0 /\ baseIdx' = i
     ELSE /\ lost' = lost + gap
          /\ UNCHANGED <<dropped, pushFailures, baseIdx>>
  /\ rxPc' = "poll"
  /\ UNCHANGED recorded

AfterWarmup(gap) ==
  /\ warmupSeen >= kWarmupDiscard
  /\ lost' = lost + gap
  /\ rxPc' = "push"
  /\ UNCHANGED <<warmupSeen, dropped, pushFailures, baseIdx, recorded>>

\* A frame of ours: read, released, and passed through the gate.
RxGate(i) ==
  LET seq == SeqOf(i) IN
  \/ /\ Accepts(have, last, seq)
     /\ have' = TRUE /\ last' = seq /\ lastIdx' = i
     /\ InWarmup(i, LostBefore(have, last, seq)) \/ AfterWarmup(LostBefore(have, last, seq))
  \/ /\ ~Accepts(have, last, seq)
     /\ dropped' = dropped + 1
     /\ rxPc' = "poll"
     /\ UNCHANGED <<gateVars, warmupSeen, recorded, lost, pushFailures, baseIdx>>

\* Frame f arrives; the link may deliver it again later.
RxReceive(f) ==
  /\ rxPc = "poll"
  /\ \/ wire' = wire \ {f} /\ UNCHANGED dups
     \/ dups < MaxDup /\ dups' = dups + 1 /\ UNCHANGED wire
  /\ graceEmpty' = 0
  /\ RxGate(f)
  /\ UNCHANGED <<hvars, txVars, strays, mainPc>>

\* Mutant of RxPush: a sample that did not fit is not counted as recorded.
RxPushUncounted ==
  /\ rxPc = "push"
  /\ \/ Push(lastIdx) /\ recorded' = recorded + 1 /\ UNCHANGED pushFailures
     \/ /\ QueueFull /\ pushFailures' = pushFailures + 1
        /\ UNCHANGED <<queue, pushed, recorded>>
  /\ rxPc' = "poll"
  /\ UNCHANGED <<stop, histVars, txVars, linkVars, graceEmpty, gateVars,
                 warmupSeen, lost, dropped, baseIdx, mainPc>>

\* try_push of the sample: a full queue costs the sample, but it is still counted.
RxPush ==
  /\ rxPc = "push"
  /\ \/ Push(lastIdx) /\ UNCHANGED pushFailures
     \/ QueueFull /\ pushFailures' = pushFailures + 1 /\ UNCHANGED <<queue, pushed>>
  /\ recorded' = recorded + 1
  /\ rxPc' = "poll"
  /\ UNCHANGED <<stop, histVars, txVars, linkVars, graceEmpty, gateVars,
                 warmupSeen, lost, dropped, baseIdx, mainPc>>

\* Mutant of RxSentinel: the end marker is tried once and given up if it does not fit.
RxSentinelOnce ==
  /\ rxPc = "sentinel"
  /\ Push(kEndSentinel) \/ (QueueFull /\ UNCHANGED <<queue, pushed>>)
  /\ rxPc' = "done"
  /\ UNCHANGED <<stop, histVars, txVars, linkVars, graceEmpty, gateVars, countVars, mainPc>>

\* Spin until the end marker fits, print the counters, return.
RxSentinel ==
  /\ rxPc = "sentinel"
  /\ Push(kEndSentinel)
  /\ rxPc' = "done"
  /\ UNCHANGED <<stop, histVars, txVars, linkVars, graceEmpty, gateVars, countVars, mainPc>>

-----------------------------------------------------------------------------
(* Bench::run joins Tx, then Rx, then Hist. *)

Join ==
  /\ \/ mainPc = "joinTx" /\ txPc = "done" /\ mainPc' = "joinRx"
     \/ mainPc = "joinRx" /\ rxPc = "done" /\ mainPc' = "joinHist"
     \/ mainPc = "joinHist" /\ HistReturned /\ mainPc' = "returned"
  /\ UNCHANGED <<hvars, txVars, linkVars, rxVars>>

\* Nothing is left to do: the process goes on to tear the ports down, or Rx spins for a
\* place in the queue that will not come.
Returned ==
  /\ mainPc = "returned" \/ (rxPc = "sentinel" /\ Stranded)
  /\ UNCHANGED vars

Rest == <<txVars, linkVars, rxVars, mainPc>>

Tx == TxAbort \/ TxStart \/ TxCommit \/ TxFinish
Rx == RxPollEmpty \/ RxCheckDone \/ RxStray \/ RxPush \/ RxSentinel
      \/ \E f \in wire : RxReceive(f)
Hist == HistNext /\ UNCHANGED Rest
Signal == RequestStop /\ UNCHANGED Rest
Link == \E f \in wire : Lose(f)

Next == Tx \/ Rx \/ Hist \/ Signal \/ Link \/ Join \/ Returned

\* Each thread runs on a core of its own, so each keeps taking steps.  Tx's loop ends
\* because its duration runs out.
Fairness ==
  /\ WF_vars(TxAbort \/ TxStart) /\ WF_vars(TxFinish)
  /\ WF_vars(Rx) /\ WF_vars(Hist) /\ WF_vars(Join)

Spec == Init /\ [][Next]_vars
FairSpec == Spec /\ Fairness

-----------------------------------------------------------------------------
(* Properties *)

Sample == Nat \cup {kEndSentinel}

\* Every variable of the three threads, the queue and the link has its type.
TypeOK ==
  /\ stop \in BOOLEAN /\ txDone \in BOOLEAN /\ have \in BOOLEAN
  /\ queue \in Seq(Sample) /\ pushed \in Seq(Sample) /\ popped \in Seq(Sample)
  /\ histPc \in {"init", "poll", "check", "ended", "stopped", "failed"}
  /\ txPc \in {"start", "loop", "done"}
  /\ rxPc \in {"poll", "check", "push", "sentinel", "done"}
  /\ mainPc \in {"joinTx", "joinRx", "joinHist", "returned"}
  /\ wire \in SUBSET Nat
  /\ last \in 0..SeqMod - 1
  /\ sent \in Nat /\ dups \in Nat /\ strays \in Nat
  /\ graceEmpty \in Nat /\ warmupSeen \in 0..kWarmupDiscard
  /\ recorded \in Nat /\ lost \in Nat /\ dropped \in Nat /\ pushFailures \in Nat
  /\ lastIdx \in Nat /\ baseIdx \in Nat
  /\ histRecorded \in Nat /\ histDropped \in Nat

\* The recorder left its loop because it popped the end marker: then it has taken
\* everything Rx ever pushed, the queue is empty, and Rx pushes nothing more.  This is
\* the "no lost tail" of the in-band end marker.
NoLostTail ==
  histPc = "ended" => queue = << >> /\ popped = pushed /\ rxPc = "done"

\* Frames are recorded at most once and in send order, whatever the link duplicates,
\* delays or reorders, across wrap-arounds of the sequence number.
RecordedInSendOrder ==
  \A i, j \in 1..Len(pushed) :
    i < j /\ pushed[j] # kEndSentinel => pushed[i] < pushed[j]

\* The counters Rx prints add up: every frame sent after the one that ended the warmup,
\* up to the last accepted one, was either recorded or counted as lost, exactly once.
LossAccounting ==
  warmupSeen = kWarmupDiscard =>
    lastIdx - baseIdx = recorded + lost + (IF rxPc = "push" THEN 1 ELSE 0)

\* `recorded` counts the samples in the queue's history and the failed pushes, so the
\* report's sample count plus push_fail equals Rx's count once everything is drained.
RecordedMatchesReport ==
  histPc = "ended" => histRecorded + histDropped + pushFailures = recorded

\* Every thread ends and Bench::run returns, when the run ends and when it is stopped, except
\* when the recorder has left a full queue behind, so that Rx never gets its end marker in.
Termination == <>(mainPc = "returned" \/ Stranded)

\* The same without the exception: Bench::run always gets past its three joins.
BenchReturns == <>(mainPc = "returned")

=============================================================================
