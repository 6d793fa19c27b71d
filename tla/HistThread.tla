----------------------------- MODULE HistThread -----------------------------
(***************************************************************************)
(* The latency recorder thread and the SPSC queue that feeds it            *)
(* (HistThread.hpp).  A producer thread pushes samples and, when its       *)
(* stream ends, the end marker; the recorder drains the queue into a       *)
(* histogram and reports.  Every benchmark mode that records latencies     *)
(* extends this module with its own producer.                              *)
(*                                                                         *)
(* A sample is an abstract value.  The queue is the linearised view of     *)
(* rigtorp::SPSCQueue: one producer, one consumer, each of try_push,       *)
(* front and pop takes effect at one point.                                *)
(***************************************************************************)
EXTENDS Integers, Sequences

CONSTANTS
  recQueueCapacity,  \* slots of the queue (TestConfig::recQueueCapacity)
  kEndSentinel,      \* the in-band end marker
  Undecodable,       \* the samples that Shared::decode rejects ({} when decode is null)
  HdrInitCanFail,    \* whether hdr_init may fail (its allocation is refused)
  StopCanHappen      \* whether a stop may be requested during the run

ASSUME CapacityAssumption == recQueueCapacity \in Nat \ {0}
ASSUME SentinelAssumption == kEndSentinel \notin Nat
ASSUME SwitchAssumption == HdrInitCanFail \in BOOLEAN /\ StopCanHappen \in BOOLEAN

VARIABLES
  stop,          \* the process-wide stop_source (RuntimeSetup) has been triggered
  queue,         \* Shared::toHist
  histPc,        \* where the recorder thread is
  histRecorded,  \* `recorded` of HistThread::run
  histDropped,   \* `dropped` of HistThread::run
  pushed,        \* history: everything the producer put in the queue, in order
  popped         \* history: everything the recorder took out of it, in order

histVars == <<histPc, histRecorded, histDropped, popped>>
hvars == <<stop, queue, pushed, histVars>>

HInit ==
  /\ stop = FALSE
  /\ queue = << >>
  /\ pushed = << >>
  /\ popped = << >>
  /\ histPc = "init"
  /\ histRecorded = 0
  /\ histDropped = 0

\* The SIGINT handler and the watchdog thread both call request_stop().
RequestStop ==
  /\ StopCanHappen
  /\ ~stop
  /\ stop' = TRUE
  /\ UNCHANGED <<queue, pushed, histVars>>

-----------------------------------------------------------------------------
(* The producer's side of the queue: a try_push that succeeds, and the     *)
(* condition under which it returns false.                                 *)

QueueFull == Len(queue) >= recQueueCapacity

Push(v) ==
  /\ ~QueueFull
  /\ queue' = Append(queue, v)
  /\ pushed' = Append(pushed, v)

-----------------------------------------------------------------------------
(* HistThread::run *)

\* hdr_init refused: the thread logs and returns without draining anything.
HdrInitFails ==
  /\ histPc = "init"
  /\ HdrInitCanFail
  /\ histPc' = "failed"
  /\ UNCHANGED <<stop, queue, pushed, popped, histRecorded, histDropped>>

HdrInit ==
  /\ histPc = "init"
  /\ histPc' = "poll"
  /\ UNCHANGED <<stop, queue, pushed, popped, histRecorded, histDropped>>

\* Mutant of HistFrontEmpty: an empty queue is taken for the end of the stream.
HistFrontEmptyEnds ==
  /\ histPc = "poll"
  /\ queue = << >>
  /\ histPc' = "ended"
  /\ UNCHANGED <<stop, queue, pushed, popped, histRecorded, histDropped>>

\* front() returned null; the stop flag is read in a step of its own.
HistFrontEmpty ==
  /\ histPc = "poll"
  /\ queue = << >>
  /\ histPc' = "check"
  /\ UNCHANGED <<stop, queue, pushed, popped, histRecorded, histDropped>>

HistCheckStop ==
  /\ histPc = "check"
  /\ histPc' = IF stop THEN "stopped" ELSE "poll"
  /\ UNCHANGED <<stop, queue, pushed, popped, histRecorded, histDropped>>

\* front() and pop(): the end marker ends the loop, an undecodable sample is
\* counted and skipped, any other one is recorded.
HistPop ==
  /\ histPc = "poll"
  /\ queue # << >>
  /\ queue' = Tail(queue)
  /\ popped' = Append(popped, Head(queue))
  /\ histPc' = IF Head(queue) = kEndSentinel THEN "ended" ELSE "poll"
  /\ histRecorded' = IF Head(queue) \in Undecodable \cup {kEndSentinel}
                     THEN histRecorded ELSE histRecorded + 1
  /\ histDropped' = IF Head(queue) \in Undecodable \ {kEndSentinel}
                    THEN histDropped + 1 ELSE histDropped
  /\ UNCHANGED <<stop, pushed>>

HistNext == HdrInitFails \/ HdrInit \/ HistFrontEmpty \/ HistCheckStop \/ HistPop

\* The thread function has returned; it has printed a report unless hdr_init failed.
HistReturned == histPc \in {"ended", "stopped", "failed"}

\* The recorder is gone and the queue is full: nobody will make room again.  Either hdr_init
\* failed, or the producer filled the queue after front() found it empty and before the
\* recorder read the stop flag.
Stranded == histPc \in {"stopped", "failed"} /\ QueueFull

=============================================================================
