------------------------------ MODULE Process ------------------------------
(***************************************************************************)
(* The abtrda3_test process around the benchmark loops: main(), the        *)
(* RuntimeSetup it constructs (SIGINT handler, detached watchdog thread),  *)
(* the dispatch to a transport, its one or two ports, and the loop of each *)
(* mode.  The loops of --server, --client and --single are modules of      *)
(* their own (RttServer, RttClient, SingleRecorder); here they are what    *)
(* ends them, with the end marker and the join of their recorder.          *)
(* run_txgen and run_rxsink are modelled here.  Any step may be late for   *)
(* the clock.  init() and the calls a loop makes to its transport return,  *)
(* or end the process; whether they return is the transports' business.    *)
(***************************************************************************)
EXTENDS Naturals

CONSTANTS
  RunModes,       \* the modes this instance explores
  Transports,     \* the transports; "dpdk" stands for verbs and intel_i210 too
  WatchdogSecs,   \* the values of [general] watchdog_sec it explores
  DurationSec,    \* duration_sec of [client] and [single_recorder]
  Count,          \* frames --txgen is asked for
  BatchPolls      \* polls of run_rxsink between two looks at the stop flag

ProcessAssumption ==
  /\ RunModes \subseteq {"Server", "Client", "TxGen", "RxSink", "SingleRecorder"}
  /\ Transports \subseteq {"packet_mmap", "af_xdp", "dpdk", "ef_vi"}
  /\ WatchdogSecs \subseteq Nat /\ {DurationSec, Count} \subseteq Nat
  /\ BatchPolls \in Nat \ {0}

VARIABLES
  mode,           \* the run mode of the command line
  transport,      \* the transport of the config
  shortFrame,     \* its frame_size is below kFrameMinBytes
  watchdogSec,    \* its watchdog_sec
  phase,          \* where main() is
  exit,           \* its return value, "none" before
  handler,        \* SIGINT goes to request_stop()
  stop,           \* RuntimeSetup::s_stop
  interrupted,    \* history: a SIGINT asked for the stop
  watchdog,       \* the detached thread: "none", "asleep" or "done"
  left,           \* the seconds it still sleeps
  up,             \* the transport objects that are up
  looped,         \* history: the loop of the mode was entered
  elapsed,        \* seconds since then, up to DurationSec
  hist, full,     \* the recorder: "none", "draining" or "gone"; its queue is full
  i, sent, failed,              \* run_txgen
  polls                         \* run_rxsink

config == << mode, transport, shortFrame, watchdogSec >>
signals == << handler, stop, interrupted, watchdog, left >>
recorder == << hist, full >>
loopVars == << i, sent, failed, polls >>
vars == << config, phase, exit, signals, up, looped, elapsed, recorder, loopVars >>

Phases == {"main", "handler", "watchdog", "dispatch", "transport", "ports", "loop", "join",
           "teardown", "exited", "killed", "aborted"}
Running == phase \notin {"exited", "killed", "aborted"}

\* A pair of objects for --single, and for packet_mmap where it sends and receives.
Objects ==
  IF mode = "SingleRecorder" \/ (transport = "packet_mmap" /\ mode \in {"Server", "Client"})
  THEN 2 ELSE 1

\* The loops with a HistThread; the reflector has one with hardware timestamps.
Records == mode \in {"Client", "SingleRecorder"} \/ (mode = "Server" /\ transport = "ef_vi")

TypeOK ==
  /\ mode \in RunModes /\ transport \in Transports /\ watchdogSec \in WatchdogSecs
  /\ phase \in Phases /\ exit \in {"none", "zero", "one"}
  /\ left \in 0 .. watchdogSec /\ elapsed \in 0 .. DurationSec
  /\ {shortFrame, handler, stop, interrupted, looped, full} \subseteq BOOLEAN
  /\ watchdog \in {"none", "asleep", "done"} /\ up \in 0 .. Objects
  /\ hist \in {"none", "draining", "gone"} /\ (hist # "none" => Records)
  /\ i \in 0 .. Count /\ sent \in 0 .. Count /\ failed \in 0 .. Count
  /\ polls \in 0 .. BatchPolls

\* Only --client and --single look at frame_size.
Init ==
  /\ mode \in RunModes /\ transport \in Transports /\ watchdogSec \in WatchdogSecs
  /\ shortFrame \in BOOLEAN /\ (shortFrame => mode \in {"Client", "SingleRecorder"})
  /\ phase = "main" /\ exit = "none"
  /\ left = 0 /\ elapsed = 0
  /\ handler = FALSE /\ stop = FALSE /\ interrupted = FALSE
  /\ watchdog = "none" /\ up = 0 /\ looped = FALSE
  /\ hist = "none" /\ full = FALSE
  /\ i = 0 /\ sent = 0 /\ failed = 0
  /\ polls = 0

Return(code) == phase' = "exited" /\ exit' = code

(***************************************************************************)
(* main() up to the loop.                                                  *)
(***************************************************************************)
\* No mode on the command line or a config that does not load: return 1.
\* NicTuner, when configured, tunes the ports here.
Main ==
  /\ phase = "main"
  /\ \/ Return("one")
     \/ phase' = "handler" /\ UNCHANGED exit
  /\ UNCHANGED << config, signals, up, looped, elapsed, recorder, loopVars >>

\* Mutant of InstallHandler: SIGINT keeps its default.
InstallNothing ==
  /\ phase = "handler" /\ phase' = "watchdog"
  /\ UNCHANGED << config, exit, signals, up, looped, elapsed, recorder, loopVars >>

\* RuntimeSetup step 2.
InstallHandler ==
  /\ phase = "handler" /\ phase' = "watchdog"
  /\ handler' = TRUE
  /\ UNCHANGED << config, exit, stop, interrupted, watchdog, left, up, looped, elapsed,
                  recorder, loopVars >>

\* Mutant of WatchdogSecOf: --single gets the configured timeout too.
WatchdogSecOfAnyMode == watchdogSec

\* main() passes 0 for --single: its loop ends itself.
WatchdogSecOf == IF mode = "SingleRecorder" THEN 0 ELSE watchdogSec

\* RuntimeSetup steps 3 to 5: the thread sleeps for the whole timeout.
SpawnWatchdog ==
  /\ phase = "watchdog" /\ phase' = "dispatch"
  /\ watchdog' = IF WatchdogSecOf > 0 THEN "asleep" ELSE "none"
  /\ left' = WatchdogSecOf
  /\ UNCHANGED << config, exit, handler, stop, interrupted, up, looped, elapsed, recorder,
                  loopVars >>

\* runSingleRecorder(): both roles on one transport, three distinct cores, or return 1.
Dispatch ==
  /\ phase = "dispatch"
  /\ \/ phase' = "transport" /\ UNCHANGED exit
     \/ mode = "SingleRecorder" /\ Return("one")
  /\ UNCHANGED << config, signals, up, looped, elapsed, recorder, loopVars >>

\* withTransport() and preflight(): return 1 for a name that is unknown or not compiled
\* in, for a transport that --single cannot use, and without hugepages.
WithTransport ==
  /\ phase = "transport"
  /\ \/ phase' = "ports" /\ UNCHANGED exit
     \/ Return("one")
  /\ UNCHANGED << config, signals, up, looped, elapsed, recorder, loopVars >>

\* Mutant of BringUpFails: the failure is printed and forgotten.
BringUpFailsQuietly ==
  /\ phase = "ports" /\ up < Objects /\ transport # "packet_mmap"
  /\ Return("zero") /\ up' = 0
  /\ UNCHANGED << config, signals, looped, elapsed, recorder, loopVars >>

\* init() returns false: return 1 through the destructors, which release this object and
\* the one before.  packet_mmap has no init() to speak of.
BringUpFails ==
  /\ phase = "ports" /\ up < Objects /\ transport # "packet_mmap"
  /\ Return("one") /\ up' = 0
  /\ UNCHANGED << config, signals, looped, elapsed, recorder, loopVars >>

\* The constructors of packet_mmap throw out of main(), and AF_XDP's init() aborts: no
\* destructor runs, whatever is up.
BringUpDies ==
  /\ phase = "ports" /\ up < Objects /\ transport \in {"packet_mmap", "af_xdp"}
  /\ phase' = "aborted"
  /\ UNCHANGED << config, exit, signals, up, looped, elapsed, recorder, loopVars >>

BringUp ==
  /\ phase = "ports" /\ up < Objects /\ up' = up + 1
  /\ UNCHANGED << config, phase, exit, signals, looped, elapsed, recorder, loopVars >>

\* Every object is up.  --single over DPDK now waits for both links: return 1 without one.
NoLink ==
  /\ phase = "ports" /\ up = Objects /\ mode = "SingleRecorder" /\ transport = "dpdk"
  /\ Return("one") /\ up' = 0
  /\ UNCHANGED << config, signals, looped, elapsed, recorder, loopVars >>

\* dispatchMode() or Bench::run().  The recorder, if there is one, is started first; it
\* has gone at once if hdr_init() fails.  run_client refuses a short frame before that.
EnterLoop ==
  /\ phase = "ports" /\ up = Objects
  /\ looped' = TRUE
  /\ \/ mode = "Client" /\ shortFrame /\ phase' = "teardown" /\ UNCHANGED hist
     \/ ~(mode = "Client" /\ shortFrame) /\ phase' = "loop"
        /\ hist' \in IF Records THEN {"draining", "gone"} ELSE {"none"}
  /\ UNCHANGED << config, exit, signals, up, elapsed, full, loopVars >>

(***************************************************************************)
(* The loops.                                                              *)
(***************************************************************************)
AllButLoop == << config, exit, signals, up, looped, elapsed, recorder >>

EndLoop ==
  /\ phase' = IF Records THEN "join" ELSE "teardown"
  /\ UNCHANGED << AllButLoop, loopVars >>

\* Mutant of TxGenStep: a failed acquire() is not counted.
TxGenLosesFailures ==
  /\ phase = "loop" /\ mode = "TxGen" /\ i < Count /\ ~stop
  /\ i' = i + 1
  /\ \/ sent' = sent + 1
     \/ UNCHANGED sent
  /\ UNCHANGED << AllButLoop, phase, failed, polls >>

\* Mutant of TxGenStep: i <= count.
TxGenOneMore ==
  /\ phase = "loop" /\ mode = "TxGen" /\ i <= Count /\ ~stop
  /\ i' = i + 1
  /\ \/ sent' = sent + 1 /\ UNCHANGED failed
     \/ failed' = failed + 1 /\ UNCHANGED sent
  /\ UNCHANGED << AllButLoop, phase, polls >>

\* One round of run_txgen: acquire, and commit what it returned.
TxGenStep ==
  /\ phase = "loop" /\ mode = "TxGen" /\ i < Count /\ ~stop
  /\ i' = i + 1
  /\ \/ sent' = sent + 1 /\ UNCHANGED failed
     \/ failed' = failed + 1 /\ UNCHANGED sent
  /\ UNCHANGED << AllButLoop, phase, polls >>

\* Out of the loop; 10 ms for the NIC to drain.
TxGenEnd ==
  /\ phase = "loop" /\ mode = "TxGen" /\ (i = Count \/ stop)
  /\ EndLoop

\* One poll of run_rxsink: nothing, or a frame that is counted and released.
RxSinkPoll ==
  /\ phase = "loop" /\ mode = "RxSink" /\ polls < BatchPolls
  /\ polls' = polls + 1
  /\ UNCHANGED << AllButLoop, phase, i, sent, failed >>

\* Mutant of RxSinkCheck: the stop flag is never read.
RxSinkNeverLooks ==
  /\ phase = "loop" /\ mode = "RxSink" /\ polls = BatchPolls
  /\ polls' = 0
  /\ UNCHANGED << AllButLoop, phase, i, sent, failed >>

\* The stop flag is looked at once per batch.
RxSinkCheck ==
  /\ phase = "loop" /\ mode = "RxSink" /\ polls = BatchPolls
  /\ IF stop THEN EndLoop
     ELSE /\ polls' = 0
          /\ UNCHANGED << AllButLoop, phase, i, sent, failed >>

\* run_server runs until it is told to stop.
ServerEnd == phase = "loop" /\ mode = "Server" /\ stop /\ EndLoop

\* run_client: the duration, or the stop flag.
ClientEnd ==
  /\ phase = "loop" /\ mode = "Client" /\ (stop \/ elapsed = DurationSec)
  /\ EndLoop

\* The Tx thread of --single: the duration, the stop flag, or a frame_size it refuses.
SingleEnd ==
  /\ phase = "loop" /\ mode = "SingleRecorder"
  /\ stop \/ elapsed = DurationSec \/ shortFrame
  /\ EndLoop

\* HistThread::run leaves when it finds the queue empty after a stop request.
HistLeaves ==
  /\ phase \in {"loop", "join"} /\ hist = "draining" /\ stop
  /\ hist' = "gone"
  /\ UNCHANGED << config, phase, exit, signals, up, looped, elapsed, full, loopVars >>

\* Samples nobody takes any more fill the queue; the Rx thread of --single still pushes
\* them after the Tx thread has ended, but there are none if that refused frame_size.
QueueFills ==
  /\ phase = "loop" \/ (phase = "join" /\ mode = "SingleRecorder")
  /\ hist = "gone" /\ ~full /\ ~shortFrame
  /\ full' = TRUE
  /\ UNCHANGED << config, phase, exit, signals, up, looped, elapsed, hist, loopVars >>

\* A full queue that nobody drains.
Stranded == phase = "join" /\ hist = "gone" /\ full

\* Mutant of Join: the recorder is joined before it gets its end marker.
JoinBeforeMarker ==
  /\ phase = "join" /\ hist = "gone" /\ ~full /\ phase' = "teardown"
  /\ UNCHANGED << AllButLoop, loopVars >>

\* The end marker, retried until it fits, and the joins.
Join ==
  /\ phase = "join" /\ ~Stranded /\ phase' = "teardown"
  /\ UNCHANGED << AllButLoop, loopVars >>

\* AF_XDP aborts: on an error of sendto(), a FILL ring out of step, a template too long.
LoopDies ==
  /\ phase = "loop" \/ (phase = "join" /\ mode = "SingleRecorder")
  /\ transport = "af_xdp" /\ phase' = "aborted"
  /\ UNCHANGED << AllButLoop, loopVars >>

\* The destructors of the transport, then return 0 from main().
Teardown ==
  /\ phase = "teardown" /\ up' = 0 /\ Return("zero")
  /\ UNCHANGED << config, signals, looped, elapsed, recorder, loopVars >>

(***************************************************************************)
(* The rest of the world.                                                  *)
(***************************************************************************)
WatchdogFires ==
  /\ Running /\ watchdog = "asleep" /\ left = 0
  /\ watchdog' = "done" /\ stop' = TRUE
  /\ UNCHANGED << config, phase, exit, handler, interrupted, left, up, looped, elapsed,
                  recorder, loopVars >>

\* SIGINT: request_stop() once the handler is there, the default action before.
Sigint ==
  /\ Running
  /\ IF handler THEN stop' = TRUE /\ interrupted' = TRUE /\ UNCHANGED phase
     ELSE phase' = "killed" /\ UNCHANGED << stop, interrupted >>
  /\ UNCHANGED << config, exit, handler, watchdog, left, up, looped, elapsed, recorder,
                  loopVars >>

Tick ==
  /\ Running
  /\ left' = IF left > 0 THEN left - 1 ELSE 0
  /\ elapsed' = IF phase = "loop" /\ elapsed < DurationSec THEN elapsed + 1 ELSE elapsed
  /\ << left, elapsed >>' # << left, elapsed >>
  /\ UNCHANGED << config, phase, exit, handler, stop, interrupted, watchdog, up, looped,
                  recorder, loopVars >>

Finished == ~Running /\ UNCHANGED vars

MainThread ==
  \/ Main \/ InstallHandler \/ SpawnWatchdog \/ Dispatch \/ WithTransport
  \/ BringUp \/ BringUpFails \/ NoLink \/ EnterLoop
  \/ TxGenStep \/ TxGenEnd \/ RxSinkPoll \/ RxSinkCheck
  \/ ServerEnd \/ ClientEnd \/ SingleEnd \/ Join
  \/ Teardown

Next ==
  \/ MainThread \/ BringUpDies \/ LoopDies \/ HistLeaves \/ QueueFills
  \/ WatchdogFires \/ Sigint \/ Tick \/ Finished

\* Time passes, a thread that sleeps wakes up, and main() is scheduled.
Fairness == WF_vars(MainThread) /\ WF_vars(WatchdogFires) /\ WF_vars(Tick)

Spec == Init /\ [][Next]_vars /\ Fairness

-----------------------------------------------------------------------------
(***************************************************************************)
(* No SIGINT takes the process down with a transport up: RuntimeSetup is   *)
(* constructed before the dispatch, so from the first object on a signal   *)
(* only asks for a stop.  When main() returns, the destructors have        *)
(* released every object, whichever of a pair failed; and it returns 0     *)
(* exactly when all the objects of the mode came up and its loop was       *)
(* entered, a loop that refuses frame_size included.  (An abort in AF_XDP  *)
(* or an exception of packet_mmap may leave with objects up; then there is *)
(* no return value.)                                                       *)
(***************************************************************************)
ExitReportsRun ==
  [][/\ phase' = "killed" => up = 0
     /\ exit' # exit => up' = 0 /\ ((exit' = "zero") <=> looped)]_vars

(***************************************************************************)
(* A run that returned 0 is a whole one, if its frame_size was accepted:   *)
(* --single, unless interrupted, has lasted its duration_sec, the watchdog *)
(* notwithstanding; --client has unless it was interrupted or the watchdog *)
(* cut it short; and unless stopped, "Sent" and "Failed" in the report of  *)
(* --txgen add up to --count.                                              *)
(***************************************************************************)
RunsInFull ==
  exit = "zero" /\ ~shortFrame =>
    /\ mode = "SingleRecorder" /\ ~interrupted => elapsed = DurationSec
    /\ mode = "Client" /\ ~stop => elapsed = DurationSec
    /\ mode = "TxGen" /\ ~stop => sent + failed = Count

(***************************************************************************)
(* Every run ends by its count, its duration, or the watchdog; without a   *)
(* watchdog, --server and --rxsink run until they are stopped, and a run   *)
(* whose recorder has left a full queue behind waits for it for ever.      *)
(***************************************************************************)
RunEnds ==
  <>(\/ ~Running \/ Stranded
     \/ watchdogSec = 0 /\ mode \in {"Server", "RxSink"})

(***************************************************************************)
(* Whoever asks for a stop, and whenever, the process ends, except when    *)
(* the recorder has left a full queue behind: then neither SIGINT nor the  *)
(* watchdog gets main() out of the push of the end marker.                 *)
(***************************************************************************)
StopLeadsToExit == stop ~> (~Running \/ Stranded)

=============================================================================
