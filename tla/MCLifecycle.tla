---------------------------- MODULE MCLifecycle -----------------------------
(***************************************************************************)
(* What surrounds the data path, one subject at a time: what a process     *)
(* owns of its devices from init() to the destructors (Lifecycle for       *)
(* Verbs, ef_vi, I210 and packet_mmap, DpdkBringUp, XdpPort), the process  *)
(* itself (Process), and what successive runs do to the host and the NIC   *)
(* (HostTuning, PortTuning, I210BringUp).  XdpPort is looked at twice: one *)
(* port over several runs, and two ports whose objects are moved.  What is *)
(* not the subject stays as it begins.                                     *)
(***************************************************************************)
EXTENDS Lifecycle

CONSTANTS Regimes,      \* the NAPI regimes of successive runs
          QueueIds,     \* the XDP queues they bind
          XdpRuns, TuningRuns, HostRuns, I210Runs,   \* bounds: runs on a port, on a host
          WatchdogSecs, DurationSec, Count, BatchPolls,
          Queues, Backed, NumCores

VARIABLES subject,
          \* DPDK
          pair, dpdkMode, step, prepared, allowed, vdevs, probed, ealInited, pools,
          started, stops, blindWait, result,
          \* AF_XDP
          attached, knob, napi, channels, nic, xdpLive, warned, refused, pc, runs,
          \* the process
          runMode, transport, shortFrame, watchdogSec, phase, exit, handler, stop, interrupted,
          watchdog, left, up, looped, elapsed, hist, full, txgenI, sent, failed, polls,
          \* PortTuning
          silicon, systematic, stack, rx, tunes, faulty, tuneAt, found, driver, bdf, knobs,
          inForce, rq, noItr, coalescing, quiet, eee, eeeOff, tuneRuns,
          \* HostTuning
          tuners, tunerNb, tunerPc, nicIrqs, aff, irqbalance, kthreads, workqueues, failedMoves,
          isolated, renumbered, hostRuns,
          \* I210BringUp
          i210Mode, i210At, rxen, txen, rxq, txq, rxBase, txBase, tail, adverse, phyEee,
          pending, late, mdicFailed, verdict, killed, i210Runs

Dpdk == INSTANCE DpdkBringUp WITH mode <- dpdkMode

Port == INSTANCE XdpPort WITH
    Ports <- {"eth1"}, Objs <- {"a"}, Refusing <- {"eth1"}, MaxRuns <- XdpRuns, live <- xdpLive

Pair == INSTANCE XdpPort WITH
    Ports <- {"eth1", "eth2"}, Objs <- {"a", "b"}, Regimes <- {"off"}, QueueIds <- {0},
    Refusing <- {"eth1"}, MaxRuns <- 1, live <- xdpLive

Proc == INSTANCE Process WITH
    RunModes <- {"Server", "Client", "TxGen", "RxSink", "SingleRecorder"},
    Transports <- {"packet_mmap", "af_xdp", "dpdk", "ef_vi"},
    mode <- runMode, i <- txgenI

Tuning == INSTANCE PortTuning WITH
    Stacks <- {"xdp", "pmd", "vfio", "bifurcated"}, FaultyRuns <- {FALSE, TRUE},
    MaxRuns <- TuningRuns, at <- tuneAt, runs <- tuneRuns

\* Interrupt 2 is eth1's; the name of eth10, whose interrupt 3 is, contains eth1.
Host == INSTANCE HostTuning WITH
    Mentions <- [q \in 0 .. 3 |-> { p \in {"eth1", "eth10"} : q = 3 \/ (q = 2 /\ p = "eth1") }],
    Managed <- {}, TxPort <- "eth1", RxPort <- "eth10", Balanced <- {1},
    MaxRuns <- HostRuns, k <- tunerNb, pc <- tunerPc, runs <- hostRuns

I210 == INSTANCE I210BringUp WITH
    MaxRuns <- I210Runs, mode <- i210Mode, at <- i210At, runs <- i210Runs

ASSUME /\ Port!RegimesAssumption /\ Proc!ProcessAssumption
       /\ Tuning!QueuesAssumption /\ Host!HostAssumption

dpdkVars == <<pair, dpdkMode, step, prepared, allowed, vdevs, probed, ealInited, pools,
              started, stops, blindWait, result>>

xdpVars == <<attached, knob, napi, channels, nic, xdpLive, warned, refused, pc, runs>>

processVars == <<runMode, transport, shortFrame, watchdogSec, phase, exit, handler, stop,
                 interrupted, watchdog, left, up, looped, elapsed, hist, full, txgenI, sent,
                 failed, polls>>

tuningVars == <<silicon, systematic, stack, rx, tunes, faulty, tuneAt, found, driver, bdf, knobs,
                inForce, rq, noItr, coalescing, quiet, eee, eeeOff, tuneRuns>>

hostVars == <<tuners, tunerNb, tunerPc, nicIrqs, aff, irqbalance, kthreads, workqueues,
              failedMoves, isolated, renumbered, hostRuns>>

i210Vars == <<i210Mode, i210At, rxen, txen, rxq, txq, rxBase, txBase, tail, adverse, phyEee,
              pending, late, mdicFailed, verdict, killed, i210Runs>>

allVars == <<subject, vars, dpdkVars, xdpVars, processVars, tuningVars, hostVars, i210Vars>>

\* Only the subject's own variables are free to begin in several ways.
MCInit ==
    /\ subject \in {"device", "dpdk", "port", "pair", "process", "tuning", "host", "i210"}
    /\ Init /\ (subject = "device" \/ (backend = "verbs" /\ mode = "tx"))
    /\ Dpdk!Init
    /\ subject = "dpdk" \/ (~pair /\ dpdkMode = [p \in {"tx", "rx"} |-> "vfio"])
    /\ IF subject = "pair" THEN Pair!Init ELSE Port!Init
    /\ \/ subject \in {"port", "pair"}
       \/ attached["eth1"] = "none" /\ ~knob["eth1"].defer /\ channels["eth1"] = 1
    /\ subject = "pair" => channels["eth1"] = 2
    /\ Proc!Init
    /\ \/ subject = "process"
       \/ runMode = "Client" /\ transport = "dpdk" /\ ~shortFrame /\ watchdogSec = 0
    /\ Tuning!Init /\ (subject = "tuning" \/ (silicon = "sfc" /\ systematic /\ stack = "xdp"))
    /\ Host!Init /\ (subject = "host" \/ irqbalance)
    /\ I210!Init /\ (subject = "i210" \/ i210Mode = "tx")

\* A step of s leaves the others alone.
About(s) ==
    /\ subject = s
    /\ UNCHANGED subject
    /\ IF s = "device" THEN TRUE ELSE UNCHANGED vars
    /\ IF s = "dpdk" THEN TRUE ELSE UNCHANGED dpdkVars
    /\ IF s \in {"port", "pair"} THEN TRUE ELSE UNCHANGED xdpVars
    /\ IF s = "process" THEN TRUE ELSE UNCHANGED processVars
    /\ IF s = "tuning" THEN TRUE ELSE UNCHANGED tuningVars
    /\ IF s = "host" THEN TRUE ELSE UNCHANGED hostVars
    /\ IF s = "i210" THEN TRUE ELSE UNCHANGED i210Vars

MCNext ==
    \/ About("device") /\ Next
    \/ About("dpdk") /\ Dpdk!Next
    \/ About("port") /\ Port!Next
    \/ About("pair") /\ Pair!Next
    \/ About("process") /\ Proc!Next
    \/ About("tuning") /\ Tuning!Next
    \/ About("host") /\ Host!Next
    \/ About("i210") /\ I210!Next

\* Of the subjects only the process has to get somewhere.
MCSpec ==
    /\ MCInit /\ [][MCNext]_allVars
    /\ WF_allVars(About("process") /\ Proc!MainThread)
    /\ WF_allVars(About("process") /\ Proc!WatchdogFires)
    /\ WF_allVars(About("process") /\ Proc!Tick)

-----------------------------------------------------------------------------

\* Every variable of every subject has its type.
TypesOK ==
    /\ TypeOK /\ Dpdk!TypeOK /\ Proc!TypeOK /\ Tuning!TypeOK /\ Host!TypeOK /\ I210!TypeOK
    /\ IF subject = "pair" THEN Pair!TypeOK ELSE Port!TypeOK

\* Whatever init() acquired is held by one object and released once, whichever step fails
\* and however objects are moved; a DPDK port is stopped once if started, else never.
ReleasedOnce ==
    /\ HeldOnce
    /\ Dpdk!StoppedOnce
    /\ IF subject = "pair" THEN Pair!HeldOnce ELSE Port!HeldOnce

\* Nothing is released while something live still uses it: no library object under its
\* dependants, no memory under a DMA engine, no umem under its socket.
ReleasedInOrder ==
    /\ DependenciesLive
    /\ IF subject = "pair" THEN Pair!ReleaseOrder ELSE Port!ReleaseOrder

\* DPDK: the one initialisation of the EAL sees every port of the process, and nobody
\* waits for a looped link before both of its ports are started.
DpdkBroughtUpInOrder == Dpdk!EveryPortProbed /\ Dpdk!NoBlindWait

\* AF_XDP: a bound RX socket gets every timing frame of its port, through its own run's
\* program, unless a WARN was printed or the kernel kept a leftover program it was asked to
\* detach; and a run leaves a program on a port only by dying or by such a refusal.
XdpSocketHears ==
    IF subject = "pair" THEN Pair!HearsEveryFrame /\ Pair!ProgramHasOwner
                        ELSE Port!HearsEveryFrame /\ Port!ProgramHasOwner

\* AF_XDP: an earlier run's NAPI regime never survives silently.
XdpNoStaleRegime == IF subject = "pair" THEN Pair!NoStaleRegime ELSE Port!NoStaleRegime

\* The low-latency settings of a port are in force when its loop runs: what the run
\* reported still holds, and a run that found the kernel driver left nothing out.
PortTuned == Tuning!ReportsHold /\ Tuning!FullyTunedFromKernel

\* The tuners of a run, whatever earlier runs did, leave the app core to the application, as
\* far as they printed no FAIL and its transport did not renumber interrupts after them.
HostTuned == Host!CoreIsOurs

\* I210: the engines of the NIC run on this run's rings only, and init() returns true with
\* the queues armed and, if it said so, the power saving off.
I210Armed == I210!EnginesOnOwnRings /\ I210!UpMeansArmed

\* The exit code tells whether the loop of the mode was entered with all its ports up, main()
\* returns with every port released, SIGINT kills nobody with a port up, and a run that
\* nobody stopped is a whole one.
ProcessReportsRun == []Proc!RunsInFull /\ Proc!ExitReportsRun

\* A run ends by its count, its duration or the watchdog, and after a stop request, unless
\* the end marker waits for a recorder that has gone.
ProcessEnds ==
    /\ subject = "process" => Proc!RunEnds
    /\ Proc!StopLeadsToExit
=============================================================================
