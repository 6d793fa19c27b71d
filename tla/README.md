# A TLA+ model of ABTRDA3

ABTRDA3 measures packet latency over six transports: packet_mmap, AF_XDP, Verbs (raw mlx5
receive), a user-space Intel I210 driver, ef_vi and DPDK. One process runs one mode
(`--server`, `--client`, `--txgen`, `--rxsink`, `--single`) over one transport. Its loops
are lock-free and its rings are shared with a kernel, a NIC or another thread, so most of
what can go wrong is an order of steps that a test hardly reaches.

This directory holds a model of each part as a TLA+ module, TLC configurations that check
the modules on small instances, and TLAPS proofs of the central results for every value of
the constants. `PROJECT.json` maps every definition to the lines it models and lists the
runs, the theorems, the hazards and the disagreements found.

- [The system and its parts](#the-system-and-its-parts)
- [The modules](#the-modules)
- [Runs](#runs), [Bounds](#bounds), [Fairness](#fairness)
- [Proofs](#proofs)
- [Where code and comments disagree](#where-code-and-comments-disagree)
- [Not modelled](#not-modelled), [What is left](#what-is-left)

## The system and its parts

| part | source | state | operations | who else acts |
| --- | --- | --- | --- | --- |
| process | `test/main.cpp`, `app/RuntimeSetup.hpp`, `app/TransportDispatch.hpp`, `app/TxGenerator.hpp`, `app/RxSink.hpp` | stop source, watchdog, exit code, counters | set-up, dispatch, one loop per mode, teardown | watchdog thread, SIGINT |
| one-way benchmark | `app/SingleRecorder.hpp` | sequence gate, counters, `txDone` | Tx loop, Rx loop, joins | Tx, Rx and recorder threads, the link |
| recorder | `app/HistThread.hpp` | SPSC queue, histogram counts | front, pop, stop check | a producer thread |
| round-trip client | `app/Client.hpp` | sequence number, warmup, counters | send, match, time out, end | peer, link, NIC stamps |
| reflector | `app/Server.hpp` | last stamps, poll budget | receive, copy, release, commit | NIC, SIGINT |
| transmit rings | `backends/*` | ring cursors, buffer ownership, completion counts | `acquire`, `commit`, reaping | NIC, driver, kernel |
| receive rings | `backends/*` | ring cursors, buffer ownership, doorbells | `tryReceive`, `release` | NIC, driver, kernel |
| device objects | `init`, `shutdown`, destructors and moves of the backends | what is held, what is live | each step of them | a failure at any step, a killed process |
| port and host set-up | `app/TransportTraits.hpp`, `backends/common/PciHelpers.hpp`, `backends/common/NicTuner.cpp`, `Intel_I210.hpp` | driver binding, registers, interrupt affinities | what surrounds `init()`, and the register writes in it | earlier runs, killed ones among them, irqbalance, a late device reset |

Every benchmark loop sees a transport only through the `TxRing` and `RxRing` concepts of
`backends/common/RingConcepts.hpp`. The models follow that line. Two abstract modules say
what the concepts promise, every transport is checked to implement them, and the benchmark
modules assume no more than that.

The behaviours that are hard to test, and that the modules contain:

- three threads and a bounded queue with an in-band end marker;
- frames lost, duplicated, reordered, late, or seen twice because a socket also hears its
  own transmissions;
- sequence numbers, doorbell records, owner bits, reference counts and unsigned counters
  that wrap;
- completions that are polled lazily, in batches, or never come;
- failing posts, sends and kicks, and a driver that sleeps until it is woken;
- a stop request between any two steps, and a watchdog that races the end of a run;
- `init()` failing at any step, objects moved, and runs that die and leave a program, a
  driver binding, an enabled engine or a setting on the port;
- hardware stamps that wrap every second, run past its end, and are corrected across it.

## The modules

State variables carry the name of the member they model (`m_txTail` is `txTail`); an action
carries the name of its function. A function becomes several actions where another actor
can act in between, for instance between the two doorbells of `Verbs::release()`. A frame is
a number: the position of its send or of its arrival. A buffer holds such a number, so
"the bytes that were committed" is a statement about numbers.

### What the transports promise

| module | content |
| --- | --- |
| `TxRing` | frames leave in the order of the commits, each once, with the bytes committed |
| `RxRing` | frames come in order of arrival, at most once; the one in hand keeps its bytes until `release()`; a frame may be dropped only while the guaranteed number of frames already waits |
| `Reflector` | what the client relies on in its peer: frames answered in order, at most once, unchanged |

### The benchmarks

| module | models | how |
| --- | --- | --- |
| `HistThread` | `HistThread::run` and the SPSC queue | the queue is a sequence with histories `pushed` and `popped`; the loop is split between `front()` and the read of the stop flag |
| `AntiReplay` | the sequence gate | signed wrap-around difference over `SeqMod` values instead of 2^32 |
| `SingleRecorder` | `TxThread`, `RxThread`, `Bench` | extends both; the link is a set of frames in flight, so it reorders freely |
| `TxStamps` | the stamp ring behind `pollTxTimestamp()` | the completion of send k writes slot k mod `NbTxBufs`, tagged with k |
| `RttClient` | `run_client` | one frame in flight; software or hardware timestamps (`hwTs`, chosen initially) |
| `RttServer` | `run_server` | receive, copy, release and commit are separate steps; the transport's `acquire()` looks for room or does not (`ringChecked`, chosen initially); implements `Reflector` |
| `HwDecode` | `TxMinorOf`, `hwFoldRx`, `hwDelta`, `hwRoundTrip`, `hwTurnaround` of ef_vi | operators over a word of `Word` values and a second of `kOneSecQns` quarter nanoseconds; the adapter's counter is external |
| `HwStamps` | one measurement after another, stamped and decoded | time is a number, both the round trip and the turnaround |
| `Process` | `main()`, `RuntimeSetup`, dispatch, `run_txgen`, `run_rxsink` | one object or a pair is brought up; the other loops appear as what ends them, with the end marker and the join of their recorder; time is a tick of one second |

In `SingleRecorder`, `RttClient` and `RttServer` a sample is not a latency but the frames it was
computed from. A pairing error is then visible as a pair of two different frames. What becomes
of a correctly paired sample is the question of `HwStamps`.

### The transports

| transport | transmit | receive | acquisition and release |
| --- | --- | --- | --- |
| packet_mmap | `PacketMmapTx` | `PacketMmapRx` | `Lifecycle` |
| AF_XDP | `AfXdpTx` | `AfXdpRx` | `XdpPort` |
| Verbs | `VerbsTx` | `VerbsRx` | `Lifecycle` |
| I210 | `I210Tx` | `I210Rx` | `Lifecycle`, `I210BringUp` |
| ef_vi | `EfViTx` (with `TxStamps` seen from the ring's side) | `EfViRx` | `Lifecycle` |
| DPDK | `DpdkTx` | `DpdkRx` | `DpdkBringUp` |

`AfXdpParameters` and `DpdkParameters` hold constants and assumptions that two modules share.
The kernel, the drivers and the NICs are not in the repository. They are modelled from how
the code uses them, each as one or two actions of the module (`Transmit`, `DriverTake`,
`Execute`, `Store`), and marked external in the map.

`Lifecycle` treats `init()` as a sequence of steps, each of which acquires a set of resources
and may fail, and the destructor as a sequence of releases. It contains the resource order of
each backend, so the dependency checks compare two orders written down independently in the
code. `XdpPort` splits `init()` and `shutdown()` of `AFXDP` at every call that changes the port
or a member, and lets the process die between any two of them. It includes the channel count,
the steering of frames to a queue and the verdict of the XDP program, so that it can say which
frames the socket hears. The kernel may keep a program that it is asked to detach: the code does
not look at the outcome, and `refused` remembers it. `DpdkBringUp` is the sequence of `prepare`, EAL initialisation, `start`
and `waitLink` calls that `DpdkTraits` makes for one port or for the pair of the one-way
benchmark.

### What surrounds the transports

| module | models | how |
| --- | --- | --- |
| `PortTuning` | `AfxdpTraits::init`, `DpdkTraits::init`, `dpdkPreInit`, `dpdkPostInitFixes`, `bindToVfio`, `i40eSetNoItr`, `igcDisableEee`, `setCoalescingZero` | one port over several runs with different stacks; a start or a bind wipes registers, the driver binding outlives the run |
| `HostTuning` | the `NicTuner` constructor and the tuners `main()` makes | affinity of every interrupt, cores of the kernel threads and workqueues, moves that FAIL, tuna where it is installed, interrupts the transport has renumbered afterwards; runs may be killed, irqbalance may go on |
| `I210BringUp` | `Intel_I210::init` and `shutdown` at the registers | `init()` is a sequence of named steps; a reset may time out and complete later, a queue may take its time, MDIC accesses may fail |

`Program` in `PortTuning` and `InitProgram` in `I210BringUp` are the order of the calls in the
code, so a mutant of the order is a mutant of one definition.

### Composition

`TransportDispatch.hpp` selects one transport from the configuration, and only that one is
ever driven. `MCTransmit`, `MCReceive` and `MCLifecycle` say the same: a rigid variable
(`transport`, `subject`) is chosen initially, the component it names takes steps, the others
stay as initialised. The subjects of `MCLifecycle` are the device objects (`Lifecycle`), DPDK's
bring-up, AF_XDP on one port and on two, the process, and the three modules above; `MCReceive`
has `HwStamps` beside the receive rings. Build and configuration choices (`x2522Plus`, `txqSize`, `txReuseInline`,
`hwTs`, `watchdogSec`) are rigid variables chosen in `Init` as well, so one run covers them all.

A definition introduced by "Mutant of" is a wrong version of the definition after it, kept to
show that a property notices the mistake. No specification uses it.

## Runs

| run | module | states | properties |
| --- | --- | --- | --- |
| `single` | `SingleRecorder` | 897,260 | `TypeOK`, `NoLostTail`, `RecordedInSendOrder`, `LossAccounting`, `RecordedMatchesReport`, `Termination` |
| `client` | `MCRttClient` | 136,245 | `TypeOK`, `RoundTripPaired`, `RoundTripAccounting`, `Termination` |
| `server` | `RttServer` | 17,455 | `TypeOK`, `TurnaroundPaired`, `ReflectsFaithfully`, `StopsOnRequest` |
| `afxdp_tx` | `AfXdpTx` | 1,342 | `OutstandingExact`, `TransmitsFaithfully` |
| `transmit` | `MCTransmit` | 41,359 | `TypesOK`, `SqNeverOverflows`, `AccountsMatchNic`, `EfViStampsPaired`, `EveryTransportTransmits`, `EverySendProgresses` |
| `receive` | `MCReceive` | 230,185 | `TypesOK`, `CqNeverFull`, `BuffersCirculate`, `EfViStampsTrue`, `EfViCompleteIsSound`, `EveryTransportReceives`, `EfViSlotsComeBack` |
| `lifecycle` | `MCLifecycle` | 1,038,477 | `TypesOK`, `ReleasedOnce`, `ReleasedInOrder`, `DpdkBroughtUpInOrder`, `XdpSocketHears`, `XdpNoStaleRegime`, `PortTuned`, `HostTuned`, `I210Armed`, `ProcessReportsRun`, `ProcessEnds` |
| `single_recorder_failed` | `SingleRecorder` | | `BenchReturns`, violated |
| `client_stamp_collision` | `MCRttClient` | | `NoLostTail`, violated |
| `verbs_tx_phantom` | `VerbsTx` | | `CommitReturns`, violated |
| `afxdp_tx_overwrite` | `AfXdpTx` | | `TransmitsFaithfully`, violated |
| `dpdk_rerun_throttled` | `PortTuning` | | `NoItrOnEveryStack`, violated |

What the passing runs show:

- **`single`**: the end marker loses no tail of the histogram. Frames are recorded once and in
  send order across wrap-arounds of the sequence number. Recorded plus lost frames account for
  all frames since the warmup, and Rx's report agrees with the recorder's. All threads end,
  unless the recorder is gone and has left a full queue (`Stranded`, see below).
- **`client`**: every sample pairs the echo and the send of one frame, although echoes arrive
  after their timeout, duplicated, or as copies of the client's own frames. Counters balance.
- **`server`**: answers go out in order, at most once and unchanged, although the RX buffer is
  released before the answer is sent. Turnaround samples never pair stamps of two frames, also
  when the transport lets the reflector run ahead of the NIC. A stop request ends the reflector
  even if no TX slot ever frees.
- **`afxdp_tx`**: AF_XDP keeps the `TxRing` promise for a caller that leaves at most
  `NumTxFrames` frames untransmitted. Every benchmark loop with one frame in flight is such a
  caller. `outstanding_tx` is exact.
- **`transmit`**: the other five transports keep the promise for any caller, with failing posts,
  sends and kicks. ef_vi in its X2522Plus tuning keeps it for every frame but those whose slot was
  filled again before they left (`overrun`): their bytes may be a later frame's. The loops inside `commit()` end. Queues do not overflow and counts agree with the
  NIC. A TX timestamp is never paired with another send.
- **`receive`**: all six transports keep the `RxRing` promise over several laps. No buffer is
  lost, the abort in AF_XDP's `tryReceive()` is not reached, and ef_vi's batched return of
  slots always gets going again. An ef_vi stamp is the stamp of the frame it is asked for, and
  the latency decoded from two stamps is the time between their events, wherever a second ends.
- **`lifecycle`**: whichever step of an `init()` fails and however objects are moved, what was
  acquired is released once, and never while something live depends on it. A new run on a port
  takes off the XDP program and the NAPI regime that a dead one has left, and its socket hears
  every timing frame (`XdpSocketHears`), unless a warning was printed or the kernel silently kept
  the old program. What a run prints about NoITR, coalescing and EEE is
  true while its loop runs, and a run that found the port on its kernel driver gets all its
  silicon needs (`PortTuned`). The port tuned last has its interrupts on its core and
  no other interrupt there, and what was moved without a FAIL stays off the cores of the run
  (`HostTuned`, whose comment names the exceptions). The I210's engines work on this run's rings
  only, and "verified" is true (`I210Armed`). SIGINT never takes the process down with a
  transport up; `main()` returns with every object released, and returns 0 exactly when the loop
  of the mode was entered; a run that returned 0, was not stopped and did not refuse `frame_size`
  is a whole one (`ProcessReportsRun`). Every mode ends by its count, its duration, the watchdog
  or a stop request (`ProcessEnds`), unless its recorder has left a full queue behind, which no
  signal gets `main()` out of. AF_XDP's aborts and the exceptions of packet_mmap end the process
  without a return value and with objects up; the property says so.

`EveryTransportTransmits`, `EverySendProgresses`, `AccountsMatchNic`, `EveryTransportReceives`,
`BuffersCirculate`, `ReleasedOnce` and `ReleasedInOrder` are conjunctions with a part for each
transport; `EfViStampsTrue`, `XdpSocketHears`, `PortTuned` and `I210Armed` have two parts each.
`PROJECT.json` has mutants in every transport.

Some disjuncts only end a bounded behaviour (`Done`, `Returned`, `Finished`): they
stutter once the bound is reached or the program has returned, so that TLC's deadlock check
stays on. It is off only in `afxdp_tx` (and in violation runs): a paced caller waits for ever
when the only kick has ended with a benign errno and the driver sleeps on. That is the
driver's state, not a fault of the ring.

## Bounds

| run | bounds | why they are enough |
| --- | --- | --- |
| `single` | `SeqMod` 6, 7 frames, queue of 2, warmup of 2, 1 duplicate, 1 stray frame | the sequence number wraps, two frames in a row can be lost and counted after the warmup (half of the space is 3), the queue fills, the warmup has a middle, a duplicate can be of any age |
| `client` | `SeqMod` 2, 4 sends, queue of 2, 2 stamp slots, 1 duplicate | the number wraps twice, so a late echo can carry a number in use again; the stamp ring is overwritten |
| `server` | 4 arrivals, 2 TX slots, 2 RX slots, queue of 1 | bursts longer than the rings, more answers outstanding than slots where `acquire()` does not look, push failures |
| `afxdp_tx` | 2 chunks, window 2, 7 frames, 2 failed kicks | three laps of the rings; a paced caller never finds the TX ring full, `transmit` covers that branch with an unpaced one |
| `transmit` | `SqDepth` 8, `SignalEvery` 2 (the smallest ratio the `static_assert` allows), rings of 1 to 4, 4 to 13 frames | at least one and a half laps of each ring, full rings, the reference count topped up twice; ef_vi's 2 slots (a power of two, as its `static_assert` asks) are overrun by two frames. Its descriptor ring, 512 by default, is not overrun |
| `receive`, rings | rings of 2 to 8, 5 to 18 arrivals, doorbells of 8 values | at least one lap of each ring, the doorbell records and the owner bit wrap, drops occur |
| `receive`, stamps | a second of 12 quarter nanoseconds in a word of 20, overrun 2, corrections of -4 to 2, 30 units of time | the smallest word with room to tell an overrun from a borrow; measurements begin and end on either side of a second's end |
| `lifecycle`, objects | 2 objects, 2 ports, 2 queues, 2 runs under 3 regimes | a move needs two objects, a stale port needs a second run; initially the port may already carry a program, a setting or two channels that an earlier one left; the kernel may keep a program on one of the ports (`Refusing`) |
| `lifecycle`, set-up | 3 runs on a port or an I210, 2 on a host, 3 queue registers of which 2 are backed, 3 cores, 4 interrupts | the third run meets what a second left over a first; an interrupt can belong to one port, to both by its name, or to neither; irqbalance moves interrupts to one core (`Balanced`), a hot one of some runs |
| `lifecycle`, process | watchdog 0 or 2 s, duration 3 s, count 3, batch of 2 polls; `"dpdk"` stands for Verbs and I210 too | the watchdog comes before, and after, every phase |
| `dpdk_rerun_throttled` | 3 runs without faults | two are needed |

`MaxFrames`, `MaxArrivals`, `MaxSends`, `MaxErrors`, `MaxPostErrors`, `MaxRetries`, `MaxBusy`,
`MaxDup`, `MaxStray`, `MaxTime` and `MaxRuns` bound what the environment or the caller does. The proofs
hold for every value of them. Scaled-down constants keep the relation of the originals:
`RX_FREE_THRESH` below `NumRxDesc`, `REFCNT_LOW` above the ring, `CqeCnt` above `RqDepth`, the
second, its overrun and the corrections within a word (`HwDecodeAssumption`).

No run uses symmetry: slots, chunks and frames are ordered.

## Fairness

Only liveness properties use fairness, and only what the code's scheduling gives:

- *Threads.* Each hot loop has a core of its own and never blocks, so each thread takes steps
  for ever (weak fairness of `Rx`, `Hist`, `Join`, `Server`, and of the process in `MCLifecycle`).
- *Time.* `TxFinish`, `Timeout`, `Expire`, `WatchdogFires` and `Tick` are fair because the clock
  advances. `Expire` is strongly fair: the client reads the clock once per frame, at a point
  it leaves again and again.
- *Process.* `main()` goes on as long as the calls it makes return. That `init()` and the calls
  of a loop into its transport return is an assumption of `Process`; `transmit` is about the
  latter.
- *NIC.* A posted frame is eventually sent (weak fairness of `Transmit` and `Execute`).
- *AF_XDP driver.* `DriverTake` is strongly fair: the driver may go to sleep between any two
  frames, but one that is woken again and again gets to serve the ring.
- *No fairness* for anything that may fail to happen: arrivals, echoes, SIGINT, TX completions
  as seen by `pollTxTimestamp`, the AF_XDP driver waking without a kick, a caller's
  next `acquire()` of ef_vi.

## Proofs

Eight modules hold theorems. The assumptions on constants are stated, named, in the module
that declares them, and TLC evaluates them for the instances above.

| module | theorem | says |
| --- | --- | --- |
| `SingleRecorderProofs` | `TypeCorrect` | type correctness |
| | `EndMarkerComplete` | `NoLostTail` for every queue capacity and interleaving |
| | `SendOrder` | `RecordedInSendOrder` for every width of the sequence number |
| | `LossesAccounted` | `LossAccounting` |
| | `ReportMatches` | `RecordedMatchesReport` |
| `AfXdpTxProofs` | `TypeCorrect`, `OutstandingCorrect` | `outstanding_tx` is exact and at most `2 * NumTxFrames`, whatever the caller does |
| | `PacedCallerServed` | if `Window <= NumTxFrames`, AF_XDP transmit implements `TxRing` (refinement) |
| `AfXdpRxProofs` | `TypeCorrect`, `FillReserveSucceeds` | the abort in `tryReceive()` is unreachable for every number of chunks |
| | `ChunksKept` | no RX chunk is lost or in two places (`ChunksConserved`) |
| | `XdpReceivesFaithfully` | AF_XDP receive implements `RxRing` (refinement) |
| `VerbsTxProofs` | `TypeCorrect`, `NoSqOverflow` | the send queue never overflows if `SqDepth >= 4 * SignalEvery`, whichever posts fail |
| | `VerbsTransmitsFaithfully` | Verbs transmit implements `TxRing` (refinement) |
| `VerbsRxProofs` | `TypeCorrect`, `CqHasRoom` | the NIC never completes into a full ring, and a stale completion is never taken for a new one |
| `DpdkTxProofs` | `TypeCorrect`, `RefcntSafe` | the reused mbuf's count stays positive and within its width |
| | `MbufsKept` | no mbuf is lost or in two places (`MbufsConserved`) |
| | `DpdkTransmitsFaithfully` | DPDK transmit implements `TxRing` in both of its modes (refinement) |
| `RttServerProofs` | `ServerTypeCorrect` | at most `NbTxBufs` answers are outstanding over a transport whose `acquire()` looks for room; the stamp cursor never passes the completions |
| | `ServerPairsTurnarounds` | `TurnaroundPaired` for every ring, queue, warmup and number of frames, whether `acquire()` looks or not |
| | `ServerReflectsFaithfully` | the reflector implements `Reflector` (refinement) |
| | `RoundTripExact`, `TurnaroundExact` | what `HwDecode` makes of two stamps less than a second apart is the time between their events |
| `RingArithmetic` | (lemmas) | remainders, positions and cells, shared by the others |

How the arguments go:

- **One-way benchmark.** None of the properties is inductive. `IInv` adds that the queue is
  what was pushed and not popped (`FifoInv`), that the marker is the last push (`EndInv`), that
  neither the last accepted frame nor one in flight is half the sequence space old (`GateInv`),
  that nothing recorded is newer than the last accepted frame (`OrderInv`), and the balance on
  both sides of the queue (`CountInv`). The lemma `DiffIsDistance` carries the gate: within half
  of the space the signed difference of two numbers is the distance of the frames. That the
  link stays within half of the space is a guard of the model (`WithinHalf`): the gate relies on
  it and nothing in the code enforces it. With 32-bit numbers only an outage of 2^31 frames
  breaks it.
- **AF_XDP transmit.** Four free-running counts follow one another (reaped, transmitted, taken,
  committed). A descriptor names the cell of its position, and a chunk keeps its frame from
  `acquire()` until transmission because less than one lap is outstanding; `DistinctCells` turns
  the distance into distinct chunks.
- **AF_XDP receive.** FILL ring, driver and RX ring share `NumRxFrames` entries, and the FILL
  ring has twice as many cells. For the refinement, `ChunkInv` adds that no chunk is at two places
  of the rings, that every chunk is at one, and that a chunk on the RX ring holds a frame that
  has arrived. A driver writing into a free chunk then changes no frame that waits or is in hand.
- **Verbs transmit.** Commits since the last polled completion fit the completions still due
  plus a partial period, and outside `commit()` the backstop keeps those below its limit. A
  failed post only makes the bound looser: its slot is not used. For the refinement, `WireInv`
  says that a request keeps the bytes of its commit (they are inlined at the post, which is why
  one buffer can serve every frame) and that the wire is the executed requests in order of rank.
- **Verbs receive.** Head and consumer index move in lockstep `RqDepth` apart, except between
  the two doorbells. A cell not written in this lap still has the other owner bit, and this
  is the strengthening that makes the invariant inductive.
- **DPDK.** The count exceeds the unreaped sends by one, and by two between `acquire()` and
  `commit()`. This needs `NbTxDesc + 1 < REFCNT_LOW`, which is the relation the comment beside
  the constant appeals to. `PlaceInv` says where each mbuf is: in the pool, in hand, or on the
  ring once, except that the reused one may be on it many times. `NameInv` says that the
  descriptors the NIC has not sent carry the frames that follow the wire, which is the
  refinement. In the reusing mode it holds because the device inlines the bytes at the send.
- **Reflector.** `CountInv` bounds what was answered, is in hand and waits by what arrived, and,
  where `acquire()` looks for room, makes sure that a slot taken is still free when it is sent. `HandInv` follows the payload
  through copy, release and commit. `StampInv` says that a stamp with the tag of a send is that
  send's, and `PairInv` that the pairs pushed join a frame and its own answer, in increasing
  order. Their conjunction with `TypeOK` is inductive.
- **Decoder.** `HwDecodeAssumption` leaves room in a word for a second, its overrun and the
  corrections. The corrected word is then below the second, just past it, or close to the top
  of the word (it went below zero), and `FoldExact` shows that the three cases do not overlap.
  With at most one end of a second between two events, `DeltaExact` gives the rest. The
  theorems need a TX stamp that is not 0, because the code takes 0 for "none".

Only model-checked:

- all liveness properties (fairness and `ENABLED` are out of the prover's reach);
- `RxRing` for Verbs: error completions are filtered out of what is pending with `SelectSeq`,
  and what a filter returns for every sequence needs induction over data, which is out of
  reach as well;
- everything about packet_mmap, I210, ef_vi's rings, DPDK receive, the client, the process,
  the lifecycles and the set-up of port and host.

## Where code and comments disagree

Five disagreements have a run:

1. **`single_recorder_failed`**: Rx spins on the end marker because "Hist is draining, space
   frees" (`SingleRecorder.hpp:305`). After a failed `hdr_init` nobody drains. Once the queue is
   full, the spin and with it the join never end, SIGINT included.
2. **`client_stamp_collision`**: "this can never collide with a sample" (`HistThread.hpp:39`)
   holds for cycle counts. With hardware timestamps the packed sample of an echo without RX stamp
   whose send has no TX stamp is all ones, the end marker. The recorder ends in mid-run.
3. **`verbs_tx_phantom`**: a signalled post that fails has already been counted in `m_unreaped`.
   After `SqDepth / SignalEvery - 1` such failures the "backstop loop (never taken in steady
   state)" of `Verbs.hpp:62` never ends.
4. **`afxdp_tx_overwrite`**: `AFXDP::acquire()` hands out the next chunk without asking whether
   its last frame has left. With `NumTxFrames` frames waiting, a frame leaves with the bytes of
   a later one. `--txgen` is the unpaced caller that can get there.
5. **`dpdk_rerun_throttled`**: "Apply + verify on any stack." (`TransportTraits.hpp:165`) is said of
   NoITR. `dpdkPreInit()` looks for the BDF with `resolveBdf()`, which needs the netdev. The
   first run leaves the port on vfio-pci, so a second run has none. `prepare()` then finds the
   port by its name and the loop starts, but NoITR is skipped for want of a BDF, with a line on
   stderr.

Others were met while modelling. The instances above stay clear of them; the constants that
show them are given.

| where | what | to see it |
| --- | --- | --- |
| `PacketMmapTx.hpp:76` | as many failed `send()` calls as slots leave every slot requested; `acquire()` then fails for good | `MmapErrors` = `MmapSlots`, `Mmap!HandedToNic` |
| `Verbs.hpp:61` | "In-flight WQEs are bounded at 2*SignalEvery": up to `SqDepth / SignalEvery - 1` periods can be in flight when the NIC lags | in `VerbsTx`, bound the requests not retired by `2 * SignalEvery` |
| `Intel_I210.hpp:247` | `NumTxDesc` frames committed before the NIC has sent one put the tail on the head, which the NIC reads as an empty ring | remove `Wrapped` from `I210Tx!HandedToNic` |
| `Intel_I210.hpp:41` | the assertion admits rings of 8, but with `NumRxDesc <= RX_FREE_THRESH` (32) `release()` holds back the whole ring | `NumRxDesc` = `RX_FREE_THRESH` = 4, `I210!NotStarved` |
| `EtherFabricVirtualInterface.hpp:589` | the X2522Plus `acquire()` has no ring-full check; a caller more than `NbTxBufs` ahead overwrites a slot whose fallback DMA is due | drop `overrun` from the mapping of `EfVi!TransmitsFaithfully` |
| `HistThread.hpp`, loop | a stop request can end the recorder between an empty `front()` and a burst that fills the queue; Rx is then stranded like in 1, and so are `--client` and an ef_vi `--server` | drop `Stranded` from `Termination` in `single`, or from `StopLeadsToExit` |
| `main.cpp:150` | the watchdog applies to `--client` too: with `watchdog_sec` 30 and `duration_sec` 60 of the shipped configuration the run is cut in half, without a word in the report | ask `~interrupted` instead of `~stop` of `Client` in `RunsInFull` |
| `SocketOps.cpp` | a constructor that throws leaves its descriptor or mapping open until the process ends | `Lifecycle` counts it as abandoned with the process |
| `RuntimeSetup.hpp:92` | the detached watchdog may touch the static stop source while the process exits | not modelled: static destruction is outside the modules |
| `NapiConfig.hpp:421` | `detachXdpProgram()` reports a program as cleared without asking whether the kernel let go of it | drop the exception for `refused` from `HearsEveryFrame` |
| `AFXDP.hpp:364` | `shutdown()` takes the program off the port but leaves the deferral knobs set | `XdpNoStaleRegime` asks only that the next run does not inherit them |
| `main.cpp:118` | `--single` constructs two tuners. The second moves the first port's interrupts off their core, to all cores but its own, and puts the Rx port's interrupts on the recorder's core | ask `CoreIsOurs` of every tuner, not the last |
| `NicTuner.cpp:327` | tuna moves threads that have no other core to all the others: a second tuner on core 0 puts the kernel threads back on the first one's core | drop `last.core # 0` from `CoreIsOurs` |
| `NicTuner.cpp:343` | "suspect a renumbered post-collapse IRQ": such an interrupt has its default affinity, and nothing pins it again | drop `renumbered` from `CoreIsOurs` |
| `SingleRecorder.hpp:158`, `Client.hpp:45` | a `frame_size` that is refused ends the run with exit code 0 | drop `~shortFrame` from `RunsInFull` |
| `main.cpp:114` | "NicTuner is applied to both ports inside runSingleRecorder": `main()` does it | reading |
| `NicTuner.cpp:100` | `findNicIrqs()` takes every line that contains the name, so `eth1` also takes the interrupts of `eth10` | `Mentions` in `MCLifecycle`; `CoreIsOurs` asks for what the code does |
| `NicTuner.cpp:324` | "SSH is already boosted to SCHED_RR:1 above": the boost comes later (line 394), and only for `nfs_safe` | reading |
| `TestConfig.hpp:98, 133` | `recorder_core` "must DIFFER from cpu_core", but both default to 4 | reading |
| `Intel_I210.hpp:429` | the check of the PHY's EEE advertisement is said to handle a failed access; an unreadable PHY counts as quiet | drop `mdicFailed` from `UpMeansArmed` |
| `Intel_I210.hpp`, verification | ASPM is not read back; a port that only sends is always warned about CRC stripping, which only `initRx()` sets, and one that only receives about the TX queue if the reset left it off | `UpMeansArmed` promises "verified" only for a port that does both |
| `PciHelpers.hpp:541` | `igcDisableEee()` prints what it reads back but returns true whatever it is | drop `~faulty` from `ReportsHold` |
| `Client.hpp:91, 217` | `hwDelta()` is exact below one second. The echo timeout is one second but is looked at every 2048 spins, so an echo just past a second can decode as nearly nothing; the reflector's turnaround has no bound at all | let `Soon` in `HwStamps` include a second |
| `EtherFabricVirtualInterface.hpp`, decoders | a frame sent exactly at the start of a second has TX stamp 0 and is dropped as unstamped | `DecodesExactly` admits it |

## Not modelled

- The offloads, sysctls, governor and scheduling classes that `NicTuner` sets: independent
  writes that nothing in the program reads. `reportItr()` only prints; `i40eClearItr()` and `i40eItrProbe()` are switched
  off at compile time.
- ASPM in PCI configuration space (`disableASPM`), best effort and never read back.
- The encoding of the netlink messages in `NapiConfig.hpp`; their effect on the port is in
  `XdpPort`.
- The event-driven receive path of ef_vi (`kEfViRxPayloadPoll` false), which is compiled out.
- `xdp_filter.bpf.c`, which no configuration loads. The verdict of `af_xdp_kern.c` on a timing
  frame is in `XdpPort`; other frames always pass to the kernel.
- Configuration parsing (but for the recognition of a stack), clock calibration, profiling,
  printing and the CSV export.
- Weak memory. Each shared word is read and written in one step in program order; the acquire
  and release orderings in the code, and the NIC's ordering of DMA writes, are taken as given.
- Process, benchmark and ring in one state space. The benchmark modules use the ring's promise
  in place of the ring.

## What is left

In order of worth:

1. An inductive invariant for `RttClient` (`RoundTripPaired`) and for the stamp ring of `EfViTx`.
2. Proofs of `TxRing` and `RxRing` for packet_mmap, I210 and ef_vi, along the lines of DPDK's.
3. The reflector and the client composed through `Reflector` on a lossy link.
4. The event-driven path of ef_vi, should it be compiled in again.
5. A finer model of `SocketOps` errors and of the watchdog's end at process exit.
