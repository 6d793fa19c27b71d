---------------------------- MODULE PortTuning ------------------------------
(***************************************************************************)
(* What the traits of AF_XDP and DPDK do to one network port around the    *)
(* transport's own init(), over several runs: the driver the port is bound *)
(* to, the knobs its silicon wants before the port is registered, and the  *)
(* register and coalescing writes that must come after the port has been   *)
(* started, because a start or a bind wipes them.  The driver binding      *)
(* outlives the run (bindToVfio() is never undone), and with the netdev    *)
(* goes the sysfs link that names the port's PCI address, its BDF.         *)
(***************************************************************************)
EXTENDS Naturals, Sequences

CONSTANTS
  Queues,       \* the QINT_RQCTL registers that BAR0 maps
  Backed,       \* those the silicon implements
  Stacks,       \* "xdp", "pmd" (DPDK over AF_XDP), "vfio", "bifurcated"
  FaultyRuns,   \* whether BAR0, register writes and ioctls may fail in a run
  MaxRuns       \* bound: runs on the port

QueuesAssumption == Backed \subseteq Queues /\ Backed # {} /\ FaultyRuns \subseteq BOOLEAN

VARIABLES
  silicon,      \* the NIC: "i40e", "igc", "mlx5" or "sfc"
  systematic,   \* the interface is called enp<bus>s<dev>[f<func>]
  stack, rx,    \* this run: how it drives the port; whether it receives
  tunes,        \* nic_tuner is not "off"
  faulty,       \* calls may fail in this run
  at,           \* position in Program; 0 between runs
  found,        \* the driver the run found on the port
  driver,       \* the driver now: "kernel", "vfio-pci", "none"
  bdf,          \* the BDF the traits hold for the fixes; FALSE: empty string
  knobs,        \* the setters called on the DPDK object
  inForce,      \* the knobs the started port has
  rq,           \* QINT_RQCTL of an i40e
  noItr,        \* what i40eSetNoItr() said
  coalescing,   \* the driver's interrupt moderation is on
  quiet,        \* setCoalescingZero() returned true
  eee,          \* an igc's Energy Efficient Ethernet may idle the link
  eeeOff,       \* igcDisableEee() returned true
  runs

port == << silicon, systematic >>
run == << stack, rx, tunes, faulty, found, runs >>
said == << noItr, quiet, eeeOff >>
vars == << port, run, at, driver, bdf, knobs, inForce, rq, said, coalescing, eee >>

(***************************************************************************)
(* A QINT_RQCTL word: CAUSE_ENA, the reserved bit 31, NEXTQ_TYPE, ITR_INDX.*)
(* Unbacked offsets read 0xDEADBEEF or all ones, equal in these fields.    *)
(***************************************************************************)
Word(ena, rsvd, nextq, itr) == [ena |-> ena, rsvd |-> rsvd, nextq |-> nextq, itr |-> itr]
Unbacked == Word(TRUE, TRUE, 3, 3)
Unbound == Word(FALSE, FALSE, 0, 0)
NextqType(s) == IF s = "vfio" THEN 0 ELSE 1
ITR_INDEX_NONE == 3
QUEUE_TYPE_UNKNOWN == 3

\* The register file with the queues of B bound: by the kernel driver as a
\* chain RX -> TX, by the PMD as a chain of RX queues.
RegsWith(B, s) ==
  [q \in Queues |-> IF q \notin Backed THEN Unbacked
                    ELSE IF q \in B THEN Word(TRUE, FALSE, NextqType(s), 0) ELSE Unbound]

\* A bifurcated port stays with its kernel driver, which only mlx5 supports.
StacksOf(s) == Stacks \ (IF s = "mlx5" THEN {"vfio"} ELSE {"bifurcated"})

TypeOK ==
  /\ silicon \in {"i40e", "igc", "mlx5", "sfc"} /\ stack \in StacksOf(silicon)
  /\ driver \in {"kernel", "vfio-pci", "none"} /\ found \in {"kernel", "vfio-pci", "none"}
  /\ at \in 0 .. 5
  /\ rq \in [Queues -> [ena: BOOLEAN, rsvd: BOOLEAN, nextq: 0 .. 3, itr: 0 .. 3]]
  /\ noItr \in {"unsaid", "applied", "notApplied", "refused"}
  /\ runs \in 0 .. MaxRuns
  /\ {systematic, rx, tunes, faulty, bdf, coalescing, quiet, eee, eeeOff} \subseteq BOOLEAN

\* A port on its kernel driver that no run has touched.
Init ==
  /\ silicon \in {"i40e", "igc", "mlx5", "sfc"} /\ systematic \in BOOLEAN
  /\ stack \in StacksOf(silicon) /\ rx = TRUE /\ tunes = TRUE /\ faulty = FALSE
  /\ at = 0 /\ runs = 0
  /\ driver = "kernel" /\ found = "kernel" /\ bdf = FALSE
  /\ knobs = {} /\ inForce = {}
  /\ rq = RegsWith(Backed, "xdp") /\ noItr = "unsaid"
  /\ coalescing = TRUE /\ quiet = FALSE /\ eee = TRUE /\ eeeOff = FALSE

\* Mutant of Program: the coalescing is zeroed, and the register written, before the start.
ProgramFixesFirst ==
  IF stack = "xdp" THEN << "detect", "coalesce", "writeback", "bind", "loop" >>
                   ELSE << "preInit", "prepare", "fixes", "start", "loop" >>

\* Mutant of Program: the port is registered before its knobs are set.
ProgramPreparesFirst ==
  IF stack = "xdp" THEN << "detect", "bind", "coalesce", "writeback", "loop" >>
                   ELSE << "prepare", "preInit", "start", "fixes", "loop" >>

\* AfxdpTraits::init() and DpdkTraits::init().
Program ==
  IF stack = "xdp" THEN << "detect", "bind", "coalesce", "writeback", "loop" >>
                   ELSE << "preInit", "prepare", "start", "fixes", "loop" >>

At(p) == at > 0 /\ Program[at] = p
Advance == at' = at + 1
Fail == at' = 0

\* A run is started with some configuration; the process starts afresh.
Begin(s, receives, tuner, faults) ==
  /\ at = 0 /\ runs < MaxRuns
  /\ stack' = s /\ rx' = receives /\ tunes' = tuner /\ faulty' = faults
  /\ at' = 1 /\ runs' = runs + 1 /\ found' = driver
  /\ bdf' = FALSE /\ knobs' = {} /\ inForce' = {}
  /\ noItr' = "unsaid" /\ quiet' = FALSE /\ eeeOff' = FALSE
  /\ UNCHANGED << port, driver, rq, coalescing, eee >>

\* resolveBdf(): the sysfs link of the netdev, gone with the netdev.
resolveBdf == driver = "kernel"

\* What prepare() and nothing else falls back to.
bdfFromName == systematic

(***************************************************************************)
(* AF_XDP.                                                                 *)
(***************************************************************************)
\* boundToI40e(), and the BDF if it is.
Detect ==
  /\ At("detect") /\ Advance
  /\ bdf' = (resolveBdf /\ silicon = "i40e")
  /\ UNCHANGED << port, run, driver, knobs, inForce, rq, said, coalescing, eee >>

\* AFXDP::init(): needs the netdev; the bind reconfigures the queue pair,
\* rewrites its QINT_RQCTL and resets the coalescing.
Bind ==
  /\ At("bind")
  /\ \/ /\ driver = "kernel" /\ Advance
        /\ \E B \in SUBSET Backed \ {{}} : rq' = RegsWith(B, stack)
        /\ coalescing' = TRUE
     \/ Fail /\ UNCHANGED << rq, coalescing >>
  /\ UNCHANGED << port, run, driver, bdf, knobs, inForce, said, eee >>

\* setCoalescingZero(), unless the tuner is off: true only after a read-back.
Coalesce ==
  /\ At("coalesce") /\ Advance
  /\ \/ tunes /\ coalescing' = FALSE /\ quiet' = TRUE
     \/ tunes /\ faulty /\ coalescing' \in {coalescing, FALSE} /\ quiet' = FALSE
     \/ ~tunes /\ UNCHANGED << coalescing, quiet >>
  /\ UNCHANGED << port, run, driver, bdf, knobs, inForce, rq, noItr, eee, eeeOff >>

(***************************************************************************)
(* The i40e write-back policy, the same for every stack.                   *)
(***************************************************************************)
\* Mutant of IsBoundRxQueue: only CAUSE_ENA is looked at.
IsEnabledQueue(w) == w.ena

\* Mutant of IsBoundRxQueue: the chain must lead to another RX queue.
IsRxChainedQueue(w) == w.ena /\ ~w.rsvd /\ w.nextq = 0

IsBoundRxQueue(w) == w.ena /\ ~w.rsvd /\ w.nextq # QUEUE_TYPE_UNKNOWN

\* Mutant of SetItrIndx: the rest of the word is lost.
SetItrIndxOnly(w) == [Unbound EXCEPT !.itr = ITR_INDEX_NONE]

SetItrIndx(w) == [w EXCEPT !.itr = ITR_INDEX_NONE]

BoundQueues == { q \in Queues : IsBoundRxQueue(rq[q]) }

\* i40eSetNoItr(): no BDF or no BAR0, nothing; else every bound queue is
\* rewritten and read back.  A write to an unimplemented register is lost.
SetNoItr ==
  \/ /\ ~bdf \/ faulty
     /\ noItr' = "notApplied" /\ UNCHANGED rq
  \/ /\ bdf
     /\ \E lost \in IF faulty THEN SUBSET BoundQueues ELSE {{}} :
          /\ rq' = [q \in Queues |-> IF q \in (BoundQueues \cap Backed) \ lost
                                     THEN SetItrIndx(rq[q]) ELSE rq[q]]
          /\ noItr' = IF BoundQueues = {} THEN "notApplied"
                      ELSE IF \A q \in BoundQueues : rq'[q].itr = ITR_INDEX_NONE
                           THEN "applied" ELSE "refused"

Writeback ==
  /\ At("writeback") /\ Advance
  /\ IF silicon = "i40e" THEN SetNoItr ELSE UNCHANGED << rq, noItr >>
  /\ UNCHANGED << port, run, driver, bdf, knobs, inForce, coalescing, quiet, eee, eeeOff >>

(***************************************************************************)
(* DPDK.                                                                   *)
(***************************************************************************)
\* The setters dpdkPreInit() calls, by silicon; none on the AF_XDP PMD.
KnobsOf(s) ==
  CASE s = "igc" -> {"linkSpeed1G", "symmetricQueues"}
    [] s = "mlx5" -> {"devargs", "inlineReuse", "rxDesc64"}
    [] s = "sfc" -> {"devargs", "rxDesc64"}
    [] OTHER -> {}

PreInit ==
  /\ At("preInit") /\ Advance
  /\ bdf' = resolveBdf
  /\ knobs' = IF stack = "pmd" THEN {} ELSE KnobsOf(silicon)
  /\ UNCHANGED << port, run, driver, inForce, rq, said, coalescing, eee >>

\* bindToVfio(): override and unbind are best effort, the probe's write
\* decides; it may succeed without a driver taking the port.
BindToVfio ==
  \/ driver = "vfio-pci" /\ Advance /\ UNCHANGED driver
  \/ driver # "vfio-pci" /\ Advance /\ driver' = "vfio-pci"
  \/ driver # "vfio-pci" /\ faulty /\ Advance /\ driver' \in {driver, "none"}
  \/ driver # "vfio-pci" /\ faulty /\ Fail /\ driver' \in {driver, "none"}

\* prepare(): the devargs are registered with the BDF here.
Prepare ==
  /\ At("prepare")
  /\ IF stack = "pmd" THEN Advance /\ UNCHANGED << driver, inForce >>
     ELSE IF ~resolveBdf /\ ~bdfFromName THEN Fail /\ UNCHANGED << driver, inForce >>
     ELSE /\ inForce' = knobs \cap {"devargs"}
          /\ IF stack = "vfio" THEN BindToVfio ELSE Advance /\ UNCHANGED driver
  /\ UNCHANGED << port, run, bdf, knobs, rq, said, coalescing, eee >>

\* init() from rte_eal_init() to rte_eth_dev_start(): it resets the port and
\* binds its queues anew, under vfio no RX queue for a port that only sends.
Start ==
  /\ At("start")
  /\ \/ Fail /\ UNCHANGED << inForce, rq, coalescing, eee >>
     \/ /\ driver = IF stack = "vfio" THEN "vfio-pci" ELSE "kernel"
        /\ Advance
        /\ inForce' = inForce \cup (knobs \ {"devargs"})
        /\ \E B \in SUBSET Backed :
             /\ B = {} <=> stack = "vfio" /\ ~rx
             /\ rq' = RegsWith(B, stack)
        /\ coalescing' = TRUE /\ eee' \in BOOLEAN
  /\ UNCHANGED << port, run, driver, bdf, knobs, said >>

\* dpdkPostInitFixes(), with the BDF dpdkPreInit() resolved.  igcDisableEee()
\* prints the register it reads back but returns true whatever it says.
Fixes ==
  /\ At("fixes") /\ Advance
  /\ IF silicon = "i40e" THEN SetNoItr ELSE UNCHANGED << rq, noItr >>
  /\ \/ /\ silicon = "igc" /\ stack # "pmd" /\ bdf
        /\ eeeOff' = TRUE
        /\ eee' \in IF faulty THEN {eee, FALSE} ELSE {FALSE}
     \/ /\ silicon # "igc" \/ stack = "pmd" \/ ~bdf \/ faulty
        /\ UNCHANGED << eee, eeeOff >>
  /\ UNCHANGED << port, run, driver, bdf, knobs, inForce, coalescing, quiet >>

(***************************************************************************)
(* The end of a run, and what happens between runs.                        *)
(***************************************************************************)
\* The loop ends, or the process dies at any moment: either way the port
\* stays on the driver it is bound to.
End ==
  /\ at > 0 /\ Fail
  /\ UNCHANGED << port, run, driver, bdf, knobs, inForce, rq, said, coalescing, eee >>

\* The operator runs restore_all_port.sh.
Restore ==
  /\ at = 0 /\ driver # "kernel" /\ driver' = "kernel"
  /\ rq' = RegsWith(Backed, "xdp") /\ coalescing' = TRUE /\ eee' = TRUE
  /\ UNCHANGED << port, run, at, bdf, knobs, inForce, said >>

Finished == at = 0 /\ runs = MaxRuns /\ UNCHANGED vars

Next ==
  \/ \E s \in StacksOf(silicon), receives, tuner \in BOOLEAN, faults \in FaultyRuns :
       Begin(s, receives, tuner, faults)
  \/ Detect \/ Bind \/ Coalesce \/ Writeback
  \/ PreInit \/ Prepare \/ Start \/ Fixes
  \/ End \/ Restore \/ Finished

Spec == Init /\ [][Next]_vars

-----------------------------------------------------------------------------
Looping == at > 0 /\ Program[at] = "loop"

(***************************************************************************)
(* What the run printed about the port is true while its loop runs: NoITR  *)
(* "on n RX queues" means every bound queue has it, there is one, and its  *)
(* interrupt chain is as the driver built it; coalescing and EEE reported  *)
(* off have not been wiped since by a bind or a start (EEE is not read     *)
(* back, so for it only if writes arrive).                                 *)
(***************************************************************************)
ReportsHold ==
  Looping =>
    /\ noItr = "applied" =>
         LET bound == { q \in Backed : rq[q].ena }
         IN  bound # {} /\ \A q \in bound : rq[q] = Word(TRUE, FALSE, NextqType(stack), ITR_INDEX_NONE)
    /\ \A q \in Queues \ Backed : rq[q] = Unbacked
    /\ quiet => ~coalescing
    /\ eeeOff /\ ~faulty => ~eee

(***************************************************************************)
(* A run that found the port on its kernel driver and met no fault gets    *)
(* everything its silicon needs, whatever earlier runs and stacks did to   *)
(* the port: NoITR on an i40e that receives, EEE off on an igc, the PMD's  *)
(* devargs and ring settings, which only count if they are set in time.    *)
(***************************************************************************)
FullyTunedFromKernel ==
  Looping /\ found = "kernel" =>
    /\ stack # "xdp" => inForce = (IF stack = "pmd" THEN {} ELSE KnobsOf(silicon))
    /\ ~faulty /\ silicon = "i40e" /\ (rx \/ stack # "vfio") => noItr = "applied"
    /\ ~faulty /\ silicon = "igc" /\ stack = "vfio" => eeeOff
    /\ ~faulty /\ stack = "xdp" /\ tunes => quiet

(***************************************************************************)
(* The i40e policy reaches every stack: an i40e port that receives runs    *)
(* its loop with NoITR on every bound queue.                               *)
(***************************************************************************)
NoItrOnEveryStack ==
  Looping /\ silicon = "i40e" /\ rx /\ ~faulty =>
    \A q \in Backed : rq[q].ena => rq[q].itr = ITR_INDEX_NONE
=============================================================================
