---------------------------- MODULE I210BringUp -----------------------------
(***************************************************************************)
(* Intel_I210::init() at the level of the device's registers, over several *)
(* runs on one NIC.  The device keeps its registers when a run is killed:  *)
(* engines that were on stay on, over rings that are gone.  A reset that   *)
(* does not report completion in time only earns a warning, and may still  *)
(* wipe the registers later.  A queue may take its time to report ENABLE.  *)
(***************************************************************************)
EXTENDS Naturals, Sequences

CONSTANT MaxRuns    \* bound: runs on the NIC

\* What verifyLowLatencyConfig() wants cleared, or set, one name per check;
\* PHY advertisement and queue enables are state of their own.
Settings == {"lpi", "eeeAn", "dmac", "lx", "phyPm", "flow", "eitr", "strcrc", "qav"}

VARIABLES
  mode,       \* "tx", "rx" or "rxtx"
  at,         \* position in InitProgram; 0 between runs
  rxen, txen,       \* RCTL.RXEN, TCTL.EN
  rxq, txq,         \* RXDCTL0, TXDCTL0: "off", "arming", "on"
  rxBase, txBase,   \* whose ring RDBA, TDBA name: "none", "old", "ours"
  tail,       \* RDT0 hands descriptors to the NIC
  adverse,    \* the settings that are not as low latency wants them
  phyEee,     \* the PHY advertises EEE
  pending,    \* a device reset is still under way
  late,       \* this run's reset timed out
  mdicFailed, \* this run's verification could not read the PHY
  verdict,    \* "unsaid", "verified" or "warnings"
  killed,     \* a run was killed and no reset has completed since
  runs

engines == << rxen, txen, rxq, txq, rxBase, txBase, tail >>
device == << engines, adverse, phyEee, pending >>
told == << late, mdicFailed, verdict >>
vars == << mode, at, device, told, killed, runs >>

HasTx == mode # "rx"
HasRx == mode # "tx"

TypeOK ==
  /\ mode \in {"tx", "rx", "rxtx"} /\ runs \in 0 .. MaxRuns
  /\ {rxen, txen, tail, phyEee, pending, late, mdicFailed, killed} \subseteq BOOLEAN
  /\ {rxq, txq} \subseteq {"off", "arming", "on"} /\ {rxBase, txBase} \subseteq {"none", "old", "ours"}
  /\ adverse \subseteq Settings /\ verdict \in {"unsaid", "verified", "warnings"}

\* Mutant of InitRxSteps: the tail is bumped before ENABLE is read back.
InitRxTailFirst == << "rxAlloc", "rxRing", "rxen", "rxOff", "rxOn", "rxTail", "rxPoll" >>

\* Mutant of InitRxSteps: the receiver is enabled before the ring is programmed.
InitRxEnableFirst == << "rxAlloc", "rxen", "rxRing", "rxOff", "rxOn", "rxPoll", "rxTail" >>

InitRxSteps == << "rxAlloc", "rxRing", "rxen", "rxOff", "rxOn", "rxPoll", "rxTail" >>

InitTxSteps == << "txAlloc", "txRing", "txOn", "txPoll", "txen" >>

\* Mutant of ColdSteps: the device is reset after the power saving is off.
ColdStepsResetLast == << "open", "interrupts", "eee", "reset", "phy", "ctrl" >>

ColdSteps == << "open", "reset", "interrupts", "eee", "phy", "ctrl" >>

InitProgram ==
  ColdSteps \o (IF HasRx THEN InitRxSteps ELSE << >>)
            \o (IF HasTx THEN InitTxSteps ELSE << >>) \o << "verify", "up" >>

At(p) == at > 0 /\ InitProgram[at] = p
Advance == at' = at + 1

\* As the igb driver left the device, unbound, or as it came up.
Init ==
  /\ mode \in {"tx", "rx", "rxtx"} /\ at = 0 /\ runs = 0 /\ killed = FALSE
  /\ rxen = FALSE /\ txen = FALSE /\ rxq = "on" /\ txq = "on"
  /\ rxBase = "none" /\ txBase = "none" /\ tail = FALSE
  /\ adverse = Settings /\ phyEee = TRUE
  /\ pending = FALSE /\ late = FALSE /\ mdicFailed = FALSE /\ verdict = "unsaid"

\* A new process: the rings that registers may still name are the old ones.
Begin(m) ==
  /\ at = 0 /\ runs < MaxRuns
  /\ mode' = m /\ at' = 1 /\ runs' = runs + 1
  /\ rxBase' = IF rxBase = "ours" THEN "old" ELSE rxBase
  /\ txBase' = IF txBase = "ours" THEN "old" ELSE txBase
  /\ late' = FALSE /\ mdicFailed' = FALSE /\ verdict' = "unsaid"
  /\ UNCHANGED << rxen, txen, rxq, txq, tail, adverse, phyEee, pending, killed >>

\* open(): the bus handler maps BAR0, or init() returns false with nothing to
\* undo.  disableASPM() follows, best effort, in configuration space.
Open ==
  /\ At("open")
  /\ \/ Advance
     \/ at' = 0
  /\ UNCHANGED << mode, device, told, killed, runs >>

\* What a device reset leaves: queue 0 enabled by default, no ring, engines off.
ResetRegisters ==
  /\ rxen' = FALSE /\ txen' = FALSE /\ rxq' = "on" /\ txq' \in {"on", "off"}
  /\ rxBase' = "none" /\ txBase' = "none" /\ tail' = FALSE
  /\ adverse' = Settings \ {"qav"}
  /\ pending' = FALSE /\ killed' = FALSE
  /\ UNCHANGED phyEee

\* reset(): completed within the polls, or a warning and on.
Reset ==
  /\ At("reset") /\ Advance
  /\ \/ ResetRegisters /\ UNCHANGED late
     \/ late' = TRUE /\ pending' = TRUE /\ UNCHANGED << engines, adverse, phyEee, killed >>
  /\ UNCHANGED << mode, mdicFailed, verdict, runs >>

\* The device: a reset completes when it does.
ResetCompletes ==
  /\ pending /\ ResetRegisters
  /\ UNCHANGED << mode, at, told, runs >>

Clears(what) == adverse' = adverse \ what

DisableInterrupts ==
  /\ At("interrupts") /\ Advance /\ Clears({"eitr"})
  /\ UNCHANGED << mode, engines, phyEee, pending, told, killed, runs >>

\* disableEEE(), clearPhyLinkDown(), zeroMulticastTable(), readMacAddress().
DisableEEE ==
  /\ At("eee") /\ Advance /\ Clears({"lpi", "eeeAn", "dmac", "lx", "phyPm"})
  /\ UNCHANGED << mode, engines, phyEee, pending, told, killed, runs >>

(***************************************************************************)
(* shutdown(), from the destructor: the engines this mode has, then the    *)
(* interrupts.  Memory and BAR go with the object.                         *)
(***************************************************************************)
\* Mutant of ShutdownRegisters: only the transmitter is stopped.
ShutdownTxOnly ==
  /\ txen' = (txen /\ ~HasTx)
  /\ Clears({"eitr"})
  /\ UNCHANGED << rxen, rxq, txq, rxBase, txBase, tail, phyEee, pending >>

ShutdownRegisters ==
  /\ rxen' = (rxen /\ ~HasRx) /\ txen' = (txen /\ ~HasTx)
  /\ Clears({"eitr"})
  /\ UNCHANGED << rxq, txq, rxBase, txBase, tail, phyEee, pending >>

\* init() returns false, or the run is over: the object is destroyed.
Destroyed == at' = 0 /\ ShutdownRegisters

\* initPhy(): a failed first MDIC write fails init(); all later ones, and a
\* PHY reset that does not clear, are ignored.
InitPhy ==
  /\ At("phy")
  /\ \/ Advance /\ phyEee' \in BOOLEAN /\ UNCHANGED << engines, adverse, pending >>
     \/ Destroyed
  /\ UNCHANGED << mode, told, killed, runs >>

\* CTRL: set link up, no flow control.
SetCtrl ==
  /\ At("ctrl") /\ Advance /\ Clears({"flow"})
  /\ UNCHANGED << mode, engines, phyEee, pending, told, killed, runs >>

(***************************************************************************)
(* initRx() and initTx().                                                  *)
(***************************************************************************)
Allocate ==
  /\ At("rxAlloc") \/ At("txAlloc")
  /\ \/ Advance /\ UNCHANGED device
     \/ Destroyed
  /\ UNCHANGED << mode, told, killed, runs >>

RxRing ==
  /\ At("rxRing") /\ Advance /\ rxBase' = "ours"
  /\ UNCHANGED << mode, rxen, txen, rxq, txq, txBase, tail, adverse, phyEee, pending, told, killed, runs >>

RxEnable ==
  /\ At("rxen") /\ Advance /\ rxen' = TRUE
  /\ UNCHANGED << mode, txen, rxq, txq, rxBase, txBase, tail, adverse, phyEee, pending, told, killed, runs >>

\* RXDCTL0 = 0, RDT0 = 0.
RxQueueOff ==
  /\ At("rxOff") /\ Advance /\ rxq' = "off" /\ tail' = FALSE
  /\ UNCHANGED << mode, rxen, txen, txq, rxBase, txBase, adverse, phyEee, pending, told, killed, runs >>

RxQueueOn ==
  /\ At("rxOn") /\ Advance /\ rxq' = "arming"
  /\ UNCHANGED << mode, rxen, txen, txq, rxBase, txBase, tail, adverse, phyEee, pending, told, killed, runs >>

\* A poll sees ENABLE, or all of them do not and init() returns false.
PollEnabled(q) ==
  /\ \/ q = "on" /\ Advance /\ UNCHANGED device
     \/ q # "on" /\ Destroyed
  /\ UNCHANGED << mode, told, killed, runs >>

RxPoll == At("rxPoll") /\ PollEnabled(rxq)

\* The tail, then DVMOLR.
RxTail ==
  /\ At("rxTail") /\ Advance /\ tail' = TRUE /\ Clears({"strcrc"})
  /\ UNCHANGED << mode, rxen, txen, rxq, txq, rxBase, txBase, phyEee, pending, told, killed, runs >>

TxRing ==
  /\ At("txRing") /\ Advance /\ txBase' = "ours" /\ txq' = "off"
  /\ UNCHANGED << mode, rxen, txen, rxq, rxBase, tail, adverse, phyEee, pending, told, killed, runs >>

TxQueueOn ==
  /\ At("txOn") /\ Advance /\ txq' = "arming"
  /\ UNCHANGED << mode, rxen, txen, rxq, rxBase, txBase, tail, adverse, phyEee, pending, told, killed, runs >>

TxPoll == At("txPoll") /\ PollEnabled(txq)

TxEnable ==
  /\ At("txen") /\ Advance /\ txen' = TRUE
  /\ UNCHANGED << mode, rxen, rxq, txq, rxBase, txBase, tail, adverse, phyEee, pending, told, killed, runs >>

\* The device: an enabled queue reports so; an RX queue needs RCTL.RXEN.
QueueEnables ==
  /\ \/ rxq = "arming" /\ rxen /\ rxq' = "on" /\ UNCHANGED txq
     \/ txq = "arming" /\ txq' = "on" /\ UNCHANGED rxq
  /\ UNCHANGED << mode, at, rxen, txen, rxBase, txBase, tail, adverse, phyEee, pending, told, killed, runs >>

\* After the wait for the link, which decides nothing.  A PHY register that
\* cannot be read counts as zero.
Verify ==
  /\ At("verify") /\ Advance
  /\ mdicFailed' \in BOOLEAN
  /\ verdict' = IF adverse = {} /\ (mdicFailed' \/ ~phyEee) /\ rxq = "on" /\ txq = "on"
                THEN "verified" ELSE "warnings"
  /\ UNCHANGED << mode, device, late, killed, runs >>

(***************************************************************************)
(* The end of a run.                                                       *)
(***************************************************************************)
RunEnds ==
  /\ At("up") /\ Destroyed
  /\ UNCHANGED << mode, told, killed, runs >>

Kill ==
  /\ at > 0 /\ at' = 0 /\ killed' = TRUE
  /\ UNCHANGED << mode, device, told, runs >>

Finished == at = 0 /\ runs = MaxRuns /\ ~pending /\ UNCHANGED vars

Next ==
  \/ \E m \in {"tx", "rx", "rxtx"} : Begin(m)
  \/ Open \/ Reset \/ DisableInterrupts \/ DisableEEE \/ InitPhy \/ SetCtrl \/ Allocate
  \/ RxRing \/ RxEnable \/ RxQueueOff \/ RxQueueOn \/ RxPoll \/ RxTail
  \/ TxRing \/ TxQueueOn \/ TxPoll \/ TxEnable \/ Verify
  \/ ResetCompletes \/ QueueEnables
  \/ RunEnds \/ Kill \/ Finished

Spec == Init /\ [][Next]_vars

-----------------------------------------------------------------------------
PastReset == at > 0 /\ \E i \in 1 .. at - 1 : InitProgram[i] = "reset"

(***************************************************************************)
(* From the reset on, the NIC's engines work on this run's rings only,     *)
(* whatever a killed run left enabled, and the tail hands out descriptors  *)
(* only to a queue that has reported ENABLE.  A run that is not killed     *)
(* leaves both engines off.  A reset that timed out voids this.            *)
(***************************************************************************)
EnginesOnOwnRings ==
  ~late =>
    /\ PastReset =>
         /\ rxen /\ rxq = "on" => rxBase = "ours"
         /\ tail => rxen /\ rxq = "on"
         /\ txen => txq = "on" /\ txBase = "ours"
    /\ at = 0 /\ ~killed => ~rxen /\ ~txen

(***************************************************************************)
(* When the loop starts, exactly the engines of the mode are on, and       *)
(* "verified: all power-saving disabled" is true: no step has undone what  *)
(* an earlier one set.  (An unreadable PHY counts as quiet in the code.)   *)
(***************************************************************************)
UpMeansArmed ==
  At("up") /\ ~late =>
    /\ rxen = HasRx /\ txen = HasTx /\ tail = HasRx
    /\ verdict = "verified" => adverse = {} /\ (phyEee => mdicFailed)
    /\ HasRx /\ HasTx /\ ~phyEee => verdict = "verified"
=============================================================================
