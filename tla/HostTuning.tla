---------------------------- MODULE HostTuning ------------------------------
(***************************************************************************)
(* The NicTuner objects main() constructs before a run: one for the port   *)
(* of the role, or one per port for --single, the second over the work of  *)
(* the first.  Each moves the kernel threads and workqueues to core 0, has *)
(* tuna take every thread off the app core, and places every interrupt of  *)
(* the host.  The transport that comes up afterwards may have its NIC ask  *)
(* for interrupts anew (AF_XDP collapses the channels and binds).  Nothing *)
(* is undone when a run ends, so a tuner meets what earlier runs left, and *)
(* irqbalance, if it could not be stopped, moves interrupts at any moment. *)
(* A run may be killed between any two steps.  Governor, sysctls, offloads *)
(* and the priorities of ksoftirqd and sshd are written once and read by   *)
(* nobody here: they belong to steps of the model but have no state.       *)
(***************************************************************************)
EXTENDS Naturals, Sequences

CONSTANTS
  NumCores,     \* sysconf(_SC_NPROCESSORS_ONLN)
  Mentions,     \* irq -> the interfaces whose name its /proc/interrupts line contains
  Managed,      \* interrupts whose affinity the kernel does not let go
  TxPort,       \* [client] interface
  RxPort,       \* [server] interface
  Balanced,     \* bound: the cores irqbalance moves interrupts to
  MaxRuns       \* bound: runs on this host

Cores == 0 .. NumCores - 1
Irqs == DOMAIN Mentions

HostAssumption == NumCores \in Nat \ {0, 1} /\ Managed \subseteq Irqs /\ 0 \in Irqs
                  /\ Balanced \subseteq Cores

VARIABLES
  tuners,       \* the tuners of this run: [port, core]
  k, pc,        \* the one being constructed, and its step
  nicIrqs,      \* its findNicIrqs()
  aff,          \* /proc/irq/<irq>/smp_affinity_list
  irqbalance,   \* the daemon runs
  kthreads,     \* the cores movable kernel threads may use
  workqueues,   \* the cores workqueues may use
  failedMoves,  \* what the tuner could not move: it has printed FAIL
  isolated,     \* the tuner has printed "isolated via tuna"
  renumbered,   \* interrupts the transport of this run asked for anew
  runs

moves == << kthreads, workqueues, failedMoves, isolated >>
vars == << tuners, k, pc, nicIrqs, aff, irqbalance, moves, renumbered, runs >>

Tuner(p, c) == [port |-> p, core |-> c]
T == tuners[k]

Steps == {"irqbalance", "migrate", "isolate", "pin", "evict", "applied", "transport"}

TypeOK ==
  /\ \A i \in DOMAIN tuners : tuners[i] \in [port: {TxPort, RxPort}, core: Cores]
  /\ k \in 0 .. Len(tuners) + 1 /\ pc \in Steps \cup {"off", "loop"}
  /\ nicIrqs \subseteq Irqs \ {0}
  /\ aff \in [Irqs -> SUBSET Cores \ {{}}]
  /\ {kthreads, workqueues} \subseteq SUBSET Cores \ {{}} /\ {irqbalance, isolated} \subseteq BOOLEAN
  /\ failedMoves \subseteq {"kthreads", "workqueues"} /\ renumbered \subseteq Irqs \ {0}
  /\ runs \in 0 .. MaxRuns

\* A freshly booted host.
Init ==
  /\ tuners = << >> /\ k = 0 /\ pc = "off" /\ nicIrqs = {}
  /\ aff = [i \in Irqs |-> Cores]
  /\ irqbalance \in BOOLEAN
  /\ kthreads = Cores /\ workqueues = Cores /\ failedMoves = {} /\ isolated = FALSE
  /\ renumbered = {} /\ runs = 0

\* main(): with nic_tuner off no tuner is constructed.
Begin(ts) ==
  /\ pc = "off" /\ runs < MaxRuns
  /\ runs' = runs + 1 /\ tuners' = ts /\ k' = 1
  /\ pc' = IF ts = << >> THEN "loop" ELSE "irqbalance"
  /\ UNCHANGED << nicIrqs, aff, irqbalance, moves, renumbered >>

\* The outcome of systemctl is not looked at.
StopIrqbalance ==
  /\ pc = "irqbalance" /\ pc' = "migrate"
  /\ irqbalance' \in {FALSE, irqbalance}
  /\ UNCHANGED << tuners, k, nicIrqs, aff, moves, renumbered, runs >>

\* Mutant of Migrate: to every core but the app core.
MigrateOffCore ==
  /\ pc = "migrate" /\ pc' = "isolate"
  /\ kthreads' = Cores \ {T.core} /\ workqueues' = Cores \ {T.core}
  /\ failedMoves' = {} /\ isolated' = FALSE
  /\ UNCHANGED << tuners, k, nicIrqs, aff, irqbalance, renumbered, runs >>

\* migrateKernelThreads(), migrateWorkqueues(): to core 0, whatever the app core.  When
\* none could be moved, all stay and FAIL is printed.
Migrate ==
  /\ pc = "migrate" /\ pc' = "isolate"
  /\ failedMoves' \in SUBSET {"kthreads", "workqueues"}
  /\ kthreads' = IF "kthreads" \in failedMoves' THEN kthreads ELSE {0}
  /\ workqueues' = IF "workqueues" \in failedMoves' THEN workqueues ELSE {0}
  /\ isolated' = FALSE
  /\ UNCHANGED << tuners, k, nicIrqs, aff, irqbalance, renumbered, runs >>

\* Mutant of Without: the list keeps the core.
WithoutNothing(cores, c) == cores

\* An affinity mask without a core; the kernel accepts no empty one.
Without(cores, c) == IF cores = {c} THEN cores ELSE cores \ {c}

\* tuna --isolate, where it is installed: every thread off the app core.  One that has no
\* other core (for core 0, all that Migrate has just moved) may use all the others.  It
\* moves interrupts too, but the two steps that follow place them all again.
Isolate ==
  /\ pc = "isolate" /\ pc' = "pin"
  /\ \/ /\ isolated' = TRUE
        /\ kthreads' = IF kthreads = {T.core} THEN Cores \ {T.core} ELSE kthreads \ {T.core}
     \/ UNCHANGED << isolated, kthreads >>
  /\ UNCHANGED << tuners, k, nicIrqs, aff, irqbalance, workqueues, failedMoves, renumbered, runs >>

\* findNicIrqs(): every line that contains the name; not irq 0.
FindNicIrqs(p) == { i \in Irqs \ {0} : p \in Mentions[i] }

\* Mutant of Place: interrupts that are on one core already are left there.
PlaceLoose(is, cores) ==
  [i \in Irqs |-> IF i \in is \ Managed /\ (\A c \in Cores : aff[i] # {c}) THEN cores ELSE aff[i]]

\* Writes to smp_affinity_list; those of managed interrupts fail.
Place(is, cores) == [i \in Irqs |-> IF i \in is \ Managed THEN cores ELSE aff[i]]

PinNicIrqs ==
  /\ pc = "pin" /\ pc' = "evict"
  /\ nicIrqs' = FindNicIrqs(T.port)
  /\ aff' = Place(FindNicIrqs(T.port), {T.core})
  /\ UNCHANGED << tuners, k, irqbalance, moves, renumbered, runs >>

\* Everything else off the core: cpuListExcluding().
EvictOtherIrqs ==
  /\ pc = "evict" /\ pc' = "applied"
  /\ aff' = Place(Irqs \ (nicIrqs \cup {0}), Without(Cores, T.core))
  /\ UNCHANGED << tuners, k, nicIrqs, irqbalance, moves, renumbered, runs >>

\* The end of the constructor, for nfs_safe with the boost of sshd.
Applied ==
  /\ pc = "applied" /\ k' = k + 1
  /\ pc' = IF k < Len(tuners) THEN "irqbalance" ELSE "transport"
  /\ UNCHANGED << tuners, nicIrqs, aff, irqbalance, moves, renumbered, runs >>

\* init() of the transport.  AF_XDP collapses the channels and binds after the tuner: of
\* the ports' interrupts any may be renumbered, and then has the default affinity.
TransportUp ==
  /\ pc = "transport" /\ pc' = "loop"
  /\ renumbered' \in SUBSET UNION { FindNicIrqs(tuners[j].port) : j \in DOMAIN tuners }
  /\ aff' = Place(renumbered', Cores)
  /\ UNCHANGED << tuners, k, nicIrqs, irqbalance, moves, runs >>

\* The daemon puts an interrupt on one core.
Rebalance(i, cores) ==
  /\ irqbalance /\ i \notin Managed
  /\ aff' = [aff EXCEPT ![i] = cores]
  /\ UNCHANGED << tuners, k, pc, nicIrqs, irqbalance, moves, renumbered, runs >>

\* The run ends or is killed; the destructor closes a socket, no more.
End ==
  /\ pc # "off" /\ pc' = "off" /\ k' = 0 /\ tuners' = << >> /\ nicIrqs' = {}
  /\ failedMoves' = {} /\ isolated' = FALSE /\ renumbered' = {}
  /\ UNCHANGED << aff, irqbalance, kthreads, workqueues, runs >>

Finished == pc = "off" /\ runs = MaxRuns /\ UNCHANGED vars

Next ==
  \/ Begin(<< >>)
  \/ \E p \in {TxPort, RxPort}, c \in Cores : Begin(<< Tuner(p, c) >>)
  \/ \E hot, rec \in Cores : Begin(<< Tuner(TxPort, hot), Tuner(RxPort, rec) >>)
  \/ StopIrqbalance \/ Migrate \/ Isolate \/ PinNicIrqs \/ EvictOtherIrqs \/ Applied
  \/ TransportUp
  \/ \E i \in Irqs \ {0}, c \in Balanced : Rebalance(i, {c})
  \/ End \/ Finished

Spec == Init /\ [][Next]_vars

-----------------------------------------------------------------------------
(***************************************************************************)
(* While the loop of a tuned run is under way and irqbalance is stopped,   *)
(* the port tuned last has its interrupts on its core and nobody else's is *)
(* there, whatever earlier runs on other cores and ports, killed ones      *)
(* among them, left; interrupt 0, managed ones and those the run's own     *)
(* transport had renumbered after the tuner apart.                         *)
(*                                                                         *)
(* What the last tuner moved without a FAIL is on no core that a tuner of  *)
(* the run was given, core 0 apart, unless the last one was given core 0:  *)
(* then tuna spreads the threads over all other cores, the first tuner's   *)
(* among them.  Where tuna ran, there are no threads on the last core,     *)
(* core 0 or not, FAIL or not.                                             *)
(***************************************************************************)
CoreIsOurs ==
  pc = "loop" /\ tuners # << >> =>
    LET last == tuners[Len(tuners)]
    IN  /\ ~irqbalance =>
             \A q \in Irqs \ (Managed \cup renumbered \cup {0}) :
               IF last.port \in Mentions[q] THEN aff[q] = {last.core}
               ELSE last.core \notin aff[q]
        /\ \A j \in DOMAIN tuners : tuners[j].core # 0 =>
             /\ "workqueues" \notin failedMoves => tuners[j].core \notin workqueues
             /\ "kthreads" \notin failedMoves /\ last.core # 0 => tuners[j].core \notin kthreads
        /\ isolated => last.core \notin kthreads
=============================================================================
