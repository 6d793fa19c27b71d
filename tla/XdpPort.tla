------------------------------ MODULE XdpPort ------------------------------
(***************************************************************************)
(* AFXDP objects over the network ports they bind, across process runs.    *)
(* A port outlives the process: an XDP program stays attached and the      *)
(* netdev-wide NAPI deferral knobs keep their values when a run aborts or  *)
(* is killed, and the next run's init() has to cope.  Sockets, umem areas  *)
(* and mappings die with the process.  Within a run, objects are brought   *)
(* up, moved and shut down by one thread; init() and shutdown() are split  *)
(* at every call that changes the port or a member, so a run can end       *)
(* between any two of them.                                                *)
(***************************************************************************)
EXTENDS Naturals, FiniteSets

CONSTANTS
  Ports,        \* network interfaces
  Objs,         \* AFXDP objects of one process
  Regimes,      \* the NAPI regimes configurations ask for
  QueueIds,     \* the values of xdp_queue_id
  Refusing,     \* ports whose kernel may keep a program it is asked to detach
  MaxRuns       \* bound: process runs

RegimesAssumption == Regimes \subseteq {"off", "deferral", "irqSuspend"} /\ Refusing \subseteq Ports

\* init()'s resolution of the two flags: irq-suspend implies deferral.
NapiDefer(r) == r # "off"
NapiGro(r) == r # "off"
NapiSusp(r) == r = "irqSuspend"
Knobs == [defer: BOOLEAN, gro: BOOLEAN]
Napi == [defer: BOOLEAN, gro: BOOLEAN, susp: BOOLEAN]
NapiOf(r) == [defer |-> NapiDefer(r), gro |-> NapiGro(r), susp |-> NapiSusp(r)]
Inherit(k) == [defer |-> k.defer, gro |-> k.gro, susp |-> FALSE]

\* The members of an AFXDP object that own something, or steer its release.
Blank == [st |-> "none", port |-> "none", rx |-> FALSE, path |-> FALSE, queue |-> 0, regime |-> "off",
          ifindex |-> FALSE, prog |-> FALSE, customBpf |-> FALSE,
          buffer |-> FALSE, umem |-> FALSE, xsk |-> FALSE]

InitPcs == {"clear", "knobs", "steer", "load", "umem", "socket", "map", "verify"}
ShutdownPcs == {"socketDel", "umemDel", "munmap", "progDetach", "detach", "end"}

VARIABLES
  attached,   \* the XDP program on each port: "none", "stale", "custom", "default"
  knob,       \* /sys/class/net/<port>/{napi_defer_hard_irqs, gro_flush_timeout}
  napi,       \* the parameters the port's live NAPI runs with
  channels,   \* its combined channels: RX queues 0 .. channels - 1
  nic,        \* the objects
  live,       \* kernel and library resources of the run: <<port, kind>>
  warned,     \* ports about which this run printed a WARN
  refused,    \* history: ports of which the kernel did not take a program off when asked
  pc,         \* the operation under way: [at, o, then]
  runs

vars == << attached, knob, napi, channels, nic, live, warned, refused, pc, runs >>

Idle == [at |-> "idle"]
Dead == [at |-> "dead"]
At(a) == pc.at = a
Goto(a) == pc' = [pc EXCEPT !.at = a]
Me == nic[pc.o]
Port == Me.port

TypeOK ==
  /\ attached \in [Ports -> {"none", "stale", "custom", "default"}]
  /\ knob \in [Ports -> Knobs] /\ napi \in [Ports -> Napi] /\ channels \in [Ports -> {1, 2}]
  /\ \A o \in Objs :
       /\ DOMAIN nic[o] = DOMAIN Blank
       /\ nic[o].st \in {"none", "new", "failed", "ready", "gone"}
       /\ nic[o].port \in Ports \cup {"none"} /\ nic[o].regime \in Regimes \cup {"off"}
       /\ nic[o].queue \in QueueIds \cup {0}
       /\ \A f \in DOMAIN Blank \ {"st", "port", "queue", "regime"} : nic[o][f] \in BOOLEAN
  /\ live \subseteq Ports \X {"buffer", "umem", "xsk", "prog", "entry"}
  /\ warned \subseteq Ports /\ refused \subseteq Refusing
  /\ pc.at \in {"idle", "dead"} \cup InitPcs \cup ShutdownPcs
  /\ runs \in 1 .. MaxRuns

\* The first run finds ports as earlier runs of any configuration left them.
Init ==
  /\ attached \in [Ports -> {"none", "stale"}]
  /\ \E r \in Regimes : /\ knob = [p \in Ports |-> [defer |-> NapiDefer(r), gro |-> NapiGro(r)]]
                        /\ napi = [p \in Ports |-> NapiOf(r)]
  /\ \E n \in {1, 2} : channels = [p \in Ports |-> n]
  /\ nic = [o \in Objs |-> Blank]
  /\ live = {} /\ warned = {} /\ refused = {} /\ pc = Idle /\ runs = 1

\* abort(), a signal, or the end of main(): the kernel reclaims the process's
\* resources, the port keeps its program and its knobs.
Die ==
  /\ nic' = [o \in Objs |-> Blank]
  /\ live' = {} /\ pc' = Dead

(***************************************************************************)
(* Construction and init().                                                *)
(***************************************************************************)
Construct(o, p, rx, path, q) ==
  /\ At("idle") /\ nic[o].st = "none"
  /\ path => rx
  /\ \A x \in Objs : nic[x].port # p
  /\ nic' = [nic EXCEPT ![o] = [Blank EXCEPT !.st = "new", !.port = p, !.rx = rx, !.path = path,
                                          !.queue = q]]
  /\ UNCHANGED << channels, attached, knob, napi, live, warned, pc, refused, runs >>

BeginInit(o, r) ==
  /\ At("idle") /\ nic[o].st = "new"
  /\ \A x \in Objs : nic[x].port = nic[o].port => ~nic[x].ifindex
  /\ \/ /\ nic' = [nic EXCEPT ![o].regime = r, ![o].st = "failed"]     \* bad interface
        /\ UNCHANGED pc
     \/ /\ nic' = [nic EXCEPT ![o].regime = r, ![o].ifindex = TRUE]
        /\ pc' = [at |-> "clear", o |-> o]
  /\ UNCHANGED << channels, attached, knob, napi, live, warned, refused, runs >>

\* Mutant of ClearXdpProgram: what an earlier run left attached stays.
ClearNothing ==
  /\ At("clear") /\ Goto("knobs")
  /\ UNCHANGED << channels, attached, knob, napi, nic, live, warned, refused, runs >>

\* Best effort: no rtnetlink socket means a WARN and whatever was attached.  A send()
\* that fails and the kernel's refusal mean that too, but "cleared" is printed.
ClearXdpProgram ==
  /\ At("clear") /\ Goto("knobs")
  /\ \/ attached' = [attached EXCEPT ![Port] = "none"] /\ UNCHANGED << warned, refused >>
     \/ warned' = warned \cup {Port} /\ UNCHANGED << attached, refused >>
     \/ /\ attached[Port] # "none" /\ Port \in Refusing /\ refused' = refused \cup {Port}
        /\ UNCHANGED << attached, warned >>
  /\ UNCHANGED << channels, knob, napi, nic, live, runs >>

\* Mutant of ApplyNapiDeferralSysfs: the knobs are not zeroed when deferral is off.
ApplyOnlyWhenEnabled ==
  /\ At("knobs") /\ Goto("steer")
  /\ knob' = IF Me.regime = "off" THEN knob
             ELSE [knob EXCEPT ![Port] = [defer |-> TRUE, gro |-> TRUE]]
  /\ UNCHANGED << channels, attached, napi, nic, live, warned, refused, runs >>

\* Both knobs on every init, zeros included; each write may fail with a WARN.
ApplyNapiDeferralSysfs ==
  /\ At("knobs") /\ Goto("steer")
  /\ \E okDefer, okGro \in BOOLEAN :
       /\ knob' = [knob EXCEPT
            ![Port].defer = IF okDefer THEN NapiDefer(Me.regime) ELSE @,
            ![Port].gro = IF okGro THEN NapiGro(Me.regime) ELSE @]
       /\ warned' = IF okDefer /\ okGro THEN warned ELSE warned \cup {Port}
  /\ UNCHANGED << channels, attached, napi, nic, live, refused, runs >>

\* Mutant of SteerAllTrafficToQueue: a refused change of the channels goes unsaid.
SteerSilently ==
  /\ At("steer") /\ Goto("load")
  /\ \/ UNCHANGED << channels, warned >>
     \/ Me.rx /\ Me.queue = 0 /\ channels' = [channels EXCEPT ![Port] = 1] /\ UNCHANGED warned
     \/ Me.rx /\ Me.queue # 0 /\ warned' = warned \cup {Port} /\ UNCHANGED channels
  /\ UNCHANGED << attached, knob, napi, nic, live, refused, runs >>

\* RX only.  All RX goes to queue 0: combined=1, read back, which may recreate
\* the NAPI with the knobs it inherits.  A socket on another queue gets a WARN
\* and no steering, and so does a port that cannot be told or asked.
SteerAllTrafficToQueue ==
  /\ At("steer") /\ Goto("load")
  /\ \/ ~Me.rx /\ UNCHANGED << napi, channels, warned >>
     \/ /\ Me.rx /\ Me.queue = 0
        /\ channels' = [channels EXCEPT ![Port] = 1]
        /\ \/ UNCHANGED napi
           \/ channels[Port] # 1 /\ napi' = [napi EXCEPT ![Port] = Inherit(knob[Port])]
        /\ UNCHANGED warned
     \/ /\ Me.rx
        /\ channels' \in {channels} \cup
             (IF Me.queue = 0 THEN {[channels EXCEPT ![Port] = 1]} ELSE {})
        /\ napi' \in {napi} \cup
             (IF channels' # channels THEN {[napi EXCEPT ![Port] = Inherit(knob[Port])]} ELSE {})
        /\ warned' = warned \cup {Port}
  /\ UNCHANGED << attached, knob, nic, live, refused, runs >>

\* A program that cannot be opened or attached (a leftover one blocks the
\* attach) is closed again; the socket then brings libxdp's default program.
LoadXdpProgram ==
  /\ At("load") /\ Goto("umem")
  /\ \/ /\ Me.path /\ attached[Port] = "none"
        /\ attached' = [attached EXCEPT ![Port] = "custom"]
        /\ nic' = [nic EXCEPT ![pc.o].prog = TRUE, ![pc.o].customBpf = TRUE]
        /\ live' = live \cup {<< Port, "prog" >>}
     \/ UNCHANGED << attached, nic, live >>
  /\ UNCHANGED << channels, knob, napi, warned, refused, runs >>

\* mmap, xsk_umem__create and, for RX, the FILL ring: a failure aborts.
XskConfigureUmem ==
  /\ At("umem")
  /\ \/ /\ nic' = [nic EXCEPT ![pc.o].buffer = TRUE, ![pc.o].umem = TRUE]
        /\ live' = live \cup {<< Port, "buffer" >>, << Port, "umem" >>}
        /\ Goto("socket")
     \/ Die
  /\ UNCHANGED << channels, attached, knob, napi, warned, refused, runs >>

\* The ladder of bind modes, abort when all fail.  An RX socket without a
\* custom program gets libxdp's; what happens to one left over by another
\* run is libxdp's business.  The bind may recreate the NAPI.
XskConfigureSocket ==
  /\ At("socket")
  /\ \/ /\ nic' = [nic EXCEPT ![pc.o].xsk = TRUE]
        /\ \E left \in {"default"} \cup ({attached[Port]} \ {"none"}) :
             /\ attached' = IF Me.rx /\ ~Me.customBpf THEN [attached EXCEPT ![Port] = left]
                            ELSE attached
             /\ live' = live \cup {<< Port, "xsk" >>} \cup
                  (IF Me.rx /\ ~Me.customBpf /\ left = "default" THEN {<< Port, "entry" >>} ELSE {})
        /\ napi' \in {napi, [napi EXCEPT ![Port] = Inherit(knob[Port])]}
        /\ Goto("map")
     \/ Die /\ UNCHANGED << attached, napi >>
  /\ UNCHANGED << channels, knob, warned, refused, runs >>

\* Mutant of EnterXsksIntoMap: only libxdp's own program gets its entry.
EnterNothing ==
  /\ At("map") /\ Goto("verify")
  /\ UNCHANGED << attached, knob, napi, channels, nic, live, warned, refused, runs >>

\* The custom program's XSKMAP entry for the socket's queue, or a WARN.
EnterXsksIntoMap ==
  /\ At("map") /\ Goto("verify")
  /\ \/ Me.rx /\ Me.customBpf /\ live' = live \cup {<< Port, "entry" >>} /\ UNCHANGED warned
     \/ Me.rx /\ Me.customBpf /\ warned' = warned \cup {Port} /\ UNCHANGED live
     \/ ~(Me.rx /\ Me.customBpf) /\ UNCHANGED << live, warned >>
  /\ UNCHANGED << attached, knob, napi, channels, nic, refused, runs >>

\* NAPI_SET on the live NAPI, its ACK, and NAPI_GET: a refused set, a lost ACK,
\* a readback that is missing or differs is a WARN (or "FAILED"), no NAPI id
\* as well, and init() returns true.
VerifyConfig ==
  /\ At("verify")
  /\ pc' = Idle
  /\ nic' = [nic EXCEPT ![pc.o].st = "ready"]
  /\ \/ napi' = [napi EXCEPT ![Port] = NapiOf(Me.regime)] /\ UNCHANGED warned
     \/ /\ napi' \in {napi, [napi EXCEPT ![Port] = NapiOf(Me.regime)]}
        /\ warned' = warned \cup {Port}
  /\ UNCHANGED << attached, knob, channels, live, refused, runs >>

(***************************************************************************)
(* shutdown(): each member is tested, released and nulled in turn.  It     *)
(* runs from the destructor, from a caller, and from move assignment.      *)
(***************************************************************************)
BeginShutdown(o, then) ==
  /\ At("idle") /\ nic[o].st \in {"new", "failed", "ready"}
  /\ then \in {"return", "destroy"} \cup
       { x \in Objs \ {o} : nic[x].st \in {"new", "failed", "ready"} }
  /\ pc' = [at |-> "socketDel", o |-> o, then |-> then]
  /\ UNCHANGED << channels, attached, knob, napi, nic, live, warned, refused, runs >>

\* The map entry goes with the socket it names, or with its map.
Free(kind) ==
  IF Me[kind] THEN /\ nic' = [nic EXCEPT ![pc.o][kind] = FALSE]
                   /\ live' = live \ ({<< Port, kind >>} \cup
                        (IF kind \in {"xsk", "prog"} THEN {<< Port, "entry" >>} ELSE {}))
              ELSE UNCHANGED << nic, live >>

\* Mutant of ShutdownSocket: the umem is never deleted.
ShutdownSocketSkipsUmem ==
  /\ At("socketDel") /\ Free("xsk") /\ Goto("munmap")
  /\ UNCHANGED << channels, attached, knob, napi, warned, refused, runs >>

ShutdownSocket ==
  /\ At("socketDel") /\ Free("xsk") /\ Goto("umemDel")
  /\ UNCHANGED << channels, attached, knob, napi, warned, refused, runs >>

ShutdownUmem ==
  /\ At("umemDel") /\ Free("umem") /\ Goto("munmap")
  /\ UNCHANGED << channels, attached, knob, napi, warned, refused, runs >>

ShutdownBuffer ==
  /\ At("munmap") /\ Free("buffer") /\ Goto("progDetach")
  /\ UNCHANGED << channels, attached, knob, napi, warned, refused, runs >>

\* xdp_program__detach, whose answer is not looked at, and close.
ShutdownProg ==
  /\ At("progDetach") /\ Free("prog") /\ Goto("detach")
  /\ \/ attached' = IF Me.prog THEN [attached EXCEPT ![Port] = "none"] ELSE attached
     \/ Me.prog /\ Port \in Refusing /\ UNCHANGED attached
  /\ UNCHANGED << channels, knob, napi, warned, refused, runs >>

\* Mutant of ShutdownDetach: the program is not detached.
DetachOnlyCustom ==
  /\ At("detach") /\ Goto("end")
  /\ nic' = [nic EXCEPT ![pc.o].ifindex = FALSE]
  /\ UNCHANGED << channels, attached, knob, napi, live, warned, refused, runs >>

\* bpf_xdp_detach in both modes: this also takes libxdp's default program off.  Its
\* answer is not looked at either; a program that stays is a leftover from here on.
ShutdownDetach ==
  /\ At("detach") /\ Goto("end")
  /\ \/ ~Me.ifindex /\ UNCHANGED << attached, refused >>
     \/ Me.ifindex /\ attached' = [attached EXCEPT ![Port] = "none"] /\ UNCHANGED refused
     \/ /\ Me.ifindex /\ attached[Port] # "none" /\ Port \in Refusing
        /\ attached' = [attached EXCEPT ![Port] = "stale"] /\ refused' = refused \cup {Port}
  /\ nic' = [nic EXCEPT ![pc.o].ifindex = FALSE]
  /\ UNCHANGED << channels, knob, napi, live, warned, runs >>

(***************************************************************************)
(* Moves.                                                                  *)
(***************************************************************************)
\* Mutant of MovedFrom: the source's interface name dangles.
MovedDangles(o) ==
  [nic[o] EXCEPT !.port = "moved", !.xsk = FALSE, !.umem = FALSE, !.buffer = FALSE,
                 !.prog = FALSE, !.ifindex = FALSE]

\* Mutant of MovedFrom: the source keeps the umem.
MovedKeepsUmem(o) ==
  [nic[o] EXCEPT !.xsk = FALSE, !.buffer = FALSE, !.prog = FALSE, !.ifindex = FALSE]

\* What moveFrom() leaves in its source: nothing that the destructor acts on.
MovedFrom(o) ==
  [nic[o] EXCEPT !.xsk = FALSE, !.umem = FALSE, !.buffer = FALSE,
                 !.prog = FALSE, !.ifindex = FALSE]

MoveFrom(to, from) == nic' = [nic EXCEPT ![to] = nic[from], ![from] = MovedFrom(from)]

ShutdownEnd ==
  /\ At("end") /\ pc' = Idle
  /\ IF pc.then \in Objs THEN MoveFrom(pc.o, pc.then)
     ELSE nic' = IF pc.then = "destroy" THEN [nic EXCEPT ![pc.o] = [Blank EXCEPT !.st = "gone"]]
                 ELSE [nic EXCEPT ![pc.o].st = "failed"]
  /\ UNCHANGED << channels, attached, knob, napi, live, warned, refused, runs >>

MoveConstruct(to, from) ==
  /\ At("idle") /\ nic[to].st = "none" /\ nic[from].st \in {"new", "failed", "ready"}
  /\ MoveFrom(to, from)
  /\ UNCHANGED << channels, attached, knob, napi, live, warned, pc, refused, runs >>

(***************************************************************************)
(* The process.                                                            *)
(***************************************************************************)
Crash ==
  /\ ~At("dead") /\ Die
  /\ UNCHANGED << channels, attached, knob, napi, warned, refused, runs >>

\* Another run on the same ports; a program still attached is now a leftover.
\* In between the channels may have been set back (ethtool -L, a driver reload).
Restart ==
  /\ At("dead") /\ runs < MaxRuns
  /\ runs' = runs + 1 /\ pc' = Idle /\ warned' = {} /\ refused' = {}
  /\ attached' = [p \in Ports |-> IF attached[p] = "none" THEN "none" ELSE "stale"]
  /\ channels' \in {channels, [p \in Ports |-> 2]}
  /\ UNCHANGED << knob, napi, nic, live >>

Finished == At("dead") /\ runs = MaxRuns /\ UNCHANGED vars

Next ==
  \/ \E o \in Objs, p \in Ports, rx, path \in BOOLEAN, q \in QueueIds : Construct(o, p, rx, path, q)
  \/ \E o \in Objs, r \in Regimes : BeginInit(o, r)
  \/ ClearXdpProgram \/ ApplyNapiDeferralSysfs \/ SteerAllTrafficToQueue
  \/ LoadXdpProgram \/ XskConfigureUmem \/ XskConfigureSocket
  \/ EnterXsksIntoMap \/ VerifyConfig
  \/ \E o \in Objs, t \in {"return", "destroy"} \cup Objs : BeginShutdown(o, t)
  \/ ShutdownSocket \/ ShutdownUmem \/ ShutdownBuffer \/ ShutdownProg
  \/ ShutdownDetach \/ ShutdownEnd
  \/ \E to, from \in Objs : MoveConstruct(to, from)
  \/ Crash \/ Restart \/ Finished

Spec == Init /\ [][Next]_vars

-----------------------------------------------------------------------------
Bound(o) == nic[o].xsk /\ nic[o].st = "ready"

(***************************************************************************)
(* A resource exists exactly while one object's member refers to it, so    *)
(* moves and shutdowns in any order neither leak a socket, umem area,      *)
(* mapping or program handle nor delete one twice.                         *)
(***************************************************************************)
HeldOnce ==
  \A p \in Ports, kind \in {"buffer", "umem", "xsk", "prog"} :
    Cardinality({ o \in Objs : nic[o].port = p /\ nic[o][kind] })
      = IF << p, kind >> \in live THEN 1 ELSE 0

(***************************************************************************)
(* The socket goes before its umem and the umem before the memory under    *)
(* it: the kernel never has a UMEM over pages that are no longer mapped.   *)
(***************************************************************************)
ReleaseOrder ==
  \A p \in Ports :
    /\ << p, "xsk" >> \in live => << p, "umem" >> \in live
    /\ << p, "umem" >> \in live => << p, "buffer" >> \in live

\* The two programs on a timing frame that arrives on RX queue q of port p:
\* redirected to the socket the XSKMAP has under that queue, passed otherwise.
XdpSockProg(p, q) ==
  IF attached[p] \in {"custom", "default"} /\ << p, "entry" >> \in live
  THEN { o \in Objs : nic[o].port = p /\ nic[o].xsk /\ nic[o].queue = q }
  ELSE {}

(***************************************************************************)
(* A bound RX socket hears the whole port: a timing frame on any RX queue  *)
(* is redirected to it by this run's own program, whatever program, entry  *)
(* or channel count an earlier run left there and wherever the object has  *)
(* been moved since.  There are two exceptions: this run has printed a     *)
(* WARN, or a leftover program is still there that the kernel, asked to    *)
(* detach it, kept (nobody reads its answer, so this one is silent).       *)
(***************************************************************************)
HearsEveryFrame ==
  \A o \in Objs :
    Bound(o) /\ nic[o].rx /\ nic[o].port \notin warned =>
      \/ attached[nic[o].port] = "stale" /\ nic[o].port \in refused
      \/ /\ attached[nic[o].port] = IF nic[o].customBpf THEN "custom" ELSE "default"
         /\ \A q \in 0 .. channels[nic[o].port] - 1 : XdpSockProg(nic[o].port, q) = {o}

(***************************************************************************)
(* A run leaves a program of its own on a port only by dying or because    *)
(* the kernel refused to detach it: otherwise, as long as it runs, some    *)
(* object still holds the ifindex that will detach it.                     *)
(***************************************************************************)
ProgramHasOwner ==
  \A p \in Ports :
    ~At("dead") /\ attached[p] \in {"custom", "default"} =>
      \E o \in Objs : nic[o].port = p /\ nic[o].ifindex

(***************************************************************************)
(* A bound port runs under the regime this run asked for, in the knobs     *)
(* that outlive it and in the live NAPI: a deferral that an earlier run    *)
(* enabled never survives silently.                                        *)
(***************************************************************************)
NoStaleRegime ==
  \A o \in Objs :
    Bound(o) /\ nic[o].port \notin warned =>
      /\ napi[nic[o].port] = NapiOf(nic[o].regime)
      /\ knob[nic[o].port] = [defer |-> NapiDefer(nic[o].regime), gro |-> NapiGro(nic[o].regime)]

=============================================================================
