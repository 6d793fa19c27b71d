----------------------------- MODULE Lifecycle -----------------------------
(***************************************************************************)
(* How the backends that own a device acquire and give back what they own: *)
(* Verbs, EtherFabricVirtualInterface, Intel_I210 and the SocketOps of     *)
(* packet_mmap.  init() acquires resources one after the other and stops   *)
(* at the first failure, with whatever it has by then; the destructor and  *)
(* shutdown() release what is held, in a fixed order; Intel_I210 and       *)
(* SocketOps can also be moved.  A resource is <<creator, kind>>.  The     *)
(* process is one thread; an operation under way is the record op.         *)
(* AFXDP, whose port outlives the process, is module XdpPort; the DPDK     *)
(* port, whose teardown is rte_eal's, is module DpdkBringUp.               *)
(***************************************************************************)
EXTENDS Naturals, Sequences, FiniteSets

CONSTANT
  Objs          \* the C++ objects of one backend type a process may create

Backends == {"verbs", "efvi", "i210", "packet_mmap"}
Modes == {"tx", "rx", "rxtx"}
HasTx(m) == m # "rx"
HasRx(m) == m # "tx"
Movable == {"i210", "packet_mmap"}

(***************************************************************************)
(* The steps of init(): the kinds each acquires before it tests the        *)
(* outcome; {} is a call that acquires nothing and may fail.               *)
(***************************************************************************)
VerbsRxInit == << {}, {"posted"}, {"flow"} >>

VerbsInit(m) ==
  << {"ctx"}, {"pd"}, {"sendCq", "recvCq"}, {"buf"}, {"mr"}, {"qp"}, {} >>
    \o IF HasRx(m) THEN VerbsRxInit ELSE << >>

\* Only the X2522Plus tuning probes its descriptors, and it may refuse.
InitX2522PlusTx == << {} >>
EfViRxInit == << {"filter"}, {"posted"}, {} >>

EfViInit(m) ==
  << {}, {"driver"}, {"pd"}, {}, {"vi"}, {}, {"mem"}, {"memreg"} >>
    \o InitX2522PlusTx
    \o IF HasRx(m) THEN EfViRxInit ELSE << >>

I210InitRx == << {"rxRing"}, {"rxBuffer"}, {"rxEngine"}, {} >>
I210InitTx == << {"txRing"}, {"txBuffer"}, {}, {"txEngine"} >>

I210Init(m) ==
  << {"pci"}, {} >>
    \o (IF HasRx(m) THEN I210InitRx ELSE << >>)
    \o (IF HasTx(m) THEN I210InitTx ELSE << >>)

SocketOpsCtor(m) == << {"fd"}, {}, {"ring"}, {} >>

InitSteps(b, m) ==
  CASE b = "verbs" -> VerbsInit(m)
    [] b = "efvi" -> EfViInit(m)
    [] b = "i210" -> I210Init(m)
    [] b = "packet_mmap" -> SocketOpsCtor(m)

\* Posting buffers and setting an enable bit report no failure.
Infallible == {"posted", "rxEngine", "txEngine"}

(***************************************************************************)
(* What shutdown() releases, in order: the kinds one call gives back.      *)
(* Destroying a QP or freeing a VI stops its DMA into posted buffers; the  *)
(* I210's shutdown only stops the DMA engines.                             *)
(***************************************************************************)
VerbsShutdown ==
  << {"flow"}, {"posted", "qp"}, {"sendCq"}, {"recvCq"}, {"mr"}, {"buf"}, {"pd"}, {"ctx"} >>

EfViShutdown ==
  << {"filter", "posted", "vi"}, {"memreg"}, {"mem"}, {"pd"}, {"driver"} >>

\* Mutant of I210Shutdown: the receive engine is left on.
I210ShutdownTxOnly == << {"txEngine"} >>

I210Shutdown == << {"rxEngine"}, {"txEngine"} >>

ShutdownSeq(b) ==
  CASE b = "verbs" -> VerbsShutdown
    [] b = "efvi" -> EfViShutdown
    [] b = "i210" -> I210Shutdown
    [] b = "packet_mmap" -> << >>

\* The destructor: shutdown(), then the members, last declared first.
I210Members == << {"txBuffer"}, {"txRing"}, {"rxBuffer"}, {"rxRing"}, {"pci"} >>
SocketOpsDtor == << {"ring"}, {"fd"} >>

DtorSeq(b) ==
  ShutdownSeq(b) \o
    CASE b = "i210" -> I210Members
      [] b = "packet_mmap" -> SocketOpsDtor
      [] OTHER -> << >>

\* Move assignment releases the target's own resources member by member.
I210Assign == << {"pci"}, {"rxRing"}, {"rxBuffer"}, {"txRing"}, {"txBuffer"} >>
AssignSeq(b) == IF b = "i210" THEN I210Shutdown \o I210Assign ELSE SocketOpsDtor

(***************************************************************************)
(* What the device library, the kernel or the NIC requires of a live       *)
(* resource: the parents it was created from, and the memory the NIC is    *)
(* still armed to access.                                                  *)
(***************************************************************************)
Needs(b, k) ==
  CASE b = "verbs" ->
         (CASE k \in {"pd", "sendCq", "recvCq"} -> {"ctx"}
            [] k = "mr" -> {"pd", "buf"}
            [] k = "qp" -> {"pd", "sendCq", "recvCq"}
            [] k = "posted" -> {"qp", "mr"}
            [] k = "flow" -> {"qp"}
            [] OTHER -> {})
    [] b = "efvi" ->
         (CASE k = "pd" -> {"driver"}
            [] k = "vi" -> {"pd", "driver"}
            [] k = "memreg" -> {"pd", "mem"}
            [] k = "filter" -> {"vi"}
            [] k = "posted" -> {"vi", "memreg"}
            [] OTHER -> {})
    [] b = "i210" ->
         (CASE k = "rxEngine" -> {"pci", "rxRing", "rxBuffer"}
            [] k = "txEngine" -> {"pci", "txRing", "txBuffer"}
            [] OTHER -> {})
    [] OTHER -> {}

VARIABLES
  backend, mode,   \* the transport of this process, fixed
  st,              \* "none", "up" (constructed), "gone" per object
  handles,         \* the resources an object's members refer to
  live,            \* the resources that exist
  op               \* the operation under way

vars == << backend, mode, st, handles, live, op >>

Kinds == UNION { UNION { InitSteps(b, m)[i] : i \in DOMAIN InitSteps(b, m) } :
                   b \in Backends, m \in Modes }

Idle == [do |-> "idle"]

TypeOK ==
  /\ backend \in Backends /\ mode \in Modes
  /\ st \in [Objs -> {"none", "up", "gone"}]
  /\ handles \in [Objs -> SUBSET (Objs \X Kinds)]
  /\ live \subseteq Objs \X Kinds
  /\ \/ op \in {Idle, [do |-> "terminated"]}
     \/ /\ op.do = "init" /\ op.o \in Objs
        /\ op.at \in 1 .. Len(InitSteps(backend, mode)) + 1
     \/ /\ op.do = "release" /\ op.o \in Objs /\ op.at \in Nat
        /\ op.then \in {"return", "destroy"} \cup Objs

Init ==
  /\ backend \in Backends /\ mode \in Modes
  /\ st = [o \in Objs |-> "none"]
  /\ handles = [o \in Objs |-> {}]
  /\ live = {}
  /\ op = Idle

Release(o, seq, then) == [do |-> "release", o |-> o, at |-> 1, seq |-> seq, then |-> then]

\* Mutant of BringUp: starts before the first step.
BringUpFromZero(o) ==
  /\ op = Idle /\ st[o] = "none"
  /\ st' = IF backend = "packet_mmap" THEN st ELSE [st EXCEPT ![o] = "up"]
  /\ op' = [do |-> "init", o |-> o, at |-> 0]
  /\ UNCHANGED << backend, mode, handles, live >>

\* An object is constructed and brought up once.  SocketOps has no init():
\* its constructor does the work, and the object exists only if it returns.
BringUp(o) ==
  /\ op = Idle /\ st[o] = "none"
  /\ st' = IF backend = "packet_mmap" THEN st ELSE [st EXCEPT ![o] = "up"]
  /\ op' = [do |-> "init", o |-> o, at |-> 1]
  /\ UNCHANGED << backend, mode, handles, live >>

\* One step: both calls of a pair are made before the test, so a failed step
\* keeps what it got.  init() returns false; SocketOps throws out of main().
InitStep ==
  /\ op.do = "init" /\ op.at <= Len(InitSteps(backend, mode))
  /\ LET want == {op.o} \X InitSteps(backend, mode)[op.at]
     IN  \/ /\ handles' = [handles EXCEPT ![op.o] = @ \cup want]
            /\ live' = live \cup want
            /\ op' = [op EXCEPT !.at = @ + 1]
         \/ \E got \in SUBSET want :
              /\ want = {} \/ got # want
              /\ \A r \in want : r[2] \notin Infallible
              /\ IF backend = "packet_mmap"
                   THEN /\ op' = [do |-> "terminated"]
                        /\ live' = {}
                        /\ handles' = [o \in Objs |-> {}]
                   ELSE /\ op' = Idle
                        /\ live' = live \cup got
                        /\ handles' = [handles EXCEPT ![op.o] = @ \cup got]
  /\ UNCHANGED << backend, mode, st >>

InitDone ==
  /\ op.do = "init" /\ op.at = Len(InitSteps(backend, mode)) + 1
  /\ st' = [st EXCEPT ![op.o] = "up"]
  /\ op' = Idle
  /\ UNCHANGED << backend, mode, handles, live >>

\* A caller may shut an object down before it is destroyed, and may do so
\* again.  I210's shutdown() returns at once when the bus is not open.
Shutdown(o) ==
  /\ op = Idle /\ st[o] = "up" /\ backend # "packet_mmap"
  /\ backend = "i210" => \E h \in handles[o] : h[2] = "pci"
  /\ op' = Release(o, ShutdownSeq(backend), "return")
  /\ UNCHANGED << backend, mode, st, handles, live >>

Destroy(o) ==
  /\ op = Idle /\ st[o] = "up"
  /\ op' = Release(o, DtorSeq(backend), "destroy")
  /\ UNCHANGED << backend, mode, st, handles, live >>

\* Each release is guarded by its handle and nulls it.
ReleaseStep ==
  /\ op.do = "release" /\ op.at <= Len(op.seq)
  /\ LET freed == { h \in handles[op.o] : h[2] \in op.seq[op.at] }
     IN  /\ handles' = [handles EXCEPT ![op.o] = @ \ freed]
         /\ live' = live \ freed
  /\ op' = [op EXCEPT !.at = @ + 1]
  /\ UNCHANGED << backend, mode, st >>

\* Mutant of MoveMembers: the source keeps its handles.
MoveCopies(to, from) ==
  handles' = [handles EXCEPT ![to] = handles[from]]

\* The members change hands; std::exchange nulls the source's.
MoveMembers(to, from) ==
  handles' = [handles EXCEPT ![to] = handles[from], ![from] = {}]

ReleaseDone ==
  /\ op.do = "release" /\ op.at > Len(op.seq)
  /\ op' = Idle
  /\ IF op.then = "destroy"
       THEN st' = [st EXCEPT ![op.o] = "gone"] /\ UNCHANGED handles
       ELSE /\ UNCHANGED st
            /\ IF op.then \in Objs THEN MoveMembers(op.o, op.then) ELSE UNCHANGED handles
  /\ UNCHANGED << backend, mode, live >>

MoveConstruct(to, from) ==
  /\ op = Idle /\ backend \in Movable
  /\ st[to] = "none" /\ st[from] = "up"
  /\ st' = [st EXCEPT ![to] = "up"]
  /\ MoveMembers(to, from)
  /\ UNCHANGED << backend, mode, live, op >>

\* operator=(&&): not for the object itself; the target lets go first.
MoveAssign(to, from) ==
  /\ op = Idle /\ backend \in Movable /\ to # from
  /\ st[to] = "up" /\ st[from] = "up"
  /\ op' = Release(to, AssignSeq(backend), from)
  /\ UNCHANGED << backend, mode, st, handles, live >>

\* main() has returned, or terminate() ended the process.
Finished ==
  /\ \/ op.do = "terminated"
     \/ op = Idle /\ \A o \in Objs : st[o] = "gone"
  /\ UNCHANGED vars

Next ==
  \/ \E o \in Objs : BringUp(o) \/ Shutdown(o) \/ Destroy(o)
  \/ InitStep \/ InitDone \/ ReleaseStep \/ ReleaseDone
  \/ \E to, from \in Objs : MoveConstruct(to, from) \/ MoveAssign(to, from)
  \/ Finished

Spec == Init /\ [][Next]_vars

-----------------------------------------------------------------------------
(***************************************************************************)
(* Wherever init() stops, and however shutdown, destruction and moves      *)
(* follow each other, nothing is released while something built on it is   *)
(* alive, and no NIC is still armed for DMA into memory that is gone.      *)
(***************************************************************************)
DependenciesLive ==
  \A r \in live : \A k \in Needs(backend, r[2]) : << r[1], k >> \in live

(***************************************************************************)
(* Every resource that exists is referred to by exactly one object that    *)
(* has not been destroyed, and every reference is to a resource that       *)
(* exists: nothing leaks when init() fails half way, nothing is released   *)
(* twice after a move.                                                     *)
(***************************************************************************)
HeldOnce ==
  /\ \A o \in Objs : handles[o] \subseteq live
  /\ \A r \in live :
       /\ Cardinality({ o \in Objs : r \in handles[o] }) = 1
       /\ \A o \in Objs : r \in handles[o] => st[o] # "gone"

=============================================================================
