---------------------------- MODULE DpdkBringUp -----------------------------
(***************************************************************************)
(* Bringing up one DPDK port, or the pair of the one-way benchmark, and    *)
(* taking it down.  The EAL is process-global and initialised once, with   *)
(* the devices registered by then; a looped link comes up only when both   *)
(* of its ports have been started.                                         *)
(***************************************************************************)
EXTENDS Integers, Sequences, FiniteSets

VARIABLES pair,        \* --single: two ports in one process
          mode,        \* "vfio", "bifurcated" or "afxdp", of each port
          step,        \* position in the program
          prepared,    \* m_prepared
          allowed,     \* g_allowedBdfs
          vdevs,       \* g_vdevs
          probed,      \* the devices rte_eal_init() saw
          ealInited,   \* g_ealInited
          pools,       \* ports whose mbuf pool exists
          started,     \* m_started
          stops,       \* rte_eth_dev_stop() calls of each port
          blindWait,   \* a link was waited for with a port still down
          result       \* the exit status, or "none"

vars == <<pair, mode, step, prepared, allowed, vdevs, probed, ealInited, pools, started,
          stops, blindWait, result>>

AllPorts == {"tx", "rx"}

Ports == IF pair THEN AllPorts ELSE {"tx"}

Op(o, p) == [op |-> o, port |-> p]

\* Mutant of PairProgram: each port is brought up whole, the EAL before the second prepare().
PairInitFirst ==
    <<Op("prepare", "tx"), Op("eal", "tx"), Op("start", "tx"), Op("prepare", "rx"),
      Op("eal", "rx"), Op("start", "rx"), Op("wait", "tx"), Op("wait", "rx"),
      Op("run", "tx"), Op("stop", "rx"), Op("stop", "tx")>>

\* Mutant of PairProgram: the first port waits for its link before the second starts.
PairWaitsEach ==
    <<Op("prepare", "tx"), Op("prepare", "rx"), Op("eal", "tx"), Op("start", "tx"),
      Op("wait", "tx"), Op("eal", "rx"), Op("start", "rx"), Op("wait", "rx"),
      Op("run", "tx"), Op("stop", "rx"), Op("stop", "tx")>>

\* DpdkTraits::withSinglePair(), with the destructors at its end.
PairProgram ==
    <<Op("prepare", "tx"), Op("prepare", "rx"), Op("eal", "tx"), Op("start", "tx"),
      Op("eal", "rx"), Op("start", "rx"), Op("wait", "tx"), Op("wait", "rx"),
      Op("run", "tx"), Op("stop", "rx"), Op("stop", "tx")>>

\* DpdkTraits::init() of a single port, and its destructor.
PortProgram ==
    <<Op("prepare", "tx"), Op("eal", "tx"), Op("start", "tx"), Op("wait", "tx"),
      Op("run", "tx"), Op("stop", "tx")>>

Program == IF pair THEN PairProgram ELSE PortProgram

Init ==
    /\ pair \in BOOLEAN
    /\ mode \in [AllPorts -> {"vfio", "bifurcated", "afxdp"}]
    /\ step = 1
    /\ prepared = {} /\ allowed = {} /\ vdevs = {} /\ probed = {}
    /\ ealInited = FALSE
    /\ pools = {} /\ started = {}
    /\ stops = [p \in AllPorts |-> 0]
    /\ blindWait = FALSE
    /\ result = "none"

At(o) == step <= Len(Program) /\ Program[step].op = o

Port == Program[step].port

\* A failing step returns 1: the destructors of the ports still run.
FirstStop == CHOOSE i \in 1 .. Len(Program) :
                 Program[i].op = "stop" /\ \A j \in 1 .. i - 1 : Program[j].op # "stop"

Fail ==
    /\ result' = "error"
    /\ step' = FirstStop

Advance == step' = step + 1 /\ UNCHANGED result

\* prepare(): the device is registered, after the vfio bind where there is one.
Prepare ==
    /\ At("prepare")
    /\ prepared' = prepared \cup {Port}
    /\ IF mode[Port] = "afxdp"
       THEN vdevs' = vdevs \cup {Port} /\ UNCHANGED allowed
       ELSE allowed' = allowed \cup {Port} /\ UNCHANGED vdevs
    /\ Advance
    /\ UNCHANGED <<pair, mode, probed, ealInited, pools, started, stops, blindWait>>

\* prepare(): no BDF, or the bind fails.
PrepareFails ==
    /\ At("prepare")
    /\ mode[Port] # "afxdp"
    /\ Fail
    /\ UNCHANGED <<pair, mode, prepared, allowed, vdevs, probed, ealInited, pools, started,
                   stops, blindWait>>

\* ealInit(): the first call initialises the EAL with what is registered.
EalInit ==
    /\ At("eal")
    /\ ~ealInited
    /\ allowed' = IF vdevs = {} THEN allowed \cup {Port} ELSE allowed
    /\ probed' = IF vdevs # {} THEN vdevs ELSE allowed'
    /\ ealInited' = TRUE
    /\ Advance
    /\ UNCHANGED <<pair, mode, prepared, vdevs, pools, started, stops, blindWait>>

EalAlready ==
    /\ At("eal")
    /\ ealInited
    /\ Advance
    /\ UNCHANGED <<pair, mode, prepared, allowed, vdevs, probed, ealInited, pools, started,
                   stops, blindWait>>

\* ealInit(): rte_eal_init() fails.
EalFails ==
    /\ At("eal")
    /\ ~ealInited
    /\ allowed' = IF vdevs = {} THEN allowed \cup {Port} ELSE allowed
    /\ Fail
    /\ UNCHANGED <<pair, mode, prepared, vdevs, probed, ealInited, pools, started, stops,
                   blindWait>>

\* init() from the look-up of the port to rte_eth_dev_start().
Start ==
    /\ At("start")
    /\ Port \in probed
    /\ pools' = pools \cup {Port}
    /\ started' = started \cup {Port}
    /\ Advance
    /\ UNCHANGED <<pair, mode, prepared, allowed, vdevs, probed, ealInited, stops, blindWait>>

\* init(): one of these calls fails, before or after the pool is created.
StartFails ==
    /\ At("start")
    /\ pools' \in IF Port \in probed THEN {pools, pools \cup {Port}} ELSE {pools}
    /\ Fail
    /\ UNCHANGED <<pair, mode, prepared, allowed, vdevs, probed, ealInited, started, stops,
                   blindWait>>

\* waitLink(): up to 200 queries, then it goes on whatever the link does.
WaitLink ==
    /\ At("wait")
    /\ blindWait' = (blindWait \/ ~(Ports \subseteq started))
    /\ Advance
    /\ UNCHANGED <<pair, mode, prepared, allowed, vdevs, probed, ealInited, pools, started,
                   stops>>

\* The benchmark runs and returns.
Run ==
    /\ At("run")
    /\ step' = step + 1
    /\ result' = "ok"
    /\ UNCHANGED <<pair, mode, prepared, allowed, vdevs, probed, ealInited, pools, started,
                   stops, blindWait>>

\* Mutant of Stop: no test of m_started.
StopUnchecked ==
    /\ At("stop")
    /\ stops' = [stops EXCEPT ![Port] = @ + 1]
    /\ started' = started \ {Port}
    /\ Advance
    /\ UNCHANGED <<pair, mode, prepared, allowed, vdevs, probed, ealInited, pools, blindWait>>

\* shutdown(): a port that was started is stopped.
Stop ==
    /\ At("stop")
    /\ stops' = [stops EXCEPT ![Port] = IF Port \in started THEN @ + 1 ELSE @]
    /\ started' = started \ {Port}
    /\ Advance
    /\ UNCHANGED <<pair, mode, prepared, allowed, vdevs, probed, ealInited, pools, blindWait>>

Exited == step > Len(Program) /\ UNCHANGED vars

Next == Prepare \/ PrepareFails \/ EalInit \/ EalAlready \/ EalFails \/ Start \/ StartFails
        \/ WaitLink \/ Run \/ Stop \/ Exited

Spec == Init /\ [][Next]_vars

-----------------------------------------------------------------------------

\* Type invariant: the sets hold ports of this process.
TypeOK ==
    /\ {prepared, allowed, vdevs, probed, pools, started} \subseteq SUBSET Ports
    /\ step \in 1 .. Len(Program) + 1
    /\ stops \in [AllPorts -> Nat]
    /\ result \in {"none", "ok", "error"}

SameKind == (mode["tx"] = "afxdp") = (mode["rx"] = "afxdp")

\* The one initialisation of the EAL sees every port of the process, so no port is missing
\* later; only a pair of a PCI port and an AF_XDP port cannot share an EAL.
EveryPortProbed == ealInited /\ (pair => SameKind) => Ports \subseteq probed

\* Nobody waits for a link before both of its ports are started.
NoBlindWait == ~blindWait

\* Whatever fails, a port is stopped exactly once if it was started, and never otherwise.
StoppedOnce ==
    step > Len(Program) =>
        /\ started = {}
        /\ \A p \in Ports : stops[p] <= 1 /\ (stops[p] = 1 => p \in pools)
        /\ result = "ok" => \A p \in Ports : stops[p] = 1
=============================================================================
