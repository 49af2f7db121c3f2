--------------------------- MODULE ServicesProofs ---------------------------
(* The seven programs of MCServices and the trainer server: the service       *)
(* worker for any number of services and hooks and any choice of autoStart;   *)
(* the session cache for any keys and limit; the post-forward runtime for any *)
(* edges; the flash RAM for any keys and values; the job graph for any graph; *)
(* the circuit breaker for any threshold, timeout and callers; the pools for  *)
(* any tasks and sizes; the trainer server for any processes and chunks.      *)
EXTENDS ServiceWorker, SessionCache, PostForward, FlashRam, JobGraph,
        CircuitBreaker, TaskPool, TrainerServer,
        FiniteSetTheorems, SequenceTheorems, WellFoundedInduction, TLAPS

-----------------------------------------------------------------------------
(* The service worker.                                                        *)

ServiceStates == {"Stopped", "Starting", "Running", "Failed", "Stopping"}
StopperPlaces == {"none", "next", "stopping", "done"}
RestartPlaces == {"stopping", "stopped", "starting"}

\* A service is restarted three times at most.
RestartsBounded == restarts \in [Services -> 0 .. 3]

(* StartAsync is over before StopAsync begins, and what the monitor does to a *)
(* service after the cancel is in revived.                                    *)
WInv ==
    /\ state \in [Services -> ServiceStates] /\ RestartsBounded
    /\ monitor.svc \in Nat \ {0}
    /\ monitor.pc \in RestartPlaces => monitor.svc \in Services
    /\ monitor.pc = "stopping" => restarts[monitor.svc] < 3
    /\ starter.pc # "all" => tasks = {}
    /\ starter.pc = "up" => starter.svc = Hook
    /\ stopper.pc # "none" => starter.pc = "up" /\ cancelled
    /\ stopper.svc \in 0 .. NServices
    /\ stopper.pc = "stopping" => stopper.svc \in Services
    /\ stopper.pc = "done" => stopper.svc = 0
    /\ StoppedStays

Records ==
    /\ monitor = [pc |-> monitor.pc, svc |-> monitor.svc]
    /\ stopper = [pc |-> stopper.pc, svc |-> stopper.svc]
    /\ starter = [pc |-> starter.pc, at |-> starter.at, svc |-> starter.svc]

-----------------------------------------------------------------------------
LEMMA InvInit == ASSUME NServices \in Nat, WorkerInit PROVE WInv /\ Records
BY DEF WorkerInit, WInv, Records, RestartsBounded, StoppedStays, Services, ServiceStates,
       RestartPlaces, Hook

\* Before the stop StoppedStays asks for nothing.
LEMMA StarterSafe ==
    ASSUME NServices \in Nat, WInv, Records, Starter PROVE WInv' /\ Records'
<1>1. starter.pc # "up"
    BY DEF WInv, Starter, StartAsync, RunHook, BeginAuto, EndAuto, StartParallel, WhenAll,
           StartMonitor, TaskEnd, InPhase
<1>2. stopper.pc = "none" /\ stopper' = stopper
    BY <1>1 DEF WInv, Starter, StartAsync, RunHook, BeginAuto, EndAuto, StartParallel,
                WhenAll, StartMonitor, TaskEnd, HostVars
<1>3. StoppedStays'
    BY <1>2 DEF StoppedStays
<1>4. state' \in [Services -> ServiceStates]
    <2>1. CASE StartParallel
        BY <2>1 DEF StartParallel, WInv, ServiceStates
    <2>2. CASE EndAuto \/ \E s \in Services : TaskEnd(s)
        BY <2>2 DEF EndAuto, TaskEnd, Started, WInv, ServiceStates
    <2>3. CASE BeginAuto
        BY <2>3 DEF BeginAuto, WInv, ServiceStates
    <2>4. CASE StartAsync \/ RunHook \/ WhenAll \/ StartMonitor
        BY <2>4 DEF StartAsync, RunHook, WhenAll, StartMonitor, WInv
    <2> QED
        BY <2>1, <2>2, <2>3, <2>4 DEF Starter
<1>5. /\ UNCHANGED <<restarts, cancelled>> /\ monitor'.svc = monitor.svc
      /\ monitor' = [pc |-> monitor'.pc, svc |-> monitor'.svc]
      /\ monitor'.pc \in {monitor.pc, "top"}
    BY DEF Records, Starter, StartAsync, RunHook, BeginAuto, EndAuto, StartParallel, WhenAll,
           StartMonitor, TaskEnd, HostVars
<1>6. /\ starter'.pc # "all" => tasks' = {}
      /\ starter'.pc = "up" => starter'.svc = Hook
      /\ starter' = [pc |-> starter'.pc, at |-> starter'.at, svc |-> starter'.svc]
    <2> USE DEF WInv, Records
    <2>1. CASE StartAsync \/ StartParallel
        BY <2>1 DEF StartAsync, StartParallel
    <2>2. CASE RunHook \/ BeginAuto
        BY <1>1, <2>2 DEF RunHook, BeginAuto
    <2>3. CASE EndAuto
        BY <1>1, <2>3 DEF EndAuto
    <2>4. CASE WhenAll \/ StartMonitor
        BY <2>4 DEF WhenAll, StartMonitor
    <2>5. CASE \E s \in Services : TaskEnd(s)
        BY <1>1, <2>5 DEF TaskEnd
    <2> QED
        BY <2>1, <2>2, <2>3, <2>4, <2>5 DEF Starter
<1> QED
    BY <1>2, <1>3, <1>4, <1>5, <1>6 DEF WInv, Records, RestartsBounded, RestartPlaces

LEMMA MonitorSafe ==
    ASSUME NServices \in Nat, WInv, Records, Monitor PROVE WInv' /\ Records'
<1> USE DEF WInv, Records, RestartsBounded, RestartPlaces, MonitorVars
<1>1. CASE MonitorTop \/ UpdateOverall \/ Delay
    BY <1>1 DEF MonitorTop, UpdateOverall, Delay, StoppedStays, Services
<1>2. CASE Inspect
    <2> DEFINE s == monitor.svc
    <2>1. s \in Services /\ monitor.pc = "scan" /\ UNCHANGED <<restarts, overall, MonitorVars>>
        <3>1. s \in 1 .. NServices
            <4>1. s # 0
                BY DEF WInv
            <4> QED
                BY <1>2, <4>1 DEF Inspect
        <3> QED
            BY <1>2, <3>1 DEF Inspect, Services
    <2>2. CASE NeedsRestart(s)
        <3>1. /\ state' = [state EXCEPT ![s] = "Stopping"] /\ restarts[s] < 3
              /\ monitor' = [monitor EXCEPT !.pc = "stopping"]
              /\ revived' = IF cancelled THEN revived \union {s} ELSE revived
            BY <1>2, <2>2 DEF Inspect, NeedsRestart
        <3>2. StoppedStays'
            BY <2>1, <3>1 DEF StoppedStays
        <3>3. state' \in [Services -> ServiceStates]
            BY <3>1 DEF ServiceStates
        <3>4. monitor' = [pc |-> "stopping", svc |-> s]
            BY <3>1
        <3> QED
            BY <2>1, <3>1, <3>2, <3>3, <3>4
    <2>3. CASE ~NeedsRestart(s)
        <3>1. monitor' = [pc |-> "scan", svc |-> s + 1] /\ UNCHANGED <<state, revived>>
            BY <1>2, <2>1, <2>3 DEF Inspect
        <3>2. StoppedStays'
            BY <2>1, <3>1 DEF StoppedStays
        <3> QED
            BY <2>1, <3>1, <3>2
    <2> QED
        BY <2>2, <2>3
<1>3. CASE RestartStopped
    <2> DEFINE s == monitor.svc
    <2>1. /\ state' = [state EXCEPT ![s] = "Stopped"] /\ s \in Services
          /\ restarts' = [restarts EXCEPT ![s] = restarts[s] + 1] /\ restarts[s] < 3
          /\ monitor' = [pc |-> "stopped", svc |-> s]
          /\ UNCHANGED <<overall, revived, MonitorVars>>
        BY <1>3 DEF RestartStopped
    <2>2. restarts' \in [Services -> 0 .. 3]
        <3>1. restarts[s] + 1 \in 0 .. 3
            BY <2>1
        <3> QED
            BY <2>1, <3>1
    <2>3. StoppedStays'
        BY <2>1 DEF StoppedStays
    <2>4. state' \in [Services -> ServiceStates]
        BY <2>1 DEF ServiceStates
    <2> QED
        BY <2>1, <2>2, <2>3, <2>4
<1>4. CASE RestartStarts
    BY <1>4 DEF RestartStarts, StoppedStays, Services, ServiceStates
<1>5. CASE RestartEnds
    <2> DEFINE s == monitor.svc
    <2>1. PICK r \in {"Running", "Failed"} : state' = [state EXCEPT ![s] = r]
        BY <1>5 DEF RestartEnds, Started
    <2>2. /\ monitor' = [pc |-> "scan", svc |-> s + 1] /\ s \in Services
          /\ revived' = IF cancelled THEN revived \union {s} ELSE revived
          /\ UNCHANGED <<restarts, overall, MonitorVars>>
        BY <1>5 DEF RestartEnds
    <2>3. StoppedStays'
        BY <2>1, <2>2 DEF StoppedStays
    <2>4. state' \in [Services -> ServiceStates]
        BY <2>1 DEF ServiceStates
    <2>5. s + 1 \in Nat \ {0}
        OBVIOUS
    <2> QED
        BY <2>2, <2>3, <2>4, <2>5
<1> QED
    BY <1>1, <1>2, <1>3, <1>4, <1>5 DEF Monitor

LEMMA StopperSafe ==
    ASSUME NServices \in Nat, WInv, Records, StopAsync \/ Stopper PROVE WInv' /\ Records'
<1> USE DEF WInv, Records, RestartsBounded, RestartPlaces, StopperVars
<1>1. CASE StopAsync
    BY <1>1 DEF StopAsync, StoppedStays, Services
<1>2. CASE StopBegins
    <2> DEFINE s == stopper.svc
    <2>1. /\ s \in Services /\ stopper.pc = "next" /\ s > 0
          /\ UNCHANGED <<overall, cancelled, StopperVars>>
        BY <1>2 DEF StopBegins, Services
    <2>2. CASE Skips(s)
        <3>1. stopper' = [pc |-> "next", svc |-> s - 1] /\ state' = state
            BY <1>2, <2>1, <2>2 DEF StopBegins
        <3>2. StoppedStays'
            BY <2>1, <2>2, <3>1 DEF StoppedStays, Skips, Services
        <3> QED
            BY <2>1, <3>1, <3>2
    <2>3. CASE ~Skips(s)
        <3>1. /\ stopper' = [pc |-> "stopping", svc |-> s]
              /\ state' = [state EXCEPT ![s] = "Stopping"]
            BY <1>2, <2>1, <2>3 DEF StopBegins
        <3>2. StoppedStays'
            BY <2>1, <3>1 DEF StoppedStays, Services
        <3>3. state' \in [Services -> ServiceStates]
            BY <3>1 DEF ServiceStates
        <3> QED
            BY <2>1, <3>1, <3>2, <3>3
    <2> QED
        BY <2>2, <2>3
<1>3. CASE StopEnds
    BY <1>3 DEF StopEnds, StoppedStays, Services, ServiceStates
<1>4. CASE StopDone
    BY <1>4 DEF StopDone, StoppedStays, Services
<1> QED
    BY <1>1, <1>2, <1>3, <1>4 DEF Stopper

LEMMA InvStep ==
    ASSUME NServices \in Nat, WInv, Records, [WorkerNext]_workerVars
    PROVE  WInv' /\ Records'
<1>1. CASE UNCHANGED workerVars
    BY <1>1 DEF workerVars, WInv, Records, RestartsBounded, StoppedStays
<1> QED
    BY <1>1, StarterSafe, MonitorSafe, StopperSafe DEF WorkerNext

-----------------------------------------------------------------------------
(* The chain: hooks, then the autoStart services in order.                    *)

\* The constants a host has.
Sizes == NServices \in Nat /\ NHooks \in Nat /\ AutoStart \subseteq Services

LEMMA LeastOf ==
    ASSUME NEW S \in SUBSET Nat, S # {} PROVE \E x \in S : \A y \in S : x <= y
<1>1. PICK x \in S : \A y \in S : <<y, x>> \notin OpToRel(<, Nat)
    BY NatLessThanWellFounded, WFMin, Zenon
<1>2. ASSUME NEW y \in S PROVE x <= y
    <2>1. ~(y < x)
        BY <1>1, <<y, x>>[1] = y, <<y, x>>[2] = x, <<y, x>> \in Nat \X Nat DEF OpToRel
    <2> QED
        BY <2>1
<1> QED
    BY <1>2

LEMMA GreatestOf ==
    ASSUME NServices \in Nat, NEW T \in SUBSET Services, T # {}
    PROVE  \E x \in T : \A y \in T : y <= x
<1> DEFINE S == {NServices - t : t \in T}
<1>1. S \in SUBSET Nat /\ S # {}
    <2>1. \A t \in T : NServices - t \in Nat
        BY DEF Services
    <2> QED
        BY <2>1
<1> HIDE DEF S
<1>2. PICK d \in S : \A e \in S : d <= e
    BY <1>1, LeastOf
<1>3. PICK x \in T : d = NServices - x
    BY <1>2 DEF S
<1>4. ASSUME NEW y \in T PROVE y <= x
    <2>1. NServices - x <= NServices - y
        BY <1>2, <1>3 DEF S
    <2> QED
        BY <2>1 DEF Services
<1> QED
    BY <1>4

Ordered(T) ==
    \E f \in [1 .. Cardinality(T) -> T] :
        \A i, j \in 1 .. Cardinality(T) : i < j => f[i] < f[j]

LEMMA SetSizes ==
    ASSUME NServices \in Nat, NEW T \in SUBSET Services
    PROVE  IsFiniteSet(T) /\ Cardinality(T) \in Nat
<1>1. IsFiniteSet(Services)
    BY FS_Interval DEF Services
<1>2. IsFiniteSet(T)
    BY <1>1, FS_Subset
<1> QED
    BY <1>2, FS_CardinalityType

\* The greatest member goes behind the others.
LEMMA AppendGreatest ==
    ASSUME NServices \in Nat, NEW T \in SUBSET Services, NEW m \in T,
           \A y \in T : y <= m, Ordered(T \ {m})
    PROVE  Ordered(T)
<1> DEFINE n == Cardinality(T)
           U == T \ {m}
<1>1. n \in Nat /\ Cardinality(U) = n - 1 /\ Cardinality(U) \in Nat
    <2>1. IsFiniteSet(T) /\ n \in Nat
        BY SetSizes
    <2>2. Cardinality(U) = n - 1
        BY <2>1, FS_RemoveElement
    <2>3. Cardinality(U) \in Nat
        BY SetSizes
    <2> QED
        BY <2>1, <2>2, <2>3
<1>2. PICK g \in [1 .. n - 1 -> U] : \A i, j \in 1 .. n - 1 : i < j => g[i] < g[j]
    BY <1>1 DEF Ordered
<1> HIDE DEF n
<1> DEFINE f == [i \in 1 .. n |-> IF i = n THEN m ELSE g[i]]
<1>3. \A i \in 1 .. n : i # n => i \in 1 .. n - 1
    BY <1>1
<1>4. f \in [1 .. n -> T]
    BY <1>2, <1>3
<1>5. ASSUME NEW i \in 1 .. n, NEW j \in 1 .. n, i < j PROVE f[i] < f[j]
    <2>1. i \in 1 .. n - 1 /\ f[i] = g[i] /\ g[i] \in U
        BY <1>1, <1>2, <1>5
    <2>2. CASE j = n
        <3>1. /\ g[i] \in T /\ g[i] # m
              /\ \A y \in T : y \in Nat
            BY <2>1 DEF Services
        <3>2. g[i] <= m /\ g[i] \in Nat /\ m \in Nat
            BY <3>1
        <3> QED
            BY <2>1, <2>2, <3>1, <3>2
    <2>3. CASE j # n
        BY <1>2, <1>3, <1>5, <2>1, <2>3
    <2> QED
        BY <2>2, <2>3
<1> QED
    BY <1>4, <1>5 DEF Ordered, n

LEMMA EveryOrdered == ASSUME NServices \in Nat PROVE \A T \in SUBSET Services : Ordered(T)
<1> DEFINE Bad == {T \in SUBSET Services : ~Ordered(T)}
           B == {Cardinality(T) : T \in Bad}
<1> SUFFICES ASSUME Bad # {} PROVE FALSE
    OBVIOUS
<1>1. B \in SUBSET Nat /\ B # {}
    BY SetSizes
<1> HIDE DEF B
<1>2. PICK n \in B : \A k \in B : n <= k
    BY <1>1, LeastOf
<1>3. PICK T \in Bad : n = Cardinality(T)
    BY <1>2 DEF B
<1>4. CASE T = {}
    <2>1. Cardinality(T) = 0 /\ 1 .. 0 = {}
        BY <1>4, FS_EmptySet
    <2>2. [i \in {} |-> 0] \in [{} -> T]
        OBVIOUS
    <2>3. Ordered(T)
        BY <2>1, <2>2 DEF Ordered
    <2> QED
        BY <1>3, <2>3
<1>5. CASE T # {}
    <2>1. PICK m \in T : \A y \in T : y <= m
        BY <1>3, <1>5, GreatestOf
    <2> DEFINE U == T \ {m}
    <2>2. U \in SUBSET Services /\ Cardinality(U) = n - 1 /\ n \in Nat
        <3>1. IsFiniteSet(T) /\ n \in Nat
            BY <1>3, SetSizes
        <3> QED
            BY <1>3, <3>1, FS_RemoveElement
    <2>3. Ordered(U)
        <3>1. CASE U \in Bad
            <4>1. n - 1 \in B
                BY <2>2, <3>1 DEF B
            <4> QED
                BY <1>2, <2>2, <4>1
        <3> QED
            BY <2>2, <3>1
    <2> QED
        BY <1>3, <2>1, <2>3, AppendGreatest
<1> QED
    BY <1>4, <1>5

LEMMA ChainShape ==
    ASSUME Sizes
    PROVE  /\ Len(Chain) = NHooks + Cardinality(AutoStart) /\ Len(Chain) \in Nat
           /\ \A i \in 1 .. Len(Chain) : IF i <= NHooks THEN Chain[i] = Hook
                                                        ELSE Chain[i] \in Services
           /\ Split \in 0 .. Len(Chain)
           /\ AutoStart = Services => Split = NHooks
<1> DEFINE n == Cardinality(AutoStart)
<1>1. n \in Nat /\ NHooks \in Nat /\ NServices \in Nat
    BY SetSizes DEF Sizes
<1>2. Registered \in [1 .. n -> AutoStart]
    BY EveryOrdered DEF Sizes, Ordered, Registered
<1>3. AutoStart = Services => n = NServices
    BY <1>1, FS_Interval DEF Services
<1> HIDE DEF n
<1>4. Chain = [i \in 1 .. NHooks + n |-> IF i <= NHooks THEN Hook ELSE Registered[i - NHooks]]
    BY DEF Chain, n
<1>5. Len(Chain) = NHooks + n
    BY <1>1, <1>4
<1>6. ASSUME NEW i \in 1 .. NHooks + n, i > NHooks PROVE Chain[i] \in Services
    <2>1. i - NHooks \in 1 .. n
        BY <1>1, <1>6
    <2>2. Chain[i] = Registered[i - NHooks]
        BY <1>1, <1>4, <1>6
    <2> QED
        BY <1>2, <2>1, <2>2 DEF Sizes
<1>7. ASSUME NEW i \in 1 .. NHooks + n, i <= NHooks PROVE Chain[i] = Hook
    BY <1>4, <1>7
<1>8. Split \in 0 .. Len(Chain) /\ (AutoStart = Services => Split = NHooks)
    BY <1>1, <1>3, <1>5 DEF Split
<1> QED
    BY <1>1, <1>5, <1>6, <1>7, <1>8 DEF n

-----------------------------------------------------------------------------
(* Hooks before services.                                                     *)

\* Where the start is in the chain tells how many hooks have run; until they
\* all have, it is in the chain's first part and has touched no service.
StartInv ==
    /\ starter.pc \in {"none", "pre", "all", "post", "up"}
    /\ starter.at \in 1 .. Len(Chain) + 1
    /\ hooksRun = IF starter.at <= NHooks THEN starter.at - 1 ELSE NHooks
    /\ starter.svc # Hook =>
         starter.svc \in Services /\ starter.at > NHooks /\ starter.at <= Len(Chain)
    /\ starter.pc \in {"all", "post", "up"} => starter.at > Split
    /\ monitor.pc # "none" => starter.pc = "up"
    /\ tasks \subseteq Services /\ revived \subseteq Services
    /\ overall \in {"Stopped", "Starting", "Running", "Degraded", "Stopping"}
    /\ AutoStart = Services /\ starter.at <= NHooks => \A s \in Services : state[s] = "Stopped"

LEMMA StartInit == ASSUME Sizes, WorkerInit PROVE StartInv
<1>1. Len(Chain) \in Nat
    BY ChainShape
<1> QED
    BY <1>1 DEF StartInv, WorkerInit, Sizes

\* What the monitor and the stop do happens when all hooks have run.
LEMMA LaterKeeps ==
    ASSUME Sizes, StartInv, starter.pc = "up", UNCHANGED <<starter, tasks, hooksRun>>,
           revived' \subseteq Services,
           overall' \in {"Stopped", "Starting", "Running", "Degraded", "Stopping"}
    PROVE  StartInv'
<1>1. AutoStart = Services => ~(starter.at <= NHooks)
    BY ChainShape DEF StartInv, Sizes
<1> QED
    BY <1>1 DEF StartInv

\* The hooks are behind as soon as the start is past the chain's first part.
LEMMA HooksBehind ==
    ASSUME Sizes, StartInv, AutoStart = Services, starter.at > Split
    PROVE  ~(starter.at <= NHooks)
BY ChainShape DEF StartInv, Sizes

LEMMA StarterKeeps ==
    ASSUME Sizes, WInv, Records, StartInv, Starter PROVE StartInv'
<1> USE DEF StartInv
<1>1. /\ starter = [pc |-> starter.pc, at |-> starter.at, svc |-> starter.svc]
      /\ NHooks \in Nat /\ Hook \notin Services
      /\ starter.pc # "all" => tasks = {}
    BY DEF Records, Sizes, WInv, Hook, Services
<1>2. /\ Len(Chain) \in Nat /\ Split \in 0 .. Len(Chain)
      /\ \A i \in 1 .. Len(Chain) : IF i <= NHooks THEN Chain[i] = Hook
                                                   ELSE Chain[i] \in Services
    BY ChainShape
<1>3. CASE StartAsync
    BY <1>1, <1>2, <1>3 DEF StartAsync, HostVars
<1>4. CASE RunHook
    <2>1. starter.at \in 1 .. Len(Chain) /\ starter.svc = Hook /\ Chain[starter.at] = Hook
        BY <1>2, <1>4 DEF RunHook, InPhase
    <2>2. starter.at <= NHooks
        BY <1>1, <1>2, <2>1
    <2>3. /\ starter' = [starter EXCEPT !.at = starter.at + 1] /\ hooksRun' = hooksRun + 1
          /\ UNCHANGED <<state, overall, tasks, HostVars>>
        BY <1>4 DEF RunHook
    <2>4. /\ starter'.at = starter.at + 1 /\ starter'.pc = starter.pc
          /\ starter'.svc = starter.svc
        BY <1>1, <2>3
    <2>5. hooksRun' = IF starter'.at <= NHooks THEN starter'.at - 1 ELSE NHooks
        BY <1>1, <2>1, <2>2, <2>3, <2>4
    <2> QED
        BY <1>1, <1>2, <2>1, <2>2, <2>3, <2>4, <2>5 DEF HostVars
<1>5. CASE BeginAuto
    <2>1. starter.at \in 1 .. Len(Chain) /\ starter.svc = Hook /\ Chain[starter.at] # Hook
        BY <1>2, <1>5 DEF BeginAuto, InPhase
    <2>2. ~(starter.at <= NHooks) /\ Chain[starter.at] \in Services
        BY <1>2, <2>1
    <2>3. /\ starter' = [starter EXCEPT !.svc = Chain[starter.at]]
          /\ UNCHANGED <<overall, tasks, hooksRun, HostVars>>
        BY <1>5 DEF BeginAuto
    <2>4. /\ starter'.at = starter.at /\ starter'.pc = starter.pc
          /\ starter'.svc = Chain[starter.at]
        BY <1>1, <2>3
    <2> QED
        BY <1>1, <1>2, <2>1, <2>2, <2>3, <2>4 DEF HostVars
<1>6. CASE EndAuto
    <2>1. /\ starter.svc # Hook /\ starter' = [starter EXCEPT !.svc = Hook, !.at = starter.at + 1]
          /\ UNCHANGED <<overall, tasks, hooksRun, HostVars>>
        BY <1>6 DEF EndAuto
    <2>2. /\ starter'.at = starter.at + 1 /\ starter'.pc = starter.pc /\ starter'.svc = Hook
        BY <1>1, <2>1
    <2> QED
        BY <1>1, <1>2, <2>1, <2>2 DEF HostVars
<1>7. CASE StartParallel
    <2>1. /\ starter.pc = "pre" /\ starter' = [starter EXCEPT !.pc = "all"]
          /\ tasks' = {s \in Services : state[s] = "Stopped"}
          /\ UNCHANGED <<overall, hooksRun, HostVars>>
        BY <1>7 DEF StartParallel
    <2>2. starter.at > Split
        BY <1>2, <1>7, <2>1 DEF StartParallel, InPhase
    <2>3. starter'.at = starter.at /\ starter'.pc = "all" /\ starter'.svc = starter.svc
        BY <1>1, <2>1
    <2>4. AutoStart = Services => ~(starter.at <= NHooks)
        BY <2>2, HooksBehind
    <2> QED
        BY <1>1, <2>1, <2>2, <2>3, <2>4 DEF HostVars
<1>8. CASE WhenAll \/ \E s \in Services : TaskEnd(s)
    <2>1. starter.pc = "all"
        BY <1>1, <1>8 DEF WhenAll, TaskEnd
    <2>2. AutoStart = Services => ~(starter.at <= NHooks)
        BY <2>1, HooksBehind
    <2>3. CASE WhenAll
        BY <1>1, <2>2, <2>3 DEF WhenAll, HostVars
    <2>4. CASE \E s \in Services : TaskEnd(s)
        BY <2>1, <2>2, <2>4 DEF TaskEnd, HostVars
    <2> QED
        BY <1>8, <2>3, <2>4
<1>9. CASE StartMonitor
    <2>1. Overall \in {"Running", "Degraded"}
        BY DEF Overall
    <2>2. AutoStart = Services => ~(starter.at <= NHooks)
        BY <1>9, HooksBehind DEF StartMonitor
    <2>3. starter'.at = starter.at /\ starter'.pc = "up" /\ starter'.svc = starter.svc
        BY <1>1, <1>9 DEF StartMonitor
    <2> QED
        BY <1>9, <2>1, <2>2, <2>3 DEF StartMonitor
<1> QED
    BY <1>3, <1>4, <1>5, <1>6, <1>7, <1>8, <1>9 DEF Starter

LEMMA StartStep ==
    ASSUME Sizes, WInv, Records, StartInv, [WorkerNext]_workerVars PROVE StartInv'
<1>1. CASE Monitor
    <2>1. monitor.pc # "none" /\ starter.pc = "up"
        BY <1>1 DEF StartInv, Monitor, MonitorTop, Inspect, RestartStopped, RestartStarts,
                    RestartEnds, UpdateOverall, Delay
    <2>2. UNCHANGED <<starter, tasks, hooksRun>>
        BY <1>1 DEF Monitor, MonitorTop, Inspect, RestartStopped, RestartStarts,
                    RestartEnds, UpdateOverall, Delay, MonitorVars
    <2>3. monitor.pc = "scan" /\ monitor.svc <= NServices => monitor.svc \in Services
        BY DEF WInv, Sizes, Services
    <2>4. revived' \subseteq Services
        BY <1>1, <2>3 DEF StartInv, WInv, RestartPlaces, Monitor, MonitorTop, Inspect,
                    RestartStopped, RestartStarts, RestartEnds, UpdateOverall, Delay
    <2>5. overall' \in {overall, Overall}
        BY <1>1 DEF Monitor, MonitorTop, Inspect, RestartStopped, RestartStarts,
                    RestartEnds, UpdateOverall, Delay
    <2> QED
        BY <2>1, <2>2, <2>4, <2>5, LaterKeeps DEF StartInv, Overall
<1>2. CASE StopAsync \/ Stopper
    <2>1. starter.pc = "up"
        BY <1>2 DEF WInv, StopAsync, Stopper, StopBegins, StopEnds, StopDone
    <2>2. /\ UNCHANGED <<starter, tasks, hooksRun, revived>>
          /\ overall' \in {overall, "Stopping", "Stopped"}
        BY <1>2 DEF StopAsync, Stopper, StopBegins, StopEnds, StopDone, StopperVars
    <2> QED
        BY <2>1, <2>2, LaterKeeps DEF StartInv
<1>3. CASE UNCHANGED workerVars
    BY <1>3 DEF workerVars, StartInv
<1> QED
    BY <1>1, <1>2, <1>3, StarterKeeps DEF WorkerNext

LEMMA InvSafety == ASSUME Sizes, WInv, StartInv PROVE WorkerSafety
<1>1. hooksRun \in 0 .. NHooks /\ (hooksRun < NHooks => starter.at <= NHooks)
    BY ChainShape DEF StartInv, Sizes
<1>2. WorkerTypeOK
    BY <1>1 DEF WInv, StartInv, WorkerTypeOK, RestartsBounded, ServiceStates
<1>3. HooksFirst
    BY <1>1 DEF StartInv, HooksFirst
<1> QED
    BY <1>2, <1>3 DEF WInv, WorkerSafety

\* Hooks run before any service starts, when all are autoStart; what StopAsync
\* has gone past stays stopped, unless the health monitor was inside the scan
\* that took it up; nothing is restarted a fourth time: for any number of
\* services and hooks, started, failing and restarted in any order.
THEOREM WorkerSafe == ASSUME Sizes PROVE WorkerSpec => []WorkerSafety
<1>1. WorkerInit => WInv /\ Records /\ StartInv
    BY InvInit, StartInit DEF Sizes
<1>2. WInv /\ Records /\ StartInv /\ [WorkerNext]_workerVars => (WInv /\ Records /\ StartInv)'
    BY InvStep, StartStep DEF Sizes
<1>3. WInv /\ Records /\ StartInv => WorkerSafety
    BY InvSafety
<1> QED
    BY <1>1, <1>2, <1>3, PTL DEF WorkerSpec

-----------------------------------------------------------------------------
(* The session cache.                                                         *)

CacheEntry == [key : Keys, val : Nat, source : Sources]

\* A list s of entries with its dictionary of keys, what was used when, what is
\* in the file and what is design work, after c operations.
Listed(s, keys) ==
    /\ s \in Seq(CacheEntry) /\ Len(s) <= CacheLimit
    /\ \A i, j \in 1 .. Len(s) : s[i].key = s[j].key => i = j
    /\ \A i \in 1 .. Len(s) : s[i].key \in keys
    /\ \A k \in keys : \E i \in 1 .. Len(s) : s[i].key = k
Recent(s, use, c) ==
    /\ use \in [Keys -> 0 .. c]
    /\ \A i, j \in 1 .. Len(s) : i < j => use[s[i].key] > use[s[j].key]
Numbered(s, file, c) ==
    /\ \A i \in 1 .. Len(s) : s[i].val \in 1 .. c /\ s[i].val \notin file
    /\ \A i, j \in 1 .. Len(s) : s[i].val = s[j].val => i = j
Kept(s, file, work, c) ==
    /\ file \subseteq 1 .. c /\ work \subseteq 1 .. c
    /\ \A v \in work \ file : \E i \in 1 .. Len(s) : s[i].val = v /\ s[i].source = Design
Cache(s, keys, use, file, work, c) ==
    /\ c \in Nat
    /\ Listed(s, keys) /\ Recent(s, use, c) /\ Numbered(s, file, c) /\ Kept(s, file, work, c)

\* A node taken out of a list: where the others go.
Beyond(i, j) == IF j < i THEN j ELSE j + 1

LEMMA TakenOut ==
    ASSUME NEW T, NEW s \in Seq(T), NEW i \in 1 .. Len(s)
    PROVE  /\ RemoveAt(s, i) \in Seq(T) /\ Len(RemoveAt(s, i)) = Len(s) - 1 /\ Len(s) - 1 \in Nat
           /\ \A j \in 1 .. Len(s) - 1 :
                 /\ RemoveAt(s, i)[j] = s[Beyond(i, j)]
                 /\ Beyond(i, j) \in 1 .. Len(s) /\ Beyond(i, j) # i
           /\ \A m \in 1 .. Len(s) : m # i => \E j \in 1 .. Len(s) - 1 : m = Beyond(i, j)
           /\ \A j, k \in 1 .. Len(s) - 1 : j < k => Beyond(i, j) < Beyond(i, k)
<1>1. Len(s) \in Nat /\ i \in Nat /\ 1 <= i /\ i <= Len(s) /\ \A m \in 1 .. Len(s) : s[m] \in T
    BY LenProperties, ElementOfSeq
<1> DEFINE a == SubSeq(s, 1, i - 1)
           b == SubSeq(s, i + 1, Len(s))
<1>2. a \in Seq(T) /\ Len(a) = i - 1 /\ \A j \in 1 .. i - 1 : a[j] = s[j]
    <2>1. \A m \in 1 .. i - 1 : s[m] \in T
        BY <1>1
    <2>2. \A j \in 1 .. (i - 1) - 1 + 1 : a[j] = s[1 + j - 1]
        BY <1>1, <2>1, SubSeqProperties
    <2>3. a \in Seq(T) /\ Len(a) = i - 1
        BY <1>1, <2>1, SubSeqProperties
    <2> QED
        BY <1>1, <2>2, <2>3
<1>3. b \in Seq(T) /\ Len(b) = Len(s) - i /\ \A j \in 1 .. Len(s) - i : b[j] = s[i + j]
    <2>1. \A m \in i + 1 .. Len(s) : s[m] \in T
        BY <1>1
    <2>2. \A j \in 1 .. Len(s) - (i + 1) + 1 : b[j] = s[(i + 1) + j - 1]
        BY <1>1, <2>1, SubSeqProperties
    <2>3. b \in Seq(T) /\ Len(b) = Len(s) - i
        BY <1>1, <2>1, SubSeqProperties
    <2>4. 1 .. Len(s) - (i + 1) + 1 = 1 .. Len(s) - i /\ \A j \in 1 .. Len(s) - i : (i + 1) + j - 1 = i + j
        BY <1>1
    <2> QED
        BY <1>1, <2>2, <2>3, <2>4
<1>4. RemoveAt(s, i) = a \o b
    BY DEF RemoveAt
<1> HIDE DEF a, b
<1>5. /\ RemoveAt(s, i) \in Seq(T) /\ Len(RemoveAt(s, i)) = Len(s) - 1
      /\ \A j \in 1 .. Len(s) - 1 :
            RemoveAt(s, i)[j] = IF j <= i - 1 THEN a[j] ELSE b[j - (i - 1)]
    <2>1. /\ a \o b \in Seq(T) /\ Len(a \o b) = Len(a) + Len(b)
          /\ \A j \in 1 .. Len(a) + Len(b) :
                (a \o b)[j] = IF j <= Len(a) THEN a[j] ELSE b[j - Len(a)]
        BY <1>2, <1>3, ConcatProperties
    <2>2. Len(a) + Len(b) = Len(s) - 1
        BY <1>1, <1>2, <1>3
    <2> QED
        BY <1>2, <1>4, <2>1, <2>2
<1>6. ASSUME NEW j \in 1 .. Len(s) - 1
      PROVE  RemoveAt(s, i)[j] = s[Beyond(i, j)] /\ Beyond(i, j) \in 1 .. Len(s) /\ Beyond(i, j) # i
    <2>1. CASE j < i
        <3>1. RemoveAt(s, i)[j] = a[j] /\ a[j] = s[j]
            BY <1>1, <1>2, <1>5, <2>1
        <3> QED
            BY <1>1, <2>1, <3>1 DEF Beyond
    <2>2. CASE ~(j < i)
        <3>1. j - (i - 1) \in 1 .. Len(s) - i /\ i + (j - (i - 1)) = j + 1 /\ ~(j <= i - 1)
            BY <1>1, <2>2
        <3>2. RemoveAt(s, i)[j] = b[j - (i - 1)] /\ b[j - (i - 1)] = s[j + 1]
            BY <1>3, <1>5, <3>1
        <3> QED
            BY <1>1, <2>2, <3>2 DEF Beyond
    <2> QED
        BY <2>1, <2>2
<1>7. ASSUME NEW m \in 1 .. Len(s), m # i PROVE \E j \in 1 .. Len(s) - 1 : m = Beyond(i, j)
    <2>1. CASE m < i
        <3>1. m \in 1 .. Len(s) - 1 /\ m = Beyond(i, m)
            BY <1>1, <2>1 DEF Beyond
        <3> QED
            BY <3>1
    <2>2. CASE m > i
        <3>1. m - 1 \in 1 .. Len(s) - 1 /\ m = Beyond(i, m - 1)
            BY <1>1, <2>2 DEF Beyond
        <3> QED
            BY <3>1
    <2> QED
        BY <1>1, <1>7, <2>1, <2>2
<1>8. \A j, k \in 1 .. Len(s) - 1 : j < k => Beyond(i, j) < Beyond(i, k)
    BY <1>1 DEF Beyond
<1>9. Len(s) - 1 \in Nat
    BY <1>1
<1> QED
    BY <1>5, <1>6, <1>7, <1>8, <1>9

LEMMA PutFirst ==
    ASSUME NEW T, NEW s \in Seq(T), NEW e \in T
    PROVE  /\ <<e>> \o s \in Seq(T) /\ Len(<<e>> \o s) = Len(s) + 1 /\ Len(s) \in Nat
           /\ (<<e>> \o s)[1] = e
           /\ \A j \in 1 .. Len(s) : (<<e>> \o s)[j + 1] = s[j]
           /\ \A m \in 1 .. Len(s) + 1 : m = 1 \/ \E j \in 1 .. Len(s) : m = j + 1
<1>1. <<e>> \in Seq(T) /\ Len(<<e>>) = 1 /\ <<e>>[1] = e /\ Len(s) \in Nat
    BY LenProperties
<1>2. /\ <<e>> \o s \in Seq(T) /\ Len(<<e>> \o s) = 1 + Len(s)
      /\ \A i \in 1 .. 1 + Len(s) : (<<e>> \o s)[i] = IF i <= 1 THEN <<e>>[i] ELSE s[i - 1]
    BY <1>1, ConcatProperties
<1>3. ASSUME NEW m \in 1 .. Len(s) + 1 PROVE m = 1 \/ \E j \in 1 .. Len(s) : m = j + 1
    <2>1. m # 1 => m - 1 \in 1 .. Len(s) /\ m = (m - 1) + 1
        BY <1>1
    <2> QED
        BY <2>1
<1>4. ASSUME NEW j \in 1 .. Len(s) PROVE (<<e>> \o s)[j + 1] = s[j]
    <2>1. j + 1 \in 1 .. 1 + Len(s) /\ ~(j + 1 <= 1) /\ (j + 1) - 1 = j
        BY <1>1
    <2> QED
        BY <1>2, <2>1
<1>5. 1 \in 1 .. 1 + Len(s)
    BY <1>1
<1> QED
    BY <1>1, <1>2, <1>3, <1>4, <1>5

\* An entry leaves the list with its key and is no design work any more.
LEMMA DropKeeps ==
    ASSUME NEW s, NEW keys, NEW use, NEW file, NEW work, NEW c,
           Cache(s, keys, use, file, work, c), NEW i \in 1 .. Len(s)
    PROVE  /\ Cache(RemoveAt(s, i), keys \ {s[i].key}, use, file, work \ {s[i].val}, c)
           /\ Len(RemoveAt(s, i)) = Len(s) - 1
           /\ \A j \in 1 .. Len(RemoveAt(s, i)) :
                 RemoveAt(s, i)[j].val # s[i].val
<1> DEFINE r == RemoveAt(s, i)
<1> USE DEF Cache
<1>1. s \in Seq(CacheEntry) /\ Len(s) <= CacheLimit /\ c \in Nat /\ Len(s) \in Nat
    BY LenProperties DEF Listed
<1>2. /\ r \in Seq(CacheEntry) /\ Len(r) = Len(s) - 1 /\ Len(s) - 1 \in Nat
      /\ \A j \in 1 .. Len(s) - 1 :
            /\ r[j] = s[Beyond(i, j)]
            /\ Beyond(i, j) \in 1 .. Len(s) /\ Beyond(i, j) # i
      /\ \A m \in 1 .. Len(s) : m # i => \E j \in 1 .. Len(s) - 1 : m = Beyond(i, j)
      /\ \A j, k \in 1 .. Len(s) - 1 : j < k => Beyond(i, j) < Beyond(i, k)
    BY <1>1, TakenOut
<1> HIDE DEF r
<1>3. \A j, k \in 1 .. Len(r) : Beyond(i, j) = Beyond(i, k) => j = k
    <2> SUFFICES ASSUME NEW j \in 1 .. Len(r), NEW k \in 1 .. Len(r), j # k
                 PROVE  Beyond(i, j) # Beyond(i, k)
        OBVIOUS
    <2>1. j \in 1 .. Len(s) - 1 /\ k \in 1 .. Len(s) - 1 /\ j \in Nat /\ k \in Nat
        BY <1>2
    <2>2. Beyond(i, j) \in 1 .. Len(s) /\ Beyond(i, k) \in 1 .. Len(s)
        BY <1>2, <2>1
    <2>3. Beyond(i, j) \in Nat /\ Beyond(i, k) \in Nat
        BY <1>1, <2>2
    <2>4. j < k \/ k < j
        BY <2>1
    <2>5. Beyond(i, j) < Beyond(i, k) \/ Beyond(i, k) < Beyond(i, j)
        BY <1>2, <2>1, <2>4
    <2> QED
        BY <2>3, <2>5
<1>4. Listed(r, keys \ {s[i].key})
    <2>1. \A j, k \in 1 .. Len(r) : r[j].key = r[k].key => j = k
        BY <1>2, <1>3 DEF Listed
    <2>2. \A j \in 1 .. Len(r) : r[j].key \in keys \ {s[i].key}
        BY <1>2 DEF Listed
    <2>3. ASSUME NEW k \in keys \ {s[i].key} PROVE \E j \in 1 .. Len(r) : r[j].key = k
        <3>1. PICK m \in 1 .. Len(s) : s[m].key = k /\ m # i
            BY DEF Listed
        <3> QED
            BY <1>2, <3>1
    <2>4. Len(r) <= CacheLimit
        BY <1>1, <1>2, CacheAssumption
    <2> QED
        BY <1>2, <2>1, <2>2, <2>3, <2>4 DEF Listed
<1>5. Recent(r, use, c)
    BY <1>2 DEF Recent
<1>6. Numbered(r, file, c)
    <2>1. \A j \in 1 .. Len(r) : r[j].val \in 1 .. c /\ r[j].val \notin file
        BY <1>2 DEF Numbered
    <2>2. ASSUME NEW j \in 1 .. Len(r), NEW k \in 1 .. Len(r), r[j].val = r[k].val PROVE j = k
        <3>1. r[j] = s[Beyond(i, j)] /\ r[k] = s[Beyond(i, k)]
              /\ Beyond(i, j) \in 1 .. Len(s) /\ Beyond(i, k) \in 1 .. Len(s)
            BY <1>2
        <3>2. Beyond(i, j) = Beyond(i, k)
            BY <2>2, <3>1 DEF Numbered
        <3> QED
            BY <1>3, <3>2
    <2> QED
        BY <2>1, <2>2 DEF Numbered
<1>7. ASSUME NEW j \in 1 .. Len(r) PROVE r[j].val # s[i].val
    <2>1. r[j] = s[Beyond(i, j)] /\ Beyond(i, j) \in 1 .. Len(s) /\ Beyond(i, j) # i
        BY <1>2
    <2> QED
        BY <2>1 DEF Numbered
<1>8. Kept(r, file, work \ {s[i].val}, c)
    <2>1. ASSUME NEW v \in (work \ {s[i].val}) \ file
          PROVE  \E j \in 1 .. Len(r) : r[j].val = v /\ r[j].source = Design
        <3>1. PICK m \in 1 .. Len(s) : s[m].val = v /\ s[m].source = Design
            BY DEF Kept
        <3> QED
            BY <1>2, <3>1
    <2> QED
        BY <2>1 DEF Kept
<1> QED
    BY <1>1, <1>2, <1>4, <1>5, <1>6, <1>7, <1>8 DEF r

\* An entry comes to the front, used just now.
LEMMA PushKeeps ==
    ASSUME NEW s, NEW keys, NEW use, NEW file, NEW work, NEW c,
           Cache(s, keys, use, file, work, c), Len(s) < CacheLimit,
           NEW e \in CacheEntry, e.key \notin keys, e.key \in Keys,
           e.val \in 1 .. c + 1, e.val \notin file,
           \A i \in 1 .. Len(s) : s[i].val # e.val,
           NEW more, more \subseteq work \union (IF e.source = Design THEN {e.val} ELSE {})
    PROVE  Cache(<<e>> \o s, keys \union {e.key}, [use EXCEPT ![e.key] = c + 1], file, more, c + 1)
<1> DEFINE r == <<e>> \o s
           now == [use EXCEPT ![e.key] = c + 1]
<1> USE DEF Cache
<1>1. s \in Seq(CacheEntry) /\ Len(s) <= CacheLimit /\ c \in Nat /\ Len(s) \in Nat
    BY LenProperties DEF Listed
<1>2. /\ r \in Seq(CacheEntry) /\ Len(r) = Len(s) + 1 /\ r[1] = e
      /\ \A j \in 1 .. Len(s) : r[j + 1] = s[j]
      /\ \A m \in 1 .. Len(r) : m = 1 \/ \E j \in 1 .. Len(s) : m = j + 1
    BY <1>1, PutFirst
<1>3. /\ use \in [Keys -> 0 .. c] /\ now \in [Keys -> 0 .. c + 1] /\ now[e.key] = c + 1
      /\ \A k \in keys : k \in Keys => now[k] = use[k]
    BY <1>1 DEF Recent
<1> HIDE DEF r, now
<1>4. \A j \in 1 .. Len(s) : s[j].key \in keys /\ s[j].key \in Keys
    <2>1. \A j \in 1 .. Len(s) : s[j] \in CacheEntry
        BY <1>1, ElementOfSeq
    <2> QED
        BY <2>1 DEF CacheEntry, Listed
<1>5. Listed(r, keys \union {e.key})
    <2>1. ASSUME NEW i \in 1 .. Len(r), NEW j \in 1 .. Len(r), r[i].key = r[j].key PROVE i = j
        <3>1. CASE i = 1
            BY <1>2, <1>4, <2>1, <3>1
        <3>2. CASE j = 1
            BY <1>2, <1>4, <2>1, <3>2
        <3>3. CASE i # 1 /\ j # 1
            <4>1. PICK m \in 1 .. Len(s) : i = m + 1
                BY <1>2, <3>3
            <4>2. PICK n \in 1 .. Len(s) : j = n + 1
                BY <1>2, <3>3
            <4>3. s[m].key = s[n].key
                BY <1>2, <2>1, <4>1, <4>2
            <4> QED
                BY <4>1, <4>2, <4>3 DEF Listed
        <3> QED
            BY <3>1, <3>2, <3>3
    <2>2. \A i \in 1 .. Len(r) : r[i].key \in keys \union {e.key}
        BY <1>2, <1>4
    <2>3. ASSUME NEW k \in keys \union {e.key} PROVE \E i \in 1 .. Len(r) : r[i].key = k
        <3>1. 1 \in 1 .. Len(r) /\ \A j \in 1 .. Len(s) : j + 1 \in 1 .. Len(r)
            BY <1>1, <1>2
        <3>2. CASE k = e.key
            BY <1>2, <3>1, <3>2
        <3>3. CASE k # e.key
            <4>1. PICK j \in 1 .. Len(s) : s[j].key = k
                BY <3>3 DEF Listed
            <4> QED
                BY <1>2, <3>1, <4>1
        <3> QED
            BY <3>2, <3>3
    <2> QED
        BY <1>1, <1>2, <2>1, <2>2, <2>3, CacheAssumption DEF Listed
<1>6. Recent(r, now, c + 1)
    <2> SUFFICES ASSUME NEW i \in 1 .. Len(r), NEW j \in 1 .. Len(r), i < j
                 PROVE  now[r[i].key] > now[r[j].key]
        BY <1>3 DEF Recent
    <2>1. PICK n \in 1 .. Len(s) : j = n + 1
        BY <1>2
    <2>2. r[j] = s[n] /\ now[s[n].key] = use[s[n].key] /\ use[s[n].key] \in 0 .. c
        BY <1>2, <1>3, <1>4, <2>1
    <2>3. CASE i = 1
        BY <1>1, <1>2, <1>3, <2>2, <2>3
    <2>4. CASE i # 1
        <3>1. PICK m \in 1 .. Len(s) : i = m + 1
            BY <1>2, <2>4
        <3>2. r[i] = s[m] /\ now[s[m].key] = use[s[m].key] /\ m < n
            BY <1>2, <1>3, <1>4, <2>1, <3>1
        <3>3. use[s[m].key] > use[s[n].key]
            BY <3>2 DEF Recent
        <3> QED
            BY <2>2, <3>2, <3>3
    <2> QED
        BY <2>3, <2>4
<1>7. Numbered(r, file, c + 1)
    <2>1. ASSUME NEW i \in 1 .. Len(r) PROVE r[i].val \in 1 .. c + 1 /\ r[i].val \notin file
        <3>1. CASE i = 1
            BY <1>2, <3>1
        <3>2. CASE i # 1
            <4>1. PICK m \in 1 .. Len(s) : i = m + 1
                BY <1>2, <3>2
            <4>2. r[i] = s[m] /\ s[m].val \in 1 .. c /\ s[m].val \notin file
                BY <1>2, <4>1 DEF Numbered
            <4> QED
                BY <1>1, <4>2
        <3> QED
            BY <3>1, <3>2
    <2>2. ASSUME NEW i \in 1 .. Len(r), NEW j \in 1 .. Len(r), r[i].val = r[j].val PROVE i = j
        <3>1. CASE i = 1
            BY <1>2, <2>2, <3>1
        <3>2. CASE j = 1
            BY <1>2, <2>2, <3>2
        <3>3. CASE i # 1 /\ j # 1
            <4>1. PICK m \in 1 .. Len(s) : i = m + 1
                BY <1>2, <3>3
            <4>2. PICK n \in 1 .. Len(s) : j = n + 1
                BY <1>2, <3>3
            <4>3. s[m].val = s[n].val
                BY <1>2, <2>2, <4>1, <4>2
            <4> QED
                BY <4>1, <4>2, <4>3 DEF Numbered
        <3> QED
            BY <3>1, <3>2, <3>3
    <2> QED
        BY <2>1, <2>2 DEF Numbered
<1>8. Kept(r, file, more, c + 1)
    <2>1. ASSUME NEW v \in more \ file
          PROVE  \E i \in 1 .. Len(r) : r[i].val = v /\ r[i].source = Design
        <3>1. 1 \in 1 .. Len(r) /\ \A j \in 1 .. Len(s) : j + 1 \in 1 .. Len(r)
            BY <1>1, <1>2
        <3>2. CASE v \in work
            <4>1. PICK j \in 1 .. Len(s) : s[j].val = v /\ s[j].source = Design
                BY <3>2 DEF Kept
            <4> QED
                BY <1>2, <3>1, <4>1
        <3>3. CASE v \notin work
            <4>1. e.source = Design /\ v = e.val
                BY <3>3
            <4> QED
                BY <1>2, <3>1, <4>1
        <3> QED
            BY <3>2, <3>3
    <2>2. file \subseteq 1 .. c + 1 /\ more \subseteq 1 .. c + 1
        <3>1. file \subseteq 1 .. c /\ work \subseteq 1 .. c /\ 1 .. c \subseteq 1 .. c + 1
            BY <1>1 DEF Kept
        <3> QED
            BY <3>1
    <2> QED
        BY <2>1, <2>2 DEF Kept
<1>9. c + 1 \in Nat
    BY <1>1
<1> QED
    BY <1>5, <1>6, <1>7, <1>8, <1>9 DEF r, now

\* The callback puts the value of an entry that has left into the file.
LEMMA SaveKeeps ==
    ASSUME NEW s, NEW keys, NEW use, NEW file, NEW work, NEW c,
           Cache(s, keys, use, file, work, c), NEW v \in 1 .. c,
           \A i \in 1 .. Len(s) : s[i].val # v
    PROVE  Cache(s, keys, use, file \union {v}, work \union {v}, c)
<1> QED
    BY DEF Cache, Numbered, Kept

LEMMA FewerKept ==
    ASSUME NEW s, NEW keys, NEW use, NEW file, NEW work, NEW c,
           Cache(s, keys, use, file, work, c), NEW more, more \subseteq work
    PROVE  Cache(s, keys, use, file, more, c)
<1> QED
    BY DEF Cache, Kept

\* Design work in the list is in it as design work.
LEMMA DesignEntry ==
    ASSUME NEW s, NEW keys, NEW use, NEW file, NEW work, NEW c,
           Cache(s, keys, use, file, work, c), NEW i \in 1 .. Len(s), s[i].val \in work
    PROVE  s[i].source = Design
<1>1. s[i].val \in work \ file
    BY DEF Cache, Numbered
<1>2. PICK j \in 1 .. Len(s) : s[j].val = s[i].val /\ s[j].source = Design
    BY <1>1 DEF Cache, Kept
<1>3. i = j
    BY <1>2 DEF Cache, Numbered
<1> QED
    BY <1>2, <1>3

\* A key that has left is used once more.
LEMMA UseKeeps ==
    ASSUME NEW s, NEW keys, NEW use, NEW file, NEW work, NEW c,
           Cache(s, keys, use, file, work, c), NEW k \in Keys, k \notin keys
    PROVE  Cache(s, keys, [use EXCEPT ![k] = c + 1], file, work, c + 1)
<1> DEFINE now == [use EXCEPT ![k] = c + 1]
<1> USE DEF Cache
<1>1. c \in Nat /\ c + 1 \in Nat /\ 1 .. c \subseteq 1 .. c + 1 /\ 0 .. c \subseteq 0 .. c + 1
      /\ c + 1 \in 0 .. c + 1
    OBVIOUS
<1>2. now \in [Keys -> 0 .. c + 1]
    BY <1>1 DEF Recent
<1>3. \A i \in 1 .. Len(s) : now[s[i].key] = use[s[i].key]
    <2>1. \A i \in 1 .. Len(s) : s[i].key \in keys /\ s[i].key \in Keys
        <3>1. \A i \in 1 .. Len(s) : s[i] \in CacheEntry
            BY ElementOfSeq DEF Listed
        <3> QED
            BY <3>1 DEF CacheEntry, Listed
    <2> QED
        BY <2>1 DEF Recent
<1> HIDE DEF now
<1>4. Recent(s, now, c + 1)
    BY <1>2, <1>3 DEF Recent
<1>5. Numbered(s, file, c + 1)
    BY <1>1 DEF Numbered
<1>6. Kept(s, file, work, c + 1)
    BY <1>1 DEF Kept
<1> QED
    BY <1>1, <1>4, <1>5, <1>6 DEF now

\* A list that is cleared: only what is in the file is still design work.
LEMMA ClearKeeps ==
    ASSUME NEW s, NEW keys, NEW use, NEW file, NEW work, NEW c,
           Cache(s, keys, use, file, work, c), NEW more,
           more \subseteq work, \A v \in more : \A i \in 1 .. Len(s) : s[i].val # v
    PROVE  Cache(<< >>, {}, use, file, more, c + 1)
<1> USE DEF Cache
<1>1. c \in Nat /\ c + 1 \in Nat /\ 1 .. c \subseteq 1 .. c + 1 /\ 0 .. c \subseteq 0 .. c + 1
    OBVIOUS
<1>2. Len(<< >>) = 0 /\ 1 .. 0 = {} /\ << >> \in Seq(CacheEntry) /\ 0 <= CacheLimit
    BY EmptySeq, CacheAssumption
<1>3. Listed(<< >>, {})
    BY <1>2 DEF Listed
<1>4. Recent(<< >>, use, c + 1)
    BY <1>1, <1>2 DEF Recent
<1>5. Numbered(<< >>, file, c + 1)
    BY <1>2 DEF Numbered
<1>6. more \subseteq file /\ file \subseteq 1 .. c + 1
    BY <1>1 DEF Kept
<1>7. Kept(<< >>, file, more, c + 1)
    BY <1>6 DEF Kept
<1> QED
    BY <1>1, <1>3, <1>4, <1>5, <1>7

-----------------------------------------------------------------------------
\* What every operation of the cache keeps.
CacheInv == Cache(entries, index, used, saved, design, calls) /\ calls \in 0 .. MaxSets

\* What CacheInv says of the whole cache.
LEMMA CacheFacts ==
    ASSUME CacheInv
    PROVE  /\ entries \in Seq(CacheEntry) /\ Len(entries) \in Nat /\ Len(entries) <= CacheLimit
           /\ DOMAIN entries = 1 .. Len(entries)
           /\ calls \in Nat /\ calls <= MaxSets /\ MaxSets \in Nat /\ CacheLimit \in Nat
           /\ saved \subseteq 1 .. calls /\ design \subseteq 1 .. calls
           /\ \A i \in 1 .. Len(entries) :
                 /\ entries[i] \in CacheEntry /\ entries[i].key \in index
                 /\ entries[i].val \in 1 .. calls /\ entries[i].val \notin saved
           /\ calls + 1 \notin 1 .. calls
<1>1. entries \in Seq(CacheEntry) /\ Len(entries) <= CacheLimit
    BY DEF CacheInv, Cache, Listed
<1>2. /\ Len(entries) \in Nat /\ DOMAIN entries = 1 .. Len(entries)
      /\ \A i \in 1 .. Len(entries) : entries[i] \in CacheEntry
    BY <1>1, LenProperties, ElementOfSeq
<1>3. \A i \in 1 .. Len(entries) : entries[i].key \in index
    BY DEF CacheInv, Cache, Listed
<1>4. \A i \in 1 .. Len(entries) : entries[i].val \in 1 .. calls /\ entries[i].val \notin saved
    BY DEF CacheInv, Cache, Numbered
<1>5. saved \subseteq 1 .. calls /\ design \subseteq 1 .. calls
    BY DEF CacheInv, Cache, Kept
<1>6. calls \in Nat /\ calls <= MaxSets /\ MaxSets \in Nat /\ CacheLimit \in Nat
      /\ calls + 1 \notin 1 .. calls
    BY CacheAssumption DEF CacheInv, Cache
<1> QED
    BY <1>1, <1>2, <1>3, <1>4, <1>5, <1>6

\* The dictionary has a node of the list for each of its keys.
LEMMA PlaceFound ==
    ASSUME CacheInv, NEW k \in index
    PROVE  Place(k) \in 1 .. Len(entries) /\ entries[Place(k)].key = k
<1>1. DOMAIN entries = 1 .. Len(entries)
    BY CacheFacts
<1>2. \E i \in 1 .. Len(entries) : entries[i].key = k
    BY DEF CacheInv, Cache, Listed
<1> QED
    BY <1>1, <1>2 DEF Place

LEMMA PromoteKeeps ==
    ASSUME CacheInv, NEW k \in Keys, Promote(k)
    PROVE  CacheInv'
<1> DEFINE i == Place(k)
           e == entries[i]
           r == RemoveAt(entries, i)
<1>1. k \in index /\ calls < MaxSets /\ calls' = calls + 1
      /\ used' = [used EXCEPT ![k] = calls + 1]
      /\ entries' = <<e>> \o r /\ index' = index /\ saved' = saved /\ design' = design
    BY DEF Promote, Called, Moved, EntryOf, Without
<1>2. i \in 1 .. Len(entries) /\ e.key = k
    BY <1>1, PlaceFound
<1>3. e \in CacheEntry /\ e.val \in 1 .. calls /\ e.val \notin saved
    BY <1>2, CacheFacts
<1>4. e.val \in design => e.source = Design
    BY <1>2, DesignEntry DEF CacheInv
<1> HIDE DEF i
<1>5. /\ Cache(r, index \ {e.key}, used, saved, design \ {e.val}, calls)
      /\ Len(r) = Len(entries) - 1 /\ \A j \in 1 .. Len(r) : r[j].val # e.val
    BY <1>2, DropKeeps DEF CacheInv
<1> HIDE DEF e, r
<1>6. Len(r) < CacheLimit /\ e.val \in 1 .. calls + 1
    BY <1>3, <1>5, CacheFacts
<1>7. design \subseteq (design \ {e.val}) \union (IF e.source = Design THEN {e.val} ELSE {})
    BY <1>4
<1>8. Cache(<<e>> \o r, (index \ {e.key}) \union {e.key}, [used EXCEPT ![e.key] = calls + 1],
            saved, design, calls + 1)
    BY <1>2, <1>3, <1>5, <1>6, <1>7, PushKeeps
<1>9. (index \ {e.key}) \union {e.key} = index
    BY <1>1, <1>2
<1>10. calls + 1 \in 0 .. MaxSets
    BY <1>1, CacheFacts
<1> QED
    BY <1>1, <1>2, <1>8, <1>9, <1>10 DEF CacheInv

LEMMA UpdateKeeps ==
    ASSUME CacheInv, NEW k \in Keys, NEW source \in Sources, Update(k, source)
    PROVE  CacheInv'
<1> DEFINE i == Place(k)
           old == entries[i]
           r == RemoveAt(entries, i)
           e == [key |-> k, val |-> calls + 1, source |-> NewSource(old.source, source)]
<1>1. k \in index /\ calls < MaxSets /\ calls' = calls + 1
      /\ used' = [used EXCEPT ![k] = calls + 1]
      /\ entries' = <<e>> \o r /\ index' = index /\ saved' = saved
      /\ design' = (design \ {old.val}) \union
                     (IF source = "none" /\ old.val \in design THEN {calls + 1} ELSE Stays(source))
    BY DEF Update, Called, EntryOf, Without
<1>2. i \in 1 .. Len(entries) /\ old.key = k
    BY <1>1, PlaceFound
<1>3. old \in CacheEntry /\ old.val \in 1 .. calls
    BY <1>2, CacheFacts
<1>4. old.val \in design => old.source = Design
    BY <1>2, DesignEntry DEF CacheInv
<1> HIDE DEF i
<1>5. /\ Cache(r, index \ {old.key}, used, saved, design \ {old.val}, calls)
      /\ Len(r) = Len(entries) - 1
    BY <1>2, DropKeeps DEF CacheInv
<1>6. Len(r) < CacheLimit /\ calls \in Nat /\ calls + 1 \in Nat /\ calls + 1 \in 1 .. calls + 1
      /\ calls + 1 \notin saved
    BY <1>5, CacheFacts
<1>7. e \in CacheEntry /\ e.key = k /\ e.val = calls + 1 /\ e.source = NewSource(old.source, source)
    BY <1>3, <1>6 DEF CacheEntry, NewSource
<1> HIDE DEF e, r, old
<1>8. \A j \in 1 .. Len(r) : r[j].val # calls + 1
    BY <1>5, <1>6 DEF Cache, Numbered
<1>9. design' \subseteq (design \ {old.val}) \union (IF e.source = Design THEN {e.val} ELSE {})
    BY <1>1, <1>4, <1>7 DEF NewSource, Stays, Design
<1>10. Cache(<<e>> \o r, (index \ {k}) \union {k}, [used EXCEPT ![k] = calls + 1],
            saved, design', calls + 1)
    BY <1>2, <1>5, <1>6, <1>7, <1>8, <1>9, PushKeeps
<1>11. (index \ {k}) \union {k} = index
    BY <1>1
<1>12. calls + 1 \in 0 .. MaxSets
    BY <1>1, CacheFacts
<1> QED
    BY <1>1, <1>10, <1>11, <1>12 DEF CacheInv

LEMMA InsertKeeps ==
    ASSUME CacheInv, NEW k \in Keys, NEW source \in Sources, NEW fails \in BOOLEAN,
           Insert(k, source, fails)
    PROVE  CacheInv'
<1> DEFINE e == [key |-> k, val |-> calls + 1, source |-> IF source = "none" THEN "Pop" ELSE source]
<1>1. k \notin index /\ calls < MaxSets /\ calls' = calls + 1
      /\ used' = [used EXCEPT ![k] = calls + 1]
    BY DEF Insert, Called
<1>2. calls \in Nat /\ calls + 1 \in Nat /\ calls + 1 \in 1 .. calls + 1
      /\ calls + 1 \in 0 .. MaxSets /\ calls + 1 \notin saved
    BY <1>1, CacheFacts
<1>3. e \in CacheEntry /\ e.key = k /\ e.val = calls + 1 /\ (source = Design => e.source = Design)
    BY <1>2 DEF CacheEntry, Sources, Design
<1>4. Stays(source) \subseteq IF e.source = Design THEN {e.val} ELSE {}
    BY <1>3 DEF Stays
<1>5. CASE Full
    <2> DEFINE n == Len(entries)
               last == entries[n]
               r == RemoveAt(entries, n)
    <2>1. n \in 1 .. Len(entries) /\ n \in Nat
        BY <1>5, CacheFacts, CacheAssumption DEF Full
    <2>2. last \in CacheEntry /\ last.key \in index /\ last.val \in 1 .. calls /\ last.val \notin saved
        BY <2>1, CacheFacts
    <2>3. last.val \in design => last.source = Design
        BY <2>1, DesignEntry DEF CacheInv
    <2>4. Front(entries) = r
        <3>1. SubSeq(entries, n + 1, n) = << >>
            BY <2>1, CacheFacts, SubSeqProperties, EmptySeq
        <3>2. SubSeq(entries, 1, n - 1) \in Seq(CacheEntry)
            BY <2>1, CacheFacts, SubSeqProperties
        <3>3. SubSeq(entries, 1, n - 1) \o << >> = SubSeq(entries, 1, n - 1)
            BY <3>2, ConcatEmptySeq
        <3> QED
            BY <3>1, <3>3 DEF Front, RemoveAt
    <2>5. /\ entries' = <<e>> \o r /\ index' = (index \ {last.key}) \union {k}
          /\ saved' = (IF last.source = Design /\ ~fails THEN saved \union {last.val} ELSE saved)
          /\ design' = (IF fails THEN design \ {last.val} ELSE design) \union Stays(source)
        BY <1>5, <2>4 DEF Insert, Evicted, Last
    <2>6. /\ Cache(r, index \ {last.key}, used, saved, design \ {last.val}, calls)
          /\ Len(r) = Len(entries) - 1
          /\ \A j \in 1 .. Len(r) : r[j].val # last.val
        BY <2>1, DropKeeps DEF CacheInv
    <2> HIDE DEF last, r, n, e
    <2>7. Len(r) < CacheLimit /\ calls + 1 # last.val
        BY <1>2, <2>2, <2>6, CacheFacts
    <2>8. \A j \in 1 .. Len(r) : r[j].val # calls + 1
        BY <1>2, <2>6, CacheFacts DEF Cache, Numbered
    <2>9. CASE last.source = Design /\ ~fails
        <3>1. Cache(r, index \ {last.key}, used, saved \union {last.val},
                    (design \ {last.val}) \union {last.val}, calls)
            BY <2>2, <2>6, SaveKeeps
        <3>2. design' \subseteq ((design \ {last.val}) \union {last.val})
                                 \union (IF e.source = Design THEN {e.val} ELSE {})
            BY <1>4, <2>5, <2>9
        <3>3. Cache(<<e>> \o r, (index \ {last.key}) \union {k}, [used EXCEPT ![k] = calls + 1],
                    saved \union {last.val}, design', calls + 1)
            BY <1>1, <1>2, <1>3, <2>7, <2>8, <3>1, <3>2, PushKeeps
        <3> QED
            BY <1>1, <1>2, <2>5, <2>9, <3>3 DEF CacheInv
    <2>10. CASE ~(last.source = Design /\ ~fails)
        <3>1. saved' = saved
            BY <2>5, <2>10
        <3>2. design' \subseteq (design \ {last.val}) \union (IF e.source = Design THEN {e.val} ELSE {})
            BY <1>4, <2>3, <2>5, <2>10
        <3>3. Cache(<<e>> \o r, (index \ {last.key}) \union {k}, [used EXCEPT ![k] = calls + 1],
                    saved, design', calls + 1)
            BY <1>1, <1>2, <1>3, <2>6, <2>7, <2>8, <3>2, PushKeeps
        <3> QED
            BY <1>1, <1>2, <2>5, <3>1, <3>3 DEF CacheInv
    <2> QED
        BY <2>9, <2>10
<1>6. CASE ~Full
    <2>1. /\ entries' = <<e>> \o entries /\ index' = index \union {k}
          /\ design' = design \union Stays(source) /\ saved' = saved
        BY <1>6 DEF Insert
    <2> HIDE DEF e
    <2>2. Len(entries) < CacheLimit
        BY <1>6, CacheFacts DEF Full
    <2>3. \A j \in 1 .. Len(entries) : entries[j].val # calls + 1
        BY CacheFacts
    <2>4. design' \subseteq design \union (IF e.source = Design THEN {e.val} ELSE {})
        BY <1>4, <2>1
    <2>5. Cache(<<e>> \o entries, index \union {k}, [used EXCEPT ![k] = calls + 1],
                saved, design', calls + 1)
        BY <1>1, <1>2, <1>3, <2>2, <2>3, <2>4, PushKeeps DEF CacheInv
    <2> QED
        BY <1>1, <1>2, <2>1, <2>5 DEF CacheInv
<1> QED
    BY <1>5, <1>6

LEMMA RemoveKeeps ==
    ASSUME CacheInv, NEW k \in Keys, RemoveKey(k)
    PROVE  CacheInv'
<1> DEFINE i == Place(k)
           e == entries[i]
           r == RemoveAt(entries, i)
<1>1. k \in index /\ calls < MaxSets /\ calls' = calls + 1
      /\ used' = [used EXCEPT ![k] = calls + 1]
      /\ entries' = r /\ index' = index \ {k} /\ saved' = saved /\ design' = design \ {e.val}
    BY DEF RemoveKey, Called, Removed, EntryOf, Without
<1>2. i \in 1 .. Len(entries) /\ e.key = k
    BY <1>1, PlaceFound
<1> HIDE DEF i
<1>3. Cache(r, index \ {k}, used, saved, design \ {e.val}, calls)
    BY <1>2, DropKeeps DEF CacheInv
<1> HIDE DEF e, r
<1>4. Cache(r, index \ {k}, [used EXCEPT ![k] = calls + 1], saved, design \ {e.val}, calls + 1)
    BY <1>3, UseKeeps
<1>5. calls + 1 \in 0 .. MaxSets
    BY <1>1, CacheFacts
<1> QED
    BY <1>1, <1>4, <1>5 DEF CacheInv

LEMMA ClearedKeeps ==
    ASSUME CacheInv, Clear
    PROVE  CacheInv'
<1> DEFINE more == design \ {entries[i].val : i \in DOMAIN entries}
<1>1. more \subseteq design /\ \A v \in more : \A i \in 1 .. Len(entries) : entries[i].val # v
    BY CacheFacts
<1>2. Cache(<< >>, {}, used, saved, more, calls + 1)
    BY <1>1, ClearKeeps DEF CacheInv
<1>3. calls < MaxSets /\ calls' = calls + 1 /\ entries' = << >> /\ index' = {}
      /\ design' = more /\ saved' = saved /\ used' = used
    BY DEF Clear
<1>4. calls + 1 \in 0 .. MaxSets
    BY <1>3, CacheFacts
<1> QED
    BY <1>2, <1>3, <1>4 DEF CacheInv

LEMMA CacheInvInit == CacheInit => CacheInv
<1> SUFFICES ASSUME CacheInit PROVE CacheInv
    OBVIOUS
<1>1. Len(<< >>) = 0 /\ 1 .. 0 = {} /\ << >> \in Seq(CacheEntry)
      /\ 0 <= CacheLimit /\ 0 \in 0 .. MaxSets /\ 0 \in 0 .. 0
    BY EmptySeq, CacheAssumption
<1> QED
    BY <1>1 DEF CacheInit, CacheInv, Cache, Listed, Recent, Numbered, Kept

LEMMA CacheInvNext == CacheInv /\ [CacheNext]_cacheVars => CacheInv'
<1> SUFFICES ASSUME CacheInv, [CacheNext]_cacheVars PROVE CacheInv'
    OBVIOUS
<1>1. ASSUME NEW k \in Keys, Promote(k) PROVE CacheInv'
    BY <1>1, PromoteKeeps
<1>2. ASSUME NEW k \in Keys, RemoveKey(k) PROVE CacheInv'
    BY <1>2, RemoveKeeps
<1>3. ASSUME NEW k \in Keys, NEW source \in Sources, Update(k, source) PROVE CacheInv'
    BY <1>3, UpdateKeeps
<1>4. ASSUME NEW k \in Keys, NEW source \in Sources, NEW fails \in BOOLEAN,
             Insert(k, source, fails)
      PROVE  CacheInv'
    BY <1>4, InsertKeeps
<1>5. CASE Clear
    BY <1>5, ClearedKeeps
<1>6. CASE UNCHANGED cacheVars
    BY <1>6 DEF cacheVars, CacheInv
<1> QED
    BY <1>1, <1>2, <1>3, <1>4, <1>5, <1>6 DEF CacheNext

LEMMA CacheInvSafe == CacheInv => CacheSafety
<1> SUFFICES ASSUME CacheInv PROVE CacheSafety
    OBVIOUS
<1>1. 1 .. calls \subseteq 1 .. MaxSets
    BY CacheFacts
<1>2. CacheTypeOK
    <2>1. index \subseteq Keys
        <3> SUFFICES ASSUME NEW k \in index PROVE k \in Keys
            OBVIOUS
        <3>1. PICK i \in 1 .. Len(entries) : entries[i].key = k
            BY PlaceFound
        <3> QED
            BY <3>1, CacheFacts DEF CacheEntry
    <2> QED
        BY <1>1, <2>1, CacheFacts DEF CacheTypeOK, CacheEntry
<1>3. IndexAgrees
    <2>1. Len(entries) <= CacheLimit
          /\ \A i, j \in DOMAIN entries : entries[i].key = entries[j].key => i = j
        BY CacheFacts DEF CacheInv, Cache, Listed
    <2>2. {entries[i].key : i \in DOMAIN entries} \subseteq index
        BY CacheFacts
    <2>3. index \subseteq {entries[i].key : i \in DOMAIN entries}
        BY CacheFacts, PlaceFound
    <2> QED
        BY <2>1, <2>2, <2>3 DEF IndexAgrees
<1>4. LeastRecentLast
    BY CacheFacts DEF LeastRecentLast, CacheInv, Cache, Recent
<1>5. DesignSurvives
    BY CacheFacts DEF DesignSurvives, CacheInv, Cache, Kept
<1> QED
    BY <1>2, <1>3, <1>4, <1>5 DEF CacheSafety

\* The session cache (SessionCache.cs) for every set of keys, limit and number
\* of operations: list and dictionary agree within the limit, the list is in
\* the order of last use, and design work is evicted into the file only.
THEOREM CacheHolds == CacheSpec => []CacheSafety
<1>1. CacheInit => CacheInv
    BY CacheInvInit
<1>2. CacheInv /\ [CacheNext]_cacheVars => CacheInv'
    BY CacheInvNext
<1>3. CacheInv => CacheSafety
    BY CacheInvSafe
<1> QED
    BY <1>1, <1>2, <1>3, PTL DEF CacheSpec

-----------------------------------------------------------------------------
(* The post-forward runtime.                                                  *)

TurnPlaces == {"proof", "record", "recording", "learn", "merge", "write", "writing",
               "chat", "traces"}
\* Before the turn has learned, before its record is sealed, and after it.
Judging == {"proof", "record", "recording", "learn"}
Unsealed == {"proof", "record", "recording"}
Learning == {"learn", "merge", "write", "writing"}
FileStates == {"none", "torn", "whole"}

\* A weight that turns of done have moved, each once and in their order.
Sound(w, done) == w \in Seq(Turns) /\ Increasing(w) /\ ToSet(w) \subseteq done
AllSound(ws, done) == ws \in [Edges -> Seq(Turns)] /\ \A e \in Edges : Sound(ws[e], done)
\* The weights ws hold what the turns ns learned.
Holds(ws, ns) == \A n \in ns : \E e \in Edges : n \in ToSet(ws[e])

PTurn ==
    /\ pc \in TurnPlaces \union {"idle", "down"}
    /\ turn \in 0 .. MaxTurns /\ tick \in 0 .. turn /\ edges \subseteq Edges
    /\ pc \in TurnPlaces => tick # 0
    /\ pc \in Judging => edges # {}
    /\ chat \in Sessions
    /\ crashes \in Nat /\ failed \in Nat
    /\ sealed \subseteq 1 .. turn /\ learned \subseteq 1 .. turn

\* The learner is there once a turn has begun.
POpened == pc \in TurnPlaces => opened

PRecords ==
    /\ records \in [Hashes -> [state : FileStates, turn : Nat]]
    /\ pc \in Unsealed => turn \notin sealed
    /\ pc \in Learning => turn \in sealed
    /\ pc = "down" => crashes # 0
    /\ crashes = 0 =>
         /\ tick = turn
         /\ \A n \in sealed : \E h \in Hashes : h[2] = n /\ records[h] = [state |-> "whole", turn |-> n]

PWeights ==
    /\ AllSound(memory, sealed) /\ AllSound(merged, sealed) /\ AllSound(field.weights, sealed)
    /\ field \in [state : FileStates, weights : [Edges -> Seq(Turns)]]
    /\ pc \in Judging => \A e \in Edges : turn \notin ToSet(memory[e])

PKept ==
    /\ field.state = "none" => learned = {}
    /\ field.state # "whole" /\ (~opened \/ pc = "down") => learned = {}
    /\ field.state = "whole" => Holds(field.weights, learned)
    /\ pc # "down" /\ opened => Holds(memory, learned)
    /\ pc = "merge" => Holds(memory, {turn})
    /\ pc \in {"write", "writing"} => Holds(merged, learned \union {turn})

PTraces ==
    /\ DOMAIN traces \subseteq Turns /\ \A t \in DOMAIN traces : traces[t] \in Nat
    /\ unsaved \subseteq DOMAIN traces /\ (pc = "idle" => unsaved = {})
    /\ traceFiles \in [Sessions \X Turns -> [state : {"none", "whole"}, turn : Nat]]
    /\ pc = "traces" /\ failed = 0 =>
         \A t \in DOMAIN traces \ unsaved : traceFiles[<<chat, t>>].turn = traces[t]
    /\ pc = "idle" /\ chat # 0 /\ failed = 0 =>
         \A t \in DOMAIN traces : traceFiles[<<chat, t>>].turn = traces[t]

PostInv == PTurn /\ POpened /\ PRecords /\ PWeights /\ PKept /\ PTraces

-----------------------------------------------------------------------------
LEMMA EmptySound ==
    ASSUME NEW done
    PROVE  Sound(<< >>, done)
<1>1. << >> \in Seq(Turns) /\ DOMAIN << >> = 1 .. 0 /\ 1 .. 0 = {}
    BY EmptySeq, LenProperties
<1> QED
    BY <1>1 DEF Sound, Increasing, ToSet

LEMMA SoundStays ==
    ASSUME NEW w, NEW done, NEW more, Sound(w, done), done \subseteq more
    PROVE  Sound(w, more)
<1> QED
    BY DEF Sound

\* The turn moves a weight that it has not moved.
LEMMA AppendSound ==
    ASSUME NEW w, NEW n \in Turns, NEW done, Sound(w, done), n \in done, done \subseteq 1 .. n,
           n \notin ToSet(w)
    PROVE  Sound(Append(w, n), done) /\ ToSet(Append(w, n)) = ToSet(w) \union {n}
<1> DEFINE v == Append(w, n)
<1>1. w \in Seq(Turns) /\ Len(w) \in Nat /\ DOMAIN w = 1 .. Len(w)
    BY LenProperties DEF Sound
<1>2. /\ v \in Seq(Turns) /\ Len(v) = Len(w) + 1 /\ v[Len(w) + 1] = n
      /\ \A i \in 1 .. Len(w) : v[i] = w[i]
    BY <1>1, AppendProperties
<1>3. DOMAIN v = 1 .. Len(w) + 1
    BY <1>2, LenProperties
<1> HIDE DEF v
<1>4. Len(w) + 1 \in 1 .. Len(w) + 1 /\ 1 .. Len(w) \subseteq 1 .. Len(w) + 1
      /\ \A i \in 1 .. Len(w) + 1 : i \in 1 .. Len(w) \/ i = Len(w) + 1
    BY <1>1
<1>5. ToSet(v) = ToSet(w) \union {n}
    <2>1. ToSet(v) \subseteq ToSet(w) \union {n}
        BY <1>1, <1>2, <1>3, <1>4 DEF ToSet
    <2>2. ToSet(w) \subseteq ToSet(v)
        <3> SUFFICES ASSUME NEW i \in 1 .. Len(w) PROVE w[i] \in ToSet(v)
            BY <1>1 DEF ToSet
        <3>1. i \in DOMAIN v /\ v[i] = w[i]
            BY <1>2, <1>3, <1>4
        <3> QED
            BY <3>1 DEF ToSet
    <2>3. n \in ToSet(v)
        BY <1>2, <1>3, <1>4 DEF ToSet
    <2> QED
        BY <2>1, <2>2, <2>3
<1>6. \A i \in 1 .. Len(w) : w[i] < n
    <2> SUFFICES ASSUME NEW i \in 1 .. Len(w) PROVE w[i] < n
        OBVIOUS
    <2>1. w[i] \in ToSet(w)
        BY <1>1 DEF ToSet
    <2>2. w[i] \in 1 .. n /\ w[i] # n
        BY <2>1 DEF Sound
    <2>3. n \in Nat
        BY DEF Turns
    <2> QED
        BY <2>2, <2>3
<1>7. Increasing(v)
    <2> SUFFICES ASSUME NEW i \in 1 .. Len(w) + 1, NEW j \in 1 .. Len(w) + 1, i < j
                 PROVE  v[i] < v[j]
        BY <1>3 DEF Increasing
    <2>1. i \in 1 .. Len(w)
        BY <1>1
    <2>2. CASE j = Len(w) + 1
        BY <1>2, <1>6, <2>1, <2>2
    <2>3. CASE j \in 1 .. Len(w)
        <3>1. w[i] < w[j]
            BY <1>1, <2>1, <2>3 DEF Sound, Increasing
        <3> QED
            BY <1>2, <2>1, <2>3, <3>1
    <2> QED
        BY <1>4, <2>2, <2>3
<1>8. ToSet(v) \subseteq done
    BY <1>5 DEF Sound
<1> QED
    BY <1>2, <1>5, <1>7, <1>8 DEF Sound, v

-----------------------------------------------------------------------------
LEMMA PTurnInit == PostInit => PTurn
<1> QED
    BY PostAssumption DEF PostInit, PTurn, TurnPlaces, Judging, Sessions

LEMMA PTurnNext == PTurn /\ [PostNext]_postVars => PTurn'
<1> SUFFICES ASSUME PTurn, [PostNext]_postVars PROVE PTurn'
    OBVIOUS
<1> USE PostAssumption DEF PTurn, TurnPlaces, Judging, fieldVars, recordVars, traceVars, turnVars
<1>1. ASSUME NEW es \in SUBSET Edges, BeginTurn(es) PROVE PTurn'
    BY <1>1 DEF BeginTurn
<1>2. CASE SaveProof
    BY <1>2 DEF SaveProof, Fail
<1>3. CASE BeginRecord
    BY <1>3 DEF BeginRecord
<1>4. CASE EndRecord
    <2>1. turn \in 1 .. turn /\ pc \in TurnPlaces
        BY <1>4 DEF EndRecord
    <2>2. sealed' = sealed \/ sealed' = sealed \union {turn}
        BY <1>4 DEF EndRecord
    <2>3. sealed' \subseteq 1 .. turn
        BY <2>1, <2>2
    <2>4. pc' \in {"learn", "chat"} /\ failed' \in Nat
          /\ UNCHANGED <<turn, tick, edges, chat, crashes, learned>>
        BY <1>4 DEF EndRecord, Fail, AfterFailedRecord
    <2>5. pc' = "learn" => pc = "recording"
        BY <1>4 DEF EndRecord, Fail, AfterFailedRecord
    <2> QED
        BY <2>1, <2>3, <2>4, <2>5
<1>5. CASE Learn
    BY <1>5 DEF Learn
<1>6. CASE MergeField
    BY <1>6 DEF MergeField
<1>7. CASE BeginField
    BY <1>7 DEF BeginField
<1>8. CASE EndField
    <2>1. turn \in 1 .. turn /\ pc \in TurnPlaces
        BY <1>8 DEF EndField
    <2>2. learned' = learned \/ learned' = learned \union {turn}
        BY <1>8 DEF EndField
    <2>3. learned' \subseteq 1 .. turn
        BY <2>1, <2>2
    <2>4. pc' \in {"learn", "chat"} /\ failed' \in Nat
          /\ UNCHANGED <<turn, tick, edges, chat, crashes, sealed>>
        BY <1>8 DEF EndField, Fail
    <2>5. pc' = "learn" => pc = "recording"
        BY <1>8 DEF EndField, Fail
    <2> QED
        BY <2>1, <2>3, <2>4, <2>5
<1>9. CASE BeginChat
    BY <1>9 DEF BeginChat, Sessions, Turns
<1>10. CASE EndTurn
    BY <1>10 DEF EndTurn
<1>11. ASSUME NEW t \in Turns, SaveTrace(t) PROVE PTurn'
    BY <1>11 DEF SaveTrace, Fail
<1>12. CASE NewChat
    BY <1>12 DEF NewChat, Sessions
<1>13. ASSUME NEW c \in Turns, LoadChat(c) PROVE PTurn'
    BY <1>13 DEF LoadChat, Sessions
<1>14. CASE Crash
    <2>1. learned' \subseteq 1 .. turn
        BY <1>14 DEF Crash
    <2> QED
        BY <1>14, <2>1 DEF Crash
<1>15. CASE Restart
    BY <1>15 DEF Restart, Sessions
<1>16. CASE UNCHANGED postVars
    BY <1>16 DEF postVars
<1> QED
    BY <1>1, <1>2, <1>3, <1>4, <1>5, <1>6, <1>7, <1>8, <1>9, <1>10, <1>11, <1>12, <1>13,
       <1>14, <1>15, <1>16 DEF PostNext, TurnStep

LEMMA POpenedNext == POpened /\ [PostNext]_postVars => POpened'
<1> SUFFICES ASSUME POpened, [PostNext]_postVars PROVE POpened'
    OBVIOUS
<1> USE DEF POpened, TurnPlaces
<1>1. ASSUME NEW es \in SUBSET Edges, BeginTurn(es) PROVE POpened'
    BY <1>1, Zenon DEF BeginTurn
<1>2. CASE TurnStep
    <2>1. opened' = opened /\ pc \in TurnPlaces
        BY <1>2 DEF TurnStep, SaveProof, BeginRecord, EndRecord, Learn, MergeField, BeginField,
                    EndField, BeginChat, EndTurn, SaveTrace, fieldVars
    <2> QED
        BY <2>1, Zenon
<1>3. CASE pc' \in {"idle", "down"}
    BY <1>3
<1>4. ASSUME UNCHANGED postVars PROVE POpened'
    BY <1>4, Zenon DEF postVars, turnVars, fieldVars
<1>5. (NewChat \/ (\E c \in Turns : LoadChat(c)) \/ Crash \/ Restart) => pc' \in {"idle", "down"}
    BY DEF NewChat, LoadChat, Crash, Restart, turnVars
<1> QED
    BY <1>1, <1>2, <1>3, <1>4, <1>5 DEF PostNext

-----------------------------------------------------------------------------
LEMMA PRecordsInit == PostInit => PRecords
<1> SUFFICES ASSUME PostInit PROVE PRecords
    OBVIOUS
<1>1. records \in [Hashes -> [state : FileStates, turn : Nat]]
    BY DEF PostInit, Absent, FileStates
<1> QED
    BY <1>1 DEF PostInit, PRecords, Unsealed, Learning

\* The record of the turn is begun, or completed.
LEMMA HashFound ==
    ASSUME PTurn, pc \in TurnPlaces
    PROVE  Hash(chat, tick, edges) \in Hashes /\ Hash(chat, tick, edges)[2] = tick
<1>1. tick \in Turns
    BY PostAssumption DEF PTurn, Turns
<1> QED
    BY <1>1 DEF Hash, Hashes, PTurn

LEMMA PRecordsNext == PTurn /\ PRecords /\ [PostNext]_postVars => PRecords'
<1> SUFFICES ASSUME PTurn, PRecords, [PostNext]_postVars PROVE PRecords'
    OBVIOUS
<1> USE DEF PRecords, Unsealed, Learning, FileStates, fieldVars, recordVars, traceVars, turnVars
<1>1. ASSUME NEW es \in SUBSET Edges, BeginTurn(es) PROVE PRecords'
    <2>1. turn + 1 \notin sealed
        BY DEF PTurn
    <2> QED
        BY <1>1, <2>1 DEF BeginTurn, PTurn
<1>2. CASE SaveProof
    BY <1>2 DEF SaveProof, Fail
<1>3. CASE BeginRecord
    <2> DEFINE g == Hash(chat, tick, edges)
    <2>1. g \in Hashes /\ g[2] = tick
        BY <1>3, HashFound DEF BeginRecord, TurnPlaces
    <2> HIDE DEF g
    <2>2. /\ records' = [records EXCEPT ![g].state = "torn"] /\ pc = "record" /\ pc' = "recording"
          /\ UNCHANGED <<tick, turn, sealed, crashes>>
        BY <1>3 DEF BeginRecord, g
    <2>3. records' \in [Hashes -> [state : FileStates, turn : Nat]]
        BY <2>1, <2>2
    <2>4. ASSUME crashes = 0, NEW n \in sealed
          PROVE  \E h \in Hashes : h[2] = n /\ records'[h] = [state |-> "whole", turn |-> n]
        <3>1. PICK h \in Hashes : h[2] = n /\ records[h] = [state |-> "whole", turn |-> n]
            BY <2>4
        <3>2. h # g
            BY <2>1, <2>2, <2>4, <3>1
        <3>3. records'[h] = records[h]
            BY <2>2, <3>2
        <3> QED
            BY <3>1, <3>3
    <2> QED
        BY <2>2, <2>3, <2>4
<1>4. CASE EndRecord
    <2> DEFINE g == Hash(chat, tick, edges)
    <2>1. g \in Hashes /\ g[2] = tick /\ turn \in Nat
        BY <1>4, HashFound DEF EndRecord, TurnPlaces, PTurn
    <2> HIDE DEF g
    <2>2. CASE UNCHANGED recordVars /\ Fail(AfterFailedRecord)
        BY <1>4, <2>2 DEF EndRecord, Fail, AfterFailedRecord
    <2>3. CASE /\ records' = [records EXCEPT ![g] = [state |-> "whole", turn |-> turn]]
               /\ sealed' = sealed \union {turn} /\ pc' = "learn"
        <3>1. pc = "recording" /\ UNCHANGED <<tick, turn, crashes>>
            BY <1>4 DEF EndRecord
        <3>2. records' \in [Hashes -> [state : FileStates, turn : Nat]]
            BY <2>1, <2>3
        <3>3. ASSUME crashes = 0, NEW n \in sealed \union {turn}
              PROVE  \E h \in Hashes : h[2] = n /\ records'[h] = [state |-> "whole", turn |-> n]
            <4>1. CASE n = turn
                <5>1. records'[g] = [state |-> "whole", turn |-> n] /\ g[2] = n
                    BY <2>1, <2>3, <3>3, <4>1
                <5> QED
                    BY <2>1, <5>1
            <4>2. CASE n # turn
                <5>1. PICK h \in Hashes : h[2] = n /\ records[h] = [state |-> "whole", turn |-> n]
                    BY <3>3, <4>2
                <5>2. h # g
                    BY <2>1, <3>3, <4>2, <5>1
                <5>3. records'[h] = records[h]
                    BY <2>3, <5>2
                <5> QED
                    BY <5>1, <5>3
            <4> QED
                BY <4>1, <4>2
        <3> QED
            BY <2>3, <3>1, <3>2, <3>3
    <2> QED
        BY <1>4, <2>2, <2>3 DEF EndRecord, g
<1>5. CASE Learn
    BY <1>5 DEF Learn
<1>6. CASE MergeField
    BY <1>6 DEF MergeField
<1>7. CASE BeginField
    BY <1>7 DEF BeginField
<1>8. CASE EndField
    BY <1>8 DEF EndField, Fail
<1>9. CASE BeginChat
    BY <1>9 DEF BeginChat
<1>10. CASE EndTurn
    BY <1>10 DEF EndTurn
<1>11. ASSUME NEW t \in Turns, SaveTrace(t) PROVE PRecords'
    BY <1>11 DEF SaveTrace, Fail
<1>12. CASE NewChat
    BY <1>12 DEF NewChat
<1>13. ASSUME NEW c \in Turns, LoadChat(c) PROVE PRecords'
    BY <1>13 DEF LoadChat
<1>14. CASE Crash
    BY <1>14 DEF Crash, PTurn
<1>15. CASE Restart
    BY <1>15 DEF Restart
<1>16. CASE UNCHANGED postVars
    BY <1>16 DEF postVars
<1> QED
    BY <1>1, <1>2, <1>3, <1>4, <1>5, <1>6, <1>7, <1>8, <1>9, <1>10, <1>11, <1>12, <1>13,
       <1>14, <1>15, <1>16 DEF PostNext, TurnStep

-----------------------------------------------------------------------------
LEMMA ProvisionalSound ==
    ASSUME NEW done
    PROVE  AllSound(Provisional, done)
<1>1. << >> \in Seq(Turns)
    BY EmptySeq
<1> QED
    BY <1>1, EmptySound DEF AllSound, Provisional

LEMMA AllSoundStays ==
    ASSUME NEW ws, NEW done, NEW more, AllSound(ws, done), done \subseteq more
    PROVE  AllSound(ws, more)
<1> QED
    BY SoundStays DEF AllSound

LEMMA PWeightsInit == PostInit => PWeights
<1> SUFFICES ASSUME PostInit PROVE PWeights
    OBVIOUS
<1>1. AllSound(Provisional, sealed)
    BY ProvisionalSound
<1>2. memory = Provisional /\ merged = Provisional /\ field = NoField /\ pc = "idle"
    BY DEF PostInit
<1>3. field.weights = Provisional /\ field.state = "none"
    BY <1>2 DEF NoField
<1>4. field \in [state : FileStates, weights : [Edges -> Seq(Turns)]]
    BY <1>1, <1>2 DEF AllSound, NoField, FileStates
<1> QED
    BY <1>1, <1>2, <1>3, <1>4 DEF PWeights, Judging

LEMMA PWeightsNext == PTurn /\ PRecords /\ PWeights /\ [PostNext]_postVars => PWeights'
<1> SUFFICES ASSUME PTurn, PRecords, PWeights, [PostNext]_postVars PROVE PWeights'
    OBVIOUS
<1> USE DEF Judging, fieldVars, recordVars, traceVars, turnVars
<1>1. ASSUME NEW es \in SUBSET Edges, BeginTurn(es) PROVE PWeights'
    <2>1. memory' = memory \/ memory' = field.weights \/ memory' = Provisional
        BY <1>1 DEF BeginTurn
    <2>2. AllSound(memory', sealed)
        BY <2>1, ProvisionalSound DEF PWeights
    <2>3. sealed' = sealed /\ merged' = merged /\ field' = field /\ turn' = turn + 1
        BY <1>1 DEF BeginTurn
    <2>4. turn + 1 \notin sealed
        BY DEF PTurn
    <2>5. \A e \in Edges : turn' \notin ToSet(memory'[e])
        BY <2>2, <2>3, <2>4 DEF AllSound, Sound
    <2> QED
        BY <2>2, <2>3, <2>5 DEF PWeights
<1>2. ASSUME UNCHANGED <<memory, merged, field, sealed, turn>>,
             pc' \in Judging => pc \in Judging
      PROVE  PWeights'
    BY <1>2 DEF PWeights
<1>3. CASE EndRecord
    <2>1. UNCHANGED <<memory, merged, field, turn>> /\ sealed \subseteq sealed' /\ pc = "recording"
        BY <1>3 DEF EndRecord
    <2>2. AllSound(memory, sealed') /\ AllSound(merged, sealed') /\ AllSound(field.weights, sealed')
        BY <2>1, AllSoundStays DEF PWeights
    <2> QED
        BY <2>1, <2>2 DEF PWeights
<1>4. CASE Learn
    <2>1. /\ memory' = [e \in Edges |-> IF e \in edges THEN Append(memory[e], turn) ELSE memory[e]]
          /\ UNCHANGED <<merged, field, sealed, turn>> /\ pc = "learn" /\ pc' = "merge"
        BY <1>4 DEF Learn
    <2>2. turn \in sealed /\ sealed \subseteq 1 .. turn /\ turn \in Turns
        BY <2>1 DEF PRecords, Learning, PTurn, Turns
    <2>3. ASSUME NEW e \in Edges PROVE Sound(memory'[e], sealed)
        <3>1. Sound(memory[e], sealed) /\ turn \notin ToSet(memory[e])
            BY <2>1 DEF PWeights, AllSound
        <3>2. Sound(Append(memory[e], turn), sealed)
            BY <2>2, <3>1, AppendSound
        <3>3. memory'[e] = Append(memory[e], turn) \/ memory'[e] = memory[e]
            BY <2>1
        <3> QED
            BY <3>1, <3>2, <3>3
    <2>4. AllSound(memory', sealed)
        <3>1. \A e \in Edges : memory'[e] \in Seq(Turns)
            BY <2>3 DEF Sound
        <3>2. memory' = [e \in Edges |-> memory'[e]]
            BY <2>1
        <3>3. memory' \in [Edges -> Seq(Turns)]
            BY <3>1, <3>2
        <3> QED
            BY <2>3, <3>3 DEF AllSound
    <2> QED
        BY <2>1, <2>4 DEF PWeights
<1>5. CASE MergeField
    <2>1. /\ merged' = [e \in Edges |-> Merged(e)]
          /\ UNCHANGED <<memory, field, sealed, turn>> /\ pc' = "write"
        BY <1>5 DEF MergeField
    <2>2. ASSUME NEW e \in Edges PROVE Sound(Merged(e), sealed) /\ Merged(e) \in Seq(Turns)
        <3>1. Merged(e) = memory[e] \/ Merged(e) = field.weights[e] \/ Merged(e) = << >>
            BY DEF Merged
        <3>2. Sound(memory[e], sealed) /\ Sound(field.weights[e], sealed) /\ Sound(<< >>, sealed)
            BY EmptySound DEF PWeights, AllSound
        <3> QED
            BY <3>1, <3>2 DEF Sound
    <2>3. AllSound(merged', sealed)
        BY <2>1, <2>2 DEF AllSound
    <2> QED
        BY <2>1, <2>3 DEF PWeights
<1>6. CASE BeginField
    <2>1. /\ field' = [state |-> "torn", weights |-> Provisional]
          /\ UNCHANGED <<memory, merged, sealed, turn>> /\ pc' = "writing"
        BY <1>6 DEF BeginField
    <2>2. AllSound(field'.weights, sealed)
        BY <2>1, ProvisionalSound
    <2>3. field' \in [state : FileStates, weights : [Edges -> Seq(Turns)]]
        BY <2>1, <2>2 DEF AllSound, FileStates
    <2> QED
        BY <2>1, <2>2, <2>3 DEF PWeights
<1>7. CASE EndField
    <2>1. UNCHANGED <<merged, sealed, turn>> /\ pc' = "chat"
          /\ \/ UNCHANGED <<memory, field>>
             \/ memory' = merged /\ field' = [state |-> "whole", weights |-> merged]
        BY <1>7 DEF EndField, Fail
    <2>2. CASE UNCHANGED <<memory, field>>
        BY <2>1, <2>2 DEF PWeights
    <2>3. CASE memory' = merged /\ field' = [state |-> "whole", weights |-> merged]
        <3>1. field' \in [state : FileStates, weights : [Edges -> Seq(Turns)]] /\ field'.weights = merged
            BY <2>3 DEF PWeights, AllSound, FileStates
        <3> QED
            BY <2>1, <2>3, <3>1 DEF PWeights
    <2> QED
        BY <2>1, <2>2, <2>3
<1>8. CASE Restart
    <2>1. memory' = Provisional /\ merged' = Provisional /\ UNCHANGED <<field, sealed>> /\ pc' = "idle"
        BY <1>8 DEF Restart
    <2>2. AllSound(Provisional, sealed)
        BY ProvisionalSound
    <2> QED
        BY <2>1, <2>2 DEF PWeights
<1>9. CASE SaveProof \/ BeginRecord \/ BeginChat \/ EndTurn \/ NewChat \/ Crash
    BY <1>2, <1>9 DEF SaveProof, BeginRecord, BeginChat, EndTurn, NewChat, Crash, Fail
<1>10. ASSUME NEW t \in Turns, SaveTrace(t) PROVE PWeights'
    BY <1>2, <1>10 DEF SaveTrace, Fail
<1>11. ASSUME NEW c \in Turns, LoadChat(c) PROVE PWeights'
    BY <1>2, <1>11 DEF LoadChat
<1>12. CASE UNCHANGED postVars
    BY <1>2, <1>12 DEF postVars
<1> QED
    BY <1>1, <1>3, <1>4, <1>5, <1>6, <1>7, <1>8, <1>9, <1>10, <1>11, <1>12 DEF PostNext, TurnStep

-----------------------------------------------------------------------------
LEMMA PKeptInit == PostInit => PKept
<1> QED
    BY DEF PostInit, PKept, Holds, NoField

LEMMA PKeptNext ==
    PTurn /\ POpened /\ PRecords /\ PWeights /\ PKept /\ [PostNext]_postVars => PKept'
<1> SUFFICES ASSUME PTurn, POpened, PRecords, PWeights, PKept, [PostNext]_postVars PROVE PKept'
    OBVIOUS
<1> USE DEF fieldVars, recordVars, traceVars, turnVars
<1>1. ASSUME NEW es \in SUBSET Edges, BeginTurn(es) PROVE PKept'
    <2>1. UNCHANGED <<field, learned>> /\ pc' \in {"chat", "proof"} /\ pc = "idle" /\ opened'
        BY <1>1 DEF BeginTurn
    <2>2. Holds(memory', learned)
        <3>1. CASE opened
            <4>1. memory' = memory
                BY <1>1, <3>1 DEF BeginTurn
            <4> QED
                BY <2>1, <3>1, <4>1 DEF PKept
        <3>2. CASE ~opened /\ field.state = "whole"
            <4>1. memory' = field.weights
                BY <1>1, <3>2 DEF BeginTurn
            <4> QED
                BY <3>2, <4>1 DEF PKept
        <3>3. CASE ~opened /\ field.state # "whole"
            <4>1. learned = {}
                BY <3>3 DEF PKept
            <4> QED
                BY <4>1 DEF Holds
        <3> QED
            BY <3>1, <3>2, <3>3
    <2> QED
        BY <2>1, <2>2 DEF PKept
<1>2. ASSUME UNCHANGED <<memory, opened, field, learned>>,
             pc' \notin {"merge", "write", "writing"}, pc # "down", pc' # "down"
      PROVE  PKept'
    BY <1>2, Zenon DEF PKept
<1>3. CASE Learn
    <2>1. /\ memory' = [e \in Edges |-> IF e \in edges THEN Append(memory[e], turn) ELSE memory[e]]
          /\ UNCHANGED <<opened, field, learned, turn>> /\ pc = "learn" /\ pc' = "merge"
        BY <1>3 DEF Learn
    <2>2. turn \in sealed /\ sealed \subseteq 1 .. turn /\ turn \in Turns /\ edges # {} /\ edges \subseteq Edges
        BY <2>1 DEF PRecords, Learning, PTurn, Turns, Judging
    <2>3. ASSUME NEW e \in Edges
          PROVE  /\ ToSet(memory[e]) \subseteq ToSet(memory'[e])
                 /\ e \in edges => turn \in ToSet(memory'[e])
        <3>1. Sound(memory[e], sealed) /\ turn \notin ToSet(memory[e])
            BY <2>1 DEF PWeights, AllSound, Judging
        <3>2. ToSet(Append(memory[e], turn)) = ToSet(memory[e]) \union {turn}
            BY <2>2, <3>1, AppendSound
        <3>3. /\ e \in edges => memory'[e] = Append(memory[e], turn)
              /\ e \notin edges => memory'[e] = memory[e]
            BY <2>1
        <3> QED
            BY <3>2, <3>3
    <2>4. Holds(memory', {turn})
        BY <2>2, <2>3 DEF Holds
    <2>5. opened
        BY <2>1 DEF POpened, TurnPlaces
    <2>6. Holds(memory', learned)
        <3>1. Holds(memory, learned)
            BY <2>1, <2>5 DEF PKept
        <3> QED
            BY <2>3, <3>1 DEF Holds
    <2> QED
        BY <2>1, <2>4, <2>5, <2>6 DEF PKept
<1>4. CASE MergeField
    <2>1. /\ merged' = [e \in Edges |-> Merged(e)]
          /\ UNCHANGED <<memory, opened, field, learned, turn>> /\ pc = "merge" /\ pc' = "write"
        BY <1>4 DEF MergeField
    <2>2. opened
        BY <2>1 DEF POpened, TurnPlaces
    <2>3. Holds(memory, learned) /\ Holds(memory, {turn})
        BY <2>1, <2>2 DEF PKept
    <2>4. ASSUME NEW n, NEW e \in Edges, n \in ToSet(memory[e]) PROVE n \in ToSet(merged'[e])
        <3>1. memory[e] # << >>
            <4>1. DOMAIN << >> = {}
                BY EmptySeq
            <4> QED
                BY <2>4, <4>1 DEF ToSet
        <3>2. merged'[e] = memory[e]
            BY <2>1, <3>1 DEF Merged
        <3> QED
            BY <2>4, <3>2
    <2>5. Holds(merged', learned \union {turn})
        BY <2>3, <2>4 DEF Holds
    <2> QED
        BY <2>1, <2>2, <2>3, <2>5 DEF PKept
<1>5. CASE BeginField
    <2>1. /\ field' = [state |-> "torn", weights |-> Provisional] /\ pc = "write" /\ pc' = "writing"
          /\ UNCHANGED <<memory, opened, merged, learned, turn>>
        BY <1>5 DEF BeginField
    <2>2. opened /\ field'.state = "torn"
        BY <2>1 DEF POpened, TurnPlaces
    <2>3. Holds(memory, learned) /\ Holds(merged, learned \union {turn})
        BY <2>1, <2>2 DEF PKept
    <2> QED
        BY <2>1, <2>2, <2>3 DEF PKept
<1>6. CASE EndField
    <2>1. pc = "writing" /\ pc' = "chat" /\ opened' = opened
        BY <1>6 DEF EndField, Fail
    <2>2. CASE UNCHANGED <<memory, field, learned>>
        BY <1>2, <2>1, <2>2
    <2>3. CASE memory' = merged /\ field' = [state |-> "whole", weights |-> merged]
               /\ learned' = learned \union {turn}
        <3>1. Holds(merged, learned \union {turn})
            BY <2>1 DEF PKept
        <3>2. field'.state = "whole" /\ field'.weights = merged
            BY <2>3
        <3> QED
            BY <2>1, <2>3, <3>1, <3>2 DEF PKept
    <2> QED
        BY <1>6, <2>2, <2>3 DEF EndField
<1>7. CASE Crash
    <2>1. /\ pc' = "down" /\ learned' = (IF field.state = "torn" THEN {} ELSE learned)
          /\ UNCHANGED <<field, opened>>
        BY <1>7 DEF Crash
    <2>2. field.state \in FileStates
        BY DEF PWeights
    <2>3. CASE field.state = "torn"
        BY <2>1, <2>3 DEF PKept, Holds
    <2>4. CASE field.state = "none"
        BY <2>1, <2>4 DEF PKept, Holds
    <2>5. CASE field.state = "whole"
        BY <2>1, <2>5 DEF PKept, Holds
    <2> QED
        BY <2>2, <2>3, <2>4, <2>5 DEF FileStates
<1>8. CASE Restart
    <2>1. pc = "down" /\ pc' = "idle" /\ ~opened' /\ UNCHANGED <<field, learned>>
        BY <1>8 DEF Restart
    <2> QED
        BY <2>1 DEF PKept
<1>9. CASE SaveProof \/ BeginRecord \/ EndRecord \/ BeginChat \/ EndTurn \/ NewChat
    <2>1. UNCHANGED <<memory, opened, field, learned>> /\ pc' \notin {"merge", "write", "writing"}
          /\ pc # "down" /\ pc' # "down"
        BY <1>9 DEF SaveProof, BeginRecord, EndRecord, BeginChat, EndTurn, NewChat, Fail, AfterFailedRecord
    <2> QED
        BY <1>2, <2>1
<1>10. ASSUME NEW t \in Turns, SaveTrace(t) PROVE PKept'
    <2>1. UNCHANGED <<memory, opened, field, learned>> /\ pc' = "traces" /\ pc = "traces"
        BY <1>10 DEF SaveTrace, Fail
    <2> QED
        BY <1>2, <2>1
<1>11. ASSUME NEW c \in Turns, LoadChat(c) PROVE PKept'
    <2>1. UNCHANGED <<memory, opened, field, learned>> /\ pc' = "idle" /\ pc = "idle"
        BY <1>11 DEF LoadChat
    <2> QED
        BY <1>2, <2>1
<1>12. CASE UNCHANGED postVars
    <2>1. UNCHANGED <<pc, turn, memory, opened, merged, field, learned>>
        BY <1>12 DEF postVars
    <2> QED
        BY <2>1, Zenon DEF PKept
<1> QED
    BY <1>1, <1>3, <1>4, <1>5, <1>6, <1>7, <1>8, <1>9, <1>10, <1>11, <1>12 DEF PostNext, TurnStep

-----------------------------------------------------------------------------
LEMMA PTracesInit == PostInit => PTraces
<1> SUFFICES ASSUME PostInit PROVE PTraces
    OBVIOUS
<1>1. DOMAIN << >> = {}
    BY EmptySeq
<1>2. traceFiles \in [Sessions \X Turns -> [state : {"none", "whole"}, turn : Nat]]
    BY DEF PostInit, Absent
<1> QED
    BY <1>1, <1>2 DEF PostInit, PTraces

LEMMA PTracesNext == PTurn /\ PTraces /\ [PostNext]_postVars => PTraces'
<1> SUFFICES ASSUME PTurn, PTraces, [PostNext]_postVars PROVE PTraces'
    OBVIOUS
<1> USE DEF fieldVars, recordVars, traceVars, turnVars
<1>1. ASSUME NEW es \in SUBSET Edges, BeginTurn(es) PROVE PTraces'
    <2>1. /\ traces' = [t \in DOMAIN traces \union {tick + 1} |->
                          IF t = tick + 1 THEN turn + 1 ELSE traces[t]]
          /\ pc' \in {"chat", "proof"} /\ pc = "idle" /\ turn < MaxTurns
          /\ UNCHANGED <<unsaved, traceFiles>>
        BY <1>1 DEF BeginTurn
    <2>2. tick + 1 \in Turns /\ turn + 1 \in Nat
        BY <2>1, PostAssumption DEF PTurn, Turns
    <2>3. DOMAIN traces' = DOMAIN traces \union {tick + 1}
        BY <2>1
    <2>4. \A t \in DOMAIN traces' : traces'[t] \in Nat
        BY <2>1, <2>2 DEF PTraces
    <2> QED
        BY <2>1, <2>2, <2>3, <2>4 DEF PTraces
<1>2. ASSUME UNCHANGED traceVars, pc' \notin {"idle", "traces"} PROVE PTraces'
    BY <1>2 DEF PTraces
<1>3. CASE BeginChat
    <2>1. unsaved' = DOMAIN traces /\ UNCHANGED <<traces, traceFiles>> /\ pc' = "traces"
        BY <1>3 DEF BeginChat
    <2> QED
        BY <2>1 DEF PTraces
<1>4. CASE EndTurn
    <2>1. UNCHANGED <<traces, traceFiles, chat, unsaved, failed>> /\ pc = "traces" /\ pc' = "idle"
          /\ unsaved = {}
        BY <1>4 DEF EndTurn
    <2> QED
        BY <2>1 DEF PTraces
<1>5. ASSUME NEW t \in Turns, SaveTrace(t) PROVE PTraces'
    <2>1. UNCHANGED <<traces, chat>> /\ pc = "traces" /\ pc' = "traces" /\ unsaved' = unsaved \ {t}
          /\ t \in unsaved
        BY <1>5 DEF SaveTrace, Fail
    <2>2. CASE /\ traceFiles' = [traceFiles EXCEPT ![<<chat, t>>] = [state |-> "whole", turn |-> traces[t]]]
               /\ failed' = failed
        <3>1. traces[t] \in Nat /\ <<chat, t>> \in Sessions \X Turns
            BY <2>1 DEF PTraces, PTurn
        <3>2. traceFiles' \in [Sessions \X Turns -> [state : {"none", "whole"}, turn : Nat]]
            BY <2>2, <3>1 DEF PTraces
        <3>3. traceFiles'[<<chat, t>>].turn = traces[t]
            BY <2>2, <3>1 DEF PTraces
        <3>4. \A u \in Turns : u # t => traceFiles'[<<chat, u>>] = traceFiles[<<chat, u>>]
            <4> SUFFICES ASSUME NEW u \in Turns, u # t
                         PROVE  traceFiles'[<<chat, u>>] = traceFiles[<<chat, u>>]
                OBVIOUS
            <4>1. <<chat, u>> # <<chat, t>> /\ <<chat, u>> \in Sessions \X Turns
                BY <3>1
            <4> QED
                BY <2>2, <4>1 DEF PTraces
        <3>5. failed = 0 => \A u \in DOMAIN traces \ unsaved' : traceFiles'[<<chat, u>>].turn = traces[u]
            BY <2>1, <3>3, <3>4 DEF PTraces
        <3> QED
            BY <2>1, <2>2, <3>2, <3>5 DEF PTraces
    <2>3. CASE traceFiles' = traceFiles /\ failed' = failed + 1
        <3>1. failed' # 0
            BY <2>3 DEF PTurn
        <3> QED
            BY <2>1, <2>3, <3>1 DEF PTraces
    <2> QED
        BY <1>5, <2>2, <2>3 DEF SaveTrace, Fail, TraceWritten
<1>6. CASE NewChat
    <2>1. chat' = 0 /\ traces' = << >> /\ pc = "idle" /\ UNCHANGED <<pc, unsaved, traceFiles>>
        BY <1>6 DEF NewChat
    <2>2. DOMAIN << >> = {}
        BY EmptySeq
    <2> QED
        BY <2>1, <2>2 DEF PTraces
<1>7. ASSUME NEW c \in Turns, LoadChat(c) PROVE PTraces'
    <2> DEFINE readable == {u \in Turns : traceFiles[<<c, u>>].state = "whole"}
    <2>1. /\ chat' = c /\ traces' = [t \in readable |-> traceFiles[<<c, t>>].turn]
          /\ pc = "idle" /\ UNCHANGED <<pc, unsaved, traceFiles>>
        BY <1>7 DEF LoadChat
    <2>2. readable \subseteq Turns /\ \A t \in readable : <<c, t>> \in Sessions \X Turns
        BY DEF Sessions
    <2> HIDE DEF readable
    <2>3. DOMAIN traces' = readable /\ \A t \in readable : traces'[t] = traceFiles[<<c, t>>].turn
        BY <2>1
    <2>4. \A t \in readable : traceFiles[<<c, t>>].turn \in Nat
        BY <2>2 DEF PTraces
    <2> QED
        BY <2>1, <2>2, <2>3, <2>4 DEF PTraces
<1>8. CASE Crash
    BY <1>2, <1>8 DEF Crash
<1>9. CASE Restart
    <2>1. traces' = << >> /\ chat' = 0 /\ unsaved' = {} /\ pc' = "idle" /\ traceFiles' = traceFiles
        BY <1>9 DEF Restart
    <2>2. DOMAIN << >> = {}
        BY EmptySeq
    <2> QED
        BY <2>1, <2>2 DEF PTraces
<1>10. CASE SaveProof \/ BeginRecord \/ EndRecord \/ Learn \/ MergeField \/ BeginField \/ EndField
    <2>1. UNCHANGED traceVars /\ pc' \notin {"idle", "traces"}
        BY <1>10 DEF SaveProof, BeginRecord, EndRecord, Learn, MergeField, BeginField, EndField,
                     Fail, AfterFailedRecord
    <2> QED
        BY <1>2, <2>1
<1>11. CASE UNCHANGED postVars
    BY <1>11 DEF postVars, PTraces
<1> QED
    BY <1>1, <1>3, <1>4, <1>5, <1>6, <1>7, <1>8, <1>9, <1>10, <1>11 DEF PostNext, TurnStep

-----------------------------------------------------------------------------
LEMMA PostInvSafe == PostInv => PostSafety
<1> SUFFICES ASSUME PostInv PROVE PostSafety
    OBVIOUS
<1>1. 1 .. turn \subseteq Turns
    BY PostAssumption DEF PostInv, PTurn, Turns
<1>2. PostTypeOK
    BY <1>1 DEF PostInv, PTurn, PWeights, AllSound, PTraces, PostTypeOK, FileStates
<1>3. LearnedIsSealed
    BY DEF PostInv, PWeights, AllSound, Sound, LearnedIsSealed
<1>4. RecordsImmutable
    BY DEF PostInv, PRecords, RecordsImmutable
<1>5. LearningKept
    BY DEF PostInv, PKept, Holds, LearningKept
<1>6. TracesWhole
    BY DEF PostInv, PTraces, TracesWhole
<1> QED
    BY <1>2, <1>3, <1>4, <1>5, <1>6 DEF PostSafety

\* The post-forward runtime (micronaut-ui.ps1 after Xul) for any edges and any
\* number of turns, crashes and failed writes: rewards come from sealed turns
\* alone, records stay within a process, and what was learned and traced is
\* kept as PostSafety says.
THEOREM PostHolds == PostSpec => []PostSafety
<1>1. PostInit => PostInv
    BY PTurnInit, PRecordsInit, PWeightsInit, PKeptInit, PTracesInit
       DEF PostInv, POpened, PostInit, TurnPlaces
<1>2. PostInv /\ [PostNext]_postVars => PostInv'
    BY PTurnNext, POpenedNext, PRecordsNext, PWeightsNext, PKeptNext, PTracesNext DEF PostInv
<1>3. PostInv => PostSafety
    BY PostInvSafe
<1> QED
    BY <1>1, <1>2, <1>3, PTL DEF PostSpec

-----------------------------------------------------------------------------
(* The flash RAM.                                                             *)

Snapshot == [content : [tick : 0 .. MaxChanges, state : States],
             hash : (0 .. MaxChanges) \X States,
             prev : ((0 .. MaxChanges) \X States) \union {NoHash}]

\* What the snapshot flash says of the RAM now that was taken by it: all of it,
\* or what the snapshot before does not say.
Tells(flash, before, now) ==
    \A k \in FlashKeys : now[k] # Deleted =>
        \/ Old(flash, k) = now[k]
        \/ /\ Old(flash, k) = Deleted /\ Old(before, k) = now[k]
           /\ flash.prev = before.hash

FlashInv ==
    /\ ram \in States /\ changes \in 0 .. MaxChanges
    /\ flashes \in Seq(Snapshot) /\ seen \in Seq(States)
    /\ Len(flashes) = Len(seen) /\ Len(flashes) <= MaxFlashes
    /\ \A i \in 1 .. Len(flashes) :
          /\ Intact(flashes[i])
          /\ flashes[i].prev = NoHash => \A k \in FlashKeys : Old(flashes[i], k) = seen[i][k]
          /\ flashes[i].prev # NoHash =>
                \E j \in 1 .. Len(flashes) : Tells(flashes[i], flashes[j], seen[i])

LEMMA FlashInvInit == FlashInit => FlashInv
<1> SUFFICES ASSUME FlashInit PROVE FlashInv
    OBVIOUS
<1>1. << >> \in Seq(Snapshot) /\ << >> \in Seq(States) /\ Len(<< >>) = 0 /\ 1 .. 0 = {}
    BY EmptySeq
<1>2. 0 <= MaxFlashes /\ 0 \in 0 .. MaxChanges
    BY FlashAssumption
<1> QED
    BY <1>1, <1>2 DEF FlashInit, FlashInv, States

\* A snapshot is taken.
LEMMA TakeKeeps ==
    ASSUME FlashInv, NEW f \in Snapshot, Take(f), Intact(f),
           f.prev = NoHash => \A k \in FlashKeys : Old(f, k) = ram[k],
           f.prev # NoHash => \E j \in 1 .. Len(flashes) : Tells(f, flashes[j], ram)
    PROVE  FlashInv'
<1> DEFINE n == Len(flashes)
<1>1. /\ flashes' = Append(flashes, f) /\ seen' = Append(seen, ram)
      /\ ram' = ram /\ changes' = changes /\ n < MaxFlashes
    BY DEF Take
<1>2. n \in Nat /\ n = Len(seen) /\ flashes \in Seq(Snapshot) /\ seen \in Seq(States) /\ ram \in States
    BY LenProperties DEF FlashInv
<1> HIDE DEF n
<1>3. /\ flashes' \in Seq(Snapshot) /\ Len(flashes') = n + 1 /\ flashes'[n + 1] = f
      /\ \A i \in 1 .. n : flashes'[i] = flashes[i]
    BY <1>1, <1>2, AppendProperties DEF n
<1>4. /\ seen' \in Seq(States) /\ Len(seen') = n + 1 /\ seen'[n + 1] = ram
      /\ \A i \in 1 .. n : seen'[i] = seen[i]
    BY <1>1, <1>2, AppendProperties
<1>5. 1 .. n \subseteq 1 .. n + 1 /\ \A i \in 1 .. n + 1 : i = n + 1 \/ i \in 1 .. n
    BY <1>2
<1>6. ASSUME NEW i \in 1 .. n + 1
      PROVE  /\ Intact(flashes'[i])
             /\ flashes'[i].prev = NoHash => \A k \in FlashKeys : Old(flashes'[i], k) = seen'[i][k]
             /\ flashes'[i].prev # NoHash =>
                   \E j \in 1 .. n + 1 : Tells(flashes'[i], flashes'[j], seen'[i])
    <2>1. CASE i \in 1 .. n
        <3>1. flashes'[i] = flashes[i] /\ seen'[i] = seen[i]
            BY <1>3, <1>4, <2>1
        <3>2. /\ Intact(flashes[i])
              /\ flashes[i].prev = NoHash => \A k \in FlashKeys : Old(flashes[i], k) = seen[i][k]
              /\ flashes[i].prev # NoHash => \E j \in 1 .. n : Tells(flashes[i], flashes[j], seen[i])
            BY <2>1 DEF FlashInv, n
        <3>3. ASSUME flashes[i].prev # NoHash
              PROVE  \E j \in 1 .. n + 1 : Tells(flashes[i], flashes'[j], seen[i])
            <4>1. PICK j \in 1 .. n : Tells(flashes[i], flashes[j], seen[i])
                BY <3>2, <3>3
            <4>2. flashes'[j] = flashes[j] /\ j \in 1 .. n + 1
                BY <1>3, <1>5
            <4>3. Tells(flashes[i], flashes'[j], seen[i])
                BY <4>1, <4>2
            <4> QED
                BY <4>2, <4>3
        <3> QED
            BY <3>1, <3>2, <3>3
    <2>2. CASE i = n + 1
        <3>1. flashes'[i] = f /\ seen'[i] = ram
            BY <1>3, <1>4, <2>2
        <3>2. ASSUME f.prev # NoHash PROVE \E j \in 1 .. n + 1 : Tells(f, flashes'[j], ram)
            <4>1. PICK j \in 1 .. n : Tells(f, flashes[j], ram)
                BY <3>2 DEF n
            <4>2. flashes'[j] = flashes[j] /\ j \in 1 .. n + 1
                BY <1>3, <1>5
            <4>3. Tells(f, flashes'[j], ram)
                BY <4>1, <4>2
            <4> QED
                BY <4>2, <4>3
        <3> QED
            BY <3>1, <3>2
    <2> QED
        BY <1>5, <2>1, <2>2
<1>7. Len(flashes') = Len(seen') /\ Len(flashes') <= MaxFlashes
    BY <1>1, <1>2, <1>3, <1>4, FlashAssumption
<1>8. ram' \in States /\ changes' \in 0 .. MaxChanges
    BY <1>1, <1>2 DEF FlashInv
<1>9. \A i \in 1 .. Len(flashes') :
          /\ Intact(flashes'[i])
          /\ flashes'[i].prev = NoHash => \A k \in FlashKeys : Old(flashes'[i], k) = seen'[i][k]
          /\ flashes'[i].prev # NoHash =>
                \E j \in 1 .. Len(flashes') : Tells(flashes'[i], flashes'[j], seen'[i])
    BY <1>3, <1>6
<1> QED
    BY <1>3, <1>4, <1>7, <1>8, <1>9 DEF FlashInv, Intact, Old, Tells

\* What createFlashSnapshot makes is a snapshot that is intact.
LEMMA FlashMade ==
    ASSUME FlashInv, NEW s \in States, NEW p \in ((0 .. MaxChanges) \X States) \union {NoHash}
    PROVE  /\ Flash(s, p) \in Snapshot /\ Intact(Flash(s, p)) /\ Flash(s, p).prev = p
           /\ \A k \in FlashKeys : Old(Flash(s, p), k) = s[k]
<1>1. changes \in 0 .. MaxChanges
    BY DEF FlashInv
<1> QED
    BY <1>1 DEF Flash, Snapshot, Intact, Old

LEMMA LastFlash ==
    ASSUME FlashInv, flashes # << >>
    PROVE  /\ Len(flashes) \in 1 .. Len(flashes) /\ Last(flashes) = flashes[Len(flashes)]
           /\ Last(flashes) \in Snapshot /\ Last(flashes).hash \in (0 .. MaxChanges) \X States
           /\ Last(flashes).hash # NoHash
<1>1. Len(flashes) \in Nat /\ Len(flashes) # 0
    BY LenProperties, EmptySeq DEF FlashInv
<1>2. Len(flashes) \in 1 .. Len(flashes)
    BY <1>1
<1>3. flashes[Len(flashes)] \in Snapshot
    BY <1>2, ElementOfSeq DEF FlashInv
<1>4. flashes[Len(flashes)].hash \in (0 .. MaxChanges) \X States
    BY <1>3 DEF Snapshot
<1>5. \A h \in (0 .. MaxChanges) \X States : h # NoHash
    BY FlashAssumption
<1> QED
    BY <1>2, <1>3, <1>4, <1>5 DEF Last

LEMMA FullKeeps ==
    ASSUME FlashInv, TakeFull
    PROVE  FlashInv'
<1>1. ram \in States
    BY DEF FlashInv
<1>2. CASE Take(Flash(ram, NoHash))
    <2>1. /\ Flash(ram, NoHash) \in Snapshot /\ Intact(Flash(ram, NoHash))
          /\ Flash(ram, NoHash).prev = NoHash
          /\ \A k \in FlashKeys : Old(Flash(ram, NoHash), k) = ram[k]
        BY <1>1, FlashMade
    <2> QED
        BY <1>2, <2>1, TakeKeeps
<1>3. CASE flashes # << >> /\ Take(Flash(ram, Last(flashes).hash))
    <2> DEFINE f == Flash(ram, Last(flashes).hash)
    <2>1. /\ f \in Snapshot /\ Intact(f) /\ f.prev = Last(flashes).hash
          /\ \A k \in FlashKeys : Old(f, k) = ram[k]
        BY <1>1, <1>3, FlashMade, LastFlash
    <2>2. f.prev # NoHash /\ Len(flashes) \in 1 .. Len(flashes)
        BY <1>3, <2>1, LastFlash
    <2>3. Take(f)
        BY <1>3
    <2> HIDE DEF f
    <2>4. Tells(f, flashes[Len(flashes)], ram)
        BY <2>1 DEF Tells
    <2> QED
        BY <2>1, <2>2, <2>3, <2>4, TakeKeeps
<1> QED
    BY <1>2, <1>3 DEF TakeFull

LEMMA DeltaKeeps ==
    ASSUME FlashInv, TakeDelta
    PROVE  FlashInv'
<1> DEFINE prev == Last(flashes)
           delta == [k \in FlashKeys |-> IF k \in Changed(prev) THEN ram[k] ELSE Deleted]
           f == Flash(delta, prev.hash)
<1>1. flashes # << >> /\ Take(f)
    BY DEF TakeDelta
<1>2. ram \in States
    BY DEF FlashInv
<1>3. delta \in States
    BY <1>2 DEF States
<1>4. \A k \in FlashKeys : k \notin Changed(prev) => Old(prev, k) = ram[k]
    BY DEF Changed
<1>5. \A k \in FlashKeys :
          (k \in Changed(prev) => delta[k] = ram[k]) /\ (k \notin Changed(prev) => delta[k] = Deleted)
    OBVIOUS
<1> HIDE DEF delta
<1>6. /\ f \in Snapshot /\ Intact(f) /\ f.prev = prev.hash
      /\ \A k \in FlashKeys : Old(f, k) = delta[k]
    BY <1>1, <1>3, FlashMade, LastFlash
<1>7. f.prev # NoHash /\ Len(flashes) \in 1 .. Len(flashes) /\ prev = flashes[Len(flashes)]
    BY <1>1, <1>6, LastFlash
<1> HIDE DEF f, prev
<1>8. Tells(f, prev, ram)
    BY <1>4, <1>5, <1>6 DEF Tells
<1> QED
    BY <1>1, <1>6, <1>7, <1>8, TakeKeeps

LEMMA FlashInvNext == FlashInv /\ [FlashNext]_flashVars => FlashInv'
<1> SUFFICES ASSUME FlashInv, [FlashNext]_flashVars PROVE FlashInv'
    OBVIOUS
<1>1. ASSUME NEW k \in FlashKeys, Change(k) PROVE FlashInv'
    <2>1. flashes' = flashes /\ seen' = seen
        BY <1>1 DEF Change
    <2>2. ram' \in States
        <3>1. PICK v \in (Values \union {Deleted}) \ {ram[k]} : ram' = [ram EXCEPT ![k] = v]
            BY <1>1 DEF Change
        <3> QED
            BY <3>1 DEF FlashInv, States
    <2>3. changes' \in 0 .. MaxChanges
        BY <1>1, FlashAssumption DEF Change, FlashInv
    <2> QED
        BY <2>1, <2>2, <2>3 DEF FlashInv, Intact, Old, Tells
<1>2. CASE TakeFull
    BY <1>2, FullKeeps
<1>3. CASE TakeDelta
    BY <1>3, DeltaKeeps
<1>4. CASE UNCHANGED flashVars
    BY <1>4 DEF flashVars, FlashInv, Intact, Old, Tells
<1> QED
    BY <1>1, <1>2, <1>3, <1>4 DEF FlashNext

-----------------------------------------------------------------------------
\* A hash is of one content.
LEMMA SameHash ==
    ASSUME NEW a \in Snapshot, NEW b \in Snapshot, Intact(a), Intact(b), a.hash = b.hash
    PROVE  a.content = b.content
<1>1. <<a.content.tick, a.content.state>> = <<b.content.tick, b.content.state>>
    BY DEF Intact
<1>2. a.content.tick = b.content.tick /\ a.content.state = b.content.state
    BY <1>1
<1>3. /\ a.content \in [tick : 0 .. MaxChanges, state : States]
      /\ b.content \in [tick : 0 .. MaxChanges, state : States]
    BY DEF Snapshot
<1> QED
    BY <1>2, <1>3

\* A list of snapshots read back that verifies has their own contents.
LEMMA TruthHolds == FlashInv => Truth
<1> SUFFICES ASSUME FlashInv, NEW ids \in ReadBack, NEW torn \in DOMAIN ids, NEW other \in Ids,
                    NEW list, NEW now, NEW k,
                    list = [i \in DOMAIN ids |-> Entry(ids[i], IF i = torn THEN other ELSE ids[i])],
                    now = seen[ids[Len(ids)]], Verified(list), k \in Present(now)
             PROVE  Resurrected(list)[k] = now[k]
    BY DEF Truth
<1>1. PICK n \in Ids : ids \in [1 .. n -> Ids]
    BY DEF ReadBack
<1>2. /\ Len(flashes) \in Nat /\ n \in Nat /\ 1 <= n /\ DOMAIN ids = 1 .. n
      /\ \A i \in 1 .. Len(flashes) : flashes[i] \in Snapshot /\ Intact(flashes[i])
    <2>1. Len(flashes) \in Nat
        BY LenProperties DEF FlashInv
    <2>2. \A i \in 1 .. Len(flashes) : flashes[i] \in Snapshot
        BY ElementOfSeq DEF FlashInv
    <2> QED
        BY <1>1, <2>1, <2>2 DEF Ids, FlashInv
<1>3. Len(ids) = n /\ Len(list) = n
    BY <1>1, <1>2
<1>4. ASSUME NEW i \in 1 .. n
      PROVE  ids[i] \in 1 .. Len(flashes) /\ list[i] = flashes[ids[i]]
    <2> DEFINE c == IF i = torn THEN other ELSE ids[i]
    <2>1. ids[i] \in 1 .. Len(flashes) /\ c \in 1 .. Len(flashes)
        BY <1>1, <1>2 DEF Ids
    <2>2. list[i] = Entry(ids[i], c)
        BY <1>2
    <2>3. Intact(Entry(ids[i], c))
        BY <1>3, <2>2 DEF Verified
    <2> HIDE DEF c
    <2>4. flashes[ids[i]] \in Snapshot /\ flashes[c] \in Snapshot
          /\ Intact(flashes[ids[i]]) /\ Intact(flashes[c])
        BY <1>2, <2>1
    <2>5. flashes[c].content = flashes[ids[i]].content
        <3>1. Entry(ids[i], c).hash = flashes[ids[i]].hash /\ Entry(ids[i], c).content = flashes[c].content
            BY <2>4 DEF Entry, Snapshot
        <3>2. flashes[ids[i]].hash = flashes[c].hash
            BY <2>3, <2>4, <3>1 DEF Intact
        <3> QED
            BY <2>4, <3>2, SameHash
    <2>6. Entry(ids[i], c) = flashes[ids[i]]
        BY <2>4, <2>5 DEF Entry, Snapshot
    <2> QED
        BY <2>1, <2>2, <2>6
<1>5. n \in 1 .. n /\ k \in FlashKeys /\ now[k] # Deleted /\ now = seen[ids[n]]
    BY <1>2, <1>3 DEF Present
<1> DEFINE f == flashes[ids[n]]
<1>6. list[n] = f /\ ids[n] \in 1 .. Len(flashes)
    BY <1>4, <1>5
<1>7. ASSUME NEW m \in 1 .. n, Old(list[m], k) = now[k],
             \A i \in 1 .. n : Old(list[i], k) # Deleted => i <= m
      PROVE  Resurrected(list)[k] = now[k]
    <2>1. m \in Restorers(list, k) /\ \A i \in Restorers(list, k) : i \in Nat /\ m \in Nat /\ i <= m
        BY <1>2, <1>3, <1>5, <1>7 DEF Restorers
    <2>2. ASSUME NEW i \in Restorers(list, k) PROVE m >= i /\ (i >= m => i = m)
        <3>1. i \in Nat /\ m \in Nat /\ i <= m
            BY <2>1
        <3> QED
            BY <3>1
    <2>3. Max(Restorers(list, k)) = m
        BY <2>1, <2>2 DEF Max
    <2> QED
        BY <1>5, <1>7, <2>1, <2>3 DEF Resurrected
<1>8. CASE Old(f, k) = now[k]
    <2>1. \A i \in 1 .. n : i <= n
        BY <1>2
    <2> QED
        BY <1>5, <1>6, <1>7, <1>8, <2>1
<1>9. CASE Old(f, k) # now[k]
    <2>1. f.prev # NoHash
        BY <1>5, <1>6, <1>9 DEF FlashInv
    <2>2. PICK j \in 1 .. Len(flashes) : Tells(f, flashes[j], seen[ids[n]])
        BY <1>6, <2>1 DEF FlashInv
    <2>3. Old(f, k) = Deleted /\ Old(flashes[j], k) = now[k] /\ f.prev = flashes[j].hash
        BY <1>5, <1>9, <2>2 DEF Tells
    <2>4. list[n].prev = IF n = 1 THEN NoHash ELSE list[n - 1].hash
        BY <1>3, <1>5 DEF Verified, Linked
    <2>5. n # 1 /\ f.prev = list[n - 1].hash
        BY <1>6, <2>1, <2>4
    <2>6. n - 1 \in 1 .. n /\ \A i \in 1 .. n : i = n \/ i <= n - 1
        BY <1>2, <2>5
    <2>7. list[n - 1] = flashes[ids[n - 1]] /\ ids[n - 1] \in 1 .. Len(flashes)
        BY <1>4, <2>6
    <2>8. flashes[j].content.state = flashes[ids[n - 1]].content.state
        <3>1. Intact(flashes[j]) /\ Intact(flashes[ids[n - 1]])
            BY <1>2, <2>7
        <3> QED
            BY <1>2, <2>3, <2>5, <2>7, <3>1, SameHash
    <2>9. Old(list[n - 1], k) = now[k]
        BY <2>3, <2>7, <2>8 DEF Old
    <2>10. \A i \in 1 .. n : Old(list[i], k) # Deleted => i <= n - 1
        BY <1>6, <2>3, <2>6
    <2> QED
        BY <1>7, <2>6, <2>9, <2>10
<1> QED
    BY <1>8, <1>9

\* The flash RAM (flash-ram.js) for any durable keys, values, numbers of changes
\* and of snapshots: every list of snapshots that verifies, however it came
\* about, rebuilds the RAM its last snapshot was taken of.
THEOREM FlashHolds == FlashSpec => []FlashSafety
<1>1. FlashInit => FlashInv
    BY FlashInvInit
<1>2. FlashInv /\ [FlashNext]_flashVars => FlashInv'
    BY FlashInvNext
<1>3. FlashInv => FlashSafety
    BY TruthHolds DEF FlashSafety, FlashTypeOK, FlashInv
<1> QED
    BY <1>1, <1>2, <1>3, PTL DEF FlashSpec

-----------------------------------------------------------------------------
(* The job graph.                                                             *)

\* What loadMxb makes of a graph: dependencies name jobs or nothing.
IsGraph(g) ==
    /\ g.deps \in [Jobs -> SUBSET (Jobs \union {Missing})]
    /\ g.batch \subseteq Jobs

Wellformed ==
    /\ NJobs \in Nat
    /\ Missing \notin Jobs
    /\ \A g \in Graphs : IsGraph(g)

\* A set no order can begin with: each member waits for a member or for nothing.
Stuck(S) == \A n \in S : graph.deps[n] \intersect (S \union {Missing}) # {}

\* No member of a stuck set is ever started.
NeverEntered == \A S \in SUBSET Jobs : Stuck(S) => \A n \in S : job[n] = "pending"

\* What is left to the serial loop has its dependencies done as well, has the
\* lane to itself, and no stuck set is ever entered.
JobInv ==
    /\ IsGraph(graph)
    /\ job \in [Jobs -> {"pending", "running", "done", "error"}]
    /\ submitted \subseteq Jobs /\ wave \subseteq Jobs
    /\ outcome \in {"running", "returned", "thrown"}
    /\ \A n \in Jobs : job[n] = "running" <=> n \in submitted \union wave
    /\ wave \intersect (graph.batch \union submitted) = {}
    /\ wave # {} => submitted \ graph.batch # {}
    /\ \A n \in Jobs : job[n] # "pending" =>
           \A d \in graph.deps[n] : d \in Jobs /\ job[d] = "done"
    /\ \A m, n \in submitted \ graph.batch : m = n
    /\ NeverEntered
    /\ outcome = "returned" => /\ \A n \in Jobs : job[n] \in {"pending", "done"}
                               /\ Ready(job) = {}
    /\ outcome = "thrown" => submitted = {} /\ \E n \in Jobs : job[n] = "error"
    /\ strays = {}

LEMMA FirstOf ==
    ASSUME NJobs \in Nat, NEW S \in SUBSET Jobs
    PROVE  /\ First(S) \subseteq S
           /\ S # {} => First(S) # {}
           /\ \A m, n \in First(S) : m = n
<1>1. CASE S = {}
    BY <1>1 DEF First
<1>2. CASE S # {}
    <2>1. S \subseteq Nat
        BY DEF Jobs
    <2>2. PICK x \in S : \A y \in S : <<y, x>> \notin OpToRel(<, Nat)
        BY <1>2, <2>1, NatLessThanWellFounded, WFMin, Zenon
    <2>3. ASSUME NEW y \in S PROVE x <= y
        <3>1. ~(y < x)
            BY <2>1, <2>2, <<y, x>>[1] = y, <<y, x>>[2] = x, <<y, x>> \in Nat \X Nat
            DEF OpToRel
        <3> QED
            BY <2>1, <3>1
    <2>4. Min(S) \in S
        BY <2>3 DEF Min
    <2> QED
        BY <1>2, <2>4 DEF First
<1> QED
    BY <1>1, <1>2

LEMMA JobStarts == ASSUME Wellformed, JobInit PROVE JobInv
<1>1. graph \in Graphs
    BY DEF JobInit
<1>2. IsGraph(graph)
    BY <1>1 DEF Wellformed
<1> QED
    BY <1>2 DEF JobInit, JobInv, NeverEntered

\* A ready job is no member of a stuck set.
LEMMA ReadyIsFree ==
    ASSUME Wellformed, JobInv, NEW n \in Ready(job), NEW S \in SUBSET Jobs, Stuck(S)
    PROVE  n \notin S
<1> SUFFICES ASSUME n \in S PROVE FALSE
    OBVIOUS
<1>1. PICK d : d \in graph.deps[n] /\ d \in S \union {Missing}
    BY DEF Stuck
<1>2. d \in Jobs /\ job[d] = "done"
    BY <1>1 DEF Ready
<1>3. d \in S
    BY <1>1, <1>2 DEF Wellformed
<1> QED
    BY <1>2, <1>3 DEF JobInv, NeverEntered

LEMMA WaveSafe == ASSUME Wellformed, JobInv, StartWave PROVE JobInv'
<1> DEFINE R == Ready(job)
           Serial == R \ graph.batch
<1>1. /\ graph' = graph /\ outcome' = outcome /\ outcome = "running"
      /\ job' = [n \in Jobs |-> IF n \in R THEN "running" ELSE job[n]]
      /\ submitted' = (R \intersect graph.batch) \union First(Serial)
      /\ wave' = Serial \ First(Serial)
    BY DEF StartWave, WaveOver, Launch
<1>2. R \subseteq Jobs /\ \A n \in R : job[n] = "pending"
    BY DEF Ready
<1>3. /\ First(Serial) \subseteq Serial
      /\ Serial # {} => First(Serial) # {}
      /\ \A m, n \in First(Serial) : m = n
    <2>1. Serial \in SUBSET Jobs /\ NJobs \in Nat
        BY <1>2 DEF Wellformed
    <2> QED
        BY <2>1, FirstOf
<1>4. submitted = {} /\ ~Halts
    BY DEF StartWave, WaveOver
<1>5. wave = {}
    BY <1>4 DEF JobInv
<1>6. submitted' \union wave' = R
    BY <1>1, <1>3
<1>7. \A n \in Jobs : job'[n] = "running" <=> n \in R
    BY <1>1, <1>2, <1>4, <1>5 DEF JobInv
<1>8. \A n \in Jobs : job[n] = "done" => job'[n] = "done"
    BY <1>1, <1>2
<1>9. \A n \in Jobs : job'[n] # "pending" =>
          \A d \in graph.deps[n] : d \in Jobs /\ job'[d] = "done"
    BY <1>1, <1>8 DEF JobInv, Ready
<1>10. NeverEntered'
    BY <1>1, ReadyIsFree DEF JobInv, NeverEntered, Stuck
<1>11. strays' = {}
    BY <1>4 DEF StartWave, Halts, JobInv
<1>12. wave' \intersect (graph.batch \union submitted') = {}
    BY <1>1
<1>13. wave' # {} => submitted' \ graph.batch # {}
    BY <1>1, <1>3
<1>14. \A m, n \in submitted' \ graph.batch : m = n
    BY <1>1, <1>3
<1>15. job' \in [Jobs -> {"pending", "running", "done", "error"}]
    BY <1>1 DEF JobInv
<1>16. IsGraph(graph') /\ submitted' \subseteq Jobs /\ wave' \subseteq Jobs
    BY <1>1, <1>2, <1>3 DEF JobInv
<1>17. \A n \in Jobs : job'[n] = "running" <=> n \in submitted' \union wave'
    BY <1>6, <1>7
<1> HIDE DEF R, Serial
<1> QED
    BY <1>1, <1>9, <1>10, <1>11, <1>12, <1>13, <1>14, <1>15, <1>16, <1>17
    DEF JobInv

LEMMA SettleSafe == ASSUME Wellformed, JobInv, NEW n \in Jobs, Settle(n) PROVE JobInv'
<1> DEFINE next == IF n \in graph.batch THEN {} ELSE First(wave)
<1>1. PICK end \in {"done", "error"} : job' = [job EXCEPT ![n] = end]
    BY DEF Settle
<1>2. /\ n \in submitted /\ submitted' = (submitted \ {n}) \union next
      /\ wave' = wave \ next /\ graph' = graph /\ outcome' = outcome /\ strays' = strays
    BY DEF Settle
<1>3. First(wave) \subseteq wave /\ (wave # {} => First(wave) # {})
      /\ \A m, k \in First(wave) : m = k
    <2>1. wave \in SUBSET Jobs /\ NJobs \in Nat
        BY DEF Wellformed, JobInv
    <2> QED
        BY <2>1, FirstOf
<1>4. job[n] = "running" /\ n \notin wave
    BY <1>2 DEF JobInv
<1>5. \A k \in Jobs : k # n => job'[k] = job[k]
    BY <1>1 DEF JobInv
<1>6. job'[n] = end
    BY <1>1 DEF JobInv
<1>7. \A k \in Jobs : job'[k] = "running" <=> k \in submitted' \union wave'
    BY <1>2, <1>3, <1>4, <1>5, <1>6 DEF JobInv
<1>8. \A k \in Jobs : job'[k] # "pending" =>
          \A d \in graph.deps[k] : d \in Jobs /\ job'[d] = "done"
    BY <1>4, <1>5, <1>6 DEF JobInv
<1>9. NeverEntered'
    BY <1>2, <1>4, <1>5 DEF JobInv, NeverEntered, Stuck
<1>10. outcome = "running"
    BY <1>2, <1>4 DEF JobInv
<1>11. wave' \intersect (graph.batch \union submitted') = {}
    BY <1>2, <1>3 DEF JobInv
<1>12. wave' # {} => submitted' \ graph.batch # {}
    BY <1>2, <1>3 DEF JobInv
<1>13. \A m, k \in submitted' \ graph.batch : m = k
    BY <1>2, <1>3 DEF JobInv
<1>14. job' \in [Jobs -> {"pending", "running", "done", "error"}]
    BY <1>1 DEF JobInv
<1>15. submitted' \subseteq Jobs /\ wave' \subseteq Jobs
    BY <1>2, <1>3 DEF JobInv
<1> QED
    BY <1>2, <1>7, <1>8, <1>9, <1>10, <1>11, <1>12, <1>13, <1>14, <1>15
    DEF JobInv, IsGraph

LEMMA EndSafe == ASSUME Wellformed, JobInv, Throw \/ Return PROVE JobInv'
<1>1. /\ UNCHANGED <<graph, job, submitted, wave, strays>> /\ submitted = {}
      /\ outcome' \in {"returned", "thrown"}
    BY DEF Throw, Return, WaveOver
<1>2. wave = {}
    BY <1>1 DEF JobInv
<1>3. outcome' = "thrown" => \E n \in Jobs : job[n] = "error"
    BY <1>1 DEF Throw, Return, Halts, In
<1>4. outcome' = "returned" => /\ \A n \in Jobs : job[n] \in {"pending", "done"}
                               /\ Ready(job) = {}
    BY <1>1, <1>2 DEF Throw, Return, Halts, In, JobInv
<1> QED
    BY <1>1, <1>3, <1>4 DEF JobInv, IsGraph, NeverEntered, Stuck, Ready

LEMMA JobStep == ASSUME Wellformed, JobInv, [JobNext]_jobVars PROVE JobInv'
<1>1. CASE JobNext
    BY <1>1, WaveSafe, SettleSafe, EndSafe DEF JobNext
<1>2. CASE UNCHANGED jobVars
    BY <1>2 DEF jobVars, JobInv, IsGraph, NeverEntered, Stuck, Ready
<1> QED
    BY <1>1, <1>2

\* When nothing is ready, what is pending is a stuck set.
LEMMA LeftIsBlocked ==
    ASSUME Wellformed, JobInv, outcome = "returned"
    PROVE  In({"done"}) = Jobs \ Blocked /\ In({"pending"}) = Blocked
<1> DEFINE P == In({"pending"})
<1>1. P \in SUBSET Jobs
    BY DEF In
<1>2. \A n \in P : \E d \in graph.deps[n] : ~(d \in Jobs /\ job[d] = "done")
    BY DEF JobInv, Ready, In
<1>3. \A n \in P : graph.deps[n] \subseteq Jobs \union {Missing}
    BY DEF JobInv, IsGraph, In
<1>4. Stuck(P)
    BY <1>2, <1>3 DEF JobInv, Stuck, In
<1>5. P \subseteq Blocked
    BY <1>1, <1>4 DEF Blocked, Stuck
<1>6. Blocked \subseteq P
    BY DEF Blocked, JobInv, NeverEntered, Stuck, In
<1> QED
    BY <1>5, <1>6 DEF JobInv, In

\* At most one job of the serial lane is awaited.
LEMMA OneSerial == ASSUME JobInv PROVE SerialAlone
<1> DEFINE S == submitted \ graph.batch
<1>1. CASE S = {}
    BY <1>1, FS_EmptySet DEF SerialAlone
<1>2. CASE S # {}
    <2>1. PICK n : n \in S
        BY <1>2
    <2>2. S = {n}
        BY <2>1 DEF JobInv
    <2> QED
        BY <2>2, FS_Singleton DEF SerialAlone
<1> QED
    BY <1>1, <1>2

LEMMA InvIsSafe == ASSUME Wellformed, JobInv, graph \in Graphs PROVE JobSafety
<1>1. JobTypeOK
    BY DEF JobTypeOK, JobInv, In
<1>2. DepsFirst
    BY DEF DepsFirst, JobInv, In
<1>3. ReturnedAll
    BY LeftIsBlocked DEF ReturnedAll
<1>4. ThrownIsQuiet
    BY DEF ThrownIsQuiet, JobInv, In
<1> QED
    BY <1>1, <1>2, <1>3, <1>4, OneSerial DEF JobSafety, ErrorHalts, JobInv

\* For every graph: runGraph keeps dependencies and the serial lane, starts
\* nothing after an error, and returns with exactly the jobs done that some
\* order could run.
THEOREM GraphRunsAll == ASSUME Wellformed PROVE JobSpec => []JobSafety
<1>1. JobInit => JobInv /\ graph \in Graphs
    BY JobStarts DEF JobInit
<1>2. (JobInv /\ graph \in Graphs) /\ [JobNext]_jobVars => (JobInv /\ graph \in Graphs)'
    BY JobStep DEF JobNext, StartWave, Settle, Throw, Return, jobVars
<1>3. JobInv /\ graph \in Graphs => JobSafety
    BY InvIsSafe
<1> QED
    BY <1>1, <1>2, <1>3, PTL DEF JobSpec

-----------------------------------------------------------------------------
(* The circuit breaker.                                                       *)

\* The breaker remembers the end of the quiet time that its last trip began.
BreakerInv == BreakerSafety /\ clock \in Nat /\ quietUntil = nextAttempt

LEMMA BreakerStep ==
    ASSUME Threshold \in Nat \ {0}, Timeout \in Nat, BreakerInv, [BreakerNext]_breakerVars
    PROVE  BreakerInv'
<1> USE DEF BreakerInv, BreakerSafety, BreakerTypeOK, ClosedIsBelow, QuietWhileOpen, Refuses
<1>1. CASE Tick
    BY <1>1 DEF Tick
<1>2. CASE Reset
    BY <1>2 DEF Reset
<1>3. ASSUME NEW c \in Callers, Call(c) PROVE BreakerInv'
    BY <1>3 DEF Call
<1>4. ASSUME NEW c \in Callers, Success(c) PROVE BreakerInv'
    BY <1>4 DEF Success, Closes, Less
<1>5. ASSUME NEW c \in Callers, Failure(c) PROVE BreakerInv'
    BY <1>5 DEF Failure, Trips
<1>6. CASE UNCHANGED breakerVars
    BY <1>6 DEF breakerVars
<1> QED
    BY <1>1, <1>2, <1>3, <1>4, <1>5, <1>6 DEF BreakerNext

\* For every threshold and timeout: a closed breaker is below its threshold, and
\* one that tripped lets nothing through before its timeout.
THEOREM BreakerHolds ==
    ASSUME Threshold \in Nat \ {0}, Timeout \in Nat PROVE BreakerSpec => []BreakerSafety
<1>1. BreakerInit => BreakerInv
    BY DEF BreakerInit, BreakerInv, BreakerSafety, BreakerTypeOK, ClosedIsBelow,
           QuietWhileOpen, Refuses
<1>2. BreakerInv /\ [BreakerNext]_breakerVars => BreakerInv'
    BY BreakerStep
<1>3. BreakerInv => BreakerSafety
    BY DEF BreakerInv
<1> QED
    BY <1>1, <1>2, <1>3, PTL DEF BreakerSpec

-----------------------------------------------------------------------------
(* The task pools.                                                            *)

Rising(q) == \A i, j \in 1 .. Len(q) : i < j => q[i] < q[j]

\* The c tasks that came: L wait in this order, R run, S are settled, O over.
Places(L, R, S, O, c) ==
    /\ c \in Nat /\ L \in Seq(Nat) /\ Rising(L)
    /\ 1 .. c = ToSet(L) \union R \union S \union O
    /\ ToSet(L) \intersect (R \union S \union O) = {}
    /\ R \intersect S = {} /\ R \intersect O = {} /\ S \intersect O = {}
    /\ c = Len(L) + Cardinality(R) + Cardinality(S) + Cardinality(O)

LEMMA RangeOf ==
    ASSUME NEW T, NEW q \in Seq(T)
    PROVE  ToSet(q) = {q[i] : i \in 1 .. Len(q)} /\ ToSet(q) \subseteq T
<1> QED
    BY DEF ToSet

LEMMA JoinRange ==
    ASSUME NEW T, NEW p \in Seq(T), NEW q \in Seq(T)
    PROVE  ToSet(p \o q) = ToSet(p) \union ToSet(q)
<1> DEFINE r == p \o q
<1>1. /\ r \in Seq(T) /\ Len(r) = Len(p) + Len(q) /\ Len(p) \in Nat /\ Len(q) \in Nat
      /\ \A i \in 1 .. Len(p) : r[i] = p[i]
      /\ \A i \in 1 .. Len(q) : r[Len(p) + i] = q[i]
    BY ConcatProperties
<1> HIDE DEF r
<1>2. ASSUME NEW i \in 1 .. Len(r) PROVE r[i] \in ToSet(p) \union ToSet(q)
    <2>1. CASE i <= Len(p)
        BY <1>1, <2>1, RangeOf
    <2>2. CASE i > Len(p)
        <3>1. PICK j \in 1 .. Len(q) : i = Len(p) + j
            <4>1. i - Len(p) \in 1 .. Len(q) /\ i = Len(p) + (i - Len(p))
                BY <1>1, <2>2
            <4> QED
                BY <4>1
        <3> QED
            BY <1>1, <3>1, RangeOf
    <2> QED
        BY <1>1, <2>1, <2>2
<1>3. ASSUME NEW i \in 1 .. Len(p) PROVE p[i] \in ToSet(r)
    <2>1. i \in 1 .. Len(r)
        BY <1>1
    <2> QED
        BY <1>1, <2>1, RangeOf
<1>4. ASSUME NEW i \in 1 .. Len(q) PROVE q[i] \in ToSet(r)
    <2>1. Len(p) + i \in 1 .. Len(r)
        BY <1>1
    <2> QED
        BY <1>1, <2>1, RangeOf
<1>5. /\ ToSet(p) = {p[i] : i \in 1 .. Len(p)} /\ ToSet(q) = {q[i] : i \in 1 .. Len(q)}
      /\ ToSet(r) = {r[i] : i \in 1 .. Len(r)}
    BY <1>1, RangeOf
<1>6. ToSet(r) = ToSet(p) \union ToSet(q)
    BY <1>2, <1>3, <1>4, <1>5
<1> QED
    BY <1>6 DEF r

LEMMA AppendRange ==
    ASSUME NEW T, NEW q \in Seq(T), NEW e \in T
    PROVE  ToSet(Append(q, e)) = ToSet(q) \union {e}
<1>1. Append(q, e) = q \o <<e>> /\ <<e>> \in Seq(T)
    BY AppendIsConcat
<1>2. ToSet(<<e>>) = {e}
    BY DEF ToSet
<1>3. ToSet(q \o <<e>>) = ToSet(q) \union ToSet(<<e>>)
    BY <1>1, JoinRange, Zenon
<1> QED
    BY <1>1, <1>2, <1>3, Zenon

\* A queue cut in two.
LEMMA Cut ==
    ASSUME NEW T, NEW q \in Seq(T), NEW n \in 0 .. Len(q)
    PROVE  /\ SubSeq(q, 1, n) \in Seq(T) /\ SubSeq(q, n + 1, Len(q)) \in Seq(T)
           /\ Len(SubSeq(q, 1, n)) = n /\ Len(SubSeq(q, n + 1, Len(q))) = Len(q) - n
           /\ q = SubSeq(q, 1, n) \o SubSeq(q, n + 1, Len(q))
<1>1. Len(q) \in Nat /\ n \in Nat /\ \A i \in 1 .. Len(q) : q[i] \in T
    BY LenProperties, ElementOfSeq
<1>2. SubSeq(q, 1, n) \in Seq(T) /\ Len(SubSeq(q, 1, n)) = n
    <2>1. \A i \in 1 .. n : q[i] \in T
        BY <1>1
    <2> QED
        BY <1>1, <2>1, SubSeqProperties
<1>3. SubSeq(q, n + 1, Len(q)) \in Seq(T) /\ Len(SubSeq(q, n + 1, Len(q))) = Len(q) - n
    BY <1>1, SubSeqProperties
<1>4. 1 \in 1 .. Len(q) + 1 /\ n \in 1 - 1 .. Len(q) /\ Len(q) \in n .. Len(q)
    BY <1>1
<1>5. SubSeq(q, 1, n) \o SubSeq(q, n + 1, Len(q)) = SubSeq(q, 1, Len(q))
    BY <1>4, ConcatAdjacentSubSeq
<1> QED
    BY <1>2, <1>3, <1>5, SubSeqFull

\* Neighbours of a rising queue are apart and rise themselves.
LEMMA RisingParts ==
    ASSUME NEW p \in Seq(Nat), NEW q \in Seq(Nat), Rising(p \o q)
    PROVE  Rising(p) /\ Rising(q) /\ ToSet(p) \intersect ToSet(q) = {}
<1> DEFINE r == p \o q
<1>1. /\ Len(r) = Len(p) + Len(q) /\ Len(p) \in Nat /\ Len(q) \in Nat
      /\ \A i \in 1 .. Len(p) : r[i] = p[i]
      /\ \A i \in 1 .. Len(q) : r[Len(p) + i] = q[i]
      /\ \A i, j \in 1 .. Len(r) : i < j => r[i] < r[j]
    <2>1. Len(p) \in Nat /\ Len(q) \in Nat
        BY LenProperties
    <2>2. /\ Len(r) = Len(p) + Len(q)
          /\ \A i \in 1 .. Len(p) + Len(q) : r[i] = IF i <= Len(p) THEN p[i] ELSE q[i - Len(p)]
        BY ConcatProperties
    <2>3. \A i, j \in 1 .. Len(r) : i < j => r[i] < r[j]
        BY DEF Rising
    <2> HIDE DEF r
    <2>4. \A i \in 1 .. Len(p) : r[i] = p[i]
        BY <2>1, <2>2
    <2>5. ASSUME NEW i \in 1 .. Len(q) PROVE r[Len(p) + i] = q[i]
        <3>1. /\ Len(p) + i \in 1 .. Len(p) + Len(q) /\ ~(Len(p) + i <= Len(p))
              /\ (Len(p) + i) - Len(p) = i
            BY <2>1
        <3> QED
            BY <2>2, <3>1
    <2> QED
        BY <2>1, <2>2, <2>3, <2>4, <2>5
<1> HIDE DEF r
<1>2. Rising(p)
    <2> SUFFICES ASSUME NEW i \in 1 .. Len(p), NEW j \in 1 .. Len(p), i < j PROVE p[i] < p[j]
        BY DEF Rising
    <2>1. i \in 1 .. Len(r) /\ j \in 1 .. Len(r)
        BY <1>1
    <2> QED
        BY <1>1, <2>1
<1>3. Rising(q)
    <2> SUFFICES ASSUME NEW i \in 1 .. Len(q), NEW j \in 1 .. Len(q), i < j PROVE q[i] < q[j]
        BY DEF Rising
    <2>1. Len(p) + i \in 1 .. Len(r) /\ Len(p) + j \in 1 .. Len(r) /\ Len(p) + i < Len(p) + j
        BY <1>1
    <2> QED
        BY <1>1, <2>1
<1>4. ASSUME NEW i \in 1 .. Len(p), NEW j \in 1 .. Len(q) PROVE p[i] # q[j]
    <2>1. i \in 1 .. Len(r) /\ Len(p) + j \in 1 .. Len(r) /\ i < Len(p) + j
        BY <1>1
    <2>2. p[i] < q[j] /\ p[i] \in Nat /\ q[j] \in Nat
        BY <1>1, <2>1, ElementOfSeq
    <2> QED
        BY <2>2
<1> QED
    BY <1>2, <1>3, <1>4, RangeOf

\* A rising queue holds as many tasks as it is long.
LEMMA RisingCount ==
    ASSUME NEW q \in Seq(Nat), Rising(q)
    PROVE  IsFiniteSet(ToSet(q)) /\ Cardinality(ToSet(q)) = Len(q)
<1> DEFINE f == [i \in 1 .. Len(q) |-> q[i]]
<1>1. Len(q) \in Nat /\ \A i \in 1 .. Len(q) : q[i] \in Nat
    BY LenProperties, ElementOfSeq
<1>2. f \in [1 .. Len(q) -> ToSet(q)] /\ \A t \in ToSet(q) : \E i \in 1 .. Len(q) : f[i] = t
    BY RangeOf
<1>3. \A i, j \in 1 .. Len(q) : f[i] = f[j] => i = j
    <2> SUFFICES ASSUME NEW i \in 1 .. Len(q), NEW j \in 1 .. Len(q), i # j PROVE q[i] # q[j]
        OBVIOUS
    <2>1. i < j \/ j < i
        BY <1>1
    <2> QED
        BY <1>1, <2>1 DEF Rising
<1>4. f \in Bijection(1 .. Len(q), ToSet(q))
    BY <1>2, <1>3 DEF Bijection, Injection, Surjection, IsInjective
<1>5. IsFiniteSet(1 .. Len(q))
    BY <1>1, FS_Interval
<1>6. Cardinality(1 .. Len(q)) = IF 1 > Len(q) THEN 0 ELSE Len(q) - 1 + 1
    BY <1>1, FS_Interval
<1>7. ExistsBijection(1 .. Len(q), ToSet(q))
    BY <1>4 DEF ExistsBijection
<1>8. Cardinality(1 .. Len(q)) = Len(q)
    BY <1>1, <1>6
<1> QED
    BY <1>5, <1>7, <1>8, FS_Bijection

\* The places of the tasks under the pools' steps.
LEMMA PlacesFinite ==
    ASSUME NEW L, NEW R, NEW S, NEW O, NEW c, Places(L, R, S, O, c)
    PROVE  /\ IsFiniteSet(R) /\ IsFiniteSet(S) /\ IsFiniteSet(O)
           /\ Cardinality(R) \in Nat /\ Cardinality(S) \in Nat /\ Cardinality(O) \in Nat
           /\ Len(L) \in Nat
<1>1. c \in Nat /\ L \in Seq(Nat) /\ R \subseteq 1 .. c /\ S \subseteq 1 .. c /\ O \subseteq 1 .. c
    BY DEF Places
<1>2. IsFiniteSet(1 .. c)
    BY <1>1, FS_Interval
<1>3. IsFiniteSet(R) /\ IsFiniteSet(S) /\ IsFiniteSet(O)
    BY <1>1, <1>2, FS_Subset
<1>4. Cardinality(R) \in Nat /\ Cardinality(S) \in Nat /\ Cardinality(O) \in Nat
    BY <1>3, FS_CardinalityType
<1> QED
    BY <1>1, <1>3, <1>4, LenProperties

LEMMA Arrives ==
    ASSUME NEW L, NEW R, NEW S, NEW O, NEW c, Places(L, R, S, O, c)
    PROVE  Places(Append(L, c + 1), R, S, O, c + 1)
<1>1. /\ c \in Nat /\ L \in Seq(Nat) /\ Rising(L) /\ c + 1 \in Nat
      /\ 1 .. c = ToSet(L) \union R \union S \union O
    BY DEF Places
<1>2. /\ Append(L, c + 1) \in Seq(Nat) /\ Len(Append(L, c + 1)) = Len(L) + 1 /\ Len(L) \in Nat
      /\ \A i \in 1 .. Len(L) : Append(L, c + 1)[i] = L[i]
      /\ Append(L, c + 1)[Len(L) + 1] = c + 1
    BY <1>1, AppendProperties
<1>3. ToSet(Append(L, c + 1)) = ToSet(L) \union {c + 1}
    BY <1>1, AppendRange
<1>4. \A i \in 1 .. Len(L) : L[i] \in 1 .. c
    BY <1>1, RangeOf
<1>5. Rising(Append(L, c + 1))
    <2> DEFINE A == Append(L, c + 1)
    <2> SUFFICES ASSUME NEW i \in 1 .. Len(A), NEW j \in 1 .. Len(A), i < j PROVE A[i] < A[j]
        BY DEF Rising
    <2> HIDE DEF A
    <2>1. i \in 1 .. Len(L) /\ A[i] = L[i]
        BY <1>2 DEF A
    <2>2. CASE j = Len(L) + 1
        BY <1>1, <1>2, <1>4, <2>1, <2>2 DEF A
    <2>3. CASE j # Len(L) + 1
        <3>1. j \in 1 .. Len(L) /\ A[j] = L[j]
            BY <1>2, <2>3 DEF A
        <3> QED
            BY <1>1, <2>1, <3>1 DEF Rising
    <2> QED
        BY <2>2, <2>3
<1>6. 1 .. c + 1 = (1 .. c) \union {c + 1} /\ c + 1 \notin 1 .. c
    BY <1>1
<1>7. c + 1 = Len(Append(L, c + 1)) + Cardinality(R) + Cardinality(S) + Cardinality(O)
    BY <1>2, PlacesFinite DEF Places
<1> QED
    BY <1>1, <1>2, <1>3, <1>5, <1>6, <1>7 DEF Places

\* A task that came starts at once.
LEMMA Enters ==
    ASSUME NEW L, NEW R, NEW S, NEW O, NEW c, Places(L, R, S, O, c)
    PROVE  /\ Places(L, R \union {c + 1}, S, O, c + 1)
           /\ Cardinality(R \union {c + 1}) = Cardinality(R) + 1
<1>1. /\ c \in Nat /\ L \in Seq(Nat) /\ Rising(L)
      /\ 1 .. c = ToSet(L) \union R \union S \union O
    BY DEF Places
<1>2. 1 .. c + 1 = (1 .. c) \union {c + 1} /\ c + 1 \notin 1 .. c
    BY <1>1
<1>3. Cardinality(R \union {c + 1}) = Cardinality(R) + 1
    BY <1>1, <1>2, PlacesFinite, FS_AddElement
<1>4. c + 1 = Len(L) + Cardinality(R \union {c + 1}) + Cardinality(S) + Cardinality(O)
    BY <1>3, PlacesFinite DEF Places
<1> QED
    BY <1>1, <1>2, <1>3, <1>4 DEF Places

\* The first of the line start.
LEMMA Starts ==
    ASSUME NEW P, NEW Q, NEW R, NEW S, NEW O, NEW c, P \in Seq(Nat), Q \in Seq(Nat),
           Places(P \o Q, R, S, O, c)
    PROVE  /\ Places(Q, R \union ToSet(P), S, O, c)
           /\ Cardinality(R \union ToSet(P)) = Cardinality(R) + Len(P)
<1>1. /\ ToSet(P \o Q) = ToSet(P) \union ToSet(Q) /\ Len(P \o Q) = Len(P) + Len(Q)
      /\ Len(P) \in Nat /\ Len(Q) \in Nat
    BY JoinRange, ConcatProperties
<1>2. Rising(P) /\ Rising(Q) /\ ToSet(P) \intersect ToSet(Q) = {}
    BY RisingParts DEF Places
<1>3. IsFiniteSet(ToSet(P)) /\ Cardinality(ToSet(P)) = Len(P)
    BY <1>2, RisingCount
<1>4. R \intersect ToSet(P) = {}
    BY <1>1 DEF Places
<1>5. IsFiniteSet(R) /\ Cardinality(R) \in Nat
    BY PlacesFinite
<1>6. Cardinality(R \union ToSet(P)) = Cardinality(R) + Len(P)
    <2>1. Cardinality(R \intersect ToSet(P)) = 0
        BY <1>4, FS_EmptySet
    <2>2. Cardinality(R \union ToSet(P))
              = Cardinality(R) + Cardinality(ToSet(P)) - Cardinality(R \intersect ToSet(P))
        BY <1>3, <1>5, FS_Union
    <2> QED
        BY <1>1, <1>3, <1>5, <2>1, <2>2
<1>7. c = Len(Q) + Cardinality(R \union ToSet(P)) + Cardinality(S) + Cardinality(O)
    BY <1>1, <1>5, <1>6, PlacesFinite DEF Places
<1>8. /\ 1 .. c = ToSet(P) \union ToSet(Q) \union R \union S \union O
      /\ (ToSet(P) \union ToSet(Q)) \intersect (R \union S \union O) = {}
      /\ R \intersect S = {} /\ R \intersect O = {} /\ S \intersect O = {} /\ c \in Nat
    BY <1>1 DEF Places
<1>9. /\ 1 .. c = ToSet(Q) \union (R \union ToSet(P)) \union S \union O
      /\ ToSet(Q) \intersect ((R \union ToSet(P)) \union S \union O) = {}
      /\ (R \union ToSet(P)) \intersect S = {} /\ (R \union ToSet(P)) \intersect O = {}
    BY <1>2, <1>8
<1> QED
    BY <1>2, <1>6, <1>7, <1>8, <1>9 DEF Places

LEMMA Moves ==
    ASSUME NEW A, NEW B, NEW t \in A, IsFiniteSet(A), IsFiniteSet(B), t \notin B
    PROVE  Cardinality(A \ {t}) = Cardinality(A) - 1 /\ Cardinality(B \union {t}) = Cardinality(B) + 1
<1> QED
    BY FS_AddElement, FS_RemoveElement

LEMMA Settles ==
    ASSUME NEW L, NEW R, NEW S, NEW O, NEW c, Places(L, R, S, O, c), NEW t \in R
    PROVE  /\ Places(L, R \ {t}, S \union {t}, O, c)
           /\ Cardinality(R \ {t}) = Cardinality(R) - 1
           /\ Cardinality(S \union {t}) = Cardinality(S) + 1
<1>1. /\ IsFiniteSet(R) /\ IsFiniteSet(S) /\ Cardinality(R) \in Nat /\ Cardinality(S) \in Nat
      /\ Cardinality(O) \in Nat /\ Len(L) \in Nat
    BY PlacesFinite
<1>2. t \notin S
    BY DEF Places
<1>3. /\ Cardinality(R \ {t}) = Cardinality(R) - 1
      /\ Cardinality(S \union {t}) = Cardinality(S) + 1
    BY <1>1, <1>2, Moves, Zenon
<1>4. c = Len(L) + Cardinality(R \ {t}) + Cardinality(S \union {t}) + Cardinality(O)
    BY <1>1, <1>3 DEF Places
<1> QED
    BY <1>3, <1>4 DEF Places

LEMMA Ends ==
    ASSUME NEW L, NEW R, NEW S, NEW O, NEW c, Places(L, R, S, O, c), NEW t \in S
    PROVE  /\ Places(L, R, S \ {t}, O \union {t}, c)
           /\ Cardinality(S \ {t}) = Cardinality(S) - 1
<1>1. /\ IsFiniteSet(S) /\ IsFiniteSet(O) /\ Cardinality(R) \in Nat /\ Cardinality(S) \in Nat
      /\ Cardinality(O) \in Nat /\ Len(L) \in Nat
    BY PlacesFinite
<1>2. t \notin O
    BY DEF Places
<1>3. /\ Cardinality(S \ {t}) = Cardinality(S) - 1
      /\ Cardinality(O \union {t}) = Cardinality(O) + 1
    BY <1>1, <1>2, Moves, Zenon
<1>4. c = Len(L) + Cardinality(R) + Cardinality(S \ {t}) + Cardinality(O \union {t})
    BY <1>1, <1>3 DEF Places
<1> QED
    BY <1>3, <1>4 DEF Places

-----------------------------------------------------------------------------
\* Waiters promised a place come before those that wait for one.
Line == woken \o waiting
Arrived(c) == [t \in 1 .. c |-> t]

PoolInv ==
    /\ kind \in {"drain", "wake"} /\ size \in PoolSizes /\ late \in Nat /\ came \in 0 .. NTasks
    /\ waiting \in Seq(Nat) /\ woken \in Seq(Nat) /\ order \in Seq(Nat)
    /\ Places(Line, inFlight, settled, over, came)
    /\ active = Cardinality(inFlight) + Cardinality(settled)
    /\ NoneIdle /\ Bounded
    /\ kind = "drain" => order \o waiting = Arrived(came)

LEMMA PoolInvInit == ASSUME PoolInit PROVE PoolInv
<1> USE PoolAssumption DEF PoolInit
<1>1. <<>> \in Seq(Nat) /\ Len(<<>>) = 0 /\ <<>> \o <<>> = <<>>
    BY EmptySeq, ConcatEmptySeq
<1>2. Cardinality({}) = 0 /\ ToSet(<<>>) = {} /\ 1 .. 0 = {}
    BY FS_EmptySet DEF ToSet
<1>3. Places(Line, inFlight, settled, over, came)
    BY <1>1, <1>2 DEF Places, Rising, Line
<1>4. NoneIdle /\ Bounded
    BY <1>1 DEF NoneIdle, Bounded
<1>5. Arrived(0) = <<>>
    BY <1>2 DEF Arrived
<1> QED
    BY <1>1, <1>2, <1>3, <1>4, <1>5 DEF PoolInv

LEMMA PoolKinds ==
    ASSUME PoolInv
    PROVE  /\ size \in Nat /\ active \in Nat /\ late \in Nat /\ came \in Nat
           /\ Len(waiting) \in Nat /\ Len(woken) \in Nat
           /\ Cardinality(inFlight) \in Nat /\ Cardinality(settled) \in Nat
<1>1. Cardinality(inFlight) \in Nat /\ Cardinality(settled) \in Nat
    BY PlacesFinite DEF PoolInv
<1>2. Len(waiting) \in Nat /\ Len(woken) \in Nat
    BY LenProperties DEF PoolInv
<1> QED
    BY <1>1, <1>2, PoolAssumption DEF PoolInv

LEMMA Regroup ==
    ASSUME NEW p \in Seq(Nat), NEW q \in Seq(Nat), NEW r \in Seq(Nat)
    PROVE  (p \o q) \o r = p \o (q \o r)
<1> QED
    BY ConcatAssociative

\* A drain starts the first of the queue and fills the pool or empties it.
LEMMA DrainCuts ==
    ASSUME NEW q \in Seq(Nat), NEW a \in Nat, size \in Nat, a <= size, Drain(q, a)
    PROVE  \E started \in Seq(Nat) :
               /\ q = started \o waiting' /\ waiting' \in Seq(Nat)
               /\ active' = a + Len(started) /\ active' <= size
               /\ inFlight' = inFlight \union ToSet(started) /\ order' = order \o started
               /\ waiting' # <<>> => active' >= size
<1> DEFINE n == IF Len(q) < Room(a) THEN Len(q) ELSE Room(a)
           started == SubSeq(q, 1, n)
<1>1. Room(a) \in Nat /\ a + Room(a) = size
    BY DEF Room
<1>2. n \in 0 .. Len(q) /\ a + n <= size /\ n \in Nat /\ Len(q) \in Nat /\ (n < Len(q) => a + n = size)
    BY <1>1, LenProperties
<1>3. /\ active' = a + n /\ waiting' = SubSeq(q, n + 1, Len(q))
      /\ inFlight' = inFlight \union ToSet(started) /\ order' = order \o started
    BY DEF Drain
<1> HIDE DEF n
<1>4. /\ started \in Seq(Nat) /\ Len(started) = n /\ waiting' \in Seq(Nat)
      /\ Len(waiting') = Len(q) - n /\ q = started \o waiting'
    BY <1>2, <1>3, Cut
<1>5. waiting' # <<>> => n < Len(q)
    BY <1>2, <1>4, EmptySeq
<1> HIDE DEF started
<1>6. waiting' # <<>> => active' >= size
    BY <1>2, <1>3, <1>5
<1> QED
    BY <1>2, <1>3, <1>4, <1>6

\* What a drain makes of the places of the first pool.
LEMMA DrainKeeps ==
    ASSUME PoolInv, kind = "drain", UNCHANGED <<kind, size, woken, late>>,
           NEW q \in Seq(Nat), NEW a \in Nat, a <= size, Drain(q, a),
           Places(q, inFlight, settled', over', came'), came' \in 0 .. NTasks,
           a = Cardinality(inFlight) + Cardinality(settled'),
           order \o q = Arrived(came')
    PROVE  PoolInv'
<1>1. size \in Nat /\ woken = <<>> /\ woken' = <<>> /\ late = 0 /\ late' = 0 /\ kind' = "drain"
      /\ order \in Seq(Nat)
    BY PoolKinds DEF PoolInv, Bounded
<1>2. PICK started \in Seq(Nat) :
               /\ q = started \o waiting' /\ waiting' \in Seq(Nat)
               /\ active' = a + Len(started) /\ active' <= size
               /\ inFlight' = inFlight \union ToSet(started) /\ order' = order \o started
               /\ waiting' # <<>> => active' >= size
    BY <1>1, DrainCuts
<1>3. /\ Places(waiting', inFlight', settled', over', came')
      /\ Cardinality(inFlight') = Cardinality(inFlight) + Len(started)
    BY <1>2, Starts
<1>4. Line' = waiting'
    BY <1>1, <1>2, ConcatEmptySeq DEF Line
<1>5. order' \o waiting' = Arrived(came') /\ order' \in Seq(Nat)
    <2>1. (order \o started) \o waiting' = order \o (started \o waiting')
        <3>1. order \in Seq(Nat) /\ started \in Seq(Nat) /\ waiting' \in Seq(Nat)
            BY <1>1, <1>2
        <3> QED
            BY <3>1, Regroup, Zenon
    <2>2. order \o started \in Seq(Nat)
        BY <1>1, <1>2, ConcatProperties
    <2> QED
        BY <1>2, <2>1, <2>2, Zenon
<1>6. active' = Cardinality(inFlight') + Cardinality(settled') /\ active' \in Nat
    <2>1. /\ Len(started) \in Nat /\ Cardinality(inFlight) \in Nat /\ Cardinality(settled') \in Nat
        BY LenProperties, PlacesFinite
    <2> QED
        BY <1>2, <1>3, <2>1
<1>7. NoneIdle' /\ Bounded'
    <2>1. Len(woken') = 0
        BY <1>1
    <2> QED
        BY <1>1, <1>2, <1>6, <2>1 DEF NoneIdle, Bounded
<1> QED
    BY <1>1, <1>2, <1>3, <1>4, <1>5, <1>6, <1>7 DEF PoolInv

LEMMA SubmitKeeps == ASSUME PoolInv, Submit PROVE PoolInv'
<1> DEFINE t == came + 1
<1>1. /\ came < NTasks /\ came' = t /\ UNCHANGED <<kind, size, woken, over, settled>>
      /\ SubmitDrain(t) \/ SubmitWake(t)
    BY DEF Submit, SubmitDrain, SubmitWake
<1>2. /\ size \in Nat /\ active \in Nat /\ late \in Nat /\ came \in Nat /\ t \in Nat
      /\ Len(waiting) \in Nat /\ Len(woken) \in Nat /\ t \in 0 .. NTasks
      /\ waiting \in Seq(Nat) /\ woken \in Seq(Nat) /\ order \in Seq(Nat) /\ Line \in Seq(Nat)
      /\ Places(Line, inFlight, settled, over, came)
    BY <1>1, PoolAssumption, PoolKinds DEF PoolInv, Places
<1>3. /\ Append(waiting, t) \in Seq(Nat) /\ Append(waiting, t) # <<>>
      /\ woken \o Append(waiting, t) = Append(Line, t)
    <2>1. /\ Append(waiting, t) = waiting \o <<t>> /\ Append(Line, t) = Line \o <<t>>
          /\ <<t>> \in Seq(Nat)
        BY <1>2, AppendIsConcat
    <2>2. woken \o (waiting \o <<t>>) = (woken \o waiting) \o <<t>>
        BY <1>2, <2>1, ConcatAssociative
    <2>3. Append(waiting, t) \in Seq(Nat) /\ Append(waiting, t) # <<>>
        BY <1>2, AppendProperties
    <2> QED
        BY <2>1, <2>2, <2>3, Zenon DEF Line
<1>4. CASE SubmitDrain(t)
    <2>1. kind = "drain" /\ Drain(Append(waiting, t), active) /\ late' = late
        BY <1>4 DEF SubmitDrain
    <2>2. woken = <<>> /\ Line = waiting /\ active <= size
        <3>1. woken = <<>> /\ late = 0
            BY <2>1 DEF PoolInv, Bounded
        <3>2. <<>> \o waiting = waiting
            BY <1>2, ConcatEmptySeq
        <3>3. Len(woken) = 0
            BY <3>1
        <3> QED
            BY <1>2, <3>1, <3>2, <3>3 DEF PoolInv, Bounded, Line
    <2>3. Places(Append(waiting, t), inFlight, settled, over, t)
        BY <1>2, <2>2, Arrives
    <2>4. order \o Append(waiting, t) = Arrived(t)
        <3>1. order \o waiting = Arrived(came)
            BY <2>1 DEF PoolInv
        <3>2. order \o Append(waiting, t) = Append(Arrived(came), t)
            <4>1. /\ Append(waiting, t) = waiting \o <<t>> /\ <<t>> \in Seq(Nat)
                  /\ order \o waiting \in Seq(Nat)
                BY <1>2, AppendIsConcat, ConcatProperties
            <4>2. order \o (waiting \o <<t>>) = (order \o waiting) \o <<t>>
                BY <1>2, <4>1, ConcatAssociative
            <4>3. Append(order \o waiting, t) = (order \o waiting) \o <<t>>
                BY <1>2, <4>1, AppendIsConcat
            <4> QED
                BY <3>1, <4>1, <4>2, <4>3, Zenon
        <3>3. Append(Arrived(came), t) = Arrived(came + 1)
            BY <1>2 DEF Arrived
        <3> QED
            BY <3>2, <3>3
    <2> HIDE DEF t
    <2> QED
        BY <1>1, <1>2, <1>3, <2>1, <2>2, <2>3, <2>4, DrainKeeps DEF PoolInv
<1>5. CASE SubmitWake(t)
    <2>1. kind = "wake" /\ kind' = "wake"
        BY <1>1, <1>5 DEF SubmitWake
    <2>2. CASE active >= size
        <3>1. waiting' = Append(waiting, t) /\ UNCHANGED <<active, inFlight, order, late>>
            BY <1>5, <2>2 DEF SubmitWake
        <3>2. Line' = Append(Line, t)
            BY <1>1, <1>3, <3>1 DEF Line
        <3>3. Places(Line', inFlight', settled', over', came')
            BY <1>1, <1>2, <3>1, <3>2, Arrives
        <3>4. NoneIdle' /\ Bounded'
            BY <1>1, <1>2, <2>1, <2>2, <3>1 DEF NoneIdle, Bounded, PoolInv
        <3> QED
            BY <1>1, <1>2, <1>3, <2>1, <3>1, <3>3, <3>4 DEF PoolInv
    <2>3. CASE ~(active >= size)
        <3>1. /\ active' = active + 1 /\ inFlight' = inFlight \union {t} /\ order' = Append(order, t)
              /\ late' = IF woken # <<>> THEN late + 1 ELSE late
              /\ waiting' = waiting
            BY <1>5, <2>3 DEF SubmitWake, Begin
        <3>2. /\ Places(Line', inFlight', settled', over', came')
              /\ Cardinality(inFlight') = Cardinality(inFlight) + 1
            <4>1. /\ Places(Line, inFlight \union {came + 1}, settled, over, came + 1)
                  /\ Cardinality(inFlight \union {came + 1}) = Cardinality(inFlight) + 1
                <5>1. Places(Line, inFlight, settled, over, came)
                    BY <1>2
                <5> QED
                    BY <5>1, Enters
            <4>2. Line' = Line
                BY <1>1, <3>1 DEF Line
            <4> QED
                BY <1>1, <3>1, <4>1, <4>2
        <3>3. order' \in Seq(Nat)
            BY <1>2, <3>1, AppendProperties
        <3>4. woken = <<>> => Len(woken) = 0
            OBVIOUS
        <3>5. late' \in Nat /\ NoneIdle' /\ Bounded'
            <4>1. active + Len(woken) <= size + late /\ active < size
                BY <1>2, <2>3 DEF Bounded, PoolInv
            <4>2. late' \in Nat /\ active' + Len(woken') <= size + late'
                <5>1. CASE woken = <<>>
                    BY <1>1, <1>2, <3>1, <3>4, <4>1, <5>1
                <5>2. CASE woken # <<>>
                    BY <1>1, <1>2, <3>1, <4>1, <5>2
                <5> QED
                    BY <5>1, <5>2
            <4>3. waiting' # <<>> => active' + Len(woken') >= size
                <5>1. waiting # <<>> => active + Len(woken) >= size
                    BY DEF NoneIdle, PoolInv
                <5> QED
                    BY <1>1, <1>2, <3>1, <5>1
            <4> QED
                BY <1>1, <2>1, <4>2, <4>3 DEF NoneIdle, Bounded
        <3>6. active' = Cardinality(inFlight') + Cardinality(settled')
            BY <1>1, <3>1, <3>2, PoolKinds DEF PoolInv
        <3> QED
            BY <1>1, <1>2, <2>1, <3>1, <3>2, <3>3, <3>5, <3>6 DEF PoolInv
    <2> QED
        BY <2>2, <2>3
<1> QED
    BY <1>1, <1>4, <1>5

LEMMA SettleKeeps == ASSUME PoolInv, NEW t \in Tasks, TaskSettles(t) PROVE PoolInv'
<1>1. /\ t \in inFlight /\ inFlight' = inFlight \ {t} /\ settled' = settled \union {t}
      /\ UNCHANGED <<kind, size, active, waiting, woken, over, came, order, late>>
    BY DEF TaskSettles
<1>2. /\ Places(Line', inFlight', settled', over', came')
      /\ Cardinality(inFlight') = Cardinality(inFlight) - 1
      /\ Cardinality(settled') = Cardinality(settled) + 1
    <2>1. Places(Line, inFlight, settled, over, came)
        BY DEF PoolInv
    <2>2. /\ Places(Line, inFlight \ {t}, settled \union {t}, over, came)
          /\ Cardinality(inFlight \ {t}) = Cardinality(inFlight) - 1
          /\ Cardinality(settled \union {t}) = Cardinality(settled) + 1
        BY <1>1, <2>1, Settles
    <2>3. Line' = Line
        BY <1>1 DEF Line
    <2> QED
        BY <1>1, <2>2, <2>3
<1>3. active' = Cardinality(inFlight') + Cardinality(settled')
    BY <1>1, <1>2, PoolKinds DEF PoolInv
<1>4. NoneIdle' /\ Bounded'
    BY <1>1 DEF PoolInv, NoneIdle, Bounded
<1> QED
    BY <1>1, <1>2, <1>3, <1>4 DEF PoolInv

LEMMA FinallyKeeps == ASSUME PoolInv, NEW t \in Tasks, Finally(t) PROVE PoolInv'
<1>1. /\ t \in settled /\ settled' = settled \ {t} /\ over' = over \union {t}
      /\ UNCHANGED <<kind, size, came, late, woken>> /\ kind = "drain" /\ Drain(waiting, active - 1)
      \/ /\ t \in settled /\ settled' = settled \ {t} /\ over' = over \union {t}
         /\ UNCHANGED <<kind, size, came, late, inFlight, order>> /\ kind = "wake"
         /\ active' = active - 1
         /\ IF waiting = <<>>
            THEN UNCHANGED <<waiting, woken>>
            ELSE waiting' = Tail(waiting) /\ woken' = Append(woken, Head(waiting))
    BY DEF Finally, FinallyDrain, FinallyWake
<1>2. /\ t \in settled /\ settled' = settled \ {t} /\ over' = over \union {t}
      /\ UNCHANGED <<kind, size, came, late>>
    BY <1>1
<1>3. /\ Places(Line, inFlight, settled', over', came')
      /\ Cardinality(settled') = Cardinality(settled) - 1
    BY <1>2, Ends DEF PoolInv
<1>4. /\ active - 1 = Cardinality(inFlight) + Cardinality(settled') /\ active - 1 \in Nat
      /\ Cardinality(settled') \in Nat
    BY <1>3, PoolKinds, PlacesFinite DEF PoolInv
<1>5. CASE kind = "drain"
    <2>1. Drain(waiting, active - 1) /\ UNCHANGED woken
        BY <1>1, <1>5
    <2>2. woken = <<>> /\ late = 0 /\ Len(woken) = 0
        BY <1>5 DEF PoolInv, Bounded
    <2>3. Line = waiting
        BY <2>2, ConcatEmptySeq DEF PoolInv, Line
    <2>4. active - 1 <= size
        BY <2>2, PoolKinds DEF PoolInv, Bounded
    <2>5. order \o waiting = Arrived(came') /\ came' \in 0 .. NTasks /\ waiting \in Seq(Nat)
        BY <1>2, <1>5 DEF PoolInv
    <2> QED
        BY <1>2, <1>3, <1>4, <1>5, <2>1, <2>3, <2>4, <2>5, DrainKeeps
<1>6. CASE kind = "wake"
    <2>1. /\ UNCHANGED <<inFlight, order>> /\ active' = active - 1
          /\ IF waiting = <<>>
             THEN UNCHANGED <<waiting, woken>>
             ELSE waiting' = Tail(waiting) /\ woken' = Append(woken, Head(waiting))
        BY <1>1, <1>6
    <2>2. waiting \in Seq(Nat) /\ woken \in Seq(Nat) /\ order \in Seq(Nat)
        BY DEF PoolInv
    <2>3. CASE waiting = <<>>
        <3>1. Line' = Line
            BY <2>1, <2>3 DEF Line
        <3>2. NoneIdle' /\ Bounded'
            BY <1>2, <1>6, <2>1, <2>3, PoolKinds DEF NoneIdle, Bounded, PoolInv
        <3> QED
            BY <1>2, <1>3, <1>4, <1>6, <2>1, <2>2, <2>3, <3>1, <3>2 DEF PoolInv
    <2>4. CASE waiting # <<>>
        <3>1. /\ Head(waiting) \in Nat /\ Tail(waiting) \in Seq(Nat)
              /\ waiting = <<Head(waiting)>> \o Tail(waiting) /\ <<Head(waiting)>> \in Seq(Nat)
            BY <2>2, <2>4, HeadTailProperties
        <3>2. /\ waiting' = Tail(waiting) /\ woken' = Append(woken, Head(waiting))
              /\ woken' \in Seq(Nat) /\ Len(woken') = Len(woken) + 1
            <4>1. waiting' = Tail(waiting) /\ woken' = Append(woken, Head(waiting))
                BY <2>1, <2>4
            <4>2. /\ Append(woken, Head(waiting)) \in Seq(Nat)
                  /\ Len(Append(woken, Head(waiting))) = Len(woken) + 1
                BY <2>2, <3>1, AppendProperties
            <4> QED
                BY <4>1, <4>2
        <3>3. Line' = Line
            <4>1. woken' = woken \o <<Head(waiting)>>
                BY <2>2, <3>1, <3>2, AppendIsConcat
            <4>2. (woken \o <<Head(waiting)>>) \o Tail(waiting)
                      = woken \o (<<Head(waiting)>> \o Tail(waiting))
                BY <2>2, <3>1, ConcatAssociative
            <4> QED
                BY <3>1, <3>2, <4>1, <4>2, Zenon DEF Line
        <3>4. NoneIdle' /\ Bounded'
            <4>1. active + Len(woken) <= size + late /\ active + Len(woken) >= size
                BY <2>4 DEF Bounded, NoneIdle, PoolInv
            <4>2. active' + Len(woken') = active + Len(woken)
                BY <2>1, <3>2, PoolKinds
            <4> QED
                BY <1>2, <1>6, <4>1, <4>2 DEF NoneIdle, Bounded
        <3> QED
            BY <1>2, <1>3, <1>4, <1>6, <2>1, <2>2, <3>1, <3>2, <3>3, <3>4 DEF PoolInv
    <2> QED
        BY <2>3, <2>4
<1> QED
    BY <1>5, <1>6 DEF PoolInv

LEMMA ResumeKeeps == ASSUME PoolInv, Resume PROVE PoolInv'
<1>1. /\ woken # <<>> /\ woken' = Tail(woken) /\ active' = active + 1
      /\ inFlight' = inFlight \union {Head(woken)} /\ order' = Append(order, Head(woken))
      /\ UNCHANGED <<kind, size, waiting, settled, over, came, late>>
    BY DEF Resume, Begin
<1>2. waiting \in Seq(Nat) /\ woken \in Seq(Nat) /\ order \in Seq(Nat) /\ kind = "wake"
    BY <1>1 DEF PoolInv, Bounded
<1>3. /\ Head(woken) \in Nat /\ Tail(woken) \in Seq(Nat) /\ Len(Tail(woken)) = Len(woken) - 1
      /\ woken = <<Head(woken)>> \o Tail(woken) /\ <<Head(woken)>> \in Seq(Nat)
    BY <1>1, <1>2, HeadTailProperties
<1>4. Line = <<Head(woken)>> \o Line' /\ Line' \in Seq(Nat)
    <2>1. (<<Head(woken)>> \o Tail(woken)) \o waiting = <<Head(woken)>> \o (Tail(woken) \o waiting)
        BY <1>2, <1>3, ConcatAssociative
    <2>2. Tail(woken) \o waiting \in Seq(Nat)
        BY <1>2, <1>3, ConcatProperties
    <2> QED
        BY <1>1, <1>3, <2>1, <2>2, Zenon DEF Line
<1>5. ToSet(<<Head(woken)>>) = {Head(woken)} /\ Len(<<Head(woken)>>) = 1
    BY DEF ToSet
<1>6. Places(<<Head(woken)>> \o Line', inFlight, settled, over, came)
    BY <1>4 DEF PoolInv
<1>7. /\ Places(Line', inFlight \union ToSet(<<Head(woken)>>), settled, over, came)
      /\ Cardinality(inFlight \union ToSet(<<Head(woken)>>))
             = Cardinality(inFlight) + Len(<<Head(woken)>>)
    BY <1>3, <1>4, <1>6, Starts
<1>8. /\ Places(Line', inFlight', settled', over', came')
      /\ Cardinality(inFlight') = Cardinality(inFlight) + 1
    BY <1>1, <1>5, <1>7
<1>9. active' = Cardinality(inFlight') + Cardinality(settled')
    BY <1>1, <1>8, PoolKinds DEF PoolInv
<1>10. NoneIdle' /\ Bounded'
    BY <1>1, <1>2, <1>3, PoolKinds DEF NoneIdle, Bounded, PoolInv
<1>11. order' \in Seq(Nat)
    BY <1>1, <1>2, <1>3, AppendProperties
<1> QED
    BY <1>1, <1>2, <1>3, <1>8, <1>9, <1>10, <1>11 DEF PoolInv

LEMMA PoolInvStep == ASSUME PoolInv, [PoolNext]_poolVars PROVE PoolInv'
<1>1. CASE UNCHANGED poolVars
    BY <1>1 DEF poolVars, PoolInv, Line, NoneIdle, Bounded
<1> QED
    BY <1>1, SubmitKeeps, SettleKeeps, FinallyKeeps, ResumeKeeps DEF PoolNext, PoolStep

LEMMA PoolInvSafety == ASSUME PoolInv PROVE PoolSafety
<1>1. /\ Line \in Seq(Nat) /\ waiting \in Seq(Nat) /\ woken \in Seq(Nat)
      /\ Places(Line, inFlight, settled, over, came)
    BY DEF PoolInv, Places
<1>2. /\ ToSet(Line) = ToSet(woken) \union ToSet(waiting)
      /\ ToSet(waiting \o woken) = ToSet(woken) \union ToSet(waiting)
      /\ Len(Line) = Len(woken) + Len(waiting)
    BY <1>1, JoinRange, ConcatProperties DEF Line
<1>3. 1 .. came \subseteq Tasks
    BY PoolAssumption DEF PoolInv, Tasks
<1>4. 1 .. came = ToSet(woken) \union ToSet(waiting) \union inFlight \union settled \union over
    BY <1>1, <1>2 DEF Places
<1>5. PoolTypeOK
    BY <1>3, <1>4 DEF PoolInv, PoolTypeOK
<1>6. TaskPlaces
    <2>1. came = Len(waiting) + Len(woken) + active + Cardinality(over)
        <3>1. came = Len(Line) + Cardinality(inFlight) + Cardinality(settled) + Cardinality(over)
            BY <1>1 DEF Places
        <3> QED
            BY <1>1, <1>2, <3>1, PoolKinds, PlacesFinite DEF PoolInv
    <2> QED
        BY <1>2, <1>4, <2>1 DEF TaskPlaces
<1>7. InOrder
    BY <1>1 DEF PoolInv, Places, Rising, Line, InOrder, Arrived
<1> QED
    BY <1>5, <1>6, <1>7 DEF PoolInv, PoolSafety

\* The two ThreadPools, for any number of tasks and any size: no place is idle
\* while a task waits, the pool of micronaut-parallelism.js stays within its
\* size and starts tasks in the order they came, the pool of temporal-layer.js
\* goes beyond its size only by submits that slipped in between a wake and its
\* waiter, and every task is in exactly one place.
THEOREM PoolsHold == PoolSpec => []PoolSafety
<1>1. PoolInit => PoolInv
    BY PoolInvInit
<1>2. PoolInv /\ [PoolNext]_poolVars => PoolInv'
    BY PoolInvStep
<1>3. PoolInv => PoolSafety
    BY PoolInvSafety
<1> QED
    BY <1>1, <1>2, <1>3, PTL DEF PoolSpec

-----------------------------------------------------------------------------
(* The trainer server, for any number of processes and any chunk counts.      *)

\* A process spawned by a handler is one that was not there before.
LEMMA FreshUnborn ==
    ASSUME Unborn # {} PROVE Fresh \in Children /\ child[Fresh] = "unborn"
<1>1. Fresh \in Unborn
    BY DEF Fresh
<1> QED
    BY <1>1 DEF Unborn

\* The record a chain goes on with is a chain.
LEMMA AfterChunkType ==
    ASSUME TrainerTypeOK, NEW c \in Children PROVE AfterChunk(c) \in FiberChain
<1>1. chain[c] \in FiberChain
    BY DEF TrainerTypeOK
<1>2. /\ chain[c].ci + 1 \in Nat
      /\ (IF child[c] = "exit1" THEN chain[c].failed + 1 ELSE chain[c].failed) \in Nat
    BY <1>1 DEF FiberChain
<1> QED
    BY <1>1, <1>2 DEF AfterChunk, FiberChain

LEMMA ChainValues ==
    /\ NoChain \in FiberChain
    /\ \A n \in Chunks : [ci |-> 0, of |-> n, failed |-> 0] \in FiberChain
BY TrainerAssumption DEF NoChain, FiberChain

(* The handlers of the server. *)

LEMMA StartsSafe ==
    ASSUME TrainerSafety,
           StartSingle \/ StartFiber \/ StartFiberEmpty \/ StartFiberNoTokens
    PROVE  TrainerSafety'
<1> USE DEF TrainerSafety, TrainerTypeOK, ProcIsOpen, BeginRun, ChildStates
<1>1. CASE StartSingle
    <2>1. Fresh \in Children /\ proc' = Fresh /\ child' = [child EXCEPT ![Fresh] = "alive"]
        BY <1>1, FreshUnborn DEF StartSingle
    <2>2. child' \in [Children -> ChildStates] /\ child'[proc'] = "alive"
        BY <2>1
    <2> QED
        BY <1>1, <2>1, <2>2 DEF StartSingle
<1>2. CASE StartFiber
    <2>1. PICK n \in Chunks \ {0} :
            /\ child' = [child EXCEPT ![Fresh] = "alive"]
            /\ chain' = [chain EXCEPT ![Fresh] = [ci |-> 0, of |-> n, failed |-> 0]]
        BY <1>2 DEF StartFiber
    <2>2. Fresh \in Children
        BY <1>2, FreshUnborn DEF StartFiber
    <2>3. child' \in [Children -> ChildStates] /\ chain' \in [Children -> FiberChain]
        BY <2>1, <2>2, ChainValues
    <2> QED
        BY <1>2, <2>3 DEF StartFiber
<1>3. CASE StartFiberEmpty
    BY <1>3, ChainValues DEF StartFiberEmpty
<1>4. CASE StartFiberNoTokens
    BY <1>4 DEF StartFiberNoTokens
<1> QED
    BY <1>1, <1>2, <1>3, <1>4

LEMMA StopSafe == ASSUME TrainerSafety, Stop PROVE TrainerSafety'
<1> USE DEF TrainerSafety, TrainerTypeOK, ProcIsOpen, ChildStates
<1>1. child' \in [Children -> ChildStates]
    BY DEF Stop
<1> QED
    BY <1>1 DEF Stop

(* The events of one process. *)

LEMMA OutputSafe ==
    ASSUME TrainerSafety, NEW c \in Children, PrintStep(c) \/ PrintEnd(c)
    PROVE  TrainerSafety'
BY DEF TrainerSafety, TrainerTypeOK, ProcIsOpen, PrintStep, PrintEnd

\* A process that exits stays open: its 'close' is still to come.
LEMMA ExitSafe ==
    ASSUME TrainerSafety, NEW c \in Children, Exit(c) PROVE TrainerSafety'
<1>1. PICK s \in {"exit0", "exit1"} : child' = [child EXCEPT ![c] = s]
    BY DEF Exit
<1>2. child' \in [Children -> ChildStates]
    BY <1>1 DEF TrainerSafety, TrainerTypeOK, ChildStates
<1>3. ProcIsOpen'
    BY <1>1 DEF TrainerSafety, TrainerTypeOK, ProcIsOpen, Exit
<1> QED
    BY <1>2, <1>3 DEF TrainerSafety, TrainerTypeOK, Exit

LEMMA CloseSafe ==
    ASSUME TrainerSafety, NEW c \in Children, CloseSingle(c) \/ CloseChunk(c)
    PROVE  TrainerSafety'
<1> USE DEF TrainerSafety, TrainerTypeOK, ProcIsOpen, ChildStates
<1>1. CASE CloseSingle(c)
    BY <1>1 DEF CloseSingle, RunningAfterClose, ProcAfterClose
<1>2. CASE CloseChunk(c)
    <2> DEFINE more == MoreChunks(AfterChunk(c))
    <2>1. AfterChunk(c) \in FiberChain
        BY AfterChunkType
    <2>2. child' \in [Children -> ChildStates]
        BY <1>2 DEF CloseChunk
    <2>3. chain' = IF more THEN [chain EXCEPT ![Fresh] = AfterChunk(c)] ELSE chain
        BY <1>2 DEF CloseChunk
    <2>4. chain' \in [Children -> FiberChain]
        BY <2>1, <2>3
    <2>5. chainEnd' \in FiberChain /\ running' \in BOOLEAN
        BY <1>2, <2>1 DEF CloseChunk
    <2> QED
        BY <1>2, <2>2, <2>4, <2>5 DEF CloseChunk, ProcAfterClose
<1> QED
    BY <1>1, <1>2

LEMMA StutterSafe == ASSUME TrainerSafety, UNCHANGED trainerVars PROVE TrainerSafety'
BY DEF TrainerSafety, TrainerTypeOK, ProcIsOpen, trainerVars

\* proc never names a process that is already killed or closed, so a stop
\* signals the current run's trainer or nothing, in any order of starts, stops,
\* output, exits and late 'close' events of trainer-server.cjs.
THEOREM TrainerServerSafe == TrainerSpec => []TrainerSafety
<1>1. TrainerInit => TrainerSafety
    BY ChainValues DEF TrainerInit, TrainerSafety, TrainerTypeOK, ProcIsOpen, ChildStates
<1>2. TrainerSafety /\ [TrainerNext]_trainerVars => TrainerSafety'
    BY StartsSafe, StopSafe, OutputSafe, ExitSafe, CloseSafe, StutterSafe
    DEF TrainerNext, ChildNext
<1> QED
    BY <1>1, <1>2, PTL DEF TrainerSpec

\* No event of an old process and no further stop touches the unborn ones.
LEMMA StoppedSpawnsNothing ==
    ASSUME TrainerTypeOK, [TrainerNext]_trainerVars, stopped, stopped' PROVE Unborn' = Unborn
<1>1. ~ (StartSingle \/ StartFiber \/ StartFiberEmpty \/ StartFiberNoTokens)
    BY DEF StartSingle, StartFiber, StartFiberEmpty, StartFiberNoTokens, BeginRun
<1>2. CASE Stop
    BY <1>2 DEF Stop, TrainerTypeOK, Unborn
<1>3. ASSUME NEW c \in Children, ChildNext(c) PROVE Unborn' = Unborn
    <2>1. CASE PrintStep(c) \/ PrintEnd(c)
        BY <2>1 DEF PrintStep, PrintEnd, Unborn
    <2>2. CASE Exit(c)
        <3>1. PICK s \in {"exit0", "exit1"} : child' = [child EXCEPT ![c] = s]
            BY <2>2 DEF Exit
        <3> QED
            BY <2>2, <3>1 DEF Exit, TrainerTypeOK, Unborn
    <2>3. CASE CloseSingle(c)
        BY <2>3 DEF CloseSingle, TrainerTypeOK, Unborn
    <2>4. CASE CloseChunk(c)
        <3>1. ~MoreChunks(AfterChunk(c))
            BY DEF MoreChunks, RunningAfterClose
        <3>2. \A d \in Children : child'[d] = IF d = c THEN "closed" ELSE child[d]
            BY <2>4, <3>1 DEF CloseChunk
        <3> QED
            BY <2>4, <3>2 DEF CloseChunk, Unborn
    <2> QED
        BY <1>3, <2>1, <2>2, <2>3, <2>4 DEF ChildNext
<1>4. CASE UNCHANGED trainerVars
    BY <1>4 DEF trainerVars, Unborn
<1> QED
    BY <1>1, <1>2, <1>3, <1>4 DEF TrainerNext

\* Once a stop was requested no process is spawned until the next start: the
\* fiber chain's continuation never gets past "if (!running) break".
THEOREM NoSpawnAfterStop == TrainerSpec => StopSpawnsNothing
<1>1. TrainerSafety => TrainerTypeOK
    BY DEF TrainerSafety
<1>2. TrainerTypeOK /\ [TrainerNext]_trainerVars => [stopped /\ stopped' => Unborn' = Unborn]_trainerVars
    BY StoppedSpawnsNothing
<1> QED
    BY <1>1, <1>2, TrainerServerSafe, PTL DEF TrainerSpec, StopSpawnsNothing
=============================================================================
