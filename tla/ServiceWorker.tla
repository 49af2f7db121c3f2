---------------------------- MODULE ServiceWorker ----------------------------
(* ServiceWorker.cs: start-up hooks, the parallel start of the registered     *)
(* services, the health monitor's restarts and the shutdown beside it.  The   *)
(* host registers, awaits StartAsync and later calls StopAsync; the monitor   *)
(* is a task of its own.  A start action succeeds or throws.                  *)
EXTENDS Naturals, Sequences, FiniteSets

CONSTANTS
    NServices,         \* services, in the order of their registration
    AutoStart,         \* those registered with autoStart
    NHooks             \* calls of AddStartupHook

Services == 1 .. NServices
Hook == 0

VARIABLES
    state,             \* ServiceInfo.State
    restarts,          \* ServiceInfo.RestartCount
    overall,           \* _overallState
    cancelled,         \* _cts
    starter,           \* StartAsync: place, index in the chain, service
    tasks,             \* services of the parallel start still starting
    hooksRun,          \* history: start-up hooks that have run
    monitor,           \* HealthMonitorLoop: place and service
    stopper,           \* StopAsync: place and service
    revived            \* history: services the monitor went on restarting after the cancel

workerVars == <<state, restarts, overall, cancelled, starter, tasks, hooksRun,
                monitor, stopper, revived>>

\* AddStartupHook inserts at the front, Register appends a start of its service.
Registered ==
    CHOOSE f \in [1 .. Cardinality(AutoStart) -> AutoStart] :
        \A i, j \in 1 .. Cardinality(AutoStart) : i < j => f[i] < f[j]
Chain ==
    [i \in 1 .. NHooks + Cardinality(AutoStart) |->
        IF i <= NHooks THEN Hook ELSE Registered[i - NHooks]]

\* mutant: off by one
SplitM == IF Len(Chain) > NServices THEN Len(Chain) - NServices - 1 ELSE 0

\* StartAsync splits the chain by the number of services.
Split == IF Len(Chain) >= NServices THEN Len(Chain) - NServices ELSE 0

WorkerInit ==
    /\ state = [s \in Services |-> "Stopped"] /\ restarts = [s \in Services |-> 0]
    /\ overall = "Stopped" /\ cancelled = FALSE
    /\ starter = [pc |-> "none", at |-> 1, svc |-> Hook] /\ tasks = {} /\ hooksRun = 0
    /\ monitor = [pc |-> "none", svc |-> 1]
    /\ stopper = [pc |-> "none", svc |-> NServices]
    /\ revived = {}

AllRunning == \A s \in Services : state[s] = "Running"
Overall == IF AllRunning THEN "Running" ELSE "Degraded"

\* The two ends of StartService.
Started(s) == \E r \in {"Running", "Failed"} : state' = [state EXCEPT ![s] = r]

-----------------------------------------------------------------------------
(* StartAsync.                                                                *)

HostVars == <<restarts, cancelled, monitor, stopper, revived>>

StartAsync ==
    /\ starter.pc = "none"
    /\ overall' = "Starting"
    /\ starter' = [starter EXCEPT !.pc = "pre"]
    /\ UNCHANGED <<state, tasks, hooksRun, HostVars>>

\* The next entry of the chain, in the phase it falls into.
InPhase ==
    \/ starter.pc = "pre" /\ starter.at <= Split
    \/ starter.pc = "post" /\ starter.at <= Len(Chain)

RunHook ==
    /\ InPhase /\ starter.svc = Hook /\ Chain[starter.at] = Hook
    /\ hooksRun' = hooksRun + 1
    /\ starter' = [starter EXCEPT !.at = @ + 1]
    /\ UNCHANGED <<state, overall, tasks, HostVars>>

\* The entry of an autoStart service starts it, running or not.
BeginAuto ==
    /\ InPhase /\ starter.svc = Hook /\ Chain[starter.at] # Hook
    /\ starter' = [starter EXCEPT !.svc = Chain[starter.at]]
    /\ state' = [state EXCEPT ![Chain[starter.at]] = "Starting"]
    /\ UNCHANGED <<overall, tasks, hooksRun, HostVars>>

EndAuto ==
    /\ starter.svc # Hook
    /\ Started(starter.svc)
    /\ starter' = [starter EXCEPT !.svc = Hook, !.at = @ + 1]
    /\ UNCHANGED <<overall, tasks, hooksRun, HostVars>>

\* Every stopped service, autoStart or not.
StartParallel ==
    /\ starter.pc = "pre" /\ ~InPhase
    /\ tasks' = {s \in Services : state[s] = "Stopped"}
    /\ state' = [s \in Services |-> IF s \in tasks' THEN "Starting" ELSE state[s]]
    /\ starter' = [starter EXCEPT !.pc = "all"]
    /\ UNCHANGED <<overall, hooksRun, HostVars>>

TaskEnd(s) ==
    /\ s \in tasks
    /\ Started(s)
    /\ tasks' = tasks \ {s}
    /\ UNCHANGED <<overall, starter, hooksRun, HostVars>>

WhenAll ==
    /\ starter.pc = "all" /\ tasks = {}
    /\ starter' = [starter EXCEPT !.pc = "post"]
    /\ UNCHANGED <<state, overall, tasks, hooksRun, HostVars>>

\* The overall state, then the monitor's task.
StartMonitor ==
    /\ starter.pc = "post" /\ starter.at > Len(Chain) /\ starter.svc = Hook
    /\ overall' = Overall
    /\ monitor' = [monitor EXCEPT !.pc = "top"]
    /\ starter' = [starter EXCEPT !.pc = "up"]
    /\ UNCHANGED <<state, restarts, cancelled, tasks, hooksRun, stopper, revived>>

Starter ==
    \/ StartAsync \/ RunHook \/ BeginAuto \/ EndAuto \/ StartParallel \/ WhenAll \/ StartMonitor
    \/ \E s \in Services : TaskEnd(s)

-----------------------------------------------------------------------------
(* HealthMonitorLoop.                                                         *)

MonitorVars == <<cancelled, starter, tasks, hooksRun, stopper>>

\* while (!ct.IsCancellationRequested)
MonitorTop ==
    /\ monitor.pc = "top"
    /\ monitor' = IF cancelled THEN [monitor EXCEPT !.pc = "end"]
                               ELSE [pc |-> "scan", svc |-> 1]
    /\ UNCHANGED <<state, restarts, overall, revived, MonitorVars>>

\* mutant: a failed start counts as degraded and is not restarted
NeedsRestartM(s) == state[s] = "Degraded" /\ restarts[s] < 3

NeedsRestart(s) == state[s] = "Failed" /\ restarts[s] < 3

\* The next service: passed over, or taken into RestartService, whose
\* StopService marks it Stopping.
Inspect ==
    /\ monitor.pc = "scan" /\ monitor.svc <= NServices
    /\ IF NeedsRestart(monitor.svc)
       THEN /\ state' = [state EXCEPT ![monitor.svc] = "Stopping"]
            /\ monitor' = [monitor EXCEPT !.pc = "stopping"]
            /\ revived' = IF cancelled THEN revived \union {monitor.svc} ELSE revived
       ELSE /\ monitor' = [monitor EXCEPT !.svc = @ + 1]
            /\ UNCHANGED <<state, revived>>
    /\ UNCHANGED <<restarts, overall, MonitorVars>>

\* The stop action is done.
RestartStopped ==
    /\ monitor.pc = "stopping"
    /\ state' = [state EXCEPT ![monitor.svc] = "Stopped"]
    /\ restarts' = [restarts EXCEPT ![monitor.svc] = @ + 1]
    /\ monitor' = [monitor EXCEPT !.pc = "stopped"]
    /\ UNCHANGED <<overall, revived, MonitorVars>>

\* StartService, without a look at the token.
RestartStarts ==
    /\ monitor.pc = "stopped"
    /\ state' = [state EXCEPT ![monitor.svc] = "Starting"]
    /\ monitor' = [monitor EXCEPT !.pc = "starting"]
    /\ revived' = IF cancelled THEN revived \union {monitor.svc} ELSE revived
    /\ UNCHANGED <<restarts, overall, MonitorVars>>

RestartEnds ==
    /\ monitor.pc = "starting"
    /\ Started(monitor.svc)
    /\ monitor' = [pc |-> "scan", svc |-> monitor.svc + 1]
    /\ revived' = IF cancelled THEN revived \union {monitor.svc} ELSE revived
    /\ UNCHANGED <<restarts, overall, MonitorVars>>

\* The overall state, over whatever StopAsync has made of it, and the delay.
UpdateOverall ==
    /\ monitor.pc = "scan" /\ monitor.svc > NServices
    /\ overall' = Overall
    /\ monitor' = [monitor EXCEPT !.pc = "delay"]
    /\ UNCHANGED <<state, restarts, revived, MonitorVars>>

\* Task.Delay(5000, ct) elapses, or throws when cancelled.
Delay ==
    /\ monitor.pc = "delay"
    /\ monitor' = [monitor EXCEPT !.pc = IF cancelled THEN "end" ELSE "top"]
    /\ UNCHANGED <<state, restarts, overall, revived, MonitorVars>>

Monitor ==
    \/ MonitorTop \/ Inspect \/ RestartStopped \/ RestartStarts \/ RestartEnds
    \/ UpdateOverall \/ Delay

-----------------------------------------------------------------------------
(* StopAsync, which the host calls after StartAsync; its hooks touch nothing. *)

StopperVars == <<restarts, starter, tasks, hooksRun, monitor, revived>>

StopAsync ==
    /\ starter.pc = "up" /\ stopper.pc = "none"
    /\ overall' = "Stopping" /\ cancelled' = TRUE
    /\ stopper' = [pc |-> "next", svc |-> NServices]
    /\ UNCHANGED <<state, StopperVars>>

\* mutant: services that are not running are skipped
SkipsM(s) == state[s] # "Running"

\* StopService returns at once for a stopped service.
Skips(s) == state[s] = "Stopped"

\* Services in reverse order.
StopBegins ==
    /\ stopper.pc = "next" /\ stopper.svc > 0
    /\ IF Skips(stopper.svc)
       THEN stopper' = [stopper EXCEPT !.svc = @ - 1] /\ UNCHANGED state
       ELSE /\ state' = [state EXCEPT ![stopper.svc] = "Stopping"]
            /\ stopper' = [stopper EXCEPT !.pc = "stopping"]
    /\ UNCHANGED <<overall, cancelled, StopperVars>>

StopEnds ==
    /\ stopper.pc = "stopping"
    /\ state' = [state EXCEPT ![stopper.svc] = "Stopped"]
    /\ stopper' = [pc |-> "next", svc |-> stopper.svc - 1]
    /\ UNCHANGED <<overall, cancelled, StopperVars>>

StopDone ==
    /\ stopper.pc = "next" /\ stopper.svc = 0
    /\ overall' = "Stopped"
    /\ stopper' = [stopper EXCEPT !.pc = "done"]
    /\ UNCHANGED <<state, cancelled, StopperVars>>

Stopper == StopBegins \/ StopEnds \/ StopDone

WorkerNext == Starter \/ Monitor \/ StopAsync \/ Stopper

\* Tasks run on; the host need not stop.
WorkerSpec ==
    /\ WorkerInit /\ [][WorkerNext]_workerVars
    /\ WF_workerVars(Starter) /\ WF_workerVars(Monitor) /\ WF_workerVars(Stopper)

-----------------------------------------------------------------------------
WorkerTypeOK ==
    /\ state \in [Services -> {"Stopped", "Starting", "Running", "Failed", "Stopping"}]
    /\ restarts \in [Services -> 0 .. 3]
    /\ overall \in {"Stopped", "Starting", "Running", "Degraded", "Stopping"}
    /\ tasks \subseteq Services /\ hooksRun \in 0 .. NHooks /\ revived \subseteq Services

\* "Pre-startup hooks (e.g., load manifests)" (ServiceWorker.cs:117): when all
\* services are autoStart, no service leaves Stopped before every hook has run.
HooksFirst ==
    AutoStart = Services /\ hooksRun < NHooks => \A s \in Services : state[s] = "Stopped"

\* "graceful shutdown": what StopAsync has gone past is stopped and stays so,
\* except a service the monitor was restarting, or came to restart in the scan
\* it was in, which may run on after the stop.
StoppedStays ==
    stopper.pc # "none" =>
        \A s \in Services \ revived :
            s > stopper.svc \/ stopper.pc = "done" => state[s] = "Stopped"

\* Hooks before services, and services down after a stop.
WorkerSafety == WorkerTypeOK /\ HooksFirst /\ StoppedStays

\* "automatic restart of failed services": left alone, the worker comes to rest
\* with every service running or given up after three restarts, and the overall
\* state says which.
WorkerSettles ==
    starter.pc = "up" ~>
        \/ cancelled
        \/ /\ \A s \in Services :
                 state[s] = "Running" \/ (state[s] = "Failed" /\ restarts[s] = 3)
           /\ overall = Overall
=============================================================================
