----------------------------- MODULE MCServices -----------------------------
(* Three services of NeuralGrammar.Core and four parts of the JavaScript     *)
(* runtime that share no state, checked in one run: a behaviour is one of    *)
(* them, chosen at the start.                                                *)
EXTENDS ServiceWorker, SessionCache, PostForward, JobGraph, CircuitBreaker, TaskPool, FlashRam

(* Every graph of NJobs jobs, cyclic ones included, whose last job may also   *)
(* name a dependency that is no node.                                         *)
AllGraphs ==
    [deps : {d \in [1 .. NJobs -> SUBSET ((1 .. NJobs) \union {Missing})] :
                 \A n \in 1 .. NJobs - 1 : Missing \notin d[n]},
     batch : SUBSET (1 .. NJobs)]

VARIABLE part

graphVars == <<graph, job, submitted, wave, outcome, strays>>
vars == <<part, workerVars, cacheVars, postVars, graphVars, poolVars, breakerVars, flashVars>>

\* A part that is not the one chosen stays in one initial state.
Init ==
    /\ part \in {"worker", "cache", "post", "graph", "pool", "breaker", "flash"}
    /\ WorkerInit /\ CacheInit /\ PostInit /\ BreakerInit
    /\ JobInit /\ PoolInit /\ FlashInit
    /\ part # "graph" => graph = [deps |-> [n \in 1 .. NJobs |-> {}], batch |-> {}]
    /\ part # "pool" => kind = "drain" /\ \A n \in PoolSizes : size <= n

NotWorker ==
    UNCHANGED <<part, cacheVars, postVars, graphVars, poolVars, breakerVars, flashVars>>
NotCache ==
    UNCHANGED <<part, workerVars, postVars, graphVars, poolVars, breakerVars, flashVars>>
NotPost ==
    UNCHANGED <<part, workerVars, cacheVars, graphVars, poolVars, breakerVars, flashVars>>
NotGraph ==
    UNCHANGED <<part, workerVars, cacheVars, postVars, poolVars, breakerVars, flashVars>>
NotPool ==
    UNCHANGED <<part, workerVars, cacheVars, postVars, graphVars, breakerVars, flashVars>>
NotBreaker ==
    UNCHANGED <<part, workerVars, cacheVars, postVars, graphVars, poolVars, flashVars>>
NotFlash ==
    UNCHANGED <<part, workerVars, cacheVars, postVars, graphVars, poolVars, breakerVars>>

Next ==
    \/ part = "worker" /\ WorkerNext /\ NotWorker
    \/ part = "cache" /\ CacheNext /\ NotCache
    \/ part = "post" /\ PostNext /\ NotPost
    \/ part = "graph" /\ JobNext /\ NotGraph
    \/ part = "pool" /\ PoolNext /\ NotPool
    \/ part = "breaker" /\ BreakerNext /\ NotBreaker
    \/ part = "flash" /\ FlashNext /\ NotFlash

(* The fairness of each part's own specification.                            *)
StarterStep == part = "worker" /\ Starter /\ NotWorker
MonitorStep == part = "worker" /\ Monitor /\ NotWorker
StopperStep == part = "worker" /\ Stopper /\ NotWorker
JobStep == part = "graph" /\ JobNext /\ NotGraph
PoolMicrotask == part = "pool" /\ PoolStep /\ NotPool

Spec ==
    /\ Init /\ [][Next]_vars
    /\ WF_vars(StarterStep) /\ WF_vars(MonitorStep) /\ WF_vars(StopperStep)
    /\ WF_vars(JobStep) /\ WF_vars(PoolMicrotask)

-----------------------------------------------------------------------------
(* The properties of the parts.                                              *)

\* The worker comes to rest, a graph's run returns, a pool's tasks end.
ServicesSettle ==
    WorkerSettles /\ (part = "graph" => GraphEnds) /\ TasksEnd
=============================================================================
