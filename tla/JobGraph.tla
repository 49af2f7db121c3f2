------------------------------ MODULE JobGraph ------------------------------
(* runGraph of dag-runtime.js: jobs run in waves of what is ready, the batch  *)
(* lane's jobs at once and every other lane's one after another beside them.  *)
(* A job's work ends or throws, whenever it likes.                            *)
EXTENDS Naturals, FiniteSets, FiniteSetsExt

CONSTANTS
    NJobs,             \* jobs, numbered in the order of graph.nodes
    Missing,           \* a dependency that is no node of the graph
    Graphs             \* the graphs runGraph may be given: deps and batch lane

Jobs == 1 .. NJobs

VARIABLES
    graph,             \* deps of each job, jobs of the batch lane
    job,               \* MicronautJob.state
    submitted,         \* jobs whose work has been called and is awaited
    wave,              \* jobs of the serial lane of this wave yet to be submitted
    outcome,           \* "running" | "returned" | "thrown"
    strays             \* history: jobs started after a job had failed

jobVars == <<graph, job, submitted, wave, outcome, strays>>

In(states) == {n \in Jobs : job[n] \in states}

\* mutant: one dependency that is done will do
ReadyM(j) ==
    {n \in Jobs : /\ j[n] = "pending"
                  /\ graph.deps[n] = {} \/ \E d \in graph.deps[n] \intersect Jobs : j[d] = "done"}

\* computeReady; a missing dependency has no state and is never done.
Ready(j) ==
    {n \in Jobs : j[n] = "pending" /\ \A d \in graph.deps[n] : d \in Jobs /\ j[d] = "done"}

\* The serial loop submits the first of what is left to it.
First(serial) == IF serial = {} THEN {} ELSE {Min(serial)}

JobInit ==
    /\ graph \in Graphs
    /\ job = [n \in Jobs |-> "pending"] /\ submitted = {} /\ wave = {}
    /\ outcome = "running" /\ strays = {}

\* mutant: each lane is a loop of its own over every ready job
LaunchM(ready) ==
    /\ submitted' = ready
    /\ wave' = {}

\* Both lanes: the batch jobs and the first of the serial ones.
Launch(ready) ==
    LET serial == ready \ graph.batch
    IN  /\ submitted' = (ready \intersect graph.batch) \union First(serial)
        /\ wave' = serial \ First(serial)

\* Nothing is awaited: the first wave, or the one after Promise.all.
WaveOver == outcome = "running" /\ submitted = {}

\* mutant: an error only fails its own job
HaltsM == FALSE

\* "any error halts further scheduling"
Halts == In({"error"}) # {}

StartWave ==
    /\ WaveOver /\ ~Halts /\ Ready(job) # {}
    /\ job' = [n \in Jobs |-> IF n \in Ready(job) THEN "running" ELSE job[n]]
    /\ Launch(Ready(job))
    /\ strays' = IF In({"error"}) = {} THEN strays ELSE strays \union Ready(job)
    /\ UNCHANGED <<graph, outcome>>

\* A job's work settles; the serial loop then submits its next one.
Settle(n) ==
    /\ n \in submitted
    /\ \E end \in {"done", "error"} : job' = [job EXCEPT ![n] = end]
    /\ LET next == IF n \in graph.batch THEN {} ELSE First(wave)
       IN  submitted' = (submitted \ {n}) \union next /\ wave' = wave \ next
    /\ UNCHANGED <<graph, outcome, strays>>

Throw ==
    /\ WaveOver /\ Halts
    /\ outcome' = "thrown"
    /\ UNCHANGED <<graph, job, submitted, wave, strays>>

\* No job is ready: the states and results are returned, whatever is left.
Return ==
    /\ WaveOver /\ ~Halts /\ Ready(job) = {}
    /\ outcome' = "returned"
    /\ UNCHANGED <<graph, job, submitted, wave, strays>>

JobNext == StartWave \/ (\E n \in Jobs : Settle(n)) \/ Throw \/ Return

\* The event loop runs on and every job's work settles.
JobSpec == JobInit /\ [][JobNext]_jobVars /\ WF_jobVars(JobNext)

-----------------------------------------------------------------------------
JobTypeOK ==
    /\ graph \in Graphs /\ outcome \in {"running", "returned", "thrown"}
    /\ job \in [Jobs -> {"pending", "running", "done", "error"}]
    /\ submitted \subseteq In({"running"}) /\ wave \subseteq In({"running"}) \ graph.batch

\* What a job's work reads through env.jobs is there: whatever has been
\* submitted has all its dependencies done.
DepsFirst ==
    \A n \in submitted \union In({"done", "error"}) : graph.deps[n] \subseteq In({"done"})

\* "sequential computation": jobs outside the batch lane never overlap.
SerialAlone == Cardinality(submitted \ graph.batch) <= 1

(* The reference: jobs no order can run, the largest set whose members each   *)
(* depend on a member or on a missing node.                                   *)
Blocked ==
    UNION {S \in SUBSET Jobs : \A n \in S : graph.deps[n] \intersect (S \union {Missing}) # {}}

\* "execute until all done": a normal return has done every job that some order
\* could run, and has left out exactly the members of cycles, what waits for a
\* missing node, and what depends on either.
ReturnedAll ==
    outcome = "returned" => In({"done"}) = Jobs \ Blocked /\ In({"pending"}) = Blocked

\* A run that throws has waited for every job it had started.
ThrownIsQuiet == outcome = "thrown" => In({"running"}) = {} /\ In({"error"}) # {}

\* "any error halts further scheduling" (dag-runtime.js:180).
ErrorHalts == strays = {}

\* Order, lanes and completeness of a graph's execution.
JobSafety ==
    JobTypeOK /\ DepsFirst /\ SerialAlone /\ ReturnedAll /\ ThrownIsQuiet /\ ErrorHalts

\* Every run comes back to its caller.
GraphEnds == <>(outcome # "running")
=============================================================================
