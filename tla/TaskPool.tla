------------------------------ MODULE TaskPool ------------------------------
(* The two ThreadPools of the JavaScript runtime.  The one of                 *)
(* micronaut-parallelism.js ("drain") queues every task and starts what fits  *)
(* whenever a task is submitted or is over; the one of temporal-layer.js      *)
(* ("wake") lets a submit through when it finds room and otherwise resolves   *)
(* one waiter per task that is over, which goes on a microtask later.         *)
(* Tasks return promises; callers submit at any time.                         *)
EXTENDS Naturals, Sequences, SequencesExt, FiniteSets

CONSTANTS
    NTasks,            \* tasks submitted, each known by when it came
    PoolSizes          \* the sizes a pool is made with

ASSUME PoolAssumption == NTasks \in Nat /\ PoolSizes \subseteq Nat

Tasks == 1 .. NTasks

VARIABLES
    kind,              \* "drain" | "wake"
    size,              \* _size
    active,            \* _active
    waiting,           \* _queue, or the callers behind _resolve
    woken,             \* waiters resolved and not yet resumed
    inFlight,          \* tasks whose promise is pending
    settled,           \* tasks whose promise is settled, their finally to come
    over,              \* tasks whose finally has run
    came,              \* tasks submitted: 1 .. came
    order,             \* history: tasks in the order of their start
    late               \* history: submits that found room between a wake and its waiter

poolVars == <<kind, size, active, waiting, woken, inFlight, settled, over, came, order, late>>

PoolInit ==
    /\ kind \in {"drain", "wake"} /\ size \in PoolSizes
    /\ active = 0 /\ waiting = <<>> /\ woken = <<>>
    /\ inFlight = {} /\ settled = {} /\ over = {}
    /\ came = 0 /\ order = <<>> /\ late = 0

\* mutant: one place too many
RoomM(a) == IF a > size THEN 0 ELSE size + 1 - a

Room(a) == IF a >= size THEN 0 ELSE size - a

\* _drain: the first tasks of the queue, as many as there is room for.
Drain(queue, a) ==
    LET n == IF Len(queue) < Room(a) THEN Len(queue) ELSE Room(a)
        started == SubSeq(queue, 1, n)
    IN  /\ active' = a + n
        /\ waiting' = SubSeq(queue, n + 1, Len(queue))
        /\ inFlight' = inFlight \union ToSet(started)
        /\ order' = order \o started

\* _active++ and the call of the task.
Begin(t) ==
    /\ active' = active + 1
    /\ inFlight' = inFlight \union {t}
    /\ order' = Append(order, t)

-----------------------------------------------------------------------------
SubmitDrain(t) ==
    /\ kind = "drain"
    /\ Drain(Append(waiting, t), active)
    /\ UNCHANGED <<late, settled>>

SubmitWake(t) ==
    /\ kind = "wake"
    /\ IF active >= size
       THEN waiting' = Append(waiting, t) /\ UNCHANGED <<active, inFlight, order, late>>
       ELSE /\ Begin(t)
            /\ late' = IF woken # <<>> THEN late + 1 ELSE late
            /\ UNCHANGED waiting
    /\ UNCHANGED settled

Submit ==
    /\ came < NTasks
    /\ came' = came + 1
    /\ SubmitDrain(came') \/ SubmitWake(came')
    /\ UNCHANGED <<kind, size, woken, over>>

\* A task's promise is fulfilled or rejected; the pool learns of it later.
TaskSettles(t) ==
    /\ t \in inFlight
    /\ inFlight' = inFlight \ {t} /\ settled' = settled \union {t}
    /\ UNCHANGED <<kind, size, active, waiting, woken, over, came, order, late>>

\* mutant: the drain is left to the next submit
FinallyDrainM(t) ==
    /\ kind = "drain"
    /\ active' = active - 1
    /\ UNCHANGED <<waiting, order, inFlight, woken>>

FinallyDrain(t) ==
    /\ kind = "drain"
    /\ Drain(waiting, active - 1)
    /\ UNCHANGED woken

\* mutant: the waiter resolved is not taken off the list
FinallyWakeM(t) ==
    /\ kind = "wake"
    /\ active' = active - 1
    /\ woken' = IF waiting = <<>> THEN woken ELSE Append(woken, Head(waiting))
    /\ UNCHANGED <<waiting, inFlight, order>>

\* The counter, then at most one waiter.
FinallyWake(t) ==
    /\ kind = "wake"
    /\ active' = active - 1
    /\ IF waiting = <<>>
       THEN UNCHANGED <<waiting, woken>>
       ELSE waiting' = Tail(waiting) /\ woken' = Append(woken, Head(waiting))
    /\ UNCHANGED <<inFlight, order>>

Finally(t) ==
    /\ t \in settled
    /\ FinallyDrain(t) \/ FinallyWake(t)
    /\ settled' = settled \ {t} /\ over' = over \union {t}
    /\ UNCHANGED <<kind, size, came, late>>

\* The waiter's microtask: it does not look at the counter again.
Resume ==
    /\ woken # <<>>
    /\ Begin(Head(woken)) /\ woken' = Tail(woken)
    /\ UNCHANGED <<kind, size, waiting, settled, over, came, late>>

PoolStep == Resume \/ \E t \in Tasks : TaskSettles(t) \/ Finally(t)

PoolNext == Submit \/ PoolStep

\* Microtasks run and every task settles; nobody has to submit.
PoolSpec == PoolInit /\ [][PoolNext]_poolVars /\ WF_poolVars(PoolStep)

-----------------------------------------------------------------------------
PoolTypeOK ==
    /\ kind \in {"drain", "wake"} /\ size \in PoolSizes /\ late \in Nat
    /\ {inFlight, settled, over} \subseteq SUBSET Tasks
    /\ {ToSet(waiting), ToSet(woken)} \subseteq SUBSET Tasks
    /\ active = Cardinality(inFlight) + Cardinality(settled)

\* Each task submitted is in one place, and only once.
TaskPlaces ==
    /\ came = Len(waiting) + Len(woken) + active + Cardinality(over)
    /\ 1 .. came = ToSet(waiting \o woken) \union inFlight \union settled \union over

\* No place is idle while a task waits, unless it is promised to a waiter.
NoneIdle == waiting # <<>> => active + Len(woken) >= size

\* "run tasks in parallel up to pool size" (temporal-layer.js:180) is what the
\* first pool does; the second goes beyond it by the submits that slipped in
\* between a wake and its waiter, and by no more.
Bounded == active + Len(woken) <= size + late /\ (kind = "drain" => late = 0 /\ woken = <<>>)

\* The first pool starts tasks in the order they came; in the second no waiter
\* overtakes another.
InOrder ==
    /\ kind = "drain" => order \o waiting = [t \in 1 .. came |-> t]
    /\ \A i, j \in 1 .. Len(woken \o waiting) :
           i < j => (woken \o waiting)[i] < (woken \o waiting)[j]

\* Capacity, order and accounting of the pools.
PoolSafety == PoolTypeOK /\ TaskPlaces /\ NoneIdle /\ Bounded /\ InOrder

\* Every task submitted runs to its end.
TasksEnd == \A t \in Tasks : t <= came ~> t \in over
=============================================================================
