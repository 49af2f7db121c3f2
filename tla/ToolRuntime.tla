---------------------------- MODULE ToolRuntime ----------------------------
(* kuhul_tool_runtime.h: ToolRegistry, BatchExecutor and the ToolExecutor on  *)
(* top of them.  Callers use one executor from their own threads; a batch     *)
(* goes through the queue of the thread pool, and a pool thread runs the      *)
(* same Call as a caller does.                                                *)
(* Bounds: MaxOps calls, MaxWindows expired rate windows.                     *)
EXTENDS Sequences, FiniteSets, Naturals

CONSTANTS
    Callers,           \* threads that call the executor
    Workers,           \* pool_
    Tools,             \* tool ids
    BatchTools,        \* those of type "batch"
    HelpTools,         \* those of type "help"
    Limit,             \* rate_limit of every tool; 0: none
    Batches,           \* tool sequences passed to BatchCall
    Files,             \* id sets of the files that may be loaded
    MaxOps, MaxWindows,
    Nobody

ASSUME ToolAssumption ==
    /\ Callers \intersect Workers = {}
    /\ Limit \in Nat
    /\ Batches \subseteq Seq(Tools)
    /\ Files \subseteq SUBSET Tools

Actors == Callers \union Workers

VARIABLES
    known,             \* ids in the registry
    regMu,             \* holder of ToolRegistry::mu_ between two steps
    queue,             \* q_ of the pool
    stop,              \* stop_
    loop,              \* pool threads: "test", "asleep", "task" or "exited"
    frame,             \* per actor: the Call or BatchCall it is in
    ready,             \* futures whose value is set
    count, open,       \* rate_counters_, and whether rate_reset_ is ahead
    granted,           \* history: calls let through in this window
    ops, windows       \* bounds

poolVars == <<queue, stop, loop, ready>>
rateVars == <<count, open, granted, windows>>
toolVars == <<known, regMu, queue, stop, loop, frame, ready, count, open, granted,
              ops, windows>>

Task(a, n, t) == [owner |-> a, slot |-> n, tool |-> t]
Idle == [pc |-> "idle", tool |-> Nobody, todo |-> <<>>, sent |-> 0, task |-> Nobody]

ToolInit ==
    /\ known = {} /\ regMu = Nobody
    /\ queue = <<>> /\ stop = FALSE /\ ready = {}
    /\ loop = [w \in Workers |-> "test"]
    /\ frame = [a \in Actors |-> Idle]
    /\ count = [t \in Tools |-> 0] /\ open = [t \in Tools |-> FALSE]
    /\ granted = [t \in Tools |-> 0] /\ windows = 0
    /\ ops = 0

-----------------------------------------------------------------------------
(* Entry points.                                                              *)

Enter(c, f) ==
    /\ frame[c].pc = "idle" /\ ops < MaxOps /\ ~stop
    /\ ops' = ops + 1
    /\ frame' = [frame EXCEPT ![c] = f]

Call(c, t) ==
    /\ Enter(c, [Idle EXCEPT !.pc = "get", !.tool = t])
    /\ UNCHANGED <<known, regMu, poolVars, rateVars>>

BatchCall(c, ts) ==
    /\ Enter(c, [Idle EXCEPT !.pc = "push", !.todo = ts])
    /\ UNCHANGED <<known, regMu, poolVars, rateVars>>

\* LoadTools of a file whose ids are new, the whole file under mu_.
LoadFromJSONL(c, ids) ==
    /\ regMu = Nobody /\ ids # {} /\ ids \intersect known = {}
    /\ frame[c].pc = "idle" /\ ~stop
    /\ known' = known \union ids
    /\ UNCHANGED <<regMu, poolVars, rateVars, frame, ops>>

\* ByType locks mu_ and, for every id of the type, calls Get, which locks the
\* same non-recursive mutex: with no id of the type it returns.
ByType(c, ids) ==
    /\ regMu = Nobody
    /\ IF ids = {} THEN Enter(c, Idle) /\ regMu' = Nobody
                   ELSE Enter(c, [Idle EXCEPT !.pc = "wedged"]) /\ regMu' = c
    /\ UNCHANGED <<known, poolVars, rateVars>>

-----------------------------------------------------------------------------
(* Call, run by a caller or by a pool thread.                                 *)

\* The end of a Call or BatchCall: a pool thread has run its task, sets the
\* future and goes back to its wait.
Return(a) ==
    /\ frame' = [frame EXCEPT ![a] = Idle]
    /\ IF a \in Workers
       THEN /\ ready' = ready \union {frame[a].task}
            /\ loop' = [loop EXCEPT ![a] = "test"]
       ELSE UNCHANGED <<ready, loop>>

Goto(a, pc) ==
    /\ frame' = [frame EXCEPT ![a].pc = pc]
    /\ UNCHANGED <<ready, loop>>

\* registry_.Get: the definition or "tool not found".
Get(a) ==
    /\ frame[a].pc = "get" /\ regMu = Nobody
    /\ IF frame[a].tool \in known THEN Goto(a, "rate") ELSE Return(a)
    /\ UNCHANGED <<known, regMu, queue, stop, rateVars, ops>>

\* mutant: a new window does not count the call that opens it
FirstOfWindowM == 0

\* What rate_counters_ holds after the call that opens a window.
FirstOfWindow == 1

\* RateCheck under rate_mu_: a fixed window of 60 s from its first call.
RateCheck(a) ==
    LET t == frame[a].tool
        n == IF open[t] THEN count[t] + 1 ELSE FirstOfWindow
        allowed == Limit = 0 \/ ~open[t] \/ n <= Limit
    IN  /\ frame[a].pc = "rate"
        /\ IF Limit = 0 THEN UNCHANGED <<count, open>>
           ELSE count' = [count EXCEPT ![t] = n] /\ open' = [open EXCEPT ![t] = TRUE]
        /\ granted' = IF allowed THEN [granted EXCEPT ![t] = @ + 1] ELSE granted
        /\ IF allowed THEN Goto(a, "exec") ELSE Return(a)
        /\ UNCHANGED <<known, regMu, queue, stop, windows, ops>>

\* mutant: the sub-tools of a batch tool are parsed
SubToolsM(t) == IF t \in BatchTools THEN <<CHOOSE u \in Tools \ BatchTools : TRUE>> ELSE <<>>

\* t.sub_tools: Parse fills neither it nor permissions, so ExecBatch runs an
\* empty batch and no permission is ever asked of the sandbox.
SubTools(t) == <<>>

\* The switch on the tool's type; "help" goes through registry_.Get again.
Exec(a) ==
    LET t == frame[a].tool
    IN  /\ frame[a].pc = "exec"
        /\ t \in HelpTools => regMu = Nobody
        /\ IF SubTools(t) = <<>> THEN Return(a)
           ELSE /\ frame' = [frame EXCEPT ![a].pc = "push", ![a].todo = SubTools(t)]
                /\ UNCHANGED <<ready, loop>>
        /\ UNCHANGED <<known, regMu, queue, stop, rateVars, ops>>

-----------------------------------------------------------------------------
(* RunBatch and the pool.                                                     *)

\* Enqueue: under mu_ of the pool ...
Push(a) ==
    LET n == frame[a].sent + 1
    IN  /\ frame[a].pc = "push" /\ frame[a].todo # <<>>
        /\ queue' = Append(queue, Task(a, n, Head(frame[a].todo)))
        /\ frame' = [frame EXCEPT ![a].pc = "notify", ![a].todo = Tail(@), ![a].sent = n]
        /\ UNCHANGED <<known, regMu, stop, loop, ready, rateVars, ops>>

\* ... and notify_one after it.
Notify(a) ==
    LET asleep == {w \in Workers : loop[w] = "asleep"}
    IN  /\ frame[a].pc = "notify"
        /\ frame' = [frame EXCEPT ![a].pc = "push"]
        /\ IF asleep = {} THEN UNCHANGED loop
           ELSE \E w \in asleep : loop' = [loop EXCEPT ![w] = "test"]
        /\ UNCHANGED <<known, regMu, queue, stop, ready, rateVars, ops>>

Mine(a) == {f \in ready : f.owner = a}

\* All tasks are sent: get() of every future, in order.
Await(a) ==
    /\ frame[a].pc = "push" /\ frame[a].todo = <<>>
    /\ Cardinality(Mine(a)) = frame[a].sent
    /\ frame' = [frame EXCEPT ![a] = Idle]
    /\ ready' = (ready \ Mine(a)) \union
                   (IF a \in Workers THEN {frame[a].task} ELSE {})
    /\ loop' = IF a \in Workers THEN [loop EXCEPT ![a] = "test"] ELSE loop
    /\ UNCHANGED <<known, regMu, queue, stop, rateVars, ops>>

\* mutant: the task stays in the queue
TakeM(w) ==
    /\ queue # <<>>
    /\ loop' = [loop EXCEPT ![w] = "task"]
    /\ frame' = [frame EXCEPT ![w] = [Idle EXCEPT !.pc = "get", !.tool = Head(queue).tool,
                                                  !.task = Head(queue)]]
    /\ UNCHANGED queue

Take(w) ==
    /\ queue # <<>>
    /\ loop' = [loop EXCEPT ![w] = "task"]
    /\ frame' = [frame EXCEPT ![w] = [Idle EXCEPT !.pc = "get", !.tool = Head(queue).tool,
                                                  !.task = Head(queue)]]
    /\ queue' = Tail(queue)

\* A pool thread evaluates its wait under mu_: task, exit or sleep.
WorkerTest(w) ==
    /\ loop[w] = "test"
    /\ \/ Take(w)
       \/ /\ queue = <<>>
          /\ loop' = [loop EXCEPT ![w] = IF stop THEN "exited" ELSE "asleep"]
          /\ UNCHANGED <<queue, frame>>
    /\ UNCHANGED <<known, regMu, stop, ready, rateVars, ops>>

\* mutant: one thread is woken to see stop_
WokenM == {{w} : w \in Workers}

\* notify_all: the sleepers ~BatchExecutor wakes.
Woken == {Workers}

\* ~BatchExecutor, once no caller is inside: stop_ and notify_all.  Its joins
\* are the pool's exit.
Destroy ==
    /\ ~stop /\ \A c \in Callers : frame[c].pc = "idle"
    /\ stop' = TRUE
    /\ \E ws \in Woken :
         loop' = [w \in Workers |-> IF w \in ws /\ loop[w] = "asleep" THEN "test" ELSE loop[w]]
    /\ UNCHANGED <<known, regMu, queue, frame, ready, rateVars, ops>>

\* 60 s pass: the next call opens a new window.
Expire(t) ==
    /\ open[t] /\ windows < MaxWindows
    /\ open' = [open EXCEPT ![t] = FALSE]
    /\ granted' = [granted EXCEPT ![t] = 0]
    /\ windows' = windows + 1
    /\ UNCHANGED <<known, regMu, poolVars, frame, count, ops>>

-----------------------------------------------------------------------------
InCall(a) == Get(a) \/ RateCheck(a) \/ Exec(a) \/ Push(a) \/ Notify(a) \/ Await(a)

Entry(c) ==
    \/ \E t \in Tools : Call(c, t)
    \/ \E ts \in Batches : BatchCall(c, ts)
    \/ \E ids \in Files : LoadFromJSONL(c, ids)
    \/ \E ids \in {{}, known} : ByType(c, ids)

ToolNext ==
    \/ \E c \in Callers : Entry(c)
    \/ \E a \in Actors : InCall(a)
    \/ \E w \in Workers : WorkerTest(w)
    \/ Destroy
    \/ \E t \in Tools : Expire(t)

\* Every thread inside the runtime runs on; nobody is obliged to call it.
ToolSpec ==
    /\ ToolInit /\ [][ToolNext]_toolVars
    /\ \A a \in Actors : WF_toolVars(InCall(a))
    /\ \A w \in Workers : WF_toolVars(WorkerTest(w))

-----------------------------------------------------------------------------
ToolTypeOK ==
    /\ known \subseteq Tools /\ regMu \in Callers \union {Nobody}
    /\ stop \in BOOLEAN /\ open \in [Tools -> BOOLEAN]
    /\ loop \in [Workers -> {"test", "asleep", "task", "exited"}]
    /\ \A a \in Actors :
         frame[a].pc \in {"idle", "get", "rate", "exec", "push", "notify", "wedged"}
    /\ DOMAIN count = Tools /\ DOMAIN granted = Tools

\* However calls, batches and windows interleave, no more than rate_limit calls
\* of a tool are let through between two resets (RateCheck at 237-244; GetHelp
\* shows the limit as "/min").
RateKept == Limit > 0 => \A t \in Tools : granted[t] <= Limit

\* Every task RunBatch has sent is in exactly one place, the queue, one pool
\* thread or its set future: none is lost to two threads that wake together
\* and none runs twice, so the futures at 199 are those of the caller's tasks.
TaskOnce ==
    \A a \in Actors :
        LET queued == {i \in 1 .. Len(queue) : queue[i].owner = a}
            running == {w \in Workers : loop[w] = "task" /\ frame[w].task.owner = a}
        IN  /\ Cardinality(queued) + Cardinality(running) + Cardinality(Mine(a)) = frame[a].sent
            /\ {queue[i].slot : i \in queued} \union {frame[w].task.slot : w \in running}
                 \union {f.slot : f \in Mine(a)} = 1 .. frame[a].sent

\* Every call ends, however many batches share the pool, unless a ByType with a
\* match has taken the registry with it (kuhul_tool_runtime.h:144).
CallsEnd ==
    \A c \in Callers : frame[c].pc # "idle" ~> frame[c].pc = "idle" \/ regMu # Nobody

\* ~BatchExecutor returns: once stop_ is set every pool thread leaves its loop.
PoolExits == stop ~> \A w \in Workers : loop[w] = "exited"

\* Batches and rate windows stay exact under every interleaving of callers.
ToolSafety == ToolTypeOK /\ RateKept /\ TaskOnce

\* Calls return and so does the destructor's join.
ToolEnds == CallsEnd /\ PoolExits
=============================================================================
