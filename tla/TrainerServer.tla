---------------------------- MODULE TrainerServer ----------------------------
(***************************************************************************)
(* native/trainer-server.cjs: the HTTP bridge that starts and stops        *)
(* trainer processes.  One global run state (running, proc, lossLog) is    *)
(* shared by every child ever attached: each child's output lines and its  *)
(* 'close' event write it, whichever run the child belongs to.             *)
(*                                                                         *)
(* An action is one turn of the event loop: an HTTP handler, a chunk of a  *)
(* child's output, or a 'close' event with the fiber chain's continuation, *)
(* which runs in the microtasks of the same turn.                          *)
(***************************************************************************)
EXTENDS Naturals, FiniteSets

CONSTANTS
    MaxChildren,   \* bound: processes spawned in a behaviour
    Chunks,        \* numChunks of a fiber_chain run (0 for a short token file)
    TokenFile      \* which outcomes of fs.existsSync(tokens) are explored

ASSUME TrainerAssumption ==
    /\ MaxChildren \in Nat /\ Chunks \subseteq Nat /\ TokenFile \subseteq BOOLEAN

Children == 1 .. MaxChildren

VARIABLES
    running, proc,        \* the server's view of the current run (0: null)
    lossLog,              \* children whose steps are in lossLog
    lastStep,             \* child whose step is lastStep (0: none yet)
    child,                \* state of each process
    chain,                \* the fiber chain a child works for, or NoChain
    stopped,              \* history: a stop was requested since the last start
    chainEnd              \* history: the last chain that ended, with its outcome

trainerVars == <<running, proc, lossLog, lastStep, child, chain, stopped, chainEnd>>

\* ci is the loop index of launchFiberChain, of is numChunks, failed counts the
\* chunks whose trainer exited with an error.
FiberChain == [ci : Nat, of : Nat, failed : Nat]
NoChain == [ci |-> 0, of |-> 0, failed |-> 0]

\* unborn, alive, killed (SIGTERM sent), then exit code 0 or not; closed: its
\* 'close' event has been handled.
ChildStates == {"unborn", "alive", "killed", "exit0", "exit1", "closed"}

Open == {c \in Children : child[c] \notin {"unborn", "closed"}}
Live == {c \in Children : child[c] = "alive"}
Unborn == {c \in Children : child[c] = "unborn"}
NextChild == Cardinality(Children \ Unborn) + 2   \* mutant: an index past the bound
Fresh == CHOOSE c \in Unborn : TRUE      \* process ids are labels: any unused one

TrainerInit ==
    /\ running = FALSE /\ proc = 0 /\ lossLog = {} /\ lastStep = 0
    /\ child = [c \in Children |-> "unborn"]
    /\ chain = [c \in Children |-> NoChain]
    /\ stopped = FALSE /\ chainEnd = NoChain

-----------------------------------------------------------------------------
(* POST /train/start and /train/stop *)

BeginRun ==
    /\ ~running                    \* else 409 'already running'
    /\ running' = TRUE
    /\ lossLog' = {} /\ lastStep' = 0
    /\ stopped' = FALSE

\* The modes with one process: launch, remember it in proc, attach.
StartSingle ==
    /\ BeginRun /\ Unborn # {}
    /\ child' = [child EXCEPT ![Fresh] = "alive"]
    /\ proc' = Fresh
    /\ UNCHANGED <<chain, chainEnd>>

\* fiber_chain up to its first await: the first chunk's process, not kept in proc.
StartFiber ==
    /\ BeginRun /\ Unborn # {}
    /\ proc' = 0
    /\ \E n \in Chunks \ {0} :
         /\ child' = [child EXCEPT ![Fresh] = "alive"]
         /\ chain' = [chain EXCEPT ![Fresh] = [ci |-> 0, of |-> n, failed |-> 0]]
    /\ TRUE \in TokenFile
    /\ UNCHANGED chainEnd

\* A token file shorter than a sequence: the loop is skipped, the run is over.
StartFiberEmpty ==
    /\ ~running /\ TRUE \in TokenFile /\ 0 \in Chunks
    /\ running' = FALSE /\ proc' = 0 /\ lossLog' = {} /\ lastStep' = 0
    /\ stopped' = FALSE /\ chainEnd' = NoChain
    /\ UNCHANGED <<child, chain>>

\* No token file: launchFiberChain returns null and leaves running set.
StartFiberNoTokens ==
    /\ FALSE \in TokenFile
    /\ BeginRun
    /\ proc' = 0
    /\ UNCHANGED <<child, chain, chainEnd>>

Stop ==
    /\ running' = FALSE /\ proc' = 0 /\ stopped' = TRUE
    /\ child' = IF proc # 0 /\ child[proc] = "alive"
                  THEN [child EXCEPT ![proc] = "killed"] ELSE child
    /\ UNCHANGED <<lossLog, lastStep, chain, chainEnd>>

-----------------------------------------------------------------------------
(* Child processes *)

\* parseLine of a step: logged for the current run, whoever printed it.
PrintStep(c) ==
    /\ child[c] \in {"alive", "killed"}
    /\ lastStep' = c /\ lossLog' = lossLog \cup {c}
    /\ UNCHANGED <<running, proc, child, chain, stopped, chainEnd>>

\* parseLine of "[main] done", "training complete", "final model" or "init failed".
PrintEnd(c) ==
    /\ child[c] \in {"alive", "killed"}
    /\ running' = FALSE
    /\ UNCHANGED <<proc, lossLog, lastStep, child, chain, stopped, chainEnd>>

Exit(c) ==
    /\ \/ child[c] = "alive" /\ \E s \in {"exit0", "exit1"} : child' = [child EXCEPT ![c] = s]
       \/ child[c] = "killed" /\ child' = [child EXCEPT ![c] = "exit1"]
    /\ UNCHANGED <<running, proc, lossLog, lastStep, chain, stopped, chainEnd>>

\* attach's 'close' handler, first of the child's two listeners.
RunningKept == running   \* mutant: 'close' leaves running set
RunningAfterClose == FALSE
ProcKept == proc         \* mutant: 'close' leaves proc set
ProcAfterClose == 0

\* currentModel and ci move on even when the trainer failed.
AfterChunk(c) == [chain[c] EXCEPT !.ci = @ + 1,
                                  !.failed = IF child[c] = "exit1" THEN @ + 1 ELSE @]

\* if (!running) break; ... ci < numChunks
MoreChunksAnyway(k) == k.ci < k.of /\ Unborn # {}   \* mutant: no look at running
MoreChunks(k) == RunningAfterClose /\ k.ci < k.of /\ Unborn # {}

CloseSingle(c) ==
    /\ child[c] \in {"exit0", "exit1"} /\ chain[c] = NoChain
    /\ child' = [child EXCEPT ![c] = "closed"]
    /\ running' = RunningAfterClose /\ proc' = ProcAfterClose
    /\ UNCHANGED <<lossLog, lastStep, chain, stopped, chainEnd>>

\* The chain's await returns in the same turn: "if (!running) break".
CloseChunk(c) ==
    /\ child[c] \in {"exit0", "exit1"} /\ chain[c] # NoChain
    /\ LET k    == AfterChunk(c)
           more == MoreChunks(k)
       IN /\ child' = [d \in Children |-> CASE d = c -> "closed"
                                            [] more /\ d = Fresh -> "alive"
                                            [] OTHER -> child[d]]
          /\ chain' = IF more THEN [chain EXCEPT ![Fresh] = k] ELSE chain
          /\ running' = (more /\ RunningAfterClose)
          /\ chainEnd' = IF more THEN chainEnd ELSE k
    /\ proc' = ProcAfterClose
    /\ UNCHANGED <<lossLog, lastStep, stopped>>

ChildNext(c) == PrintStep(c) \/ PrintEnd(c) \/ Exit(c) \/ CloseSingle(c) \/ CloseChunk(c)

TrainerNext ==
    \/ StartSingle \/ StartFiber \/ StartFiberEmpty \/ StartFiberNoTokens \/ Stop
    \/ \E c \in Children : ChildNext(c)

\* A trainer process runs a bounded number of steps, so it ends, and the event
\* loop then delivers its 'close'.
TrainerFairness == \A c \in Children : WF_trainerVars(Exit(c)) /\ WF_trainerVars(CloseSingle(c) \/ CloseChunk(c))

TrainerSpec == TrainerInit /\ [][TrainerNext]_trainerVars
TrainerFairSpec == TrainerSpec /\ TrainerFairness

-----------------------------------------------------------------------------
(* Properties *)

\* The server's state and the processes' states keep their types.
TrainerTypeOK ==
    /\ running \in BOOLEAN /\ stopped \in BOOLEAN
    /\ proc \in Children \cup {0}
    /\ lossLog \subseteq Children /\ lastStep \in Children \cup {0}
    /\ child \in [Children -> ChildStates]
    /\ chain \in [Children -> FiberChain] /\ chainEnd \in FiberChain

\* stopTrainer signals whatever proc holds: proc is never a process that is
\* already killed or closed, however starts, stops and late 'close' events of
\* earlier processes interleave.
ProcIsOpen == proc # 0 => child[proc] \notin {"unborn", "killed", "closed"}

\* A run reported as running while any trainer process is open is over after
\* finitely many events: no order of output, exit, stop and restart wedges the
\* server in 'already running'.  (A fiber chain whose token file is missing
\* does, with no process at all: launchFiberChain returns without resetting
\* running.)
RunningEnds == (running /\ Open # {}) ~> ~running

\* Once a stop was requested, no process is spawned until the next start: the
\* fiber chain does not go on behind the user's back.
StopSpawnsNothing ==
    [][stopped /\ stopped' => Unborn' = Unborn]_trainerVars

\* "trains each chunk sequentially, passing checkpoint forward"
\* (trainer-server.cjs:96): a chain nobody stopped has trained every chunk.
ChainTrainsEveryChunk == ~stopped => chainEnd.ci = chainEnd.of

\* The state the event handlers share stays meaningful across every order of
\* their events.
TrainerSafety == TrainerTypeOK /\ ProcIsOpen
=============================================================================
