---------------------------- MODULE GenSession ----------------------------
(* The generation lifecycle of DX12InferencePipeline                         *)
(* (native/gpu_trainer/dx12_inference_pipeline.{h,cpp}): generateAsync,      *)
(* stop, markLayerReady, shutdown and the thread running runGenLoop.  GPU    *)
(* submission and its fence are module PipelineSync; token values are left   *)
(* out except for '\n', which ends a generation.                             *)
EXTENDS Naturals, FiniteSets

CONSTANTS
    Clients,           \* threads that call generateAsync
    Layers,            \* 0 .. n_layers-1
    Prompts,           \* prompt lengths the clients pass
    MaxNew,            \* largest maxNew they pass
    MaxSeq,            \* cfg_.max_seq: rows of the KV caches
    WordSize,          \* uint32_t arithmetic is modulo this
    MaxCalls           \* bound: generator threads started

ASSUME GenSessionAssumption ==
    /\ MaxCalls \in Nat /\ MaxNew \in Nat /\ MaxSeq \in Nat \ {0}
    /\ Prompts \subseteq 0..MaxSeq
    /\ WordSize \in Nat /\ WordSize > MaxSeq + MaxNew

VARIABLES
    running,           \* running_
    stopFlag,          \* stopFlag_
    layerReady,        \* layerReady_
    client,            \* per client: where it stands in generateAsync, its call
    handle,            \* genThread_: the thread it owns, 0 when not joinable
    gen,               \* per generator thread: its place and locals
    spawned,           \* generator threads created
    kvPos,             \* position of the last recordTokenLayer, 0 at first
    phase              \* "up", or shutdown()'s place: "stopping", "down"

sessionVars == <<running, stopFlag, layerReady, client, handle, gen, spawned, kvPos,
          phase>>

GenThreads == 1..MaxCalls

NoCall == [pc |-> "out", len |-> 0, maxNew |-> 0, thread |-> 0]
Unborn == [pc |-> "unborn", len |-> 0, maxNew |-> 0, sent |-> 0]

SessionInit ==
    /\ running = FALSE
    /\ stopFlag = FALSE
    /\ layerReady = [l \in Layers |-> FALSE]
    /\ client = [c \in Clients |-> NoCall]
    /\ handle = 0
    /\ gen = [t \in GenThreads |-> Unborn]
    /\ spawned = 0
    /\ kvPos = 0
    /\ phase = "up"

Live(t) == gen[t].pc \notin {"unborn", "done"}

-----------------------------------------------------------------------------
(* generateAsync, a step per shared object it touches                        *)

\* if (running_.exchange(true)) return;
Claim(c, len, n) ==
    /\ phase = "up" /\ client[c].pc = "out"
    /\ ~running
    /\ spawned + Cardinality({d \in Clients : client[d].pc \in {"clear", "join", "spawn"}})
         < MaxCalls
    /\ running' = TRUE
    /\ client' = [client EXCEPT ![c] = [pc |-> "clear", len |-> len,
                                        maxNew |-> n, thread |-> 0]]
    /\ UNCHANGED <<stopFlag, layerReady, handle, gen, spawned, kvPos, phase>>

\* stopFlag_.store(false): a stop() since the exchange is forgotten.
ClearStop(c) ==
    /\ client[c].pc = "clear"
    /\ stopFlag' = FALSE
    /\ client' = [client EXCEPT ![c].pc = "join"]
    /\ UNCHANGED <<running, layerReady, handle, gen, spawned, kvPos, phase>>

\* mutant: the joined thread's handle is kept
HandleKept == handle

HandleAfterJoin == 0

JoinOld(c) ==
    /\ client[c].pc = "join"
    /\ handle # 0 => gen[handle].pc = "done"
    /\ handle' = HandleAfterJoin
    /\ client' = [client EXCEPT ![c].pc = "spawn"]
    /\ UNCHANGED <<running, stopFlag, layerReady, gen, spawned, kvPos, phase>>

\* std::thread(...) starts the thread ...
Spawn(c) ==
    /\ client[c].pc = "spawn"
    /\ spawned' = spawned + 1
    /\ gen' = [gen EXCEPT ![spawned'] =
                 [pc |-> "layers", len |-> client[c].len,
                  maxNew |-> client[c].maxNew, sent |-> 0]]
    /\ client' = [client EXCEPT ![c].pc = "assign", ![c].thread = spawned']
    /\ UNCHANGED <<running, stopFlag, layerReady, handle, kvPos, phase>>

\* ... and the move-assignment stores its handle; over a joinable handle it
\* would be std::terminate.
Assign(c) ==
    /\ client[c].pc = "assign"
    /\ handle = 0
    /\ handle' = client[c].thread
    /\ client' = [client EXCEPT ![c] = NoCall]
    /\ UNCHANGED <<running, stopFlag, layerReady, gen, spawned, kvPos, phase>>

-----------------------------------------------------------------------------
(* The other entry points                                                    *)

Stop ==
    /\ phase = "up"
    /\ stopFlag' = TRUE
    /\ UNCHANGED <<running, layerReady, client, handle, gen, spawned, kvPos, phase>>

MarkLayerReady(l) ==
    /\ phase = "up"
    /\ layerReady' = [layerReady EXCEPT ![l] = TRUE]
    /\ UNCHANGED <<running, stopFlag, client, handle, gen, spawned, kvPos, phase>>

\* The owner shuts down once no client is inside a call.
ShutdownStop ==
    /\ phase = "up"
    /\ \A c \in Clients : client[c].pc = "out"
    /\ phase' = "stopping"
    /\ stopFlag' = TRUE
    /\ UNCHANGED <<running, layerReady, client, handle, gen, spawned, kvPos>>

ShutdownJoin ==
    /\ phase = "stopping"
    /\ handle # 0 => gen[handle].pc = "done"
    /\ handle' = HandleAfterJoin
    /\ phase' = "down"
    /\ UNCHANGED <<running, stopFlag, layerReady, client, gen, spawned, kvPos>>

-----------------------------------------------------------------------------
(* runGenLoop                                                                *)

\* mutants: wait for the layers only; start with the first one loaded
DeafWait == FALSE
AnyLayerReady == \E l \in Layers : layerReady[l]

QuitWaiting == stopFlag
AllLayersReady == \A l \in Layers : layerReady[l]

WaitQuit(t) ==
    /\ gen[t].pc = "layers"
    /\ QuitWaiting
    /\ gen' = [gen EXCEPT ![t].pc = "done"]
    /\ running' = FALSE
    /\ UNCHANGED <<stopFlag, layerReady, client, handle, spawned, kvPos, phase>>

\* All layers seen ready, the flag seen clear: every prompt position goes
\* through all layers, then waitGPU.
Prefill(t) ==
    /\ gen[t].pc = "layers"
    /\ AllLayersReady /\ ~stopFlag
    /\ gen' = [gen EXCEPT ![t].pc = "top"]
    /\ kvPos' = IF gen[t].len = 0 THEN kvPos ELSE gen[t].len - 1
    /\ UNCHANGED <<running, stopFlag, layerReady, client, handle, spawned, phase>>

\* mutants: the loop test without the flag; <= for <
TestBudgetOnly(t) == gen[t].sent < gen[t].maxNew
TestOneMore(t) == gen[t].sent <= gen[t].maxNew /\ ~stopFlag

LoopTest(t) == gen[t].sent < gen[t].maxNew /\ ~stopFlag

EnterStep(t) ==
    /\ gen[t].pc = "top"
    /\ gen' = [gen EXCEPT ![t].pc = IF LoopTest(t) THEN "sample" ELSE "end"]
    /\ UNCHANGED <<running, stopFlag, layerReady, client, handle, spawned, kvPos, phase>>

\* pos of the step: size()-1 before the push, an unsigned number
Pos(len) == (len + WordSize - 1) % WordSize

\* mutant: the bound one too high
SeqFullOff(len) == (Pos(len) + 1) % WordSize > MaxSeq

SeqFull(len) == (Pos(len) + 1) % WordSize >= MaxSeq

\* Logits, readback, sample, push_back and the callback; '\n' or a full
\* sequence breaks.
Sample(t, newline) ==
    /\ gen[t].pc = "sample"
    /\ gen' = [gen EXCEPT
         ![t].len = @ + 1,
         ![t].sent = @ + 1,
         ![t].pc = IF newline \/ SeqFull(gen[t].len) THEN "end" ELSE "embed"]
    /\ UNCHANGED <<running, stopFlag, layerReady, client, handle, spawned, kvPos, phase>>

\* The new token through all layers at nextPos = pos + 1.
EmbedNext(t) ==
    /\ gen[t].pc = "embed"
    /\ kvPos' = (Pos(gen[t].len - 1) + 1) % WordSize
    /\ gen' = [gen EXCEPT ![t].pc = "top"]
    /\ UNCHANGED <<running, stopFlag, layerReady, client, handle, spawned, phase>>

\* mutant: running_ cleared when the loop is left by break only
RunningAfterLoop(t) == IF gen[t].sent = gen[t].maxNew THEN running ELSE FALSE

RunningAfter(t) == FALSE

Finish(t) ==
    /\ gen[t].pc = "end"
    /\ running' = RunningAfter(t)
    /\ gen' = [gen EXCEPT ![t].pc = "done"]
    /\ UNCHANGED <<stopFlag, layerReady, client, handle, spawned, kvPos, phase>>

ClientStep(c) == ClearStop(c) \/ JoinOld(c) \/ Spawn(c) \/ Assign(c)
GenStep(t) ==
    \/ WaitQuit(t) \/ Prefill(t) \/ EnterStep(t) \/ EmbedNext(t) \/ Finish(t)
    \/ \E newline \in BOOLEAN : Sample(t, newline)

SessionNext ==
    \/ \E c \in Clients :
         \/ \E len \in Prompts, n \in 0..MaxNew : Claim(c, len, n)
         \/ ClientStep(c)
    \/ \E l \in Layers : MarkLayerReady(l)
    \/ Stop \/ ShutdownStop \/ ShutdownJoin
    \/ \E t \in GenThreads : GenStep(t)

SessionSpec == SessionInit /\ [][SessionNext]_sessionVars

\* GenThreads are scheduled; nobody is obliged to call stop or to load a layer.
SessionFairSpec ==
    /\ SessionSpec
    /\ \A c \in Clients : WF_sessionVars(ClientStep(c))
    /\ \A t \in GenThreads : WF_sessionVars(GenStep(t))
    /\ WF_sessionVars(ShutdownJoin)

-----------------------------------------------------------------------------
(* Properties                                                                *)

ClientRec == [pc : {"out", "clear", "join", "spawn", "assign"},
              len : 0..MaxSeq, maxNew : 0..MaxNew, thread : 0..MaxCalls]
GenRec == [pc : {"unborn", "layers", "top", "sample", "embed", "end", "done"},
           len : 0..(MaxSeq + MaxNew), maxNew : 0..MaxNew, sent : 0..MaxNew]

\* The shape of the state: in particular a generation never sends more tokens
\* than maxNew.
SessionTypeOK ==
    /\ running \in BOOLEAN /\ stopFlag \in BOOLEAN
    /\ layerReady \in [Layers -> BOOLEAN]
    /\ client \in [Clients -> ClientRec]
    /\ handle \in 0..MaxCalls /\ spawned \in 0..MaxCalls
    /\ gen \in [GenThreads -> GenRec]
    /\ kvPos \in 0..(WordSize - 1)
    /\ phase \in {"up", "stopping", "down"}

\* The claimers of running_: clients before their thread starts, live threads.
Owners ==
    {c \in Clients : client[c].pc \in {"clear", "join", "spawn"}}
        \cup {t \in GenThreads : Live(t)}

\* Whatever the clients do, at most one call owns the pipeline, and only while
\* running_ is set: no callback comes after isRunning() returned false, and no
\* two generations share the KV caches.
OneOwner == Cardinality(Owners) <= 1 /\ (Owners # {} <=> running)

\* A KV row is written inside the cache, for every prompt that fits it: the
\* bound test stops the step before the first position out of range, the empty
\* prompt's wrapped position included.
KvInBounds == kvPos < MaxSeq

\* No KV row is written before every layer's weights are there.
WeightsBeforeUse ==
    \A t \in GenThreads : gen[t].pc \in {"top", "sample", "embed", "end"} =>
                         \A l \in Layers : layerReady[l]

\* init's comment: generateAsync is thread-safe.  The handle a client is about
\* to assign over is not joinable (else std::terminate).
HandleFree == \A c \in Clients : client[c].pc = "assign" => handle = 0

\* A stop seen with no client between its exchange and its store ends the
\* generation, even if the layers it waits for never come.
StopEnds ==
    (running /\ stopFlag /\ \A c \in Clients : client[c].pc \in {"out", "assign"})
        ~> ~running

\* Shutdown's join returns.
ShutdownEnds == (phase = "stopping") ~> (phase = "down")

\* Neither a stop nor a shutdown waits for weights that never come.
SessionEnds == StopEnds /\ ShutdownEnds

\* What the client sees is a GenPipeline: the pipeline is busy from the moment
\* a start cleared the flag.
Owner == CHOOSE t \in GenThreads : Live(t)
Starting == {c \in Clients : client[c].pc \in {"join", "spawn"}}
LeftOfCall ==
    IF \E t \in GenThreads : Live(t)
    THEN gen[Owner].maxNew - gen[Owner].sent
    ELSE IF Starting # {} THEN client[CHOOSE c \in Starting : TRUE].maxNew
    ELSE IF spawned = 0 THEN 0 ELSE gen[spawned].maxNew - gen[spawned].sent

Pipe == INSTANCE GenPipeline WITH
    busy <- Starting # {} \/ \E t \in GenThreads : Live(t),
    stopped <- stopFlag,
    left <- LeftOfCall,
    late <- IF stopFlag /\ \E t \in GenThreads : gen[t].pc = "sample" THEN 1 ELSE 0

\* Tokens only while busy, at most maxNew of them, at most one after a stop.
PipeSpec == Pipe!Spec

\* Starts, stops and shutdowns in any order leave the thread object, the flags
\* and the KV cache to one generation, which uses them within their bounds.
SessionSafety == SessionTypeOK /\ OneOwner /\ HandleFree /\ KvInBounds /\ WeightsBeforeUse
============================================================================
