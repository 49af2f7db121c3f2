------------------------------ MODULE GpuModel ------------------------------
(* GPUModel (native/gpu_trainer/gpu_model.{h,cpp}) under its two kinds of     *)
(* client: the chat bridge (gpu_model_bridge.cpp), whose UI thread starts and *)
(* stops generations, and a caller of generateSync.  Either is one thread.    *)
(* The KV cache is modelled row by row: which token of which generation a row *)
(* holds, in units of head_dim floats, of which a token's keys fill Width.    *)
(* Bounds: MaxGens generations; prompts fit max_seq.                          *)
EXTENDS Naturals

CONSTANTS
    ModelLayers,       \* cfg_.n_layers
    MaxRows,           \* cfg_.max_seq
    Width,             \* cfg_.dim / cfg_.head_dim
    PromptSizes, MaxTokens, MaxGens

Wrap == 100            \* stands for 2^32 in the arithmetic of pos

ASSUME GpuAssumption ==
    /\ ModelLayers \in Nat /\ MaxRows \in 0 .. Wrap - 2 /\ Width \in Nat \ {0}
    /\ PromptSizes \subseteq 0 .. MaxRows
    /\ MaxTokens \in Nat

VARIABLES
    mode,              \* the client: "bridge" or "sync"
    busyFlag, haltFlag,  \* running_, stopFlag_
    caller,            \* the client's place in generateAsync and its arguments
    worker,            \* inferThread_: its place and the locals of runGenLoop
    gens,              \* threads created
    sink,              \* tokenCb_: "ui", the string of a live "call", "dead"
    kv                 \* rows of K (V is written and read alike)

gpuVars == <<mode, busyFlag, haltFlag, caller, worker, gens, sink, kv>>

Rows == 0 .. ModelLayers * MaxRows * Width - 1
Zero == <<>>

Outside == [pc |-> "out", size |-> 0, maxNew |-> 0]
NoThread == [pc |-> "none", size |-> 0, maxNew |-> 0, sent |-> 0, filled |-> 0]

GpuInit ==
    /\ mode \in {"bridge", "sync"}
    /\ busyFlag = FALSE /\ haltFlag = FALSE
    /\ caller = Outside /\ worker = NoThread /\ gens = 0
    /\ sink = IF mode = "bridge" THEN "ui" ELSE "dead"
    /\ kv = [r \in Rows |-> Zero]

-----------------------------------------------------------------------------
(* The client.                                                                *)

\* CHAT_SEND, or generateSync after it installed its callback.  generateAsync:
\* if (running_.exchange(true)) return.
Generate(size, n) ==
    /\ caller.pc = "out" /\ gens < MaxGens
    /\ ~busyFlag
    /\ busyFlag' = TRUE
    /\ caller' = [pc |-> "clear", size |-> size, maxNew |-> n]
    /\ sink' = IF mode = "sync" THEN "call" ELSE sink
    /\ UNCHANGED <<mode, haltFlag, worker, gens, kv>>

ClearHalt ==
    /\ caller.pc = "clear"
    /\ haltFlag' = FALSE
    /\ caller' = [caller EXCEPT !.pc = "join"]
    /\ UNCHANGED <<mode, busyFlag, worker, gens, sink, kv>>

\* Join the previous thread, start the new one.
StartThread ==
    /\ caller.pc = "join" /\ worker.pc \in {"none", "done"}
    /\ worker' = [pc |-> "prefill", size |-> caller.size, maxNew |-> caller.maxNew,
                  sent |-> 0, filled |-> 0]
    /\ gens' = gens + 1
    /\ caller' = IF mode = "sync" THEN [caller EXCEPT !.pc = "wait"] ELSE Outside
    /\ UNCHANGED <<mode, busyFlag, haltFlag, sink, kv>>

\* mutant: generateSync returns when running_ is clear or a token has come
MayReturnM == worker.sent > 0 \/ ~busyFlag

\* generateSync joins the thread; then the string its callback writes is gone.
MayReturn == worker.pc = "done"

SyncReturn ==
    /\ caller.pc = "wait" /\ MayReturn
    /\ caller' = Outside
    /\ sink' = "dead"
    /\ UNCHANGED <<mode, busyFlag, haltFlag, worker, gens, kv>>

\* CHAT_STOP.
Halt ==
    /\ mode = "bridge" /\ caller.pc = "out"
    /\ haltFlag' = TRUE
    /\ UNCHANGED <<mode, busyFlag, caller, worker, gens, sink, kv>>

-----------------------------------------------------------------------------
(* runGenLoop.                                                                *)

\* mutant: the layer is left out of the row's address
KrowM(l, pos) == pos

Krow(l, pos) == l * MaxRows + pos

Layers == 0 .. ModelLayers - 1
Span(l, pos) == Krow(l, pos) .. Krow(l, pos) + Width - 1

\* The layer and position that write row r last, as positions and, for each of
\* them, layers go up.
Writers(r, positions) == {w \in Layers \X positions : r \in Span(w[1], w[2])}
LastWriter(r, positions) ==
    CHOOSE w \in Writers(r, positions) :
        \A v \in Writers(r, positions) : v[2] < w[2] \/ (v[2] = w[2] /\ v[1] <= w[1])

\* runLayer for all layers at each of the positions, in order: the keys of the
\* token there, a Width of them from Krow on.
Stored(cache, positions) ==
    [r \in Rows |->
        IF Writers(r, positions) = {} THEN cache[r]
        ELSE LET w == LastWriter(r, positions)
             IN  <<gens, w[1], w[2] + 1, r - Krow(w[1], w[2])>>]

\* The cache is zeroed and every prompt position goes through the layers.
Prefill ==
    /\ worker.pc = "prefill"
    /\ kv' = Stored([r \in Rows |-> Zero], 0 .. worker.size - 1)
    /\ worker' = [worker EXCEPT !.pc = "top", !.filled = worker.size]
    /\ UNCHANGED <<mode, busyFlag, haltFlag, caller, gens, sink>>

\* mutant: the flag is not part of the test
MoreM == worker.sent < worker.maxNew

\* mutant: <= for <
MoreByOneM == worker.sent <= worker.maxNew /\ ~haltFlag

More == worker.sent < worker.maxNew /\ ~haltFlag

LoopTop ==
    /\ worker.pc = "top"
    /\ worker' = [worker EXCEPT !.pc = IF More THEN "sample" ELSE "end"]
    /\ UNCHANGED <<mode, busyFlag, haltFlag, caller, gens, sink, kv>>

\* The logits come from x; the sample is pushed and given to the callback.
\* '\n' or a full cache ends the loop.  pos is unsigned: size 0 wraps.
NextPos(size) == (size + Wrap - 1 + 1) % Wrap

SampleToken(newline) ==
    /\ worker.pc = "sample"
    /\ worker' = [worker EXCEPT
         !.size = @ + 1, !.sent = @ + 1,
         !.pc = IF newline \/ NextPos(worker.size) >= MaxRows THEN "end" ELSE "embed"]
    /\ UNCHANGED <<mode, busyFlag, haltFlag, caller, gens, sink, kv>>

\* The new token at nextPos.
EmbedToken ==
    /\ worker.pc = "embed"
    /\ kv' = Stored(kv, {NextPos(worker.size - 1)})
    /\ worker' = [worker EXCEPT !.pc = "top", !.filled = worker.size]
    /\ UNCHANGED <<mode, busyFlag, haltFlag, caller, gens, sink>>

\* mutant: running_ is cleared on the way out of the loop's test only
BusyAfterM == worker.sent # worker.maxNew /\ ~haltFlag

BusyAfter == FALSE

FinishGen ==
    /\ worker.pc = "end"
    /\ busyFlag' = BusyAfter
    /\ worker' = [worker EXCEPT !.pc = "done"]
    /\ UNCHANGED <<mode, haltFlag, caller, gens, sink, kv>>

CallerStep == ClearHalt \/ StartThread \/ SyncReturn
WorkerStep ==
    \/ Prefill \/ LoopTop \/ EmbedToken \/ FinishGen
    \/ \E newline \in BOOLEAN : SampleToken(newline)

GpuNext ==
    \/ \E size \in PromptSizes, n \in 0 .. MaxTokens : Generate(size, n)
    \/ CallerStep \/ Halt \/ WorkerStep

GpuSpec ==
    GpuInit /\ [][GpuNext]_gpuVars /\ WF_gpuVars(CallerStep) /\ WF_gpuVars(WorkerStep)

-----------------------------------------------------------------------------
GpuTypeOK ==
    /\ busyFlag \in BOOLEAN /\ haltFlag \in BOOLEAN
    /\ caller.pc \in {"out", "clear", "join", "wait"}
    /\ worker.pc \in {"none", "prefill", "top", "sample", "embed", "end", "done"}
    /\ worker.size \in 0 .. MaxRows + 1 /\ worker.sent \in 0 .. MaxTokens
    /\ DOMAIN kv = Rows /\ sink \in {"ui", "call", "dead"}

\* Whenever a token attends, the row of every layer and of every position
\* before it holds the keys of that very layer and token of this generation,
\* although KVCache strides by head_dim what runLayer writes dim wide
\* (gpu_model.h:60, gpu_model.cpp:165): true of the one-head configuration.
RowsAreOwn ==
    worker.pc \in {"top", "sample", "embed"} =>
        \A l \in Layers, p \in 0 .. worker.filled - 1 :
            kv[Krow(l, p)] = <<gens, l, p + 1, 0>>

\* A token is never given to the string of a generateSync that has returned:
\* the callback it leaves behind (gpu_model.cpp:295) is replaced before the
\* next generation of the same caller.
SinkAlive == worker.pc = "sample" => sink # "dead"

\* Every generation ends and lets the next prompt in, whichever way it left
\* its loop: by maxNew, '\n', the full cache or a stop; a ChatSend before that
\* is dropped without a word (gpu_model.cpp:278).
GenEnds == busyFlag ~> ~busyFlag

\* What either client sees is a GenPipeline.
GpuPipe == INSTANCE GenPipeline WITH
    MaxNew <- MaxTokens,
    busy <- caller.pc = "join" \/ worker.pc \notin {"none", "done"},
    stopped <- haltFlag,
    left <- IF caller.pc = "join" THEN caller.maxNew ELSE worker.maxNew - worker.sent,
    late <- IF haltFlag /\ worker.pc = "sample" THEN 1 ELSE 0

\* Tokens only while busy, at most maxNew of them, at most one after a stop.
GpuPipeSpec == GpuPipe!Spec

\* The cache rows and the callback of a generation are its own.
GpuSafety == GpuTypeOK /\ RowsAreOwn /\ SinkAlive
=============================================================================
