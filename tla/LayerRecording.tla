--------------------------- MODULE LayerRecording ---------------------------
(* What DX12InferencePipeline records for a token                            *)
(* (native/gpu_trainer/dx12_inference_pipeline.cpp: buildDescriptors,        *)
(* recordEmbed, recordTokenLayer, recordLogits) and what the GPU makes of    *)
(* it.  Recording puts dispatches, barriers and copies into a list but       *)
(* writes descriptors at once into the one shader-visible heap; the root     *)
(* signature is version 1.0, so a dispatch reads the heap when it runs, while*)
(* the CPU may already record a later token.  Numbers are left out: a buffer *)
(* holds the position of the token its contents belong to.                   *)
EXTENDS Integers, Sequences, FiniteSets

CONSTANTS
    NLayers,           \* cfg_.n_layers
    Prompt,            \* tokens.size() at the start
    Steps,             \* bound: steps of the generation loop
    CmdRing            \* CMD_RING: lists the CPU may be ahead by

ASSUME LayerRecordingAssumption ==
    NLayers \in Nat \ {0} /\ Prompt \in Nat \ {0} /\ Steps \in Nat
        /\ CmdRing \in Nat \ {0}

VARIABLES
    heap,              \* per layer, slot |-> the resource its view names
    job,               \* lists begun
    at,                \* next operation to record, 0 between two lists
    ran,               \* lists the GPU has finished
    gpuAt,             \* the GPU's place in list ran+1, an operation of Ops
    holds,             \* resource |-> position its contents belong to, -1
    rows,              \* <<cache, layer>> |-> row |-> the same
    state,             \* resource |-> its D3D12 state
    unordered          \* written by a dispatch, no UAV barrier since

vars == <<heap, job, at, ran, gpuAt, holds, rows, state, unordered>>
cpuVars == <<heap, job, at>>
gpuVars == <<ran, gpuAt, holds, rows, state, unordered>>

Layers == 0..(NLayers - 1)
Positions == 0..(Prompt + Steps - 1)

-----------------------------------------------------------------------------
(* Resources and the window of 23 descriptors a layer has                    *)

\* slot i is element i+1: ten SRVs, the two LayerNorm views, seven UAVs
Window == <<"X", "Wq", "Wk", "Wv", "Wo", "W1", "W2", "embed", "Kcache", "Vcache",
            "X", "gamma1", "beta1", "X", "gamma2", "beta2",
            "X", "Q", "K", "V", "Out", "H", "logits">>
Slots == 0..(Len(Window) - 1)
LN1 == 10
LN2 == 13
UAV == 16

Names == {Window[i] : i \in DOMAIN Window} \cup {"lmHead"}
Global == {"embed", "lmHead", "logits"}
Res(name, l) == <<name, IF name \in Global THEN 0 ELSE l>>
Resources == {Res(n, l) : n \in Names, l \in Layers}
Caches == {"Kcache", "Vcache"}
Written == {"X", "Q", "K", "V", "Out", "H", "logits"} \cup Caches

\* makeDefaultBuf(bytes, uav)
InitialState(r) == IF r[1] \in Written THEN "uav" ELSE "srv"

-----------------------------------------------------------------------------
(* The operations a recording is made of                                     *)

View(slot, name) == [op |-> "view", slot |-> slot, name |-> name]
CopyView(slot, from) == [op |-> "copyView", slot |-> slot, from |-> from]
Dispatch(kernel, srv, uav, src) ==
    [op |-> "dispatch", kernel |-> kernel, srv |-> srv, uav |-> uav, src |-> src]
UavBarrier(name) == [op |-> "uavBarrier", name |-> name]
Transition(name, before, after) ==
    [op |-> "transition", name |-> name, before |-> before, after |-> after]
CopyRow(cache, from) == [op |-> "copyRow", name |-> cache, from |-> from]
CopyLogits == [op |-> "copyLogits", name |-> "logits"]

\* mutant: the barrier is always on X
BarrierOnX(kernel, srv, uav, src, out) ==
    <<Dispatch(kernel, srv, uav, src), UavBarrier("X")>>

\* a dispatch and the barrier on what it writes; "src": the buffers the code
\* has put at t0, t1, .. when it records the dispatch
Kernel(kernel, srv, uav, src, out) ==
    <<Dispatch(kernel, srv, uav, src), UavBarrier(out)>>

EmbedOps == Kernel("embed", 7, UAV, <<"embed">>, "X")

\* mutant: the transitions back are forgotten
CopyWithoutReturn(cache, from) ==
    <<Transition(from, "uav", "copySrc"), Transition(cache, "srv", "copyDst"),
      CopyRow(cache, from)>>

StoreRow(cache, from) ==
    <<Transition(from, "uav", "copySrc"), Transition(cache, "srv", "copyDst"),
      CopyRow(cache, from),
      Transition(from, "copySrc", "uav"), Transition(cache, "copyDst", "srv")>>

NormOps ==
    Kernel("ln", LN1, UAV + 1, <<"X", "gamma1", "beta1">>, "Q")
    \o Kernel("ln", LN1, UAV + 4, <<"X", "gamma1", "beta1">>, "Out")
    \o Kernel("ln", LN1, UAV + 5, <<"X", "gamma1", "beta1">>, "H")

ProjectionOps ==
    <<View(0, "H")>>
    \o Kernel("mm", 0, UAV + 1, <<"H", "Wq">>, "Q")
    \o <<CopyView(1, 2)>> \o Kernel("mm", 0, UAV + 2, <<"H", "Wk">>, "K")
    \o <<CopyView(1, 3)>> \o Kernel("mm", 0, UAV + 3, <<"H", "Wv">>, "V")
    \o <<CopyView(1, 1)>>

AttentionOps ==
    <<View(0, "Q")>>
    \o Kernel("attn", 0, UAV, <<"Q">>, "Out")
    \o <<View(0, "Out"), CopyView(1, 4)>>
    \o Kernel("mm", 0, UAV + 1, <<"Out", "Wo">>, "Q")
    \o <<View(0, "Q")>> \o Kernel("add", 0, UAV, <<"Q">>, "X")

\* mutant: the second view is restored before slot 0 is
RestoreViewsSwapped == <<CopyView(LN2, 0), View(0, "X")>>

RestoreViews == <<View(0, "X"), CopyView(LN2, 0)>>

FeedForwardOps ==
    RestoreViews
    \o Kernel("ln", LN2, UAV + 5, <<"X", "gamma2", "beta2">>, "H")
    \o <<View(0, "H"), CopyView(1, 5)>>
    \o Kernel("mm", 0, UAV + 5, <<"H", "W1">>, "H")
    \o <<View(0, "H")>> \o Kernel("gelu", 0, UAV + 5, <<"H">>, "H")
    \o <<CopyView(1, 6)>> \o Kernel("mm", 0, UAV + 4, <<"H", "W2">>, "Out")
    \o <<View(0, "Out")>> \o Kernel("add", 0, UAV, <<"Out">>, "X")
    \o <<View(0, "X"), CopyView(1, 1)>>

LayerOps ==
    NormOps \o ProjectionOps \o StoreRow("Kcache", "K") \o StoreRow("Vcache", "V")
    \o AttentionOps \o FeedForwardOps

LogitsOps ==
    <<View(0, "X"), View(1, "lmHead")>>
    \o Kernel("mm", 0, UAV, <<"X", "lmHead">>, "logits")
    \o <<Transition("logits", "uav", "copySrc"), CopyLogits,
         Transition("logits", "copySrc", "uav")>>

OnLayer(l, ops) == [i \in DOMAIN ops |-> [layer |-> l, do |-> ops[i]]]

\* mutant: the layers first
TokenListLate ==
    [i \in 1..(NLayers * Len(LayerOps)) |->
        [layer |-> (i - 1) \div Len(LayerOps),
         do |-> LayerOps[((i - 1) % Len(LayerOps)) + 1]]] \o OnLayer(0, EmbedOps)

TokenList ==
    OnLayer(0, EmbedOps) \o
    [i \in 1..(NLayers * Len(LayerOps)) |->
        [layer |-> (i - 1) \div Len(LayerOps),
         do |-> LayerOps[((i - 1) % Len(LayerOps)) + 1]]]

LogitsList == OnLayer(NLayers - 1, LogitsOps)

-----------------------------------------------------------------------------
(* The lists of a generation: one per prompt token, then in each step one    *)
(* for the logits and one for the token sampled                              *)

MaxJobs == Prompt + 2 * Steps
IsToken(j) == j <= Prompt \/ (j - Prompt) % 2 = 0
Ops(j) == IF IsToken(j) THEN TokenList ELSE LogitsList

\* mutant: the tokens counted, not the last one's position
SeqPosOff(j) == IF j <= Prompt THEN j - 1 ELSE Prompt + (j - Prompt) \div 2

\* seqPos of the list
SeqPos(j) == IF j <= Prompt THEN j - 1 ELSE Prompt - 1 + (j - Prompt) \div 2

OnCpu(e) == e.do.op \in {"view", "copyView"}

\* The list holds the commands only: the place of the first from the i-th
\* operation on, one past the last operation when there is none.
CommandsFrom(j, i) ==
    {k \in i..(Len(Ops(j)) + 1) : k \in DOMAIN Ops(j) => ~OnCpu(Ops(j)[k])}
NextCommand(j, i) ==
    CHOOSE k \in CommandsFrom(j, i) : \A m \in CommandsFrom(j, i) : k <= m

Submitted == IF at = 0 THEN job ELSE job - 1

Init ==
    /\ heap = [l \in Layers |-> [s \in Slots |-> Res(Window[s + 1], l)]]
    /\ job = 0 /\ at = 0 /\ ran = 0 /\ gpuAt = NextCommand(1, 1)
    /\ holds = [r \in Resources |-> -1]
    /\ rows = [c \in Caches \X Layers |-> [p \in Positions |-> -1]]
    /\ state = [r \in Resources |-> InitialState(r)]
    /\ unordered = {}

\* submit waits for the list recorded into the same frame CMD_RING lists ago;
\* behind the prefill and behind each list of a step there is a waitGPU.
BeginList ==
    /\ at = 0 /\ job < MaxJobs
    /\ ran >= job + 1 - CmdRing
    /\ job >= Prompt => ran = job
    /\ job' = job + 1
    /\ at' = 1
    /\ UNCHANGED <<heap, gpuVars>>

Recording(kind) == at \in DOMAIN Ops(job) /\ Ops(job)[at].do.op = kind
Recorded == Ops(job)[at]
SetSlot(resource) ==
    heap' = [heap EXCEPT ![Recorded.layer][Recorded.do.slot] = resource]

\* dev_->CreateShaderResourceView
WriteView ==
    /\ Recording("view")
    /\ SetSlot(Res(Recorded.do.name, Recorded.layer))
    /\ at' = at + 1
    /\ UNCHANGED <<job, gpuVars>>

\* dev_->CopyDescriptorsSimple
CopyDescriptor ==
    /\ Recording("copyView")
    /\ SetSlot(heap[Recorded.layer][Recorded.do.from])
    /\ at' = at + 1
    /\ UNCHANGED <<job, gpuVars>>

RecordCommand ==
    /\ at \in DOMAIN Ops(job) /\ ~OnCpu(Recorded)
    /\ at' = at + 1
    /\ UNCHANGED <<heap, job, gpuVars>>

\* Close, ExecuteCommandLists
Submit ==
    /\ at = Len(Ops(job)) + 1
    /\ at' = 0
    /\ UNCHANGED <<heap, job, gpuVars>>

-----------------------------------------------------------------------------
(* The GPU                                                                   *)

Running == ran < Submitted /\ gpuAt \in DOMAIN Ops(ran + 1)
Current == Ops(ran + 1)[gpuAt]
CurrentRes == Res(Current.do.name, Current.layer)
Pos == SeqPos(ran + 1)
Runs(kind) ==
    Running /\ Current.do.op = kind /\ gpuAt' = NextCommand(ran + 1, gpuAt + 1)

\* the registers the kernels declare, a register's descriptor now
SrvRegisters(kernel) ==
    CASE kernel = "ln" -> {0, 1, 2}
      [] kernel = "mm" -> {0, 1}
      [] kernel = "attn" -> {0, 8, 9}
      [] OTHER -> {0}
UavRegister(kernel) == IF kernel = "attn" THEN 4 ELSE 0

SourceOf(register) == heap[Current.layer][Current.do.srv + register]
Target == heap[Current.layer][Current.do.uav + UavRegister(Current.do.kernel)]

RunDispatch ==
    /\ Runs("dispatch")
    /\ holds' = [holds EXCEPT ![Target] = Pos]
    /\ unordered' = unordered \cup {Target}
    /\ UNCHANGED <<cpuVars, ran, rows, state>>

RunUavBarrier ==
    /\ Runs("uavBarrier")
    /\ unordered' = unordered \ {CurrentRes}
    /\ UNCHANGED <<cpuVars, ran, holds, rows, state>>

RunTransition ==
    /\ Runs("transition")
    /\ state' = [state EXCEPT ![CurrentRes] = Current.do.after]
    /\ UNCHANGED <<cpuVars, ran, holds, rows, unordered>>

\* mutant: one row too far
RowNext == Pos + 1

RowOf == Pos

RunCopyRow ==
    /\ Runs("copyRow")
    /\ rows' = [rows EXCEPT ![CurrentRes][RowOf] = holds[Res(Current.do.from, Current.layer)]]
    /\ UNCHANGED <<cpuVars, ran, holds, state, unordered>>

RunCopyLogits ==
    /\ Runs("copyLogits")
    /\ UNCHANGED <<cpuVars, ran, holds, rows, state, unordered>>

\* Nothing of the next list runs before the end of this one.
FinishList ==
    /\ ran < Submitted /\ gpuAt = Len(Ops(ran + 1)) + 1
    /\ ran' = ran + 1
    /\ gpuAt' = NextCommand(ran + 2, 1)
    /\ unordered' = {}
    /\ UNCHANGED <<cpuVars, holds, rows, state>>

CpuStep == BeginList \/ WriteView \/ CopyDescriptor \/ RecordCommand \/ Submit
GpuStep ==
    \/ RunDispatch \/ RunUavBarrier \/ RunTransition \/ RunCopyRow
    \/ RunCopyLogits \/ FinishList

Next == CpuStep \/ GpuStep

Spec == Init /\ [][Next]_vars

-----------------------------------------------------------------------------
(* Properties                                                                *)

\* The shape of the state.
TypeOK ==
    /\ heap \in [Layers -> [Slots -> Resources]]
    /\ job \in 0..MaxJobs /\ ran \in 0..Submitted
    /\ at \in 0..(Len(TokenList) + 1) /\ gpuAt \in 1..(Len(TokenList) + 1)
    /\ holds \in [Resources -> Positions \cup {-1}]
    /\ rows \in [Caches \X Layers -> [Positions -> Positions \cup {-1}]]
    /\ state \in [Resources -> {"uav", "srv", "copySrc", "copyDst"}]
    /\ unordered \subseteq Resources

Now(kernel) == Running /\ Current.do.op = "dispatch" /\ Current.do.kernel = kernel

\* setKC: "# valid KV entries after writing this token".  When an attention
\* runs, each of the rows it is told to read holds that row's own token, in
\* both caches, and none beyond them has been written.
RowsFresh ==
    Now("attn") => \A c \in Caches, p \in Positions :
                     rows[<<c, Current.layer>>][p] = (IF p <= Pos THEN p ELSE -1)

\* A caches' barrier pair has given it back when the attention reads it, and
\* every transition names the state its resource is in; the caches' first one
\* does not (they are created as UAVs) and is left out.
StatesAgree ==
    /\ Now("attn") => \A c \in Caches : state[Res(c, Current.layer)] = "srv"
    /\ Running /\ Current.do.op = "transition" =>
         \/ state[CurrentRes] = Current.do.before
         \/ Current.do.name \in Caches /\ \A p \in Positions : rows[CurrentRes][p] = -1

\* Nothing reads a buffer a dispatch of the same list wrote without a UAV
\* barrier in between, whatever view the heap holds at that moment.
ReadBehindBarrier ==
    /\ Running /\ Current.do.op = "dispatch" =>
         \A r \in SrvRegisters(Current.do.kernel) : SourceOf(r) \notin unordered
    /\ Running /\ Current.do.op = "copyRow" =>
         Res(Current.do.from, Current.layer) \notin unordered

\* The views no one remaps are what buildDescriptors made them while the GPU
\* uses them: each LayerNorm reads X with its own gamma and beta, the attention
\* its layer's caches, and each dispatch writes the buffer its barrier names.
WindowsHold ==
    /\ Now("ln") => \A i \in 0..2 :
                      SourceOf(i) = Res(Current.do.src[i + 1], Current.layer)
    /\ Now("attn") => SourceOf(8) = Res("Kcache", Current.layer)
                      /\ SourceOf(9) = Res("Vcache", Current.layer)
    /\ Running /\ Current.do.op = "dispatch" /\ IsToken(ran + 1) =>
         Target = Res(Ops(ran + 1)[gpuAt + 1].do.name, Current.layer)

\* The first layer normalises the embedding of this list's token, though the
\* CPU is already recording another.
TokenFirst ==
    Now("ln") /\ Current.layer = 0 /\ Current.do.srv = LN1 => holds[Res("X", 0)] = Pos

\* "Now SRV t0 = H (LN1 output), t1 = Wq ...": a dispatch runs with the views
\* that were in its table when it was recorded.  It does not hold: slots 0 and
\* 1 are rewritten for the next dispatch before the list is even submitted,
\* and slot 1, "restored" from itself, is never Wq again.
TableAsRecorded ==
    Running /\ Current.do.op = "dispatch" =>
        \A i \in DOMAIN Current.do.src :
            SourceOf(i - 1) = Res(Current.do.src[i], Current.layer)

\* Every layer of every token attends over its own rows, starting from its own
\* embedding.
TokenRows == RowsFresh /\ TokenFirst

\* Barriers name the states resources are in and separate writes from reads.
BarriersHold == TypeOK /\ StatesAgree /\ ReadBehindBarrier
=============================================================================
