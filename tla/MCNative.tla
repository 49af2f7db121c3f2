------------------------------ MODULE MCNative ------------------------------
(* Five native programs that share no state, checked in one run: a behaviour *)
(* is one of them, chosen at the start, and leaves the others' variables     *)
(* alone.                                                                    *)
EXTENDS InferLayer, TilePrefetch, ToolRuntime, GpuModel, MeshCompute

CONSTANTS plain, batch

OneBatch == {<<plain, batch>>}
OneFile == {Tools}

VARIABLE part

vars == <<part, toolVars, inferVars, gpuVars, tileVars, meshVars>>

Init ==
    /\ part \in {"tool", "infer", "gpu", "tile", "mesh"}
    /\ ToolInit /\ InferInit /\ GpuInit /\ TileInit /\ MeshInit
    /\ part # "gpu" => mode = "sync"
    /\ part # "tile" => ~prefetch
    /\ part # "mesh" => \A n \in StepCounts : steps <= n

(* What a step of one part leaves alone.                                     *)
NotTool == UNCHANGED <<part, inferVars, gpuVars, tileVars, meshVars>>
NotInfer == UNCHANGED <<part, toolVars, gpuVars, tileVars, meshVars>>
NotGpu == UNCHANGED <<part, toolVars, inferVars, tileVars, meshVars>>
NotTile == UNCHANGED <<part, toolVars, inferVars, gpuVars, meshVars>>
NotMesh == UNCHANGED <<part, toolVars, inferVars, gpuVars, tileVars>>

Next ==
    \/ part = "tool" /\ ToolNext /\ NotTool
    \/ part = "infer" /\ InferNext /\ NotInfer
    \/ part = "gpu" /\ GpuNext /\ NotGpu
    \/ part = "tile" /\ TileNext /\ NotTile
    \/ part = "mesh" /\ MeshNext /\ NotMesh

(* The fairness of each part's own specification.                            *)
Calling(a) == part = "tool" /\ InCall(a) /\ NotTool
Testing(w) == part = "tool" /\ WorkerTest(w) /\ NotTool
Uploading == part = "infer" /\ StreamThread /\ NotInfer
Inferring == part = "infer" /\ InferSteps /\ NotInfer
GpuClient == part = "gpu" /\ CallerStep /\ NotGpu
GpuThread == part = "gpu" /\ WorkerStep /\ NotGpu
TileMain == part = "tile" /\ MainStep /\ NotTile
TileLoader == part = "tile" /\ LoaderStep /\ NotTile

Spec ==
    /\ Init /\ [][Next]_vars
    /\ \A a \in Callers \union Workers : WF_vars(Calling(a))
    /\ \A w \in Workers : WF_vars(Testing(w))
    /\ WF_vars(Uploading) /\ WF_vars(Inferring)
    /\ WF_vars(GpuClient) /\ WF_vars(GpuThread)
    /\ WF_vars(TileMain) /\ WF_vars(TileLoader)

-----------------------------------------------------------------------------
(* The properties of the parts.                                              *)

\* Threads and calls end: the tool runtime's calls and its destructor, a waiter
\* that can hear the notification, every generation of GPUModel, and every pass
\* over the tiles, whose slots' phases follow one another.
ThreadsEnd ==
    ToolEnds /\ InferEnds /\ GenEnds /\ PhaseCycle /\ (part = "tile" => StreamEnds)
=============================================================================
