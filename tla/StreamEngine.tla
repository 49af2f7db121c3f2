---------------------------- MODULE StreamEngine ----------------------------
(***************************************************************************)
(* ScxStreamEngine (native/gpu_trainer/scx_stream_engine.{h,cpp}): an IO    *)
(* thread submits frames, a pool of decode threads takes the chunks from a *)
(* mutex/condition-variable queue, copies each into a slot of the upload   *)
(* ring, records and executes a GPU command list, waits for the GPU and    *)
(* counts the tile; an inference thread polls the layers' ready flags; the *)
(* owner of the engine may shut it down at any time.                       *)
(*                                                                         *)
(* Every step touches shared memory at most once, except under workMu_.    *)
(* The command allocator, the command list, fenceVal_ and the auto-reset   *)
(* fenceEvent_ are shared by all these threads without a lock, as in the   *)
(* source; overlapping use of the command list yields any content.         *)
(***************************************************************************)
EXTENDS Naturals, Sequences, FiniteSets

CONSTANTS
    NumLayers,    \* numLayers_: the layers are 0 .. NumLayers - 1
    Stream,       \* the frames the IO thread will submit, in order
    Workers,      \* the decode threads
    RingSize,     \* SCX_UPLOAD_RING
    GenLen,       \* tokens that generate() is asked for
    Infer, Main,  \* the inference thread and the thread that owns the engine
    NoOne         \* "no thread"

Layers  == 0 .. NumLayers - 1
Slots   == 1 .. RingSize
Frames  == 1 .. Len(Stream)
Threads == Workers \cup {Infer, Main}

FrameType == [type : {"CHUNK", "META"}, layer : Nat, last : BOOLEAN,
              size : Nat \ {0}]

ASSUME StreamAssumption == Stream \in Seq(FrameType)
ASSUME SizeAssumption ==
    /\ NumLayers \in Nat
    /\ RingSize \in Nat \ {0}
    /\ GenLen \in Nat
ASSUME ThreadAssumption ==
    /\ Infer # Main
    /\ Workers \cap {Infer, Main} = {}
    /\ NoOne \notin Threads

VARIABLES
    nextFrame,    \* index in Stream of the frame submitted next
    ioPc,         \* IO thread: "frame" or "notify" (between push and notify_one)
    workMu,       \* holder of workMu_ across steps, or NoOne
    workQ,        \* workQ_: indices of chunks
    waiting,      \* decode threads blocked in workCv_.wait
    running,      \* running_
    accepted,     \* history: the chunks pushed while running_ was still TRUE
    pc,           \* program counter of every thread
    work,         \* decode thread's local ChunkWork (0: none)
    scan,         \* acquireUploadSlot's loop index
    slot,         \* the slot a decode thread holds (0: none)
    slotFree,     \* uploadRing_[i].free
    slotData,     \* chunk whose bytes lie in uploadRing_[i].mapped
    writeOffset,  \* writeOffset_[layer]
    dst,          \* dstByteOff of the chunks that have one
    tilesLoaded, tilesTotal, ready,   \* LayerState (tilesTotal: 0 unknown, n+1 = n)
    loaded,       \* decode thread's local 'loaded'
    recording,    \* threads between cmdAlloc_->Reset and cmdList_->Close
    mixed,        \* those whose recording another thread overlapped
    cmdList,      \* the commands recorded in cmdList_
    gpuQ,         \* the D3D12 queue
    vram,         \* chunk -> chunk whose bytes were decoded into its place (0: none)
    fenceVal, fenceDone,   \* fenceVal_, fence_->GetCompletedValue()
    ftmp,         \* value read by a thread's ++fenceVal_
    fenceReg,     \* values registered with SetEventOnCompletion
    fenceEvent,   \* fenceEvent_ (auto-reset)
    step, layer,  \* generate()'s loop counters
    result        \* what generate() returned: "none", "true", "false"

ioVars    == <<nextFrame, ioPc>>
queueVars == <<workMu, workQ, waiting>>
ringVars  == <<scan, slot, slotFree, slotData, writeOffset, dst>>
tileVars  == <<tilesLoaded, tilesTotal, ready, loaded>>
cmdVars   == <<recording, mixed, cmdList>>
gpuVars   == <<gpuQ, vram, fenceDone>>
fenceVars == <<fenceVal, ftmp, fenceReg, fenceEvent>>
genVars   == <<step, layer, result>>
hostVars   == <<ioVars, queueVars, running, accepted>>
decodeVars == <<work, ringVars, tileVars>>
deviceVars == <<cmdVars, gpuVars, fenceVars>>
vars == <<hostVars, pc, decodeVars, deviceVars, genVars>>

\* submitFrame enqueues CHUNK frames of an existing layer and drops the others.
IsChunk(i) == Stream[i].type = "CHUNK" /\ Stream[i].layer \in Layers
Chunks     == {i \in Frames : IsChunk(i)}
LayerOf(c) == Stream[c].layer

\* A command decodes chunk c from upload slot s; c = 0 is an attention dispatch.
Command == [chunk : {0}, slot : {0}] \cup [chunk : Chunks, slot : Slots]

Init ==
    /\ nextFrame = 1 /\ ioPc = "frame"
    /\ workMu = NoOne /\ workQ = <<>> /\ waiting = {}
    /\ running = TRUE /\ accepted = {}
    /\ pc = [t \in Threads |-> CASE t = Infer -> "poll"
                                 [] t = Main  -> "live"
                                 [] OTHER     -> "idle"]
    /\ work = [w \in Workers |-> 0]
    /\ scan = [w \in Workers |-> 1]
    /\ slot = [w \in Workers |-> 0]
    /\ slotFree = [s \in Slots |-> TRUE]
    /\ slotData = [s \in Slots |-> 0]
    /\ writeOffset = [l \in Layers |-> 0]
    /\ dst = [c \in {} |-> 0]
    /\ tilesLoaded = [l \in Layers |-> 0]
    /\ tilesTotal = [l \in Layers |-> 0]
    /\ ready = [l \in Layers |-> FALSE]
    /\ loaded = [w \in Workers |-> 0]
    /\ recording = {} /\ mixed = {} /\ cmdList = {}
    /\ gpuQ = <<>> /\ vram = [c \in Chunks |-> 0] /\ fenceDone = 0
    /\ fenceVal = 0 /\ ftmp = [t \in Threads |-> 0]
    /\ fenceReg = {} /\ fenceEvent = FALSE
    /\ step = 0 /\ layer = 0 /\ result = "none"

Goto(t, label) == pc' = [pc EXCEPT ![t] = label]

-----------------------------------------------------------------------------
(* IO thread: submitFrame / submitChunk *)

\* Frames that are not CHUNK, or name a layer that does not exist, are dropped.
DropFrame ==
    /\ ioPc = "frame" /\ nextFrame \in Frames /\ ~IsChunk(nextFrame)
    /\ nextFrame' = nextFrame + 1
    /\ UNCHANGED <<ioPc, queueVars, running, accepted, pc, decodeVars, deviceVars, genVars>>

SubmitChunk ==
    /\ ioPc = "frame" /\ nextFrame \in Chunks /\ workMu = NoOne
    /\ workQ' = Append(workQ, nextFrame)
    /\ nextFrame' = nextFrame + 1
    /\ accepted' = IF running THEN accepted \cup {nextFrame} ELSE accepted
    /\ ioPc' = "notify"
    /\ UNCHANGED <<workMu, waiting, running, pc, decodeVars, deviceVars, genVars>>

\* workCv_.notify_one() after the lock is released.
NotifyOne ==
    /\ ioPc = "notify"
    /\ ioPc' = "frame"
    /\ IF waiting = {}
         THEN UNCHANGED <<waiting, pc>>
         ELSE \E w \in waiting : waiting' = waiting \ {w} /\ Goto(w, "idle")
    /\ UNCHANGED <<nextFrame, workMu, workQ, running, accepted, decodeVars,
                   deviceVars, genVars>>

-----------------------------------------------------------------------------
(* Decode threads: decodeWorker *)

\* The predicate of workCv_.wait holds and the queue is not empty.
TakeWork(w) ==
    /\ pc[w] = "idle" /\ workMu = NoOne /\ workQ # <<>>
    /\ work' = [work EXCEPT ![w] = Head(workQ)]
    /\ workQ' = Tail(workQ)
    /\ scan' = [scan EXCEPT ![w] = 1]
    /\ Goto(w, "scan")
    /\ UNCHANGED <<ioVars, workMu, waiting, running, accepted, slot, slotFree,
                   slotData, writeOffset, dst, tileVars, deviceVars, genVars>>

MayExitAtOnce == ~running   \* mutant: leaves queued work behind
MayExit == ~running /\ workQ = <<>>

ExitWorker(w) ==
    /\ pc[w] = "idle" /\ workMu = NoOne /\ MayExit
    /\ Goto(w, "exited")
    /\ UNCHANGED <<hostVars, decodeVars, deviceVars, genVars>>

\* The predicate was false: the thread still holds workMu_ until it blocks.
DecideToWait(w) ==
    /\ pc[w] = "idle" /\ workMu = NoOne /\ workQ = <<>> /\ running
    /\ workMu' = w
    /\ Goto(w, "block")
    /\ UNCHANGED <<ioVars, workQ, waiting, running, accepted, decodeVars, deviceVars,
                   genVars>>

Block(w) ==
    /\ pc[w] = "block"
    /\ workMu' = NoOne
    /\ waiting' = waiting \cup {w}
    /\ Goto(w, "waiting")
    /\ UNCHANGED <<ioVars, workQ, running, accepted, decodeVars, deviceVars, genVars>>

\* A condition variable may wake a thread nobody notified.
SpuriousWakeup(w) ==
    /\ w \in waiting
    /\ waiting' = waiting \ {w}
    /\ Goto(w, "idle")
    /\ UNCHANGED <<ioVars, workMu, workQ, running, accepted, decodeVars, deviceVars,
                   genVars>>

-----------------------------------------------------------------------------
(* Decode threads: uploadAndDecode, up to the command list *)

AnySlot(s) == TRUE   \* mutant: a store in place of the compare_exchange
SlotAvailable(s) == slotFree[s]
NextSlotUnwrapped(s) == s + 1   \* mutant: the scan runs past the ring
NextSlot(s) == IF s = RingSize THEN 1 ELSE s + 1

\* One compare_exchange of acquireUploadSlot's scan over the ring.
ScanSlot(w) ==
    /\ pc[w] = "scan"
    /\ LET s == scan[w] IN
         \/ /\ SlotAvailable(s)
            /\ slotFree' = [slotFree EXCEPT ![s] = FALSE]
            /\ slot' = [slot EXCEPT ![w] = s]
            /\ Goto(w, "copy")
            /\ UNCHANGED scan
         \/ /\ ~slotFree[s]
            /\ scan' = [scan EXCEPT ![w] = NextSlot(s)]
            /\ UNCHANGED <<slotFree, slot, pc>>
    /\ UNCHANGED <<hostVars, work, slotData, writeOffset, dst, tileVars,
                   deviceVars, genVars>>

TileElement(c) == 1   \* mutant: reserves an element, not the tile
TileBytes(c) == Stream[c].size

\* memcpy into the slot, then the tile's place: writeOffset_.fetch_add.
CopyAndReserve(w) ==
    /\ pc[w] = "copy"
    /\ LET c == work[w] IN
         /\ slotData' = [slotData EXCEPT ![slot[w]] = c]
         /\ dst' = [d \in DOMAIN dst \cup {c} |->
                      IF d = c THEN writeOffset[LayerOf(c)] ELSE dst[d]]
         /\ writeOffset' = [writeOffset EXCEPT ![LayerOf(c)] = @ + TileBytes(c)]
    /\ Goto(w, "reset")
    /\ UNCHANGED <<hostVars, work, scan, slot, slotFree, tileVars,
                   deviceVars, genVars>>

-----------------------------------------------------------------------------
(* Command list, execution and waitGPU: decode threads and inference *)

CommandOf(t) == IF t \in Workers THEN [chunk |-> work[t], slot |-> slot[t]]
                                 ELSE [chunk |-> 0, slot |-> 0]

\* cmdAlloc_->Reset(); cmdList_->Reset(...)
ResetList(t) ==
    /\ pc[t] = "reset"
    /\ cmdList' = {}
    /\ recording' = recording \cup {t}
    /\ mixed' = IF recording = {} THEN mixed ELSE mixed \cup recording \cup {t}
    /\ Goto(t, "record")
    /\ UNCHANGED <<hostVars, decodeVars, gpuVars, fenceVars, genVars>>

\* The barriers, the copy, the dispatch and cmdList_->Close().
RecordList(t) ==
    /\ pc[t] = "record"
    /\ IF t \in mixed
         THEN cmdList' \in SUBSET (cmdList \cup {CommandOf(u) : u \in mixed})
         ELSE cmdList' = {CommandOf(t)}
    /\ recording' = recording \ {t}
    /\ mixed' = mixed \ {t}
    /\ Goto(t, "execute")
    /\ UNCHANGED <<hostVars, decodeVars, gpuVars, fenceVars, genVars>>

\* ExecuteCommandLists; a list another thread has reset or left open may
\* execute any part of what was recorded.
ExecuteList(t) ==
    /\ pc[t] = "execute"
    /\ \E cmds \in IF recording = {} THEN {cmdList} ELSE SUBSET cmdList :
         gpuQ' = Append(gpuQ, [op |-> "exec", cmds |-> cmds, value |-> 0])
    /\ Goto(t, "fload")
    /\ UNCHANGED <<hostVars, decodeVars, cmdVars, vram, fenceDone,
                   fenceVars, genVars>>

\* waitGPU: ++fenceVal_ on a plain uint64_t is a load and a store.
LoadFence(t) ==
    /\ pc[t] = "fload"
    /\ ftmp' = [ftmp EXCEPT ![t] = fenceVal]
    /\ Goto(t, "fstore")
    /\ UNCHANGED <<hostVars, decodeVars, cmdVars, gpuVars, fenceVal,
                   fenceReg, fenceEvent, genVars>>

StoreFence(t) ==
    /\ pc[t] = "fstore"
    /\ fenceVal' = ftmp[t] + 1
    /\ Goto(t, "fsignal")
    /\ UNCHANGED <<hostVars, decodeVars, cmdVars, gpuVars, ftmp, fenceReg,
                   fenceEvent, genVars>>

SignalFence(t) ==
    /\ pc[t] = "fsignal"
    /\ gpuQ' = Append(gpuQ, [op |-> "signal", cmds |-> {}, value |-> fenceVal])
    /\ Goto(t, "fcheck")
    /\ UNCHANGED <<hostVars, decodeVars, cmdVars, vram, fenceDone,
                   fenceVars, genVars>>

\* What a thread does once its waitGPU has returned.
AfterWait(t) == CASE t = Infer -> "served"
                  [] t = Main  -> "closed"
                  [] OTHER     -> "release"

FenceNotPassed == fenceDone <= fenceVal   \* mutant: comparison reversed
FenceReached == fenceDone >= fenceVal

CheckFence(t) ==
    /\ pc[t] = "fcheck"
    /\ Goto(t, IF FenceReached THEN AfterWait(t) ELSE "fset")
    /\ UNCHANGED <<hostVars, decodeVars, deviceVars, genVars>>

\* SetEventOnCompletion signals the event at once for a completed value.
SetEvent(t) ==
    /\ pc[t] = "fset"
    /\ IF FenceReached
         THEN fenceEvent' = TRUE /\ UNCHANGED fenceReg
         ELSE fenceReg' = fenceReg \cup {fenceVal} /\ UNCHANGED fenceEvent
    /\ Goto(t, "fwait")
    /\ UNCHANGED <<hostVars, decodeVars, cmdVars, gpuVars, fenceVal, ftmp,
                   genVars>>

\* WaitForSingleObject on an auto-reset event: one waiter passes.
WaitEvent(t) ==
    /\ pc[t] = "fwait" /\ fenceEvent
    /\ fenceEvent' = FALSE
    /\ Goto(t, AfterWait(t))
    /\ UNCHANGED <<hostVars, decodeVars, cmdVars, gpuVars, fenceVal, ftmp,
                   fenceReg, genVars>>

\* The GPU takes the next entry of the queue (external: the D3D12 runtime).
GpuStep ==
    /\ gpuQ # <<>>
    /\ gpuQ' = Tail(gpuQ)
    /\ LET entry == Head(gpuQ) IN
         \/ /\ entry.op = "exec"
            /\ vram' = [c \in Chunks |->
                          IF \E k \in entry.cmds : k.chunk = c
                            THEN slotData[(CHOOSE k \in entry.cmds : k.chunk = c).slot]
                            ELSE vram[c]]
            /\ UNCHANGED <<fenceDone, fenceReg, fenceEvent>>
         \/ /\ entry.op = "signal"
            /\ fenceDone' = entry.value
            /\ fenceReg' = {v \in fenceReg : v > entry.value}
            /\ fenceEvent' = (fenceEvent \/ \E v \in fenceReg : v <= entry.value)
            /\ UNCHANGED vram
    /\ UNCHANGED <<hostVars, pc, decodeVars, cmdVars, fenceVal, ftmp, genVars>>

-----------------------------------------------------------------------------
(* Decode threads: releaseUploadSlot and the tile counters *)

ReleaseSlot(w) ==
    /\ pc[w] = "release"
    /\ slotFree' = [slotFree EXCEPT ![slot[w]] = TRUE]
    /\ slot' = [slot EXCEPT ![w] = 0]
    /\ Goto(w, "count")
    /\ UNCHANGED <<hostVars, work, scan, slotData, writeOffset, dst,
                   tileVars, deviceVars, genVars>>

FetchOnly(n) == n   \* mutant: the increment is lost
FetchAdd(n) == n + 1

\* int loaded = ls.tilesLoaded.fetch_add(1) + 1;
CountTile(w) ==
    /\ pc[w] = "count"
    /\ LET l == LayerOf(work[w]) IN
         /\ loaded' = [loaded EXCEPT ![w] = tilesLoaded[l] + 1]
         /\ tilesLoaded' = [tilesLoaded EXCEPT ![l] = FetchAdd(@)]
    /\ Goto(w, IF Stream[work[w]].last THEN "total" ELSE "check")
    /\ UNCHANGED <<hostVars, work, ringVars, tilesTotal, ready, deviceVars,
                   genVars>>

\* if (work.last) ls.tilesTotal.store(loaded);
StoreTotal(w) ==
    /\ pc[w] = "total"
    /\ tilesTotal' = [tilesTotal EXCEPT ![LayerOf(work[w])] = loaded[w] + 1]
    /\ Goto(w, "check")
    /\ UNCHANGED <<hostVars, work, ringVars, tilesLoaded, ready, loaded,
                   deviceVars, genVars>>

\* mutant: an unknown total counts as reached
LoadedEnough(w) == loaded[w] + 1 >= tilesTotal[LayerOf(work[w])]
\* mutant: off by one
MoreThanAll(w) ==
    LET l == LayerOf(work[w]) IN
        tilesTotal[l] > 0 /\ loaded[w] + 1 > tilesTotal[l]
AllTilesIn(w) ==
    LET l == LayerOf(work[w]) IN
        tilesTotal[l] > 0 /\ loaded[w] + 1 >= tilesTotal[l]

\* The layer is ready when the total is known and this tile reaches it.
CheckReady(w) ==
    /\ pc[w] = "check"
    /\ ready' = [ready EXCEPT ![LayerOf(work[w])] = @ \/ AllTilesIn(w)]
    /\ work' = [work EXCEPT ![w] = 0]
    /\ loaded' = [loaded EXCEPT ![w] = 0]
    /\ Goto(w, "idle")
    /\ UNCHANGED <<hostVars, ringVars, tilesLoaded, tilesTotal, deviceVars,
                   genVars>>

-----------------------------------------------------------------------------
(* Inference thread: generate / inferBatch *)

GenerateDone == step = GenLen \/ NumLayers = 0

\* mutant: counters compared without asking whether the total is known
LayerCountReached(l) == tilesLoaded[l] + 1 >= tilesTotal[l]
LayerReady(l) == ready[l]

\* while (!layerReady(layer)) ...
PollReady ==
    /\ pc[Infer] = "poll" /\ ~GenerateDone
    /\ Goto(Infer, IF LayerReady(layer) THEN "reset" ELSE "pollrun")
    /\ UNCHANGED <<hostVars, decodeVars, deviceVars, genVars>>

\* if (!running_.load()) return false; sleep_for(2 ms)
PollRunning ==
    /\ pc[Infer] = "pollrun"
    /\ IF running THEN Goto(Infer, "poll") /\ UNCHANGED result
                  ELSE Goto(Infer, "returned") /\ result' = "false"
    /\ UNCHANGED <<hostVars, decodeVars, deviceVars, step, layer>>

\* inferBatch returned true: the next layer, or the next token.
NextLayer ==
    /\ pc[Infer] = "served"
    /\ IF layer + 1 < NumLayers
         THEN layer' = layer + 1 /\ UNCHANGED step
         ELSE layer' = 0 /\ step' = step + 1
    /\ Goto(Infer, "poll")
    /\ UNCHANGED <<hostVars, decodeVars, deviceVars, result>>

ReturnTrue ==
    /\ pc[Infer] = "poll" /\ GenerateDone
    /\ result' = "true"
    /\ Goto(Infer, "returned")
    /\ UNCHANGED <<hostVars, decodeVars, deviceVars, step, layer>>

-----------------------------------------------------------------------------
(* Owner: shutdown *)

\* running_.store(false), without workMu_.
StopRunning ==
    /\ pc[Main] = "live"
    /\ running' = FALSE
    /\ Goto(Main, "notify")
    /\ UNCHANGED <<ioVars, queueVars, accepted, decodeVars, deviceVars, genVars>>

NotifyAll ==
    /\ pc[Main] = "notify"
    /\ waiting' = {}
    /\ pc' = [t \in Threads |-> CASE t = Main      -> "join"
                                  [] t \in waiting -> "idle"
                                  [] OTHER         -> pc[t]]
    /\ UNCHANGED <<ioVars, workMu, workQ, running, accepted, decodeVars, deviceVars,
                   genVars>>

\* All joins have returned; waitGPU and CloseHandle follow.
JoinWorkers ==
    /\ pc[Main] = "join"
    /\ \A w \in Workers : pc[w] = "exited"
    /\ Goto(Main, "fload")
    /\ UNCHANGED <<hostVars, decodeVars, deviceVars, genVars>>

-----------------------------------------------------------------------------
IoNext == DropFrame \/ SubmitChunk \/ NotifyOne

GpuSection(t) ==
    \/ ResetList(t) \/ RecordList(t) \/ ExecuteList(t)
    \/ LoadFence(t) \/ StoreFence(t) \/ SignalFence(t)
    \/ CheckFence(t) \/ SetEvent(t) \/ WaitEvent(t)

WorkerNext(w) ==
    \/ TakeWork(w) \/ ExitWorker(w) \/ DecideToWait(w) \/ Block(w)
    \/ ScanSlot(w) \/ CopyAndReserve(w)
    \/ GpuSection(w)
    \/ ReleaseSlot(w) \/ CountTile(w) \/ StoreTotal(w) \/ CheckReady(w)

InferNext == PollReady \/ PollRunning \/ NextLayer \/ ReturnTrue \/ GpuSection(Infer)

Shutdown == StopRunning \/ NotifyAll \/ JoinWorkers \/ GpuSection(Main)

Next ==
    \/ IoNext
    \/ \E w \in Workers : WorkerNext(w) \/ SpuriousWakeup(w)
    \/ InferNext
    \/ Shutdown
    \/ GpuStep

\* Threads are scheduled, the GPU makes progress; nobody has to call shutdown(),
\* but a shutdown that has begun goes on.
Fairness ==
    /\ SF_vars(IoNext)
    /\ \A w \in Workers : WF_vars(WorkerNext(w))
    /\ WF_vars(InferNext)
    /\ WF_vars(NotifyAll \/ JoinWorkers \/ GpuSection(Main))
    /\ WF_vars(GpuStep)

Spec == Init /\ [][Next]_vars
FairSpec == Spec /\ Fairness
-----------------------------------------------------------------------------
(* Properties *)

Labels == {"idle", "block", "waiting", "scan", "copy", "reset", "record",
           "execute", "fload", "fstore", "fsignal", "fcheck", "fset", "fwait",
           "release", "count", "total", "check", "exited", "poll", "pollrun",
           "served", "returned", "live", "notify", "join", "closed"}

TypeHost ==
    /\ nextFrame \in 1 .. Len(Stream) + 1
    /\ ioPc \in {"frame", "notify"}
    /\ workMu \in Workers \cup {NoOne}
    /\ workQ \in Seq(Chunks)
    /\ waiting \subseteq Workers
    /\ running \in BOOLEAN
    /\ accepted \subseteq Chunks

TypeRing ==
    /\ scan \in [Workers -> Slots]
    /\ slot \in [Workers -> Slots \cup {0}]
    /\ slotFree \in [Slots -> BOOLEAN]
    /\ slotData \in [Slots -> Chunks \cup {0}]
    /\ writeOffset \in [Layers -> Nat]
    /\ DOMAIN dst \subseteq Chunks
    /\ dst \in [DOMAIN dst -> Nat]

TypeTiles ==
    /\ tilesLoaded \in [Layers -> Nat]
    /\ tilesTotal \in [Layers -> Nat]
    /\ ready \in [Layers -> BOOLEAN]
    /\ loaded \in [Workers -> Nat]

GpuEntry == [op : {"exec", "signal"}, cmds : SUBSET Command, value : Nat]

TypeDevice ==
    /\ recording \subseteq Threads
    /\ mixed \subseteq Threads
    /\ cmdList \subseteq Command
    /\ gpuQ \in Seq(GpuEntry)
    /\ vram \in [Chunks -> Chunks \cup {0}]
    /\ fenceDone \in Nat
    /\ fenceVal \in Nat
    /\ ftmp \in [Threads -> Nat]
    /\ fenceReg \subseteq Nat
    /\ fenceEvent \in BOOLEAN

\* The variables keep their types: the engine's counters, queues and per-thread
\* locals as the header declares them.
TypeOK ==
    /\ TypeHost
    /\ pc \in [Threads -> Labels]
    /\ work \in [Workers -> Chunks \cup {0}]
    /\ TypeRing
    /\ TypeTiles
    /\ TypeDevice
    /\ step \in Nat /\ layer \in Nat /\ result \in {"none", "true", "false"}

Holding == {"copy", "reset", "record", "execute", "fload", "fstore", "fsignal",
            "fcheck", "fset", "fwait", "release"}

\* acquireUploadSlot / releaseUploadSlot: an upload slot is either free or owned
\* by exactly one decode thread inside uploadAndDecode; none leaks or is shared,
\* whatever the interleaving of the compare_exchange scans.
SlotAccounting ==
    /\ \A w \in Workers : slot[w] # 0 <=> pc[w] \in Holding
    /\ \A s \in Slots : slotFree[s] <=> \A w \in Workers : slot[w] # s
    /\ \A u, w \in Workers : slot[u] = slot[w] /\ slot[u] # 0 => u = w

\* writeOffset_.fetch_add: two tiles of a layer never get overlapping places in
\* the layer's weight buffer, in whatever order the decode threads reserve them.
RegionsDisjoint ==
    \A c, d \in DOMAIN dst : c # d /\ LayerOf(c) = LayerOf(d) =>
        \/ dst[c] + Stream[c].size <= dst[d]
        \/ dst[d] + Stream[d].size <= dst[c]

Queued(c)  == \E i \in DOMAIN workQ : workQ[i] = c
InHand(c)  == \E w \in Workers : work[w] = c
Tallied(w) == pc[w] \in {"total", "check"}   \* w's tile is already counted
Counted(c) == /\ c < nextFrame /\ ~Queued(c)
              /\ \A w \in Workers : work[w] = c => Tallied(w)

\* tilesLoaded counts every tile that went through uploadAndDecode exactly once:
\* no chunk handed to submitFrame is lost, taken twice or counted twice.
TileAccounting ==
    \A l \in Layers :
        tilesLoaded[l] = Cardinality({c \in Chunks : LayerOf(c) = l /\ Counted(c)})

\* shutdown() drains: once every join has returned, each chunk that was pushed
\* before running_ was cleared has been decoded and counted.
AcceptedDrained ==
    pc[Main] \notin {"live", "notify", "join"} =>
        \A c \in accepted : Counted(c) /\ ~InHand(c)

\* "Block until this layer's weights are fully decoded into VRAM"
\* (scx_stream_engine.cpp:393): a ready layer has each of its chunks in VRAM,
\* decoded from that chunk's own bytes.
ReadyMeansDecoded ==
    \A l \in Layers : ready[l] =>
        \A c \in Chunks : LayerOf(c) = l => vram[c] = c

\* "single allocator -- GPU worker serialises" (scx_stream_engine.cpp:61): at
\* most one thread is between cmdAlloc_->Reset and cmdList_->Close.
ListSerialised == Cardinality(recording) <= 1

\* waitGPU keeps a slot owned until the GPU has read it: no command still queued
\* reads a slot that was released to another decode thread.
SlotsReadBeforeReuse ==
    \A i \in DOMAIN gpuQ : \A k \in gpuQ[i].cmds :
        k.chunk # 0 => slotData[k.slot] = k.chunk

\* Every layer whose last chunk is submitted becomes ready and generate()
\* returns, when nobody shuts the engine down.
GenerateReturns == <>(pc[Infer] = "returned" \/ ~running)

\* "Shut down threads and release GPU resources" (scx_stream_engine.h:131): a
\* shutdown that has begun joins the decode threads and returns.
ShutdownReturns == ~running ~> pc[Main] = "closed"

\* The engine delivers each submitted chunk through the abstract tile pipeline.
Pipeline == INSTANCE TilePipeline WITH
    Tiles   <- Chunks,
    layerOf <- [c \in Chunks |-> LayerOf(c)],
    isLast  <- [c \in Chunks |-> Stream[c].last],
    queue   <- workQ,
    state   <- [c \in Chunks |-> CASE c >= nextFrame -> "unsent"
                                   [] Queued(c)      -> "queued"
                                   [] Counted(c)     -> "counted"
                                   [] OTHER          -> "held"],
    open    <- {l \in Layers : ready[l]}
PipelineSpec == Pipeline!Spec

\* No chunk is lost or counted twice, while the engine runs and when it closes.
ChunksAccounted == TileAccounting /\ AcceptedDrained

\* One recorder at a time, and upload slots are given back after the GPU has
\* read them (scx_stream_engine.cpp:61 and :362).
UploadsSerialised == ListSerialised /\ SlotsReadBeforeReuse
=============================================================================
