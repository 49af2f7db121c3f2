---------------------------- MODULE PipelineSync ----------------------------
(* The submission path of DX12InferencePipeline                              *)
(* (native/gpu_trainer/dx12_inference_pipeline.{h,cpp}): the staging slots,  *)
(* the ring of command frames, the one fence counter and the one auto-reset  *)
(* event that uploadWeights, submit and waitGPU share.  A thread's operation *)
(* is a sequence of steps, one per shared object; the GPU takes the queue's  *)
(* entries in order.                                                         *)
EXTENDS Naturals, Sequences, FiniteSets

CONSTANTS
    Uploaders,         \* threads calling uploadWeights
    Generators,        \* threads running submit / waitGPU (runGenLoop)
    Slots,             \* STAGING_SLOTS
    CmdRing,           \* CMD_RING
    MaxOps             \* bound: operations of a thread

Threads == Uploaders \cup Generators
Frames == 0..(CmdRing - 1)
NoSlot == "none"

ASSUME PipelineSyncAssumption ==
    CmdRing \in Nat \ {0} /\ MaxOps \in Nat /\ NoSlot \notin Slots

VARIABLES
    slotFree,          \* staging_[i].free
    cmdHead,           \* cmdHead_: a plain uint32_t
    frameFence,        \* cmdRing_[i].fenceVal
    fenceVal,          \* fenceVal_: the last value handed out
    completed,         \* the fence's own value
    registered,        \* values SetEventOnCompletion still waits for
    event,             \* fenceEvent_: auto-reset
    gpuQ,              \* what ExecuteCommandLists and Signal queued
    th,                \* per thread: its place and locals
    ops                \* operations a thread has begun

syncVars == <<slotFree, cmdHead, frameFence, fenceVal, completed, registered, event,
          gpuQ, th, ops>>

Idle == [pc |-> "idle", slot |-> NoSlot, frame |-> 0, val |-> 0]

SyncInit ==
    /\ slotFree = [s \in Slots |-> TRUE]
    /\ cmdHead = 0
    /\ frameFence = [f \in Frames |-> 0]
    /\ fenceVal = 0 /\ completed = 0
    /\ registered = {} /\ event = FALSE
    /\ gpuQ = <<>>
    /\ th = [t \in Threads |-> Idle]
    /\ ops = [t \in Threads |-> 0]

At(t, pc) == th[t].pc = pc
Goto(t, pc) == th' = [th EXCEPT ![t].pc = pc]
Begin(t) == ops[t] < MaxOps /\ ops' = [ops EXCEPT ![t] = @ + 1]

fenceVars == <<fenceVal, completed, registered, event>>
ringVars == <<cmdHead, frameFence>>

-----------------------------------------------------------------------------
(* uploadWeights: a slot, a copy into it, then a submission                  *)

AcquireStaging(t, s) ==
    /\ t \in Uploaders /\ At(t, "idle") /\ Begin(t)
    /\ slotFree[s]
    /\ slotFree' = [slotFree EXCEPT ![s] = FALSE]
    /\ th' = [th EXCEPT ![t].pc = "copy", ![t].slot = s]
    /\ UNCHANGED <<ringVars, fenceVars, gpuQ>>

\* memcpy, then the target matrix
Copy(t) ==
    /\ At(t, "copy")
    /\ Goto(t, "frame")
    /\ UNCHANGED <<slotFree, ringVars, fenceVars, gpuQ, ops>>

ReleaseStaging(t) ==
    /\ slotFree' = [slotFree EXCEPT ![th[t].slot] = TRUE]
    /\ th' = [th EXCEPT ![t] = Idle]
    /\ UNCHANGED <<ringVars, fenceVars, gpuQ, ops>>

\* default: releaseStaging(slot); return;
UnknownType(t) == At(t, "copy") /\ ReleaseStaging(t)

FinishUpload(t) == At(t, "release") /\ ReleaseStaging(t)

-----------------------------------------------------------------------------
(* submit: a command frame, its old work waited for, the new list queued     *)

BeginSubmit(t) ==
    /\ t \in Generators /\ At(t, "idle") /\ Begin(t)
    /\ Goto(t, "frame")
    /\ UNCHANGED <<slotFree, ringVars, fenceVars, gpuQ>>

\* nextFrame reads cmdHead_ ...
NextFrame(t) ==
    /\ At(t, "frame")
    /\ th' = [th EXCEPT ![t].pc = "advance", ![t].frame = cmdHead]
    /\ UNCHANGED <<slotFree, ringVars, fenceVars, gpuQ, ops>>

\* ... and stores it one further: two threads may have read the same head.
\* A frame that was used before has a fence value to wait for.
\* mutant: the frame's fence is not looked at
FrameUnused(f) == TRUE

FrameFresh(f) == frameFence[f] = 0

\* mutant: no modulus
HeadUnbounded(f) == f + 1

HeadAfter(f) == (f + 1) % CmdRing

AdvanceHead(t) ==
    /\ At(t, "advance")
    /\ cmdHead' = HeadAfter(th[t].frame)
    /\ th' = [th EXCEPT
         ![t].pc = IF FrameFresh(th[t].frame) THEN "record" ELSE "watchFrame",
         ![t].val = frameFence[th[t].frame]]
    /\ UNCHANGED <<slotFree, frameFence, fenceVars, gpuQ, ops>>

AtOnce(v) == completed >= v

\* SetEventOnCompletion: at once if the fence is there already
Watch(t, from, to) ==
    /\ At(t, from)
    /\ IF AtOnce(th[t].val)
       THEN event' = TRUE /\ UNCHANGED registered
       ELSE registered' = registered \cup {th[t].val} /\ UNCHANGED event
    /\ Goto(t, to)
    /\ UNCHANGED <<slotFree, ringVars, fenceVal, completed, gpuQ, ops>>

\* WaitForSingleObject: one waiter takes the event, whoever set it
Wait(t, from, to) ==
    /\ At(t, from)
    /\ event
    /\ event' = FALSE
    /\ Goto(t, to)
    /\ UNCHANGED <<slotFree, ringVars, fenceVal, completed, registered, gpuQ, ops>>

\* alloc->Reset, list->Reset, recording, Close, ExecuteCommandLists
Execute(t) ==
    /\ At(t, "record")
    /\ gpuQ' = Append(gpuQ, [kind |-> "list", by |-> t, slot |-> th[t].slot,
                             frame |-> th[t].frame, val |-> 0])
    /\ Goto(t, "tick")
    /\ UNCHANGED <<slotFree, ringVars, fenceVars, ops>>

\* f.fenceVal = ++fenceVal_
Tick(t) ==
    /\ At(t, "tick")
    /\ fenceVal' = fenceVal + 1
    /\ frameFence' = [frameFence EXCEPT ![th[t].frame] = fenceVal + 1]
    /\ Goto(t, "signal")
    /\ UNCHANGED <<slotFree, cmdHead, completed, registered, event, gpuQ, ops>>

SignalEntry(t, v) == [kind |-> "signal", by |-> t, slot |-> NoSlot,
                      frame |-> 0, val |-> v]

\* mutant: the upload does not wait for its own copy
NoWaitAfterUpload(t) == IF th[t].slot = NoSlot THEN "idle" ELSE "release"

AfterSignal(t) == IF th[t].slot = NoSlot THEN "idle" ELSE "watchDone"

\* mutant: the value before the increment is signalled
SignalledStale(t) == frameFence[th[t].frame] - 1

Signalled(t) == frameFence[th[t].frame]

\* Signal(f.fenceVal); an upload then waits for that value, submit returns
SignalFrame(t) ==
    /\ At(t, "signal")
    /\ gpuQ' = Append(gpuQ, SignalEntry(t, Signalled(t)))
    /\ th' = [th EXCEPT ![t].pc = AfterSignal(t), ![t].val = frameFence[th[t].frame]]
    /\ UNCHANGED <<slotFree, ringVars, fenceVars, ops>>

-----------------------------------------------------------------------------
(* waitGPU, then the logits are read                                         *)

\* mutant: only the frame to be reused next is waited for
OldestFrame == frameFence[cmdHead]

DrainValue == fenceVal + 1

BeginDrain(t) ==
    /\ t \in Generators /\ At(t, "idle") /\ Begin(t)
    /\ fenceVal' = fenceVal + 1
    /\ th' = [th EXCEPT ![t].pc = "signalDrain", ![t].val = DrainValue]
    /\ UNCHANGED <<slotFree, ringVars, completed, registered, event, gpuQ>>

SignalDrain(t) ==
    /\ At(t, "signalDrain")
    /\ gpuQ' = Append(gpuQ, SignalEntry(t, th[t].val))
    /\ Goto(t, "watchDrain")
    /\ UNCHANGED <<slotFree, ringVars, fenceVars, ops>>

ReadLogits(t) ==
    /\ At(t, "read")
    /\ th' = [th EXCEPT ![t] = Idle]
    /\ UNCHANGED <<slotFree, ringVars, fenceVars, gpuQ, ops>>

-----------------------------------------------------------------------------
(* The GPU: lists run and signals set the fence, in queue order.  A value    *)
(* below the fence's sets it back.                                           *)

Reached(v) == {r \in registered : r <= v}

GpuStep ==
    /\ gpuQ # <<>>
    /\ gpuQ' = Tail(gpuQ)
    /\ IF Head(gpuQ).kind = "signal"
       THEN /\ completed' = Head(gpuQ).val
            /\ registered' = registered \ Reached(Head(gpuQ).val)
            /\ event' = (event \/ Reached(Head(gpuQ).val) # {})
       ELSE UNCHANGED <<completed, registered, event>>
    /\ UNCHANGED <<slotFree, ringVars, fenceVal, th, ops>>

Step(t) ==
    \/ Copy(t) \/ UnknownType(t) \/ FinishUpload(t)
    \/ NextFrame(t) \/ AdvanceHead(t)
    \/ Watch(t, "watchFrame", "waitFrame") \/ Wait(t, "waitFrame", "record")
    \/ Execute(t) \/ Tick(t) \/ SignalFrame(t)
    \/ Watch(t, "watchDone", "waitDone") \/ Wait(t, "waitDone", "release")
    \/ SignalDrain(t)
    \/ Watch(t, "watchDrain", "waitDrain") \/ Wait(t, "waitDrain", "read")
    \/ ReadLogits(t)

BeginOp(t) == BeginSubmit(t) \/ BeginDrain(t) \/ \E s \in Slots : AcquireStaging(t, s)

SyncNext == GpuStep \/ \E t \in Threads : Step(t) \/ BeginOp(t)

SyncSpec == SyncInit /\ [][SyncNext]_syncVars

\* The GPU and the threads inside an operation make progress; nobody is
\* obliged to begin one.
SyncFairSpec == SyncSpec /\ WF_syncVars(GpuStep) /\ \A t \in Threads : WF_syncVars(Step(t))

-----------------------------------------------------------------------------
(* Properties                                                                *)

\* The shape of the state; every value in use was handed out by fenceVal_.
SyncTypeOK ==
    /\ slotFree \in [Slots -> BOOLEAN]
    /\ cmdHead \in Frames
    /\ frameFence \in [Frames -> 0..fenceVal]
    /\ fenceVal \in Nat /\ completed \in 0..fenceVal
    /\ registered \subseteq 1..fenceVal /\ event \in BOOLEAN
    /\ \A i \in DOMAIN gpuQ : gpuQ[i].val \in 0..fenceVal
    /\ \A t \in Threads : th[t].frame \in Frames /\ th[t].slot \in Slots \cup {NoSlot}

Queued == {gpuQ[i] : i \in DOMAIN gpuQ}
Lists == {e \in Queued : e.kind = "list"}

\* A command allocator is reset only when the GPU has finished the list it
\* recorded last.
AllocatorIdle ==
    \A t \in Threads : At(t, "record") => \A e \in Lists : e.frame # th[t].frame

\* uploadWeights' comments: "Thread-safe -- uses a staging ring", "Wait and
\* release staging after GPU done".  No thread copies into a slot, or gives it
\* back, that the GPU has yet to read.
StagingIdle ==
    \A s \in Slots :
        (slotFree[s] \/ \E t \in Threads : th[t].slot = s /\ At(t, "copy"))
            => \A e \in Lists : e.slot # s

\* The logits are read after every list of the generator has run.
LogitsComplete ==
    \A t \in Threads : At(t, "read") => \A e \in Lists : e.by # t

\* Every operation begun ends: no waiter is left behind by the shared event.
OpsEnd == \A t \in Threads : (th[t].pc # "idle") ~> (th[t].pc = "idle")

\* What the CPU reuses or reads, allocators, staging slots and logits, the GPU is
\* done with.
ReuseSafety == SyncTypeOK /\ AllocatorIdle /\ StagingIdle /\ LogitsComplete
============================================================================
