---------------------------- MODULE MeshCompute ----------------------------
(* native/d3d12_compute/main.cpp: the vector add, the iterated triangle step  *)
(* with ping-pong buffers, and the two KUHUL programs that repeat both with   *)
(* buffers of their own.  The program is a sequence of command lists, each    *)
(* recorded, submitted and waited for by ExecuteAndWait; the GPU runs a list  *)
(* command by command.  Numbers are left out: a phase or output buffer holds  *)
(* how many steps it is away from the data uploaded first.                    *)
EXTENDS Integers, Sequences

CONSTANT StepCounts    \* values of --steps

ASSUME MeshComputeAssumption == StepCounts \subseteq Nat

VARIABLES
    steps,             \* this run's steps
    list,              \* the list the CPU is at, in the order of Program
    cpuPc,             \* "reset" (allocator and list), "submit", "wait"
    fence,             \* lists the GPU has signalled
    at,                \* the GPU's place in the submitted list
    buffer,            \* state, contents and open write of each buffer
    result             \* what ReadbackFloats returned, in order

meshVars == <<steps, list, cpuPc, fence, at, buffer, result>>

-----------------------------------------------------------------------------
(* The command lists.                                                         *)

Barrier(b, before, after) == [op |-> "barrier", buf |-> b, before |-> before, after |-> after]
CopyIn(b, x) == [op |-> "copyIn", buf |-> b, val |-> x]
CopyOut(b) == [op |-> "copyOut", buf |-> b]
Dispatch(reads, from, writes) ==
    [op |-> "dispatch", reads |-> reads, from |-> from, writes |-> writes]

\* mutant: the buffer is left as the copy destination
UploadM(b, x, after) == <<CopyIn(b, x)>>

\* UploadBuffer: the barrier takes dst from COPY_DEST to afterState.
Upload(b, x, after) == <<CopyIn(b, x), Barrier(b, "copyDst", after)>>

\* ReadbackFloats expects a buffer a shader has written.
Readback(b) == <<Barrier(b, "uav", "copySrc"), CopyOut(b)>>

\* DispatchVectorAdd and one triangle step: what the descriptor table binds.
VectorAdd(a, b, out) == Dispatch({a, b}, a, {out})
TriangleStep(tensor, pIn, oIn, pOut, oOut) ==
    Dispatch({"vertex", "neighbor", tensor, pIn, oIn}, pIn, {pOut, oOut})

\* Even steps use heapPing0, odd ones heapPing1.
HeapStep(k) == IF k % 2 = 0 THEN TriangleStep("tensor", "phaseA", "outA", "phaseB", "outB")
                            ELSE TriangleStep("tensor", "phaseB", "outB", "phaseA", "outA")

\* phaseIn, outIn, phaseOut, outOut after k swaps.
In(k) == IF k % 2 = 0 THEN <<"phaseA", "outA">> ELSE <<"phaseB", "outB">>

\* mutant: the barriers come after the swap of the pointers
SwapBarriersM(k) ==
    <<Barrier(In(k + 1)[1], "uav", "srv"), Barrier(In(k + 1)[2], "uav", "srv"),
      Barrier(In(k)[1], "srv", "uav"), Barrier(In(k)[2], "srv", "uav")>>

\* The four barriers before every step but the first.
SwapBarriers(k) ==
    <<Barrier(In(k)[1], "uav", "srv"), Barrier(In(k)[2], "uav", "srv"),
      Barrier(In(k + 1)[1], "srv", "uav"), Barrier(In(k + 1)[2], "srv", "uav")>>

\* Step k is the commands 5k - 3 to 5k + 1, the first step its dispatch alone.
StepCommands(n) ==
    [i \in 1 .. 5 * n - 4 |->
        LET k == (i + 3) \div 5
        IN  IF i = 5 * k + 1 THEN HeapStep(k) ELSE SwapBarriers(k)[i - 5 * k + 4]]

\* mutant: the other parity
FinalOutM(n) == IF n % 2 = 0 THEN "outB" ELSE "outA"

FinalOut(n) == IF n % 2 = 0 THEN "outA" ELSE "outB"

\* "Wo" of the first KUHUL program, and its two "Sek" instructions.  The
\* triangle step binds outIn as its tensor too.
KuhulAllocs ==
    <<Upload("kA", 0, "srv"), Upload("kB", 0, "srv"), Upload("kOut", 0, "uav"),
      Upload("kPhaseIn", 0, "srv"), Upload("kOutIn", 0, "srv"),
      Upload("kPhaseOut", 0, "uav"), Upload("kOutOut", 0, "uav")>>
KuhulSteps ==
    << <<VectorAdd("kA", "kB", "kOut")>>,
       <<TriangleStep("kOutIn", "kPhaseIn", "kOutIn", "kPhaseOut", "kOutOut")>> >>

Program(n) ==
    <<Upload("a", 0, "srv"), Upload("b", 0, "srv"),
      <<VectorAdd("a", "b", "sum")>>, Readback("sum"),
      Upload("vertex", 0, "srv"), Upload("neighbor", 0, "srv"), Upload("triangle", 0, "uav"),
      Upload("tensor", 0, "srv"), Upload("phaseA", 0, "srv"), Upload("phaseB", 0, "uav"),
      Upload("outA", 0, "srv"), Upload("outB", 0, "uav"),
      StepCommands(n), Readback(FinalOut(n))>>
    \o KuhulAllocs \o KuhulSteps \o <<Readback("kOut"), Readback("kOutOut")>>

Buffers ==
    {"a", "b", "sum", "vertex", "neighbor", "triangle", "tensor", "phaseA", "phaseB",
     "outA", "outB", "kA", "kB", "kOut", "kPhaseIn", "kOutIn", "kPhaseOut", "kOutOut"}

MeshInit ==
    /\ steps \in StepCounts
    /\ list = 1 /\ cpuPc = "reset" /\ fence = 0 /\ at = 0 /\ result = <<>>
    /\ buffer = [b \in Buffers |->
                   [state |-> IF b = "sum" THEN "uav" ELSE "copyDst", holds |-> 0, open |-> FALSE]]

-----------------------------------------------------------------------------
(* ExecuteAndWait.                                                            *)

\* Reset the allocator and the list, record, close.
Record ==
    /\ cpuPc = "reset" /\ list <= Len(Program(steps))
    /\ cpuPc' = "submit"
    /\ UNCHANGED <<steps, list, fence, at, buffer, result>>

Submit ==
    /\ cpuPc = "submit"
    /\ cpuPc' = "wait" /\ at' = 1
    /\ UNCHANGED <<steps, list, fence, buffer, result>>

\* mutant: the fence value of the list before is awaited
FenceReachedM == fence >= list - 1

FenceReached == fence >= list

WaitFence ==
    /\ cpuPc = "wait" /\ FenceReached
    /\ cpuPc' = "reset" /\ list' = list + 1
    /\ UNCHANGED <<steps, fence, at, buffer, result>>

-----------------------------------------------------------------------------
(* The GPU.                                                                   *)

Commands == Program(steps)[fence + 1]
Running == at > 0 /\ at <= Len(Commands)

\* One command.  A dispatch leaves what it writes open until a transition.
Run(c) ==
    CASE c.op = "copyIn" -> [buffer EXCEPT ![c.buf].holds = c.val]
      [] c.op = "barrier" -> [buffer EXCEPT ![c.buf].state = c.after, ![c.buf].open = FALSE]
      [] c.op = "copyOut" -> buffer
      [] c.op = "dispatch" ->
           [b \in Buffers |-> IF b \in c.writes
                              THEN [buffer[b] EXCEPT !.holds = buffer[c.from].holds + 1, !.open = TRUE]
                              ELSE buffer[b]]

GpuCommand ==
    /\ Running
    /\ buffer' = Run(Commands[at])
    /\ result' = IF Commands[at].op = "copyOut"
                 THEN Append(result, buffer[Commands[at].buf].holds) ELSE result
    /\ at' = at + 1
    /\ UNCHANGED <<steps, list, cpuPc, fence>>

\* The list is done: its writes are visible and the fence is signalled.
Signal ==
    /\ at > Len(Commands)
    /\ fence' = fence + 1 /\ at' = 0
    /\ buffer' = [b \in Buffers |-> [buffer[b] EXCEPT !.open = FALSE]]
    /\ UNCHANGED <<steps, list, cpuPc, result>>

MeshNext == Record \/ Submit \/ WaitFence \/ (at > 0 /\ (GpuCommand \/ Signal))

MeshSpec == MeshInit /\ [][MeshNext]_meshVars

-----------------------------------------------------------------------------
MeshTypeOK ==
    /\ cpuPc \in {"reset", "submit", "wait"}
    /\ \A b \in Buffers : buffer[b].state \in {"copyDst", "copySrc", "srv", "uav"}
    /\ list \in 1 .. Len(Program(steps)) + 1 /\ fence \in 0 .. Len(Program(steps))

\* Every command finds its buffers in the state it was recorded for: barriers
\* name the state their buffer is in, for every number of steps, and the KUHUL
\* dispatches, which record no barrier at all, find theirs as "Wo" left them.
BarriersMatch ==
    Running =>
        LET c == Commands[at]
            InState(b, s) == buffer[b].state = s
        IN  CASE c.op = "barrier" -> InState(c.buf, c.before)
              [] c.op = "copyIn" -> InState(c.buf, "copyDst")
              [] c.op = "copyOut" -> InState(c.buf, "copySrc")
              [] c.op = "dispatch" -> /\ \A b \in c.reads : InState(b, "srv")
                                      /\ \A b \in c.writes : InState(b, "uav")

\* No dispatch reads or overwrites what an earlier one of its list may still be
\* writing.
StepsOrdered ==
    Running /\ Commands[at].op = "dispatch" =>
        \A b \in Commands[at].reads \union Commands[at].writes : ~buffer[b].open

\* The mesh output read back is that of the last step, whichever buffer of the
\* ping-pong it ended in; vector adds and the KUHUL step are one step each.
OutputIsLast ==
    \A i \in DOMAIN result : result[i] = <<1, steps, 1, 1>>[i]

\* The allocator is reset only when the GPU has finished the list before.
AllocatorFree == cpuPc \in {"reset", "submit"} => at = 0

\* The recorded barriers fit every command list of the program, and what is
\* read back is what the last step wrote.
MeshSafety == MeshTypeOK /\ BarriersMatch /\ StepsOrdered /\ OutputIsLast /\ AllocatorFree
=============================================================================
