------------------------- MODULE GPT2TrainerProofs -------------------------
(* Proofs about the GPT-2 trainer, second part: the theorems of GPT2Trainer,  *)
(* for any number of layers, heads, sequences, steps and saves. A saved file  *)
(* holds one recent version of every weight (SavesAreRecent), the batches use *)
(* the sequences evenly (CoverageIsEven), no view of a dispatch is dropped    *)
(* (NothingDropped, ViewsHold), and after each pass the gradient buffers hold *)
(* what the CPU path computes (GradientsMatch).                               *)
EXTENDS GPT2DispatchProofs

-----------------------------------------------------------------------------
(* The loop, whatever the sequences are                                      *)

\* What a weight buffer holds determines the version that is read back.
LEMMA VersionIs == \A p \in Params : WeightsHeld(buf, step) => Version(p) = step
<1> SUFFICES ASSUME NEW p \in Params, WeightsHeld(buf, step)
             PROVE  Version(p) = step
  OBVIOUS
<1>1. buf[W(p[1], p[2])] = SetToBag({Named(p[1], p[2], 0, step)})
  BY DEF WeightsHeld, WeightAt, Only
<1>2. BagToSet(buf[W(p[1], p[2])]) = {Named(p[1], p[2], 0, step)}
  BY <1>1, BagOf
<1>3. (CHOOSE v \in BagToSet(buf[W(p[1], p[2])]) : TRUE) = Named(p[1], p[2], 0, step)
  BY <1>2
<1>4. Named(p[1], p[2], 0, step)[4] = step
  BY DEF Named
<1> QED BY <1>3, <1>4 DEF Version

\* Clearing buffers that are no weights, or whose content is a bag, keeps the
\* weights and the bags.
LEMMA ClearKeeps ==
    ASSUME NEW zero, zero \subseteq WorkingBuffers \cup Gradients, NEW B,
           B = [b \in Buffers |-> IF b \in zero THEN Zero ELSE buf[b]], NEW v
    PROVE  /\ WeightsHeld(buf, v) => WeightsHeld(B, v)
           /\ (\A b \in Buffers : IsABag(buf[b])) => \A b \in Buffers : IsABag(B[b])
<1>1. IsABag(Zero)
  BY ZeroIsNone, BagOf
<1>2. ASSUME WeightsHeld(buf, v) PROVE WeightsHeld(B, v)
  <2> SUFFICES ASSUME NEW q \in Params PROVE B[W(q[1], q[2])] = WeightAt(q, v)
    BY DEF WeightsHeld
  <2>1. W(q[1], q[2]) \in Weights /\ W(q[1], q[2]) \in Buffers
    BY BufferNames DEF Buffers
  <2>2. W(q[1], q[2]) \notin zero
    BY <2>1, BufferNames
  <2> QED BY <2>1, <2>2, <1>2 DEF WeightsHeld
<1> QED BY <1>1, <1>2

\* A dispatch keeps them too.
LEMMA EffectKeeps ==
    ASSUME NEW op, Fits(op), NEW target, NEW v, WeightsHeld(buf, v),
           \A b \in Buffers : IsABag(buf[b])
    PROVE  /\ WeightsHeld(Effect(buf, op, target), v)
           /\ \A b \in Buffers : IsABag(Effect(buf, op, target)[b])
<1> DEFINE E == Effect(buf, op, target)
<1>1. /\ Len(op.srv) \in 1 .. 4 /\ DOMAIN op.srv = 1 .. Len(op.srv)
      /\ Len(op.uav) \in 1 .. 3 /\ DOMAIN op.uav = 1 .. Len(op.uav)
      /\ \A j \in 1 .. Len(op.srv) : op.srv[j] \in Buffers \cup {Null}
      /\ \A k \in 1 .. Len(op.uav) : op.uav[k] \in WorkingBuffers \cup Gradients \cup {Null}
  BY FitsLens
<1>2. \A b \in Buffers : IsABag(Zeroed(buf, op.zero)[b])
  BY ZeroIsNone, BagOf DEF Zeroed
<1>3. \A b \in Buffers \cup {Null} : IsABag(Held(Zeroed(buf, op.zero), b))
  BY <1>2, BagOf DEF Held, Only
<1>4. \A k \in 1 .. Len(op.srv) : IsABag(Inputs(buf, op)[k])
  BY <1>1, <1>3 DEF Inputs
<1>5. \A k \in 1 .. Len(op.uav) : IsABag(Outputs(buf, op)[k])
  BY <1>1, <1>3 DEF Outputs, Buffers
<1>6. \A k \in 1 .. Len(op.uav) : IsABag(Results(buf, op, target)[k])
  BY <1>4, <1>5, ResultBags DEF Fits, Results
<1>7. ASSUME NEW b \in Buffers PROVE IsABag(E[b])
  <2>1. CASE \E k \in DOMAIN op.uav : op.uav[k] = b
    BY <2>1, EffectAt, <1>6, <1>1
  <2>2. CASE \A k \in DOMAIN op.uav : op.uav[k] # b
    <3>1. E[b] = IF b \in op.zero THEN Zero ELSE buf[b]
      BY <2>2, EffectAt
    <3> QED BY <3>1, ZeroIsNone, BagOf
  <2> QED BY <2>1, <2>2
<1>8. ASSUME NEW q \in Params PROVE E[W(q[1], q[2])] = WeightAt(q, v)
  <2> PICK b : b = W(q[1], q[2])
    OBVIOUS
  <2>1. b \in Weights /\ b \in Buffers /\ buf[b] = WeightAt(q, v)
    BY BufferNames DEF Buffers, WeightsHeld
  <2>2. b \notin op.zero /\ b # Null /\ b \notin WorkingBuffers /\ b \notin Gradients
    BY <2>1, BufferNames DEF Fits
  <2>3. \A k \in DOMAIN op.uav : op.uav[k] # b
    BY <2>2, <1>1
  <2>4. E[b] = IF b \in op.zero THEN Zero ELSE buf[b]
    BY <2>1, <2>3, EffectAt
  <2> QED BY <2>1, <2>2, <2>4
<1> QED BY <1>7, <1>8, Zenon DEF WeightsHeld

\* The loop invariant, action by action.
LEMMA LoopInit == Init => LoopInv
<1> HAVE Init
<1>1. /\ buf = [b \in Buffers |-> CASE b \in Weights -> WeightAt(<<b[2], b[3]>>, 0)
                                     [] b \in Gradients -> Zero
                                     [] OTHER -> Only(Unknown)]
      /\ \A b \in Weights : b \notin Gradients
  BY BufferNames DEF Init
<1>2. ASSUME NEW b \in Buffers
      PROVE  /\ b \in Weights => buf[b] = WeightAt(<<b[2], b[3]>>, 0)
             /\ b \in Gradients => buf[b] = Zero
             /\ b \notin Weights /\ b \notin Gradients => buf[b] = Only(Unknown)
  BY <1>1, BufferNames
<1>3. \A q \in Params : buf[W(q[1], q[2])] = WeightAt(q, 0)
  <2> TAKE q \in Params
  <2> PICK b : b = W(q[1], q[2])
    OBVIOUS
  <2>1. b \in Weights /\ b \in Buffers /\ b[2] = q[1] /\ b[3] = q[2]
    BY BufferNames DEF Buffers, W
  <2>2. buf[b] = WeightAt(<<b[2], b[3]>>, 0)
    BY <2>1, <1>2
  <2> QED BY <2>1, <2>2 DEF WeightAt
<1>4. \A b \in Buffers : IsABag(buf[b])
  <2> TAKE b \in Buffers
  <2>1. CASE b \in Weights
    BY <2>1, <1>2, BagOf DEF WeightAt, Only
  <2>2. CASE b \in Gradients
    BY <2>2, <1>2, ZeroIsNone, BagOf
  <2>3. CASE b \notin Weights /\ b \notin Gradients
    BY <2>3, <1>2, BagOf DEF Only
  <2> QED BY <2>1, <2>2, <2>3
<1>5. order \in Bijection(0 .. NSeq - 1, 0 .. NSeq - 1)
  BY DEF Init, Bijection, Injection, Surjection, IsInjective
<1>6. buf = [b \in Buffers |-> buf[b]]
  BY <1>1
<1>7. Unbound \in [Registers -> Buffers \cup {Null}]
  BY DEF Unbound
<1>8. End \in Places /\ Ops(End) = <<>>
  BY DEF End, Places, Place, Ops
<1>9. TypeOK
  BY <1>4, <1>7, <1>8, Parameters DEF TypeOK, Init
<1>10. batch \in Seq(0 .. NSeq - 1) /\ Len(batch) <= BatchSize /\ Distinct(batch)
  BY Parameters DEF Init, Distinct
<1> QED BY <1>3, <1>5, <1>6, <1>8, <1>9, <1>10 DEF LoopInv, WeightsHeld, Init

\* The conjuncts of the invariant that a step of the loop leaves alone.
LEMMA LoopFacts ==
    LoopInv =>
        /\ s \in Nat /\ s <= MaxSteps /\ step \in Nat /\ step <= MaxSteps
        /\ age \in Nat /\ age <= step /\ i \in Nat /\ i >= 1 /\ i <= BatchSize + 1
        /\ Len(batch) \in Nat /\ Len(batch) <= BatchSize
        /\ Len(Ops(End)) = 0
BY Parameters DEF LoopInv, TypeOK, Ops, End, Place

LEMMA LoopNextBatch == LoopInv /\ NextBatch => LoopInv'
<1> HAVE LoopInv /\ NextBatch
<1>1. order' \in Bijection(0 .. NSeq - 1, 0 .. NSeq - 1)
  BY DEF NextBatch, LoopInv
<1>2. /\ batch' = Draw(order') /\ s \in Nat
      /\ buf' = [b \in Buffers |-> IF b \in ZeroedByStep THEN Zero ELSE buf[b]]
  BY LoopFacts DEF NextBatch, Cleared
<1>3. batch' \in Seq(0 .. NSeq - 1) /\ Len(batch') <= BatchSize /\ Distinct(batch')
  BY <1>1, <1>2, DrawDistinct
<1>4. ZeroedByStep \subseteq WorkingBuffers \cup Gradients
  BY SharedBuffers DEF ZeroedByStep, Shared
<1>5. WeightsHeld(buf', step) /\ \A b \in Buffers : IsABag(buf'[b])
  BY <1>2, <1>4, ClearKeeps DEF LoopInv, TypeOK
<1>6. TypeOK'
  BY <1>5, Parameters DEF LoopInv, TypeOK, NextBatch, fileVars
<1>7. Len(batch') \in Nat
  BY <1>3
<1> QED BY <1>1, <1>2, <1>3, <1>5, <1>6, <1>7, LoopFacts DEF LoopInv, NextBatch, fileVars

LEMMA LoopSkip == LoopInv /\ SkipSequence => LoopInv'
<1> HAVE LoopInv /\ SkipSequence
<1>1. i' \in 1 .. (BatchSize + 1) /\ i' <= Len(batch) + 1
  BY LoopFacts, Parameters DEF SkipSequence
<1>2. /\ buf' = buf /\ srv' = srv /\ uav' = uav /\ step' = step /\ s' = s /\ length' = length
      /\ order' = order /\ batch' = batch /\ cpuW' = cpuW /\ age' = age /\ at' = at /\ pc' = pc
      /\ phase' = phase
  BY DEF SkipSequence, gpuVars, loopVars, fileVars
<1>3. TypeOK'
  BY <1>1, <1>2 DEF LoopInv, TypeOK
<1> QED BY <1>3, <1>1, <1>2 DEF LoopInv, SkipSequence, WeightsHeld

LEMMA LoopStart == LoopInv /\ StartSequence => LoopInv'
<1> HAVE LoopInv /\ StartSequence
<1>1. Tmp("tokens") \in Buffers /\ Tmp("tokens") \in WorkingBuffers
  BY SharedBuffers DEF Shared
<1>2. IsABag(Uploaded)
  <2>1. IsABag(Tokens(CurrentPass)) /\ IsABag(buf[Tmp("tokens")])
    BY <1>1, BagOf DEF Tokens, Tensor, Only, LoopInv, TypeOK
  <2> QED BY <2>1 DEF Uploaded
<1>3. \A b \in Buffers : buf'[b] = IF b = Tmp("tokens") THEN Uploaded ELSE buf[b]
  BY DEF StartSequence, LoopInv
<1>4. buf' = [b \in Buffers |-> buf'[b]]
  BY DEF StartSequence, LoopInv
<1>5. WeightsHeld(buf', step)
  <2> SUFFICES ASSUME NEW q \in Params PROVE buf'[W(q[1], q[2])] = WeightAt(q, step)
    BY DEF WeightsHeld
  <2>1. W(q[1], q[2]) \in Buffers /\ W(q[1], q[2]) # Tmp("tokens")
    BY BufferNames, <1>1 DEF Buffers
  <2> QED BY <2>1, <1>3 DEF LoopInv, WeightsHeld
<1>6. Start \in Places /\ Start # End /\ Len(Ops(Start)) = 1
  BY FitsOf_embed DEF Start, Places, Place, End
<1>7. TypeOK'
  BY <1>2, <1>3, <1>6, LoopFacts DEF LoopInv, TypeOK, StartSequence, loopVars, fileVars
<1> QED BY <1>4, <1>5, <1>6, <1>7, LoopFacts DEF LoopInv, StartSequence, loopVars, fileVars

LEMMA LoopDispatch == LoopInv /\ Dispatch => LoopInv'
<1> HAVE LoopInv /\ Dispatch
<1>1. at \in Places /\ at # End /\ pc \in 1 .. Len(Ops(at)) /\ Len(Ops(at)) >= 1
  <2>1. at \in Places /\ at # End /\ pc <= Len(Ops(at)) /\ pc \in 1 .. (Len(Ops(at)) + 1)
    BY DEF Dispatch, LoopInv, TypeOK
  <2>2. Len(Ops(at)) >= 1
    BY <2>1, PlaceAfter
  <2> QED BY <2>1, <2>2
<1>2. Fits(Ops(at)[pc])
  BY <1>1, AllFit
<1> PICK op, target : op = Ops(at)[pc] /\ target = Tokens(CurrentPass)
  OBVIOUS
<1>3. buf' = Effect(buf, op, target) /\ srv' = Unbound /\ uav' = Unbound
  BY <1>2, PerformEffect DEF Dispatch, LoopInv
<1>4. WeightsHeld(buf', step) /\ \A b \in Buffers : IsABag(buf'[b])
  BY <1>2, <1>3, EffectKeeps DEF LoopInv, TypeOK
<1>5. buf' = [b \in Buffers |-> buf'[b]]
  BY <1>3 DEF Effect
<1>6. /\ at' \in Places /\ pc' \in 1 .. (Len(Ops(at')) + 1)
      /\ at' # End => pc' <= Len(Ops(at'))
  <2>1. CASE pc < Len(Ops(at))
    BY <2>1, <1>1 DEF Dispatch, LoopInv, TypeOK
  <2>2. CASE ~(pc < Len(Ops(at)))
    <3>1. at' = After(at) /\ pc' = 1 /\ at' \in Places
      BY <2>2, <1>1, PlaceAfter DEF Dispatch
    <3>2. Len(Ops(at')) >= 0 /\ (at' # End => Len(Ops(at')) >= 1)
      BY <3>1, <1>1, PlaceAfter, LoopFacts
    <3> QED BY <3>1, <3>2, <1>1, PlaceAfter
  <2> QED BY <2>1, <2>2
<1>7. TypeOK'
  BY <1>3, <1>4, <1>6 DEF LoopInv, TypeOK, Dispatch, loopVars, fileVars, Unbound
<1> QED BY <1>3, <1>4, <1>5, <1>6, <1>7 DEF LoopInv, Dispatch, loopVars, fileVars

LEMMA LoopEndSequence == LoopInv /\ EndSequence => LoopInv'
<1> HAVE LoopInv /\ EndSequence
<1>1. i' \in 1 .. (BatchSize + 1) /\ i' <= Len(batch) + 1
  BY LoopFacts, Parameters DEF EndSequence, LoopInv
<1>2. /\ buf' = buf /\ srv' = srv /\ uav' = uav /\ step' = step /\ s' = s /\ length' = length
      /\ order' = order /\ batch' = batch /\ cpuW' = cpuW /\ age' = age /\ at' = at /\ pc' = pc
      /\ phase' = "sequence"
  BY DEF EndSequence, gpuVars, loopVars, fileVars
<1>3. TypeOK'
  BY <1>1, <1>2 DEF LoopInv, TypeOK
<1> QED BY <1>3, <1>1, <1>2 DEF LoopInv, EndSequence, WeightsHeld

LEMMA LoopAdam == LoopInv /\ AdamStep => LoopInv'
<1> HAVE LoopInv /\ AdamStep
<1>1. buf' = [b \in Buffers |-> CASE b \in Gradients -> Zero
                                   [] b \in Weights -> WeightAt(<<b[2], b[3]>>, step + 1)
                                   [] OTHER -> buf[b]]
  BY DEF AdamStep
<1>2. ASSUME NEW b \in Buffers
      PROVE  /\ b \in Weights => buf'[b] = WeightAt(<<b[2], b[3]>>, step + 1)
             /\ b \in Gradients => buf'[b] = Zero
             /\ b \notin Weights /\ b \notin Gradients => buf'[b] = buf[b]
  BY <1>1, BufferNames
<1>3. WeightsHeld(buf', step + 1)
  <2> SUFFICES ASSUME NEW q \in Params PROVE buf'[W(q[1], q[2])] = WeightAt(q, step + 1)
    BY DEF WeightsHeld
  <2> PICK b : b = W(q[1], q[2])
    OBVIOUS
  <2>1. b \in Weights /\ b \in Buffers /\ b[2] = q[1] /\ b[3] = q[2]
    BY BufferNames DEF Buffers, W
  <2>2. buf'[b] = WeightAt(<<b[2], b[3]>>, step + 1)
    BY <2>1, <1>2
  <2> QED BY <2>1, <2>2 DEF WeightAt
<1>4. \A b \in Buffers : IsABag(buf'[b])
  <2> TAKE b \in Buffers
  <2>1. CASE b \in Weights
    BY <2>1, <1>2, BagOf DEF WeightAt, Only
  <2>2. CASE b \in Gradients
    BY <2>2, <1>2, ZeroIsNone, BagOf
  <2>3. CASE b \notin Weights /\ b \notin Gradients
    BY <2>3, <1>2 DEF LoopInv, TypeOK
  <2> QED BY <2>1, <2>2, <2>3
<1>5. srv' = Unbound /\ uav' = Unbound
  BY DEF AdamStep, LoopInv, Conflicting, Unbound
<1>6. Unbound \in [Registers -> Buffers \cup {Null}]
  BY DEF Unbound
<1>7. /\ s' = s /\ length' = length /\ order' = order /\ batch' = batch /\ cpuW' = cpuW
      /\ at' = at /\ pc' = pc /\ i' = i /\ phase' = "stepped" /\ step' = step + 1
           /\ age' = age + 1
      /\ step = s /\ s < MaxSteps
  BY DEF AdamStep, LoopInv, Counted
<1>8. step' \in 0 .. MaxSteps /\ age' \in 0 .. step'
  BY <1>7, LoopFacts, Parameters
<1>9. TypeOK'
  BY <1>4, <1>5, <1>6, <1>7, <1>8 DEF LoopInv, TypeOK
<1>10. buf' = [b \in Buffers |-> buf'[b]]
  BY <1>1
<1> QED BY <1>3, <1>5, <1>7, <1>8, <1>9, <1>10 DEF LoopInv

\* A save reads back the version of the last step, for every parameter.
LEMMA SaveIs ==
    ASSUME LoopInv, Save
    PROVE  /\ cpuW' = [p \in Params |-> step] /\ saved' = [p \in Params |-> step] /\ age' = 0
           /\ WeightsHeld(buf', step) /\ \A b \in Buffers : IsABag(buf'[b])
           /\ buf' = [b \in Buffers |-> buf'[b]]
<1>1. \A p \in Params : Version(p) = step
  BY VersionIs DEF LoopInv
<1>2. cpuW' = [p \in Params |-> step] /\ saved' = [p \in Params |-> step] /\ age' = 0
  BY <1>1 DEF Save
<1>3. buf' = [b \in Buffers |-> IF b \in Gradients THEN Zero ELSE buf[b]]
  BY DEF Save, Cleared
<1>4. WeightsHeld(buf', step) /\ \A b \in Buffers : IsABag(buf'[b])
  BY <1>3, ClearKeeps DEF LoopInv, TypeOK
<1> QED BY <1>2, <1>3, <1>4

LEMMA LoopEndStep == LoopInv /\ EndStep => LoopInv'
<1> HAVE LoopInv /\ EndStep
<1>1. /\ srv' = srv /\ uav' = uav /\ step' = step /\ length' = length /\ order' = order
      /\ batch' = batch /\ at' = at /\ pc' = pc /\ i' = i /\ phase' = "loop" /\ s' = s + 1
      /\ step = s + 1
  BY DEF EndStep, LoopInv
<1>2. s' \in 0 .. MaxSteps
  BY <1>1, LoopFacts, Parameters
<1>3. /\ age' \in 0 .. step /\ cpuW' \in [Params -> 0 .. MaxSteps]
      /\ WeightsHeld(buf', step) /\ \A b \in Buffers : IsABag(buf'[b])
      /\ buf' = [b \in Buffers |-> buf'[b]]
  <2>1. CASE step % SaveEvery = 0
    <3>1. Save
      BY <2>1 DEF EndStep
    <3> QED BY <3>1, SaveIs, LoopFacts, Parameters
  <2>2. CASE step % SaveEvery # 0
    <3>1. cpuW' = cpuW /\ age' = age /\ buf' = buf
      BY <2>2 DEF EndStep
    <3> QED BY <3>1 DEF LoopInv, TypeOK
  <2> QED BY <2>1, <2>2
<1>4. TypeOK'
  BY <1>1, <1>2, <1>3 DEF LoopInv, TypeOK
<1> QED BY <1>1, <1>3, <1>4 DEF LoopInv

LEMMA LoopFinish == LoopInv /\ Finish => LoopInv'
<1> HAVE LoopInv /\ Finish
<1>1. /\ srv' = srv /\ uav' = uav /\ step' = step /\ length' = length /\ order' = order
      /\ batch' = batch /\ at' = at /\ pc' = pc /\ i' = i /\ phase' = "done" /\ s' = s
      /\ phase = "loop" /\ Save
  BY DEF Finish, loopVars
<1>2. /\ age' \in 0 .. step /\ cpuW' \in [Params -> 0 .. MaxSteps]
      /\ WeightsHeld(buf', step) /\ \A b \in Buffers : IsABag(buf'[b])
      /\ buf' = [b \in Buffers |-> buf'[b]]
  BY <1>1, SaveIs, LoopFacts, Parameters
<1>3. TypeOK'
  BY <1>1, <1>2 DEF LoopInv, TypeOK
<1> QED BY <1>1, <1>2, <1>3 DEF LoopInv

LEMMA LoopStep == LoopInv /\ [Next]_vars => LoopInv'
<1> SUFFICES ASSUME LoopInv, [Next]_vars PROVE LoopInv'
  OBVIOUS
<1>1. CASE UNCHANGED vars
  <2>1. TypeOK'
    BY <1>1 DEF LoopInv, TypeOK, vars, NoInputDropped
  <2> QED BY <1>1, <2>1 DEF LoopInv, vars, WeightsHeld
<1> QED BY <1>1, LoopNextBatch, LoopSkip, LoopStart, LoopDispatch, LoopEndSequence, LoopAdam,
           LoopEndStep, LoopFinish DEF Next

\* The loop invariant holds throughout.
LEMMA LoopHolds == Spec => []LoopInv
BY LoopInit, LoopStep, PTL DEF Spec

-----------------------------------------------------------------------------
(* The file                                                                  *)

\* Steps that leave the file and its step alone.
LEMMA SaveKept ==
    ASSUME SaveInv, LoopInv, saved' = saved, step' = step, phase # "done", phase' # "done",
           phase = "stepped" => phase' = "stepped"
    PROVE  SaveInv'
<1>1. CASE saved = <<>>
  BY <1>1 DEF SaveInv
<1>2. CASE saved # <<>>
  <2>1. PICK v \in 0 .. step :
           /\ saved = [q \in Params |-> v]
           /\ v % SaveEvery = 0
           /\ step < v + SaveEvery \/ (phase = "stepped" /\ step = v + SaveEvery)
    BY <1>2 DEF SaveInv
  <2> QED BY <2>1 DEF SaveInv
<1> QED BY <1>1, <1>2

\* Each step keeps the invariant of the file.
LEMMA SaveStep == SaveInv /\ LoopInv /\ [Next]_vars => SaveInv'
<1> SUFFICES ASSUME SaveInv, LoopInv, [Next]_vars PROVE SaveInv'
  OBVIOUS
<1>1. CASE NextBatch
  BY <1>1, SaveKept DEF NextBatch, fileVars
<1>2. CASE SkipSequence
  BY <1>2, SaveKept DEF SkipSequence, fileVars, loopVars
<1>3. CASE StartSequence
  BY <1>3, SaveKept DEF StartSequence, fileVars, loopVars
<1>4. CASE Dispatch
  BY <1>4, SaveKept DEF Dispatch, fileVars, loopVars
<1>5. CASE EndSequence
  BY <1>5, SaveKept DEF EndSequence, fileVars, loopVars
<1>6. CASE AdamStep
  <2>1. saved' = saved /\ step' = step + 1 /\ phase = "sequence" /\ phase' = "stepped"
    BY <1>6 DEF AdamStep, Counted
  <2>2. CASE saved = <<>>
    BY <2>1, <2>2 DEF SaveInv
  <2>3. CASE saved # <<>>
    <3>1. PICK v \in 0 .. step :
             saved = [q \in Params |-> v] /\ v % SaveEvery = 0 /\ step < v + SaveEvery
      BY <2>1, <2>3 DEF SaveInv
    <3>2. v \in 0 .. step + 1 /\ (step + 1 < v + SaveEvery \/ step + 1 = v + SaveEvery)
      BY <3>1, LoopFacts, Parameters
    <3> QED BY <3>1, <3>2, <2>1 DEF SaveInv
  <2> QED BY <2>2, <2>3
<1>7. CASE EndStep
  <2>1. phase = "stepped" /\ phase' = "loop" /\ step' = step
    BY <1>7 DEF EndStep
  <2>2. CASE step % SaveEvery = 0
    <3>1. saved' = [q \in Params |-> step]
      BY <1>7, <2>2, SaveIs DEF EndStep
    <3>2. step \in 0 .. step /\ step < step + SaveEvery
      BY LoopFacts, Parameters
    <3> QED BY <2>1, <2>2, <3>1, <3>2 DEF SaveInv
  <2>3. CASE step % SaveEvery # 0
    <3>1. saved' = saved
      BY <1>7, <2>3 DEF EndStep
    <3>2. CASE saved = <<>>
      BY <2>1, <3>1, <3>2 DEF SaveInv
    <3>3. CASE saved # <<>>
      <4>1. PICK v \in 0 .. step :
               /\ saved = [q \in Params |-> v] /\ v % SaveEvery = 0
               /\ step < v + SaveEvery \/ step = v + SaveEvery
        BY <2>1, <3>3 DEF SaveInv
      <4>2. ASSUME step = v + SaveEvery PROVE FALSE
        <5>1. v = SaveEvery * (v \div SaveEvery) /\ v \div SaveEvery \in Nat
          BY <4>1, DivMod, Parameters, LoopFacts
        <5> PICK d : d = v \div SaveEvery
          OBVIOUS
        <5>2. step = SaveEvery * (d + 1) + 0 /\ d + 1 \in Nat
          BY <5>1, <4>2, Parameters
        <5>3. (SaveEvery * (d + 1) + 0) % SaveEvery = 0
          BY <5>2, DivUnique, Parameters
        <5> QED BY <5>2, <5>3, <2>3
      <4> QED BY <4>1, <4>2, <2>1, <3>1 DEF SaveInv
    <3> QED BY <3>2, <3>3
  <2> QED BY <2>2, <2>3
<1>8. CASE Finish
  <2>1. saved' = [q \in Params |-> step] /\ phase' = "done" /\ step' = step
    BY <1>8, SaveIs DEF Finish, loopVars
  <2>2. saved' # <<>>
    <3>1. <<"wte", 0>> \in DOMAIN saved'
      BY <2>1, ParamNames DEF GlobalParams
    <3> QED BY <3>1
  <2> QED BY <2>1, <2>2, LoopFacts DEF SaveInv
<1>9. CASE UNCHANGED vars
  BY <1>9 DEF SaveInv, vars
<1> QED BY <1>1, <1>2, <1>3, <1>4, <1>5, <1>6, <1>7, <1>8, <1>9 DEF Next

\* Between two steps the file holds every tensor as one step left it, at most
\* SaveEvery - 1 steps ago, and after train() as the last step left it: the
\* save that syncWeightsToCPU (gpt2_trainer.cpp) prepares is of one version.
THEOREM SavesAreRecent == Spec => []SavedIsRecent
<1>1. Init => SaveInv
  BY DEF Init, SaveInv
<1>2. SaveInv /\ LoopInv => SavedIsRecent
  <2> HAVE SaveInv /\ LoopInv
  <2>1. ASSUME phase = "loop", saved # <<>>
        PROVE  \E v \in (step - SaveEvery + 1) .. step : \A p \in Params : saved[p] = v
    <3>1. PICK v \in 0 .. step : saved = [q \in Params |-> v] /\ step < v + SaveEvery
      BY <2>1 DEF SaveInv
    <3>2. v \in (step - SaveEvery + 1) .. step
      BY <3>1, LoopFacts, Parameters
    <3> QED BY <3>1, <3>2
  <2>2. ASSUME phase = "done" PROVE \A p \in Params : saved[p] = step
    BY <2>2 DEF SaveInv
  <2> QED BY <2>1, <2>2 DEF SavedIsRecent
<1> QED BY <1>1, <1>2, SaveStep, LoopHolds, PTL DEF Spec

-----------------------------------------------------------------------------
(* How often a sequence is used                                              *)

\* A batch is a window of the order: it has each position of it once.
LEMMA DrawnOnce ==
    ASSUME NEW idx \in Bijection(0 .. NSeq - 1, 0 .. NSeq - 1), s \in Nat,
           NEW k \in 0 .. NSeq - 1,
           NEW w, w = (s * BatchSize) % NSeq
    PROVE  Cardinality({j \in DOMAIN Draw(idx) : Draw(idx)[j] = idx[k]}) =
               IF \E j \in 1 .. Drawable : Position(w, j) = k THEN 1 ELSE 0
<1>1. /\ Drawable \in Nat /\ w \in 0 .. NSeq - 1
      /\ \A j \in 1 .. Drawable : Position(w, j) \in 0 .. NSeq - 1
      /\ Draw(idx) = [j \in 1 .. Drawable |-> idx[Position(w, j)]]
  BY DrawIs
<1>2. \A a, b \in 0 .. NSeq - 1 : idx[a] = idx[b] => a = b
  BY DEF Bijection, Injection, IsInjective
<1>3. {j \in DOMAIN Draw(idx) : Draw(idx)[j] = idx[k]} = {j \in 1 .. Drawable : Position(w, j)
          = k}
  BY <1>1, <1>2
<1>4. CASE \E j \in 1 .. Drawable : Position(w, j) = k
  <2>1. PICK j \in 1 .. Drawable : Position(w, j) = k
    BY <1>4
  <2>2. {h \in 1 .. Drawable : Position(w, h) = k} = {j}
    BY <2>1, <1>1, PositionsDiffer
  <2>3. Cardinality({j}) = 1
    BY FS_Singleton
  <2> QED BY <1>3, <1>4, <2>2, <2>3
<1>5. CASE ~\E j \in 1 .. Drawable : Position(w, j) = k
  <2>1. {h \in 1 .. Drawable : Position(w, h) = k} = {}
    BY <1>5
  <2>2. Cardinality({}) = 0
    BY FS_EmptySet
  <2> QED BY <1>3, <1>5, <2>1, <2>2
<1> QED BY <1>4, <1>5

\* Drawing the n places from p on moves the window from a to b.
Moves(a, b, n, p) ==
    \E e \in {0, 1} : \A k \in 0 .. NSeq - 1 :
        (IF k < a THEN 1 ELSE 0) + (IF \E j \in 1 .. n : Position(p, j) = k THEN 1 ELSE 0)
        = e + (IF k < b THEN 1 ELSE 0)

\* The window moves on by a batch, around the ring.
LEMMA WindowMoves ==
    ASSUME s \in Nat
    PROVE  /\ Window(s) \in 0 .. NSeq - 1 /\ Window(s + 1) \in 0 .. NSeq - 1
           /\ s % NSeq = 0 => Window(s) = 0
           /\ Moves(Window(s), Window(s + 1), Drawable, (s * BatchSize) % NSeq)
<1> PICK x, w : x = s * BatchSize /\ w = x % NSeq
  OBVIOUS
<1>1. x \in Nat /\ (s + 1) * BatchSize = x + BatchSize
  BY Parameters
<1>2. w \in 0 .. NSeq - 1
  BY <1>1, DivMod, Parameters
<1>3. ASSUME s % NSeq = 0 PROVE w = 0
  <2> PICK d : d = s \div NSeq
    OBVIOUS
  <2>1. d \in Nat /\ s = NSeq * d
    BY <1>3, DivMod, Parameters
  <2>2. x = NSeq * (d * BatchSize) + 0 /\ d * BatchSize \in Nat
    BY <2>1, Parameters
  <2>3. (NSeq * (d * BatchSize) + 0) % NSeq = 0
    BY <2>2, DivUnique, Parameters
  <2> QED BY <2>2, <2>3
<1>4. CASE BatchSize < NSeq
  <2>1. Window(s) = w /\ Window(s + 1) = (x + BatchSize) % NSeq /\ Drawable = BatchSize
    BY <1>1, <1>4 DEF Window, Drawable
  <2>2. (x + BatchSize) % NSeq = IF w + BatchSize < NSeq THEN w + BatchSize
            ELSE w + BatchSize - NSeq
    BY <1>1, <1>4, RingStep, Parameters
  <2>3. CASE w + BatchSize < NSeq
    <3>1. ASSUME NEW k \in 0 .. NSeq - 1
          PROVE  (\E j \in 1 .. BatchSize : Position(w, j) = k)
                     <=> (w <= k /\ k < w + BatchSize)
      <4>1. \A j \in 1 .. BatchSize : Position(w, j) = w + j - 1
        BY <2>3, <1>2, Parameters DEF Position
      <4>2. ASSUME w <= k, k < w + BatchSize PROVE k - w + 1 \in 1 .. BatchSize
                   /\ w + (k - w + 1) - 1 = k
        BY <4>2, <1>2, Parameters
      <4>3. \A j \in 1 .. BatchSize : w + j - 1 = k => w <= k /\ k < w + BatchSize
        BY <1>2, Parameters
      <4> QED BY <4>1, <4>2, <4>3
    <3>2. \A k \in 0 .. NSeq - 1 :
             (IF k < w THEN 1 ELSE 0) + (IF \E j \in 1 .. BatchSize : Position(w, j) = k THEN 1
                 ELSE 0)
             = 0 + (IF k < w + BatchSize THEN 1 ELSE 0)
      BY <3>1, <1>2, Parameters
    <3>3. /\ Window(s) = w /\ Window(s + 1) = w + BatchSize /\ Drawable = BatchSize
          /\ (s * BatchSize) % NSeq = w /\ w + BatchSize \in 0 .. NSeq - 1
      BY <2>1, <2>2, <2>3, <1>2, Parameters
    <3>4. Moves(w, w + BatchSize, BatchSize, w)
      BY <3>2 DEF Moves
    <3> QED BY <3>3, <3>4, <1>2, <1>3
  <2>4. CASE ~(w + BatchSize < NSeq)
    <3>1. ASSUME NEW k \in 0 .. NSeq - 1
          PROVE  (\E j \in 1 .. BatchSize : Position(w, j) = k)
                     <=> (w <= k \/ k < w + BatchSize - NSeq)
      <4>1. \A j \in 1 .. BatchSize :
               Position(w, j) = IF w + j - 1 < NSeq THEN w + j - 1 ELSE w + j - 1 - NSeq
        BY DEF Position
      <4>2. ASSUME w <= k PROVE k - w + 1 \in 1 .. BatchSize /\ Position(w, k - w + 1) = k
        <5>1. k - w + 1 \in 1 .. BatchSize /\ w + (k - w + 1) - 1 = k
          BY <4>2, <2>4, <1>2, Parameters
        <5> PICK j : j = k - w + 1
          OBVIOUS
        <5> QED BY <5>1, <4>1, <1>2, Parameters
      <4>3. ASSUME k < w + BatchSize - NSeq
            PROVE  k - w + 1 + NSeq \in 1 .. BatchSize /\ Position(w, k - w + 1 + NSeq) = k
        <5>1. /\ k - w + 1 + NSeq \in 1 .. BatchSize /\ w + (k - w + 1 + NSeq) - 1 = k + NSeq
              /\ ~(k + NSeq < NSeq) /\ k + NSeq - NSeq = k
          BY <4>3, <2>4, <1>2, <1>4, Parameters
        <5> PICK j : j = k - w + 1 + NSeq
          OBVIOUS
        <5>2. j \in 1 .. BatchSize /\ Position(w, j) = IF k + NSeq < NSeq THEN k + NSeq
                  ELSE k + NSeq - NSeq
          BY <5>1, <4>1, <1>2, Parameters
        <5> QED BY <5>1, <5>2
      <4>4. \A j \in 1 .. BatchSize : Position(w, j) = k => w <= k \/ k < w + BatchSize - NSeq
        BY <4>1, <1>2, Parameters
      <4> QED BY <4>2, <4>3, <4>4
    <3>2. \A k \in 0 .. NSeq - 1 :
             (IF k < w THEN 1 ELSE 0) + (IF \E j \in 1 .. BatchSize : Position(w, j) = k THEN 1
                 ELSE 0)
             = 1 + (IF k < w + BatchSize - NSeq THEN 1 ELSE 0)
      BY <3>1, <1>2, <1>4, Parameters
    <3>3. /\ Window(s) = w /\ Window(s + 1) = w + BatchSize - NSeq /\ Drawable = BatchSize
          /\ (s * BatchSize) % NSeq = w /\ w + BatchSize - NSeq \in 0 .. NSeq - 1
      BY <2>1, <2>2, <2>4, <1>2, <1>4, Parameters
    <3>4. Moves(w, w + BatchSize - NSeq, BatchSize, w)
      BY <3>2 DEF Moves
    <3> QED BY <3>3, <3>4, <1>2, <1>3
  <2> QED BY <2>3, <2>4
<1>5. CASE ~(BatchSize < NSeq)
  <2>1. Window(s) = 0 /\ Window(s + 1) = 0 /\ Drawable = NSeq
    BY <1>5 DEF Window, Drawable
  <2>2. ASSUME NEW k \in 0 .. NSeq - 1 PROVE \E j \in 1 .. NSeq : Position(w, j) = k
    <3>1. CASE k >= w
      <4>1. k - w + 1 \in 1 .. NSeq /\ w + (k - w + 1) - 1 = k
        BY <3>1, <1>2, Parameters
      <4> PICK j : j = k - w + 1
        OBVIOUS
      <4>2. j \in 1 .. NSeq /\ Position(w, j) = IF k < NSeq THEN k ELSE k - NSeq
        BY <4>1, <1>2, Parameters DEF Position
      <4> QED BY <4>2, Parameters
    <3>2. CASE k < w
      <4>1. /\ k - w + 1 + NSeq \in 1 .. NSeq /\ w + (k - w + 1 + NSeq) - 1 = k + NSeq
            /\ ~(k + NSeq < NSeq) /\ k + NSeq - NSeq = k
        BY <3>2, <1>2, Parameters
      <4> PICK j : j = k - w + 1 + NSeq
        OBVIOUS
      <4>2. j \in 1 .. NSeq /\ Position(w, j) = IF k + NSeq < NSeq THEN k + NSeq
                ELSE k + NSeq - NSeq
        BY <4>1, <1>2, Parameters DEF Position
      <4> QED BY <4>1, <4>2
    <3> QED BY <3>1, <3>2, <1>2, Parameters
  <2>3. Moves(0, 0, NSeq, w)
    BY <2>2, Parameters DEF Moves
  <2> QED BY <2>1, <2>3, Parameters
<1> QED BY <1>4, <1>5

\* Each step keeps the invariant of the counts.
LEMMA DrawStep == DrawInv /\ LoopInv /\ [Next]_vars => DrawInv'
<1> SUFFICES ASSUME DrawInv, LoopInv, [Next]_vars PROVE DrawInv'
  OBVIOUS
<1>1. CASE NextBatch
  <2>1. /\ s \in Nat /\ s' = s /\ phase = "loop" /\ phase' = "sequence"
        /\ order' \in Bijection(0 .. NSeq - 1, 0 .. NSeq - 1)
        /\ order \in Bijection(0 .. NSeq - 1, 0 .. NSeq - 1)
        /\ batch' = Draw(order')
        /\ s % NSeq = 0 \/ order' = order
        /\ drawn' = [q \in 0 .. NSeq - 1 |->
                        drawn[q] + Cardinality({k \in DOMAIN batch' : batch'[k] = q})]
    BY <1>1, LoopFacts DEF NextBatch, LoopInv
  <2>2. PICK d \in Nat : \A k \in 0 .. NSeq - 1 :
           drawn[order[k]] = d + IF k < Window(s) THEN 1 ELSE 0
    BY <2>1 DEF DrawInv
  <2>3. PICK e \in {0, 1} : \A k \in 0 .. NSeq - 1 :
           (IF k < Window(s) THEN 1 ELSE 0)
           + (IF \E j \in 1 .. Drawable : Position((s * BatchSize) % NSeq, j) = k THEN 1 ELSE 0)
           = e + (IF k < Window(s + 1) THEN 1 ELSE 0)
    BY <2>1, WindowMoves DEF Moves
  <2>4. \A k \in 0 .. NSeq - 1 : drawn[order'[k]] = d + IF k < Window(s) THEN 1 ELSE 0
    <3>1. CASE order' = order
      BY <3>1, <2>2
    <3>2. CASE s % NSeq = 0
      <4>1. Window(s) = 0
        BY <3>2, <2>1, WindowMoves
      <4>2. \A q \in 0 .. NSeq - 1 : drawn[q] = d
        <5> TAKE q \in 0 .. NSeq - 1
        <5>1. PICK k \in 0 .. NSeq - 1 : order[k] = q
          BY <2>1 DEF Bijection, Surjection
        <5> QED BY <5>1, <2>2, <4>1, Parameters
      <4>3. \A k \in 0 .. NSeq - 1 : order'[k] \in 0 .. NSeq - 1
        BY <2>1 DEF Bijection, Injection
      <4> QED BY <4>1, <4>2, <4>3, Parameters
    <3> QED BY <3>1, <3>2, <2>1
  <2>5. \A k \in 0 .. NSeq - 1 : drawn'[order'[k]] = (d + e) + IF k < Window(s + 1) THEN 1
            ELSE 0
    <3> TAKE k \in 0 .. NSeq - 1
    <3>1. order'[k] \in 0 .. NSeq - 1
      BY <2>1 DEF Bijection, Injection
    <3>2. drawn'[order'[k]]
             = drawn[order'[k]] + Cardinality({j \in DOMAIN batch' : batch'[j] = order'[k]})
      BY <2>1, <3>1
    <3>3. Cardinality({j \in DOMAIN batch' : batch'[j] = order'[k]})
             = IF \E j \in 1 .. Drawable : Position((s * BatchSize) % NSeq, j) = k THEN 1 ELSE 0
      <4> PICK idx : idx = order'
        OBVIOUS
      <4>1. Cardinality({j \in DOMAIN Draw(idx) : Draw(idx)[j] = idx[k]})
               = IF \E j \in 1 .. Drawable : Position((s * BatchSize) % NSeq, j) = k THEN 1
                   ELSE 0
        BY <2>1, DrawnOnce
      <4> QED BY <4>1, <2>1
    <3> PICK a, b, c : /\ a = IF k < Window(s) THEN 1 ELSE 0
                       /\ b = IF \E j \in 1 .. Drawable : Position((s * BatchSize) % NSeq, j)
                            = k THEN 1 ELSE 0
                       /\ c = IF k < Window(s + 1) THEN 1 ELSE 0
      OBVIOUS
    <3>4. a + b = e + c
      BY <2>3
    <3>5. drawn[order'[k]] = d + a /\ drawn'[order'[k]] = drawn[order'[k]] + b
      BY <2>4, <3>2, <3>3
    <3>6. a \in Nat /\ b \in Nat /\ c \in Nat /\ d \in Nat /\ e \in Nat
      OBVIOUS
    <3>7. drawn'[order'[k]] = (d + e) + c
      BY <3>4, <3>5, <3>6
    <3> QED BY <3>7
  <2>6. d + e \in Nat /\ drawn' = [q \in 0 .. NSeq - 1 |-> drawn'[q]]
    BY <2>1
  <2>7. \E c \in Nat : \A k \in 0 .. NSeq - 1 :
           drawn'[order'[k]] = c + IF k < Window(s + 1) THEN 1 ELSE 0
    BY <2>5, <2>6
  <2>8. (IF phase' \in {"loop", "done"} THEN s' ELSE s' + 1) = s + 1
    BY <2>1
  <2> QED BY <2>6, <2>7, <2>8, Zenon DEF DrawInv, Window
<1>2. ASSUME drawn' = drawn, order' = order, s' = s, (phase \in {"loop", "done"})
             <=> (phase' \in {"loop", "done"})
      PROVE  DrawInv'
  BY <1>2 DEF DrawInv, Window
<1>3. CASE SkipSequence
  BY <1>3, <1>2 DEF SkipSequence, loopVars
<1>4. CASE StartSequence
  BY <1>4, <1>2 DEF StartSequence, loopVars
<1>5. CASE Dispatch
  BY <1>5, <1>2 DEF Dispatch, loopVars
<1>6. CASE EndSequence
  BY <1>6, <1>2 DEF EndSequence, loopVars
<1>7. CASE AdamStep
  BY <1>7, <1>2 DEF AdamStep
<1>8. CASE EndStep
  <2>1. drawn' = drawn /\ order' = order /\ s' = s + 1 /\ phase = "stepped" /\ phase' = "loop"
    BY <1>8 DEF EndStep
  <2> QED BY <2>1 DEF DrawInv, Window
<1>9. CASE Finish
  BY <1>9, <1>2 DEF Finish, loopVars
<1>10. CASE UNCHANGED vars
  BY <1>10, <1>2 DEF vars
<1> QED BY <1>1, <1>3, <1>4, <1>5, <1>6, <1>7, <1>8, <1>9, <1>10 DEF Next

\* Whenever the order is drawn anew, every sequence of the file has been used
\* equally often, although a batch may wrap around the end of the order
\* (train in gpt2_trainer.cpp).
THEOREM CoverageIsEven == Spec => []EvenCoverage
<1>1. Init => DrawInv
  <2> HAVE Init
  <2>1. /\ drawn = [q \in 0 .. NSeq - 1 |-> 0] /\ order = [k \in 0 .. NSeq - 1 |-> k]
        /\ phase = "loop" /\ s = 0
    BY DEF Init
  <2>2. Window(0) = 0
    <3>1. (0 * BatchSize) % NSeq = 0
      <4>1. 0 * BatchSize = NSeq * 0 + 0 /\ (NSeq * 0 + 0) % NSeq = 0
        BY Parameters, DivUnique
      <4> QED BY <4>1
    <3> QED BY <3>1 DEF Window
  <2>3. \A k \in 0 .. NSeq - 1 : drawn[order[k]] = 0 + IF k < Window(0) THEN 1 ELSE 0
    BY <2>1, <2>2, Parameters
  <2>4. drawn = [q \in 0 .. NSeq - 1 |-> drawn[q]]
    BY <2>1
  <2> QED BY <2>1, <2>3, <2>4 DEF DrawInv
<1>2. DrawInv /\ LoopInv => EvenCoverage
  <2> SUFFICES ASSUME DrawInv, LoopInv, phase = "loop", s % NSeq = 0, NEW q \in DOMAIN drawn,
                      NEW r \in DOMAIN drawn
               PROVE  drawn[q] = drawn[r]
    BY DEF EvenCoverage
  <2>1. s \in Nat /\ Window(s) = 0
    BY LoopFacts, WindowMoves
  <2>2. PICK d \in Nat : \A k \in 0 .. NSeq - 1 : drawn[order[k]] = d + IF k < Window(s) THEN 1
            ELSE 0
    BY DEF DrawInv
  <2>3. q \in 0 .. NSeq - 1 /\ r \in 0 .. NSeq - 1
    BY DEF DrawInv
  <2>4. PICK k \in 0 .. NSeq - 1 : order[k] = q
    BY <2>3 DEF LoopInv, Bijection, Surjection
  <2>5. PICK j \in 0 .. NSeq - 1 : order[j] = r
    BY <2>3 DEF LoopInv, Bijection, Surjection
  <2> QED BY <2>1, <2>2, <2>4, <2>5, Parameters
<1> QED BY <1>1, <1>2, DrawStep, LoopHolds, PTL DEF Spec

-----------------------------------------------------------------------------
(* What holds at each dispatch, written out                                  *)

\* The layers below L are held, and of layer L the buffers in N.
LayersTo(B, L, N, t) ==
    \A n \in PerLayer, m \in Layers :
        m < L \/ (m = L /\ n \in N) => B[Act(n, m)] = Tensor(ValueIn(n), m, t)

\* A place is read back from its three parts.
LEMMA PlaceIs ==
    \A part, l, h : LET p == Place(part, l, h) IN p[1] = part /\ p[2] = l /\ p[3] = h
BY DEF Place

\* How far each part is in the forward and in the backward pass.
LEMMA At_embed ==
    ASSUME NEW k
    PROVE  LET p == Place("embed", 0, 0)
           IN  /\ p[1] = "embed" /\ p[2] = 0 /\ p[3] = 0
               /\ ForwardLayer(p) = 0 /\ ForwardOp(p, k) = 0
               /\ BackLayer(p) = NLayer /\ BackOp(p, k) = 0
BY PlaceIs DEF ForwardLayer, ForwardOp, BackLayer, BackOp

LEMMA At_attnForward ==
    ASSUME NEW l, NEW k
    PROVE  LET p == Place("attnForward", l, 0)
           IN  /\ p[1] = "attnForward" /\ p[2] = l /\ p[3] = 0
               /\ ForwardLayer(p) = l /\ ForwardOp(p, k) = k
               /\ BackLayer(p) = NLayer /\ BackOp(p, k) = 0
BY PlaceIs DEF ForwardLayer, ForwardOp, BackLayer, BackOp

LEMMA At_mlpForward ==
    ASSUME NEW l, NEW k
    PROVE  LET p == Place("mlpForward", l, 0)
           IN  /\ p[1] = "mlpForward" /\ p[2] = l /\ p[3] = 0
               /\ ForwardLayer(p) = l /\ ForwardOp(p, k) = 10 + k
               /\ BackLayer(p) = NLayer /\ BackOp(p, k) = 0
BY PlaceIs DEF ForwardLayer, ForwardOp, BackLayer, BackOp

LEMMA At_head ==
    ASSUME NEW k
    PROVE  LET p == Place("head", 0, 0)
           IN  /\ p[1] = "head" /\ p[2] = 0 /\ p[3] = 0
               /\ ForwardLayer(p) = NLayer /\ ForwardOp(p, k) = 0
               /\ BackLayer(p) = NLayer /\ BackOp(p, k) = 0
BY PlaceIs DEF ForwardLayer, ForwardOp, BackLayer, BackOp

LEMMA At_headBack ==
    ASSUME NEW k
    PROVE  LET p == Place("headBack", 0, 0)
           IN  /\ p[1] = "headBack" /\ p[2] = 0 /\ p[3] = 0
               /\ ForwardLayer(p) = NLayer /\ ForwardOp(p, k) = 0
               /\ BackLayer(p) = NLayer /\ BackOp(p, k) = 0
BY PlaceIs DEF ForwardLayer, ForwardOp, BackLayer, BackOp

LEMMA At_mlpBack ==
    ASSUME NEW l, NEW k
    PROVE  LET p == Place("mlpBack", l, 0)
           IN  /\ p[1] = "mlpBack" /\ p[2] = l /\ p[3] = 0
               /\ ForwardLayer(p) = NLayer /\ ForwardOp(p, k) = 0
               /\ BackLayer(p) = l /\ BackOp(p, k) = k
BY PlaceIs DEF ForwardLayer, ForwardOp, BackLayer, BackOp

LEMMA At_projBack ==
    ASSUME NEW l, NEW k
    PROVE  LET p == Place("projBack", l, 0)
           IN  /\ p[1] = "projBack" /\ p[2] = l /\ p[3] = 0
               /\ ForwardLayer(p) = NLayer /\ ForwardOp(p, k) = 0
               /\ BackLayer(p) = l /\ BackOp(p, k) = 10 + k
BY PlaceIs DEF ForwardLayer, ForwardOp, BackLayer, BackOp

LEMMA At_attnBack ==
    ASSUME NEW l, NEW h, NEW k
    PROVE  LET p == Place("attnBack", l, h)
           IN  /\ p[1] = "attnBack" /\ p[2] = l /\ p[3] = h
               /\ ForwardLayer(p) = NLayer /\ ForwardOp(p, k) = 0
               /\ BackLayer(p) = l /\ BackOp(p, k) = 20
BY PlaceIs DEF ForwardLayer, ForwardOp, BackLayer, BackOp

LEMMA At_qkvBack ==
    ASSUME NEW l, NEW k
    PROVE  LET p == Place("qkvBack", l, 0)
           IN  /\ p[1] = "qkvBack" /\ p[2] = l /\ p[3] = 0
               /\ ForwardLayer(p) = NLayer /\ ForwardOp(p, k) = 0
               /\ BackLayer(p) = l /\ BackOp(p, k) = 30 + k
BY PlaceIs DEF ForwardLayer, ForwardOp, BackLayer, BackOp

LEMMA At_embedBack ==
    ASSUME NEW k
    PROVE  LET p == Place("embedBack", 0, 0)
           IN  /\ p[1] = "embedBack" /\ p[2] = 0 /\ p[3] = 0
               /\ ForwardLayer(p) = NLayer /\ ForwardOp(p, k) = 0
               /\ BackLayer(p) = -1 /\ BackOp(p, k) = 0
BY PlaceIs DEF ForwardLayer, ForwardOp, BackLayer, BackOp

LEMMA At_end ==
    ASSUME NEW k
    PROVE  LET p == Place("end", 0, 0)
           IN  /\ p[1] = "end" /\ p[2] = 0 /\ p[3] = 0
               /\ ForwardLayer(p) = NLayer /\ ForwardOp(p, k) = 0
               /\ BackLayer(p) = -1 /\ BackOp(p, k) = 0
BY PlaceIs DEF ForwardLayer, ForwardOp, BackLayer, BackOp

\* One lemma per dispatch: what PassHeld says just before the dispatch k of that
\* part, written out buffer by buffer.
LEMMA Holds_embed1 ==
    ASSUME NEW t, NEW B
    PROVE  PassHeld(B, Place("embed", 0, 0), 1, t) <=>
              /\ B[Tmp("tokens")] = Tokens(t)
              /\ LayersTo(B, 0, {}, t)
<1> PICK p : p = Place("embed", 0, 0)
  OBVIOUS
<1>1. /\ p[1] = "embed" /\ p[2] = 0 /\ p[3] = 0
      /\ ForwardLayer(p) = 0 /\ ForwardOp(p, 1) = 0
  BY At_embed
<1>2. LayersHeld(B, p, 1, t) <=> LayersTo(B, 0, {}, t)
  <2>1. \A n \in PerLayer, m \in Layers : Made(n, m, p, 1) <=> m < 0
    <3>1. \A n \in PerLayer : MadeAt(n) \in Nat /\ ~(MadeAt(n) < 0)
      BY DEF PerLayer, MadeAt
    <3> QED BY <1>1, <3>1 DEF Made
  <2> QED BY <2>1 DEF LayersHeld, LayersTo
<1>3. HiddenHeld(B, p, 1, t) <=> TRUE
  BY <1>1 DEF HiddenHeld
<1>4. HeadHeld(B, p, 1, t) <=> TRUE
  BY <1>1 DEF HeadHeld, NormHeld
<1>5. LossHeld(B, p, t) <=> TRUE
  BY <1>1 DEF LossHeld
<1>6. BackHeld(B, p, 1, t) <=> TRUE
  BY <1>1 DEF BackHeld
<1> QED BY <1>2, <1>3, <1>4, <1>5, <1>6 DEF PassHeld

LEMMA Holds_attnForward1 ==
    ASSUME NEW l \in Layers, NEW t, NEW B
    PROVE  PassHeld(B, Place("attnForward", l, 0), 1, t) <=>
              /\ B[Tmp("tokens")] = Tokens(t)
              /\ LayersTo(B, l, {}, t)
              /\ B[Act("h", l)] = Hidden(l, t)
<1> PICK p : p = Place("attnForward", l, 0)
  OBVIOUS
<1>1. /\ p[1] = "attnForward" /\ p[2] = l /\ p[3] = 0
      /\ ForwardLayer(p) = l /\ ForwardOp(p, 1) = 1
  BY At_attnForward
<1>2. LayersHeld(B, p, 1, t) <=> LayersTo(B, l, {}, t)
  <2>1. \A n \in PerLayer : MadeAt(n) < ForwardOp(p, 1) <=> n \in {}
    BY <1>1 DEF PerLayer, MadeAt
  <2>2. \A n \in PerLayer : \A m : Made(n, m, p, 1) <=> m < l \/ (m = l /\ n \in {})
    BY <1>1, <2>1 DEF Made
  <2> QED BY <2>2 DEF LayersHeld, LayersTo
<1>3. HiddenHeld(B, p, 1, t) <=> (B[Act("h", l)] = Hidden(l, t))
  BY <1>1 DEF HiddenHeld
<1>4. HeadHeld(B, p, 1, t) <=> TRUE
  BY <1>1 DEF HeadHeld, NormHeld
<1>5. LossHeld(B, p, t) <=> TRUE
  BY <1>1 DEF LossHeld
<1>6. BackHeld(B, p, 1, t) <=> TRUE
  BY <1>1 DEF BackHeld
<1> QED BY <1>2, <1>3, <1>4, <1>5, <1>6 DEF PassHeld

LEMMA Holds_attnForward2 ==
    ASSUME NEW l \in Layers, NEW t, NEW B
    PROVE  PassHeld(B, Place("attnForward", l, 0), 2, t) <=>
              /\ B[Tmp("tokens")] = Tokens(t)
              /\ LayersTo(B, l, {"ln1_y", "xhat_ln1", "inv_std_ln1"}, t)
              /\ B[Act("h", l)] = Hidden(l, t)
<1> PICK p : p = Place("attnForward", l, 0)
  OBVIOUS
<1>1. /\ p[1] = "attnForward" /\ p[2] = l /\ p[3] = 0
      /\ ForwardLayer(p) = l /\ ForwardOp(p, 2) = 2
  BY At_attnForward
<1>2. LayersHeld(B, p, 2, t) <=> LayersTo(B, l, {"ln1_y", "xhat_ln1", "inv_std_ln1"}, t)
  <2>1. \A n \in PerLayer : MadeAt(n) < ForwardOp(p, 2) <=> n \in {"ln1_y", "xhat_ln1",
            "inv_std_ln1"}
    BY <1>1 DEF PerLayer, MadeAt
  <2>2. \A n \in PerLayer : \A m : Made(n, m, p, 2)
            <=> m < l \/ (m = l /\ n \in {"ln1_y", "xhat_ln1", "inv_std_ln1"})
    BY <1>1, <2>1 DEF Made
  <2> QED BY <2>2 DEF LayersHeld, LayersTo
<1>3. HiddenHeld(B, p, 2, t) <=> (B[Act("h", l)] = Hidden(l, t))
  BY <1>1 DEF HiddenHeld
<1>4. HeadHeld(B, p, 2, t) <=> TRUE
  BY <1>1 DEF HeadHeld, NormHeld
<1>5. LossHeld(B, p, t) <=> TRUE
  BY <1>1 DEF LossHeld
<1>6. BackHeld(B, p, 2, t) <=> TRUE
  BY <1>1 DEF BackHeld
<1> QED BY <1>2, <1>3, <1>4, <1>5, <1>6 DEF PassHeld

LEMMA Holds_attnForward3 ==
    ASSUME NEW l \in Layers, NEW t, NEW B
    PROVE  PassHeld(B, Place("attnForward", l, 0), 3, t) <=>
              /\ B[Tmp("tokens")] = Tokens(t)
              /\ LayersTo(B, l, {"ln1_y", "xhat_ln1", "inv_std_ln1", "qkv"}, t)
              /\ B[Act("h", l)] = Hidden(l, t)
<1> PICK p : p = Place("attnForward", l, 0)
  OBVIOUS
<1>1. /\ p[1] = "attnForward" /\ p[2] = l /\ p[3] = 0
      /\ ForwardLayer(p) = l /\ ForwardOp(p, 3) = 3
  BY At_attnForward
<1>2. LayersHeld(B, p, 3, t) <=> LayersTo(B, l, {"ln1_y", "xhat_ln1", "inv_std_ln1", "qkv"}, t)
  <2>1. \A n \in PerLayer : MadeAt(n) < ForwardOp(p, 3) <=> n \in {"ln1_y", "xhat_ln1",
            "inv_std_ln1", "qkv"}
    BY <1>1 DEF PerLayer, MadeAt
  <2>2. \A n \in PerLayer : \A m : Made(n, m, p, 3)
            <=> m < l \/ (m = l /\ n \in {"ln1_y", "xhat_ln1", "inv_std_ln1", "qkv"})
    BY <1>1, <2>1 DEF Made
  <2> QED BY <2>2 DEF LayersHeld, LayersTo
<1>3. HiddenHeld(B, p, 3, t) <=> (B[Act("h", l)] = Hidden(l, t))
  BY <1>1 DEF HiddenHeld
<1>4. HeadHeld(B, p, 3, t) <=> TRUE
  BY <1>1 DEF HeadHeld, NormHeld
<1>5. LossHeld(B, p, t) <=> TRUE
  BY <1>1 DEF LossHeld
<1>6. BackHeld(B, p, 3, t) <=> TRUE
  BY <1>1 DEF BackHeld
<1> QED BY <1>2, <1>3, <1>4, <1>5, <1>6 DEF PassHeld

LEMMA Holds_attnForward4 ==
    ASSUME NEW l \in Layers, NEW t, NEW B
    PROVE  PassHeld(B, Place("attnForward", l, 0), 4, t) <=>
              /\ B[Tmp("tokens")] = Tokens(t)
              /\ LayersTo(B, l, {"ln1_y", "xhat_ln1", "inv_std_ln1", "qkv", "attn_out", "P"}, t)
              /\ B[Act("h", l)] = Hidden(l, t)
<1> PICK p : p = Place("attnForward", l, 0)
  OBVIOUS
<1>1. /\ p[1] = "attnForward" /\ p[2] = l /\ p[3] = 0
      /\ ForwardLayer(p) = l /\ ForwardOp(p, 4) = 4
  BY At_attnForward
<1>2. LayersHeld(B, p, 4, t) <=> LayersTo(B, l, {"ln1_y", "xhat_ln1", "inv_std_ln1", "qkv",
                  "attn_out", "P"}, t)
  <2>1. \A n \in PerLayer : MadeAt(n) < ForwardOp(p, 4) <=> n \in {"ln1_y", "xhat_ln1",
            "inv_std_ln1", "qkv", "attn_out", "P"}
    BY <1>1 DEF PerLayer, MadeAt
  <2>2. \A n \in PerLayer : \A m : Made(n, m, p, 4)
            <=> m < l \/ (m = l /\ n \in {"ln1_y", "xhat_ln1", "inv_std_ln1", "qkv",
                "attn_out", "P"})
    BY <1>1, <2>1 DEF Made
  <2> QED BY <2>2 DEF LayersHeld, LayersTo
<1>3. HiddenHeld(B, p, 4, t) <=> (B[Act("h", l)] = Hidden(l, t))
  BY <1>1 DEF HiddenHeld
<1>4. HeadHeld(B, p, 4, t) <=> TRUE
  BY <1>1 DEF HeadHeld, NormHeld
<1>5. LossHeld(B, p, t) <=> TRUE
  BY <1>1 DEF LossHeld
<1>6. BackHeld(B, p, 4, t) <=> TRUE
  BY <1>1 DEF BackHeld
<1> QED BY <1>2, <1>3, <1>4, <1>5, <1>6 DEF PassHeld

LEMMA Holds_attnForward5 ==
    ASSUME NEW l \in Layers, NEW t, NEW B
    PROVE  PassHeld(B, Place("attnForward", l, 0), 5, t) <=>
              /\ B[Tmp("tokens")] = Tokens(t)
              /\ LayersTo(B, l, {"ln1_y", "xhat_ln1", "inv_std_ln1", "qkv", "attn_out", "P"}, t)
              /\ B[Act("h", l)] = Hidden(l, t)
              /\ B[Tmp("dh")] = Tensor("attn_proj", l, t)
<1> PICK p : p = Place("attnForward", l, 0)
  OBVIOUS
<1>1. /\ p[1] = "attnForward" /\ p[2] = l /\ p[3] = 0
      /\ ForwardLayer(p) = l /\ ForwardOp(p, 5) = 5
  BY At_attnForward
<1>2. LayersHeld(B, p, 5, t) <=> LayersTo(B, l, {"ln1_y", "xhat_ln1", "inv_std_ln1", "qkv",
                  "attn_out", "P"}, t)
  <2>1. \A n \in PerLayer : MadeAt(n) < ForwardOp(p, 5) <=> n \in {"ln1_y", "xhat_ln1",
            "inv_std_ln1", "qkv", "attn_out", "P"}
    BY <1>1 DEF PerLayer, MadeAt
  <2>2. \A n \in PerLayer : \A m : Made(n, m, p, 5)
            <=> m < l \/ (m = l /\ n \in {"ln1_y", "xhat_ln1", "inv_std_ln1", "qkv",
                "attn_out", "P"})
    BY <1>1, <2>1 DEF Made
  <2> QED BY <2>2 DEF LayersHeld, LayersTo
<1>3. HiddenHeld(B, p, 5, t)
                  <=> (B[Act("h", l)] = Hidden(l, t) /\ B[Tmp("dh")] = Tensor("attn_proj", l,
                      t))
  BY <1>1 DEF HiddenHeld
<1>4. HeadHeld(B, p, 5, t) <=> TRUE
  BY <1>1 DEF HeadHeld, NormHeld
<1>5. LossHeld(B, p, t) <=> TRUE
  BY <1>1 DEF LossHeld
<1>6. BackHeld(B, p, 5, t) <=> TRUE
  BY <1>1 DEF BackHeld
<1> QED BY <1>2, <1>3, <1>4, <1>5, <1>6 DEF PassHeld

LEMMA Holds_mlpForward1 ==
    ASSUME NEW l \in Layers, NEW t, NEW B
    PROVE  PassHeld(B, Place("mlpForward", l, 0), 1, t) <=>
              /\ B[Tmp("tokens")] = Tokens(t)
              /\ LayersTo(B, l, {"ln1_y", "xhat_ln1", "inv_std_ln1", "qkv", "attn_out", "P"}, t)
              /\ B[Act("h", l + 1)] = HiddenMid(l, t)
<1> PICK p : p = Place("mlpForward", l, 0)
  OBVIOUS
<1>1. /\ p[1] = "mlpForward" /\ p[2] = l /\ p[3] = 0
      /\ ForwardLayer(p) = l /\ ForwardOp(p, 1) = 10 + 1
  BY At_mlpForward
<1>2. LayersHeld(B, p, 1, t) <=> LayersTo(B, l, {"ln1_y", "xhat_ln1", "inv_std_ln1", "qkv",
                  "attn_out", "P"}, t)
  <2>1. \A n \in PerLayer : MadeAt(n) < ForwardOp(p, 1) <=> n \in {"ln1_y", "xhat_ln1",
            "inv_std_ln1", "qkv", "attn_out", "P"}
    BY <1>1 DEF PerLayer, MadeAt
  <2>2. \A n \in PerLayer : \A m : Made(n, m, p, 1)
            <=> m < l \/ (m = l /\ n \in {"ln1_y", "xhat_ln1", "inv_std_ln1", "qkv",
                "attn_out", "P"})
    BY <1>1, <2>1 DEF Made
  <2> QED BY <2>2 DEF LayersHeld, LayersTo
<1>3. HiddenHeld(B, p, 1, t) <=> (B[Act("h", l + 1)] = HiddenMid(l, t))
  BY <1>1 DEF HiddenHeld
<1>4. HeadHeld(B, p, 1, t) <=> TRUE
  BY <1>1 DEF HeadHeld, NormHeld
<1>5. LossHeld(B, p, t) <=> TRUE
  BY <1>1 DEF LossHeld
<1>6. BackHeld(B, p, 1, t) <=> TRUE
  BY <1>1 DEF BackHeld
<1> QED BY <1>2, <1>3, <1>4, <1>5, <1>6 DEF PassHeld

LEMMA Holds_mlpForward2 ==
    ASSUME NEW l \in Layers, NEW t, NEW B
    PROVE  PassHeld(B, Place("mlpForward", l, 0), 2, t) <=>
              /\ B[Tmp("tokens")] = Tokens(t)
              /\ LayersTo(B, l, {"ln1_y", "xhat_ln1", "inv_std_ln1", "qkv", "attn_out", "P",
                   "ln2_y", "xhat_ln2", "inv_std_ln2"}, t)
              /\ B[Act("h", l + 1)] = HiddenMid(l, t)
<1> PICK p : p = Place("mlpForward", l, 0)
  OBVIOUS
<1>1. /\ p[1] = "mlpForward" /\ p[2] = l /\ p[3] = 0
      /\ ForwardLayer(p) = l /\ ForwardOp(p, 2) = 10 + 2
  BY At_mlpForward
<1>2. LayersHeld(B, p, 2, t) <=> LayersTo(B, l, {"ln1_y", "xhat_ln1", "inv_std_ln1", "qkv",
                  "attn_out", "P", "ln2_y", "xhat_ln2", "inv_std_ln2"}, t)
  <2>1. \A n \in PerLayer : MadeAt(n) < ForwardOp(p, 2) <=> n \in {"ln1_y", "xhat_ln1",
            "inv_std_ln1", "qkv", "attn_out", "P", "ln2_y", "xhat_ln2", "inv_std_ln2"}
    BY <1>1 DEF PerLayer, MadeAt
  <2>2. \A n \in PerLayer : \A m : Made(n, m, p, 2)
            <=> m < l \/ (m = l /\ n \in {"ln1_y", "xhat_ln1", "inv_std_ln1", "qkv",
                "attn_out", "P", "ln2_y", "xhat_ln2", "inv_std_ln2"})
    BY <1>1, <2>1 DEF Made
  <2> QED BY <2>2 DEF LayersHeld, LayersTo
<1>3. HiddenHeld(B, p, 2, t) <=> (B[Act("h", l + 1)] = HiddenMid(l, t))
  BY <1>1 DEF HiddenHeld
<1>4. HeadHeld(B, p, 2, t) <=> TRUE
  BY <1>1 DEF HeadHeld, NormHeld
<1>5. LossHeld(B, p, t) <=> TRUE
  BY <1>1 DEF LossHeld
<1>6. BackHeld(B, p, 2, t) <=> TRUE
  BY <1>1 DEF BackHeld
<1> QED BY <1>2, <1>3, <1>4, <1>5, <1>6 DEF PassHeld

LEMMA Holds_mlpForward3 ==
    ASSUME NEW l \in Layers, NEW t, NEW B
    PROVE  PassHeld(B, Place("mlpForward", l, 0), 3, t) <=>
              /\ B[Tmp("tokens")] = Tokens(t)
              /\ LayersTo(B, l, {"ln1_y", "xhat_ln1", "inv_std_ln1", "qkv", "attn_out", "P",
                   "ln2_y", "xhat_ln2", "inv_std_ln2", "mlp_pre"}, t)
              /\ B[Act("h", l + 1)] = HiddenMid(l, t)
<1> PICK p : p = Place("mlpForward", l, 0)
  OBVIOUS
<1>1. /\ p[1] = "mlpForward" /\ p[2] = l /\ p[3] = 0
      /\ ForwardLayer(p) = l /\ ForwardOp(p, 3) = 10 + 3
  BY At_mlpForward
<1>2. LayersHeld(B, p, 3, t) <=> LayersTo(B, l, {"ln1_y", "xhat_ln1", "inv_std_ln1", "qkv",
                  "attn_out", "P", "ln2_y", "xhat_ln2", "inv_std_ln2", "mlp_pre"}, t)
  <2>1. \A n \in PerLayer : MadeAt(n) < ForwardOp(p, 3) <=> n \in {"ln1_y", "xhat_ln1",
            "inv_std_ln1", "qkv", "attn_out", "P", "ln2_y", "xhat_ln2", "inv_std_ln2",
                "mlp_pre"}
    BY <1>1 DEF PerLayer, MadeAt
  <2>2. \A n \in PerLayer : \A m : Made(n, m, p, 3)
            <=> m < l \/ (m = l /\ n \in {"ln1_y", "xhat_ln1", "inv_std_ln1", "qkv",
                "attn_out", "P", "ln2_y", "xhat_ln2", "inv_std_ln2", "mlp_pre"})
    BY <1>1, <2>1 DEF Made
  <2> QED BY <2>2 DEF LayersHeld, LayersTo
<1>3. HiddenHeld(B, p, 3, t) <=> (B[Act("h", l + 1)] = HiddenMid(l, t))
  BY <1>1 DEF HiddenHeld
<1>4. HeadHeld(B, p, 3, t) <=> TRUE
  BY <1>1 DEF HeadHeld, NormHeld
<1>5. LossHeld(B, p, t) <=> TRUE
  BY <1>1 DEF LossHeld
<1>6. BackHeld(B, p, 3, t) <=> TRUE
  BY <1>1 DEF BackHeld
<1> QED BY <1>2, <1>3, <1>4, <1>5, <1>6 DEF PassHeld

LEMMA Holds_mlpForward4 ==
    ASSUME NEW l \in Layers, NEW t, NEW B
    PROVE  PassHeld(B, Place("mlpForward", l, 0), 4, t) <=>
              /\ B[Tmp("tokens")] = Tokens(t)
              /\ LayersTo(B, l, {"ln1_y", "xhat_ln1", "inv_std_ln1", "qkv", "attn_out", "P",
                   "ln2_y", "xhat_ln2", "inv_std_ln2", "mlp_pre", "mlp_gelu"}, t)
              /\ B[Act("h", l + 1)] = HiddenMid(l, t)
<1> PICK p : p = Place("mlpForward", l, 0)
  OBVIOUS
<1>1. /\ p[1] = "mlpForward" /\ p[2] = l /\ p[3] = 0
      /\ ForwardLayer(p) = l /\ ForwardOp(p, 4) = 10 + 4
  BY At_mlpForward
<1>2. LayersHeld(B, p, 4, t) <=> LayersTo(B, l, {"ln1_y", "xhat_ln1", "inv_std_ln1", "qkv",
                  "attn_out", "P", "ln2_y", "xhat_ln2", "inv_std_ln2", "mlp_pre", "mlp_gelu"},
                      t)
  <2>1. \A n \in PerLayer : MadeAt(n) < ForwardOp(p, 4) <=> n \in {"ln1_y", "xhat_ln1",
            "inv_std_ln1", "qkv", "attn_out", "P", "ln2_y", "xhat_ln2", "inv_std_ln2",
                "mlp_pre", "mlp_gelu"}
    BY <1>1 DEF PerLayer, MadeAt
  <2>2. \A n \in PerLayer : \A m : Made(n, m, p, 4)
            <=> m < l \/ (m = l /\ n \in {"ln1_y", "xhat_ln1", "inv_std_ln1", "qkv",
                "attn_out", "P", "ln2_y", "xhat_ln2", "inv_std_ln2", "mlp_pre", "mlp_gelu"})
    BY <1>1, <2>1 DEF Made
  <2> QED BY <2>2 DEF LayersHeld, LayersTo
<1>3. HiddenHeld(B, p, 4, t) <=> (B[Act("h", l + 1)] = HiddenMid(l, t))
  BY <1>1 DEF HiddenHeld
<1>4. HeadHeld(B, p, 4, t) <=> TRUE
  BY <1>1 DEF HeadHeld, NormHeld
<1>5. LossHeld(B, p, t) <=> TRUE
  BY <1>1 DEF LossHeld
<1>6. BackHeld(B, p, 4, t) <=> TRUE
  BY <1>1 DEF BackHeld
<1> QED BY <1>2, <1>3, <1>4, <1>5, <1>6 DEF PassHeld

LEMMA Holds_mlpForward5 ==
    ASSUME NEW l \in Layers, NEW t, NEW B
    PROVE  PassHeld(B, Place("mlpForward", l, 0), 5, t) <=>
              /\ B[Tmp("tokens")] = Tokens(t)
              /\ LayersTo(B, l, {"ln1_y", "xhat_ln1", "inv_std_ln1", "qkv", "attn_out", "P",
                   "ln2_y", "xhat_ln2", "inv_std_ln2", "mlp_pre", "mlp_gelu"}, t)
              /\ B[Act("h", l + 1)] = HiddenMid(l, t)
              /\ B[Tmp("dh")] = Tensor("mlp_out", l, t)
<1> PICK p : p = Place("mlpForward", l, 0)
  OBVIOUS
<1>1. /\ p[1] = "mlpForward" /\ p[2] = l /\ p[3] = 0
      /\ ForwardLayer(p) = l /\ ForwardOp(p, 5) = 10 + 5
  BY At_mlpForward
<1>2. LayersHeld(B, p, 5, t) <=> LayersTo(B, l, {"ln1_y", "xhat_ln1", "inv_std_ln1", "qkv",
                  "attn_out", "P", "ln2_y", "xhat_ln2", "inv_std_ln2", "mlp_pre", "mlp_gelu"},
                      t)
  <2>1. \A n \in PerLayer : MadeAt(n) < ForwardOp(p, 5) <=> n \in {"ln1_y", "xhat_ln1",
            "inv_std_ln1", "qkv", "attn_out", "P", "ln2_y", "xhat_ln2", "inv_std_ln2",
                "mlp_pre", "mlp_gelu"}
    BY <1>1 DEF PerLayer, MadeAt
  <2>2. \A n \in PerLayer : \A m : Made(n, m, p, 5)
            <=> m < l \/ (m = l /\ n \in {"ln1_y", "xhat_ln1", "inv_std_ln1", "qkv",
                "attn_out", "P", "ln2_y", "xhat_ln2", "inv_std_ln2", "mlp_pre", "mlp_gelu"})
    BY <1>1, <2>1 DEF Made
  <2> QED BY <2>2 DEF LayersHeld, LayersTo
<1>3. HiddenHeld(B, p, 5, t) <=> (B[Act("h", l + 1)] = HiddenMid(l, t) /\ B[Tmp("dh")]
                  = Tensor("mlp_out", l, t))
  BY <1>1 DEF HiddenHeld
<1>4. HeadHeld(B, p, 5, t) <=> TRUE
  BY <1>1 DEF HeadHeld, NormHeld
<1>5. LossHeld(B, p, t) <=> TRUE
  BY <1>1 DEF LossHeld
<1>6. BackHeld(B, p, 5, t) <=> TRUE
  BY <1>1 DEF BackHeld
<1> QED BY <1>2, <1>3, <1>4, <1>5, <1>6 DEF PassHeld

LEMMA Holds_head1 ==
    ASSUME NEW t, NEW B
    PROVE  PassHeld(B, Place("head", 0, 0), 1, t) <=>
              /\ B[Tmp("tokens")] = Tokens(t)
              /\ LayersTo(B, NLayer, {}, t)
              /\ B[Act("h", NLayer)] = Hidden(NLayer, t)
<1> PICK p : p = Place("head", 0, 0)
  OBVIOUS
<1>1. /\ p[1] = "head" /\ p[2] = 0 /\ p[3] = 0
      /\ ForwardLayer(p) = NLayer /\ ForwardOp(p, 1) = 0
  BY At_head
<1>2. LayersHeld(B, p, 1, t) <=> LayersTo(B, NLayer, {}, t)
  <2>1. \A n \in PerLayer, m \in Layers : Made(n, m, p, 1) <=> m < NLayer
    <3>1. \A n \in PerLayer : MadeAt(n) \in Nat /\ ~(MadeAt(n) < 0)
      BY DEF PerLayer, MadeAt
    <3> QED BY <1>1, <3>1 DEF Made
  <2> QED BY <2>1 DEF LayersHeld, LayersTo
<1>3. HiddenHeld(B, p, 1, t) <=> (B[Act("h", NLayer)] = Hidden(NLayer, t))
  BY <1>1 DEF HiddenHeld
<1>4. HeadHeld(B, p, 1, t) <=> TRUE
  BY <1>1 DEF HeadHeld, NormHeld
<1>5. LossHeld(B, p, t) <=> TRUE
  BY <1>1 DEF LossHeld
<1>6. BackHeld(B, p, 1, t) <=> TRUE
  BY <1>1 DEF BackHeld
<1> QED BY <1>2, <1>3, <1>4, <1>5, <1>6 DEF PassHeld

LEMMA Holds_head2 ==
    ASSUME NEW t, NEW B
    PROVE  PassHeld(B, Place("head", 0, 0), 2, t) <=>
              /\ B[Tmp("tokens")] = Tokens(t)
              /\ LayersTo(B, NLayer, {}, t)
              /\ B[Act("h", NLayer)] = Hidden(NLayer, t)
              /\ B[Tmp("xhat_lnf")] = Tensor("ln_f_xhat", 0, t)
              /\ B[Tmp("inv_std_lnf")] = Tensor("ln_f_inv_std", 0, t)
              /\ B[Tmp("lnf_y")] = Tensor("ln_f_y", 0, t)
<1> PICK p : p = Place("head", 0, 0)
  OBVIOUS
<1>1. /\ p[1] = "head" /\ p[2] = 0 /\ p[3] = 0
      /\ ForwardLayer(p) = NLayer /\ ForwardOp(p, 2) = 0
  BY At_head
<1>2. LayersHeld(B, p, 2, t) <=> LayersTo(B, NLayer, {}, t)
  <2>1. \A n \in PerLayer, m \in Layers : Made(n, m, p, 2) <=> m < NLayer
    <3>1. \A n \in PerLayer : MadeAt(n) \in Nat /\ ~(MadeAt(n) < 0)
      BY DEF PerLayer, MadeAt
    <3> QED BY <1>1, <3>1 DEF Made
  <2> QED BY <2>1 DEF LayersHeld, LayersTo
<1>3. HiddenHeld(B, p, 2, t) <=> (B[Act("h", NLayer)] = Hidden(NLayer, t))
  BY <1>1 DEF HiddenHeld
<1>4. HeadHeld(B, p, 2, t) <=> (B[Tmp("xhat_lnf")] = Tensor("ln_f_xhat", 0, t)
                  /\ B[Tmp("inv_std_lnf")] = Tensor("ln_f_inv_std", 0, t) /\ B[Tmp("lnf_y")]
                       = Tensor("ln_f_y", 0, t))
  BY <1>1 DEF HeadHeld, NormHeld
<1>5. LossHeld(B, p, t) <=> TRUE
  BY <1>1 DEF LossHeld
<1>6. BackHeld(B, p, 2, t) <=> TRUE
  BY <1>1 DEF BackHeld
<1> QED BY <1>2, <1>3, <1>4, <1>5, <1>6 DEF PassHeld

LEMMA Holds_head3 ==
    ASSUME NEW t, NEW B
    PROVE  PassHeld(B, Place("head", 0, 0), 3, t) <=>
              /\ B[Tmp("tokens")] = Tokens(t)
              /\ LayersTo(B, NLayer, {}, t)
              /\ B[Act("h", NLayer)] = Hidden(NLayer, t)
              /\ B[Tmp("xhat_lnf")] = Tensor("ln_f_xhat", 0, t)
              /\ B[Tmp("inv_std_lnf")] = Tensor("ln_f_inv_std", 0, t)
              /\ B[Tmp("lnf_y")] = Tensor("ln_f_y", 0, t)
              /\ B[Tmp("logits")] = Tensor("logits", 0, t)
<1> PICK p : p = Place("head", 0, 0)
  OBVIOUS
<1>1. /\ p[1] = "head" /\ p[2] = 0 /\ p[3] = 0
      /\ ForwardLayer(p) = NLayer /\ ForwardOp(p, 3) = 0
  BY At_head
<1>2. LayersHeld(B, p, 3, t) <=> LayersTo(B, NLayer, {}, t)
  <2>1. \A n \in PerLayer, m \in Layers : Made(n, m, p, 3) <=> m < NLayer
    <3>1. \A n \in PerLayer : MadeAt(n) \in Nat /\ ~(MadeAt(n) < 0)
      BY DEF PerLayer, MadeAt
    <3> QED BY <1>1, <3>1 DEF Made
  <2> QED BY <2>1 DEF LayersHeld, LayersTo
<1>3. HiddenHeld(B, p, 3, t) <=> (B[Act("h", NLayer)] = Hidden(NLayer, t))
  BY <1>1 DEF HiddenHeld
<1>4. HeadHeld(B, p, 3, t) <=> (B[Tmp("xhat_lnf")] = Tensor("ln_f_xhat", 0, t)
                  /\ B[Tmp("inv_std_lnf")] = Tensor("ln_f_inv_std", 0, t) /\ B[Tmp("lnf_y")]
                       = Tensor("ln_f_y", 0, t) /\ B[Tmp("logits")] = Tensor("logits", 0, t))
  BY <1>1 DEF HeadHeld, NormHeld
<1>5. LossHeld(B, p, t) <=> TRUE
  BY <1>1 DEF LossHeld
<1>6. BackHeld(B, p, 3, t) <=> TRUE
  BY <1>1 DEF BackHeld
<1> QED BY <1>2, <1>3, <1>4, <1>5, <1>6 DEF PassHeld

LEMMA Holds_headBack1 ==
    ASSUME NEW t, NEW B
    PROVE  PassHeld(B, Place("headBack", 0, 0), 1, t) <=>
              /\ B[Tmp("tokens")] = Tokens(t)
              /\ LayersTo(B, NLayer, {}, t)
              /\ B[Tmp("xhat_lnf")] = Tensor("ln_f_xhat", 0, t)
              /\ B[Tmp("inv_std_lnf")] = Tensor("ln_f_inv_std", 0, t)
              /\ B[Tmp("dlogits")] = Tensor("dlogits", 0, t)
              /\ B[Tmp("lnf_y")] = Tensor("ln_f_y", 0, t)
              /\ B[Tmp("loss")] = Tensor("loss", 0, t)
<1> PICK p : p = Place("headBack", 0, 0)
  OBVIOUS
<1>1. /\ p[1] = "headBack" /\ p[2] = 0 /\ p[3] = 0
      /\ ForwardLayer(p) = NLayer /\ ForwardOp(p, 1) = 0
  BY At_headBack
<1>2. LayersHeld(B, p, 1, t) <=> LayersTo(B, NLayer, {}, t)
  <2>1. \A n \in PerLayer, m \in Layers : Made(n, m, p, 1) <=> m < NLayer
    <3>1. \A n \in PerLayer : MadeAt(n) \in Nat /\ ~(MadeAt(n) < 0)
      BY DEF PerLayer, MadeAt
    <3> QED BY <1>1, <3>1 DEF Made
  <2> QED BY <2>1 DEF LayersHeld, LayersTo
<1>3. HiddenHeld(B, p, 1, t) <=> TRUE
  BY <1>1 DEF HiddenHeld
<1>4. HeadHeld(B, p, 1, t) <=> (B[Tmp("xhat_lnf")] = Tensor("ln_f_xhat", 0, t)
                  /\ B[Tmp("inv_std_lnf")] = Tensor("ln_f_inv_std", 0, t) /\ B[Tmp("dlogits")]
                       = Tensor("dlogits", 0, t) /\ B[Tmp("lnf_y")] = Tensor("ln_f_y", 0, t))
  BY <1>1 DEF HeadHeld, NormHeld
<1>5. LossHeld(B, p, t) <=> (B[Tmp("loss")] = Tensor("loss", 0, t))
  BY <1>1 DEF LossHeld
<1>6. BackHeld(B, p, 1, t) <=> TRUE
  BY <1>1 DEF BackHeld
<1> QED BY <1>2, <1>3, <1>4, <1>5, <1>6 DEF PassHeld

LEMMA Holds_headBack2 ==
    ASSUME NEW t, NEW B
    PROVE  PassHeld(B, Place("headBack", 0, 0), 2, t) <=>
              /\ B[Tmp("tokens")] = Tokens(t)
              /\ LayersTo(B, NLayer, {}, t)
              /\ B[Tmp("xhat_lnf")] = Tensor("ln_f_xhat", 0, t)
              /\ B[Tmp("inv_std_lnf")] = Tensor("ln_f_inv_std", 0, t)
              /\ B[Tmp("dlogits")] = Tensor("dlogits", 0, t)
              /\ B[Tmp("lnf_y")] = Tensor("ln_f_y", 0, t)
              /\ B[Tmp("loss")] = Tensor("loss", 0, t)
<1> PICK p : p = Place("headBack", 0, 0)
  OBVIOUS
<1>1. /\ p[1] = "headBack" /\ p[2] = 0 /\ p[3] = 0
      /\ ForwardLayer(p) = NLayer /\ ForwardOp(p, 2) = 0
  BY At_headBack
<1>2. LayersHeld(B, p, 2, t) <=> LayersTo(B, NLayer, {}, t)
  <2>1. \A n \in PerLayer, m \in Layers : Made(n, m, p, 2) <=> m < NLayer
    <3>1. \A n \in PerLayer : MadeAt(n) \in Nat /\ ~(MadeAt(n) < 0)
      BY DEF PerLayer, MadeAt
    <3> QED BY <1>1, <3>1 DEF Made
  <2> QED BY <2>1 DEF LayersHeld, LayersTo
<1>3. HiddenHeld(B, p, 2, t) <=> TRUE
  BY <1>1 DEF HiddenHeld
<1>4. HeadHeld(B, p, 2, t) <=> (B[Tmp("xhat_lnf")] = Tensor("ln_f_xhat", 0, t)
                  /\ B[Tmp("inv_std_lnf")] = Tensor("ln_f_inv_std", 0, t) /\ B[Tmp("dlogits")]
                       = Tensor("dlogits", 0, t) /\ B[Tmp("lnf_y")] = Tensor("ln_f_y", 0, t))
  BY <1>1 DEF HeadHeld, NormHeld
<1>5. LossHeld(B, p, t) <=> (B[Tmp("loss")] = Tensor("loss", 0, t))
  BY <1>1 DEF LossHeld
<1>6. BackHeld(B, p, 2, t) <=> TRUE
  BY <1>1 DEF BackHeld
<1> QED BY <1>2, <1>3, <1>4, <1>5, <1>6 DEF PassHeld

LEMMA Holds_headBack3 ==
    ASSUME NEW t, NEW B
    PROVE  PassHeld(B, Place("headBack", 0, 0), 3, t) <=>
              /\ B[Tmp("tokens")] = Tokens(t)
              /\ LayersTo(B, NLayer, {}, t)
              /\ B[Tmp("xhat_lnf")] = Tensor("ln_f_xhat", 0, t)
              /\ B[Tmp("inv_std_lnf")] = Tensor("ln_f_inv_std", 0, t)
              /\ B[Tmp("dlogits")] = Tensor("dlogits", 0, t)
              /\ B[Tmp("lnf_y")] = Tensor("ln_f_y", 0, t)
              /\ B[Tmp("dh")] = Tensor("d_ln_f_y", 0, t)
              /\ B[Tmp("loss")] = Tensor("loss", 0, t)
<1> PICK p : p = Place("headBack", 0, 0)
  OBVIOUS
<1>1. /\ p[1] = "headBack" /\ p[2] = 0 /\ p[3] = 0
      /\ ForwardLayer(p) = NLayer /\ ForwardOp(p, 3) = 0
  BY At_headBack
<1>2. LayersHeld(B, p, 3, t) <=> LayersTo(B, NLayer, {}, t)
  <2>1. \A n \in PerLayer, m \in Layers : Made(n, m, p, 3) <=> m < NLayer
    <3>1. \A n \in PerLayer : MadeAt(n) \in Nat /\ ~(MadeAt(n) < 0)
      BY DEF PerLayer, MadeAt
    <3> QED BY <1>1, <3>1 DEF Made
  <2> QED BY <2>1 DEF LayersHeld, LayersTo
<1>3. HiddenHeld(B, p, 3, t) <=> TRUE
  BY <1>1 DEF HiddenHeld
<1>4. HeadHeld(B, p, 3, t) <=> (B[Tmp("xhat_lnf")] = Tensor("ln_f_xhat", 0, t)
                  /\ B[Tmp("inv_std_lnf")] = Tensor("ln_f_inv_std", 0, t) /\ B[Tmp("dlogits")]
                       = Tensor("dlogits", 0, t) /\ B[Tmp("lnf_y")] = Tensor("ln_f_y", 0, t)
                           /\ B[Tmp("dh")] = Tensor("d_ln_f_y", 0, t))
  BY <1>1 DEF HeadHeld, NormHeld
<1>5. LossHeld(B, p, t) <=> (B[Tmp("loss")] = Tensor("loss", 0, t))
  BY <1>1 DEF LossHeld
<1>6. BackHeld(B, p, 3, t) <=> TRUE
  BY <1>1 DEF BackHeld
<1> QED BY <1>2, <1>3, <1>4, <1>5, <1>6 DEF PassHeld

LEMMA Holds_headBack4 ==
    ASSUME NEW t, NEW B
    PROVE  PassHeld(B, Place("headBack", 0, 0), 4, t) <=>
              /\ B[Tmp("tokens")] = Tokens(t)
              /\ LayersTo(B, NLayer, {}, t)
              /\ B[Tmp("xhat_lnf")] = Tensor("ln_f_xhat", 0, t)
              /\ B[Tmp("inv_std_lnf")] = Tensor("ln_f_inv_std", 0, t)
              /\ B[Tmp("dlogits")] = Tensor("dlogits", 0, t)
              /\ B[Tmp("lnf_y")] = Tensor("d_ln_f_y", 0, t)
              /\ B[Tmp("loss")] = Tensor("loss", 0, t)
<1> PICK p : p = Place("headBack", 0, 0)
  OBVIOUS
<1>1. /\ p[1] = "headBack" /\ p[2] = 0 /\ p[3] = 0
      /\ ForwardLayer(p) = NLayer /\ ForwardOp(p, 4) = 0
  BY At_headBack
<1>2. LayersHeld(B, p, 4, t) <=> LayersTo(B, NLayer, {}, t)
  <2>1. \A n \in PerLayer, m \in Layers : Made(n, m, p, 4) <=> m < NLayer
    <3>1. \A n \in PerLayer : MadeAt(n) \in Nat /\ ~(MadeAt(n) < 0)
      BY DEF PerLayer, MadeAt
    <3> QED BY <1>1, <3>1 DEF Made
  <2> QED BY <2>1 DEF LayersHeld, LayersTo
<1>3. HiddenHeld(B, p, 4, t) <=> TRUE
  BY <1>1 DEF HiddenHeld
<1>4. HeadHeld(B, p, 4, t) <=> (B[Tmp("xhat_lnf")] = Tensor("ln_f_xhat", 0, t)
                  /\ B[Tmp("inv_std_lnf")] = Tensor("ln_f_inv_std", 0, t) /\ B[Tmp("dlogits")]
                       = Tensor("dlogits", 0, t) /\ B[Tmp("lnf_y")] = Tensor("d_ln_f_y", 0, t))
  BY <1>1 DEF HeadHeld, NormHeld
<1>5. LossHeld(B, p, t) <=> (B[Tmp("loss")] = Tensor("loss", 0, t))
  BY <1>1 DEF LossHeld
<1>6. BackHeld(B, p, 4, t) <=> TRUE
  BY <1>1 DEF BackHeld
<1> QED BY <1>2, <1>3, <1>4, <1>5, <1>6 DEF PassHeld

LEMMA Holds_headBack5 ==
    ASSUME NEW t, NEW B
    PROVE  PassHeld(B, Place("headBack", 0, 0), 5, t) <=>
              /\ B[Tmp("tokens")] = Tokens(t)
              /\ LayersTo(B, NLayer, {}, t)
              /\ B[Tmp("xhat_lnf")] = Tensor("ln_f_xhat", 0, t)
              /\ B[Tmp("inv_std_lnf")] = Tensor("ln_f_inv_std", 0, t)
              /\ B[Tmp("dlogits")] = Tensor("dlogits", 0, t)
              /\ B[Tmp("lnf_y")] = Tensor("d_ln_f_y", 0, t)
              /\ B[Tmp("dh")] = DH(NLayer, t)
              /\ B[Tmp("loss")] = Tensor("loss", 0, t)
<1> PICK p : p = Place("headBack", 0, 0)
  OBVIOUS
<1>1. /\ p[1] = "headBack" /\ p[2] = 0 /\ p[3] = 0
      /\ ForwardLayer(p) = NLayer /\ ForwardOp(p, 5) = 0
  BY At_headBack
<1>2. LayersHeld(B, p, 5, t) <=> LayersTo(B, NLayer, {}, t)
  <2>1. \A n \in PerLayer, m \in Layers : Made(n, m, p, 5) <=> m < NLayer
    <3>1. \A n \in PerLayer : MadeAt(n) \in Nat /\ ~(MadeAt(n) < 0)
      BY DEF PerLayer, MadeAt
    <3> QED BY <1>1, <3>1 DEF Made
  <2> QED BY <2>1 DEF LayersHeld, LayersTo
<1>3. HiddenHeld(B, p, 5, t) <=> TRUE
  BY <1>1 DEF HiddenHeld
<1>4. HeadHeld(B, p, 5, t) <=> (B[Tmp("xhat_lnf")] = Tensor("ln_f_xhat", 0, t)
                  /\ B[Tmp("inv_std_lnf")] = Tensor("ln_f_inv_std", 0, t) /\ B[Tmp("dlogits")]
                       = Tensor("dlogits", 0, t) /\ B[Tmp("lnf_y")] = Tensor("d_ln_f_y", 0, t)
                           /\ B[Tmp("dh")] = DH(NLayer, t))
  BY <1>1 DEF HeadHeld, NormHeld
<1>5. LossHeld(B, p, t) <=> (B[Tmp("loss")] = Tensor("loss", 0, t))
  BY <1>1 DEF LossHeld
<1>6. BackHeld(B, p, 5, t) <=> TRUE
  BY <1>1 DEF BackHeld
<1> QED BY <1>2, <1>3, <1>4, <1>5, <1>6 DEF PassHeld

LEMMA Holds_mlpBack1 ==
    ASSUME NEW l \in Layers, NEW t, NEW B
    PROVE  PassHeld(B, Place("mlpBack", l, 0), 1, t) <=>
              /\ B[Tmp("tokens")] = Tokens(t)
              /\ LayersTo(B, NLayer, {}, t)
              /\ B[Tmp("dh")] = DH(l + 1, t)
              /\ B[Tmp("loss")] = Tensor("loss", 0, t)
<1> PICK p : p = Place("mlpBack", l, 0)
  OBVIOUS
<1>1. /\ p[1] = "mlpBack" /\ p[2] = l /\ p[3] = 0
      /\ ForwardLayer(p) = NLayer /\ ForwardOp(p, 1) = 0
  BY At_mlpBack
<1>2. LayersHeld(B, p, 1, t) <=> LayersTo(B, NLayer, {}, t)
  <2>1. \A n \in PerLayer, m \in Layers : Made(n, m, p, 1) <=> m < NLayer
    <3>1. \A n \in PerLayer : MadeAt(n) \in Nat /\ ~(MadeAt(n) < 0)
      BY DEF PerLayer, MadeAt
    <3> QED BY <1>1, <3>1 DEF Made
  <2> QED BY <2>1 DEF LayersHeld, LayersTo
<1>3. HiddenHeld(B, p, 1, t) <=> TRUE
  BY <1>1 DEF HiddenHeld
<1>4. HeadHeld(B, p, 1, t) <=> TRUE
  BY <1>1 DEF HeadHeld, NormHeld
<1>5. LossHeld(B, p, t) <=> (B[Tmp("loss")] = Tensor("loss", 0, t))
  BY <1>1 DEF LossHeld
<1>6. BackHeld(B, p, 1, t) <=> (B[Tmp("dh")] = DH(l + 1, t))
  BY <1>1 DEF BackHeld
<1> QED BY <1>2, <1>3, <1>4, <1>5, <1>6 DEF PassHeld

LEMMA Holds_mlpBack2 ==
    ASSUME NEW l \in Layers, NEW t, NEW B
    PROVE  PassHeld(B, Place("mlpBack", l, 0), 2, t) <=>
              /\ B[Tmp("tokens")] = Tokens(t)
              /\ LayersTo(B, NLayer, {}, t)
              /\ B[Tmp("dh")] = DH(l + 1, t)
              /\ B[Tmp("loss")] = Tensor("loss", 0, t)
<1> PICK p : p = Place("mlpBack", l, 0)
  OBVIOUS
<1>1. /\ p[1] = "mlpBack" /\ p[2] = l /\ p[3] = 0
      /\ ForwardLayer(p) = NLayer /\ ForwardOp(p, 2) = 0
  BY At_mlpBack
<1>2. LayersHeld(B, p, 2, t) <=> LayersTo(B, NLayer, {}, t)
  <2>1. \A n \in PerLayer, m \in Layers : Made(n, m, p, 2) <=> m < NLayer
    <3>1. \A n \in PerLayer : MadeAt(n) \in Nat /\ ~(MadeAt(n) < 0)
      BY DEF PerLayer, MadeAt
    <3> QED BY <1>1, <3>1 DEF Made
  <2> QED BY <2>1 DEF LayersHeld, LayersTo
<1>3. HiddenHeld(B, p, 2, t) <=> TRUE
  BY <1>1 DEF HiddenHeld
<1>4. HeadHeld(B, p, 2, t) <=> TRUE
  BY <1>1 DEF HeadHeld, NormHeld
<1>5. LossHeld(B, p, t) <=> (B[Tmp("loss")] = Tensor("loss", 0, t))
  BY <1>1 DEF LossHeld
<1>6. BackHeld(B, p, 2, t) <=> (B[Tmp("dh")] = DH(l + 1, t))
  BY <1>1 DEF BackHeld
<1> QED BY <1>2, <1>3, <1>4, <1>5, <1>6 DEF PassHeld

LEMMA Holds_mlpBack3 ==
    ASSUME NEW l \in Layers, NEW t, NEW B
    PROVE  PassHeld(B, Place("mlpBack", l, 0), 3, t) <=>
              /\ B[Tmp("tokens")] = Tokens(t)
              /\ LayersTo(B, NLayer, {}, t)
              /\ B[Tmp("dh")] = DH(l + 1, t)
              /\ B[Tmp("loss")] = Tensor("loss", 0, t)
<1> PICK p : p = Place("mlpBack", l, 0)
  OBVIOUS
<1>1. /\ p[1] = "mlpBack" /\ p[2] = l /\ p[3] = 0
      /\ ForwardLayer(p) = NLayer /\ ForwardOp(p, 3) = 0
  BY At_mlpBack
<1>2. LayersHeld(B, p, 3, t) <=> LayersTo(B, NLayer, {}, t)
  <2>1. \A n \in PerLayer, m \in Layers : Made(n, m, p, 3) <=> m < NLayer
    <3>1. \A n \in PerLayer : MadeAt(n) \in Nat /\ ~(MadeAt(n) < 0)
      BY DEF PerLayer, MadeAt
    <3> QED BY <1>1, <3>1 DEF Made
  <2> QED BY <2>1 DEF LayersHeld, LayersTo
<1>3. HiddenHeld(B, p, 3, t) <=> TRUE
  BY <1>1 DEF HiddenHeld
<1>4. HeadHeld(B, p, 3, t) <=> TRUE
  BY <1>1 DEF HeadHeld, NormHeld
<1>5. LossHeld(B, p, t) <=> (B[Tmp("loss")] = Tensor("loss", 0, t))
  BY <1>1 DEF LossHeld
<1>6. BackHeld(B, p, 3, t) <=> (B[Tmp("dh")] = DH(l + 1, t))
  BY <1>1 DEF BackHeld
<1> QED BY <1>2, <1>3, <1>4, <1>5, <1>6 DEF PassHeld

LEMMA Holds_mlpBack4 ==
    ASSUME NEW l \in Layers, NEW t, NEW B
    PROVE  PassHeld(B, Place("mlpBack", l, 0), 4, t) <=>
              /\ B[Tmp("tokens")] = Tokens(t)
              /\ LayersTo(B, NLayer, {}, t)
              /\ B[Tmp("dh")] = DH(l + 1, t)
              /\ B[Tmp("d_mlp")] = Tensor("d_mlp_gelu", l, t)
              /\ B[Tmp("loss")] = Tensor("loss", 0, t)
<1> PICK p : p = Place("mlpBack", l, 0)
  OBVIOUS
<1>1. /\ p[1] = "mlpBack" /\ p[2] = l /\ p[3] = 0
      /\ ForwardLayer(p) = NLayer /\ ForwardOp(p, 4) = 0
  BY At_mlpBack
<1>2. LayersHeld(B, p, 4, t) <=> LayersTo(B, NLayer, {}, t)
  <2>1. \A n \in PerLayer, m \in Layers : Made(n, m, p, 4) <=> m < NLayer
    <3>1. \A n \in PerLayer : MadeAt(n) \in Nat /\ ~(MadeAt(n) < 0)
      BY DEF PerLayer, MadeAt
    <3> QED BY <1>1, <3>1 DEF Made
  <2> QED BY <2>1 DEF LayersHeld, LayersTo
<1>3. HiddenHeld(B, p, 4, t) <=> TRUE
  BY <1>1 DEF HiddenHeld
<1>4. HeadHeld(B, p, 4, t) <=> TRUE
  BY <1>1 DEF HeadHeld, NormHeld
<1>5. LossHeld(B, p, t) <=> (B[Tmp("loss")] = Tensor("loss", 0, t))
  BY <1>1 DEF LossHeld
<1>6. BackHeld(B, p, 4, t)
                  <=> (B[Tmp("dh")] = DH(l + 1, t) /\ B[Tmp("d_mlp")] = Tensor("d_mlp_gelu", l,
                      t))
  BY <1>1 DEF BackHeld
<1> QED BY <1>2, <1>3, <1>4, <1>5, <1>6 DEF PassHeld

LEMMA Holds_mlpBack5 ==
    ASSUME NEW l \in Layers, NEW t, NEW B
    PROVE  PassHeld(B, Place("mlpBack", l, 0), 5, t) <=>
              /\ B[Tmp("tokens")] = Tokens(t)
              /\ LayersTo(B, NLayer, {}, t)
              /\ B[Tmp("dh")] = DH(l + 1, t)
              /\ B[Tmp("d_mlp")] = Tensor("d_mlp_pre", l, t)
              /\ B[Tmp("loss")] = Tensor("loss", 0, t)
<1> PICK p : p = Place("mlpBack", l, 0)
  OBVIOUS
<1>1. /\ p[1] = "mlpBack" /\ p[2] = l /\ p[3] = 0
      /\ ForwardLayer(p) = NLayer /\ ForwardOp(p, 5) = 0
  BY At_mlpBack
<1>2. LayersHeld(B, p, 5, t) <=> LayersTo(B, NLayer, {}, t)
  <2>1. \A n \in PerLayer, m \in Layers : Made(n, m, p, 5) <=> m < NLayer
    <3>1. \A n \in PerLayer : MadeAt(n) \in Nat /\ ~(MadeAt(n) < 0)
      BY DEF PerLayer, MadeAt
    <3> QED BY <1>1, <3>1 DEF Made
  <2> QED BY <2>1 DEF LayersHeld, LayersTo
<1>3. HiddenHeld(B, p, 5, t) <=> TRUE
  BY <1>1 DEF HiddenHeld
<1>4. HeadHeld(B, p, 5, t) <=> TRUE
  BY <1>1 DEF HeadHeld, NormHeld
<1>5. LossHeld(B, p, t) <=> (B[Tmp("loss")] = Tensor("loss", 0, t))
  BY <1>1 DEF LossHeld
<1>6. BackHeld(B, p, 5, t)
                  <=> (B[Tmp("dh")] = DH(l + 1, t) /\ B[Tmp("d_mlp")] = Tensor("d_mlp_pre", l,
                      t))
  BY <1>1 DEF BackHeld
<1> QED BY <1>2, <1>3, <1>4, <1>5, <1>6 DEF PassHeld

LEMMA Holds_mlpBack6 ==
    ASSUME NEW l \in Layers, NEW t, NEW B
    PROVE  PassHeld(B, Place("mlpBack", l, 0), 6, t) <=>
              /\ B[Tmp("tokens")] = Tokens(t)
              /\ LayersTo(B, NLayer, {}, t)
              /\ B[Tmp("dh")] = DH(l + 1, t)
              /\ B[Tmp("d_mlp")] = Tensor("d_mlp_pre", l, t)
              /\ B[Tmp("loss")] = Tensor("loss", 0, t)
<1> PICK p : p = Place("mlpBack", l, 0)
  OBVIOUS
<1>1. /\ p[1] = "mlpBack" /\ p[2] = l /\ p[3] = 0
      /\ ForwardLayer(p) = NLayer /\ ForwardOp(p, 6) = 0
  BY At_mlpBack
<1>2. LayersHeld(B, p, 6, t) <=> LayersTo(B, NLayer, {}, t)
  <2>1. \A n \in PerLayer, m \in Layers : Made(n, m, p, 6) <=> m < NLayer
    <3>1. \A n \in PerLayer : MadeAt(n) \in Nat /\ ~(MadeAt(n) < 0)
      BY DEF PerLayer, MadeAt
    <3> QED BY <1>1, <3>1 DEF Made
  <2> QED BY <2>1 DEF LayersHeld, LayersTo
<1>3. HiddenHeld(B, p, 6, t) <=> TRUE
  BY <1>1 DEF HiddenHeld
<1>4. HeadHeld(B, p, 6, t) <=> TRUE
  BY <1>1 DEF HeadHeld, NormHeld
<1>5. LossHeld(B, p, t) <=> (B[Tmp("loss")] = Tensor("loss", 0, t))
  BY <1>1 DEF LossHeld
<1>6. BackHeld(B, p, 6, t)
                  <=> (B[Tmp("dh")] = DH(l + 1, t) /\ B[Tmp("d_mlp")] = Tensor("d_mlp_pre", l,
                      t))
  BY <1>1 DEF BackHeld
<1> QED BY <1>2, <1>3, <1>4, <1>5, <1>6 DEF PassHeld

LEMMA Holds_mlpBack7 ==
    ASSUME NEW l \in Layers, NEW t, NEW B
    PROVE  PassHeld(B, Place("mlpBack", l, 0), 7, t) <=>
              /\ B[Tmp("tokens")] = Tokens(t)
              /\ LayersTo(B, NLayer, {}, t)
              /\ B[Tmp("dh")] = DH(l + 1, t)
              /\ B[Tmp("d_mlp")] = Tensor("d_mlp_pre", l, t)
              /\ B[Tmp("loss")] = Tensor("loss", 0, t)
<1> PICK p : p = Place("mlpBack", l, 0)
  OBVIOUS
<1>1. /\ p[1] = "mlpBack" /\ p[2] = l /\ p[3] = 0
      /\ ForwardLayer(p) = NLayer /\ ForwardOp(p, 7) = 0
  BY At_mlpBack
<1>2. LayersHeld(B, p, 7, t) <=> LayersTo(B, NLayer, {}, t)
  <2>1. \A n \in PerLayer, m \in Layers : Made(n, m, p, 7) <=> m < NLayer
    <3>1. \A n \in PerLayer : MadeAt(n) \in Nat /\ ~(MadeAt(n) < 0)
      BY DEF PerLayer, MadeAt
    <3> QED BY <1>1, <3>1 DEF Made
  <2> QED BY <2>1 DEF LayersHeld, LayersTo
<1>3. HiddenHeld(B, p, 7, t) <=> TRUE
  BY <1>1 DEF HiddenHeld
<1>4. HeadHeld(B, p, 7, t) <=> TRUE
  BY <1>1 DEF HeadHeld, NormHeld
<1>5. LossHeld(B, p, t) <=> (B[Tmp("loss")] = Tensor("loss", 0, t))
  BY <1>1 DEF LossHeld
<1>6. BackHeld(B, p, 7, t)
                  <=> (B[Tmp("dh")] = DH(l + 1, t) /\ B[Tmp("d_mlp")] = Tensor("d_mlp_pre", l,
                      t))
  BY <1>1 DEF BackHeld
<1> QED BY <1>2, <1>3, <1>4, <1>5, <1>6 DEF PassHeld

LEMMA Holds_mlpBack8 ==
    ASSUME NEW l \in Layers, NEW t, NEW B
    PROVE  PassHeld(B, Place("mlpBack", l, 0), 8, t) <=>
              /\ B[Tmp("tokens")] = Tokens(t)
              /\ LayersTo(B, NLayer, {}, t)
              /\ B[Tmp("dh")] = DH(l + 1, t)
              /\ B[Tmp("d_qkv")] = Tensor("d_ln2_y", l, t)
              /\ B[Tmp("loss")] = Tensor("loss", 0, t)
<1> PICK p : p = Place("mlpBack", l, 0)
  OBVIOUS
<1>1. /\ p[1] = "mlpBack" /\ p[2] = l /\ p[3] = 0
      /\ ForwardLayer(p) = NLayer /\ ForwardOp(p, 8) = 0
  BY At_mlpBack
<1>2. LayersHeld(B, p, 8, t) <=> LayersTo(B, NLayer, {}, t)
  <2>1. \A n \in PerLayer, m \in Layers : Made(n, m, p, 8) <=> m < NLayer
    <3>1. \A n \in PerLayer : MadeAt(n) \in Nat /\ ~(MadeAt(n) < 0)
      BY DEF PerLayer, MadeAt
    <3> QED BY <1>1, <3>1 DEF Made
  <2> QED BY <2>1 DEF LayersHeld, LayersTo
<1>3. HiddenHeld(B, p, 8, t) <=> TRUE
  BY <1>1 DEF HiddenHeld
<1>4. HeadHeld(B, p, 8, t) <=> TRUE
  BY <1>1 DEF HeadHeld, NormHeld
<1>5. LossHeld(B, p, t) <=> (B[Tmp("loss")] = Tensor("loss", 0, t))
  BY <1>1 DEF LossHeld
<1>6. BackHeld(B, p, 8, t)
                  <=> (B[Tmp("dh")] = DH(l + 1, t) /\ B[Tmp("d_qkv")] = Tensor("d_ln2_y", l, t))
  BY <1>1 DEF BackHeld
<1> QED BY <1>2, <1>3, <1>4, <1>5, <1>6 DEF PassHeld

LEMMA Holds_mlpBack9 ==
    ASSUME NEW l \in Layers, NEW t, NEW B
    PROVE  PassHeld(B, Place("mlpBack", l, 0), 9, t) <=>
              /\ B[Tmp("tokens")] = Tokens(t)
              /\ LayersTo(B, NLayer, {}, t)
              /\ B[Tmp("dh")] = DHMid(l, t)
              /\ B[Tmp("d_qkv")] = Tensor("d_ln2_y", l, t)
              /\ B[Tmp("loss")] = Tensor("loss", 0, t)
<1> PICK p : p = Place("mlpBack", l, 0)
  OBVIOUS
<1>1. /\ p[1] = "mlpBack" /\ p[2] = l /\ p[3] = 0
      /\ ForwardLayer(p) = NLayer /\ ForwardOp(p, 9) = 0
  BY At_mlpBack
<1>2. LayersHeld(B, p, 9, t) <=> LayersTo(B, NLayer, {}, t)
  <2>1. \A n \in PerLayer, m \in Layers : Made(n, m, p, 9) <=> m < NLayer
    <3>1. \A n \in PerLayer : MadeAt(n) \in Nat /\ ~(MadeAt(n) < 0)
      BY DEF PerLayer, MadeAt
    <3> QED BY <1>1, <3>1 DEF Made
  <2> QED BY <2>1 DEF LayersHeld, LayersTo
<1>3. HiddenHeld(B, p, 9, t) <=> TRUE
  BY <1>1 DEF HiddenHeld
<1>4. HeadHeld(B, p, 9, t) <=> TRUE
  BY <1>1 DEF HeadHeld, NormHeld
<1>5. LossHeld(B, p, t) <=> (B[Tmp("loss")] = Tensor("loss", 0, t))
  BY <1>1 DEF LossHeld
<1>6. BackHeld(B, p, 9, t)
                  <=> (B[Tmp("dh")] = DHMid(l, t) /\ B[Tmp("d_qkv")] = Tensor("d_ln2_y", l, t))
  BY <1>1 DEF BackHeld
<1> QED BY <1>2, <1>3, <1>4, <1>5, <1>6 DEF PassHeld

LEMMA Holds_projBack1 ==
    ASSUME NEW l \in Layers, NEW t, NEW B
    PROVE  PassHeld(B, Place("projBack", l, 0), 1, t) <=>
              /\ B[Tmp("tokens")] = Tokens(t)
              /\ LayersTo(B, NLayer, {}, t)
              /\ B[Tmp("dh")] = DHMid(l, t)
              /\ B[Tmp("loss")] = Tensor("loss", 0, t)
<1> PICK p : p = Place("projBack", l, 0)
  OBVIOUS
<1>1. /\ p[1] = "projBack" /\ p[2] = l /\ p[3] = 0
      /\ ForwardLayer(p) = NLayer /\ ForwardOp(p, 1) = 0
  BY At_projBack
<1>2. LayersHeld(B, p, 1, t) <=> LayersTo(B, NLayer, {}, t)
  <2>1. \A n \in PerLayer, m \in Layers : Made(n, m, p, 1) <=> m < NLayer
    <3>1. \A n \in PerLayer : MadeAt(n) \in Nat /\ ~(MadeAt(n) < 0)
      BY DEF PerLayer, MadeAt
    <3> QED BY <1>1, <3>1 DEF Made
  <2> QED BY <2>1 DEF LayersHeld, LayersTo
<1>3. HiddenHeld(B, p, 1, t) <=> TRUE
  BY <1>1 DEF HiddenHeld
<1>4. HeadHeld(B, p, 1, t) <=> TRUE
  BY <1>1 DEF HeadHeld, NormHeld
<1>5. LossHeld(B, p, t) <=> (B[Tmp("loss")] = Tensor("loss", 0, t))
  BY <1>1 DEF LossHeld
<1>6. BackHeld(B, p, 1, t) <=> (B[Tmp("dh")] = DHMid(l, t))
  BY <1>1 DEF BackHeld
<1> QED BY <1>2, <1>3, <1>4, <1>5, <1>6 DEF PassHeld

LEMMA Holds_projBack2 ==
    ASSUME NEW l \in Layers, NEW t, NEW B
    PROVE  PassHeld(B, Place("projBack", l, 0), 2, t) <=>
              /\ B[Tmp("tokens")] = Tokens(t)
              /\ LayersTo(B, NLayer, {}, t)
              /\ B[Tmp("dh")] = DHMid(l, t)
              /\ B[Tmp("loss")] = Tensor("loss", 0, t)
<1> PICK p : p = Place("projBack", l, 0)
  OBVIOUS
<1>1. /\ p[1] = "projBack" /\ p[2] = l /\ p[3] = 0
      /\ ForwardLayer(p) = NLayer /\ ForwardOp(p, 2) = 0
  BY At_projBack
<1>2. LayersHeld(B, p, 2, t) <=> LayersTo(B, NLayer, {}, t)
  <2>1. \A n \in PerLayer, m \in Layers : Made(n, m, p, 2) <=> m < NLayer
    <3>1. \A n \in PerLayer : MadeAt(n) \in Nat /\ ~(MadeAt(n) < 0)
      BY DEF PerLayer, MadeAt
    <3> QED BY <1>1, <3>1 DEF Made
  <2> QED BY <2>1 DEF LayersHeld, LayersTo
<1>3. HiddenHeld(B, p, 2, t) <=> TRUE
  BY <1>1 DEF HiddenHeld
<1>4. HeadHeld(B, p, 2, t) <=> TRUE
  BY <1>1 DEF HeadHeld, NormHeld
<1>5. LossHeld(B, p, t) <=> (B[Tmp("loss")] = Tensor("loss", 0, t))
  BY <1>1 DEF LossHeld
<1>6. BackHeld(B, p, 2, t) <=> (B[Tmp("dh")] = DHMid(l, t))
  BY <1>1 DEF BackHeld
<1> QED BY <1>2, <1>3, <1>4, <1>5, <1>6 DEF PassHeld

LEMMA Holds_projBack3 ==
    ASSUME NEW l \in Layers, NEW t, NEW B
    PROVE  PassHeld(B, Place("projBack", l, 0), 3, t) <=>
              /\ B[Tmp("tokens")] = Tokens(t)
              /\ LayersTo(B, NLayer, {}, t)
              /\ B[Tmp("dh")] = DHMid(l, t)
              /\ B[Tmp("loss")] = Tensor("loss", 0, t)
<1> PICK p : p = Place("projBack", l, 0)
  OBVIOUS
<1>1. /\ p[1] = "projBack" /\ p[2] = l /\ p[3] = 0
      /\ ForwardLayer(p) = NLayer /\ ForwardOp(p, 3) = 0
  BY At_projBack
<1>2. LayersHeld(B, p, 3, t) <=> LayersTo(B, NLayer, {}, t)
  <2>1. \A n \in PerLayer, m \in Layers : Made(n, m, p, 3) <=> m < NLayer
    <3>1. \A n \in PerLayer : MadeAt(n) \in Nat /\ ~(MadeAt(n) < 0)
      BY DEF PerLayer, MadeAt
    <3> QED BY <1>1, <3>1 DEF Made
  <2> QED BY <2>1 DEF LayersHeld, LayersTo
<1>3. HiddenHeld(B, p, 3, t) <=> TRUE
  BY <1>1 DEF HiddenHeld
<1>4. HeadHeld(B, p, 3, t) <=> TRUE
  BY <1>1 DEF HeadHeld, NormHeld
<1>5. LossHeld(B, p, t) <=> (B[Tmp("loss")] = Tensor("loss", 0, t))
  BY <1>1 DEF LossHeld
<1>6. BackHeld(B, p, 3, t) <=> (B[Tmp("dh")] = DHMid(l, t))
  BY <1>1 DEF BackHeld
<1> QED BY <1>2, <1>3, <1>4, <1>5, <1>6 DEF PassHeld

LEMMA Holds_attnBack1 ==
    ASSUME NEW l \in Layers, NEW h \in Heads, NEW t, NEW B
    PROVE  PassHeld(B, Place("attnBack", l, h), 1, t) <=>
              /\ B[Tmp("tokens")] = Tokens(t)
              /\ LayersTo(B, NLayer, {}, t)
              /\ B[Tmp("dh")] = DHMid(l, t)
              /\ B[Tmp("lnf_y")] = Tensor("d_attn_out", l, t)
              /\ (h > 0 => B[Tmp("d_qkv")] = SetToBag(HeadGrads(l, h, 1, t)))
              /\ B[Tmp("loss")] = Tensor("loss", 0, t)
<1> PICK p : p = Place("attnBack", l, h)
  OBVIOUS
<1>1. /\ p[1] = "attnBack" /\ p[2] = l /\ p[3] = h
      /\ ForwardLayer(p) = NLayer /\ ForwardOp(p, 1) = 0
  BY At_attnBack
<1>2. LayersHeld(B, p, 1, t) <=> LayersTo(B, NLayer, {}, t)
  <2>1. \A n \in PerLayer, m \in Layers : Made(n, m, p, 1) <=> m < NLayer
    <3>1. \A n \in PerLayer : MadeAt(n) \in Nat /\ ~(MadeAt(n) < 0)
      BY DEF PerLayer, MadeAt
    <3> QED BY <1>1, <3>1 DEF Made
  <2> QED BY <2>1 DEF LayersHeld, LayersTo
<1>3. HiddenHeld(B, p, 1, t) <=> TRUE
  BY <1>1 DEF HiddenHeld
<1>4. HeadHeld(B, p, 1, t) <=> TRUE
  BY <1>1 DEF HeadHeld, NormHeld
<1>5. LossHeld(B, p, t) <=> (B[Tmp("loss")] = Tensor("loss", 0, t))
  BY <1>1 DEF LossHeld
<1>6. BackHeld(B, p, 1, t)
                  <=> (B[Tmp("dh")] = DHMid(l, t) /\ B[Tmp("lnf_y")] = Tensor("d_attn_out", l,
                      t) /\ (h > 0 => B[Tmp("d_qkv")] = SetToBag(HeadGrads(l, h, 1, t))))
  BY <1>1 DEF BackHeld
<1> QED BY <1>2, <1>3, <1>4, <1>5, <1>6 DEF PassHeld

LEMMA Holds_attnBack2 ==
    ASSUME NEW l \in Layers, NEW h \in Heads, NEW t, NEW B
    PROVE  PassHeld(B, Place("attnBack", l, h), 2, t) <=>
              /\ B[Tmp("tokens")] = Tokens(t)
              /\ LayersTo(B, NLayer, {}, t)
              /\ B[Tmp("dh")] = DHMid(l, t)
              /\ B[Tmp("lnf_y")] = Tensor("d_attn_out", l, t)
              /\ B[Tmp("d_qkv")] = SetToBag(HeadGrads(l, h, 2, t))
              /\ B[Tmp("dP_tmp")] = Only(Named("dP", l, h, t))
              /\ B[Tmp("loss")] = Tensor("loss", 0, t)
<1> PICK p : p = Place("attnBack", l, h)
  OBVIOUS
<1>1. /\ p[1] = "attnBack" /\ p[2] = l /\ p[3] = h
      /\ ForwardLayer(p) = NLayer /\ ForwardOp(p, 2) = 0
  BY At_attnBack
<1>2. LayersHeld(B, p, 2, t) <=> LayersTo(B, NLayer, {}, t)
  <2>1. \A n \in PerLayer, m \in Layers : Made(n, m, p, 2) <=> m < NLayer
    <3>1. \A n \in PerLayer : MadeAt(n) \in Nat /\ ~(MadeAt(n) < 0)
      BY DEF PerLayer, MadeAt
    <3> QED BY <1>1, <3>1 DEF Made
  <2> QED BY <2>1 DEF LayersHeld, LayersTo
<1>3. HiddenHeld(B, p, 2, t) <=> TRUE
  BY <1>1 DEF HiddenHeld
<1>4. HeadHeld(B, p, 2, t) <=> TRUE
  BY <1>1 DEF HeadHeld, NormHeld
<1>5. LossHeld(B, p, t) <=> (B[Tmp("loss")] = Tensor("loss", 0, t))
  BY <1>1 DEF LossHeld
<1>6. BackHeld(B, p, 2, t)
                  <=> (B[Tmp("dh")] = DHMid(l, t) /\ B[Tmp("lnf_y")] = Tensor("d_attn_out", l,
                      t) /\ B[Tmp("d_qkv")] = SetToBag(HeadGrads(l, h, 2, t))
                          /\ B[Tmp("dP_tmp")] = Only(Named("dP", l, h, t)))
  BY <1>1 DEF BackHeld
<1> QED BY <1>2, <1>3, <1>4, <1>5, <1>6 DEF PassHeld

LEMMA Holds_attnBack3 ==
    ASSUME NEW l \in Layers, NEW h \in Heads, NEW t, NEW B
    PROVE  PassHeld(B, Place("attnBack", l, h), 3, t) <=>
              /\ B[Tmp("tokens")] = Tokens(t)
              /\ LayersTo(B, NLayer, {}, t)
              /\ B[Tmp("dh")] = DHMid(l, t)
              /\ B[Tmp("lnf_y")] = Tensor("d_attn_out", l, t)
              /\ B[Tmp("d_qkv")] = SetToBag(HeadGrads(l, h, 3, t))
              /\ B[Tmp("dP_tmp")] = Only(Named("dP", l, h, t))
              /\ B[Tmp("dot_row")] = Only(Named("dot", l, h, t))
              /\ B[Tmp("loss")] = Tensor("loss", 0, t)
<1> PICK p : p = Place("attnBack", l, h)
  OBVIOUS
<1>1. /\ p[1] = "attnBack" /\ p[2] = l /\ p[3] = h
      /\ ForwardLayer(p) = NLayer /\ ForwardOp(p, 3) = 0
  BY At_attnBack
<1>2. LayersHeld(B, p, 3, t) <=> LayersTo(B, NLayer, {}, t)
  <2>1. \A n \in PerLayer, m \in Layers : Made(n, m, p, 3) <=> m < NLayer
    <3>1. \A n \in PerLayer : MadeAt(n) \in Nat /\ ~(MadeAt(n) < 0)
      BY DEF PerLayer, MadeAt
    <3> QED BY <1>1, <3>1 DEF Made
  <2> QED BY <2>1 DEF LayersHeld, LayersTo
<1>3. HiddenHeld(B, p, 3, t) <=> TRUE
  BY <1>1 DEF HiddenHeld
<1>4. HeadHeld(B, p, 3, t) <=> TRUE
  BY <1>1 DEF HeadHeld, NormHeld
<1>5. LossHeld(B, p, t) <=> (B[Tmp("loss")] = Tensor("loss", 0, t))
  BY <1>1 DEF LossHeld
<1>6. BackHeld(B, p, 3, t)
                  <=> (B[Tmp("dh")] = DHMid(l, t) /\ B[Tmp("lnf_y")] = Tensor("d_attn_out", l,
                      t) /\ B[Tmp("d_qkv")] = SetToBag(HeadGrads(l, h, 3, t))
                          /\ B[Tmp("dP_tmp")] = Only(Named("dP", l, h, t)) /\ B[Tmp("dot_row")]
                               = Only(Named("dot", l, h, t)))
  BY <1>1 DEF BackHeld
<1> QED BY <1>2, <1>3, <1>4, <1>5, <1>6 DEF PassHeld

LEMMA Holds_qkvBack1 ==
    ASSUME NEW l \in Layers, NEW t, NEW B
    PROVE  PassHeld(B, Place("qkvBack", l, 0), 1, t) <=>
              /\ B[Tmp("tokens")] = Tokens(t)
              /\ LayersTo(B, NLayer, {}, t)
              /\ B[Tmp("dh")] = DHMid(l, t)
              /\ B[Tmp("d_qkv")] = DQkv(l, t)
              /\ B[Tmp("loss")] = Tensor("loss", 0, t)
<1> PICK p : p = Place("qkvBack", l, 0)
  OBVIOUS
<1>1. /\ p[1] = "qkvBack" /\ p[2] = l /\ p[3] = 0
      /\ ForwardLayer(p) = NLayer /\ ForwardOp(p, 1) = 0
  BY At_qkvBack
<1>2. LayersHeld(B, p, 1, t) <=> LayersTo(B, NLayer, {}, t)
  <2>1. \A n \in PerLayer, m \in Layers : Made(n, m, p, 1) <=> m < NLayer
    <3>1. \A n \in PerLayer : MadeAt(n) \in Nat /\ ~(MadeAt(n) < 0)
      BY DEF PerLayer, MadeAt
    <3> QED BY <1>1, <3>1 DEF Made
  <2> QED BY <2>1 DEF LayersHeld, LayersTo
<1>3. HiddenHeld(B, p, 1, t) <=> TRUE
  BY <1>1 DEF HiddenHeld
<1>4. HeadHeld(B, p, 1, t) <=> TRUE
  BY <1>1 DEF HeadHeld, NormHeld
<1>5. LossHeld(B, p, t) <=> (B[Tmp("loss")] = Tensor("loss", 0, t))
  BY <1>1 DEF LossHeld
<1>6. BackHeld(B, p, 1, t) <=> (B[Tmp("dh")] = DHMid(l, t) /\ B[Tmp("d_qkv")] = DQkv(l, t))
  BY <1>1 DEF BackHeld
<1> QED BY <1>2, <1>3, <1>4, <1>5, <1>6 DEF PassHeld

LEMMA Holds_qkvBack2 ==
    ASSUME NEW l \in Layers, NEW t, NEW B
    PROVE  PassHeld(B, Place("qkvBack", l, 0), 2, t) <=>
              /\ B[Tmp("tokens")] = Tokens(t)
              /\ LayersTo(B, NLayer, {}, t)
              /\ B[Tmp("dh")] = DHMid(l, t)
              /\ B[Tmp("d_qkv")] = DQkv(l, t)
              /\ B[Tmp("loss")] = Tensor("loss", 0, t)
<1> PICK p : p = Place("qkvBack", l, 0)
  OBVIOUS
<1>1. /\ p[1] = "qkvBack" /\ p[2] = l /\ p[3] = 0
      /\ ForwardLayer(p) = NLayer /\ ForwardOp(p, 2) = 0
  BY At_qkvBack
<1>2. LayersHeld(B, p, 2, t) <=> LayersTo(B, NLayer, {}, t)
  <2>1. \A n \in PerLayer, m \in Layers : Made(n, m, p, 2) <=> m < NLayer
    <3>1. \A n \in PerLayer : MadeAt(n) \in Nat /\ ~(MadeAt(n) < 0)
      BY DEF PerLayer, MadeAt
    <3> QED BY <1>1, <3>1 DEF Made
  <2> QED BY <2>1 DEF LayersHeld, LayersTo
<1>3. HiddenHeld(B, p, 2, t) <=> TRUE
  BY <1>1 DEF HiddenHeld
<1>4. HeadHeld(B, p, 2, t) <=> TRUE
  BY <1>1 DEF HeadHeld, NormHeld
<1>5. LossHeld(B, p, t) <=> (B[Tmp("loss")] = Tensor("loss", 0, t))
  BY <1>1 DEF LossHeld
<1>6. BackHeld(B, p, 2, t) <=> (B[Tmp("dh")] = DHMid(l, t) /\ B[Tmp("d_qkv")] = DQkv(l, t))
  BY <1>1 DEF BackHeld
<1> QED BY <1>2, <1>3, <1>4, <1>5, <1>6 DEF PassHeld

LEMMA Holds_qkvBack3 ==
    ASSUME NEW l \in Layers, NEW t, NEW B
    PROVE  PassHeld(B, Place("qkvBack", l, 0), 3, t) <=>
              /\ B[Tmp("tokens")] = Tokens(t)
              /\ LayersTo(B, NLayer, {}, t)
              /\ B[Tmp("dh")] = DHMid(l, t)
              /\ B[Tmp("d_qkv")] = DQkv(l, t)
              /\ B[Tmp("loss")] = Tensor("loss", 0, t)
<1> PICK p : p = Place("qkvBack", l, 0)
  OBVIOUS
<1>1. /\ p[1] = "qkvBack" /\ p[2] = l /\ p[3] = 0
      /\ ForwardLayer(p) = NLayer /\ ForwardOp(p, 3) = 0
  BY At_qkvBack
<1>2. LayersHeld(B, p, 3, t) <=> LayersTo(B, NLayer, {}, t)
  <2>1. \A n \in PerLayer, m \in Layers : Made(n, m, p, 3) <=> m < NLayer
    <3>1. \A n \in PerLayer : MadeAt(n) \in Nat /\ ~(MadeAt(n) < 0)
      BY DEF PerLayer, MadeAt
    <3> QED BY <1>1, <3>1 DEF Made
  <2> QED BY <2>1 DEF LayersHeld, LayersTo
<1>3. HiddenHeld(B, p, 3, t) <=> TRUE
  BY <1>1 DEF HiddenHeld
<1>4. HeadHeld(B, p, 3, t) <=> TRUE
  BY <1>1 DEF HeadHeld, NormHeld
<1>5. LossHeld(B, p, t) <=> (B[Tmp("loss")] = Tensor("loss", 0, t))
  BY <1>1 DEF LossHeld
<1>6. BackHeld(B, p, 3, t) <=> (B[Tmp("dh")] = DHMid(l, t) /\ B[Tmp("d_qkv")] = DQkv(l, t))
  BY <1>1 DEF BackHeld
<1> QED BY <1>2, <1>3, <1>4, <1>5, <1>6 DEF PassHeld

LEMMA Holds_qkvBack4 ==
    ASSUME NEW l \in Layers, NEW t, NEW B
    PROVE  PassHeld(B, Place("qkvBack", l, 0), 4, t) <=>
              /\ B[Tmp("tokens")] = Tokens(t)
              /\ LayersTo(B, NLayer, {}, t)
              /\ B[Tmp("dh")] = DHMid(l, t)
              /\ B[Tmp("d_qkv")] = DQkv(l, t)
              /\ B[Tmp("lnf_y")] = Tensor("d_ln1_y", l, t)
              /\ B[Tmp("loss")] = Tensor("loss", 0, t)
<1> PICK p : p = Place("qkvBack", l, 0)
  OBVIOUS
<1>1. /\ p[1] = "qkvBack" /\ p[2] = l /\ p[3] = 0
      /\ ForwardLayer(p) = NLayer /\ ForwardOp(p, 4) = 0
  BY At_qkvBack
<1>2. LayersHeld(B, p, 4, t) <=> LayersTo(B, NLayer, {}, t)
  <2>1. \A n \in PerLayer, m \in Layers : Made(n, m, p, 4) <=> m < NLayer
    <3>1. \A n \in PerLayer : MadeAt(n) \in Nat /\ ~(MadeAt(n) < 0)
      BY DEF PerLayer, MadeAt
    <3> QED BY <1>1, <3>1 DEF Made
  <2> QED BY <2>1 DEF LayersHeld, LayersTo
<1>3. HiddenHeld(B, p, 4, t) <=> TRUE
  BY <1>1 DEF HiddenHeld
<1>4. HeadHeld(B, p, 4, t) <=> TRUE
  BY <1>1 DEF HeadHeld, NormHeld
<1>5. LossHeld(B, p, t) <=> (B[Tmp("loss")] = Tensor("loss", 0, t))
  BY <1>1 DEF LossHeld
<1>6. BackHeld(B, p, 4, t) <=> (B[Tmp("dh")] = DHMid(l, t) /\ B[Tmp("d_qkv")] = DQkv(l, t)
                  /\ B[Tmp("lnf_y")] = Tensor("d_ln1_y", l, t))
  BY <1>1 DEF BackHeld
<1> QED BY <1>2, <1>3, <1>4, <1>5, <1>6 DEF PassHeld

LEMMA Holds_qkvBack5 ==
    ASSUME NEW l \in Layers, NEW t, NEW B
    PROVE  PassHeld(B, Place("qkvBack", l, 0), 5, t) <=>
              /\ B[Tmp("tokens")] = Tokens(t)
              /\ LayersTo(B, NLayer, {}, t)
              /\ B[Tmp("dh")] = DH(l, t)
              /\ B[Tmp("d_qkv")] = DQkv(l, t)
              /\ B[Tmp("lnf_y")] = Tensor("d_ln1_y", l, t)
              /\ B[Tmp("loss")] = Tensor("loss", 0, t)
<1> PICK p : p = Place("qkvBack", l, 0)
  OBVIOUS
<1>1. /\ p[1] = "qkvBack" /\ p[2] = l /\ p[3] = 0
      /\ ForwardLayer(p) = NLayer /\ ForwardOp(p, 5) = 0
  BY At_qkvBack
<1>2. LayersHeld(B, p, 5, t) <=> LayersTo(B, NLayer, {}, t)
  <2>1. \A n \in PerLayer, m \in Layers : Made(n, m, p, 5) <=> m < NLayer
    <3>1. \A n \in PerLayer : MadeAt(n) \in Nat /\ ~(MadeAt(n) < 0)
      BY DEF PerLayer, MadeAt
    <3> QED BY <1>1, <3>1 DEF Made
  <2> QED BY <2>1 DEF LayersHeld, LayersTo
<1>3. HiddenHeld(B, p, 5, t) <=> TRUE
  BY <1>1 DEF HiddenHeld
<1>4. HeadHeld(B, p, 5, t) <=> TRUE
  BY <1>1 DEF HeadHeld, NormHeld
<1>5. LossHeld(B, p, t) <=> (B[Tmp("loss")] = Tensor("loss", 0, t))
  BY <1>1 DEF LossHeld
<1>6. BackHeld(B, p, 5, t) <=> (B[Tmp("dh")] = DH(l, t) /\ B[Tmp("d_qkv")] = DQkv(l, t)
                  /\ B[Tmp("lnf_y")] = Tensor("d_ln1_y", l, t))
  BY <1>1 DEF BackHeld
<1> QED BY <1>2, <1>3, <1>4, <1>5, <1>6 DEF PassHeld

LEMMA Holds_embedBack1 ==
    ASSUME NEW t, NEW B
    PROVE  PassHeld(B, Place("embedBack", 0, 0), 1, t) <=>
              /\ B[Tmp("tokens")] = Tokens(t)
              /\ LayersTo(B, NLayer, {}, t)
              /\ B[Tmp("dh")] = DH(0, t)
              /\ B[Tmp("loss")] = Tensor("loss", 0, t)
<1> PICK p : p = Place("embedBack", 0, 0)
  OBVIOUS
<1>1. /\ p[1] = "embedBack" /\ p[2] = 0 /\ p[3] = 0
      /\ ForwardLayer(p) = NLayer /\ ForwardOp(p, 1) = 0
  BY At_embedBack
<1>2. LayersHeld(B, p, 1, t) <=> LayersTo(B, NLayer, {}, t)
  <2>1. \A n \in PerLayer, m \in Layers : Made(n, m, p, 1) <=> m < NLayer
    <3>1. \A n \in PerLayer : MadeAt(n) \in Nat /\ ~(MadeAt(n) < 0)
      BY DEF PerLayer, MadeAt
    <3> QED BY <1>1, <3>1 DEF Made
  <2> QED BY <2>1 DEF LayersHeld, LayersTo
<1>3. HiddenHeld(B, p, 1, t) <=> TRUE
  BY <1>1 DEF HiddenHeld
<1>4. HeadHeld(B, p, 1, t) <=> TRUE
  BY <1>1 DEF HeadHeld, NormHeld
<1>5. LossHeld(B, p, t) <=> (B[Tmp("loss")] = Tensor("loss", 0, t))
  BY <1>1 DEF LossHeld
<1>6. BackHeld(B, p, 1, t) <=> (B[Tmp("dh")] = DH(0, t))
  BY <1>1 DEF BackHeld
<1> QED BY <1>2, <1>3, <1>4, <1>5, <1>6 DEF PassHeld

LEMMA Holds_end1 ==
    ASSUME NEW t, NEW B
    PROVE  PassHeld(B, Place("end", 0, 0), 1, t) <=>
              /\ B[Tmp("tokens")] = Tokens(t)
              /\ LayersTo(B, NLayer, {}, t)
              /\ B[Tmp("loss")] = Tensor("loss", 0, t)
<1> PICK p : p = Place("end", 0, 0)
  OBVIOUS
<1>1. /\ p[1] = "end" /\ p[2] = 0 /\ p[3] = 0
      /\ ForwardLayer(p) = NLayer /\ ForwardOp(p, 1) = 0
  BY At_end
<1>2. LayersHeld(B, p, 1, t) <=> LayersTo(B, NLayer, {}, t)
  <2>1. \A n \in PerLayer, m \in Layers : Made(n, m, p, 1) <=> m < NLayer
    <3>1. \A n \in PerLayer : MadeAt(n) \in Nat /\ ~(MadeAt(n) < 0)
      BY DEF PerLayer, MadeAt
    <3> QED BY <1>1, <3>1 DEF Made
  <2> QED BY <2>1 DEF LayersHeld, LayersTo
<1>3. HiddenHeld(B, p, 1, t) <=> TRUE
  BY <1>1 DEF HiddenHeld
<1>4. HeadHeld(B, p, 1, t) <=> TRUE
  BY <1>1 DEF HeadHeld, NormHeld
<1>5. LossHeld(B, p, t) <=> (B[Tmp("loss")] = Tensor("loss", 0, t))
  BY <1>1 DEF LossHeld
<1>6. BackHeld(B, p, 1, t) <=> TRUE
  BY <1>1 DEF BackHeld
<1> QED BY <1>2, <1>3, <1>4, <1>5, <1>6 DEF PassHeld

-----------------------------------------------------------------------------
(* How one dispatch leads to the next                                        *)

\* One lemma per dispatch: when PassHeld holds before it and the buffers change as
\* it changes them, PassHeld holds before the next one. Where a part may be
\* followed by two others there is a lemma for each (a and b).
LEMMA Carry_embed1 ==
    ASSUME NEW t \in Passes, NEW B, NEW E,
           PassHeld(B, Place("embed", 0, 0), 1, t),
           Changes1(B, E, Act("h", 0), Tensor("embed", 0, t))
    PROVE  PassHeld(E, Place("attnForward", 0, 0), 1, t)
<1>1. /\ B[Tmp("tokens")] = Tokens(t)
      /\ LayersTo(B, 0, {}, t)
  BY Holds_embed1
<1>2. /\ E[Act("h", 0)] = Tensor("embed", 0, t)
      /\ \A b \in Buffers : b \notin {Act("h", 0)} => E[b] = B[b]
  BY DEF Changes1
<1>3. /\ E[Tmp("tokens")] = B[Tmp("tokens")]
  <2>1. /\ Tmp("tokens") \in Buffers
    BY SharedBuffers, LayerBuffers, HiddenBuffers, Parameters DEF Shared, PerLayer
  <2>2. /\ Tmp("tokens") \notin {Act("h", 0)}
    BY Tags, Parameters DEF Tmp, Layers
  <2> QED BY <1>2, <2>1, <2>2
<1>4. LayersTo(E, 0, {}, t)
  <2> SUFFICES ASSUME NEW n \in PerLayer, NEW m \in Layers, m < 0 \/ (m = 0 /\ n \in {})
               PROVE  E[Act(n, m)] = Tensor(ValueIn(n), m, t)
    BY DEF LayersTo
  <2>1. Act(n, m) \in Buffers
    BY LayerBuffers
  <2>2. Act(n, m) \notin {Act("h", 0)}
    BY Tags DEF Tmp, PerLayer
  <2>3. m < 0 \/ (m = 0 /\ n \in {})
    BY Parameters DEF Layers, PerLayer
  <2> QED BY <1>1, <1>2, <2>1, <2>2, <2>3 DEF LayersTo
<1>5. /\ E[Tmp("tokens")] = Tokens(t)
      /\ E[Act("h", 0)] = Hidden(0, t)
  <2> QED BY <1>1, <1>2, <1>3, HiddenFirst
<1>6. 0 \in Layers
  BY Parameters DEF Layers
<1> QED BY <1>4, <1>5, <1>6, Holds_attnForward1

LEMMA Carry_attnForward1 ==
    ASSUME NEW l \in Layers, NEW t \in Passes, NEW B, NEW E,
           PassHeld(B, Place("attnForward", l, 0), 1, t),
           Changes3(B, E, Act("ln1_y", l), Tensor("ln1_y", l, t),
                Act("xhat_ln1", l), Tensor("ln1_xhat", l, t),
                Act("inv_std_ln1", l), Tensor("ln1_inv_std", l, t))
    PROVE  PassHeld(E, Place("attnForward", l, 0), 2, t)
<1>1. /\ B[Tmp("tokens")] = Tokens(t)
      /\ LayersTo(B, l, {}, t)
      /\ B[Act("h", l)] = Hidden(l, t)
  BY Holds_attnForward1
<1>2. /\ E[Act("ln1_y", l)] = Tensor("ln1_y", l, t)
      /\ E[Act("xhat_ln1", l)] = Tensor("ln1_xhat", l, t)
      /\ E[Act("inv_std_ln1", l)] = Tensor("ln1_inv_std", l, t)
      /\ \A b \in Buffers : b \notin {Act("ln1_y", l), Act("xhat_ln1", l),
           Act("inv_std_ln1", l)} => E[b] = B[b]
  BY DEF Changes3
<1>3. /\ E[Tmp("tokens")] = B[Tmp("tokens")]
      /\ E[Act("h", l)] = B[Act("h", l)]
  <2>1. /\ Tmp("tokens") \in Buffers
        /\ Act("h", l) \in Buffers
    BY SharedBuffers, LayerBuffers, HiddenBuffers, Parameters DEF Shared, PerLayer
  <2>2. /\ Tmp("tokens") \notin {Act("ln1_y", l), Act("xhat_ln1", l), Act("inv_std_ln1", l)}
        /\ Act("h", l) \notin {Act("ln1_y", l), Act("xhat_ln1", l), Act("inv_std_ln1", l)}
    BY Tags, Parameters DEF Tmp, Layers
  <2> QED BY <1>2, <2>1, <2>2
<1>4. LayersTo(E, l, {"ln1_y", "xhat_ln1", "inv_std_ln1"}, t)
  <2> SUFFICES ASSUME NEW n \in PerLayer, NEW m \in Layers,
                      m < l \/ (m = l /\ n \in {"ln1_y", "xhat_ln1", "inv_std_ln1"})
               PROVE  E[Act(n, m)] = Tensor(ValueIn(n), m, t)
    BY DEF LayersTo
  <2>1. Act(n, m) \in Buffers
    BY LayerBuffers
  <2>2. CASE m = l /\ n \in {"ln1_y", "xhat_ln1", "inv_std_ln1"}
    BY <1>2, <2>2 DEF ValueIn
  <2>3. CASE ~(m = l /\ n \in {"ln1_y", "xhat_ln1", "inv_std_ln1"})
    <3>1. Act(n, m) \notin {Act("ln1_y", l), Act("xhat_ln1", l), Act("inv_std_ln1", l)}
      BY <2>3, Tags DEF Tmp
    <3>2. m < l \/ (m = l /\ n \in {})
      BY <2>3
    <3> QED BY <1>1, <1>2, <2>1, <3>1, <3>2 DEF LayersTo
  <2> QED BY <2>2, <2>3
<1>5. /\ E[Tmp("tokens")] = Tokens(t)
      /\ E[Act("h", l)] = Hidden(l, t)
  <2> QED BY <1>1, <1>2, <1>3
<1> QED BY <1>4, <1>5, Holds_attnForward2

LEMMA Carry_attnForward2 ==
    ASSUME NEW l \in Layers, NEW t \in Passes, NEW B, NEW E,
           PassHeld(B, Place("attnForward", l, 0), 2, t),
           Changes1(B, E, Act("qkv", l), Tensor("qkv", l, t))
    PROVE  PassHeld(E, Place("attnForward", l, 0), 3, t)
<1>1. /\ B[Tmp("tokens")] = Tokens(t)
      /\ LayersTo(B, l, {"ln1_y", "xhat_ln1", "inv_std_ln1"}, t)
      /\ B[Act("h", l)] = Hidden(l, t)
  BY Holds_attnForward2
<1>2. /\ E[Act("qkv", l)] = Tensor("qkv", l, t)
      /\ \A b \in Buffers : b \notin {Act("qkv", l)} => E[b] = B[b]
  BY DEF Changes1
<1>3. /\ E[Tmp("tokens")] = B[Tmp("tokens")]
      /\ E[Act("h", l)] = B[Act("h", l)]
  <2>1. /\ Tmp("tokens") \in Buffers
        /\ Act("h", l) \in Buffers
    BY SharedBuffers, LayerBuffers, HiddenBuffers, Parameters DEF Shared, PerLayer
  <2>2. /\ Tmp("tokens") \notin {Act("qkv", l)}
        /\ Act("h", l) \notin {Act("qkv", l)}
    BY Tags, Parameters DEF Tmp, Layers
  <2> QED BY <1>2, <2>1, <2>2
<1>4. LayersTo(E, l, {"ln1_y", "xhat_ln1", "inv_std_ln1", "qkv"}, t)
  <2> SUFFICES ASSUME NEW n \in PerLayer, NEW m \in Layers,
                      m < l \/ (m = l /\ n \in {"ln1_y", "xhat_ln1", "inv_std_ln1", "qkv"})
               PROVE  E[Act(n, m)] = Tensor(ValueIn(n), m, t)
    BY DEF LayersTo
  <2>1. Act(n, m) \in Buffers
    BY LayerBuffers
  <2>2. CASE m = l /\ n \in {"qkv"}
    BY <1>2, <2>2 DEF ValueIn
  <2>3. CASE ~(m = l /\ n \in {"qkv"})
    <3>1. Act(n, m) \notin {Act("qkv", l)}
      BY <2>3, Tags DEF Tmp
    <3>2. m < l \/ (m = l /\ n \in {"ln1_y", "xhat_ln1", "inv_std_ln1"})
      BY <2>3
    <3> QED BY <1>1, <1>2, <2>1, <3>1, <3>2 DEF LayersTo
  <2> QED BY <2>2, <2>3
<1>5. /\ E[Tmp("tokens")] = Tokens(t)
      /\ E[Act("h", l)] = Hidden(l, t)
  <2> QED BY <1>1, <1>2, <1>3
<1> QED BY <1>4, <1>5, Holds_attnForward3

LEMMA Carry_attnForward3 ==
    ASSUME NEW l \in Layers, NEW t \in Passes, NEW B, NEW E,
           PassHeld(B, Place("attnForward", l, 0), 3, t),
           Changes2(B, E, Act("attn_out", l), Tensor("attn_out", l, t),
                Act("P", l), Tensor("P", l, t))
    PROVE  PassHeld(E, Place("attnForward", l, 0), 4, t)
<1>1. /\ B[Tmp("tokens")] = Tokens(t)
      /\ LayersTo(B, l, {"ln1_y", "xhat_ln1", "inv_std_ln1", "qkv"}, t)
      /\ B[Act("h", l)] = Hidden(l, t)
  BY Holds_attnForward3
<1>2. /\ E[Act("attn_out", l)] = Tensor("attn_out", l, t)
      /\ E[Act("P", l)] = Tensor("P", l, t)
      /\ \A b \in Buffers : b \notin {Act("attn_out", l), Act("P", l)} => E[b] = B[b]
  BY DEF Changes2
<1>3. /\ E[Tmp("tokens")] = B[Tmp("tokens")]
      /\ E[Act("h", l)] = B[Act("h", l)]
  <2>1. /\ Tmp("tokens") \in Buffers
        /\ Act("h", l) \in Buffers
    BY SharedBuffers, LayerBuffers, HiddenBuffers, Parameters DEF Shared, PerLayer
  <2>2. /\ Tmp("tokens") \notin {Act("attn_out", l), Act("P", l)}
        /\ Act("h", l) \notin {Act("attn_out", l), Act("P", l)}
    BY Tags, Parameters DEF Tmp, Layers
  <2> QED BY <1>2, <2>1, <2>2
<1>4. LayersTo(E, l, {"ln1_y", "xhat_ln1", "inv_std_ln1", "qkv", "attn_out", "P"}, t)
  <2> SUFFICES ASSUME NEW n \in PerLayer, NEW m \in Layers,
                      m < l \/ (m = l /\ n \in {"ln1_y", "xhat_ln1", "inv_std_ln1", "qkv",
                          "attn_out", "P"})
               PROVE  E[Act(n, m)] = Tensor(ValueIn(n), m, t)
    BY DEF LayersTo
  <2>1. Act(n, m) \in Buffers
    BY LayerBuffers
  <2>2. CASE m = l /\ n \in {"attn_out", "P"}
    BY <1>2, <2>2 DEF ValueIn
  <2>3. CASE ~(m = l /\ n \in {"attn_out", "P"})
    <3>1. Act(n, m) \notin {Act("attn_out", l), Act("P", l)}
      BY <2>3, Tags DEF Tmp
    <3>2. m < l \/ (m = l /\ n \in {"ln1_y", "xhat_ln1", "inv_std_ln1", "qkv"})
      BY <2>3
    <3> QED BY <1>1, <1>2, <2>1, <3>1, <3>2 DEF LayersTo
  <2> QED BY <2>2, <2>3
<1>5. /\ E[Tmp("tokens")] = Tokens(t)
      /\ E[Act("h", l)] = Hidden(l, t)
  <2> QED BY <1>1, <1>2, <1>3
<1> QED BY <1>4, <1>5, Holds_attnForward4

LEMMA Carry_attnForward4 ==
    ASSUME NEW l \in Layers, NEW t \in Passes, NEW B, NEW E,
           PassHeld(B, Place("attnForward", l, 0), 4, t),
           Changes1(B, E, Tmp("dh"), Tensor("attn_proj", l, t))
    PROVE  PassHeld(E, Place("attnForward", l, 0), 5, t)
<1>1. /\ B[Tmp("tokens")] = Tokens(t)
      /\ LayersTo(B, l, {"ln1_y", "xhat_ln1", "inv_std_ln1", "qkv", "attn_out", "P"}, t)
      /\ B[Act("h", l)] = Hidden(l, t)
  BY Holds_attnForward4
<1>2. /\ E[Tmp("dh")] = Tensor("attn_proj", l, t)
      /\ \A b \in Buffers : b \notin {Tmp("dh")} => E[b] = B[b]
  BY DEF Changes1
<1>3. /\ E[Tmp("tokens")] = B[Tmp("tokens")]
      /\ E[Act("h", l)] = B[Act("h", l)]
  <2>1. /\ Tmp("tokens") \in Buffers
        /\ Act("h", l) \in Buffers
    BY SharedBuffers, LayerBuffers, HiddenBuffers, Parameters DEF Shared, PerLayer
  <2>2. /\ Tmp("tokens") \notin {Tmp("dh")}
        /\ Act("h", l) \notin {Tmp("dh")}
    BY Tags, Parameters DEF Tmp, Layers
  <2> QED BY <1>2, <2>1, <2>2
<1>4. LayersTo(E, l, {"ln1_y", "xhat_ln1", "inv_std_ln1", "qkv", "attn_out", "P"}, t)
  <2> SUFFICES ASSUME NEW n \in PerLayer, NEW m \in Layers,
                      m < l \/ (m = l /\ n \in {"ln1_y", "xhat_ln1", "inv_std_ln1", "qkv",
                          "attn_out", "P"})
               PROVE  E[Act(n, m)] = Tensor(ValueIn(n), m, t)
    BY DEF LayersTo
  <2>1. Act(n, m) \in Buffers
    BY LayerBuffers
  <2>2. Act(n, m) \notin {Tmp("dh")}
    BY Tags DEF Tmp, PerLayer
  <2>3. m < l \/ (m = l /\ n \in {"ln1_y", "xhat_ln1", "inv_std_ln1", "qkv", "attn_out", "P"})
    BY Parameters DEF Layers, PerLayer
  <2> QED BY <1>1, <1>2, <2>1, <2>2, <2>3 DEF LayersTo
<1>5. /\ E[Tmp("tokens")] = Tokens(t)
      /\ E[Act("h", l)] = Hidden(l, t)
      /\ E[Tmp("dh")] = Tensor("attn_proj", l, t)
  <2> QED BY <1>1, <1>2, <1>3
<1> QED BY <1>4, <1>5, Holds_attnForward5

LEMMA Carry_attnForward5 ==
    ASSUME NEW l \in Layers, NEW t \in Passes, NEW B, NEW E,
           PassHeld(B, Place("attnForward", l, 0), 5, t),
           Changes1(B, E, Act("h", l + 1), HiddenMid(l, t))
    PROVE  PassHeld(E, Place("mlpForward", l, 0), 1, t)
<1>1. /\ B[Tmp("tokens")] = Tokens(t)
      /\ LayersTo(B, l, {"ln1_y", "xhat_ln1", "inv_std_ln1", "qkv", "attn_out", "P"}, t)
      /\ B[Act("h", l)] = Hidden(l, t)
      /\ B[Tmp("dh")] = Tensor("attn_proj", l, t)
  BY Holds_attnForward5
<1>2. /\ E[Act("h", l + 1)] = HiddenMid(l, t)
      /\ \A b \in Buffers : b \notin {Act("h", l + 1)} => E[b] = B[b]
  BY DEF Changes1
<1>3. /\ E[Tmp("tokens")] = B[Tmp("tokens")]
  <2>1. /\ Tmp("tokens") \in Buffers
    BY SharedBuffers, LayerBuffers, HiddenBuffers, Parameters DEF Shared, PerLayer
  <2>2. /\ Tmp("tokens") \notin {Act("h", l + 1)}
    BY Tags, Parameters DEF Tmp, Layers
  <2> QED BY <1>2, <2>1, <2>2
<1>4. LayersTo(E, l, {"ln1_y", "xhat_ln1", "inv_std_ln1", "qkv", "attn_out", "P"}, t)
  <2> SUFFICES ASSUME NEW n \in PerLayer, NEW m \in Layers,
                      m < l \/ (m = l /\ n \in {"ln1_y", "xhat_ln1", "inv_std_ln1", "qkv",
                          "attn_out", "P"})
               PROVE  E[Act(n, m)] = Tensor(ValueIn(n), m, t)
    BY DEF LayersTo
  <2>1. Act(n, m) \in Buffers
    BY LayerBuffers
  <2>2. Act(n, m) \notin {Act("h", l + 1)}
    BY Tags DEF Tmp, PerLayer
  <2>3. m < l \/ (m = l /\ n \in {"ln1_y", "xhat_ln1", "inv_std_ln1", "qkv", "attn_out", "P"})
    BY Parameters DEF Layers, PerLayer
  <2> QED BY <1>1, <1>2, <2>1, <2>2, <2>3 DEF LayersTo
<1>5. /\ E[Tmp("tokens")] = Tokens(t)
      /\ E[Act("h", l + 1)] = HiddenMid(l, t)
  <2> QED BY <1>1, <1>2, <1>3
<1> QED BY <1>4, <1>5, Holds_mlpForward1

LEMMA Carry_mlpForward1 ==
    ASSUME NEW l \in Layers, NEW t \in Passes, NEW B, NEW E,
           PassHeld(B, Place("mlpForward", l, 0), 1, t),
           Changes3(B, E, Act("ln2_y", l), Tensor("ln2_y", l, t),
                Act("xhat_ln2", l), Tensor("ln2_xhat", l, t),
                Act("inv_std_ln2", l), Tensor("ln2_inv_std", l, t))
    PROVE  PassHeld(E, Place("mlpForward", l, 0), 2, t)
<1>1. /\ B[Tmp("tokens")] = Tokens(t)
      /\ LayersTo(B, l, {"ln1_y", "xhat_ln1", "inv_std_ln1", "qkv", "attn_out", "P"}, t)
      /\ B[Act("h", l + 1)] = HiddenMid(l, t)
  BY Holds_mlpForward1
<1>2. /\ E[Act("ln2_y", l)] = Tensor("ln2_y", l, t)
      /\ E[Act("xhat_ln2", l)] = Tensor("ln2_xhat", l, t)
      /\ E[Act("inv_std_ln2", l)] = Tensor("ln2_inv_std", l, t)
      /\ \A b \in Buffers : b \notin {Act("ln2_y", l), Act("xhat_ln2", l),
           Act("inv_std_ln2", l)} => E[b] = B[b]
  BY DEF Changes3
<1>3. /\ E[Tmp("tokens")] = B[Tmp("tokens")]
      /\ E[Act("h", l + 1)] = B[Act("h", l + 1)]
  <2>1. /\ Tmp("tokens") \in Buffers
        /\ Act("h", l + 1) \in Buffers
    BY SharedBuffers, LayerBuffers, HiddenBuffers, Parameters DEF Shared, PerLayer
  <2>2. /\ Tmp("tokens") \notin {Act("ln2_y", l), Act("xhat_ln2", l), Act("inv_std_ln2", l)}
        /\ Act("h", l + 1) \notin {Act("ln2_y", l), Act("xhat_ln2", l), Act("inv_std_ln2", l)}
    BY Tags, Parameters DEF Tmp, Layers
  <2> QED BY <1>2, <2>1, <2>2
<1>4. LayersTo(E, l, {"ln1_y", "xhat_ln1", "inv_std_ln1", "qkv", "attn_out", "P", "ln2_y",
                  "xhat_ln2", "inv_std_ln2"}, t)
  <2> SUFFICES ASSUME NEW n \in PerLayer, NEW m \in Layers,
                      m < l \/ (m = l /\ n \in {"ln1_y", "xhat_ln1", "inv_std_ln1", "qkv",
                          "attn_out", "P", "ln2_y", "xhat_ln2", "inv_std_ln2"})
               PROVE  E[Act(n, m)] = Tensor(ValueIn(n), m, t)
    BY DEF LayersTo
  <2>1. Act(n, m) \in Buffers
    BY LayerBuffers
  <2>2. CASE m = l /\ n \in {"ln2_y", "xhat_ln2", "inv_std_ln2"}
    BY <1>2, <2>2 DEF ValueIn
  <2>3. CASE ~(m = l /\ n \in {"ln2_y", "xhat_ln2", "inv_std_ln2"})
    <3>1. Act(n, m) \notin {Act("ln2_y", l), Act("xhat_ln2", l), Act("inv_std_ln2", l)}
      BY <2>3, Tags DEF Tmp
    <3>2. m < l \/ (m = l /\ n \in {"ln1_y", "xhat_ln1", "inv_std_ln1", "qkv", "attn_out", "P"})
      BY <2>3
    <3> QED BY <1>1, <1>2, <2>1, <3>1, <3>2 DEF LayersTo
  <2> QED BY <2>2, <2>3
<1>5. /\ E[Tmp("tokens")] = Tokens(t)
      /\ E[Act("h", l + 1)] = HiddenMid(l, t)
  <2> QED BY <1>1, <1>2, <1>3
<1> QED BY <1>4, <1>5, Holds_mlpForward2

LEMMA Carry_mlpForward2 ==
    ASSUME NEW l \in Layers, NEW t \in Passes, NEW B, NEW E,
           PassHeld(B, Place("mlpForward", l, 0), 2, t),
           Changes1(B, E, Act("mlp_pre", l), Tensor("mlp_pre", l, t))
    PROVE  PassHeld(E, Place("mlpForward", l, 0), 3, t)
<1>1. /\ B[Tmp("tokens")] = Tokens(t)
      /\ LayersTo(B, l, {"ln1_y", "xhat_ln1", "inv_std_ln1", "qkv", "attn_out", "P", "ln2_y",
           "xhat_ln2", "inv_std_ln2"}, t)
      /\ B[Act("h", l + 1)] = HiddenMid(l, t)
  BY Holds_mlpForward2
<1>2. /\ E[Act("mlp_pre", l)] = Tensor("mlp_pre", l, t)
      /\ \A b \in Buffers : b \notin {Act("mlp_pre", l)} => E[b] = B[b]
  BY DEF Changes1
<1>3. /\ E[Tmp("tokens")] = B[Tmp("tokens")]
      /\ E[Act("h", l + 1)] = B[Act("h", l + 1)]
  <2>1. /\ Tmp("tokens") \in Buffers
        /\ Act("h", l + 1) \in Buffers
    BY SharedBuffers, LayerBuffers, HiddenBuffers, Parameters DEF Shared, PerLayer
  <2>2. /\ Tmp("tokens") \notin {Act("mlp_pre", l)}
        /\ Act("h", l + 1) \notin {Act("mlp_pre", l)}
    BY Tags, Parameters DEF Tmp, Layers
  <2> QED BY <1>2, <2>1, <2>2
<1>4. LayersTo(E, l, {"ln1_y", "xhat_ln1", "inv_std_ln1", "qkv", "attn_out", "P", "ln2_y",
                  "xhat_ln2", "inv_std_ln2", "mlp_pre"}, t)
  <2> SUFFICES ASSUME NEW n \in PerLayer, NEW m \in Layers,
                      m < l \/ (m = l /\ n \in {"ln1_y", "xhat_ln1", "inv_std_ln1", "qkv",
                          "attn_out", "P", "ln2_y", "xhat_ln2", "inv_std_ln2", "mlp_pre"})
               PROVE  E[Act(n, m)] = Tensor(ValueIn(n), m, t)
    BY DEF LayersTo
  <2>1. Act(n, m) \in Buffers
    BY LayerBuffers
  <2>2. CASE m = l /\ n \in {"mlp_pre"}
    BY <1>2, <2>2 DEF ValueIn
  <2>3. CASE ~(m = l /\ n \in {"mlp_pre"})
    <3>1. Act(n, m) \notin {Act("mlp_pre", l)}
      BY <2>3, Tags DEF Tmp
    <3>2. m < l \/ (m = l /\ n \in {"ln1_y", "xhat_ln1", "inv_std_ln1", "qkv", "attn_out", "P",
              "ln2_y", "xhat_ln2", "inv_std_ln2"})
      BY <2>3
    <3> QED BY <1>1, <1>2, <2>1, <3>1, <3>2 DEF LayersTo
  <2> QED BY <2>2, <2>3
<1>5. /\ E[Tmp("tokens")] = Tokens(t)
      /\ E[Act("h", l + 1)] = HiddenMid(l, t)
  <2> QED BY <1>1, <1>2, <1>3
<1> QED BY <1>4, <1>5, Holds_mlpForward3

LEMMA Carry_mlpForward3 ==
    ASSUME NEW l \in Layers, NEW t \in Passes, NEW B, NEW E,
           PassHeld(B, Place("mlpForward", l, 0), 3, t),
           Changes1(B, E, Act("mlp_gelu", l), Tensor("mlp_gelu", l, t))
    PROVE  PassHeld(E, Place("mlpForward", l, 0), 4, t)
<1>1. /\ B[Tmp("tokens")] = Tokens(t)
      /\ LayersTo(B, l, {"ln1_y", "xhat_ln1", "inv_std_ln1", "qkv", "attn_out", "P", "ln2_y",
           "xhat_ln2", "inv_std_ln2", "mlp_pre"}, t)
      /\ B[Act("h", l + 1)] = HiddenMid(l, t)
  BY Holds_mlpForward3
<1>2. /\ E[Act("mlp_gelu", l)] = Tensor("mlp_gelu", l, t)
      /\ \A b \in Buffers : b \notin {Act("mlp_gelu", l)} => E[b] = B[b]
  BY DEF Changes1
<1>3. /\ E[Tmp("tokens")] = B[Tmp("tokens")]
      /\ E[Act("h", l + 1)] = B[Act("h", l + 1)]
  <2>1. /\ Tmp("tokens") \in Buffers
        /\ Act("h", l + 1) \in Buffers
    BY SharedBuffers, LayerBuffers, HiddenBuffers, Parameters DEF Shared, PerLayer
  <2>2. /\ Tmp("tokens") \notin {Act("mlp_gelu", l)}
        /\ Act("h", l + 1) \notin {Act("mlp_gelu", l)}
    BY Tags, Parameters DEF Tmp, Layers
  <2> QED BY <1>2, <2>1, <2>2
<1>4. LayersTo(E, l, {"ln1_y", "xhat_ln1", "inv_std_ln1", "qkv", "attn_out", "P", "ln2_y",
                  "xhat_ln2", "inv_std_ln2", "mlp_pre", "mlp_gelu"}, t)
  <2> SUFFICES ASSUME NEW n \in PerLayer, NEW m \in Layers,
                      m < l \/ (m = l /\ n \in {"ln1_y", "xhat_ln1", "inv_std_ln1", "qkv",
                          "attn_out", "P", "ln2_y", "xhat_ln2", "inv_std_ln2", "mlp_pre",
                              "mlp_gelu"})
               PROVE  E[Act(n, m)] = Tensor(ValueIn(n), m, t)
    BY DEF LayersTo
  <2>1. Act(n, m) \in Buffers
    BY LayerBuffers
  <2>2. CASE m = l /\ n \in {"mlp_gelu"}
    BY <1>2, <2>2 DEF ValueIn
  <2>3. CASE ~(m = l /\ n \in {"mlp_gelu"})
    <3>1. Act(n, m) \notin {Act("mlp_gelu", l)}
      BY <2>3, Tags DEF Tmp
    <3>2. m < l \/ (m = l /\ n \in {"ln1_y", "xhat_ln1", "inv_std_ln1", "qkv", "attn_out", "P",
              "ln2_y", "xhat_ln2", "inv_std_ln2", "mlp_pre"})
      BY <2>3
    <3> QED BY <1>1, <1>2, <2>1, <3>1, <3>2 DEF LayersTo
  <2> QED BY <2>2, <2>3
<1>5. /\ E[Tmp("tokens")] = Tokens(t)
      /\ E[Act("h", l + 1)] = HiddenMid(l, t)
  <2> QED BY <1>1, <1>2, <1>3
<1> QED BY <1>4, <1>5, Holds_mlpForward4

LEMMA Carry_mlpForward4 ==
    ASSUME NEW l \in Layers, NEW t \in Passes, NEW B, NEW E,
           PassHeld(B, Place("mlpForward", l, 0), 4, t),
           Changes1(B, E, Tmp("dh"), Tensor("mlp_out", l, t))
    PROVE  PassHeld(E, Place("mlpForward", l, 0), 5, t)
<1>1. /\ B[Tmp("tokens")] = Tokens(t)
      /\ LayersTo(B, l, {"ln1_y", "xhat_ln1", "inv_std_ln1", "qkv", "attn_out", "P", "ln2_y",
           "xhat_ln2", "inv_std_ln2", "mlp_pre", "mlp_gelu"}, t)
      /\ B[Act("h", l + 1)] = HiddenMid(l, t)
  BY Holds_mlpForward4
<1>2. /\ E[Tmp("dh")] = Tensor("mlp_out", l, t)
      /\ \A b \in Buffers : b \notin {Tmp("dh")} => E[b] = B[b]
  BY DEF Changes1
<1>3. /\ E[Tmp("tokens")] = B[Tmp("tokens")]
      /\ E[Act("h", l + 1)] = B[Act("h", l + 1)]
  <2>1. /\ Tmp("tokens") \in Buffers
        /\ Act("h", l + 1) \in Buffers
    BY SharedBuffers, LayerBuffers, HiddenBuffers, Parameters DEF Shared, PerLayer
  <2>2. /\ Tmp("tokens") \notin {Tmp("dh")}
        /\ Act("h", l + 1) \notin {Tmp("dh")}
    BY Tags, Parameters DEF Tmp, Layers
  <2> QED BY <1>2, <2>1, <2>2
<1>4. LayersTo(E, l, {"ln1_y", "xhat_ln1", "inv_std_ln1", "qkv", "attn_out", "P", "ln2_y",
                  "xhat_ln2", "inv_std_ln2", "mlp_pre", "mlp_gelu"}, t)
  <2> SUFFICES ASSUME NEW n \in PerLayer, NEW m \in Layers,
                      m < l \/ (m = l /\ n \in {"ln1_y", "xhat_ln1", "inv_std_ln1", "qkv",
                          "attn_out", "P", "ln2_y", "xhat_ln2", "inv_std_ln2", "mlp_pre",
                              "mlp_gelu"})
               PROVE  E[Act(n, m)] = Tensor(ValueIn(n), m, t)
    BY DEF LayersTo
  <2>1. Act(n, m) \in Buffers
    BY LayerBuffers
  <2>2. Act(n, m) \notin {Tmp("dh")}
    BY Tags DEF Tmp, PerLayer
  <2>3. m < l \/ (m = l /\ n \in {"ln1_y", "xhat_ln1", "inv_std_ln1", "qkv", "attn_out", "P",
            "ln2_y", "xhat_ln2", "inv_std_ln2", "mlp_pre", "mlp_gelu"})
    BY Parameters DEF Layers, PerLayer
  <2> QED BY <1>1, <1>2, <2>1, <2>2, <2>3 DEF LayersTo
<1>5. /\ E[Tmp("tokens")] = Tokens(t)
      /\ E[Act("h", l + 1)] = HiddenMid(l, t)
      /\ E[Tmp("dh")] = Tensor("mlp_out", l, t)
  <2> QED BY <1>1, <1>2, <1>3
<1> QED BY <1>4, <1>5, Holds_mlpForward5

LEMMA Carry_mlpForward5a ==
    ASSUME NEW l \in Layers, NEW t \in Passes, NEW B, NEW E,
           PassHeld(B, Place("mlpForward", l, 0), 5, t),
           Changes1(B, E, Act("h", l + 1), Hidden(l + 1, t)),
           l + 1 < NLayer
    PROVE  PassHeld(E, Place("attnForward", l + 1, 0), 1, t)
<1>1. /\ B[Tmp("tokens")] = Tokens(t)
      /\ LayersTo(B, l, {"ln1_y", "xhat_ln1", "inv_std_ln1", "qkv", "attn_out", "P", "ln2_y",
           "xhat_ln2", "inv_std_ln2", "mlp_pre", "mlp_gelu"}, t)
      /\ B[Act("h", l + 1)] = HiddenMid(l, t)
      /\ B[Tmp("dh")] = Tensor("mlp_out", l, t)
  BY Holds_mlpForward5
<1>2. /\ E[Act("h", l + 1)] = Hidden(l + 1, t)
      /\ \A b \in Buffers : b \notin {Act("h", l + 1)} => E[b] = B[b]
  BY DEF Changes1
<1>3. /\ E[Tmp("tokens")] = B[Tmp("tokens")]
  <2>1. /\ Tmp("tokens") \in Buffers
    BY SharedBuffers, LayerBuffers, HiddenBuffers, Parameters DEF Shared, PerLayer
  <2>2. /\ Tmp("tokens") \notin {Act("h", l + 1)}
    BY Tags, Parameters DEF Tmp, Layers
  <2> QED BY <1>2, <2>1, <2>2
<1>4. LayersTo(E, l + 1, {}, t)
  <2> SUFFICES ASSUME NEW n \in PerLayer, NEW m \in Layers, m < l + 1 \/ (m = l + 1 /\ n \in {})
               PROVE  E[Act(n, m)] = Tensor(ValueIn(n), m, t)
    BY DEF LayersTo
  <2>1. Act(n, m) \in Buffers
    BY LayerBuffers
  <2>2. Act(n, m) \notin {Act("h", l + 1)}
    BY Tags DEF Tmp, PerLayer
  <2>3. m < l \/ (m = l /\ n \in {"ln1_y", "xhat_ln1", "inv_std_ln1", "qkv", "attn_out", "P",
            "ln2_y", "xhat_ln2", "inv_std_ln2", "mlp_pre", "mlp_gelu"})
    BY Parameters DEF Layers, PerLayer
  <2> QED BY <1>1, <1>2, <2>1, <2>2, <2>3 DEF LayersTo
<1>5. /\ E[Tmp("tokens")] = Tokens(t)
      /\ E[Act("h", l + 1)] = Hidden(l + 1, t)
  <2> QED BY <1>1, <1>2, <1>3
<1>6. l + 1 \in Layers
  BY Parameters DEF Layers
<1> QED BY <1>4, <1>5, <1>6, Holds_attnForward1

LEMMA Carry_mlpForward5b ==
    ASSUME NEW l \in Layers, NEW t \in Passes, NEW B, NEW E,
           PassHeld(B, Place("mlpForward", l, 0), 5, t),
           Changes1(B, E, Act("h", l + 1), Hidden(l + 1, t)),
           ~(l + 1 < NLayer)
    PROVE  PassHeld(E, Place("head", 0, 0), 1, t)
<1>1. /\ B[Tmp("tokens")] = Tokens(t)
      /\ LayersTo(B, l, {"ln1_y", "xhat_ln1", "inv_std_ln1", "qkv", "attn_out", "P", "ln2_y",
           "xhat_ln2", "inv_std_ln2", "mlp_pre", "mlp_gelu"}, t)
      /\ B[Act("h", l + 1)] = HiddenMid(l, t)
      /\ B[Tmp("dh")] = Tensor("mlp_out", l, t)
  BY Holds_mlpForward5
<1>2. /\ E[Act("h", l + 1)] = Hidden(l + 1, t)
      /\ \A b \in Buffers : b \notin {Act("h", l + 1)} => E[b] = B[b]
  BY DEF Changes1
<1>3. /\ E[Tmp("tokens")] = B[Tmp("tokens")]
  <2>1. /\ Tmp("tokens") \in Buffers
    BY SharedBuffers, LayerBuffers, HiddenBuffers, Parameters DEF Shared, PerLayer
  <2>2. /\ Tmp("tokens") \notin {Act("h", l + 1)}
    BY Tags, Parameters DEF Tmp, Layers
  <2> QED BY <1>2, <2>1, <2>2
<1>4. LayersTo(E, NLayer, {}, t)
  <2> SUFFICES ASSUME NEW n \in PerLayer, NEW m \in Layers,
                      m < NLayer \/ (m = NLayer /\ n \in {})
               PROVE  E[Act(n, m)] = Tensor(ValueIn(n), m, t)
    BY DEF LayersTo
  <2>1. Act(n, m) \in Buffers
    BY LayerBuffers
  <2>2. Act(n, m) \notin {Act("h", l + 1)}
    BY Tags DEF Tmp, PerLayer
  <2>3. m < l \/ (m = l /\ n \in {"ln1_y", "xhat_ln1", "inv_std_ln1", "qkv", "attn_out", "P",
            "ln2_y", "xhat_ln2", "inv_std_ln2", "mlp_pre", "mlp_gelu"})
    BY Parameters DEF Layers, PerLayer
  <2> QED BY <1>1, <1>2, <2>1, <2>2, <2>3 DEF LayersTo
<1>5. /\ E[Tmp("tokens")] = Tokens(t)
      /\ E[Act("h", NLayer)] = Hidden(NLayer, t)
  <2>1. l + 1 = NLayer
    BY Parameters DEF Layers, Heads
  <2> QED BY <1>1, <1>2, <1>3, <2>1
<1> QED BY <1>4, <1>5, Holds_head1

LEMMA Carry_head1 ==
    ASSUME NEW t \in Passes, NEW B, NEW E,
           PassHeld(B, Place("head", 0, 0), 1, t),
           Changes3(B, E, Tmp("lnf_y"), Tensor("ln_f_y", 0, t),
                Tmp("xhat_lnf"), Tensor("ln_f_xhat", 0, t),
                Tmp("inv_std_lnf"), Tensor("ln_f_inv_std", 0, t))
    PROVE  PassHeld(E, Place("head", 0, 0), 2, t)
<1>1. /\ B[Tmp("tokens")] = Tokens(t)
      /\ LayersTo(B, NLayer, {}, t)
      /\ B[Act("h", NLayer)] = Hidden(NLayer, t)
  BY Holds_head1
<1>2. /\ E[Tmp("lnf_y")] = Tensor("ln_f_y", 0, t)
      /\ E[Tmp("xhat_lnf")] = Tensor("ln_f_xhat", 0, t)
      /\ E[Tmp("inv_std_lnf")] = Tensor("ln_f_inv_std", 0, t)
      /\ \A b \in Buffers : b \notin {Tmp("lnf_y"), Tmp("xhat_lnf"), Tmp("inv_std_lnf")}
           => E[b] = B[b]
  BY DEF Changes3
<1>3. /\ E[Tmp("tokens")] = B[Tmp("tokens")]
      /\ E[Act("h", NLayer)] = B[Act("h", NLayer)]
  <2>1. /\ Tmp("tokens") \in Buffers
        /\ Act("h", NLayer) \in Buffers
    BY SharedBuffers, LayerBuffers, HiddenBuffers, Parameters DEF Shared, PerLayer
  <2>2. /\ Tmp("tokens") \notin {Tmp("lnf_y"), Tmp("xhat_lnf"), Tmp("inv_std_lnf")}
        /\ Act("h", NLayer) \notin {Tmp("lnf_y"), Tmp("xhat_lnf"), Tmp("inv_std_lnf")}
    BY Tags, Parameters DEF Tmp, Layers
  <2> QED BY <1>2, <2>1, <2>2
<1>4. LayersTo(E, NLayer, {}, t)
  <2> SUFFICES ASSUME NEW n \in PerLayer, NEW m \in Layers,
                      m < NLayer \/ (m = NLayer /\ n \in {})
               PROVE  E[Act(n, m)] = Tensor(ValueIn(n), m, t)
    BY DEF LayersTo
  <2>1. Act(n, m) \in Buffers
    BY LayerBuffers
  <2>2. Act(n, m) \notin {Tmp("lnf_y"), Tmp("xhat_lnf"), Tmp("inv_std_lnf")}
    BY Tags DEF Tmp, PerLayer
  <2>3. m < NLayer \/ (m = NLayer /\ n \in {})
    BY Parameters DEF Layers, PerLayer
  <2> QED BY <1>1, <1>2, <2>1, <2>2, <2>3 DEF LayersTo
<1>5. /\ E[Tmp("tokens")] = Tokens(t)
      /\ E[Act("h", NLayer)] = Hidden(NLayer, t)
      /\ E[Tmp("xhat_lnf")] = Tensor("ln_f_xhat", 0, t)
      /\ E[Tmp("inv_std_lnf")] = Tensor("ln_f_inv_std", 0, t)
      /\ E[Tmp("lnf_y")] = Tensor("ln_f_y", 0, t)
  <2> QED BY <1>1, <1>2, <1>3
<1> QED BY <1>4, <1>5, Holds_head2

LEMMA Carry_head2 ==
    ASSUME NEW t \in Passes, NEW B, NEW E,
           PassHeld(B, Place("head", 0, 0), 2, t),
           Changes1(B, E, Tmp("logits"), Tensor("logits", 0, t))
    PROVE  PassHeld(E, Place("head", 0, 0), 3, t)
<1>1. /\ B[Tmp("tokens")] = Tokens(t)
      /\ LayersTo(B, NLayer, {}, t)
      /\ B[Act("h", NLayer)] = Hidden(NLayer, t)
      /\ B[Tmp("xhat_lnf")] = Tensor("ln_f_xhat", 0, t)
      /\ B[Tmp("inv_std_lnf")] = Tensor("ln_f_inv_std", 0, t)
      /\ B[Tmp("lnf_y")] = Tensor("ln_f_y", 0, t)
  BY Holds_head2
<1>2. /\ E[Tmp("logits")] = Tensor("logits", 0, t)
      /\ \A b \in Buffers : b \notin {Tmp("logits")} => E[b] = B[b]
  BY DEF Changes1
<1>3. /\ E[Tmp("tokens")] = B[Tmp("tokens")]
      /\ E[Act("h", NLayer)] = B[Act("h", NLayer)]
      /\ E[Tmp("xhat_lnf")] = B[Tmp("xhat_lnf")]
      /\ E[Tmp("inv_std_lnf")] = B[Tmp("inv_std_lnf")]
      /\ E[Tmp("lnf_y")] = B[Tmp("lnf_y")]
  <2>1. /\ Tmp("tokens") \in Buffers
        /\ Act("h", NLayer) \in Buffers
        /\ Tmp("xhat_lnf") \in Buffers
        /\ Tmp("inv_std_lnf") \in Buffers
        /\ Tmp("lnf_y") \in Buffers
    BY SharedBuffers, LayerBuffers, HiddenBuffers, Parameters DEF Shared, PerLayer
  <2>2. /\ Tmp("tokens") \notin {Tmp("logits")}
        /\ Act("h", NLayer) \notin {Tmp("logits")}
        /\ Tmp("xhat_lnf") \notin {Tmp("logits")}
        /\ Tmp("inv_std_lnf") \notin {Tmp("logits")}
        /\ Tmp("lnf_y") \notin {Tmp("logits")}
    BY Tags, Parameters DEF Tmp, Layers
  <2> QED BY <1>2, <2>1, <2>2
<1>4. LayersTo(E, NLayer, {}, t)
  <2> SUFFICES ASSUME NEW n \in PerLayer, NEW m \in Layers,
                      m < NLayer \/ (m = NLayer /\ n \in {})
               PROVE  E[Act(n, m)] = Tensor(ValueIn(n), m, t)
    BY DEF LayersTo
  <2>1. Act(n, m) \in Buffers
    BY LayerBuffers
  <2>2. Act(n, m) \notin {Tmp("logits")}
    BY Tags DEF Tmp, PerLayer
  <2>3. m < NLayer \/ (m = NLayer /\ n \in {})
    BY Parameters DEF Layers, PerLayer
  <2> QED BY <1>1, <1>2, <2>1, <2>2, <2>3 DEF LayersTo
<1>5. /\ E[Tmp("tokens")] = Tokens(t)
      /\ E[Act("h", NLayer)] = Hidden(NLayer, t)
      /\ E[Tmp("xhat_lnf")] = Tensor("ln_f_xhat", 0, t)
      /\ E[Tmp("inv_std_lnf")] = Tensor("ln_f_inv_std", 0, t)
      /\ E[Tmp("lnf_y")] = Tensor("ln_f_y", 0, t)
      /\ E[Tmp("logits")] = Tensor("logits", 0, t)
  <2> QED BY <1>1, <1>2, <1>3
<1> QED BY <1>4, <1>5, Holds_head3

LEMMA Carry_head3 ==
    ASSUME NEW t \in Passes, NEW B, NEW E,
           PassHeld(B, Place("head", 0, 0), 3, t),
           Changes2(B, E, Tmp("dlogits"), Tensor("dlogits", 0, t),
                Tmp("loss"), Tensor("loss", 0, t))
    PROVE  PassHeld(E, Place("headBack", 0, 0), 1, t)
<1>1. /\ B[Tmp("tokens")] = Tokens(t)
      /\ LayersTo(B, NLayer, {}, t)
      /\ B[Act("h", NLayer)] = Hidden(NLayer, t)
      /\ B[Tmp("xhat_lnf")] = Tensor("ln_f_xhat", 0, t)
      /\ B[Tmp("inv_std_lnf")] = Tensor("ln_f_inv_std", 0, t)
      /\ B[Tmp("lnf_y")] = Tensor("ln_f_y", 0, t)
      /\ B[Tmp("logits")] = Tensor("logits", 0, t)
  BY Holds_head3
<1>2. /\ E[Tmp("dlogits")] = Tensor("dlogits", 0, t)
      /\ E[Tmp("loss")] = Tensor("loss", 0, t)
      /\ \A b \in Buffers : b \notin {Tmp("dlogits"), Tmp("loss")} => E[b] = B[b]
  BY DEF Changes2
<1>3. /\ E[Tmp("tokens")] = B[Tmp("tokens")]
      /\ E[Tmp("xhat_lnf")] = B[Tmp("xhat_lnf")]
      /\ E[Tmp("inv_std_lnf")] = B[Tmp("inv_std_lnf")]
      /\ E[Tmp("lnf_y")] = B[Tmp("lnf_y")]
  <2>1. /\ Tmp("tokens") \in Buffers
        /\ Tmp("xhat_lnf") \in Buffers
        /\ Tmp("inv_std_lnf") \in Buffers
        /\ Tmp("lnf_y") \in Buffers
    BY SharedBuffers, LayerBuffers, HiddenBuffers, Parameters DEF Shared, PerLayer
  <2>2. /\ Tmp("tokens") \notin {Tmp("dlogits"), Tmp("loss")}
        /\ Tmp("xhat_lnf") \notin {Tmp("dlogits"), Tmp("loss")}
        /\ Tmp("inv_std_lnf") \notin {Tmp("dlogits"), Tmp("loss")}
        /\ Tmp("lnf_y") \notin {Tmp("dlogits"), Tmp("loss")}
    BY Tags, Parameters DEF Tmp, Layers
  <2> QED BY <1>2, <2>1, <2>2
<1>4. LayersTo(E, NLayer, {}, t)
  <2> SUFFICES ASSUME NEW n \in PerLayer, NEW m \in Layers,
                      m < NLayer \/ (m = NLayer /\ n \in {})
               PROVE  E[Act(n, m)] = Tensor(ValueIn(n), m, t)
    BY DEF LayersTo
  <2>1. Act(n, m) \in Buffers
    BY LayerBuffers
  <2>2. Act(n, m) \notin {Tmp("dlogits"), Tmp("loss")}
    BY Tags DEF Tmp, PerLayer
  <2>3. m < NLayer \/ (m = NLayer /\ n \in {})
    BY Parameters DEF Layers, PerLayer
  <2> QED BY <1>1, <1>2, <2>1, <2>2, <2>3 DEF LayersTo
<1>5. /\ E[Tmp("tokens")] = Tokens(t)
      /\ E[Tmp("xhat_lnf")] = Tensor("ln_f_xhat", 0, t)
      /\ E[Tmp("inv_std_lnf")] = Tensor("ln_f_inv_std", 0, t)
      /\ E[Tmp("dlogits")] = Tensor("dlogits", 0, t)
      /\ E[Tmp("lnf_y")] = Tensor("ln_f_y", 0, t)
      /\ E[Tmp("loss")] = Tensor("loss", 0, t)
  <2> QED BY <1>1, <1>2, <1>3
<1> QED BY <1>4, <1>5, Holds_headBack1

LEMMA Carry_headBack1 ==
    ASSUME NEW t \in Passes, NEW B, NEW E,
           PassHeld(B, Place("headBack", 0, 0), 1, t),
           Changes1(B, E, G("wte", 0), B[G("wte", 0)] (+) Only(Gradient("wte:head", 0, t)))
    PROVE  PassHeld(E, Place("headBack", 0, 0), 2, t)
<1>1. /\ B[Tmp("tokens")] = Tokens(t)
      /\ LayersTo(B, NLayer, {}, t)
      /\ B[Tmp("xhat_lnf")] = Tensor("ln_f_xhat", 0, t)
      /\ B[Tmp("inv_std_lnf")] = Tensor("ln_f_inv_std", 0, t)
      /\ B[Tmp("dlogits")] = Tensor("dlogits", 0, t)
      /\ B[Tmp("lnf_y")] = Tensor("ln_f_y", 0, t)
      /\ B[Tmp("loss")] = Tensor("loss", 0, t)
  BY Holds_headBack1
<1>2. /\ E[G("wte", 0)] = B[G("wte", 0)] (+) Only(Gradient("wte:head", 0, t))
      /\ \A b \in Buffers : b \notin {G("wte", 0)} => E[b] = B[b]
  BY DEF Changes1
<1>3. /\ E[Tmp("tokens")] = B[Tmp("tokens")]
      /\ E[Tmp("xhat_lnf")] = B[Tmp("xhat_lnf")]
      /\ E[Tmp("inv_std_lnf")] = B[Tmp("inv_std_lnf")]
      /\ E[Tmp("dlogits")] = B[Tmp("dlogits")]
      /\ E[Tmp("lnf_y")] = B[Tmp("lnf_y")]
      /\ E[Tmp("loss")] = B[Tmp("loss")]
  <2>1. /\ Tmp("tokens") \in Buffers
        /\ Tmp("xhat_lnf") \in Buffers
        /\ Tmp("inv_std_lnf") \in Buffers
        /\ Tmp("dlogits") \in Buffers
        /\ Tmp("lnf_y") \in Buffers
        /\ Tmp("loss") \in Buffers
    BY SharedBuffers, LayerBuffers, HiddenBuffers, Parameters DEF Shared, PerLayer
  <2>2. /\ Tmp("tokens") \notin {G("wte", 0)}
        /\ Tmp("xhat_lnf") \notin {G("wte", 0)}
        /\ Tmp("inv_std_lnf") \notin {G("wte", 0)}
        /\ Tmp("dlogits") \notin {G("wte", 0)}
        /\ Tmp("lnf_y") \notin {G("wte", 0)}
        /\ Tmp("loss") \notin {G("wte", 0)}
    BY Tags, Parameters DEF Tmp, Layers
  <2> QED BY <1>2, <2>1, <2>2
<1>4. LayersTo(E, NLayer, {}, t)
  <2> SUFFICES ASSUME NEW n \in PerLayer, NEW m \in Layers,
                      m < NLayer \/ (m = NLayer /\ n \in {})
               PROVE  E[Act(n, m)] = Tensor(ValueIn(n), m, t)
    BY DEF LayersTo
  <2>1. Act(n, m) \in Buffers
    BY LayerBuffers
  <2>2. Act(n, m) \notin {G("wte", 0)}
    BY Tags DEF Tmp, PerLayer
  <2>3. m < NLayer \/ (m = NLayer /\ n \in {})
    BY Parameters DEF Layers, PerLayer
  <2> QED BY <1>1, <1>2, <2>1, <2>2, <2>3 DEF LayersTo
<1>5. /\ E[Tmp("tokens")] = Tokens(t)
      /\ E[Tmp("xhat_lnf")] = Tensor("ln_f_xhat", 0, t)
      /\ E[Tmp("inv_std_lnf")] = Tensor("ln_f_inv_std", 0, t)
      /\ E[Tmp("dlogits")] = Tensor("dlogits", 0, t)
      /\ E[Tmp("lnf_y")] = Tensor("ln_f_y", 0, t)
      /\ E[Tmp("loss")] = Tensor("loss", 0, t)
  <2> QED BY <1>1, <1>2, <1>3
<1> QED BY <1>4, <1>5, Holds_headBack2

LEMMA Carry_headBack2 ==
    ASSUME NEW t \in Passes, NEW B, NEW E,
           PassHeld(B, Place("headBack", 0, 0), 2, t),
           Changes1(B, E, Tmp("dh"), Tensor("d_ln_f_y", 0, t))
    PROVE  PassHeld(E, Place("headBack", 0, 0), 3, t)
<1>1. /\ B[Tmp("tokens")] = Tokens(t)
      /\ LayersTo(B, NLayer, {}, t)
      /\ B[Tmp("xhat_lnf")] = Tensor("ln_f_xhat", 0, t)
      /\ B[Tmp("inv_std_lnf")] = Tensor("ln_f_inv_std", 0, t)
      /\ B[Tmp("dlogits")] = Tensor("dlogits", 0, t)
      /\ B[Tmp("lnf_y")] = Tensor("ln_f_y", 0, t)
      /\ B[Tmp("loss")] = Tensor("loss", 0, t)
  BY Holds_headBack2
<1>2. /\ E[Tmp("dh")] = Tensor("d_ln_f_y", 0, t)
      /\ \A b \in Buffers : b \notin {Tmp("dh")} => E[b] = B[b]
  BY DEF Changes1
<1>3. /\ E[Tmp("tokens")] = B[Tmp("tokens")]
      /\ E[Tmp("xhat_lnf")] = B[Tmp("xhat_lnf")]
      /\ E[Tmp("inv_std_lnf")] = B[Tmp("inv_std_lnf")]
      /\ E[Tmp("dlogits")] = B[Tmp("dlogits")]
      /\ E[Tmp("lnf_y")] = B[Tmp("lnf_y")]
      /\ E[Tmp("loss")] = B[Tmp("loss")]
  <2>1. /\ Tmp("tokens") \in Buffers
        /\ Tmp("xhat_lnf") \in Buffers
        /\ Tmp("inv_std_lnf") \in Buffers
        /\ Tmp("dlogits") \in Buffers
        /\ Tmp("lnf_y") \in Buffers
        /\ Tmp("loss") \in Buffers
    BY SharedBuffers, LayerBuffers, HiddenBuffers, Parameters DEF Shared, PerLayer
  <2>2. /\ Tmp("tokens") \notin {Tmp("dh")}
        /\ Tmp("xhat_lnf") \notin {Tmp("dh")}
        /\ Tmp("inv_std_lnf") \notin {Tmp("dh")}
        /\ Tmp("dlogits") \notin {Tmp("dh")}
        /\ Tmp("lnf_y") \notin {Tmp("dh")}
        /\ Tmp("loss") \notin {Tmp("dh")}
    BY Tags, Parameters DEF Tmp, Layers
  <2> QED BY <1>2, <2>1, <2>2
<1>4. LayersTo(E, NLayer, {}, t)
  <2> SUFFICES ASSUME NEW n \in PerLayer, NEW m \in Layers,
                      m < NLayer \/ (m = NLayer /\ n \in {})
               PROVE  E[Act(n, m)] = Tensor(ValueIn(n), m, t)
    BY DEF LayersTo
  <2>1. Act(n, m) \in Buffers
    BY LayerBuffers
  <2>2. Act(n, m) \notin {Tmp("dh")}
    BY Tags DEF Tmp, PerLayer
  <2>3. m < NLayer \/ (m = NLayer /\ n \in {})
    BY Parameters DEF Layers, PerLayer
  <2> QED BY <1>1, <1>2, <2>1, <2>2, <2>3 DEF LayersTo
<1>5. /\ E[Tmp("tokens")] = Tokens(t)
      /\ E[Tmp("xhat_lnf")] = Tensor("ln_f_xhat", 0, t)
      /\ E[Tmp("inv_std_lnf")] = Tensor("ln_f_inv_std", 0, t)
      /\ E[Tmp("dlogits")] = Tensor("dlogits", 0, t)
      /\ E[Tmp("lnf_y")] = Tensor("ln_f_y", 0, t)
      /\ E[Tmp("dh")] = Tensor("d_ln_f_y", 0, t)
      /\ E[Tmp("loss")] = Tensor("loss", 0, t)
  <2> QED BY <1>1, <1>2, <1>3
<1> QED BY <1>4, <1>5, Holds_headBack3

LEMMA Carry_headBack3 ==
    ASSUME NEW t \in Passes, NEW B, NEW E,
           PassHeld(B, Place("headBack", 0, 0), 3, t),
           Changes1(B, E, Tmp("lnf_y"), Tensor("d_ln_f_y", 0, t))
    PROVE  PassHeld(E, Place("headBack", 0, 0), 4, t)
<1>1. /\ B[Tmp("tokens")] = Tokens(t)
      /\ LayersTo(B, NLayer, {}, t)
      /\ B[Tmp("xhat_lnf")] = Tensor("ln_f_xhat", 0, t)
      /\ B[Tmp("inv_std_lnf")] = Tensor("ln_f_inv_std", 0, t)
      /\ B[Tmp("dlogits")] = Tensor("dlogits", 0, t)
      /\ B[Tmp("lnf_y")] = Tensor("ln_f_y", 0, t)
      /\ B[Tmp("dh")] = Tensor("d_ln_f_y", 0, t)
      /\ B[Tmp("loss")] = Tensor("loss", 0, t)
  BY Holds_headBack3
<1>2. /\ E[Tmp("lnf_y")] = Tensor("d_ln_f_y", 0, t)
      /\ \A b \in Buffers : b \notin {Tmp("lnf_y")} => E[b] = B[b]
  BY DEF Changes1
<1>3. /\ E[Tmp("tokens")] = B[Tmp("tokens")]
      /\ E[Tmp("xhat_lnf")] = B[Tmp("xhat_lnf")]
      /\ E[Tmp("inv_std_lnf")] = B[Tmp("inv_std_lnf")]
      /\ E[Tmp("dlogits")] = B[Tmp("dlogits")]
      /\ E[Tmp("loss")] = B[Tmp("loss")]
  <2>1. /\ Tmp("tokens") \in Buffers
        /\ Tmp("xhat_lnf") \in Buffers
        /\ Tmp("inv_std_lnf") \in Buffers
        /\ Tmp("dlogits") \in Buffers
        /\ Tmp("loss") \in Buffers
    BY SharedBuffers, LayerBuffers, HiddenBuffers, Parameters DEF Shared, PerLayer
  <2>2. /\ Tmp("tokens") \notin {Tmp("lnf_y")}
        /\ Tmp("xhat_lnf") \notin {Tmp("lnf_y")}
        /\ Tmp("inv_std_lnf") \notin {Tmp("lnf_y")}
        /\ Tmp("dlogits") \notin {Tmp("lnf_y")}
        /\ Tmp("loss") \notin {Tmp("lnf_y")}
    BY Tags, Parameters DEF Tmp, Layers
  <2> QED BY <1>2, <2>1, <2>2
<1>4. LayersTo(E, NLayer, {}, t)
  <2> SUFFICES ASSUME NEW n \in PerLayer, NEW m \in Layers,
                      m < NLayer \/ (m = NLayer /\ n \in {})
               PROVE  E[Act(n, m)] = Tensor(ValueIn(n), m, t)
    BY DEF LayersTo
  <2>1. Act(n, m) \in Buffers
    BY LayerBuffers
  <2>2. Act(n, m) \notin {Tmp("lnf_y")}
    BY Tags DEF Tmp, PerLayer
  <2>3. m < NLayer \/ (m = NLayer /\ n \in {})
    BY Parameters DEF Layers, PerLayer
  <2> QED BY <1>1, <1>2, <2>1, <2>2, <2>3 DEF LayersTo
<1>5. /\ E[Tmp("tokens")] = Tokens(t)
      /\ E[Tmp("xhat_lnf")] = Tensor("ln_f_xhat", 0, t)
      /\ E[Tmp("inv_std_lnf")] = Tensor("ln_f_inv_std", 0, t)
      /\ E[Tmp("dlogits")] = Tensor("dlogits", 0, t)
      /\ E[Tmp("lnf_y")] = Tensor("d_ln_f_y", 0, t)
      /\ E[Tmp("loss")] = Tensor("loss", 0, t)
  <2> QED BY <1>1, <1>2, <1>3
<1> QED BY <1>4, <1>5, Holds_headBack4

LEMMA Carry_headBack4 ==
    ASSUME NEW t \in Passes, NEW B, NEW E,
           PassHeld(B, Place("headBack", 0, 0), 4, t),
           Changes1(B, E, Tmp("dh"), DH(NLayer, t))
    PROVE  PassHeld(E, Place("headBack", 0, 0), 5, t)
<1>1. /\ B[Tmp("tokens")] = Tokens(t)
      /\ LayersTo(B, NLayer, {}, t)
      /\ B[Tmp("xhat_lnf")] = Tensor("ln_f_xhat", 0, t)
      /\ B[Tmp("inv_std_lnf")] = Tensor("ln_f_inv_std", 0, t)
      /\ B[Tmp("dlogits")] = Tensor("dlogits", 0, t)
      /\ B[Tmp("lnf_y")] = Tensor("d_ln_f_y", 0, t)
      /\ B[Tmp("loss")] = Tensor("loss", 0, t)
  BY Holds_headBack4
<1>2. /\ E[Tmp("dh")] = DH(NLayer, t)
      /\ \A b \in Buffers : b \notin {Tmp("dh")} => E[b] = B[b]
  BY DEF Changes1
<1>3. /\ E[Tmp("tokens")] = B[Tmp("tokens")]
      /\ E[Tmp("xhat_lnf")] = B[Tmp("xhat_lnf")]
      /\ E[Tmp("inv_std_lnf")] = B[Tmp("inv_std_lnf")]
      /\ E[Tmp("dlogits")] = B[Tmp("dlogits")]
      /\ E[Tmp("lnf_y")] = B[Tmp("lnf_y")]
      /\ E[Tmp("loss")] = B[Tmp("loss")]
  <2>1. /\ Tmp("tokens") \in Buffers
        /\ Tmp("xhat_lnf") \in Buffers
        /\ Tmp("inv_std_lnf") \in Buffers
        /\ Tmp("dlogits") \in Buffers
        /\ Tmp("lnf_y") \in Buffers
        /\ Tmp("loss") \in Buffers
    BY SharedBuffers, LayerBuffers, HiddenBuffers, Parameters DEF Shared, PerLayer
  <2>2. /\ Tmp("tokens") \notin {Tmp("dh")}
        /\ Tmp("xhat_lnf") \notin {Tmp("dh")}
        /\ Tmp("inv_std_lnf") \notin {Tmp("dh")}
        /\ Tmp("dlogits") \notin {Tmp("dh")}
        /\ Tmp("lnf_y") \notin {Tmp("dh")}
        /\ Tmp("loss") \notin {Tmp("dh")}
    BY Tags, Parameters DEF Tmp, Layers
  <2> QED BY <1>2, <2>1, <2>2
<1>4. LayersTo(E, NLayer, {}, t)
  <2> SUFFICES ASSUME NEW n \in PerLayer, NEW m \in Layers,
                      m < NLayer \/ (m = NLayer /\ n \in {})
               PROVE  E[Act(n, m)] = Tensor(ValueIn(n), m, t)
    BY DEF LayersTo
  <2>1. Act(n, m) \in Buffers
    BY LayerBuffers
  <2>2. Act(n, m) \notin {Tmp("dh")}
    BY Tags DEF Tmp, PerLayer
  <2>3. m < NLayer \/ (m = NLayer /\ n \in {})
    BY Parameters DEF Layers, PerLayer
  <2> QED BY <1>1, <1>2, <2>1, <2>2, <2>3 DEF LayersTo
<1>5. /\ E[Tmp("tokens")] = Tokens(t)
      /\ E[Tmp("xhat_lnf")] = Tensor("ln_f_xhat", 0, t)
      /\ E[Tmp("inv_std_lnf")] = Tensor("ln_f_inv_std", 0, t)
      /\ E[Tmp("dlogits")] = Tensor("dlogits", 0, t)
      /\ E[Tmp("lnf_y")] = Tensor("d_ln_f_y", 0, t)
      /\ E[Tmp("dh")] = DH(NLayer, t)
      /\ E[Tmp("loss")] = Tensor("loss", 0, t)
  <2> QED BY <1>1, <1>2, <1>3
<1> QED BY <1>4, <1>5, Holds_headBack5

LEMMA Carry_headBack5 ==
    ASSUME NEW t \in Passes, NEW B, NEW E,
           PassHeld(B, Place("headBack", 0, 0), 5, t),
           Changes2(B, E, G("ln_f.w", 0), B[G("ln_f.w", 0)] (+) Only(Gradient("ln_f.w", 0, t)),
                G("ln_f.b", 0), B[G("ln_f.b", 0)] (+) Only(Gradient("ln_f.b", 0, t)))
    PROVE  PassHeld(E, Place("mlpBack", NLayer - 1, 0), 1, t)
<1>1. /\ B[Tmp("tokens")] = Tokens(t)
      /\ LayersTo(B, NLayer, {}, t)
      /\ B[Tmp("xhat_lnf")] = Tensor("ln_f_xhat", 0, t)
      /\ B[Tmp("inv_std_lnf")] = Tensor("ln_f_inv_std", 0, t)
      /\ B[Tmp("dlogits")] = Tensor("dlogits", 0, t)
      /\ B[Tmp("lnf_y")] = Tensor("d_ln_f_y", 0, t)
      /\ B[Tmp("dh")] = DH(NLayer, t)
      /\ B[Tmp("loss")] = Tensor("loss", 0, t)
  BY Holds_headBack5
<1>2. /\ E[G("ln_f.w", 0)] = B[G("ln_f.w", 0)] (+) Only(Gradient("ln_f.w", 0, t))
      /\ E[G("ln_f.b", 0)] = B[G("ln_f.b", 0)] (+) Only(Gradient("ln_f.b", 0, t))
      /\ \A b \in Buffers : b \notin {G("ln_f.w", 0), G("ln_f.b", 0)} => E[b] = B[b]
  BY DEF Changes2
<1>3. /\ E[Tmp("tokens")] = B[Tmp("tokens")]
      /\ E[Tmp("dh")] = B[Tmp("dh")]
      /\ E[Tmp("loss")] = B[Tmp("loss")]
  <2>1. /\ Tmp("tokens") \in Buffers
        /\ Tmp("dh") \in Buffers
        /\ Tmp("loss") \in Buffers
    BY SharedBuffers, LayerBuffers, HiddenBuffers, Parameters DEF Shared, PerLayer
  <2>2. /\ Tmp("tokens") \notin {G("ln_f.w", 0), G("ln_f.b", 0)}
        /\ Tmp("dh") \notin {G("ln_f.w", 0), G("ln_f.b", 0)}
        /\ Tmp("loss") \notin {G("ln_f.w", 0), G("ln_f.b", 0)}
    BY Tags, Parameters DEF Tmp, Layers
  <2> QED BY <1>2, <2>1, <2>2
<1>4. LayersTo(E, NLayer, {}, t)
  <2> SUFFICES ASSUME NEW n \in PerLayer, NEW m \in Layers,
                      m < NLayer \/ (m = NLayer /\ n \in {})
               PROVE  E[Act(n, m)] = Tensor(ValueIn(n), m, t)
    BY DEF LayersTo
  <2>1. Act(n, m) \in Buffers
    BY LayerBuffers
  <2>2. Act(n, m) \notin {G("ln_f.w", 0), G("ln_f.b", 0)}
    BY Tags DEF Tmp, PerLayer
  <2>3. m < NLayer \/ (m = NLayer /\ n \in {})
    BY Parameters DEF Layers, PerLayer
  <2> QED BY <1>1, <1>2, <2>1, <2>2, <2>3 DEF LayersTo
<1>5. /\ E[Tmp("tokens")] = Tokens(t)
      /\ E[Tmp("dh")] = DH(NLayer - 1 + 1, t)
      /\ E[Tmp("loss")] = Tensor("loss", 0, t)
  <2>1. NLayer - 1 + 1 = NLayer
    BY Parameters DEF Layers, Heads
  <2> QED BY <1>1, <1>2, <1>3, <2>1
<1>6. NLayer - 1 \in Layers
  BY Parameters DEF Layers
<1> QED BY <1>4, <1>5, <1>6, Holds_mlpBack1

LEMMA Carry_mlpBack1 ==
    ASSUME NEW l \in Layers, NEW t \in Passes, NEW B, NEW E,
           PassHeld(B, Place("mlpBack", l, 0), 1, t),
           Changes1(B, E, G("mlp.c_proj.w", l),
                        B[G("mlp.c_proj.w", l)] (+) Only(Gradient("mlp.c_proj.w", l, t)))
    PROVE  PassHeld(E, Place("mlpBack", l, 0), 2, t)
<1>1. /\ B[Tmp("tokens")] = Tokens(t)
      /\ LayersTo(B, NLayer, {}, t)
      /\ B[Tmp("dh")] = DH(l + 1, t)
      /\ B[Tmp("loss")] = Tensor("loss", 0, t)
  BY Holds_mlpBack1
<1>2. /\ E[G("mlp.c_proj.w", l)] = B[G("mlp.c_proj.w", l)] (+) Only(Gradient("mlp.c_proj.w", l,
           t))
      /\ \A b \in Buffers : b \notin {G("mlp.c_proj.w", l)} => E[b] = B[b]
  BY DEF Changes1
<1>3. /\ E[Tmp("tokens")] = B[Tmp("tokens")]
      /\ E[Tmp("dh")] = B[Tmp("dh")]
      /\ E[Tmp("loss")] = B[Tmp("loss")]
  <2>1. /\ Tmp("tokens") \in Buffers
        /\ Tmp("dh") \in Buffers
        /\ Tmp("loss") \in Buffers
    BY SharedBuffers, LayerBuffers, HiddenBuffers, Parameters DEF Shared, PerLayer
  <2>2. /\ Tmp("tokens") \notin {G("mlp.c_proj.w", l)}
        /\ Tmp("dh") \notin {G("mlp.c_proj.w", l)}
        /\ Tmp("loss") \notin {G("mlp.c_proj.w", l)}
    BY Tags, Parameters DEF Tmp, Layers
  <2> QED BY <1>2, <2>1, <2>2
<1>4. LayersTo(E, NLayer, {}, t)
  <2> SUFFICES ASSUME NEW n \in PerLayer, NEW m \in Layers,
                      m < NLayer \/ (m = NLayer /\ n \in {})
               PROVE  E[Act(n, m)] = Tensor(ValueIn(n), m, t)
    BY DEF LayersTo
  <2>1. Act(n, m) \in Buffers
    BY LayerBuffers
  <2>2. Act(n, m) \notin {G("mlp.c_proj.w", l)}
    BY Tags DEF Tmp, PerLayer
  <2>3. m < NLayer \/ (m = NLayer /\ n \in {})
    BY Parameters DEF Layers, PerLayer
  <2> QED BY <1>1, <1>2, <2>1, <2>2, <2>3 DEF LayersTo
<1>5. /\ E[Tmp("tokens")] = Tokens(t)
      /\ E[Tmp("dh")] = DH(l + 1, t)
      /\ E[Tmp("loss")] = Tensor("loss", 0, t)
  <2> QED BY <1>1, <1>2, <1>3
<1> QED BY <1>4, <1>5, Holds_mlpBack2

LEMMA Carry_mlpBack2 ==
    ASSUME NEW l \in Layers, NEW t \in Passes, NEW B, NEW E,
           PassHeld(B, Place("mlpBack", l, 0), 2, t),
           Changes1(B, E, G("mlp.c_proj.b", l),
                        B[G("mlp.c_proj.b", l)] (+) Only(Gradient("mlp.c_proj.b", l, t)))
    PROVE  PassHeld(E, Place("mlpBack", l, 0), 3, t)
<1>1. /\ B[Tmp("tokens")] = Tokens(t)
      /\ LayersTo(B, NLayer, {}, t)
      /\ B[Tmp("dh")] = DH(l + 1, t)
      /\ B[Tmp("loss")] = Tensor("loss", 0, t)
  BY Holds_mlpBack2
<1>2. /\ E[G("mlp.c_proj.b", l)] = B[G("mlp.c_proj.b", l)] (+) Only(Gradient("mlp.c_proj.b", l,
           t))
      /\ \A b \in Buffers : b \notin {G("mlp.c_proj.b", l)} => E[b] = B[b]
  BY DEF Changes1
<1>3. /\ E[Tmp("tokens")] = B[Tmp("tokens")]
      /\ E[Tmp("dh")] = B[Tmp("dh")]
      /\ E[Tmp("loss")] = B[Tmp("loss")]
  <2>1. /\ Tmp("tokens") \in Buffers
        /\ Tmp("dh") \in Buffers
        /\ Tmp("loss") \in Buffers
    BY SharedBuffers, LayerBuffers, HiddenBuffers, Parameters DEF Shared, PerLayer
  <2>2. /\ Tmp("tokens") \notin {G("mlp.c_proj.b", l)}
        /\ Tmp("dh") \notin {G("mlp.c_proj.b", l)}
        /\ Tmp("loss") \notin {G("mlp.c_proj.b", l)}
    BY Tags, Parameters DEF Tmp, Layers
  <2> QED BY <1>2, <2>1, <2>2
<1>4. LayersTo(E, NLayer, {}, t)
  <2> SUFFICES ASSUME NEW n \in PerLayer, NEW m \in Layers,
                      m < NLayer \/ (m = NLayer /\ n \in {})
               PROVE  E[Act(n, m)] = Tensor(ValueIn(n), m, t)
    BY DEF LayersTo
  <2>1. Act(n, m) \in Buffers
    BY LayerBuffers
  <2>2. Act(n, m) \notin {G("mlp.c_proj.b", l)}
    BY Tags DEF Tmp, PerLayer
  <2>3. m < NLayer \/ (m = NLayer /\ n \in {})
    BY Parameters DEF Layers, PerLayer
  <2> QED BY <1>1, <1>2, <2>1, <2>2, <2>3 DEF LayersTo
<1>5. /\ E[Tmp("tokens")] = Tokens(t)
      /\ E[Tmp("dh")] = DH(l + 1, t)
      /\ E[Tmp("loss")] = Tensor("loss", 0, t)
  <2> QED BY <1>1, <1>2, <1>3
<1> QED BY <1>4, <1>5, Holds_mlpBack3

LEMMA Carry_mlpBack3 ==
    ASSUME NEW l \in Layers, NEW t \in Passes, NEW B, NEW E,
           PassHeld(B, Place("mlpBack", l, 0), 3, t),
           Changes1(B, E, Tmp("d_mlp"), Tensor("d_mlp_gelu", l, t))
    PROVE  PassHeld(E, Place("mlpBack", l, 0), 4, t)
<1>1. /\ B[Tmp("tokens")] = Tokens(t)
      /\ LayersTo(B, NLayer, {}, t)
      /\ B[Tmp("dh")] = DH(l + 1, t)
      /\ B[Tmp("loss")] = Tensor("loss", 0, t)
  BY Holds_mlpBack3
<1>2. /\ E[Tmp("d_mlp")] = Tensor("d_mlp_gelu", l, t)
      /\ \A b \in Buffers : b \notin {Tmp("d_mlp")} => E[b] = B[b]
  BY DEF Changes1
<1>3. /\ E[Tmp("tokens")] = B[Tmp("tokens")]
      /\ E[Tmp("dh")] = B[Tmp("dh")]
      /\ E[Tmp("loss")] = B[Tmp("loss")]
  <2>1. /\ Tmp("tokens") \in Buffers
        /\ Tmp("dh") \in Buffers
        /\ Tmp("loss") \in Buffers
    BY SharedBuffers, LayerBuffers, HiddenBuffers, Parameters DEF Shared, PerLayer
  <2>2. /\ Tmp("tokens") \notin {Tmp("d_mlp")}
        /\ Tmp("dh") \notin {Tmp("d_mlp")}
        /\ Tmp("loss") \notin {Tmp("d_mlp")}
    BY Tags, Parameters DEF Tmp, Layers
  <2> QED BY <1>2, <2>1, <2>2
<1>4. LayersTo(E, NLayer, {}, t)
  <2> SUFFICES ASSUME NEW n \in PerLayer, NEW m \in Layers,
                      m < NLayer \/ (m = NLayer /\ n \in {})
               PROVE  E[Act(n, m)] = Tensor(ValueIn(n), m, t)
    BY DEF LayersTo
  <2>1. Act(n, m) \in Buffers
    BY LayerBuffers
  <2>2. Act(n, m) \notin {Tmp("d_mlp")}
    BY Tags DEF Tmp, PerLayer
  <2>3. m < NLayer \/ (m = NLayer /\ n \in {})
    BY Parameters DEF Layers, PerLayer
  <2> QED BY <1>1, <1>2, <2>1, <2>2, <2>3 DEF LayersTo
<1>5. /\ E[Tmp("tokens")] = Tokens(t)
      /\ E[Tmp("dh")] = DH(l + 1, t)
      /\ E[Tmp("d_mlp")] = Tensor("d_mlp_gelu", l, t)
      /\ E[Tmp("loss")] = Tensor("loss", 0, t)
  <2> QED BY <1>1, <1>2, <1>3
<1> QED BY <1>4, <1>5, Holds_mlpBack4

LEMMA Carry_mlpBack4 ==
    ASSUME NEW l \in Layers, NEW t \in Passes, NEW B, NEW E,
           PassHeld(B, Place("mlpBack", l, 0), 4, t),
           Changes1(B, E, Tmp("d_mlp"), Tensor("d_mlp_pre", l, t))
    PROVE  PassHeld(E, Place("mlpBack", l, 0), 5, t)
<1>1. /\ B[Tmp("tokens")] = Tokens(t)
      /\ LayersTo(B, NLayer, {}, t)
      /\ B[Tmp("dh")] = DH(l + 1, t)
      /\ B[Tmp("d_mlp")] = Tensor("d_mlp_gelu", l, t)
      /\ B[Tmp("loss")] = Tensor("loss", 0, t)
  BY Holds_mlpBack4
<1>2. /\ E[Tmp("d_mlp")] = Tensor("d_mlp_pre", l, t)
      /\ \A b \in Buffers : b \notin {Tmp("d_mlp")} => E[b] = B[b]
  BY DEF Changes1
<1>3. /\ E[Tmp("tokens")] = B[Tmp("tokens")]
      /\ E[Tmp("dh")] = B[Tmp("dh")]
      /\ E[Tmp("loss")] = B[Tmp("loss")]
  <2>1. /\ Tmp("tokens") \in Buffers
        /\ Tmp("dh") \in Buffers
        /\ Tmp("loss") \in Buffers
    BY SharedBuffers, LayerBuffers, HiddenBuffers, Parameters DEF Shared, PerLayer
  <2>2. /\ Tmp("tokens") \notin {Tmp("d_mlp")}
        /\ Tmp("dh") \notin {Tmp("d_mlp")}
        /\ Tmp("loss") \notin {Tmp("d_mlp")}
    BY Tags, Parameters DEF Tmp, Layers
  <2> QED BY <1>2, <2>1, <2>2
<1>4. LayersTo(E, NLayer, {}, t)
  <2> SUFFICES ASSUME NEW n \in PerLayer, NEW m \in Layers,
                      m < NLayer \/ (m = NLayer /\ n \in {})
               PROVE  E[Act(n, m)] = Tensor(ValueIn(n), m, t)
    BY DEF LayersTo
  <2>1. Act(n, m) \in Buffers
    BY LayerBuffers
  <2>2. Act(n, m) \notin {Tmp("d_mlp")}
    BY Tags DEF Tmp, PerLayer
  <2>3. m < NLayer \/ (m = NLayer /\ n \in {})
    BY Parameters DEF Layers, PerLayer
  <2> QED BY <1>1, <1>2, <2>1, <2>2, <2>3 DEF LayersTo
<1>5. /\ E[Tmp("tokens")] = Tokens(t)
      /\ E[Tmp("dh")] = DH(l + 1, t)
      /\ E[Tmp("d_mlp")] = Tensor("d_mlp_pre", l, t)
      /\ E[Tmp("loss")] = Tensor("loss", 0, t)
  <2> QED BY <1>1, <1>2, <1>3
<1> QED BY <1>4, <1>5, Holds_mlpBack5

LEMMA Carry_mlpBack5 ==
    ASSUME NEW l \in Layers, NEW t \in Passes, NEW B, NEW E,
           PassHeld(B, Place("mlpBack", l, 0), 5, t),
           Changes1(B, E, G("c_fc.w", l), B[G("c_fc.w", l)] (+) Only(Gradient("c_fc.w", l, t)))
    PROVE  PassHeld(E, Place("mlpBack", l, 0), 6, t)
<1>1. /\ B[Tmp("tokens")] = Tokens(t)
      /\ LayersTo(B, NLayer, {}, t)
      /\ B[Tmp("dh")] = DH(l + 1, t)
      /\ B[Tmp("d_mlp")] = Tensor("d_mlp_pre", l, t)
      /\ B[Tmp("loss")] = Tensor("loss", 0, t)
  BY Holds_mlpBack5
<1>2. /\ E[G("c_fc.w", l)] = B[G("c_fc.w", l)] (+) Only(Gradient("c_fc.w", l, t))
      /\ \A b \in Buffers : b \notin {G("c_fc.w", l)} => E[b] = B[b]
  BY DEF Changes1
<1>3. /\ E[Tmp("tokens")] = B[Tmp("tokens")]
      /\ E[Tmp("dh")] = B[Tmp("dh")]
      /\ E[Tmp("d_mlp")] = B[Tmp("d_mlp")]
      /\ E[Tmp("loss")] = B[Tmp("loss")]
  <2>1. /\ Tmp("tokens") \in Buffers
        /\ Tmp("dh") \in Buffers
        /\ Tmp("d_mlp") \in Buffers
        /\ Tmp("loss") \in Buffers
    BY SharedBuffers, LayerBuffers, HiddenBuffers, Parameters DEF Shared, PerLayer
  <2>2. /\ Tmp("tokens") \notin {G("c_fc.w", l)}
        /\ Tmp("dh") \notin {G("c_fc.w", l)}
        /\ Tmp("d_mlp") \notin {G("c_fc.w", l)}
        /\ Tmp("loss") \notin {G("c_fc.w", l)}
    BY Tags, Parameters DEF Tmp, Layers
  <2> QED BY <1>2, <2>1, <2>2
<1>4. LayersTo(E, NLayer, {}, t)
  <2> SUFFICES ASSUME NEW n \in PerLayer, NEW m \in Layers,
                      m < NLayer \/ (m = NLayer /\ n \in {})
               PROVE  E[Act(n, m)] = Tensor(ValueIn(n), m, t)
    BY DEF LayersTo
  <2>1. Act(n, m) \in Buffers
    BY LayerBuffers
  <2>2. Act(n, m) \notin {G("c_fc.w", l)}
    BY Tags DEF Tmp, PerLayer
  <2>3. m < NLayer \/ (m = NLayer /\ n \in {})
    BY Parameters DEF Layers, PerLayer
  <2> QED BY <1>1, <1>2, <2>1, <2>2, <2>3 DEF LayersTo
<1>5. /\ E[Tmp("tokens")] = Tokens(t)
      /\ E[Tmp("dh")] = DH(l + 1, t)
      /\ E[Tmp("d_mlp")] = Tensor("d_mlp_pre", l, t)
      /\ E[Tmp("loss")] = Tensor("loss", 0, t)
  <2> QED BY <1>1, <1>2, <1>3
<1> QED BY <1>4, <1>5, Holds_mlpBack6

LEMMA Carry_mlpBack6 ==
    ASSUME NEW l \in Layers, NEW t \in Passes, NEW B, NEW E,
           PassHeld(B, Place("mlpBack", l, 0), 6, t),
           Changes1(B, E, G("c_fc.b", l), B[G("c_fc.b", l)] (+) Only(Gradient("c_fc.b", l, t)))
    PROVE  PassHeld(E, Place("mlpBack", l, 0), 7, t)
<1>1. /\ B[Tmp("tokens")] = Tokens(t)
      /\ LayersTo(B, NLayer, {}, t)
      /\ B[Tmp("dh")] = DH(l + 1, t)
      /\ B[Tmp("d_mlp")] = Tensor("d_mlp_pre", l, t)
      /\ B[Tmp("loss")] = Tensor("loss", 0, t)
  BY Holds_mlpBack6
<1>2. /\ E[G("c_fc.b", l)] = B[G("c_fc.b", l)] (+) Only(Gradient("c_fc.b", l, t))
      /\ \A b \in Buffers : b \notin {G("c_fc.b", l)} => E[b] = B[b]
  BY DEF Changes1
<1>3. /\ E[Tmp("tokens")] = B[Tmp("tokens")]
      /\ E[Tmp("dh")] = B[Tmp("dh")]
      /\ E[Tmp("d_mlp")] = B[Tmp("d_mlp")]
      /\ E[Tmp("loss")] = B[Tmp("loss")]
  <2>1. /\ Tmp("tokens") \in Buffers
        /\ Tmp("dh") \in Buffers
        /\ Tmp("d_mlp") \in Buffers
        /\ Tmp("loss") \in Buffers
    BY SharedBuffers, LayerBuffers, HiddenBuffers, Parameters DEF Shared, PerLayer
  <2>2. /\ Tmp("tokens") \notin {G("c_fc.b", l)}
        /\ Tmp("dh") \notin {G("c_fc.b", l)}
        /\ Tmp("d_mlp") \notin {G("c_fc.b", l)}
        /\ Tmp("loss") \notin {G("c_fc.b", l)}
    BY Tags, Parameters DEF Tmp, Layers
  <2> QED BY <1>2, <2>1, <2>2
<1>4. LayersTo(E, NLayer, {}, t)
  <2> SUFFICES ASSUME NEW n \in PerLayer, NEW m \in Layers,
                      m < NLayer \/ (m = NLayer /\ n \in {})
               PROVE  E[Act(n, m)] = Tensor(ValueIn(n), m, t)
    BY DEF LayersTo
  <2>1. Act(n, m) \in Buffers
    BY LayerBuffers
  <2>2. Act(n, m) \notin {G("c_fc.b", l)}
    BY Tags DEF Tmp, PerLayer
  <2>3. m < NLayer \/ (m = NLayer /\ n \in {})
    BY Parameters DEF Layers, PerLayer
  <2> QED BY <1>1, <1>2, <2>1, <2>2, <2>3 DEF LayersTo
<1>5. /\ E[Tmp("tokens")] = Tokens(t)
      /\ E[Tmp("dh")] = DH(l + 1, t)
      /\ E[Tmp("d_mlp")] = Tensor("d_mlp_pre", l, t)
      /\ E[Tmp("loss")] = Tensor("loss", 0, t)
  <2> QED BY <1>1, <1>2, <1>3
<1> QED BY <1>4, <1>5, Holds_mlpBack7

LEMMA Carry_mlpBack7 ==
    ASSUME NEW l \in Layers, NEW t \in Passes, NEW B, NEW E,
           PassHeld(B, Place("mlpBack", l, 0), 7, t),
           Changes1(B, E, Tmp("d_qkv"), Tensor("d_ln2_y", l, t))
    PROVE  PassHeld(E, Place("mlpBack", l, 0), 8, t)
<1>1. /\ B[Tmp("tokens")] = Tokens(t)
      /\ LayersTo(B, NLayer, {}, t)
      /\ B[Tmp("dh")] = DH(l + 1, t)
      /\ B[Tmp("d_mlp")] = Tensor("d_mlp_pre", l, t)
      /\ B[Tmp("loss")] = Tensor("loss", 0, t)
  BY Holds_mlpBack7
<1>2. /\ E[Tmp("d_qkv")] = Tensor("d_ln2_y", l, t)
      /\ \A b \in Buffers : b \notin {Tmp("d_qkv")} => E[b] = B[b]
  BY DEF Changes1
<1>3. /\ E[Tmp("tokens")] = B[Tmp("tokens")]
      /\ E[Tmp("dh")] = B[Tmp("dh")]
      /\ E[Tmp("loss")] = B[Tmp("loss")]
  <2>1. /\ Tmp("tokens") \in Buffers
        /\ Tmp("dh") \in Buffers
        /\ Tmp("loss") \in Buffers
    BY SharedBuffers, LayerBuffers, HiddenBuffers, Parameters DEF Shared, PerLayer
  <2>2. /\ Tmp("tokens") \notin {Tmp("d_qkv")}
        /\ Tmp("dh") \notin {Tmp("d_qkv")}
        /\ Tmp("loss") \notin {Tmp("d_qkv")}
    BY Tags, Parameters DEF Tmp, Layers
  <2> QED BY <1>2, <2>1, <2>2
<1>4. LayersTo(E, NLayer, {}, t)
  <2> SUFFICES ASSUME NEW n \in PerLayer, NEW m \in Layers,
                      m < NLayer \/ (m = NLayer /\ n \in {})
               PROVE  E[Act(n, m)] = Tensor(ValueIn(n), m, t)
    BY DEF LayersTo
  <2>1. Act(n, m) \in Buffers
    BY LayerBuffers
  <2>2. Act(n, m) \notin {Tmp("d_qkv")}
    BY Tags DEF Tmp, PerLayer
  <2>3. m < NLayer \/ (m = NLayer /\ n \in {})
    BY Parameters DEF Layers, PerLayer
  <2> QED BY <1>1, <1>2, <2>1, <2>2, <2>3 DEF LayersTo
<1>5. /\ E[Tmp("tokens")] = Tokens(t)
      /\ E[Tmp("dh")] = DH(l + 1, t)
      /\ E[Tmp("d_qkv")] = Tensor("d_ln2_y", l, t)
      /\ E[Tmp("loss")] = Tensor("loss", 0, t)
  <2> QED BY <1>1, <1>2, <1>3
<1> QED BY <1>4, <1>5, Holds_mlpBack8

LEMMA Carry_mlpBack8 ==
    ASSUME NEW l \in Layers, NEW t \in Passes, NEW B, NEW E,
           PassHeld(B, Place("mlpBack", l, 0), 8, t),
           Changes1(B, E, Tmp("dh"), DHMid(l, t))
    PROVE  PassHeld(E, Place("mlpBack", l, 0), 9, t)
<1>1. /\ B[Tmp("tokens")] = Tokens(t)
      /\ LayersTo(B, NLayer, {}, t)
      /\ B[Tmp("dh")] = DH(l + 1, t)
      /\ B[Tmp("d_qkv")] = Tensor("d_ln2_y", l, t)
      /\ B[Tmp("loss")] = Tensor("loss", 0, t)
  BY Holds_mlpBack8
<1>2. /\ E[Tmp("dh")] = DHMid(l, t)
      /\ \A b \in Buffers : b \notin {Tmp("dh")} => E[b] = B[b]
  BY DEF Changes1
<1>3. /\ E[Tmp("tokens")] = B[Tmp("tokens")]
      /\ E[Tmp("d_qkv")] = B[Tmp("d_qkv")]
      /\ E[Tmp("loss")] = B[Tmp("loss")]
  <2>1. /\ Tmp("tokens") \in Buffers
        /\ Tmp("d_qkv") \in Buffers
        /\ Tmp("loss") \in Buffers
    BY SharedBuffers, LayerBuffers, HiddenBuffers, Parameters DEF Shared, PerLayer
  <2>2. /\ Tmp("tokens") \notin {Tmp("dh")}
        /\ Tmp("d_qkv") \notin {Tmp("dh")}
        /\ Tmp("loss") \notin {Tmp("dh")}
    BY Tags, Parameters DEF Tmp, Layers
  <2> QED BY <1>2, <2>1, <2>2
<1>4. LayersTo(E, NLayer, {}, t)
  <2> SUFFICES ASSUME NEW n \in PerLayer, NEW m \in Layers,
                      m < NLayer \/ (m = NLayer /\ n \in {})
               PROVE  E[Act(n, m)] = Tensor(ValueIn(n), m, t)
    BY DEF LayersTo
  <2>1. Act(n, m) \in Buffers
    BY LayerBuffers
  <2>2. Act(n, m) \notin {Tmp("dh")}
    BY Tags DEF Tmp, PerLayer
  <2>3. m < NLayer \/ (m = NLayer /\ n \in {})
    BY Parameters DEF Layers, PerLayer
  <2> QED BY <1>1, <1>2, <2>1, <2>2, <2>3 DEF LayersTo
<1>5. /\ E[Tmp("tokens")] = Tokens(t)
      /\ E[Tmp("dh")] = DHMid(l, t)
      /\ E[Tmp("d_qkv")] = Tensor("d_ln2_y", l, t)
      /\ E[Tmp("loss")] = Tensor("loss", 0, t)
  <2> QED BY <1>1, <1>2, <1>3
<1> QED BY <1>4, <1>5, Holds_mlpBack9

LEMMA Carry_mlpBack9 ==
    ASSUME NEW l \in Layers, NEW t \in Passes, NEW B, NEW E,
           PassHeld(B, Place("mlpBack", l, 0), 9, t),
           Changes2(B, E, G("ln_2.w", l), B[G("ln_2.w", l)] (+) Only(Gradient("ln_2.w", l, t)),
                G("ln_2.b", l), B[G("ln_2.b", l)] (+) Only(Gradient("ln_2.b", l, t)))
    PROVE  PassHeld(E, Place("projBack", l, 0), 1, t)
<1>1. /\ B[Tmp("tokens")] = Tokens(t)
      /\ LayersTo(B, NLayer, {}, t)
      /\ B[Tmp("dh")] = DHMid(l, t)
      /\ B[Tmp("d_qkv")] = Tensor("d_ln2_y", l, t)
      /\ B[Tmp("loss")] = Tensor("loss", 0, t)
  BY Holds_mlpBack9
<1>2. /\ E[G("ln_2.w", l)] = B[G("ln_2.w", l)] (+) Only(Gradient("ln_2.w", l, t))
      /\ E[G("ln_2.b", l)] = B[G("ln_2.b", l)] (+) Only(Gradient("ln_2.b", l, t))
      /\ \A b \in Buffers : b \notin {G("ln_2.w", l), G("ln_2.b", l)} => E[b] = B[b]
  BY DEF Changes2
<1>3. /\ E[Tmp("tokens")] = B[Tmp("tokens")]
      /\ E[Tmp("dh")] = B[Tmp("dh")]
      /\ E[Tmp("loss")] = B[Tmp("loss")]
  <2>1. /\ Tmp("tokens") \in Buffers
        /\ Tmp("dh") \in Buffers
        /\ Tmp("loss") \in Buffers
    BY SharedBuffers, LayerBuffers, HiddenBuffers, Parameters DEF Shared, PerLayer
  <2>2. /\ Tmp("tokens") \notin {G("ln_2.w", l), G("ln_2.b", l)}
        /\ Tmp("dh") \notin {G("ln_2.w", l), G("ln_2.b", l)}
        /\ Tmp("loss") \notin {G("ln_2.w", l), G("ln_2.b", l)}
    BY Tags, Parameters DEF Tmp, Layers
  <2> QED BY <1>2, <2>1, <2>2
<1>4. LayersTo(E, NLayer, {}, t)
  <2> SUFFICES ASSUME NEW n \in PerLayer, NEW m \in Layers,
                      m < NLayer \/ (m = NLayer /\ n \in {})
               PROVE  E[Act(n, m)] = Tensor(ValueIn(n), m, t)
    BY DEF LayersTo
  <2>1. Act(n, m) \in Buffers
    BY LayerBuffers
  <2>2. Act(n, m) \notin {G("ln_2.w", l), G("ln_2.b", l)}
    BY Tags DEF Tmp, PerLayer
  <2>3. m < NLayer \/ (m = NLayer /\ n \in {})
    BY Parameters DEF Layers, PerLayer
  <2> QED BY <1>1, <1>2, <2>1, <2>2, <2>3 DEF LayersTo
<1>5. /\ E[Tmp("tokens")] = Tokens(t)
      /\ E[Tmp("dh")] = DHMid(l, t)
      /\ E[Tmp("loss")] = Tensor("loss", 0, t)
  <2> QED BY <1>1, <1>2, <1>3
<1> QED BY <1>4, <1>5, Holds_projBack1

LEMMA Carry_projBack1 ==
    ASSUME NEW l \in Layers, NEW t \in Passes, NEW B, NEW E,
           PassHeld(B, Place("projBack", l, 0), 1, t),
           Changes1(B, E, G("attn.c_proj.w", l),
                        B[G("attn.c_proj.w", l)] (+) Only(Gradient("attn.c_proj.w", l, t)))
    PROVE  PassHeld(E, Place("projBack", l, 0), 2, t)
<1>1. /\ B[Tmp("tokens")] = Tokens(t)
      /\ LayersTo(B, NLayer, {}, t)
      /\ B[Tmp("dh")] = DHMid(l, t)
      /\ B[Tmp("loss")] = Tensor("loss", 0, t)
  BY Holds_projBack1
<1>2. /\ E[G("attn.c_proj.w", l)] = B[G("attn.c_proj.w", l)] (+) Only(Gradient("attn.c_proj.w",
           l, t))
      /\ \A b \in Buffers : b \notin {G("attn.c_proj.w", l)} => E[b] = B[b]
  BY DEF Changes1
<1>3. /\ E[Tmp("tokens")] = B[Tmp("tokens")]
      /\ E[Tmp("dh")] = B[Tmp("dh")]
      /\ E[Tmp("loss")] = B[Tmp("loss")]
  <2>1. /\ Tmp("tokens") \in Buffers
        /\ Tmp("dh") \in Buffers
        /\ Tmp("loss") \in Buffers
    BY SharedBuffers, LayerBuffers, HiddenBuffers, Parameters DEF Shared, PerLayer
  <2>2. /\ Tmp("tokens") \notin {G("attn.c_proj.w", l)}
        /\ Tmp("dh") \notin {G("attn.c_proj.w", l)}
        /\ Tmp("loss") \notin {G("attn.c_proj.w", l)}
    BY Tags, Parameters DEF Tmp, Layers
  <2> QED BY <1>2, <2>1, <2>2
<1>4. LayersTo(E, NLayer, {}, t)
  <2> SUFFICES ASSUME NEW n \in PerLayer, NEW m \in Layers,
                      m < NLayer \/ (m = NLayer /\ n \in {})
               PROVE  E[Act(n, m)] = Tensor(ValueIn(n), m, t)
    BY DEF LayersTo
  <2>1. Act(n, m) \in Buffers
    BY LayerBuffers
  <2>2. Act(n, m) \notin {G("attn.c_proj.w", l)}
    BY Tags DEF Tmp, PerLayer
  <2>3. m < NLayer \/ (m = NLayer /\ n \in {})
    BY Parameters DEF Layers, PerLayer
  <2> QED BY <1>1, <1>2, <2>1, <2>2, <2>3 DEF LayersTo
<1>5. /\ E[Tmp("tokens")] = Tokens(t)
      /\ E[Tmp("dh")] = DHMid(l, t)
      /\ E[Tmp("loss")] = Tensor("loss", 0, t)
  <2> QED BY <1>1, <1>2, <1>3
<1> QED BY <1>4, <1>5, Holds_projBack2

LEMMA Carry_projBack2 ==
    ASSUME NEW l \in Layers, NEW t \in Passes, NEW B, NEW E,
           PassHeld(B, Place("projBack", l, 0), 2, t),
           Changes1(B, E, G("attn.c_proj.b", l),
                        B[G("attn.c_proj.b", l)] (+) Only(Gradient("attn.c_proj.b", l, t)))
    PROVE  PassHeld(E, Place("projBack", l, 0), 3, t)
<1>1. /\ B[Tmp("tokens")] = Tokens(t)
      /\ LayersTo(B, NLayer, {}, t)
      /\ B[Tmp("dh")] = DHMid(l, t)
      /\ B[Tmp("loss")] = Tensor("loss", 0, t)
  BY Holds_projBack2
<1>2. /\ E[G("attn.c_proj.b", l)] = B[G("attn.c_proj.b", l)] (+) Only(Gradient("attn.c_proj.b",
           l, t))
      /\ \A b \in Buffers : b \notin {G("attn.c_proj.b", l)} => E[b] = B[b]
  BY DEF Changes1
<1>3. /\ E[Tmp("tokens")] = B[Tmp("tokens")]
      /\ E[Tmp("dh")] = B[Tmp("dh")]
      /\ E[Tmp("loss")] = B[Tmp("loss")]
  <2>1. /\ Tmp("tokens") \in Buffers
        /\ Tmp("dh") \in Buffers
        /\ Tmp("loss") \in Buffers
    BY SharedBuffers, LayerBuffers, HiddenBuffers, Parameters DEF Shared, PerLayer
  <2>2. /\ Tmp("tokens") \notin {G("attn.c_proj.b", l)}
        /\ Tmp("dh") \notin {G("attn.c_proj.b", l)}
        /\ Tmp("loss") \notin {G("attn.c_proj.b", l)}
    BY Tags, Parameters DEF Tmp, Layers
  <2> QED BY <1>2, <2>1, <2>2
<1>4. LayersTo(E, NLayer, {}, t)
  <2> SUFFICES ASSUME NEW n \in PerLayer, NEW m \in Layers,
                      m < NLayer \/ (m = NLayer /\ n \in {})
               PROVE  E[Act(n, m)] = Tensor(ValueIn(n), m, t)
    BY DEF LayersTo
  <2>1. Act(n, m) \in Buffers
    BY LayerBuffers
  <2>2. Act(n, m) \notin {G("attn.c_proj.b", l)}
    BY Tags DEF Tmp, PerLayer
  <2>3. m < NLayer \/ (m = NLayer /\ n \in {})
    BY Parameters DEF Layers, PerLayer
  <2> QED BY <1>1, <1>2, <2>1, <2>2, <2>3 DEF LayersTo
<1>5. /\ E[Tmp("tokens")] = Tokens(t)
      /\ E[Tmp("dh")] = DHMid(l, t)
      /\ E[Tmp("loss")] = Tensor("loss", 0, t)
  <2> QED BY <1>1, <1>2, <1>3
<1> QED BY <1>4, <1>5, Holds_projBack3

LEMMA Carry_projBack3 ==
    ASSUME NEW l \in Layers, NEW t \in Passes, NEW B, NEW E,
           PassHeld(B, Place("projBack", l, 0), 3, t),
           Changes1(B, E, Tmp("lnf_y"), Tensor("d_attn_out", l, t))
    PROVE  PassHeld(E, Place("attnBack", l, 0), 1, t)
<1>1. /\ B[Tmp("tokens")] = Tokens(t)
      /\ LayersTo(B, NLayer, {}, t)
      /\ B[Tmp("dh")] = DHMid(l, t)
      /\ B[Tmp("loss")] = Tensor("loss", 0, t)
  BY Holds_projBack3
<1>2. /\ E[Tmp("lnf_y")] = Tensor("d_attn_out", l, t)
      /\ \A b \in Buffers : b \notin {Tmp("lnf_y")} => E[b] = B[b]
  BY DEF Changes1
<1>3. /\ E[Tmp("tokens")] = B[Tmp("tokens")]
      /\ E[Tmp("dh")] = B[Tmp("dh")]
      /\ E[Tmp("loss")] = B[Tmp("loss")]
  <2>1. /\ Tmp("tokens") \in Buffers
        /\ Tmp("dh") \in Buffers
        /\ Tmp("loss") \in Buffers
    BY SharedBuffers, LayerBuffers, HiddenBuffers, Parameters DEF Shared, PerLayer
  <2>2. /\ Tmp("tokens") \notin {Tmp("lnf_y")}
        /\ Tmp("dh") \notin {Tmp("lnf_y")}
        /\ Tmp("loss") \notin {Tmp("lnf_y")}
    BY Tags, Parameters DEF Tmp, Layers
  <2> QED BY <1>2, <2>1, <2>2
<1>4. LayersTo(E, NLayer, {}, t)
  <2> SUFFICES ASSUME NEW n \in PerLayer, NEW m \in Layers,
                      m < NLayer \/ (m = NLayer /\ n \in {})
               PROVE  E[Act(n, m)] = Tensor(ValueIn(n), m, t)
    BY DEF LayersTo
  <2>1. Act(n, m) \in Buffers
    BY LayerBuffers
  <2>2. Act(n, m) \notin {Tmp("lnf_y")}
    BY Tags DEF Tmp, PerLayer
  <2>3. m < NLayer \/ (m = NLayer /\ n \in {})
    BY Parameters DEF Layers, PerLayer
  <2> QED BY <1>1, <1>2, <2>1, <2>2, <2>3 DEF LayersTo
<1>5. /\ E[Tmp("tokens")] = Tokens(t)
      /\ E[Tmp("dh")] = DHMid(l, t)
      /\ E[Tmp("lnf_y")] = Tensor("d_attn_out", l, t)
      /\ (0 > 0 => E[Tmp("d_qkv")] = SetToBag(HeadGrads(l, 0, 1, t)))
      /\ E[Tmp("loss")] = Tensor("loss", 0, t)
  <2>1. ~(0 > 0)
    BY Parameters DEF Layers, Heads
  <2> QED BY <1>1, <1>2, <1>3, <2>1
<1>6. 0 \in Heads
  BY Parameters DEF Heads
<1> QED BY <1>4, <1>5, <1>6, Holds_attnBack1

LEMMA Carry_attnBack1 ==
    ASSUME NEW l \in Layers, NEW h \in Heads, NEW t \in Passes, NEW B, NEW E,
           PassHeld(B, Place("attnBack", l, h), 1, t),
           Changes3(B, E, Tmp("d_qkv"), SetToBag(HeadGrads(l, h, 2, t)),
                Tmp("dP_tmp"), Only(Named("dP", l, h, t)),
                Tmp("dot_row"), Zero)
    PROVE  PassHeld(E, Place("attnBack", l, h), 2, t)
<1>1. /\ B[Tmp("tokens")] = Tokens(t)
      /\ LayersTo(B, NLayer, {}, t)
      /\ B[Tmp("dh")] = DHMid(l, t)
      /\ B[Tmp("lnf_y")] = Tensor("d_attn_out", l, t)
      /\ (h > 0 => B[Tmp("d_qkv")] = SetToBag(HeadGrads(l, h, 1, t)))
      /\ B[Tmp("loss")] = Tensor("loss", 0, t)
  BY Holds_attnBack1
<1>2. /\ E[Tmp("d_qkv")] = SetToBag(HeadGrads(l, h, 2, t))
      /\ E[Tmp("dP_tmp")] = Only(Named("dP", l, h, t))
      /\ E[Tmp("dot_row")] = Zero
      /\ \A b \in Buffers : b \notin {Tmp("d_qkv"), Tmp("dP_tmp"), Tmp("dot_row")}
           => E[b] = B[b]
  BY DEF Changes3
<1>3. /\ E[Tmp("tokens")] = B[Tmp("tokens")]
      /\ E[Tmp("dh")] = B[Tmp("dh")]
      /\ E[Tmp("lnf_y")] = B[Tmp("lnf_y")]
      /\ E[Tmp("loss")] = B[Tmp("loss")]
  <2>1. /\ Tmp("tokens") \in Buffers
        /\ Tmp("dh") \in Buffers
        /\ Tmp("lnf_y") \in Buffers
        /\ Tmp("loss") \in Buffers
    BY SharedBuffers, LayerBuffers, HiddenBuffers, Parameters DEF Shared, PerLayer
  <2>2. /\ Tmp("tokens") \notin {Tmp("d_qkv"), Tmp("dP_tmp"), Tmp("dot_row")}
        /\ Tmp("dh") \notin {Tmp("d_qkv"), Tmp("dP_tmp"), Tmp("dot_row")}
        /\ Tmp("lnf_y") \notin {Tmp("d_qkv"), Tmp("dP_tmp"), Tmp("dot_row")}
        /\ Tmp("loss") \notin {Tmp("d_qkv"), Tmp("dP_tmp"), Tmp("dot_row")}
    BY Tags, Parameters DEF Tmp, Layers
  <2> QED BY <1>2, <2>1, <2>2
<1>4. LayersTo(E, NLayer, {}, t)
  <2> SUFFICES ASSUME NEW n \in PerLayer, NEW m \in Layers,
                      m < NLayer \/ (m = NLayer /\ n \in {})
               PROVE  E[Act(n, m)] = Tensor(ValueIn(n), m, t)
    BY DEF LayersTo
  <2>1. Act(n, m) \in Buffers
    BY LayerBuffers
  <2>2. Act(n, m) \notin {Tmp("d_qkv"), Tmp("dP_tmp"), Tmp("dot_row")}
    BY Tags DEF Tmp, PerLayer
  <2>3. m < NLayer \/ (m = NLayer /\ n \in {})
    BY Parameters DEF Layers, PerLayer
  <2> QED BY <1>1, <1>2, <2>1, <2>2, <2>3 DEF LayersTo
<1>5. /\ E[Tmp("tokens")] = Tokens(t)
      /\ E[Tmp("dh")] = DHMid(l, t)
      /\ E[Tmp("lnf_y")] = Tensor("d_attn_out", l, t)
      /\ E[Tmp("d_qkv")] = SetToBag(HeadGrads(l, h, 2, t))
      /\ E[Tmp("dP_tmp")] = Only(Named("dP", l, h, t))
      /\ E[Tmp("loss")] = Tensor("loss", 0, t)
  <2> QED BY <1>1, <1>2, <1>3
<1> QED BY <1>4, <1>5, Holds_attnBack2

LEMMA Carry_attnBack2 ==
    ASSUME NEW l \in Layers, NEW h \in Heads, NEW t \in Passes, NEW B, NEW E,
           PassHeld(B, Place("attnBack", l, h), 2, t),
           Changes2(B, E, Tmp("d_qkv"), SetToBag(HeadGrads(l, h, 3, t)),
                Tmp("dot_row"), Only(Named("dot", l, h, t)))
    PROVE  PassHeld(E, Place("attnBack", l, h), 3, t)
<1>1. /\ B[Tmp("tokens")] = Tokens(t)
      /\ LayersTo(B, NLayer, {}, t)
      /\ B[Tmp("dh")] = DHMid(l, t)
      /\ B[Tmp("lnf_y")] = Tensor("d_attn_out", l, t)
      /\ B[Tmp("d_qkv")] = SetToBag(HeadGrads(l, h, 2, t))
      /\ B[Tmp("dP_tmp")] = Only(Named("dP", l, h, t))
      /\ B[Tmp("loss")] = Tensor("loss", 0, t)
  BY Holds_attnBack2
<1>2. /\ E[Tmp("d_qkv")] = SetToBag(HeadGrads(l, h, 3, t))
      /\ E[Tmp("dot_row")] = Only(Named("dot", l, h, t))
      /\ \A b \in Buffers : b \notin {Tmp("d_qkv"), Tmp("dot_row")} => E[b] = B[b]
  BY DEF Changes2
<1>3. /\ E[Tmp("tokens")] = B[Tmp("tokens")]
      /\ E[Tmp("dh")] = B[Tmp("dh")]
      /\ E[Tmp("lnf_y")] = B[Tmp("lnf_y")]
      /\ E[Tmp("dP_tmp")] = B[Tmp("dP_tmp")]
      /\ E[Tmp("loss")] = B[Tmp("loss")]
  <2>1. /\ Tmp("tokens") \in Buffers
        /\ Tmp("dh") \in Buffers
        /\ Tmp("lnf_y") \in Buffers
        /\ Tmp("dP_tmp") \in Buffers
        /\ Tmp("loss") \in Buffers
    BY SharedBuffers, LayerBuffers, HiddenBuffers, Parameters DEF Shared, PerLayer
  <2>2. /\ Tmp("tokens") \notin {Tmp("d_qkv"), Tmp("dot_row")}
        /\ Tmp("dh") \notin {Tmp("d_qkv"), Tmp("dot_row")}
        /\ Tmp("lnf_y") \notin {Tmp("d_qkv"), Tmp("dot_row")}
        /\ Tmp("dP_tmp") \notin {Tmp("d_qkv"), Tmp("dot_row")}
        /\ Tmp("loss") \notin {Tmp("d_qkv"), Tmp("dot_row")}
    BY Tags, Parameters DEF Tmp, Layers
  <2> QED BY <1>2, <2>1, <2>2
<1>4. LayersTo(E, NLayer, {}, t)
  <2> SUFFICES ASSUME NEW n \in PerLayer, NEW m \in Layers,
                      m < NLayer \/ (m = NLayer /\ n \in {})
               PROVE  E[Act(n, m)] = Tensor(ValueIn(n), m, t)
    BY DEF LayersTo
  <2>1. Act(n, m) \in Buffers
    BY LayerBuffers
  <2>2. Act(n, m) \notin {Tmp("d_qkv"), Tmp("dot_row")}
    BY Tags DEF Tmp, PerLayer
  <2>3. m < NLayer \/ (m = NLayer /\ n \in {})
    BY Parameters DEF Layers, PerLayer
  <2> QED BY <1>1, <1>2, <2>1, <2>2, <2>3 DEF LayersTo
<1>5. /\ E[Tmp("tokens")] = Tokens(t)
      /\ E[Tmp("dh")] = DHMid(l, t)
      /\ E[Tmp("lnf_y")] = Tensor("d_attn_out", l, t)
      /\ E[Tmp("d_qkv")] = SetToBag(HeadGrads(l, h, 3, t))
      /\ E[Tmp("dP_tmp")] = Only(Named("dP", l, h, t))
      /\ E[Tmp("dot_row")] = Only(Named("dot", l, h, t))
      /\ E[Tmp("loss")] = Tensor("loss", 0, t)
  <2> QED BY <1>1, <1>2, <1>3
<1> QED BY <1>4, <1>5, Holds_attnBack3

LEMMA Carry_attnBack3a ==
    ASSUME NEW l \in Layers, NEW h \in Heads, NEW t \in Passes, NEW B, NEW E,
           PassHeld(B, Place("attnBack", l, h), 3, t),
           Changes1(B, E, Tmp("d_qkv"), SetToBag(HeadGrads(l, h + 1, 1, t))),
           h + 1 < NHead
    PROVE  PassHeld(E, Place("attnBack", l, h + 1), 1, t)
<1>1. /\ B[Tmp("tokens")] = Tokens(t)
      /\ LayersTo(B, NLayer, {}, t)
      /\ B[Tmp("dh")] = DHMid(l, t)
      /\ B[Tmp("lnf_y")] = Tensor("d_attn_out", l, t)
      /\ B[Tmp("d_qkv")] = SetToBag(HeadGrads(l, h, 3, t))
      /\ B[Tmp("dP_tmp")] = Only(Named("dP", l, h, t))
      /\ B[Tmp("dot_row")] = Only(Named("dot", l, h, t))
      /\ B[Tmp("loss")] = Tensor("loss", 0, t)
  BY Holds_attnBack3
<1>2. /\ E[Tmp("d_qkv")] = SetToBag(HeadGrads(l, h + 1, 1, t))
      /\ \A b \in Buffers : b \notin {Tmp("d_qkv")} => E[b] = B[b]
  BY DEF Changes1
<1>3. /\ E[Tmp("tokens")] = B[Tmp("tokens")]
      /\ E[Tmp("dh")] = B[Tmp("dh")]
      /\ E[Tmp("lnf_y")] = B[Tmp("lnf_y")]
      /\ E[Tmp("loss")] = B[Tmp("loss")]
  <2>1. /\ Tmp("tokens") \in Buffers
        /\ Tmp("dh") \in Buffers
        /\ Tmp("lnf_y") \in Buffers
        /\ Tmp("loss") \in Buffers
    BY SharedBuffers, LayerBuffers, HiddenBuffers, Parameters DEF Shared, PerLayer
  <2>2. /\ Tmp("tokens") \notin {Tmp("d_qkv")}
        /\ Tmp("dh") \notin {Tmp("d_qkv")}
        /\ Tmp("lnf_y") \notin {Tmp("d_qkv")}
        /\ Tmp("loss") \notin {Tmp("d_qkv")}
    BY Tags, Parameters DEF Tmp, Layers
  <2> QED BY <1>2, <2>1, <2>2
<1>4. LayersTo(E, NLayer, {}, t)
  <2> SUFFICES ASSUME NEW n \in PerLayer, NEW m \in Layers,
                      m < NLayer \/ (m = NLayer /\ n \in {})
               PROVE  E[Act(n, m)] = Tensor(ValueIn(n), m, t)
    BY DEF LayersTo
  <2>1. Act(n, m) \in Buffers
    BY LayerBuffers
  <2>2. Act(n, m) \notin {Tmp("d_qkv")}
    BY Tags DEF Tmp, PerLayer
  <2>3. m < NLayer \/ (m = NLayer /\ n \in {})
    BY Parameters DEF Layers, PerLayer
  <2> QED BY <1>1, <1>2, <2>1, <2>2, <2>3 DEF LayersTo
<1>5. /\ E[Tmp("tokens")] = Tokens(t)
      /\ E[Tmp("dh")] = DHMid(l, t)
      /\ E[Tmp("lnf_y")] = Tensor("d_attn_out", l, t)
      /\ (h + 1 > 0 => E[Tmp("d_qkv")] = SetToBag(HeadGrads(l, h + 1, 1, t)))
      /\ E[Tmp("loss")] = Tensor("loss", 0, t)
  <2>1. h + 1 > 0
    BY Parameters DEF Layers, Heads
  <2> QED BY <1>1, <1>2, <1>3, <2>1
<1>6. h + 1 \in Heads
  BY Parameters DEF Heads
<1> QED BY <1>4, <1>5, <1>6, Holds_attnBack1

LEMMA Carry_attnBack3b ==
    ASSUME NEW l \in Layers, NEW h \in Heads, NEW t \in Passes, NEW B, NEW E,
           PassHeld(B, Place("attnBack", l, h), 3, t),
           Changes1(B, E, Tmp("d_qkv"), SetToBag(HeadGrads(l, h + 1, 1, t))),
           ~(h + 1 < NHead)
    PROVE  PassHeld(E, Place("qkvBack", l, 0), 1, t)
<1>1. /\ B[Tmp("tokens")] = Tokens(t)
      /\ LayersTo(B, NLayer, {}, t)
      /\ B[Tmp("dh")] = DHMid(l, t)
      /\ B[Tmp("lnf_y")] = Tensor("d_attn_out", l, t)
      /\ B[Tmp("d_qkv")] = SetToBag(HeadGrads(l, h, 3, t))
      /\ B[Tmp("dP_tmp")] = Only(Named("dP", l, h, t))
      /\ B[Tmp("dot_row")] = Only(Named("dot", l, h, t))
      /\ B[Tmp("loss")] = Tensor("loss", 0, t)
  BY Holds_attnBack3
<1>2. /\ E[Tmp("d_qkv")] = SetToBag(HeadGrads(l, h + 1, 1, t))
      /\ \A b \in Buffers : b \notin {Tmp("d_qkv")} => E[b] = B[b]
  BY DEF Changes1
<1>3. /\ E[Tmp("tokens")] = B[Tmp("tokens")]
      /\ E[Tmp("dh")] = B[Tmp("dh")]
      /\ E[Tmp("loss")] = B[Tmp("loss")]
  <2>1. /\ Tmp("tokens") \in Buffers
        /\ Tmp("dh") \in Buffers
        /\ Tmp("loss") \in Buffers
    BY SharedBuffers, LayerBuffers, HiddenBuffers, Parameters DEF Shared, PerLayer
  <2>2. /\ Tmp("tokens") \notin {Tmp("d_qkv")}
        /\ Tmp("dh") \notin {Tmp("d_qkv")}
        /\ Tmp("loss") \notin {Tmp("d_qkv")}
    BY Tags, Parameters DEF Tmp, Layers
  <2> QED BY <1>2, <2>1, <2>2
<1>4. LayersTo(E, NLayer, {}, t)
  <2> SUFFICES ASSUME NEW n \in PerLayer, NEW m \in Layers,
                      m < NLayer \/ (m = NLayer /\ n \in {})
               PROVE  E[Act(n, m)] = Tensor(ValueIn(n), m, t)
    BY DEF LayersTo
  <2>1. Act(n, m) \in Buffers
    BY LayerBuffers
  <2>2. Act(n, m) \notin {Tmp("d_qkv")}
    BY Tags DEF Tmp, PerLayer
  <2>3. m < NLayer \/ (m = NLayer /\ n \in {})
    BY Parameters DEF Layers, PerLayer
  <2> QED BY <1>1, <1>2, <2>1, <2>2, <2>3 DEF LayersTo
<1>5. /\ E[Tmp("tokens")] = Tokens(t)
      /\ E[Tmp("dh")] = DHMid(l, t)
      /\ E[Tmp("d_qkv")] = DQkv(l, t)
      /\ E[Tmp("loss")] = Tensor("loss", 0, t)
  <2>1. h + 1 = NHead
    BY Parameters DEF Layers, Heads
  <2> QED BY <1>1, <1>2, <1>3, <2>1, HeadGradsEnds
<1> QED BY <1>4, <1>5, Holds_qkvBack1

LEMMA Carry_qkvBack1 ==
    ASSUME NEW l \in Layers, NEW t \in Passes, NEW B, NEW E,
           PassHeld(B, Place("qkvBack", l, 0), 1, t),
           Changes1(B, E, G("c_attn.w", l),
                        B[G("c_attn.w", l)] (+) Only(Gradient("c_attn.w", l, t)))
    PROVE  PassHeld(E, Place("qkvBack", l, 0), 2, t)
<1>1. /\ B[Tmp("tokens")] = Tokens(t)
      /\ LayersTo(B, NLayer, {}, t)
      /\ B[Tmp("dh")] = DHMid(l, t)
      /\ B[Tmp("d_qkv")] = DQkv(l, t)
      /\ B[Tmp("loss")] = Tensor("loss", 0, t)
  BY Holds_qkvBack1
<1>2. /\ E[G("c_attn.w", l)] = B[G("c_attn.w", l)] (+) Only(Gradient("c_attn.w", l, t))
      /\ \A b \in Buffers : b \notin {G("c_attn.w", l)} => E[b] = B[b]
  BY DEF Changes1
<1>3. /\ E[Tmp("tokens")] = B[Tmp("tokens")]
      /\ E[Tmp("dh")] = B[Tmp("dh")]
      /\ E[Tmp("d_qkv")] = B[Tmp("d_qkv")]
      /\ E[Tmp("loss")] = B[Tmp("loss")]
  <2>1. /\ Tmp("tokens") \in Buffers
        /\ Tmp("dh") \in Buffers
        /\ Tmp("d_qkv") \in Buffers
        /\ Tmp("loss") \in Buffers
    BY SharedBuffers, LayerBuffers, HiddenBuffers, Parameters DEF Shared, PerLayer
  <2>2. /\ Tmp("tokens") \notin {G("c_attn.w", l)}
        /\ Tmp("dh") \notin {G("c_attn.w", l)}
        /\ Tmp("d_qkv") \notin {G("c_attn.w", l)}
        /\ Tmp("loss") \notin {G("c_attn.w", l)}
    BY Tags, Parameters DEF Tmp, Layers
  <2> QED BY <1>2, <2>1, <2>2
<1>4. LayersTo(E, NLayer, {}, t)
  <2> SUFFICES ASSUME NEW n \in PerLayer, NEW m \in Layers,
                      m < NLayer \/ (m = NLayer /\ n \in {})
               PROVE  E[Act(n, m)] = Tensor(ValueIn(n), m, t)
    BY DEF LayersTo
  <2>1. Act(n, m) \in Buffers
    BY LayerBuffers
  <2>2. Act(n, m) \notin {G("c_attn.w", l)}
    BY Tags DEF Tmp, PerLayer
  <2>3. m < NLayer \/ (m = NLayer /\ n \in {})
    BY Parameters DEF Layers, PerLayer
  <2> QED BY <1>1, <1>2, <2>1, <2>2, <2>3 DEF LayersTo
<1>5. /\ E[Tmp("tokens")] = Tokens(t)
      /\ E[Tmp("dh")] = DHMid(l, t)
      /\ E[Tmp("d_qkv")] = DQkv(l, t)
      /\ E[Tmp("loss")] = Tensor("loss", 0, t)
  <2> QED BY <1>1, <1>2, <1>3
<1> QED BY <1>4, <1>5, Holds_qkvBack2

LEMMA Carry_qkvBack2 ==
    ASSUME NEW l \in Layers, NEW t \in Passes, NEW B, NEW E,
           PassHeld(B, Place("qkvBack", l, 0), 2, t),
           Changes1(B, E, G("c_attn.b", l),
                        B[G("c_attn.b", l)] (+) Only(Gradient("c_attn.b", l, t)))
    PROVE  PassHeld(E, Place("qkvBack", l, 0), 3, t)
<1>1. /\ B[Tmp("tokens")] = Tokens(t)
      /\ LayersTo(B, NLayer, {}, t)
      /\ B[Tmp("dh")] = DHMid(l, t)
      /\ B[Tmp("d_qkv")] = DQkv(l, t)
      /\ B[Tmp("loss")] = Tensor("loss", 0, t)
  BY Holds_qkvBack2
<1>2. /\ E[G("c_attn.b", l)] = B[G("c_attn.b", l)] (+) Only(Gradient("c_attn.b", l, t))
      /\ \A b \in Buffers : b \notin {G("c_attn.b", l)} => E[b] = B[b]
  BY DEF Changes1
<1>3. /\ E[Tmp("tokens")] = B[Tmp("tokens")]
      /\ E[Tmp("dh")] = B[Tmp("dh")]
      /\ E[Tmp("d_qkv")] = B[Tmp("d_qkv")]
      /\ E[Tmp("loss")] = B[Tmp("loss")]
  <2>1. /\ Tmp("tokens") \in Buffers
        /\ Tmp("dh") \in Buffers
        /\ Tmp("d_qkv") \in Buffers
        /\ Tmp("loss") \in Buffers
    BY SharedBuffers, LayerBuffers, HiddenBuffers, Parameters DEF Shared, PerLayer
  <2>2. /\ Tmp("tokens") \notin {G("c_attn.b", l)}
        /\ Tmp("dh") \notin {G("c_attn.b", l)}
        /\ Tmp("d_qkv") \notin {G("c_attn.b", l)}
        /\ Tmp("loss") \notin {G("c_attn.b", l)}
    BY Tags, Parameters DEF Tmp, Layers
  <2> QED BY <1>2, <2>1, <2>2
<1>4. LayersTo(E, NLayer, {}, t)
  <2> SUFFICES ASSUME NEW n \in PerLayer, NEW m \in Layers,
                      m < NLayer \/ (m = NLayer /\ n \in {})
               PROVE  E[Act(n, m)] = Tensor(ValueIn(n), m, t)
    BY DEF LayersTo
  <2>1. Act(n, m) \in Buffers
    BY LayerBuffers
  <2>2. Act(n, m) \notin {G("c_attn.b", l)}
    BY Tags DEF Tmp, PerLayer
  <2>3. m < NLayer \/ (m = NLayer /\ n \in {})
    BY Parameters DEF Layers, PerLayer
  <2> QED BY <1>1, <1>2, <2>1, <2>2, <2>3 DEF LayersTo
<1>5. /\ E[Tmp("tokens")] = Tokens(t)
      /\ E[Tmp("dh")] = DHMid(l, t)
      /\ E[Tmp("d_qkv")] = DQkv(l, t)
      /\ E[Tmp("loss")] = Tensor("loss", 0, t)
  <2> QED BY <1>1, <1>2, <1>3
<1> QED BY <1>4, <1>5, Holds_qkvBack3

LEMMA Carry_qkvBack3 ==
    ASSUME NEW l \in Layers, NEW t \in Passes, NEW B, NEW E,
           PassHeld(B, Place("qkvBack", l, 0), 3, t),
           Changes1(B, E, Tmp("lnf_y"), Tensor("d_ln1_y", l, t))
    PROVE  PassHeld(E, Place("qkvBack", l, 0), 4, t)
<1>1. /\ B[Tmp("tokens")] = Tokens(t)
      /\ LayersTo(B, NLayer, {}, t)
      /\ B[Tmp("dh")] = DHMid(l, t)
      /\ B[Tmp("d_qkv")] = DQkv(l, t)
      /\ B[Tmp("loss")] = Tensor("loss", 0, t)
  BY Holds_qkvBack3
<1>2. /\ E[Tmp("lnf_y")] = Tensor("d_ln1_y", l, t)
      /\ \A b \in Buffers : b \notin {Tmp("lnf_y")} => E[b] = B[b]
  BY DEF Changes1
<1>3. /\ E[Tmp("tokens")] = B[Tmp("tokens")]
      /\ E[Tmp("dh")] = B[Tmp("dh")]
      /\ E[Tmp("d_qkv")] = B[Tmp("d_qkv")]
      /\ E[Tmp("loss")] = B[Tmp("loss")]
  <2>1. /\ Tmp("tokens") \in Buffers
        /\ Tmp("dh") \in Buffers
        /\ Tmp("d_qkv") \in Buffers
        /\ Tmp("loss") \in Buffers
    BY SharedBuffers, LayerBuffers, HiddenBuffers, Parameters DEF Shared, PerLayer
  <2>2. /\ Tmp("tokens") \notin {Tmp("lnf_y")}
        /\ Tmp("dh") \notin {Tmp("lnf_y")}
        /\ Tmp("d_qkv") \notin {Tmp("lnf_y")}
        /\ Tmp("loss") \notin {Tmp("lnf_y")}
    BY Tags, Parameters DEF Tmp, Layers
  <2> QED BY <1>2, <2>1, <2>2
<1>4. LayersTo(E, NLayer, {}, t)
  <2> SUFFICES ASSUME NEW n \in PerLayer, NEW m \in Layers,
                      m < NLayer \/ (m = NLayer /\ n \in {})
               PROVE  E[Act(n, m)] = Tensor(ValueIn(n), m, t)
    BY DEF LayersTo
  <2>1. Act(n, m) \in Buffers
    BY LayerBuffers
  <2>2. Act(n, m) \notin {Tmp("lnf_y")}
    BY Tags DEF Tmp, PerLayer
  <2>3. m < NLayer \/ (m = NLayer /\ n \in {})
    BY Parameters DEF Layers, PerLayer
  <2> QED BY <1>1, <1>2, <2>1, <2>2, <2>3 DEF LayersTo
<1>5. /\ E[Tmp("tokens")] = Tokens(t)
      /\ E[Tmp("dh")] = DHMid(l, t)
      /\ E[Tmp("d_qkv")] = DQkv(l, t)
      /\ E[Tmp("lnf_y")] = Tensor("d_ln1_y", l, t)
      /\ E[Tmp("loss")] = Tensor("loss", 0, t)
  <2> QED BY <1>1, <1>2, <1>3
<1> QED BY <1>4, <1>5, Holds_qkvBack4

LEMMA Carry_qkvBack4 ==
    ASSUME NEW l \in Layers, NEW t \in Passes, NEW B, NEW E,
           PassHeld(B, Place("qkvBack", l, 0), 4, t),
           Changes1(B, E, Tmp("dh"), DH(l, t))
    PROVE  PassHeld(E, Place("qkvBack", l, 0), 5, t)
<1>1. /\ B[Tmp("tokens")] = Tokens(t)
      /\ LayersTo(B, NLayer, {}, t)
      /\ B[Tmp("dh")] = DHMid(l, t)
      /\ B[Tmp("d_qkv")] = DQkv(l, t)
      /\ B[Tmp("lnf_y")] = Tensor("d_ln1_y", l, t)
      /\ B[Tmp("loss")] = Tensor("loss", 0, t)
  BY Holds_qkvBack4
<1>2. /\ E[Tmp("dh")] = DH(l, t)
      /\ \A b \in Buffers : b \notin {Tmp("dh")} => E[b] = B[b]
  BY DEF Changes1
<1>3. /\ E[Tmp("tokens")] = B[Tmp("tokens")]
      /\ E[Tmp("d_qkv")] = B[Tmp("d_qkv")]
      /\ E[Tmp("lnf_y")] = B[Tmp("lnf_y")]
      /\ E[Tmp("loss")] = B[Tmp("loss")]
  <2>1. /\ Tmp("tokens") \in Buffers
        /\ Tmp("d_qkv") \in Buffers
        /\ Tmp("lnf_y") \in Buffers
        /\ Tmp("loss") \in Buffers
    BY SharedBuffers, LayerBuffers, HiddenBuffers, Parameters DEF Shared, PerLayer
  <2>2. /\ Tmp("tokens") \notin {Tmp("dh")}
        /\ Tmp("d_qkv") \notin {Tmp("dh")}
        /\ Tmp("lnf_y") \notin {Tmp("dh")}
        /\ Tmp("loss") \notin {Tmp("dh")}
    BY Tags, Parameters DEF Tmp, Layers
  <2> QED BY <1>2, <2>1, <2>2
<1>4. LayersTo(E, NLayer, {}, t)
  <2> SUFFICES ASSUME NEW n \in PerLayer, NEW m \in Layers,
                      m < NLayer \/ (m = NLayer /\ n \in {})
               PROVE  E[Act(n, m)] = Tensor(ValueIn(n), m, t)
    BY DEF LayersTo
  <2>1. Act(n, m) \in Buffers
    BY LayerBuffers
  <2>2. Act(n, m) \notin {Tmp("dh")}
    BY Tags DEF Tmp, PerLayer
  <2>3. m < NLayer \/ (m = NLayer /\ n \in {})
    BY Parameters DEF Layers, PerLayer
  <2> QED BY <1>1, <1>2, <2>1, <2>2, <2>3 DEF LayersTo
<1>5. /\ E[Tmp("tokens")] = Tokens(t)
      /\ E[Tmp("dh")] = DH(l, t)
      /\ E[Tmp("d_qkv")] = DQkv(l, t)
      /\ E[Tmp("lnf_y")] = Tensor("d_ln1_y", l, t)
      /\ E[Tmp("loss")] = Tensor("loss", 0, t)
  <2> QED BY <1>1, <1>2, <1>3
<1> QED BY <1>4, <1>5, Holds_qkvBack5

LEMMA Carry_qkvBack5a ==
    ASSUME NEW l \in Layers, NEW t \in Passes, NEW B, NEW E,
           PassHeld(B, Place("qkvBack", l, 0), 5, t),
           Changes2(B, E, G("ln_1.w", l), B[G("ln_1.w", l)] (+) Only(Gradient("ln_1.w", l, t)),
                G("ln_1.b", l), B[G("ln_1.b", l)] (+) Only(Gradient("ln_1.b", l, t))),
           l > 0
    PROVE  PassHeld(E, Place("mlpBack", l - 1, 0), 1, t)
<1>1. /\ B[Tmp("tokens")] = Tokens(t)
      /\ LayersTo(B, NLayer, {}, t)
      /\ B[Tmp("dh")] = DH(l, t)
      /\ B[Tmp("d_qkv")] = DQkv(l, t)
      /\ B[Tmp("lnf_y")] = Tensor("d_ln1_y", l, t)
      /\ B[Tmp("loss")] = Tensor("loss", 0, t)
  BY Holds_qkvBack5
<1>2. /\ E[G("ln_1.w", l)] = B[G("ln_1.w", l)] (+) Only(Gradient("ln_1.w", l, t))
      /\ E[G("ln_1.b", l)] = B[G("ln_1.b", l)] (+) Only(Gradient("ln_1.b", l, t))
      /\ \A b \in Buffers : b \notin {G("ln_1.w", l), G("ln_1.b", l)} => E[b] = B[b]
  BY DEF Changes2
<1>3. /\ E[Tmp("tokens")] = B[Tmp("tokens")]
      /\ E[Tmp("dh")] = B[Tmp("dh")]
      /\ E[Tmp("loss")] = B[Tmp("loss")]
  <2>1. /\ Tmp("tokens") \in Buffers
        /\ Tmp("dh") \in Buffers
        /\ Tmp("loss") \in Buffers
    BY SharedBuffers, LayerBuffers, HiddenBuffers, Parameters DEF Shared, PerLayer
  <2>2. /\ Tmp("tokens") \notin {G("ln_1.w", l), G("ln_1.b", l)}
        /\ Tmp("dh") \notin {G("ln_1.w", l), G("ln_1.b", l)}
        /\ Tmp("loss") \notin {G("ln_1.w", l), G("ln_1.b", l)}
    BY Tags, Parameters DEF Tmp, Layers
  <2> QED BY <1>2, <2>1, <2>2
<1>4. LayersTo(E, NLayer, {}, t)
  <2> SUFFICES ASSUME NEW n \in PerLayer, NEW m \in Layers,
                      m < NLayer \/ (m = NLayer /\ n \in {})
               PROVE  E[Act(n, m)] = Tensor(ValueIn(n), m, t)
    BY DEF LayersTo
  <2>1. Act(n, m) \in Buffers
    BY LayerBuffers
  <2>2. Act(n, m) \notin {G("ln_1.w", l), G("ln_1.b", l)}
    BY Tags DEF Tmp, PerLayer
  <2>3. m < NLayer \/ (m = NLayer /\ n \in {})
    BY Parameters DEF Layers, PerLayer
  <2> QED BY <1>1, <1>2, <2>1, <2>2, <2>3 DEF LayersTo
<1>5. /\ E[Tmp("tokens")] = Tokens(t)
      /\ E[Tmp("dh")] = DH(l - 1 + 1, t)
      /\ E[Tmp("loss")] = Tensor("loss", 0, t)
  <2>1. l - 1 + 1 = l
    BY Parameters DEF Layers, Heads
  <2> QED BY <1>1, <1>2, <1>3, <2>1
<1>6. l - 1 \in Layers
  BY Parameters DEF Layers
<1> QED BY <1>4, <1>5, <1>6, Holds_mlpBack1

LEMMA Carry_qkvBack5b ==
    ASSUME NEW l \in Layers, NEW t \in Passes, NEW B, NEW E,
           PassHeld(B, Place("qkvBack", l, 0), 5, t),
           Changes2(B, E, G("ln_1.w", l), B[G("ln_1.w", l)] (+) Only(Gradient("ln_1.w", l, t)),
                G("ln_1.b", l), B[G("ln_1.b", l)] (+) Only(Gradient("ln_1.b", l, t))),
           ~(l > 0)
    PROVE  PassHeld(E, Place("embedBack", 0, 0), 1, t)
<1>1. /\ B[Tmp("tokens")] = Tokens(t)
      /\ LayersTo(B, NLayer, {}, t)
      /\ B[Tmp("dh")] = DH(l, t)
      /\ B[Tmp("d_qkv")] = DQkv(l, t)
      /\ B[Tmp("lnf_y")] = Tensor("d_ln1_y", l, t)
      /\ B[Tmp("loss")] = Tensor("loss", 0, t)
  BY Holds_qkvBack5
<1>2. /\ E[G("ln_1.w", l)] = B[G("ln_1.w", l)] (+) Only(Gradient("ln_1.w", l, t))
      /\ E[G("ln_1.b", l)] = B[G("ln_1.b", l)] (+) Only(Gradient("ln_1.b", l, t))
      /\ \A b \in Buffers : b \notin {G("ln_1.w", l), G("ln_1.b", l)} => E[b] = B[b]
  BY DEF Changes2
<1>3. /\ E[Tmp("tokens")] = B[Tmp("tokens")]
      /\ E[Tmp("dh")] = B[Tmp("dh")]
      /\ E[Tmp("loss")] = B[Tmp("loss")]
  <2>1. /\ Tmp("tokens") \in Buffers
        /\ Tmp("dh") \in Buffers
        /\ Tmp("loss") \in Buffers
    BY SharedBuffers, LayerBuffers, HiddenBuffers, Parameters DEF Shared, PerLayer
  <2>2. /\ Tmp("tokens") \notin {G("ln_1.w", l), G("ln_1.b", l)}
        /\ Tmp("dh") \notin {G("ln_1.w", l), G("ln_1.b", l)}
        /\ Tmp("loss") \notin {G("ln_1.w", l), G("ln_1.b", l)}
    BY Tags, Parameters DEF Tmp, Layers
  <2> QED BY <1>2, <2>1, <2>2
<1>4. LayersTo(E, NLayer, {}, t)
  <2> SUFFICES ASSUME NEW n \in PerLayer, NEW m \in Layers,
                      m < NLayer \/ (m = NLayer /\ n \in {})
               PROVE  E[Act(n, m)] = Tensor(ValueIn(n), m, t)
    BY DEF LayersTo
  <2>1. Act(n, m) \in Buffers
    BY LayerBuffers
  <2>2. Act(n, m) \notin {G("ln_1.w", l), G("ln_1.b", l)}
    BY Tags DEF Tmp, PerLayer
  <2>3. m < NLayer \/ (m = NLayer /\ n \in {})
    BY Parameters DEF Layers, PerLayer
  <2> QED BY <1>1, <1>2, <2>1, <2>2, <2>3 DEF LayersTo
<1>5. /\ E[Tmp("tokens")] = Tokens(t)
      /\ E[Tmp("dh")] = DH(0, t)
      /\ E[Tmp("loss")] = Tensor("loss", 0, t)
  <2>1. l = 0
    BY Parameters DEF Layers, Heads
  <2> QED BY <1>1, <1>2, <1>3, <2>1
<1> QED BY <1>4, <1>5, Holds_embedBack1

LEMMA Carry_embedBack1 ==
    ASSUME NEW t \in Passes, NEW B, NEW E,
           PassHeld(B, Place("embedBack", 0, 0), 1, t),
           Changes2(B, E, G("wte", 0), B[G("wte", 0)] (+) Only(Gradient("wte:embed", 0, t)),
                G("wpe", 0), B[G("wpe", 0)] (+) Only(Gradient("wpe", 0, t)))
    PROVE  PassHeld(E, Place("end", 0, 0), 1, t)
<1>1. /\ B[Tmp("tokens")] = Tokens(t)
      /\ LayersTo(B, NLayer, {}, t)
      /\ B[Tmp("dh")] = DH(0, t)
      /\ B[Tmp("loss")] = Tensor("loss", 0, t)
  BY Holds_embedBack1
<1>2. /\ E[G("wte", 0)] = B[G("wte", 0)] (+) Only(Gradient("wte:embed", 0, t))
      /\ E[G("wpe", 0)] = B[G("wpe", 0)] (+) Only(Gradient("wpe", 0, t))
      /\ \A b \in Buffers : b \notin {G("wte", 0), G("wpe", 0)} => E[b] = B[b]
  BY DEF Changes2
<1>3. /\ E[Tmp("tokens")] = B[Tmp("tokens")]
      /\ E[Tmp("loss")] = B[Tmp("loss")]
  <2>1. /\ Tmp("tokens") \in Buffers
        /\ Tmp("loss") \in Buffers
    BY SharedBuffers, LayerBuffers, HiddenBuffers, Parameters DEF Shared, PerLayer
  <2>2. /\ Tmp("tokens") \notin {G("wte", 0), G("wpe", 0)}
        /\ Tmp("loss") \notin {G("wte", 0), G("wpe", 0)}
    BY Tags, Parameters DEF Tmp, Layers
  <2> QED BY <1>2, <2>1, <2>2
<1>4. LayersTo(E, NLayer, {}, t)
  <2> SUFFICES ASSUME NEW n \in PerLayer, NEW m \in Layers,
                      m < NLayer \/ (m = NLayer /\ n \in {})
               PROVE  E[Act(n, m)] = Tensor(ValueIn(n), m, t)
    BY DEF LayersTo
  <2>1. Act(n, m) \in Buffers
    BY LayerBuffers
  <2>2. Act(n, m) \notin {G("wte", 0), G("wpe", 0)}
    BY Tags DEF Tmp, PerLayer
  <2>3. m < NLayer \/ (m = NLayer /\ n \in {})
    BY Parameters DEF Layers, PerLayer
  <2> QED BY <1>1, <1>2, <2>1, <2>2, <2>3 DEF LayersTo
<1>5. /\ E[Tmp("tokens")] = Tokens(t)
      /\ E[Tmp("loss")] = Tensor("loss", 0, t)
  <2> QED BY <1>1, <1>2, <1>3
<1> QED BY <1>4, <1>5, Holds_end1

-----------------------------------------------------------------------------
(* How the gradients of a pass grow                                          *)

\* What has been added once the head, the norm and the embedding are (TRUE) or
\* are not done, and the layers above L and the parameters N of layer L are.
Grads(q, head, norm, embedding, L, N, t) ==
    CASE q[1] = "wte" -> (IF head THEN {Gradient("wte:head", 0, t)} ELSE {})
                         \cup (IF embedding THEN {Gradient("wte:embed", 0, t)} ELSE {})
      [] q[1] = "wpe" -> IF embedding THEN {Gradient("wpe", 0, t)} ELSE {}
      [] q[1] \in {"ln_f.w", "ln_f.b"} -> IF norm THEN {Gradient(q[1], 0, t)} ELSE {}
      [] OTHER -> IF q[2] > L \/ (q[2] = L /\ q[1] \in N) THEN {Gradient(q[1], q[2], t)} ELSE {}

\* A parameter is a global one, or one of a layer.
LEMMA ParamIs ==
    \A q \in Params :
        /\ q = <<q[1], q[2]>>
        /\ (q[1] \in GlobalParams /\ q[2] = 0) \/ (q[1] \in LayerParams /\ q[2] \in Layers)
BY DEF Params

\* The gradient of a parameter in a pass determines both.
LEMMA GradientInj ==
    \A n, m, l, k, t, u : Gradient(n, l, t) = Gradient(m, k, u) <=> n = m /\ l = k /\ t = u
BY NamedInj DEF Gradient

\* A gradient buffer is left alone, or one term is added that was not there.
Grew(B, E, q, R, S, t) ==
    \/ E[G(q[1], q[2])] = B[G(q[1], q[2])] /\ S = R
    \/ \E n : /\ E[G(q[1], q[2])] = B[G(q[1], q[2])] (+) Only(Gradient(n, q[2], t))
              /\ S = R \cup {Gradient(n, q[2], t)} /\ Gradient(n, q[2], t) \notin R

\* One lemma per dispatch: the gradients that PassGrads expects before it.
LEMMA Grads_embed1 ==
    ASSUME NEW t, NEW q \in Params
    PROVE  PassGrads(q, Place("embed", 0, 0), 1, t) = Grads(q, FALSE, FALSE, FALSE, NLayer, {},
                      t)
<1> PICK p : p = Place("embed", 0, 0)
  OBVIOUS
<1>1. p[1] = "embed" /\ BackLayer(p) = NLayer /\ BackOp(p, 1) = 0
  BY At_embed
<1>2. q[1] \in LayerParams => ~Added(q[1], q[2], p, 1) /\ ~(q[2] > NLayer) /\ q[2] # NLayer
  BY <1>1, ParamIs, Parameters DEF Added, Layers
<1>3. ~(NLayer < NLayer)
  BY Parameters
<1>4. CASE q[1] \in GlobalParams
  BY <1>1, <1>2, <1>3, <1>4 DEF PassGrads, Grads, GlobalParams
<1>5. CASE q[1] \in LayerParams
  <2>1. q[1] \notin {"wte", "wpe", "ln_f.w", "ln_f.b"}
    BY <1>5 DEF LayerParams
  <2> QED BY <1>1, <1>2, <1>3, <1>5, <2>1 DEF PassGrads, Grads
<1> QED BY <1>4, <1>5, ParamIs

LEMMA Grads_attnForward1 ==
    ASSUME NEW l \in Layers, NEW t, NEW q \in Params
    PROVE  PassGrads(q, Place("attnForward", l, 0), 1, t) = Grads(q, FALSE, FALSE, FALSE,
                      NLayer, {}, t)
<1> PICK p : p = Place("attnForward", l, 0)
  OBVIOUS
<1>1. p[1] = "attnForward" /\ BackLayer(p) = NLayer /\ BackOp(p, 1) = 0
  BY At_attnForward
<1>2. q[1] \in LayerParams => ~Added(q[1], q[2], p, 1) /\ ~(q[2] > NLayer) /\ q[2] # NLayer
  BY <1>1, ParamIs, Parameters DEF Added, Layers
<1>3. ~(NLayer < NLayer)
  BY Parameters
<1>4. CASE q[1] \in GlobalParams
  BY <1>1, <1>2, <1>3, <1>4 DEF PassGrads, Grads, GlobalParams
<1>5. CASE q[1] \in LayerParams
  <2>1. q[1] \notin {"wte", "wpe", "ln_f.w", "ln_f.b"}
    BY <1>5 DEF LayerParams
  <2> QED BY <1>1, <1>2, <1>3, <1>5, <2>1 DEF PassGrads, Grads
<1> QED BY <1>4, <1>5, ParamIs

LEMMA Grads_attnForward2 ==
    ASSUME NEW l \in Layers, NEW t, NEW q \in Params
    PROVE  PassGrads(q, Place("attnForward", l, 0), 2, t) = Grads(q, FALSE, FALSE, FALSE,
                      NLayer, {}, t)
<1> PICK p : p = Place("attnForward", l, 0)
  OBVIOUS
<1>1. p[1] = "attnForward" /\ BackLayer(p) = NLayer /\ BackOp(p, 2) = 0
  BY At_attnForward
<1>2. q[1] \in LayerParams => ~Added(q[1], q[2], p, 2) /\ ~(q[2] > NLayer) /\ q[2] # NLayer
  BY <1>1, ParamIs, Parameters DEF Added, Layers
<1>3. ~(NLayer < NLayer)
  BY Parameters
<1>4. CASE q[1] \in GlobalParams
  BY <1>1, <1>2, <1>3, <1>4 DEF PassGrads, Grads, GlobalParams
<1>5. CASE q[1] \in LayerParams
  <2>1. q[1] \notin {"wte", "wpe", "ln_f.w", "ln_f.b"}
    BY <1>5 DEF LayerParams
  <2> QED BY <1>1, <1>2, <1>3, <1>5, <2>1 DEF PassGrads, Grads
<1> QED BY <1>4, <1>5, ParamIs

LEMMA Grads_attnForward3 ==
    ASSUME NEW l \in Layers, NEW t, NEW q \in Params
    PROVE  PassGrads(q, Place("attnForward", l, 0), 3, t) = Grads(q, FALSE, FALSE, FALSE,
                      NLayer, {}, t)
<1> PICK p : p = Place("attnForward", l, 0)
  OBVIOUS
<1>1. p[1] = "attnForward" /\ BackLayer(p) = NLayer /\ BackOp(p, 3) = 0
  BY At_attnForward
<1>2. q[1] \in LayerParams => ~Added(q[1], q[2], p, 3) /\ ~(q[2] > NLayer) /\ q[2] # NLayer
  BY <1>1, ParamIs, Parameters DEF Added, Layers
<1>3. ~(NLayer < NLayer)
  BY Parameters
<1>4. CASE q[1] \in GlobalParams
  BY <1>1, <1>2, <1>3, <1>4 DEF PassGrads, Grads, GlobalParams
<1>5. CASE q[1] \in LayerParams
  <2>1. q[1] \notin {"wte", "wpe", "ln_f.w", "ln_f.b"}
    BY <1>5 DEF LayerParams
  <2> QED BY <1>1, <1>2, <1>3, <1>5, <2>1 DEF PassGrads, Grads
<1> QED BY <1>4, <1>5, ParamIs

LEMMA Grads_attnForward4 ==
    ASSUME NEW l \in Layers, NEW t, NEW q \in Params
    PROVE  PassGrads(q, Place("attnForward", l, 0), 4, t) = Grads(q, FALSE, FALSE, FALSE,
                      NLayer, {}, t)
<1> PICK p : p = Place("attnForward", l, 0)
  OBVIOUS
<1>1. p[1] = "attnForward" /\ BackLayer(p) = NLayer /\ BackOp(p, 4) = 0
  BY At_attnForward
<1>2. q[1] \in LayerParams => ~Added(q[1], q[2], p, 4) /\ ~(q[2] > NLayer) /\ q[2] # NLayer
  BY <1>1, ParamIs, Parameters DEF Added, Layers
<1>3. ~(NLayer < NLayer)
  BY Parameters
<1>4. CASE q[1] \in GlobalParams
  BY <1>1, <1>2, <1>3, <1>4 DEF PassGrads, Grads, GlobalParams
<1>5. CASE q[1] \in LayerParams
  <2>1. q[1] \notin {"wte", "wpe", "ln_f.w", "ln_f.b"}
    BY <1>5 DEF LayerParams
  <2> QED BY <1>1, <1>2, <1>3, <1>5, <2>1 DEF PassGrads, Grads
<1> QED BY <1>4, <1>5, ParamIs

LEMMA Grads_attnForward5 ==
    ASSUME NEW l \in Layers, NEW t, NEW q \in Params
    PROVE  PassGrads(q, Place("attnForward", l, 0), 5, t) = Grads(q, FALSE, FALSE, FALSE,
                      NLayer, {}, t)
<1> PICK p : p = Place("attnForward", l, 0)
  OBVIOUS
<1>1. p[1] = "attnForward" /\ BackLayer(p) = NLayer /\ BackOp(p, 5) = 0
  BY At_attnForward
<1>2. q[1] \in LayerParams => ~Added(q[1], q[2], p, 5) /\ ~(q[2] > NLayer) /\ q[2] # NLayer
  BY <1>1, ParamIs, Parameters DEF Added, Layers
<1>3. ~(NLayer < NLayer)
  BY Parameters
<1>4. CASE q[1] \in GlobalParams
  BY <1>1, <1>2, <1>3, <1>4 DEF PassGrads, Grads, GlobalParams
<1>5. CASE q[1] \in LayerParams
  <2>1. q[1] \notin {"wte", "wpe", "ln_f.w", "ln_f.b"}
    BY <1>5 DEF LayerParams
  <2> QED BY <1>1, <1>2, <1>3, <1>5, <2>1 DEF PassGrads, Grads
<1> QED BY <1>4, <1>5, ParamIs

LEMMA Grads_mlpForward1 ==
    ASSUME NEW l \in Layers, NEW t, NEW q \in Params
    PROVE  PassGrads(q, Place("mlpForward", l, 0), 1, t) = Grads(q, FALSE, FALSE, FALSE,
                      NLayer, {}, t)
<1> PICK p : p = Place("mlpForward", l, 0)
  OBVIOUS
<1>1. p[1] = "mlpForward" /\ BackLayer(p) = NLayer /\ BackOp(p, 1) = 0
  BY At_mlpForward
<1>2. q[1] \in LayerParams => ~Added(q[1], q[2], p, 1) /\ ~(q[2] > NLayer) /\ q[2] # NLayer
  BY <1>1, ParamIs, Parameters DEF Added, Layers
<1>3. ~(NLayer < NLayer)
  BY Parameters
<1>4. CASE q[1] \in GlobalParams
  BY <1>1, <1>2, <1>3, <1>4 DEF PassGrads, Grads, GlobalParams
<1>5. CASE q[1] \in LayerParams
  <2>1. q[1] \notin {"wte", "wpe", "ln_f.w", "ln_f.b"}
    BY <1>5 DEF LayerParams
  <2> QED BY <1>1, <1>2, <1>3, <1>5, <2>1 DEF PassGrads, Grads
<1> QED BY <1>4, <1>5, ParamIs

LEMMA Grads_mlpForward2 ==
    ASSUME NEW l \in Layers, NEW t, NEW q \in Params
    PROVE  PassGrads(q, Place("mlpForward", l, 0), 2, t) = Grads(q, FALSE, FALSE, FALSE,
                      NLayer, {}, t)
<1> PICK p : p = Place("mlpForward", l, 0)
  OBVIOUS
<1>1. p[1] = "mlpForward" /\ BackLayer(p) = NLayer /\ BackOp(p, 2) = 0
  BY At_mlpForward
<1>2. q[1] \in LayerParams => ~Added(q[1], q[2], p, 2) /\ ~(q[2] > NLayer) /\ q[2] # NLayer
  BY <1>1, ParamIs, Parameters DEF Added, Layers
<1>3. ~(NLayer < NLayer)
  BY Parameters
<1>4. CASE q[1] \in GlobalParams
  BY <1>1, <1>2, <1>3, <1>4 DEF PassGrads, Grads, GlobalParams
<1>5. CASE q[1] \in LayerParams
  <2>1. q[1] \notin {"wte", "wpe", "ln_f.w", "ln_f.b"}
    BY <1>5 DEF LayerParams
  <2> QED BY <1>1, <1>2, <1>3, <1>5, <2>1 DEF PassGrads, Grads
<1> QED BY <1>4, <1>5, ParamIs

LEMMA Grads_mlpForward3 ==
    ASSUME NEW l \in Layers, NEW t, NEW q \in Params
    PROVE  PassGrads(q, Place("mlpForward", l, 0), 3, t) = Grads(q, FALSE, FALSE, FALSE,
                      NLayer, {}, t)
<1> PICK p : p = Place("mlpForward", l, 0)
  OBVIOUS
<1>1. p[1] = "mlpForward" /\ BackLayer(p) = NLayer /\ BackOp(p, 3) = 0
  BY At_mlpForward
<1>2. q[1] \in LayerParams => ~Added(q[1], q[2], p, 3) /\ ~(q[2] > NLayer) /\ q[2] # NLayer
  BY <1>1, ParamIs, Parameters DEF Added, Layers
<1>3. ~(NLayer < NLayer)
  BY Parameters
<1>4. CASE q[1] \in GlobalParams
  BY <1>1, <1>2, <1>3, <1>4 DEF PassGrads, Grads, GlobalParams
<1>5. CASE q[1] \in LayerParams
  <2>1. q[1] \notin {"wte", "wpe", "ln_f.w", "ln_f.b"}
    BY <1>5 DEF LayerParams
  <2> QED BY <1>1, <1>2, <1>3, <1>5, <2>1 DEF PassGrads, Grads
<1> QED BY <1>4, <1>5, ParamIs

LEMMA Grads_mlpForward4 ==
    ASSUME NEW l \in Layers, NEW t, NEW q \in Params
    PROVE  PassGrads(q, Place("mlpForward", l, 0), 4, t) = Grads(q, FALSE, FALSE, FALSE,
                      NLayer, {}, t)
<1> PICK p : p = Place("mlpForward", l, 0)
  OBVIOUS
<1>1. p[1] = "mlpForward" /\ BackLayer(p) = NLayer /\ BackOp(p, 4) = 0
  BY At_mlpForward
<1>2. q[1] \in LayerParams => ~Added(q[1], q[2], p, 4) /\ ~(q[2] > NLayer) /\ q[2] # NLayer
  BY <1>1, ParamIs, Parameters DEF Added, Layers
<1>3. ~(NLayer < NLayer)
  BY Parameters
<1>4. CASE q[1] \in GlobalParams
  BY <1>1, <1>2, <1>3, <1>4 DEF PassGrads, Grads, GlobalParams
<1>5. CASE q[1] \in LayerParams
  <2>1. q[1] \notin {"wte", "wpe", "ln_f.w", "ln_f.b"}
    BY <1>5 DEF LayerParams
  <2> QED BY <1>1, <1>2, <1>3, <1>5, <2>1 DEF PassGrads, Grads
<1> QED BY <1>4, <1>5, ParamIs

LEMMA Grads_mlpForward5 ==
    ASSUME NEW l \in Layers, NEW t, NEW q \in Params
    PROVE  PassGrads(q, Place("mlpForward", l, 0), 5, t) = Grads(q, FALSE, FALSE, FALSE,
                      NLayer, {}, t)
<1> PICK p : p = Place("mlpForward", l, 0)
  OBVIOUS
<1>1. p[1] = "mlpForward" /\ BackLayer(p) = NLayer /\ BackOp(p, 5) = 0
  BY At_mlpForward
<1>2. q[1] \in LayerParams => ~Added(q[1], q[2], p, 5) /\ ~(q[2] > NLayer) /\ q[2] # NLayer
  BY <1>1, ParamIs, Parameters DEF Added, Layers
<1>3. ~(NLayer < NLayer)
  BY Parameters
<1>4. CASE q[1] \in GlobalParams
  BY <1>1, <1>2, <1>3, <1>4 DEF PassGrads, Grads, GlobalParams
<1>5. CASE q[1] \in LayerParams
  <2>1. q[1] \notin {"wte", "wpe", "ln_f.w", "ln_f.b"}
    BY <1>5 DEF LayerParams
  <2> QED BY <1>1, <1>2, <1>3, <1>5, <2>1 DEF PassGrads, Grads
<1> QED BY <1>4, <1>5, ParamIs

LEMMA Grads_head1 ==
    ASSUME NEW t, NEW q \in Params
    PROVE  PassGrads(q, Place("head", 0, 0), 1, t) = Grads(q, FALSE, FALSE, FALSE, NLayer, {},
                      t)
<1> PICK p : p = Place("head", 0, 0)
  OBVIOUS
<1>1. p[1] = "head" /\ BackLayer(p) = NLayer /\ BackOp(p, 1) = 0
  BY At_head
<1>2. q[1] \in LayerParams => ~Added(q[1], q[2], p, 1) /\ ~(q[2] > NLayer) /\ q[2] # NLayer
  BY <1>1, ParamIs, Parameters DEF Added, Layers
<1>3. ~(NLayer < NLayer)
  BY Parameters
<1>4. CASE q[1] \in GlobalParams
  BY <1>1, <1>2, <1>3, <1>4 DEF PassGrads, Grads, GlobalParams
<1>5. CASE q[1] \in LayerParams
  <2>1. q[1] \notin {"wte", "wpe", "ln_f.w", "ln_f.b"}
    BY <1>5 DEF LayerParams
  <2> QED BY <1>1, <1>2, <1>3, <1>5, <2>1 DEF PassGrads, Grads
<1> QED BY <1>4, <1>5, ParamIs

LEMMA Grads_head2 ==
    ASSUME NEW t, NEW q \in Params
    PROVE  PassGrads(q, Place("head", 0, 0), 2, t) = Grads(q, FALSE, FALSE, FALSE, NLayer, {},
                      t)
<1> PICK p : p = Place("head", 0, 0)
  OBVIOUS
<1>1. p[1] = "head" /\ BackLayer(p) = NLayer /\ BackOp(p, 2) = 0
  BY At_head
<1>2. q[1] \in LayerParams => ~Added(q[1], q[2], p, 2) /\ ~(q[2] > NLayer) /\ q[2] # NLayer
  BY <1>1, ParamIs, Parameters DEF Added, Layers
<1>3. ~(NLayer < NLayer)
  BY Parameters
<1>4. CASE q[1] \in GlobalParams
  BY <1>1, <1>2, <1>3, <1>4 DEF PassGrads, Grads, GlobalParams
<1>5. CASE q[1] \in LayerParams
  <2>1. q[1] \notin {"wte", "wpe", "ln_f.w", "ln_f.b"}
    BY <1>5 DEF LayerParams
  <2> QED BY <1>1, <1>2, <1>3, <1>5, <2>1 DEF PassGrads, Grads
<1> QED BY <1>4, <1>5, ParamIs

LEMMA Grads_head3 ==
    ASSUME NEW t, NEW q \in Params
    PROVE  PassGrads(q, Place("head", 0, 0), 3, t) = Grads(q, FALSE, FALSE, FALSE, NLayer, {},
                      t)
<1> PICK p : p = Place("head", 0, 0)
  OBVIOUS
<1>1. p[1] = "head" /\ BackLayer(p) = NLayer /\ BackOp(p, 3) = 0
  BY At_head
<1>2. q[1] \in LayerParams => ~Added(q[1], q[2], p, 3) /\ ~(q[2] > NLayer) /\ q[2] # NLayer
  BY <1>1, ParamIs, Parameters DEF Added, Layers
<1>3. ~(NLayer < NLayer)
  BY Parameters
<1>4. CASE q[1] \in GlobalParams
  BY <1>1, <1>2, <1>3, <1>4 DEF PassGrads, Grads, GlobalParams
<1>5. CASE q[1] \in LayerParams
  <2>1. q[1] \notin {"wte", "wpe", "ln_f.w", "ln_f.b"}
    BY <1>5 DEF LayerParams
  <2> QED BY <1>1, <1>2, <1>3, <1>5, <2>1 DEF PassGrads, Grads
<1> QED BY <1>4, <1>5, ParamIs

LEMMA Grads_headBack1 ==
    ASSUME NEW t, NEW q \in Params
    PROVE  PassGrads(q, Place("headBack", 0, 0), 1, t) = Grads(q, FALSE, FALSE, FALSE, NLayer,
                      {}, t)
<1> PICK p : p = Place("headBack", 0, 0)
  OBVIOUS
<1>1. p[1] = "headBack" /\ BackLayer(p) = NLayer /\ BackOp(p, 1) = 0
  BY At_headBack
<1>2. q[1] \in LayerParams => ~Added(q[1], q[2], p, 1) /\ ~(q[2] > NLayer) /\ q[2] # NLayer
  BY <1>1, ParamIs, Parameters DEF Added, Layers
<1>3. ~(NLayer < NLayer)
  BY Parameters
<1>4. CASE q[1] \in GlobalParams
  BY <1>1, <1>2, <1>3, <1>4 DEF PassGrads, Grads, GlobalParams
<1>5. CASE q[1] \in LayerParams
  <2>1. q[1] \notin {"wte", "wpe", "ln_f.w", "ln_f.b"}
    BY <1>5 DEF LayerParams
  <2> QED BY <1>1, <1>2, <1>3, <1>5, <2>1 DEF PassGrads, Grads
<1> QED BY <1>4, <1>5, ParamIs

LEMMA Grads_headBack2 ==
    ASSUME NEW t, NEW q \in Params
    PROVE  PassGrads(q, Place("headBack", 0, 0), 2, t) = Grads(q, TRUE, FALSE, FALSE, NLayer,
                      {}, t)
<1> PICK p : p = Place("headBack", 0, 0)
  OBVIOUS
<1>1. p[1] = "headBack" /\ BackLayer(p) = NLayer /\ BackOp(p, 2) = 0
  BY At_headBack
<1>2. q[1] \in LayerParams => ~Added(q[1], q[2], p, 2) /\ ~(q[2] > NLayer) /\ q[2] # NLayer
  BY <1>1, ParamIs, Parameters DEF Added, Layers
<1>3. ~(NLayer < NLayer)
  BY Parameters
<1>4. CASE q[1] \in GlobalParams
  BY <1>1, <1>2, <1>3, <1>4 DEF PassGrads, Grads, GlobalParams
<1>5. CASE q[1] \in LayerParams
  <2>1. q[1] \notin {"wte", "wpe", "ln_f.w", "ln_f.b"}
    BY <1>5 DEF LayerParams
  <2> QED BY <1>1, <1>2, <1>3, <1>5, <2>1 DEF PassGrads, Grads
<1> QED BY <1>4, <1>5, ParamIs

LEMMA Grads_headBack3 ==
    ASSUME NEW t, NEW q \in Params
    PROVE  PassGrads(q, Place("headBack", 0, 0), 3, t) = Grads(q, TRUE, FALSE, FALSE, NLayer,
                      {}, t)
<1> PICK p : p = Place("headBack", 0, 0)
  OBVIOUS
<1>1. p[1] = "headBack" /\ BackLayer(p) = NLayer /\ BackOp(p, 3) = 0
  BY At_headBack
<1>2. q[1] \in LayerParams => ~Added(q[1], q[2], p, 3) /\ ~(q[2] > NLayer) /\ q[2] # NLayer
  BY <1>1, ParamIs, Parameters DEF Added, Layers
<1>3. ~(NLayer < NLayer)
  BY Parameters
<1>4. CASE q[1] \in GlobalParams
  BY <1>1, <1>2, <1>3, <1>4 DEF PassGrads, Grads, GlobalParams
<1>5. CASE q[1] \in LayerParams
  <2>1. q[1] \notin {"wte", "wpe", "ln_f.w", "ln_f.b"}
    BY <1>5 DEF LayerParams
  <2> QED BY <1>1, <1>2, <1>3, <1>5, <2>1 DEF PassGrads, Grads
<1> QED BY <1>4, <1>5, ParamIs

LEMMA Grads_headBack4 ==
    ASSUME NEW t, NEW q \in Params
    PROVE  PassGrads(q, Place("headBack", 0, 0), 4, t) = Grads(q, TRUE, FALSE, FALSE, NLayer,
                      {}, t)
<1> PICK p : p = Place("headBack", 0, 0)
  OBVIOUS
<1>1. p[1] = "headBack" /\ BackLayer(p) = NLayer /\ BackOp(p, 4) = 0
  BY At_headBack
<1>2. q[1] \in LayerParams => ~Added(q[1], q[2], p, 4) /\ ~(q[2] > NLayer) /\ q[2] # NLayer
  BY <1>1, ParamIs, Parameters DEF Added, Layers
<1>3. ~(NLayer < NLayer)
  BY Parameters
<1>4. CASE q[1] \in GlobalParams
  BY <1>1, <1>2, <1>3, <1>4 DEF PassGrads, Grads, GlobalParams
<1>5. CASE q[1] \in LayerParams
  <2>1. q[1] \notin {"wte", "wpe", "ln_f.w", "ln_f.b"}
    BY <1>5 DEF LayerParams
  <2> QED BY <1>1, <1>2, <1>3, <1>5, <2>1 DEF PassGrads, Grads
<1> QED BY <1>4, <1>5, ParamIs

LEMMA Grads_headBack5 ==
    ASSUME NEW t, NEW q \in Params
    PROVE  PassGrads(q, Place("headBack", 0, 0), 5, t) = Grads(q, TRUE, FALSE, FALSE, NLayer,
                      {}, t)
<1> PICK p : p = Place("headBack", 0, 0)
  OBVIOUS
<1>1. p[1] = "headBack" /\ BackLayer(p) = NLayer /\ BackOp(p, 5) = 0
  BY At_headBack
<1>2. q[1] \in LayerParams => ~Added(q[1], q[2], p, 5) /\ ~(q[2] > NLayer) /\ q[2] # NLayer
  BY <1>1, ParamIs, Parameters DEF Added, Layers
<1>3. ~(NLayer < NLayer)
  BY Parameters
<1>4. CASE q[1] \in GlobalParams
  BY <1>1, <1>2, <1>3, <1>4 DEF PassGrads, Grads, GlobalParams
<1>5. CASE q[1] \in LayerParams
  <2>1. q[1] \notin {"wte", "wpe", "ln_f.w", "ln_f.b"}
    BY <1>5 DEF LayerParams
  <2> QED BY <1>1, <1>2, <1>3, <1>5, <2>1 DEF PassGrads, Grads
<1> QED BY <1>4, <1>5, ParamIs

LEMMA Grads_mlpBack1 ==
    ASSUME NEW l \in Layers, NEW t, NEW q \in Params
    PROVE  PassGrads(q, Place("mlpBack", l, 0), 1, t) = Grads(q, TRUE, TRUE, FALSE, l, {}, t)
<1> PICK p : p = Place("mlpBack", l, 0)
  OBVIOUS
<1>1. p[1] = "mlpBack" /\ BackLayer(p) = l /\ BackOp(p, 1) = 1
  BY At_mlpBack
<1>2. \A n \in LayerParams : AddedAt(n) < BackOp(p, 1) <=> n \in {}
  BY <1>1 DEF LayerParams, AddedAt
<1>3. q[1] \in LayerParams
          => (Added(q[1], q[2], p, 1) <=> q[2] > l \/ (q[2] = l /\ q[1] \in {}))
  BY <1>1, <1>2 DEF Added
<1>4. l < NLayer
  BY Parameters DEF Layers
<1>5. CASE q[1] \in GlobalParams
  BY <1>1, <1>3, <1>4, <1>5 DEF PassGrads, Grads, GlobalParams
<1>6. CASE q[1] \in LayerParams
  <2>1. q[1] \notin {"wte", "wpe", "ln_f.w", "ln_f.b"}
    BY <1>6 DEF LayerParams
  <2> QED BY <1>1, <1>3, <1>4, <1>6, <2>1 DEF PassGrads, Grads
<1> QED BY <1>5, <1>6, ParamIs

LEMMA Grads_mlpBack2 ==
    ASSUME NEW l \in Layers, NEW t, NEW q \in Params
    PROVE  PassGrads(q, Place("mlpBack", l, 0), 2, t) = Grads(q, TRUE, TRUE, FALSE, l,
                      {"mlp.c_proj.w"}, t)
<1> PICK p : p = Place("mlpBack", l, 0)
  OBVIOUS
<1>1. p[1] = "mlpBack" /\ BackLayer(p) = l /\ BackOp(p, 2) = 2
  BY At_mlpBack
<1>2. \A n \in LayerParams : AddedAt(n) < BackOp(p, 2) <=> n \in {"mlp.c_proj.w"}
  BY <1>1 DEF LayerParams, AddedAt
<1>3. q[1] \in LayerParams
          => (Added(q[1], q[2], p, 2) <=> q[2] > l \/ (q[2] = l /\ q[1] \in {"mlp.c_proj.w"}))
  BY <1>1, <1>2 DEF Added
<1>4. l < NLayer
  BY Parameters DEF Layers
<1>5. CASE q[1] \in GlobalParams
  BY <1>1, <1>3, <1>4, <1>5 DEF PassGrads, Grads, GlobalParams
<1>6. CASE q[1] \in LayerParams
  <2>1. q[1] \notin {"wte", "wpe", "ln_f.w", "ln_f.b"}
    BY <1>6 DEF LayerParams
  <2> QED BY <1>1, <1>3, <1>4, <1>6, <2>1 DEF PassGrads, Grads
<1> QED BY <1>5, <1>6, ParamIs

LEMMA Grads_mlpBack3 ==
    ASSUME NEW l \in Layers, NEW t, NEW q \in Params
    PROVE  PassGrads(q, Place("mlpBack", l, 0), 3, t) = Grads(q, TRUE, TRUE, FALSE, l,
                      {"mlp.c_proj.w", "mlp.c_proj.b"}, t)
<1> PICK p : p = Place("mlpBack", l, 0)
  OBVIOUS
<1>1. p[1] = "mlpBack" /\ BackLayer(p) = l /\ BackOp(p, 3) = 3
  BY At_mlpBack
<1>2. \A n \in LayerParams : AddedAt(n) < BackOp(p, 3)
          <=> n \in {"mlp.c_proj.w", "mlp.c_proj.b"}
  BY <1>1 DEF LayerParams, AddedAt
<1>3. q[1] \in LayerParams
          => (Added(q[1], q[2], p, 3)
              <=> q[2] > l \/ (q[2] = l /\ q[1] \in {"mlp.c_proj.w", "mlp.c_proj.b"}))
  BY <1>1, <1>2 DEF Added
<1>4. l < NLayer
  BY Parameters DEF Layers
<1>5. CASE q[1] \in GlobalParams
  BY <1>1, <1>3, <1>4, <1>5 DEF PassGrads, Grads, GlobalParams
<1>6. CASE q[1] \in LayerParams
  <2>1. q[1] \notin {"wte", "wpe", "ln_f.w", "ln_f.b"}
    BY <1>6 DEF LayerParams
  <2> QED BY <1>1, <1>3, <1>4, <1>6, <2>1 DEF PassGrads, Grads
<1> QED BY <1>5, <1>6, ParamIs

LEMMA Grads_mlpBack4 ==
    ASSUME NEW l \in Layers, NEW t, NEW q \in Params
    PROVE  PassGrads(q, Place("mlpBack", l, 0), 4, t) = Grads(q, TRUE, TRUE, FALSE, l,
                      {"mlp.c_proj.w", "mlp.c_proj.b"}, t)
<1> PICK p : p = Place("mlpBack", l, 0)
  OBVIOUS
<1>1. p[1] = "mlpBack" /\ BackLayer(p) = l /\ BackOp(p, 4) = 4
  BY At_mlpBack
<1>2. \A n \in LayerParams : AddedAt(n) < BackOp(p, 4)
          <=> n \in {"mlp.c_proj.w", "mlp.c_proj.b"}
  BY <1>1 DEF LayerParams, AddedAt
<1>3. q[1] \in LayerParams
          => (Added(q[1], q[2], p, 4)
              <=> q[2] > l \/ (q[2] = l /\ q[1] \in {"mlp.c_proj.w", "mlp.c_proj.b"}))
  BY <1>1, <1>2 DEF Added
<1>4. l < NLayer
  BY Parameters DEF Layers
<1>5. CASE q[1] \in GlobalParams
  BY <1>1, <1>3, <1>4, <1>5 DEF PassGrads, Grads, GlobalParams
<1>6. CASE q[1] \in LayerParams
  <2>1. q[1] \notin {"wte", "wpe", "ln_f.w", "ln_f.b"}
    BY <1>6 DEF LayerParams
  <2> QED BY <1>1, <1>3, <1>4, <1>6, <2>1 DEF PassGrads, Grads
<1> QED BY <1>5, <1>6, ParamIs

LEMMA Grads_mlpBack5 ==
    ASSUME NEW l \in Layers, NEW t, NEW q \in Params
    PROVE  PassGrads(q, Place("mlpBack", l, 0), 5, t) = Grads(q, TRUE, TRUE, FALSE, l,
                      {"mlp.c_proj.w", "mlp.c_proj.b"}, t)
<1> PICK p : p = Place("mlpBack", l, 0)
  OBVIOUS
<1>1. p[1] = "mlpBack" /\ BackLayer(p) = l /\ BackOp(p, 5) = 5
  BY At_mlpBack
<1>2. \A n \in LayerParams : AddedAt(n) < BackOp(p, 5)
          <=> n \in {"mlp.c_proj.w", "mlp.c_proj.b"}
  BY <1>1 DEF LayerParams, AddedAt
<1>3. q[1] \in LayerParams
          => (Added(q[1], q[2], p, 5)
              <=> q[2] > l \/ (q[2] = l /\ q[1] \in {"mlp.c_proj.w", "mlp.c_proj.b"}))
  BY <1>1, <1>2 DEF Added
<1>4. l < NLayer
  BY Parameters DEF Layers
<1>5. CASE q[1] \in GlobalParams
  BY <1>1, <1>3, <1>4, <1>5 DEF PassGrads, Grads, GlobalParams
<1>6. CASE q[1] \in LayerParams
  <2>1. q[1] \notin {"wte", "wpe", "ln_f.w", "ln_f.b"}
    BY <1>6 DEF LayerParams
  <2> QED BY <1>1, <1>3, <1>4, <1>6, <2>1 DEF PassGrads, Grads
<1> QED BY <1>5, <1>6, ParamIs

LEMMA Grads_mlpBack6 ==
    ASSUME NEW l \in Layers, NEW t, NEW q \in Params
    PROVE  PassGrads(q, Place("mlpBack", l, 0), 6, t) = Grads(q, TRUE, TRUE, FALSE, l,
                      {"mlp.c_proj.w", "mlp.c_proj.b", "c_fc.w"}, t)
<1> PICK p : p = Place("mlpBack", l, 0)
  OBVIOUS
<1>1. p[1] = "mlpBack" /\ BackLayer(p) = l /\ BackOp(p, 6) = 6
  BY At_mlpBack
<1>2. \A n \in LayerParams : AddedAt(n) < BackOp(p, 6)
          <=> n \in {"mlp.c_proj.w", "mlp.c_proj.b", "c_fc.w"}
  BY <1>1 DEF LayerParams, AddedAt
<1>3. q[1] \in LayerParams
          => (Added(q[1], q[2], p, 6)
              <=> q[2] > l \/ (q[2] = l /\ q[1] \in {"mlp.c_proj.w", "mlp.c_proj.b", "c_fc.w"}))
  BY <1>1, <1>2 DEF Added
<1>4. l < NLayer
  BY Parameters DEF Layers
<1>5. CASE q[1] \in GlobalParams
  BY <1>1, <1>3, <1>4, <1>5 DEF PassGrads, Grads, GlobalParams
<1>6. CASE q[1] \in LayerParams
  <2>1. q[1] \notin {"wte", "wpe", "ln_f.w", "ln_f.b"}
    BY <1>6 DEF LayerParams
  <2> QED BY <1>1, <1>3, <1>4, <1>6, <2>1 DEF PassGrads, Grads
<1> QED BY <1>5, <1>6, ParamIs

LEMMA Grads_mlpBack7 ==
    ASSUME NEW l \in Layers, NEW t, NEW q \in Params
    PROVE  PassGrads(q, Place("mlpBack", l, 0), 7, t) = Grads(q, TRUE, TRUE, FALSE, l,
                      {"mlp.c_proj.w", "mlp.c_proj.b", "c_fc.w", "c_fc.b"}, t)
<1> PICK p : p = Place("mlpBack", l, 0)
  OBVIOUS
<1>1. p[1] = "mlpBack" /\ BackLayer(p) = l /\ BackOp(p, 7) = 7
  BY At_mlpBack
<1>2. \A n \in LayerParams : AddedAt(n) < BackOp(p, 7)
          <=> n \in {"mlp.c_proj.w", "mlp.c_proj.b", "c_fc.w", "c_fc.b"}
  BY <1>1 DEF LayerParams, AddedAt
<1>3. q[1] \in LayerParams
          => (Added(q[1], q[2], p, 7)
              <=> q[2] > l \/ (q[2] = l /\ q[1] \in {"mlp.c_proj.w", "mlp.c_proj.b", "c_fc.w",
                  "c_fc.b"}))
  BY <1>1, <1>2 DEF Added
<1>4. l < NLayer
  BY Parameters DEF Layers
<1>5. CASE q[1] \in GlobalParams
  BY <1>1, <1>3, <1>4, <1>5 DEF PassGrads, Grads, GlobalParams
<1>6. CASE q[1] \in LayerParams
  <2>1. q[1] \notin {"wte", "wpe", "ln_f.w", "ln_f.b"}
    BY <1>6 DEF LayerParams
  <2> QED BY <1>1, <1>3, <1>4, <1>6, <2>1 DEF PassGrads, Grads
<1> QED BY <1>5, <1>6, ParamIs

LEMMA Grads_mlpBack8 ==
    ASSUME NEW l \in Layers, NEW t, NEW q \in Params
    PROVE  PassGrads(q, Place("mlpBack", l, 0), 8, t) = Grads(q, TRUE, TRUE, FALSE, l,
                      {"mlp.c_proj.w", "mlp.c_proj.b", "c_fc.w", "c_fc.b"}, t)
<1> PICK p : p = Place("mlpBack", l, 0)
  OBVIOUS
<1>1. p[1] = "mlpBack" /\ BackLayer(p) = l /\ BackOp(p, 8) = 8
  BY At_mlpBack
<1>2. \A n \in LayerParams : AddedAt(n) < BackOp(p, 8)
          <=> n \in {"mlp.c_proj.w", "mlp.c_proj.b", "c_fc.w", "c_fc.b"}
  BY <1>1 DEF LayerParams, AddedAt
<1>3. q[1] \in LayerParams
          => (Added(q[1], q[2], p, 8)
              <=> q[2] > l \/ (q[2] = l /\ q[1] \in {"mlp.c_proj.w", "mlp.c_proj.b", "c_fc.w",
                  "c_fc.b"}))
  BY <1>1, <1>2 DEF Added
<1>4. l < NLayer
  BY Parameters DEF Layers
<1>5. CASE q[1] \in GlobalParams
  BY <1>1, <1>3, <1>4, <1>5 DEF PassGrads, Grads, GlobalParams
<1>6. CASE q[1] \in LayerParams
  <2>1. q[1] \notin {"wte", "wpe", "ln_f.w", "ln_f.b"}
    BY <1>6 DEF LayerParams
  <2> QED BY <1>1, <1>3, <1>4, <1>6, <2>1 DEF PassGrads, Grads
<1> QED BY <1>5, <1>6, ParamIs

LEMMA Grads_mlpBack9 ==
    ASSUME NEW l \in Layers, NEW t, NEW q \in Params
    PROVE  PassGrads(q, Place("mlpBack", l, 0), 9, t) = Grads(q, TRUE, TRUE, FALSE, l,
                      {"mlp.c_proj.w", "mlp.c_proj.b", "c_fc.w", "c_fc.b"}, t)
<1> PICK p : p = Place("mlpBack", l, 0)
  OBVIOUS
<1>1. p[1] = "mlpBack" /\ BackLayer(p) = l /\ BackOp(p, 9) = 9
  BY At_mlpBack
<1>2. \A n \in LayerParams : AddedAt(n) < BackOp(p, 9)
          <=> n \in {"mlp.c_proj.w", "mlp.c_proj.b", "c_fc.w", "c_fc.b"}
  BY <1>1 DEF LayerParams, AddedAt
<1>3. q[1] \in LayerParams
          => (Added(q[1], q[2], p, 9)
              <=> q[2] > l \/ (q[2] = l /\ q[1] \in {"mlp.c_proj.w", "mlp.c_proj.b", "c_fc.w",
                  "c_fc.b"}))
  BY <1>1, <1>2 DEF Added
<1>4. l < NLayer
  BY Parameters DEF Layers
<1>5. CASE q[1] \in GlobalParams
  BY <1>1, <1>3, <1>4, <1>5 DEF PassGrads, Grads, GlobalParams
<1>6. CASE q[1] \in LayerParams
  <2>1. q[1] \notin {"wte", "wpe", "ln_f.w", "ln_f.b"}
    BY <1>6 DEF LayerParams
  <2> QED BY <1>1, <1>3, <1>4, <1>6, <2>1 DEF PassGrads, Grads
<1> QED BY <1>5, <1>6, ParamIs

LEMMA Grads_projBack1 ==
    ASSUME NEW l \in Layers, NEW t, NEW q \in Params
    PROVE  PassGrads(q, Place("projBack", l, 0), 1, t) = Grads(q, TRUE, TRUE, FALSE, l,
                      {"mlp.c_proj.w", "mlp.c_proj.b", "c_fc.w", "c_fc.b", "ln_2.w", "ln_2.b"},
                          t)
<1> PICK p : p = Place("projBack", l, 0)
  OBVIOUS
<1>1. p[1] = "projBack" /\ BackLayer(p) = l /\ BackOp(p, 1) = 10 + 1
  BY At_projBack
<1>2. \A n \in LayerParams : AddedAt(n) < BackOp(p, 1)
          <=> n \in {"mlp.c_proj.w", "mlp.c_proj.b", "c_fc.w", "c_fc.b", "ln_2.w", "ln_2.b"}
  BY <1>1 DEF LayerParams, AddedAt
<1>3. q[1] \in LayerParams
          => (Added(q[1], q[2], p, 1)
              <=> q[2] > l \/ (q[2] = l /\ q[1] \in {"mlp.c_proj.w", "mlp.c_proj.b", "c_fc.w",
                  "c_fc.b", "ln_2.w", "ln_2.b"}))
  BY <1>1, <1>2 DEF Added
<1>4. l < NLayer
  BY Parameters DEF Layers
<1>5. CASE q[1] \in GlobalParams
  BY <1>1, <1>3, <1>4, <1>5 DEF PassGrads, Grads, GlobalParams
<1>6. CASE q[1] \in LayerParams
  <2>1. q[1] \notin {"wte", "wpe", "ln_f.w", "ln_f.b"}
    BY <1>6 DEF LayerParams
  <2> QED BY <1>1, <1>3, <1>4, <1>6, <2>1 DEF PassGrads, Grads
<1> QED BY <1>5, <1>6, ParamIs

LEMMA Grads_projBack2 ==
    ASSUME NEW l \in Layers, NEW t, NEW q \in Params
    PROVE  PassGrads(q, Place("projBack", l, 0), 2, t) = Grads(q, TRUE, TRUE, FALSE, l,
                      {"mlp.c_proj.w", "mlp.c_proj.b", "c_fc.w", "c_fc.b", "ln_2.w", "ln_2.b",
                          "attn.c_proj.w"}, t)
<1> PICK p : p = Place("projBack", l, 0)
  OBVIOUS
<1>1. p[1] = "projBack" /\ BackLayer(p) = l /\ BackOp(p, 2) = 10 + 2
  BY At_projBack
<1>2. \A n \in LayerParams : AddedAt(n) < BackOp(p, 2)
          <=> n \in {"mlp.c_proj.w", "mlp.c_proj.b", "c_fc.w", "c_fc.b", "ln_2.w", "ln_2.b",
              "attn.c_proj.w"}
  BY <1>1 DEF LayerParams, AddedAt
<1>3. q[1] \in LayerParams
          => (Added(q[1], q[2], p, 2)
              <=> q[2] > l \/ (q[2] = l /\ q[1] \in {"mlp.c_proj.w", "mlp.c_proj.b", "c_fc.w",
                  "c_fc.b", "ln_2.w", "ln_2.b", "attn.c_proj.w"}))
  BY <1>1, <1>2 DEF Added
<1>4. l < NLayer
  BY Parameters DEF Layers
<1>5. CASE q[1] \in GlobalParams
  BY <1>1, <1>3, <1>4, <1>5 DEF PassGrads, Grads, GlobalParams
<1>6. CASE q[1] \in LayerParams
  <2>1. q[1] \notin {"wte", "wpe", "ln_f.w", "ln_f.b"}
    BY <1>6 DEF LayerParams
  <2> QED BY <1>1, <1>3, <1>4, <1>6, <2>1 DEF PassGrads, Grads
<1> QED BY <1>5, <1>6, ParamIs

LEMMA Grads_projBack3 ==
    ASSUME NEW l \in Layers, NEW t, NEW q \in Params
    PROVE  PassGrads(q, Place("projBack", l, 0), 3, t) = Grads(q, TRUE, TRUE, FALSE, l,
                      {"mlp.c_proj.w", "mlp.c_proj.b", "c_fc.w", "c_fc.b", "ln_2.w", "ln_2.b",
                          "attn.c_proj.w", "attn.c_proj.b"}, t)
<1> PICK p : p = Place("projBack", l, 0)
  OBVIOUS
<1>1. p[1] = "projBack" /\ BackLayer(p) = l /\ BackOp(p, 3) = 10 + 3
  BY At_projBack
<1>2. \A n \in LayerParams : AddedAt(n) < BackOp(p, 3)
          <=> n \in {"mlp.c_proj.w", "mlp.c_proj.b", "c_fc.w", "c_fc.b", "ln_2.w", "ln_2.b",
              "attn.c_proj.w", "attn.c_proj.b"}
  BY <1>1 DEF LayerParams, AddedAt
<1>3. q[1] \in LayerParams
          => (Added(q[1], q[2], p, 3)
              <=> q[2] > l \/ (q[2] = l /\ q[1] \in {"mlp.c_proj.w", "mlp.c_proj.b", "c_fc.w",
                  "c_fc.b", "ln_2.w", "ln_2.b", "attn.c_proj.w", "attn.c_proj.b"}))
  BY <1>1, <1>2 DEF Added
<1>4. l < NLayer
  BY Parameters DEF Layers
<1>5. CASE q[1] \in GlobalParams
  BY <1>1, <1>3, <1>4, <1>5 DEF PassGrads, Grads, GlobalParams
<1>6. CASE q[1] \in LayerParams
  <2>1. q[1] \notin {"wte", "wpe", "ln_f.w", "ln_f.b"}
    BY <1>6 DEF LayerParams
  <2> QED BY <1>1, <1>3, <1>4, <1>6, <2>1 DEF PassGrads, Grads
<1> QED BY <1>5, <1>6, ParamIs

LEMMA Grads_attnBack1 ==
    ASSUME NEW l \in Layers, NEW h \in Heads, NEW t, NEW q \in Params
    PROVE  PassGrads(q, Place("attnBack", l, h), 1, t) = Grads(q, TRUE, TRUE, FALSE, l,
                      {"mlp.c_proj.w", "mlp.c_proj.b", "c_fc.w", "c_fc.b", "ln_2.w", "ln_2.b",
                          "attn.c_proj.w", "attn.c_proj.b"}, t)
<1> PICK p : p = Place("attnBack", l, h)
  OBVIOUS
<1>1. p[1] = "attnBack" /\ BackLayer(p) = l /\ BackOp(p, 1) = 20
  BY At_attnBack
<1>2. \A n \in LayerParams : AddedAt(n) < BackOp(p, 1)
          <=> n \in {"mlp.c_proj.w", "mlp.c_proj.b", "c_fc.w", "c_fc.b", "ln_2.w", "ln_2.b",
              "attn.c_proj.w", "attn.c_proj.b"}
  BY <1>1 DEF LayerParams, AddedAt
<1>3. q[1] \in LayerParams
          => (Added(q[1], q[2], p, 1)
              <=> q[2] > l \/ (q[2] = l /\ q[1] \in {"mlp.c_proj.w", "mlp.c_proj.b", "c_fc.w",
                  "c_fc.b", "ln_2.w", "ln_2.b", "attn.c_proj.w", "attn.c_proj.b"}))
  BY <1>1, <1>2 DEF Added
<1>4. l < NLayer
  BY Parameters DEF Layers
<1>5. CASE q[1] \in GlobalParams
  BY <1>1, <1>3, <1>4, <1>5 DEF PassGrads, Grads, GlobalParams
<1>6. CASE q[1] \in LayerParams
  <2>1. q[1] \notin {"wte", "wpe", "ln_f.w", "ln_f.b"}
    BY <1>6 DEF LayerParams
  <2> QED BY <1>1, <1>3, <1>4, <1>6, <2>1 DEF PassGrads, Grads
<1> QED BY <1>5, <1>6, ParamIs

LEMMA Grads_attnBack2 ==
    ASSUME NEW l \in Layers, NEW h \in Heads, NEW t, NEW q \in Params
    PROVE  PassGrads(q, Place("attnBack", l, h), 2, t) = Grads(q, TRUE, TRUE, FALSE, l,
                      {"mlp.c_proj.w", "mlp.c_proj.b", "c_fc.w", "c_fc.b", "ln_2.w", "ln_2.b",
                          "attn.c_proj.w", "attn.c_proj.b"}, t)
<1> PICK p : p = Place("attnBack", l, h)
  OBVIOUS
<1>1. p[1] = "attnBack" /\ BackLayer(p) = l /\ BackOp(p, 2) = 20
  BY At_attnBack
<1>2. \A n \in LayerParams : AddedAt(n) < BackOp(p, 2)
          <=> n \in {"mlp.c_proj.w", "mlp.c_proj.b", "c_fc.w", "c_fc.b", "ln_2.w", "ln_2.b",
              "attn.c_proj.w", "attn.c_proj.b"}
  BY <1>1 DEF LayerParams, AddedAt
<1>3. q[1] \in LayerParams
          => (Added(q[1], q[2], p, 2)
              <=> q[2] > l \/ (q[2] = l /\ q[1] \in {"mlp.c_proj.w", "mlp.c_proj.b", "c_fc.w",
                  "c_fc.b", "ln_2.w", "ln_2.b", "attn.c_proj.w", "attn.c_proj.b"}))
  BY <1>1, <1>2 DEF Added
<1>4. l < NLayer
  BY Parameters DEF Layers
<1>5. CASE q[1] \in GlobalParams
  BY <1>1, <1>3, <1>4, <1>5 DEF PassGrads, Grads, GlobalParams
<1>6. CASE q[1] \in LayerParams
  <2>1. q[1] \notin {"wte", "wpe", "ln_f.w", "ln_f.b"}
    BY <1>6 DEF LayerParams
  <2> QED BY <1>1, <1>3, <1>4, <1>6, <2>1 DEF PassGrads, Grads
<1> QED BY <1>5, <1>6, ParamIs

LEMMA Grads_attnBack3 ==
    ASSUME NEW l \in Layers, NEW h \in Heads, NEW t, NEW q \in Params
    PROVE  PassGrads(q, Place("attnBack", l, h), 3, t) = Grads(q, TRUE, TRUE, FALSE, l,
                      {"mlp.c_proj.w", "mlp.c_proj.b", "c_fc.w", "c_fc.b", "ln_2.w", "ln_2.b",
                          "attn.c_proj.w", "attn.c_proj.b"}, t)
<1> PICK p : p = Place("attnBack", l, h)
  OBVIOUS
<1>1. p[1] = "attnBack" /\ BackLayer(p) = l /\ BackOp(p, 3) = 20
  BY At_attnBack
<1>2. \A n \in LayerParams : AddedAt(n) < BackOp(p, 3)
          <=> n \in {"mlp.c_proj.w", "mlp.c_proj.b", "c_fc.w", "c_fc.b", "ln_2.w", "ln_2.b",
              "attn.c_proj.w", "attn.c_proj.b"}
  BY <1>1 DEF LayerParams, AddedAt
<1>3. q[1] \in LayerParams
          => (Added(q[1], q[2], p, 3)
              <=> q[2] > l \/ (q[2] = l /\ q[1] \in {"mlp.c_proj.w", "mlp.c_proj.b", "c_fc.w",
                  "c_fc.b", "ln_2.w", "ln_2.b", "attn.c_proj.w", "attn.c_proj.b"}))
  BY <1>1, <1>2 DEF Added
<1>4. l < NLayer
  BY Parameters DEF Layers
<1>5. CASE q[1] \in GlobalParams
  BY <1>1, <1>3, <1>4, <1>5 DEF PassGrads, Grads, GlobalParams
<1>6. CASE q[1] \in LayerParams
  <2>1. q[1] \notin {"wte", "wpe", "ln_f.w", "ln_f.b"}
    BY <1>6 DEF LayerParams
  <2> QED BY <1>1, <1>3, <1>4, <1>6, <2>1 DEF PassGrads, Grads
<1> QED BY <1>5, <1>6, ParamIs

LEMMA Grads_qkvBack1 ==
    ASSUME NEW l \in Layers, NEW t, NEW q \in Params
    PROVE  PassGrads(q, Place("qkvBack", l, 0), 1, t) = Grads(q, TRUE, TRUE, FALSE, l,
                      {"mlp.c_proj.w", "mlp.c_proj.b", "c_fc.w", "c_fc.b", "ln_2.w", "ln_2.b",
                          "attn.c_proj.w", "attn.c_proj.b"}, t)
<1> PICK p : p = Place("qkvBack", l, 0)
  OBVIOUS
<1>1. p[1] = "qkvBack" /\ BackLayer(p) = l /\ BackOp(p, 1) = 30 + 1
  BY At_qkvBack
<1>2. \A n \in LayerParams : AddedAt(n) < BackOp(p, 1)
          <=> n \in {"mlp.c_proj.w", "mlp.c_proj.b", "c_fc.w", "c_fc.b", "ln_2.w", "ln_2.b",
              "attn.c_proj.w", "attn.c_proj.b"}
  BY <1>1 DEF LayerParams, AddedAt
<1>3. q[1] \in LayerParams
          => (Added(q[1], q[2], p, 1)
              <=> q[2] > l \/ (q[2] = l /\ q[1] \in {"mlp.c_proj.w", "mlp.c_proj.b", "c_fc.w",
                  "c_fc.b", "ln_2.w", "ln_2.b", "attn.c_proj.w", "attn.c_proj.b"}))
  BY <1>1, <1>2 DEF Added
<1>4. l < NLayer
  BY Parameters DEF Layers
<1>5. CASE q[1] \in GlobalParams
  BY <1>1, <1>3, <1>4, <1>5 DEF PassGrads, Grads, GlobalParams
<1>6. CASE q[1] \in LayerParams
  <2>1. q[1] \notin {"wte", "wpe", "ln_f.w", "ln_f.b"}
    BY <1>6 DEF LayerParams
  <2> QED BY <1>1, <1>3, <1>4, <1>6, <2>1 DEF PassGrads, Grads
<1> QED BY <1>5, <1>6, ParamIs

LEMMA Grads_qkvBack2 ==
    ASSUME NEW l \in Layers, NEW t, NEW q \in Params
    PROVE  PassGrads(q, Place("qkvBack", l, 0), 2, t) = Grads(q, TRUE, TRUE, FALSE, l,
                      {"mlp.c_proj.w", "mlp.c_proj.b", "c_fc.w", "c_fc.b", "ln_2.w", "ln_2.b",
                          "attn.c_proj.w", "attn.c_proj.b", "c_attn.w"}, t)
<1> PICK p : p = Place("qkvBack", l, 0)
  OBVIOUS
<1>1. p[1] = "qkvBack" /\ BackLayer(p) = l /\ BackOp(p, 2) = 30 + 2
  BY At_qkvBack
<1>2. \A n \in LayerParams : AddedAt(n) < BackOp(p, 2)
          <=> n \in {"mlp.c_proj.w", "mlp.c_proj.b", "c_fc.w", "c_fc.b", "ln_2.w", "ln_2.b",
              "attn.c_proj.w", "attn.c_proj.b", "c_attn.w"}
  BY <1>1 DEF LayerParams, AddedAt
<1>3. q[1] \in LayerParams
          => (Added(q[1], q[2], p, 2)
              <=> q[2] > l \/ (q[2] = l /\ q[1] \in {"mlp.c_proj.w", "mlp.c_proj.b", "c_fc.w",
                  "c_fc.b", "ln_2.w", "ln_2.b", "attn.c_proj.w", "attn.c_proj.b", "c_attn.w"}))
  BY <1>1, <1>2 DEF Added
<1>4. l < NLayer
  BY Parameters DEF Layers
<1>5. CASE q[1] \in GlobalParams
  BY <1>1, <1>3, <1>4, <1>5 DEF PassGrads, Grads, GlobalParams
<1>6. CASE q[1] \in LayerParams
  <2>1. q[1] \notin {"wte", "wpe", "ln_f.w", "ln_f.b"}
    BY <1>6 DEF LayerParams
  <2> QED BY <1>1, <1>3, <1>4, <1>6, <2>1 DEF PassGrads, Grads
<1> QED BY <1>5, <1>6, ParamIs

LEMMA Grads_qkvBack3 ==
    ASSUME NEW l \in Layers, NEW t, NEW q \in Params
    PROVE  PassGrads(q, Place("qkvBack", l, 0), 3, t) = Grads(q, TRUE, TRUE, FALSE, l,
                      {"mlp.c_proj.w", "mlp.c_proj.b", "c_fc.w", "c_fc.b", "ln_2.w", "ln_2.b",
                          "attn.c_proj.w", "attn.c_proj.b", "c_attn.w", "c_attn.b"}, t)
<1> PICK p : p = Place("qkvBack", l, 0)
  OBVIOUS
<1>1. p[1] = "qkvBack" /\ BackLayer(p) = l /\ BackOp(p, 3) = 30 + 3
  BY At_qkvBack
<1>2. \A n \in LayerParams : AddedAt(n) < BackOp(p, 3)
          <=> n \in {"mlp.c_proj.w", "mlp.c_proj.b", "c_fc.w", "c_fc.b", "ln_2.w", "ln_2.b",
              "attn.c_proj.w", "attn.c_proj.b", "c_attn.w", "c_attn.b"}
  BY <1>1 DEF LayerParams, AddedAt
<1>3. q[1] \in LayerParams
          => (Added(q[1], q[2], p, 3)
              <=> q[2] > l \/ (q[2] = l /\ q[1] \in {"mlp.c_proj.w", "mlp.c_proj.b", "c_fc.w",
                  "c_fc.b", "ln_2.w", "ln_2.b", "attn.c_proj.w", "attn.c_proj.b", "c_attn.w",
                      "c_attn.b"}))
  BY <1>1, <1>2 DEF Added
<1>4. l < NLayer
  BY Parameters DEF Layers
<1>5. CASE q[1] \in GlobalParams
  BY <1>1, <1>3, <1>4, <1>5 DEF PassGrads, Grads, GlobalParams
<1>6. CASE q[1] \in LayerParams
  <2>1. q[1] \notin {"wte", "wpe", "ln_f.w", "ln_f.b"}
    BY <1>6 DEF LayerParams
  <2> QED BY <1>1, <1>3, <1>4, <1>6, <2>1 DEF PassGrads, Grads
<1> QED BY <1>5, <1>6, ParamIs

LEMMA Grads_qkvBack4 ==
    ASSUME NEW l \in Layers, NEW t, NEW q \in Params
    PROVE  PassGrads(q, Place("qkvBack", l, 0), 4, t) = Grads(q, TRUE, TRUE, FALSE, l,
                      {"mlp.c_proj.w", "mlp.c_proj.b", "c_fc.w", "c_fc.b", "ln_2.w", "ln_2.b",
                          "attn.c_proj.w", "attn.c_proj.b", "c_attn.w", "c_attn.b"}, t)
<1> PICK p : p = Place("qkvBack", l, 0)
  OBVIOUS
<1>1. p[1] = "qkvBack" /\ BackLayer(p) = l /\ BackOp(p, 4) = 30 + 4
  BY At_qkvBack
<1>2. \A n \in LayerParams : AddedAt(n) < BackOp(p, 4)
          <=> n \in {"mlp.c_proj.w", "mlp.c_proj.b", "c_fc.w", "c_fc.b", "ln_2.w", "ln_2.b",
              "attn.c_proj.w", "attn.c_proj.b", "c_attn.w", "c_attn.b"}
  BY <1>1 DEF LayerParams, AddedAt
<1>3. q[1] \in LayerParams
          => (Added(q[1], q[2], p, 4)
              <=> q[2] > l \/ (q[2] = l /\ q[1] \in {"mlp.c_proj.w", "mlp.c_proj.b", "c_fc.w",
                  "c_fc.b", "ln_2.w", "ln_2.b", "attn.c_proj.w", "attn.c_proj.b", "c_attn.w",
                      "c_attn.b"}))
  BY <1>1, <1>2 DEF Added
<1>4. l < NLayer
  BY Parameters DEF Layers
<1>5. CASE q[1] \in GlobalParams
  BY <1>1, <1>3, <1>4, <1>5 DEF PassGrads, Grads, GlobalParams
<1>6. CASE q[1] \in LayerParams
  <2>1. q[1] \notin {"wte", "wpe", "ln_f.w", "ln_f.b"}
    BY <1>6 DEF LayerParams
  <2> QED BY <1>1, <1>3, <1>4, <1>6, <2>1 DEF PassGrads, Grads
<1> QED BY <1>5, <1>6, ParamIs

LEMMA Grads_qkvBack5 ==
    ASSUME NEW l \in Layers, NEW t, NEW q \in Params
    PROVE  PassGrads(q, Place("qkvBack", l, 0), 5, t) = Grads(q, TRUE, TRUE, FALSE, l,
                      {"mlp.c_proj.w", "mlp.c_proj.b", "c_fc.w", "c_fc.b", "ln_2.w", "ln_2.b",
                          "attn.c_proj.w", "attn.c_proj.b", "c_attn.w", "c_attn.b"}, t)
<1> PICK p : p = Place("qkvBack", l, 0)
  OBVIOUS
<1>1. p[1] = "qkvBack" /\ BackLayer(p) = l /\ BackOp(p, 5) = 30 + 5
  BY At_qkvBack
<1>2. \A n \in LayerParams : AddedAt(n) < BackOp(p, 5)
          <=> n \in {"mlp.c_proj.w", "mlp.c_proj.b", "c_fc.w", "c_fc.b", "ln_2.w", "ln_2.b",
              "attn.c_proj.w", "attn.c_proj.b", "c_attn.w", "c_attn.b"}
  BY <1>1 DEF LayerParams, AddedAt
<1>3. q[1] \in LayerParams
          => (Added(q[1], q[2], p, 5)
              <=> q[2] > l \/ (q[2] = l /\ q[1] \in {"mlp.c_proj.w", "mlp.c_proj.b", "c_fc.w",
                  "c_fc.b", "ln_2.w", "ln_2.b", "attn.c_proj.w", "attn.c_proj.b", "c_attn.w",
                      "c_attn.b"}))
  BY <1>1, <1>2 DEF Added
<1>4. l < NLayer
  BY Parameters DEF Layers
<1>5. CASE q[1] \in GlobalParams
  BY <1>1, <1>3, <1>4, <1>5 DEF PassGrads, Grads, GlobalParams
<1>6. CASE q[1] \in LayerParams
  <2>1. q[1] \notin {"wte", "wpe", "ln_f.w", "ln_f.b"}
    BY <1>6 DEF LayerParams
  <2> QED BY <1>1, <1>3, <1>4, <1>6, <2>1 DEF PassGrads, Grads
<1> QED BY <1>5, <1>6, ParamIs

LEMMA Grads_embedBack1 ==
    ASSUME NEW t, NEW q \in Params
    PROVE  PassGrads(q, Place("embedBack", 0, 0), 1, t) = Grads(q, TRUE, TRUE, FALSE, -1, {}, t)
<1> PICK p : p = Place("embedBack", 0, 0)
  OBVIOUS
<1>1. p[1] = "embedBack" /\ BackLayer(p) = -1 /\ BackOp(p, 1) = 0
  BY At_embedBack
<1>2. q[1] \in LayerParams => (Added(q[1], q[2], p, 1) /\ q[2] > -1)
  BY <1>1, ParamIs, Parameters DEF Added, Layers
<1>3. -1 < NLayer
  BY Parameters
<1>4. CASE q[1] \in GlobalParams
  BY <1>1, <1>2, <1>3, <1>4 DEF PassGrads, Grads, GlobalParams
<1>5. CASE q[1] \in LayerParams
  <2>1. q[1] \notin {"wte", "wpe", "ln_f.w", "ln_f.b"}
    BY <1>5 DEF LayerParams
  <2> QED BY <1>1, <1>2, <1>3, <1>5, <2>1 DEF PassGrads, Grads
<1> QED BY <1>4, <1>5, ParamIs

LEMMA Grads_end1 ==
    ASSUME NEW t, NEW q \in Params
    PROVE  PassGrads(q, Place("end", 0, 0), 1, t) = Grads(q, TRUE, TRUE, TRUE, -1, {}, t)
<1> PICK p : p = Place("end", 0, 0)
  OBVIOUS
<1>1. p[1] = "end" /\ BackLayer(p) = -1 /\ BackOp(p, 1) = 0
  BY At_end
<1>2. q[1] \in LayerParams => (Added(q[1], q[2], p, 1) /\ q[2] > -1)
  BY <1>1, ParamIs, Parameters DEF Added, Layers
<1>3. -1 < NLayer
  BY Parameters
<1>4. CASE q[1] \in GlobalParams
  BY <1>1, <1>2, <1>3, <1>4 DEF PassGrads, Grads, GlobalParams
<1>5. CASE q[1] \in LayerParams
  <2>1. q[1] \notin {"wte", "wpe", "ln_f.w", "ln_f.b"}
    BY <1>5 DEF LayerParams
  <2> QED BY <1>1, <1>2, <1>3, <1>5, <2>1 DEF PassGrads, Grads
<1> QED BY <1>4, <1>5, ParamIs

\* One lemma per dispatch: each gradient buffer grows by what PassGrads gains, or
\* is left alone when it gains nothing.
LEMMA Adds_embed1 ==
    ASSUME NEW t \in Passes, NEW B, NEW E,
           Changes1(B, E, Act("h", 0), Tensor("embed", 0, t)),
           NEW q \in Params
    PROVE  Grew(B, E, q, PassGrads(q, Place("embed", 0, 0), 1, t),
                PassGrads(q, Place("attnForward", 0, 0), 1, t), t)
<1>1. 0 \in Layers
  BY Parameters DEF Layers
<1>2. /\ PassGrads(q, Place("embed", 0, 0), 1, t) = Grads(q, FALSE, FALSE, FALSE, NLayer, {}, t)
      /\ PassGrads(q, Place("attnForward", 0, 0), 1, t) = Grads(q, FALSE, FALSE, FALSE, NLayer,
           {}, t)
  BY <1>1, Grads_embed1, Grads_attnForward1
<1>3. /\ q = <<q[1], q[2]>> /\ G(q[1], q[2]) \in Buffers
      /\ (q[1] \in GlobalParams /\ q[2] = 0) \/ (q[1] \in LayerParams /\ q[2] \in Layers)
  BY ParamIs, BufferNames DEF Buffers
<1>4. G(q[1], q[2]) \notin {Act("h", 0)}
  BY Tags DEF Tmp
<1> QED BY <1>2, <1>3, <1>4 DEF Changes1, Grew

LEMMA Adds_attnForward1 ==
    ASSUME NEW l \in Layers, NEW t \in Passes, NEW B, NEW E,
           Changes3(B, E, Act("ln1_y", l), Tensor("ln1_y", l, t),
                Act("xhat_ln1", l), Tensor("ln1_xhat", l, t),
                Act("inv_std_ln1", l), Tensor("ln1_inv_std", l, t)),
           NEW q \in Params
    PROVE  Grew(B, E, q, PassGrads(q, Place("attnForward", l, 0), 1, t),
                PassGrads(q, Place("attnForward", l, 0), 2, t), t)
<1>1. /\ PassGrads(q, Place("attnForward", l, 0), 1, t) = Grads(q, FALSE, FALSE, FALSE, NLayer,
           {}, t)
      /\ PassGrads(q, Place("attnForward", l, 0), 2, t) = Grads(q, FALSE, FALSE, FALSE, NLayer,
           {}, t)
  BY Grads_attnForward1, Grads_attnForward2
<1>2. /\ q = <<q[1], q[2]>> /\ G(q[1], q[2]) \in Buffers
      /\ (q[1] \in GlobalParams /\ q[2] = 0) \/ (q[1] \in LayerParams /\ q[2] \in Layers)
  BY ParamIs, BufferNames DEF Buffers
<1>3. G(q[1], q[2]) \notin {Act("ln1_y", l), Act("xhat_ln1", l), Act("inv_std_ln1", l)}
  BY Tags DEF Tmp
<1> QED BY <1>1, <1>2, <1>3 DEF Changes3, Grew

LEMMA Adds_attnForward2 ==
    ASSUME NEW l \in Layers, NEW t \in Passes, NEW B, NEW E,
           Changes1(B, E, Act("qkv", l), Tensor("qkv", l, t)),
           NEW q \in Params
    PROVE  Grew(B, E, q, PassGrads(q, Place("attnForward", l, 0), 2, t),
                PassGrads(q, Place("attnForward", l, 0), 3, t), t)
<1>1. /\ PassGrads(q, Place("attnForward", l, 0), 2, t) = Grads(q, FALSE, FALSE, FALSE, NLayer,
           {}, t)
      /\ PassGrads(q, Place("attnForward", l, 0), 3, t) = Grads(q, FALSE, FALSE, FALSE, NLayer,
           {}, t)
  BY Grads_attnForward2, Grads_attnForward3
<1>2. /\ q = <<q[1], q[2]>> /\ G(q[1], q[2]) \in Buffers
      /\ (q[1] \in GlobalParams /\ q[2] = 0) \/ (q[1] \in LayerParams /\ q[2] \in Layers)
  BY ParamIs, BufferNames DEF Buffers
<1>3. G(q[1], q[2]) \notin {Act("qkv", l)}
  BY Tags DEF Tmp
<1> QED BY <1>1, <1>2, <1>3 DEF Changes1, Grew

LEMMA Adds_attnForward3 ==
    ASSUME NEW l \in Layers, NEW t \in Passes, NEW B, NEW E,
           Changes2(B, E, Act("attn_out", l), Tensor("attn_out", l, t),
                Act("P", l), Tensor("P", l, t)),
           NEW q \in Params
    PROVE  Grew(B, E, q, PassGrads(q, Place("attnForward", l, 0), 3, t),
                PassGrads(q, Place("attnForward", l, 0), 4, t), t)
<1>1. /\ PassGrads(q, Place("attnForward", l, 0), 3, t) = Grads(q, FALSE, FALSE, FALSE, NLayer,
           {}, t)
      /\ PassGrads(q, Place("attnForward", l, 0), 4, t) = Grads(q, FALSE, FALSE, FALSE, NLayer,
           {}, t)
  BY Grads_attnForward3, Grads_attnForward4
<1>2. /\ q = <<q[1], q[2]>> /\ G(q[1], q[2]) \in Buffers
      /\ (q[1] \in GlobalParams /\ q[2] = 0) \/ (q[1] \in LayerParams /\ q[2] \in Layers)
  BY ParamIs, BufferNames DEF Buffers
<1>3. G(q[1], q[2]) \notin {Act("attn_out", l), Act("P", l)}
  BY Tags DEF Tmp
<1> QED BY <1>1, <1>2, <1>3 DEF Changes2, Grew

LEMMA Adds_attnForward4 ==
    ASSUME NEW l \in Layers, NEW t \in Passes, NEW B, NEW E,
           Changes1(B, E, Tmp("dh"), Tensor("attn_proj", l, t)),
           NEW q \in Params
    PROVE  Grew(B, E, q, PassGrads(q, Place("attnForward", l, 0), 4, t),
                PassGrads(q, Place("attnForward", l, 0), 5, t), t)
<1>1. /\ PassGrads(q, Place("attnForward", l, 0), 4, t) = Grads(q, FALSE, FALSE, FALSE, NLayer,
           {}, t)
      /\ PassGrads(q, Place("attnForward", l, 0), 5, t) = Grads(q, FALSE, FALSE, FALSE, NLayer,
           {}, t)
  BY Grads_attnForward4, Grads_attnForward5
<1>2. /\ q = <<q[1], q[2]>> /\ G(q[1], q[2]) \in Buffers
      /\ (q[1] \in GlobalParams /\ q[2] = 0) \/ (q[1] \in LayerParams /\ q[2] \in Layers)
  BY ParamIs, BufferNames DEF Buffers
<1>3. G(q[1], q[2]) \notin {Tmp("dh")}
  BY Tags DEF Tmp
<1> QED BY <1>1, <1>2, <1>3 DEF Changes1, Grew

LEMMA Adds_attnForward5 ==
    ASSUME NEW l \in Layers, NEW t \in Passes, NEW B, NEW E,
           Changes1(B, E, Act("h", l + 1), HiddenMid(l, t)),
           NEW q \in Params
    PROVE  Grew(B, E, q, PassGrads(q, Place("attnForward", l, 0), 5, t),
                PassGrads(q, Place("mlpForward", l, 0), 1, t), t)
<1>1. /\ PassGrads(q, Place("attnForward", l, 0), 5, t) = Grads(q, FALSE, FALSE, FALSE, NLayer,
           {}, t)
      /\ PassGrads(q, Place("mlpForward", l, 0), 1, t) = Grads(q, FALSE, FALSE, FALSE, NLayer,
           {}, t)
  BY Grads_attnForward5, Grads_mlpForward1
<1>2. /\ q = <<q[1], q[2]>> /\ G(q[1], q[2]) \in Buffers
      /\ (q[1] \in GlobalParams /\ q[2] = 0) \/ (q[1] \in LayerParams /\ q[2] \in Layers)
  BY ParamIs, BufferNames DEF Buffers
<1>3. G(q[1], q[2]) \notin {Act("h", l + 1)}
  BY Tags DEF Tmp
<1> QED BY <1>1, <1>2, <1>3 DEF Changes1, Grew

LEMMA Adds_mlpForward1 ==
    ASSUME NEW l \in Layers, NEW t \in Passes, NEW B, NEW E,
           Changes3(B, E, Act("ln2_y", l), Tensor("ln2_y", l, t),
                Act("xhat_ln2", l), Tensor("ln2_xhat", l, t),
                Act("inv_std_ln2", l), Tensor("ln2_inv_std", l, t)),
           NEW q \in Params
    PROVE  Grew(B, E, q, PassGrads(q, Place("mlpForward", l, 0), 1, t),
                PassGrads(q, Place("mlpForward", l, 0), 2, t), t)
<1>1. /\ PassGrads(q, Place("mlpForward", l, 0), 1, t) = Grads(q, FALSE, FALSE, FALSE, NLayer,
           {}, t)
      /\ PassGrads(q, Place("mlpForward", l, 0), 2, t) = Grads(q, FALSE, FALSE, FALSE, NLayer,
           {}, t)
  BY Grads_mlpForward1, Grads_mlpForward2
<1>2. /\ q = <<q[1], q[2]>> /\ G(q[1], q[2]) \in Buffers
      /\ (q[1] \in GlobalParams /\ q[2] = 0) \/ (q[1] \in LayerParams /\ q[2] \in Layers)
  BY ParamIs, BufferNames DEF Buffers
<1>3. G(q[1], q[2]) \notin {Act("ln2_y", l), Act("xhat_ln2", l), Act("inv_std_ln2", l)}
  BY Tags DEF Tmp
<1> QED BY <1>1, <1>2, <1>3 DEF Changes3, Grew

LEMMA Adds_mlpForward2 ==
    ASSUME NEW l \in Layers, NEW t \in Passes, NEW B, NEW E,
           Changes1(B, E, Act("mlp_pre", l), Tensor("mlp_pre", l, t)),
           NEW q \in Params
    PROVE  Grew(B, E, q, PassGrads(q, Place("mlpForward", l, 0), 2, t),
                PassGrads(q, Place("mlpForward", l, 0), 3, t), t)
<1>1. /\ PassGrads(q, Place("mlpForward", l, 0), 2, t) = Grads(q, FALSE, FALSE, FALSE, NLayer,
           {}, t)
      /\ PassGrads(q, Place("mlpForward", l, 0), 3, t) = Grads(q, FALSE, FALSE, FALSE, NLayer,
           {}, t)
  BY Grads_mlpForward2, Grads_mlpForward3
<1>2. /\ q = <<q[1], q[2]>> /\ G(q[1], q[2]) \in Buffers
      /\ (q[1] \in GlobalParams /\ q[2] = 0) \/ (q[1] \in LayerParams /\ q[2] \in Layers)
  BY ParamIs, BufferNames DEF Buffers
<1>3. G(q[1], q[2]) \notin {Act("mlp_pre", l)}
  BY Tags DEF Tmp
<1> QED BY <1>1, <1>2, <1>3 DEF Changes1, Grew

LEMMA Adds_mlpForward3 ==
    ASSUME NEW l \in Layers, NEW t \in Passes, NEW B, NEW E,
           Changes1(B, E, Act("mlp_gelu", l), Tensor("mlp_gelu", l, t)),
           NEW q \in Params
    PROVE  Grew(B, E, q, PassGrads(q, Place("mlpForward", l, 0), 3, t),
                PassGrads(q, Place("mlpForward", l, 0), 4, t), t)
<1>1. /\ PassGrads(q, Place("mlpForward", l, 0), 3, t) = Grads(q, FALSE, FALSE, FALSE, NLayer,
           {}, t)
      /\ PassGrads(q, Place("mlpForward", l, 0), 4, t) = Grads(q, FALSE, FALSE, FALSE, NLayer,
           {}, t)
  BY Grads_mlpForward3, Grads_mlpForward4
<1>2. /\ q = <<q[1], q[2]>> /\ G(q[1], q[2]) \in Buffers
      /\ (q[1] \in GlobalParams /\ q[2] = 0) \/ (q[1] \in LayerParams /\ q[2] \in Layers)
  BY ParamIs, BufferNames DEF Buffers
<1>3. G(q[1], q[2]) \notin {Act("mlp_gelu", l)}
  BY Tags DEF Tmp
<1> QED BY <1>1, <1>2, <1>3 DEF Changes1, Grew

LEMMA Adds_mlpForward4 ==
    ASSUME NEW l \in Layers, NEW t \in Passes, NEW B, NEW E,
           Changes1(B, E, Tmp("dh"), Tensor("mlp_out", l, t)),
           NEW q \in Params
    PROVE  Grew(B, E, q, PassGrads(q, Place("mlpForward", l, 0), 4, t),
                PassGrads(q, Place("mlpForward", l, 0), 5, t), t)
<1>1. /\ PassGrads(q, Place("mlpForward", l, 0), 4, t) = Grads(q, FALSE, FALSE, FALSE, NLayer,
           {}, t)
      /\ PassGrads(q, Place("mlpForward", l, 0), 5, t) = Grads(q, FALSE, FALSE, FALSE, NLayer,
           {}, t)
  BY Grads_mlpForward4, Grads_mlpForward5
<1>2. /\ q = <<q[1], q[2]>> /\ G(q[1], q[2]) \in Buffers
      /\ (q[1] \in GlobalParams /\ q[2] = 0) \/ (q[1] \in LayerParams /\ q[2] \in Layers)
  BY ParamIs, BufferNames DEF Buffers
<1>3. G(q[1], q[2]) \notin {Tmp("dh")}
  BY Tags DEF Tmp
<1> QED BY <1>1, <1>2, <1>3 DEF Changes1, Grew

LEMMA Adds_mlpForward5a ==
    ASSUME NEW l \in Layers, NEW t \in Passes, NEW B, NEW E,
           Changes1(B, E, Act("h", l + 1), Hidden(l + 1, t)),
           l + 1 < NLayer, NEW q \in Params
    PROVE  Grew(B, E, q, PassGrads(q, Place("mlpForward", l, 0), 5, t),
                PassGrads(q, Place("attnForward", l + 1, 0), 1, t), t)
<1>1. l + 1 \in Layers
  BY Parameters DEF Layers
<1>2. /\ PassGrads(q, Place("mlpForward", l, 0), 5, t) = Grads(q, FALSE, FALSE, FALSE, NLayer,
           {}, t)
      /\ PassGrads(q, Place("attnForward", l + 1, 0), 1, t) = Grads(q, FALSE, FALSE, FALSE,
           NLayer, {}, t)
  BY <1>1, Grads_mlpForward5, Grads_attnForward1
<1>3. /\ q = <<q[1], q[2]>> /\ G(q[1], q[2]) \in Buffers
      /\ (q[1] \in GlobalParams /\ q[2] = 0) \/ (q[1] \in LayerParams /\ q[2] \in Layers)
  BY ParamIs, BufferNames DEF Buffers
<1>4. G(q[1], q[2]) \notin {Act("h", l + 1)}
  BY Tags DEF Tmp
<1> QED BY <1>2, <1>3, <1>4 DEF Changes1, Grew

LEMMA Adds_mlpForward5b ==
    ASSUME NEW l \in Layers, NEW t \in Passes, NEW B, NEW E,
           Changes1(B, E, Act("h", l + 1), Hidden(l + 1, t)),
           ~(l + 1 < NLayer), NEW q \in Params
    PROVE  Grew(B, E, q, PassGrads(q, Place("mlpForward", l, 0), 5, t),
                PassGrads(q, Place("head", 0, 0), 1, t), t)
<1>1. /\ PassGrads(q, Place("mlpForward", l, 0), 5, t) = Grads(q, FALSE, FALSE, FALSE, NLayer,
           {}, t)
      /\ PassGrads(q, Place("head", 0, 0), 1, t) = Grads(q, FALSE, FALSE, FALSE, NLayer, {}, t)
  BY Grads_mlpForward5, Grads_head1
<1>2. /\ q = <<q[1], q[2]>> /\ G(q[1], q[2]) \in Buffers
      /\ (q[1] \in GlobalParams /\ q[2] = 0) \/ (q[1] \in LayerParams /\ q[2] \in Layers)
  BY ParamIs, BufferNames DEF Buffers
<1>3. G(q[1], q[2]) \notin {Act("h", l + 1)}
  BY Tags DEF Tmp
<1> QED BY <1>1, <1>2, <1>3 DEF Changes1, Grew

LEMMA Adds_head1 ==
    ASSUME NEW t \in Passes, NEW B, NEW E,
           Changes3(B, E, Tmp("lnf_y"), Tensor("ln_f_y", 0, t),
                Tmp("xhat_lnf"), Tensor("ln_f_xhat", 0, t),
                Tmp("inv_std_lnf"), Tensor("ln_f_inv_std", 0, t)),
           NEW q \in Params
    PROVE  Grew(B, E, q, PassGrads(q, Place("head", 0, 0), 1, t),
                PassGrads(q, Place("head", 0, 0), 2, t), t)
<1>1. /\ PassGrads(q, Place("head", 0, 0), 1, t) = Grads(q, FALSE, FALSE, FALSE, NLayer, {}, t)
      /\ PassGrads(q, Place("head", 0, 0), 2, t) = Grads(q, FALSE, FALSE, FALSE, NLayer, {}, t)
  BY Grads_head1, Grads_head2
<1>2. /\ q = <<q[1], q[2]>> /\ G(q[1], q[2]) \in Buffers
      /\ (q[1] \in GlobalParams /\ q[2] = 0) \/ (q[1] \in LayerParams /\ q[2] \in Layers)
  BY ParamIs, BufferNames DEF Buffers
<1>3. G(q[1], q[2]) \notin {Tmp("lnf_y"), Tmp("xhat_lnf"), Tmp("inv_std_lnf")}
  BY Tags DEF Tmp
<1> QED BY <1>1, <1>2, <1>3 DEF Changes3, Grew

LEMMA Adds_head2 ==
    ASSUME NEW t \in Passes, NEW B, NEW E,
           Changes1(B, E, Tmp("logits"), Tensor("logits", 0, t)),
           NEW q \in Params
    PROVE  Grew(B, E, q, PassGrads(q, Place("head", 0, 0), 2, t),
                PassGrads(q, Place("head", 0, 0), 3, t), t)
<1>1. /\ PassGrads(q, Place("head", 0, 0), 2, t) = Grads(q, FALSE, FALSE, FALSE, NLayer, {}, t)
      /\ PassGrads(q, Place("head", 0, 0), 3, t) = Grads(q, FALSE, FALSE, FALSE, NLayer, {}, t)
  BY Grads_head2, Grads_head3
<1>2. /\ q = <<q[1], q[2]>> /\ G(q[1], q[2]) \in Buffers
      /\ (q[1] \in GlobalParams /\ q[2] = 0) \/ (q[1] \in LayerParams /\ q[2] \in Layers)
  BY ParamIs, BufferNames DEF Buffers
<1>3. G(q[1], q[2]) \notin {Tmp("logits")}
  BY Tags DEF Tmp
<1> QED BY <1>1, <1>2, <1>3 DEF Changes1, Grew

LEMMA Adds_head3 ==
    ASSUME NEW t \in Passes, NEW B, NEW E,
           Changes2(B, E, Tmp("dlogits"), Tensor("dlogits", 0, t),
                Tmp("loss"), Tensor("loss", 0, t)),
           NEW q \in Params
    PROVE  Grew(B, E, q, PassGrads(q, Place("head", 0, 0), 3, t),
                PassGrads(q, Place("headBack", 0, 0), 1, t), t)
<1>1. /\ PassGrads(q, Place("head", 0, 0), 3, t) = Grads(q, FALSE, FALSE, FALSE, NLayer, {}, t)
      /\ PassGrads(q, Place("headBack", 0, 0), 1, t) = Grads(q, FALSE, FALSE, FALSE, NLayer,
           {}, t)
  BY Grads_head3, Grads_headBack1
<1>2. /\ q = <<q[1], q[2]>> /\ G(q[1], q[2]) \in Buffers
      /\ (q[1] \in GlobalParams /\ q[2] = 0) \/ (q[1] \in LayerParams /\ q[2] \in Layers)
  BY ParamIs, BufferNames DEF Buffers
<1>3. G(q[1], q[2]) \notin {Tmp("dlogits"), Tmp("loss")}
  BY Tags DEF Tmp
<1> QED BY <1>1, <1>2, <1>3 DEF Changes2, Grew

LEMMA Adds_headBack1 ==
    ASSUME NEW t \in Passes, NEW B, NEW E,
           Changes1(B, E, G("wte", 0), B[G("wte", 0)] (+) Only(Gradient("wte:head", 0, t))),
           NEW q \in Params
    PROVE  Grew(B, E, q, PassGrads(q, Place("headBack", 0, 0), 1, t),
                PassGrads(q, Place("headBack", 0, 0), 2, t), t)
<1>1. /\ PassGrads(q, Place("headBack", 0, 0), 1, t) = Grads(q, FALSE, FALSE, FALSE, NLayer,
           {}, t)
      /\ PassGrads(q, Place("headBack", 0, 0), 2, t) = Grads(q, TRUE, FALSE, FALSE, NLayer, {},
           t)
  BY Grads_headBack1, Grads_headBack2
<1>2. /\ q = <<q[1], q[2]>> /\ G(q[1], q[2]) \in Buffers
      /\ (q[1] \in GlobalParams /\ q[2] = 0) \/ (q[1] \in LayerParams /\ q[2] \in Layers)
  BY ParamIs, BufferNames DEF Buffers
<1>3. CASE q = <<"wte", 0>>
  <2>1. q[1] = "wte" /\ q[2] = 0
    BY <1>3
  <2>2. E[G(q[1], q[2])] = B[G(q[1], q[2])] (+) Only(Gradient("wte:head", 0, t))
    BY <2>1 DEF Changes1
  <2>3. Grads(q, TRUE, FALSE, FALSE, NLayer, {}, t) = Grads(q, FALSE, FALSE, FALSE, NLayer, {},
                  t) \cup {Gradient("wte:head", 0, t)} /\ Gradient("wte:head", 0,
                      t) \notin Grads(q, FALSE, FALSE, FALSE, NLayer, {}, t)
    BY <2>1, GradientInj, Parameters DEF Grads, Layers
  <2> QED BY <1>1, <2>1, <2>2, <2>3 DEF Grew
<1>4. CASE q # <<"wte", 0>>
  <2>1. G(q[1], q[2]) \notin {G("wte", 0)}
    BY <1>2, <1>4, Tags DEF Tmp
  <2>2. Grads(q, TRUE, FALSE, FALSE, NLayer, {}, t) = Grads(q, FALSE, FALSE, FALSE, NLayer, {},
                  t)
    <3>1. CASE q[1] \in GlobalParams /\ q[2] = 0
      BY <1>2, <1>4, <3>1 DEF Grads, GlobalParams
    <3>2. CASE q[1] \in LayerParams /\ q[2] \in Layers
      BY <1>2, <1>4, <3>2, Parameters DEF Grads, LayerParams, Layers
    <3> QED BY <1>2, <3>1, <3>2
  <2> QED BY <1>1, <1>2, <2>1, <2>2 DEF Changes1, Grew
<1> QED BY <1>3, <1>4

LEMMA Adds_headBack2 ==
    ASSUME NEW t \in Passes, NEW B, NEW E,
           Changes1(B, E, Tmp("dh"), Tensor("d_ln_f_y", 0, t)),
           NEW q \in Params
    PROVE  Grew(B, E, q, PassGrads(q, Place("headBack", 0, 0), 2, t),
                PassGrads(q, Place("headBack", 0, 0), 3, t), t)
<1>1. /\ PassGrads(q, Place("headBack", 0, 0), 2, t) = Grads(q, TRUE, FALSE, FALSE, NLayer, {},
           t)
      /\ PassGrads(q, Place("headBack", 0, 0), 3, t) = Grads(q, TRUE, FALSE, FALSE, NLayer, {},
           t)
  BY Grads_headBack2, Grads_headBack3
<1>2. /\ q = <<q[1], q[2]>> /\ G(q[1], q[2]) \in Buffers
      /\ (q[1] \in GlobalParams /\ q[2] = 0) \/ (q[1] \in LayerParams /\ q[2] \in Layers)
  BY ParamIs, BufferNames DEF Buffers
<1>3. G(q[1], q[2]) \notin {Tmp("dh")}
  BY Tags DEF Tmp
<1> QED BY <1>1, <1>2, <1>3 DEF Changes1, Grew

LEMMA Adds_headBack3 ==
    ASSUME NEW t \in Passes, NEW B, NEW E,
           Changes1(B, E, Tmp("lnf_y"), Tensor("d_ln_f_y", 0, t)),
           NEW q \in Params
    PROVE  Grew(B, E, q, PassGrads(q, Place("headBack", 0, 0), 3, t),
                PassGrads(q, Place("headBack", 0, 0), 4, t), t)
<1>1. /\ PassGrads(q, Place("headBack", 0, 0), 3, t) = Grads(q, TRUE, FALSE, FALSE, NLayer, {},
           t)
      /\ PassGrads(q, Place("headBack", 0, 0), 4, t) = Grads(q, TRUE, FALSE, FALSE, NLayer, {},
           t)
  BY Grads_headBack3, Grads_headBack4
<1>2. /\ q = <<q[1], q[2]>> /\ G(q[1], q[2]) \in Buffers
      /\ (q[1] \in GlobalParams /\ q[2] = 0) \/ (q[1] \in LayerParams /\ q[2] \in Layers)
  BY ParamIs, BufferNames DEF Buffers
<1>3. G(q[1], q[2]) \notin {Tmp("lnf_y")}
  BY Tags DEF Tmp
<1> QED BY <1>1, <1>2, <1>3 DEF Changes1, Grew

LEMMA Adds_headBack4 ==
    ASSUME NEW t \in Passes, NEW B, NEW E,
           Changes1(B, E, Tmp("dh"), DH(NLayer, t)),
           NEW q \in Params
    PROVE  Grew(B, E, q, PassGrads(q, Place("headBack", 0, 0), 4, t),
                PassGrads(q, Place("headBack", 0, 0), 5, t), t)
<1>1. /\ PassGrads(q, Place("headBack", 0, 0), 4, t) = Grads(q, TRUE, FALSE, FALSE, NLayer, {},
           t)
      /\ PassGrads(q, Place("headBack", 0, 0), 5, t) = Grads(q, TRUE, FALSE, FALSE, NLayer, {},
           t)
  BY Grads_headBack4, Grads_headBack5
<1>2. /\ q = <<q[1], q[2]>> /\ G(q[1], q[2]) \in Buffers
      /\ (q[1] \in GlobalParams /\ q[2] = 0) \/ (q[1] \in LayerParams /\ q[2] \in Layers)
  BY ParamIs, BufferNames DEF Buffers
<1>3. G(q[1], q[2]) \notin {Tmp("dh")}
  BY Tags DEF Tmp
<1> QED BY <1>1, <1>2, <1>3 DEF Changes1, Grew

LEMMA Adds_headBack5 ==
    ASSUME NEW t \in Passes, NEW B, NEW E,
           Changes2(B, E, G("ln_f.w", 0), B[G("ln_f.w", 0)] (+) Only(Gradient("ln_f.w", 0, t)),
                G("ln_f.b", 0), B[G("ln_f.b", 0)] (+) Only(Gradient("ln_f.b", 0, t))),
           NEW q \in Params
    PROVE  Grew(B, E, q, PassGrads(q, Place("headBack", 0, 0), 5, t),
                PassGrads(q, Place("mlpBack", NLayer - 1, 0), 1, t), t)
<1>1. NLayer - 1 \in Layers
  BY Parameters DEF Layers
<1>2. /\ PassGrads(q, Place("headBack", 0, 0), 5, t) = Grads(q, TRUE, FALSE, FALSE, NLayer, {},
           t)
      /\ PassGrads(q, Place("mlpBack", NLayer - 1, 0), 1, t) = Grads(q, TRUE, TRUE, FALSE,
           NLayer - 1, {}, t)
  BY <1>1, Grads_headBack5, Grads_mlpBack1
<1>3. /\ q = <<q[1], q[2]>> /\ G(q[1], q[2]) \in Buffers
      /\ (q[1] \in GlobalParams /\ q[2] = 0) \/ (q[1] \in LayerParams /\ q[2] \in Layers)
  BY ParamIs, BufferNames DEF Buffers
<1>4. CASE q = <<"ln_f.w", 0>>
  <2>1. q[1] = "ln_f.w" /\ q[2] = 0
    BY <1>4
  <2>2. E[G(q[1], q[2])] = B[G(q[1], q[2])] (+) Only(Gradient("ln_f.w", 0, t))
    BY <2>1 DEF Changes2
  <2>3. Grads(q, TRUE, TRUE, FALSE, NLayer - 1, {}, t) = Grads(q, TRUE, FALSE, FALSE, NLayer,
                  {}, t) \cup {Gradient("ln_f.w", 0, t)} /\ Gradient("ln_f.w", 0,
                      t) \notin Grads(q, TRUE, FALSE, FALSE, NLayer, {}, t)
    BY <2>1, GradientInj, Parameters DEF Grads, Layers
  <2> QED BY <1>2, <2>1, <2>2, <2>3 DEF Grew
<1>5. CASE q = <<"ln_f.b", 0>>
  <2>1. q[1] = "ln_f.b" /\ q[2] = 0
    BY <1>5
  <2>2. E[G(q[1], q[2])] = B[G(q[1], q[2])] (+) Only(Gradient("ln_f.b", 0, t))
    BY <2>1 DEF Changes2
  <2>3. Grads(q, TRUE, TRUE, FALSE, NLayer - 1, {}, t) = Grads(q, TRUE, FALSE, FALSE, NLayer,
                  {}, t) \cup {Gradient("ln_f.b", 0, t)} /\ Gradient("ln_f.b", 0,
                      t) \notin Grads(q, TRUE, FALSE, FALSE, NLayer, {}, t)
    BY <2>1, GradientInj, Parameters DEF Grads, Layers
  <2> QED BY <1>2, <2>1, <2>2, <2>3 DEF Grew
<1>6. CASE q # <<"ln_f.w", 0>> /\ q # <<"ln_f.b", 0>>
  <2>1. G(q[1], q[2]) \notin {G("ln_f.w", 0), G("ln_f.b", 0)}
    BY <1>3, <1>6, Tags DEF Tmp
  <2>2. Grads(q, TRUE, TRUE, FALSE, NLayer - 1, {}, t) = Grads(q, TRUE, FALSE, FALSE, NLayer,
                  {}, t)
    <3>1. CASE q[1] \in GlobalParams /\ q[2] = 0
      BY <1>3, <1>6, <3>1 DEF Grads, GlobalParams
    <3>2. CASE q[1] \in LayerParams /\ q[2] \in Layers
      BY <1>3, <1>6, <3>2, Parameters DEF Grads, LayerParams, Layers
    <3> QED BY <1>3, <3>1, <3>2
  <2> QED BY <1>2, <1>3, <2>1, <2>2 DEF Changes2, Grew
<1> QED BY <1>4, <1>5, <1>6

LEMMA Adds_mlpBack1 ==
    ASSUME NEW l \in Layers, NEW t \in Passes, NEW B, NEW E,
           Changes1(B, E, G("mlp.c_proj.w", l),
                        B[G("mlp.c_proj.w", l)] (+) Only(Gradient("mlp.c_proj.w", l, t))),
           NEW q \in Params
    PROVE  Grew(B, E, q, PassGrads(q, Place("mlpBack", l, 0), 1, t),
                PassGrads(q, Place("mlpBack", l, 0), 2, t), t)
<1>1. /\ PassGrads(q, Place("mlpBack", l, 0), 1, t) = Grads(q, TRUE, TRUE, FALSE, l, {}, t)
      /\ PassGrads(q, Place("mlpBack", l, 0), 2, t) = Grads(q, TRUE, TRUE, FALSE, l,
           {"mlp.c_proj.w"}, t)
  BY Grads_mlpBack1, Grads_mlpBack2
<1>2. /\ q = <<q[1], q[2]>> /\ G(q[1], q[2]) \in Buffers
      /\ (q[1] \in GlobalParams /\ q[2] = 0) \/ (q[1] \in LayerParams /\ q[2] \in Layers)
  BY ParamIs, BufferNames DEF Buffers
<1>3. CASE q = <<"mlp.c_proj.w", l>>
  <2>1. q[1] = "mlp.c_proj.w" /\ q[2] = l
    BY <1>3
  <2>2. E[G(q[1], q[2])] = B[G(q[1], q[2])] (+) Only(Gradient("mlp.c_proj.w", l, t))
    BY <2>1 DEF Changes1
  <2>3. Grads(q, TRUE, TRUE, FALSE, l, {"mlp.c_proj.w"}, t) = Grads(q, TRUE, TRUE, FALSE, l,
                  {}, t) \cup {Gradient("mlp.c_proj.w", l, t)} /\ Gradient("mlp.c_proj.w", l,
                      t) \notin Grads(q, TRUE, TRUE, FALSE, l, {}, t)
    BY <2>1, GradientInj, Parameters DEF Grads, Layers
  <2> QED BY <1>1, <2>1, <2>2, <2>3 DEF Grew
<1>4. CASE q # <<"mlp.c_proj.w", l>>
  <2>1. G(q[1], q[2]) \notin {G("mlp.c_proj.w", l)}
    BY <1>2, <1>4, Tags DEF Tmp
  <2>2. Grads(q, TRUE, TRUE, FALSE, l, {"mlp.c_proj.w"}, t) = Grads(q, TRUE, TRUE, FALSE, l,
                  {}, t)
    <3>1. CASE q[1] \in GlobalParams /\ q[2] = 0
      BY <1>2, <1>4, <3>1 DEF Grads, GlobalParams
    <3>2. CASE q[1] \in LayerParams /\ q[2] \in Layers
      BY <1>2, <1>4, <3>2, Parameters DEF Grads, LayerParams, Layers
    <3> QED BY <1>2, <3>1, <3>2
  <2> QED BY <1>1, <1>2, <2>1, <2>2 DEF Changes1, Grew
<1> QED BY <1>3, <1>4

LEMMA Adds_mlpBack2 ==
    ASSUME NEW l \in Layers, NEW t \in Passes, NEW B, NEW E,
           Changes1(B, E, G("mlp.c_proj.b", l),
                        B[G("mlp.c_proj.b", l)] (+) Only(Gradient("mlp.c_proj.b", l, t))),
           NEW q \in Params
    PROVE  Grew(B, E, q, PassGrads(q, Place("mlpBack", l, 0), 2, t),
                PassGrads(q, Place("mlpBack", l, 0), 3, t), t)
<1>1. /\ PassGrads(q, Place("mlpBack", l, 0), 2, t) = Grads(q, TRUE, TRUE, FALSE, l,
           {"mlp.c_proj.w"}, t)
      /\ PassGrads(q, Place("mlpBack", l, 0), 3, t) = Grads(q, TRUE, TRUE, FALSE, l,
           {"mlp.c_proj.w", "mlp.c_proj.b"}, t)
  BY Grads_mlpBack2, Grads_mlpBack3
<1>2. /\ q = <<q[1], q[2]>> /\ G(q[1], q[2]) \in Buffers
      /\ (q[1] \in GlobalParams /\ q[2] = 0) \/ (q[1] \in LayerParams /\ q[2] \in Layers)
  BY ParamIs, BufferNames DEF Buffers
<1>3. CASE q = <<"mlp.c_proj.b", l>>
  <2>1. q[1] = "mlp.c_proj.b" /\ q[2] = l
    BY <1>3
  <2>2. E[G(q[1], q[2])] = B[G(q[1], q[2])] (+) Only(Gradient("mlp.c_proj.b", l, t))
    BY <2>1 DEF Changes1
  <2>3. Grads(q, TRUE, TRUE, FALSE, l, {"mlp.c_proj.w", "mlp.c_proj.b"}, t) = Grads(q, TRUE,
                  TRUE, FALSE, l, {"mlp.c_proj.w"}, t) \cup {Gradient("mlp.c_proj.b", l, t)}
                      /\ Gradient("mlp.c_proj.b", l, t) \notin Grads(q, TRUE, TRUE, FALSE, l,
                           {"mlp.c_proj.w"}, t)
    BY <2>1, GradientInj, Parameters DEF Grads, Layers
  <2> QED BY <1>1, <2>1, <2>2, <2>3 DEF Grew
<1>4. CASE q # <<"mlp.c_proj.b", l>>
  <2>1. G(q[1], q[2]) \notin {G("mlp.c_proj.b", l)}
    BY <1>2, <1>4, Tags DEF Tmp
  <2>2. Grads(q, TRUE, TRUE, FALSE, l, {"mlp.c_proj.w", "mlp.c_proj.b"}, t) = Grads(q, TRUE,
                  TRUE, FALSE, l, {"mlp.c_proj.w"}, t)
    <3>1. CASE q[1] \in GlobalParams /\ q[2] = 0
      BY <1>2, <1>4, <3>1 DEF Grads, GlobalParams
    <3>2. CASE q[1] \in LayerParams /\ q[2] \in Layers
      BY <1>2, <1>4, <3>2, Parameters DEF Grads, LayerParams, Layers
    <3> QED BY <1>2, <3>1, <3>2
  <2> QED BY <1>1, <1>2, <2>1, <2>2 DEF Changes1, Grew
<1> QED BY <1>3, <1>4

LEMMA Adds_mlpBack3 ==
    ASSUME NEW l \in Layers, NEW t \in Passes, NEW B, NEW E,
           Changes1(B, E, Tmp("d_mlp"), Tensor("d_mlp_gelu", l, t)),
           NEW q \in Params
    PROVE  Grew(B, E, q, PassGrads(q, Place("mlpBack", l, 0), 3, t),
                PassGrads(q, Place("mlpBack", l, 0), 4, t), t)
<1>1. /\ PassGrads(q, Place("mlpBack", l, 0), 3, t) = Grads(q, TRUE, TRUE, FALSE, l,
           {"mlp.c_proj.w", "mlp.c_proj.b"}, t)
      /\ PassGrads(q, Place("mlpBack", l, 0), 4, t) = Grads(q, TRUE, TRUE, FALSE, l,
           {"mlp.c_proj.w", "mlp.c_proj.b"}, t)
  BY Grads_mlpBack3, Grads_mlpBack4
<1>2. /\ q = <<q[1], q[2]>> /\ G(q[1], q[2]) \in Buffers
      /\ (q[1] \in GlobalParams /\ q[2] = 0) \/ (q[1] \in LayerParams /\ q[2] \in Layers)
  BY ParamIs, BufferNames DEF Buffers
<1>3. G(q[1], q[2]) \notin {Tmp("d_mlp")}
  BY Tags DEF Tmp
<1> QED BY <1>1, <1>2, <1>3 DEF Changes1, Grew

LEMMA Adds_mlpBack4 ==
    ASSUME NEW l \in Layers, NEW t \in Passes, NEW B, NEW E,
           Changes1(B, E, Tmp("d_mlp"), Tensor("d_mlp_pre", l, t)),
           NEW q \in Params
    PROVE  Grew(B, E, q, PassGrads(q, Place("mlpBack", l, 0), 4, t),
                PassGrads(q, Place("mlpBack", l, 0), 5, t), t)
<1>1. /\ PassGrads(q, Place("mlpBack", l, 0), 4, t) = Grads(q, TRUE, TRUE, FALSE, l,
           {"mlp.c_proj.w", "mlp.c_proj.b"}, t)
      /\ PassGrads(q, Place("mlpBack", l, 0), 5, t) = Grads(q, TRUE, TRUE, FALSE, l,
           {"mlp.c_proj.w", "mlp.c_proj.b"}, t)
  BY Grads_mlpBack4, Grads_mlpBack5
<1>2. /\ q = <<q[1], q[2]>> /\ G(q[1], q[2]) \in Buffers
      /\ (q[1] \in GlobalParams /\ q[2] = 0) \/ (q[1] \in LayerParams /\ q[2] \in Layers)
  BY ParamIs, BufferNames DEF Buffers
<1>3. G(q[1], q[2]) \notin {Tmp("d_mlp")}
  BY Tags DEF Tmp
<1> QED BY <1>1, <1>2, <1>3 DEF Changes1, Grew

LEMMA Adds_mlpBack5 ==
    ASSUME NEW l \in Layers, NEW t \in Passes, NEW B, NEW E,
           Changes1(B, E, G("c_fc.w", l), B[G("c_fc.w", l)] (+) Only(Gradient("c_fc.w", l, t))),
           NEW q \in Params
    PROVE  Grew(B, E, q, PassGrads(q, Place("mlpBack", l, 0), 5, t),
                PassGrads(q, Place("mlpBack", l, 0), 6, t), t)
<1>1. /\ PassGrads(q, Place("mlpBack", l, 0), 5, t) = Grads(q, TRUE, TRUE, FALSE, l,
           {"mlp.c_proj.w", "mlp.c_proj.b"}, t)
      /\ PassGrads(q, Place("mlpBack", l, 0), 6, t) = Grads(q, TRUE, TRUE, FALSE, l,
           {"mlp.c_proj.w", "mlp.c_proj.b", "c_fc.w"}, t)
  BY Grads_mlpBack5, Grads_mlpBack6
<1>2. /\ q = <<q[1], q[2]>> /\ G(q[1], q[2]) \in Buffers
      /\ (q[1] \in GlobalParams /\ q[2] = 0) \/ (q[1] \in LayerParams /\ q[2] \in Layers)
  BY ParamIs, BufferNames DEF Buffers
<1>3. CASE q = <<"c_fc.w", l>>
  <2>1. q[1] = "c_fc.w" /\ q[2] = l
    BY <1>3
  <2>2. E[G(q[1], q[2])] = B[G(q[1], q[2])] (+) Only(Gradient("c_fc.w", l, t))
    BY <2>1 DEF Changes1
  <2>3. Grads(q, TRUE, TRUE, FALSE, l, {"mlp.c_proj.w", "mlp.c_proj.b", "c_fc.w"}, t)
                  = Grads(q, TRUE, TRUE, FALSE, l, {"mlp.c_proj.w", "mlp.c_proj.b"},
                      t) \cup {Gradient("c_fc.w", l, t)} /\ Gradient("c_fc.w", l,
                          t) \notin Grads(q, TRUE, TRUE, FALSE, l,
                              {"mlp.c_proj.w", "mlp.c_proj.b"}, t)
    BY <2>1, GradientInj, Parameters DEF Grads, Layers
  <2> QED BY <1>1, <2>1, <2>2, <2>3 DEF Grew
<1>4. CASE q # <<"c_fc.w", l>>
  <2>1. G(q[1], q[2]) \notin {G("c_fc.w", l)}
    BY <1>2, <1>4, Tags DEF Tmp
  <2>2. Grads(q, TRUE, TRUE, FALSE, l, {"mlp.c_proj.w", "mlp.c_proj.b", "c_fc.w"}, t)
                  = Grads(q, TRUE, TRUE, FALSE, l, {"mlp.c_proj.w", "mlp.c_proj.b"}, t)
    <3>1. CASE q[1] \in GlobalParams /\ q[2] = 0
      BY <1>2, <1>4, <3>1 DEF Grads, GlobalParams
    <3>2. CASE q[1] \in LayerParams /\ q[2] \in Layers
      BY <1>2, <1>4, <3>2, Parameters DEF Grads, LayerParams, Layers
    <3> QED BY <1>2, <3>1, <3>2
  <2> QED BY <1>1, <1>2, <2>1, <2>2 DEF Changes1, Grew
<1> QED BY <1>3, <1>4

LEMMA Adds_mlpBack6 ==
    ASSUME NEW l \in Layers, NEW t \in Passes, NEW B, NEW E,
           Changes1(B, E, G("c_fc.b", l), B[G("c_fc.b", l)] (+) Only(Gradient("c_fc.b", l, t))),
           NEW q \in Params
    PROVE  Grew(B, E, q, PassGrads(q, Place("mlpBack", l, 0), 6, t),
                PassGrads(q, Place("mlpBack", l, 0), 7, t), t)
<1>1. /\ PassGrads(q, Place("mlpBack", l, 0), 6, t) = Grads(q, TRUE, TRUE, FALSE, l,
           {"mlp.c_proj.w", "mlp.c_proj.b", "c_fc.w"}, t)
      /\ PassGrads(q, Place("mlpBack", l, 0), 7, t) = Grads(q, TRUE, TRUE, FALSE, l,
           {"mlp.c_proj.w", "mlp.c_proj.b", "c_fc.w", "c_fc.b"}, t)
  BY Grads_mlpBack6, Grads_mlpBack7
<1>2. /\ q = <<q[1], q[2]>> /\ G(q[1], q[2]) \in Buffers
      /\ (q[1] \in GlobalParams /\ q[2] = 0) \/ (q[1] \in LayerParams /\ q[2] \in Layers)
  BY ParamIs, BufferNames DEF Buffers
<1>3. CASE q = <<"c_fc.b", l>>
  <2>1. q[1] = "c_fc.b" /\ q[2] = l
    BY <1>3
  <2>2. E[G(q[1], q[2])] = B[G(q[1], q[2])] (+) Only(Gradient("c_fc.b", l, t))
    BY <2>1 DEF Changes1
  <2>3. Grads(q, TRUE, TRUE, FALSE, l, {"mlp.c_proj.w", "mlp.c_proj.b", "c_fc.w", "c_fc.b"}, t)
                  = Grads(q, TRUE, TRUE, FALSE, l, {"mlp.c_proj.w", "mlp.c_proj.b", "c_fc.w"},
                      t) \cup {Gradient("c_fc.b", l, t)} /\ Gradient("c_fc.b", l,
                          t) \notin Grads(q, TRUE, TRUE, FALSE, l,
                              {"mlp.c_proj.w", "mlp.c_proj.b", "c_fc.w"}, t)
    BY <2>1, GradientInj, Parameters DEF Grads, Layers
  <2> QED BY <1>1, <2>1, <2>2, <2>3 DEF Grew
<1>4. CASE q # <<"c_fc.b", l>>
  <2>1. G(q[1], q[2]) \notin {G("c_fc.b", l)}
    BY <1>2, <1>4, Tags DEF Tmp
  <2>2. Grads(q, TRUE, TRUE, FALSE, l, {"mlp.c_proj.w", "mlp.c_proj.b", "c_fc.w", "c_fc.b"}, t)
                  = Grads(q, TRUE, TRUE, FALSE, l, {"mlp.c_proj.w", "mlp.c_proj.b", "c_fc.w"},
                      t)
    <3>1. CASE q[1] \in GlobalParams /\ q[2] = 0
      BY <1>2, <1>4, <3>1 DEF Grads, GlobalParams
    <3>2. CASE q[1] \in LayerParams /\ q[2] \in Layers
      BY <1>2, <1>4, <3>2, Parameters DEF Grads, LayerParams, Layers
    <3> QED BY <1>2, <3>1, <3>2
  <2> QED BY <1>1, <1>2, <2>1, <2>2 DEF Changes1, Grew
<1> QED BY <1>3, <1>4

LEMMA Adds_mlpBack7 ==
    ASSUME NEW l \in Layers, NEW t \in Passes, NEW B, NEW E,
           Changes1(B, E, Tmp("d_qkv"), Tensor("d_ln2_y", l, t)),
           NEW q \in Params
    PROVE  Grew(B, E, q, PassGrads(q, Place("mlpBack", l, 0), 7, t),
                PassGrads(q, Place("mlpBack", l, 0), 8, t), t)
<1>1. /\ PassGrads(q, Place("mlpBack", l, 0), 7, t) = Grads(q, TRUE, TRUE, FALSE, l,
           {"mlp.c_proj.w", "mlp.c_proj.b", "c_fc.w", "c_fc.b"}, t)
      /\ PassGrads(q, Place("mlpBack", l, 0), 8, t) = Grads(q, TRUE, TRUE, FALSE, l,
           {"mlp.c_proj.w", "mlp.c_proj.b", "c_fc.w", "c_fc.b"}, t)
  BY Grads_mlpBack7, Grads_mlpBack8
<1>2. /\ q = <<q[1], q[2]>> /\ G(q[1], q[2]) \in Buffers
      /\ (q[1] \in GlobalParams /\ q[2] = 0) \/ (q[1] \in LayerParams /\ q[2] \in Layers)
  BY ParamIs, BufferNames DEF Buffers
<1>3. G(q[1], q[2]) \notin {Tmp("d_qkv")}
  BY Tags DEF Tmp
<1> QED BY <1>1, <1>2, <1>3 DEF Changes1, Grew

LEMMA Adds_mlpBack8 ==
    ASSUME NEW l \in Layers, NEW t \in Passes, NEW B, NEW E,
           Changes1(B, E, Tmp("dh"), DHMid(l, t)),
           NEW q \in Params
    PROVE  Grew(B, E, q, PassGrads(q, Place("mlpBack", l, 0), 8, t),
                PassGrads(q, Place("mlpBack", l, 0), 9, t), t)
<1>1. /\ PassGrads(q, Place("mlpBack", l, 0), 8, t) = Grads(q, TRUE, TRUE, FALSE, l,
           {"mlp.c_proj.w", "mlp.c_proj.b", "c_fc.w", "c_fc.b"}, t)
      /\ PassGrads(q, Place("mlpBack", l, 0), 9, t) = Grads(q, TRUE, TRUE, FALSE, l,
           {"mlp.c_proj.w", "mlp.c_proj.b", "c_fc.w", "c_fc.b"}, t)
  BY Grads_mlpBack8, Grads_mlpBack9
<1>2. /\ q = <<q[1], q[2]>> /\ G(q[1], q[2]) \in Buffers
      /\ (q[1] \in GlobalParams /\ q[2] = 0) \/ (q[1] \in LayerParams /\ q[2] \in Layers)
  BY ParamIs, BufferNames DEF Buffers
<1>3. G(q[1], q[2]) \notin {Tmp("dh")}
  BY Tags DEF Tmp
<1> QED BY <1>1, <1>2, <1>3 DEF Changes1, Grew

LEMMA Adds_mlpBack9 ==
    ASSUME NEW l \in Layers, NEW t \in Passes, NEW B, NEW E,
           Changes2(B, E, G("ln_2.w", l), B[G("ln_2.w", l)] (+) Only(Gradient("ln_2.w", l, t)),
                G("ln_2.b", l), B[G("ln_2.b", l)] (+) Only(Gradient("ln_2.b", l, t))),
           NEW q \in Params
    PROVE  Grew(B, E, q, PassGrads(q, Place("mlpBack", l, 0), 9, t),
                PassGrads(q, Place("projBack", l, 0), 1, t), t)
<1>1. /\ PassGrads(q, Place("mlpBack", l, 0), 9, t) = Grads(q, TRUE, TRUE, FALSE, l,
           {"mlp.c_proj.w", "mlp.c_proj.b", "c_fc.w", "c_fc.b"}, t)
      /\ PassGrads(q, Place("projBack", l, 0), 1, t) = Grads(q, TRUE, TRUE, FALSE, l,
           {"mlp.c_proj.w", "mlp.c_proj.b", "c_fc.w", "c_fc.b", "ln_2.w", "ln_2.b"}, t)
  BY Grads_mlpBack9, Grads_projBack1
<1>2. /\ q = <<q[1], q[2]>> /\ G(q[1], q[2]) \in Buffers
      /\ (q[1] \in GlobalParams /\ q[2] = 0) \/ (q[1] \in LayerParams /\ q[2] \in Layers)
  BY ParamIs, BufferNames DEF Buffers
<1>3. CASE q = <<"ln_2.w", l>>
  <2>1. q[1] = "ln_2.w" /\ q[2] = l
    BY <1>3
  <2>2. E[G(q[1], q[2])] = B[G(q[1], q[2])] (+) Only(Gradient("ln_2.w", l, t))
    BY <2>1 DEF Changes2
  <2>3. Grads(q, TRUE, TRUE, FALSE, l, {"mlp.c_proj.w", "mlp.c_proj.b", "c_fc.w", "c_fc.b",
                  "ln_2.w", "ln_2.b"}, t) = Grads(q, TRUE, TRUE, FALSE, l,
                      {"mlp.c_proj.w", "mlp.c_proj.b", "c_fc.w", "c_fc.b"},
                          t) \cup {Gradient("ln_2.w", l, t)} /\ Gradient("ln_2.w", l,
                              t) \notin Grads(q, TRUE, TRUE, FALSE, l,
                                  {"mlp.c_proj.w", "mlp.c_proj.b", "c_fc.w", "c_fc.b"}, t)
    BY <2>1, GradientInj, Parameters DEF Grads, Layers
  <2> QED BY <1>1, <2>1, <2>2, <2>3 DEF Grew
<1>4. CASE q = <<"ln_2.b", l>>
  <2>1. q[1] = "ln_2.b" /\ q[2] = l
    BY <1>4
  <2>2. E[G(q[1], q[2])] = B[G(q[1], q[2])] (+) Only(Gradient("ln_2.b", l, t))
    BY <2>1 DEF Changes2
  <2>3. Grads(q, TRUE, TRUE, FALSE, l, {"mlp.c_proj.w", "mlp.c_proj.b", "c_fc.w", "c_fc.b",
                  "ln_2.w", "ln_2.b"}, t) = Grads(q, TRUE, TRUE, FALSE, l,
                      {"mlp.c_proj.w", "mlp.c_proj.b", "c_fc.w", "c_fc.b"},
                          t) \cup {Gradient("ln_2.b", l, t)} /\ Gradient("ln_2.b", l,
                              t) \notin Grads(q, TRUE, TRUE, FALSE, l,
                                  {"mlp.c_proj.w", "mlp.c_proj.b", "c_fc.w", "c_fc.b"}, t)
    BY <2>1, GradientInj, Parameters DEF Grads, Layers
  <2> QED BY <1>1, <2>1, <2>2, <2>3 DEF Grew
<1>5. CASE q # <<"ln_2.w", l>> /\ q # <<"ln_2.b", l>>
  <2>1. G(q[1], q[2]) \notin {G("ln_2.w", l), G("ln_2.b", l)}
    BY <1>2, <1>5, Tags DEF Tmp
  <2>2. Grads(q, TRUE, TRUE, FALSE, l, {"mlp.c_proj.w", "mlp.c_proj.b", "c_fc.w", "c_fc.b",
                  "ln_2.w", "ln_2.b"}, t) = Grads(q, TRUE, TRUE, FALSE, l,
                      {"mlp.c_proj.w", "mlp.c_proj.b", "c_fc.w", "c_fc.b"}, t)
    <3>1. CASE q[1] \in GlobalParams /\ q[2] = 0
      BY <1>2, <1>5, <3>1 DEF Grads, GlobalParams
    <3>2. CASE q[1] \in LayerParams /\ q[2] \in Layers
      BY <1>2, <1>5, <3>2, Parameters DEF Grads, LayerParams, Layers
    <3> QED BY <1>2, <3>1, <3>2
  <2> QED BY <1>1, <1>2, <2>1, <2>2 DEF Changes2, Grew
<1> QED BY <1>3, <1>4, <1>5

LEMMA Adds_projBack1 ==
    ASSUME NEW l \in Layers, NEW t \in Passes, NEW B, NEW E,
           Changes1(B, E, G("attn.c_proj.w", l),
                        B[G("attn.c_proj.w", l)] (+) Only(Gradient("attn.c_proj.w", l, t))),
           NEW q \in Params
    PROVE  Grew(B, E, q, PassGrads(q, Place("projBack", l, 0), 1, t),
                PassGrads(q, Place("projBack", l, 0), 2, t), t)
<1>1. /\ PassGrads(q, Place("projBack", l, 0), 1, t) = Grads(q, TRUE, TRUE, FALSE, l,
           {"mlp.c_proj.w", "mlp.c_proj.b", "c_fc.w", "c_fc.b", "ln_2.w", "ln_2.b"}, t)
      /\ PassGrads(q, Place("projBack", l, 0), 2, t) = Grads(q, TRUE, TRUE, FALSE, l,
           {"mlp.c_proj.w", "mlp.c_proj.b", "c_fc.w", "c_fc.b", "ln_2.w", "ln_2.b",
               "attn.c_proj.w"}, t)
  BY Grads_projBack1, Grads_projBack2
<1>2. /\ q = <<q[1], q[2]>> /\ G(q[1], q[2]) \in Buffers
      /\ (q[1] \in GlobalParams /\ q[2] = 0) \/ (q[1] \in LayerParams /\ q[2] \in Layers)
  BY ParamIs, BufferNames DEF Buffers
<1>3. CASE q = <<"attn.c_proj.w", l>>
  <2>1. q[1] = "attn.c_proj.w" /\ q[2] = l
    BY <1>3
  <2>2. E[G(q[1], q[2])] = B[G(q[1], q[2])] (+) Only(Gradient("attn.c_proj.w", l, t))
    BY <2>1 DEF Changes1
  <2>3. Grads(q, TRUE, TRUE, FALSE, l, {"mlp.c_proj.w", "mlp.c_proj.b", "c_fc.w", "c_fc.b",
                  "ln_2.w", "ln_2.b", "attn.c_proj.w"}, t) = Grads(q, TRUE, TRUE, FALSE, l,
                      {"mlp.c_proj.w", "mlp.c_proj.b", "c_fc.w", "c_fc.b", "ln_2.w", "ln_2.b"},
                          t) \cup {Gradient("attn.c_proj.w", l, t)}
                              /\ Gradient("attn.c_proj.w", l, t) \notin Grads(q, TRUE, TRUE,
                                   FALSE, l, {"mlp.c_proj.w", "mlp.c_proj.b", "c_fc.w",
                                       "c_fc.b", "ln_2.w", "ln_2.b"}, t)
    BY <2>1, GradientInj, Parameters DEF Grads, Layers
  <2> QED BY <1>1, <2>1, <2>2, <2>3 DEF Grew
<1>4. CASE q # <<"attn.c_proj.w", l>>
  <2>1. G(q[1], q[2]) \notin {G("attn.c_proj.w", l)}
    BY <1>2, <1>4, Tags DEF Tmp
  <2>2. Grads(q, TRUE, TRUE, FALSE, l, {"mlp.c_proj.w", "mlp.c_proj.b", "c_fc.w", "c_fc.b",
                  "ln_2.w", "ln_2.b", "attn.c_proj.w"}, t) = Grads(q, TRUE, TRUE, FALSE, l,
                      {"mlp.c_proj.w", "mlp.c_proj.b", "c_fc.w", "c_fc.b", "ln_2.w", "ln_2.b"},
                          t)
    <3>1. CASE q[1] \in GlobalParams /\ q[2] = 0
      BY <1>2, <1>4, <3>1 DEF Grads, GlobalParams
    <3>2. CASE q[1] \in LayerParams /\ q[2] \in Layers
      BY <1>2, <1>4, <3>2, Parameters DEF Grads, LayerParams, Layers
    <3> QED BY <1>2, <3>1, <3>2
  <2> QED BY <1>1, <1>2, <2>1, <2>2 DEF Changes1, Grew
<1> QED BY <1>3, <1>4

LEMMA Adds_projBack2 ==
    ASSUME NEW l \in Layers, NEW t \in Passes, NEW B, NEW E,
           Changes1(B, E, G("attn.c_proj.b", l),
                        B[G("attn.c_proj.b", l)] (+) Only(Gradient("attn.c_proj.b", l, t))),
           NEW q \in Params
    PROVE  Grew(B, E, q, PassGrads(q, Place("projBack", l, 0), 2, t),
                PassGrads(q, Place("projBack", l, 0), 3, t), t)
<1>1. /\ PassGrads(q, Place("projBack", l, 0), 2, t) = Grads(q, TRUE, TRUE, FALSE, l,
           {"mlp.c_proj.w", "mlp.c_proj.b", "c_fc.w", "c_fc.b", "ln_2.w", "ln_2.b",
               "attn.c_proj.w"}, t)
      /\ PassGrads(q, Place("projBack", l, 0), 3, t) = Grads(q, TRUE, TRUE, FALSE, l,
           {"mlp.c_proj.w", "mlp.c_proj.b", "c_fc.w", "c_fc.b", "ln_2.w", "ln_2.b",
               "attn.c_proj.w", "attn.c_proj.b"}, t)
  BY Grads_projBack2, Grads_projBack3
<1>2. /\ q = <<q[1], q[2]>> /\ G(q[1], q[2]) \in Buffers
      /\ (q[1] \in GlobalParams /\ q[2] = 0) \/ (q[1] \in LayerParams /\ q[2] \in Layers)
  BY ParamIs, BufferNames DEF Buffers
<1>3. CASE q = <<"attn.c_proj.b", l>>
  <2>1. q[1] = "attn.c_proj.b" /\ q[2] = l
    BY <1>3
  <2>2. E[G(q[1], q[2])] = B[G(q[1], q[2])] (+) Only(Gradient("attn.c_proj.b", l, t))
    BY <2>1 DEF Changes1
  <2>3. Grads(q, TRUE, TRUE, FALSE, l, {"mlp.c_proj.w", "mlp.c_proj.b", "c_fc.w", "c_fc.b",
                  "ln_2.w", "ln_2.b", "attn.c_proj.w", "attn.c_proj.b"}, t) = Grads(q, TRUE,
                      TRUE, FALSE, l, {"mlp.c_proj.w", "mlp.c_proj.b", "c_fc.w", "c_fc.b",
                          "ln_2.w", "ln_2.b", "attn.c_proj.w"},
                              t) \cup {Gradient("attn.c_proj.b", l, t)}
                                  /\ Gradient("attn.c_proj.b", l, t) \notin Grads(q, TRUE,
                                       TRUE, FALSE, l, {"mlp.c_proj.w", "mlp.c_proj.b",
                                           "c_fc.w", "c_fc.b", "ln_2.w", "ln_2.b",
                                               "attn.c_proj.w"}, t)
    BY <2>1, GradientInj, Parameters DEF Grads, Layers
  <2> QED BY <1>1, <2>1, <2>2, <2>3 DEF Grew
<1>4. CASE q # <<"attn.c_proj.b", l>>
  <2>1. G(q[1], q[2]) \notin {G("attn.c_proj.b", l)}
    BY <1>2, <1>4, Tags DEF Tmp
  <2>2. Grads(q, TRUE, TRUE, FALSE, l, {"mlp.c_proj.w", "mlp.c_proj.b", "c_fc.w", "c_fc.b",
                  "ln_2.w", "ln_2.b", "attn.c_proj.w", "attn.c_proj.b"}, t) = Grads(q, TRUE,
                      TRUE, FALSE, l, {"mlp.c_proj.w", "mlp.c_proj.b", "c_fc.w", "c_fc.b",
                          "ln_2.w", "ln_2.b", "attn.c_proj.w"}, t)
    <3>1. CASE q[1] \in GlobalParams /\ q[2] = 0
      BY <1>2, <1>4, <3>1 DEF Grads, GlobalParams
    <3>2. CASE q[1] \in LayerParams /\ q[2] \in Layers
      BY <1>2, <1>4, <3>2, Parameters DEF Grads, LayerParams, Layers
    <3> QED BY <1>2, <3>1, <3>2
  <2> QED BY <1>1, <1>2, <2>1, <2>2 DEF Changes1, Grew
<1> QED BY <1>3, <1>4

LEMMA Adds_projBack3 ==
    ASSUME NEW l \in Layers, NEW t \in Passes, NEW B, NEW E,
           Changes1(B, E, Tmp("lnf_y"), Tensor("d_attn_out", l, t)),
           NEW q \in Params
    PROVE  Grew(B, E, q, PassGrads(q, Place("projBack", l, 0), 3, t),
                PassGrads(q, Place("attnBack", l, 0), 1, t), t)
<1>1. 0 \in Heads
  BY Parameters DEF Heads
<1>2. /\ PassGrads(q, Place("projBack", l, 0), 3, t) = Grads(q, TRUE, TRUE, FALSE, l,
           {"mlp.c_proj.w", "mlp.c_proj.b", "c_fc.w", "c_fc.b", "ln_2.w", "ln_2.b",
               "attn.c_proj.w", "attn.c_proj.b"}, t)
      /\ PassGrads(q, Place("attnBack", l, 0), 1, t) = Grads(q, TRUE, TRUE, FALSE, l,
           {"mlp.c_proj.w", "mlp.c_proj.b", "c_fc.w", "c_fc.b", "ln_2.w", "ln_2.b",
               "attn.c_proj.w", "attn.c_proj.b"}, t)
  BY <1>1, Grads_projBack3, Grads_attnBack1
<1>3. /\ q = <<q[1], q[2]>> /\ G(q[1], q[2]) \in Buffers
      /\ (q[1] \in GlobalParams /\ q[2] = 0) \/ (q[1] \in LayerParams /\ q[2] \in Layers)
  BY ParamIs, BufferNames DEF Buffers
<1>4. G(q[1], q[2]) \notin {Tmp("lnf_y")}
  BY Tags DEF Tmp
<1> QED BY <1>2, <1>3, <1>4 DEF Changes1, Grew

LEMMA Adds_attnBack1 ==
    ASSUME NEW l \in Layers, NEW h \in Heads, NEW t \in Passes, NEW B, NEW E,
           Changes3(B, E, Tmp("d_qkv"), SetToBag(HeadGrads(l, h, 2, t)),
                Tmp("dP_tmp"), Only(Named("dP", l, h, t)),
                Tmp("dot_row"), Zero),
           NEW q \in Params
    PROVE  Grew(B, E, q, PassGrads(q, Place("attnBack", l, h), 1, t),
                PassGrads(q, Place("attnBack", l, h), 2, t), t)
<1>1. /\ PassGrads(q, Place("attnBack", l, h), 1, t) = Grads(q, TRUE, TRUE, FALSE, l,
           {"mlp.c_proj.w", "mlp.c_proj.b", "c_fc.w", "c_fc.b", "ln_2.w", "ln_2.b",
               "attn.c_proj.w", "attn.c_proj.b"}, t)
      /\ PassGrads(q, Place("attnBack", l, h), 2, t) = Grads(q, TRUE, TRUE, FALSE, l,
           {"mlp.c_proj.w", "mlp.c_proj.b", "c_fc.w", "c_fc.b", "ln_2.w", "ln_2.b",
               "attn.c_proj.w", "attn.c_proj.b"}, t)
  BY Grads_attnBack1, Grads_attnBack2
<1>2. /\ q = <<q[1], q[2]>> /\ G(q[1], q[2]) \in Buffers
      /\ (q[1] \in GlobalParams /\ q[2] = 0) \/ (q[1] \in LayerParams /\ q[2] \in Layers)
  BY ParamIs, BufferNames DEF Buffers
<1>3. G(q[1], q[2]) \notin {Tmp("d_qkv"), Tmp("dP_tmp"), Tmp("dot_row")}
  BY Tags DEF Tmp
<1> QED BY <1>1, <1>2, <1>3 DEF Changes3, Grew

LEMMA Adds_attnBack2 ==
    ASSUME NEW l \in Layers, NEW h \in Heads, NEW t \in Passes, NEW B, NEW E,
           Changes2(B, E, Tmp("d_qkv"), SetToBag(HeadGrads(l, h, 3, t)),
                Tmp("dot_row"), Only(Named("dot", l, h, t))),
           NEW q \in Params
    PROVE  Grew(B, E, q, PassGrads(q, Place("attnBack", l, h), 2, t),
                PassGrads(q, Place("attnBack", l, h), 3, t), t)
<1>1. /\ PassGrads(q, Place("attnBack", l, h), 2, t) = Grads(q, TRUE, TRUE, FALSE, l,
           {"mlp.c_proj.w", "mlp.c_proj.b", "c_fc.w", "c_fc.b", "ln_2.w", "ln_2.b",
               "attn.c_proj.w", "attn.c_proj.b"}, t)
      /\ PassGrads(q, Place("attnBack", l, h), 3, t) = Grads(q, TRUE, TRUE, FALSE, l,
           {"mlp.c_proj.w", "mlp.c_proj.b", "c_fc.w", "c_fc.b", "ln_2.w", "ln_2.b",
               "attn.c_proj.w", "attn.c_proj.b"}, t)
  BY Grads_attnBack2, Grads_attnBack3
<1>2. /\ q = <<q[1], q[2]>> /\ G(q[1], q[2]) \in Buffers
      /\ (q[1] \in GlobalParams /\ q[2] = 0) \/ (q[1] \in LayerParams /\ q[2] \in Layers)
  BY ParamIs, BufferNames DEF Buffers
<1>3. G(q[1], q[2]) \notin {Tmp("d_qkv"), Tmp("dot_row")}
  BY Tags DEF Tmp
<1> QED BY <1>1, <1>2, <1>3 DEF Changes2, Grew

LEMMA Adds_attnBack3a ==
    ASSUME NEW l \in Layers, NEW h \in Heads, NEW t \in Passes, NEW B, NEW E,
           Changes1(B, E, Tmp("d_qkv"), SetToBag(HeadGrads(l, h + 1, 1, t))),
           h + 1 < NHead, NEW q \in Params
    PROVE  Grew(B, E, q, PassGrads(q, Place("attnBack", l, h), 3, t),
                PassGrads(q, Place("attnBack", l, h + 1), 1, t), t)
<1>1. h + 1 \in Heads
  BY Parameters DEF Heads
<1>2. /\ PassGrads(q, Place("attnBack", l, h), 3, t) = Grads(q, TRUE, TRUE, FALSE, l,
           {"mlp.c_proj.w", "mlp.c_proj.b", "c_fc.w", "c_fc.b", "ln_2.w", "ln_2.b",
               "attn.c_proj.w", "attn.c_proj.b"}, t)
      /\ PassGrads(q, Place("attnBack", l, h + 1), 1, t) = Grads(q, TRUE, TRUE, FALSE, l,
           {"mlp.c_proj.w", "mlp.c_proj.b", "c_fc.w", "c_fc.b", "ln_2.w", "ln_2.b",
               "attn.c_proj.w", "attn.c_proj.b"}, t)
  BY <1>1, Grads_attnBack3, Grads_attnBack1
<1>3. /\ q = <<q[1], q[2]>> /\ G(q[1], q[2]) \in Buffers
      /\ (q[1] \in GlobalParams /\ q[2] = 0) \/ (q[1] \in LayerParams /\ q[2] \in Layers)
  BY ParamIs, BufferNames DEF Buffers
<1>4. G(q[1], q[2]) \notin {Tmp("d_qkv")}
  BY Tags DEF Tmp
<1> QED BY <1>2, <1>3, <1>4 DEF Changes1, Grew

LEMMA Adds_attnBack3b ==
    ASSUME NEW l \in Layers, NEW h \in Heads, NEW t \in Passes, NEW B, NEW E,
           Changes1(B, E, Tmp("d_qkv"), SetToBag(HeadGrads(l, h + 1, 1, t))),
           ~(h + 1 < NHead), NEW q \in Params
    PROVE  Grew(B, E, q, PassGrads(q, Place("attnBack", l, h), 3, t),
                PassGrads(q, Place("qkvBack", l, 0), 1, t), t)
<1>1. /\ PassGrads(q, Place("attnBack", l, h), 3, t) = Grads(q, TRUE, TRUE, FALSE, l,
           {"mlp.c_proj.w", "mlp.c_proj.b", "c_fc.w", "c_fc.b", "ln_2.w", "ln_2.b",
               "attn.c_proj.w", "attn.c_proj.b"}, t)
      /\ PassGrads(q, Place("qkvBack", l, 0), 1, t) = Grads(q, TRUE, TRUE, FALSE, l,
           {"mlp.c_proj.w", "mlp.c_proj.b", "c_fc.w", "c_fc.b", "ln_2.w", "ln_2.b",
               "attn.c_proj.w", "attn.c_proj.b"}, t)
  BY Grads_attnBack3, Grads_qkvBack1
<1>2. /\ q = <<q[1], q[2]>> /\ G(q[1], q[2]) \in Buffers
      /\ (q[1] \in GlobalParams /\ q[2] = 0) \/ (q[1] \in LayerParams /\ q[2] \in Layers)
  BY ParamIs, BufferNames DEF Buffers
<1>3. G(q[1], q[2]) \notin {Tmp("d_qkv")}
  BY Tags DEF Tmp
<1> QED BY <1>1, <1>2, <1>3 DEF Changes1, Grew

LEMMA Adds_qkvBack1 ==
    ASSUME NEW l \in Layers, NEW t \in Passes, NEW B, NEW E,
           Changes1(B, E, G("c_attn.w", l),
                        B[G("c_attn.w", l)] (+) Only(Gradient("c_attn.w", l, t))),
           NEW q \in Params
    PROVE  Grew(B, E, q, PassGrads(q, Place("qkvBack", l, 0), 1, t),
                PassGrads(q, Place("qkvBack", l, 0), 2, t), t)
<1>1. /\ PassGrads(q, Place("qkvBack", l, 0), 1, t) = Grads(q, TRUE, TRUE, FALSE, l,
           {"mlp.c_proj.w", "mlp.c_proj.b", "c_fc.w", "c_fc.b", "ln_2.w", "ln_2.b",
               "attn.c_proj.w", "attn.c_proj.b"}, t)
      /\ PassGrads(q, Place("qkvBack", l, 0), 2, t) = Grads(q, TRUE, TRUE, FALSE, l,
           {"mlp.c_proj.w", "mlp.c_proj.b", "c_fc.w", "c_fc.b", "ln_2.w", "ln_2.b",
               "attn.c_proj.w", "attn.c_proj.b", "c_attn.w"}, t)
  BY Grads_qkvBack1, Grads_qkvBack2
<1>2. /\ q = <<q[1], q[2]>> /\ G(q[1], q[2]) \in Buffers
      /\ (q[1] \in GlobalParams /\ q[2] = 0) \/ (q[1] \in LayerParams /\ q[2] \in Layers)
  BY ParamIs, BufferNames DEF Buffers
<1>3. CASE q = <<"c_attn.w", l>>
  <2>1. q[1] = "c_attn.w" /\ q[2] = l
    BY <1>3
  <2>2. E[G(q[1], q[2])] = B[G(q[1], q[2])] (+) Only(Gradient("c_attn.w", l, t))
    BY <2>1 DEF Changes1
  <2>3. Grads(q, TRUE, TRUE, FALSE, l, {"mlp.c_proj.w", "mlp.c_proj.b", "c_fc.w", "c_fc.b",
                  "ln_2.w", "ln_2.b", "attn.c_proj.w", "attn.c_proj.b", "c_attn.w"}, t)
                      = Grads(q, TRUE, TRUE, FALSE, l, {"mlp.c_proj.w", "mlp.c_proj.b",
                          "c_fc.w", "c_fc.b", "ln_2.w", "ln_2.b", "attn.c_proj.w",
                              "attn.c_proj.b"}, t) \cup {Gradient("c_attn.w", l, t)}
                                  /\ Gradient("c_attn.w", l, t) \notin Grads(q, TRUE, TRUE,
                                       FALSE, l, {"mlp.c_proj.w", "mlp.c_proj.b", "c_fc.w",
                                           "c_fc.b", "ln_2.w", "ln_2.b", "attn.c_proj.w",
                                               "attn.c_proj.b"}, t)
    BY <2>1, GradientInj, Parameters DEF Grads, Layers
  <2> QED BY <1>1, <2>1, <2>2, <2>3 DEF Grew
<1>4. CASE q # <<"c_attn.w", l>>
  <2>1. G(q[1], q[2]) \notin {G("c_attn.w", l)}
    BY <1>2, <1>4, Tags DEF Tmp
  <2>2. Grads(q, TRUE, TRUE, FALSE, l, {"mlp.c_proj.w", "mlp.c_proj.b", "c_fc.w", "c_fc.b",
                  "ln_2.w", "ln_2.b", "attn.c_proj.w", "attn.c_proj.b", "c_attn.w"}, t)
                      = Grads(q, TRUE, TRUE, FALSE, l, {"mlp.c_proj.w", "mlp.c_proj.b",
                          "c_fc.w", "c_fc.b", "ln_2.w", "ln_2.b", "attn.c_proj.w",
                              "attn.c_proj.b"}, t)
    <3>1. CASE q[1] \in GlobalParams /\ q[2] = 0
      BY <1>2, <1>4, <3>1 DEF Grads, GlobalParams
    <3>2. CASE q[1] \in LayerParams /\ q[2] \in Layers
      BY <1>2, <1>4, <3>2, Parameters DEF Grads, LayerParams, Layers
    <3> QED BY <1>2, <3>1, <3>2
  <2> QED BY <1>1, <1>2, <2>1, <2>2 DEF Changes1, Grew
<1> QED BY <1>3, <1>4

LEMMA Adds_qkvBack2 ==
    ASSUME NEW l \in Layers, NEW t \in Passes, NEW B, NEW E,
           Changes1(B, E, G("c_attn.b", l),
                        B[G("c_attn.b", l)] (+) Only(Gradient("c_attn.b", l, t))),
           NEW q \in Params
    PROVE  Grew(B, E, q, PassGrads(q, Place("qkvBack", l, 0), 2, t),
                PassGrads(q, Place("qkvBack", l, 0), 3, t), t)
<1>1. /\ PassGrads(q, Place("qkvBack", l, 0), 2, t) = Grads(q, TRUE, TRUE, FALSE, l,
           {"mlp.c_proj.w", "mlp.c_proj.b", "c_fc.w", "c_fc.b", "ln_2.w", "ln_2.b",
               "attn.c_proj.w", "attn.c_proj.b", "c_attn.w"}, t)
      /\ PassGrads(q, Place("qkvBack", l, 0), 3, t) = Grads(q, TRUE, TRUE, FALSE, l,
           {"mlp.c_proj.w", "mlp.c_proj.b", "c_fc.w", "c_fc.b", "ln_2.w", "ln_2.b",
               "attn.c_proj.w", "attn.c_proj.b", "c_attn.w", "c_attn.b"}, t)
  BY Grads_qkvBack2, Grads_qkvBack3
<1>2. /\ q = <<q[1], q[2]>> /\ G(q[1], q[2]) \in Buffers
      /\ (q[1] \in GlobalParams /\ q[2] = 0) \/ (q[1] \in LayerParams /\ q[2] \in Layers)
  BY ParamIs, BufferNames DEF Buffers
<1>3. CASE q = <<"c_attn.b", l>>
  <2>1. q[1] = "c_attn.b" /\ q[2] = l
    BY <1>3
  <2>2. E[G(q[1], q[2])] = B[G(q[1], q[2])] (+) Only(Gradient("c_attn.b", l, t))
    BY <2>1 DEF Changes1
  <2>3. Grads(q, TRUE, TRUE, FALSE, l, {"mlp.c_proj.w", "mlp.c_proj.b", "c_fc.w", "c_fc.b",
                  "ln_2.w", "ln_2.b", "attn.c_proj.w", "attn.c_proj.b", "c_attn.w",
                      "c_attn.b"}, t) = Grads(q, TRUE, TRUE, FALSE, l,
                          {"mlp.c_proj.w", "mlp.c_proj.b", "c_fc.w", "c_fc.b", "ln_2.w",
                              "ln_2.b", "attn.c_proj.w", "attn.c_proj.b", "c_attn.w"},
                                  t) \cup {Gradient("c_attn.b", l, t)} /\ Gradient("c_attn.b",
                                      l, t) \notin Grads(q, TRUE, TRUE, FALSE, l,
                                          {"mlp.c_proj.w", "mlp.c_proj.b", "c_fc.w", "c_fc.b",
                                              "ln_2.w", "ln_2.b", "attn.c_proj.w",
                                                  "attn.c_proj.b", "c_attn.w"}, t)
    BY <2>1, GradientInj, Parameters DEF Grads, Layers
  <2> QED BY <1>1, <2>1, <2>2, <2>3 DEF Grew
<1>4. CASE q # <<"c_attn.b", l>>
  <2>1. G(q[1], q[2]) \notin {G("c_attn.b", l)}
    BY <1>2, <1>4, Tags DEF Tmp
  <2>2. Grads(q, TRUE, TRUE, FALSE, l, {"mlp.c_proj.w", "mlp.c_proj.b", "c_fc.w", "c_fc.b",
                  "ln_2.w", "ln_2.b", "attn.c_proj.w", "attn.c_proj.b", "c_attn.w",
                      "c_attn.b"}, t) = Grads(q, TRUE, TRUE, FALSE, l,
                          {"mlp.c_proj.w", "mlp.c_proj.b", "c_fc.w", "c_fc.b", "ln_2.w",
                              "ln_2.b", "attn.c_proj.w", "attn.c_proj.b", "c_attn.w"}, t)
    <3>1. CASE q[1] \in GlobalParams /\ q[2] = 0
      BY <1>2, <1>4, <3>1 DEF Grads, GlobalParams
    <3>2. CASE q[1] \in LayerParams /\ q[2] \in Layers
      BY <1>2, <1>4, <3>2, Parameters DEF Grads, LayerParams, Layers
    <3> QED BY <1>2, <3>1, <3>2
  <2> QED BY <1>1, <1>2, <2>1, <2>2 DEF Changes1, Grew
<1> QED BY <1>3, <1>4

LEMMA Adds_qkvBack3 ==
    ASSUME NEW l \in Layers, NEW t \in Passes, NEW B, NEW E,
           Changes1(B, E, Tmp("lnf_y"), Tensor("d_ln1_y", l, t)),
           NEW q \in Params
    PROVE  Grew(B, E, q, PassGrads(q, Place("qkvBack", l, 0), 3, t),
                PassGrads(q, Place("qkvBack", l, 0), 4, t), t)
<1>1. /\ PassGrads(q, Place("qkvBack", l, 0), 3, t) = Grads(q, TRUE, TRUE, FALSE, l,
           {"mlp.c_proj.w", "mlp.c_proj.b", "c_fc.w", "c_fc.b", "ln_2.w", "ln_2.b",
               "attn.c_proj.w", "attn.c_proj.b", "c_attn.w", "c_attn.b"}, t)
      /\ PassGrads(q, Place("qkvBack", l, 0), 4, t) = Grads(q, TRUE, TRUE, FALSE, l,
           {"mlp.c_proj.w", "mlp.c_proj.b", "c_fc.w", "c_fc.b", "ln_2.w", "ln_2.b",
               "attn.c_proj.w", "attn.c_proj.b", "c_attn.w", "c_attn.b"}, t)
  BY Grads_qkvBack3, Grads_qkvBack4
<1>2. /\ q = <<q[1], q[2]>> /\ G(q[1], q[2]) \in Buffers
      /\ (q[1] \in GlobalParams /\ q[2] = 0) \/ (q[1] \in LayerParams /\ q[2] \in Layers)
  BY ParamIs, BufferNames DEF Buffers
<1>3. G(q[1], q[2]) \notin {Tmp("lnf_y")}
  BY Tags DEF Tmp
<1> QED BY <1>1, <1>2, <1>3 DEF Changes1, Grew

LEMMA Adds_qkvBack4 ==
    ASSUME NEW l \in Layers, NEW t \in Passes, NEW B, NEW E,
           Changes1(B, E, Tmp("dh"), DH(l, t)),
           NEW q \in Params
    PROVE  Grew(B, E, q, PassGrads(q, Place("qkvBack", l, 0), 4, t),
                PassGrads(q, Place("qkvBack", l, 0), 5, t), t)
<1>1. /\ PassGrads(q, Place("qkvBack", l, 0), 4, t) = Grads(q, TRUE, TRUE, FALSE, l,
           {"mlp.c_proj.w", "mlp.c_proj.b", "c_fc.w", "c_fc.b", "ln_2.w", "ln_2.b",
               "attn.c_proj.w", "attn.c_proj.b", "c_attn.w", "c_attn.b"}, t)
      /\ PassGrads(q, Place("qkvBack", l, 0), 5, t) = Grads(q, TRUE, TRUE, FALSE, l,
           {"mlp.c_proj.w", "mlp.c_proj.b", "c_fc.w", "c_fc.b", "ln_2.w", "ln_2.b",
               "attn.c_proj.w", "attn.c_proj.b", "c_attn.w", "c_attn.b"}, t)
  BY Grads_qkvBack4, Grads_qkvBack5
<1>2. /\ q = <<q[1], q[2]>> /\ G(q[1], q[2]) \in Buffers
      /\ (q[1] \in GlobalParams /\ q[2] = 0) \/ (q[1] \in LayerParams /\ q[2] \in Layers)
  BY ParamIs, BufferNames DEF Buffers
<1>3. G(q[1], q[2]) \notin {Tmp("dh")}
  BY Tags DEF Tmp
<1> QED BY <1>1, <1>2, <1>3 DEF Changes1, Grew

LEMMA Adds_qkvBack5a ==
    ASSUME NEW l \in Layers, NEW t \in Passes, NEW B, NEW E,
           Changes2(B, E, G("ln_1.w", l), B[G("ln_1.w", l)] (+) Only(Gradient("ln_1.w", l, t)),
                G("ln_1.b", l), B[G("ln_1.b", l)] (+) Only(Gradient("ln_1.b", l, t))),
           l > 0, NEW q \in Params
    PROVE  Grew(B, E, q, PassGrads(q, Place("qkvBack", l, 0), 5, t),
                PassGrads(q, Place("mlpBack", l - 1, 0), 1, t), t)
<1>1. l - 1 \in Layers
  BY Parameters DEF Layers
<1>2. /\ PassGrads(q, Place("qkvBack", l, 0), 5, t) = Grads(q, TRUE, TRUE, FALSE, l,
           {"mlp.c_proj.w", "mlp.c_proj.b", "c_fc.w", "c_fc.b", "ln_2.w", "ln_2.b",
               "attn.c_proj.w", "attn.c_proj.b", "c_attn.w", "c_attn.b"}, t)
      /\ PassGrads(q, Place("mlpBack", l - 1, 0), 1, t) = Grads(q, TRUE, TRUE, FALSE, l - 1,
           {}, t)
  BY <1>1, Grads_qkvBack5, Grads_mlpBack1
<1>3. /\ q = <<q[1], q[2]>> /\ G(q[1], q[2]) \in Buffers
      /\ (q[1] \in GlobalParams /\ q[2] = 0) \/ (q[1] \in LayerParams /\ q[2] \in Layers)
  BY ParamIs, BufferNames DEF Buffers
<1>4. CASE q = <<"ln_1.w", l>>
  <2>1. q[1] = "ln_1.w" /\ q[2] = l
    BY <1>4
  <2>2. E[G(q[1], q[2])] = B[G(q[1], q[2])] (+) Only(Gradient("ln_1.w", l, t))
    BY <2>1 DEF Changes2
  <2>3. Grads(q, TRUE, TRUE, FALSE, l - 1, {}, t) = Grads(q, TRUE, TRUE, FALSE, l,
                  {"mlp.c_proj.w", "mlp.c_proj.b", "c_fc.w", "c_fc.b", "ln_2.w", "ln_2.b",
                      "attn.c_proj.w", "attn.c_proj.b", "c_attn.w", "c_attn.b"},
                          t) \cup {Gradient("ln_1.w", l, t)} /\ Gradient("ln_1.w", l,
                              t) \notin Grads(q, TRUE, TRUE, FALSE, l,
                                  {"mlp.c_proj.w", "mlp.c_proj.b", "c_fc.w", "c_fc.b",
                                      "ln_2.w", "ln_2.b", "attn.c_proj.w", "attn.c_proj.b",
                                          "c_attn.w", "c_attn.b"}, t)
    BY <2>1, GradientInj, Parameters DEF Grads, Layers
  <2> QED BY <1>2, <2>1, <2>2, <2>3 DEF Grew
<1>5. CASE q = <<"ln_1.b", l>>
  <2>1. q[1] = "ln_1.b" /\ q[2] = l
    BY <1>5
  <2>2. E[G(q[1], q[2])] = B[G(q[1], q[2])] (+) Only(Gradient("ln_1.b", l, t))
    BY <2>1 DEF Changes2
  <2>3. Grads(q, TRUE, TRUE, FALSE, l - 1, {}, t) = Grads(q, TRUE, TRUE, FALSE, l,
                  {"mlp.c_proj.w", "mlp.c_proj.b", "c_fc.w", "c_fc.b", "ln_2.w", "ln_2.b",
                      "attn.c_proj.w", "attn.c_proj.b", "c_attn.w", "c_attn.b"},
                          t) \cup {Gradient("ln_1.b", l, t)} /\ Gradient("ln_1.b", l,
                              t) \notin Grads(q, TRUE, TRUE, FALSE, l,
                                  {"mlp.c_proj.w", "mlp.c_proj.b", "c_fc.w", "c_fc.b",
                                      "ln_2.w", "ln_2.b", "attn.c_proj.w", "attn.c_proj.b",
                                          "c_attn.w", "c_attn.b"}, t)
    BY <2>1, GradientInj, Parameters DEF Grads, Layers
  <2> QED BY <1>2, <2>1, <2>2, <2>3 DEF Grew
<1>6. CASE q # <<"ln_1.w", l>> /\ q # <<"ln_1.b", l>>
  <2>1. G(q[1], q[2]) \notin {G("ln_1.w", l), G("ln_1.b", l)}
    BY <1>3, <1>6, Tags DEF Tmp
  <2>2. Grads(q, TRUE, TRUE, FALSE, l - 1, {}, t) = Grads(q, TRUE, TRUE, FALSE, l,
                  {"mlp.c_proj.w", "mlp.c_proj.b", "c_fc.w", "c_fc.b", "ln_2.w", "ln_2.b",
                      "attn.c_proj.w", "attn.c_proj.b", "c_attn.w", "c_attn.b"}, t)
    <3>1. CASE q[1] \in GlobalParams /\ q[2] = 0
      BY <1>3, <1>6, <3>1 DEF Grads, GlobalParams
    <3>2. CASE q[1] \in LayerParams /\ q[2] \in Layers
      BY <1>3, <1>6, <3>2, Parameters DEF Grads, LayerParams, Layers
    <3> QED BY <1>3, <3>1, <3>2
  <2> QED BY <1>2, <1>3, <2>1, <2>2 DEF Changes2, Grew
<1> QED BY <1>4, <1>5, <1>6

LEMMA Adds_qkvBack5b ==
    ASSUME NEW l \in Layers, NEW t \in Passes, NEW B, NEW E,
           Changes2(B, E, G("ln_1.w", l), B[G("ln_1.w", l)] (+) Only(Gradient("ln_1.w", l, t)),
                G("ln_1.b", l), B[G("ln_1.b", l)] (+) Only(Gradient("ln_1.b", l, t))),
           ~(l > 0), NEW q \in Params
    PROVE  Grew(B, E, q, PassGrads(q, Place("qkvBack", l, 0), 5, t),
                PassGrads(q, Place("embedBack", 0, 0), 1, t), t)
<1>1. /\ PassGrads(q, Place("qkvBack", l, 0), 5, t) = Grads(q, TRUE, TRUE, FALSE, l,
           {"mlp.c_proj.w", "mlp.c_proj.b", "c_fc.w", "c_fc.b", "ln_2.w", "ln_2.b",
               "attn.c_proj.w", "attn.c_proj.b", "c_attn.w", "c_attn.b"}, t)
      /\ PassGrads(q, Place("embedBack", 0, 0), 1, t) = Grads(q, TRUE, TRUE, FALSE, -1, {}, t)
  BY Grads_qkvBack5, Grads_embedBack1
<1>2. /\ q = <<q[1], q[2]>> /\ G(q[1], q[2]) \in Buffers
      /\ (q[1] \in GlobalParams /\ q[2] = 0) \/ (q[1] \in LayerParams /\ q[2] \in Layers)
  BY ParamIs, BufferNames DEF Buffers
<1>3. CASE q = <<"ln_1.w", l>>
  <2>1. q[1] = "ln_1.w" /\ q[2] = l
    BY <1>3
  <2>2. E[G(q[1], q[2])] = B[G(q[1], q[2])] (+) Only(Gradient("ln_1.w", l, t))
    BY <2>1 DEF Changes2
  <2>3. Grads(q, TRUE, TRUE, FALSE, -1, {}, t) = Grads(q, TRUE, TRUE, FALSE, l,
                  {"mlp.c_proj.w", "mlp.c_proj.b", "c_fc.w", "c_fc.b", "ln_2.w", "ln_2.b",
                      "attn.c_proj.w", "attn.c_proj.b", "c_attn.w", "c_attn.b"},
                          t) \cup {Gradient("ln_1.w", l, t)} /\ Gradient("ln_1.w", l,
                              t) \notin Grads(q, TRUE, TRUE, FALSE, l,
                                  {"mlp.c_proj.w", "mlp.c_proj.b", "c_fc.w", "c_fc.b",
                                      "ln_2.w", "ln_2.b", "attn.c_proj.w", "attn.c_proj.b",
                                          "c_attn.w", "c_attn.b"}, t)
    BY <2>1, GradientInj, Parameters DEF Grads, Layers
  <2> QED BY <1>1, <2>1, <2>2, <2>3 DEF Grew
<1>4. CASE q = <<"ln_1.b", l>>
  <2>1. q[1] = "ln_1.b" /\ q[2] = l
    BY <1>4
  <2>2. E[G(q[1], q[2])] = B[G(q[1], q[2])] (+) Only(Gradient("ln_1.b", l, t))
    BY <2>1 DEF Changes2
  <2>3. Grads(q, TRUE, TRUE, FALSE, -1, {}, t) = Grads(q, TRUE, TRUE, FALSE, l,
                  {"mlp.c_proj.w", "mlp.c_proj.b", "c_fc.w", "c_fc.b", "ln_2.w", "ln_2.b",
                      "attn.c_proj.w", "attn.c_proj.b", "c_attn.w", "c_attn.b"},
                          t) \cup {Gradient("ln_1.b", l, t)} /\ Gradient("ln_1.b", l,
                              t) \notin Grads(q, TRUE, TRUE, FALSE, l,
                                  {"mlp.c_proj.w", "mlp.c_proj.b", "c_fc.w", "c_fc.b",
                                      "ln_2.w", "ln_2.b", "attn.c_proj.w", "attn.c_proj.b",
                                          "c_attn.w", "c_attn.b"}, t)
    BY <2>1, GradientInj, Parameters DEF Grads, Layers
  <2> QED BY <1>1, <2>1, <2>2, <2>3 DEF Grew
<1>5. CASE q # <<"ln_1.w", l>> /\ q # <<"ln_1.b", l>>
  <2>1. G(q[1], q[2]) \notin {G("ln_1.w", l), G("ln_1.b", l)}
    BY <1>2, <1>5, Tags DEF Tmp
  <2>2. Grads(q, TRUE, TRUE, FALSE, -1, {}, t) = Grads(q, TRUE, TRUE, FALSE, l,
                  {"mlp.c_proj.w", "mlp.c_proj.b", "c_fc.w", "c_fc.b", "ln_2.w", "ln_2.b",
                      "attn.c_proj.w", "attn.c_proj.b", "c_attn.w", "c_attn.b"}, t)
    <3>1. CASE q[1] \in GlobalParams /\ q[2] = 0
      BY <1>2, <1>5, <3>1 DEF Grads, GlobalParams
    <3>2. CASE q[1] \in LayerParams /\ q[2] \in Layers
      BY <1>2, <1>5, <3>2, Parameters DEF Grads, LayerParams, Layers
    <3> QED BY <1>2, <3>1, <3>2
  <2> QED BY <1>1, <1>2, <2>1, <2>2 DEF Changes2, Grew
<1> QED BY <1>3, <1>4, <1>5

LEMMA Adds_embedBack1 ==
    ASSUME NEW t \in Passes, NEW B, NEW E,
           Changes2(B, E, G("wte", 0), B[G("wte", 0)] (+) Only(Gradient("wte:embed", 0, t)),
                G("wpe", 0), B[G("wpe", 0)] (+) Only(Gradient("wpe", 0, t))),
           NEW q \in Params
    PROVE  Grew(B, E, q, PassGrads(q, Place("embedBack", 0, 0), 1, t),
                PassGrads(q, Place("end", 0, 0), 1, t), t)
<1>1. /\ PassGrads(q, Place("embedBack", 0, 0), 1, t) = Grads(q, TRUE, TRUE, FALSE, -1, {}, t)
      /\ PassGrads(q, Place("end", 0, 0), 1, t) = Grads(q, TRUE, TRUE, TRUE, -1, {}, t)
  BY Grads_embedBack1, Grads_end1
<1>2. /\ q = <<q[1], q[2]>> /\ G(q[1], q[2]) \in Buffers
      /\ (q[1] \in GlobalParams /\ q[2] = 0) \/ (q[1] \in LayerParams /\ q[2] \in Layers)
  BY ParamIs, BufferNames DEF Buffers
<1>3. CASE q = <<"wte", 0>>
  <2>1. q[1] = "wte" /\ q[2] = 0
    BY <1>3
  <2>2. E[G(q[1], q[2])] = B[G(q[1], q[2])] (+) Only(Gradient("wte:embed", 0, t))
    BY <2>1 DEF Changes2
  <2>3. Grads(q, TRUE, TRUE, TRUE, -1, {}, t) = Grads(q, TRUE, TRUE, FALSE, -1, {},
                  t) \cup {Gradient("wte:embed", 0, t)} /\ Gradient("wte:embed", 0,
                      t) \notin Grads(q, TRUE, TRUE, FALSE, -1, {}, t)
    BY <2>1, GradientInj, Parameters DEF Grads, Layers
  <2> QED BY <1>1, <2>1, <2>2, <2>3 DEF Grew
<1>4. CASE q = <<"wpe", 0>>
  <2>1. q[1] = "wpe" /\ q[2] = 0
    BY <1>4
  <2>2. E[G(q[1], q[2])] = B[G(q[1], q[2])] (+) Only(Gradient("wpe", 0, t))
    BY <2>1 DEF Changes2
  <2>3. Grads(q, TRUE, TRUE, TRUE, -1, {}, t) = Grads(q, TRUE, TRUE, FALSE, -1, {},
                  t) \cup {Gradient("wpe", 0, t)} /\ Gradient("wpe", 0, t) \notin Grads(q,
                      TRUE, TRUE, FALSE, -1, {}, t)
    BY <2>1, GradientInj, Parameters DEF Grads, Layers
  <2> QED BY <1>1, <2>1, <2>2, <2>3 DEF Grew
<1>5. CASE q # <<"wte", 0>> /\ q # <<"wpe", 0>>
  <2>1. G(q[1], q[2]) \notin {G("wte", 0), G("wpe", 0)}
    BY <1>2, <1>5, Tags DEF Tmp
  <2>2. Grads(q, TRUE, TRUE, TRUE, -1, {}, t) = Grads(q, TRUE, TRUE, FALSE, -1, {}, t)
    <3>1. CASE q[1] \in GlobalParams /\ q[2] = 0
      BY <1>2, <1>5, <3>1 DEF Grads, GlobalParams
    <3>2. CASE q[1] \in LayerParams /\ q[2] \in Layers
      BY <1>2, <1>5, <3>2, Parameters DEF Grads, LayerParams, Layers
    <3> QED BY <1>2, <3>1, <3>2
  <2> QED BY <1>1, <1>2, <2>1, <2>2 DEF Changes2, Grew
<1> QED BY <1>3, <1>4, <1>5

-----------------------------------------------------------------------------
(* A dispatch keeps the pass                                                 *)

\* The dispatch after the dispatch k of p.
NextPlace(p, k) == IF k < Len(Ops(p)) THEN p ELSE After(p)
NextOp(p, k) == IF k < Len(Ops(p)) THEN k + 1 ELSE 1

\* Within a part the place stays; after its last dispatch it moves on.
LEMMA NextWithin ==
    ASSUME NEW p, NEW k, NEW n, n = Len(Ops(p)), k < n
    PROVE  NextPlace(p, k) = p /\ NextOp(p, k) = k + 1
BY Zenon DEF NextPlace, NextOp

LEMMA NextBeyond ==
    ASSUME NEW p, NEW k, NEW n, n = Len(Ops(p)), ~(k < n)
    PROVE  NextPlace(p, k) = After(p) /\ NextOp(p, k) = 1
BY Zenon DEF NextPlace, NextOp

\* Which place follows which.
LEMMA AfterIs ==
    /\ After(Place("embed", 0, 0)) = Place("attnForward", 0, 0)
    /\ After(Place("head", 0, 0)) = Place("headBack", 0, 0)
    /\ After(Place("headBack", 0, 0)) = Place("mlpBack", NLayer - 1, 0)
    /\ After(Place("embedBack", 0, 0)) = Place("end", 0, 0)
    /\ \A l :
          /\ After(Place("attnForward", l, 0)) = Place("mlpForward", l, 0)
          /\ After(Place("mlpForward", l, 0)) =
                (IF l + 1 < NLayer THEN Place("attnForward", l + 1, 0) ELSE Place("head", 0, 0))
          /\ After(Place("mlpBack", l, 0)) = Place("projBack", l, 0)
          /\ After(Place("projBack", l, 0)) = Place("attnBack", l, 0)
          /\ After(Place("qkvBack", l, 0)) =
                (IF l > 0 THEN Place("mlpBack", l - 1, 0) ELSE Place("embedBack", 0, 0))
    /\ \A l, h : After(Place("attnBack", l, h)) =
                (IF h + 1 < NHead THEN Place("attnBack", l, h + 1) ELSE Place("qkvBack", l, 0))
BY PlaceIs DEF After, End

\* From B, with the dispatch k of p next, to E: the pass is held, and each
\* gradient is left alone or has grown by one new term.
Keeps(B, E, p, k, t) ==
    /\ PassHeld(E, NextPlace(p, k), NextOp(p, k), t)
    /\ \A q \in Params :
          Grew(B, E, q, PassGrads(q, p, k, t), PassGrads(q, NextPlace(p, k), NextOp(p, k), t),
                   t)

\* The dispatch after each dispatch of a part.
LEMMA NextOf_embed ==
    /\ NextPlace(Place("embed", 0, 0), 1) = Place("attnForward", 0, 0)
    /\ NextOp(Place("embed", 0, 0), 1) = 1
<1>1. PICK n : n = Len(Ops(Place("embed", 0, 0)))
  OBVIOUS
<1>2. n = 1
  BY <1>1, FitsOf_embed
<1>3. ~(1 < n)
  BY <1>2
<1>4. NextPlace(Place("embed", 0, 0), 1) = After(Place("embed", 0, 0))
                  /\ NextOp(Place("embed", 0, 0), 1) = 1
  BY <1>1, <1>3, NextBeyond, Zenon
<1> QED BY <1>4, AfterIs

\* One lemma per dispatch: the two results above, together.
LEMMA Keeps_embed1 ==
    ASSUME NEW t \in Passes, NEW B, WeightsHeld(B, StepOf(t)),
           PassHeld(B, Place("embed", 0, 0), 1, t)
    PROVE  Keeps(B, Effect(B, Ops(Place("embed", 0, 0))[1], Tokens(t)), Place("embed", 0, 0),
                     1, t)
<1> PICK E : E = Effect(B, Ops(Place("embed", 0, 0))[1], Tokens(t))
  OBVIOUS
<1>1. /\ B[Tmp("tokens")] = Tokens(t)
      /\ LayersTo(B, 0, {}, t)
  BY Holds_embed1
<1>2. Changes1(B, E, Act("h", 0), Tensor("embed", 0, t))
  BY <1>1, Does_embed1
<1>3. NextPlace(Place("embed", 0, 0), 1) = Place("attnForward", 0, 0)
                  /\ NextOp(Place("embed", 0, 0), 1) = 1
  BY NextOf_embed
<1> QED BY <1>2, <1>3, Carry_embed1, Adds_embed1 DEF Keeps

LEMMA NextOf_attnForward ==
    ASSUME NEW l \in Layers
    PROVE  /\ NextPlace(Place("attnForward", l, 0), 1) = Place("attnForward", l, 0)
                /\ NextOp(Place("attnForward", l, 0), 1) = 2
           /\ NextPlace(Place("attnForward", l, 0), 2) = Place("attnForward", l, 0)
                /\ NextOp(Place("attnForward", l, 0), 2) = 3
           /\ NextPlace(Place("attnForward", l, 0), 3) = Place("attnForward", l, 0)
                /\ NextOp(Place("attnForward", l, 0), 3) = 4
           /\ NextPlace(Place("attnForward", l, 0), 4) = Place("attnForward", l, 0)
                /\ NextOp(Place("attnForward", l, 0), 4) = 5
           /\ NextPlace(Place("attnForward", l, 0), 5) = Place("mlpForward", l, 0)
           /\ NextOp(Place("attnForward", l, 0), 5) = 1
<1>1. PICK n : n = Len(Ops(Place("attnForward", l, 0)))
  OBVIOUS
<1>2. n = 5
  BY <1>1, FitsOf_attnForward
<1>3. 1 < n /\ 2 < n /\ 3 < n /\ 4 < n /\ ~(5 < n)
  BY <1>2
<1>4. NextPlace(Place("attnForward", l, 0), 1) = Place("attnForward", l, 0)
                  /\ NextOp(Place("attnForward", l, 0), 1) = 1 + 1
  BY <1>1, <1>3, NextWithin, Zenon
<1>5. NextPlace(Place("attnForward", l, 0), 2) = Place("attnForward", l, 0)
                  /\ NextOp(Place("attnForward", l, 0), 2) = 2 + 1
  BY <1>1, <1>3, NextWithin, Zenon
<1>6. NextPlace(Place("attnForward", l, 0), 3) = Place("attnForward", l, 0)
                  /\ NextOp(Place("attnForward", l, 0), 3) = 3 + 1
  BY <1>1, <1>3, NextWithin, Zenon
<1>7. NextPlace(Place("attnForward", l, 0), 4) = Place("attnForward", l, 0)
                  /\ NextOp(Place("attnForward", l, 0), 4) = 4 + 1
  BY <1>1, <1>3, NextWithin, Zenon
<1>8. NextPlace(Place("attnForward", l, 0), 5) = After(Place("attnForward", l, 0))
                  /\ NextOp(Place("attnForward", l, 0), 5) = 1
  BY <1>1, <1>3, NextBeyond, Zenon
<1> QED BY <1>4, <1>5, <1>6, <1>7, <1>8, AfterIs

LEMMA Keeps_attnForward1 ==
    ASSUME NEW l \in Layers, NEW t \in Passes, NEW B, WeightsHeld(B, StepOf(t)),
           PassHeld(B, Place("attnForward", l, 0), 1, t)
    PROVE  Keeps(B, Effect(B, Ops(Place("attnForward", l, 0))[1], Tokens(t)),
                     Place("attnForward", l, 0), 1, t)
<1> PICK E : E = Effect(B, Ops(Place("attnForward", l, 0))[1], Tokens(t))
  OBVIOUS
<1>1. /\ B[Tmp("tokens")] = Tokens(t)
      /\ LayersTo(B, l, {}, t)
      /\ B[Act("h", l)] = Hidden(l, t)
  BY Holds_attnForward1
<1>2. Changes3(B, E, Act("ln1_y", l), Tensor("ln1_y", l, t),
                Act("xhat_ln1", l), Tensor("ln1_xhat", l, t),
                Act("inv_std_ln1", l), Tensor("ln1_inv_std", l, t))
  BY <1>1, Does_attnForward1
<1>3. NextPlace(Place("attnForward", l, 0), 1) = Place("attnForward", l, 0)
                  /\ NextOp(Place("attnForward", l, 0), 1) = 2
  BY NextOf_attnForward
<1> QED BY <1>1, <1>2, <1>3, Carry_attnForward1, Adds_attnForward1 DEF Keeps

LEMMA Keeps_attnForward2 ==
    ASSUME NEW l \in Layers, NEW t \in Passes, NEW B, WeightsHeld(B, StepOf(t)),
           PassHeld(B, Place("attnForward", l, 0), 2, t)
    PROVE  Keeps(B, Effect(B, Ops(Place("attnForward", l, 0))[2], Tokens(t)),
                     Place("attnForward", l, 0), 2, t)
<1> PICK E : E = Effect(B, Ops(Place("attnForward", l, 0))[2], Tokens(t))
  OBVIOUS
<1>1. /\ B[Tmp("tokens")] = Tokens(t)
      /\ LayersTo(B, l, {"ln1_y", "xhat_ln1", "inv_std_ln1"}, t)
      /\ B[Act("h", l)] = Hidden(l, t)
  BY Holds_attnForward2
<1>2. /\ B[Act("ln1_y", l)] = Tensor("ln1_y", l, t)
  BY <1>1, Parameters DEF LayersTo, ValueIn, PerLayer, Layers
<1>3. Changes1(B, E, Act("qkv", l), Tensor("qkv", l, t))
  BY <1>1, <1>2, Does_attnForward2
<1>4. NextPlace(Place("attnForward", l, 0), 2) = Place("attnForward", l, 0)
                  /\ NextOp(Place("attnForward", l, 0), 2) = 3
  BY NextOf_attnForward
<1> QED BY <1>1, <1>3, <1>4, Carry_attnForward2, Adds_attnForward2 DEF Keeps

LEMMA Keeps_attnForward3 ==
    ASSUME NEW l \in Layers, NEW t \in Passes, NEW B, WeightsHeld(B, StepOf(t)),
           PassHeld(B, Place("attnForward", l, 0), 3, t)
    PROVE  Keeps(B, Effect(B, Ops(Place("attnForward", l, 0))[3], Tokens(t)),
                     Place("attnForward", l, 0), 3, t)
<1> PICK E : E = Effect(B, Ops(Place("attnForward", l, 0))[3], Tokens(t))
  OBVIOUS
<1>1. /\ B[Tmp("tokens")] = Tokens(t)
      /\ LayersTo(B, l, {"ln1_y", "xhat_ln1", "inv_std_ln1", "qkv"}, t)
      /\ B[Act("h", l)] = Hidden(l, t)
  BY Holds_attnForward3
<1>2. /\ B[Act("qkv", l)] = Tensor("qkv", l, t)
  BY <1>1, Parameters DEF LayersTo, ValueIn, PerLayer, Layers
<1>3. Changes2(B, E, Act("attn_out", l), Tensor("attn_out", l, t),
                Act("P", l), Tensor("P", l, t))
  BY <1>1, <1>2, Does_attnForward3
<1>4. NextPlace(Place("attnForward", l, 0), 3) = Place("attnForward", l, 0)
                  /\ NextOp(Place("attnForward", l, 0), 3) = 4
  BY NextOf_attnForward
<1> QED BY <1>1, <1>3, <1>4, Carry_attnForward3, Adds_attnForward3 DEF Keeps

LEMMA Keeps_attnForward4 ==
    ASSUME NEW l \in Layers, NEW t \in Passes, NEW B, WeightsHeld(B, StepOf(t)),
           PassHeld(B, Place("attnForward", l, 0), 4, t)
    PROVE  Keeps(B, Effect(B, Ops(Place("attnForward", l, 0))[4], Tokens(t)),
                     Place("attnForward", l, 0), 4, t)
<1> PICK E : E = Effect(B, Ops(Place("attnForward", l, 0))[4], Tokens(t))
  OBVIOUS
<1>1. /\ B[Tmp("tokens")] = Tokens(t)
      /\ LayersTo(B, l, {"ln1_y", "xhat_ln1", "inv_std_ln1", "qkv", "attn_out", "P"}, t)
      /\ B[Act("h", l)] = Hidden(l, t)
  BY Holds_attnForward4
<1>2. /\ B[Act("attn_out", l)] = Tensor("attn_out", l, t)
  BY <1>1, Parameters DEF LayersTo, ValueIn, PerLayer, Layers
<1>3. Changes1(B, E, Tmp("dh"), Tensor("attn_proj", l, t))
  BY <1>1, <1>2, Does_attnForward4
<1>4. NextPlace(Place("attnForward", l, 0), 4) = Place("attnForward", l, 0)
                  /\ NextOp(Place("attnForward", l, 0), 4) = 5
  BY NextOf_attnForward
<1> QED BY <1>1, <1>3, <1>4, Carry_attnForward4, Adds_attnForward4 DEF Keeps

LEMMA Keeps_attnForward5 ==
    ASSUME NEW l \in Layers, NEW t \in Passes, NEW B, WeightsHeld(B, StepOf(t)),
           PassHeld(B, Place("attnForward", l, 0), 5, t)
    PROVE  Keeps(B, Effect(B, Ops(Place("attnForward", l, 0))[5], Tokens(t)),
                     Place("attnForward", l, 0), 5, t)
<1> PICK E : E = Effect(B, Ops(Place("attnForward", l, 0))[5], Tokens(t))
  OBVIOUS
<1>1. /\ B[Tmp("tokens")] = Tokens(t)
      /\ LayersTo(B, l, {"ln1_y", "xhat_ln1", "inv_std_ln1", "qkv", "attn_out", "P"}, t)
      /\ B[Act("h", l)] = Hidden(l, t)
      /\ B[Tmp("dh")] = Tensor("attn_proj", l, t)
  BY Holds_attnForward5
<1>2. Changes1(B, E, Act("h", l + 1), HiddenMid(l, t))
  BY <1>1, Does_attnForward5
<1>3. NextPlace(Place("attnForward", l, 0), 5) = Place("mlpForward", l, 0)
                  /\ NextOp(Place("attnForward", l, 0), 5) = 1
  BY NextOf_attnForward
<1> QED BY <1>2, <1>3, Carry_attnForward5, Adds_attnForward5 DEF Keeps

LEMMA NextOf_mlpForward ==
    ASSUME NEW l \in Layers
    PROVE  /\ NextPlace(Place("mlpForward", l, 0), 1) = Place("mlpForward", l, 0)
                /\ NextOp(Place("mlpForward", l, 0), 1) = 2
           /\ NextPlace(Place("mlpForward", l, 0), 2) = Place("mlpForward", l, 0)
                /\ NextOp(Place("mlpForward", l, 0), 2) = 3
           /\ NextPlace(Place("mlpForward", l, 0), 3) = Place("mlpForward", l, 0)
                /\ NextOp(Place("mlpForward", l, 0), 3) = 4
           /\ NextPlace(Place("mlpForward", l, 0), 4) = Place("mlpForward", l, 0)
                /\ NextOp(Place("mlpForward", l, 0), 4) = 5
           /\ l + 1 < NLayer => NextPlace(Place("mlpForward", l, 0), 5) = Place("attnForward",
                l + 1, 0)
           /\ ~(l + 1 < NLayer) => NextPlace(Place("mlpForward", l, 0), 5) = Place("head", 0, 0)
           /\ NextOp(Place("mlpForward", l, 0), 5) = 1
<1>1. PICK n : n = Len(Ops(Place("mlpForward", l, 0)))
  OBVIOUS
<1>2. n = 5
  BY <1>1, FitsOf_mlpForward
<1>3. 1 < n /\ 2 < n /\ 3 < n /\ 4 < n /\ ~(5 < n)
  BY <1>2
<1>4. NextPlace(Place("mlpForward", l, 0), 1) = Place("mlpForward", l, 0)
                  /\ NextOp(Place("mlpForward", l, 0), 1) = 1 + 1
  BY <1>1, <1>3, NextWithin, Zenon
<1>5. NextPlace(Place("mlpForward", l, 0), 2) = Place("mlpForward", l, 0)
                  /\ NextOp(Place("mlpForward", l, 0), 2) = 2 + 1
  BY <1>1, <1>3, NextWithin, Zenon
<1>6. NextPlace(Place("mlpForward", l, 0), 3) = Place("mlpForward", l, 0)
                  /\ NextOp(Place("mlpForward", l, 0), 3) = 3 + 1
  BY <1>1, <1>3, NextWithin, Zenon
<1>7. NextPlace(Place("mlpForward", l, 0), 4) = Place("mlpForward", l, 0)
                  /\ NextOp(Place("mlpForward", l, 0), 4) = 4 + 1
  BY <1>1, <1>3, NextWithin, Zenon
<1>8. NextPlace(Place("mlpForward", l, 0), 5) = After(Place("mlpForward", l, 0))
                  /\ NextOp(Place("mlpForward", l, 0), 5) = 1
  BY <1>1, <1>3, NextBeyond, Zenon
<1> QED BY <1>4, <1>5, <1>6, <1>7, <1>8, AfterIs

LEMMA Keeps_mlpForward1 ==
    ASSUME NEW l \in Layers, NEW t \in Passes, NEW B, WeightsHeld(B, StepOf(t)),
           PassHeld(B, Place("mlpForward", l, 0), 1, t)
    PROVE  Keeps(B, Effect(B, Ops(Place("mlpForward", l, 0))[1], Tokens(t)),
                     Place("mlpForward", l, 0), 1, t)
<1> PICK E : E = Effect(B, Ops(Place("mlpForward", l, 0))[1], Tokens(t))
  OBVIOUS
<1>1. /\ B[Tmp("tokens")] = Tokens(t)
      /\ LayersTo(B, l, {"ln1_y", "xhat_ln1", "inv_std_ln1", "qkv", "attn_out", "P"}, t)
      /\ B[Act("h", l + 1)] = HiddenMid(l, t)
  BY Holds_mlpForward1
<1>2. Changes3(B, E, Act("ln2_y", l), Tensor("ln2_y", l, t),
                Act("xhat_ln2", l), Tensor("ln2_xhat", l, t),
                Act("inv_std_ln2", l), Tensor("ln2_inv_std", l, t))
  BY <1>1, Does_mlpForward1
<1>3. NextPlace(Place("mlpForward", l, 0), 1) = Place("mlpForward", l, 0)
                  /\ NextOp(Place("mlpForward", l, 0), 1) = 2
  BY NextOf_mlpForward
<1> QED BY <1>1, <1>2, <1>3, Carry_mlpForward1, Adds_mlpForward1 DEF Keeps

LEMMA Keeps_mlpForward2 ==
    ASSUME NEW l \in Layers, NEW t \in Passes, NEW B, WeightsHeld(B, StepOf(t)),
           PassHeld(B, Place("mlpForward", l, 0), 2, t)
    PROVE  Keeps(B, Effect(B, Ops(Place("mlpForward", l, 0))[2], Tokens(t)),
                     Place("mlpForward", l, 0), 2, t)
<1> PICK E : E = Effect(B, Ops(Place("mlpForward", l, 0))[2], Tokens(t))
  OBVIOUS
<1>1. /\ B[Tmp("tokens")] = Tokens(t)
      /\ LayersTo(B, l, {"ln1_y", "xhat_ln1", "inv_std_ln1", "qkv", "attn_out", "P", "ln2_y",
           "xhat_ln2", "inv_std_ln2"}, t)
      /\ B[Act("h", l + 1)] = HiddenMid(l, t)
  BY Holds_mlpForward2
<1>2. /\ B[Act("ln2_y", l)] = Tensor("ln2_y", l, t)
  BY <1>1, Parameters DEF LayersTo, ValueIn, PerLayer, Layers
<1>3. Changes1(B, E, Act("mlp_pre", l), Tensor("mlp_pre", l, t))
  BY <1>1, <1>2, Does_mlpForward2
<1>4. NextPlace(Place("mlpForward", l, 0), 2) = Place("mlpForward", l, 0)
                  /\ NextOp(Place("mlpForward", l, 0), 2) = 3
  BY NextOf_mlpForward
<1> QED BY <1>1, <1>3, <1>4, Carry_mlpForward2, Adds_mlpForward2 DEF Keeps

LEMMA Keeps_mlpForward3 ==
    ASSUME NEW l \in Layers, NEW t \in Passes, NEW B, WeightsHeld(B, StepOf(t)),
           PassHeld(B, Place("mlpForward", l, 0), 3, t)
    PROVE  Keeps(B, Effect(B, Ops(Place("mlpForward", l, 0))[3], Tokens(t)),
                     Place("mlpForward", l, 0), 3, t)
<1> PICK E : E = Effect(B, Ops(Place("mlpForward", l, 0))[3], Tokens(t))
  OBVIOUS
<1>1. /\ B[Tmp("tokens")] = Tokens(t)
      /\ LayersTo(B, l, {"ln1_y", "xhat_ln1", "inv_std_ln1", "qkv", "attn_out", "P", "ln2_y",
           "xhat_ln2", "inv_std_ln2", "mlp_pre"}, t)
      /\ B[Act("h", l + 1)] = HiddenMid(l, t)
  BY Holds_mlpForward3
<1>2. /\ B[Act("mlp_pre", l)] = Tensor("mlp_pre", l, t)
  BY <1>1, Parameters DEF LayersTo, ValueIn, PerLayer, Layers
<1>3. Changes1(B, E, Act("mlp_gelu", l), Tensor("mlp_gelu", l, t))
  BY <1>1, <1>2, Does_mlpForward3
<1>4. NextPlace(Place("mlpForward", l, 0), 3) = Place("mlpForward", l, 0)
                  /\ NextOp(Place("mlpForward", l, 0), 3) = 4
  BY NextOf_mlpForward
<1> QED BY <1>1, <1>3, <1>4, Carry_mlpForward3, Adds_mlpForward3 DEF Keeps

LEMMA Keeps_mlpForward4 ==
    ASSUME NEW l \in Layers, NEW t \in Passes, NEW B, WeightsHeld(B, StepOf(t)),
           PassHeld(B, Place("mlpForward", l, 0), 4, t)
    PROVE  Keeps(B, Effect(B, Ops(Place("mlpForward", l, 0))[4], Tokens(t)),
                     Place("mlpForward", l, 0), 4, t)
<1> PICK E : E = Effect(B, Ops(Place("mlpForward", l, 0))[4], Tokens(t))
  OBVIOUS
<1>1. /\ B[Tmp("tokens")] = Tokens(t)
      /\ LayersTo(B, l, {"ln1_y", "xhat_ln1", "inv_std_ln1", "qkv", "attn_out", "P", "ln2_y",
           "xhat_ln2", "inv_std_ln2", "mlp_pre", "mlp_gelu"}, t)
      /\ B[Act("h", l + 1)] = HiddenMid(l, t)
  BY Holds_mlpForward4
<1>2. /\ B[Act("mlp_gelu", l)] = Tensor("mlp_gelu", l, t)
  BY <1>1, Parameters DEF LayersTo, ValueIn, PerLayer, Layers
<1>3. Changes1(B, E, Tmp("dh"), Tensor("mlp_out", l, t))
  BY <1>1, <1>2, Does_mlpForward4
<1>4. NextPlace(Place("mlpForward", l, 0), 4) = Place("mlpForward", l, 0)
                  /\ NextOp(Place("mlpForward", l, 0), 4) = 5
  BY NextOf_mlpForward
<1> QED BY <1>1, <1>3, <1>4, Carry_mlpForward4, Adds_mlpForward4 DEF Keeps

LEMMA Keeps_mlpForward5 ==
    ASSUME NEW l \in Layers, NEW t \in Passes, NEW B, WeightsHeld(B, StepOf(t)),
           PassHeld(B, Place("mlpForward", l, 0), 5, t)
    PROVE  Keeps(B, Effect(B, Ops(Place("mlpForward", l, 0))[5], Tokens(t)),
                     Place("mlpForward", l, 0), 5, t)
<1> PICK E : E = Effect(B, Ops(Place("mlpForward", l, 0))[5], Tokens(t))
  OBVIOUS
<1>1. /\ B[Tmp("tokens")] = Tokens(t)
      /\ LayersTo(B, l, {"ln1_y", "xhat_ln1", "inv_std_ln1", "qkv", "attn_out", "P", "ln2_y",
           "xhat_ln2", "inv_std_ln2", "mlp_pre", "mlp_gelu"}, t)
      /\ B[Act("h", l + 1)] = HiddenMid(l, t)
      /\ B[Tmp("dh")] = Tensor("mlp_out", l, t)
  BY Holds_mlpForward5
<1>2. Changes1(B, E, Act("h", l + 1), Hidden(l + 1, t))
  BY <1>1, Does_mlpForward5
<1>3. CASE l + 1 < NLayer
  <2>1. NextPlace(Place("mlpForward", l, 0), 5) = Place("attnForward", l + 1, 0)
                    /\ NextOp(Place("mlpForward", l, 0), 5) = 1
    BY NextOf_mlpForward, <1>3
  <2> QED BY <1>3, <1>2, <2>1, Carry_mlpForward5a, Adds_mlpForward5a DEF Keeps
<1>4. CASE ~(l + 1 < NLayer)
  <2>1. NextPlace(Place("mlpForward", l, 0), 5) = Place("head", 0, 0)
                    /\ NextOp(Place("mlpForward", l, 0), 5) = 1
    BY NextOf_mlpForward, <1>4
  <2> QED BY <1>4, <1>2, <2>1, Carry_mlpForward5b, Adds_mlpForward5b DEF Keeps
<1> QED BY <1>3, <1>4

LEMMA NextOf_head ==
    /\ NextPlace(Place("head", 0, 0), 1) = Place("head", 0, 0) /\ NextOp(Place("head", 0, 0),
         1) = 2
    /\ NextPlace(Place("head", 0, 0), 2) = Place("head", 0, 0) /\ NextOp(Place("head", 0, 0),
         2) = 3
    /\ NextPlace(Place("head", 0, 0), 3) = Place("headBack", 0, 0)
    /\ NextOp(Place("head", 0, 0), 3) = 1
<1>1. PICK n : n = Len(Ops(Place("head", 0, 0)))
  OBVIOUS
<1>2. n = 3
  BY <1>1, FitsOf_head
<1>3. 1 < n /\ 2 < n /\ ~(3 < n)
  BY <1>2
<1>4. NextPlace(Place("head", 0, 0), 1) = Place("head", 0, 0) /\ NextOp(Place("head", 0, 0), 1)
                  = 1 + 1
  BY <1>1, <1>3, NextWithin, Zenon
<1>5. NextPlace(Place("head", 0, 0), 2) = Place("head", 0, 0) /\ NextOp(Place("head", 0, 0), 2)
                  = 2 + 1
  BY <1>1, <1>3, NextWithin, Zenon
<1>6. NextPlace(Place("head", 0, 0), 3) = After(Place("head", 0, 0))
                  /\ NextOp(Place("head", 0, 0), 3) = 1
  BY <1>1, <1>3, NextBeyond, Zenon
<1> QED BY <1>4, <1>5, <1>6, AfterIs

LEMMA Keeps_head1 ==
    ASSUME NEW t \in Passes, NEW B, WeightsHeld(B, StepOf(t)),
           PassHeld(B, Place("head", 0, 0), 1, t)
    PROVE  Keeps(B, Effect(B, Ops(Place("head", 0, 0))[1], Tokens(t)), Place("head", 0, 0), 1,
                     t)
<1> PICK E : E = Effect(B, Ops(Place("head", 0, 0))[1], Tokens(t))
  OBVIOUS
<1>1. /\ B[Tmp("tokens")] = Tokens(t)
      /\ LayersTo(B, NLayer, {}, t)
      /\ B[Act("h", NLayer)] = Hidden(NLayer, t)
  BY Holds_head1
<1>2. Changes3(B, E, Tmp("lnf_y"), Tensor("ln_f_y", 0, t),
                Tmp("xhat_lnf"), Tensor("ln_f_xhat", 0, t),
                Tmp("inv_std_lnf"), Tensor("ln_f_inv_std", 0, t))
  BY <1>1, Does_head1
<1>3. NextPlace(Place("head", 0, 0), 1) = Place("head", 0, 0) /\ NextOp(Place("head", 0, 0), 1)
                  = 2
  BY NextOf_head
<1> QED BY <1>1, <1>2, <1>3, Carry_head1, Adds_head1 DEF Keeps

LEMMA Keeps_head2 ==
    ASSUME NEW t \in Passes, NEW B, WeightsHeld(B, StepOf(t)),
           PassHeld(B, Place("head", 0, 0), 2, t)
    PROVE  Keeps(B, Effect(B, Ops(Place("head", 0, 0))[2], Tokens(t)), Place("head", 0, 0), 2,
                     t)
<1> PICK E : E = Effect(B, Ops(Place("head", 0, 0))[2], Tokens(t))
  OBVIOUS
<1>1. /\ B[Tmp("tokens")] = Tokens(t)
      /\ LayersTo(B, NLayer, {}, t)
      /\ B[Act("h", NLayer)] = Hidden(NLayer, t)
      /\ B[Tmp("xhat_lnf")] = Tensor("ln_f_xhat", 0, t)
      /\ B[Tmp("inv_std_lnf")] = Tensor("ln_f_inv_std", 0, t)
      /\ B[Tmp("lnf_y")] = Tensor("ln_f_y", 0, t)
  BY Holds_head2
<1>2. Changes1(B, E, Tmp("logits"), Tensor("logits", 0, t))
  BY <1>1, Does_head2
<1>3. NextPlace(Place("head", 0, 0), 2) = Place("head", 0, 0) /\ NextOp(Place("head", 0, 0), 2)
                  = 3
  BY NextOf_head
<1> QED BY <1>1, <1>2, <1>3, Carry_head2, Adds_head2 DEF Keeps

LEMMA Keeps_head3 ==
    ASSUME NEW t \in Passes, NEW B, WeightsHeld(B, StepOf(t)),
           PassHeld(B, Place("head", 0, 0), 3, t)
    PROVE  Keeps(B, Effect(B, Ops(Place("head", 0, 0))[3], Tokens(t)), Place("head", 0, 0), 3,
                     t)
<1> PICK E : E = Effect(B, Ops(Place("head", 0, 0))[3], Tokens(t))
  OBVIOUS
<1>1. /\ B[Tmp("tokens")] = Tokens(t)
      /\ LayersTo(B, NLayer, {}, t)
      /\ B[Act("h", NLayer)] = Hidden(NLayer, t)
      /\ B[Tmp("xhat_lnf")] = Tensor("ln_f_xhat", 0, t)
      /\ B[Tmp("inv_std_lnf")] = Tensor("ln_f_inv_std", 0, t)
      /\ B[Tmp("lnf_y")] = Tensor("ln_f_y", 0, t)
      /\ B[Tmp("logits")] = Tensor("logits", 0, t)
  BY Holds_head3
<1>2. Changes2(B, E, Tmp("dlogits"), Tensor("dlogits", 0, t),
                Tmp("loss"), Tensor("loss", 0, t))
  BY <1>1, Does_head3
<1>3. NextPlace(Place("head", 0, 0), 3) = Place("headBack", 0, 0)
                  /\ NextOp(Place("head", 0, 0), 3) = 1
  BY NextOf_head
<1> QED BY <1>2, <1>3, Carry_head3, Adds_head3 DEF Keeps

LEMMA NextOf_headBack ==
    /\ NextPlace(Place("headBack", 0, 0), 1) = Place("headBack", 0, 0)
         /\ NextOp(Place("headBack", 0, 0), 1) = 2
    /\ NextPlace(Place("headBack", 0, 0), 2) = Place("headBack", 0, 0)
         /\ NextOp(Place("headBack", 0, 0), 2) = 3
    /\ NextPlace(Place("headBack", 0, 0), 3) = Place("headBack", 0, 0)
         /\ NextOp(Place("headBack", 0, 0), 3) = 4
    /\ NextPlace(Place("headBack", 0, 0), 4) = Place("headBack", 0, 0)
         /\ NextOp(Place("headBack", 0, 0), 4) = 5
    /\ NextPlace(Place("headBack", 0, 0), 5) = Place("mlpBack", NLayer - 1, 0)
    /\ NextOp(Place("headBack", 0, 0), 5) = 1
<1>1. PICK n : n = Len(Ops(Place("headBack", 0, 0)))
  OBVIOUS
<1>2. n = 5
  BY <1>1, FitsOf_headBack
<1>3. 1 < n /\ 2 < n /\ 3 < n /\ 4 < n /\ ~(5 < n)
  BY <1>2
<1>4. NextPlace(Place("headBack", 0, 0), 1) = Place("headBack", 0, 0)
                  /\ NextOp(Place("headBack", 0, 0), 1) = 1 + 1
  BY <1>1, <1>3, NextWithin, Zenon
<1>5. NextPlace(Place("headBack", 0, 0), 2) = Place("headBack", 0, 0)
                  /\ NextOp(Place("headBack", 0, 0), 2) = 2 + 1
  BY <1>1, <1>3, NextWithin, Zenon
<1>6. NextPlace(Place("headBack", 0, 0), 3) = Place("headBack", 0, 0)
                  /\ NextOp(Place("headBack", 0, 0), 3) = 3 + 1
  BY <1>1, <1>3, NextWithin, Zenon
<1>7. NextPlace(Place("headBack", 0, 0), 4) = Place("headBack", 0, 0)
                  /\ NextOp(Place("headBack", 0, 0), 4) = 4 + 1
  BY <1>1, <1>3, NextWithin, Zenon
<1>8. NextPlace(Place("headBack", 0, 0), 5) = After(Place("headBack", 0, 0))
                  /\ NextOp(Place("headBack", 0, 0), 5) = 1
  BY <1>1, <1>3, NextBeyond, Zenon
<1> QED BY <1>4, <1>5, <1>6, <1>7, <1>8, AfterIs

LEMMA Keeps_headBack1 ==
    ASSUME NEW t \in Passes, NEW B, WeightsHeld(B, StepOf(t)),
           PassHeld(B, Place("headBack", 0, 0), 1, t)
    PROVE  Keeps(B, Effect(B, Ops(Place("headBack", 0, 0))[1], Tokens(t)),
                     Place("headBack", 0, 0), 1, t)
<1> PICK E : E = Effect(B, Ops(Place("headBack", 0, 0))[1], Tokens(t))
  OBVIOUS
<1>1. /\ B[Tmp("tokens")] = Tokens(t)
      /\ LayersTo(B, NLayer, {}, t)
      /\ B[Tmp("xhat_lnf")] = Tensor("ln_f_xhat", 0, t)
      /\ B[Tmp("inv_std_lnf")] = Tensor("ln_f_inv_std", 0, t)
      /\ B[Tmp("dlogits")] = Tensor("dlogits", 0, t)
      /\ B[Tmp("lnf_y")] = Tensor("ln_f_y", 0, t)
      /\ B[Tmp("loss")] = Tensor("loss", 0, t)
  BY Holds_headBack1
<1>2. Changes1(B, E, G("wte", 0), B[G("wte", 0)] (+) Only(Gradient("wte:head", 0, t)))
  BY <1>1, Does_headBack1
<1>3. NextPlace(Place("headBack", 0, 0), 1) = Place("headBack", 0, 0)
                  /\ NextOp(Place("headBack", 0, 0), 1) = 2
  BY NextOf_headBack
<1> QED BY <1>1, <1>2, <1>3, Carry_headBack1, Adds_headBack1 DEF Keeps

LEMMA Keeps_headBack2 ==
    ASSUME NEW t \in Passes, NEW B, WeightsHeld(B, StepOf(t)),
           PassHeld(B, Place("headBack", 0, 0), 2, t)
    PROVE  Keeps(B, Effect(B, Ops(Place("headBack", 0, 0))[2], Tokens(t)),
                     Place("headBack", 0, 0), 2, t)
<1> PICK E : E = Effect(B, Ops(Place("headBack", 0, 0))[2], Tokens(t))
  OBVIOUS
<1>1. /\ B[Tmp("tokens")] = Tokens(t)
      /\ LayersTo(B, NLayer, {}, t)
      /\ B[Tmp("xhat_lnf")] = Tensor("ln_f_xhat", 0, t)
      /\ B[Tmp("inv_std_lnf")] = Tensor("ln_f_inv_std", 0, t)
      /\ B[Tmp("dlogits")] = Tensor("dlogits", 0, t)
      /\ B[Tmp("lnf_y")] = Tensor("ln_f_y", 0, t)
      /\ B[Tmp("loss")] = Tensor("loss", 0, t)
  BY Holds_headBack2
<1>2. Changes1(B, E, Tmp("dh"), Tensor("d_ln_f_y", 0, t))
  BY <1>1, Does_headBack2
<1>3. NextPlace(Place("headBack", 0, 0), 2) = Place("headBack", 0, 0)
                  /\ NextOp(Place("headBack", 0, 0), 2) = 3
  BY NextOf_headBack
<1> QED BY <1>1, <1>2, <1>3, Carry_headBack2, Adds_headBack2 DEF Keeps

LEMMA Keeps_headBack3 ==
    ASSUME NEW t \in Passes, NEW B, WeightsHeld(B, StepOf(t)),
           PassHeld(B, Place("headBack", 0, 0), 3, t)
    PROVE  Keeps(B, Effect(B, Ops(Place("headBack", 0, 0))[3], Tokens(t)),
                     Place("headBack", 0, 0), 3, t)
<1> PICK E : E = Effect(B, Ops(Place("headBack", 0, 0))[3], Tokens(t))
  OBVIOUS
<1>1. /\ B[Tmp("tokens")] = Tokens(t)
      /\ LayersTo(B, NLayer, {}, t)
      /\ B[Tmp("xhat_lnf")] = Tensor("ln_f_xhat", 0, t)
      /\ B[Tmp("inv_std_lnf")] = Tensor("ln_f_inv_std", 0, t)
      /\ B[Tmp("dlogits")] = Tensor("dlogits", 0, t)
      /\ B[Tmp("lnf_y")] = Tensor("ln_f_y", 0, t)
      /\ B[Tmp("dh")] = Tensor("d_ln_f_y", 0, t)
      /\ B[Tmp("loss")] = Tensor("loss", 0, t)
  BY Holds_headBack3
<1>2. Changes1(B, E, Tmp("lnf_y"), Tensor("d_ln_f_y", 0, t))
  BY <1>1, Does_headBack3
<1>3. NextPlace(Place("headBack", 0, 0), 3) = Place("headBack", 0, 0)
                  /\ NextOp(Place("headBack", 0, 0), 3) = 4
  BY NextOf_headBack
<1> QED BY <1>1, <1>2, <1>3, Carry_headBack3, Adds_headBack3 DEF Keeps

LEMMA Keeps_headBack4 ==
    ASSUME NEW t \in Passes, NEW B, WeightsHeld(B, StepOf(t)),
           PassHeld(B, Place("headBack", 0, 0), 4, t)
    PROVE  Keeps(B, Effect(B, Ops(Place("headBack", 0, 0))[4], Tokens(t)),
                     Place("headBack", 0, 0), 4, t)
<1> PICK E : E = Effect(B, Ops(Place("headBack", 0, 0))[4], Tokens(t))
  OBVIOUS
<1>1. /\ B[Tmp("tokens")] = Tokens(t)
      /\ LayersTo(B, NLayer, {}, t)
      /\ B[Tmp("xhat_lnf")] = Tensor("ln_f_xhat", 0, t)
      /\ B[Tmp("inv_std_lnf")] = Tensor("ln_f_inv_std", 0, t)
      /\ B[Tmp("dlogits")] = Tensor("dlogits", 0, t)
      /\ B[Tmp("lnf_y")] = Tensor("d_ln_f_y", 0, t)
      /\ B[Tmp("loss")] = Tensor("loss", 0, t)
  BY Holds_headBack4
<1>2. Changes1(B, E, Tmp("dh"), DH(NLayer, t))
  BY <1>1, Does_headBack4
<1>3. NextPlace(Place("headBack", 0, 0), 4) = Place("headBack", 0, 0)
                  /\ NextOp(Place("headBack", 0, 0), 4) = 5
  BY NextOf_headBack
<1> QED BY <1>1, <1>2, <1>3, Carry_headBack4, Adds_headBack4 DEF Keeps

LEMMA Keeps_headBack5 ==
    ASSUME NEW t \in Passes, NEW B, WeightsHeld(B, StepOf(t)),
           PassHeld(B, Place("headBack", 0, 0), 5, t)
    PROVE  Keeps(B, Effect(B, Ops(Place("headBack", 0, 0))[5], Tokens(t)),
                     Place("headBack", 0, 0), 5, t)
<1> PICK E : E = Effect(B, Ops(Place("headBack", 0, 0))[5], Tokens(t))
  OBVIOUS
<1>1. /\ B[Tmp("tokens")] = Tokens(t)
      /\ LayersTo(B, NLayer, {}, t)
      /\ B[Tmp("xhat_lnf")] = Tensor("ln_f_xhat", 0, t)
      /\ B[Tmp("inv_std_lnf")] = Tensor("ln_f_inv_std", 0, t)
      /\ B[Tmp("dlogits")] = Tensor("dlogits", 0, t)
      /\ B[Tmp("lnf_y")] = Tensor("d_ln_f_y", 0, t)
      /\ B[Tmp("dh")] = DH(NLayer, t)
      /\ B[Tmp("loss")] = Tensor("loss", 0, t)
  BY Holds_headBack5
<1>2. Changes2(B, E, G("ln_f.w", 0), B[G("ln_f.w", 0)] (+) Only(Gradient("ln_f.w", 0, t)),
                G("ln_f.b", 0), B[G("ln_f.b", 0)] (+) Only(Gradient("ln_f.b", 0, t)))
  BY <1>1, Does_headBack5
<1>3. NextPlace(Place("headBack", 0, 0), 5) = Place("mlpBack", NLayer - 1, 0)
                  /\ NextOp(Place("headBack", 0, 0), 5) = 1
  BY NextOf_headBack
<1> QED BY <1>2, <1>3, Carry_headBack5, Adds_headBack5 DEF Keeps

LEMMA NextOf_mlpBack ==
    ASSUME NEW l \in Layers
    PROVE  /\ NextPlace(Place("mlpBack", l, 0), 1) = Place("mlpBack", l, 0)
                /\ NextOp(Place("mlpBack", l, 0), 1) = 2
           /\ NextPlace(Place("mlpBack", l, 0), 2) = Place("mlpBack", l, 0)
                /\ NextOp(Place("mlpBack", l, 0), 2) = 3
           /\ NextPlace(Place("mlpBack", l, 0), 3) = Place("mlpBack", l, 0)
                /\ NextOp(Place("mlpBack", l, 0), 3) = 4
           /\ NextPlace(Place("mlpBack", l, 0), 4) = Place("mlpBack", l, 0)
                /\ NextOp(Place("mlpBack", l, 0), 4) = 5
           /\ NextPlace(Place("mlpBack", l, 0), 5) = Place("mlpBack", l, 0)
                /\ NextOp(Place("mlpBack", l, 0), 5) = 6
           /\ NextPlace(Place("mlpBack", l, 0), 6) = Place("mlpBack", l, 0)
                /\ NextOp(Place("mlpBack", l, 0), 6) = 7
           /\ NextPlace(Place("mlpBack", l, 0), 7) = Place("mlpBack", l, 0)
                /\ NextOp(Place("mlpBack", l, 0), 7) = 8
           /\ NextPlace(Place("mlpBack", l, 0), 8) = Place("mlpBack", l, 0)
                /\ NextOp(Place("mlpBack", l, 0), 8) = 9
           /\ NextPlace(Place("mlpBack", l, 0), 9) = Place("projBack", l, 0)
           /\ NextOp(Place("mlpBack", l, 0), 9) = 1
<1>1. PICK n : n = Len(Ops(Place("mlpBack", l, 0)))
  OBVIOUS
<1>2. n = 9
  BY <1>1, FitsOf_mlpBack
<1>3. 1 < n /\ 2 < n /\ 3 < n /\ 4 < n /\ 5 < n /\ 6 < n /\ 7 < n /\ 8 < n /\ ~(9 < n)
  BY <1>2
<1>4. NextPlace(Place("mlpBack", l, 0), 1) = Place("mlpBack", l, 0)
                  /\ NextOp(Place("mlpBack", l, 0), 1) = 1 + 1
  BY <1>1, <1>3, NextWithin, Zenon
<1>5. NextPlace(Place("mlpBack", l, 0), 2) = Place("mlpBack", l, 0)
                  /\ NextOp(Place("mlpBack", l, 0), 2) = 2 + 1
  BY <1>1, <1>3, NextWithin, Zenon
<1>6. NextPlace(Place("mlpBack", l, 0), 3) = Place("mlpBack", l, 0)
                  /\ NextOp(Place("mlpBack", l, 0), 3) = 3 + 1
  BY <1>1, <1>3, NextWithin, Zenon
<1>7. NextPlace(Place("mlpBack", l, 0), 4) = Place("mlpBack", l, 0)
                  /\ NextOp(Place("mlpBack", l, 0), 4) = 4 + 1
  BY <1>1, <1>3, NextWithin, Zenon
<1>8. NextPlace(Place("mlpBack", l, 0), 5) = Place("mlpBack", l, 0)
                  /\ NextOp(Place("mlpBack", l, 0), 5) = 5 + 1
  BY <1>1, <1>3, NextWithin, Zenon
<1>9. NextPlace(Place("mlpBack", l, 0), 6) = Place("mlpBack", l, 0)
                  /\ NextOp(Place("mlpBack", l, 0), 6) = 6 + 1
  BY <1>1, <1>3, NextWithin, Zenon
<1>10. NextPlace(Place("mlpBack", l, 0), 7) = Place("mlpBack", l, 0)
                  /\ NextOp(Place("mlpBack", l, 0), 7) = 7 + 1
  BY <1>1, <1>3, NextWithin, Zenon
<1>11. NextPlace(Place("mlpBack", l, 0), 8) = Place("mlpBack", l, 0)
                  /\ NextOp(Place("mlpBack", l, 0), 8) = 8 + 1
  BY <1>1, <1>3, NextWithin, Zenon
<1>12. NextPlace(Place("mlpBack", l, 0), 9) = After(Place("mlpBack", l, 0))
                  /\ NextOp(Place("mlpBack", l, 0), 9) = 1
  BY <1>1, <1>3, NextBeyond, Zenon
<1> QED BY <1>4, <1>5, <1>6, <1>7, <1>8, <1>9, <1>10, <1>11, <1>12, AfterIs

LEMMA Keeps_mlpBack1 ==
    ASSUME NEW l \in Layers, NEW t \in Passes, NEW B, WeightsHeld(B, StepOf(t)),
           PassHeld(B, Place("mlpBack", l, 0), 1, t)
    PROVE  Keeps(B, Effect(B, Ops(Place("mlpBack", l, 0))[1], Tokens(t)),
                     Place("mlpBack", l, 0), 1, t)
<1> PICK E : E = Effect(B, Ops(Place("mlpBack", l, 0))[1], Tokens(t))
  OBVIOUS
<1>1. /\ B[Tmp("tokens")] = Tokens(t)
      /\ LayersTo(B, NLayer, {}, t)
      /\ B[Tmp("dh")] = DH(l + 1, t)
      /\ B[Tmp("loss")] = Tensor("loss", 0, t)
  BY Holds_mlpBack1
<1>2. /\ B[Act("mlp_gelu", l)] = Tensor("mlp_gelu", l, t)
  BY <1>1, Parameters DEF LayersTo, ValueIn, PerLayer, Layers
<1>3. Changes1(B, E, G("mlp.c_proj.w", l),
                  B[G("mlp.c_proj.w", l)] (+) Only(Gradient("mlp.c_proj.w", l, t)))
  BY <1>1, <1>2, Does_mlpBack1
<1>4. NextPlace(Place("mlpBack", l, 0), 1) = Place("mlpBack", l, 0)
                  /\ NextOp(Place("mlpBack", l, 0), 1) = 2
  BY NextOf_mlpBack
<1> QED BY <1>1, <1>3, <1>4, Carry_mlpBack1, Adds_mlpBack1 DEF Keeps

LEMMA Keeps_mlpBack2 ==
    ASSUME NEW l \in Layers, NEW t \in Passes, NEW B, WeightsHeld(B, StepOf(t)),
           PassHeld(B, Place("mlpBack", l, 0), 2, t)
    PROVE  Keeps(B, Effect(B, Ops(Place("mlpBack", l, 0))[2], Tokens(t)),
                     Place("mlpBack", l, 0), 2, t)
<1> PICK E : E = Effect(B, Ops(Place("mlpBack", l, 0))[2], Tokens(t))
  OBVIOUS
<1>1. /\ B[Tmp("tokens")] = Tokens(t)
      /\ LayersTo(B, NLayer, {}, t)
      /\ B[Tmp("dh")] = DH(l + 1, t)
      /\ B[Tmp("loss")] = Tensor("loss", 0, t)
  BY Holds_mlpBack2
<1>2. Changes1(B, E, G("mlp.c_proj.b", l),
                  B[G("mlp.c_proj.b", l)] (+) Only(Gradient("mlp.c_proj.b", l, t)))
  BY <1>1, Does_mlpBack2
<1>3. NextPlace(Place("mlpBack", l, 0), 2) = Place("mlpBack", l, 0)
                  /\ NextOp(Place("mlpBack", l, 0), 2) = 3
  BY NextOf_mlpBack
<1> QED BY <1>1, <1>2, <1>3, Carry_mlpBack2, Adds_mlpBack2 DEF Keeps

LEMMA Keeps_mlpBack3 ==
    ASSUME NEW l \in Layers, NEW t \in Passes, NEW B, WeightsHeld(B, StepOf(t)),
           PassHeld(B, Place("mlpBack", l, 0), 3, t)
    PROVE  Keeps(B, Effect(B, Ops(Place("mlpBack", l, 0))[3], Tokens(t)),
                     Place("mlpBack", l, 0), 3, t)
<1> PICK E : E = Effect(B, Ops(Place("mlpBack", l, 0))[3], Tokens(t))
  OBVIOUS
<1>1. /\ B[Tmp("tokens")] = Tokens(t)
      /\ LayersTo(B, NLayer, {}, t)
      /\ B[Tmp("dh")] = DH(l + 1, t)
      /\ B[Tmp("loss")] = Tensor("loss", 0, t)
  BY Holds_mlpBack3
<1>2. Changes1(B, E, Tmp("d_mlp"), Tensor("d_mlp_gelu", l, t))
  BY <1>1, Does_mlpBack3
<1>3. NextPlace(Place("mlpBack", l, 0), 3) = Place("mlpBack", l, 0)
                  /\ NextOp(Place("mlpBack", l, 0), 3) = 4
  BY NextOf_mlpBack
<1> QED BY <1>1, <1>2, <1>3, Carry_mlpBack3, Adds_mlpBack3 DEF Keeps

LEMMA Keeps_mlpBack4 ==
    ASSUME NEW l \in Layers, NEW t \in Passes, NEW B, WeightsHeld(B, StepOf(t)),
           PassHeld(B, Place("mlpBack", l, 0), 4, t)
    PROVE  Keeps(B, Effect(B, Ops(Place("mlpBack", l, 0))[4], Tokens(t)),
                     Place("mlpBack", l, 0), 4, t)
<1> PICK E : E = Effect(B, Ops(Place("mlpBack", l, 0))[4], Tokens(t))
  OBVIOUS
<1>1. /\ B[Tmp("tokens")] = Tokens(t)
      /\ LayersTo(B, NLayer, {}, t)
      /\ B[Tmp("dh")] = DH(l + 1, t)
      /\ B[Tmp("d_mlp")] = Tensor("d_mlp_gelu", l, t)
      /\ B[Tmp("loss")] = Tensor("loss", 0, t)
  BY Holds_mlpBack4
<1>2. /\ B[Act("mlp_pre", l)] = Tensor("mlp_pre", l, t)
  BY <1>1, Parameters DEF LayersTo, ValueIn, PerLayer, Layers
<1>3. Changes1(B, E, Tmp("d_mlp"), Tensor("d_mlp_pre", l, t))
  BY <1>1, <1>2, Does_mlpBack4
<1>4. NextPlace(Place("mlpBack", l, 0), 4) = Place("mlpBack", l, 0)
                  /\ NextOp(Place("mlpBack", l, 0), 4) = 5
  BY NextOf_mlpBack
<1> QED BY <1>1, <1>3, <1>4, Carry_mlpBack4, Adds_mlpBack4 DEF Keeps

LEMMA Keeps_mlpBack5 ==
    ASSUME NEW l \in Layers, NEW t \in Passes, NEW B, WeightsHeld(B, StepOf(t)),
           PassHeld(B, Place("mlpBack", l, 0), 5, t)
    PROVE  Keeps(B, Effect(B, Ops(Place("mlpBack", l, 0))[5], Tokens(t)),
                     Place("mlpBack", l, 0), 5, t)
<1> PICK E : E = Effect(B, Ops(Place("mlpBack", l, 0))[5], Tokens(t))
  OBVIOUS
<1>1. /\ B[Tmp("tokens")] = Tokens(t)
      /\ LayersTo(B, NLayer, {}, t)
      /\ B[Tmp("dh")] = DH(l + 1, t)
      /\ B[Tmp("d_mlp")] = Tensor("d_mlp_pre", l, t)
      /\ B[Tmp("loss")] = Tensor("loss", 0, t)
  BY Holds_mlpBack5
<1>2. /\ B[Act("ln2_y", l)] = Tensor("ln2_y", l, t)
  BY <1>1, Parameters DEF LayersTo, ValueIn, PerLayer, Layers
<1>3. Changes1(B, E, G("c_fc.w", l), B[G("c_fc.w", l)] (+) Only(Gradient("c_fc.w", l, t)))
  BY <1>1, <1>2, Does_mlpBack5
<1>4. NextPlace(Place("mlpBack", l, 0), 5) = Place("mlpBack", l, 0)
                  /\ NextOp(Place("mlpBack", l, 0), 5) = 6
  BY NextOf_mlpBack
<1> QED BY <1>1, <1>3, <1>4, Carry_mlpBack5, Adds_mlpBack5 DEF Keeps

LEMMA Keeps_mlpBack6 ==
    ASSUME NEW l \in Layers, NEW t \in Passes, NEW B, WeightsHeld(B, StepOf(t)),
           PassHeld(B, Place("mlpBack", l, 0), 6, t)
    PROVE  Keeps(B, Effect(B, Ops(Place("mlpBack", l, 0))[6], Tokens(t)),
                     Place("mlpBack", l, 0), 6, t)
<1> PICK E : E = Effect(B, Ops(Place("mlpBack", l, 0))[6], Tokens(t))
  OBVIOUS
<1>1. /\ B[Tmp("tokens")] = Tokens(t)
      /\ LayersTo(B, NLayer, {}, t)
      /\ B[Tmp("dh")] = DH(l + 1, t)
      /\ B[Tmp("d_mlp")] = Tensor("d_mlp_pre", l, t)
      /\ B[Tmp("loss")] = Tensor("loss", 0, t)
  BY Holds_mlpBack6
<1>2. Changes1(B, E, G("c_fc.b", l), B[G("c_fc.b", l)] (+) Only(Gradient("c_fc.b", l, t)))
  BY <1>1, Does_mlpBack6
<1>3. NextPlace(Place("mlpBack", l, 0), 6) = Place("mlpBack", l, 0)
                  /\ NextOp(Place("mlpBack", l, 0), 6) = 7
  BY NextOf_mlpBack
<1> QED BY <1>1, <1>2, <1>3, Carry_mlpBack6, Adds_mlpBack6 DEF Keeps

LEMMA Keeps_mlpBack7 ==
    ASSUME NEW l \in Layers, NEW t \in Passes, NEW B, WeightsHeld(B, StepOf(t)),
           PassHeld(B, Place("mlpBack", l, 0), 7, t)
    PROVE  Keeps(B, Effect(B, Ops(Place("mlpBack", l, 0))[7], Tokens(t)),
                     Place("mlpBack", l, 0), 7, t)
<1> PICK E : E = Effect(B, Ops(Place("mlpBack", l, 0))[7], Tokens(t))
  OBVIOUS
<1>1. /\ B[Tmp("tokens")] = Tokens(t)
      /\ LayersTo(B, NLayer, {}, t)
      /\ B[Tmp("dh")] = DH(l + 1, t)
      /\ B[Tmp("d_mlp")] = Tensor("d_mlp_pre", l, t)
      /\ B[Tmp("loss")] = Tensor("loss", 0, t)
  BY Holds_mlpBack7
<1>2. Changes1(B, E, Tmp("d_qkv"), Tensor("d_ln2_y", l, t))
  BY <1>1, Does_mlpBack7
<1>3. NextPlace(Place("mlpBack", l, 0), 7) = Place("mlpBack", l, 0)
                  /\ NextOp(Place("mlpBack", l, 0), 7) = 8
  BY NextOf_mlpBack
<1> QED BY <1>1, <1>2, <1>3, Carry_mlpBack7, Adds_mlpBack7 DEF Keeps

LEMMA Keeps_mlpBack8 ==
    ASSUME NEW l \in Layers, NEW t \in Passes, NEW B, WeightsHeld(B, StepOf(t)),
           PassHeld(B, Place("mlpBack", l, 0), 8, t)
    PROVE  Keeps(B, Effect(B, Ops(Place("mlpBack", l, 0))[8], Tokens(t)),
                     Place("mlpBack", l, 0), 8, t)
<1> PICK E : E = Effect(B, Ops(Place("mlpBack", l, 0))[8], Tokens(t))
  OBVIOUS
<1>1. /\ B[Tmp("tokens")] = Tokens(t)
      /\ LayersTo(B, NLayer, {}, t)
      /\ B[Tmp("dh")] = DH(l + 1, t)
      /\ B[Tmp("d_qkv")] = Tensor("d_ln2_y", l, t)
      /\ B[Tmp("loss")] = Tensor("loss", 0, t)
  BY Holds_mlpBack8
<1>2. /\ B[Act("xhat_ln2", l)] = Tensor("ln2_xhat", l, t)
      /\ B[Act("inv_std_ln2", l)] = Tensor("ln2_inv_std", l, t)
  BY <1>1, Parameters DEF LayersTo, ValueIn, PerLayer, Layers
<1>3. Changes1(B, E, Tmp("dh"), DHMid(l, t))
  BY <1>1, <1>2, Does_mlpBack8
<1>4. NextPlace(Place("mlpBack", l, 0), 8) = Place("mlpBack", l, 0)
                  /\ NextOp(Place("mlpBack", l, 0), 8) = 9
  BY NextOf_mlpBack
<1> QED BY <1>1, <1>3, <1>4, Carry_mlpBack8, Adds_mlpBack8 DEF Keeps

LEMMA Keeps_mlpBack9 ==
    ASSUME NEW l \in Layers, NEW t \in Passes, NEW B, WeightsHeld(B, StepOf(t)),
           PassHeld(B, Place("mlpBack", l, 0), 9, t)
    PROVE  Keeps(B, Effect(B, Ops(Place("mlpBack", l, 0))[9], Tokens(t)),
                     Place("mlpBack", l, 0), 9, t)
<1> PICK E : E = Effect(B, Ops(Place("mlpBack", l, 0))[9], Tokens(t))
  OBVIOUS
<1>1. /\ B[Tmp("tokens")] = Tokens(t)
      /\ LayersTo(B, NLayer, {}, t)
      /\ B[Tmp("dh")] = DHMid(l, t)
      /\ B[Tmp("d_qkv")] = Tensor("d_ln2_y", l, t)
      /\ B[Tmp("loss")] = Tensor("loss", 0, t)
  BY Holds_mlpBack9
<1>2. /\ B[Act("xhat_ln2", l)] = Tensor("ln2_xhat", l, t)
  BY <1>1, Parameters DEF LayersTo, ValueIn, PerLayer, Layers
<1>3. Changes2(B, E, G("ln_2.w", l), B[G("ln_2.w", l)] (+) Only(Gradient("ln_2.w", l, t)),
                G("ln_2.b", l), B[G("ln_2.b", l)] (+) Only(Gradient("ln_2.b", l, t)))
  BY <1>1, <1>2, Does_mlpBack9
<1>4. NextPlace(Place("mlpBack", l, 0), 9) = Place("projBack", l, 0)
                  /\ NextOp(Place("mlpBack", l, 0), 9) = 1
  BY NextOf_mlpBack
<1> QED BY <1>3, <1>4, Carry_mlpBack9, Adds_mlpBack9 DEF Keeps

LEMMA NextOf_projBack ==
    ASSUME NEW l \in Layers
    PROVE  /\ NextPlace(Place("projBack", l, 0), 1) = Place("projBack", l, 0)
                /\ NextOp(Place("projBack", l, 0), 1) = 2
           /\ NextPlace(Place("projBack", l, 0), 2) = Place("projBack", l, 0)
                /\ NextOp(Place("projBack", l, 0), 2) = 3
           /\ NextPlace(Place("projBack", l, 0), 3) = Place("attnBack", l, 0)
           /\ NextOp(Place("projBack", l, 0), 3) = 1
<1>1. PICK n : n = Len(Ops(Place("projBack", l, 0)))
  OBVIOUS
<1>2. n = 3
  BY <1>1, FitsOf_projBack
<1>3. 1 < n /\ 2 < n /\ ~(3 < n)
  BY <1>2
<1>4. NextPlace(Place("projBack", l, 0), 1) = Place("projBack", l, 0)
                  /\ NextOp(Place("projBack", l, 0), 1) = 1 + 1
  BY <1>1, <1>3, NextWithin, Zenon
<1>5. NextPlace(Place("projBack", l, 0), 2) = Place("projBack", l, 0)
                  /\ NextOp(Place("projBack", l, 0), 2) = 2 + 1
  BY <1>1, <1>3, NextWithin, Zenon
<1>6. NextPlace(Place("projBack", l, 0), 3) = After(Place("projBack", l, 0))
                  /\ NextOp(Place("projBack", l, 0), 3) = 1
  BY <1>1, <1>3, NextBeyond, Zenon
<1> QED BY <1>4, <1>5, <1>6, AfterIs

LEMMA Keeps_projBack1 ==
    ASSUME NEW l \in Layers, NEW t \in Passes, NEW B, WeightsHeld(B, StepOf(t)),
           PassHeld(B, Place("projBack", l, 0), 1, t)
    PROVE  Keeps(B, Effect(B, Ops(Place("projBack", l, 0))[1], Tokens(t)),
                     Place("projBack", l, 0), 1, t)
<1> PICK E : E = Effect(B, Ops(Place("projBack", l, 0))[1], Tokens(t))
  OBVIOUS
<1>1. /\ B[Tmp("tokens")] = Tokens(t)
      /\ LayersTo(B, NLayer, {}, t)
      /\ B[Tmp("dh")] = DHMid(l, t)
      /\ B[Tmp("loss")] = Tensor("loss", 0, t)
  BY Holds_projBack1
<1>2. /\ B[Act("attn_out", l)] = Tensor("attn_out", l, t)
  BY <1>1, Parameters DEF LayersTo, ValueIn, PerLayer, Layers
<1>3. Changes1(B, E, G("attn.c_proj.w", l),
                  B[G("attn.c_proj.w", l)] (+) Only(Gradient("attn.c_proj.w", l, t)))
  BY <1>1, <1>2, Does_projBack1
<1>4. NextPlace(Place("projBack", l, 0), 1) = Place("projBack", l, 0)
                  /\ NextOp(Place("projBack", l, 0), 1) = 2
  BY NextOf_projBack
<1> QED BY <1>1, <1>3, <1>4, Carry_projBack1, Adds_projBack1 DEF Keeps

LEMMA Keeps_projBack2 ==
    ASSUME NEW l \in Layers, NEW t \in Passes, NEW B, WeightsHeld(B, StepOf(t)),
           PassHeld(B, Place("projBack", l, 0), 2, t)
    PROVE  Keeps(B, Effect(B, Ops(Place("projBack", l, 0))[2], Tokens(t)),
                     Place("projBack", l, 0), 2, t)
<1> PICK E : E = Effect(B, Ops(Place("projBack", l, 0))[2], Tokens(t))
  OBVIOUS
<1>1. /\ B[Tmp("tokens")] = Tokens(t)
      /\ LayersTo(B, NLayer, {}, t)
      /\ B[Tmp("dh")] = DHMid(l, t)
      /\ B[Tmp("loss")] = Tensor("loss", 0, t)
  BY Holds_projBack2
<1>2. Changes1(B, E, G("attn.c_proj.b", l),
                  B[G("attn.c_proj.b", l)] (+) Only(Gradient("attn.c_proj.b", l, t)))
  BY <1>1, Does_projBack2
<1>3. NextPlace(Place("projBack", l, 0), 2) = Place("projBack", l, 0)
                  /\ NextOp(Place("projBack", l, 0), 2) = 3
  BY NextOf_projBack
<1> QED BY <1>1, <1>2, <1>3, Carry_projBack2, Adds_projBack2 DEF Keeps

LEMMA Keeps_projBack3 ==
    ASSUME NEW l \in Layers, NEW t \in Passes, NEW B, WeightsHeld(B, StepOf(t)),
           PassHeld(B, Place("projBack", l, 0), 3, t)
    PROVE  Keeps(B, Effect(B, Ops(Place("projBack", l, 0))[3], Tokens(t)),
                     Place("projBack", l, 0), 3, t)
<1> PICK E : E = Effect(B, Ops(Place("projBack", l, 0))[3], Tokens(t))
  OBVIOUS
<1>1. /\ B[Tmp("tokens")] = Tokens(t)
      /\ LayersTo(B, NLayer, {}, t)
      /\ B[Tmp("dh")] = DHMid(l, t)
      /\ B[Tmp("loss")] = Tensor("loss", 0, t)
  BY Holds_projBack3
<1>2. Changes1(B, E, Tmp("lnf_y"), Tensor("d_attn_out", l, t))
  BY <1>1, Does_projBack3
<1>3. NextPlace(Place("projBack", l, 0), 3) = Place("attnBack", l, 0)
                  /\ NextOp(Place("projBack", l, 0), 3) = 1
  BY NextOf_projBack
<1> QED BY <1>2, <1>3, Carry_projBack3, Adds_projBack3 DEF Keeps

LEMMA NextOf_attnBack ==
    ASSUME NEW l \in Layers, NEW h \in Heads
    PROVE  /\ NextPlace(Place("attnBack", l, h), 1) = Place("attnBack", l, h)
                /\ NextOp(Place("attnBack", l, h), 1) = 2
           /\ NextPlace(Place("attnBack", l, h), 2) = Place("attnBack", l, h)
                /\ NextOp(Place("attnBack", l, h), 2) = 3
           /\ h + 1 < NHead => NextPlace(Place("attnBack", l, h), 3) = Place("attnBack", l,
                h + 1)
           /\ ~(h + 1 < NHead) => NextPlace(Place("attnBack", l, h), 3) = Place("qkvBack", l, 0)
           /\ NextOp(Place("attnBack", l, h), 3) = 1
<1>1. PICK n : n = Len(Ops(Place("attnBack", l, h)))
  OBVIOUS
<1>2. n = 3
  BY <1>1, FitsOf_attnBack
<1>3. 1 < n /\ 2 < n /\ ~(3 < n)
  BY <1>2
<1>4. NextPlace(Place("attnBack", l, h), 1) = Place("attnBack", l, h)
                  /\ NextOp(Place("attnBack", l, h), 1) = 1 + 1
  BY <1>1, <1>3, NextWithin, Zenon
<1>5. NextPlace(Place("attnBack", l, h), 2) = Place("attnBack", l, h)
                  /\ NextOp(Place("attnBack", l, h), 2) = 2 + 1
  BY <1>1, <1>3, NextWithin, Zenon
<1>6. NextPlace(Place("attnBack", l, h), 3) = After(Place("attnBack", l, h))
                  /\ NextOp(Place("attnBack", l, h), 3) = 1
  BY <1>1, <1>3, NextBeyond, Zenon
<1> QED BY <1>4, <1>5, <1>6, AfterIs

LEMMA Keeps_attnBack1 ==
    ASSUME NEW l \in Layers, NEW h \in Heads, NEW t \in Passes, NEW B,
           WeightsHeld(B, StepOf(t)),
           PassHeld(B, Place("attnBack", l, h), 1, t)
    PROVE  Keeps(B, Effect(B, Ops(Place("attnBack", l, h))[1], Tokens(t)),
                     Place("attnBack", l, h), 1, t)
<1> PICK E : E = Effect(B, Ops(Place("attnBack", l, h))[1], Tokens(t))
  OBVIOUS
<1>1. /\ B[Tmp("tokens")] = Tokens(t)
      /\ LayersTo(B, NLayer, {}, t)
      /\ B[Tmp("dh")] = DHMid(l, t)
      /\ B[Tmp("lnf_y")] = Tensor("d_attn_out", l, t)
      /\ (h > 0 => B[Tmp("d_qkv")] = SetToBag(HeadGrads(l, h, 1, t)))
      /\ B[Tmp("loss")] = Tensor("loss", 0, t)
  BY Holds_attnBack1
<1>2. /\ B[Act("qkv", l)] = Tensor("qkv", l, t)
      /\ B[Act("P", l)] = Tensor("P", l, t)
  BY <1>1, Parameters DEF LayersTo, ValueIn, PerLayer, Layers
<1>3. Changes3(B, E, Tmp("d_qkv"), SetToBag(HeadGrads(l, h, 2, t)),
                Tmp("dP_tmp"), Only(Named("dP", l, h, t)),
                Tmp("dot_row"), Zero)
  BY <1>1, <1>2, Does_attnBack1
<1>4. NextPlace(Place("attnBack", l, h), 1) = Place("attnBack", l, h)
                  /\ NextOp(Place("attnBack", l, h), 1) = 2
  BY NextOf_attnBack
<1> QED BY <1>1, <1>3, <1>4, Carry_attnBack1, Adds_attnBack1 DEF Keeps

LEMMA Keeps_attnBack2 ==
    ASSUME NEW l \in Layers, NEW h \in Heads, NEW t \in Passes, NEW B,
           WeightsHeld(B, StepOf(t)),
           PassHeld(B, Place("attnBack", l, h), 2, t)
    PROVE  Keeps(B, Effect(B, Ops(Place("attnBack", l, h))[2], Tokens(t)),
                     Place("attnBack", l, h), 2, t)
<1> PICK E : E = Effect(B, Ops(Place("attnBack", l, h))[2], Tokens(t))
  OBVIOUS
<1>1. /\ B[Tmp("tokens")] = Tokens(t)
      /\ LayersTo(B, NLayer, {}, t)
      /\ B[Tmp("dh")] = DHMid(l, t)
      /\ B[Tmp("lnf_y")] = Tensor("d_attn_out", l, t)
      /\ B[Tmp("d_qkv")] = SetToBag(HeadGrads(l, h, 2, t))
      /\ B[Tmp("dP_tmp")] = Only(Named("dP", l, h, t))
      /\ B[Tmp("loss")] = Tensor("loss", 0, t)
  BY Holds_attnBack2
<1>2. /\ B[Act("qkv", l)] = Tensor("qkv", l, t)
      /\ B[Act("P", l)] = Tensor("P", l, t)
  BY <1>1, Parameters DEF LayersTo, ValueIn, PerLayer, Layers
<1>3. Changes2(B, E, Tmp("d_qkv"), SetToBag(HeadGrads(l, h, 3, t)),
                Tmp("dot_row"), Only(Named("dot", l, h, t)))
  BY <1>1, <1>2, Does_attnBack2
<1>4. NextPlace(Place("attnBack", l, h), 2) = Place("attnBack", l, h)
                  /\ NextOp(Place("attnBack", l, h), 2) = 3
  BY NextOf_attnBack
<1> QED BY <1>1, <1>3, <1>4, Carry_attnBack2, Adds_attnBack2 DEF Keeps

LEMMA Keeps_attnBack3 ==
    ASSUME NEW l \in Layers, NEW h \in Heads, NEW t \in Passes, NEW B,
           WeightsHeld(B, StepOf(t)),
           PassHeld(B, Place("attnBack", l, h), 3, t)
    PROVE  Keeps(B, Effect(B, Ops(Place("attnBack", l, h))[3], Tokens(t)),
                     Place("attnBack", l, h), 3, t)
<1> PICK E : E = Effect(B, Ops(Place("attnBack", l, h))[3], Tokens(t))
  OBVIOUS
<1>1. /\ B[Tmp("tokens")] = Tokens(t)
      /\ LayersTo(B, NLayer, {}, t)
      /\ B[Tmp("dh")] = DHMid(l, t)
      /\ B[Tmp("lnf_y")] = Tensor("d_attn_out", l, t)
      /\ B[Tmp("d_qkv")] = SetToBag(HeadGrads(l, h, 3, t))
      /\ B[Tmp("dP_tmp")] = Only(Named("dP", l, h, t))
      /\ B[Tmp("dot_row")] = Only(Named("dot", l, h, t))
      /\ B[Tmp("loss")] = Tensor("loss", 0, t)
  BY Holds_attnBack3
<1>2. /\ B[Act("qkv", l)] = Tensor("qkv", l, t)
      /\ B[Act("P", l)] = Tensor("P", l, t)
  BY <1>1, Parameters DEF LayersTo, ValueIn, PerLayer, Layers
<1>3. Changes1(B, E, Tmp("d_qkv"), SetToBag(HeadGrads(l, h + 1, 1, t)))
  BY <1>1, <1>2, Does_attnBack3
<1>4. CASE h + 1 < NHead
  <2>1. NextPlace(Place("attnBack", l, h), 3) = Place("attnBack", l, h + 1)
                    /\ NextOp(Place("attnBack", l, h), 3) = 1
    BY NextOf_attnBack, <1>4
  <2> QED BY <1>4, <1>3, <2>1, Carry_attnBack3a, Adds_attnBack3a DEF Keeps
<1>5. CASE ~(h + 1 < NHead)
  <2>1. NextPlace(Place("attnBack", l, h), 3) = Place("qkvBack", l, 0)
                    /\ NextOp(Place("attnBack", l, h), 3) = 1
    BY NextOf_attnBack, <1>5
  <2> QED BY <1>5, <1>3, <2>1, Carry_attnBack3b, Adds_attnBack3b DEF Keeps
<1> QED BY <1>4, <1>5

LEMMA NextOf_qkvBack ==
    ASSUME NEW l \in Layers
    PROVE  /\ NextPlace(Place("qkvBack", l, 0), 1) = Place("qkvBack", l, 0)
                /\ NextOp(Place("qkvBack", l, 0), 1) = 2
           /\ NextPlace(Place("qkvBack", l, 0), 2) = Place("qkvBack", l, 0)
                /\ NextOp(Place("qkvBack", l, 0), 2) = 3
           /\ NextPlace(Place("qkvBack", l, 0), 3) = Place("qkvBack", l, 0)
                /\ NextOp(Place("qkvBack", l, 0), 3) = 4
           /\ NextPlace(Place("qkvBack", l, 0), 4) = Place("qkvBack", l, 0)
                /\ NextOp(Place("qkvBack", l, 0), 4) = 5
           /\ l > 0 => NextPlace(Place("qkvBack", l, 0), 5) = Place("mlpBack", l - 1, 0)
           /\ ~(l > 0) => NextPlace(Place("qkvBack", l, 0), 5) = Place("embedBack", 0, 0)
           /\ NextOp(Place("qkvBack", l, 0), 5) = 1
<1>1. PICK n : n = Len(Ops(Place("qkvBack", l, 0)))
  OBVIOUS
<1>2. n = 5
  BY <1>1, FitsOf_qkvBack
<1>3. 1 < n /\ 2 < n /\ 3 < n /\ 4 < n /\ ~(5 < n)
  BY <1>2
<1>4. NextPlace(Place("qkvBack", l, 0), 1) = Place("qkvBack", l, 0)
                  /\ NextOp(Place("qkvBack", l, 0), 1) = 1 + 1
  BY <1>1, <1>3, NextWithin, Zenon
<1>5. NextPlace(Place("qkvBack", l, 0), 2) = Place("qkvBack", l, 0)
                  /\ NextOp(Place("qkvBack", l, 0), 2) = 2 + 1
  BY <1>1, <1>3, NextWithin, Zenon
<1>6. NextPlace(Place("qkvBack", l, 0), 3) = Place("qkvBack", l, 0)
                  /\ NextOp(Place("qkvBack", l, 0), 3) = 3 + 1
  BY <1>1, <1>3, NextWithin, Zenon
<1>7. NextPlace(Place("qkvBack", l, 0), 4) = Place("qkvBack", l, 0)
                  /\ NextOp(Place("qkvBack", l, 0), 4) = 4 + 1
  BY <1>1, <1>3, NextWithin, Zenon
<1>8. NextPlace(Place("qkvBack", l, 0), 5) = After(Place("qkvBack", l, 0))
                  /\ NextOp(Place("qkvBack", l, 0), 5) = 1
  BY <1>1, <1>3, NextBeyond, Zenon
<1> QED BY <1>4, <1>5, <1>6, <1>7, <1>8, AfterIs

LEMMA Keeps_qkvBack1 ==
    ASSUME NEW l \in Layers, NEW t \in Passes, NEW B, WeightsHeld(B, StepOf(t)),
           PassHeld(B, Place("qkvBack", l, 0), 1, t)
    PROVE  Keeps(B, Effect(B, Ops(Place("qkvBack", l, 0))[1], Tokens(t)),
                     Place("qkvBack", l, 0), 1, t)
<1> PICK E : E = Effect(B, Ops(Place("qkvBack", l, 0))[1], Tokens(t))
  OBVIOUS
<1>1. /\ B[Tmp("tokens")] = Tokens(t)
      /\ LayersTo(B, NLayer, {}, t)
      /\ B[Tmp("dh")] = DHMid(l, t)
      /\ B[Tmp("d_qkv")] = DQkv(l, t)
      /\ B[Tmp("loss")] = Tensor("loss", 0, t)
  BY Holds_qkvBack1
<1>2. /\ B[Act("ln1_y", l)] = Tensor("ln1_y", l, t)
  BY <1>1, Parameters DEF LayersTo, ValueIn, PerLayer, Layers
<1>3. Changes1(B, E, G("c_attn.w", l), B[G("c_attn.w", l)] (+) Only(Gradient("c_attn.w", l, t)))
  BY <1>1, <1>2, Does_qkvBack1
<1>4. NextPlace(Place("qkvBack", l, 0), 1) = Place("qkvBack", l, 0)
                  /\ NextOp(Place("qkvBack", l, 0), 1) = 2
  BY NextOf_qkvBack
<1> QED BY <1>1, <1>3, <1>4, Carry_qkvBack1, Adds_qkvBack1 DEF Keeps

LEMMA Keeps_qkvBack2 ==
    ASSUME NEW l \in Layers, NEW t \in Passes, NEW B, WeightsHeld(B, StepOf(t)),
           PassHeld(B, Place("qkvBack", l, 0), 2, t)
    PROVE  Keeps(B, Effect(B, Ops(Place("qkvBack", l, 0))[2], Tokens(t)),
                     Place("qkvBack", l, 0), 2, t)
<1> PICK E : E = Effect(B, Ops(Place("qkvBack", l, 0))[2], Tokens(t))
  OBVIOUS
<1>1. /\ B[Tmp("tokens")] = Tokens(t)
      /\ LayersTo(B, NLayer, {}, t)
      /\ B[Tmp("dh")] = DHMid(l, t)
      /\ B[Tmp("d_qkv")] = DQkv(l, t)
      /\ B[Tmp("loss")] = Tensor("loss", 0, t)
  BY Holds_qkvBack2
<1>2. Changes1(B, E, G("c_attn.b", l), B[G("c_attn.b", l)] (+) Only(Gradient("c_attn.b", l, t)))
  BY <1>1, Does_qkvBack2
<1>3. NextPlace(Place("qkvBack", l, 0), 2) = Place("qkvBack", l, 0)
                  /\ NextOp(Place("qkvBack", l, 0), 2) = 3
  BY NextOf_qkvBack
<1> QED BY <1>1, <1>2, <1>3, Carry_qkvBack2, Adds_qkvBack2 DEF Keeps

LEMMA Keeps_qkvBack3 ==
    ASSUME NEW l \in Layers, NEW t \in Passes, NEW B, WeightsHeld(B, StepOf(t)),
           PassHeld(B, Place("qkvBack", l, 0), 3, t)
    PROVE  Keeps(B, Effect(B, Ops(Place("qkvBack", l, 0))[3], Tokens(t)),
                     Place("qkvBack", l, 0), 3, t)
<1> PICK E : E = Effect(B, Ops(Place("qkvBack", l, 0))[3], Tokens(t))
  OBVIOUS
<1>1. /\ B[Tmp("tokens")] = Tokens(t)
      /\ LayersTo(B, NLayer, {}, t)
      /\ B[Tmp("dh")] = DHMid(l, t)
      /\ B[Tmp("d_qkv")] = DQkv(l, t)
      /\ B[Tmp("loss")] = Tensor("loss", 0, t)
  BY Holds_qkvBack3
<1>2. Changes1(B, E, Tmp("lnf_y"), Tensor("d_ln1_y", l, t))
  BY <1>1, Does_qkvBack3
<1>3. NextPlace(Place("qkvBack", l, 0), 3) = Place("qkvBack", l, 0)
                  /\ NextOp(Place("qkvBack", l, 0), 3) = 4
  BY NextOf_qkvBack
<1> QED BY <1>1, <1>2, <1>3, Carry_qkvBack3, Adds_qkvBack3 DEF Keeps

LEMMA Keeps_qkvBack4 ==
    ASSUME NEW l \in Layers, NEW t \in Passes, NEW B, WeightsHeld(B, StepOf(t)),
           PassHeld(B, Place("qkvBack", l, 0), 4, t)
    PROVE  Keeps(B, Effect(B, Ops(Place("qkvBack", l, 0))[4], Tokens(t)),
                     Place("qkvBack", l, 0), 4, t)
<1> PICK E : E = Effect(B, Ops(Place("qkvBack", l, 0))[4], Tokens(t))
  OBVIOUS
<1>1. /\ B[Tmp("tokens")] = Tokens(t)
      /\ LayersTo(B, NLayer, {}, t)
      /\ B[Tmp("dh")] = DHMid(l, t)
      /\ B[Tmp("d_qkv")] = DQkv(l, t)
      /\ B[Tmp("lnf_y")] = Tensor("d_ln1_y", l, t)
      /\ B[Tmp("loss")] = Tensor("loss", 0, t)
  BY Holds_qkvBack4
<1>2. /\ B[Act("xhat_ln1", l)] = Tensor("ln1_xhat", l, t)
      /\ B[Act("inv_std_ln1", l)] = Tensor("ln1_inv_std", l, t)
  BY <1>1, Parameters DEF LayersTo, ValueIn, PerLayer, Layers
<1>3. Changes1(B, E, Tmp("dh"), DH(l, t))
  BY <1>1, <1>2, Does_qkvBack4
<1>4. NextPlace(Place("qkvBack", l, 0), 4) = Place("qkvBack", l, 0)
                  /\ NextOp(Place("qkvBack", l, 0), 4) = 5
  BY NextOf_qkvBack
<1> QED BY <1>1, <1>3, <1>4, Carry_qkvBack4, Adds_qkvBack4 DEF Keeps

LEMMA Keeps_qkvBack5 ==
    ASSUME NEW l \in Layers, NEW t \in Passes, NEW B, WeightsHeld(B, StepOf(t)),
           PassHeld(B, Place("qkvBack", l, 0), 5, t)
    PROVE  Keeps(B, Effect(B, Ops(Place("qkvBack", l, 0))[5], Tokens(t)),
                     Place("qkvBack", l, 0), 5, t)
<1> PICK E : E = Effect(B, Ops(Place("qkvBack", l, 0))[5], Tokens(t))
  OBVIOUS
<1>1. /\ B[Tmp("tokens")] = Tokens(t)
      /\ LayersTo(B, NLayer, {}, t)
      /\ B[Tmp("dh")] = DH(l, t)
      /\ B[Tmp("d_qkv")] = DQkv(l, t)
      /\ B[Tmp("lnf_y")] = Tensor("d_ln1_y", l, t)
      /\ B[Tmp("loss")] = Tensor("loss", 0, t)
  BY Holds_qkvBack5
<1>2. /\ B[Act("xhat_ln1", l)] = Tensor("ln1_xhat", l, t)
  BY <1>1, Parameters DEF LayersTo, ValueIn, PerLayer, Layers
<1>3. Changes2(B, E, G("ln_1.w", l), B[G("ln_1.w", l)] (+) Only(Gradient("ln_1.w", l, t)),
                G("ln_1.b", l), B[G("ln_1.b", l)] (+) Only(Gradient("ln_1.b", l, t)))
  BY <1>1, <1>2, Does_qkvBack5
<1>4. CASE l > 0
  <2>1. NextPlace(Place("qkvBack", l, 0), 5) = Place("mlpBack", l - 1, 0)
                    /\ NextOp(Place("qkvBack", l, 0), 5) = 1
    BY NextOf_qkvBack, <1>4
  <2> QED BY <1>4, <1>3, <2>1, Carry_qkvBack5a, Adds_qkvBack5a DEF Keeps
<1>5. CASE ~(l > 0)
  <2>1. NextPlace(Place("qkvBack", l, 0), 5) = Place("embedBack", 0, 0)
                    /\ NextOp(Place("qkvBack", l, 0), 5) = 1
    BY NextOf_qkvBack, <1>5
  <2> QED BY <1>5, <1>3, <2>1, Carry_qkvBack5b, Adds_qkvBack5b DEF Keeps
<1> QED BY <1>4, <1>5

LEMMA NextOf_embedBack ==
    /\ NextPlace(Place("embedBack", 0, 0), 1) = Place("end", 0, 0)
    /\ NextOp(Place("embedBack", 0, 0), 1) = 1
<1>1. PICK n : n = Len(Ops(Place("embedBack", 0, 0)))
  OBVIOUS
<1>2. n = 1
  BY <1>1, FitsOf_embedBack
<1>3. ~(1 < n)
  BY <1>2
<1>4. NextPlace(Place("embedBack", 0, 0), 1) = After(Place("embedBack", 0, 0))
                  /\ NextOp(Place("embedBack", 0, 0), 1) = 1
  BY <1>1, <1>3, NextBeyond, Zenon
<1> QED BY <1>4, AfterIs

LEMMA Keeps_embedBack1 ==
    ASSUME NEW t \in Passes, NEW B, WeightsHeld(B, StepOf(t)),
           PassHeld(B, Place("embedBack", 0, 0), 1, t)
    PROVE  Keeps(B, Effect(B, Ops(Place("embedBack", 0, 0))[1], Tokens(t)),
                     Place("embedBack", 0, 0), 1, t)
<1> PICK E : E = Effect(B, Ops(Place("embedBack", 0, 0))[1], Tokens(t))
  OBVIOUS
<1>1. /\ B[Tmp("tokens")] = Tokens(t)
      /\ LayersTo(B, NLayer, {}, t)
      /\ B[Tmp("dh")] = DH(0, t)
      /\ B[Tmp("loss")] = Tensor("loss", 0, t)
  BY Holds_embedBack1
<1>2. Changes2(B, E, G("wte", 0), B[G("wte", 0)] (+) Only(Gradient("wte:embed", 0, t)),
                G("wpe", 0), B[G("wpe", 0)] (+) Only(Gradient("wpe", 0, t)))
  BY <1>1, Does_embedBack1
<1>3. NextPlace(Place("embedBack", 0, 0), 1) = Place("end", 0, 0)
                  /\ NextOp(Place("embedBack", 0, 0), 1) = 1
  BY NextOf_embedBack
<1> QED BY <1>2, <1>3, Carry_embedBack1, Adds_embedBack1 DEF Keeps

\* Whatever the place is.
LEMMA DispatchKeeps ==
    ASSUME NEW t \in Passes, NEW B, NEW p \in Places, p # End, NEW k \in 1 .. Len(Ops(p)),
           WeightsHeld(B, StepOf(t)), PassHeld(B, p, k, t)
    PROVE  Keeps(B, Effect(B, Ops(p)[k], Tokens(t)), p, k, t)
<1>1. CASE p = Place("embed", 0, 0)
  <2>1. k = 1
    <3>1. PICK c : c = Len(Ops(p))
      OBVIOUS
    <3>2. c = 1
      BY <1>1, <3>1, FitsOf_embed
    <3>3. k \in 1 .. c
      BY <3>1, Zenon
    <3> QED BY <3>2, <3>3
  <2>2. CASE k = 1
    BY <1>1, <2>2, Keeps_embed1
  <2> QED BY <2>1, <2>2
<1>2. ASSUME NEW l \in Layers, p = Place("attnForward", l, 0)
      PROVE  Keeps(B, Effect(B, Ops(p)[k], Tokens(t)), p, k, t)
  <2>1. k = 1 \/ k = 2 \/ k = 3 \/ k = 4 \/ k = 5
    <3>1. PICK c : c = Len(Ops(p))
      OBVIOUS
    <3>2. c = 5
      BY <1>2, <3>1, FitsOf_attnForward
    <3>3. k \in 1 .. c
      BY <3>1, Zenon
    <3> QED BY <3>2, <3>3
  <2>2. CASE k = 1
    BY <1>2, <2>2, Keeps_attnForward1
  <2>3. CASE k = 2
    BY <1>2, <2>3, Keeps_attnForward2
  <2>4. CASE k = 3
    BY <1>2, <2>4, Keeps_attnForward3
  <2>5. CASE k = 4
    BY <1>2, <2>5, Keeps_attnForward4
  <2>6. CASE k = 5
    BY <1>2, <2>6, Keeps_attnForward5
  <2> QED BY <2>1, <2>2, <2>3, <2>4, <2>5, <2>6
<1>3. ASSUME NEW l \in Layers, p = Place("mlpForward", l, 0)
      PROVE  Keeps(B, Effect(B, Ops(p)[k], Tokens(t)), p, k, t)
  <2>1. k = 1 \/ k = 2 \/ k = 3 \/ k = 4 \/ k = 5
    <3>1. PICK c : c = Len(Ops(p))
      OBVIOUS
    <3>2. c = 5
      BY <1>3, <3>1, FitsOf_mlpForward
    <3>3. k \in 1 .. c
      BY <3>1, Zenon
    <3> QED BY <3>2, <3>3
  <2>2. CASE k = 1
    BY <1>3, <2>2, Keeps_mlpForward1
  <2>3. CASE k = 2
    BY <1>3, <2>3, Keeps_mlpForward2
  <2>4. CASE k = 3
    BY <1>3, <2>4, Keeps_mlpForward3
  <2>5. CASE k = 4
    BY <1>3, <2>5, Keeps_mlpForward4
  <2>6. CASE k = 5
    BY <1>3, <2>6, Keeps_mlpForward5
  <2> QED BY <2>1, <2>2, <2>3, <2>4, <2>5, <2>6
<1>4. CASE p = Place("head", 0, 0)
  <2>1. k = 1 \/ k = 2 \/ k = 3
    <3>1. PICK c : c = Len(Ops(p))
      OBVIOUS
    <3>2. c = 3
      BY <1>4, <3>1, FitsOf_head
    <3>3. k \in 1 .. c
      BY <3>1, Zenon
    <3> QED BY <3>2, <3>3
  <2>2. CASE k = 1
    BY <1>4, <2>2, Keeps_head1
  <2>3. CASE k = 2
    BY <1>4, <2>3, Keeps_head2
  <2>4. CASE k = 3
    BY <1>4, <2>4, Keeps_head3
  <2> QED BY <2>1, <2>2, <2>3, <2>4
<1>5. CASE p = Place("headBack", 0, 0)
  <2>1. k = 1 \/ k = 2 \/ k = 3 \/ k = 4 \/ k = 5
    <3>1. PICK c : c = Len(Ops(p))
      OBVIOUS
    <3>2. c = 5
      BY <1>5, <3>1, FitsOf_headBack
    <3>3. k \in 1 .. c
      BY <3>1, Zenon
    <3> QED BY <3>2, <3>3
  <2>2. CASE k = 1
    BY <1>5, <2>2, Keeps_headBack1
  <2>3. CASE k = 2
    BY <1>5, <2>3, Keeps_headBack2
  <2>4. CASE k = 3
    BY <1>5, <2>4, Keeps_headBack3
  <2>5. CASE k = 4
    BY <1>5, <2>5, Keeps_headBack4
  <2>6. CASE k = 5
    BY <1>5, <2>6, Keeps_headBack5
  <2> QED BY <2>1, <2>2, <2>3, <2>4, <2>5, <2>6
<1>6. ASSUME NEW l \in Layers, p = Place("mlpBack", l, 0)
      PROVE  Keeps(B, Effect(B, Ops(p)[k], Tokens(t)), p, k, t)
  <2>1. k = 1 \/ k = 2 \/ k = 3 \/ k = 4 \/ k = 5 \/ k = 6 \/ k = 7 \/ k = 8 \/ k = 9
    <3>1. PICK c : c = Len(Ops(p))
      OBVIOUS
    <3>2. c = 9
      BY <1>6, <3>1, FitsOf_mlpBack
    <3>3. k \in 1 .. c
      BY <3>1, Zenon
    <3> QED BY <3>2, <3>3
  <2>2. CASE k = 1
    BY <1>6, <2>2, Keeps_mlpBack1
  <2>3. CASE k = 2
    BY <1>6, <2>3, Keeps_mlpBack2
  <2>4. CASE k = 3
    BY <1>6, <2>4, Keeps_mlpBack3
  <2>5. CASE k = 4
    BY <1>6, <2>5, Keeps_mlpBack4
  <2>6. CASE k = 5
    BY <1>6, <2>6, Keeps_mlpBack5
  <2>7. CASE k = 6
    BY <1>6, <2>7, Keeps_mlpBack6
  <2>8. CASE k = 7
    BY <1>6, <2>8, Keeps_mlpBack7
  <2>9. CASE k = 8
    BY <1>6, <2>9, Keeps_mlpBack8
  <2>10. CASE k = 9
    BY <1>6, <2>10, Keeps_mlpBack9
  <2> QED BY <2>1, <2>2, <2>3, <2>4, <2>5, <2>6, <2>7, <2>8, <2>9, <2>10
<1>7. ASSUME NEW l \in Layers, p = Place("projBack", l, 0)
      PROVE  Keeps(B, Effect(B, Ops(p)[k], Tokens(t)), p, k, t)
  <2>1. k = 1 \/ k = 2 \/ k = 3
    <3>1. PICK c : c = Len(Ops(p))
      OBVIOUS
    <3>2. c = 3
      BY <1>7, <3>1, FitsOf_projBack
    <3>3. k \in 1 .. c
      BY <3>1, Zenon
    <3> QED BY <3>2, <3>3
  <2>2. CASE k = 1
    BY <1>7, <2>2, Keeps_projBack1
  <2>3. CASE k = 2
    BY <1>7, <2>3, Keeps_projBack2
  <2>4. CASE k = 3
    BY <1>7, <2>4, Keeps_projBack3
  <2> QED BY <2>1, <2>2, <2>3, <2>4
<1>8. ASSUME NEW l \in Layers, NEW h \in Heads, p = Place("attnBack", l, h)
      PROVE  Keeps(B, Effect(B, Ops(p)[k], Tokens(t)), p, k, t)
  <2>1. k = 1 \/ k = 2 \/ k = 3
    <3>1. PICK c : c = Len(Ops(p))
      OBVIOUS
    <3>2. c = 3
      BY <1>8, <3>1, FitsOf_attnBack
    <3>3. k \in 1 .. c
      BY <3>1, Zenon
    <3> QED BY <3>2, <3>3
  <2>2. CASE k = 1
    BY <1>8, <2>2, Keeps_attnBack1
  <2>3. CASE k = 2
    BY <1>8, <2>3, Keeps_attnBack2
  <2>4. CASE k = 3
    BY <1>8, <2>4, Keeps_attnBack3
  <2> QED BY <2>1, <2>2, <2>3, <2>4
<1>9. ASSUME NEW l \in Layers, p = Place("qkvBack", l, 0)
      PROVE  Keeps(B, Effect(B, Ops(p)[k], Tokens(t)), p, k, t)
  <2>1. k = 1 \/ k = 2 \/ k = 3 \/ k = 4 \/ k = 5
    <3>1. PICK c : c = Len(Ops(p))
      OBVIOUS
    <3>2. c = 5
      BY <1>9, <3>1, FitsOf_qkvBack
    <3>3. k \in 1 .. c
      BY <3>1, Zenon
    <3> QED BY <3>2, <3>3
  <2>2. CASE k = 1
    BY <1>9, <2>2, Keeps_qkvBack1
  <2>3. CASE k = 2
    BY <1>9, <2>3, Keeps_qkvBack2
  <2>4. CASE k = 3
    BY <1>9, <2>4, Keeps_qkvBack3
  <2>5. CASE k = 4
    BY <1>9, <2>5, Keeps_qkvBack4
  <2>6. CASE k = 5
    BY <1>9, <2>6, Keeps_qkvBack5
  <2> QED BY <2>1, <2>2, <2>3, <2>4, <2>5, <2>6
<1>10. CASE p = Place("embedBack", 0, 0)
  <2>1. k = 1
    <3>1. PICK c : c = Len(Ops(p))
      OBVIOUS
    <3>2. c = 1
      BY <1>10, <3>1, FitsOf_embedBack
    <3>3. k \in 1 .. c
      BY <3>1, Zenon
    <3> QED BY <3>2, <3>3
  <2>2. CASE k = 1
    BY <1>10, <2>2, Keeps_embedBack1
  <2> QED BY <2>1, <2>2
<1> QED BY <1>1, <1>2, <1>3, <1>4, <1>5, <1>6, <1>7, <1>8, <1>9, <1>10, PlaceParts

-----------------------------------------------------------------------------
(* The gradients over the loop                                               *)

\* Two passes are the same only for the same step and sequence.
LEMMA PassIs ==
    \A v \in 0 .. MaxSteps - 1, q \in 0 .. NSeq - 1 :
        Pass(v, q) \in Passes /\ StepOf(Pass(v, q)) = v /\ Pass(v, q) % NSeq = q
<1> TAKE v \in 0 .. MaxSteps - 1, q \in 0 .. NSeq - 1
<1>1. v \in Nat /\ v <= MaxSteps - 1 /\ q \in Nat /\ q <= NSeq - 1
  BY Parameters
<1>2. v * NSeq = NSeq * v /\ NSeq * v \in Nat
  BY <1>1, Parameters
<1>3. Pass(v, q) = NSeq * v + q
  BY <1>2 DEF Pass
<1>4. NSeq * v <= NSeq * (MaxSteps - 1)
  BY <1>1, Parameters
<1>5. NSeq * (MaxSteps - 1) = MaxSteps * NSeq - NSeq
  BY Parameters
<1>6. Pass(v, q) \in Passes
  BY <1>1, <1>2, <1>3, <1>4, <1>5, Parameters DEF Passes
<1>7. (NSeq * v + q) \div NSeq = v /\ (NSeq * v + q) % NSeq = q
  BY <1>1, Parameters, DivUnique
<1> QED BY <1>3, <1>6, <1>7 DEF StepOf

\* The sequences of a batch, each once.
LEMMA BatchAt ==
    ASSUME LoopInv
    PROVE  /\ \A j \in 1 .. Len(batch) : batch[j] \in 0 .. NSeq - 1
           /\ \A j, k \in 1 .. Len(batch) : batch[j] = batch[k] => j = k
<1>1. \A S : \A q \in Seq(S) : DOMAIN q = 1 .. Len(q) /\ \A j \in 1 .. Len(q) : q[j] \in S
  OBVIOUS
<1>2. batch \in Seq(0 .. NSeq - 1)
  BY Zenon DEF LoopInv
<1>3. \A j, k \in DOMAIN batch : batch[j] = batch[k] => j = k
  BY Zenon DEF LoopInv, Distinct
<1> QED BY <1>1, <1>2, <1>3, Zenon

\* The pass of a sequence that is long enough.
LEMMA CurrentPassIs ==
    ASSUME length # "short", LoopInv, phase = "sequence" \/ phase = "run", i <= Len(batch)
    PROVE  /\ s \in 0 .. MaxSteps - 1 /\ step = s /\ i \in 1 .. Len(batch)
           /\ batch[i] \in 0 .. NSeq - 1
           /\ CurrentPass \in Passes /\ StepOf(CurrentPass) = s
           /\ length = "tiny" \/ length = "full"
<1>1. s \in 0 .. MaxSteps - 1 /\ step = s
  BY LoopFacts, Parameters DEF LoopInv
<1>2. i \in 1 .. Len(batch)
  BY LoopFacts
<1>3. batch[i] \in 0 .. NSeq - 1
  BY <1>2, BatchAt
<1>4. length = "tiny" \/ length = "full"
  BY GPT2TrainerAssumption DEF LoopInv, TypeOK
<1> QED BY <1>1, <1>2, <1>3, <1>4, PassIs DEF CurrentPass

\* A pass that has come to its end has added what it contributes.
LEMMA PassEnds ==
    ASSUME NEW q \in Params, NEW t
    PROVE  PassGrads(q, End, 1, t) = BagToSet(Contribution(q, t))
<1>1. PassGrads(q, End, 1, t) = Grads(q, TRUE, TRUE, TRUE, -1, {}, t)
  BY Grads_end1 DEF End
<1>2. BagToSet(Contribution(q, t)) =
          {Gradient(n, q[2], t) : n \in IF q[1] = "wte" THEN {"wte:head", "wte:embed"}
              ELSE {q[1]}}
  BY BagOf DEF Contribution
<1>3. CASE q[1] \in GlobalParams /\ q[2] = 0
  BY <1>1, <1>2, <1>3 DEF Grads, GlobalParams
<1>4. CASE q[1] \in LayerParams /\ q[2] \in Layers
  <2>1. q[1] \notin {"wte", "wpe", "ln_f.w", "ln_f.b"}
    BY <1>4 DEF LayerParams
  <2>2. q[2] > -1
    BY <1>4, Parameters DEF Layers
  <2> QED BY <1>1, <1>2, <2>1, <2>2 DEF Grads
<1> QED BY <1>3, <1>4, ParamIs

\* What a batch has added, sequence by sequence.
LEMMA BatchGrows ==
    ASSUME NEW q, NEW v, NEW ss, NEW n \in Nat
    PROVE  /\ BatchGrads(q, v, ss, 0) = {}
           /\ length = "tiny" => BatchGrads(q, v, ss, n) = {}
           /\ length # "tiny" => BatchGrads(q, v, ss, n + 1) =
                 BatchGrads(q, v, ss, n) \cup BagToSet(Contribution(q, Pass(v, ss[n + 1])))
<1>1. 1 .. 0 = {} /\ 1 .. n + 1 = (1 .. n) \cup {n + 1}
  OBVIOUS
<1>2. \A m : BatchGrads(q, v, ss, m) =
          UNION {BagToSet(Contribution(q, Pass(v, ss[j]))) :
              j \in {j \in 1 .. m : length # "tiny"}}
  BY DEF BatchGrads
<1>3. BatchGrads(q, v, ss, 0) = {}
  BY <1>1, <1>2
<1>4. length = "tiny" => BatchGrads(q, v, ss, n) = {}
  BY <1>2
<1>5. length # "tiny" => BatchGrads(q, v, ss, n + 1) =
          BatchGrads(q, v, ss, n) \cup BagToSet(Contribution(q, Pass(v, ss[n + 1])))
  BY <1>1, <1>2
<1> QED BY <1>3, <1>4, <1>5

\* The terms of a pass are not those of the passes before it in the batch.
LEMMA BatchFresh ==
    ASSUME LoopInv, NEW q \in Params, NEW v \in 0 .. MaxSteps - 1, NEW k \in 1 .. Len(batch),
           NEW n
    PROVE  Gradient(n, q[2], Pass(v, batch[k])) \notin BatchGrads(q, v, batch, k - 1)
<1> SUFFICES ASSUME NEW j \in 1 .. k - 1,
                    Gradient(n, q[2], Pass(v, batch[k])) \in BagToSet(Contribution(q,
                                 Pass(v, batch[j])))
             PROVE  FALSE
  BY DEF BatchGrads
<1>1. Len(batch) \in Nat
  BY LoopFacts
<1>2. j \in 1 .. Len(batch) /\ j # k
  BY <1>1
<1>3. batch[j] \in 0 .. NSeq - 1 /\ batch[k] \in 0 .. NSeq - 1 /\ batch[j] # batch[k]
  BY <1>2, BatchAt
<1>4. Pass(v, batch[j]) # Pass(v, batch[k])
  BY <1>3, PassIs
<1>5. BagToSet(Contribution(q, Pass(v, batch[j]))) =
          {Gradient(m, q[2], Pass(v, batch[j])) :
             m \in IF q[1] = "wte" THEN {"wte:head", "wte:embed"} ELSE {q[1]}}
  BY BagOf DEF Contribution
<1> QED BY <1>4, <1>5, GradientInj

-----------------------------------------------------------------------------
(* Each action keeps the gradients                                           *)

\* The gradients match initially, before the first sequence.
LEMMA GradsInit == Init => GradInv
BY DEF Init, GradInv

LEMMA GradsNextBatch == LoopInv /\ NextBatch => GradInv'
<1> HAVE LoopInv /\ NextBatch
<1>1. phase' = "sequence" /\ i' = 1 /\ buf' = [b \in Buffers |-> IF b \in ZeroedByStep
          THEN Zero ELSE buf[b]]
  BY DEF NextBatch, Cleared
<1>2. ASSUME NEW q \in Params PROVE buf'[G(q[1], q[2])] = SetToBag(BatchGrads(q, s, batch,
             i - 1))'
  <2>1. G(q[1], q[2]) \in Buffers /\ G(q[1], q[2]) \in ZeroedByStep
    BY BufferNames DEF Buffers, ZeroedByStep
  <2>2. BatchGrads(q, s, batch, i - 1)' = {}
    <3>1. {j \in 1 .. i' - 1 : length' # "tiny"} = {}
      BY <1>1
    <3> QED BY <3>1 DEF BatchGrads
  <2> QED BY <1>1, <2>1, <2>2, ZeroIsNone
<1> QED BY <1>1, <1>2 DEF GradInv

LEMMA GradsSkip == LoopInv /\ GradInv /\ SkipSequence => GradInv'
<1> HAVE LoopInv /\ GradInv /\ SkipSequence
<1>1. /\ phase = "sequence" /\ length = "tiny" /\ i' = i + 1 /\ buf' = buf /\ s' = s
           /\ batch' = batch
      /\ phase' = phase /\ length' = length
  BY DEF SkipSequence, gpuVars, loopVars
<1>2. ASSUME NEW q \in Params PROVE buf'[G(q[1], q[2])] = SetToBag(BatchGrads(q, s, batch,
             i - 1))'
  <2>1. BatchGrads(q, s, batch, i - 1)' = {} /\ BatchGrads(q, s, batch, i - 1) = {}
    BY <1>1 DEF BatchGrads
  <2> QED BY <1>1, <2>1 DEF GradInv
<1> QED BY <1>1, <1>2 DEF GradInv

LEMMA GradsStart ==
    ASSUME length # "short"
    PROVE  LoopInv /\ GradInv /\ StartSequence => GradInv'
<1> HAVE LoopInv /\ GradInv /\ StartSequence
<1>1. /\ phase = "sequence" /\ i <= Len(batch) /\ length # "tiny"
      /\ phase' = "run" /\ at' = Start /\ pc' = 1
      /\ s' = s /\ batch' = batch /\ i' = i /\ length' = length
      /\ buf' = [buf EXCEPT ![Tmp("tokens")] = Uploaded]
  BY DEF StartSequence, loopVars
<1>2. CurrentPass \in Passes /\ CurrentPass' = CurrentPass /\ Uploaded = Tokens(CurrentPass)
  BY <1>1, CurrentPassIs DEF CurrentPass, Uploaded
<1>3. \A b \in Buffers : buf'[b] = IF b = Tmp("tokens") THEN Tokens(CurrentPass) ELSE buf[b]
  BY <1>1, <1>2 DEF LoopInv
<1>4. buf'[Tmp("tokens")] = Tokens(CurrentPass)
  BY <1>3, SharedBuffers DEF Shared
<1>5. PassHeld(buf', Start, 1, CurrentPass)
  <2>1. LayersTo(buf', 0, {}, CurrentPass)
    BY Parameters DEF LayersTo, Layers
  <2> QED BY <1>4, <2>1, Holds_embed1 DEF Start
<1>6. ASSUME NEW q \in Params
      PROVE  buf'[G(q[1], q[2])] = SetToBag(BatchGrads(q, s, batch, i - 1) \cup PassGrads(q,
                 Start, 1, CurrentPass))
  <2>1. G(q[1], q[2]) \in Buffers /\ G(q[1], q[2]) # Tmp("tokens")
    BY BufferNames, Tags DEF Buffers, Tmp
  <2>2. PassGrads(q, Start, 1, CurrentPass) = Grads(q, FALSE, FALSE, FALSE, NLayer, {},
                    CurrentPass)
    BY Grads_embed1 DEF Start
  <2>3. Grads(q, FALSE, FALSE, FALSE, NLayer, {}, CurrentPass) = {}
    BY ParamIs, Parameters DEF Grads, GlobalParams, Layers
  <2> QED BY <1>1, <1>3, <2>1, <2>2, <2>3 DEF GradInv
<1>7. ASSUME NEW q \in Params
      PROVE  (BatchGrads(q, s, batch, i - 1) \cup PassGrads(q, at, pc, CurrentPass))'
                 = BatchGrads(q, s, batch, i - 1) \cup PassGrads(q, Start, 1, CurrentPass)
  BY <1>1, <1>2 DEF BatchGrads, PassGrads
<1>8. PassHeld(buf, at, pc, CurrentPass)' <=> PassHeld(buf', Start, 1, CurrentPass)
  BY <1>1, <1>2
<1> QED BY <1>1, <1>5, <1>6, <1>7, <1>8 DEF GradInv

\* Each dispatch keeps the contents of the pass and adds its own term.
LEMMA GradsDispatch ==
    ASSUME length # "short"
    PROVE  LoopInv /\ GradInv /\ Dispatch => GradInv'
<1> HAVE LoopInv /\ GradInv /\ Dispatch
<1> PICK p, k, t : p = at /\ k = pc /\ t = CurrentPass
  OBVIOUS
<1>1. /\ phase = "run" /\ phase' = "run" /\ p # End /\ i <= Len(batch)
      /\ s' = s /\ batch' = batch /\ i' = i /\ length' = length
  BY DEF Dispatch, loopVars, LoopInv
<1>2. p \in Places /\ k \in 1 .. Len(Ops(p))
  <2>1. at \in Places /\ at # End /\ pc <= Len(Ops(at)) /\ pc \in 1 .. (Len(Ops(at)) + 1)
    BY <1>1 DEF LoopInv, TypeOK
  <2>2. Len(Ops(at)) >= 1
    BY <2>1, PlaceAfter
  <2> QED BY <2>1, <2>2
<1>3. t \in Passes /\ CurrentPass' = t /\ StepOf(t) = step /\ s \in 0 .. MaxSteps - 1
          /\ i \in 1 .. Len(batch)
  BY <1>1, CurrentPassIs DEF CurrentPass
<1>4. buf' = Effect(buf, Ops(p)[k], Tokens(t))
  <2>1. Fits(Ops(at)[pc])
    BY <1>1, <1>2, AllFit
  <2> QED BY <2>1, PerformEffect DEF Dispatch, LoopInv
<1>5. at' = NextPlace(p, k) /\ pc' = NextOp(p, k)
  BY <1>2 DEF Dispatch, NextPlace, NextOp
<1>6. PassHeld(buf, p, k, t) /\ WeightsHeld(buf, StepOf(t))
  BY <1>1, <1>3 DEF LoopInv, GradInv
<1>7. Keeps(buf, buf', p, k, t)
  BY <1>1, <1>2, <1>3, <1>4, <1>6, DispatchKeeps
<1>8. PassHeld(buf, at, pc, CurrentPass)'
  BY <1>3, <1>5, <1>7 DEF Keeps
<1>9. ASSUME NEW q \in Params
      PROVE  (buf[G(q[1], q[2])] = SetToBag(BatchGrads(q, s, batch, i - 1) \cup PassGrads(q,
                 at, pc, CurrentPass)))'
  <2> PICK X : X = BatchGrads(q, s, batch, i - 1)
    OBVIOUS
  <2>1. BatchGrads(q, s, batch, i - 1)' = X
    BY <1>1 DEF BatchGrads
  <2>2. buf[G(q[1], q[2])] = SetToBag(X \cup PassGrads(q, p, k, t))
    BY <1>1 DEF GradInv
  <2>3. \A n : Gradient(n, q[2], t) \notin X
    <3>1. t = Pass(s, batch[i])
      BY DEF CurrentPass
    <3> QED BY <1>3, <3>1, BatchFresh
  <2>4. Grew(buf, buf', q, PassGrads(q, p, k, t), PassGrads(q, NextPlace(p, k), NextOp(p, k),
                 t), t)
    BY <1>7 DEF Keeps
  <2>5. buf'[G(q[1], q[2])] = SetToBag(X \cup PassGrads(q, NextPlace(p, k), NextOp(p, k), t))
    <3> PICK C, g, R, S : /\ C = buf' /\ g = G(q[1], q[2]) /\ R = PassGrads(q, p, k, t)
                          /\ S = PassGrads(q, NextPlace(p, k), NextOp(p, k), t)
      OBVIOUS
    <3>1. CASE C[g] = buf[g] /\ S = R
      BY <2>2, <3>1
    <3>2. ASSUME NEW n, C[g] = buf[g] (+) Only(Gradient(n, q[2], t)),
                 S = R \cup {Gradient(n, q[2], t)}, Gradient(n, q[2], t) \notin R
          PROVE  C[g] = SetToBag(X \cup S)
      <4> PICK v : v = Gradient(n, q[2], t)
        OBVIOUS
      <4>1. v \notin X \cup R
        BY <2>3, <3>2
      <4>2. SetToBag(X \cup R) (+) Only(v) = SetToBag((X \cup R) \cup {v})
        BY <4>1, AddOnly
      <4>3. X \cup S = (X \cup R) \cup {v}
        BY <3>2
      <4> QED BY <2>2, <3>2, <4>2, <4>3
    <3>3. C[g] = SetToBag(X \cup S)
      BY <2>4, <3>1, <3>2 DEF Grew
    <3> QED BY <3>3
  <2>6. PassGrads(q, at, pc, CurrentPass)' = PassGrads(q, NextPlace(p, k), NextOp(p, k), t)
    BY <1>3, <1>5
  <2> QED BY <2>1, <2>5, <2>6
<1> QED BY <1>1, <1>8, <1>9 DEF GradInv

\* At the end of a pass the loss is the sequence's, and its contribution is in
\* the gradients.
LEMMA GradsEnd ==
    ASSUME length # "short"
    PROVE  LoopInv /\ GradInv /\ EndSequence => GradInv'
<1> HAVE LoopInv /\ GradInv /\ EndSequence
<1>1. /\ phase = "run" /\ phase' = "sequence" /\ at = End /\ i <= Len(batch) /\ length # "tiny"
      /\ buf' = buf /\ s' = s /\ batch' = batch /\ i' = i + 1 /\ length' = length
      /\ lossRead' = buf[Tmp("loss")]
  BY DEF EndSequence, gpuVars, loopVars, LoopInv
<1>2. pc = 1
  BY <1>1, LoopFacts DEF LoopInv, TypeOK
<1>3. i \in 1 .. Len(batch) /\ i \in Nat /\ i - 1 \in Nat /\ (i - 1) + 1 = i /\ (i + 1) - 1 = i
  BY <1>1, CurrentPassIs, LoopFacts
<1>4. lossRead' = Tensor("loss", 0, CurrentPass)
  <2>1. PassHeld(buf, End, 1, CurrentPass)
    BY <1>1, <1>2 DEF GradInv
  <2> QED BY <1>1, <2>1, Holds_end1 DEF End
<1>5. CurrentPass = Pass(s, batch[i])
  BY DEF CurrentPass
<1>6. ASSUME NEW q \in Params PROVE buf'[G(q[1], q[2])] = SetToBag(BatchGrads(q, s, batch,
             i - 1))'
  <2>1. buf[G(q[1], q[2])] = SetToBag(BatchGrads(q, s, batch, i - 1) \cup PassGrads(q, End, 1,
            CurrentPass))
    BY <1>1, <1>2 DEF GradInv
  <2>2. BatchGrads(q, s, batch, i) =
            BatchGrads(q, s, batch, i - 1) \cup BagToSet(Contribution(q, Pass(s, batch[i])))
    <3>1. BatchGrads(q, s, batch, (i - 1) + 1) =
              BatchGrads(q, s, batch, i - 1) \cup BagToSet(Contribution(q,
                             Pass(s, batch[(i - 1) + 1])))
      BY <1>1, <1>3, BatchGrows
    <3> QED BY <1>3, <3>1
  <2>3. BatchGrads(q, s, batch, i - 1)' = BatchGrads(q, s, batch, i)
    BY <1>1, <1>3 DEF BatchGrads
  <2> QED BY <1>1, <1>5, <2>1, <2>2, <2>3, PassEnds
<1>7. lossRead' = Tensor("loss", 0, Pass(s, batch[i - 1]))'
  BY <1>1, <1>3, <1>4, <1>5
<1> QED BY <1>1, <1>6, <1>7 DEF GradInv

\* Every step preserves them; the length of the sequences never changes.
LEMMA GradsStep ==
    (length # "short" => GradInv) /\ LoopInv /\ [Next]_vars => (length # "short" => GradInv)'
<1> SUFFICES ASSUME length # "short" => GradInv, LoopInv, [Next]_vars,
                    length' # "short" PROVE GradInv'
  OBVIOUS
<1>1. length' = length
  BY DEF Next, NextBatch, SkipSequence, StartSequence, Dispatch, EndSequence, AdamStep,
      EndStep, Finish,
         loopVars, vars
<1>2. length # "short" /\ GradInv
  BY <1>1
<1>3. CASE UNCHANGED vars
  <2>1. \A q : BatchGrads(q, s, batch, i - 1)' = BatchGrads(q, s, batch, i - 1)
    BY <1>3 DEF vars, BatchGrads
  <2>2. CurrentPass' = CurrentPass /\ PassHeld(buf, at, pc, CurrentPass)' = PassHeld(buf, at,
            pc, CurrentPass)
        /\ \A q : PassGrads(q, at, pc, CurrentPass)' = PassGrads(q, at, pc, CurrentPass)
    BY <1>3 DEF vars, CurrentPass
  <2> QED BY <1>2, <1>3, <2>1, <2>2 DEF GradInv, vars
<1>4. CASE AdamStep \/ EndStep \/ Finish
  <2>1. phase' \notin {"sequence", "run"}
    BY <1>4 DEF AdamStep, EndStep, Finish
  <2> QED BY <2>1 DEF GradInv
<1> QED BY <1>2, <1>3, <1>4, GradsNextBatch, GradsSkip, GradsStart, GradsDispatch, GradsEnd
    DEF Next

\* The gradients and the loss are as the sequences have left them.
LEMMA GradHolds == Spec => [](length # "short" => GradInv)
BY GradsInit, GradsStep, LoopHolds, PTL DEF Spec

\* When Adam runs, and after every sequence before it, each gradient buffer
\* holds what the CPU path (forwardBackwardCPU, gpt2_trainer.cpp) adds for the
\* sequences of the batch so far, each once and nothing else, for any number of
\* layers, heads, sequences and steps.  Sequences shorter than a block are left
\* out: their tokens are never uploaded.
THEOREM GradientsMatch == Spec => [](length # "short" => GradientsMatchCPU)
<1>1. GradInv => GradientsMatchCPU
  BY DEF GradInv, GradientsMatchCPU, Expected, BatchGrads
<1> QED BY <1>1, GradHolds, PTL

\* No input of any dispatch is dropped because the same buffer is bound for
\* writing, whatever the sequences are.
THEOREM NothingDropped == Spec => [](TypeOK /\ NoInputDropped)
<1>1. LoopInv => NoInputDropped
  <2> SUFFICES ASSUME LoopInv, phase = "run", at # End PROVE NoInputDropped
    BY DEF NoInputDropped
  <2>1. at \in Places /\ pc \in 1 .. Len(Ops(at))
    <3>1. at \in Places /\ pc <= Len(Ops(at)) /\ pc \in 1 .. (Len(Ops(at)) + 1)
      BY DEF LoopInv, TypeOK
    <3>2. Len(Ops(at)) >= 1
      BY <3>1, PlaceAfter
    <3> QED BY <3>1, <3>2
  <2>2. Fits(Ops(at)[pc]) /\ srv = Unbound /\ uav = Unbound
    BY <2>1, AllFit DEF LoopInv
  <2>3. \A r \in DOMAIN Ops(at)[pc].srv : BoundSrvs(Ops(at)[pc])[r - 1] = Ops(at)[pc].srv[r]
    BY <2>2, BoundAsNamed, FitsLens
  <2> QED BY <2>3 DEF NoInputDropped
<1>2. LoopInv => TypeOK
  BY DEF LoopInv
<1> QED BY <1>1, <1>2, LoopHolds, PTL

\* Views bound for one kernel never reach another: no input is dropped, and the
\* loss read after a sequence is that sequence's although the backward kernels
\* bind loss_buf_ as a stand-in output.
THEOREM ViewsHold == Spec => [](length # "short" => ViewsSafe)
<1>1. GradInv => LossIsTheSequences
  BY DEF GradInv, LossIsTheSequences
<1> QED BY <1>1, NothingDropped, GradHolds, PTL DEF ViewsSafe
=============================================================================
