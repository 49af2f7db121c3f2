----------------------------- MODULE GPT2Trainer -----------------------------
(* The D3D11 trainer (native/gpu_trainer/gpt2_trainer.cpp): train, train_step,*)
(* gpuForwardBackward, adamStepGPU, syncWeightsToCPU and save.  One thread   *)
(* drives the immediate context, so a dispatch, with the binding before it   *)
(* and the unbinding after it, is one step.  What can go wrong is which      *)
(* buffer is read and written when: some twenty buffers are reused across    *)
(* layers, heads, sequences and steps, most kernels add to what their output *)
(* holds, and D3D11 silently unbinds a buffer that is bound for reading and  *)
(* for writing at once.  Contents are the symbolic ones of ForwardBackward.  *)
EXTENDS ForwardBackward, Functions

CONSTANTS
    BatchSize,         \* cfg_.batch_size
    SaveEvery,         \* cfg_.save_every
    Lengths            \* how long the file's sequences may be, see Uploaded

ASSUME GPT2TrainerAssumption ==
    /\ BatchSize \in Nat \ {0} /\ SaveEvery \in Nat \ {0}
    /\ Lengths \subseteq {"tiny", "short", "full"}

VARIABLES
    buf,               \* GPU buffer |-> what it holds
    srv, uav,          \* register |-> the buffer bound to it
    age,               \* Adam steps that m_buf and v_buf have accumulated
    step,              \* step_
    s,                 \* loop variable of train()
    length,            \* length of every sequence of the file
    order,             \* idx
    batch,             \* sequences of the step
    i,                 \* next of them
    at, pc,            \* its place in gpuForwardBackward and next dispatch there
    phase,
    lossRead,          \* what readbackLoss returned last
    drawn,             \* sequence |-> times it was put into a batch
    cpuW,              \* parameter |-> version of cpu_w_owned
    saved              \* parameter |-> version in the file, <<>> without one

gpuVars == <<buf, srv, uav>>
loopVars == <<step, s, length, order, batch, drawn>>
fileVars == <<cpuW, saved, age>>
vars == <<buf, srv, uav, age, step, s, length, order, batch, i, at, pc, phase,
          lossRead, drawn, cpuW, saved>>

-----------------------------------------------------------------------------
(* Buffers                                                                   *)

Act(name, l) == <<"act", name, l>>
Tmp(name) == Act(name, 0)
W(p, l) == <<"w", p, l>>
G(p, l) == <<"g", p, l>>
Null == <<"null", "", 0>>

PerLayer == {"qkv", "xhat_ln1", "xhat_ln2", "inv_std_ln1", "inv_std_ln2", "P",
             "ln1_y", "ln2_y", "attn_out", "mlp_pre", "mlp_gelu"}
Shared == {"tokens", "xhat_lnf", "inv_std_lnf", "lnf_y", "logits", "dlogits", "loss",
           "dh", "d_qkv", "d_mlp", "dP_tmp", "dot_row"}
WorkingBuffers ==
    {Act("h", l) : l \in 0..NLayer} \cup {Act(n, l) : n \in PerLayer, l \in Layers}
    \cup {Tmp(n) : n \in Shared}
Gradients == {G(p[1], p[2]) : p \in Params}
Weights == {W(p[1], p[2]) : p \in Params}
Buffers == WorkingBuffers \cup Gradients \cup Weights

Zero == EmptyBag
WeightAt(p, v) == Only(Named(p[1], p[2], 0, v))

Registers == 0..3
Unbound == [r \in Registers |-> Null]

-----------------------------------------------------------------------------
(* The dispatches of one sequence.  "srv" and "uav" list what is put at t0.. *)
(* and u0.., "zero" what is cleared before; "use" tells apart the uses of    *)
(* gpt2_matmul_fwd, and "head" is the head in the constant buffer.           *)

Kernel(cs, use, head, srvs, zero, uavs) ==
    [cs |-> cs, use |-> use, head |-> head, srv |-> srvs, zero |-> zero, uav |-> uavs]
Run(cs, srvs, zero, uavs) == Kernel(cs, "", 0, srvs, zero, uavs)
Copy(to, from) == Run("copy", <<from>>, {}, <<to>>)

EmbedOps ==
    <<Run("embed_fwd", <<Tmp("tokens"), W("wte", 0), W("wpe", 0)>>,
          {Act("h", 0)}, <<Act("h", 0)>>)>>

NormOp(x, gamma, beta, y, xhat, istd) ==
    Run("lnorm_fwd", <<x, gamma, beta>>, {}, <<y, xhat, istd>>)

\* mutant: the output is not cleared first
LinearOpUncleared(a, w, b, c) == Kernel("matmul_fwd", "linear", 0, <<a, w, b>>, {}, <<c>>)

\* gpt2_matmul_fwd adds to C, so C is cleared
LinearOp(a, w, b, c) == Kernel("matmul_fwd", "linear", 0, <<a, w, b>>, {c}, <<c>>)

AttnForwardOps(l) ==
    <<NormOp(Act("h", l), W("ln_1.w", l), W("ln_1.b", l),
             Act("ln1_y", l), Act("xhat_ln1", l), Act("inv_std_ln1", l)),
      LinearOp(Act("ln1_y", l), W("c_attn.w", l), W("c_attn.b", l), Act("qkv", l)),
      Run("attn_fwd", <<Act("qkv", l)>>, {Act("attn_out", l)}, <<Act("attn_out", l), Act("P", l)>>),
      LinearOp(Act("attn_out", l), W("attn.c_proj.w", l), W("attn.c_proj.b", l), Tmp("dh")),
      Run("resadd_add3", <<Act("h", l), Tmp("dh")>>, {}, <<Act("h", l + 1)>>)>>

MlpForwardOps(l) ==
    <<NormOp(Act("h", l + 1), W("ln_2.w", l), W("ln_2.b", l),
             Act("ln2_y", l), Act("xhat_ln2", l), Act("inv_std_ln2", l)),
      LinearOp(Act("ln2_y", l), W("c_fc.w", l), W("c_fc.b", l), Act("mlp_pre", l)),
      Run("gelu_fwd", <<Act("mlp_pre", l)>>, {Act("mlp_gelu", l)}, <<Act("mlp_gelu", l)>>),
      LinearOp(Act("mlp_gelu", l), W("mlp.c_proj.w", l), W("mlp.c_proj.b", l), Tmp("dh")),
      Run("resadd_addto", <<Tmp("dh")>>, {}, <<Act("h", l + 1)>>)>>

HeadOps ==
    <<NormOp(Act("h", NLayer), W("ln_f.w", 0), W("ln_f.b", 0),
             Tmp("lnf_y"), Tmp("xhat_lnf"), Tmp("inv_std_lnf")),
      Run("matmul_transb", <<Tmp("lnf_y"), W("wte", 0)>>, {Tmp("logits")}, <<Tmp("logits")>>),
      Run("loss", <<Tmp("logits")>>, {}, <<Tmp("dlogits"), Tmp("loss")>>)>>

\* loss_buf_ stands in for the output that is not written
MmBwdA(b, dc, zero, da) ==
    Run("matmul_bwd_dA", <<Null, b, dc>>, zero, <<da, Tmp("loss")>>)
\* mutant: the two outputs are bound the wrong way round
MmBwdBSwapped(a, dc, db) ==
    Run("matmul_bwd_dB", <<a, Null, dc>>, {}, <<db, Tmp("loss")>>)

MmBwdB(a, dc, db) ==
    Run("matmul_bwd_dB", <<a, Null, dc>>, {}, <<Tmp("loss"), db>>)
BiasBwd(dc, db) == Run("bias_bwd", <<dc>>, {}, <<db>>)
LnBwdDx(xhat, gamma, istd, dout, zero) ==
    Run("lnorm_bwd", <<xhat, gamma, dout, istd>>, zero, <<Tmp("dh"), Null, Null>>)
LnBwdParams(xhat, dout, dgamma, dbeta) ==
    Run("lnorm_bwd_params", <<xhat, Null, dout, Null>>, {}, <<Null, dgamma, dbeta>>)

\* mutant: dh_buf_ is read as dout while dx is added to it
HeadBackAliased ==
    <<Kernel("matmul_fwd", "column", 0, <<Tmp("dlogits"), Tmp("lnf_y"), Null>>, {},
             <<G("wte", 0)>>),
      Kernel("matmul_fwd", "row", 0, <<Tmp("dlogits"), W("wte", 0), Null>>, {Tmp("dh")},
             <<Tmp("dh")>>),
      LnBwdDx(Tmp("xhat_lnf"), W("ln_f.w", 0), Tmp("inv_std_lnf"), Tmp("dh"), {}),
      LnBwdParams(Tmp("xhat_lnf"), Tmp("dh"), G("ln_f.w", 0), G("ln_f.b", 0))>>

\* steps 6 and 7; the loop over chunks of the vocabulary is one dispatch
HeadBackOps ==
    <<Kernel("matmul_fwd", "column", 0, <<Tmp("dlogits"), Tmp("lnf_y"), Null>>, {},
             <<G("wte", 0)>>),
      Kernel("matmul_fwd", "row", 0, <<Tmp("dlogits"), W("wte", 0), Null>>, {Tmp("dh")},
             <<Tmp("dh")>>),
      Copy(Tmp("lnf_y"), Tmp("dh")),
      LnBwdDx(Tmp("xhat_lnf"), W("ln_f.w", 0), Tmp("inv_std_lnf"), Tmp("lnf_y"), {Tmp("dh")}),
      LnBwdParams(Tmp("xhat_lnf"), Tmp("lnf_y"), G("ln_f.w", 0), G("ln_f.b", 0))>>

\* steps 8a to 8h; the first S*E elements of d_qkv_buf_ hold d_ln2_y, only they
\* are cleared and read, and 8l clears the whole buffer
MlpBackOps(l) ==
    <<MmBwdB(Act("mlp_gelu", l), Tmp("dh"), G("mlp.c_proj.w", l)),
      BiasBwd(Tmp("dh"), G("mlp.c_proj.b", l)),
      MmBwdA(W("mlp.c_proj.w", l), Tmp("dh"), {Tmp("d_mlp")}, Tmp("d_mlp")),
      Run("gelu_bwd", <<Act("mlp_pre", l)>>, {}, <<Tmp("d_mlp")>>),
      MmBwdB(Act("ln2_y", l), Tmp("d_mlp"), G("c_fc.w", l)),
      BiasBwd(Tmp("d_mlp"), G("c_fc.b", l)),
      MmBwdA(W("c_fc.w", l), Tmp("d_mlp"), {Tmp("d_qkv")}, Tmp("d_qkv")),
      LnBwdDx(Act("xhat_ln2", l), W("ln_2.w", l), Act("inv_std_ln2", l), Tmp("d_qkv"), {}),
      LnBwdParams(Act("xhat_ln2", l), Tmp("d_qkv"), G("ln_2.w", l), G("ln_2.b", l))>>

\* steps 8i to 8k
ProjBackOps(l) ==
    <<MmBwdB(Act("attn_out", l), Tmp("dh"), G("attn.c_proj.w", l)),
      BiasBwd(Tmp("dh"), G("attn.c_proj.b", l)),
      MmBwdA(W("attn.c_proj.w", l), Tmp("dh"), {Tmp("lnf_y")}, Tmp("lnf_y"))>>

\* step 8l for one head: three passes over the same registers
AttnBackOps(l, h) ==
    LET Pass3(cs, zero) ==
            Kernel(cs, "", h, <<Act("qkv", l), Act("P", l), Tmp("lnf_y")>>, zero,
                   <<Tmp("d_qkv"), Tmp("dP_tmp"), Tmp("dot_row")>>)
        start == {Tmp("dP_tmp"), Tmp("dot_row")} \cup IF h = 0 THEN {Tmp("d_qkv")} ELSE {}
    IN  <<Pass3("attn_bwd_dvdp", start), Pass3("attn_bwd_dq", {}), Pass3("attn_bwd_dk", {})>>

\* steps 8m to 8p
QkvBackOps(l) ==
    <<MmBwdB(Act("ln1_y", l), Tmp("d_qkv"), G("c_attn.w", l)),
      BiasBwd(Tmp("d_qkv"), G("c_attn.b", l)),
      MmBwdA(W("c_attn.w", l), Tmp("d_qkv"), {Tmp("lnf_y")}, Tmp("lnf_y")),
      LnBwdDx(Act("xhat_ln1", l), W("ln_1.w", l), Act("inv_std_ln1", l), Tmp("lnf_y"), {}),
      LnBwdParams(Act("xhat_ln1", l), Tmp("lnf_y"), G("ln_1.w", l), G("ln_1.b", l))>>

EmbedBackOps ==
    <<Run("embed_bwd", <<Tmp("tokens"), Tmp("dh")>>, {}, <<G("wte", 0), G("wpe", 0)>>)>>

\* A place in gpuForwardBackward: a part, and the layer and the head it is for.
Place(part, l, h) == <<part, l, h>>
Start == Place("embed", 0, 0)
End == Place("end", 0, 0)
Places ==
    {Place(part, 0, 0) : part \in {"embed", "head", "headBack", "embedBack", "end"}}
    \cup {Place(part, l, 0) :
            part \in {"attnForward", "mlpForward", "mlpBack", "projBack", "qkvBack"}, l \in Layers}
    \cup {Place("attnBack", l, h) : l \in Layers, h \in Heads}

Ops(p) ==
    LET part == p[1]
        l == p[2]
    IN  CASE part = "embed" -> EmbedOps
          [] part = "attnForward" -> AttnForwardOps(l)
          [] part = "mlpForward" -> MlpForwardOps(l)
          [] part = "head" -> HeadOps
          [] part = "headBack" -> HeadBackOps
          [] part = "mlpBack" -> MlpBackOps(l)
          [] part = "projBack" -> ProjBackOps(l)
          [] part = "attnBack" -> AttnBackOps(l, p[3])
          [] part = "qkvBack" -> QkvBackOps(l)
          [] part = "embedBack" -> EmbedBackOps
          [] part = "end" -> <<>>

\* the loops over the layers, upward and downward, and over the heads
After(p) ==
    LET part == p[1]
        l == p[2]
        h == p[3]
    IN  CASE part = "embed" -> Place("attnForward", 0, 0)
          [] part = "attnForward" -> Place("mlpForward", l, 0)
          [] part = "mlpForward" -> IF l + 1 < NLayer THEN Place("attnForward", l + 1, 0)
                                                      ELSE Place("head", 0, 0)
          [] part = "head" -> Place("headBack", 0, 0)
          [] part = "headBack" -> Place("mlpBack", NLayer - 1, 0)
          [] part = "mlpBack" -> Place("projBack", l, 0)
          [] part = "projBack" -> Place("attnBack", l, 0)
          [] part = "attnBack" -> IF h + 1 < NHead THEN Place("attnBack", l, h + 1)
                                                   ELSE Place("qkvBack", l, 0)
          [] part = "qkvBack" -> IF l > 0 THEN Place("mlpBack", l - 1, 0)
                                          ELSE Place("embedBack", 0, 0)
          [] part = "embedBack" -> End

-----------------------------------------------------------------------------
(* What a kernel leaves in u0.. when it finds t in t0.. and u in u0..        *)

Written(op, target, t, u) ==
    LET Of(f, args) == Apply(f, op.head, args)
        dot == Of("dot", <<t[2], u[2]>>)
    IN  CASE op.cs = "copy" -> <<t[1]>>
          [] op.cs = "embed_fwd" -> <<Of("embed", t)>>
          [] op.cs = "lnorm_fwd" ->
                <<Of("lnY", t), Of("lnXhat", <<t[1]>>), Of("lnInvStd", <<t[1]>>)>>
          [] op.cs = "matmul_fwd" ->
                <<u[1] (+) Of(op.use, IF op.use = "linear" THEN t ELSE <<t[1], t[2]>>)>>
          [] op.cs = "matmul_transb" -> <<Of("lmHead", t)>>
          [] op.cs = "attn_fwd" -> <<Of("attend", t), Of("softmax", t)>>
          [] op.cs = "gelu_fwd" -> <<Of("gelu", t)>>
          [] op.cs = "resadd_add3" -> <<t[1] (+) t[2]>>
          [] op.cs = "resadd_addto" -> <<u[1] (+) t[1]>>
          [] op.cs = "loss" -> <<Of("dlogits", <<t[1], target>>), Of("loss", <<t[1], target>>)>>
          [] op.cs = "lnorm_bwd" -> <<u[1] (+) Of("lnDx", t), u[2], u[3]>>
          [] op.cs = "lnorm_bwd_params" ->
                <<u[1], u[2] (+) Of("lnGamma", <<t[1], t[3]>>), u[3] (+) Of("lnBeta", <<t[3]>>)>>
          [] op.cs = "gelu_bwd" -> <<Of("geluBwd", <<u[1], t[1]>>)>>
          [] op.cs = "matmul_bwd_dA" -> <<u[1] (+) Of("dA", <<t[2], t[3]>>), u[2]>>
          [] op.cs = "matmul_bwd_dB" -> <<u[1], u[2] (+) Of("dB", <<t[1], t[3]>>)>>
          [] op.cs = "bias_bwd" -> <<u[1] (+) Of("rows", t)>>
          [] op.cs = "attn_bwd_dvdp" ->
                <<u[1] (+) Of("dV", <<t[2], t[3]>>), Of("dP", <<t[3], t[1]>>), u[3]>>
          [] op.cs = "attn_bwd_dq" ->
                <<u[1] (+) Of("dQ", <<t[2], u[2], dot, t[1]>>), u[2], dot>>
          [] op.cs = "attn_bwd_dk" ->
                <<u[1] (+) Of("dK", <<t[2], u[2], u[3], t[1]>>), u[2], u[3]>>
          [] op.cs = "embed_bwd" ->
                <<u[1] (+) Of("scatter", t), u[2] (+) Of("addRows", <<t[2]>>)>>

-----------------------------------------------------------------------------
(* The immediate context                                                     *)

\* a view of a buffer that is bound for writing is not bound for reading
WithSrvs(views) ==
    [r \in Registers |->
        IF r >= Len(views) THEN srv[r]
        ELSE IF \E k \in Registers : uav[k] = views[r + 1] THEN Null ELSE views[r + 1]]
WithUavs(views) ==
    [r \in Registers |-> IF r < Len(views) THEN views[r + 1] ELSE uav[r]]
\* binding a buffer for writing unbinds it for reading
Conflicting(srvs, uavs) ==
    [r \in Registers |-> IF \E k \in Registers : uavs[k] = srvs[r] THEN Null ELSE srvs[r]]
BoundSrvs(op) == Conflicting(WithSrvs(op.srv), WithUavs(op.uav))

\* mutant: one view of each kind stays bound
ClearFewer(bound, n) == [r \in Registers |-> IF r < n - 1 THEN Null ELSE bound[r]]

\* clearViews
Clear(bound, n) == [r \in Registers |-> IF r < n THEN Null ELSE bound[r]]

Cleared(zero) == [b \in Buffers |-> IF b \in zero THEN Zero ELSE buf[b]]
Held(contents, b) == IF b = Null THEN Only(Unknown) ELSE contents[b]

Perform(op, target) ==
    LET isCopy == op.cs = "copy"
        srvs == IF isCopy THEN [r \in Registers |-> op.srv[1]] ELSE BoundSrvs(op)
        before == Cleared(op.zero)
        t == [k \in DOMAIN op.srv |-> Held(before, srvs[k - 1])]
        u == [k \in DOMAIN op.uav |-> Held(before, op.uav[k])]
        after == Written(op, target, t, u)
    IN  /\ buf' = [b \in Buffers |->
                      IF \E k \in DOMAIN op.uav : op.uav[k] = b
                      THEN after[CHOOSE k \in DOMAIN op.uav : op.uav[k] = b] ELSE before[b]]
        /\ srv' = IF isCopy THEN srv ELSE Clear(BoundSrvs(op), Len(op.srv))
        /\ uav' = IF isCopy THEN uav ELSE Clear(WithUavs(op.uav), Len(op.uav))

-----------------------------------------------------------------------------
(* The training loop                                                         *)

Init ==
    /\ buf = [b \in Buffers |-> CASE b \in Weights -> WeightAt(<<b[2], b[3]>>, 0)
                                  [] b \in Gradients -> Zero
                                  [] OTHER -> Only(Unknown)]
    /\ srv = Unbound /\ uav = Unbound
    /\ age = 0 /\ step = 0 /\ s = 0
    /\ length \in Lengths
    /\ order = [k \in 0..(NSeq - 1) |-> k]
    /\ batch = <<>> /\ i = 1 /\ at = End /\ pc = 1
    /\ phase = "loop"
    /\ lossRead = Zero
    /\ drawn = [q \in 0..(NSeq - 1) |-> 0]
    /\ cpuW = [p \in Params |-> 0] /\ saved = <<>>

\* mutant: a step starts one place too far
DrawSkipping(idx) ==
    [k \in 1..(IF BatchSize < NSeq THEN BatchSize ELSE NSeq) |->
        idx[(s * (BatchSize + 1) + k - 1) % NSeq]]

\* the sequences of step s
Draw(idx) ==
    [k \in 1..(IF BatchSize < NSeq THEN BatchSize ELSE NSeq) |->
        idx[(s * BatchSize + k - 1) % NSeq]]

ZeroedByStep ==
    Gradients \cup {Tmp(n) : n \in {"dh", "d_qkv", "d_mlp", "dP_tmp", "dot_row", "logits"}}

\* top of the loop of train(), to zeroGPUGrads in train_step
NextBatch ==
    /\ phase = "loop" /\ s < MaxSteps
    /\ order' \in IF s % NSeq = 0 THEN Bijection(0..(NSeq - 1), 0..(NSeq - 1)) ELSE {order}
    /\ batch' = Draw(order')
    /\ drawn' = [q \in 0..(NSeq - 1) |->
                    drawn[q] + Cardinality({k \in DOMAIN batch' : batch'[k] = q})]
    /\ buf' = Cleared(ZeroedByStep)
    /\ i' = 1 /\ phase' = "sequence"
    /\ UNCHANGED <<srv, uav, step, s, length, at, pc, lossRead, fileVars>>

SkipSequence ==
    /\ phase = "sequence" /\ i <= Len(batch)
    /\ length = "tiny"
    /\ i' = i + 1
    /\ UNCHANGED <<gpuVars, loopVars, fileVars, at, pc, phase, lossRead>>

CurrentPass == Pass(s, batch[i])

\* CopyResource wants equal sizes and drops the call otherwise: the staging
\* buffer is as long as the sequence, tokens_buf_ as long as a block
Uploaded == IF length = "full" THEN Tokens(CurrentPass) ELSE buf[Tmp("tokens")]

StartSequence ==
    /\ phase = "sequence" /\ i <= Len(batch)
    /\ length # "tiny"
    /\ buf' = [buf EXCEPT ![Tmp("tokens")] = Uploaded]
    /\ at' = Start /\ pc' = 1 /\ phase' = "run"
    /\ UNCHANGED <<srv, uav, loopVars, fileVars, i, lossRead>>

Dispatch ==
    /\ phase = "run" /\ at # End
    /\ Perform(Ops(at)[pc], Tokens(CurrentPass))
    /\ IF pc < Len(Ops(at)) THEN at' = at /\ pc' = pc + 1 ELSE at' = After(at) /\ pc' = 1
    /\ UNCHANGED <<loopVars, fileVars, i, phase, lossRead>>

EndSequence ==
    /\ phase = "run" /\ at = End
    /\ lossRead' = buf[Tmp("loss")]
    /\ i' = i + 1 /\ phase' = "sequence"
    /\ UNCHANGED <<gpuVars, loopVars, fileVars, at, pc>>

\* mutant: the step is counted by train_step too
CountedTwice == step + 2

Counted == step + 1

\* adamStepGPU(false) over every parameter; the kernel clears the gradient
AdamStep ==
    /\ phase = "sequence" /\ i > Len(batch)
    /\ step' = Counted /\ age' = age + 1
    /\ buf' = [b \in Buffers |-> CASE b \in Gradients -> Zero
                                   [] b \in Weights -> WeightAt(<<b[2], b[3]>>, step + 1)
                                   [] OTHER -> buf[b]]
    /\ srv' = Conflicting(srv, uav) /\ uav' = Unbound
    /\ phase' = "stepped"
    /\ UNCHANGED <<s, length, order, batch, drawn, i, at, pc, lossRead, cpuW, saved>>

Version(p) == (CHOOSE v \in BagToSet(buf[W(p[1], p[2])]) : TRUE)[4]

\* mutant: save() writes the CPU mirror without reading the weights back
SaveUnsynced ==
    /\ cpuW' = cpuW /\ saved' = cpuW'
    /\ age' = 0 /\ buf' = Cleared(Gradients)

\* syncWeightsToCPU and save: the moments are released and allocated anew
Save ==
    /\ cpuW' = [p \in Params |-> Version(p)] /\ saved' = cpuW'
    /\ age' = 0 /\ buf' = Cleared(Gradients)

\* the end of train_step
EndStep ==
    /\ phase = "stepped"
    /\ IF step % SaveEvery = 0 THEN Save ELSE UNCHANGED <<cpuW, saved, age, buf>>
    /\ s' = s + 1 /\ phase' = "loop"
    /\ UNCHANGED <<srv, uav, step, length, order, batch, drawn, i, at, pc, lossRead>>

\* the end of train()
Finish ==
    /\ phase = "loop" /\ s = MaxSteps
    /\ Save
    /\ phase' = "done"
    /\ UNCHANGED <<srv, uav, loopVars, i, at, pc, lossRead>>

Next ==
    \/ NextBatch \/ SkipSequence \/ StartSequence \/ Dispatch \/ EndSequence
    \/ AdamStep \/ EndStep \/ Finish

Spec == Init /\ [][Next]_vars

-----------------------------------------------------------------------------

TypeOK ==
    /\ srv \in [Registers -> Buffers \cup {Null}]
    /\ uav \in [Registers -> Buffers \cup {Null}]
    /\ \A b \in Buffers : IsABag(buf[b])
    /\ step \in 0..MaxSteps /\ s \in 0..MaxSteps /\ age \in 0..step
    /\ i \in 1..(BatchSize + 1) /\ at \in Places /\ pc \in 1..(Len(Ops(at)) + 1)
    /\ phase \in {"loop", "sequence", "run", "stepped", "done"}
    /\ length \in Lengths
    /\ cpuW \in [Params -> 0..MaxSteps]

\* Every dispatch reads the buffers it names: none of its inputs is dropped
\* because the same buffer is still, or at once, bound for writing (the bug the
\* comments at gpt2_trainer.cpp:1369, 1443 and 1496 describe).
NoInputDropped ==
    phase = "run" /\ at # End =>
        LET op == Ops(at)[pc]
        IN  op.cs # "copy" => \A r \in DOMAIN op.srv : BoundSrvs(op)[r - 1] = op.srv[r]

\* When Adam runs, every gradient buffer holds what the CPU path adds for the
\* sequences of this batch, each once and nothing else, although the buffers
\* in between are reused by every layer, head and sequence.
Expected(p, n) ==
    SetToBag(UNION {BagToSet(Contribution(p, Pass(s, batch[k]))) :
                       k \in {j \in 1..n : length # "tiny"}})
GradientsMatchCPU ==
    phase = "sequence" =>
        \A p \in Params : buf[G(p[1], p[2])] = Expected(p, i - 1)

\* The loss read back after a sequence is that sequence's, although backward
\* kernels bind loss_buf_ as a stand-in output.
LossIsTheSequences ==
    phase = "sequence" /\ i > 1 /\ length # "tiny" =>
        lossRead = Tensor("loss", 0, Pass(s, batch[i - 1]))

\* Between two steps the file holds all tensors of one step, at most
\* SaveEvery - 1 steps old, and after train() the last step's.
SavedIsRecent ==
    /\ phase = "loop" /\ saved # <<>> =>
          \E v \in (step - SaveEvery + 1)..step : \A p \in Params : saved[p] = v
    /\ phase = "done" => \A p \in Params : saved[p] = step

\* When the order is drawn anew, every sequence has been used equally often.
EvenCoverage ==
    phase = "loop" /\ s % NSeq = 0 =>
        \A q, r \in DOMAIN drawn : drawn[q] = drawn[r]

\* Views bound for one kernel never reach another: no input is dropped and the
\* stand-in output of the backward kernels leaves the loss alone.
ViewsSafe == TypeOK /\ NoInputDropped /\ LossIsTheSequences
=============================================================================
