------------------------- MODULE GPT2DispatchProofs -------------------------
(* Proofs about the GPT-2 trainer, first part: what each dispatch of a pass   *)
(* reads and what it leaves in the buffers, for any number of layers and      *)
(* heads, and that a name of ForwardBackward stands for one value. The names  *)
(* are compared as terms (NamedInj), sums of tensors as bags of names         *)
(* (HiddenInj, DHInj), and the equations by the shape of their arguments      *)
(* (KnownShape), so that looking a result up by its operation and arguments   *)
(* finds the value the CPU path gives it (NameIs).                            *)
EXTENDS GPT2Trainer, TLAPS, FiniteSetTheorems

-----------------------------------------------------------------------------
(* What the buffers hold during a pass                                       *)

\* The batch is of different sequences.
Distinct(q) == \A j, k \in DOMAIN q : q[j] = q[k] => j = k

\* The name that the value in a layer's buffer has on the CPU path.
ValueIn(n) ==
    CASE n = "xhat_ln1" -> "ln1_xhat" [] n = "inv_std_ln1" -> "ln1_inv_std"
      [] n = "xhat_ln2" -> "ln2_xhat" [] n = "inv_std_ln2" -> "ln2_inv_std"
      [] OTHER -> n

\* The layer and the dispatch of it that the forward loop is at, and the
\* dispatch that fills a buffer of the layer.
ForwardLayer(p) ==
    CASE p[1] = "embed" -> 0
      [] p[1] \in {"attnForward", "mlpForward"} -> p[2]
      [] OTHER -> NLayer
ForwardOp(p, k) ==
    CASE p[1] = "attnForward" -> k [] p[1] = "mlpForward" -> 10 + k [] OTHER -> 0
MadeAt(n) ==
    CASE n \in {"ln1_y", "xhat_ln1", "inv_std_ln1"} -> 1 [] n = "qkv" -> 2
      [] n \in {"attn_out", "P"} -> 3
      [] n \in {"ln2_y", "xhat_ln2", "inv_std_ln2"} -> 11 [] n = "mlp_pre" -> 12
      [] n = "mlp_gelu" -> 13
Made(n, l, p, k) == l < ForwardLayer(p) \/ (l = ForwardLayer(p) /\ MadeAt(n) < ForwardOp(p, k))

LayersHeld(B, p, k, t) ==
    \A n \in PerLayer, l \in Layers :
        Made(n, l, p, k) => B[Act(n, l)] = Tensor(ValueIn(n), l, t)

\* The residual stream, and dh_buf_ as the forward pass uses it.
HiddenHeld(B, p, k, t) ==
    /\ p[1] = "attnForward" =>
          /\ B[Act("h", p[2])] = Hidden(p[2], t)
          /\ k = 5 => B[Tmp("dh")] = Tensor("attn_proj", p[2], t)
    /\ p[1] = "mlpForward" =>
          /\ B[Act("h", p[2] + 1)] = HiddenMid(p[2], t)
          /\ k = 5 => B[Tmp("dh")] = Tensor("mlp_out", p[2], t)
    /\ p[1] = "head" => B[Act("h", NLayer)] = Hidden(NLayer, t)

\* The final norm, the logits and the loss.
NormHeld(B, t) ==
    /\ B[Tmp("xhat_lnf")] = Tensor("ln_f_xhat", 0, t)
    /\ B[Tmp("inv_std_lnf")] = Tensor("ln_f_inv_std", 0, t)
HeadHeld(B, p, k, t) ==
    /\ p[1] = "head" =>
          /\ k > 1 => NormHeld(B, t) /\ B[Tmp("lnf_y")] = Tensor("ln_f_y", 0, t)
          /\ k > 2 => B[Tmp("logits")] = Tensor("logits", 0, t)
    /\ p[1] = "headBack" =>
          /\ NormHeld(B, t)
          /\ B[Tmp("dlogits")] = Tensor("dlogits", 0, t)
          /\ B[Tmp("lnf_y")] = Tensor(IF k <= 3 THEN "ln_f_y" ELSE "d_ln_f_y", 0, t)
          /\ k = 3 => B[Tmp("dh")] = Tensor("d_ln_f_y", 0, t)
          /\ k = 5 => B[Tmp("dh")] = DH(NLayer, t)

LossHeld(B, p, t) ==
    p[1] \in {"headBack", "mlpBack", "projBack", "attnBack", "qkvBack", "embedBack", "end"} =>
        B[Tmp("loss")] = Tensor("loss", 0, t)

\* The gradient into the residual stream and the temporaries of a layer.
HeadGrads(l, h, k, t) ==
    {Named(n, l, g, t) : n \in {"dQ", "dK", "dV"}, g \in 0 .. h - 1}
    \cup (IF k > 1 THEN {Named("dV", l, h, t)} ELSE {})
    \cup (IF k > 2 THEN {Named("dQ", l, h, t)} ELSE {})

BackHeld(B, p, k, t) ==
    LET l == p[2]
        h == p[3]
    IN  /\ p[1] = "mlpBack" =>
              /\ B[Tmp("dh")] = IF k < 9 THEN DH(l + 1, t) ELSE DHMid(l, t)
              /\ k = 4 => B[Tmp("d_mlp")] = Tensor("d_mlp_gelu", l, t)
              /\ k \in 5 .. 7 => B[Tmp("d_mlp")] = Tensor("d_mlp_pre", l, t)
              /\ k \in 8 .. 9 => B[Tmp("d_qkv")] = Tensor("d_ln2_y", l, t)
        /\ p[1] = "projBack" => B[Tmp("dh")] = DHMid(l, t)
        /\ p[1] = "attnBack" =>
              /\ B[Tmp("dh")] = DHMid(l, t)
              /\ B[Tmp("lnf_y")] = Tensor("d_attn_out", l, t)
              /\ h > 0 \/ k > 1 => B[Tmp("d_qkv")] = SetToBag(HeadGrads(l, h, k, t))
              /\ k > 1 => B[Tmp("dP_tmp")] = Only(Named("dP", l, h, t))
              /\ k > 2 => B[Tmp("dot_row")] = Only(Named("dot", l, h, t))
        /\ p[1] = "qkvBack" =>
              /\ B[Tmp("dh")] = IF k < 5 THEN DHMid(l, t) ELSE DH(l, t)
              /\ B[Tmp("d_qkv")] = DQkv(l, t)
              /\ k > 3 => B[Tmp("lnf_y")] = Tensor("d_ln1_y", l, t)
        /\ p[1] = "embedBack" => B[Tmp("dh")] = DH(0, t)

\* The layer and the dispatch of it that the backward loop is at, and the
\* dispatch that adds to the gradient of a parameter of the layer.
BackLayer(p) ==
    CASE p[1] \in {"mlpBack", "projBack", "attnBack", "qkvBack"} -> p[2]
      [] p[1] \in {"embedBack", "end"} -> -1 [] OTHER -> NLayer
BackOp(p, k) ==
    CASE p[1] = "mlpBack" -> k [] p[1] = "projBack" -> 10 + k [] p[1] = "attnBack" -> 20
      [] p[1] = "qkvBack" -> 30 + k [] OTHER -> 0
AddedAt(n) ==
    CASE n = "mlp.c_proj.w" -> 1 [] n = "mlp.c_proj.b" -> 2
      [] n = "c_fc.w" -> 5 [] n = "c_fc.b" -> 6
      [] n \in {"ln_2.w", "ln_2.b"} -> 9
      [] n = "attn.c_proj.w" -> 11 [] n = "attn.c_proj.b" -> 12
      [] n = "c_attn.w" -> 31 [] n = "c_attn.b" -> 32 [] n \in {"ln_1.w", "ln_1.b"} -> 35
Added(n, l, p, k) == l > BackLayer(p) \/ (l = BackLayer(p) /\ AddedAt(n) < BackOp(p, k))

\* What this pass has added to the gradient of a parameter so far.
PassGrads(q, p, k, t) ==
    CASE q[1] = "wte" ->
            (IF BackLayer(p) < NLayer \/ (p[1] = "headBack" /\ k > 1)
             THEN {Gradient("wte:head", 0, t)} ELSE {})
            \cup (IF p[1] = "end" THEN {Gradient("wte:embed", 0, t)} ELSE {})
      [] q[1] = "wpe" -> IF p[1] = "end" THEN {Gradient("wpe", 0, t)} ELSE {}
      [] q[1] \in {"ln_f.w", "ln_f.b"} ->
            IF BackLayer(p) < NLayer THEN {Gradient(q[1], 0, t)} ELSE {}
      [] OTHER -> IF Added(q[1], q[2], p, k) THEN {Gradient(q[1], q[2], t)} ELSE {}

\* What the n first sequences of a batch add.
BatchGrads(q, v, ss, n) ==
    UNION {BagToSet(Contribution(q, Pass(v, ss[j]))) : j \in {j \in 1 .. n : length # "tiny"}}

WeightsHeld(B, v) == \A q \in Params : B[W(q[1], q[2])] = WeightAt(q, v)

\* A pass at dispatch k of place p.
PassHeld(B, p, k, t) ==
    /\ B[Tmp("tokens")] = Tokens(t)
    /\ LayersHeld(B, p, k, t) /\ HiddenHeld(B, p, k, t) /\ HeadHeld(B, p, k, t)
    /\ LossHeld(B, p, t) /\ BackHeld(B, p, k, t)

\* What holds whatever the sequences are.
LoopInv ==
    /\ TypeOK
    /\ srv = Unbound /\ uav = Unbound
    /\ WeightsHeld(buf, step)
    /\ step = IF phase = "stepped" THEN s + 1 ELSE s
    /\ phase \in {"sequence", "run"} => s < MaxSteps /\ i <= Len(batch) + 1
    /\ phase = "run" => i <= Len(batch) /\ length # "tiny"
    /\ at # End => pc <= Len(Ops(at))
    /\ batch \in Seq(0 .. NSeq - 1) /\ Len(batch) <= BatchSize /\ Distinct(batch)
    /\ order \in Bijection(0 .. NSeq - 1, 0 .. NSeq - 1)
    /\ buf = [b \in Buffers |-> buf[b]]

\* What the sequences of a batch leave behind.
GradInv ==
    /\ phase = "sequence" =>
          /\ \A q \in Params : buf[G(q[1], q[2])] = SetToBag(BatchGrads(q, s, batch, i - 1))
          /\ i > 1 /\ length # "tiny" => lossRead = Tensor("loss", 0, Pass(s, batch[i - 1]))
    /\ phase = "run" =>
          /\ PassHeld(buf, at, pc, CurrentPass)
          /\ \A q \in Params : buf[G(q[1], q[2])] =
                SetToBag(BatchGrads(q, s, batch, i - 1) \cup PassGrads(q, at, pc, CurrentPass))

\* A save is the version of the last step that SaveEvery divides, or the last.
SaveInv ==
    /\ saved = <<>> \/ \E v \in 0 .. step :
          /\ saved = [q \in Params |-> v]
          /\ phase = "done" => v = step
          /\ phase # "done" => /\ v % SaveEvery = 0
                               /\ step < v + SaveEvery
                                    \/ (phase = "stepped" /\ step = v + SaveEvery)
    /\ phase = "done" => saved # <<>>

\* The window of a batch: positions before its start were drawn once more.
Window(v) == IF BatchSize < NSeq THEN (v * BatchSize) % NSeq ELSE 0
DrawInv ==
    /\ drawn = [q \in 0 .. NSeq - 1 |-> drawn[q]]
    /\ \E d \in Nat : \A k \in 0 .. NSeq - 1 :
          drawn[order[k]] =
              d + IF k < Window(IF phase \in {"loop", "done"} THEN s ELSE s + 1) THEN 1 ELSE 0

-----------------------------------------------------------------------------
(* Bags                                                                      *)

\* SetToBag makes a bag, of the elements it was given.
LEMMA BagOf == \A S : IsABag(SetToBag(S)) /\ BagToSet(SetToBag(S)) = S
BY DEF IsABag, SetToBag, BagToSet

\* Different sets make different bags.
LEMMA BagInj == \A S, T : SetToBag(S) = SetToBag(T) => S = T
BY BagOf

\* A bag of one element determines it.
LEMMA OnlyInj == \A v, w : Only(v) = Only(w) => v = w
<1> TAKE v, w
<1>1. Only(v) = Only(w) => {v} = {w}
  BY BagInj DEF Only
<1> QED BY <1>1

\* The sum of two sets without a common element is their union.
LEMMA SumOf ==
    ASSUME NEW S, NEW T, S \cap T = {}
    PROVE  SetToBag(S) (+) SetToBag(T) = SetToBag(S \cup T)
BY DEF SetToBag, (+)

\* A sum of bags is a bag.
LEMMA SumBag == \A B, C : IsABag(B) /\ IsABag(C) => IsABag(B (+) C)
BY DEF IsABag, (+)

\* Adding to a cleared buffer writes it.
LEMMA ZeroSum == \A v : Zero (+) Only(v) = Only(v)
BY SumOf DEF Zero, EmptyBag, Only

\* What holds the set S holds S and v after v was added once more.
LEMMA AddOnly == \A S, v : v \notin S => SetToBag(S) (+) Only(v) = SetToBag(S \cup {v})
BY SumOf DEF Only

\* The cleared content is the empty set of names.
LEMMA ZeroIsNone == Zero = SetToBag({})
BY DEF Zero, EmptyBag, SetToBag

-----------------------------------------------------------------------------
(* Names                                                                     *)

\* Buffers of different kinds, names or layers differ.
LEMMA Tags ==
    \A n, m, l, k :
        /\ Act(n, l) = Act(m, k) <=> n = m /\ l = k
        /\ W(n, l) = W(m, k) <=> n = m /\ l = k
        /\ G(n, l) = G(m, k) <=> n = m /\ l = k
        /\ Act(n, l) # W(m, k) /\ Act(n, l) # G(m, k) /\ W(n, l) # G(m, k)
        /\ Act(n, l) # Null /\ W(n, l) # Null /\ G(n, l) # Null
BY DEF Act, W, G, Null

\* The buffers there are.
LEMMA BufferNames ==
    /\ \A l \in 0 .. NLayer : Act("h", l) \in WorkingBuffers
    /\ \A n \in PerLayer, l \in Layers : Act(n, l) \in WorkingBuffers
    /\ \A n \in Shared : Act(n, 0) \in WorkingBuffers
    /\ \A p \in Params : G(p[1], p[2]) \in Gradients /\ W(p[1], p[2]) \in Weights
    /\ Null \notin Buffers
    /\ \A b \in Weights : b \notin WorkingBuffers /\ b \notin Gradients
    /\ \A b \in Gradients : b \notin WorkingBuffers
BY Tags DEF WorkingBuffers, Gradients, Weights, Buffers, Tmp

\* The parameters of the layers and the others.
LEMMA ParamNames ==
    /\ \A n \in GlobalParams : <<n, 0>> \in Params
    /\ \A n \in LayerParams, l \in Layers : <<n, l>> \in Params
BY DEF Params

-----------------------------------------------------------------------------
(* A dispatch                                                                *)

\* The kernels, and how many views each binds.
Arities ==
    {<<"copy", 1, 1>>, <<"embed_fwd", 3, 1>>, <<"lnorm_fwd", 3, 3>>, <<"matmul_fwd", 3, 1>>,
     <<"matmul_transb", 2, 1>>, <<"attn_fwd", 1, 2>>, <<"gelu_fwd", 1, 1>>,
     <<"resadd_add3", 2, 1>>, <<"resadd_addto", 1, 1>>, <<"loss", 1, 2>>,
     <<"lnorm_bwd", 4, 3>>, <<"lnorm_bwd_params", 4, 3>>, <<"gelu_bwd", 1, 1>>,
     <<"matmul_bwd_dA", 3, 2>>, <<"matmul_bwd_dB", 3, 2>>, <<"bias_bwd", 1, 1>>,
     <<"attn_bwd_dvdp", 3, 3>>, <<"attn_bwd_dq", 3, 3>>, <<"attn_bwd_dk", 3, 3>>,
     <<"embed_bwd", 2, 2>>}

\* A dispatch reads no buffer it writes, writes none twice and neither writes
\* nor clears a weight.
Fits(op) ==
    /\ <<op.cs, Len(op.srv), Len(op.uav)>> \in Arities
    /\ op.srv \in Seq(Buffers \cup {Null})
    /\ op.uav \in Seq(WorkingBuffers \cup Gradients \cup {Null})
    /\ op.zero \subseteq WorkingBuffers
    /\ \A j \in DOMAIN op.srv, k \in DOMAIN op.uav :
          op.srv[j] = op.uav[k] => op.srv[j] = Null
    /\ \A j, k \in DOMAIN op.uav : op.uav[j] = op.uav[k] => j = k \/ op.uav[j] = Null

\* What a dispatch with no view left bound from another leaves in the buffers.
Zeroed(B, zero) == [b \in Buffers |-> IF b \in zero THEN Zero ELSE B[b]]
Inputs(B, op) == [k \in DOMAIN op.srv |-> Held(Zeroed(B, op.zero), op.srv[k])]
Outputs(B, op) == [k \in DOMAIN op.uav |-> Held(Zeroed(B, op.zero), op.uav[k])]
Results(B, op, target) == Written(op, target, Inputs(B, op), Outputs(B, op))
Effect(B, op, target) ==
    [b \in Buffers |->
        IF \E k \in DOMAIN op.uav : op.uav[k] = b
        THEN Results(B, op, target)[CHOOSE k \in DOMAIN op.uav : op.uav[k] = b]
        ELSE Zeroed(B, op.zero)[b]]

\* A dispatch binds at most four views of each kind.
LEMMA FitsLens ==
    ASSUME NEW op, Fits(op)
    PROVE  /\ Len(op.srv) \in 1 .. 4 /\ DOMAIN op.srv = 1 .. Len(op.srv)
           /\ Len(op.uav) \in 1 .. 3 /\ DOMAIN op.uav = 1 .. Len(op.uav)
           /\ \A j \in 1 .. Len(op.srv) : op.srv[j] \in Buffers \cup {Null}
           /\ \A k \in 1 .. Len(op.uav) : op.uav[k] \in WorkingBuffers \cup Gradients
                \cup {Null}
BY DEF Fits, Arities

\* With no view bound, the inputs of a dispatch are bound as it names them, and
\* nothing is bound after it.
LEMMA BoundAsNamed ==
    ASSUME NEW op, Fits(op), srv = Unbound, uav = Unbound
    PROVE  /\ \A r \in 1 .. Len(op.srv) : BoundSrvs(op)[r - 1] = op.srv[r]
           /\ Clear(BoundSrvs(op), Len(op.srv)) = Unbound
           /\ Clear(WithUavs(op.uav), Len(op.uav)) = Unbound
<1>1. /\ Len(op.srv) \in 1 .. 4 /\ DOMAIN op.srv = 1 .. Len(op.srv)
      /\ Len(op.uav) \in 1 .. 3 /\ DOMAIN op.uav = 1 .. Len(op.uav)
  BY FitsLens
<1>2. \A r \in Registers : WithSrvs(op.srv)[r] = IF r >= Len(op.srv) THEN Null
          ELSE op.srv[r + 1]
  BY <1>1 DEF WithSrvs, Unbound, Registers
<1>3. \A r \in Registers : WithUavs(op.uav)[r] = IF r < Len(op.uav) THEN op.uav[r + 1] ELSE Null
  BY <1>1 DEF WithUavs, Unbound, Registers
<1>4. \A r \in Registers : BoundSrvs(op)[r] = IF r >= Len(op.srv) THEN Null ELSE op.srv[r + 1]
  <2> TAKE r \in Registers
  <2>1. BoundSrvs(op)[r] = IF \E k \in Registers : WithUavs(op.uav)[k] = WithSrvs(op.srv)[r]
                    THEN Null
                           ELSE WithSrvs(op.srv)[r]
    BY DEF BoundSrvs, Conflicting
  <2>2. CASE r >= Len(op.srv)
    BY <2>1, <2>2, <1>2
  <2>3. CASE r < Len(op.srv)
    <3>1. WithSrvs(op.srv)[r] = op.srv[r + 1] /\ r + 1 \in DOMAIN op.srv
      BY <2>3, <1>2, <1>1 DEF Registers
    <3>2. ASSUME NEW k \in Registers, WithUavs(op.uav)[k] = op.srv[r + 1]
          PROVE  op.srv[r + 1] = Null
      <4>1. CASE k < Len(op.uav)
        <5>1. k + 1 \in DOMAIN op.uav /\ op.uav[k + 1] = op.srv[r + 1]
          BY <4>1, <3>2, <1>3, <1>1 DEF Registers
        <5> QED BY <5>1, <3>1 DEF Fits
      <4>2. CASE ~(k < Len(op.uav))
        BY <4>2, <3>2, <1>3
      <4> QED BY <4>1, <4>2
    <3> QED BY <2>1, <2>3, <3>1, <3>2, <1>1 DEF Registers
  <2> QED BY <2>2, <2>3, <1>1 DEF Registers
<1>5. \A r \in 1 .. Len(op.srv) : BoundSrvs(op)[r - 1] = op.srv[r]
  <2> TAKE r \in 1 .. Len(op.srv)
  <2>1. PICK n : n = Len(op.srv)
    OBVIOUS
  <2>2. n \in 1 .. 4 /\ r \in 1 .. n
    BY <1>1, <2>1
  <2>3. r - 1 \in 0 .. 3 /\ ~(r - 1 >= n) /\ (r - 1) + 1 = r
    BY <2>2
  <2> QED BY <2>1, <2>3, <1>4 DEF Registers
<1>6. Clear(BoundSrvs(op), Len(op.srv)) = Unbound
  <2>1. \A r \in Registers : ~(r < Len(op.srv)) => r >= Len(op.srv)
    BY <1>1 DEF Registers
  <2> QED BY <2>1, <1>4 DEF Clear, Unbound
<1>7. Clear(WithUavs(op.uav), Len(op.uav)) = Unbound
  BY <1>3 DEF Clear, Unbound
<1> QED BY <1>5, <1>6, <1>7

\* With no view bound, a dispatch has the effect of binding what it names, and
\* leaves no view bound.
LEMMA PerformEffect ==
    ASSUME NEW op, NEW target, Fits(op), srv = Unbound, uav = Unbound, Perform(op, target)
    PROVE  buf' = Effect(buf, op, target) /\ srv' = Unbound /\ uav' = Unbound
<1>1. /\ Len(op.srv) \in 1 .. 4 /\ DOMAIN op.srv = 1 .. Len(op.srv)
      /\ Len(op.uav) \in 1 .. 3 /\ DOMAIN op.uav = 1 .. Len(op.uav)
  BY FitsLens
<1> DEFINE isCopy == op.cs = "copy"
           srvs == IF isCopy THEN [r \in Registers |-> op.srv[1]] ELSE BoundSrvs(op)
           before == Cleared(op.zero)
           t == [k \in DOMAIN op.srv |-> Held(before, srvs[k - 1])]
           u == [k \in DOMAIN op.uav |-> Held(before, op.uav[k])]
           after == Written(op, target, t, u)
<1>2. /\ buf' = [b \in Buffers |->
                    IF \E k \in DOMAIN op.uav : op.uav[k] = b
                    THEN after[CHOOSE k \in DOMAIN op.uav : op.uav[k] = b] ELSE before[b]]
      /\ srv' = (IF isCopy THEN srv ELSE Clear(BoundSrvs(op), Len(op.srv)))
      /\ uav' = (IF isCopy THEN uav ELSE Clear(WithUavs(op.uav), Len(op.uav)))
  BY Zenon DEF Perform
<1>3. before = Zeroed(buf, op.zero)
  BY DEF Cleared, Zeroed
<1>4. \A k \in DOMAIN op.srv : srvs[k - 1] = op.srv[k]
  <2>1. CASE isCopy
    <3>1. Len(op.srv) = 1
      BY <2>1 DEF Fits, Arities
    <3>2. \A k \in DOMAIN op.srv : k = 1 /\ k - 1 \in Registers
      BY <3>1, <1>1 DEF Registers
    <3> QED BY <3>2, <2>1
  <2>2. CASE ~isCopy
    BY <2>2, BoundAsNamed, <1>1
  <2> QED BY <2>1, <2>2
<1>5. t = Inputs(buf, op)
  <2> HIDE DEF srvs, before
  <2> QED BY <1>3, <1>4 DEF Inputs
<1>6. u = Outputs(buf, op)
  <2> HIDE DEF before
  <2> QED BY <1>3 DEF Outputs
<1>7. buf' = Effect(buf, op, target)
  <2> HIDE DEF t, u, before
  <2> QED BY <1>2, <1>3, <1>5, <1>6, Zenon DEF Effect, Results
<1>8. srv' = Unbound /\ uav' = Unbound
  <2> HIDE DEF after, isCopy
  <2> QED BY <1>2, BoundAsNamed
<1> QED BY <1>7, <1>8

\* What a buffer holds after a dispatch.
LEMMA EffectAt ==
    ASSUME NEW B, NEW op, NEW target, Fits(op), NEW b \in Buffers
    PROVE  /\ \A k \in DOMAIN op.uav :
                 op.uav[k] = b => Effect(B, op, target)[b] = Results(B, op, target)[k]
           /\ (\A k \in DOMAIN op.uav : op.uav[k] # b) =>
                 Effect(B, op, target)[b] = IF b \in op.zero THEN Zero ELSE B[b]
<1>1. ASSUME NEW k \in DOMAIN op.uav, op.uav[k] = b
      PROVE  (CHOOSE j \in DOMAIN op.uav : op.uav[j] = b) = k
  <2> PICK j : j = CHOOSE c \in DOMAIN op.uav : op.uav[c] = b
    OBVIOUS
  <2>1. j \in DOMAIN op.uav /\ op.uav[j] = b
    BY <1>1
  <2> QED BY <2>1, <1>1, BufferNames DEF Fits
<1> QED BY <1>1 DEF Effect, Zeroed

-----------------------------------------------------------------------------
(* The dispatches of a pass                                                  *)

\* What the three passes over a head clear before the first.
AttnCleared(h) == {Tmp("dP_tmp"), Tmp("dot_row")} \cup IF h = 0 THEN {Tmp("d_qkv")} ELSE {}

\* A sequence that is exactly these elements: kept folded, it stands for the
\* dispatches of a place and for the results of a kernel.
List1(q, o1) == q = <<o1>>
LEMMA InList1 ==
    \A q, o1 :
        List1(q, o1) =>
            Len(q) = 1 /\ q[1] = o1
BY DEF List1

List2(q, o1, o2) == q = <<o1, o2>>
LEMMA InList2 ==
    \A q, o1, o2 :
        List2(q, o1, o2) =>
            Len(q) = 2 /\ q[1] = o1 /\ q[2] = o2
BY DEF List2

List3(q, o1, o2, o3) == q = <<o1, o2, o3>>
LEMMA InList3 ==
    \A q, o1, o2, o3 :
        List3(q, o1, o2, o3) =>
            Len(q) = 3 /\ q[1] = o1 /\ q[2] = o2 /\ q[3] = o3
BY DEF List3

List5(q, o1, o2, o3, o4, o5) == q = <<o1, o2, o3, o4, o5>>
LEMMA InList5 ==
    \A q, o1, o2, o3, o4, o5 :
        List5(q, o1, o2, o3, o4, o5) =>
            Len(q) = 5 /\ q[1] = o1 /\ q[2] = o2 /\ q[3] = o3 /\ q[4] = o4 /\ q[5] = o5
BY DEF List5

List9(q, o1, o2, o3, o4, o5, o6, o7, o8, o9) == q = <<o1, o2, o3, o4, o5, o6, o7, o8, o9>>
LEMMA InList9 ==
    \A q, o1, o2, o3, o4, o5, o6, o7, o8, o9 :
        List9(q, o1, o2, o3, o4, o5, o6, o7, o8, o9) =>
            Len(q) = 9 /\ q[1] = o1 /\ q[2] = o2 /\ q[3] = o3 /\ q[4] = o4 /\ q[5] = o5
                    /\ q[6] = o6 /\ q[7] = o7 /\ q[8] = o8 /\ q[9] = o9
BY DEF List9

\* The dispatches of each place of the program, in order.
LEMMA OpsOf_embed ==
    List1(Ops(Place("embed", 0, 0)),
          Kernel("embed_fwd", "", 0, <<Tmp("tokens"), W("wte", 0), W("wpe", 0)>>,
                     {Act("h", 0)}, <<Act("h", 0)>>))
BY DEF Ops, Place, EmbedOps, Run, Copy, NormOp, LinearOp, MmBwdA, MmBwdB, BiasBwd,
       LnBwdDx, LnBwdParams, AttnCleared, List1

LEMMA OpsOf_attnForward ==
    ASSUME NEW l
    PROVE  List5(Ops(Place("attnForward", l, 0)),
                 Kernel("lnorm_fwd", "", 0, <<Act("h", l), W("ln_1.w", l), W("ln_1.b", l)>>,
                            {}, <<Act("ln1_y", l), Act("xhat_ln1", l), Act("inv_std_ln1", l)>>),
                 Kernel("matmul_fwd", "linear", 0, <<Act("ln1_y", l), W("c_attn.w", l),
                            W("c_attn.b", l)>>, {Act("qkv", l)}, <<Act("qkv", l)>>),
                 Kernel("attn_fwd", "", 0, <<Act("qkv", l)>>, {Act("attn_out", l)},
                            <<Act("attn_out", l), Act("P", l)>>),
                 Kernel("matmul_fwd", "linear", 0, <<Act("attn_out", l), W("attn.c_proj.w", l),
                            W("attn.c_proj.b", l)>>, {Tmp("dh")}, <<Tmp("dh")>>),
                 Kernel("resadd_add3", "", 0, <<Act("h", l), Tmp("dh")>>, {},
                            <<Act("h", l + 1)>>))
BY DEF Ops, Place, AttnForwardOps, Run, Copy, NormOp, LinearOp, MmBwdA, MmBwdB, BiasBwd,
       LnBwdDx, LnBwdParams, AttnCleared, List5

LEMMA OpsOf_mlpForward ==
    ASSUME NEW l
    PROVE  List5(Ops(Place("mlpForward", l, 0)),
                 Kernel("lnorm_fwd", "", 0, <<Act("h", l + 1), W("ln_2.w", l),
                            W("ln_2.b", l)>>, {}, <<Act("ln2_y", l), Act("xhat_ln2", l),
                                  Act("inv_std_ln2", l)>>),
                 Kernel("matmul_fwd", "linear", 0, <<Act("ln2_y", l), W("c_fc.w", l),
                            W("c_fc.b", l)>>, {Act("mlp_pre", l)}, <<Act("mlp_pre", l)>>),
                 Kernel("gelu_fwd", "", 0, <<Act("mlp_pre", l)>>, {Act("mlp_gelu", l)},
                            <<Act("mlp_gelu", l)>>),
                 Kernel("matmul_fwd", "linear", 0, <<Act("mlp_gelu", l), W("mlp.c_proj.w", l),
                            W("mlp.c_proj.b", l)>>, {Tmp("dh")}, <<Tmp("dh")>>),
                 Kernel("resadd_addto", "", 0, <<Tmp("dh")>>, {}, <<Act("h", l + 1)>>))
BY DEF Ops, Place, MlpForwardOps, Run, Copy, NormOp, LinearOp, MmBwdA, MmBwdB, BiasBwd,
       LnBwdDx, LnBwdParams, AttnCleared, List5

LEMMA OpsOf_head ==
    List3(Ops(Place("head", 0, 0)),
          Kernel("lnorm_fwd", "", 0, <<Act("h", NLayer), W("ln_f.w", 0), W("ln_f.b", 0)>>, {},
                     <<Tmp("lnf_y"), Tmp("xhat_lnf"), Tmp("inv_std_lnf")>>),
          Kernel("matmul_transb", "", 0, <<Tmp("lnf_y"), W("wte", 0)>>, {Tmp("logits")},
                     <<Tmp("logits")>>),
          Kernel("loss", "", 0, <<Tmp("logits")>>, {}, <<Tmp("dlogits"), Tmp("loss")>>))
BY DEF Ops, Place, HeadOps, Run, Copy, NormOp, LinearOp, MmBwdA, MmBwdB, BiasBwd,
       LnBwdDx, LnBwdParams, AttnCleared, List3

LEMMA OpsOf_headBack ==
    List5(Ops(Place("headBack", 0, 0)),
          Kernel("matmul_fwd", "column", 0, <<Tmp("dlogits"), Tmp("lnf_y"), Null>>, {},
                     <<G("wte", 0)>>),
          Kernel("matmul_fwd", "row", 0, <<Tmp("dlogits"), W("wte", 0), Null>>, {Tmp("dh")},
                     <<Tmp("dh")>>),
          Kernel("copy", "", 0, <<Tmp("dh")>>, {}, <<Tmp("lnf_y")>>),
          Kernel("lnorm_bwd", "", 0, <<Tmp("xhat_lnf"), W("ln_f.w", 0), Tmp("lnf_y"),
                     Tmp("inv_std_lnf")>>, {Tmp("dh")}, <<Tmp("dh"), Null, Null>>),
          Kernel("lnorm_bwd_params", "", 0, <<Tmp("xhat_lnf"), Null, Tmp("lnf_y"), Null>>, {},
                     <<Null, G("ln_f.w", 0), G("ln_f.b", 0)>>))
BY DEF Ops, Place, HeadBackOps, Run, Copy, NormOp, LinearOp, MmBwdA, MmBwdB, BiasBwd,
       LnBwdDx, LnBwdParams, AttnCleared, List5

LEMMA OpsOf_mlpBack ==
    ASSUME NEW l
    PROVE  List9(Ops(Place("mlpBack", l, 0)),
                 Kernel("matmul_bwd_dB", "", 0, <<Act("mlp_gelu", l), Null, Tmp("dh")>>, {},
                            <<Tmp("loss"), G("mlp.c_proj.w", l)>>),
                 Kernel("bias_bwd", "", 0, <<Tmp("dh")>>, {}, <<G("mlp.c_proj.b", l)>>),
                 Kernel("matmul_bwd_dA", "", 0, <<Null, W("mlp.c_proj.w", l), Tmp("dh")>>,
                            {Tmp("d_mlp")}, <<Tmp("d_mlp"), Tmp("loss")>>),
                 Kernel("gelu_bwd", "", 0, <<Act("mlp_pre", l)>>, {}, <<Tmp("d_mlp")>>),
                 Kernel("matmul_bwd_dB", "", 0, <<Act("ln2_y", l), Null, Tmp("d_mlp")>>, {},
                            <<Tmp("loss"), G("c_fc.w", l)>>),
                 Kernel("bias_bwd", "", 0, <<Tmp("d_mlp")>>, {}, <<G("c_fc.b", l)>>),
                 Kernel("matmul_bwd_dA", "", 0, <<Null, W("c_fc.w", l), Tmp("d_mlp")>>,
                            {Tmp("d_qkv")}, <<Tmp("d_qkv"), Tmp("loss")>>),
                 Kernel("lnorm_bwd", "", 0, <<Act("xhat_ln2", l), W("ln_2.w", l), Tmp("d_qkv"),
                            Act("inv_std_ln2", l)>>, {}, <<Tmp("dh"), Null, Null>>),
                 Kernel("lnorm_bwd_params", "", 0, <<Act("xhat_ln2", l), Null, Tmp("d_qkv"),
                            Null>>, {}, <<Null, G("ln_2.w", l), G("ln_2.b", l)>>))
BY DEF Ops, Place, MlpBackOps, Run, Copy, NormOp, LinearOp, MmBwdA, MmBwdB, BiasBwd,
       LnBwdDx, LnBwdParams, AttnCleared, List9

LEMMA OpsOf_projBack ==
    ASSUME NEW l
    PROVE  List3(Ops(Place("projBack", l, 0)),
                 Kernel("matmul_bwd_dB", "", 0, <<Act("attn_out", l), Null, Tmp("dh")>>, {},
                            <<Tmp("loss"), G("attn.c_proj.w", l)>>),
                 Kernel("bias_bwd", "", 0, <<Tmp("dh")>>, {}, <<G("attn.c_proj.b", l)>>),
                 Kernel("matmul_bwd_dA", "", 0, <<Null, W("attn.c_proj.w", l), Tmp("dh")>>,
                            {Tmp("lnf_y")}, <<Tmp("lnf_y"), Tmp("loss")>>))
BY DEF Ops, Place, ProjBackOps, Run, Copy, NormOp, LinearOp, MmBwdA, MmBwdB, BiasBwd,
       LnBwdDx, LnBwdParams, AttnCleared, List3

LEMMA OpsOf_attnBack ==
    ASSUME NEW l, NEW h
    PROVE  List3(Ops(Place("attnBack", l, h)),
                 Kernel("attn_bwd_dvdp", "", h, <<Act("qkv", l), Act("P", l), Tmp("lnf_y")>>,
                            AttnCleared(h), <<Tmp("d_qkv"), Tmp("dP_tmp"), Tmp("dot_row")>>),
                 Kernel("attn_bwd_dq", "", h, <<Act("qkv", l), Act("P", l), Tmp("lnf_y")>>, {},
                            <<Tmp("d_qkv"), Tmp("dP_tmp"), Tmp("dot_row")>>),
                 Kernel("attn_bwd_dk", "", h, <<Act("qkv", l), Act("P", l), Tmp("lnf_y")>>, {},
                            <<Tmp("d_qkv"), Tmp("dP_tmp"), Tmp("dot_row")>>))
BY DEF Ops, Place, AttnBackOps, Run, Copy, NormOp, LinearOp, MmBwdA, MmBwdB, BiasBwd,
       LnBwdDx, LnBwdParams, AttnCleared, List3

LEMMA OpsOf_qkvBack ==
    ASSUME NEW l
    PROVE  List5(Ops(Place("qkvBack", l, 0)),
                 Kernel("matmul_bwd_dB", "", 0, <<Act("ln1_y", l), Null, Tmp("d_qkv")>>, {},
                            <<Tmp("loss"), G("c_attn.w", l)>>),
                 Kernel("bias_bwd", "", 0, <<Tmp("d_qkv")>>, {}, <<G("c_attn.b", l)>>),
                 Kernel("matmul_bwd_dA", "", 0, <<Null, W("c_attn.w", l), Tmp("d_qkv")>>,
                            {Tmp("lnf_y")}, <<Tmp("lnf_y"), Tmp("loss")>>),
                 Kernel("lnorm_bwd", "", 0, <<Act("xhat_ln1", l), W("ln_1.w", l), Tmp("lnf_y"),
                            Act("inv_std_ln1", l)>>, {}, <<Tmp("dh"), Null, Null>>),
                 Kernel("lnorm_bwd_params", "", 0, <<Act("xhat_ln1", l), Null, Tmp("lnf_y"),
                            Null>>, {}, <<Null, G("ln_1.w", l), G("ln_1.b", l)>>))
BY DEF Ops, Place, QkvBackOps, Run, Copy, NormOp, LinearOp, MmBwdA, MmBwdB, BiasBwd,
       LnBwdDx, LnBwdParams, AttnCleared, List5

LEMMA OpsOf_embedBack ==
    List1(Ops(Place("embedBack", 0, 0)),
          Kernel("embed_bwd", "", 0, <<Tmp("tokens"), Tmp("dh")>>, {},
                     <<G("wte", 0), G("wpe", 0)>>))
BY DEF Ops, Place, EmbedBackOps, Run, Copy, NormOp, LinearOp, MmBwdA, MmBwdB, BiasBwd,
       LnBwdDx, LnBwdParams, AttnCleared, List1

\* The parts of the places there are.
LEMMA PlaceParts ==
    \A p \in Places :
        \/ p = Place("embed", 0, 0) \/ p = Place("head", 0, 0) \/ p = Place("headBack", 0, 0)
        \/ p = Place("embedBack", 0, 0) \/ p = End
        \/ \E l \in Layers :
              \/ p = Place("attnForward", l, 0) \/ p = Place("mlpForward", l, 0)
              \/ p = Place("mlpBack", l, 0) \/ p = Place("projBack", l, 0)
              \/ p = Place("qkvBack", l, 0)
        \/ \E l \in Layers, h \in Heads : p = Place("attnBack", l, h)
BY DEF Places, End

-----------------------------------------------------------------------------
(* A dispatch of so many inputs and outputs fits when its views are buffers, *)
(* no input is an output, and no output occurs twice.                        *)

\* Short tuples.
LEMMA Tuple1 ==
    ASSUME NEW S, NEW a
    PROVE  /\ Len(<<a>>) = 1 /\ DOMAIN <<a>> = {1}
           /\ <<a>>[1] = a
           /\ {a} \subseteq S => <<a>> \in Seq(S)
OBVIOUS

LEMMA Tuple2 ==
    ASSUME NEW S, NEW a, NEW b
    PROVE  /\ Len(<<a, b>>) = 2 /\ DOMAIN <<a, b>> = {1, 2}
           /\ <<a, b>>[1] = a /\ <<a, b>>[2] = b
           /\ {a, b} \subseteq S => <<a, b>> \in Seq(S)
OBVIOUS

LEMMA Tuple3 ==
    ASSUME NEW S, NEW a, NEW b, NEW c
    PROVE  /\ Len(<<a, b, c>>) = 3 /\ DOMAIN <<a, b, c>> = {1, 2, 3}
           /\ <<a, b, c>>[1] = a /\ <<a, b, c>>[2] = b /\ <<a, b, c>>[3] = c
           /\ {a, b, c} \subseteq S => <<a, b, c>> \in Seq(S)
OBVIOUS

LEMMA Tuple4 ==
    ASSUME NEW S, NEW a, NEW b, NEW c, NEW d
    PROVE  /\ Len(<<a, b, c, d>>) = 4 /\ DOMAIN <<a, b, c, d>> = {1, 2, 3, 4}
           /\ <<a, b, c, d>>[1] = a /\ <<a, b, c, d>>[2] = b /\ <<a, b, c, d>>[3] = c
                /\ <<a, b, c, d>>[4] = d
           /\ {a, b, c, d} \subseteq S => <<a, b, c, d>> \in Seq(S)
OBVIOUS

\* One definition and one lemma per number of inputs and outputs.
Views11(cs, s1, u1, zero) ==
    /\ <<cs, 1, 1>> \in Arities /\ zero \subseteq WorkingBuffers
    /\ {s1} \subseteq Buffers \cup {Null}
    /\ {u1} \subseteq WorkingBuffers \cup Gradients \cup {Null}
    /\ \A v \in {s1} : v \in {u1} => v = Null

LEMMA Fits11 ==
    \A cs, use, head, s1, u1, zero :
        Views11(cs, s1, u1, zero) =>
            Fits(Kernel(cs, use, head, <<s1>>, zero, <<u1>>))
<1> SUFFICES ASSUME NEW cs, NEW use, NEW head, NEW s1, NEW u1, NEW zero,
                    Views11(cs, s1, u1, zero)
             PROVE  Fits(Kernel(cs, use, head, <<s1>>, zero, <<u1>>))
  OBVIOUS
<1> USE DEF Views11
<1> PICK op : op = Kernel(cs, use, head, <<s1>>, zero, <<u1>>)
  OBVIOUS
<1>1. op.cs = cs /\ op.srv = <<s1>> /\ op.uav = <<u1>> /\ op.zero = zero
  BY DEF Kernel
<1>2. /\ Len(op.srv) = 1 /\ DOMAIN op.srv = {1} /\ op.srv \in Seq(Buffers \cup {Null})
      /\ op.srv[1] = s1
  <2>1. {s1} \subseteq Buffers \cup {Null}
    OBVIOUS
  <2>2. /\ Len(<<s1>>) = 1 /\ DOMAIN <<s1>> = {1} /\ <<s1>> \in Seq(Buffers \cup {Null})
        /\ <<s1>>[1] = s1
    BY <2>1, Tuple1
  <2> QED BY <2>2, <1>1, Zenon
<1>3. /\ Len(op.uav) = 1 /\ DOMAIN op.uav = {1}
      /\ op.uav \in Seq(WorkingBuffers \cup Gradients \cup {Null})
      /\ op.uav[1] = u1
  <2>1. {u1} \subseteq WorkingBuffers \cup Gradients \cup {Null}
    OBVIOUS
  <2>2. /\ Len(<<u1>>) = 1 /\ DOMAIN <<u1>> = {1}
        /\ <<u1>> \in Seq(WorkingBuffers \cup Gradients \cup {Null})
        /\ <<u1>>[1] = u1
    BY <2>1, Tuple1
  <2> QED BY <2>2, <1>1, Zenon
<1>4. \A j \in {1}, k \in {1} : op.srv[j] = op.uav[k] => op.srv[j] = Null
  BY <1>2, <1>3
<1>5. \A j, k \in {1} : op.uav[j] = op.uav[k] => j = k \/ op.uav[j] = Null
  BY <1>3
<1>6. <<op.cs, Len(op.srv), Len(op.uav)>> \in Arities /\ op.zero \subseteq WorkingBuffers
  BY <1>1, <1>2, <1>3
<1>7. Fits(op)
  <2> HIDE DEF Fits
  <2> QED BY <1>2, <1>3, <1>4, <1>5, <1>6 DEF Fits
<1> QED BY <1>7

Views12(cs, s1, u1, u2, zero) ==
    /\ <<cs, 1, 2>> \in Arities /\ zero \subseteq WorkingBuffers
    /\ {s1} \subseteq Buffers \cup {Null}
    /\ {u1, u2} \subseteq WorkingBuffers \cup Gradients \cup {Null}
    /\ \A v \in {s1} : v \in {u1, u2} => v = Null
    /\ u1 = u2 => u1 = Null

LEMMA Fits12 ==
    \A cs, use, head, s1, u1, u2, zero :
        Views12(cs, s1, u1, u2, zero) =>
            Fits(Kernel(cs, use, head, <<s1>>, zero, <<u1, u2>>))
<1> SUFFICES ASSUME NEW cs, NEW use, NEW head, NEW s1, NEW u1, NEW u2, NEW zero,
                    Views12(cs, s1, u1, u2, zero)
             PROVE  Fits(Kernel(cs, use, head, <<s1>>, zero, <<u1, u2>>))
  OBVIOUS
<1> USE DEF Views12
<1> PICK op : op = Kernel(cs, use, head, <<s1>>, zero, <<u1, u2>>)
  OBVIOUS
<1>1. op.cs = cs /\ op.srv = <<s1>> /\ op.uav = <<u1, u2>> /\ op.zero = zero
  BY DEF Kernel
<1>2. /\ Len(op.srv) = 1 /\ DOMAIN op.srv = {1} /\ op.srv \in Seq(Buffers \cup {Null})
      /\ op.srv[1] = s1
  <2>1. {s1} \subseteq Buffers \cup {Null}
    OBVIOUS
  <2>2. /\ Len(<<s1>>) = 1 /\ DOMAIN <<s1>> = {1} /\ <<s1>> \in Seq(Buffers \cup {Null})
        /\ <<s1>>[1] = s1
    BY <2>1, Tuple1
  <2> QED BY <2>2, <1>1, Zenon
<1>3. /\ Len(op.uav) = 2 /\ DOMAIN op.uav = {1, 2}
      /\ op.uav \in Seq(WorkingBuffers \cup Gradients \cup {Null})
      /\ op.uav[1] = u1 /\ op.uav[2] = u2
  <2>1. {u1, u2} \subseteq WorkingBuffers \cup Gradients \cup {Null}
    OBVIOUS
  <2>2. /\ Len(<<u1, u2>>) = 2 /\ DOMAIN <<u1, u2>> = {1, 2}
        /\ <<u1, u2>> \in Seq(WorkingBuffers \cup Gradients \cup {Null})
        /\ <<u1, u2>>[1] = u1 /\ <<u1, u2>>[2] = u2
    BY <2>1, Tuple2
  <2> QED BY <2>2, <1>1, Zenon
<1>4. \A j \in {1}, k \in {1, 2} : op.srv[j] = op.uav[k] => op.srv[j] = Null
  BY <1>2, <1>3
<1>5. \A j, k \in {1, 2} : op.uav[j] = op.uav[k] => j = k \/ op.uav[j] = Null
  BY <1>3
<1>6. <<op.cs, Len(op.srv), Len(op.uav)>> \in Arities /\ op.zero \subseteq WorkingBuffers
  BY <1>1, <1>2, <1>3
<1>7. Fits(op)
  <2> HIDE DEF Fits
  <2> QED BY <1>2, <1>3, <1>4, <1>5, <1>6 DEF Fits
<1> QED BY <1>7

Views21(cs, s1, s2, u1, zero) ==
    /\ <<cs, 2, 1>> \in Arities /\ zero \subseteq WorkingBuffers
    /\ {s1, s2} \subseteq Buffers \cup {Null}
    /\ {u1} \subseteq WorkingBuffers \cup Gradients \cup {Null}
    /\ \A v \in {s1, s2} : v \in {u1} => v = Null

LEMMA Fits21 ==
    \A cs, use, head, s1, s2, u1, zero :
        Views21(cs, s1, s2, u1, zero) =>
            Fits(Kernel(cs, use, head, <<s1, s2>>, zero, <<u1>>))
<1> SUFFICES ASSUME NEW cs, NEW use, NEW head, NEW s1, NEW s2, NEW u1, NEW zero,
                    Views21(cs, s1, s2, u1, zero)
             PROVE  Fits(Kernel(cs, use, head, <<s1, s2>>, zero, <<u1>>))
  OBVIOUS
<1> USE DEF Views21
<1> PICK op : op = Kernel(cs, use, head, <<s1, s2>>, zero, <<u1>>)
  OBVIOUS
<1>1. op.cs = cs /\ op.srv = <<s1, s2>> /\ op.uav = <<u1>> /\ op.zero = zero
  BY DEF Kernel
<1>2. /\ Len(op.srv) = 2 /\ DOMAIN op.srv = {1, 2} /\ op.srv \in Seq(Buffers \cup {Null})
      /\ op.srv[1] = s1 /\ op.srv[2] = s2
  <2>1. {s1, s2} \subseteq Buffers \cup {Null}
    OBVIOUS
  <2>2. /\ Len(<<s1, s2>>) = 2 /\ DOMAIN <<s1, s2>> = {1, 2}
             /\ <<s1, s2>> \in Seq(Buffers \cup {Null})
        /\ <<s1, s2>>[1] = s1 /\ <<s1, s2>>[2] = s2
    BY <2>1, Tuple2
  <2> QED BY <2>2, <1>1, Zenon
<1>3. /\ Len(op.uav) = 1 /\ DOMAIN op.uav = {1}
      /\ op.uav \in Seq(WorkingBuffers \cup Gradients \cup {Null})
      /\ op.uav[1] = u1
  <2>1. {u1} \subseteq WorkingBuffers \cup Gradients \cup {Null}
    OBVIOUS
  <2>2. /\ Len(<<u1>>) = 1 /\ DOMAIN <<u1>> = {1}
        /\ <<u1>> \in Seq(WorkingBuffers \cup Gradients \cup {Null})
        /\ <<u1>>[1] = u1
    BY <2>1, Tuple1
  <2> QED BY <2>2, <1>1, Zenon
<1>4. \A j \in {1, 2}, k \in {1} : op.srv[j] = op.uav[k] => op.srv[j] = Null
  BY <1>2, <1>3
<1>5. \A j, k \in {1} : op.uav[j] = op.uav[k] => j = k \/ op.uav[j] = Null
  BY <1>3
<1>6. <<op.cs, Len(op.srv), Len(op.uav)>> \in Arities /\ op.zero \subseteq WorkingBuffers
  BY <1>1, <1>2, <1>3
<1>7. Fits(op)
  <2> HIDE DEF Fits
  <2> QED BY <1>2, <1>3, <1>4, <1>5, <1>6 DEF Fits
<1> QED BY <1>7

Views22(cs, s1, s2, u1, u2, zero) ==
    /\ <<cs, 2, 2>> \in Arities /\ zero \subseteq WorkingBuffers
    /\ {s1, s2} \subseteq Buffers \cup {Null}
    /\ {u1, u2} \subseteq WorkingBuffers \cup Gradients \cup {Null}
    /\ \A v \in {s1, s2} : v \in {u1, u2} => v = Null
    /\ u1 = u2 => u1 = Null

LEMMA Fits22 ==
    \A cs, use, head, s1, s2, u1, u2, zero :
        Views22(cs, s1, s2, u1, u2, zero) =>
            Fits(Kernel(cs, use, head, <<s1, s2>>, zero, <<u1, u2>>))
<1> SUFFICES ASSUME NEW cs, NEW use, NEW head, NEW s1, NEW s2, NEW u1, NEW u2, NEW zero,
                    Views22(cs, s1, s2, u1, u2, zero)
             PROVE  Fits(Kernel(cs, use, head, <<s1, s2>>, zero, <<u1, u2>>))
  OBVIOUS
<1> USE DEF Views22
<1> PICK op : op = Kernel(cs, use, head, <<s1, s2>>, zero, <<u1, u2>>)
  OBVIOUS
<1>1. op.cs = cs /\ op.srv = <<s1, s2>> /\ op.uav = <<u1, u2>> /\ op.zero = zero
  BY DEF Kernel
<1>2. /\ Len(op.srv) = 2 /\ DOMAIN op.srv = {1, 2} /\ op.srv \in Seq(Buffers \cup {Null})
      /\ op.srv[1] = s1 /\ op.srv[2] = s2
  <2>1. {s1, s2} \subseteq Buffers \cup {Null}
    OBVIOUS
  <2>2. /\ Len(<<s1, s2>>) = 2 /\ DOMAIN <<s1, s2>> = {1, 2}
             /\ <<s1, s2>> \in Seq(Buffers \cup {Null})
        /\ <<s1, s2>>[1] = s1 /\ <<s1, s2>>[2] = s2
    BY <2>1, Tuple2
  <2> QED BY <2>2, <1>1, Zenon
<1>3. /\ Len(op.uav) = 2 /\ DOMAIN op.uav = {1, 2}
      /\ op.uav \in Seq(WorkingBuffers \cup Gradients \cup {Null})
      /\ op.uav[1] = u1 /\ op.uav[2] = u2
  <2>1. {u1, u2} \subseteq WorkingBuffers \cup Gradients \cup {Null}
    OBVIOUS
  <2>2. /\ Len(<<u1, u2>>) = 2 /\ DOMAIN <<u1, u2>> = {1, 2}
        /\ <<u1, u2>> \in Seq(WorkingBuffers \cup Gradients \cup {Null})
        /\ <<u1, u2>>[1] = u1 /\ <<u1, u2>>[2] = u2
    BY <2>1, Tuple2
  <2> QED BY <2>2, <1>1, Zenon
<1>4. \A j \in {1, 2}, k \in {1, 2} : op.srv[j] = op.uav[k] => op.srv[j] = Null
  BY <1>2, <1>3
<1>5. \A j, k \in {1, 2} : op.uav[j] = op.uav[k] => j = k \/ op.uav[j] = Null
  BY <1>3
<1>6. <<op.cs, Len(op.srv), Len(op.uav)>> \in Arities /\ op.zero \subseteq WorkingBuffers
  BY <1>1, <1>2, <1>3
<1>7. Fits(op)
  <2> HIDE DEF Fits
  <2> QED BY <1>2, <1>3, <1>4, <1>5, <1>6 DEF Fits
<1> QED BY <1>7

Views31(cs, s1, s2, s3, u1, zero) ==
    /\ <<cs, 3, 1>> \in Arities /\ zero \subseteq WorkingBuffers
    /\ {s1, s2, s3} \subseteq Buffers \cup {Null}
    /\ {u1} \subseteq WorkingBuffers \cup Gradients \cup {Null}
    /\ \A v \in {s1, s2, s3} : v \in {u1} => v = Null

LEMMA Fits31 ==
    \A cs, use, head, s1, s2, s3, u1, zero :
        Views31(cs, s1, s2, s3, u1, zero) =>
            Fits(Kernel(cs, use, head, <<s1, s2, s3>>, zero, <<u1>>))
<1> SUFFICES ASSUME NEW cs, NEW use, NEW head, NEW s1, NEW s2, NEW s3, NEW u1, NEW zero,
                    Views31(cs, s1, s2, s3, u1, zero)
             PROVE  Fits(Kernel(cs, use, head, <<s1, s2, s3>>, zero, <<u1>>))
  OBVIOUS
<1> USE DEF Views31
<1> PICK op : op = Kernel(cs, use, head, <<s1, s2, s3>>, zero, <<u1>>)
  OBVIOUS
<1>1. op.cs = cs /\ op.srv = <<s1, s2, s3>> /\ op.uav = <<u1>> /\ op.zero = zero
  BY DEF Kernel
<1>2. /\ Len(op.srv) = 3 /\ DOMAIN op.srv = {1, 2, 3} /\ op.srv \in Seq(Buffers \cup {Null})
      /\ op.srv[1] = s1 /\ op.srv[2] = s2 /\ op.srv[3] = s3
  <2>1. {s1, s2, s3} \subseteq Buffers \cup {Null}
    OBVIOUS
  <2>2. /\ Len(<<s1, s2, s3>>) = 3 /\ DOMAIN <<s1, s2, s3>> = {1, 2, 3}
             /\ <<s1, s2, s3>> \in Seq(Buffers \cup {Null})
        /\ <<s1, s2, s3>>[1] = s1 /\ <<s1, s2, s3>>[2] = s2 /\ <<s1, s2, s3>>[3] = s3
    BY <2>1, Tuple3
  <2> QED BY <2>2, <1>1, Zenon
<1>3. /\ Len(op.uav) = 1 /\ DOMAIN op.uav = {1}
      /\ op.uav \in Seq(WorkingBuffers \cup Gradients \cup {Null})
      /\ op.uav[1] = u1
  <2>1. {u1} \subseteq WorkingBuffers \cup Gradients \cup {Null}
    OBVIOUS
  <2>2. /\ Len(<<u1>>) = 1 /\ DOMAIN <<u1>> = {1}
        /\ <<u1>> \in Seq(WorkingBuffers \cup Gradients \cup {Null})
        /\ <<u1>>[1] = u1
    BY <2>1, Tuple1
  <2> QED BY <2>2, <1>1, Zenon
<1>4. \A j \in {1, 2, 3}, k \in {1} : op.srv[j] = op.uav[k] => op.srv[j] = Null
  BY <1>2, <1>3
<1>5. \A j, k \in {1} : op.uav[j] = op.uav[k] => j = k \/ op.uav[j] = Null
  BY <1>3
<1>6. <<op.cs, Len(op.srv), Len(op.uav)>> \in Arities /\ op.zero \subseteq WorkingBuffers
  BY <1>1, <1>2, <1>3
<1>7. Fits(op)
  <2> HIDE DEF Fits
  <2> QED BY <1>2, <1>3, <1>4, <1>5, <1>6 DEF Fits
<1> QED BY <1>7

Views32(cs, s1, s2, s3, u1, u2, zero) ==
    /\ <<cs, 3, 2>> \in Arities /\ zero \subseteq WorkingBuffers
    /\ {s1, s2, s3} \subseteq Buffers \cup {Null}
    /\ {u1, u2} \subseteq WorkingBuffers \cup Gradients \cup {Null}
    /\ \A v \in {s1, s2, s3} : v \in {u1, u2} => v = Null
    /\ u1 = u2 => u1 = Null

LEMMA Fits32 ==
    \A cs, use, head, s1, s2, s3, u1, u2, zero :
        Views32(cs, s1, s2, s3, u1, u2, zero) =>
            Fits(Kernel(cs, use, head, <<s1, s2, s3>>, zero, <<u1, u2>>))
<1> SUFFICES ASSUME NEW cs, NEW use, NEW head, NEW s1, NEW s2, NEW s3, NEW u1, NEW u2, NEW zero,
                    Views32(cs, s1, s2, s3, u1, u2, zero)
             PROVE  Fits(Kernel(cs, use, head, <<s1, s2, s3>>, zero, <<u1, u2>>))
  OBVIOUS
<1> USE DEF Views32
<1> PICK op : op = Kernel(cs, use, head, <<s1, s2, s3>>, zero, <<u1, u2>>)
  OBVIOUS
<1>1. op.cs = cs /\ op.srv = <<s1, s2, s3>> /\ op.uav = <<u1, u2>> /\ op.zero = zero
  BY DEF Kernel
<1>2. /\ Len(op.srv) = 3 /\ DOMAIN op.srv = {1, 2, 3} /\ op.srv \in Seq(Buffers \cup {Null})
      /\ op.srv[1] = s1 /\ op.srv[2] = s2 /\ op.srv[3] = s3
  <2>1. {s1, s2, s3} \subseteq Buffers \cup {Null}
    OBVIOUS
  <2>2. /\ Len(<<s1, s2, s3>>) = 3 /\ DOMAIN <<s1, s2, s3>> = {1, 2, 3}
             /\ <<s1, s2, s3>> \in Seq(Buffers \cup {Null})
        /\ <<s1, s2, s3>>[1] = s1 /\ <<s1, s2, s3>>[2] = s2 /\ <<s1, s2, s3>>[3] = s3
    BY <2>1, Tuple3
  <2> QED BY <2>2, <1>1, Zenon
<1>3. /\ Len(op.uav) = 2 /\ DOMAIN op.uav = {1, 2}
      /\ op.uav \in Seq(WorkingBuffers \cup Gradients \cup {Null})
      /\ op.uav[1] = u1 /\ op.uav[2] = u2
  <2>1. {u1, u2} \subseteq WorkingBuffers \cup Gradients \cup {Null}
    OBVIOUS
  <2>2. /\ Len(<<u1, u2>>) = 2 /\ DOMAIN <<u1, u2>> = {1, 2}
        /\ <<u1, u2>> \in Seq(WorkingBuffers \cup Gradients \cup {Null})
        /\ <<u1, u2>>[1] = u1 /\ <<u1, u2>>[2] = u2
    BY <2>1, Tuple2
  <2> QED BY <2>2, <1>1, Zenon
<1>4. \A j \in {1, 2, 3}, k \in {1, 2} : op.srv[j] = op.uav[k] => op.srv[j] = Null
  BY <1>2, <1>3
<1>5. \A j, k \in {1, 2} : op.uav[j] = op.uav[k] => j = k \/ op.uav[j] = Null
  BY <1>3
<1>6. <<op.cs, Len(op.srv), Len(op.uav)>> \in Arities /\ op.zero \subseteq WorkingBuffers
  BY <1>1, <1>2, <1>3
<1>7. Fits(op)
  <2> HIDE DEF Fits
  <2> QED BY <1>2, <1>3, <1>4, <1>5, <1>6 DEF Fits
<1> QED BY <1>7

Views33(cs, s1, s2, s3, u1, u2, u3, zero) ==
    /\ <<cs, 3, 3>> \in Arities /\ zero \subseteq WorkingBuffers
    /\ {s1, s2, s3} \subseteq Buffers \cup {Null}
    /\ {u1, u2, u3} \subseteq WorkingBuffers \cup Gradients \cup {Null}
    /\ \A v \in {s1, s2, s3} : v \in {u1, u2, u3} => v = Null
    /\ u1 = u2 => u1 = Null
    /\ u1 = u3 => u1 = Null
    /\ u2 = u3 => u2 = Null

LEMMA Fits33 ==
    \A cs, use, head, s1, s2, s3, u1, u2, u3, zero :
        Views33(cs, s1, s2, s3, u1, u2, u3, zero) =>
            Fits(Kernel(cs, use, head, <<s1, s2, s3>>, zero, <<u1, u2, u3>>))
<1> SUFFICES ASSUME NEW cs, NEW use, NEW head, NEW s1, NEW s2, NEW s3, NEW u1, NEW u2, NEW u3,
                    NEW zero,
                    Views33(cs, s1, s2, s3, u1, u2, u3, zero)
             PROVE  Fits(Kernel(cs, use, head, <<s1, s2, s3>>, zero, <<u1, u2, u3>>))
  OBVIOUS
<1> USE DEF Views33
<1> PICK op : op = Kernel(cs, use, head, <<s1, s2, s3>>, zero, <<u1, u2, u3>>)
  OBVIOUS
<1>1. op.cs = cs /\ op.srv = <<s1, s2, s3>> /\ op.uav = <<u1, u2, u3>> /\ op.zero = zero
  BY DEF Kernel
<1>2. /\ Len(op.srv) = 3 /\ DOMAIN op.srv = {1, 2, 3} /\ op.srv \in Seq(Buffers \cup {Null})
      /\ op.srv[1] = s1 /\ op.srv[2] = s2 /\ op.srv[3] = s3
  <2>1. {s1, s2, s3} \subseteq Buffers \cup {Null}
    OBVIOUS
  <2>2. /\ Len(<<s1, s2, s3>>) = 3 /\ DOMAIN <<s1, s2, s3>> = {1, 2, 3}
             /\ <<s1, s2, s3>> \in Seq(Buffers \cup {Null})
        /\ <<s1, s2, s3>>[1] = s1 /\ <<s1, s2, s3>>[2] = s2 /\ <<s1, s2, s3>>[3] = s3
    BY <2>1, Tuple3
  <2> QED BY <2>2, <1>1, Zenon
<1>3. /\ Len(op.uav) = 3 /\ DOMAIN op.uav = {1, 2, 3}
      /\ op.uav \in Seq(WorkingBuffers \cup Gradients \cup {Null})
      /\ op.uav[1] = u1 /\ op.uav[2] = u2 /\ op.uav[3] = u3
  <2>1. {u1, u2, u3} \subseteq WorkingBuffers \cup Gradients \cup {Null}
    OBVIOUS
  <2>2. /\ Len(<<u1, u2, u3>>) = 3 /\ DOMAIN <<u1, u2, u3>> = {1, 2, 3}
        /\ <<u1, u2, u3>> \in Seq(WorkingBuffers \cup Gradients \cup {Null})
        /\ <<u1, u2, u3>>[1] = u1 /\ <<u1, u2, u3>>[2] = u2 /\ <<u1, u2, u3>>[3] = u3
    BY <2>1, Tuple3
  <2> QED BY <2>2, <1>1, Zenon
<1>4. \A j \in {1, 2, 3}, k \in {1, 2, 3} : op.srv[j] = op.uav[k] => op.srv[j] = Null
  BY <1>2, <1>3
<1>5. \A j, k \in {1, 2, 3} : op.uav[j] = op.uav[k] => j = k \/ op.uav[j] = Null
  BY <1>3
<1>6. <<op.cs, Len(op.srv), Len(op.uav)>> \in Arities /\ op.zero \subseteq WorkingBuffers
  BY <1>1, <1>2, <1>3
<1>7. Fits(op)
  <2> HIDE DEF Fits
  <2> QED BY <1>2, <1>3, <1>4, <1>5, <1>6 DEF Fits
<1> QED BY <1>7

Views43(cs, s1, s2, s3, s4, u1, u2, u3, zero) ==
    /\ <<cs, 4, 3>> \in Arities /\ zero \subseteq WorkingBuffers
    /\ {s1, s2, s3, s4} \subseteq Buffers \cup {Null}
    /\ {u1, u2, u3} \subseteq WorkingBuffers \cup Gradients \cup {Null}
    /\ \A v \in {s1, s2, s3, s4} : v \in {u1, u2, u3} => v = Null
    /\ u1 = u2 => u1 = Null
    /\ u1 = u3 => u1 = Null
    /\ u2 = u3 => u2 = Null

LEMMA Fits43 ==
    \A cs, use, head, s1, s2, s3, s4, u1, u2, u3, zero :
        Views43(cs, s1, s2, s3, s4, u1, u2, u3, zero) =>
            Fits(Kernel(cs, use, head, <<s1, s2, s3, s4>>, zero, <<u1, u2, u3>>))
<1> SUFFICES ASSUME NEW cs, NEW use, NEW head, NEW s1, NEW s2, NEW s3, NEW s4, NEW u1, NEW u2,
                    NEW u3, NEW zero,
                    Views43(cs, s1, s2, s3, s4, u1, u2, u3, zero)
             PROVE  Fits(Kernel(cs, use, head, <<s1, s2, s3, s4>>, zero, <<u1, u2, u3>>))
  OBVIOUS
<1> USE DEF Views43
<1> PICK op : op = Kernel(cs, use, head, <<s1, s2, s3, s4>>, zero, <<u1, u2, u3>>)
  OBVIOUS
<1>1. op.cs = cs /\ op.srv = <<s1, s2, s3, s4>> /\ op.uav = <<u1, u2, u3>> /\ op.zero = zero
  BY DEF Kernel
<1>2. /\ Len(op.srv) = 4 /\ DOMAIN op.srv = {1, 2, 3, 4} /\ op.srv \in Seq(Buffers \cup {Null})
      /\ op.srv[1] = s1 /\ op.srv[2] = s2 /\ op.srv[3] = s3 /\ op.srv[4] = s4
  <2>1. {s1, s2, s3, s4} \subseteq Buffers \cup {Null}
    OBVIOUS
  <2>2. /\ Len(<<s1, s2, s3, s4>>) = 4 /\ DOMAIN <<s1, s2, s3, s4>> = {1, 2, 3, 4}
             /\ <<s1, s2, s3, s4>> \in Seq(Buffers \cup {Null})
        /\ <<s1, s2, s3, s4>>[1] = s1 /\ <<s1, s2, s3, s4>>[2] = s2 /\ <<s1, s2, s3, s4>>[3]
             = s3 /\ <<s1, s2, s3, s4>>[4] = s4
    BY <2>1, Tuple4
  <2> QED BY <2>2, <1>1, Zenon
<1>3. /\ Len(op.uav) = 3 /\ DOMAIN op.uav = {1, 2, 3}
      /\ op.uav \in Seq(WorkingBuffers \cup Gradients \cup {Null})
      /\ op.uav[1] = u1 /\ op.uav[2] = u2 /\ op.uav[3] = u3
  <2>1. {u1, u2, u3} \subseteq WorkingBuffers \cup Gradients \cup {Null}
    OBVIOUS
  <2>2. /\ Len(<<u1, u2, u3>>) = 3 /\ DOMAIN <<u1, u2, u3>> = {1, 2, 3}
        /\ <<u1, u2, u3>> \in Seq(WorkingBuffers \cup Gradients \cup {Null})
        /\ <<u1, u2, u3>>[1] = u1 /\ <<u1, u2, u3>>[2] = u2 /\ <<u1, u2, u3>>[3] = u3
    BY <2>1, Tuple3
  <2> QED BY <2>2, <1>1, Zenon
<1>4. \A j \in {1, 2, 3, 4}, k \in {1, 2, 3} : op.srv[j] = op.uav[k] => op.srv[j] = Null
  BY <1>2, <1>3
<1>5. \A j, k \in {1, 2, 3} : op.uav[j] = op.uav[k] => j = k \/ op.uav[j] = Null
  BY <1>3
<1>6. <<op.cs, Len(op.srv), Len(op.uav)>> \in Arities /\ op.zero \subseteq WorkingBuffers
  BY <1>1, <1>2, <1>3
<1>7. Fits(op)
  <2> HIDE DEF Fits
  <2> QED BY <1>2, <1>3, <1>4, <1>5, <1>6 DEF Fits
<1> QED BY <1>7

\* Where the buffers that a place names are.
LEMMA SharedBuffers ==
    \A n \in Shared : /\ Tmp(n) \in WorkingBuffers /\ Tmp(n) \in Buffers /\ Tmp(n) # Null
                     /\ Tmp(n) = Act(n, 0)
BY BufferNames, Tags DEF Tmp, Buffers

LEMMA HiddenBuffers ==
    \A l \in 0 .. NLayer : Act("h", l) \in WorkingBuffers /\ Act("h", l) \in Buffers
BY BufferNames DEF Buffers

LEMMA LayerBuffers ==
    \A l \in Layers :
        /\ l \in 0 .. NLayer /\ l + 1 \in 0 .. NLayer
        /\ \A n \in PerLayer : Act(n, l) \in WorkingBuffers /\ Act(n, l) \in Buffers
        /\ \A n \in LayerParams : G(n, l) \in Gradients /\ G(n, l) \in Buffers
             /\ W(n, l) \in Buffers
<1> TAKE l \in Layers
<1>1. l \in 0 .. NLayer /\ l + 1 \in 0 .. NLayer
  BY ForwardBackwardAssumption DEF Layers
<1>2. \A n \in LayerParams : G(n, l) \in Gradients /\ W(n, l) \in Weights
  <2> TAKE n \in LayerParams
  <2>1. <<n, l>> \in Params
    BY ParamNames
  <2> QED BY <2>1, BufferNames
<1> QED BY <1>1, <1>2, BufferNames DEF Buffers

LEMMA GlobalBuffers ==
    \A n \in GlobalParams :
        G(n, 0) \in Gradients /\ G(n, 0) \in Buffers /\ W(n, 0) \in Buffers
<1> TAKE n \in GlobalParams
<1>1. <<n, 0>> \in Params
  BY ParamNames
<1> QED BY <1>1, BufferNames DEF Buffers

\* The dispatches of a place fit when each of them does.
Fit1(o1) == Fits(o1)
LEMMA FitsAll1 ==
    \A q, o1 :
        Fit1(o1) /\ List1(q, o1) =>
            Len(q) = 1 /\ \A k \in 1 .. 1 : Fits(q[k])
<1> SUFFICES ASSUME NEW q, NEW o1, Fit1(o1),
                    List1(q, o1)
             PROVE  Len(q) = 1 /\ \A k \in 1 .. 1 : Fits(q[k])
  OBVIOUS
<1>1. Len(q) = 1 /\ q[1] = o1
  BY InList1
<1>2. \A k \in 1 .. 1 : k = 1
  OBVIOUS
<1> QED BY <1>1, <1>2 DEF Fit1
Fit3(o1, o2, o3) == Fits(o1) /\ Fits(o2) /\ Fits(o3)
LEMMA FitsAll3 ==
    \A q, o1, o2, o3 :
        Fit3(o1, o2, o3) /\ List3(q, o1, o2, o3) =>
            Len(q) = 3 /\ \A k \in 1 .. 3 : Fits(q[k])
<1> SUFFICES ASSUME NEW q, NEW o1, NEW o2, NEW o3, Fit3(o1, o2, o3),
                    List3(q, o1, o2, o3)
             PROVE  Len(q) = 3 /\ \A k \in 1 .. 3 : Fits(q[k])
  OBVIOUS
<1>1. Len(q) = 3 /\ q[1] = o1 /\ q[2] = o2 /\ q[3] = o3
  BY InList3
<1>2. \A k \in 1 .. 3 : k = 1 \/ k = 2 \/ k = 3
  OBVIOUS
<1> QED BY <1>1, <1>2 DEF Fit3
Fit5(o1, o2, o3, o4, o5) == Fits(o1) /\ Fits(o2) /\ Fits(o3) /\ Fits(o4) /\ Fits(o5)
LEMMA FitsAll5 ==
    \A q, o1, o2, o3, o4, o5 :
        Fit5(o1, o2, o3, o4, o5) /\ List5(q, o1, o2, o3, o4, o5) =>
            Len(q) = 5 /\ \A k \in 1 .. 5 : Fits(q[k])
<1> SUFFICES ASSUME NEW q, NEW o1, NEW o2, NEW o3, NEW o4, NEW o5, Fit5(o1, o2, o3, o4, o5),
                    List5(q, o1, o2, o3, o4, o5)
             PROVE  Len(q) = 5 /\ \A k \in 1 .. 5 : Fits(q[k])
  OBVIOUS
<1>1. Len(q) = 5 /\ q[1] = o1 /\ q[2] = o2 /\ q[3] = o3 /\ q[4] = o4 /\ q[5] = o5
  BY InList5
<1>2. \A k \in 1 .. 5 : k = 1 \/ k = 2 \/ k = 3 \/ k = 4 \/ k = 5
  OBVIOUS
<1> QED BY <1>1, <1>2 DEF Fit5
Fit9(o1, o2, o3, o4, o5, o6, o7, o8, o9) == Fits(o1) /\ Fits(o2) /\ Fits(o3) /\ Fits(o4)
         /\ Fits(o5) /\ Fits(o6) /\ Fits(o7) /\ Fits(o8) /\ Fits(o9)
LEMMA FitsAll9 ==
    \A q, o1, o2, o3, o4, o5, o6, o7, o8, o9 :
        Fit9(o1, o2, o3, o4, o5, o6, o7, o8, o9) /\ List9(q, o1, o2, o3, o4, o5, o6, o7, o8,
                 o9) =>
            Len(q) = 9 /\ \A k \in 1 .. 9 : Fits(q[k])
<1> SUFFICES ASSUME NEW q, NEW o1, NEW o2, NEW o3, NEW o4, NEW o5, NEW o6, NEW o7, NEW o8,
                    NEW o9, Fit9(o1, o2, o3, o4, o5, o6, o7, o8, o9),
                    List9(q, o1, o2, o3, o4, o5, o6, o7, o8, o9)
             PROVE  Len(q) = 9 /\ \A k \in 1 .. 9 : Fits(q[k])
  OBVIOUS
<1>1. Len(q) = 9 /\ q[1] = o1 /\ q[2] = o2 /\ q[3] = o3 /\ q[4] = o4 /\ q[5] = o5 /\ q[6] = o6
              /\ q[7] = o7 /\ q[8] = o8 /\ q[9] = o9
  BY InList9
<1>2. \A k \in 1 .. 9 : k = 1 \/ k = 2 \/ k = 3 \/ k = 4 \/ k = 5 \/ k = 6 \/ k = 7 \/ k = 8
          \/ k = 9
  OBVIOUS
<1> QED BY <1>1, <1>2 DEF Fit9

\* The dispatches of each place fit.
LEMMA FitsOf_embed ==
    /\ Len(Ops(Place("embed", 0, 0))) = 1
    /\ \A k \in 1 .. 1 : Fits(Ops(Place("embed", 0, 0))[k])
<1>1. /\ Tmp("tokens") \in Buffers
      /\ W("wpe", 0) \in Buffers
      /\ W("wte", 0) \in Buffers
  BY SharedBuffers, LayerBuffers, HiddenBuffers, GlobalBuffers, ForwardBackwardAssumption
     DEF Shared, PerLayer, LayerParams, GlobalParams
<1>2. /\ Act("h", 0) \in WorkingBuffers \cup Gradients
  BY SharedBuffers, LayerBuffers, HiddenBuffers, GlobalBuffers, ForwardBackwardAssumption
     DEF Shared, PerLayer, LayerParams, GlobalParams
<1>3. {Act("h", 0)} \subseteq WorkingBuffers /\ {} \subseteq WorkingBuffers
  BY SharedBuffers, LayerBuffers, HiddenBuffers, GlobalBuffers, ForwardBackwardAssumption
     DEF Shared, PerLayer, LayerParams, GlobalParams
<1>4. Fits(Kernel("embed_fwd", "", 0, <<Tmp("tokens"), W("wte", 0), W("wpe", 0)>>,
                  {Act("h", 0)}, <<Act("h", 0)>>))
  <2>1. \A v \in {Tmp("tokens"), W("wte", 0), W("wpe", 0)} : v \in {Act("h", 0)} => v = Null
    BY Tags, ForwardBackwardAssumption DEF Tmp, Layers
  <2>2. <<"embed_fwd", 3, 1>> \in Arities
    BY DEF Arities
  <2>3. Views31("embed_fwd", Tmp("tokens"), W("wte", 0), W("wpe", 0), Act("h", 0),
                    {Act("h", 0)})
    BY <1>1, <1>2, <1>3, <2>1, <2>2 DEF Views31
  <2> QED BY <2>3, Fits31
<1>5. Fit1(Kernel("embed_fwd", "", 0, <<Tmp("tokens"), W("wte", 0), W("wpe", 0)>>,
                  {Act("h", 0)}, <<Act("h", 0)>>))
  BY <1>4 DEF Fit1
<1> QED BY <1>5, OpsOf_embed, FitsAll1

LEMMA FitsOf_attnForward ==
    ASSUME NEW l \in Layers
    PROVE  /\ Len(Ops(Place("attnForward", l, 0))) = 5
           /\ \A k \in 1 .. 5 : Fits(Ops(Place("attnForward", l, 0))[k])
<1>1. /\ Act("attn_out", l) \in Buffers
      /\ Act("h", l) \in Buffers
      /\ Act("ln1_y", l) \in Buffers
      /\ Act("qkv", l) \in Buffers
      /\ Tmp("dh") \in Buffers
      /\ W("attn.c_proj.b", l) \in Buffers
      /\ W("attn.c_proj.w", l) \in Buffers
      /\ W("c_attn.b", l) \in Buffers
      /\ W("c_attn.w", l) \in Buffers
      /\ W("ln_1.b", l) \in Buffers
      /\ W("ln_1.w", l) \in Buffers
  BY SharedBuffers, LayerBuffers, HiddenBuffers, GlobalBuffers, ForwardBackwardAssumption
     DEF Shared, PerLayer, LayerParams, GlobalParams
<1>2. /\ Act("P", l) \in WorkingBuffers \cup Gradients
      /\ Act("attn_out", l) \in WorkingBuffers \cup Gradients
      /\ Act("h", l + 1) \in WorkingBuffers \cup Gradients
      /\ Act("inv_std_ln1", l) \in WorkingBuffers \cup Gradients
      /\ Act("ln1_y", l) \in WorkingBuffers \cup Gradients
      /\ Act("qkv", l) \in WorkingBuffers \cup Gradients
      /\ Act("xhat_ln1", l) \in WorkingBuffers \cup Gradients
      /\ Tmp("dh") \in WorkingBuffers \cup Gradients
  BY SharedBuffers, LayerBuffers, HiddenBuffers, GlobalBuffers, ForwardBackwardAssumption
     DEF Shared, PerLayer, LayerParams, GlobalParams
<1>3. {Act("attn_out", l), Act("qkv", l), Tmp("dh")} \subseteq WorkingBuffers
          /\ {} \subseteq WorkingBuffers
  BY SharedBuffers, LayerBuffers, HiddenBuffers, GlobalBuffers, ForwardBackwardAssumption
     DEF Shared, PerLayer, LayerParams, GlobalParams
<1>4. Fits(Kernel("lnorm_fwd", "", 0, <<Act("h", l), W("ln_1.w", l), W("ln_1.b", l)>>, {},
                  <<Act("ln1_y", l), Act("xhat_ln1", l), Act("inv_std_ln1", l)>>))
  <2>1. \A v \in {Act("h", l), W("ln_1.w", l), W("ln_1.b", l)} : v \in {Act("ln1_y", l),
            Act("xhat_ln1", l), Act("inv_std_ln1", l)} => v = Null
    BY Tags, ForwardBackwardAssumption DEF Tmp, Layers
  <2>2. <<"lnorm_fwd", 3, 3>> \in Arities
    BY DEF Arities
  <2>3. (Act("ln1_y", l) = Act("xhat_ln1", l) => Act("ln1_y", l) = Null)
            /\ (Act("ln1_y", l) = Act("inv_std_ln1", l) => Act("ln1_y", l) = Null)
                 /\ (Act("xhat_ln1", l) = Act("inv_std_ln1", l) => Act("xhat_ln1", l) = Null)
    BY Tags DEF Tmp
  <2>4. Views33("lnorm_fwd", Act("h", l), W("ln_1.w", l), W("ln_1.b", l), Act("ln1_y", l),
                    Act("xhat_ln1", l), Act("inv_std_ln1", l), {})
    BY <1>1, <1>2, <1>3, <2>1, <2>2, <2>3 DEF Views33
  <2> QED BY <2>4, Fits33
<1>5. Fits(Kernel("matmul_fwd", "linear", 0, <<Act("ln1_y", l), W("c_attn.w", l),
                  W("c_attn.b", l)>>, {Act("qkv", l)}, <<Act("qkv", l)>>))
  <2>1. \A v \in {Act("ln1_y", l), W("c_attn.w", l), W("c_attn.b", l)} : v \in {Act("qkv", l)}
            => v = Null
    BY Tags, ForwardBackwardAssumption DEF Tmp, Layers
  <2>2. <<"matmul_fwd", 3, 1>> \in Arities
    BY DEF Arities
  <2>3. Views31("matmul_fwd", Act("ln1_y", l), W("c_attn.w", l), W("c_attn.b", l),
                    Act("qkv", l), {Act("qkv", l)})
    BY <1>1, <1>2, <1>3, <2>1, <2>2 DEF Views31
  <2> QED BY <2>3, Fits31
<1>6. Fits(Kernel("attn_fwd", "", 0, <<Act("qkv", l)>>, {Act("attn_out", l)},
                  <<Act("attn_out", l), Act("P", l)>>))
  <2>1. \A v \in {Act("qkv", l)} : v \in {Act("attn_out", l), Act("P", l)} => v = Null
    BY Tags, ForwardBackwardAssumption DEF Tmp, Layers
  <2>2. <<"attn_fwd", 1, 2>> \in Arities
    BY DEF Arities
  <2>3. (Act("attn_out", l) = Act("P", l) => Act("attn_out", l) = Null)
    BY Tags DEF Tmp
  <2>4. Views12("attn_fwd", Act("qkv", l), Act("attn_out", l), Act("P", l),
                    {Act("attn_out", l)})
    BY <1>1, <1>2, <1>3, <2>1, <2>2, <2>3 DEF Views12
  <2> QED BY <2>4, Fits12
<1>7. Fits(Kernel("matmul_fwd", "linear", 0, <<Act("attn_out", l), W("attn.c_proj.w", l),
                  W("attn.c_proj.b", l)>>, {Tmp("dh")}, <<Tmp("dh")>>))
  <2>1. \A v \in {Act("attn_out", l), W("attn.c_proj.w", l), W("attn.c_proj.b", l)} :
            v \in {Tmp("dh")} => v = Null
    BY Tags, ForwardBackwardAssumption DEF Tmp, Layers
  <2>2. <<"matmul_fwd", 3, 1>> \in Arities
    BY DEF Arities
  <2>3. Views31("matmul_fwd", Act("attn_out", l), W("attn.c_proj.w", l), W("attn.c_proj.b", l),
                    Tmp("dh"), {Tmp("dh")})
    BY <1>1, <1>2, <1>3, <2>1, <2>2 DEF Views31
  <2> QED BY <2>3, Fits31
<1>8. Fits(Kernel("resadd_add3", "", 0, <<Act("h", l), Tmp("dh")>>, {}, <<Act("h", l + 1)>>))
  <2>1. \A v \in {Act("h", l), Tmp("dh")} : v \in {Act("h", l + 1)} => v = Null
    BY Tags, ForwardBackwardAssumption DEF Tmp, Layers
  <2>2. <<"resadd_add3", 2, 1>> \in Arities
    BY DEF Arities
  <2>3. Views21("resadd_add3", Act("h", l), Tmp("dh"), Act("h", l + 1), {})
    BY <1>1, <1>2, <1>3, <2>1, <2>2 DEF Views21
  <2> QED BY <2>3, Fits21
<1>9. Fit5(Kernel("lnorm_fwd", "", 0, <<Act("h", l), W("ln_1.w", l), W("ln_1.b", l)>>, {},
                  <<Act("ln1_y", l), Act("xhat_ln1", l), Act("inv_std_ln1", l)>>),
         Kernel("matmul_fwd", "linear", 0, <<Act("ln1_y", l), W("c_attn.w", l),
                    W("c_attn.b", l)>>, {Act("qkv", l)}, <<Act("qkv", l)>>),
         Kernel("attn_fwd", "", 0, <<Act("qkv", l)>>, {Act("attn_out", l)},
                    <<Act("attn_out", l), Act("P", l)>>),
         Kernel("matmul_fwd", "linear", 0, <<Act("attn_out", l), W("attn.c_proj.w", l),
                    W("attn.c_proj.b", l)>>, {Tmp("dh")}, <<Tmp("dh")>>),
         Kernel("resadd_add3", "", 0, <<Act("h", l), Tmp("dh")>>, {}, <<Act("h", l + 1)>>))
  BY <1>4, <1>5, <1>6, <1>7, <1>8 DEF Fit5
<1> QED BY <1>9, OpsOf_attnForward, FitsAll5

LEMMA FitsOf_mlpForward ==
    ASSUME NEW l \in Layers
    PROVE  /\ Len(Ops(Place("mlpForward", l, 0))) = 5
           /\ \A k \in 1 .. 5 : Fits(Ops(Place("mlpForward", l, 0))[k])
<1>1. /\ Act("h", l + 1) \in Buffers
      /\ Act("ln2_y", l) \in Buffers
      /\ Act("mlp_gelu", l) \in Buffers
      /\ Act("mlp_pre", l) \in Buffers
      /\ Tmp("dh") \in Buffers
      /\ W("c_fc.b", l) \in Buffers
      /\ W("c_fc.w", l) \in Buffers
      /\ W("ln_2.b", l) \in Buffers
      /\ W("ln_2.w", l) \in Buffers
      /\ W("mlp.c_proj.b", l) \in Buffers
      /\ W("mlp.c_proj.w", l) \in Buffers
  BY SharedBuffers, LayerBuffers, HiddenBuffers, GlobalBuffers, ForwardBackwardAssumption
     DEF Shared, PerLayer, LayerParams, GlobalParams
<1>2. /\ Act("h", l + 1) \in WorkingBuffers \cup Gradients
      /\ Act("inv_std_ln2", l) \in WorkingBuffers \cup Gradients
      /\ Act("ln2_y", l) \in WorkingBuffers \cup Gradients
      /\ Act("mlp_gelu", l) \in WorkingBuffers \cup Gradients
      /\ Act("mlp_pre", l) \in WorkingBuffers \cup Gradients
      /\ Act("xhat_ln2", l) \in WorkingBuffers \cup Gradients
      /\ Tmp("dh") \in WorkingBuffers \cup Gradients
  BY SharedBuffers, LayerBuffers, HiddenBuffers, GlobalBuffers, ForwardBackwardAssumption
     DEF Shared, PerLayer, LayerParams, GlobalParams
<1>3. {Act("mlp_gelu", l), Act("mlp_pre", l), Tmp("dh")} \subseteq WorkingBuffers
          /\ {} \subseteq WorkingBuffers
  BY SharedBuffers, LayerBuffers, HiddenBuffers, GlobalBuffers, ForwardBackwardAssumption
     DEF Shared, PerLayer, LayerParams, GlobalParams
<1>4. Fits(Kernel("lnorm_fwd", "", 0, <<Act("h", l + 1), W("ln_2.w", l), W("ln_2.b", l)>>, {},
                  <<Act("ln2_y", l), Act("xhat_ln2", l), Act("inv_std_ln2", l)>>))
  <2>1. \A v \in {Act("h", l + 1), W("ln_2.w", l), W("ln_2.b", l)} : v \in {Act("ln2_y", l),
            Act("xhat_ln2", l), Act("inv_std_ln2", l)} => v = Null
    BY Tags, ForwardBackwardAssumption DEF Tmp, Layers
  <2>2. <<"lnorm_fwd", 3, 3>> \in Arities
    BY DEF Arities
  <2>3. (Act("ln2_y", l) = Act("xhat_ln2", l) => Act("ln2_y", l) = Null)
            /\ (Act("ln2_y", l) = Act("inv_std_ln2", l) => Act("ln2_y", l) = Null)
                 /\ (Act("xhat_ln2", l) = Act("inv_std_ln2", l) => Act("xhat_ln2", l) = Null)
    BY Tags DEF Tmp
  <2>4. Views33("lnorm_fwd", Act("h", l + 1), W("ln_2.w", l), W("ln_2.b", l), Act("ln2_y", l),
                    Act("xhat_ln2", l), Act("inv_std_ln2", l), {})
    BY <1>1, <1>2, <1>3, <2>1, <2>2, <2>3 DEF Views33
  <2> QED BY <2>4, Fits33
<1>5. Fits(Kernel("matmul_fwd", "linear", 0, <<Act("ln2_y", l), W("c_fc.w", l),
                  W("c_fc.b", l)>>, {Act("mlp_pre", l)}, <<Act("mlp_pre", l)>>))
  <2>1. \A v \in {Act("ln2_y", l), W("c_fc.w", l), W("c_fc.b", l)} : v \in {Act("mlp_pre", l)}
            => v = Null
    BY Tags, ForwardBackwardAssumption DEF Tmp, Layers
  <2>2. <<"matmul_fwd", 3, 1>> \in Arities
    BY DEF Arities
  <2>3. Views31("matmul_fwd", Act("ln2_y", l), W("c_fc.w", l), W("c_fc.b", l),
                    Act("mlp_pre", l), {Act("mlp_pre", l)})
    BY <1>1, <1>2, <1>3, <2>1, <2>2 DEF Views31
  <2> QED BY <2>3, Fits31
<1>6. Fits(Kernel("gelu_fwd", "", 0, <<Act("mlp_pre", l)>>, {Act("mlp_gelu", l)},
                  <<Act("mlp_gelu", l)>>))
  <2>1. \A v \in {Act("mlp_pre", l)} : v \in {Act("mlp_gelu", l)} => v = Null
    BY Tags, ForwardBackwardAssumption DEF Tmp, Layers
  <2>2. <<"gelu_fwd", 1, 1>> \in Arities
    BY DEF Arities
  <2>3. Views11("gelu_fwd", Act("mlp_pre", l), Act("mlp_gelu", l), {Act("mlp_gelu", l)})
    BY <1>1, <1>2, <1>3, <2>1, <2>2 DEF Views11
  <2> QED BY <2>3, Fits11
<1>7. Fits(Kernel("matmul_fwd", "linear", 0, <<Act("mlp_gelu", l), W("mlp.c_proj.w", l),
                  W("mlp.c_proj.b", l)>>, {Tmp("dh")}, <<Tmp("dh")>>))
  <2>1. \A v \in {Act("mlp_gelu", l), W("mlp.c_proj.w", l), W("mlp.c_proj.b", l)} :
            v \in {Tmp("dh")} => v = Null
    BY Tags, ForwardBackwardAssumption DEF Tmp, Layers
  <2>2. <<"matmul_fwd", 3, 1>> \in Arities
    BY DEF Arities
  <2>3. Views31("matmul_fwd", Act("mlp_gelu", l), W("mlp.c_proj.w", l), W("mlp.c_proj.b", l),
                    Tmp("dh"), {Tmp("dh")})
    BY <1>1, <1>2, <1>3, <2>1, <2>2 DEF Views31
  <2> QED BY <2>3, Fits31
<1>8. Fits(Kernel("resadd_addto", "", 0, <<Tmp("dh")>>, {}, <<Act("h", l + 1)>>))
  <2>1. \A v \in {Tmp("dh")} : v \in {Act("h", l + 1)} => v = Null
    BY Tags, ForwardBackwardAssumption DEF Tmp, Layers
  <2>2. <<"resadd_addto", 1, 1>> \in Arities
    BY DEF Arities
  <2>3. Views11("resadd_addto", Tmp("dh"), Act("h", l + 1), {})
    BY <1>1, <1>2, <1>3, <2>1, <2>2 DEF Views11
  <2> QED BY <2>3, Fits11
<1>9. Fit5(Kernel("lnorm_fwd", "", 0, <<Act("h", l + 1), W("ln_2.w", l), W("ln_2.b", l)>>, {},
                  <<Act("ln2_y", l), Act("xhat_ln2", l), Act("inv_std_ln2", l)>>),
         Kernel("matmul_fwd", "linear", 0, <<Act("ln2_y", l), W("c_fc.w", l), W("c_fc.b", l)>>,
                    {Act("mlp_pre", l)}, <<Act("mlp_pre", l)>>),
         Kernel("gelu_fwd", "", 0, <<Act("mlp_pre", l)>>, {Act("mlp_gelu", l)},
                    <<Act("mlp_gelu", l)>>),
         Kernel("matmul_fwd", "linear", 0, <<Act("mlp_gelu", l), W("mlp.c_proj.w", l),
                    W("mlp.c_proj.b", l)>>, {Tmp("dh")}, <<Tmp("dh")>>),
         Kernel("resadd_addto", "", 0, <<Tmp("dh")>>, {}, <<Act("h", l + 1)>>))
  BY <1>4, <1>5, <1>6, <1>7, <1>8 DEF Fit5
<1> QED BY <1>9, OpsOf_mlpForward, FitsAll5

LEMMA FitsOf_head ==
    /\ Len(Ops(Place("head", 0, 0))) = 3
    /\ \A k \in 1 .. 3 : Fits(Ops(Place("head", 0, 0))[k])
<1>1. /\ Act("h", NLayer) \in Buffers
      /\ Tmp("lnf_y") \in Buffers
      /\ Tmp("logits") \in Buffers
      /\ W("ln_f.b", 0) \in Buffers
      /\ W("ln_f.w", 0) \in Buffers
      /\ W("wte", 0) \in Buffers
  BY SharedBuffers, LayerBuffers, HiddenBuffers, GlobalBuffers, ForwardBackwardAssumption
     DEF Shared, PerLayer, LayerParams, GlobalParams
<1>2. /\ Tmp("dlogits") \in WorkingBuffers \cup Gradients
      /\ Tmp("inv_std_lnf") \in WorkingBuffers \cup Gradients
      /\ Tmp("lnf_y") \in WorkingBuffers \cup Gradients
      /\ Tmp("logits") \in WorkingBuffers \cup Gradients
      /\ Tmp("loss") \in WorkingBuffers \cup Gradients
      /\ Tmp("xhat_lnf") \in WorkingBuffers \cup Gradients
  BY SharedBuffers, LayerBuffers, HiddenBuffers, GlobalBuffers, ForwardBackwardAssumption
     DEF Shared, PerLayer, LayerParams, GlobalParams
<1>3. {Tmp("logits")} \subseteq WorkingBuffers /\ {} \subseteq WorkingBuffers
  BY SharedBuffers, LayerBuffers, HiddenBuffers, GlobalBuffers, ForwardBackwardAssumption
     DEF Shared, PerLayer, LayerParams, GlobalParams
<1>4. Fits(Kernel("lnorm_fwd", "", 0, <<Act("h", NLayer), W("ln_f.w", 0), W("ln_f.b", 0)>>, {},
                  <<Tmp("lnf_y"), Tmp("xhat_lnf"), Tmp("inv_std_lnf")>>))
  <2>1. \A v \in {Act("h", NLayer), W("ln_f.w", 0), W("ln_f.b", 0)} : v \in {Tmp("lnf_y"),
            Tmp("xhat_lnf"), Tmp("inv_std_lnf")} => v = Null
    BY Tags, ForwardBackwardAssumption DEF Tmp, Layers
  <2>2. <<"lnorm_fwd", 3, 3>> \in Arities
    BY DEF Arities
  <2>3. (Tmp("lnf_y") = Tmp("xhat_lnf") => Tmp("lnf_y") = Null)
            /\ (Tmp("lnf_y") = Tmp("inv_std_lnf") => Tmp("lnf_y") = Null)
                 /\ (Tmp("xhat_lnf") = Tmp("inv_std_lnf") => Tmp("xhat_lnf") = Null)
    BY Tags DEF Tmp
  <2>4. Views33("lnorm_fwd", Act("h", NLayer), W("ln_f.w", 0), W("ln_f.b", 0), Tmp("lnf_y"),
                    Tmp("xhat_lnf"), Tmp("inv_std_lnf"), {})
    BY <1>1, <1>2, <1>3, <2>1, <2>2, <2>3 DEF Views33
  <2> QED BY <2>4, Fits33
<1>5. Fits(Kernel("matmul_transb", "", 0, <<Tmp("lnf_y"), W("wte", 0)>>, {Tmp("logits")},
                  <<Tmp("logits")>>))
  <2>1. \A v \in {Tmp("lnf_y"), W("wte", 0)} : v \in {Tmp("logits")} => v = Null
    BY Tags, ForwardBackwardAssumption DEF Tmp, Layers
  <2>2. <<"matmul_transb", 2, 1>> \in Arities
    BY DEF Arities
  <2>3. Views21("matmul_transb", Tmp("lnf_y"), W("wte", 0), Tmp("logits"), {Tmp("logits")})
    BY <1>1, <1>2, <1>3, <2>1, <2>2 DEF Views21
  <2> QED BY <2>3, Fits21
<1>6. Fits(Kernel("loss", "", 0, <<Tmp("logits")>>, {}, <<Tmp("dlogits"), Tmp("loss")>>))
  <2>1. \A v \in {Tmp("logits")} : v \in {Tmp("dlogits"), Tmp("loss")} => v = Null
    BY Tags, ForwardBackwardAssumption DEF Tmp, Layers
  <2>2. <<"loss", 1, 2>> \in Arities
    BY DEF Arities
  <2>3. (Tmp("dlogits") = Tmp("loss") => Tmp("dlogits") = Null)
    BY Tags DEF Tmp
  <2>4. Views12("loss", Tmp("logits"), Tmp("dlogits"), Tmp("loss"), {})
    BY <1>1, <1>2, <1>3, <2>1, <2>2, <2>3 DEF Views12
  <2> QED BY <2>4, Fits12
<1>7. Fit3(Kernel("lnorm_fwd", "", 0, <<Act("h", NLayer), W("ln_f.w", 0), W("ln_f.b", 0)>>, {},
                  <<Tmp("lnf_y"), Tmp("xhat_lnf"), Tmp("inv_std_lnf")>>),
         Kernel("matmul_transb", "", 0, <<Tmp("lnf_y"), W("wte", 0)>>, {Tmp("logits")},
                    <<Tmp("logits")>>),
         Kernel("loss", "", 0, <<Tmp("logits")>>, {}, <<Tmp("dlogits"), Tmp("loss")>>))
  BY <1>4, <1>5, <1>6 DEF Fit3
<1> QED BY <1>7, OpsOf_head, FitsAll3

LEMMA FitsOf_headBack ==
    /\ Len(Ops(Place("headBack", 0, 0))) = 5
    /\ \A k \in 1 .. 5 : Fits(Ops(Place("headBack", 0, 0))[k])
<1>1. /\ Tmp("dh") \in Buffers
      /\ Tmp("dlogits") \in Buffers
      /\ Tmp("inv_std_lnf") \in Buffers
      /\ Tmp("lnf_y") \in Buffers
      /\ Tmp("xhat_lnf") \in Buffers
      /\ W("ln_f.w", 0) \in Buffers
      /\ W("wte", 0) \in Buffers
  BY SharedBuffers, LayerBuffers, HiddenBuffers, GlobalBuffers, ForwardBackwardAssumption
     DEF Shared, PerLayer, LayerParams, GlobalParams
<1>2. /\ G("ln_f.b", 0) \in WorkingBuffers \cup Gradients
      /\ G("ln_f.w", 0) \in WorkingBuffers \cup Gradients
      /\ G("wte", 0) \in WorkingBuffers \cup Gradients
      /\ Tmp("dh") \in WorkingBuffers \cup Gradients
      /\ Tmp("lnf_y") \in WorkingBuffers \cup Gradients
  BY SharedBuffers, LayerBuffers, HiddenBuffers, GlobalBuffers, ForwardBackwardAssumption
     DEF Shared, PerLayer, LayerParams, GlobalParams
<1>3. {Tmp("dh")} \subseteq WorkingBuffers /\ {} \subseteq WorkingBuffers
  BY SharedBuffers, LayerBuffers, HiddenBuffers, GlobalBuffers, ForwardBackwardAssumption
     DEF Shared, PerLayer, LayerParams, GlobalParams
<1>4. Fits(Kernel("matmul_fwd", "column", 0, <<Tmp("dlogits"), Tmp("lnf_y"), Null>>, {},
                  <<G("wte", 0)>>))
  <2>1. \A v \in {Tmp("dlogits"), Tmp("lnf_y"), Null} : v \in {G("wte", 0)} => v = Null
    BY Tags, ForwardBackwardAssumption DEF Tmp, Layers
  <2>2. <<"matmul_fwd", 3, 1>> \in Arities
    BY DEF Arities
  <2>3. Views31("matmul_fwd", Tmp("dlogits"), Tmp("lnf_y"), Null, G("wte", 0), {})
    BY <1>1, <1>2, <1>3, <2>1, <2>2 DEF Views31
  <2> QED BY <2>3, Fits31
<1>5. Fits(Kernel("matmul_fwd", "row", 0, <<Tmp("dlogits"), W("wte", 0), Null>>, {Tmp("dh")},
                  <<Tmp("dh")>>))
  <2>1. \A v \in {Tmp("dlogits"), W("wte", 0), Null} : v \in {Tmp("dh")} => v = Null
    BY Tags, ForwardBackwardAssumption DEF Tmp, Layers
  <2>2. <<"matmul_fwd", 3, 1>> \in Arities
    BY DEF Arities
  <2>3. Views31("matmul_fwd", Tmp("dlogits"), W("wte", 0), Null, Tmp("dh"), {Tmp("dh")})
    BY <1>1, <1>2, <1>3, <2>1, <2>2 DEF Views31
  <2> QED BY <2>3, Fits31
<1>6. Fits(Kernel("copy", "", 0, <<Tmp("dh")>>, {}, <<Tmp("lnf_y")>>))
  <2>1. \A v \in {Tmp("dh")} : v \in {Tmp("lnf_y")} => v = Null
    BY Tags, ForwardBackwardAssumption DEF Tmp, Layers
  <2>2. <<"copy", 1, 1>> \in Arities
    BY DEF Arities
  <2>3. Views11("copy", Tmp("dh"), Tmp("lnf_y"), {})
    BY <1>1, <1>2, <1>3, <2>1, <2>2 DEF Views11
  <2> QED BY <2>3, Fits11
<1>7. Fits(Kernel("lnorm_bwd", "", 0, <<Tmp("xhat_lnf"), W("ln_f.w", 0), Tmp("lnf_y"),
                  Tmp("inv_std_lnf")>>, {Tmp("dh")}, <<Tmp("dh"), Null, Null>>))
  <2>1. \A v \in {Tmp("xhat_lnf"), W("ln_f.w", 0), Tmp("lnf_y"), Tmp("inv_std_lnf")} :
            v \in {Tmp("dh"), Null, Null} => v = Null
    BY Tags, ForwardBackwardAssumption DEF Tmp, Layers
  <2>2. <<"lnorm_bwd", 4, 3>> \in Arities
    BY DEF Arities
  <2>3. (Tmp("dh") = Null => Tmp("dh") = Null) /\ (Tmp("dh") = Null => Tmp("dh") = Null)
            /\ (Null = Null => Null = Null)
    BY Tags DEF Tmp
  <2>4. Views43("lnorm_bwd", Tmp("xhat_lnf"), W("ln_f.w", 0), Tmp("lnf_y"), Tmp("inv_std_lnf"),
                    Tmp("dh"), Null, Null, {Tmp("dh")})
    BY <1>1, <1>2, <1>3, <2>1, <2>2, <2>3 DEF Views43
  <2> QED BY <2>4, Fits43
<1>8. Fits(Kernel("lnorm_bwd_params", "", 0, <<Tmp("xhat_lnf"), Null, Tmp("lnf_y"), Null>>, {},
                  <<Null, G("ln_f.w", 0), G("ln_f.b", 0)>>))
  <2>1. \A v \in {Tmp("xhat_lnf"), Null, Tmp("lnf_y"), Null} : v \in {Null, G("ln_f.w", 0),
            G("ln_f.b", 0)} => v = Null
    BY Tags, ForwardBackwardAssumption DEF Tmp, Layers
  <2>2. <<"lnorm_bwd_params", 4, 3>> \in Arities
    BY DEF Arities
  <2>3. (Null = G("ln_f.w", 0) => Null = Null) /\ (Null = G("ln_f.b", 0) => Null = Null)
            /\ (G("ln_f.w", 0) = G("ln_f.b", 0) => G("ln_f.w", 0) = Null)
    BY Tags DEF Tmp
  <2>4. Views43("lnorm_bwd_params", Tmp("xhat_lnf"), Null, Tmp("lnf_y"), Null, Null,
                    G("ln_f.w", 0), G("ln_f.b", 0), {})
    BY <1>1, <1>2, <1>3, <2>1, <2>2, <2>3 DEF Views43
  <2> QED BY <2>4, Fits43
<1>9. Fit5(Kernel("matmul_fwd", "column", 0, <<Tmp("dlogits"), Tmp("lnf_y"), Null>>, {},
                  <<G("wte", 0)>>),
         Kernel("matmul_fwd", "row", 0, <<Tmp("dlogits"), W("wte", 0), Null>>, {Tmp("dh")},
                    <<Tmp("dh")>>),
         Kernel("copy", "", 0, <<Tmp("dh")>>, {}, <<Tmp("lnf_y")>>),
         Kernel("lnorm_bwd", "", 0, <<Tmp("xhat_lnf"), W("ln_f.w", 0), Tmp("lnf_y"),
                    Tmp("inv_std_lnf")>>, {Tmp("dh")}, <<Tmp("dh"), Null, Null>>),
         Kernel("lnorm_bwd_params", "", 0, <<Tmp("xhat_lnf"), Null, Tmp("lnf_y"), Null>>, {},
                    <<Null, G("ln_f.w", 0), G("ln_f.b", 0)>>))
  BY <1>4, <1>5, <1>6, <1>7, <1>8 DEF Fit5
<1> QED BY <1>9, OpsOf_headBack, FitsAll5

LEMMA FitsOf_mlpBack ==
    ASSUME NEW l \in Layers
    PROVE  /\ Len(Ops(Place("mlpBack", l, 0))) = 9
           /\ \A k \in 1 .. 9 : Fits(Ops(Place("mlpBack", l, 0))[k])
<1>1. /\ Act("inv_std_ln2", l) \in Buffers
      /\ Act("ln2_y", l) \in Buffers
      /\ Act("mlp_gelu", l) \in Buffers
      /\ Act("mlp_pre", l) \in Buffers
      /\ Act("xhat_ln2", l) \in Buffers
      /\ Tmp("d_mlp") \in Buffers
      /\ Tmp("d_qkv") \in Buffers
      /\ Tmp("dh") \in Buffers
      /\ W("c_fc.w", l) \in Buffers
      /\ W("ln_2.w", l) \in Buffers
      /\ W("mlp.c_proj.w", l) \in Buffers
  BY SharedBuffers, LayerBuffers, HiddenBuffers, GlobalBuffers, ForwardBackwardAssumption
     DEF Shared, PerLayer, LayerParams, GlobalParams
<1>2. /\ G("c_fc.b", l) \in WorkingBuffers \cup Gradients
      /\ G("c_fc.w", l) \in WorkingBuffers \cup Gradients
      /\ G("ln_2.b", l) \in WorkingBuffers \cup Gradients
      /\ G("ln_2.w", l) \in WorkingBuffers \cup Gradients
      /\ G("mlp.c_proj.b", l) \in WorkingBuffers \cup Gradients
      /\ G("mlp.c_proj.w", l) \in WorkingBuffers \cup Gradients
      /\ Tmp("d_mlp") \in WorkingBuffers \cup Gradients
      /\ Tmp("d_qkv") \in WorkingBuffers \cup Gradients
      /\ Tmp("dh") \in WorkingBuffers \cup Gradients
      /\ Tmp("loss") \in WorkingBuffers \cup Gradients
  BY SharedBuffers, LayerBuffers, HiddenBuffers, GlobalBuffers, ForwardBackwardAssumption
     DEF Shared, PerLayer, LayerParams, GlobalParams
<1>3. {Tmp("d_mlp"), Tmp("d_qkv")} \subseteq WorkingBuffers /\ {} \subseteq WorkingBuffers
  BY SharedBuffers, LayerBuffers, HiddenBuffers, GlobalBuffers, ForwardBackwardAssumption
     DEF Shared, PerLayer, LayerParams, GlobalParams
<1>4. Fits(Kernel("matmul_bwd_dB", "", 0, <<Act("mlp_gelu", l), Null, Tmp("dh")>>, {},
                  <<Tmp("loss"), G("mlp.c_proj.w", l)>>))
  <2>1. \A v \in {Act("mlp_gelu", l), Null, Tmp("dh")} : v \in {Tmp("loss"),
            G("mlp.c_proj.w", l)} => v = Null
    BY Tags, ForwardBackwardAssumption DEF Tmp, Layers
  <2>2. <<"matmul_bwd_dB", 3, 2>> \in Arities
    BY DEF Arities
  <2>3. (Tmp("loss") = G("mlp.c_proj.w", l) => Tmp("loss") = Null)
    BY Tags DEF Tmp
  <2>4. Views32("matmul_bwd_dB", Act("mlp_gelu", l), Null, Tmp("dh"), Tmp("loss"),
                    G("mlp.c_proj.w", l), {})
    BY <1>1, <1>2, <1>3, <2>1, <2>2, <2>3 DEF Views32
  <2> QED BY <2>4, Fits32
<1>5. Fits(Kernel("bias_bwd", "", 0, <<Tmp("dh")>>, {}, <<G("mlp.c_proj.b", l)>>))
  <2>1. \A v \in {Tmp("dh")} : v \in {G("mlp.c_proj.b", l)} => v = Null
    BY Tags, ForwardBackwardAssumption DEF Tmp, Layers
  <2>2. <<"bias_bwd", 1, 1>> \in Arities
    BY DEF Arities
  <2>3. Views11("bias_bwd", Tmp("dh"), G("mlp.c_proj.b", l), {})
    BY <1>1, <1>2, <1>3, <2>1, <2>2 DEF Views11
  <2> QED BY <2>3, Fits11
<1>6. Fits(Kernel("matmul_bwd_dA", "", 0, <<Null, W("mlp.c_proj.w", l), Tmp("dh")>>,
                  {Tmp("d_mlp")}, <<Tmp("d_mlp"), Tmp("loss")>>))
  <2>1. \A v \in {Null, W("mlp.c_proj.w", l), Tmp("dh")} : v \in {Tmp("d_mlp"), Tmp("loss")}
            => v = Null
    BY Tags, ForwardBackwardAssumption DEF Tmp, Layers
  <2>2. <<"matmul_bwd_dA", 3, 2>> \in Arities
    BY DEF Arities
  <2>3. (Tmp("d_mlp") = Tmp("loss") => Tmp("d_mlp") = Null)
    BY Tags DEF Tmp
  <2>4. Views32("matmul_bwd_dA", Null, W("mlp.c_proj.w", l), Tmp("dh"), Tmp("d_mlp"),
                    Tmp("loss"), {Tmp("d_mlp")})
    BY <1>1, <1>2, <1>3, <2>1, <2>2, <2>3 DEF Views32
  <2> QED BY <2>4, Fits32
<1>7. Fits(Kernel("gelu_bwd", "", 0, <<Act("mlp_pre", l)>>, {}, <<Tmp("d_mlp")>>))
  <2>1. \A v \in {Act("mlp_pre", l)} : v \in {Tmp("d_mlp")} => v = Null
    BY Tags, ForwardBackwardAssumption DEF Tmp, Layers
  <2>2. <<"gelu_bwd", 1, 1>> \in Arities
    BY DEF Arities
  <2>3. Views11("gelu_bwd", Act("mlp_pre", l), Tmp("d_mlp"), {})
    BY <1>1, <1>2, <1>3, <2>1, <2>2 DEF Views11
  <2> QED BY <2>3, Fits11
<1>8. Fits(Kernel("matmul_bwd_dB", "", 0, <<Act("ln2_y", l), Null, Tmp("d_mlp")>>, {},
                  <<Tmp("loss"), G("c_fc.w", l)>>))
  <2>1. \A v \in {Act("ln2_y", l), Null, Tmp("d_mlp")} : v \in {Tmp("loss"), G("c_fc.w", l)}
            => v = Null
    BY Tags, ForwardBackwardAssumption DEF Tmp, Layers
  <2>2. <<"matmul_bwd_dB", 3, 2>> \in Arities
    BY DEF Arities
  <2>3. (Tmp("loss") = G("c_fc.w", l) => Tmp("loss") = Null)
    BY Tags DEF Tmp
  <2>4. Views32("matmul_bwd_dB", Act("ln2_y", l), Null, Tmp("d_mlp"), Tmp("loss"),
                    G("c_fc.w", l), {})
    BY <1>1, <1>2, <1>3, <2>1, <2>2, <2>3 DEF Views32
  <2> QED BY <2>4, Fits32
<1>9. Fits(Kernel("bias_bwd", "", 0, <<Tmp("d_mlp")>>, {}, <<G("c_fc.b", l)>>))
  <2>1. \A v \in {Tmp("d_mlp")} : v \in {G("c_fc.b", l)} => v = Null
    BY Tags, ForwardBackwardAssumption DEF Tmp, Layers
  <2>2. <<"bias_bwd", 1, 1>> \in Arities
    BY DEF Arities
  <2>3. Views11("bias_bwd", Tmp("d_mlp"), G("c_fc.b", l), {})
    BY <1>1, <1>2, <1>3, <2>1, <2>2 DEF Views11
  <2> QED BY <2>3, Fits11
<1>10. Fits(Kernel("matmul_bwd_dA", "", 0, <<Null, W("c_fc.w", l), Tmp("d_mlp")>>,
                  {Tmp("d_qkv")}, <<Tmp("d_qkv"), Tmp("loss")>>))
  <2>1. \A v \in {Null, W("c_fc.w", l), Tmp("d_mlp")} : v \in {Tmp("d_qkv"), Tmp("loss")}
            => v = Null
    BY Tags, ForwardBackwardAssumption DEF Tmp, Layers
  <2>2. <<"matmul_bwd_dA", 3, 2>> \in Arities
    BY DEF Arities
  <2>3. (Tmp("d_qkv") = Tmp("loss") => Tmp("d_qkv") = Null)
    BY Tags DEF Tmp
  <2>4. Views32("matmul_bwd_dA", Null, W("c_fc.w", l), Tmp("d_mlp"), Tmp("d_qkv"), Tmp("loss"),
                    {Tmp("d_qkv")})
    BY <1>1, <1>2, <1>3, <2>1, <2>2, <2>3 DEF Views32
  <2> QED BY <2>4, Fits32
<1>11. Fits(Kernel("lnorm_bwd", "", 0, <<Act("xhat_ln2", l), W("ln_2.w", l), Tmp("d_qkv"),
                  Act("inv_std_ln2", l)>>, {}, <<Tmp("dh"), Null, Null>>))
  <2>1. \A v \in {Act("xhat_ln2", l), W("ln_2.w", l), Tmp("d_qkv"), Act("inv_std_ln2", l)} :
            v \in {Tmp("dh"), Null, Null} => v = Null
    BY Tags, ForwardBackwardAssumption DEF Tmp, Layers
  <2>2. <<"lnorm_bwd", 4, 3>> \in Arities
    BY DEF Arities
  <2>3. (Tmp("dh") = Null => Tmp("dh") = Null) /\ (Tmp("dh") = Null => Tmp("dh") = Null)
            /\ (Null = Null => Null = Null)
    BY Tags DEF Tmp
  <2>4. Views43("lnorm_bwd", Act("xhat_ln2", l), W("ln_2.w", l), Tmp("d_qkv"),
                    Act("inv_std_ln2", l), Tmp("dh"), Null, Null, {})
    BY <1>1, <1>2, <1>3, <2>1, <2>2, <2>3 DEF Views43
  <2> QED BY <2>4, Fits43
<1>12. Fits(Kernel("lnorm_bwd_params", "", 0, <<Act("xhat_ln2", l), Null, Tmp("d_qkv"), Null>>,
                  {}, <<Null, G("ln_2.w", l), G("ln_2.b", l)>>))
  <2>1. \A v \in {Act("xhat_ln2", l), Null, Tmp("d_qkv"), Null} : v \in {Null, G("ln_2.w", l),
            G("ln_2.b", l)} => v = Null
    BY Tags, ForwardBackwardAssumption DEF Tmp, Layers
  <2>2. <<"lnorm_bwd_params", 4, 3>> \in Arities
    BY DEF Arities
  <2>3. (Null = G("ln_2.w", l) => Null = Null) /\ (Null = G("ln_2.b", l) => Null = Null)
            /\ (G("ln_2.w", l) = G("ln_2.b", l) => G("ln_2.w", l) = Null)
    BY Tags DEF Tmp
  <2>4. Views43("lnorm_bwd_params", Act("xhat_ln2", l), Null, Tmp("d_qkv"), Null, Null,
                    G("ln_2.w", l), G("ln_2.b", l), {})
    BY <1>1, <1>2, <1>3, <2>1, <2>2, <2>3 DEF Views43
  <2> QED BY <2>4, Fits43
<1>13. Fit9(Kernel("matmul_bwd_dB", "", 0, <<Act("mlp_gelu", l), Null, Tmp("dh")>>, {},
                  <<Tmp("loss"), G("mlp.c_proj.w", l)>>),
         Kernel("bias_bwd", "", 0, <<Tmp("dh")>>, {}, <<G("mlp.c_proj.b", l)>>),
         Kernel("matmul_bwd_dA", "", 0, <<Null, W("mlp.c_proj.w", l), Tmp("dh")>>,
                    {Tmp("d_mlp")}, <<Tmp("d_mlp"), Tmp("loss")>>),
         Kernel("gelu_bwd", "", 0, <<Act("mlp_pre", l)>>, {}, <<Tmp("d_mlp")>>),
         Kernel("matmul_bwd_dB", "", 0, <<Act("ln2_y", l), Null, Tmp("d_mlp")>>, {},
                    <<Tmp("loss"), G("c_fc.w", l)>>),
         Kernel("bias_bwd", "", 0, <<Tmp("d_mlp")>>, {}, <<G("c_fc.b", l)>>),
         Kernel("matmul_bwd_dA", "", 0, <<Null, W("c_fc.w", l), Tmp("d_mlp")>>, {Tmp("d_qkv")},
                    <<Tmp("d_qkv"), Tmp("loss")>>),
         Kernel("lnorm_bwd", "", 0, <<Act("xhat_ln2", l), W("ln_2.w", l), Tmp("d_qkv"),
                    Act("inv_std_ln2", l)>>, {}, <<Tmp("dh"), Null, Null>>),
         Kernel("lnorm_bwd_params", "", 0, <<Act("xhat_ln2", l), Null, Tmp("d_qkv"), Null>>,
                    {}, <<Null, G("ln_2.w", l), G("ln_2.b", l)>>))
  BY <1>4, <1>5, <1>6, <1>7, <1>8, <1>9, <1>10, <1>11, <1>12 DEF Fit9
<1> QED BY <1>13, OpsOf_mlpBack, FitsAll9

LEMMA FitsOf_projBack ==
    ASSUME NEW l \in Layers
    PROVE  /\ Len(Ops(Place("projBack", l, 0))) = 3
           /\ \A k \in 1 .. 3 : Fits(Ops(Place("projBack", l, 0))[k])
<1>1. /\ Act("attn_out", l) \in Buffers
      /\ Tmp("dh") \in Buffers
      /\ W("attn.c_proj.w", l) \in Buffers
  BY SharedBuffers, LayerBuffers, HiddenBuffers, GlobalBuffers, ForwardBackwardAssumption
     DEF Shared, PerLayer, LayerParams, GlobalParams
<1>2. /\ G("attn.c_proj.b", l) \in WorkingBuffers \cup Gradients
      /\ G("attn.c_proj.w", l) \in WorkingBuffers \cup Gradients
      /\ Tmp("lnf_y") \in WorkingBuffers \cup Gradients
      /\ Tmp("loss") \in WorkingBuffers \cup Gradients
  BY SharedBuffers, LayerBuffers, HiddenBuffers, GlobalBuffers, ForwardBackwardAssumption
     DEF Shared, PerLayer, LayerParams, GlobalParams
<1>3. {Tmp("lnf_y")} \subseteq WorkingBuffers /\ {} \subseteq WorkingBuffers
  BY SharedBuffers, LayerBuffers, HiddenBuffers, GlobalBuffers, ForwardBackwardAssumption
     DEF Shared, PerLayer, LayerParams, GlobalParams
<1>4. Fits(Kernel("matmul_bwd_dB", "", 0, <<Act("attn_out", l), Null, Tmp("dh")>>, {},
                  <<Tmp("loss"), G("attn.c_proj.w", l)>>))
  <2>1. \A v \in {Act("attn_out", l), Null, Tmp("dh")} : v \in {Tmp("loss"),
            G("attn.c_proj.w", l)} => v = Null
    BY Tags, ForwardBackwardAssumption DEF Tmp, Layers
  <2>2. <<"matmul_bwd_dB", 3, 2>> \in Arities
    BY DEF Arities
  <2>3. (Tmp("loss") = G("attn.c_proj.w", l) => Tmp("loss") = Null)
    BY Tags DEF Tmp
  <2>4. Views32("matmul_bwd_dB", Act("attn_out", l), Null, Tmp("dh"), Tmp("loss"),
                    G("attn.c_proj.w", l), {})
    BY <1>1, <1>2, <1>3, <2>1, <2>2, <2>3 DEF Views32
  <2> QED BY <2>4, Fits32
<1>5. Fits(Kernel("bias_bwd", "", 0, <<Tmp("dh")>>, {}, <<G("attn.c_proj.b", l)>>))
  <2>1. \A v \in {Tmp("dh")} : v \in {G("attn.c_proj.b", l)} => v = Null
    BY Tags, ForwardBackwardAssumption DEF Tmp, Layers
  <2>2. <<"bias_bwd", 1, 1>> \in Arities
    BY DEF Arities
  <2>3. Views11("bias_bwd", Tmp("dh"), G("attn.c_proj.b", l), {})
    BY <1>1, <1>2, <1>3, <2>1, <2>2 DEF Views11
  <2> QED BY <2>3, Fits11
<1>6. Fits(Kernel("matmul_bwd_dA", "", 0, <<Null, W("attn.c_proj.w", l), Tmp("dh")>>,
                  {Tmp("lnf_y")}, <<Tmp("lnf_y"), Tmp("loss")>>))
  <2>1. \A v \in {Null, W("attn.c_proj.w", l), Tmp("dh")} : v \in {Tmp("lnf_y"), Tmp("loss")}
            => v = Null
    BY Tags, ForwardBackwardAssumption DEF Tmp, Layers
  <2>2. <<"matmul_bwd_dA", 3, 2>> \in Arities
    BY DEF Arities
  <2>3. (Tmp("lnf_y") = Tmp("loss") => Tmp("lnf_y") = Null)
    BY Tags DEF Tmp
  <2>4. Views32("matmul_bwd_dA", Null, W("attn.c_proj.w", l), Tmp("dh"), Tmp("lnf_y"),
                    Tmp("loss"), {Tmp("lnf_y")})
    BY <1>1, <1>2, <1>3, <2>1, <2>2, <2>3 DEF Views32
  <2> QED BY <2>4, Fits32
<1>7. Fit3(Kernel("matmul_bwd_dB", "", 0, <<Act("attn_out", l), Null, Tmp("dh")>>, {},
                  <<Tmp("loss"), G("attn.c_proj.w", l)>>),
         Kernel("bias_bwd", "", 0, <<Tmp("dh")>>, {}, <<G("attn.c_proj.b", l)>>),
         Kernel("matmul_bwd_dA", "", 0, <<Null, W("attn.c_proj.w", l), Tmp("dh")>>,
                    {Tmp("lnf_y")}, <<Tmp("lnf_y"), Tmp("loss")>>))
  BY <1>4, <1>5, <1>6 DEF Fit3
<1> QED BY <1>7, OpsOf_projBack, FitsAll3

LEMMA FitsOf_attnBack ==
    ASSUME NEW l \in Layers, NEW h \in Heads
    PROVE  /\ Len(Ops(Place("attnBack", l, h))) = 3
           /\ \A k \in 1 .. 3 : Fits(Ops(Place("attnBack", l, h))[k])
<1>1. /\ Act("P", l) \in Buffers
      /\ Act("qkv", l) \in Buffers
      /\ Tmp("lnf_y") \in Buffers
  BY SharedBuffers, LayerBuffers, HiddenBuffers, GlobalBuffers, ForwardBackwardAssumption
     DEF Shared, PerLayer, LayerParams, GlobalParams
<1>2. /\ Tmp("dP_tmp") \in WorkingBuffers \cup Gradients
      /\ Tmp("d_qkv") \in WorkingBuffers \cup Gradients
      /\ Tmp("dot_row") \in WorkingBuffers \cup Gradients
  BY SharedBuffers, LayerBuffers, HiddenBuffers, GlobalBuffers, ForwardBackwardAssumption
     DEF Shared, PerLayer, LayerParams, GlobalParams
<1>3. AttnCleared(h) \subseteq WorkingBuffers /\ {} \subseteq WorkingBuffers
  BY SharedBuffers, LayerBuffers, HiddenBuffers, GlobalBuffers, ForwardBackwardAssumption
     DEF Shared, PerLayer, LayerParams, GlobalParams, AttnCleared
<1>4. Fits(Kernel("attn_bwd_dvdp", "", h, <<Act("qkv", l), Act("P", l), Tmp("lnf_y")>>,
                  AttnCleared(h), <<Tmp("d_qkv"), Tmp("dP_tmp"), Tmp("dot_row")>>))
  <2>1. \A v \in {Act("qkv", l), Act("P", l), Tmp("lnf_y")} : v \in {Tmp("d_qkv"),
            Tmp("dP_tmp"), Tmp("dot_row")} => v = Null
    BY Tags, ForwardBackwardAssumption DEF Tmp, Layers
  <2>2. <<"attn_bwd_dvdp", 3, 3>> \in Arities
    BY DEF Arities
  <2>3. (Tmp("d_qkv") = Tmp("dP_tmp") => Tmp("d_qkv") = Null) /\ (Tmp("d_qkv") = Tmp("dot_row")
            => Tmp("d_qkv") = Null) /\ (Tmp("dP_tmp") = Tmp("dot_row") => Tmp("dP_tmp") = Null)
    BY Tags DEF Tmp
  <2>4. Views33("attn_bwd_dvdp", Act("qkv", l), Act("P", l), Tmp("lnf_y"), Tmp("d_qkv"),
                    Tmp("dP_tmp"), Tmp("dot_row"), AttnCleared(h))
    BY <1>1, <1>2, <1>3, <2>1, <2>2, <2>3 DEF Views33
  <2> QED BY <2>4, Fits33
<1>5. Fits(Kernel("attn_bwd_dq", "", h, <<Act("qkv", l), Act("P", l), Tmp("lnf_y")>>, {},
                  <<Tmp("d_qkv"), Tmp("dP_tmp"), Tmp("dot_row")>>))
  <2>1. \A v \in {Act("qkv", l), Act("P", l), Tmp("lnf_y")} : v \in {Tmp("d_qkv"),
            Tmp("dP_tmp"), Tmp("dot_row")} => v = Null
    BY Tags, ForwardBackwardAssumption DEF Tmp, Layers
  <2>2. <<"attn_bwd_dq", 3, 3>> \in Arities
    BY DEF Arities
  <2>3. (Tmp("d_qkv") = Tmp("dP_tmp") => Tmp("d_qkv") = Null) /\ (Tmp("d_qkv") = Tmp("dot_row")
            => Tmp("d_qkv") = Null) /\ (Tmp("dP_tmp") = Tmp("dot_row") => Tmp("dP_tmp") = Null)
    BY Tags DEF Tmp
  <2>4. Views33("attn_bwd_dq", Act("qkv", l), Act("P", l), Tmp("lnf_y"), Tmp("d_qkv"),
                    Tmp("dP_tmp"), Tmp("dot_row"), {})
    BY <1>1, <1>2, <1>3, <2>1, <2>2, <2>3 DEF Views33
  <2> QED BY <2>4, Fits33
<1>6. Fits(Kernel("attn_bwd_dk", "", h, <<Act("qkv", l), Act("P", l), Tmp("lnf_y")>>, {},
                  <<Tmp("d_qkv"), Tmp("dP_tmp"), Tmp("dot_row")>>))
  <2>1. \A v \in {Act("qkv", l), Act("P", l), Tmp("lnf_y")} : v \in {Tmp("d_qkv"),
            Tmp("dP_tmp"), Tmp("dot_row")} => v = Null
    BY Tags, ForwardBackwardAssumption DEF Tmp, Layers
  <2>2. <<"attn_bwd_dk", 3, 3>> \in Arities
    BY DEF Arities
  <2>3. (Tmp("d_qkv") = Tmp("dP_tmp") => Tmp("d_qkv") = Null) /\ (Tmp("d_qkv") = Tmp("dot_row")
            => Tmp("d_qkv") = Null) /\ (Tmp("dP_tmp") = Tmp("dot_row") => Tmp("dP_tmp") = Null)
    BY Tags DEF Tmp
  <2>4. Views33("attn_bwd_dk", Act("qkv", l), Act("P", l), Tmp("lnf_y"), Tmp("d_qkv"),
                    Tmp("dP_tmp"), Tmp("dot_row"), {})
    BY <1>1, <1>2, <1>3, <2>1, <2>2, <2>3 DEF Views33
  <2> QED BY <2>4, Fits33
<1>7. Fit3(Kernel("attn_bwd_dvdp", "", h, <<Act("qkv", l), Act("P", l), Tmp("lnf_y")>>,
                  AttnCleared(h), <<Tmp("d_qkv"), Tmp("dP_tmp"), Tmp("dot_row")>>),
         Kernel("attn_bwd_dq", "", h, <<Act("qkv", l), Act("P", l), Tmp("lnf_y")>>, {},
                    <<Tmp("d_qkv"), Tmp("dP_tmp"), Tmp("dot_row")>>),
         Kernel("attn_bwd_dk", "", h, <<Act("qkv", l), Act("P", l), Tmp("lnf_y")>>, {},
                    <<Tmp("d_qkv"), Tmp("dP_tmp"), Tmp("dot_row")>>))
  BY <1>4, <1>5, <1>6 DEF Fit3
<1> QED BY <1>7, OpsOf_attnBack, FitsAll3

LEMMA FitsOf_qkvBack ==
    ASSUME NEW l \in Layers
    PROVE  /\ Len(Ops(Place("qkvBack", l, 0))) = 5
           /\ \A k \in 1 .. 5 : Fits(Ops(Place("qkvBack", l, 0))[k])
<1>1. /\ Act("inv_std_ln1", l) \in Buffers
      /\ Act("ln1_y", l) \in Buffers
      /\ Act("xhat_ln1", l) \in Buffers
      /\ Tmp("d_qkv") \in Buffers
      /\ Tmp("lnf_y") \in Buffers
      /\ W("c_attn.w", l) \in Buffers
      /\ W("ln_1.w", l) \in Buffers
  BY SharedBuffers, LayerBuffers, HiddenBuffers, GlobalBuffers, ForwardBackwardAssumption
     DEF Shared, PerLayer, LayerParams, GlobalParams
<1>2. /\ G("c_attn.b", l) \in WorkingBuffers \cup Gradients
      /\ G("c_attn.w", l) \in WorkingBuffers \cup Gradients
      /\ G("ln_1.b", l) \in WorkingBuffers \cup Gradients
      /\ G("ln_1.w", l) \in WorkingBuffers \cup Gradients
      /\ Tmp("dh") \in WorkingBuffers \cup Gradients
      /\ Tmp("lnf_y") \in WorkingBuffers \cup Gradients
      /\ Tmp("loss") \in WorkingBuffers \cup Gradients
  BY SharedBuffers, LayerBuffers, HiddenBuffers, GlobalBuffers, ForwardBackwardAssumption
     DEF Shared, PerLayer, LayerParams, GlobalParams
<1>3. {Tmp("lnf_y")} \subseteq WorkingBuffers /\ {} \subseteq WorkingBuffers
  BY SharedBuffers, LayerBuffers, HiddenBuffers, GlobalBuffers, ForwardBackwardAssumption
     DEF Shared, PerLayer, LayerParams, GlobalParams
<1>4. Fits(Kernel("matmul_bwd_dB", "", 0, <<Act("ln1_y", l), Null, Tmp("d_qkv")>>, {},
                  <<Tmp("loss"), G("c_attn.w", l)>>))
  <2>1. \A v \in {Act("ln1_y", l), Null, Tmp("d_qkv")} : v \in {Tmp("loss"), G("c_attn.w", l)}
            => v = Null
    BY Tags, ForwardBackwardAssumption DEF Tmp, Layers
  <2>2. <<"matmul_bwd_dB", 3, 2>> \in Arities
    BY DEF Arities
  <2>3. (Tmp("loss") = G("c_attn.w", l) => Tmp("loss") = Null)
    BY Tags DEF Tmp
  <2>4. Views32("matmul_bwd_dB", Act("ln1_y", l), Null, Tmp("d_qkv"), Tmp("loss"),
                    G("c_attn.w", l), {})
    BY <1>1, <1>2, <1>3, <2>1, <2>2, <2>3 DEF Views32
  <2> QED BY <2>4, Fits32
<1>5. Fits(Kernel("bias_bwd", "", 0, <<Tmp("d_qkv")>>, {}, <<G("c_attn.b", l)>>))
  <2>1. \A v \in {Tmp("d_qkv")} : v \in {G("c_attn.b", l)} => v = Null
    BY Tags, ForwardBackwardAssumption DEF Tmp, Layers
  <2>2. <<"bias_bwd", 1, 1>> \in Arities
    BY DEF Arities
  <2>3. Views11("bias_bwd", Tmp("d_qkv"), G("c_attn.b", l), {})
    BY <1>1, <1>2, <1>3, <2>1, <2>2 DEF Views11
  <2> QED BY <2>3, Fits11
<1>6. Fits(Kernel("matmul_bwd_dA", "", 0, <<Null, W("c_attn.w", l), Tmp("d_qkv")>>,
                  {Tmp("lnf_y")}, <<Tmp("lnf_y"), Tmp("loss")>>))
  <2>1. \A v \in {Null, W("c_attn.w", l), Tmp("d_qkv")} : v \in {Tmp("lnf_y"), Tmp("loss")}
            => v = Null
    BY Tags, ForwardBackwardAssumption DEF Tmp, Layers
  <2>2. <<"matmul_bwd_dA", 3, 2>> \in Arities
    BY DEF Arities
  <2>3. (Tmp("lnf_y") = Tmp("loss") => Tmp("lnf_y") = Null)
    BY Tags DEF Tmp
  <2>4. Views32("matmul_bwd_dA", Null, W("c_attn.w", l), Tmp("d_qkv"), Tmp("lnf_y"),
                    Tmp("loss"), {Tmp("lnf_y")})
    BY <1>1, <1>2, <1>3, <2>1, <2>2, <2>3 DEF Views32
  <2> QED BY <2>4, Fits32
<1>7. Fits(Kernel("lnorm_bwd", "", 0, <<Act("xhat_ln1", l), W("ln_1.w", l), Tmp("lnf_y"),
                  Act("inv_std_ln1", l)>>, {}, <<Tmp("dh"), Null, Null>>))
  <2>1. \A v \in {Act("xhat_ln1", l), W("ln_1.w", l), Tmp("lnf_y"), Act("inv_std_ln1", l)} :
            v \in {Tmp("dh"), Null, Null} => v = Null
    BY Tags, ForwardBackwardAssumption DEF Tmp, Layers
  <2>2. <<"lnorm_bwd", 4, 3>> \in Arities
    BY DEF Arities
  <2>3. (Tmp("dh") = Null => Tmp("dh") = Null) /\ (Tmp("dh") = Null => Tmp("dh") = Null)
            /\ (Null = Null => Null = Null)
    BY Tags DEF Tmp
  <2>4. Views43("lnorm_bwd", Act("xhat_ln1", l), W("ln_1.w", l), Tmp("lnf_y"),
                    Act("inv_std_ln1", l), Tmp("dh"), Null, Null, {})
    BY <1>1, <1>2, <1>3, <2>1, <2>2, <2>3 DEF Views43
  <2> QED BY <2>4, Fits43
<1>8. Fits(Kernel("lnorm_bwd_params", "", 0, <<Act("xhat_ln1", l), Null, Tmp("lnf_y"), Null>>,
                  {}, <<Null, G("ln_1.w", l), G("ln_1.b", l)>>))
  <2>1. \A v \in {Act("xhat_ln1", l), Null, Tmp("lnf_y"), Null} : v \in {Null, G("ln_1.w", l),
            G("ln_1.b", l)} => v = Null
    BY Tags, ForwardBackwardAssumption DEF Tmp, Layers
  <2>2. <<"lnorm_bwd_params", 4, 3>> \in Arities
    BY DEF Arities
  <2>3. (Null = G("ln_1.w", l) => Null = Null) /\ (Null = G("ln_1.b", l) => Null = Null)
            /\ (G("ln_1.w", l) = G("ln_1.b", l) => G("ln_1.w", l) = Null)
    BY Tags DEF Tmp
  <2>4. Views43("lnorm_bwd_params", Act("xhat_ln1", l), Null, Tmp("lnf_y"), Null, Null,
                    G("ln_1.w", l), G("ln_1.b", l), {})
    BY <1>1, <1>2, <1>3, <2>1, <2>2, <2>3 DEF Views43
  <2> QED BY <2>4, Fits43
<1>9. Fit5(Kernel("matmul_bwd_dB", "", 0, <<Act("ln1_y", l), Null, Tmp("d_qkv")>>, {},
                  <<Tmp("loss"), G("c_attn.w", l)>>),
         Kernel("bias_bwd", "", 0, <<Tmp("d_qkv")>>, {}, <<G("c_attn.b", l)>>),
         Kernel("matmul_bwd_dA", "", 0, <<Null, W("c_attn.w", l), Tmp("d_qkv")>>,
                    {Tmp("lnf_y")}, <<Tmp("lnf_y"), Tmp("loss")>>),
         Kernel("lnorm_bwd", "", 0, <<Act("xhat_ln1", l), W("ln_1.w", l), Tmp("lnf_y"),
                    Act("inv_std_ln1", l)>>, {}, <<Tmp("dh"), Null, Null>>),
         Kernel("lnorm_bwd_params", "", 0, <<Act("xhat_ln1", l), Null, Tmp("lnf_y"), Null>>,
                    {}, <<Null, G("ln_1.w", l), G("ln_1.b", l)>>))
  BY <1>4, <1>5, <1>6, <1>7, <1>8 DEF Fit5
<1> QED BY <1>9, OpsOf_qkvBack, FitsAll5

LEMMA FitsOf_embedBack ==
    /\ Len(Ops(Place("embedBack", 0, 0))) = 1
    /\ \A k \in 1 .. 1 : Fits(Ops(Place("embedBack", 0, 0))[k])
<1>1. /\ Tmp("dh") \in Buffers
      /\ Tmp("tokens") \in Buffers
  BY SharedBuffers, LayerBuffers, HiddenBuffers, GlobalBuffers, ForwardBackwardAssumption
     DEF Shared, PerLayer, LayerParams, GlobalParams
<1>2. /\ G("wpe", 0) \in WorkingBuffers \cup Gradients
      /\ G("wte", 0) \in WorkingBuffers \cup Gradients
  BY SharedBuffers, LayerBuffers, HiddenBuffers, GlobalBuffers, ForwardBackwardAssumption
     DEF Shared, PerLayer, LayerParams, GlobalParams
<1>3. {} \subseteq WorkingBuffers /\ {} \subseteq WorkingBuffers
  BY SharedBuffers, LayerBuffers, HiddenBuffers, GlobalBuffers, ForwardBackwardAssumption
     DEF Shared, PerLayer, LayerParams, GlobalParams
<1>4. Fits(Kernel("embed_bwd", "", 0, <<Tmp("tokens"), Tmp("dh")>>, {},
                  <<G("wte", 0), G("wpe", 0)>>))
  <2>1. \A v \in {Tmp("tokens"), Tmp("dh")} : v \in {G("wte", 0), G("wpe", 0)} => v = Null
    BY Tags, ForwardBackwardAssumption DEF Tmp, Layers
  <2>2. <<"embed_bwd", 2, 2>> \in Arities
    BY DEF Arities
  <2>3. (G("wte", 0) = G("wpe", 0) => G("wte", 0) = Null)
    BY Tags DEF Tmp
  <2>4. Views22("embed_bwd", Tmp("tokens"), Tmp("dh"), G("wte", 0), G("wpe", 0), {})
    BY <1>1, <1>2, <1>3, <2>1, <2>2, <2>3 DEF Views22
  <2> QED BY <2>4, Fits22
<1>5. Fit1(Kernel("embed_bwd", "", 0, <<Tmp("tokens"), Tmp("dh")>>, {},
                  <<G("wte", 0), G("wpe", 0)>>))
  BY <1>4 DEF Fit1
<1> QED BY <1>5, OpsOf_embedBack, FitsAll1

-----------------------------------------------------------------------------
(* What each kernel writes, and that it is a bag                             *)

\* An applied operation is one name.
LEMMA ApplyBag == \A f, h, args : IsABag(Apply(f, h, args))
BY BagOf DEF Apply, Only

\* The results of each kernel, output by output.
LEMMA Writes_copy ==
    ASSUME NEW op, NEW target, NEW t, NEW u, op.cs = "copy"
    PROVE  List1(Written(op, target, t, u), t[1])
BY DEF Written, List1

LEMMA Writes_embed_fwd ==
    ASSUME NEW op, NEW target, NEW t, NEW u, op.cs = "embed_fwd"
    PROVE  List1(Written(op, target, t, u), Apply("embed", op.head, t))
BY DEF Written, List1

LEMMA Writes_lnorm_fwd ==
    ASSUME NEW op, NEW target, NEW t, NEW u, op.cs = "lnorm_fwd"
    PROVE  List3(Written(op, target, t, u), Apply("lnY", op.head, t),
               Apply("lnXhat", op.head, <<t[1]>>),
               Apply("lnInvStd", op.head, <<t[1]>>))
BY DEF Written, List3

LEMMA Writes_matmul_fwd ==
    ASSUME NEW op, NEW target, NEW t, NEW u, op.cs = "matmul_fwd"
    PROVE  List1(Written(op, target, t, u), u[1] (+) Apply(op.use, op.head,
                      IF op.use = "linear" THEN t ELSE <<t[1], t[2]>>))
BY DEF Written, List1

LEMMA Writes_matmul_transb ==
    ASSUME NEW op, NEW target, NEW t, NEW u, op.cs = "matmul_transb"
    PROVE  List1(Written(op, target, t, u), Apply("lmHead", op.head, t))
BY DEF Written, List1

LEMMA Writes_attn_fwd ==
    ASSUME NEW op, NEW target, NEW t, NEW u, op.cs = "attn_fwd"
    PROVE  List2(Written(op, target, t, u), Apply("attend", op.head, t),
               Apply("softmax", op.head, t))
BY DEF Written, List2

LEMMA Writes_gelu_fwd ==
    ASSUME NEW op, NEW target, NEW t, NEW u, op.cs = "gelu_fwd"
    PROVE  List1(Written(op, target, t, u), Apply("gelu", op.head, t))
BY DEF Written, List1

LEMMA Writes_resadd_add3 ==
    ASSUME NEW op, NEW target, NEW t, NEW u, op.cs = "resadd_add3"
    PROVE  List1(Written(op, target, t, u), t[1] (+) t[2])
BY DEF Written, List1

LEMMA Writes_resadd_addto ==
    ASSUME NEW op, NEW target, NEW t, NEW u, op.cs = "resadd_addto"
    PROVE  List1(Written(op, target, t, u), u[1] (+) t[1])
BY DEF Written, List1

LEMMA Writes_loss ==
    ASSUME NEW op, NEW target, NEW t, NEW u, op.cs = "loss"
    PROVE  List2(Written(op, target, t, u), Apply("dlogits", op.head, <<t[1], target>>),
               Apply("loss", op.head, <<t[1], target>>))
BY DEF Written, List2

LEMMA Writes_lnorm_bwd ==
    ASSUME NEW op, NEW target, NEW t, NEW u, op.cs = "lnorm_bwd"
    PROVE  List3(Written(op, target, t, u), u[1] (+) Apply("lnDx", op.head, t),
               u[2],
               u[3])
BY DEF Written, List3

LEMMA Writes_lnorm_bwd_params ==
    ASSUME NEW op, NEW target, NEW t, NEW u, op.cs = "lnorm_bwd_params"
    PROVE  List3(Written(op, target, t, u), u[1],
               u[2] (+) Apply("lnGamma", op.head, <<t[1], t[3]>>),
               u[3] (+) Apply("lnBeta", op.head, <<t[3]>>))
BY DEF Written, List3

LEMMA Writes_gelu_bwd ==
    ASSUME NEW op, NEW target, NEW t, NEW u, op.cs = "gelu_bwd"
    PROVE  List1(Written(op, target, t, u), Apply("geluBwd", op.head, <<u[1], t[1]>>))
BY DEF Written, List1

LEMMA Writes_matmul_bwd_dA ==
    ASSUME NEW op, NEW target, NEW t, NEW u, op.cs = "matmul_bwd_dA"
    PROVE  List2(Written(op, target, t, u), u[1] (+) Apply("dA", op.head, <<t[2], t[3]>>),
               u[2])
BY DEF Written, List2

LEMMA Writes_matmul_bwd_dB ==
    ASSUME NEW op, NEW target, NEW t, NEW u, op.cs = "matmul_bwd_dB"
    PROVE  List2(Written(op, target, t, u), u[1],
               u[2] (+) Apply("dB", op.head, <<t[1], t[3]>>))
BY DEF Written, List2

LEMMA Writes_bias_bwd ==
    ASSUME NEW op, NEW target, NEW t, NEW u, op.cs = "bias_bwd"
    PROVE  List1(Written(op, target, t, u), u[1] (+) Apply("rows", op.head, t))
BY DEF Written, List1

LEMMA Writes_attn_bwd_dvdp ==
    ASSUME NEW op, NEW target, NEW t, NEW u, op.cs = "attn_bwd_dvdp"
    PROVE  List3(Written(op, target, t, u), u[1] (+) Apply("dV", op.head, <<t[2], t[3]>>),
               Apply("dP", op.head, <<t[3], t[1]>>),
               u[3])
BY DEF Written, List3

LEMMA Writes_attn_bwd_dq ==
    ASSUME NEW op, NEW target, NEW t, NEW u, op.cs = "attn_bwd_dq"
    PROVE  List3(Written(op, target, t, u), u[1] (+) Apply("dQ", op.head,
                      <<t[2], u[2], Apply("dot", op.head, <<t[2], u[2]>>), t[1]>>),
               u[2],
               Apply("dot", op.head, <<t[2], u[2]>>))
BY DEF Written, List3

LEMMA Writes_attn_bwd_dk ==
    ASSUME NEW op, NEW target, NEW t, NEW u, op.cs = "attn_bwd_dk"
    PROVE  List3(Written(op, target, t, u), u[1] (+) Apply("dK", op.head,
                      <<t[2], u[2], u[3], t[1]>>),
               u[2],
               u[3])
BY DEF Written, List3

LEMMA Writes_embed_bwd ==
    ASSUME NEW op, NEW target, NEW t, NEW u, op.cs = "embed_bwd"
    PROVE  List2(Written(op, target, t, u), u[1] (+) Apply("scatter", op.head, t),
               u[2] (+) Apply("addRows", op.head, <<t[2]>>))
BY DEF Written, List2
\* Bags in, bags out.
LEMMA ResultBags ==
    ASSUME NEW op, NEW target, NEW t, NEW u,
           <<op.cs, Len(op.srv), Len(op.uav)>> \in Arities,
           \A k \in 1 .. Len(op.srv) : IsABag(t[k]), \A k \in 1 .. Len(op.uav) : IsABag(u[k])
    PROVE  \A k \in 1 .. Len(op.uav) : IsABag(Written(op, target, t, u)[k])
<1>1. CASE op.cs = "copy"
  <2>1. Len(op.srv) = 1 /\ Len(op.uav) = 1
    BY <1>1 DEF Arities
  <2>2. IsABag(t[1]) /\ IsABag(u[1])
    BY <2>1
  <2>3. IsABag(t[1])
    BY <2>2
  <2>4. IsABag(Written(op, target, t, u)[1])
    BY <2>3, <1>1, Writes_copy, InList1
  <2> QED BY <2>1, <2>4
<1>2. CASE op.cs = "embed_fwd"
  <2>1. Len(op.srv) = 3 /\ Len(op.uav) = 1
    BY <1>2 DEF Arities
  <2>2. IsABag(t[1]) /\ IsABag(t[2]) /\ IsABag(t[3]) /\ IsABag(u[1])
    BY <2>1
  <2>3. IsABag(Apply("embed", op.head, t))
    BY <2>2, ApplyBag
  <2>4. IsABag(Written(op, target, t, u)[1])
    BY <2>3, <1>2, Writes_embed_fwd, InList1
  <2> QED BY <2>1, <2>4
<1>3. CASE op.cs = "lnorm_fwd"
  <2>1. Len(op.srv) = 3 /\ Len(op.uav) = 3
    BY <1>3 DEF Arities
  <2>2. IsABag(t[1]) /\ IsABag(t[2]) /\ IsABag(t[3]) /\ IsABag(u[1]) /\ IsABag(u[2])
                   /\ IsABag(u[3])
    BY <2>1
  <2>3. IsABag(Apply("lnY", op.head, t))
    BY <2>2, ApplyBag
  <2>4. IsABag(Apply("lnXhat", op.head, <<t[1]>>))
    BY <2>2, ApplyBag
  <2>5. IsABag(Apply("lnInvStd", op.head, <<t[1]>>))
    BY <2>2, ApplyBag
  <2>6. IsABag(Written(op, target, t, u)[1]) /\ IsABag(Written(op, target, t, u)[2])
                    /\ IsABag(Written(op, target, t, u)[3])
    BY <2>3, <2>4, <2>5, <1>3, Writes_lnorm_fwd, InList3
  <2> QED BY <2>1, <2>6
<1>4. CASE op.cs = "matmul_fwd"
  <2>1. Len(op.srv) = 3 /\ Len(op.uav) = 1
    BY <1>4 DEF Arities
  <2>2. IsABag(t[1]) /\ IsABag(t[2]) /\ IsABag(t[3]) /\ IsABag(u[1])
    BY <2>1
  <2>3. IsABag(u[1] (+) Apply(op.use, op.head, IF op.use = "linear" THEN t ELSE <<t[1], t[2]>>))
    BY <2>2, ApplyBag, SumBag
  <2>4. IsABag(Written(op, target, t, u)[1])
    BY <2>3, <1>4, Writes_matmul_fwd, InList1
  <2> QED BY <2>1, <2>4
<1>5. CASE op.cs = "matmul_transb"
  <2>1. Len(op.srv) = 2 /\ Len(op.uav) = 1
    BY <1>5 DEF Arities
  <2>2. IsABag(t[1]) /\ IsABag(t[2]) /\ IsABag(u[1])
    BY <2>1
  <2>3. IsABag(Apply("lmHead", op.head, t))
    BY <2>2, ApplyBag
  <2>4. IsABag(Written(op, target, t, u)[1])
    BY <2>3, <1>5, Writes_matmul_transb, InList1
  <2> QED BY <2>1, <2>4
<1>6. CASE op.cs = "attn_fwd"
  <2>1. Len(op.srv) = 1 /\ Len(op.uav) = 2
    BY <1>6 DEF Arities
  <2>2. IsABag(t[1]) /\ IsABag(u[1]) /\ IsABag(u[2])
    BY <2>1
  <2>3. IsABag(Apply("attend", op.head, t))
    BY <2>2, ApplyBag
  <2>4. IsABag(Apply("softmax", op.head, t))
    BY <2>2, ApplyBag
  <2>5. IsABag(Written(op, target, t, u)[1]) /\ IsABag(Written(op, target, t, u)[2])
    BY <2>3, <2>4, <1>6, Writes_attn_fwd, InList2
  <2> QED BY <2>1, <2>5
<1>7. CASE op.cs = "gelu_fwd"
  <2>1. Len(op.srv) = 1 /\ Len(op.uav) = 1
    BY <1>7 DEF Arities
  <2>2. IsABag(t[1]) /\ IsABag(u[1])
    BY <2>1
  <2>3. IsABag(Apply("gelu", op.head, t))
    BY <2>2, ApplyBag
  <2>4. IsABag(Written(op, target, t, u)[1])
    BY <2>3, <1>7, Writes_gelu_fwd, InList1
  <2> QED BY <2>1, <2>4
<1>8. CASE op.cs = "resadd_add3"
  <2>1. Len(op.srv) = 2 /\ Len(op.uav) = 1
    BY <1>8 DEF Arities
  <2>2. IsABag(t[1]) /\ IsABag(t[2]) /\ IsABag(u[1])
    BY <2>1
  <2>3. IsABag(t[1] (+) t[2])
    BY <2>2, SumBag
  <2>4. IsABag(Written(op, target, t, u)[1])
    BY <2>3, <1>8, Writes_resadd_add3, InList1
  <2> QED BY <2>1, <2>4
<1>9. CASE op.cs = "resadd_addto"
  <2>1. Len(op.srv) = 1 /\ Len(op.uav) = 1
    BY <1>9 DEF Arities
  <2>2. IsABag(t[1]) /\ IsABag(u[1])
    BY <2>1
  <2>3. IsABag(u[1] (+) t[1])
    BY <2>2, SumBag
  <2>4. IsABag(Written(op, target, t, u)[1])
    BY <2>3, <1>9, Writes_resadd_addto, InList1
  <2> QED BY <2>1, <2>4
<1>10. CASE op.cs = "loss"
  <2>1. Len(op.srv) = 1 /\ Len(op.uav) = 2
    BY <1>10 DEF Arities
  <2>2. IsABag(t[1]) /\ IsABag(u[1]) /\ IsABag(u[2])
    BY <2>1
  <2>3. IsABag(Apply("dlogits", op.head, <<t[1], target>>))
    BY <2>2, ApplyBag
  <2>4. IsABag(Apply("loss", op.head, <<t[1], target>>))
    BY <2>2, ApplyBag
  <2>5. IsABag(Written(op, target, t, u)[1]) /\ IsABag(Written(op, target, t, u)[2])
    BY <2>3, <2>4, <1>10, Writes_loss, InList2
  <2> QED BY <2>1, <2>5
<1>11. CASE op.cs = "lnorm_bwd"
  <2>1. Len(op.srv) = 4 /\ Len(op.uav) = 3
    BY <1>11 DEF Arities
  <2>2. IsABag(t[1]) /\ IsABag(t[2]) /\ IsABag(t[3]) /\ IsABag(t[4]) /\ IsABag(u[1])
                   /\ IsABag(u[2]) /\ IsABag(u[3])
    BY <2>1
  <2>3. IsABag(u[1] (+) Apply("lnDx", op.head, t))
    BY <2>2, ApplyBag, SumBag
  <2>4. IsABag(u[2])
    BY <2>2
  <2>5. IsABag(u[3])
    BY <2>2
  <2>6. IsABag(Written(op, target, t, u)[1]) /\ IsABag(Written(op, target, t, u)[2])
                    /\ IsABag(Written(op, target, t, u)[3])
    BY <2>3, <2>4, <2>5, <1>11, Writes_lnorm_bwd, InList3
  <2> QED BY <2>1, <2>6
<1>12. CASE op.cs = "lnorm_bwd_params"
  <2>1. Len(op.srv) = 4 /\ Len(op.uav) = 3
    BY <1>12 DEF Arities
  <2>2. IsABag(t[1]) /\ IsABag(t[2]) /\ IsABag(t[3]) /\ IsABag(t[4]) /\ IsABag(u[1])
                   /\ IsABag(u[2]) /\ IsABag(u[3])
    BY <2>1
  <2>3. IsABag(u[1])
    BY <2>2
  <2>4. IsABag(u[2] (+) Apply("lnGamma", op.head, <<t[1], t[3]>>))
    BY <2>2, ApplyBag, SumBag
  <2>5. IsABag(u[3] (+) Apply("lnBeta", op.head, <<t[3]>>))
    BY <2>2, ApplyBag, SumBag
  <2>6. IsABag(Written(op, target, t, u)[1]) /\ IsABag(Written(op, target, t, u)[2])
                    /\ IsABag(Written(op, target, t, u)[3])
    BY <2>3, <2>4, <2>5, <1>12, Writes_lnorm_bwd_params, InList3
  <2> QED BY <2>1, <2>6
<1>13. CASE op.cs = "gelu_bwd"
  <2>1. Len(op.srv) = 1 /\ Len(op.uav) = 1
    BY <1>13 DEF Arities
  <2>2. IsABag(t[1]) /\ IsABag(u[1])
    BY <2>1
  <2>3. IsABag(Apply("geluBwd", op.head, <<u[1], t[1]>>))
    BY <2>2, ApplyBag
  <2>4. IsABag(Written(op, target, t, u)[1])
    BY <2>3, <1>13, Writes_gelu_bwd, InList1
  <2> QED BY <2>1, <2>4
<1>14. CASE op.cs = "matmul_bwd_dA"
  <2>1. Len(op.srv) = 3 /\ Len(op.uav) = 2
    BY <1>14 DEF Arities
  <2>2. IsABag(t[1]) /\ IsABag(t[2]) /\ IsABag(t[3]) /\ IsABag(u[1]) /\ IsABag(u[2])
    BY <2>1
  <2>3. IsABag(u[1] (+) Apply("dA", op.head, <<t[2], t[3]>>))
    BY <2>2, ApplyBag, SumBag
  <2>4. IsABag(u[2])
    BY <2>2
  <2>5. IsABag(Written(op, target, t, u)[1]) /\ IsABag(Written(op, target, t, u)[2])
    BY <2>3, <2>4, <1>14, Writes_matmul_bwd_dA, InList2
  <2> QED BY <2>1, <2>5
<1>15. CASE op.cs = "matmul_bwd_dB"
  <2>1. Len(op.srv) = 3 /\ Len(op.uav) = 2
    BY <1>15 DEF Arities
  <2>2. IsABag(t[1]) /\ IsABag(t[2]) /\ IsABag(t[3]) /\ IsABag(u[1]) /\ IsABag(u[2])
    BY <2>1
  <2>3. IsABag(u[1])
    BY <2>2
  <2>4. IsABag(u[2] (+) Apply("dB", op.head, <<t[1], t[3]>>))
    BY <2>2, ApplyBag, SumBag
  <2>5. IsABag(Written(op, target, t, u)[1]) /\ IsABag(Written(op, target, t, u)[2])
    BY <2>3, <2>4, <1>15, Writes_matmul_bwd_dB, InList2
  <2> QED BY <2>1, <2>5
<1>16. CASE op.cs = "bias_bwd"
  <2>1. Len(op.srv) = 1 /\ Len(op.uav) = 1
    BY <1>16 DEF Arities
  <2>2. IsABag(t[1]) /\ IsABag(u[1])
    BY <2>1
  <2>3. IsABag(u[1] (+) Apply("rows", op.head, t))
    BY <2>2, ApplyBag, SumBag
  <2>4. IsABag(Written(op, target, t, u)[1])
    BY <2>3, <1>16, Writes_bias_bwd, InList1
  <2> QED BY <2>1, <2>4
<1>17. CASE op.cs = "attn_bwd_dvdp"
  <2>1. Len(op.srv) = 3 /\ Len(op.uav) = 3
    BY <1>17 DEF Arities
  <2>2. IsABag(t[1]) /\ IsABag(t[2]) /\ IsABag(t[3]) /\ IsABag(u[1]) /\ IsABag(u[2])
                   /\ IsABag(u[3])
    BY <2>1
  <2>3. IsABag(u[1] (+) Apply("dV", op.head, <<t[2], t[3]>>))
    BY <2>2, ApplyBag, SumBag
  <2>4. IsABag(Apply("dP", op.head, <<t[3], t[1]>>))
    BY <2>2, ApplyBag
  <2>5. IsABag(u[3])
    BY <2>2
  <2>6. IsABag(Written(op, target, t, u)[1]) /\ IsABag(Written(op, target, t, u)[2])
                    /\ IsABag(Written(op, target, t, u)[3])
    BY <2>3, <2>4, <2>5, <1>17, Writes_attn_bwd_dvdp, InList3
  <2> QED BY <2>1, <2>6
<1>18. CASE op.cs = "attn_bwd_dq"
  <2>1. Len(op.srv) = 3 /\ Len(op.uav) = 3
    BY <1>18 DEF Arities
  <2>2. IsABag(t[1]) /\ IsABag(t[2]) /\ IsABag(t[3]) /\ IsABag(u[1]) /\ IsABag(u[2])
                   /\ IsABag(u[3])
    BY <2>1
  <2>3. IsABag(u[1] (+) Apply("dQ", op.head,
                   <<t[2], u[2], Apply("dot", op.head, <<t[2], u[2]>>), t[1]>>))
    BY <2>2, ApplyBag, SumBag
  <2>4. IsABag(u[2])
    BY <2>2
  <2>5. IsABag(Apply("dot", op.head, <<t[2], u[2]>>))
    BY <2>2, ApplyBag
  <2>6. IsABag(Written(op, target, t, u)[1]) /\ IsABag(Written(op, target, t, u)[2])
                    /\ IsABag(Written(op, target, t, u)[3])
    BY <2>3, <2>4, <2>5, <1>18, Writes_attn_bwd_dq, InList3
  <2> QED BY <2>1, <2>6
<1>19. CASE op.cs = "attn_bwd_dk"
  <2>1. Len(op.srv) = 3 /\ Len(op.uav) = 3
    BY <1>19 DEF Arities
  <2>2. IsABag(t[1]) /\ IsABag(t[2]) /\ IsABag(t[3]) /\ IsABag(u[1]) /\ IsABag(u[2])
                   /\ IsABag(u[3])
    BY <2>1
  <2>3. IsABag(u[1] (+) Apply("dK", op.head, <<t[2], u[2], u[3], t[1]>>))
    BY <2>2, ApplyBag, SumBag
  <2>4. IsABag(u[2])
    BY <2>2
  <2>5. IsABag(u[3])
    BY <2>2
  <2>6. IsABag(Written(op, target, t, u)[1]) /\ IsABag(Written(op, target, t, u)[2])
                    /\ IsABag(Written(op, target, t, u)[3])
    BY <2>3, <2>4, <2>5, <1>19, Writes_attn_bwd_dk, InList3
  <2> QED BY <2>1, <2>6
<1>20. CASE op.cs = "embed_bwd"
  <2>1. Len(op.srv) = 2 /\ Len(op.uav) = 2
    BY <1>20 DEF Arities
  <2>2. IsABag(t[1]) /\ IsABag(t[2]) /\ IsABag(u[1]) /\ IsABag(u[2])
    BY <2>1
  <2>3. IsABag(u[1] (+) Apply("scatter", op.head, t))
    BY <2>2, ApplyBag, SumBag
  <2>4. IsABag(u[2] (+) Apply("addRows", op.head, <<t[2]>>))
    BY <2>2, ApplyBag, SumBag
  <2>5. IsABag(Written(op, target, t, u)[1]) /\ IsABag(Written(op, target, t, u)[2])
    BY <2>3, <2>4, <1>20, Writes_embed_bwd, InList2
  <2> QED BY <2>1, <2>5
<1> QED
  <2>1. \/ op.cs = "copy"
        \/ op.cs = "embed_fwd"
        \/ op.cs = "lnorm_fwd"
        \/ op.cs = "matmul_fwd"
        \/ op.cs = "matmul_transb"
        \/ op.cs = "attn_fwd"
        \/ op.cs = "gelu_fwd"
        \/ op.cs = "resadd_add3"
        \/ op.cs = "resadd_addto"
        \/ op.cs = "loss"
        \/ op.cs = "lnorm_bwd"
        \/ op.cs = "lnorm_bwd_params"
        \/ op.cs = "gelu_bwd"
        \/ op.cs = "matmul_bwd_dA"
        \/ op.cs = "matmul_bwd_dB"
        \/ op.cs = "bias_bwd"
        \/ op.cs = "attn_bwd_dvdp"
        \/ op.cs = "attn_bwd_dq"
        \/ op.cs = "attn_bwd_dk"
        \/ op.cs = "embed_bwd"
    BY Zenon DEF Arities
  <2> QED BY <2>1, <1>1, <1>2, <1>3, <1>4, <1>5, <1>6, <1>7, <1>8, <1>9, <1>10, <1>11, <1>12,
      <1>13, <1>14, <1>15, <1>16, <1>17, <1>18, <1>19, <1>20

-----------------------------------------------------------------------------
(* Division                                                                  *)

\* Quotient and remainder.
LEMMA DivMod ==
    ASSUME NEW N \in Nat, N > 0, NEW x \in Nat
    PROVE  x \div N \in Nat /\ x % N \in 0 .. N - 1 /\ x = N * (x \div N) + (x % N)
OBVIOUS

\* The only multiple of N between -N and N is 0.
LEMMA Multiple ==
    ASSUME NEW N \in Nat, N > 0, NEW a \in Int, NEW r \in Int, -N < r, r < N, N * a = r
    PROVE  a = 0 /\ r = 0
<1>1. CASE a >= 1
  <2>1. N * a >= N BY <1>1
  <2> QED BY <2>1
<1>2. CASE a <= -1
  <2>1. N * a <= -N BY <1>2
  <2> QED BY <2>1
<1>3. CASE a = 0
  BY <1>3
<1> QED BY <1>1, <1>2, <1>3

\* They are the only ones.
LEMMA DivUnique ==
    ASSUME NEW N \in Nat, N > 0, NEW q \in Nat, NEW r \in 0 .. N - 1
    PROVE  (N * q + r) \div N = q /\ (N * q + r) % N = r
<1> PICK x : x = N * q + r
  OBVIOUS
<1>1. x \in Nat
  OBVIOUS
<1>2. x \div N \in Nat /\ x % N \in 0 .. N - 1 /\ x = N * (x \div N) + (x % N)
  BY <1>1, DivMod
<1> PICK d, e : d = x \div N /\ e = x % N
  OBVIOUS
<1>3. d \in Nat /\ e \in 0 .. N - 1 /\ N * q + r = N * d + e
  BY <1>2
<1>4. N * (q - d) = e - r
  BY <1>3
<1>5. q - d = 0 /\ e - r = 0
  BY <1>3, <1>4, Multiple
<1> QED BY <1>5, <1>3

\* Going on from a position in a ring of N.
LEMMA RingStep ==
    ASSUME NEW N \in Nat, N > 0, NEW x \in Nat, NEW j \in 0 .. N - 1
    PROVE  (x + j) % N = IF (x % N) + j < N THEN (x % N) + j ELSE (x % N) + j - N
<1> PICK d, e : d = x \div N /\ e = x % N
  OBVIOUS
<1>1. d \in Nat /\ e \in 0 .. N - 1 /\ x = N * d + e
  BY DivMod
<1>2. CASE e + j < N
  <2>1. x + j = N * d + (e + j) /\ e + j \in 0 .. N - 1
    BY <1>1, <1>2
  <2>2. (N * d + (e + j)) % N = e + j
    BY <2>1, <1>1, DivUnique
  <2> QED BY <2>1, <2>2, <1>2
<1>3. CASE ~(e + j < N)
  <2>1. x + j = N * (d + 1) + (e + j - N) /\ e + j - N \in 0 .. N - 1 /\ d + 1 \in Nat
    BY <1>1, <1>3
  <2>2. (N * (d + 1) + (e + j - N)) % N = e + j - N
    BY <2>1, DivUnique
  <2> QED BY <2>1, <2>2, <1>3
<1> QED BY <1>2, <1>3

-----------------------------------------------------------------------------
(* The batches                                                               *)

\* The parameters of a run.
LEMMA Parameters ==
    /\ NLayer \in Nat /\ NLayer > 0 /\ NHead \in Nat /\ NHead > 0 /\ NSeq \in Nat /\ NSeq > 0
    /\ MaxSteps \in Nat /\ MaxSteps > 0 /\ BatchSize \in Nat /\ BatchSize > 0
    /\ SaveEvery \in Nat /\ SaveEvery > 0
BY ForwardBackwardAssumption, GPT2TrainerAssumption

Drawable == IF BatchSize < NSeq THEN BatchSize ELSE NSeq
Position(w, k) == IF w + k - 1 < NSeq THEN w + k - 1 ELSE w + k - 1 - NSeq

\* A batch is a window of the order: NSeq positions in a ring.
LEMMA DrawIs ==
    ASSUME NEW idx \in Bijection(0 .. NSeq - 1, 0 .. NSeq - 1), s \in Nat
    PROVE  /\ Drawable \in Nat /\ Drawable <= BatchSize /\ Drawable <= NSeq
           /\ (s * BatchSize) % NSeq \in 0 .. NSeq - 1
           /\ \A k \in 1 .. Drawable : Position((s * BatchSize) % NSeq, k) \in 0 .. NSeq - 1
           /\ Draw(idx) = [k \in 1 .. Drawable |-> idx[Position((s * BatchSize) % NSeq, k)]]
<1> PICK x : x = s * BatchSize
  OBVIOUS
<1>1. x \in Nat
  BY Parameters
<1>2. Drawable \in Nat /\ Drawable <= BatchSize /\ Drawable <= NSeq
  BY Parameters DEF Drawable
<1>3. x % NSeq \in 0 .. NSeq - 1
  BY <1>1, Parameters, DivMod
<1>4. ASSUME NEW k \in 1 .. Drawable
      PROVE  (x + k - 1) % NSeq = Position(x % NSeq, k) /\ Position(x % NSeq,
                 k) \in 0 .. NSeq - 1
  <2>1. k - 1 \in 0 .. NSeq - 1 /\ x + k - 1 = x + (k - 1)
    BY <1>1, <1>2, Parameters
  <2>2. (x + (k - 1)) % NSeq = IF (x % NSeq) + (k - 1) < NSeq THEN (x % NSeq) + (k - 1)
                                ELSE (x % NSeq) + (k - 1) - NSeq
    BY <2>1, <1>1, Parameters, RingStep
  <2> QED BY <2>1, <2>2, <1>3, <1>2, Parameters DEF Position
<1>5. Draw(idx) = [k \in 1 .. Drawable |-> idx[(x + k - 1) % NSeq]]
  BY DEF Draw, Drawable
<1>6. Draw(idx) = [k \in 1 .. Drawable |-> idx[Position(x % NSeq, k)]]
  BY <1>4, <1>5
<1> QED BY <1>2, <1>3, <1>4, <1>6

\* Its positions differ.
LEMMA PositionsDiffer ==
    ASSUME NEW w \in 0 .. NSeq - 1, NEW j \in 1 .. Drawable, NEW k \in 1 .. Drawable,
           Position(w, j) = Position(w, k)
    PROVE  j = k
<1>1. Drawable \in Nat /\ Drawable <= NSeq
  BY Parameters DEF Drawable
<1> QED BY <1>1, Parameters DEF Position

\* A batch is of different sequences, and no longer than batch_size.
LEMMA DrawDistinct ==
    ASSUME NEW idx \in Bijection(0 .. NSeq - 1, 0 .. NSeq - 1), s \in Nat
    PROVE  /\ Draw(idx) \in Seq(0 .. NSeq - 1) /\ Len(Draw(idx)) <= BatchSize
           /\ Distinct(Draw(idx))
<1> PICK w : w = (s * BatchSize) % NSeq
  OBVIOUS
<1>1. /\ Drawable \in Nat /\ Drawable <= BatchSize
      /\ w \in 0 .. NSeq - 1
      /\ \A k \in 1 .. Drawable : Position(w, k) \in 0 .. NSeq - 1
      /\ Draw(idx) = [k \in 1 .. Drawable |-> idx[Position(w, k)]]
  BY DrawIs
<1>2. idx \in [0 .. NSeq - 1 -> 0 .. NSeq - 1] /\ \A a, b \in 0 .. NSeq - 1 : idx[a] = idx[b]
          => a = b
  BY DEF Bijection, Injection, IsInjective
<1>3. Distinct(Draw(idx))
  <2> SUFFICES ASSUME NEW j \in 1 .. Drawable, NEW k \in 1 .. Drawable,
                      Draw(idx)[j] = Draw(idx)[k]
               PROVE  j = k
    BY <1>1 DEF Distinct
  <2>1. Position(w, j) = Position(w, k)
    BY <1>1, <1>2
  <2> QED BY <2>1, <1>1, PositionsDiffer
<1>4. Draw(idx) \in [1 .. Drawable -> 0 .. NSeq - 1]
  BY <1>1, <1>2
<1>5. Draw(idx) \in Seq(0 .. NSeq - 1) /\ Len(Draw(idx)) = Drawable
  BY <1>1, <1>4
<1> QED BY <1>1, <1>3, <1>5

-----------------------------------------------------------------------------
(* Every dispatch of the program fits                                        *)

\* Every dispatch of the program fits.
LEMMA AllFit == \A p \in Places : \A k \in 1 .. Len(Ops(p)) : p # End => Fits(Ops(p)[k])
<1> TAKE p \in Places
<1> TAKE k \in 1 .. Len(Ops(p))
<1> HAVE p # End
<1>1. CASE p = Place("embed", 0, 0)
  BY <1>1, FitsOf_embed
<1>2. ASSUME NEW l \in Layers, p = Place("attnForward", l, 0)
      PROVE  Fits(Ops(p)[k])
  BY <1>2, FitsOf_attnForward
<1>3. ASSUME NEW l \in Layers, p = Place("mlpForward", l, 0)
      PROVE  Fits(Ops(p)[k])
  BY <1>3, FitsOf_mlpForward
<1>4. CASE p = Place("head", 0, 0)
  BY <1>4, FitsOf_head
<1>5. CASE p = Place("headBack", 0, 0)
  BY <1>5, FitsOf_headBack
<1>6. ASSUME NEW l \in Layers, p = Place("mlpBack", l, 0)
      PROVE  Fits(Ops(p)[k])
  BY <1>6, FitsOf_mlpBack
<1>7. ASSUME NEW l \in Layers, p = Place("projBack", l, 0)
      PROVE  Fits(Ops(p)[k])
  BY <1>7, FitsOf_projBack
<1>8. ASSUME NEW l \in Layers, NEW h \in Heads, p = Place("attnBack", l, h)
      PROVE  Fits(Ops(p)[k])
  BY <1>8, FitsOf_attnBack
<1>9. ASSUME NEW l \in Layers, p = Place("qkvBack", l, 0)
      PROVE  Fits(Ops(p)[k])
  BY <1>9, FitsOf_qkvBack
<1>10. CASE p = Place("embedBack", 0, 0)
  BY <1>10, FitsOf_embedBack
<1> QED BY <1>1, <1>2, <1>3, <1>4, <1>5, <1>6, <1>7, <1>8, <1>9, <1>10, PlaceParts

\* Every place but the end has a dispatch, and is followed by a place.
LEMMA PlaceAfter ==
    \A p \in Places : p # End => Len(Ops(p)) >= 1 /\ After(p) \in Places
<1> TAKE p \in Places
<1> HAVE p # End
<1>1. CASE p = Place("embed", 0, 0)
  <2>1. Len(Ops(p)) >= 1
    BY <1>1, FitsOf_embed
  <2>2. After(p) \in Places
    BY <1>1, Parameters DEF After, Place, Places, Layers, End
  <2> QED BY <2>1, <2>2
<1>2. ASSUME NEW l \in Layers, p = Place("attnForward", l, 0)
      PROVE  Len(Ops(p)) >= 1 /\ After(p) \in Places
  <2>1. Len(Ops(p)) >= 1
    BY <1>2, FitsOf_attnForward
  <2>2. After(p) \in Places
    BY <1>2, Parameters DEF After, Place, Places, Layers, Heads
  <2> QED BY <2>1, <2>2
<1>3. ASSUME NEW l \in Layers, p = Place("mlpForward", l, 0)
      PROVE  Len(Ops(p)) >= 1 /\ After(p) \in Places
  <2>1. Len(Ops(p)) >= 1
    BY <1>3, FitsOf_mlpForward
  <2>2. After(p) \in Places
    BY <1>3, Parameters DEF After, Place, Places, Layers, Heads
  <2> QED BY <2>1, <2>2
<1>4. CASE p = Place("head", 0, 0)
  <2>1. Len(Ops(p)) >= 1
    BY <1>4, FitsOf_head
  <2>2. After(p) \in Places
    BY <1>4, Parameters DEF After, Place, Places, Layers, End
  <2> QED BY <2>1, <2>2
<1>5. CASE p = Place("headBack", 0, 0)
  <2>1. Len(Ops(p)) >= 1
    BY <1>5, FitsOf_headBack
  <2>2. After(p) \in Places
    BY <1>5, Parameters DEF After, Place, Places, Layers, End
  <2> QED BY <2>1, <2>2
<1>6. ASSUME NEW l \in Layers, p = Place("mlpBack", l, 0)
      PROVE  Len(Ops(p)) >= 1 /\ After(p) \in Places
  <2>1. Len(Ops(p)) >= 1
    BY <1>6, FitsOf_mlpBack
  <2>2. After(p) \in Places
    BY <1>6, Parameters DEF After, Place, Places, Layers, Heads
  <2> QED BY <2>1, <2>2
<1>7. ASSUME NEW l \in Layers, p = Place("projBack", l, 0)
      PROVE  Len(Ops(p)) >= 1 /\ After(p) \in Places
  <2>1. Len(Ops(p)) >= 1
    BY <1>7, FitsOf_projBack
  <2>2. After(p) \in Places
    BY <1>7, Parameters DEF After, Place, Places, Layers, Heads
  <2> QED BY <2>1, <2>2
<1>8. ASSUME NEW l \in Layers, NEW h \in Heads, p = Place("attnBack", l, h)
      PROVE  Len(Ops(p)) >= 1 /\ After(p) \in Places
  <2>1. Len(Ops(p)) >= 1
    BY <1>8, FitsOf_attnBack
  <2>2. After(p) \in Places
    BY <1>8, Parameters DEF After, Place, Places, Layers, Heads
  <2> QED BY <2>1, <2>2
<1>9. ASSUME NEW l \in Layers, p = Place("qkvBack", l, 0)
      PROVE  Len(Ops(p)) >= 1 /\ After(p) \in Places
  <2>1. Len(Ops(p)) >= 1
    BY <1>9, FitsOf_qkvBack
  <2>2. After(p) \in Places
    BY <1>9, Parameters DEF After, Place, Places, Layers, Heads
  <2> QED BY <2>1, <2>2
<1>10. CASE p = Place("embedBack", 0, 0)
  <2>1. Len(Ops(p)) >= 1
    BY <1>10, FitsOf_embedBack
  <2>2. After(p) \in Places
    BY <1>10, Parameters DEF After, Place, Places, Layers, End
  <2> QED BY <2>1, <2>2
<1> QED BY <1>1, <1>2, <1>3, <1>4, <1>5, <1>6, <1>7, <1>8, <1>9, <1>10, PlaceParts

-----------------------------------------------------------------------------
(* What the contents of a buffer tell                                        *)

\* The names a residual stream or its gradient is the sum of.
HiddenNames(l, t) ==
    {Named("embed", 0, 0, t)}
    \cup {Named(n, k, 0, t) : n \in {"attn_proj", "mlp_out"}, k \in 0 .. l - 1}
DHNames(l, t) ==
    {Named("d_ln_f", 0, 0, t)}
    \cup {Named(n, k, 0, t) : n \in {"d_ln1", "d_ln2"}, k \in l .. NLayer - 1}
HiddenMidNames(l, t) == HiddenNames(l, t) \cup {Named("attn_proj", l, 0, t)}
DHMidNames(l, t) == DHNames(l + 1, t) \cup {Named("d_ln2", l, 0, t)}
DQkvNames(l, t) == {Named(n, l, h, t) : n \in {"dQ", "dK", "dV"}, h \in Heads}

\* A name determines its four parts; so do the contents that are one name.
LEMMA NamedInj ==
    \A n, m, l, k, h, g, t, u :
        Named(n, l, h, t) = Named(m, k, g, u) <=> n = m /\ l = k /\ h = g /\ t = u
BY DEF Named

LEMMA TensorInj ==
    \A n, m, l, k, t, u : Tensor(n, l, t) = Tensor(m, k, u) => n = m /\ l = k /\ t = u
BY OnlyInj, NamedInj DEF Tensor

LEMMA WeightInj ==
    \A n, m, l, k, t, u : Weight(n, l, t) = Weight(m, k, u) => n = m /\ l = k
BY OnlyInj, NamedInj DEF Weight

\* What is in the residual stream.
LEMMA HiddenIs ==
    \A l \in 0 .. NLayer : \A t :
        /\ Hidden(l, t) = SetToBag(HiddenNames(l, t))
        /\ HiddenMid(l, t) = SetToBag(HiddenMidNames(l, t))
<1> TAKE l \in 0 .. NLayer
<1> TAKE t
<1>1. Hidden(l, t) = SetToBag(HiddenNames(l, t))
  BY DEF Hidden, HiddenNames
<1>2. Named("attn_proj", l, 0, t) \notin HiddenNames(l, t)
  BY NamedInj, Parameters DEF HiddenNames
<1> QED BY <1>1, <1>2, AddOnly DEF HiddenMid, HiddenMidNames, Tensor

LEMMA DHIs ==
    /\ \A l \in 0 .. NLayer : \A t : DH(l, t) = SetToBag(DHNames(l, t))
    /\ \A l \in Layers : \A t :
          DHMid(l, t) = SetToBag(DHMidNames(l, t))
<1>1. \A l, t : DH(l, t) = SetToBag(DHNames(l, t))
  BY DEF DH, DHNames
<1>2. ASSUME NEW l \in Layers, NEW t
      PROVE  DHMid(l, t) = SetToBag(DHMidNames(l, t))
  <2>1. Named("d_ln2", l, 0, t) \notin DHNames(l + 1, t)
    BY NamedInj, Parameters DEF DHNames, Layers
  <2> QED BY <1>1, <2>1, AddOnly DEF DHMid, DHMidNames, Tensor
<1> QED BY <1>1, <1>2

LEMMA DQkvIs == \A l, t : DQkv(l, t) = SetToBag(DQkvNames(l, t))
BY DEF DQkv, DQkvNames

\* A stage of the residual stream is that of one layer and pass.
LEMMA HiddenInj ==
    \A l, k \in 0 .. NLayer : \A t, u :
        /\ Hidden(l, t) = Hidden(k, u) => l = k /\ t = u
        /\ HiddenMid(l, t) = HiddenMid(k, u) => l = k /\ t = u
        /\ Hidden(l, t) # HiddenMid(k, u)
<1> TAKE l, k \in 0 .. NLayer
<1> TAKE t, u
<1>1. /\ Hidden(l, t) = Hidden(k, u) => HiddenNames(l, t) = HiddenNames(k, u)
      /\ HiddenMid(l, t) = HiddenMid(k, u) =>
            HiddenMidNames(l, t)
            = HiddenMidNames(k, u)
      /\ Hidden(l, t) = HiddenMid(k, u) =>
            HiddenNames(l, t) = HiddenMidNames(k, u)
  BY HiddenIs, BagInj
<1>2. ASSUME NEW a \in 0 .. NLayer, NEW v, NEW b
      PROVE  /\ Named("embed", 0, 0, b) \in HiddenNames(a, v) <=> b = v
             /\ \A c \in Nat : /\ Named("mlp_out", c, 0, b) \in HiddenNames(a, v)
                                    <=> c < a /\ b = v
                               /\ Named("attn_proj", c, 0, b) \in HiddenNames(a, v)
                                    <=> c < a /\ b = v
  BY NamedInj, Parameters DEF HiddenNames
<1>3. ASSUME NEW a \in 0 .. NLayer, NEW v, NEW b
      PROVE  /\ Named("embed", 0, 0, b) \in HiddenMidNames(a, v) <=> b = v
             /\ \A c \in Nat :
                   /\ Named("mlp_out", c, 0, b) \in HiddenMidNames(a, v)
                         <=> c < a /\ b = v
                   /\ Named("attn_proj", c, 0, b) \in HiddenMidNames(a, v)
                         <=> c < a + 1 /\ b = v
  BY <1>2, NamedInj, Parameters DEF HiddenMidNames
<1>4. ASSUME HiddenNames(l, t) = HiddenNames(k, u) PROVE l = k /\ t = u
  <2>1. t = u
    BY <1>2, <1>4
  <2>2. \A c \in Nat : c < l <=> c < k
    BY <1>2, <1>4, <2>1
  <2> QED BY <2>1, <2>2, Parameters
<1>5. ASSUME HiddenMidNames(l, t)
             = HiddenMidNames(k, u)
      PROVE  l = k /\ t = u
  <2>1. t = u
    BY <1>3, <1>5
  <2>2. \A c \in Nat : c < l <=> c < k
    BY <1>3, <1>5, <2>1
  <2> QED BY <2>1, <2>2, Parameters
<1>6. ASSUME HiddenNames(l, t) = HiddenMidNames(k, u)
      PROVE  FALSE
  <2>1. t = u
    BY <1>2, <1>3, <1>6
  <2>2. \A c \in Nat : c < l <=> c < k
    BY <1>2, <1>3, <1>6, <2>1
  <2>3. \A c \in Nat : c < l <=> c < k + 1
    BY <1>2, <1>3, <1>6, <2>1
  <2> QED BY <2>2, <2>3, Parameters
<1> QED BY <1>1, <1>4, <1>5, <1>6

\* So is the gradient that flows back, and it is none of the other values whose
\* rows are added up.
LEMMA DHInj ==
    \A l, k \in 0 .. NLayer : \A t, u : DH(l, t) = DH(k, u) => l = k /\ t = u
<1> TAKE l, k \in 0 .. NLayer
<1> TAKE t, u
<1> HAVE DH(l, t) = DH(k, u)
<1>1. DHNames(l, t) = DHNames(k, u)
  BY DHIs, BagInj
<1>2. ASSUME NEW a \in 0 .. NLayer, NEW v, NEW b
      PROVE  /\ Named("d_ln_f", 0, 0, b) \in DHNames(a, v) <=> b = v
             /\ \A c \in Nat : Named("d_ln1", c, 0, b) \in DHNames(a, v)
                  <=> c \in a .. NLayer - 1 /\ b = v
  BY NamedInj, Parameters DEF DHNames
<1>3. t = u
  BY <1>1, <1>2
<1>4. \A c \in Nat : c \in l .. NLayer - 1 <=> c \in k .. NLayer - 1
  BY <1>1, <1>2, <1>3
<1> QED BY <1>3, <1>4, Parameters

LEMMA DHMidInj ==
    \A l, k \in Layers : \A t, u :
        /\ DHMid(l, t) = DHMid(k, u) => l = k /\ t = u
        /\ DH(l + 1, t) # DHMid(k, u)
<1> TAKE l, k \in Layers
<1> TAKE t, u
<1>1. l \in Nat /\ k \in Nat /\ l + 1 \in 0 .. NLayer /\ k + 1 \in 0 .. NLayer /\ l < NLayer
          /\ k < NLayer
  BY Parameters DEF Layers
<1>2. /\ DHMid(l, t) = DHMid(k, u) =>
            DHMidNames(l, t) = DHMidNames(k, u)
      /\ DH(l + 1, t) = DHMid(k, u) =>
            DHNames(l + 1, t) = DHMidNames(k, u)
  BY <1>1, DHIs, BagInj
<1>3. ASSUME NEW a \in Layers, NEW v, NEW b
      PROVE  /\ Named("d_ln_f", 0, 0, b) \in DHNames(a + 1, v) <=> b = v
             /\ \A c \in Nat :
                   /\ Named("d_ln1", c, 0, b) \in DHNames(a + 1, v)
                        <=> c \in a + 1 .. NLayer - 1 /\ b = v
                   /\ Named("d_ln2", c, 0, b) \in DHNames(a + 1, v)
                        <=> c \in a + 1 .. NLayer - 1 /\ b = v
  BY NamedInj, Parameters DEF DHNames, Layers
<1>4. ASSUME NEW a \in Layers, NEW v, NEW b
      PROVE  /\ Named("d_ln_f", 0, 0, b) \in DHMidNames(a, v) <=> b = v
             /\ \A c \in Nat :
                   /\ Named("d_ln1", c, 0, b) \in DHMidNames(a, v)
                         <=> c \in a + 1 .. NLayer - 1 /\ b = v
                   /\ Named("d_ln2", c, 0, b) \in DHMidNames(a, v)
                         <=> c \in a .. NLayer - 1 /\ b = v
  BY <1>3, NamedInj, Parameters DEF Layers, DHMidNames
<1>5. ASSUME DHMidNames(l, t) = DHMidNames(k, u)
      PROVE  l = k /\ t = u
  <2>1. t = u
    BY <1>4, <1>5
  <2>2. \A c \in Nat : c \in l .. NLayer - 1 <=> c \in k .. NLayer - 1
    BY <1>4, <1>5, <2>1
  <2> QED BY <2>1, <2>2, <1>1, Parameters
<1>6. ASSUME DHNames(l + 1, t) = DHMidNames(k, u)
      PROVE  FALSE
  <2>1. t = u
    BY <1>3, <1>4, <1>6
  <2>2. \A c \in Nat : c \in l + 1 .. NLayer - 1 <=> c \in k + 1 .. NLayer - 1
    BY <1>3, <1>4, <1>6, <2>1
  <2>3. \A c \in Nat : c \in l + 1 .. NLayer - 1 <=> c \in k .. NLayer - 1
    BY <1>3, <1>4, <1>6, <2>1
  <2> QED BY <2>2, <2>3, <1>1, Parameters
<1> QED BY <1>2, <1>5, <1>6

LEMMA DQkvInj ==
    \A l, k, t, u :
        /\ DQkv(l, t) = DQkv(k, u) => l = k /\ t = u
        /\ \A j \in 0 .. NLayer : DQkv(l, t) # DH(j, u)
        /\ \A j \in Layers : DQkv(l, t) # DHMid(j, u)
        /\ \A n, j : n # "dQ" => DQkv(l, t) # Tensor(n, j, u)
<1> TAKE l, k, t, u
<1>1. \A b, c, v : Named("dQ", c, 0, b) \in DQkvNames(l, v) <=> c = l /\ b = v
  BY NamedInj, Parameters DEF DQkvNames, Heads
<1>2. Named("dQ", l, 0, t) \in DQkvNames(l, t)
  BY <1>1
<1>3. \A b, c, v, j : Named("dQ", c, 0, b) \notin DHNames(j, v)
  BY NamedInj DEF DHNames
<1>4. DQkv(l, t) = DQkv(k, u) => l = k /\ t = u
  <2> HAVE DQkv(l, t) = DQkv(k, u)
  <2>1. DQkvNames(l, t) = DQkvNames(k, u)
    BY DQkvIs, BagInj
  <2>2. Named("dQ", l, 0, t) \in DQkvNames(k, u)
    BY <1>2, <2>1
  <2> QED BY <2>2, NamedInj DEF DQkvNames
<1>5. ASSUME NEW j \in 0 .. NLayer PROVE DQkv(l, t) # DH(j, u)
  BY <1>2, <1>3, DQkvIs, DHIs, BagInj
<1>6. ASSUME NEW j \in Layers PROVE DQkv(l, t) # DHMid(j, u)
  <2>1. Named("dQ", l, 0, t) \notin DHMidNames(j, u)
    BY <1>3, NamedInj DEF DHMidNames
  <2> QED BY <1>2, <2>1, DQkvIs, DHIs, BagInj
<1>7. ASSUME NEW n, NEW j, n # "dQ" PROVE DQkv(l, t) # Tensor(n, j, u)
  <2>1. Named("dQ", l, 0, t) \notin {Named(n, j, 0, u)}
    BY <1>7, NamedInj
  <2> QED BY <1>2, <2>1, DQkvIs, BagInj DEF Tensor, Only
<1> QED BY <1>4, <1>5, <1>6, <1>7

\* The gradient that flows back is not one of a layer's inner gradients.
LEMMA DHNotInner ==
    \A k, t, u :
        /\ \A j \in 0 .. NLayer : DH(j, u) # Tensor("d_mlp_pre", k, t)
        /\ \A j \in Layers : DHMid(j, u) # Tensor("d_mlp_pre", k, t)
<1> TAKE k, t, u
<1>1. Tensor("d_mlp_pre", k, t) = SetToBag({Named("d_mlp_pre", k, 0, t)})
  BY DEF Tensor, Only
<1>2. Named("d_ln_f", 0, 0, u) \notin {Named("d_mlp_pre", k, 0, t)}
  BY NamedInj
<1>3. \A j : Named("d_ln_f", 0, 0, u) \in DHNames(j, u) /\ Named("d_ln_f", 0, 0,
          u) \in DHMidNames(j, u)
  BY DEF DHNames, DHMidNames
<1> QED BY <1>1, <1>2, <1>3, DHIs, BagInj

-----------------------------------------------------------------------------
(* An operation and its arguments determine the name of the result           *)

\* Operations whose first argument is one tensor: which, and what they make.
Pairs(op) ==
    CASE op = "linear" -> {<<"ln1_y", "qkv">>, <<"attn_out", "attn_proj">>,
                           <<"ln2_y", "mlp_pre">>, <<"mlp_gelu", "mlp_out">>}
      [] op = "softmax" -> {<<"qkv", "P">>}
      [] op = "attend" -> {<<"qkv", "attn_out">>}
      [] op = "gelu" -> {<<"mlp_pre", "mlp_gelu">>}
      [] op = "embed" -> {<<"tokens", "embed">>}
      [] op = "lmHead" -> {<<"ln_f_y", "logits">>}
      [] op = "loss" -> {<<"logits", "loss">>}
      [] op = "dlogits" -> {<<"logits", "dlogits">>}
      [] op = "column" -> {<<"dlogits", "wte:head">>}
      [] op = "row" -> {<<"dlogits", "d_ln_f_y">>}
      [] op = "lnDx" -> {<<"ln_f_xhat", "d_ln_f">>, <<"ln2_xhat", "d_ln2">>,
          <<"ln1_xhat", "d_ln1">>}
      [] op = "lnGamma" -> {<<"ln_f_xhat", "ln_f.w">>, <<"ln2_xhat", "ln_2.w">>,
          <<"ln1_xhat", "ln_1.w">>}
      [] op = "lnBeta" -> {<<"d_ln_f_y", "ln_f.b">>, <<"d_ln2_y", "ln_2.b">>,
          <<"d_ln1_y", "ln_1.b">>}
      [] op = "dB" -> {<<"mlp_gelu", "mlp.c_proj.w">>, <<"ln2_y", "c_fc.w">>,
                       <<"attn_out", "attn.c_proj.w">>, <<"ln1_y", "c_attn.w">>}
      [] op = "geluBwd" -> {<<"d_mlp_gelu", "d_mlp_pre">>}
      [] op = "dV" -> {<<"P", "dV">>}
      [] op = "dP" -> {<<"d_attn_out", "dP">>}
      [] op = "dot" -> {<<"P", "dot">>}
      [] op = "dQ" -> {<<"P", "dQ">>}
      [] op = "dK" -> {<<"P", "dK">>}
      [] op = "scatter" -> {<<"tokens", "wte:embed">>}
      [] OTHER -> {}
Slot(op, h) ==
    CASE op \in {"column", "lnGamma", "lnBeta", "dB", "scatter"} -> -1
      [] op \in {"dV", "dP", "dot", "dQ", "dK"} -> h
      [] OTHER -> 0

FirstShape(v, op, h, a) ==
    \E pr \in Pairs(op) : \E l, t :
        a[1] = Tensor(pr[1], l, t) /\ v = Named(pr[2], l, Slot(op, h), t)

NormNames(op) ==
    CASE op = "lnY" -> <<"ln1_y", "ln2_y", "ln_f_y">>
      [] op = "lnXhat" -> <<"ln1_xhat", "ln2_xhat", "ln_f_xhat">>
      [] op = "lnInvStd" -> <<"ln1_inv_std", "ln2_inv_std", "ln_f_inv_std">>
NormShape(v, op, h, a) ==
    op \in {"lnY", "lnXhat", "lnInvStd"} /\ \E t :
        \/ \E l \in Layers : a[1] = Hidden(l, t) /\ v = Named(NormNames(op)[1], l, 0, t)
        \/ \E l \in Layers : a[1] = HiddenMid(l, t) /\ v = Named(NormNames(op)[2], l, 0, t)
        \/ a[1] = Hidden(NLayer, t) /\ v = Named(NormNames(op)[3], 0, 0, t)

RowsShape(v, op, h, a) ==
    op = "rows" /\ \E l \in Layers : \E t :
        \/ a[1] = DH(l + 1, t) /\ v = Gradient("mlp.c_proj.b", l, t)
        \/ a[1] = Tensor("d_mlp_pre", l, t) /\ v = Gradient("c_fc.b", l, t)
        \/ a[1] = DHMid(l, t) /\ v = Gradient("attn.c_proj.b", l, t)
        \/ a[1] = DQkv(l, t) /\ v = Gradient("c_attn.b", l, t)

DaShape(v, op, h, a) ==
    op = "dA" /\ \E l \in Layers : \E t :
        \/ a[1] = Weight("mlp.c_proj.w", l, t) /\ a[2] = DH(l + 1, t)
             /\ v = Named("d_mlp_gelu", l, 0, t)
        \/ a[1] = Weight("c_fc.w", l, t) /\ a[2] = Tensor("d_mlp_pre", l, t)
             /\ v = Named("d_ln2_y", l, 0, t)
        \/ a[1] = Weight("attn.c_proj.w", l, t) /\ a[2] = DHMid(l, t)
             /\ v = Named("d_attn_out", l, 0, t)
        \/ a[1] = Weight("c_attn.w", l, t) /\ a[2] = DQkv(l, t) /\ v = Named("d_ln1_y", l, 0, t)

AddShape(v, op, h, a) == op = "addRows" /\ \E t : a[1] = DH(0, t) /\ v = Gradient("wpe", 0, t)

KnownShape(v, op, h, a) ==
    \/ FirstShape(v, op, h, a) \/ NormShape(v, op, h, a) \/ RowsShape(v, op, h, a)
    \/ DaShape(v, op, h, a) \/ AddShape(v, op, h, a)

\* An operation has one result for a first argument.
LEMMA PairsUnique == \A op : \A p, q \in Pairs(op) : p[1] = q[1] => p[2] = q[2]
<1> TAKE op
<1>1. CASE op = "linear"
  BY <1>1 DEF Pairs
<1>2. CASE op = "softmax"
  BY <1>2 DEF Pairs
<1>3. CASE op = "attend"
  BY <1>3 DEF Pairs
<1>4. CASE op = "gelu"
  BY <1>4 DEF Pairs
<1>5. CASE op = "embed"
  BY <1>5 DEF Pairs
<1>6. CASE op = "lmHead"
  BY <1>6 DEF Pairs
<1>7. CASE op = "loss"
  BY <1>7 DEF Pairs
<1>8. CASE op = "dlogits"
  BY <1>8 DEF Pairs
<1>9. CASE op = "column"
  BY <1>9 DEF Pairs
<1>10. CASE op = "row"
  BY <1>10 DEF Pairs
<1>11. CASE op = "lnDx"
  BY <1>11 DEF Pairs
<1>12. CASE op = "lnGamma"
  BY <1>12 DEF Pairs
<1>13. CASE op = "lnBeta"
  BY <1>13 DEF Pairs
<1>14. CASE op = "dB"
  BY <1>14 DEF Pairs
<1>15. CASE op = "geluBwd"
  BY <1>15 DEF Pairs
<1>16. CASE op = "dV"
  BY <1>16 DEF Pairs
<1>17. CASE op = "dP"
  BY <1>17 DEF Pairs
<1>18. CASE op = "dot"
  BY <1>18 DEF Pairs
<1>19. CASE op = "dQ"
  BY <1>19 DEF Pairs
<1>20. CASE op = "dK"
  BY <1>20 DEF Pairs
<1>21. CASE op = "scatter"
  BY <1>21 DEF Pairs
<1>22. CASE op # "linear" /\ op # "softmax" /\ op # "attend" /\ op # "gelu" /\ op # "embed"
           /\ op # "lmHead" /\ op # "loss" /\ op # "dlogits" /\ op # "column" /\ op # "row"
                /\ op # "lnDx" /\ op # "lnGamma" /\ op # "lnBeta" /\ op # "dB"
                     /\ op # "geluBwd" /\ op # "dV" /\ op # "dP" /\ op # "dot" /\ op # "dQ"
                          /\ op # "dK" /\ op # "scatter"
  BY <1>22 DEF Pairs
<1> QED BY <1>1, <1>2, <1>3, <1>4, <1>5, <1>6, <1>7, <1>8, <1>9, <1>10, <1>11, <1>12, <1>13,
    <1>14, <1>15, <1>16, <1>17, <1>18, <1>19, <1>20, <1>21, <1>22

\* The operations of FirstShape are not those of the other shapes.
LEMMA PairsOps == \A op : op \in {"lnY", "lnXhat", "lnInvStd", "rows", "dA", "addRows"}
    => Pairs(op) = {}
BY DEF Pairs

\* For each shape of equation, the operation and its arguments leave one value.
LEMMA FirstUnique ==
    \A v, w, op, h, a : FirstShape(v, op, h, a) /\ FirstShape(w, op, h, a) => v = w
<1> SUFFICES ASSUME NEW v, NEW w, NEW op, NEW h, NEW a, FirstShape(v, op, h, a),
                    FirstShape(w, op, h, a)
             PROVE  v = w
  OBVIOUS
<1>1. PICK p \in Pairs(op) : \E l, t : a[1] = Tensor(p[1], l, t) /\ v = Named(p[2], l,
          Slot(op, h), t)
  BY Zenon DEF FirstShape
<1>2. PICK l, t : a[1] = Tensor(p[1], l, t) /\ v = Named(p[2], l, Slot(op, h), t)
  BY <1>1
<1>3. PICK q \in Pairs(op) : \E k, u : a[1] = Tensor(q[1], k, u) /\ w = Named(q[2], k,
          Slot(op, h), u)
  BY Zenon DEF FirstShape
<1>4. PICK k, u : a[1] = Tensor(q[1], k, u) /\ w = Named(q[2], k, Slot(op, h), u)
  BY <1>3
<1>5. Tensor(p[1], l, t) = Tensor(q[1], k, u)
  BY <1>2, <1>4
<1>6. p[1] = q[1] /\ l = k /\ t = u
  BY <1>5, TensorInj
<1> QED BY <1>2, <1>4, <1>6, PairsUnique

LEMMA NormUnique ==
    \A v, w, op, h, a : NormShape(v, op, h, a) /\ NormShape(w, op, h, a) => v = w
<1> SUFFICES ASSUME NEW v, NEW w, NEW op, NEW h, NEW a, NormShape(v, op, h, a),
                    NormShape(w, op, h, a)
             PROVE  v = w
  OBVIOUS
<1>1. \A l \in Layers : l \in 0 .. NLayer /\ l # NLayer /\ NLayer \in 0 .. NLayer
  BY Parameters DEF Layers
<1>2. PICK t : \/ \E l \in Layers : a[1] = Hidden(l, t) /\ v = Named(NormNames(op)[1], l, 0, t)
               \/ \E l \in Layers : a[1] = HiddenMid(l, t) /\ v = Named(NormNames(op)[2], l, 0,
                    t)
               \/ a[1] = Hidden(NLayer, t) /\ v = Named(NormNames(op)[3], 0, 0, t)
  BY Zenon DEF NormShape
<1>3. PICK u : \/ \E l \in Layers : a[1] = Hidden(l, u) /\ w = Named(NormNames(op)[1], l, 0, u)
               \/ \E l \in Layers : a[1] = HiddenMid(l, u) /\ w = Named(NormNames(op)[2], l, 0,
                    u)
               \/ a[1] = Hidden(NLayer, u) /\ w = Named(NormNames(op)[3], 0, 0, u)
  BY Zenon DEF NormShape
<1>4. CASE \E l \in Layers : a[1] = Hidden(l, t) /\ v = Named(NormNames(op)[1], l, 0, t)
  <2>1. PICK l \in Layers : a[1] = Hidden(l, t) /\ v = Named(NormNames(op)[1], l, 0, t)
    BY <1>4
  <2>2. PICK k \in Layers : a[1] = Hidden(k, u) /\ w = Named(NormNames(op)[1], k, 0, u)
    BY <2>1, <1>1, <1>3, HiddenInj
  <2>3. Hidden(l, t) = Hidden(k, u) /\ l \in 0 .. NLayer /\ k \in 0 .. NLayer
    BY <2>1, <2>2, <1>1
  <2>4. l = k /\ t = u
    BY <2>3, HiddenInj
  <2> QED BY <2>1, <2>2, <2>4
<1>5. CASE \E l \in Layers : a[1] = HiddenMid(l, t) /\ v = Named(NormNames(op)[2], l, 0, t)
  <2>1. PICK l \in Layers : a[1] = HiddenMid(l, t) /\ v = Named(NormNames(op)[2], l, 0, t)
    BY <1>5
  <2>2. PICK k \in Layers : a[1] = HiddenMid(k, u) /\ w = Named(NormNames(op)[2], k, 0, u)
    BY <2>1, <1>1, <1>3, HiddenInj
  <2>3. HiddenMid(l, t) = HiddenMid(k, u) /\ l \in 0 .. NLayer /\ k \in 0 .. NLayer
    BY <2>1, <2>2, <1>1
  <2>4. l = k /\ t = u
    BY <2>3, HiddenInj
  <2> QED BY <2>1, <2>2, <2>4
<1>6. CASE a[1] = Hidden(NLayer, t) /\ v = Named(NormNames(op)[3], 0, 0, t)
  <2>1. NLayer \in 0 .. NLayer
    BY Parameters
  <2>2. a[1] = Hidden(NLayer, u) /\ w = Named(NormNames(op)[3], 0, 0, u)
    BY <1>6, <2>1, <1>1, <1>3, HiddenInj
  <2>3. Hidden(NLayer, t) = Hidden(NLayer, u)
    BY <2>2, <1>6
  <2>4. t = u
    BY <2>3, <2>1, HiddenInj
  <2> QED BY <2>2, <2>4, <1>6
<1> QED BY <1>2, <1>4, <1>5, <1>6

LEMMA RowsUnique ==
    \A v, w, op, h, a : RowsShape(v, op, h, a) /\ RowsShape(w, op, h, a) => v = w
<1> SUFFICES ASSUME NEW v, NEW w, NEW op, NEW h, NEW a, RowsShape(v, op, h, a),
                    RowsShape(w, op, h, a)
             PROVE  v = w
  OBVIOUS
<1>1. \A l \in Layers : l + 1 \in 0 .. NLayer /\ l \in Int
  BY Parameters DEF Layers
<1>2. PICK l \in Layers : \E t :
        \/ a[1] = DH(l + 1, t) /\ v = Gradient("mlp.c_proj.b", l, t)
        \/ a[1] = Tensor("d_mlp_pre", l, t) /\ v = Gradient("c_fc.b", l, t)
        \/ a[1] = DHMid(l, t) /\ v = Gradient("attn.c_proj.b", l, t)
        \/ a[1] = DQkv(l, t) /\ v = Gradient("c_attn.b", l, t)
  BY Zenon DEF RowsShape
<1>3. PICK t :
        \/ a[1] = DH(l + 1, t) /\ v = Gradient("mlp.c_proj.b", l, t)
        \/ a[1] = Tensor("d_mlp_pre", l, t) /\ v = Gradient("c_fc.b", l, t)
        \/ a[1] = DHMid(l, t) /\ v = Gradient("attn.c_proj.b", l, t)
        \/ a[1] = DQkv(l, t) /\ v = Gradient("c_attn.b", l, t)
  BY <1>2
<1>4. PICK k \in Layers : \E u :
        \/ a[1] = DH(k + 1, u) /\ w = Gradient("mlp.c_proj.b", k, u)
        \/ a[1] = Tensor("d_mlp_pre", k, u) /\ w = Gradient("c_fc.b", k, u)
        \/ a[1] = DHMid(k, u) /\ w = Gradient("attn.c_proj.b", k, u)
        \/ a[1] = DQkv(k, u) /\ w = Gradient("c_attn.b", k, u)
  BY Zenon DEF RowsShape
<1>5. PICK u :
        \/ a[1] = DH(k + 1, u) /\ w = Gradient("mlp.c_proj.b", k, u)
        \/ a[1] = Tensor("d_mlp_pre", k, u) /\ w = Gradient("c_fc.b", k, u)
        \/ a[1] = DHMid(k, u) /\ w = Gradient("attn.c_proj.b", k, u)
        \/ a[1] = DQkv(k, u) /\ w = Gradient("c_attn.b", k, u)
  BY <1>4
<1>6. CASE a[1] = DH(l + 1, t) /\ v = Gradient("mlp.c_proj.b", l, t)
  <2>1. a[1] = DH(k + 1, u) /\ w = Gradient("mlp.c_proj.b", k, u)
    BY <1>6, <1>5, <1>1, DHMidInj, DHNotInner, DQkvInj
  <2>2. l + 1 = k + 1 /\ t = u
    BY <2>1, <1>6, <1>1, DHInj
  <2>3. l = k
    BY <2>2, <1>1
  <2> QED BY <2>1, <2>2, <2>3, <1>6
<1>7. CASE a[1] = Tensor("d_mlp_pre", l, t) /\ v = Gradient("c_fc.b", l, t)
  <2>1. a[1] = Tensor("d_mlp_pre", k, u) /\ w = Gradient("c_fc.b", k, u)
    BY <1>7, <1>5, <1>1, DHNotInner, DQkvInj
  <2> QED BY <2>1, <1>7, TensorInj
<1>8. CASE a[1] = DHMid(l, t) /\ v = Gradient("attn.c_proj.b", l, t)
  <2>1. a[1] = DHMid(k, u) /\ w = Gradient("attn.c_proj.b", k, u)
    BY <1>8, <1>5, <1>1, DHMidInj, DHNotInner, DQkvInj
  <2>2. DHMid(l, t) = DHMid(k, u)
    BY <2>1, <1>8
  <2>3. k = l /\ t = u
    BY <2>2, DHMidInj
  <2> QED BY <2>1, <2>3, <1>8
<1>9. CASE a[1] = DQkv(l, t) /\ v = Gradient("c_attn.b", l, t)
  <2>1. a[1] = DQkv(k, u) /\ w = Gradient("c_attn.b", k, u)
    BY <1>9, <1>5, <1>1, DQkvInj
  <2>2. DQkv(l, t) = DQkv(k, u)
    BY <2>1, <1>9
  <2>3. k = l /\ t = u
    BY <2>2, DQkvInj
  <2> QED BY <2>1, <2>3, <1>9
<1> QED BY <1>3, <1>6, <1>7, <1>8, <1>9

LEMMA DaUnique ==
    \A v, w, op, h, a : DaShape(v, op, h, a) /\ DaShape(w, op, h, a) => v = w
<1> SUFFICES ASSUME NEW v, NEW w, NEW op, NEW h, NEW a, DaShape(v, op, h, a),
                    DaShape(w, op, h, a)
             PROVE  v = w
  OBVIOUS
<1>1. \A l \in Layers : l + 1 \in 0 .. NLayer /\ l \in Int
  BY Parameters DEF Layers
<1> DEFINE Of(x, l, t) ==
        \/ a[1] = Weight("mlp.c_proj.w", l, t) /\ a[2] = DH(l + 1, t)
             /\ x = Named("d_mlp_gelu", l, 0, t)
        \/ a[1] = Weight("c_fc.w", l, t) /\ a[2] = Tensor("d_mlp_pre", l, t)
             /\ x = Named("d_ln2_y", l, 0, t)
        \/ a[1] = Weight("attn.c_proj.w", l, t) /\ a[2] = DHMid(l, t)
             /\ x = Named("d_attn_out", l, 0, t)
        \/ a[1] = Weight("c_attn.w", l, t) /\ a[2] = DQkv(l, t) /\ x = Named("d_ln1_y", l, 0, t)
<1>2. PICK l \in Layers : \E t : Of(v, l, t)
  BY Zenon DEF DaShape
<1>3. PICK t : Of(v, l, t)
  BY <1>2
<1>4. PICK k \in Layers : \E u : Of(w, k, u)
  BY Zenon DEF DaShape
<1>5. PICK u : Of(w, k, u)
  BY <1>4
<1>6. CASE a[1] = Weight("mlp.c_proj.w", l, t) /\ a[2] = DH(l + 1, t)
          /\ v = Named("d_mlp_gelu", l, 0, t)
  <2>1. k = l /\ a[2] = DH(k + 1, u) /\ w = Named("d_mlp_gelu", k, 0, u)
    BY <1>6, <1>5, WeightInj
  <2> QED BY <2>1, <1>6, <1>1, DHInj
<1>7. CASE a[1] = Weight("c_fc.w", l, t) /\ a[2] = Tensor("d_mlp_pre", l, t)
          /\ v = Named("d_ln2_y", l, 0, t)
  <2>1. k = l /\ a[2] = Tensor("d_mlp_pre", k, u) /\ w = Named("d_ln2_y", k, 0, u)
    BY <1>7, <1>5, WeightInj
  <2> QED BY <2>1, <1>7, TensorInj
<1>8. CASE a[1] = Weight("attn.c_proj.w", l, t) /\ a[2] = DHMid(l, t)
          /\ v = Named("d_attn_out", l, 0, t)
  <2>1. k = l /\ a[2] = DHMid(k, u) /\ w = Named("d_attn_out", k, 0, u)
    BY <1>8, <1>5, WeightInj
  <2>2. DHMid(l, t) = DHMid(k, u)
    BY <2>1, <1>8
  <2>3. k = l /\ t = u
    BY <2>2, DHMidInj
  <2> QED BY <2>1, <2>3, <1>8
<1>9. CASE a[1] = Weight("c_attn.w", l, t) /\ a[2] = DQkv(l, t) /\ v = Named("d_ln1_y", l, 0, t)
  <2>1. k = l /\ a[2] = DQkv(k, u) /\ w = Named("d_ln1_y", k, 0, u)
    BY <1>9, <1>5, WeightInj
  <2>2. DQkv(l, t) = DQkv(k, u)
    BY <2>1, <1>9
  <2>3. k = l /\ t = u
    BY <2>2, DQkvInj
  <2> QED BY <2>1, <2>3, <1>9
<1> QED BY <1>3, <1>6, <1>7, <1>8, <1>9

LEMMA AddUnique ==
    \A v, w, op, h, a : AddShape(v, op, h, a) /\ AddShape(w, op, h, a) => v = w
<1>1. 0 \in 0 .. NLayer
  BY Parameters
<1> QED BY <1>1, DHInj DEF AddShape

LEMMA ShapesUnique ==
    \A v, w, op, h, a : KnownShape(v, op, h, a) /\ KnownShape(w, op, h, a) => v = w
<1> SUFFICES ASSUME NEW v, NEW w, NEW op, NEW h, NEW a, KnownShape(v, op, h, a),
                    KnownShape(w, op, h, a)
             PROVE  v = w
  OBVIOUS
<1>1. \A x : /\ FirstShape(x, op, h, a) => Pairs(op) # {}
             /\ NormShape(x, op, h, a) => op \in {"lnY", "lnXhat", "lnInvStd"} /\ Pairs(op) = {}
             /\ RowsShape(x, op, h, a) => op = "rows" /\ Pairs(op) = {}
             /\ DaShape(x, op, h, a) => op = "dA" /\ Pairs(op) = {}
             /\ AddShape(x, op, h, a) => op = "addRows" /\ Pairs(op) = {}
  BY PairsOps DEF FirstShape, NormShape, RowsShape, DaShape, AddShape
<1> QED BY <1>1, FirstUnique, NormUnique, RowsUnique, DaUnique, AddUnique DEF KnownShape

-----------------------------------------------------------------------------
(* Every equation has a known shape                                          *)

\* An equation is known when its value has the shape its operation gives it.
KnownEq(e) == KnownShape(e.value, e.key[1], e.key[2], e.key[3])
IsEq(e, v, op, h, first) == e.value = v /\ e.key[1] = op /\ e.key[2] = h /\ e.key[3][1] = first

\* An equation whose first argument is one tensor is known when its operation
\* pairs the two.
LEMMA KnownFirst ==
    \A e, n, m, op, l, h, t :
        /\ IsEq(e, Named(m, l, Slot(op, h), t), op, h, Tensor(n, l, t))
        /\ <<n, m>> \in Pairs(op)
        => KnownEq(e)
<1> SUFFICES ASSUME NEW e, NEW n, NEW m, NEW op, NEW l, NEW h, NEW t,
                    IsEq(e, Named(m, l, Slot(op, h), t), op, h, Tensor(n, l, t)),
                    <<n, m>> \in Pairs(op)
             PROVE  KnownEq(e)
  OBVIOUS
<1>1. PICK pr \in Pairs(op) : pr[1] = n /\ pr[2] = m
  <2>1. <<n, m>>[1] = n /\ <<n, m>>[2] = m
    OBVIOUS
  <2> QED BY <2>1
<1>2. FirstShape(e.value, op, h, e.key[3])
  BY <1>1 DEF FirstShape, IsEq
<1> QED BY <1>2 DEF KnownEq, KnownShape, IsEq

\* Each set of equations is known, equation by equation.
LEMMA KnownForwardEqs ==
    ASSUME NEW l \in Layers, NEW t, NEW e \in ForwardEqs(l, t)
    PROVE  KnownEq(e)
<1>1. CASE e = Eq("ln1_y", l, t, "lnY", <<Hidden(l, t), Weight("ln_1.w", l, t),
          Weight("ln_1.b", l, t)>>)
  <2>1. IsEq(e, Named("ln1_y", l, 0, t), "lnY", 0, Hidden(l, t))
    BY <1>1 DEF IsEq, Eq, Equation, GradientEq, Gradient
  <2>2. NormNames("lnY")[1] = "ln1_y"
    BY DEF NormNames
  <2>3. NormShape(e.value, e.key[1], e.key[2], e.key[3])
    BY <2>1, <2>2 DEF NormShape, IsEq
  <2> QED BY <2>3 DEF KnownEq, KnownShape
<1>2. CASE e = Eq("ln1_xhat", l, t, "lnXhat", <<Hidden(l, t)>>)
  <2>1. IsEq(e, Named("ln1_xhat", l, 0, t), "lnXhat", 0, Hidden(l, t))
    BY <1>2 DEF IsEq, Eq, Equation, GradientEq, Gradient
  <2>2. NormNames("lnXhat")[1] = "ln1_xhat"
    BY DEF NormNames
  <2>3. NormShape(e.value, e.key[1], e.key[2], e.key[3])
    BY <2>1, <2>2 DEF NormShape, IsEq
  <2> QED BY <2>3 DEF KnownEq, KnownShape
<1>3. CASE e = Eq("ln1_inv_std", l, t, "lnInvStd", <<Hidden(l, t)>>)
  <2>1. IsEq(e, Named("ln1_inv_std", l, 0, t), "lnInvStd", 0, Hidden(l, t))
    BY <1>3 DEF IsEq, Eq, Equation, GradientEq, Gradient
  <2>2. NormNames("lnInvStd")[1] = "ln1_inv_std"
    BY DEF NormNames
  <2>3. NormShape(e.value, e.key[1], e.key[2], e.key[3])
    BY <2>1, <2>2 DEF NormShape, IsEq
  <2> QED BY <2>3 DEF KnownEq, KnownShape
<1>4. CASE e = Eq("ln2_y", l, t, "lnY", <<HiddenMid(l, t), Weight("ln_2.w", l, t),
          Weight("ln_2.b", l, t)>>)
  <2>1. IsEq(e, Named("ln2_y", l, 0, t), "lnY", 0, HiddenMid(l, t))
    BY <1>4 DEF IsEq, Eq, Equation, GradientEq, Gradient
  <2>2. NormNames("lnY")[2] = "ln2_y"
    BY DEF NormNames
  <2>3. NormShape(e.value, e.key[1], e.key[2], e.key[3])
    BY <2>1, <2>2 DEF NormShape, IsEq
  <2> QED BY <2>3 DEF KnownEq, KnownShape
<1>5. CASE e = Eq("ln2_xhat", l, t, "lnXhat", <<HiddenMid(l, t)>>)
  <2>1. IsEq(e, Named("ln2_xhat", l, 0, t), "lnXhat", 0, HiddenMid(l, t))
    BY <1>5 DEF IsEq, Eq, Equation, GradientEq, Gradient
  <2>2. NormNames("lnXhat")[2] = "ln2_xhat"
    BY DEF NormNames
  <2>3. NormShape(e.value, e.key[1], e.key[2], e.key[3])
    BY <2>1, <2>2 DEF NormShape, IsEq
  <2> QED BY <2>3 DEF KnownEq, KnownShape
<1>6. CASE e = Eq("ln2_inv_std", l, t, "lnInvStd", <<HiddenMid(l, t)>>)
  <2>1. IsEq(e, Named("ln2_inv_std", l, 0, t), "lnInvStd", 0, HiddenMid(l, t))
    BY <1>6 DEF IsEq, Eq, Equation, GradientEq, Gradient
  <2>2. NormNames("lnInvStd")[2] = "ln2_inv_std"
    BY DEF NormNames
  <2>3. NormShape(e.value, e.key[1], e.key[2], e.key[3])
    BY <2>1, <2>2 DEF NormShape, IsEq
  <2> QED BY <2>3 DEF KnownEq, KnownShape
<1>7. CASE e = Eq("qkv", l, t, "linear", <<Tensor("ln1_y", l, t), Weight("c_attn.w", l, t),
          Weight("c_attn.b", l, t)>>)
  <2>1. IsEq(e, Named("qkv", l, 0, t), "linear", 0, Tensor("ln1_y", l, t))
    BY <1>7 DEF IsEq, Eq, Equation, GradientEq, Gradient
  <2>2. <<"ln1_y", "qkv">> \in Pairs("linear") /\ Slot("linear", 0) = 0
    BY DEF Pairs, Slot
  <2>3. IsEq(e, Named("qkv", l, Slot("linear", 0), t), "linear", 0, Tensor("ln1_y", l, t))
    BY <2>1, <2>2 DEF Gradient, Tokens
  <2> QED BY <2>2, <2>3, KnownFirst
<1>8. CASE e = Eq("P", l, t, "softmax", <<Tensor("qkv", l, t)>>)
  <2>1. IsEq(e, Named("P", l, 0, t), "softmax", 0, Tensor("qkv", l, t))
    BY <1>8 DEF IsEq, Eq, Equation, GradientEq, Gradient
  <2>2. <<"qkv", "P">> \in Pairs("softmax") /\ Slot("softmax", 0) = 0
    BY DEF Pairs, Slot
  <2>3. IsEq(e, Named("P", l, Slot("softmax", 0), t), "softmax", 0, Tensor("qkv", l, t))
    BY <2>1, <2>2 DEF Gradient, Tokens
  <2> QED BY <2>2, <2>3, KnownFirst
<1>9. CASE e = Eq("attn_out", l, t, "attend", <<Tensor("qkv", l, t)>>)
  <2>1. IsEq(e, Named("attn_out", l, 0, t), "attend", 0, Tensor("qkv", l, t))
    BY <1>9 DEF IsEq, Eq, Equation, GradientEq, Gradient
  <2>2. <<"qkv", "attn_out">> \in Pairs("attend") /\ Slot("attend", 0) = 0
    BY DEF Pairs, Slot
  <2>3. IsEq(e, Named("attn_out", l, Slot("attend", 0), t), "attend", 0, Tensor("qkv", l, t))
    BY <2>1, <2>2 DEF Gradient, Tokens
  <2> QED BY <2>2, <2>3, KnownFirst
<1>10. CASE e = Eq("attn_proj", l, t, "linear",
           <<Tensor("attn_out", l, t), Weight("attn.c_proj.w", l, t),
               Weight("attn.c_proj.b", l, t)>>)
  <2>1. IsEq(e, Named("attn_proj", l, 0, t), "linear", 0, Tensor("attn_out", l, t))
    BY <1>10 DEF IsEq, Eq, Equation, GradientEq, Gradient
  <2>2. <<"attn_out", "attn_proj">> \in Pairs("linear") /\ Slot("linear", 0) = 0
    BY DEF Pairs, Slot
  <2>3. IsEq(e, Named("attn_proj", l, Slot("linear", 0), t), "linear", 0,
                 Tensor("attn_out", l, t))
    BY <2>1, <2>2 DEF Gradient, Tokens
  <2> QED BY <2>2, <2>3, KnownFirst
<1>11. CASE e = Eq("mlp_pre", l, t, "linear", <<Tensor("ln2_y", l, t), Weight("c_fc.w", l, t),
           Weight("c_fc.b", l, t)>>)
  <2>1. IsEq(e, Named("mlp_pre", l, 0, t), "linear", 0, Tensor("ln2_y", l, t))
    BY <1>11 DEF IsEq, Eq, Equation, GradientEq, Gradient
  <2>2. <<"ln2_y", "mlp_pre">> \in Pairs("linear") /\ Slot("linear", 0) = 0
    BY DEF Pairs, Slot
  <2>3. IsEq(e, Named("mlp_pre", l, Slot("linear", 0), t), "linear", 0, Tensor("ln2_y", l, t))
    BY <2>1, <2>2 DEF Gradient, Tokens
  <2> QED BY <2>2, <2>3, KnownFirst
<1>12. CASE e = Eq("mlp_gelu", l, t, "gelu", <<Tensor("mlp_pre", l, t)>>)
  <2>1. IsEq(e, Named("mlp_gelu", l, 0, t), "gelu", 0, Tensor("mlp_pre", l, t))
    BY <1>12 DEF IsEq, Eq, Equation, GradientEq, Gradient
  <2>2. <<"mlp_pre", "mlp_gelu">> \in Pairs("gelu") /\ Slot("gelu", 0) = 0
    BY DEF Pairs, Slot
  <2>3. IsEq(e, Named("mlp_gelu", l, Slot("gelu", 0), t), "gelu", 0, Tensor("mlp_pre", l, t))
    BY <2>1, <2>2 DEF Gradient, Tokens
  <2> QED BY <2>2, <2>3, KnownFirst
<1>13. CASE e = Eq("mlp_out", l, t, "linear",
           <<Tensor("mlp_gelu", l, t), Weight("mlp.c_proj.w", l, t),
               Weight("mlp.c_proj.b", l, t)>>)
  <2>1. IsEq(e, Named("mlp_out", l, 0, t), "linear", 0, Tensor("mlp_gelu", l, t))
    BY <1>13 DEF IsEq, Eq, Equation, GradientEq, Gradient
  <2>2. <<"mlp_gelu", "mlp_out">> \in Pairs("linear") /\ Slot("linear", 0) = 0
    BY DEF Pairs, Slot
  <2>3. IsEq(e, Named("mlp_out", l, Slot("linear", 0), t), "linear", 0,
                 Tensor("mlp_gelu", l, t))
    BY <2>1, <2>2 DEF Gradient, Tokens
  <2> QED BY <2>2, <2>3, KnownFirst
<1> QED BY <1>1, <1>2, <1>3, <1>4, <1>5, <1>6, <1>7, <1>8, <1>9, <1>10, <1>11, <1>12, <1>13
    DEF ForwardEqs, LayerNormEqs

LEMMA KnownEmbedEqs ==
    ASSUME NEW t, NEW e \in EmbedEqs(t)
    PROVE  KnownEq(e)
<1>1. CASE e = Eq("embed", 0, t, "embed", <<Tokens(t), Weight("wte", 0, t),
          Weight("wpe", 0, t)>>)
  <2>1. IsEq(e, Named("embed", 0, 0, t), "embed", 0, Tokens(t))
    BY <1>1 DEF IsEq, Eq, Equation, GradientEq, Gradient
  <2>2. <<"tokens", "embed">> \in Pairs("embed") /\ Slot("embed", 0) = 0
    BY DEF Pairs, Slot
  <2>3. IsEq(e, Named("embed", 0, Slot("embed", 0), t), "embed", 0, Tensor("tokens", 0, t))
    BY <2>1, <2>2 DEF Gradient, Tokens
  <2> QED BY <2>2, <2>3, KnownFirst
<1> QED BY <1>1 DEF EmbedEqs

LEMMA KnownHeadEqs ==
    ASSUME NEW t, NEW e \in HeadEqs(t)
    PROVE  KnownEq(e)
<1>1. CASE e = Eq("ln_f_y", 0, t, "lnY", <<Hidden(NLayer, t), Weight("ln_f.w", 0, t),
          Weight("ln_f.b", 0, t)>>)
  <2>1. IsEq(e, Named("ln_f_y", 0, 0, t), "lnY", 0, Hidden(NLayer, t))
    BY <1>1 DEF IsEq, Eq, Equation, GradientEq, Gradient
  <2>2. NormNames("lnY")[3] = "ln_f_y"
    BY DEF NormNames
  <2>3. NormShape(e.value, e.key[1], e.key[2], e.key[3])
    BY <2>1, <2>2 DEF NormShape, IsEq
  <2> QED BY <2>3 DEF KnownEq, KnownShape
<1>2. CASE e = Eq("ln_f_xhat", 0, t, "lnXhat", <<Hidden(NLayer, t)>>)
  <2>1. IsEq(e, Named("ln_f_xhat", 0, 0, t), "lnXhat", 0, Hidden(NLayer, t))
    BY <1>2 DEF IsEq, Eq, Equation, GradientEq, Gradient
  <2>2. NormNames("lnXhat")[3] = "ln_f_xhat"
    BY DEF NormNames
  <2>3. NormShape(e.value, e.key[1], e.key[2], e.key[3])
    BY <2>1, <2>2 DEF NormShape, IsEq
  <2> QED BY <2>3 DEF KnownEq, KnownShape
<1>3. CASE e = Eq("ln_f_inv_std", 0, t, "lnInvStd", <<Hidden(NLayer, t)>>)
  <2>1. IsEq(e, Named("ln_f_inv_std", 0, 0, t), "lnInvStd", 0, Hidden(NLayer, t))
    BY <1>3 DEF IsEq, Eq, Equation, GradientEq, Gradient
  <2>2. NormNames("lnInvStd")[3] = "ln_f_inv_std"
    BY DEF NormNames
  <2>3. NormShape(e.value, e.key[1], e.key[2], e.key[3])
    BY <2>1, <2>2 DEF NormShape, IsEq
  <2> QED BY <2>3 DEF KnownEq, KnownShape
<1>4. CASE e = Eq("logits", 0, t, "lmHead", <<Tensor("ln_f_y", 0, t), Weight("wte", 0, t)>>)
  <2>1. IsEq(e, Named("logits", 0, 0, t), "lmHead", 0, Tensor("ln_f_y", 0, t))
    BY <1>4 DEF IsEq, Eq, Equation, GradientEq, Gradient
  <2>2. <<"ln_f_y", "logits">> \in Pairs("lmHead") /\ Slot("lmHead", 0) = 0
    BY DEF Pairs, Slot
  <2>3. IsEq(e, Named("logits", 0, Slot("lmHead", 0), t), "lmHead", 0, Tensor("ln_f_y", 0, t))
    BY <2>1, <2>2 DEF Gradient, Tokens
  <2> QED BY <2>2, <2>3, KnownFirst
<1>5. CASE e = Eq("loss", 0, t, "loss", <<Tensor("logits", 0, t), Tokens(t)>>)
  <2>1. IsEq(e, Named("loss", 0, 0, t), "loss", 0, Tensor("logits", 0, t))
    BY <1>5 DEF IsEq, Eq, Equation, GradientEq, Gradient
  <2>2. <<"logits", "loss">> \in Pairs("loss") /\ Slot("loss", 0) = 0
    BY DEF Pairs, Slot
  <2>3. IsEq(e, Named("loss", 0, Slot("loss", 0), t), "loss", 0, Tensor("logits", 0, t))
    BY <2>1, <2>2 DEF Gradient, Tokens
  <2> QED BY <2>2, <2>3, KnownFirst
<1>6. CASE e = Eq("dlogits", 0, t, "dlogits", <<Tensor("logits", 0, t), Tokens(t)>>)
  <2>1. IsEq(e, Named("dlogits", 0, 0, t), "dlogits", 0, Tensor("logits", 0, t))
    BY <1>6 DEF IsEq, Eq, Equation, GradientEq, Gradient
  <2>2. <<"logits", "dlogits">> \in Pairs("dlogits") /\ Slot("dlogits", 0) = 0
    BY DEF Pairs, Slot
  <2>3. IsEq(e, Named("dlogits", 0, Slot("dlogits", 0), t), "dlogits", 0,
                 Tensor("logits", 0, t))
    BY <2>1, <2>2 DEF Gradient, Tokens
  <2> QED BY <2>2, <2>3, KnownFirst
<1>7. CASE e = GradientEq("wte:head", 0, t, "column",
          <<Tensor("dlogits", 0, t), Tensor("ln_f_y", 0, t)>>)
  <2>1. IsEq(e, Gradient("wte:head", 0, t), "column", 0, Tensor("dlogits", 0, t))
    BY <1>7 DEF IsEq, Eq, Equation, GradientEq, Gradient
  <2>2. <<"dlogits", "wte:head">> \in Pairs("column") /\ Slot("column", 0) = -1
    BY DEF Pairs, Slot
  <2>3. IsEq(e, Named("wte:head", 0, Slot("column", 0), t), "column", 0,
                 Tensor("dlogits", 0, t))
    BY <2>1, <2>2 DEF Gradient, Tokens
  <2> QED BY <2>2, <2>3, KnownFirst
<1>8. CASE e = Eq("d_ln_f_y", 0, t, "row", <<Tensor("dlogits", 0, t), Weight("wte", 0, t)>>)
  <2>1. IsEq(e, Named("d_ln_f_y", 0, 0, t), "row", 0, Tensor("dlogits", 0, t))
    BY <1>8 DEF IsEq, Eq, Equation, GradientEq, Gradient
  <2>2. <<"dlogits", "d_ln_f_y">> \in Pairs("row") /\ Slot("row", 0) = 0
    BY DEF Pairs, Slot
  <2>3. IsEq(e, Named("d_ln_f_y", 0, Slot("row", 0), t), "row", 0, Tensor("dlogits", 0, t))
    BY <2>1, <2>2 DEF Gradient, Tokens
  <2> QED BY <2>2, <2>3, KnownFirst
<1>9. CASE e = Eq("d_ln_f", 0, t, "lnDx", <<Tensor("ln_f_xhat", 0, t), Weight("ln_f.w", 0, t),
          Tensor("d_ln_f_y", 0, t), Tensor("ln_f_inv_std", 0, t)>>)
  <2>1. IsEq(e, Named("d_ln_f", 0, 0, t), "lnDx", 0, Tensor("ln_f_xhat", 0, t))
    BY <1>9 DEF IsEq, Eq, Equation, GradientEq, Gradient
  <2>2. <<"ln_f_xhat", "d_ln_f">> \in Pairs("lnDx") /\ Slot("lnDx", 0) = 0
    BY DEF Pairs, Slot
  <2>3. IsEq(e, Named("d_ln_f", 0, Slot("lnDx", 0), t), "lnDx", 0, Tensor("ln_f_xhat", 0, t))
    BY <2>1, <2>2 DEF Gradient, Tokens
  <2> QED BY <2>2, <2>3, KnownFirst
<1>10. CASE e = GradientEq("ln_f.w", 0, t, "lnGamma", <<Tensor("ln_f_xhat", 0, t),
           Tensor("d_ln_f_y", 0, t)>>)
  <2>1. IsEq(e, Gradient("ln_f.w", 0, t), "lnGamma", 0, Tensor("ln_f_xhat", 0, t))
    BY <1>10 DEF IsEq, Eq, Equation, GradientEq, Gradient
  <2>2. <<"ln_f_xhat", "ln_f.w">> \in Pairs("lnGamma") /\ Slot("lnGamma", 0) = -1
    BY DEF Pairs, Slot
  <2>3. IsEq(e, Named("ln_f.w", 0, Slot("lnGamma", 0), t), "lnGamma", 0,
                 Tensor("ln_f_xhat", 0, t))
    BY <2>1, <2>2 DEF Gradient, Tokens
  <2> QED BY <2>2, <2>3, KnownFirst
<1>11. CASE e = GradientEq("ln_f.b", 0, t, "lnBeta", <<Tensor("d_ln_f_y", 0, t)>>)
  <2>1. IsEq(e, Gradient("ln_f.b", 0, t), "lnBeta", 0, Tensor("d_ln_f_y", 0, t))
    BY <1>11 DEF IsEq, Eq, Equation, GradientEq, Gradient
  <2>2. <<"d_ln_f_y", "ln_f.b">> \in Pairs("lnBeta") /\ Slot("lnBeta", 0) = -1
    BY DEF Pairs, Slot
  <2>3. IsEq(e, Named("ln_f.b", 0, Slot("lnBeta", 0), t), "lnBeta", 0, Tensor("d_ln_f_y", 0, t))
    BY <2>1, <2>2 DEF Gradient, Tokens
  <2> QED BY <2>2, <2>3, KnownFirst
<1> QED BY <1>1, <1>2, <1>3, <1>4, <1>5, <1>6, <1>7, <1>8, <1>9, <1>10, <1>11 DEF HeadEqs,
    LayerNormEqs

LEMMA KnownMlpBackEqs ==
    ASSUME NEW l \in Layers, NEW t, NEW e \in MlpBackEqs(l, t)
    PROVE  KnownEq(e)
<1>1. CASE e = GradientEq("mlp.c_proj.w", l, t, "dB",
          <<Tensor("mlp_gelu", l, t), DH(l + 1, t)>>)
  <2>1. IsEq(e, Gradient("mlp.c_proj.w", l, t), "dB", 0, Tensor("mlp_gelu", l, t))
    BY <1>1 DEF IsEq, Eq, Equation, GradientEq, Gradient
  <2>2. <<"mlp_gelu", "mlp.c_proj.w">> \in Pairs("dB") /\ Slot("dB", 0) = -1
    BY DEF Pairs, Slot
  <2>3. IsEq(e, Named("mlp.c_proj.w", l, Slot("dB", 0), t), "dB", 0, Tensor("mlp_gelu", l, t))
    BY <2>1, <2>2 DEF Gradient, Tokens
  <2> QED BY <2>2, <2>3, KnownFirst
<1>2. CASE e = GradientEq("mlp.c_proj.b", l, t, "rows", <<DH(l + 1, t)>>)
  <2>1. IsEq(e, Gradient("mlp.c_proj.b", l, t), "rows", 0, DH(l + 1, t))
    BY <1>2 DEF IsEq, Eq, Equation, GradientEq, Gradient
  <2>2. RowsShape(e.value, e.key[1], e.key[2], e.key[3])
    BY <2>1 DEF RowsShape, IsEq
  <2> QED BY <2>2 DEF KnownEq, KnownShape
<1>3. CASE e = Eq("d_mlp_gelu", l, t, "dA", <<Weight("mlp.c_proj.w", l, t), DH(l + 1, t)>>)
  <2>1. IsEq(e, Named("d_mlp_gelu", l, 0, t), "dA", 0, Weight("mlp.c_proj.w", l, t))
    BY <1>3 DEF IsEq, Eq, Equation, GradientEq, Gradient
  <2>2. e.key[3][2] = DH(l + 1, t)
    BY <1>3 DEF Eq, Equation
  <2>3. DaShape(e.value, e.key[1], e.key[2], e.key[3])
    BY <2>1, <2>2 DEF DaShape, IsEq
  <2> QED BY <2>3 DEF KnownEq, KnownShape
<1>4. CASE e = Eq("d_mlp_pre", l, t, "geluBwd", <<Tensor("d_mlp_gelu", l, t),
          Tensor("mlp_pre", l, t)>>)
  <2>1. IsEq(e, Named("d_mlp_pre", l, 0, t), "geluBwd", 0, Tensor("d_mlp_gelu", l, t))
    BY <1>4 DEF IsEq, Eq, Equation, GradientEq, Gradient
  <2>2. <<"d_mlp_gelu", "d_mlp_pre">> \in Pairs("geluBwd") /\ Slot("geluBwd", 0) = 0
    BY DEF Pairs, Slot
  <2>3. IsEq(e, Named("d_mlp_pre", l, Slot("geluBwd", 0), t), "geluBwd", 0,
                 Tensor("d_mlp_gelu", l, t))
    BY <2>1, <2>2 DEF Gradient, Tokens
  <2> QED BY <2>2, <2>3, KnownFirst
<1>5. CASE e = GradientEq("c_fc.w", l, t, "dB",
          <<Tensor("ln2_y", l, t), Tensor("d_mlp_pre", l, t)>>)
  <2>1. IsEq(e, Gradient("c_fc.w", l, t), "dB", 0, Tensor("ln2_y", l, t))
    BY <1>5 DEF IsEq, Eq, Equation, GradientEq, Gradient
  <2>2. <<"ln2_y", "c_fc.w">> \in Pairs("dB") /\ Slot("dB", 0) = -1
    BY DEF Pairs, Slot
  <2>3. IsEq(e, Named("c_fc.w", l, Slot("dB", 0), t), "dB", 0, Tensor("ln2_y", l, t))
    BY <2>1, <2>2 DEF Gradient, Tokens
  <2> QED BY <2>2, <2>3, KnownFirst
<1>6. CASE e = GradientEq("c_fc.b", l, t, "rows", <<Tensor("d_mlp_pre", l, t)>>)
  <2>1. IsEq(e, Gradient("c_fc.b", l, t), "rows", 0, Tensor("d_mlp_pre", l, t))
    BY <1>6 DEF IsEq, Eq, Equation, GradientEq, Gradient
  <2>2. RowsShape(e.value, e.key[1], e.key[2], e.key[3])
    BY <2>1 DEF RowsShape, IsEq
  <2> QED BY <2>2 DEF KnownEq, KnownShape
<1>7. CASE e = Eq("d_ln2_y", l, t, "dA", <<Weight("c_fc.w", l, t), Tensor("d_mlp_pre", l, t)>>)
  <2>1. IsEq(e, Named("d_ln2_y", l, 0, t), "dA", 0, Weight("c_fc.w", l, t))
    BY <1>7 DEF IsEq, Eq, Equation, GradientEq, Gradient
  <2>2. e.key[3][2] = Tensor("d_mlp_pre", l, t)
    BY <1>7 DEF Eq, Equation
  <2>3. DaShape(e.value, e.key[1], e.key[2], e.key[3])
    BY <2>1, <2>2 DEF DaShape, IsEq
  <2> QED BY <2>3 DEF KnownEq, KnownShape
<1>8. CASE e = Eq("d_ln2", l, t, "lnDx", <<Tensor("ln2_xhat", l, t), Weight("ln_2.w", l, t),
          Tensor("d_ln2_y", l, t), Tensor("ln2_inv_std", l, t)>>)
  <2>1. IsEq(e, Named("d_ln2", l, 0, t), "lnDx", 0, Tensor("ln2_xhat", l, t))
    BY <1>8 DEF IsEq, Eq, Equation, GradientEq, Gradient
  <2>2. <<"ln2_xhat", "d_ln2">> \in Pairs("lnDx") /\ Slot("lnDx", 0) = 0
    BY DEF Pairs, Slot
  <2>3. IsEq(e, Named("d_ln2", l, Slot("lnDx", 0), t), "lnDx", 0, Tensor("ln2_xhat", l, t))
    BY <2>1, <2>2 DEF Gradient, Tokens
  <2> QED BY <2>2, <2>3, KnownFirst
<1>9. CASE e = GradientEq("ln_2.w", l, t, "lnGamma",
          <<Tensor("ln2_xhat", l, t), Tensor("d_ln2_y", l, t)>>)
  <2>1. IsEq(e, Gradient("ln_2.w", l, t), "lnGamma", 0, Tensor("ln2_xhat", l, t))
    BY <1>9 DEF IsEq, Eq, Equation, GradientEq, Gradient
  <2>2. <<"ln2_xhat", "ln_2.w">> \in Pairs("lnGamma") /\ Slot("lnGamma", 0) = -1
    BY DEF Pairs, Slot
  <2>3. IsEq(e, Named("ln_2.w", l, Slot("lnGamma", 0), t), "lnGamma", 0,
                 Tensor("ln2_xhat", l, t))
    BY <2>1, <2>2 DEF Gradient, Tokens
  <2> QED BY <2>2, <2>3, KnownFirst
<1>10. CASE e = GradientEq("ln_2.b", l, t, "lnBeta", <<Tensor("d_ln2_y", l, t)>>)
  <2>1. IsEq(e, Gradient("ln_2.b", l, t), "lnBeta", 0, Tensor("d_ln2_y", l, t))
    BY <1>10 DEF IsEq, Eq, Equation, GradientEq, Gradient
  <2>2. <<"d_ln2_y", "ln_2.b">> \in Pairs("lnBeta") /\ Slot("lnBeta", 0) = -1
    BY DEF Pairs, Slot
  <2>3. IsEq(e, Named("ln_2.b", l, Slot("lnBeta", 0), t), "lnBeta", 0, Tensor("d_ln2_y", l, t))
    BY <2>1, <2>2 DEF Gradient, Tokens
  <2> QED BY <2>2, <2>3, KnownFirst
<1> QED BY <1>1, <1>2, <1>3, <1>4, <1>5, <1>6, <1>7, <1>8, <1>9, <1>10 DEF MlpBackEqs

LEMMA KnownHeadBackEqs ==
    ASSUME NEW l \in Layers, NEW h \in Heads, NEW t, NEW e \in HeadBackEqs(l, h, t)
    PROVE  KnownEq(e)
<1>1. CASE e = Equation("dV", l, h, t, "dV", <<Tensor("P", l, t), Tensor("d_attn_out", l, t)>>)
  <2>1. IsEq(e, Named("dV", l, h, t), "dV", h, Tensor("P", l, t))
    BY <1>1 DEF IsEq, Eq, Equation, GradientEq, Gradient
  <2>2. <<"P", "dV">> \in Pairs("dV") /\ Slot("dV", h) = h
    BY DEF Pairs, Slot
  <2>3. IsEq(e, Named("dV", l, Slot("dV", h), t), "dV", h, Tensor("P", l, t))
    BY <2>1, <2>2 DEF Gradient, Tokens
  <2> QED BY <2>2, <2>3, KnownFirst
<1>2. CASE e = Equation("dP", l, h, t, "dP", <<Tensor("d_attn_out", l, t),
          Tensor("qkv", l, t)>>)
  <2>1. IsEq(e, Named("dP", l, h, t), "dP", h, Tensor("d_attn_out", l, t))
    BY <1>2 DEF IsEq, Eq, Equation, GradientEq, Gradient
  <2>2. <<"d_attn_out", "dP">> \in Pairs("dP") /\ Slot("dP", h) = h
    BY DEF Pairs, Slot
  <2>3. IsEq(e, Named("dP", l, Slot("dP", h), t), "dP", h, Tensor("d_attn_out", l, t))
    BY <2>1, <2>2 DEF Gradient, Tokens
  <2> QED BY <2>2, <2>3, KnownFirst
<1>3. CASE e = Equation("dot", l, h, t, "dot",
          <<Tensor("P", l, t), Only(Named("dP", l, h, t))>>)
  <2>1. IsEq(e, Named("dot", l, h, t), "dot", h, Tensor("P", l, t))
    BY <1>3 DEF IsEq, Eq, Equation, GradientEq, Gradient
  <2>2. <<"P", "dot">> \in Pairs("dot") /\ Slot("dot", h) = h
    BY DEF Pairs, Slot
  <2>3. IsEq(e, Named("dot", l, Slot("dot", h), t), "dot", h, Tensor("P", l, t))
    BY <2>1, <2>2 DEF Gradient, Tokens
  <2> QED BY <2>2, <2>3, KnownFirst
<1>4. CASE e = Equation("dQ", l, h, t, "dQ", <<Tensor("P", l, t), Only(Named("dP", l, h, t)),
          Only(Named("dot", l, h, t)), Tensor("qkv", l, t)>>)
  <2>1. IsEq(e, Named("dQ", l, h, t), "dQ", h, Tensor("P", l, t))
    BY <1>4 DEF IsEq, Eq, Equation, GradientEq, Gradient
  <2>2. <<"P", "dQ">> \in Pairs("dQ") /\ Slot("dQ", h) = h
    BY DEF Pairs, Slot
  <2>3. IsEq(e, Named("dQ", l, Slot("dQ", h), t), "dQ", h, Tensor("P", l, t))
    BY <2>1, <2>2 DEF Gradient, Tokens
  <2> QED BY <2>2, <2>3, KnownFirst
<1>5. CASE e = Equation("dK", l, h, t, "dK", <<Tensor("P", l, t), Only(Named("dP", l, h, t)),
          Only(Named("dot", l, h, t)), Tensor("qkv", l, t)>>)
  <2>1. IsEq(e, Named("dK", l, h, t), "dK", h, Tensor("P", l, t))
    BY <1>5 DEF IsEq, Eq, Equation, GradientEq, Gradient
  <2>2. <<"P", "dK">> \in Pairs("dK") /\ Slot("dK", h) = h
    BY DEF Pairs, Slot
  <2>3. IsEq(e, Named("dK", l, Slot("dK", h), t), "dK", h, Tensor("P", l, t))
    BY <2>1, <2>2 DEF Gradient, Tokens
  <2> QED BY <2>2, <2>3, KnownFirst
<1> QED BY <1>1, <1>2, <1>3, <1>4, <1>5 DEF HeadBackEqs

LEMMA KnownAttnBackEqs ==
    ASSUME NEW l \in Layers, NEW t, NEW e \in AttnBackEqs(l, t),
           e \notin UNION {HeadBackEqs(l, h, t) : h \in Heads}
    PROVE  KnownEq(e)
<1>1. CASE e = GradientEq("attn.c_proj.w", l, t, "dB",
          <<Tensor("attn_out", l, t), DHMid(l, t)>>)
  <2>1. IsEq(e, Gradient("attn.c_proj.w", l, t), "dB", 0, Tensor("attn_out", l, t))
    BY <1>1 DEF IsEq, Eq, Equation, GradientEq, Gradient
  <2>2. <<"attn_out", "attn.c_proj.w">> \in Pairs("dB") /\ Slot("dB", 0) = -1
    BY DEF Pairs, Slot
  <2>3. IsEq(e, Named("attn.c_proj.w", l, Slot("dB", 0), t), "dB", 0, Tensor("attn_out", l, t))
    BY <2>1, <2>2 DEF Gradient, Tokens
  <2> QED BY <2>2, <2>3, KnownFirst
<1>2. CASE e = GradientEq("attn.c_proj.b", l, t, "rows", <<DHMid(l, t)>>)
  <2>1. IsEq(e, Gradient("attn.c_proj.b", l, t), "rows", 0, DHMid(l, t))
    BY <1>2 DEF IsEq, Eq, Equation, GradientEq, Gradient
  <2>2. RowsShape(e.value, e.key[1], e.key[2], e.key[3])
    BY <2>1 DEF RowsShape, IsEq
  <2> QED BY <2>2 DEF KnownEq, KnownShape
<1>3. CASE e = Eq("d_attn_out", l, t, "dA", <<Weight("attn.c_proj.w", l, t), DHMid(l, t)>>)
  <2>1. IsEq(e, Named("d_attn_out", l, 0, t), "dA", 0, Weight("attn.c_proj.w", l, t))
    BY <1>3 DEF IsEq, Eq, Equation, GradientEq, Gradient
  <2>2. e.key[3][2] = DHMid(l, t)
    BY <1>3 DEF Eq, Equation
  <2>3. DaShape(e.value, e.key[1], e.key[2], e.key[3])
    BY <2>1, <2>2 DEF DaShape, IsEq
  <2> QED BY <2>3 DEF KnownEq, KnownShape
<1>4. CASE e = GradientEq("c_attn.w", l, t, "dB", <<Tensor("ln1_y", l, t), DQkv(l, t)>>)
  <2>1. IsEq(e, Gradient("c_attn.w", l, t), "dB", 0, Tensor("ln1_y", l, t))
    BY <1>4 DEF IsEq, Eq, Equation, GradientEq, Gradient
  <2>2. <<"ln1_y", "c_attn.w">> \in Pairs("dB") /\ Slot("dB", 0) = -1
    BY DEF Pairs, Slot
  <2>3. IsEq(e, Named("c_attn.w", l, Slot("dB", 0), t), "dB", 0, Tensor("ln1_y", l, t))
    BY <2>1, <2>2 DEF Gradient, Tokens
  <2> QED BY <2>2, <2>3, KnownFirst
<1>5. CASE e = GradientEq("c_attn.b", l, t, "rows", <<DQkv(l, t)>>)
  <2>1. IsEq(e, Gradient("c_attn.b", l, t), "rows", 0, DQkv(l, t))
    BY <1>5 DEF IsEq, Eq, Equation, GradientEq, Gradient
  <2>2. RowsShape(e.value, e.key[1], e.key[2], e.key[3])
    BY <2>1 DEF RowsShape, IsEq
  <2> QED BY <2>2 DEF KnownEq, KnownShape
<1>6. CASE e = Eq("d_ln1_y", l, t, "dA", <<Weight("c_attn.w", l, t), DQkv(l, t)>>)
  <2>1. IsEq(e, Named("d_ln1_y", l, 0, t), "dA", 0, Weight("c_attn.w", l, t))
    BY <1>6 DEF IsEq, Eq, Equation, GradientEq, Gradient
  <2>2. e.key[3][2] = DQkv(l, t)
    BY <1>6 DEF Eq, Equation
  <2>3. DaShape(e.value, e.key[1], e.key[2], e.key[3])
    BY <2>1, <2>2 DEF DaShape, IsEq
  <2> QED BY <2>3 DEF KnownEq, KnownShape
<1>7. CASE e = Eq("d_ln1", l, t, "lnDx", <<Tensor("ln1_xhat", l, t), Weight("ln_1.w", l, t),
          Tensor("d_ln1_y", l, t), Tensor("ln1_inv_std", l, t)>>)
  <2>1. IsEq(e, Named("d_ln1", l, 0, t), "lnDx", 0, Tensor("ln1_xhat", l, t))
    BY <1>7 DEF IsEq, Eq, Equation, GradientEq, Gradient
  <2>2. <<"ln1_xhat", "d_ln1">> \in Pairs("lnDx") /\ Slot("lnDx", 0) = 0
    BY DEF Pairs, Slot
  <2>3. IsEq(e, Named("d_ln1", l, Slot("lnDx", 0), t), "lnDx", 0, Tensor("ln1_xhat", l, t))
    BY <2>1, <2>2 DEF Gradient, Tokens
  <2> QED BY <2>2, <2>3, KnownFirst
<1>8. CASE e = GradientEq("ln_1.w", l, t, "lnGamma",
          <<Tensor("ln1_xhat", l, t), Tensor("d_ln1_y", l, t)>>)
  <2>1. IsEq(e, Gradient("ln_1.w", l, t), "lnGamma", 0, Tensor("ln1_xhat", l, t))
    BY <1>8 DEF IsEq, Eq, Equation, GradientEq, Gradient
  <2>2. <<"ln1_xhat", "ln_1.w">> \in Pairs("lnGamma") /\ Slot("lnGamma", 0) = -1
    BY DEF Pairs, Slot
  <2>3. IsEq(e, Named("ln_1.w", l, Slot("lnGamma", 0), t), "lnGamma", 0,
                 Tensor("ln1_xhat", l, t))
    BY <2>1, <2>2 DEF Gradient, Tokens
  <2> QED BY <2>2, <2>3, KnownFirst
<1>9. CASE e = GradientEq("ln_1.b", l, t, "lnBeta", <<Tensor("d_ln1_y", l, t)>>)
  <2>1. IsEq(e, Gradient("ln_1.b", l, t), "lnBeta", 0, Tensor("d_ln1_y", l, t))
    BY <1>9 DEF IsEq, Eq, Equation, GradientEq, Gradient
  <2>2. <<"d_ln1_y", "ln_1.b">> \in Pairs("lnBeta") /\ Slot("lnBeta", 0) = -1
    BY DEF Pairs, Slot
  <2>3. IsEq(e, Named("ln_1.b", l, Slot("lnBeta", 0), t), "lnBeta", 0, Tensor("d_ln1_y", l, t))
    BY <2>1, <2>2 DEF Gradient, Tokens
  <2> QED BY <2>2, <2>3, KnownFirst
<1> QED BY <1>1, <1>2, <1>3, <1>4, <1>5, <1>6, <1>7, <1>8, <1>9 DEF AttnBackEqs

LEMMA KnownEmbedBackEqs ==
    ASSUME NEW t, NEW e \in EmbedBackEqs(t)
    PROVE  KnownEq(e)
<1>1. CASE e = GradientEq("wpe", 0, t, "addRows", <<DH(0, t)>>)
  <2>1. IsEq(e, Gradient("wpe", 0, t), "addRows", 0, DH(0, t))
    BY <1>1 DEF IsEq, Eq, Equation, GradientEq, Gradient
  <2>2. AddShape(e.value, e.key[1], e.key[2], e.key[3])
    BY <2>1 DEF AddShape, IsEq
  <2> QED BY <2>2 DEF KnownEq, KnownShape
<1>2. CASE e = GradientEq("wte:embed", 0, t, "scatter", <<Tokens(t), DH(0, t)>>)
  <2>1. IsEq(e, Gradient("wte:embed", 0, t), "scatter", 0, Tokens(t))
    BY <1>2 DEF IsEq, Eq, Equation, GradientEq, Gradient
  <2>2. <<"tokens", "wte:embed">> \in Pairs("scatter") /\ Slot("scatter", 0) = -1
    BY DEF Pairs, Slot
  <2>3. IsEq(e, Named("wte:embed", 0, Slot("scatter", 0), t), "scatter", 0,
                 Tensor("tokens", 0, t))
    BY <2>1, <2>2 DEF Gradient, Tokens
  <2> QED BY <2>2, <2>3, KnownFirst
<1> QED BY <1>1, <1>2 DEF EmbedBackEqs

\* So all of them are.
LEMMA EquationsKnown == \A e \in Equations : KnownEq(e)
<1> TAKE e \in Equations
<1>1. PICK t \in Passes :
         \/ e \in EmbedEqs(t) \/ e \in HeadEqs(t) \/ e \in EmbedBackEqs(t)
         \/ \E l \in Layers : e \in ForwardEqs(l, t) \/ e \in MlpBackEqs(l, t)
              \/ e \in AttnBackEqs(l, t)
  BY DEF Equations
<1>2. CASE e \in EmbedEqs(t) \/ e \in HeadEqs(t) \/ e \in EmbedBackEqs(t)
  BY <1>2, KnownEmbedEqs, KnownHeadEqs, KnownEmbedBackEqs
<1>3. ASSUME NEW l \in Layers, e \in ForwardEqs(l, t) \/ e \in MlpBackEqs(l, t)
      PROVE  KnownEq(e)
  BY <1>3, KnownForwardEqs, KnownMlpBackEqs
<1>4. ASSUME NEW l \in Layers, e \in AttnBackEqs(l, t)
      PROVE  KnownEq(e)
  <2>1. CASE e \in UNION {HeadBackEqs(l, h, t) : h \in Heads}
    BY <2>1, KnownHeadBackEqs
  <2> QED BY <1>4, <2>1, KnownAttnBackEqs
<1> QED BY <1>1, <1>2, <1>3, <1>4

\* So a name is that of the equation that is looked up.
LEMMA NameIs ==
    ASSUME NEW e \in Equations, NEW op, NEW h, NEW args, e.key = <<op, h, args>>
    PROVE  Apply(op, h, args) = Only(e.value)
<1>1. PICK f : f = CHOOSE g \in Equations : g.key = <<op, h, args>>
  OBVIOUS
<1>2. f \in Equations /\ f.key = <<op, h, args>>
  BY <1>1
<1>3. KnownShape(e.value, op, h, args) /\ KnownShape(f.value, op, h, args)
  BY <1>2, EquationsKnown DEF KnownEq
<1>4. f.value = e.value
  BY <1>3, ShapesUnique
<1>5. <<op, h, args>> \in {g.key : g \in Equations}
  OBVIOUS
<1>6. NameOf[<<op, h, args>>] = e.value /\ <<op, h, args>> \in DOMAIN NameOf
  BY <1>1, <1>4, <1>5 DEF NameOf
<1> QED BY <1>6 DEF Apply

\* The equations of each part of a pass are among those that are looked up.
LEMMA EquationSets ==
    ASSUME NEW t \in Passes
    PROVE  /\ EmbedEqs(t) \subseteq Equations /\ HeadEqs(t) \subseteq Equations
           /\ EmbedBackEqs(t) \subseteq Equations
           /\ \A l \in Layers : /\ ForwardEqs(l, t) \subseteq Equations /\ MlpBackEqs(l,
                                     t) \subseteq Equations
                                /\ AttnBackEqs(l, t) \subseteq Equations
                                /\ \A h \in Heads : HeadBackEqs(l, h, t) \subseteq Equations
BY DEF Equations, AttnBackEqs

-----------------------------------------------------------------------------
(* What the operations of a pass make of the contents they read              *)

\* One lemma per part of the pass: the operation applied to what the equation
\* reads is what the equation names.
LEMMA NamesForwardEqs ==
    ASSUME NEW l \in Layers, NEW t \in Passes
    PROVE  /\ Apply("lnY", 0, <<Hidden(l, t), Weight("ln_1.w", l, t), Weight("ln_1.b", l, t)>>)
                 = Tensor("ln1_y", l, t)
           /\ Apply("lnXhat", 0, <<Hidden(l, t)>>)
                 = Tensor("ln1_xhat", l, t)
           /\ Apply("lnInvStd", 0, <<Hidden(l, t)>>)
                 = Tensor("ln1_inv_std", l, t)
           /\ Apply("lnY", 0, <<HiddenMid(l, t), Weight("ln_2.w", l, t),
                Weight("ln_2.b", l, t)>>)
                 = Tensor("ln2_y", l, t)
           /\ Apply("lnXhat", 0, <<HiddenMid(l, t)>>)
                 = Tensor("ln2_xhat", l, t)
           /\ Apply("lnInvStd", 0, <<HiddenMid(l, t)>>)
                 = Tensor("ln2_inv_std", l, t)
           /\ Apply("linear", 0, <<Tensor("ln1_y", l, t), Weight("c_attn.w", l, t),
                Weight("c_attn.b", l, t)>>)
                 = Tensor("qkv", l, t)
           /\ Apply("softmax", 0, <<Tensor("qkv", l, t)>>)
                 = Tensor("P", l, t)
           /\ Apply("attend", 0, <<Tensor("qkv", l, t)>>)
                 = Tensor("attn_out", l, t)
           /\ Apply("linear", 0, <<Tensor("attn_out", l, t), Weight("attn.c_proj.w", l, t),
                Weight("attn.c_proj.b", l, t)>>)
                 = Tensor("attn_proj", l, t)
           /\ Apply("linear", 0, <<Tensor("ln2_y", l, t), Weight("c_fc.w", l, t),
                Weight("c_fc.b", l, t)>>)
                 = Tensor("mlp_pre", l, t)
           /\ Apply("gelu", 0, <<Tensor("mlp_pre", l, t)>>)
                 = Tensor("mlp_gelu", l, t)
           /\ Apply("linear", 0, <<Tensor("mlp_gelu", l, t), Weight("mlp.c_proj.w", l, t),
                Weight("mlp.c_proj.b", l, t)>>)
                 = Tensor("mlp_out", l, t)
<1>1. Apply("lnY", 0, <<Hidden(l, t), Weight("ln_1.w", l, t), Weight("ln_1.b", l, t)>>)
                = Tensor("ln1_y", l, t)
  <2> PICK e : e = Eq("ln1_y", l, t, "lnY", <<Hidden(l, t), Weight("ln_1.w", l, t),
          Weight("ln_1.b", l, t)>>)
    OBVIOUS
  <2>1. e \in ForwardEqs(l, t)
    BY DEF ForwardEqs, LayerNormEqs
  <2>2. e \in Equations
    BY <2>1, EquationSets
  <2>3. e.key = <<"lnY", 0, <<Hidden(l, t), Weight("ln_1.w", l, t), Weight("ln_1.b", l, t)>>>>
            /\ e.value = Named("ln1_y", l, 0, t)
    BY DEF Eq, Equation, GradientEq
  <2> QED BY <2>2, <2>3, NameIs DEF Tensor
<1>2. Apply("lnXhat", 0, <<Hidden(l, t)>>) = Tensor("ln1_xhat", l, t)
  <2> PICK e : e = Eq("ln1_xhat", l, t, "lnXhat", <<Hidden(l, t)>>)
    OBVIOUS
  <2>1. e \in ForwardEqs(l, t)
    BY DEF ForwardEqs, LayerNormEqs
  <2>2. e \in Equations
    BY <2>1, EquationSets
  <2>3. e.key = <<"lnXhat", 0, <<Hidden(l, t)>>>> /\ e.value = Named("ln1_xhat", l, 0, t)
    BY DEF Eq, Equation, GradientEq
  <2> QED BY <2>2, <2>3, NameIs DEF Tensor
<1>3. Apply("lnInvStd", 0, <<Hidden(l, t)>>) = Tensor("ln1_inv_std", l, t)
  <2> PICK e : e = Eq("ln1_inv_std", l, t, "lnInvStd", <<Hidden(l, t)>>)
    OBVIOUS
  <2>1. e \in ForwardEqs(l, t)
    BY DEF ForwardEqs, LayerNormEqs
  <2>2. e \in Equations
    BY <2>1, EquationSets
  <2>3. e.key = <<"lnInvStd", 0, <<Hidden(l, t)>>>> /\ e.value = Named("ln1_inv_std", l, 0, t)
    BY DEF Eq, Equation, GradientEq
  <2> QED BY <2>2, <2>3, NameIs DEF Tensor
<1>4. Apply("lnY", 0, <<HiddenMid(l, t), Weight("ln_2.w", l, t), Weight("ln_2.b", l, t)>>)
                = Tensor("ln2_y", l, t)
  <2> PICK e : e = Eq("ln2_y", l, t, "lnY", <<HiddenMid(l, t), Weight("ln_2.w", l, t),
          Weight("ln_2.b", l, t)>>)
    OBVIOUS
  <2>1. e \in ForwardEqs(l, t)
    BY DEF ForwardEqs, LayerNormEqs
  <2>2. e \in Equations
    BY <2>1, EquationSets
  <2>3. e.key = <<"lnY", 0, <<HiddenMid(l, t), Weight("ln_2.w", l, t),
            Weight("ln_2.b", l, t)>>>> /\ e.value = Named("ln2_y", l, 0, t)
    BY DEF Eq, Equation, GradientEq
  <2> QED BY <2>2, <2>3, NameIs DEF Tensor
<1>5. Apply("lnXhat", 0, <<HiddenMid(l, t)>>) = Tensor("ln2_xhat", l, t)
  <2> PICK e : e = Eq("ln2_xhat", l, t, "lnXhat", <<HiddenMid(l, t)>>)
    OBVIOUS
  <2>1. e \in ForwardEqs(l, t)
    BY DEF ForwardEqs, LayerNormEqs
  <2>2. e \in Equations
    BY <2>1, EquationSets
  <2>3. e.key = <<"lnXhat", 0, <<HiddenMid(l, t)>>>> /\ e.value = Named("ln2_xhat", l, 0, t)
    BY DEF Eq, Equation, GradientEq
  <2> QED BY <2>2, <2>3, NameIs DEF Tensor
<1>6. Apply("lnInvStd", 0, <<HiddenMid(l, t)>>) = Tensor("ln2_inv_std", l, t)
  <2> PICK e : e = Eq("ln2_inv_std", l, t, "lnInvStd", <<HiddenMid(l, t)>>)
    OBVIOUS
  <2>1. e \in ForwardEqs(l, t)
    BY DEF ForwardEqs, LayerNormEqs
  <2>2. e \in Equations
    BY <2>1, EquationSets
  <2>3. e.key = <<"lnInvStd", 0, <<HiddenMid(l, t)>>>> /\ e.value = Named("ln2_inv_std", l, 0,
            t)
    BY DEF Eq, Equation, GradientEq
  <2> QED BY <2>2, <2>3, NameIs DEF Tensor
<1>7. Apply("linear", 0, <<Tensor("ln1_y", l, t), Weight("c_attn.w", l, t),
                Weight("c_attn.b", l, t)>>) = Tensor("qkv", l, t)
  <2> PICK e : e = Eq("qkv", l, t, "linear", <<Tensor("ln1_y", l, t), Weight("c_attn.w", l, t),
          Weight("c_attn.b", l, t)>>)
    OBVIOUS
  <2>1. e \in ForwardEqs(l, t)
    BY DEF ForwardEqs, LayerNormEqs
  <2>2. e \in Equations
    BY <2>1, EquationSets
  <2>3. e.key = <<"linear", 0, <<Tensor("ln1_y", l, t), Weight("c_attn.w", l, t),
            Weight("c_attn.b", l, t)>>>> /\ e.value = Named("qkv", l, 0, t)
    BY DEF Eq, Equation, GradientEq
  <2> QED BY <2>2, <2>3, NameIs DEF Tensor
<1>8. Apply("softmax", 0, <<Tensor("qkv", l, t)>>) = Tensor("P", l, t)
  <2> PICK e : e = Eq("P", l, t, "softmax", <<Tensor("qkv", l, t)>>)
    OBVIOUS
  <2>1. e \in ForwardEqs(l, t)
    BY DEF ForwardEqs, LayerNormEqs
  <2>2. e \in Equations
    BY <2>1, EquationSets
  <2>3. e.key = <<"softmax", 0, <<Tensor("qkv", l, t)>>>> /\ e.value = Named("P", l, 0, t)
    BY DEF Eq, Equation, GradientEq
  <2> QED BY <2>2, <2>3, NameIs DEF Tensor
<1>9. Apply("attend", 0, <<Tensor("qkv", l, t)>>) = Tensor("attn_out", l, t)
  <2> PICK e : e = Eq("attn_out", l, t, "attend", <<Tensor("qkv", l, t)>>)
    OBVIOUS
  <2>1. e \in ForwardEqs(l, t)
    BY DEF ForwardEqs, LayerNormEqs
  <2>2. e \in Equations
    BY <2>1, EquationSets
  <2>3. e.key = <<"attend", 0, <<Tensor("qkv", l, t)>>>> /\ e.value = Named("attn_out", l, 0, t)
    BY DEF Eq, Equation, GradientEq
  <2> QED BY <2>2, <2>3, NameIs DEF Tensor
<1>10. Apply("linear", 0, <<Tensor("attn_out", l, t), Weight("attn.c_proj.w", l, t),
                 Weight("attn.c_proj.b", l, t)>>) = Tensor("attn_proj", l, t)
  <2> PICK e : e = Eq("attn_proj", l, t, "linear",
          <<Tensor("attn_out", l, t), Weight("attn.c_proj.w", l, t),
              Weight("attn.c_proj.b", l, t)>>)
    OBVIOUS
  <2>1. e \in ForwardEqs(l, t)
    BY DEF ForwardEqs, LayerNormEqs
  <2>2. e \in Equations
    BY <2>1, EquationSets
  <2>3. e.key = <<"linear", 0, <<Tensor("attn_out", l, t), Weight("attn.c_proj.w", l, t),
            Weight("attn.c_proj.b", l, t)>>>> /\ e.value = Named("attn_proj", l, 0, t)
    BY DEF Eq, Equation, GradientEq
  <2> QED BY <2>2, <2>3, NameIs DEF Tensor
<1>11. Apply("linear", 0, <<Tensor("ln2_y", l, t), Weight("c_fc.w", l, t),
                 Weight("c_fc.b", l, t)>>) = Tensor("mlp_pre", l, t)
  <2> PICK e : e = Eq("mlp_pre", l, t, "linear",
          <<Tensor("ln2_y", l, t), Weight("c_fc.w", l, t), Weight("c_fc.b", l, t)>>)
    OBVIOUS
  <2>1. e \in ForwardEqs(l, t)
    BY DEF ForwardEqs, LayerNormEqs
  <2>2. e \in Equations
    BY <2>1, EquationSets
  <2>3. e.key = <<"linear", 0, <<Tensor("ln2_y", l, t), Weight("c_fc.w", l, t),
            Weight("c_fc.b", l, t)>>>> /\ e.value = Named("mlp_pre", l, 0, t)
    BY DEF Eq, Equation, GradientEq
  <2> QED BY <2>2, <2>3, NameIs DEF Tensor
<1>12. Apply("gelu", 0, <<Tensor("mlp_pre", l, t)>>) = Tensor("mlp_gelu", l, t)
  <2> PICK e : e = Eq("mlp_gelu", l, t, "gelu", <<Tensor("mlp_pre", l, t)>>)
    OBVIOUS
  <2>1. e \in ForwardEqs(l, t)
    BY DEF ForwardEqs, LayerNormEqs
  <2>2. e \in Equations
    BY <2>1, EquationSets
  <2>3. e.key = <<"gelu", 0, <<Tensor("mlp_pre", l, t)>>>> /\ e.value = Named("mlp_gelu", l, 0,
            t)
    BY DEF Eq, Equation, GradientEq
  <2> QED BY <2>2, <2>3, NameIs DEF Tensor
<1>13. Apply("linear", 0, <<Tensor("mlp_gelu", l, t), Weight("mlp.c_proj.w", l, t),
                 Weight("mlp.c_proj.b", l, t)>>) = Tensor("mlp_out", l, t)
  <2> PICK e : e = Eq("mlp_out", l, t, "linear",
          <<Tensor("mlp_gelu", l, t), Weight("mlp.c_proj.w", l, t),
              Weight("mlp.c_proj.b", l, t)>>)
    OBVIOUS
  <2>1. e \in ForwardEqs(l, t)
    BY DEF ForwardEqs, LayerNormEqs
  <2>2. e \in Equations
    BY <2>1, EquationSets
  <2>3. e.key = <<"linear", 0, <<Tensor("mlp_gelu", l, t), Weight("mlp.c_proj.w", l, t),
            Weight("mlp.c_proj.b", l, t)>>>> /\ e.value = Named("mlp_out", l, 0, t)
    BY DEF Eq, Equation, GradientEq
  <2> QED BY <2>2, <2>3, NameIs DEF Tensor
<1> QED BY <1>1, <1>2, <1>3, <1>4, <1>5, <1>6, <1>7, <1>8, <1>9, <1>10, <1>11, <1>12, <1>13

LEMMA NamesEmbedEqs ==
    ASSUME NEW t \in Passes
    PROVE  /\ Apply("embed", 0, <<Tokens(t), Weight("wte", 0, t), Weight("wpe", 0, t)>>)
                 = Tensor("embed", 0, t)
<1>1. Apply("embed", 0, <<Tokens(t), Weight("wte", 0, t), Weight("wpe", 0, t)>>)
                = Tensor("embed", 0, t)
  <2> PICK e : e = Eq("embed", 0, t, "embed", <<Tokens(t), Weight("wte", 0, t),
          Weight("wpe", 0, t)>>)
    OBVIOUS
  <2>1. e \in EmbedEqs(t)
    BY DEF EmbedEqs
  <2>2. e \in Equations
    BY <2>1, EquationSets
  <2>3. e.key = <<"embed", 0, <<Tokens(t), Weight("wte", 0, t), Weight("wpe", 0, t)>>>>
            /\ e.value = Named("embed", 0, 0, t)
    BY DEF Eq, Equation, GradientEq
  <2> QED BY <2>2, <2>3, NameIs DEF Tensor
<1> QED BY <1>1

LEMMA NamesHeadEqs ==
    ASSUME NEW t \in Passes
    PROVE  /\ Apply("lnY", 0, <<Hidden(NLayer, t), Weight("ln_f.w", 0, t),
                Weight("ln_f.b", 0, t)>>)
                 = Tensor("ln_f_y", 0, t)
           /\ Apply("lnXhat", 0, <<Hidden(NLayer, t)>>)
                 = Tensor("ln_f_xhat", 0, t)
           /\ Apply("lnInvStd", 0, <<Hidden(NLayer, t)>>)
                 = Tensor("ln_f_inv_std", 0, t)
           /\ Apply("lmHead", 0, <<Tensor("ln_f_y", 0, t), Weight("wte", 0, t)>>)
                 = Tensor("logits", 0, t)
           /\ Apply("loss", 0, <<Tensor("logits", 0, t), Tokens(t)>>)
                 = Tensor("loss", 0, t)
           /\ Apply("dlogits", 0, <<Tensor("logits", 0, t), Tokens(t)>>)
                 = Tensor("dlogits", 0, t)
           /\ Apply("column", 0, <<Tensor("dlogits", 0, t), Tensor("ln_f_y", 0, t)>>)
                 = Only(Gradient("wte:head", 0, t))
           /\ Apply("row", 0, <<Tensor("dlogits", 0, t), Weight("wte", 0, t)>>)
                 = Tensor("d_ln_f_y", 0, t)
           /\ Apply("lnDx", 0, <<Tensor("ln_f_xhat", 0, t), Weight("ln_f.w", 0, t),
                Tensor("d_ln_f_y", 0, t), Tensor("ln_f_inv_std", 0, t)>>)
                 = Tensor("d_ln_f", 0, t)
           /\ Apply("lnGamma", 0, <<Tensor("ln_f_xhat", 0, t), Tensor("d_ln_f_y", 0, t)>>)
                 = Only(Gradient("ln_f.w", 0, t))
           /\ Apply("lnBeta", 0, <<Tensor("d_ln_f_y", 0, t)>>)
                 = Only(Gradient("ln_f.b", 0, t))
<1>1. Apply("lnY", 0, <<Hidden(NLayer, t), Weight("ln_f.w", 0, t), Weight("ln_f.b", 0, t)>>)
                = Tensor("ln_f_y", 0, t)
  <2> PICK e : e = Eq("ln_f_y", 0, t, "lnY", <<Hidden(NLayer, t), Weight("ln_f.w", 0, t),
          Weight("ln_f.b", 0, t)>>)
    OBVIOUS
  <2>1. e \in HeadEqs(t)
    BY DEF HeadEqs, LayerNormEqs
  <2>2. e \in Equations
    BY <2>1, EquationSets
  <2>3. e.key = <<"lnY", 0, <<Hidden(NLayer, t), Weight("ln_f.w", 0, t),
            Weight("ln_f.b", 0, t)>>>> /\ e.value = Named("ln_f_y", 0, 0, t)
    BY DEF Eq, Equation, GradientEq
  <2> QED BY <2>2, <2>3, NameIs DEF Tensor
<1>2. Apply("lnXhat", 0, <<Hidden(NLayer, t)>>) = Tensor("ln_f_xhat", 0, t)
  <2> PICK e : e = Eq("ln_f_xhat", 0, t, "lnXhat", <<Hidden(NLayer, t)>>)
    OBVIOUS
  <2>1. e \in HeadEqs(t)
    BY DEF HeadEqs, LayerNormEqs
  <2>2. e \in Equations
    BY <2>1, EquationSets
  <2>3. e.key = <<"lnXhat", 0, <<Hidden(NLayer, t)>>>> /\ e.value = Named("ln_f_xhat", 0, 0, t)
    BY DEF Eq, Equation, GradientEq
  <2> QED BY <2>2, <2>3, NameIs DEF Tensor
<1>3. Apply("lnInvStd", 0, <<Hidden(NLayer, t)>>) = Tensor("ln_f_inv_std", 0, t)
  <2> PICK e : e = Eq("ln_f_inv_std", 0, t, "lnInvStd", <<Hidden(NLayer, t)>>)
    OBVIOUS
  <2>1. e \in HeadEqs(t)
    BY DEF HeadEqs, LayerNormEqs
  <2>2. e \in Equations
    BY <2>1, EquationSets
  <2>3. e.key = <<"lnInvStd", 0, <<Hidden(NLayer, t)>>>> /\ e.value = Named("ln_f_inv_std", 0,
            0, t)
    BY DEF Eq, Equation, GradientEq
  <2> QED BY <2>2, <2>3, NameIs DEF Tensor
<1>4. Apply("lmHead", 0, <<Tensor("ln_f_y", 0, t), Weight("wte", 0, t)>>) = Tensor("logits", 0,
                t)
  <2> PICK e : e = Eq("logits", 0, t, "lmHead", <<Tensor("ln_f_y", 0, t), Weight("wte", 0, t)>>)
    OBVIOUS
  <2>1. e \in HeadEqs(t)
    BY DEF HeadEqs, LayerNormEqs
  <2>2. e \in Equations
    BY <2>1, EquationSets
  <2>3. e.key = <<"lmHead", 0, <<Tensor("ln_f_y", 0, t), Weight("wte", 0, t)>>>>
            /\ e.value = Named("logits", 0, 0, t)
    BY DEF Eq, Equation, GradientEq
  <2> QED BY <2>2, <2>3, NameIs DEF Tensor
<1>5. Apply("loss", 0, <<Tensor("logits", 0, t), Tokens(t)>>) = Tensor("loss", 0, t)
  <2> PICK e : e = Eq("loss", 0, t, "loss", <<Tensor("logits", 0, t), Tokens(t)>>)
    OBVIOUS
  <2>1. e \in HeadEqs(t)
    BY DEF HeadEqs, LayerNormEqs
  <2>2. e \in Equations
    BY <2>1, EquationSets
  <2>3. e.key = <<"loss", 0, <<Tensor("logits", 0, t), Tokens(t)>>>> /\ e.value = Named("loss",
            0, 0, t)
    BY DEF Eq, Equation, GradientEq
  <2> QED BY <2>2, <2>3, NameIs DEF Tensor
<1>6. Apply("dlogits", 0, <<Tensor("logits", 0, t), Tokens(t)>>) = Tensor("dlogits", 0, t)
  <2> PICK e : e = Eq("dlogits", 0, t, "dlogits", <<Tensor("logits", 0, t), Tokens(t)>>)
    OBVIOUS
  <2>1. e \in HeadEqs(t)
    BY DEF HeadEqs, LayerNormEqs
  <2>2. e \in Equations
    BY <2>1, EquationSets
  <2>3. e.key = <<"dlogits", 0, <<Tensor("logits", 0, t), Tokens(t)>>>>
            /\ e.value = Named("dlogits", 0, 0, t)
    BY DEF Eq, Equation, GradientEq
  <2> QED BY <2>2, <2>3, NameIs DEF Tensor
<1>7. Apply("column", 0, <<Tensor("dlogits", 0, t), Tensor("ln_f_y", 0, t)>>)
                = Only(Gradient("wte:head", 0, t))
  <2> PICK e : e = GradientEq("wte:head", 0, t, "column",
          <<Tensor("dlogits", 0, t), Tensor("ln_f_y", 0, t)>>)
    OBVIOUS
  <2>1. e \in HeadEqs(t)
    BY DEF HeadEqs, LayerNormEqs
  <2>2. e \in Equations
    BY <2>1, EquationSets
  <2>3. e.key = <<"column", 0, <<Tensor("dlogits", 0, t), Tensor("ln_f_y", 0, t)>>>>
            /\ e.value = Gradient("wte:head", 0, t)
    BY DEF Eq, Equation, GradientEq
  <2> QED BY <2>2, <2>3, NameIs
<1>8. Apply("row", 0, <<Tensor("dlogits", 0, t), Weight("wte", 0, t)>>) = Tensor("d_ln_f_y", 0,
                t)
  <2> PICK e : e = Eq("d_ln_f_y", 0, t, "row", <<Tensor("dlogits", 0, t), Weight("wte", 0, t)>>)
    OBVIOUS
  <2>1. e \in HeadEqs(t)
    BY DEF HeadEqs, LayerNormEqs
  <2>2. e \in Equations
    BY <2>1, EquationSets
  <2>3. e.key = <<"row", 0, <<Tensor("dlogits", 0, t), Weight("wte", 0, t)>>>>
            /\ e.value = Named("d_ln_f_y", 0, 0, t)
    BY DEF Eq, Equation, GradientEq
  <2> QED BY <2>2, <2>3, NameIs DEF Tensor
<1>9. Apply("lnDx", 0, <<Tensor("ln_f_xhat", 0, t), Weight("ln_f.w", 0, t),
                Tensor("d_ln_f_y", 0, t), Tensor("ln_f_inv_std", 0, t)>>) = Tensor("d_ln_f", 0,
                           t)
  <2> PICK e : e = Eq("d_ln_f", 0, t, "lnDx", <<Tensor("ln_f_xhat", 0, t),
          Weight("ln_f.w", 0, t), Tensor("d_ln_f_y", 0, t), Tensor("ln_f_inv_std", 0, t)>>)
    OBVIOUS
  <2>1. e \in HeadEqs(t)
    BY DEF HeadEqs, LayerNormEqs
  <2>2. e \in Equations
    BY <2>1, EquationSets
  <2>3. e.key = <<"lnDx", 0, <<Tensor("ln_f_xhat", 0, t), Weight("ln_f.w", 0, t),
            Tensor("d_ln_f_y", 0, t), Tensor("ln_f_inv_std", 0, t)>>>>
                       /\ e.value = Named("d_ln_f", 0, 0, t)
    BY DEF Eq, Equation, GradientEq
  <2> QED BY <2>2, <2>3, NameIs DEF Tensor
<1>10. Apply("lnGamma", 0, <<Tensor("ln_f_xhat", 0, t), Tensor("d_ln_f_y", 0, t)>>)
                 = Only(Gradient("ln_f.w", 0, t))
  <2> PICK e : e = GradientEq("ln_f.w", 0, t, "lnGamma", <<Tensor("ln_f_xhat", 0, t),
          Tensor("d_ln_f_y", 0, t)>>)
    OBVIOUS
  <2>1. e \in HeadEqs(t)
    BY DEF HeadEqs, LayerNormEqs
  <2>2. e \in Equations
    BY <2>1, EquationSets
  <2>3. e.key = <<"lnGamma", 0, <<Tensor("ln_f_xhat", 0, t), Tensor("d_ln_f_y", 0, t)>>>>
            /\ e.value = Gradient("ln_f.w", 0, t)
    BY DEF Eq, Equation, GradientEq
  <2> QED BY <2>2, <2>3, NameIs
<1>11. Apply("lnBeta", 0, <<Tensor("d_ln_f_y", 0, t)>>) = Only(Gradient("ln_f.b", 0, t))
  <2> PICK e : e = GradientEq("ln_f.b", 0, t, "lnBeta", <<Tensor("d_ln_f_y", 0, t)>>)
    OBVIOUS
  <2>1. e \in HeadEqs(t)
    BY DEF HeadEqs, LayerNormEqs
  <2>2. e \in Equations
    BY <2>1, EquationSets
  <2>3. e.key = <<"lnBeta", 0, <<Tensor("d_ln_f_y", 0, t)>>>> /\ e.value = Gradient("ln_f.b",
            0, t)
    BY DEF Eq, Equation, GradientEq
  <2> QED BY <2>2, <2>3, NameIs
<1> QED BY <1>1, <1>2, <1>3, <1>4, <1>5, <1>6, <1>7, <1>8, <1>9, <1>10, <1>11

LEMMA NamesMlpBackEqs ==
    ASSUME NEW l \in Layers, NEW t \in Passes
    PROVE  /\ Apply("dB", 0, <<Tensor("mlp_gelu", l, t), DH(l + 1, t)>>)
                 = Only(Gradient("mlp.c_proj.w", l, t))
           /\ Apply("rows", 0, <<DH(l + 1, t)>>)
                 = Only(Gradient("mlp.c_proj.b", l, t))
           /\ Apply("dA", 0, <<Weight("mlp.c_proj.w", l, t), DH(l + 1, t)>>)
                 = Tensor("d_mlp_gelu", l, t)
           /\ Apply("geluBwd", 0, <<Tensor("d_mlp_gelu", l, t), Tensor("mlp_pre", l, t)>>)
                 = Tensor("d_mlp_pre", l, t)
           /\ Apply("dB", 0, <<Tensor("ln2_y", l, t), Tensor("d_mlp_pre", l, t)>>)
                 = Only(Gradient("c_fc.w", l, t))
           /\ Apply("rows", 0, <<Tensor("d_mlp_pre", l, t)>>)
                 = Only(Gradient("c_fc.b", l, t))
           /\ Apply("dA", 0, <<Weight("c_fc.w", l, t), Tensor("d_mlp_pre", l, t)>>)
                 = Tensor("d_ln2_y", l, t)
           /\ Apply("lnDx", 0, <<Tensor("ln2_xhat", l, t), Weight("ln_2.w", l, t),
                Tensor("d_ln2_y", l, t), Tensor("ln2_inv_std", l, t)>>)
                 = Tensor("d_ln2", l, t)
           /\ Apply("lnGamma", 0, <<Tensor("ln2_xhat", l, t), Tensor("d_ln2_y", l, t)>>)
                 = Only(Gradient("ln_2.w", l, t))
           /\ Apply("lnBeta", 0, <<Tensor("d_ln2_y", l, t)>>)
                 = Only(Gradient("ln_2.b", l, t))
<1>1. Apply("dB", 0, <<Tensor("mlp_gelu", l, t), DH(l + 1, t)>>)
                = Only(Gradient("mlp.c_proj.w", l, t))
  <2> PICK e : e = GradientEq("mlp.c_proj.w", l, t, "dB",
          <<Tensor("mlp_gelu", l, t), DH(l + 1, t)>>)
    OBVIOUS
  <2>1. e \in MlpBackEqs(l, t)
    BY DEF MlpBackEqs
  <2>2. e \in Equations
    BY <2>1, EquationSets
  <2>3. e.key = <<"dB", 0, <<Tensor("mlp_gelu", l, t), DH(l + 1, t)>>>>
            /\ e.value = Gradient("mlp.c_proj.w", l, t)
    BY DEF Eq, Equation, GradientEq
  <2> QED BY <2>2, <2>3, NameIs
<1>2. Apply("rows", 0, <<DH(l + 1, t)>>) = Only(Gradient("mlp.c_proj.b", l, t))
  <2> PICK e : e = GradientEq("mlp.c_proj.b", l, t, "rows", <<DH(l + 1, t)>>)
    OBVIOUS
  <2>1. e \in MlpBackEqs(l, t)
    BY DEF MlpBackEqs
  <2>2. e \in Equations
    BY <2>1, EquationSets
  <2>3. e.key = <<"rows", 0, <<DH(l + 1, t)>>>> /\ e.value = Gradient("mlp.c_proj.b", l, t)
    BY DEF Eq, Equation, GradientEq
  <2> QED BY <2>2, <2>3, NameIs
<1>3. Apply("dA", 0, <<Weight("mlp.c_proj.w", l, t), DH(l + 1, t)>>) = Tensor("d_mlp_gelu", l,
                t)
  <2> PICK e : e = Eq("d_mlp_gelu", l, t, "dA", <<Weight("mlp.c_proj.w", l, t), DH(l + 1, t)>>)
    OBVIOUS
  <2>1. e \in MlpBackEqs(l, t)
    BY DEF MlpBackEqs
  <2>2. e \in Equations
    BY <2>1, EquationSets
  <2>3. e.key = <<"dA", 0, <<Weight("mlp.c_proj.w", l, t), DH(l + 1, t)>>>>
            /\ e.value = Named("d_mlp_gelu", l, 0, t)
    BY DEF Eq, Equation, GradientEq
  <2> QED BY <2>2, <2>3, NameIs DEF Tensor
<1>4. Apply("geluBwd", 0, <<Tensor("d_mlp_gelu", l, t), Tensor("mlp_pre", l, t)>>)
                = Tensor("d_mlp_pre", l, t)
  <2> PICK e : e = Eq("d_mlp_pre", l, t, "geluBwd", <<Tensor("d_mlp_gelu", l, t),
          Tensor("mlp_pre", l, t)>>)
    OBVIOUS
  <2>1. e \in MlpBackEqs(l, t)
    BY DEF MlpBackEqs
  <2>2. e \in Equations
    BY <2>1, EquationSets
  <2>3. e.key = <<"geluBwd", 0, <<Tensor("d_mlp_gelu", l, t), Tensor("mlp_pre", l, t)>>>>
            /\ e.value = Named("d_mlp_pre", l, 0, t)
    BY DEF Eq, Equation, GradientEq
  <2> QED BY <2>2, <2>3, NameIs DEF Tensor
<1>5. Apply("dB", 0, <<Tensor("ln2_y", l, t), Tensor("d_mlp_pre", l, t)>>)
                = Only(Gradient("c_fc.w", l, t))
  <2> PICK e : e = GradientEq("c_fc.w", l, t, "dB",
          <<Tensor("ln2_y", l, t), Tensor("d_mlp_pre", l, t)>>)
    OBVIOUS
  <2>1. e \in MlpBackEqs(l, t)
    BY DEF MlpBackEqs
  <2>2. e \in Equations
    BY <2>1, EquationSets
  <2>3. e.key = <<"dB", 0, <<Tensor("ln2_y", l, t), Tensor("d_mlp_pre", l, t)>>>>
            /\ e.value = Gradient("c_fc.w", l, t)
    BY DEF Eq, Equation, GradientEq
  <2> QED BY <2>2, <2>3, NameIs
<1>6. Apply("rows", 0, <<Tensor("d_mlp_pre", l, t)>>) = Only(Gradient("c_fc.b", l, t))
  <2> PICK e : e = GradientEq("c_fc.b", l, t, "rows", <<Tensor("d_mlp_pre", l, t)>>)
    OBVIOUS
  <2>1. e \in MlpBackEqs(l, t)
    BY DEF MlpBackEqs
  <2>2. e \in Equations
    BY <2>1, EquationSets
  <2>3. e.key = <<"rows", 0, <<Tensor("d_mlp_pre", l, t)>>>> /\ e.value = Gradient("c_fc.b", l,
            t)
    BY DEF Eq, Equation, GradientEq
  <2> QED BY <2>2, <2>3, NameIs
<1>7. Apply("dA", 0, <<Weight("c_fc.w", l, t), Tensor("d_mlp_pre", l, t)>>) = Tensor("d_ln2_y",
                l, t)
  <2> PICK e : e = Eq("d_ln2_y", l, t, "dA",
          <<Weight("c_fc.w", l, t), Tensor("d_mlp_pre", l, t)>>)
    OBVIOUS
  <2>1. e \in MlpBackEqs(l, t)
    BY DEF MlpBackEqs
  <2>2. e \in Equations
    BY <2>1, EquationSets
  <2>3. e.key = <<"dA", 0, <<Weight("c_fc.w", l, t), Tensor("d_mlp_pre", l, t)>>>>
            /\ e.value = Named("d_ln2_y", l, 0, t)
    BY DEF Eq, Equation, GradientEq
  <2> QED BY <2>2, <2>3, NameIs DEF Tensor
<1>8. Apply("lnDx", 0, <<Tensor("ln2_xhat", l, t), Weight("ln_2.w", l, t),
                Tensor("d_ln2_y", l, t), Tensor("ln2_inv_std", l, t)>>) = Tensor("d_ln2", l, t)
  <2> PICK e : e = Eq("d_ln2", l, t, "lnDx",
          <<Tensor("ln2_xhat", l, t), Weight("ln_2.w", l, t), Tensor("d_ln2_y", l, t),
              Tensor("ln2_inv_std", l, t)>>)
    OBVIOUS
  <2>1. e \in MlpBackEqs(l, t)
    BY DEF MlpBackEqs
  <2>2. e \in Equations
    BY <2>1, EquationSets
  <2>3. e.key = <<"lnDx", 0, <<Tensor("ln2_xhat", l, t), Weight("ln_2.w", l, t),
            Tensor("d_ln2_y", l, t), Tensor("ln2_inv_std", l, t)>>>>
                       /\ e.value = Named("d_ln2", l, 0, t)
    BY DEF Eq, Equation, GradientEq
  <2> QED BY <2>2, <2>3, NameIs DEF Tensor
<1>9. Apply("lnGamma", 0, <<Tensor("ln2_xhat", l, t), Tensor("d_ln2_y", l, t)>>)
                = Only(Gradient("ln_2.w", l, t))
  <2> PICK e : e = GradientEq("ln_2.w", l, t, "lnGamma",
          <<Tensor("ln2_xhat", l, t), Tensor("d_ln2_y", l, t)>>)
    OBVIOUS
  <2>1. e \in MlpBackEqs(l, t)
    BY DEF MlpBackEqs
  <2>2. e \in Equations
    BY <2>1, EquationSets
  <2>3. e.key = <<"lnGamma", 0, <<Tensor("ln2_xhat", l, t), Tensor("d_ln2_y", l, t)>>>>
            /\ e.value = Gradient("ln_2.w", l, t)
    BY DEF Eq, Equation, GradientEq
  <2> QED BY <2>2, <2>3, NameIs
<1>10. Apply("lnBeta", 0, <<Tensor("d_ln2_y", l, t)>>) = Only(Gradient("ln_2.b", l, t))
  <2> PICK e : e = GradientEq("ln_2.b", l, t, "lnBeta", <<Tensor("d_ln2_y", l, t)>>)
    OBVIOUS
  <2>1. e \in MlpBackEqs(l, t)
    BY DEF MlpBackEqs
  <2>2. e \in Equations
    BY <2>1, EquationSets
  <2>3. e.key = <<"lnBeta", 0, <<Tensor("d_ln2_y", l, t)>>>> /\ e.value = Gradient("ln_2.b", l,
            t)
    BY DEF Eq, Equation, GradientEq
  <2> QED BY <2>2, <2>3, NameIs
<1> QED BY <1>1, <1>2, <1>3, <1>4, <1>5, <1>6, <1>7, <1>8, <1>9, <1>10

LEMMA NamesHeadBackEqs ==
    ASSUME NEW l \in Layers, NEW h \in Heads, NEW t \in Passes
    PROVE  /\ Apply("dV", h, <<Tensor("P", l, t), Tensor("d_attn_out", l, t)>>)
                 = Only(Named("dV", l, h, t))
           /\ Apply("dP", h, <<Tensor("d_attn_out", l, t), Tensor("qkv", l, t)>>)
                 = Only(Named("dP", l, h, t))
           /\ Apply("dot", h, <<Tensor("P", l, t), Only(Named("dP", l, h, t))>>)
                 = Only(Named("dot", l, h, t))
           /\ Apply("dQ", h, <<Tensor("P", l, t), Only(Named("dP", l, h, t)),
                Only(Named("dot", l, h, t)), Tensor("qkv", l, t)>>)
                 = Only(Named("dQ", l, h, t))
           /\ Apply("dK", h, <<Tensor("P", l, t), Only(Named("dP", l, h, t)),
                Only(Named("dot", l, h, t)), Tensor("qkv", l, t)>>)
                 = Only(Named("dK", l, h, t))
<1>1. Apply("dV", h, <<Tensor("P", l, t), Tensor("d_attn_out", l, t)>>)
                = Only(Named("dV", l, h, t))
  <2> PICK e : e = Equation("dV", l, h, t, "dV",
          <<Tensor("P", l, t), Tensor("d_attn_out", l, t)>>)
    OBVIOUS
  <2>1. e \in HeadBackEqs(l, h, t)
    BY DEF HeadBackEqs
  <2>2. e \in Equations
    BY <2>1, EquationSets
  <2>3. e.key = <<"dV", h, <<Tensor("P", l, t), Tensor("d_attn_out", l, t)>>>>
            /\ e.value = Named("dV", l, h, t)
    BY DEF Eq, Equation, GradientEq
  <2> QED BY <2>2, <2>3, NameIs
<1>2. Apply("dP", h, <<Tensor("d_attn_out", l, t), Tensor("qkv", l, t)>>)
                = Only(Named("dP", l, h, t))
  <2> PICK e : e = Equation("dP", l, h, t, "dP", <<Tensor("d_attn_out", l, t),
          Tensor("qkv", l, t)>>)
    OBVIOUS
  <2>1. e \in HeadBackEqs(l, h, t)
    BY DEF HeadBackEqs
  <2>2. e \in Equations
    BY <2>1, EquationSets
  <2>3. e.key = <<"dP", h, <<Tensor("d_attn_out", l, t), Tensor("qkv", l, t)>>>>
            /\ e.value = Named("dP", l, h, t)
    BY DEF Eq, Equation, GradientEq
  <2> QED BY <2>2, <2>3, NameIs
<1>3. Apply("dot", h, <<Tensor("P", l, t), Only(Named("dP", l, h, t))>>)
                = Only(Named("dot", l, h, t))
  <2> PICK e : e = Equation("dot", l, h, t, "dot",
          <<Tensor("P", l, t), Only(Named("dP", l, h, t))>>)
    OBVIOUS
  <2>1. e \in HeadBackEqs(l, h, t)
    BY DEF HeadBackEqs
  <2>2. e \in Equations
    BY <2>1, EquationSets
  <2>3. e.key = <<"dot", h, <<Tensor("P", l, t), Only(Named("dP", l, h, t))>>>>
            /\ e.value = Named("dot", l, h, t)
    BY DEF Eq, Equation, GradientEq
  <2> QED BY <2>2, <2>3, NameIs
<1>4. Apply("dQ", h, <<Tensor("P", l, t), Only(Named("dP", l, h, t)),
                Only(Named("dot", l, h, t)), Tensor("qkv", l, t)>>) = Only(Named("dQ", l, h, t))
  <2> PICK e : e = Equation("dQ", l, h, t, "dQ",
          <<Tensor("P", l, t), Only(Named("dP", l, h, t)), Only(Named("dot", l, h, t)),
              Tensor("qkv", l, t)>>)
    OBVIOUS
  <2>1. e \in HeadBackEqs(l, h, t)
    BY DEF HeadBackEqs
  <2>2. e \in Equations
    BY <2>1, EquationSets
  <2>3. e.key = <<"dQ", h, <<Tensor("P", l, t), Only(Named("dP", l, h, t)),
            Only(Named("dot", l, h, t)), Tensor("qkv", l, t)>>>> /\ e.value = Named("dQ", l, h,
                           t)
    BY DEF Eq, Equation, GradientEq
  <2> QED BY <2>2, <2>3, NameIs
<1>5. Apply("dK", h, <<Tensor("P", l, t), Only(Named("dP", l, h, t)),
                Only(Named("dot", l, h, t)), Tensor("qkv", l, t)>>) = Only(Named("dK", l, h, t))
  <2> PICK e : e = Equation("dK", l, h, t, "dK",
          <<Tensor("P", l, t), Only(Named("dP", l, h, t)), Only(Named("dot", l, h, t)),
              Tensor("qkv", l, t)>>)
    OBVIOUS
  <2>1. e \in HeadBackEqs(l, h, t)
    BY DEF HeadBackEqs
  <2>2. e \in Equations
    BY <2>1, EquationSets
  <2>3. e.key = <<"dK", h, <<Tensor("P", l, t), Only(Named("dP", l, h, t)),
            Only(Named("dot", l, h, t)), Tensor("qkv", l, t)>>>> /\ e.value = Named("dK", l, h,
                           t)
    BY DEF Eq, Equation, GradientEq
  <2> QED BY <2>2, <2>3, NameIs
<1> QED BY <1>1, <1>2, <1>3, <1>4, <1>5

LEMMA NamesAttnBackEqs ==
    ASSUME NEW l \in Layers, NEW t \in Passes
    PROVE  /\ Apply("dB", 0, <<Tensor("attn_out", l, t), DHMid(l, t)>>)
                 = Only(Gradient("attn.c_proj.w", l, t))
           /\ Apply("rows", 0, <<DHMid(l, t)>>)
                 = Only(Gradient("attn.c_proj.b", l, t))
           /\ Apply("dA", 0, <<Weight("attn.c_proj.w", l, t), DHMid(l, t)>>)
                 = Tensor("d_attn_out", l, t)
           /\ Apply("dB", 0, <<Tensor("ln1_y", l, t), DQkv(l, t)>>)
                 = Only(Gradient("c_attn.w", l, t))
           /\ Apply("rows", 0, <<DQkv(l, t)>>)
                 = Only(Gradient("c_attn.b", l, t))
           /\ Apply("dA", 0, <<Weight("c_attn.w", l, t), DQkv(l, t)>>)
                 = Tensor("d_ln1_y", l, t)
           /\ Apply("lnDx", 0, <<Tensor("ln1_xhat", l, t), Weight("ln_1.w", l, t),
                Tensor("d_ln1_y", l, t), Tensor("ln1_inv_std", l, t)>>)
                 = Tensor("d_ln1", l, t)
           /\ Apply("lnGamma", 0, <<Tensor("ln1_xhat", l, t), Tensor("d_ln1_y", l, t)>>)
                 = Only(Gradient("ln_1.w", l, t))
           /\ Apply("lnBeta", 0, <<Tensor("d_ln1_y", l, t)>>)
                 = Only(Gradient("ln_1.b", l, t))
<1>1. Apply("dB", 0, <<Tensor("attn_out", l, t), DHMid(l, t)>>)
                = Only(Gradient("attn.c_proj.w", l, t))
  <2> PICK e : e = GradientEq("attn.c_proj.w", l, t, "dB",
          <<Tensor("attn_out", l, t), DHMid(l, t)>>)
    OBVIOUS
  <2>1. e \in AttnBackEqs(l, t)
    BY DEF AttnBackEqs
  <2>2. e \in Equations
    BY <2>1, EquationSets
  <2>3. e.key = <<"dB", 0, <<Tensor("attn_out", l, t), DHMid(l, t)>>>>
            /\ e.value = Gradient("attn.c_proj.w", l, t)
    BY DEF Eq, Equation, GradientEq
  <2> QED BY <2>2, <2>3, NameIs
<1>2. Apply("rows", 0, <<DHMid(l, t)>>) = Only(Gradient("attn.c_proj.b", l, t))
  <2> PICK e : e = GradientEq("attn.c_proj.b", l, t, "rows", <<DHMid(l, t)>>)
    OBVIOUS
  <2>1. e \in AttnBackEqs(l, t)
    BY DEF AttnBackEqs
  <2>2. e \in Equations
    BY <2>1, EquationSets
  <2>3. e.key = <<"rows", 0, <<DHMid(l, t)>>>> /\ e.value = Gradient("attn.c_proj.b", l, t)
    BY DEF Eq, Equation, GradientEq
  <2> QED BY <2>2, <2>3, NameIs
<1>3. Apply("dA", 0, <<Weight("attn.c_proj.w", l, t), DHMid(l, t)>>) = Tensor("d_attn_out", l,
                t)
  <2> PICK e : e = Eq("d_attn_out", l, t, "dA", <<Weight("attn.c_proj.w", l, t), DHMid(l, t)>>)
    OBVIOUS
  <2>1. e \in AttnBackEqs(l, t)
    BY DEF AttnBackEqs
  <2>2. e \in Equations
    BY <2>1, EquationSets
  <2>3. e.key = <<"dA", 0, <<Weight("attn.c_proj.w", l, t), DHMid(l, t)>>>>
            /\ e.value = Named("d_attn_out", l, 0, t)
    BY DEF Eq, Equation, GradientEq
  <2> QED BY <2>2, <2>3, NameIs DEF Tensor
<1>4. Apply("dB", 0, <<Tensor("ln1_y", l, t), DQkv(l, t)>>) = Only(Gradient("c_attn.w", l, t))
  <2> PICK e : e = GradientEq("c_attn.w", l, t, "dB", <<Tensor("ln1_y", l, t), DQkv(l, t)>>)
    OBVIOUS
  <2>1. e \in AttnBackEqs(l, t)
    BY DEF AttnBackEqs
  <2>2. e \in Equations
    BY <2>1, EquationSets
  <2>3. e.key = <<"dB", 0, <<Tensor("ln1_y", l, t), DQkv(l, t)>>>>
            /\ e.value = Gradient("c_attn.w", l, t)
    BY DEF Eq, Equation, GradientEq
  <2> QED BY <2>2, <2>3, NameIs
<1>5. Apply("rows", 0, <<DQkv(l, t)>>) = Only(Gradient("c_attn.b", l, t))
  <2> PICK e : e = GradientEq("c_attn.b", l, t, "rows", <<DQkv(l, t)>>)
    OBVIOUS
  <2>1. e \in AttnBackEqs(l, t)
    BY DEF AttnBackEqs
  <2>2. e \in Equations
    BY <2>1, EquationSets
  <2>3. e.key = <<"rows", 0, <<DQkv(l, t)>>>> /\ e.value = Gradient("c_attn.b", l, t)
    BY DEF Eq, Equation, GradientEq
  <2> QED BY <2>2, <2>3, NameIs
<1>6. Apply("dA", 0, <<Weight("c_attn.w", l, t), DQkv(l, t)>>) = Tensor("d_ln1_y", l, t)
  <2> PICK e : e = Eq("d_ln1_y", l, t, "dA", <<Weight("c_attn.w", l, t), DQkv(l, t)>>)
    OBVIOUS
  <2>1. e \in AttnBackEqs(l, t)
    BY DEF AttnBackEqs
  <2>2. e \in Equations
    BY <2>1, EquationSets
  <2>3. e.key = <<"dA", 0, <<Weight("c_attn.w", l, t), DQkv(l, t)>>>>
            /\ e.value = Named("d_ln1_y", l, 0, t)
    BY DEF Eq, Equation, GradientEq
  <2> QED BY <2>2, <2>3, NameIs DEF Tensor
<1>7. Apply("lnDx", 0, <<Tensor("ln1_xhat", l, t), Weight("ln_1.w", l, t),
                Tensor("d_ln1_y", l, t), Tensor("ln1_inv_std", l, t)>>) = Tensor("d_ln1", l, t)
  <2> PICK e : e = Eq("d_ln1", l, t, "lnDx",
          <<Tensor("ln1_xhat", l, t), Weight("ln_1.w", l, t), Tensor("d_ln1_y", l, t),
              Tensor("ln1_inv_std", l, t)>>)
    OBVIOUS
  <2>1. e \in AttnBackEqs(l, t)
    BY DEF AttnBackEqs
  <2>2. e \in Equations
    BY <2>1, EquationSets
  <2>3. e.key = <<"lnDx", 0, <<Tensor("ln1_xhat", l, t), Weight("ln_1.w", l, t),
            Tensor("d_ln1_y", l, t), Tensor("ln1_inv_std", l, t)>>>>
                       /\ e.value = Named("d_ln1", l, 0, t)
    BY DEF Eq, Equation, GradientEq
  <2> QED BY <2>2, <2>3, NameIs DEF Tensor
<1>8. Apply("lnGamma", 0, <<Tensor("ln1_xhat", l, t), Tensor("d_ln1_y", l, t)>>)
                = Only(Gradient("ln_1.w", l, t))
  <2> PICK e : e = GradientEq("ln_1.w", l, t, "lnGamma",
          <<Tensor("ln1_xhat", l, t), Tensor("d_ln1_y", l, t)>>)
    OBVIOUS
  <2>1. e \in AttnBackEqs(l, t)
    BY DEF AttnBackEqs
  <2>2. e \in Equations
    BY <2>1, EquationSets
  <2>3. e.key = <<"lnGamma", 0, <<Tensor("ln1_xhat", l, t), Tensor("d_ln1_y", l, t)>>>>
            /\ e.value = Gradient("ln_1.w", l, t)
    BY DEF Eq, Equation, GradientEq
  <2> QED BY <2>2, <2>3, NameIs
<1>9. Apply("lnBeta", 0, <<Tensor("d_ln1_y", l, t)>>) = Only(Gradient("ln_1.b", l, t))
  <2> PICK e : e = GradientEq("ln_1.b", l, t, "lnBeta", <<Tensor("d_ln1_y", l, t)>>)
    OBVIOUS
  <2>1. e \in AttnBackEqs(l, t)
    BY DEF AttnBackEqs
  <2>2. e \in Equations
    BY <2>1, EquationSets
  <2>3. e.key = <<"lnBeta", 0, <<Tensor("d_ln1_y", l, t)>>>> /\ e.value = Gradient("ln_1.b", l,
            t)
    BY DEF Eq, Equation, GradientEq
  <2> QED BY <2>2, <2>3, NameIs
<1> QED BY <1>1, <1>2, <1>3, <1>4, <1>5, <1>6, <1>7, <1>8, <1>9

LEMMA NamesEmbedBackEqs ==
    ASSUME NEW t \in Passes
    PROVE  /\ Apply("addRows", 0, <<DH(0, t)>>)
                 = Only(Gradient("wpe", 0, t))
           /\ Apply("scatter", 0, <<Tokens(t), DH(0, t)>>)
                 = Only(Gradient("wte:embed", 0, t))
<1>1. Apply("addRows", 0, <<DH(0, t)>>) = Only(Gradient("wpe", 0, t))
  <2> PICK e : e = GradientEq("wpe", 0, t, "addRows", <<DH(0, t)>>)
    OBVIOUS
  <2>1. e \in EmbedBackEqs(t)
    BY DEF EmbedBackEqs
  <2>2. e \in Equations
    BY <2>1, EquationSets
  <2>3. e.key = <<"addRows", 0, <<DH(0, t)>>>> /\ e.value = Gradient("wpe", 0, t)
    BY DEF Eq, Equation, GradientEq
  <2> QED BY <2>2, <2>3, NameIs
<1>2. Apply("scatter", 0, <<Tokens(t), DH(0, t)>>) = Only(Gradient("wte:embed", 0, t))
  <2> PICK e : e = GradientEq("wte:embed", 0, t, "scatter", <<Tokens(t), DH(0, t)>>)
    OBVIOUS
  <2>1. e \in EmbedBackEqs(t)
    BY DEF EmbedBackEqs
  <2>2. e \in Equations
    BY <2>1, EquationSets
  <2>3. e.key = <<"scatter", 0, <<Tokens(t), DH(0, t)>>>> /\ e.value = Gradient("wte:embed", 0,
            t)
    BY DEF Eq, Equation, GradientEq
  <2> QED BY <2>2, <2>3, NameIs
<1> QED BY <1>1, <1>2

-----------------------------------------------------------------------------
(* A dispatch, by its kernel                                                 *)

\* What is found at t(k-1) and u(k-1).
In(B, op, k) == Held(Zeroed(B, op.zero), op.srv[k])
Out(B, op, k) == Held(Zeroed(B, op.zero), op.uav[k])

\* Only the outputs of a dispatch that clears nothing else change.
LEMMA EffectFrame ==
    ASSUME NEW B, NEW op, NEW target, Fits(op), NEW b \in Buffers,
           \A k \in DOMAIN op.uav : op.uav[k] # b, b \notin op.zero
    PROVE  Effect(B, op, target)[b] = B[b]
BY EffectAt

\* The inputs of a dispatch, written out.
LEMMA Inputs1 ==
    ASSUME NEW B, NEW op, Len(op.srv) = 1, Fits(op)
    PROVE  Inputs(B, op) = <<In(B, op, 1)>>
<1>1. DOMAIN op.srv = 1 .. 1
  BY DEF Fits
<1>2. Inputs(B, op) = [k \in 1 .. 1 |-> In(B, op, k)]
  BY <1>1 DEF Inputs, In
<1> QED BY <1>2

LEMMA Inputs2 ==
    ASSUME NEW B, NEW op, Len(op.srv) = 2, Fits(op)
    PROVE  Inputs(B, op) = <<In(B, op, 1), In(B, op, 2)>>
<1>1. DOMAIN op.srv = 1 .. 2
  BY DEF Fits
<1>2. Inputs(B, op) = [k \in 1 .. 2 |-> In(B, op, k)]
  BY <1>1 DEF Inputs, In
<1> QED BY <1>2

LEMMA Inputs3 ==
    ASSUME NEW B, NEW op, Len(op.srv) = 3, Fits(op)
    PROVE  Inputs(B, op) = <<In(B, op, 1), In(B, op, 2), In(B, op, 3)>>
<1>1. DOMAIN op.srv = 1 .. 3
  BY DEF Fits
<1>2. Inputs(B, op) = [k \in 1 .. 3 |-> In(B, op, k)]
  BY <1>1 DEF Inputs, In
<1> QED BY <1>2

LEMMA Inputs4 ==
    ASSUME NEW B, NEW op, Len(op.srv) = 4, Fits(op)
    PROVE  Inputs(B, op) = <<In(B, op, 1), In(B, op, 2), In(B, op, 3), In(B, op, 4)>>
<1>1. DOMAIN op.srv = 1 .. 4
  BY DEF Fits
<1>2. Inputs(B, op) = [k \in 1 .. 4 |-> In(B, op, k)]
  BY <1>1 DEF Inputs, In
<1> QED BY <1>2

\* What each kernel leaves in its outputs, in terms of what it read and found.
LEMMA Ran_copy ==
    ASSUME NEW B, NEW op, NEW target, Fits(op), op.cs = "copy"
    PROVE  /\ op.uav[1] \in Buffers => Effect(B, op, target)[op.uav[1]] =
                 In(B, op, 1)
<1>1. Len(op.srv) = 1 /\ Len(op.uav) = 1 /\ DOMAIN op.uav = 1 .. 1
  BY DEF Fits, Arities
<1> PICK t, u : t = Inputs(B, op) /\ u = Outputs(B, op)
  OBVIOUS
<1>2. t = <<In(B, op, 1)>>
  BY <1>1, Inputs1
<1>3. t[1] = In(B, op, 1)
  BY <1>2
<1>4. u[1] = Out(B, op, 1)
  BY <1>1 DEF Outputs, Out
<1>5. List1(Results(B, op, target), t[1])
  BY Writes_copy DEF Results
<1>6. /\ op.uav[1] \in Buffers => Effect(B, op, target)[op.uav[1]] = Results(B, op, target)[1]
  BY <1>1, EffectAt
<1>7. /\ Results(B, op, target)[1] = In(B, op, 1)
  BY <1>2, <1>3, <1>4, <1>5, InList1
<1> QED BY <1>6, <1>7

LEMMA Ran_embed_fwd ==
    ASSUME NEW B, NEW op, NEW target, Fits(op), op.cs = "embed_fwd"
    PROVE  /\ op.uav[1] \in Buffers => Effect(B, op, target)[op.uav[1]] =
                 Apply("embed", op.head, <<In(B, op, 1), In(B, op, 2), In(B, op, 3)>>)
<1>1. Len(op.srv) = 3 /\ Len(op.uav) = 1 /\ DOMAIN op.uav = 1 .. 1
  BY DEF Fits, Arities
<1> PICK t, u : t = Inputs(B, op) /\ u = Outputs(B, op)
  OBVIOUS
<1>2. t = <<In(B, op, 1), In(B, op, 2), In(B, op, 3)>>
  BY <1>1, Inputs3
<1>3. t[1] = In(B, op, 1) /\ t[2] = In(B, op, 2) /\ t[3] = In(B, op, 3)
  BY <1>2
<1>4. u[1] = Out(B, op, 1)
  BY <1>1 DEF Outputs, Out
<1>5. List1(Results(B, op, target), Apply("embed", op.head, t))
  BY Writes_embed_fwd DEF Results
<1>6. /\ op.uav[1] \in Buffers => Effect(B, op, target)[op.uav[1]] = Results(B, op, target)[1]
  BY <1>1, EffectAt
<1>7. /\ Results(B, op, target)[1] = Apply("embed", op.head, <<In(B, op, 1), In(B, op, 2),
           In(B, op, 3)>>)
  BY <1>2, <1>3, <1>4, <1>5, InList1
<1> QED BY <1>6, <1>7

LEMMA Ran_lnorm_fwd ==
    ASSUME NEW B, NEW op, NEW target, Fits(op), op.cs = "lnorm_fwd"
    PROVE  /\ op.uav[1] \in Buffers => Effect(B, op, target)[op.uav[1]] =
                 Apply("lnY", op.head, <<In(B, op, 1), In(B, op, 2), In(B, op, 3)>>)
           /\ op.uav[2] \in Buffers => Effect(B, op, target)[op.uav[2]] =
                 Apply("lnXhat", op.head, <<In(B, op, 1)>>)
           /\ op.uav[3] \in Buffers => Effect(B, op, target)[op.uav[3]] =
                 Apply("lnInvStd", op.head, <<In(B, op, 1)>>)
<1>1. Len(op.srv) = 3 /\ Len(op.uav) = 3 /\ DOMAIN op.uav = 1 .. 3
  BY DEF Fits, Arities
<1> PICK t, u : t = Inputs(B, op) /\ u = Outputs(B, op)
  OBVIOUS
<1>2. t = <<In(B, op, 1), In(B, op, 2), In(B, op, 3)>>
  BY <1>1, Inputs3
<1>3. t[1] = In(B, op, 1) /\ t[2] = In(B, op, 2) /\ t[3] = In(B, op, 3)
  BY <1>2
<1>4. u[1] = Out(B, op, 1) /\ u[2] = Out(B, op, 2) /\ u[3] = Out(B, op, 3)
  BY <1>1 DEF Outputs, Out
<1>5. List3(Results(B, op, target), Apply("lnY", op.head, t),
            Apply("lnXhat", op.head, <<t[1]>>),
            Apply("lnInvStd", op.head, <<t[1]>>))
  BY Writes_lnorm_fwd DEF Results
<1>6. /\ op.uav[1] \in Buffers => Effect(B, op, target)[op.uav[1]] = Results(B, op, target)[1]
      /\ op.uav[2] \in Buffers => Effect(B, op, target)[op.uav[2]] = Results(B, op, target)[2]
      /\ op.uav[3] \in Buffers => Effect(B, op, target)[op.uav[3]] = Results(B, op, target)[3]
  BY <1>1, EffectAt
<1>7. /\ Results(B, op, target)[1] = Apply("lnY", op.head, <<In(B, op, 1), In(B, op, 2),
           In(B, op, 3)>>)
      /\ Results(B, op, target)[2] = Apply("lnXhat", op.head, <<In(B, op, 1)>>)
      /\ Results(B, op, target)[3] = Apply("lnInvStd", op.head, <<In(B, op, 1)>>)
  BY <1>2, <1>3, <1>4, <1>5, InList3
<1> QED BY <1>6, <1>7

LEMMA Ran_matmul_fwd ==
    ASSUME NEW B, NEW op, NEW target, Fits(op), op.cs = "matmul_fwd"
    PROVE  /\ op.uav[1] \in Buffers => Effect(B, op, target)[op.uav[1]] =
                 IF op.use = "linear" THEN Out(B, op, 1) (+) Apply("linear", op.head,
                     <<In(B, op, 1), In(B, op, 2), In(B, op, 3)>>) ELSE Out(B, op,
                         1) (+) Apply(op.use, op.head, <<In(B, op, 1), In(B, op, 2)>>)
<1>1. Len(op.srv) = 3 /\ Len(op.uav) = 1 /\ DOMAIN op.uav = 1 .. 1
  BY DEF Fits, Arities
<1> PICK t, u : t = Inputs(B, op) /\ u = Outputs(B, op)
  OBVIOUS
<1>2. t = <<In(B, op, 1), In(B, op, 2), In(B, op, 3)>>
  BY <1>1, Inputs3
<1>3. t[1] = In(B, op, 1) /\ t[2] = In(B, op, 2) /\ t[3] = In(B, op, 3)
  BY <1>2
<1>4. u[1] = Out(B, op, 1)
  BY <1>1 DEF Outputs, Out
<1>5. List1(Results(B, op, target), u[1] (+) Apply(op.use, op.head, IF op.use = "linear" THEN t
                  ELSE <<t[1], t[2]>>))
  BY Writes_matmul_fwd DEF Results
<1>6. /\ op.uav[1] \in Buffers => Effect(B, op, target)[op.uav[1]] = Results(B, op, target)[1]
  BY <1>1, EffectAt
<1>7. /\ Results(B, op, target)[1] = IF op.use = "linear" THEN Out(B, op,
           1) (+) Apply("linear", op.head, <<In(B, op, 1), In(B, op, 2), In(B, op, 3)>>)
               ELSE Out(B, op, 1) (+) Apply(op.use, op.head, <<In(B, op, 1), In(B, op, 2)>>)
  BY <1>2, <1>3, <1>4, <1>5, InList1
<1> QED BY <1>6, <1>7

LEMMA Ran_matmul_transb ==
    ASSUME NEW B, NEW op, NEW target, Fits(op), op.cs = "matmul_transb"
    PROVE  /\ op.uav[1] \in Buffers => Effect(B, op, target)[op.uav[1]] =
                 Apply("lmHead", op.head, <<In(B, op, 1), In(B, op, 2)>>)
<1>1. Len(op.srv) = 2 /\ Len(op.uav) = 1 /\ DOMAIN op.uav = 1 .. 1
  BY DEF Fits, Arities
<1> PICK t, u : t = Inputs(B, op) /\ u = Outputs(B, op)
  OBVIOUS
<1>2. t = <<In(B, op, 1), In(B, op, 2)>>
  BY <1>1, Inputs2
<1>3. t[1] = In(B, op, 1) /\ t[2] = In(B, op, 2)
  BY <1>2
<1>4. u[1] = Out(B, op, 1)
  BY <1>1 DEF Outputs, Out
<1>5. List1(Results(B, op, target), Apply("lmHead", op.head, t))
  BY Writes_matmul_transb DEF Results
<1>6. /\ op.uav[1] \in Buffers => Effect(B, op, target)[op.uav[1]] = Results(B, op, target)[1]
  BY <1>1, EffectAt
<1>7. /\ Results(B, op, target)[1] = Apply("lmHead", op.head, <<In(B, op, 1), In(B, op, 2)>>)
  BY <1>2, <1>3, <1>4, <1>5, InList1
<1> QED BY <1>6, <1>7

LEMMA Ran_attn_fwd ==
    ASSUME NEW B, NEW op, NEW target, Fits(op), op.cs = "attn_fwd"
    PROVE  /\ op.uav[1] \in Buffers => Effect(B, op, target)[op.uav[1]] =
                 Apply("attend", op.head, <<In(B, op, 1)>>)
           /\ op.uav[2] \in Buffers => Effect(B, op, target)[op.uav[2]] =
                 Apply("softmax", op.head, <<In(B, op, 1)>>)
<1>1. Len(op.srv) = 1 /\ Len(op.uav) = 2 /\ DOMAIN op.uav = 1 .. 2
  BY DEF Fits, Arities
<1> PICK t, u : t = Inputs(B, op) /\ u = Outputs(B, op)
  OBVIOUS
<1>2. t = <<In(B, op, 1)>>
  BY <1>1, Inputs1
<1>3. t[1] = In(B, op, 1)
  BY <1>2
<1>4. u[1] = Out(B, op, 1) /\ u[2] = Out(B, op, 2)
  BY <1>1 DEF Outputs, Out
<1>5. List2(Results(B, op, target), Apply("attend", op.head, t),
            Apply("softmax", op.head, t))
  BY Writes_attn_fwd DEF Results
<1>6. /\ op.uav[1] \in Buffers => Effect(B, op, target)[op.uav[1]] = Results(B, op, target)[1]
      /\ op.uav[2] \in Buffers => Effect(B, op, target)[op.uav[2]] = Results(B, op, target)[2]
  BY <1>1, EffectAt
<1>7. /\ Results(B, op, target)[1] = Apply("attend", op.head, <<In(B, op, 1)>>)
      /\ Results(B, op, target)[2] = Apply("softmax", op.head, <<In(B, op, 1)>>)
  BY <1>2, <1>3, <1>4, <1>5, InList2
<1> QED BY <1>6, <1>7

LEMMA Ran_gelu_fwd ==
    ASSUME NEW B, NEW op, NEW target, Fits(op), op.cs = "gelu_fwd"
    PROVE  /\ op.uav[1] \in Buffers => Effect(B, op, target)[op.uav[1]] =
                 Apply("gelu", op.head, <<In(B, op, 1)>>)
<1>1. Len(op.srv) = 1 /\ Len(op.uav) = 1 /\ DOMAIN op.uav = 1 .. 1
  BY DEF Fits, Arities
<1> PICK t, u : t = Inputs(B, op) /\ u = Outputs(B, op)
  OBVIOUS
<1>2. t = <<In(B, op, 1)>>
  BY <1>1, Inputs1
<1>3. t[1] = In(B, op, 1)
  BY <1>2
<1>4. u[1] = Out(B, op, 1)
  BY <1>1 DEF Outputs, Out
<1>5. List1(Results(B, op, target), Apply("gelu", op.head, t))
  BY Writes_gelu_fwd DEF Results
<1>6. /\ op.uav[1] \in Buffers => Effect(B, op, target)[op.uav[1]] = Results(B, op, target)[1]
  BY <1>1, EffectAt
<1>7. /\ Results(B, op, target)[1] = Apply("gelu", op.head, <<In(B, op, 1)>>)
  BY <1>2, <1>3, <1>4, <1>5, InList1
<1> QED BY <1>6, <1>7

LEMMA Ran_resadd_add3 ==
    ASSUME NEW B, NEW op, NEW target, Fits(op), op.cs = "resadd_add3"
    PROVE  /\ op.uav[1] \in Buffers => Effect(B, op, target)[op.uav[1]] =
                 In(B, op, 1) (+) In(B, op, 2)
<1>1. Len(op.srv) = 2 /\ Len(op.uav) = 1 /\ DOMAIN op.uav = 1 .. 1
  BY DEF Fits, Arities
<1> PICK t, u : t = Inputs(B, op) /\ u = Outputs(B, op)
  OBVIOUS
<1>2. t = <<In(B, op, 1), In(B, op, 2)>>
  BY <1>1, Inputs2
<1>3. t[1] = In(B, op, 1) /\ t[2] = In(B, op, 2)
  BY <1>2
<1>4. u[1] = Out(B, op, 1)
  BY <1>1 DEF Outputs, Out
<1>5. List1(Results(B, op, target), t[1] (+) t[2])
  BY Writes_resadd_add3 DEF Results
<1>6. /\ op.uav[1] \in Buffers => Effect(B, op, target)[op.uav[1]] = Results(B, op, target)[1]
  BY <1>1, EffectAt
<1>7. /\ Results(B, op, target)[1] = In(B, op, 1) (+) In(B, op, 2)
  BY <1>2, <1>3, <1>4, <1>5, InList1
<1> QED BY <1>6, <1>7

LEMMA Ran_resadd_addto ==
    ASSUME NEW B, NEW op, NEW target, Fits(op), op.cs = "resadd_addto"
    PROVE  /\ op.uav[1] \in Buffers => Effect(B, op, target)[op.uav[1]] =
                 Out(B, op, 1) (+) In(B, op, 1)
<1>1. Len(op.srv) = 1 /\ Len(op.uav) = 1 /\ DOMAIN op.uav = 1 .. 1
  BY DEF Fits, Arities
<1> PICK t, u : t = Inputs(B, op) /\ u = Outputs(B, op)
  OBVIOUS
<1>2. t = <<In(B, op, 1)>>
  BY <1>1, Inputs1
<1>3. t[1] = In(B, op, 1)
  BY <1>2
<1>4. u[1] = Out(B, op, 1)
  BY <1>1 DEF Outputs, Out
<1>5. List1(Results(B, op, target), u[1] (+) t[1])
  BY Writes_resadd_addto DEF Results
<1>6. /\ op.uav[1] \in Buffers => Effect(B, op, target)[op.uav[1]] = Results(B, op, target)[1]
  BY <1>1, EffectAt
<1>7. /\ Results(B, op, target)[1] = Out(B, op, 1) (+) In(B, op, 1)
  BY <1>2, <1>3, <1>4, <1>5, InList1
<1> QED BY <1>6, <1>7

LEMMA Ran_loss ==
    ASSUME NEW B, NEW op, NEW target, Fits(op), op.cs = "loss"
    PROVE  /\ op.uav[1] \in Buffers => Effect(B, op, target)[op.uav[1]] =
                 Apply("dlogits", op.head, <<In(B, op, 1), target>>)
           /\ op.uav[2] \in Buffers => Effect(B, op, target)[op.uav[2]] =
                 Apply("loss", op.head, <<In(B, op, 1), target>>)
<1>1. Len(op.srv) = 1 /\ Len(op.uav) = 2 /\ DOMAIN op.uav = 1 .. 2
  BY DEF Fits, Arities
<1> PICK t, u : t = Inputs(B, op) /\ u = Outputs(B, op)
  OBVIOUS
<1>2. t = <<In(B, op, 1)>>
  BY <1>1, Inputs1
<1>3. t[1] = In(B, op, 1)
  BY <1>2
<1>4. u[1] = Out(B, op, 1) /\ u[2] = Out(B, op, 2)
  BY <1>1 DEF Outputs, Out
<1>5. List2(Results(B, op, target), Apply("dlogits", op.head, <<t[1], target>>),
            Apply("loss", op.head, <<t[1], target>>))
  BY Writes_loss DEF Results
<1>6. /\ op.uav[1] \in Buffers => Effect(B, op, target)[op.uav[1]] = Results(B, op, target)[1]
      /\ op.uav[2] \in Buffers => Effect(B, op, target)[op.uav[2]] = Results(B, op, target)[2]
  BY <1>1, EffectAt
<1>7. /\ Results(B, op, target)[1] = Apply("dlogits", op.head, <<In(B, op, 1), target>>)
      /\ Results(B, op, target)[2] = Apply("loss", op.head, <<In(B, op, 1), target>>)
  BY <1>2, <1>3, <1>4, <1>5, InList2
<1> QED BY <1>6, <1>7

LEMMA Ran_lnorm_bwd ==
    ASSUME NEW B, NEW op, NEW target, Fits(op), op.cs = "lnorm_bwd"
    PROVE  /\ op.uav[1] \in Buffers => Effect(B, op, target)[op.uav[1]] =
                 Out(B, op, 1) (+) Apply("lnDx", op.head, <<In(B, op, 1), In(B, op, 2),
                         In(B, op, 3), In(B, op, 4)>>)
           /\ op.uav[2] \in Buffers => Effect(B, op, target)[op.uav[2]] =
                 Out(B, op, 2)
           /\ op.uav[3] \in Buffers => Effect(B, op, target)[op.uav[3]] =
                 Out(B, op, 3)
<1>1. Len(op.srv) = 4 /\ Len(op.uav) = 3 /\ DOMAIN op.uav = 1 .. 3
  BY DEF Fits, Arities
<1> PICK t, u : t = Inputs(B, op) /\ u = Outputs(B, op)
  OBVIOUS
<1>2. t = <<In(B, op, 1), In(B, op, 2), In(B, op, 3), In(B, op, 4)>>
  BY <1>1, Inputs4
<1>3. t[1] = In(B, op, 1) /\ t[2] = In(B, op, 2) /\ t[3] = In(B, op, 3) /\ t[4] = In(B, op, 4)
  BY <1>2
<1>4. u[1] = Out(B, op, 1) /\ u[2] = Out(B, op, 2) /\ u[3] = Out(B, op, 3)
  BY <1>1 DEF Outputs, Out
<1>5. List3(Results(B, op, target), u[1] (+) Apply("lnDx", op.head, t),
            u[2],
            u[3])
  BY Writes_lnorm_bwd DEF Results
<1>6. /\ op.uav[1] \in Buffers => Effect(B, op, target)[op.uav[1]] = Results(B, op, target)[1]
      /\ op.uav[2] \in Buffers => Effect(B, op, target)[op.uav[2]] = Results(B, op, target)[2]
      /\ op.uav[3] \in Buffers => Effect(B, op, target)[op.uav[3]] = Results(B, op, target)[3]
  BY <1>1, EffectAt
<1>7. /\ Results(B, op, target)[1] = Out(B, op, 1) (+) Apply("lnDx", op.head,
           <<In(B, op, 1), In(B, op, 2), In(B, op, 3), In(B, op, 4)>>)
      /\ Results(B, op, target)[2] = Out(B, op, 2)
      /\ Results(B, op, target)[3] = Out(B, op, 3)
  BY <1>2, <1>3, <1>4, <1>5, InList3
<1> QED BY <1>6, <1>7

LEMMA Ran_lnorm_bwd_params ==
    ASSUME NEW B, NEW op, NEW target, Fits(op), op.cs = "lnorm_bwd_params"
    PROVE  /\ op.uav[1] \in Buffers => Effect(B, op, target)[op.uav[1]] =
                 Out(B, op, 1)
           /\ op.uav[2] \in Buffers => Effect(B, op, target)[op.uav[2]] =
                 Out(B, op, 2) (+) Apply("lnGamma", op.head, <<In(B, op, 1), In(B, op, 3)>>)
           /\ op.uav[3] \in Buffers => Effect(B, op, target)[op.uav[3]] =
                 Out(B, op, 3) (+) Apply("lnBeta", op.head, <<In(B, op, 3)>>)
<1>1. Len(op.srv) = 4 /\ Len(op.uav) = 3 /\ DOMAIN op.uav = 1 .. 3
  BY DEF Fits, Arities
<1> PICK t, u : t = Inputs(B, op) /\ u = Outputs(B, op)
  OBVIOUS
<1>2. t = <<In(B, op, 1), In(B, op, 2), In(B, op, 3), In(B, op, 4)>>
  BY <1>1, Inputs4
<1>3. t[1] = In(B, op, 1) /\ t[2] = In(B, op, 2) /\ t[3] = In(B, op, 3) /\ t[4] = In(B, op, 4)
  BY <1>2
<1>4. u[1] = Out(B, op, 1) /\ u[2] = Out(B, op, 2) /\ u[3] = Out(B, op, 3)
  BY <1>1 DEF Outputs, Out
<1>5. List3(Results(B, op, target), u[1],
            u[2] (+) Apply("lnGamma", op.head, <<t[1], t[3]>>),
            u[3] (+) Apply("lnBeta", op.head, <<t[3]>>))
  BY Writes_lnorm_bwd_params DEF Results
<1>6. /\ op.uav[1] \in Buffers => Effect(B, op, target)[op.uav[1]] = Results(B, op, target)[1]
      /\ op.uav[2] \in Buffers => Effect(B, op, target)[op.uav[2]] = Results(B, op, target)[2]
      /\ op.uav[3] \in Buffers => Effect(B, op, target)[op.uav[3]] = Results(B, op, target)[3]
  BY <1>1, EffectAt
<1>7. /\ Results(B, op, target)[1] = Out(B, op, 1)
      /\ Results(B, op, target)[2] = Out(B, op, 2) (+) Apply("lnGamma", op.head,
           <<In(B, op, 1), In(B, op, 3)>>)
      /\ Results(B, op, target)[3] = Out(B, op, 3) (+) Apply("lnBeta", op.head,
           <<In(B, op, 3)>>)
  BY <1>2, <1>3, <1>4, <1>5, InList3
<1> QED BY <1>6, <1>7

LEMMA Ran_gelu_bwd ==
    ASSUME NEW B, NEW op, NEW target, Fits(op), op.cs = "gelu_bwd"
    PROVE  /\ op.uav[1] \in Buffers => Effect(B, op, target)[op.uav[1]] =
                 Apply("geluBwd", op.head, <<Out(B, op, 1), In(B, op, 1)>>)
<1>1. Len(op.srv) = 1 /\ Len(op.uav) = 1 /\ DOMAIN op.uav = 1 .. 1
  BY DEF Fits, Arities
<1> PICK t, u : t = Inputs(B, op) /\ u = Outputs(B, op)
  OBVIOUS
<1>2. t = <<In(B, op, 1)>>
  BY <1>1, Inputs1
<1>3. t[1] = In(B, op, 1)
  BY <1>2
<1>4. u[1] = Out(B, op, 1)
  BY <1>1 DEF Outputs, Out
<1>5. List1(Results(B, op, target), Apply("geluBwd", op.head, <<u[1], t[1]>>))
  BY Writes_gelu_bwd DEF Results
<1>6. /\ op.uav[1] \in Buffers => Effect(B, op, target)[op.uav[1]] = Results(B, op, target)[1]
  BY <1>1, EffectAt
<1>7. /\ Results(B, op, target)[1] = Apply("geluBwd", op.head, <<Out(B, op, 1), In(B, op, 1)>>)
  BY <1>2, <1>3, <1>4, <1>5, InList1
<1> QED BY <1>6, <1>7

LEMMA Ran_matmul_bwd_dA ==
    ASSUME NEW B, NEW op, NEW target, Fits(op), op.cs = "matmul_bwd_dA"
    PROVE  /\ op.uav[1] \in Buffers => Effect(B, op, target)[op.uav[1]] =
                 Out(B, op, 1) (+) Apply("dA", op.head, <<In(B, op, 2), In(B, op, 3)>>)
           /\ op.uav[2] \in Buffers => Effect(B, op, target)[op.uav[2]] =
                 Out(B, op, 2)
<1>1. Len(op.srv) = 3 /\ Len(op.uav) = 2 /\ DOMAIN op.uav = 1 .. 2
  BY DEF Fits, Arities
<1> PICK t, u : t = Inputs(B, op) /\ u = Outputs(B, op)
  OBVIOUS
<1>2. t = <<In(B, op, 1), In(B, op, 2), In(B, op, 3)>>
  BY <1>1, Inputs3
<1>3. t[1] = In(B, op, 1) /\ t[2] = In(B, op, 2) /\ t[3] = In(B, op, 3)
  BY <1>2
<1>4. u[1] = Out(B, op, 1) /\ u[2] = Out(B, op, 2)
  BY <1>1 DEF Outputs, Out
<1>5. List2(Results(B, op, target), u[1] (+) Apply("dA", op.head, <<t[2], t[3]>>),
            u[2])
  BY Writes_matmul_bwd_dA DEF Results
<1>6. /\ op.uav[1] \in Buffers => Effect(B, op, target)[op.uav[1]] = Results(B, op, target)[1]
      /\ op.uav[2] \in Buffers => Effect(B, op, target)[op.uav[2]] = Results(B, op, target)[2]
  BY <1>1, EffectAt
<1>7. /\ Results(B, op, target)[1] = Out(B, op, 1) (+) Apply("dA", op.head,
           <<In(B, op, 2), In(B, op, 3)>>)
      /\ Results(B, op, target)[2] = Out(B, op, 2)
  BY <1>2, <1>3, <1>4, <1>5, InList2
<1> QED BY <1>6, <1>7

LEMMA Ran_matmul_bwd_dB ==
    ASSUME NEW B, NEW op, NEW target, Fits(op), op.cs = "matmul_bwd_dB"
    PROVE  /\ op.uav[1] \in Buffers => Effect(B, op, target)[op.uav[1]] =
                 Out(B, op, 1)
           /\ op.uav[2] \in Buffers => Effect(B, op, target)[op.uav[2]] =
                 Out(B, op, 2) (+) Apply("dB", op.head, <<In(B, op, 1), In(B, op, 3)>>)
<1>1. Len(op.srv) = 3 /\ Len(op.uav) = 2 /\ DOMAIN op.uav = 1 .. 2
  BY DEF Fits, Arities
<1> PICK t, u : t = Inputs(B, op) /\ u = Outputs(B, op)
  OBVIOUS
<1>2. t = <<In(B, op, 1), In(B, op, 2), In(B, op, 3)>>
  BY <1>1, Inputs3
<1>3. t[1] = In(B, op, 1) /\ t[2] = In(B, op, 2) /\ t[3] = In(B, op, 3)
  BY <1>2
<1>4. u[1] = Out(B, op, 1) /\ u[2] = Out(B, op, 2)
  BY <1>1 DEF Outputs, Out
<1>5. List2(Results(B, op, target), u[1],
            u[2] (+) Apply("dB", op.head, <<t[1], t[3]>>))
  BY Writes_matmul_bwd_dB DEF Results
<1>6. /\ op.uav[1] \in Buffers => Effect(B, op, target)[op.uav[1]] = Results(B, op, target)[1]
      /\ op.uav[2] \in Buffers => Effect(B, op, target)[op.uav[2]] = Results(B, op, target)[2]
  BY <1>1, EffectAt
<1>7. /\ Results(B, op, target)[1] = Out(B, op, 1)
      /\ Results(B, op, target)[2] = Out(B, op, 2) (+) Apply("dB", op.head,
           <<In(B, op, 1), In(B, op, 3)>>)
  BY <1>2, <1>3, <1>4, <1>5, InList2
<1> QED BY <1>6, <1>7

LEMMA Ran_bias_bwd ==
    ASSUME NEW B, NEW op, NEW target, Fits(op), op.cs = "bias_bwd"
    PROVE  /\ op.uav[1] \in Buffers => Effect(B, op, target)[op.uav[1]] =
                 Out(B, op, 1) (+) Apply("rows", op.head, <<In(B, op, 1)>>)
<1>1. Len(op.srv) = 1 /\ Len(op.uav) = 1 /\ DOMAIN op.uav = 1 .. 1
  BY DEF Fits, Arities
<1> PICK t, u : t = Inputs(B, op) /\ u = Outputs(B, op)
  OBVIOUS
<1>2. t = <<In(B, op, 1)>>
  BY <1>1, Inputs1
<1>3. t[1] = In(B, op, 1)
  BY <1>2
<1>4. u[1] = Out(B, op, 1)
  BY <1>1 DEF Outputs, Out
<1>5. List1(Results(B, op, target), u[1] (+) Apply("rows", op.head, t))
  BY Writes_bias_bwd DEF Results
<1>6. /\ op.uav[1] \in Buffers => Effect(B, op, target)[op.uav[1]] = Results(B, op, target)[1]
  BY <1>1, EffectAt
<1>7. /\ Results(B, op, target)[1] = Out(B, op, 1) (+) Apply("rows", op.head, <<In(B, op, 1)>>)
  BY <1>2, <1>3, <1>4, <1>5, InList1
<1> QED BY <1>6, <1>7

LEMMA Ran_attn_bwd_dvdp ==
    ASSUME NEW B, NEW op, NEW target, Fits(op), op.cs = "attn_bwd_dvdp"
    PROVE  /\ op.uav[1] \in Buffers => Effect(B, op, target)[op.uav[1]] =
                 Out(B, op, 1) (+) Apply("dV", op.head, <<In(B, op, 2), In(B, op, 3)>>)
           /\ op.uav[2] \in Buffers => Effect(B, op, target)[op.uav[2]] =
                 Apply("dP", op.head, <<In(B, op, 3), In(B, op, 1)>>)
           /\ op.uav[3] \in Buffers => Effect(B, op, target)[op.uav[3]] =
                 Out(B, op, 3)
<1>1. Len(op.srv) = 3 /\ Len(op.uav) = 3 /\ DOMAIN op.uav = 1 .. 3
  BY DEF Fits, Arities
<1> PICK t, u : t = Inputs(B, op) /\ u = Outputs(B, op)
  OBVIOUS
<1>2. t = <<In(B, op, 1), In(B, op, 2), In(B, op, 3)>>
  BY <1>1, Inputs3
<1>3. t[1] = In(B, op, 1) /\ t[2] = In(B, op, 2) /\ t[3] = In(B, op, 3)
  BY <1>2
<1>4. u[1] = Out(B, op, 1) /\ u[2] = Out(B, op, 2) /\ u[3] = Out(B, op, 3)
  BY <1>1 DEF Outputs, Out
<1>5. List3(Results(B, op, target), u[1] (+) Apply("dV", op.head, <<t[2], t[3]>>),
            Apply("dP", op.head, <<t[3], t[1]>>),
            u[3])
  BY Writes_attn_bwd_dvdp DEF Results
<1>6. /\ op.uav[1] \in Buffers => Effect(B, op, target)[op.uav[1]] = Results(B, op, target)[1]
      /\ op.uav[2] \in Buffers => Effect(B, op, target)[op.uav[2]] = Results(B, op, target)[2]
      /\ op.uav[3] \in Buffers => Effect(B, op, target)[op.uav[3]] = Results(B, op, target)[3]
  BY <1>1, EffectAt
<1>7. /\ Results(B, op, target)[1] = Out(B, op, 1) (+) Apply("dV", op.head,
           <<In(B, op, 2), In(B, op, 3)>>)
      /\ Results(B, op, target)[2] = Apply("dP", op.head, <<In(B, op, 3), In(B, op, 1)>>)
      /\ Results(B, op, target)[3] = Out(B, op, 3)
  BY <1>2, <1>3, <1>4, <1>5, InList3
<1> QED BY <1>6, <1>7

LEMMA Ran_attn_bwd_dq ==
    ASSUME NEW B, NEW op, NEW target, Fits(op), op.cs = "attn_bwd_dq"
    PROVE  /\ op.uav[1] \in Buffers => Effect(B, op, target)[op.uav[1]] =
                 Out(B, op, 1) (+) Apply("dQ", op.head, <<In(B, op, 2), Out(B, op, 2),
                         Apply("dot", op.head, <<In(B, op, 2), Out(B, op, 2)>>), In(B, op, 1)>>)
           /\ op.uav[2] \in Buffers => Effect(B, op, target)[op.uav[2]] =
                 Out(B, op, 2)
           /\ op.uav[3] \in Buffers => Effect(B, op, target)[op.uav[3]] =
                 Apply("dot", op.head, <<In(B, op, 2), Out(B, op, 2)>>)
<1>1. Len(op.srv) = 3 /\ Len(op.uav) = 3 /\ DOMAIN op.uav = 1 .. 3
  BY DEF Fits, Arities
<1> PICK t, u : t = Inputs(B, op) /\ u = Outputs(B, op)
  OBVIOUS
<1>2. t = <<In(B, op, 1), In(B, op, 2), In(B, op, 3)>>
  BY <1>1, Inputs3
<1>3. t[1] = In(B, op, 1) /\ t[2] = In(B, op, 2) /\ t[3] = In(B, op, 3)
  BY <1>2
<1>4. u[1] = Out(B, op, 1) /\ u[2] = Out(B, op, 2) /\ u[3] = Out(B, op, 3)
  BY <1>1 DEF Outputs, Out
<1>5. List3(Results(B, op, target), u[1] (+) Apply("dQ", op.head,
                  <<t[2], u[2], Apply("dot", op.head, <<t[2], u[2]>>), t[1]>>),
            u[2],
            Apply("dot", op.head, <<t[2], u[2]>>))
  BY Writes_attn_bwd_dq DEF Results
<1>6. /\ op.uav[1] \in Buffers => Effect(B, op, target)[op.uav[1]] = Results(B, op, target)[1]
      /\ op.uav[2] \in Buffers => Effect(B, op, target)[op.uav[2]] = Results(B, op, target)[2]
      /\ op.uav[3] \in Buffers => Effect(B, op, target)[op.uav[3]] = Results(B, op, target)[3]
  BY <1>1, EffectAt
<1>7. /\ Results(B, op, target)[1] = Out(B, op, 1) (+) Apply("dQ", op.head,
           <<In(B, op, 2), Out(B, op, 2),
               Apply("dot", op.head, <<In(B, op, 2), Out(B, op, 2)>>), In(B, op, 1)>>)
      /\ Results(B, op, target)[2] = Out(B, op, 2)
      /\ Results(B, op, target)[3] = Apply("dot", op.head, <<In(B, op, 2), Out(B, op, 2)>>)
  BY <1>2, <1>3, <1>4, <1>5, InList3
<1> QED BY <1>6, <1>7

LEMMA Ran_attn_bwd_dk ==
    ASSUME NEW B, NEW op, NEW target, Fits(op), op.cs = "attn_bwd_dk"
    PROVE  /\ op.uav[1] \in Buffers => Effect(B, op, target)[op.uav[1]] =
                 Out(B, op, 1) (+) Apply("dK", op.head, <<In(B, op, 2), Out(B, op, 2),
                         Out(B, op, 3), In(B, op, 1)>>)
           /\ op.uav[2] \in Buffers => Effect(B, op, target)[op.uav[2]] =
                 Out(B, op, 2)
           /\ op.uav[3] \in Buffers => Effect(B, op, target)[op.uav[3]] =
                 Out(B, op, 3)
<1>1. Len(op.srv) = 3 /\ Len(op.uav) = 3 /\ DOMAIN op.uav = 1 .. 3
  BY DEF Fits, Arities
<1> PICK t, u : t = Inputs(B, op) /\ u = Outputs(B, op)
  OBVIOUS
<1>2. t = <<In(B, op, 1), In(B, op, 2), In(B, op, 3)>>
  BY <1>1, Inputs3
<1>3. t[1] = In(B, op, 1) /\ t[2] = In(B, op, 2) /\ t[3] = In(B, op, 3)
  BY <1>2
<1>4. u[1] = Out(B, op, 1) /\ u[2] = Out(B, op, 2) /\ u[3] = Out(B, op, 3)
  BY <1>1 DEF Outputs, Out
<1>5. List3(Results(B, op, target), u[1] (+) Apply("dK", op.head, <<t[2], u[2], u[3], t[1]>>),
            u[2],
            u[3])
  BY Writes_attn_bwd_dk DEF Results
<1>6. /\ op.uav[1] \in Buffers => Effect(B, op, target)[op.uav[1]] = Results(B, op, target)[1]
      /\ op.uav[2] \in Buffers => Effect(B, op, target)[op.uav[2]] = Results(B, op, target)[2]
      /\ op.uav[3] \in Buffers => Effect(B, op, target)[op.uav[3]] = Results(B, op, target)[3]
  BY <1>1, EffectAt
<1>7. /\ Results(B, op, target)[1] = Out(B, op, 1) (+) Apply("dK", op.head,
           <<In(B, op, 2), Out(B, op, 2), Out(B, op, 3), In(B, op, 1)>>)
      /\ Results(B, op, target)[2] = Out(B, op, 2)
      /\ Results(B, op, target)[3] = Out(B, op, 3)
  BY <1>2, <1>3, <1>4, <1>5, InList3
<1> QED BY <1>6, <1>7

LEMMA Ran_embed_bwd ==
    ASSUME NEW B, NEW op, NEW target, Fits(op), op.cs = "embed_bwd"
    PROVE  /\ op.uav[1] \in Buffers => Effect(B, op, target)[op.uav[1]] =
                 Out(B, op, 1) (+) Apply("scatter", op.head, <<In(B, op, 1), In(B, op, 2)>>)
           /\ op.uav[2] \in Buffers => Effect(B, op, target)[op.uav[2]] =
                 Out(B, op, 2) (+) Apply("addRows", op.head, <<In(B, op, 2)>>)
<1>1. Len(op.srv) = 2 /\ Len(op.uav) = 2 /\ DOMAIN op.uav = 1 .. 2
  BY DEF Fits, Arities
<1> PICK t, u : t = Inputs(B, op) /\ u = Outputs(B, op)
  OBVIOUS
<1>2. t = <<In(B, op, 1), In(B, op, 2)>>
  BY <1>1, Inputs2
<1>3. t[1] = In(B, op, 1) /\ t[2] = In(B, op, 2)
  BY <1>2
<1>4. u[1] = Out(B, op, 1) /\ u[2] = Out(B, op, 2)
  BY <1>1 DEF Outputs, Out
<1>5. List2(Results(B, op, target), u[1] (+) Apply("scatter", op.head, t),
            u[2] (+) Apply("addRows", op.head, <<t[2]>>))
  BY Writes_embed_bwd DEF Results
<1>6. /\ op.uav[1] \in Buffers => Effect(B, op, target)[op.uav[1]] = Results(B, op, target)[1]
      /\ op.uav[2] \in Buffers => Effect(B, op, target)[op.uav[2]] = Results(B, op, target)[2]
  BY <1>1, EffectAt
<1>7. /\ Results(B, op, target)[1] = Out(B, op, 1) (+) Apply("scatter", op.head,
           <<In(B, op, 1), In(B, op, 2)>>)
      /\ Results(B, op, target)[2] = Out(B, op, 2) (+) Apply("addRows", op.head,
           <<In(B, op, 2)>>)
  BY <1>2, <1>3, <1>4, <1>5, InList2
<1> QED BY <1>6, <1>7

-----------------------------------------------------------------------------
(* How one stage of a pass becomes the next                                  *)

\* E is B with one, two or three buffers changed.
Changes1(B, E, b1, v1) == E[b1] = v1 /\ \A b \in Buffers : b # b1 => E[b] = B[b]
Changes2(B, E, b1, v1, b2, v2) ==
    E[b1] = v1 /\ E[b2] = v2 /\ \A b \in Buffers : b \notin {b1, b2} => E[b] = B[b]
Changes3(B, E, b1, v1, b2, v2, b3, v3) ==
    /\ E[b1] = v1 /\ E[b2] = v2 /\ E[b3] = v3
    /\ \A b \in Buffers : b \notin {b1, b2, b3} => E[b] = B[b]

\* The residual stream starts as the embedding and gains two terms per block.
LEMMA HiddenFirst == \A t : Hidden(0, t) = Tensor("embed", 0, t)
<1> TAKE t
<1>1. HiddenNames(0, t) = {Named("embed", 0, 0, t)}
  BY DEF HiddenNames
<1> QED BY <1>1, HiddenIs, Parameters DEF Tensor, Only

LEMMA HiddenNext ==
    \A l \in Layers : \A t : HiddenMid(l, t) (+) Tensor("mlp_out", l, t) = Hidden(l + 1, t)
<1> TAKE l \in Layers
<1> TAKE t
<1>1. l \in 0 .. NLayer /\ l + 1 \in 0 .. NLayer
  BY Parameters DEF Layers
<1>2. Named("mlp_out", l, 0, t) \notin HiddenMidNames(l, t)
  BY NamedInj, <1>1 DEF HiddenMidNames, HiddenNames
<1>3. HiddenMidNames(l, t) \cup {Named("mlp_out", l, 0, t)} = HiddenNames(l + 1, t)
  <2>1. 0 .. (l + 1) - 1 = (0 .. l - 1) \cup {l}
    BY <1>1
  <2> QED BY <2>1 DEF HiddenMidNames, HiddenNames
<1> QED BY <1>1, <1>2, <1>3, HiddenIs, AddOnly DEF Tensor

\* Its gradient starts as that of the last norm and gains two terms per block.
LEMMA DHFirst == \A t : DH(NLayer, t) = Tensor("d_ln_f", 0, t)
<1> TAKE t
<1>1. DHNames(NLayer, t) = {Named("d_ln_f", 0, 0, t)}
  BY Parameters DEF DHNames
<1> QED BY <1>1, DHIs, Parameters DEF Tensor, Only

LEMMA DHNext == \A l \in Layers : \A t : DHMid(l, t) (+) Tensor("d_ln1", l, t) = DH(l, t)
<1> TAKE l \in Layers
<1> TAKE t
<1>1. l \in 0 .. NLayer /\ l + 1 \in 0 .. NLayer /\ l <= NLayer - 1
  BY Parameters DEF Layers
<1>2. Named("d_ln1", l, 0, t) \notin DHMidNames(l, t)
  BY NamedInj, <1>1 DEF DHMidNames, DHNames
<1>3. DHMidNames(l, t) \cup {Named("d_ln1", l, 0, t)} = DHNames(l, t)
  <2>1. l .. NLayer - 1 = (l + 1 .. NLayer - 1) \cup {l}
    BY <1>1, Parameters
  <2> QED BY <2>1 DEF DHMidNames, DHNames
<1> QED BY <1>1, <1>2, <1>3, DHIs, AddOnly DEF Tensor

\* The weights are those of the pass.
LEMMA WeightIs ==
    ASSUME NEW B, NEW t, WeightsHeld(B, StepOf(t))
    PROVE  /\ \A n \in LayerParams, l \in Layers : B[W(n, l)] = Weight(n, l, t)
           /\ \A n \in GlobalParams : B[W(n, 0)] = Weight(n, 0, t)
<1>1. \A q \in Params : B[W(q[1], q[2])] = Weight(q[1], q[2], t)
  BY DEF WeightsHeld, WeightAt, Weight
<1>2. ASSUME NEW n \in LayerParams, NEW l \in Layers PROVE B[W(n, l)] = Weight(n, l, t)
  <2>1. <<n, l>> \in Params
    BY ParamNames
  <2> QED BY <1>1, <2>1
<1>3. ASSUME NEW n \in GlobalParams PROVE B[W(n, 0)] = Weight(n, 0, t)
  <2>1. <<n, 0>> \in Params
    BY ParamNames
  <2> QED BY <1>1, <2>1
<1> QED BY <1>2, <1>3

-----------------------------------------------------------------------------
(* What each dispatch of a pass does                                         *)

\* The fields of a dispatch.
LEMMA KernelIs ==
    \A cs, use, head, srvs, zero, uavs :
        LET op == Kernel(cs, use, head, srvs, zero, uavs)
        IN  /\ op.cs = cs /\ op.use = use /\ op.head = head
            /\ op.srv = srvs /\ op.zero = zero /\ op.uav = uavs
BY DEF Kernel

\* The same for the dispatches written with Run and for those of one head.
LEMMA RunIs ==
    \A cs, srvs, zero, uavs :
        LET op == Run(cs, srvs, zero, uavs)
        IN  /\ op.cs = cs /\ op.head = 0
            /\ op.srv = srvs /\ op.zero = zero /\ op.uav = uavs
BY Zenon DEF Run, Kernel

OverHead(cs, h, srvs, zero, uavs) == Kernel(cs, "", h, srvs, zero, uavs)
LEMMA OverHeadIs ==
    \A cs, h, srvs, zero, uavs :
        LET op == OverHead(cs, h, srvs, zero, uavs)
        IN  /\ op.cs = cs /\ op.head = h
            /\ op.srv = srvs /\ op.zero = zero /\ op.uav = uavs
BY Zenon DEF OverHead, Kernel

\* The elements of such a sequence, one by one.
LEMMA Item1_1 == \A q, o1 : List1(q, o1) => q[1] = o1
BY InList1

LEMMA Item2_1 == \A q, o1, o2 : List2(q, o1, o2) => q[1] = o1
BY InList2

LEMMA Item2_2 == \A q, o1, o2 : List2(q, o1, o2) => q[2] = o2
BY InList2

LEMMA Item3_1 == \A q, o1, o2, o3 : List3(q, o1, o2, o3) => q[1] = o1
BY InList3

LEMMA Item3_2 == \A q, o1, o2, o3 : List3(q, o1, o2, o3) => q[2] = o2
BY InList3

LEMMA Item3_3 == \A q, o1, o2, o3 : List3(q, o1, o2, o3) => q[3] = o3
BY InList3

LEMMA Item5_1 == \A q, o1, o2, o3, o4, o5 : List5(q, o1, o2, o3, o4, o5) => q[1] = o1
BY InList5

LEMMA Item5_2 == \A q, o1, o2, o3, o4, o5 : List5(q, o1, o2, o3, o4, o5) => q[2] = o2
BY InList5

LEMMA Item5_3 == \A q, o1, o2, o3, o4, o5 : List5(q, o1, o2, o3, o4, o5) => q[3] = o3
BY InList5

LEMMA Item5_4 == \A q, o1, o2, o3, o4, o5 : List5(q, o1, o2, o3, o4, o5) => q[4] = o4
BY InList5

LEMMA Item5_5 == \A q, o1, o2, o3, o4, o5 : List5(q, o1, o2, o3, o4, o5) => q[5] = o5
BY InList5

LEMMA Item9_1 == \A q, o1, o2, o3, o4, o5, o6, o7, o8, o9 : List9(q, o1, o2, o3, o4, o5, o6,
    o7, o8, o9) => q[1] = o1
BY InList9

LEMMA Item9_2 == \A q, o1, o2, o3, o4, o5, o6, o7, o8, o9 : List9(q, o1, o2, o3, o4, o5, o6,
    o7, o8, o9) => q[2] = o2
BY InList9

LEMMA Item9_3 == \A q, o1, o2, o3, o4, o5, o6, o7, o8, o9 : List9(q, o1, o2, o3, o4, o5, o6,
    o7, o8, o9) => q[3] = o3
BY InList9

LEMMA Item9_4 == \A q, o1, o2, o3, o4, o5, o6, o7, o8, o9 : List9(q, o1, o2, o3, o4, o5, o6,
    o7, o8, o9) => q[4] = o4
BY InList9

LEMMA Item9_5 == \A q, o1, o2, o3, o4, o5, o6, o7, o8, o9 : List9(q, o1, o2, o3, o4, o5, o6,
    o7, o8, o9) => q[5] = o5
BY InList9

LEMMA Item9_6 == \A q, o1, o2, o3, o4, o5, o6, o7, o8, o9 : List9(q, o1, o2, o3, o4, o5, o6,
    o7, o8, o9) => q[6] = o6
BY InList9

LEMMA Item9_7 == \A q, o1, o2, o3, o4, o5, o6, o7, o8, o9 : List9(q, o1, o2, o3, o4, o5, o6,
    o7, o8, o9) => q[7] = o7
BY InList9

LEMMA Item9_8 == \A q, o1, o2, o3, o4, o5, o6, o7, o8, o9 : List9(q, o1, o2, o3, o4, o5, o6,
    o7, o8, o9) => q[8] = o8
BY InList9

LEMMA Item9_9 == \A q, o1, o2, o3, o4, o5, o6, o7, o8, o9 : List9(q, o1, o2, o3, o4, o5, o6,
    o7, o8, o9) => q[9] = o9
BY InList9

\* The matrix product is dispatched as a linear layer, which adds a bias, and as
\* a product of two matrices.
LEMMA Ran_linear ==
    ASSUME NEW B, NEW op, NEW target, Fits(op), op.cs = "matmul_fwd", op.use = "linear",
           op.uav[1] \in Buffers
    PROVE  Effect(B, op, target)[op.uav[1]] =
              Out(B, op, 1) (+) Apply("linear", op.head, <<In(B, op, 1), In(B, op, 2),
                      In(B, op, 3)>>)
BY Ran_matmul_fwd

LEMMA Ran_product ==
    ASSUME NEW B, NEW op, NEW target, Fits(op), op.cs = "matmul_fwd", NEW use, op.use = use,
           use # "linear", op.uav[1] \in Buffers
    PROVE  Effect(B, op, target)[op.uav[1]] =
              Out(B, op, 1) (+) Apply(use, op.head, <<In(B, op, 1), In(B, op, 2)>>)
BY Ran_matmul_fwd

\* A buffer that is not cleared is read as it is; an output that is cleared is
\* found empty.
LEMMA ReadIs ==
    ASSUME NEW B, NEW op, NEW j, op.srv[j] \in Buffers, op.srv[j] \notin op.zero
    PROVE  In(B, op, j) = B[op.srv[j]]
BY BufferNames DEF In, Held, Zeroed

LEMMA FoundIs ==
    ASSUME NEW B, NEW op, NEW j, op.uav[j] \in Buffers
    PROVE  Out(B, op, j) = IF op.uav[j] \in op.zero THEN Zero ELSE B[op.uav[j]]
BY BufferNames DEF Out, Held, Zeroed

\* One lemma per dispatch of the program: Does_part<k> takes what the dispatch k
\* of that part reads from the state before it and says which buffers change, and
\* to what. Each goes the same way: the fields of the dispatch, that it fits, what
\* it reads, what it finds in its outputs, and what the equations make of that.
LEMMA Does_embed1 ==
    ASSUME NEW t \in Passes, NEW B, WeightsHeld(B, StepOf(t)),
           B[Tmp("tokens")] = Tokens(t)
    PROVE  Changes1(B, Effect(B, Ops(Place("embed", 0, 0))[1], Tokens(t)),
                    Act("h", 0), Tensor("embed", 0, t))
<1> PICK op : op = Ops(Place("embed", 0, 0))[1]
  OBVIOUS
<1>1. /\ op.cs = "embed_fwd" /\ op.head = 0 /\ op.zero = {Act("h", 0)}
      /\ op.srv[1] = Tmp("tokens") /\ op.srv[2] = W("wte", 0) /\ op.srv[3] = W("wpe", 0)
      /\ op.uav[1] = Act("h", 0)
  <2>1. op = Run("embed_fwd", <<Tmp("tokens"), W("wte", 0), W("wpe", 0)>>, {Act("h", 0)},
            <<Act("h", 0)>>)
    BY OpsOf_embed, Item1_1, Zenon DEF Run
  <2> QED BY <2>1, RunIs
<1>2. Ops(Place("embed", 0, 0))[1] = op
  OBVIOUS
<1>3. Fits(op) /\ DOMAIN op.uav = 1 .. 1
  <2>1. Fits(op)
    BY FitsOf_embed
  <2>2. Len(op.uav) = 1
    BY <1>1, <2>1 DEF Fits, Arities
  <2> QED BY <2>1, <2>2, FitsLens
<1>4. /\ Tmp("tokens") \in Buffers
      /\ W("wte", 0) \in Buffers
      /\ W("wpe", 0) \in Buffers
      /\ Act("h", 0) \in Buffers
  BY SharedBuffers, LayerBuffers, HiddenBuffers, GlobalBuffers, ForwardBackwardAssumption
     DEF Shared, PerLayer, LayerParams, GlobalParams
<1>5. /\ Tmp("tokens") \notin op.zero
      /\ W("wte", 0) \notin op.zero
      /\ W("wpe", 0) \notin op.zero
  BY <1>1, Tags, Parameters DEF Tmp, AttnCleared, Layers
<1>6. /\ B[W("wte", 0)] = Weight("wte", 0, t)
      /\ B[W("wpe", 0)] = Weight("wpe", 0, t)
  BY WeightIs DEF LayerParams, GlobalParams
<1>7. /\ In(B, op, 1) = Tokens(t)
      /\ In(B, op, 2) = Weight("wte", 0, t)
      /\ In(B, op, 3) = Weight("wpe", 0, t)
  BY <1>1, <1>4, <1>5, <1>6, ReadIs
<1>8. /\ Out(B, op, 1) = Zero
  BY <1>1, <1>4, <1>5, FoundIs
<1>9. /\ Effect(B, op, Tokens(t))[Act("h", 0)] = Apply("embed", 0,
           <<Tokens(t), Weight("wte", 0, t), Weight("wpe", 0, t)>>)
  BY <1>1, <1>3, <1>4, <1>7, <1>8, Ran_embed_fwd
<1>10. /\ Apply("embed", 0, <<Tokens(t), Weight("wte", 0, t), Weight("wpe", 0, t)>>)
            = Tensor("embed", 0, t)
  BY NamesEmbedEqs
<1>11. /\ Effect(B, op, Tokens(t))[Act("h", 0)] = Tensor("embed", 0, t)
  BY <1>9, <1>10 DEF Tensor
<1>12. \A b \in Buffers : b \notin {Act("h", 0)} => Effect(B, op, Tokens(t))[b] = B[b]
  <2> TAKE b \in Buffers
  <2> HAVE b \notin {Act("h", 0)}
  <2>1. \A k \in DOMAIN op.uav : op.uav[k] # b
    BY <1>1, <1>3, BufferNames
  <2>2. b \notin op.zero
    BY <1>1
  <2> QED BY <1>3, <2>1, <2>2, EffectFrame
<1> QED BY <1>2, <1>11, <1>12 DEF Changes1

LEMMA Does_attnForward1 ==
    ASSUME NEW l \in Layers, NEW t \in Passes, NEW B, WeightsHeld(B, StepOf(t)),
           B[Act("h", l)] = Hidden(l, t)
    PROVE  Changes3(B, Effect(B, Ops(Place("attnForward", l, 0))[1], Tokens(t)),
                    Act("ln1_y", l), Tensor("ln1_y", l, t), Act("xhat_ln1", l),
                            Tensor("ln1_xhat", l, t), Act("inv_std_ln1", l),
                                       Tensor("ln1_inv_std", l, t))
<1> PICK op : op = Ops(Place("attnForward", l, 0))[1]
  OBVIOUS
<1>1. /\ op.cs = "lnorm_fwd" /\ op.head = 0 /\ op.zero = {}
      /\ op.srv[1] = Act("h", l) /\ op.srv[2] = W("ln_1.w", l) /\ op.srv[3] = W("ln_1.b", l)
      /\ op.uav[1] = Act("ln1_y", l) /\ op.uav[2] = Act("xhat_ln1", l)
           /\ op.uav[3] = Act("inv_std_ln1", l)
  <2>1. op = Run("lnorm_fwd", <<Act("h", l), W("ln_1.w", l), W("ln_1.b", l)>>, {},
            <<Act("ln1_y", l), Act("xhat_ln1", l), Act("inv_std_ln1", l)>>)
    BY OpsOf_attnForward, Item5_1, Zenon DEF Run
  <2> QED BY <2>1, RunIs
<1>2. Ops(Place("attnForward", l, 0))[1] = op
  OBVIOUS
<1>3. Fits(op) /\ DOMAIN op.uav = 1 .. 3
  <2>1. Fits(op)
    BY FitsOf_attnForward
  <2>2. Len(op.uav) = 3
    BY <1>1, <2>1 DEF Fits, Arities
  <2> QED BY <2>1, <2>2, FitsLens
<1>4. /\ Act("h", l) \in Buffers
      /\ W("ln_1.w", l) \in Buffers
      /\ W("ln_1.b", l) \in Buffers
      /\ Act("ln1_y", l) \in Buffers
      /\ Act("xhat_ln1", l) \in Buffers
      /\ Act("inv_std_ln1", l) \in Buffers
  BY SharedBuffers, LayerBuffers, HiddenBuffers, GlobalBuffers, ForwardBackwardAssumption
     DEF Shared, PerLayer, LayerParams, GlobalParams
<1>5. op.zero = {}
  BY <1>1
<1>6. /\ B[W("ln_1.w", l)] = Weight("ln_1.w", l, t)
      /\ B[W("ln_1.b", l)] = Weight("ln_1.b", l, t)
  BY WeightIs DEF LayerParams, GlobalParams
<1>7. /\ In(B, op, 1) = Hidden(l, t)
      /\ In(B, op, 2) = Weight("ln_1.w", l, t)
      /\ In(B, op, 3) = Weight("ln_1.b", l, t)
  BY <1>1, <1>4, <1>5, <1>6, ReadIs
<1>8. /\ Out(B, op, 1) = B[Act("ln1_y", l)]
      /\ Out(B, op, 2) = B[Act("xhat_ln1", l)]
      /\ Out(B, op, 3) = B[Act("inv_std_ln1", l)]
  BY <1>1, <1>4, <1>5, FoundIs
<1>9. /\ Effect(B, op, Tokens(t))[Act("ln1_y", l)] = Apply("lnY", 0,
           <<Hidden(l, t), Weight("ln_1.w", l, t), Weight("ln_1.b", l, t)>>)
      /\ Effect(B, op, Tokens(t))[Act("xhat_ln1", l)] = Apply("lnXhat", 0, <<Hidden(l, t)>>)
      /\ Effect(B, op, Tokens(t))[Act("inv_std_ln1", l)] = Apply("lnInvStd", 0,
           <<Hidden(l, t)>>)
  BY <1>1, <1>3, <1>4, <1>7, <1>8, Ran_lnorm_fwd
<1>10. /\ Apply("lnY", 0, <<Hidden(l, t), Weight("ln_1.w", l, t), Weight("ln_1.b", l, t)>>)
            = Tensor("ln1_y", l, t)
      /\ Apply("lnXhat", 0, <<Hidden(l, t)>>) = Tensor("ln1_xhat", l, t)
      /\ Apply("lnInvStd", 0, <<Hidden(l, t)>>) = Tensor("ln1_inv_std", l, t)
  BY NamesForwardEqs
<1>11. /\ Effect(B, op, Tokens(t))[Act("ln1_y", l)] = Tensor("ln1_y", l, t)
      /\ Effect(B, op, Tokens(t))[Act("xhat_ln1", l)] = Tensor("ln1_xhat", l, t)
      /\ Effect(B, op, Tokens(t))[Act("inv_std_ln1", l)] = Tensor("ln1_inv_std", l, t)
  BY <1>9, <1>10 DEF Tensor
<1>12. \A b \in Buffers : b \notin {Act("ln1_y", l), Act("xhat_ln1", l), Act("inv_std_ln1", l)}
           => Effect(B, op, Tokens(t))[b] = B[b]
  <2> TAKE b \in Buffers
  <2> HAVE b \notin {Act("ln1_y", l), Act("xhat_ln1", l), Act("inv_std_ln1", l)}
  <2>1. \A k \in DOMAIN op.uav : op.uav[k] # b
    BY <1>1, <1>3, BufferNames
  <2>2. b \notin op.zero
    BY <1>1
  <2> QED BY <1>3, <2>1, <2>2, EffectFrame
<1> QED BY <1>2, <1>11, <1>12 DEF Changes3

LEMMA Does_attnForward2 ==
    ASSUME NEW l \in Layers, NEW t \in Passes, NEW B, WeightsHeld(B, StepOf(t)),
           B[Act("ln1_y", l)] = Tensor("ln1_y", l, t)
    PROVE  Changes1(B, Effect(B, Ops(Place("attnForward", l, 0))[2], Tokens(t)),
                    Act("qkv", l), Tensor("qkv", l, t))
<1> PICK op : op = Ops(Place("attnForward", l, 0))[2]
  OBVIOUS
<1>1. /\ op.cs = "matmul_fwd" /\ op.use = "linear" /\ op.head = 0 /\ op.zero = {Act("qkv", l)}
      /\ op.srv[1] = Act("ln1_y", l) /\ op.srv[2] = W("c_attn.w", l)
           /\ op.srv[3] = W("c_attn.b", l)
      /\ op.uav[1] = Act("qkv", l)
  <2>1. op = Kernel("matmul_fwd", "linear", 0, <<Act("ln1_y", l), W("c_attn.w", l),
            W("c_attn.b", l)>>, {Act("qkv", l)}, <<Act("qkv", l)>>)
    BY OpsOf_attnForward, Item5_2, Zenon
  <2> QED BY <2>1, KernelIs
<1>2. Ops(Place("attnForward", l, 0))[2] = op
  OBVIOUS
<1>3. Fits(op) /\ DOMAIN op.uav = 1 .. 1
  <2>1. Fits(op)
    BY FitsOf_attnForward
  <2>2. Len(op.uav) = 1
    BY <1>1, <2>1 DEF Fits, Arities
  <2> QED BY <2>1, <2>2, FitsLens
<1>4. /\ Act("ln1_y", l) \in Buffers
      /\ W("c_attn.w", l) \in Buffers
      /\ W("c_attn.b", l) \in Buffers
      /\ Act("qkv", l) \in Buffers
  BY SharedBuffers, LayerBuffers, HiddenBuffers, GlobalBuffers, ForwardBackwardAssumption
     DEF Shared, PerLayer, LayerParams, GlobalParams
<1>5. /\ Act("ln1_y", l) \notin op.zero
      /\ W("c_attn.w", l) \notin op.zero
      /\ W("c_attn.b", l) \notin op.zero
  BY <1>1, Tags, Parameters DEF Tmp, AttnCleared, Layers
<1>6. /\ B[W("c_attn.w", l)] = Weight("c_attn.w", l, t)
      /\ B[W("c_attn.b", l)] = Weight("c_attn.b", l, t)
  BY WeightIs DEF LayerParams, GlobalParams
<1>7. /\ In(B, op, 1) = Tensor("ln1_y", l, t)
      /\ In(B, op, 2) = Weight("c_attn.w", l, t)
      /\ In(B, op, 3) = Weight("c_attn.b", l, t)
  BY <1>1, <1>4, <1>5, <1>6, ReadIs
<1>8. /\ Out(B, op, 1) = Zero
  BY <1>1, <1>4, <1>5, FoundIs
<1>9. /\ Effect(B, op, Tokens(t))[Act("qkv", l)] = Zero (+) Apply("linear", 0,
           <<Tensor("ln1_y", l, t), Weight("c_attn.w", l, t), Weight("c_attn.b", l, t)>>)
  BY <1>1, <1>3, <1>4, <1>7, <1>8, Ran_linear
<1>10. /\ Apply("linear", 0, <<Tensor("ln1_y", l, t), Weight("c_attn.w", l, t),
            Weight("c_attn.b", l, t)>>) = Tensor("qkv", l, t)
  BY NamesForwardEqs
<1>11. /\ Effect(B, op, Tokens(t))[Act("qkv", l)] = Tensor("qkv", l, t)
  BY <1>9, <1>10, ZeroSum DEF Tensor
<1>12. \A b \in Buffers : b \notin {Act("qkv", l)} => Effect(B, op, Tokens(t))[b] = B[b]
  <2> TAKE b \in Buffers
  <2> HAVE b \notin {Act("qkv", l)}
  <2>1. \A k \in DOMAIN op.uav : op.uav[k] # b
    BY <1>1, <1>3, BufferNames
  <2>2. b \notin op.zero
    BY <1>1
  <2> QED BY <1>3, <2>1, <2>2, EffectFrame
<1> QED BY <1>2, <1>11, <1>12 DEF Changes1

LEMMA Does_attnForward3 ==
    ASSUME NEW l \in Layers, NEW t \in Passes, NEW B, WeightsHeld(B, StepOf(t)),
           B[Act("qkv", l)] = Tensor("qkv", l, t)
    PROVE  Changes2(B, Effect(B, Ops(Place("attnForward", l, 0))[3], Tokens(t)),
                    Act("attn_out", l), Tensor("attn_out", l, t), Act("P", l),
                            Tensor("P", l, t))
<1> PICK op : op = Ops(Place("attnForward", l, 0))[3]
  OBVIOUS
<1>1. /\ op.cs = "attn_fwd" /\ op.head = 0 /\ op.zero = {Act("attn_out", l)}
      /\ op.srv[1] = Act("qkv", l)
      /\ op.uav[1] = Act("attn_out", l) /\ op.uav[2] = Act("P", l)
  <2>1. op = Run("attn_fwd", <<Act("qkv", l)>>, {Act("attn_out", l)},
            <<Act("attn_out", l), Act("P", l)>>)
    BY OpsOf_attnForward, Item5_3, Zenon DEF Run
  <2> QED BY <2>1, RunIs
<1>2. Ops(Place("attnForward", l, 0))[3] = op
  OBVIOUS
<1>3. Fits(op) /\ DOMAIN op.uav = 1 .. 2
  <2>1. Fits(op)
    BY FitsOf_attnForward
  <2>2. Len(op.uav) = 2
    BY <1>1, <2>1 DEF Fits, Arities
  <2> QED BY <2>1, <2>2, FitsLens
<1>4. /\ Act("qkv", l) \in Buffers
      /\ Act("attn_out", l) \in Buffers
      /\ Act("P", l) \in Buffers
  BY SharedBuffers, LayerBuffers, HiddenBuffers, GlobalBuffers, ForwardBackwardAssumption
     DEF Shared, PerLayer, LayerParams, GlobalParams
<1>5. /\ Act("qkv", l) \notin op.zero
  BY <1>1, Tags, Parameters DEF Tmp, AttnCleared, Layers
<1>6. /\ In(B, op, 1) = Tensor("qkv", l, t)
  BY <1>1, <1>4, <1>5, ReadIs
<1>7. /\ Out(B, op, 1) = Zero
      /\ Out(B, op, 2) = B[Act("P", l)]
  BY <1>1, <1>4, <1>5, FoundIs, Tags DEF Tmp
<1>8. /\ Effect(B, op, Tokens(t))[Act("attn_out", l)] = Apply("attend", 0,
           <<Tensor("qkv", l, t)>>)
      /\ Effect(B, op, Tokens(t))[Act("P", l)] = Apply("softmax", 0, <<Tensor("qkv", l, t)>>)
  BY <1>1, <1>3, <1>4, <1>6, <1>7, Ran_attn_fwd
<1>9. /\ Apply("attend", 0, <<Tensor("qkv", l, t)>>) = Tensor("attn_out", l, t)
      /\ Apply("softmax", 0, <<Tensor("qkv", l, t)>>) = Tensor("P", l, t)
  BY NamesForwardEqs
<1>10. /\ Effect(B, op, Tokens(t))[Act("attn_out", l)] = Tensor("attn_out", l, t)
      /\ Effect(B, op, Tokens(t))[Act("P", l)] = Tensor("P", l, t)
  BY <1>8, <1>9 DEF Tensor
<1>11. \A b \in Buffers : b \notin {Act("attn_out", l), Act("P", l)}
           => Effect(B, op, Tokens(t))[b] = B[b]
  <2> TAKE b \in Buffers
  <2> HAVE b \notin {Act("attn_out", l), Act("P", l)}
  <2>1. \A k \in DOMAIN op.uav : op.uav[k] # b
    BY <1>1, <1>3, BufferNames
  <2>2. b \notin op.zero
    BY <1>1
  <2> QED BY <1>3, <2>1, <2>2, EffectFrame
<1> QED BY <1>2, <1>10, <1>11 DEF Changes2

LEMMA Does_attnForward4 ==
    ASSUME NEW l \in Layers, NEW t \in Passes, NEW B, WeightsHeld(B, StepOf(t)),
           B[Act("attn_out", l)] = Tensor("attn_out", l, t)
    PROVE  Changes1(B, Effect(B, Ops(Place("attnForward", l, 0))[4], Tokens(t)),
                    Tmp("dh"), Tensor("attn_proj", l, t))
<1> PICK op : op = Ops(Place("attnForward", l, 0))[4]
  OBVIOUS
<1>1. /\ op.cs = "matmul_fwd" /\ op.use = "linear" /\ op.head = 0 /\ op.zero = {Tmp("dh")}
      /\ op.srv[1] = Act("attn_out", l) /\ op.srv[2] = W("attn.c_proj.w", l)
           /\ op.srv[3] = W("attn.c_proj.b", l)
      /\ op.uav[1] = Tmp("dh")
  <2>1. op = Kernel("matmul_fwd", "linear", 0, <<Act("attn_out", l), W("attn.c_proj.w", l),
            W("attn.c_proj.b", l)>>, {Tmp("dh")}, <<Tmp("dh")>>)
    BY OpsOf_attnForward, Item5_4, Zenon
  <2> QED BY <2>1, KernelIs
<1>2. Ops(Place("attnForward", l, 0))[4] = op
  OBVIOUS
<1>3. Fits(op) /\ DOMAIN op.uav = 1 .. 1
  <2>1. Fits(op)
    BY FitsOf_attnForward
  <2>2. Len(op.uav) = 1
    BY <1>1, <2>1 DEF Fits, Arities
  <2> QED BY <2>1, <2>2, FitsLens
<1>4. /\ Act("attn_out", l) \in Buffers
      /\ W("attn.c_proj.w", l) \in Buffers
      /\ W("attn.c_proj.b", l) \in Buffers
      /\ Tmp("dh") \in Buffers
  BY SharedBuffers, LayerBuffers, HiddenBuffers, GlobalBuffers, ForwardBackwardAssumption
     DEF Shared, PerLayer, LayerParams, GlobalParams
<1>5. /\ Act("attn_out", l) \notin op.zero
      /\ W("attn.c_proj.w", l) \notin op.zero
      /\ W("attn.c_proj.b", l) \notin op.zero
  BY <1>1, Tags, Parameters DEF Tmp, AttnCleared, Layers
<1>6. /\ B[W("attn.c_proj.w", l)] = Weight("attn.c_proj.w", l, t)
      /\ B[W("attn.c_proj.b", l)] = Weight("attn.c_proj.b", l, t)
  BY WeightIs DEF LayerParams, GlobalParams
<1>7. /\ In(B, op, 1) = Tensor("attn_out", l, t)
      /\ In(B, op, 2) = Weight("attn.c_proj.w", l, t)
      /\ In(B, op, 3) = Weight("attn.c_proj.b", l, t)
  BY <1>1, <1>4, <1>5, <1>6, ReadIs
<1>8. /\ Out(B, op, 1) = Zero
  BY <1>1, <1>4, <1>5, FoundIs
<1>9. /\ Effect(B, op, Tokens(t))[Tmp("dh")] = Zero (+) Apply("linear", 0,
           <<Tensor("attn_out", l, t), Weight("attn.c_proj.w", l, t),
               Weight("attn.c_proj.b", l, t)>>)
  BY <1>1, <1>3, <1>4, <1>7, <1>8, Ran_linear
<1>10. /\ Apply("linear", 0, <<Tensor("attn_out", l, t), Weight("attn.c_proj.w", l, t),
            Weight("attn.c_proj.b", l, t)>>) = Tensor("attn_proj", l, t)
  BY NamesForwardEqs
<1>11. /\ Effect(B, op, Tokens(t))[Tmp("dh")] = Tensor("attn_proj", l, t)
  BY <1>9, <1>10, ZeroSum DEF Tensor
<1>12. \A b \in Buffers : b \notin {Tmp("dh")} => Effect(B, op, Tokens(t))[b] = B[b]
  <2> TAKE b \in Buffers
  <2> HAVE b \notin {Tmp("dh")}
  <2>1. \A k \in DOMAIN op.uav : op.uav[k] # b
    BY <1>1, <1>3, BufferNames
  <2>2. b \notin op.zero
    BY <1>1
  <2> QED BY <1>3, <2>1, <2>2, EffectFrame
<1> QED BY <1>2, <1>11, <1>12 DEF Changes1

LEMMA Does_attnForward5 ==
    ASSUME NEW l \in Layers, NEW t \in Passes, NEW B, WeightsHeld(B, StepOf(t)),
           B[Act("h", l)] = Hidden(l, t),
           B[Tmp("dh")] = Tensor("attn_proj", l, t)
    PROVE  Changes1(B, Effect(B, Ops(Place("attnForward", l, 0))[5], Tokens(t)),
                    Act("h", l + 1), HiddenMid(l, t))
<1> PICK op : op = Ops(Place("attnForward", l, 0))[5]
  OBVIOUS
<1>1. /\ op.cs = "resadd_add3" /\ op.head = 0 /\ op.zero = {}
      /\ op.srv[1] = Act("h", l) /\ op.srv[2] = Tmp("dh")
      /\ op.uav[1] = Act("h", l + 1)
  <2>1. op = Run("resadd_add3", <<Act("h", l), Tmp("dh")>>, {}, <<Act("h", l + 1)>>)
    BY OpsOf_attnForward, Item5_5, Zenon DEF Run
  <2> QED BY <2>1, RunIs
<1>2. Ops(Place("attnForward", l, 0))[5] = op
  OBVIOUS
<1>3. Fits(op) /\ DOMAIN op.uav = 1 .. 1
  <2>1. Fits(op)
    BY FitsOf_attnForward
  <2>2. Len(op.uav) = 1
    BY <1>1, <2>1 DEF Fits, Arities
  <2> QED BY <2>1, <2>2, FitsLens
<1>4. /\ Act("h", l) \in Buffers
      /\ Tmp("dh") \in Buffers
      /\ Act("h", l + 1) \in Buffers
  BY SharedBuffers, LayerBuffers, HiddenBuffers, GlobalBuffers, ForwardBackwardAssumption
     DEF Shared, PerLayer, LayerParams, GlobalParams
<1>5. op.zero = {}
  BY <1>1
<1>6. /\ In(B, op, 1) = Hidden(l, t)
      /\ In(B, op, 2) = Tensor("attn_proj", l, t)
  BY <1>1, <1>4, <1>5, ReadIs
<1>7. /\ Out(B, op, 1) = B[Act("h", l + 1)]
  BY <1>1, <1>4, <1>5, FoundIs
<1>8. /\ Effect(B, op, Tokens(t))[Act("h", l + 1)] = Hidden(l, t) (+) Tensor("attn_proj", l, t)
  BY <1>1, <1>3, <1>4, <1>6, <1>7, Ran_resadd_add3
<1>9. /\ Effect(B, op, Tokens(t))[Act("h", l + 1)] = HiddenMid(l, t)
  BY <1>8 DEF HiddenMid
<1>10. \A b \in Buffers : b \notin {Act("h", l + 1)} => Effect(B, op, Tokens(t))[b] = B[b]
  <2> TAKE b \in Buffers
  <2> HAVE b \notin {Act("h", l + 1)}
  <2>1. \A k \in DOMAIN op.uav : op.uav[k] # b
    BY <1>1, <1>3, BufferNames
  <2>2. b \notin op.zero
    BY <1>1
  <2> QED BY <1>3, <2>1, <2>2, EffectFrame
<1> QED BY <1>2, <1>9, <1>10 DEF Changes1

LEMMA Does_mlpForward1 ==
    ASSUME NEW l \in Layers, NEW t \in Passes, NEW B, WeightsHeld(B, StepOf(t)),
           B[Act("h", l + 1)] = HiddenMid(l, t)
    PROVE  Changes3(B, Effect(B, Ops(Place("mlpForward", l, 0))[1], Tokens(t)),
                    Act("ln2_y", l), Tensor("ln2_y", l, t), Act("xhat_ln2", l),
                            Tensor("ln2_xhat", l, t), Act("inv_std_ln2", l),
                                       Tensor("ln2_inv_std", l, t))
<1> PICK op : op = Ops(Place("mlpForward", l, 0))[1]
  OBVIOUS
<1>1. /\ op.cs = "lnorm_fwd" /\ op.head = 0 /\ op.zero = {}
      /\ op.srv[1] = Act("h", l + 1) /\ op.srv[2] = W("ln_2.w", l) /\ op.srv[3] = W("ln_2.b", l)
      /\ op.uav[1] = Act("ln2_y", l) /\ op.uav[2] = Act("xhat_ln2", l)
           /\ op.uav[3] = Act("inv_std_ln2", l)
  <2>1. op = Run("lnorm_fwd", <<Act("h", l + 1), W("ln_2.w", l), W("ln_2.b", l)>>, {},
            <<Act("ln2_y", l), Act("xhat_ln2", l), Act("inv_std_ln2", l)>>)
    BY OpsOf_mlpForward, Item5_1, Zenon DEF Run
  <2> QED BY <2>1, RunIs
<1>2. Ops(Place("mlpForward", l, 0))[1] = op
  OBVIOUS
<1>3. Fits(op) /\ DOMAIN op.uav = 1 .. 3
  <2>1. Fits(op)
    BY FitsOf_mlpForward
  <2>2. Len(op.uav) = 3
    BY <1>1, <2>1 DEF Fits, Arities
  <2> QED BY <2>1, <2>2, FitsLens
<1>4. /\ Act("h", l + 1) \in Buffers
      /\ W("ln_2.w", l) \in Buffers
      /\ W("ln_2.b", l) \in Buffers
      /\ Act("ln2_y", l) \in Buffers
      /\ Act("xhat_ln2", l) \in Buffers
      /\ Act("inv_std_ln2", l) \in Buffers
  BY SharedBuffers, LayerBuffers, HiddenBuffers, GlobalBuffers, ForwardBackwardAssumption
     DEF Shared, PerLayer, LayerParams, GlobalParams
<1>5. op.zero = {}
  BY <1>1
<1>6. /\ B[W("ln_2.w", l)] = Weight("ln_2.w", l, t)
      /\ B[W("ln_2.b", l)] = Weight("ln_2.b", l, t)
  BY WeightIs DEF LayerParams, GlobalParams
<1>7. /\ In(B, op, 1) = HiddenMid(l, t)
      /\ In(B, op, 2) = Weight("ln_2.w", l, t)
      /\ In(B, op, 3) = Weight("ln_2.b", l, t)
  BY <1>1, <1>4, <1>5, <1>6, ReadIs
<1>8. /\ Out(B, op, 1) = B[Act("ln2_y", l)]
      /\ Out(B, op, 2) = B[Act("xhat_ln2", l)]
      /\ Out(B, op, 3) = B[Act("inv_std_ln2", l)]
  BY <1>1, <1>4, <1>5, FoundIs
<1>9. /\ Effect(B, op, Tokens(t))[Act("ln2_y", l)] = Apply("lnY", 0,
           <<HiddenMid(l, t), Weight("ln_2.w", l, t), Weight("ln_2.b", l, t)>>)
      /\ Effect(B, op, Tokens(t))[Act("xhat_ln2", l)] = Apply("lnXhat", 0, <<HiddenMid(l, t)>>)
      /\ Effect(B, op, Tokens(t))[Act("inv_std_ln2", l)] = Apply("lnInvStd", 0,
           <<HiddenMid(l, t)>>)
  BY <1>1, <1>3, <1>4, <1>7, <1>8, Ran_lnorm_fwd
<1>10. /\ Apply("lnY", 0, <<HiddenMid(l, t), Weight("ln_2.w", l, t), Weight("ln_2.b", l, t)>>)
            = Tensor("ln2_y", l, t)
      /\ Apply("lnXhat", 0, <<HiddenMid(l, t)>>) = Tensor("ln2_xhat", l, t)
      /\ Apply("lnInvStd", 0, <<HiddenMid(l, t)>>) = Tensor("ln2_inv_std", l, t)
  BY NamesForwardEqs
<1>11. /\ Effect(B, op, Tokens(t))[Act("ln2_y", l)] = Tensor("ln2_y", l, t)
      /\ Effect(B, op, Tokens(t))[Act("xhat_ln2", l)] = Tensor("ln2_xhat", l, t)
      /\ Effect(B, op, Tokens(t))[Act("inv_std_ln2", l)] = Tensor("ln2_inv_std", l, t)
  BY <1>9, <1>10 DEF Tensor
<1>12. \A b \in Buffers : b \notin {Act("ln2_y", l), Act("xhat_ln2", l), Act("inv_std_ln2", l)}
           => Effect(B, op, Tokens(t))[b] = B[b]
  <2> TAKE b \in Buffers
  <2> HAVE b \notin {Act("ln2_y", l), Act("xhat_ln2", l), Act("inv_std_ln2", l)}
  <2>1. \A k \in DOMAIN op.uav : op.uav[k] # b
    BY <1>1, <1>3, BufferNames
  <2>2. b \notin op.zero
    BY <1>1
  <2> QED BY <1>3, <2>1, <2>2, EffectFrame
<1> QED BY <1>2, <1>11, <1>12 DEF Changes3

LEMMA Does_mlpForward2 ==
    ASSUME NEW l \in Layers, NEW t \in Passes, NEW B, WeightsHeld(B, StepOf(t)),
           B[Act("ln2_y", l)] = Tensor("ln2_y", l, t)
    PROVE  Changes1(B, Effect(B, Ops(Place("mlpForward", l, 0))[2], Tokens(t)),
                    Act("mlp_pre", l), Tensor("mlp_pre", l, t))
<1> PICK op : op = Ops(Place("mlpForward", l, 0))[2]
  OBVIOUS
<1>1. /\ op.cs = "matmul_fwd" /\ op.use = "linear" /\ op.head = 0
           /\ op.zero = {Act("mlp_pre", l)}
      /\ op.srv[1] = Act("ln2_y", l) /\ op.srv[2] = W("c_fc.w", l) /\ op.srv[3] = W("c_fc.b", l)
      /\ op.uav[1] = Act("mlp_pre", l)
  <2>1. op = Kernel("matmul_fwd", "linear", 0, <<Act("ln2_y", l), W("c_fc.w", l),
            W("c_fc.b", l)>>, {Act("mlp_pre", l)}, <<Act("mlp_pre", l)>>)
    BY OpsOf_mlpForward, Item5_2, Zenon
  <2> QED BY <2>1, KernelIs
<1>2. Ops(Place("mlpForward", l, 0))[2] = op
  OBVIOUS
<1>3. Fits(op) /\ DOMAIN op.uav = 1 .. 1
  <2>1. Fits(op)
    BY FitsOf_mlpForward
  <2>2. Len(op.uav) = 1
    BY <1>1, <2>1 DEF Fits, Arities
  <2> QED BY <2>1, <2>2, FitsLens
<1>4. /\ Act("ln2_y", l) \in Buffers
      /\ W("c_fc.w", l) \in Buffers
      /\ W("c_fc.b", l) \in Buffers
      /\ Act("mlp_pre", l) \in Buffers
  BY SharedBuffers, LayerBuffers, HiddenBuffers, GlobalBuffers, ForwardBackwardAssumption
     DEF Shared, PerLayer, LayerParams, GlobalParams
<1>5. /\ Act("ln2_y", l) \notin op.zero
      /\ W("c_fc.w", l) \notin op.zero
      /\ W("c_fc.b", l) \notin op.zero
  BY <1>1, Tags, Parameters DEF Tmp, AttnCleared, Layers
<1>6. /\ B[W("c_fc.w", l)] = Weight("c_fc.w", l, t)
      /\ B[W("c_fc.b", l)] = Weight("c_fc.b", l, t)
  BY WeightIs DEF LayerParams, GlobalParams
<1>7. /\ In(B, op, 1) = Tensor("ln2_y", l, t)
      /\ In(B, op, 2) = Weight("c_fc.w", l, t)
      /\ In(B, op, 3) = Weight("c_fc.b", l, t)
  BY <1>1, <1>4, <1>5, <1>6, ReadIs
<1>8. /\ Out(B, op, 1) = Zero
  BY <1>1, <1>4, <1>5, FoundIs
<1>9. /\ Effect(B, op, Tokens(t))[Act("mlp_pre", l)] = Zero (+) Apply("linear", 0,
           <<Tensor("ln2_y", l, t), Weight("c_fc.w", l, t), Weight("c_fc.b", l, t)>>)
  BY <1>1, <1>3, <1>4, <1>7, <1>8, Ran_linear
<1>10. /\ Apply("linear", 0, <<Tensor("ln2_y", l, t), Weight("c_fc.w", l, t),
            Weight("c_fc.b", l, t)>>) = Tensor("mlp_pre", l, t)
  BY NamesForwardEqs
<1>11. /\ Effect(B, op, Tokens(t))[Act("mlp_pre", l)] = Tensor("mlp_pre", l, t)
  BY <1>9, <1>10, ZeroSum DEF Tensor
<1>12. \A b \in Buffers : b \notin {Act("mlp_pre", l)} => Effect(B, op, Tokens(t))[b] = B[b]
  <2> TAKE b \in Buffers
  <2> HAVE b \notin {Act("mlp_pre", l)}
  <2>1. \A k \in DOMAIN op.uav : op.uav[k] # b
    BY <1>1, <1>3, BufferNames
  <2>2. b \notin op.zero
    BY <1>1
  <2> QED BY <1>3, <2>1, <2>2, EffectFrame
<1> QED BY <1>2, <1>11, <1>12 DEF Changes1

LEMMA Does_mlpForward3 ==
    ASSUME NEW l \in Layers, NEW t \in Passes, NEW B, WeightsHeld(B, StepOf(t)),
           B[Act("mlp_pre", l)] = Tensor("mlp_pre", l, t)
    PROVE  Changes1(B, Effect(B, Ops(Place("mlpForward", l, 0))[3], Tokens(t)),
                    Act("mlp_gelu", l), Tensor("mlp_gelu", l, t))
<1> PICK op : op = Ops(Place("mlpForward", l, 0))[3]
  OBVIOUS
<1>1. /\ op.cs = "gelu_fwd" /\ op.head = 0 /\ op.zero = {Act("mlp_gelu", l)}
      /\ op.srv[1] = Act("mlp_pre", l)
      /\ op.uav[1] = Act("mlp_gelu", l)
  <2>1. op = Run("gelu_fwd", <<Act("mlp_pre", l)>>, {Act("mlp_gelu", l)},
            <<Act("mlp_gelu", l)>>)
    BY OpsOf_mlpForward, Item5_3, Zenon DEF Run
  <2> QED BY <2>1, RunIs
<1>2. Ops(Place("mlpForward", l, 0))[3] = op
  OBVIOUS
<1>3. Fits(op) /\ DOMAIN op.uav = 1 .. 1
  <2>1. Fits(op)
    BY FitsOf_mlpForward
  <2>2. Len(op.uav) = 1
    BY <1>1, <2>1 DEF Fits, Arities
  <2> QED BY <2>1, <2>2, FitsLens
<1>4. /\ Act("mlp_pre", l) \in Buffers
      /\ Act("mlp_gelu", l) \in Buffers
  BY SharedBuffers, LayerBuffers, HiddenBuffers, GlobalBuffers, ForwardBackwardAssumption
     DEF Shared, PerLayer, LayerParams, GlobalParams
<1>5. /\ Act("mlp_pre", l) \notin op.zero
  BY <1>1, Tags, Parameters DEF Tmp, AttnCleared, Layers
<1>6. /\ In(B, op, 1) = Tensor("mlp_pre", l, t)
  BY <1>1, <1>4, <1>5, ReadIs
<1>7. /\ Out(B, op, 1) = Zero
  BY <1>1, <1>4, <1>5, FoundIs
<1>8. /\ Effect(B, op, Tokens(t))[Act("mlp_gelu", l)] = Apply("gelu", 0,
           <<Tensor("mlp_pre", l, t)>>)
  BY <1>1, <1>3, <1>4, <1>6, <1>7, Ran_gelu_fwd
<1>9. /\ Apply("gelu", 0, <<Tensor("mlp_pre", l, t)>>) = Tensor("mlp_gelu", l, t)
  BY NamesForwardEqs
<1>10. /\ Effect(B, op, Tokens(t))[Act("mlp_gelu", l)] = Tensor("mlp_gelu", l, t)
  BY <1>8, <1>9 DEF Tensor
<1>11. \A b \in Buffers : b \notin {Act("mlp_gelu", l)} => Effect(B, op, Tokens(t))[b] = B[b]
  <2> TAKE b \in Buffers
  <2> HAVE b \notin {Act("mlp_gelu", l)}
  <2>1. \A k \in DOMAIN op.uav : op.uav[k] # b
    BY <1>1, <1>3, BufferNames
  <2>2. b \notin op.zero
    BY <1>1
  <2> QED BY <1>3, <2>1, <2>2, EffectFrame
<1> QED BY <1>2, <1>10, <1>11 DEF Changes1

LEMMA Does_mlpForward4 ==
    ASSUME NEW l \in Layers, NEW t \in Passes, NEW B, WeightsHeld(B, StepOf(t)),
           B[Act("mlp_gelu", l)] = Tensor("mlp_gelu", l, t)
    PROVE  Changes1(B, Effect(B, Ops(Place("mlpForward", l, 0))[4], Tokens(t)),
                    Tmp("dh"), Tensor("mlp_out", l, t))
<1> PICK op : op = Ops(Place("mlpForward", l, 0))[4]
  OBVIOUS
<1>1. /\ op.cs = "matmul_fwd" /\ op.use = "linear" /\ op.head = 0 /\ op.zero = {Tmp("dh")}
      /\ op.srv[1] = Act("mlp_gelu", l) /\ op.srv[2] = W("mlp.c_proj.w", l)
           /\ op.srv[3] = W("mlp.c_proj.b", l)
      /\ op.uav[1] = Tmp("dh")
  <2>1. op = Kernel("matmul_fwd", "linear", 0, <<Act("mlp_gelu", l), W("mlp.c_proj.w", l),
            W("mlp.c_proj.b", l)>>, {Tmp("dh")}, <<Tmp("dh")>>)
    BY OpsOf_mlpForward, Item5_4, Zenon
  <2> QED BY <2>1, KernelIs
<1>2. Ops(Place("mlpForward", l, 0))[4] = op
  OBVIOUS
<1>3. Fits(op) /\ DOMAIN op.uav = 1 .. 1
  <2>1. Fits(op)
    BY FitsOf_mlpForward
  <2>2. Len(op.uav) = 1
    BY <1>1, <2>1 DEF Fits, Arities
  <2> QED BY <2>1, <2>2, FitsLens
<1>4. /\ Act("mlp_gelu", l) \in Buffers
      /\ W("mlp.c_proj.w", l) \in Buffers
      /\ W("mlp.c_proj.b", l) \in Buffers
      /\ Tmp("dh") \in Buffers
  BY SharedBuffers, LayerBuffers, HiddenBuffers, GlobalBuffers, ForwardBackwardAssumption
     DEF Shared, PerLayer, LayerParams, GlobalParams
<1>5. /\ Act("mlp_gelu", l) \notin op.zero
      /\ W("mlp.c_proj.w", l) \notin op.zero
      /\ W("mlp.c_proj.b", l) \notin op.zero
  BY <1>1, Tags, Parameters DEF Tmp, AttnCleared, Layers
<1>6. /\ B[W("mlp.c_proj.w", l)] = Weight("mlp.c_proj.w", l, t)
      /\ B[W("mlp.c_proj.b", l)] = Weight("mlp.c_proj.b", l, t)
  BY WeightIs DEF LayerParams, GlobalParams
<1>7. /\ In(B, op, 1) = Tensor("mlp_gelu", l, t)
      /\ In(B, op, 2) = Weight("mlp.c_proj.w", l, t)
      /\ In(B, op, 3) = Weight("mlp.c_proj.b", l, t)
  BY <1>1, <1>4, <1>5, <1>6, ReadIs
<1>8. /\ Out(B, op, 1) = Zero
  BY <1>1, <1>4, <1>5, FoundIs
<1>9. /\ Effect(B, op, Tokens(t))[Tmp("dh")] = Zero (+) Apply("linear", 0,
           <<Tensor("mlp_gelu", l, t), Weight("mlp.c_proj.w", l, t),
               Weight("mlp.c_proj.b", l, t)>>)
  BY <1>1, <1>3, <1>4, <1>7, <1>8, Ran_linear
<1>10. /\ Apply("linear", 0, <<Tensor("mlp_gelu", l, t), Weight("mlp.c_proj.w", l, t),
            Weight("mlp.c_proj.b", l, t)>>) = Tensor("mlp_out", l, t)
  BY NamesForwardEqs
<1>11. /\ Effect(B, op, Tokens(t))[Tmp("dh")] = Tensor("mlp_out", l, t)
  BY <1>9, <1>10, ZeroSum DEF Tensor
<1>12. \A b \in Buffers : b \notin {Tmp("dh")} => Effect(B, op, Tokens(t))[b] = B[b]
  <2> TAKE b \in Buffers
  <2> HAVE b \notin {Tmp("dh")}
  <2>1. \A k \in DOMAIN op.uav : op.uav[k] # b
    BY <1>1, <1>3, BufferNames
  <2>2. b \notin op.zero
    BY <1>1
  <2> QED BY <1>3, <2>1, <2>2, EffectFrame
<1> QED BY <1>2, <1>11, <1>12 DEF Changes1

LEMMA Does_mlpForward5 ==
    ASSUME NEW l \in Layers, NEW t \in Passes, NEW B, WeightsHeld(B, StepOf(t)),
           B[Act("h", l + 1)] = HiddenMid(l, t),
           B[Tmp("dh")] = Tensor("mlp_out", l, t)
    PROVE  Changes1(B, Effect(B, Ops(Place("mlpForward", l, 0))[5], Tokens(t)),
                    Act("h", l + 1), Hidden(l + 1, t))
<1> PICK op : op = Ops(Place("mlpForward", l, 0))[5]
  OBVIOUS
<1>1. /\ op.cs = "resadd_addto" /\ op.head = 0 /\ op.zero = {}
      /\ op.srv[1] = Tmp("dh")
      /\ op.uav[1] = Act("h", l + 1)
  <2>1. op = Run("resadd_addto", <<Tmp("dh")>>, {}, <<Act("h", l + 1)>>)
    BY OpsOf_mlpForward, Item5_5, Zenon DEF Run
  <2> QED BY <2>1, RunIs
<1>2. Ops(Place("mlpForward", l, 0))[5] = op
  OBVIOUS
<1>3. Fits(op) /\ DOMAIN op.uav = 1 .. 1
  <2>1. Fits(op)
    BY FitsOf_mlpForward
  <2>2. Len(op.uav) = 1
    BY <1>1, <2>1 DEF Fits, Arities
  <2> QED BY <2>1, <2>2, FitsLens
<1>4. /\ Tmp("dh") \in Buffers
      /\ Act("h", l + 1) \in Buffers
  BY SharedBuffers, LayerBuffers, HiddenBuffers, GlobalBuffers, ForwardBackwardAssumption
     DEF Shared, PerLayer, LayerParams, GlobalParams
<1>5. op.zero = {}
  BY <1>1
<1>6. /\ In(B, op, 1) = Tensor("mlp_out", l, t)
  BY <1>1, <1>4, <1>5, ReadIs
<1>7. /\ Out(B, op, 1) = HiddenMid(l, t)
  BY <1>1, <1>4, <1>5, FoundIs
<1>8. /\ Effect(B, op, Tokens(t))[Act("h", l + 1)] = HiddenMid(l, t) (+) Tensor("mlp_out", l, t)
  BY <1>1, <1>3, <1>4, <1>6, <1>7, Ran_resadd_addto
<1>9. /\ Effect(B, op, Tokens(t))[Act("h", l + 1)] = Hidden(l + 1, t)
  BY <1>8, HiddenNext
<1>10. \A b \in Buffers : b \notin {Act("h", l + 1)} => Effect(B, op, Tokens(t))[b] = B[b]
  <2> TAKE b \in Buffers
  <2> HAVE b \notin {Act("h", l + 1)}
  <2>1. \A k \in DOMAIN op.uav : op.uav[k] # b
    BY <1>1, <1>3, BufferNames
  <2>2. b \notin op.zero
    BY <1>1
  <2> QED BY <1>3, <2>1, <2>2, EffectFrame
<1> QED BY <1>2, <1>9, <1>10 DEF Changes1

LEMMA Does_head1 ==
    ASSUME NEW t \in Passes, NEW B, WeightsHeld(B, StepOf(t)),
           B[Act("h", NLayer)] = Hidden(NLayer, t)
    PROVE  Changes3(B, Effect(B, Ops(Place("head", 0, 0))[1], Tokens(t)),
                    Tmp("lnf_y"), Tensor("ln_f_y", 0, t), Tmp("xhat_lnf"),
                            Tensor("ln_f_xhat", 0, t), Tmp("inv_std_lnf"),
                                       Tensor("ln_f_inv_std", 0, t))
<1> PICK op : op = Ops(Place("head", 0, 0))[1]
  OBVIOUS
<1>1. /\ op.cs = "lnorm_fwd" /\ op.head = 0 /\ op.zero = {}
      /\ op.srv[1] = Act("h", NLayer) /\ op.srv[2] = W("ln_f.w", 0) /\ op.srv[3] = W("ln_f.b",
           0)
      /\ op.uav[1] = Tmp("lnf_y") /\ op.uav[2] = Tmp("xhat_lnf")
           /\ op.uav[3] = Tmp("inv_std_lnf")
  <2>1. op = Run("lnorm_fwd", <<Act("h", NLayer), W("ln_f.w", 0), W("ln_f.b", 0)>>, {},
            <<Tmp("lnf_y"), Tmp("xhat_lnf"), Tmp("inv_std_lnf")>>)
    BY OpsOf_head, Item3_1, Zenon DEF Run
  <2> QED BY <2>1, RunIs
<1>2. Ops(Place("head", 0, 0))[1] = op
  OBVIOUS
<1>3. Fits(op) /\ DOMAIN op.uav = 1 .. 3
  <2>1. Fits(op)
    BY FitsOf_head
  <2>2. Len(op.uav) = 3
    BY <1>1, <2>1 DEF Fits, Arities
  <2> QED BY <2>1, <2>2, FitsLens
<1>4. /\ Act("h", NLayer) \in Buffers
      /\ W("ln_f.w", 0) \in Buffers
      /\ W("ln_f.b", 0) \in Buffers
      /\ Tmp("lnf_y") \in Buffers
      /\ Tmp("xhat_lnf") \in Buffers
      /\ Tmp("inv_std_lnf") \in Buffers
  BY SharedBuffers, LayerBuffers, HiddenBuffers, GlobalBuffers, ForwardBackwardAssumption
     DEF Shared, PerLayer, LayerParams, GlobalParams
<1>5. op.zero = {}
  BY <1>1
<1>6. /\ B[W("ln_f.w", 0)] = Weight("ln_f.w", 0, t)
      /\ B[W("ln_f.b", 0)] = Weight("ln_f.b", 0, t)
  BY WeightIs DEF LayerParams, GlobalParams
<1>7. /\ In(B, op, 1) = Hidden(NLayer, t)
      /\ In(B, op, 2) = Weight("ln_f.w", 0, t)
      /\ In(B, op, 3) = Weight("ln_f.b", 0, t)
  BY <1>1, <1>4, <1>5, <1>6, ReadIs
<1>8. /\ Out(B, op, 1) = B[Tmp("lnf_y")]
      /\ Out(B, op, 2) = B[Tmp("xhat_lnf")]
      /\ Out(B, op, 3) = B[Tmp("inv_std_lnf")]
  BY <1>1, <1>4, <1>5, FoundIs
<1>9. /\ Effect(B, op, Tokens(t))[Tmp("lnf_y")] = Apply("lnY", 0,
           <<Hidden(NLayer, t), Weight("ln_f.w", 0, t), Weight("ln_f.b", 0, t)>>)
      /\ Effect(B, op, Tokens(t))[Tmp("xhat_lnf")] = Apply("lnXhat", 0, <<Hidden(NLayer, t)>>)
      /\ Effect(B, op, Tokens(t))[Tmp("inv_std_lnf")] = Apply("lnInvStd", 0,
           <<Hidden(NLayer, t)>>)
  BY <1>1, <1>3, <1>4, <1>7, <1>8, Ran_lnorm_fwd
<1>10. /\ Apply("lnY", 0, <<Hidden(NLayer, t), Weight("ln_f.w", 0, t),
            Weight("ln_f.b", 0, t)>>) = Tensor("ln_f_y", 0, t)
      /\ Apply("lnXhat", 0, <<Hidden(NLayer, t)>>) = Tensor("ln_f_xhat", 0, t)
      /\ Apply("lnInvStd", 0, <<Hidden(NLayer, t)>>) = Tensor("ln_f_inv_std", 0, t)
  BY NamesHeadEqs
<1>11. /\ Effect(B, op, Tokens(t))[Tmp("lnf_y")] = Tensor("ln_f_y", 0, t)
      /\ Effect(B, op, Tokens(t))[Tmp("xhat_lnf")] = Tensor("ln_f_xhat", 0, t)
      /\ Effect(B, op, Tokens(t))[Tmp("inv_std_lnf")] = Tensor("ln_f_inv_std", 0, t)
  BY <1>9, <1>10 DEF Tensor
<1>12. \A b \in Buffers : b \notin {Tmp("lnf_y"), Tmp("xhat_lnf"), Tmp("inv_std_lnf")}
           => Effect(B, op, Tokens(t))[b] = B[b]
  <2> TAKE b \in Buffers
  <2> HAVE b \notin {Tmp("lnf_y"), Tmp("xhat_lnf"), Tmp("inv_std_lnf")}
  <2>1. \A k \in DOMAIN op.uav : op.uav[k] # b
    BY <1>1, <1>3, BufferNames
  <2>2. b \notin op.zero
    BY <1>1
  <2> QED BY <1>3, <2>1, <2>2, EffectFrame
<1> QED BY <1>2, <1>11, <1>12 DEF Changes3

LEMMA Does_head2 ==
    ASSUME NEW t \in Passes, NEW B, WeightsHeld(B, StepOf(t)),
           B[Tmp("lnf_y")] = Tensor("ln_f_y", 0, t)
    PROVE  Changes1(B, Effect(B, Ops(Place("head", 0, 0))[2], Tokens(t)),
                    Tmp("logits"), Tensor("logits", 0, t))
<1> PICK op : op = Ops(Place("head", 0, 0))[2]
  OBVIOUS
<1>1. /\ op.cs = "matmul_transb" /\ op.head = 0 /\ op.zero = {Tmp("logits")}
      /\ op.srv[1] = Tmp("lnf_y") /\ op.srv[2] = W("wte", 0)
      /\ op.uav[1] = Tmp("logits")
  <2>1. op = Run("matmul_transb", <<Tmp("lnf_y"), W("wte", 0)>>, {Tmp("logits")},
            <<Tmp("logits")>>)
    BY OpsOf_head, Item3_2, Zenon DEF Run
  <2> QED BY <2>1, RunIs
<1>2. Ops(Place("head", 0, 0))[2] = op
  OBVIOUS
<1>3. Fits(op) /\ DOMAIN op.uav = 1 .. 1
  <2>1. Fits(op)
    BY FitsOf_head
  <2>2. Len(op.uav) = 1
    BY <1>1, <2>1 DEF Fits, Arities
  <2> QED BY <2>1, <2>2, FitsLens
<1>4. /\ Tmp("lnf_y") \in Buffers
      /\ W("wte", 0) \in Buffers
      /\ Tmp("logits") \in Buffers
  BY SharedBuffers, LayerBuffers, HiddenBuffers, GlobalBuffers, ForwardBackwardAssumption
     DEF Shared, PerLayer, LayerParams, GlobalParams
<1>5. /\ Tmp("lnf_y") \notin op.zero
      /\ W("wte", 0) \notin op.zero
  BY <1>1, Tags, Parameters DEF Tmp, AttnCleared, Layers
<1>6. /\ B[W("wte", 0)] = Weight("wte", 0, t)
  BY WeightIs DEF LayerParams, GlobalParams
<1>7. /\ In(B, op, 1) = Tensor("ln_f_y", 0, t)
      /\ In(B, op, 2) = Weight("wte", 0, t)
  BY <1>1, <1>4, <1>5, <1>6, ReadIs
<1>8. /\ Out(B, op, 1) = Zero
  BY <1>1, <1>4, <1>5, FoundIs
<1>9. /\ Effect(B, op, Tokens(t))[Tmp("logits")] = Apply("lmHead", 0,
           <<Tensor("ln_f_y", 0, t), Weight("wte", 0, t)>>)
  BY <1>1, <1>3, <1>4, <1>7, <1>8, Ran_matmul_transb
<1>10. /\ Apply("lmHead", 0, <<Tensor("ln_f_y", 0, t), Weight("wte", 0, t)>>)
            = Tensor("logits", 0, t)
  BY NamesHeadEqs
<1>11. /\ Effect(B, op, Tokens(t))[Tmp("logits")] = Tensor("logits", 0, t)
  BY <1>9, <1>10 DEF Tensor
<1>12. \A b \in Buffers : b \notin {Tmp("logits")} => Effect(B, op, Tokens(t))[b] = B[b]
  <2> TAKE b \in Buffers
  <2> HAVE b \notin {Tmp("logits")}
  <2>1. \A k \in DOMAIN op.uav : op.uav[k] # b
    BY <1>1, <1>3, BufferNames
  <2>2. b \notin op.zero
    BY <1>1
  <2> QED BY <1>3, <2>1, <2>2, EffectFrame
<1> QED BY <1>2, <1>11, <1>12 DEF Changes1

LEMMA Does_head3 ==
    ASSUME NEW t \in Passes, NEW B, WeightsHeld(B, StepOf(t)),
           B[Tmp("logits")] = Tensor("logits", 0, t)
    PROVE  Changes2(B, Effect(B, Ops(Place("head", 0, 0))[3], Tokens(t)),
                    Tmp("dlogits"), Tensor("dlogits", 0, t), Tmp("loss"), Tensor("loss", 0, t))
<1> PICK op : op = Ops(Place("head", 0, 0))[3]
  OBVIOUS
<1>1. /\ op.cs = "loss" /\ op.head = 0 /\ op.zero = {}
      /\ op.srv[1] = Tmp("logits")
      /\ op.uav[1] = Tmp("dlogits") /\ op.uav[2] = Tmp("loss")
  <2>1. op = Run("loss", <<Tmp("logits")>>, {}, <<Tmp("dlogits"), Tmp("loss")>>)
    BY OpsOf_head, Item3_3, Zenon DEF Run
  <2> QED BY <2>1, RunIs
<1>2. Ops(Place("head", 0, 0))[3] = op
  OBVIOUS
<1>3. Fits(op) /\ DOMAIN op.uav = 1 .. 2
  <2>1. Fits(op)
    BY FitsOf_head
  <2>2. Len(op.uav) = 2
    BY <1>1, <2>1 DEF Fits, Arities
  <2> QED BY <2>1, <2>2, FitsLens
<1>4. /\ Tmp("logits") \in Buffers
      /\ Tmp("dlogits") \in Buffers
      /\ Tmp("loss") \in Buffers
  BY SharedBuffers, LayerBuffers, HiddenBuffers, GlobalBuffers, ForwardBackwardAssumption
     DEF Shared, PerLayer, LayerParams, GlobalParams
<1>5. op.zero = {}
  BY <1>1
<1>6. /\ In(B, op, 1) = Tensor("logits", 0, t)
  BY <1>1, <1>4, <1>5, ReadIs
<1>7. /\ Out(B, op, 1) = B[Tmp("dlogits")]
      /\ Out(B, op, 2) = B[Tmp("loss")]
  BY <1>1, <1>4, <1>5, FoundIs
<1>8. /\ Effect(B, op, Tokens(t))[Tmp("dlogits")] = Apply("dlogits", 0,
           <<Tensor("logits", 0, t), Tokens(t)>>)
      /\ Effect(B, op, Tokens(t))[Tmp("loss")] = Apply("loss", 0,
           <<Tensor("logits", 0, t), Tokens(t)>>)
  BY <1>1, <1>3, <1>4, <1>6, <1>7, Ran_loss
<1>9. /\ Apply("dlogits", 0, <<Tensor("logits", 0, t), Tokens(t)>>) = Tensor("dlogits", 0, t)
      /\ Apply("loss", 0, <<Tensor("logits", 0, t), Tokens(t)>>) = Tensor("loss", 0, t)
  BY NamesHeadEqs
<1>10. /\ Effect(B, op, Tokens(t))[Tmp("dlogits")] = Tensor("dlogits", 0, t)
      /\ Effect(B, op, Tokens(t))[Tmp("loss")] = Tensor("loss", 0, t)
  BY <1>8, <1>9 DEF Tensor
<1>11. \A b \in Buffers : b \notin {Tmp("dlogits"), Tmp("loss")} => Effect(B, op, Tokens(t))[b]
           = B[b]
  <2> TAKE b \in Buffers
  <2> HAVE b \notin {Tmp("dlogits"), Tmp("loss")}
  <2>1. \A k \in DOMAIN op.uav : op.uav[k] # b
    BY <1>1, <1>3, BufferNames
  <2>2. b \notin op.zero
    BY <1>1
  <2> QED BY <1>3, <2>1, <2>2, EffectFrame
<1> QED BY <1>2, <1>10, <1>11 DEF Changes2

LEMMA Does_headBack1 ==
    ASSUME NEW t \in Passes, NEW B, WeightsHeld(B, StepOf(t)),
           B[Tmp("dlogits")] = Tensor("dlogits", 0, t),
           B[Tmp("lnf_y")] = Tensor("ln_f_y", 0, t)
    PROVE  Changes1(B, Effect(B, Ops(Place("headBack", 0, 0))[1], Tokens(t)),
                    G("wte", 0), B[G("wte", 0)] (+) Only(Gradient("wte:head", 0, t)))
<1> PICK op : op = Ops(Place("headBack", 0, 0))[1]
  OBVIOUS
<1>1. /\ op.cs = "matmul_fwd" /\ op.use = "column" /\ op.head = 0 /\ op.zero = {}
      /\ op.srv[1] = Tmp("dlogits") /\ op.srv[2] = Tmp("lnf_y") /\ op.srv[3] = Null
      /\ op.uav[1] = G("wte", 0)
  <2>1. op = Kernel("matmul_fwd", "column", 0, <<Tmp("dlogits"), Tmp("lnf_y"), Null>>, {},
            <<G("wte", 0)>>)
    BY OpsOf_headBack, Item5_1, Zenon
  <2> QED BY <2>1, KernelIs
<1>2. Ops(Place("headBack", 0, 0))[1] = op
  OBVIOUS
<1>3. Fits(op) /\ DOMAIN op.uav = 1 .. 1
  <2>1. Fits(op)
    BY FitsOf_headBack
  <2>2. Len(op.uav) = 1
    BY <1>1, <2>1 DEF Fits, Arities
  <2> QED BY <2>1, <2>2, FitsLens
<1>4. /\ Tmp("dlogits") \in Buffers
      /\ Tmp("lnf_y") \in Buffers
      /\ G("wte", 0) \in Buffers
  BY SharedBuffers, LayerBuffers, HiddenBuffers, GlobalBuffers, ForwardBackwardAssumption
     DEF Shared, PerLayer, LayerParams, GlobalParams
<1>5. op.zero = {}
  BY <1>1
<1>6. /\ In(B, op, 1) = Tensor("dlogits", 0, t)
      /\ In(B, op, 2) = Tensor("ln_f_y", 0, t)
  BY <1>1, <1>4, <1>5, ReadIs
<1>7. /\ Out(B, op, 1) = B[G("wte", 0)]
  BY <1>1, <1>4, <1>5, FoundIs
<1>8. /\ Effect(B, op, Tokens(t))[G("wte", 0)] = B[G("wte", 0)] (+) Apply("column", 0,
           <<Tensor("dlogits", 0, t), Tensor("ln_f_y", 0, t)>>)
  BY <1>1, <1>3, <1>4, <1>6, <1>7, Ran_product
<1>9. /\ Apply("column", 0, <<Tensor("dlogits", 0, t), Tensor("ln_f_y", 0, t)>>)
           = Only(Gradient("wte:head", 0, t))
  BY NamesHeadEqs
<1>10. /\ Effect(B, op, Tokens(t))[G("wte", 0)] = B[G("wte", 0)] (+) Only(Gradient("wte:head",
            0, t))
  BY <1>8, <1>9
<1>11. \A b \in Buffers : b \notin {G("wte", 0)} => Effect(B, op, Tokens(t))[b] = B[b]
  <2> TAKE b \in Buffers
  <2> HAVE b \notin {G("wte", 0)}
  <2>1. \A k \in DOMAIN op.uav : op.uav[k] # b
    BY <1>1, <1>3, BufferNames
  <2>2. b \notin op.zero
    BY <1>1
  <2> QED BY <1>3, <2>1, <2>2, EffectFrame
<1> QED BY <1>2, <1>10, <1>11 DEF Changes1

LEMMA Does_headBack2 ==
    ASSUME NEW t \in Passes, NEW B, WeightsHeld(B, StepOf(t)),
           B[Tmp("dlogits")] = Tensor("dlogits", 0, t)
    PROVE  Changes1(B, Effect(B, Ops(Place("headBack", 0, 0))[2], Tokens(t)),
                    Tmp("dh"), Tensor("d_ln_f_y", 0, t))
<1> PICK op : op = Ops(Place("headBack", 0, 0))[2]
  OBVIOUS
<1>1. /\ op.cs = "matmul_fwd" /\ op.use = "row" /\ op.head = 0 /\ op.zero = {Tmp("dh")}
      /\ op.srv[1] = Tmp("dlogits") /\ op.srv[2] = W("wte", 0) /\ op.srv[3] = Null
      /\ op.uav[1] = Tmp("dh")
  <2>1. op = Kernel("matmul_fwd", "row", 0, <<Tmp("dlogits"), W("wte", 0), Null>>, {Tmp("dh")},
            <<Tmp("dh")>>)
    BY OpsOf_headBack, Item5_2, Zenon
  <2> QED BY <2>1, KernelIs
<1>2. Ops(Place("headBack", 0, 0))[2] = op
  OBVIOUS
<1>3. Fits(op) /\ DOMAIN op.uav = 1 .. 1
  <2>1. Fits(op)
    BY FitsOf_headBack
  <2>2. Len(op.uav) = 1
    BY <1>1, <2>1 DEF Fits, Arities
  <2> QED BY <2>1, <2>2, FitsLens
<1>4. /\ Tmp("dlogits") \in Buffers
      /\ W("wte", 0) \in Buffers
      /\ Tmp("dh") \in Buffers
  BY SharedBuffers, LayerBuffers, HiddenBuffers, GlobalBuffers, ForwardBackwardAssumption
     DEF Shared, PerLayer, LayerParams, GlobalParams
<1>5. /\ Tmp("dlogits") \notin op.zero
      /\ W("wte", 0) \notin op.zero
  BY <1>1, Tags, Parameters DEF Tmp, AttnCleared, Layers
<1>6. /\ B[W("wte", 0)] = Weight("wte", 0, t)
  BY WeightIs DEF LayerParams, GlobalParams
<1>7. /\ In(B, op, 1) = Tensor("dlogits", 0, t)
      /\ In(B, op, 2) = Weight("wte", 0, t)
  BY <1>1, <1>4, <1>5, <1>6, ReadIs
<1>8. /\ Out(B, op, 1) = Zero
  BY <1>1, <1>4, <1>5, FoundIs
<1>9. /\ Effect(B, op, Tokens(t))[Tmp("dh")] = Zero (+) Apply("row", 0,
           <<Tensor("dlogits", 0, t), Weight("wte", 0, t)>>)
  BY <1>1, <1>3, <1>4, <1>7, <1>8, Ran_product
<1>10. /\ Apply("row", 0, <<Tensor("dlogits", 0, t), Weight("wte", 0, t)>>)
            = Tensor("d_ln_f_y", 0, t)
  BY NamesHeadEqs
<1>11. /\ Effect(B, op, Tokens(t))[Tmp("dh")] = Tensor("d_ln_f_y", 0, t)
  BY <1>9, <1>10, ZeroSum DEF Tensor
<1>12. \A b \in Buffers : b \notin {Tmp("dh")} => Effect(B, op, Tokens(t))[b] = B[b]
  <2> TAKE b \in Buffers
  <2> HAVE b \notin {Tmp("dh")}
  <2>1. \A k \in DOMAIN op.uav : op.uav[k] # b
    BY <1>1, <1>3, BufferNames
  <2>2. b \notin op.zero
    BY <1>1
  <2> QED BY <1>3, <2>1, <2>2, EffectFrame
<1> QED BY <1>2, <1>11, <1>12 DEF Changes1

LEMMA Does_headBack3 ==
    ASSUME NEW t \in Passes, NEW B, WeightsHeld(B, StepOf(t)),
           B[Tmp("dh")] = Tensor("d_ln_f_y", 0, t)
    PROVE  Changes1(B, Effect(B, Ops(Place("headBack", 0, 0))[3], Tokens(t)),
                    Tmp("lnf_y"), Tensor("d_ln_f_y", 0, t))
<1> PICK op : op = Ops(Place("headBack", 0, 0))[3]
  OBVIOUS
<1>1. /\ op.cs = "copy" /\ op.head = 0 /\ op.zero = {}
      /\ op.srv[1] = Tmp("dh")
      /\ op.uav[1] = Tmp("lnf_y")
  <2>1. op = Run("copy", <<Tmp("dh")>>, {}, <<Tmp("lnf_y")>>)
    BY OpsOf_headBack, Item5_3, Zenon DEF Run
  <2> QED BY <2>1, RunIs
<1>2. Ops(Place("headBack", 0, 0))[3] = op
  OBVIOUS
<1>3. Fits(op) /\ DOMAIN op.uav = 1 .. 1
  <2>1. Fits(op)
    BY FitsOf_headBack
  <2>2. Len(op.uav) = 1
    BY <1>1, <2>1 DEF Fits, Arities
  <2> QED BY <2>1, <2>2, FitsLens
<1>4. /\ Tmp("dh") \in Buffers
      /\ Tmp("lnf_y") \in Buffers
  BY SharedBuffers, LayerBuffers, HiddenBuffers, GlobalBuffers, ForwardBackwardAssumption
     DEF Shared, PerLayer, LayerParams, GlobalParams
<1>5. op.zero = {}
  BY <1>1
<1>6. /\ In(B, op, 1) = Tensor("d_ln_f_y", 0, t)
  BY <1>1, <1>4, <1>5, ReadIs
<1>7. /\ Out(B, op, 1) = B[Tmp("lnf_y")]
  BY <1>1, <1>4, <1>5, FoundIs
<1>8. /\ Effect(B, op, Tokens(t))[Tmp("lnf_y")] = Tensor("d_ln_f_y", 0, t)
  BY <1>1, <1>3, <1>4, <1>6, <1>7, Ran_copy
<1>9. /\ Effect(B, op, Tokens(t))[Tmp("lnf_y")] = Tensor("d_ln_f_y", 0, t)
  BY <1>8
<1>10. \A b \in Buffers : b \notin {Tmp("lnf_y")} => Effect(B, op, Tokens(t))[b] = B[b]
  <2> TAKE b \in Buffers
  <2> HAVE b \notin {Tmp("lnf_y")}
  <2>1. \A k \in DOMAIN op.uav : op.uav[k] # b
    BY <1>1, <1>3, BufferNames
  <2>2. b \notin op.zero
    BY <1>1
  <2> QED BY <1>3, <2>1, <2>2, EffectFrame
<1> QED BY <1>2, <1>9, <1>10 DEF Changes1

LEMMA Does_headBack4 ==
    ASSUME NEW t \in Passes, NEW B, WeightsHeld(B, StepOf(t)),
           B[Tmp("xhat_lnf")] = Tensor("ln_f_xhat", 0, t),
           B[Tmp("inv_std_lnf")] = Tensor("ln_f_inv_std", 0, t),
           B[Tmp("lnf_y")] = Tensor("d_ln_f_y", 0, t)
    PROVE  Changes1(B, Effect(B, Ops(Place("headBack", 0, 0))[4], Tokens(t)),
                    Tmp("dh"), DH(NLayer, t))
<1> PICK op : op = Ops(Place("headBack", 0, 0))[4]
  OBVIOUS
<1>1. /\ op.cs = "lnorm_bwd" /\ op.head = 0 /\ op.zero = {Tmp("dh")}
      /\ op.srv[1] = Tmp("xhat_lnf") /\ op.srv[2] = W("ln_f.w", 0) /\ op.srv[3] = Tmp("lnf_y")
           /\ op.srv[4] = Tmp("inv_std_lnf")
      /\ op.uav[1] = Tmp("dh") /\ op.uav[2] = Null /\ op.uav[3] = Null
  <2>1. op = Run("lnorm_bwd", <<Tmp("xhat_lnf"), W("ln_f.w", 0), Tmp("lnf_y"),
            Tmp("inv_std_lnf")>>, {Tmp("dh")}, <<Tmp("dh"), Null, Null>>)
    BY OpsOf_headBack, Item5_4, Zenon DEF Run
  <2> QED BY <2>1, RunIs
<1>2. Ops(Place("headBack", 0, 0))[4] = op
  OBVIOUS
<1>3. Fits(op) /\ DOMAIN op.uav = 1 .. 3
  <2>1. Fits(op)
    BY FitsOf_headBack
  <2>2. Len(op.uav) = 3
    BY <1>1, <2>1 DEF Fits, Arities
  <2> QED BY <2>1, <2>2, FitsLens
<1>4. /\ Tmp("xhat_lnf") \in Buffers
      /\ W("ln_f.w", 0) \in Buffers
      /\ Tmp("lnf_y") \in Buffers
      /\ Tmp("inv_std_lnf") \in Buffers
      /\ Tmp("dh") \in Buffers
  BY SharedBuffers, LayerBuffers, HiddenBuffers, GlobalBuffers, ForwardBackwardAssumption
     DEF Shared, PerLayer, LayerParams, GlobalParams
<1>5. /\ Tmp("xhat_lnf") \notin op.zero
      /\ W("ln_f.w", 0) \notin op.zero
      /\ Tmp("lnf_y") \notin op.zero
      /\ Tmp("inv_std_lnf") \notin op.zero
  BY <1>1, Tags, Parameters DEF Tmp, AttnCleared, Layers
<1>6. /\ B[W("ln_f.w", 0)] = Weight("ln_f.w", 0, t)
  BY WeightIs DEF LayerParams, GlobalParams
<1>7. /\ In(B, op, 1) = Tensor("ln_f_xhat", 0, t)
      /\ In(B, op, 2) = Weight("ln_f.w", 0, t)
      /\ In(B, op, 3) = Tensor("d_ln_f_y", 0, t)
      /\ In(B, op, 4) = Tensor("ln_f_inv_std", 0, t)
  BY <1>1, <1>4, <1>5, <1>6, ReadIs
<1>8. /\ Out(B, op, 1) = Zero
  BY <1>1, <1>4, <1>5, FoundIs
<1>9. /\ Effect(B, op, Tokens(t))[Tmp("dh")] = Zero (+) Apply("lnDx", 0,
           <<Tensor("ln_f_xhat", 0, t), Weight("ln_f.w", 0, t), Tensor("d_ln_f_y", 0, t),
               Tensor("ln_f_inv_std", 0, t)>>)
  BY <1>1, <1>3, <1>4, <1>7, <1>8, Ran_lnorm_bwd
<1>10. /\ Apply("lnDx", 0, <<Tensor("ln_f_xhat", 0, t), Weight("ln_f.w", 0, t),
            Tensor("d_ln_f_y", 0, t), Tensor("ln_f_inv_std", 0, t)>>) = Tensor("d_ln_f", 0, t)
  BY NamesHeadEqs
<1>11. /\ Effect(B, op, Tokens(t))[Tmp("dh")] = DH(NLayer, t)
  BY <1>9, <1>10, ZeroSum, DHFirst DEF Tensor
<1>12. \A b \in Buffers : b \notin {Tmp("dh")} => Effect(B, op, Tokens(t))[b] = B[b]
  <2> TAKE b \in Buffers
  <2> HAVE b \notin {Tmp("dh")}
  <2>1. \A k \in DOMAIN op.uav : op.uav[k] # b
    BY <1>1, <1>3, BufferNames
  <2>2. b \notin op.zero
    BY <1>1
  <2> QED BY <1>3, <2>1, <2>2, EffectFrame
<1> QED BY <1>2, <1>11, <1>12 DEF Changes1

LEMMA Does_headBack5 ==
    ASSUME NEW t \in Passes, NEW B, WeightsHeld(B, StepOf(t)),
           B[Tmp("xhat_lnf")] = Tensor("ln_f_xhat", 0, t),
           B[Tmp("lnf_y")] = Tensor("d_ln_f_y", 0, t)
    PROVE  Changes2(B, Effect(B, Ops(Place("headBack", 0, 0))[5], Tokens(t)),
                    G("ln_f.w", 0), B[G("ln_f.w", 0)] (+) Only(Gradient("ln_f.w", 0, t)),
                          G("ln_f.b", 0), B[G("ln_f.b", 0)] (+) Only(Gradient("ln_f.b", 0, t)))
<1> PICK op : op = Ops(Place("headBack", 0, 0))[5]
  OBVIOUS
<1>1. /\ op.cs = "lnorm_bwd_params" /\ op.head = 0 /\ op.zero = {}
      /\ op.srv[1] = Tmp("xhat_lnf") /\ op.srv[2] = Null /\ op.srv[3] = Tmp("lnf_y")
           /\ op.srv[4] = Null
      /\ op.uav[1] = Null /\ op.uav[2] = G("ln_f.w", 0) /\ op.uav[3] = G("ln_f.b", 0)
  <2>1. op = Run("lnorm_bwd_params", <<Tmp("xhat_lnf"), Null, Tmp("lnf_y"), Null>>, {},
            <<Null, G("ln_f.w", 0), G("ln_f.b", 0)>>)
    BY OpsOf_headBack, Item5_5, Zenon DEF Run
  <2> QED BY <2>1, RunIs
<1>2. Ops(Place("headBack", 0, 0))[5] = op
  OBVIOUS
<1>3. Fits(op) /\ DOMAIN op.uav = 1 .. 3
  <2>1. Fits(op)
    BY FitsOf_headBack
  <2>2. Len(op.uav) = 3
    BY <1>1, <2>1 DEF Fits, Arities
  <2> QED BY <2>1, <2>2, FitsLens
<1>4. /\ Tmp("xhat_lnf") \in Buffers
      /\ Tmp("lnf_y") \in Buffers
      /\ G("ln_f.w", 0) \in Buffers
      /\ G("ln_f.b", 0) \in Buffers
  BY SharedBuffers, LayerBuffers, HiddenBuffers, GlobalBuffers, ForwardBackwardAssumption
     DEF Shared, PerLayer, LayerParams, GlobalParams
<1>5. op.zero = {}
  BY <1>1
<1>6. /\ In(B, op, 1) = Tensor("ln_f_xhat", 0, t)
      /\ In(B, op, 3) = Tensor("d_ln_f_y", 0, t)
  BY <1>1, <1>4, <1>5, ReadIs
<1>7. /\ Out(B, op, 2) = B[G("ln_f.w", 0)]
      /\ Out(B, op, 3) = B[G("ln_f.b", 0)]
  BY <1>1, <1>4, <1>5, FoundIs
<1>8. /\ Effect(B, op, Tokens(t))[G("ln_f.w", 0)] = B[G("ln_f.w", 0)] (+) Apply("lnGamma", 0,
           <<Tensor("ln_f_xhat", 0, t), Tensor("d_ln_f_y", 0, t)>>)
      /\ Effect(B, op, Tokens(t))[G("ln_f.b", 0)] = B[G("ln_f.b", 0)] (+) Apply("lnBeta", 0,
           <<Tensor("d_ln_f_y", 0, t)>>)
  BY <1>1, <1>3, <1>4, <1>6, <1>7, Ran_lnorm_bwd_params
<1>9. /\ Apply("lnGamma", 0, <<Tensor("ln_f_xhat", 0, t), Tensor("d_ln_f_y", 0, t)>>)
           = Only(Gradient("ln_f.w", 0, t))
      /\ Apply("lnBeta", 0, <<Tensor("d_ln_f_y", 0, t)>>) = Only(Gradient("ln_f.b", 0, t))
  BY NamesHeadEqs
<1>10. /\ Effect(B, op, Tokens(t))[G("ln_f.w", 0)] = B[G("ln_f.w", 0)]
            (+) Only(Gradient("ln_f.w", 0, t))
      /\ Effect(B, op, Tokens(t))[G("ln_f.b", 0)] = B[G("ln_f.b", 0)]
           (+) Only(Gradient("ln_f.b", 0, t))
  BY <1>8, <1>9
<1>11. \A b \in Buffers : b \notin {G("ln_f.w", 0), G("ln_f.b", 0)}
           => Effect(B, op, Tokens(t))[b] = B[b]
  <2> TAKE b \in Buffers
  <2> HAVE b \notin {G("ln_f.w", 0), G("ln_f.b", 0)}
  <2>1. \A k \in DOMAIN op.uav : op.uav[k] # b
    BY <1>1, <1>3, BufferNames
  <2>2. b \notin op.zero
    BY <1>1
  <2> QED BY <1>3, <2>1, <2>2, EffectFrame
<1> QED BY <1>2, <1>10, <1>11 DEF Changes2

LEMMA Does_mlpBack1 ==
    ASSUME NEW l \in Layers, NEW t \in Passes, NEW B, WeightsHeld(B, StepOf(t)),
           B[Act("mlp_gelu", l)] = Tensor("mlp_gelu", l, t),
           B[Tmp("dh")] = DH(l + 1, t)
    PROVE  Changes1(B, Effect(B, Ops(Place("mlpBack", l, 0))[1], Tokens(t)),
                    G("mlp.c_proj.w", l),
                          B[G("mlp.c_proj.w", l)] (+) Only(Gradient("mlp.c_proj.w", l, t)))
<1> PICK op : op = Ops(Place("mlpBack", l, 0))[1]
  OBVIOUS
<1>1. /\ op.cs = "matmul_bwd_dB" /\ op.head = 0 /\ op.zero = {}
      /\ op.srv[1] = Act("mlp_gelu", l) /\ op.srv[2] = Null /\ op.srv[3] = Tmp("dh")
      /\ op.uav[1] = Tmp("loss") /\ op.uav[2] = G("mlp.c_proj.w", l)
  <2>1. op = Run("matmul_bwd_dB", <<Act("mlp_gelu", l), Null, Tmp("dh")>>, {},
            <<Tmp("loss"), G("mlp.c_proj.w", l)>>)
    BY OpsOf_mlpBack, Item9_1, Zenon DEF Run
  <2> QED BY <2>1, RunIs
<1>2. Ops(Place("mlpBack", l, 0))[1] = op
  OBVIOUS
<1>3. Fits(op) /\ DOMAIN op.uav = 1 .. 2
  <2>1. Fits(op)
    BY FitsOf_mlpBack
  <2>2. Len(op.uav) = 2
    BY <1>1, <2>1 DEF Fits, Arities
  <2> QED BY <2>1, <2>2, FitsLens
<1>4. /\ Act("mlp_gelu", l) \in Buffers
      /\ Tmp("dh") \in Buffers
      /\ Tmp("loss") \in Buffers
      /\ G("mlp.c_proj.w", l) \in Buffers
  BY SharedBuffers, LayerBuffers, HiddenBuffers, GlobalBuffers, ForwardBackwardAssumption
     DEF Shared, PerLayer, LayerParams, GlobalParams
<1>5. op.zero = {}
  BY <1>1
<1>6. /\ In(B, op, 1) = Tensor("mlp_gelu", l, t)
      /\ In(B, op, 3) = DH(l + 1, t)
  BY <1>1, <1>4, <1>5, ReadIs
<1>7. /\ Out(B, op, 1) = B[Tmp("loss")]
      /\ Out(B, op, 2) = B[G("mlp.c_proj.w", l)]
  BY <1>1, <1>4, <1>5, FoundIs
<1>8. /\ Effect(B, op, Tokens(t))[Tmp("loss")] = B[Tmp("loss")]
      /\ Effect(B, op, Tokens(t))[G("mlp.c_proj.w", l)] = B[G("mlp.c_proj.w", l)]
           (+) Apply("dB", 0, <<Tensor("mlp_gelu", l, t), DH(l + 1, t)>>)
  BY <1>1, <1>3, <1>4, <1>6, <1>7, Ran_matmul_bwd_dB
<1>9. /\ Apply("dB", 0, <<Tensor("mlp_gelu", l, t), DH(l + 1, t)>>)
           = Only(Gradient("mlp.c_proj.w", l, t))
  BY NamesMlpBackEqs
<1>10. /\ Effect(B, op, Tokens(t))[Tmp("loss")] = B[Tmp("loss")]
      /\ Effect(B, op, Tokens(t))[G("mlp.c_proj.w", l)] = B[G("mlp.c_proj.w", l)]
           (+) Only(Gradient("mlp.c_proj.w", l, t))
  BY <1>8, <1>9
<1>11. \A b \in Buffers : b \notin {Tmp("loss"), G("mlp.c_proj.w", l)}
           => Effect(B, op, Tokens(t))[b] = B[b]
  <2> TAKE b \in Buffers
  <2> HAVE b \notin {Tmp("loss"), G("mlp.c_proj.w", l)}
  <2>1. \A k \in DOMAIN op.uav : op.uav[k] # b
    BY <1>1, <1>3, BufferNames
  <2>2. b \notin op.zero
    BY <1>1
  <2> QED BY <1>3, <2>1, <2>2, EffectFrame
<1>12. \A b \in Buffers : b \notin {G("mlp.c_proj.w", l)} => Effect(B, op, Tokens(t))[b] = B[b]
  BY <1>10, <1>11
<1> QED BY <1>2, <1>10, <1>12 DEF Changes1

LEMMA Does_mlpBack2 ==
    ASSUME NEW l \in Layers, NEW t \in Passes, NEW B, WeightsHeld(B, StepOf(t)),
           B[Tmp("dh")] = DH(l + 1, t)
    PROVE  Changes1(B, Effect(B, Ops(Place("mlpBack", l, 0))[2], Tokens(t)),
                    G("mlp.c_proj.b", l),
                          B[G("mlp.c_proj.b", l)] (+) Only(Gradient("mlp.c_proj.b", l, t)))
<1> PICK op : op = Ops(Place("mlpBack", l, 0))[2]
  OBVIOUS
<1>1. /\ op.cs = "bias_bwd" /\ op.head = 0 /\ op.zero = {}
      /\ op.srv[1] = Tmp("dh")
      /\ op.uav[1] = G("mlp.c_proj.b", l)
  <2>1. op = Run("bias_bwd", <<Tmp("dh")>>, {}, <<G("mlp.c_proj.b", l)>>)
    BY OpsOf_mlpBack, Item9_2, Zenon DEF Run
  <2> QED BY <2>1, RunIs
<1>2. Ops(Place("mlpBack", l, 0))[2] = op
  OBVIOUS
<1>3. Fits(op) /\ DOMAIN op.uav = 1 .. 1
  <2>1. Fits(op)
    BY FitsOf_mlpBack
  <2>2. Len(op.uav) = 1
    BY <1>1, <2>1 DEF Fits, Arities
  <2> QED BY <2>1, <2>2, FitsLens
<1>4. /\ Tmp("dh") \in Buffers
      /\ G("mlp.c_proj.b", l) \in Buffers
  BY SharedBuffers, LayerBuffers, HiddenBuffers, GlobalBuffers, ForwardBackwardAssumption
     DEF Shared, PerLayer, LayerParams, GlobalParams
<1>5. op.zero = {}
  BY <1>1
<1>6. /\ In(B, op, 1) = DH(l + 1, t)
  BY <1>1, <1>4, <1>5, ReadIs
<1>7. /\ Out(B, op, 1) = B[G("mlp.c_proj.b", l)]
  BY <1>1, <1>4, <1>5, FoundIs
<1>8. /\ Effect(B, op, Tokens(t))[G("mlp.c_proj.b", l)] = B[G("mlp.c_proj.b", l)]
           (+) Apply("rows", 0, <<DH(l + 1, t)>>)
  BY <1>1, <1>3, <1>4, <1>6, <1>7, Ran_bias_bwd
<1>9. /\ Apply("rows", 0, <<DH(l + 1, t)>>) = Only(Gradient("mlp.c_proj.b", l, t))
  BY NamesMlpBackEqs
<1>10. /\ Effect(B, op, Tokens(t))[G("mlp.c_proj.b", l)] = B[G("mlp.c_proj.b", l)]
            (+) Only(Gradient("mlp.c_proj.b", l, t))
  BY <1>8, <1>9
<1>11. \A b \in Buffers : b \notin {G("mlp.c_proj.b", l)} => Effect(B, op, Tokens(t))[b] = B[b]
  <2> TAKE b \in Buffers
  <2> HAVE b \notin {G("mlp.c_proj.b", l)}
  <2>1. \A k \in DOMAIN op.uav : op.uav[k] # b
    BY <1>1, <1>3, BufferNames
  <2>2. b \notin op.zero
    BY <1>1
  <2> QED BY <1>3, <2>1, <2>2, EffectFrame
<1> QED BY <1>2, <1>10, <1>11 DEF Changes1

LEMMA Does_mlpBack3 ==
    ASSUME NEW l \in Layers, NEW t \in Passes, NEW B, WeightsHeld(B, StepOf(t)),
           B[Tmp("dh")] = DH(l + 1, t)
    PROVE  Changes1(B, Effect(B, Ops(Place("mlpBack", l, 0))[3], Tokens(t)),
                    Tmp("d_mlp"), Tensor("d_mlp_gelu", l, t))
<1> PICK op : op = Ops(Place("mlpBack", l, 0))[3]
  OBVIOUS
<1>1. /\ op.cs = "matmul_bwd_dA" /\ op.head = 0 /\ op.zero = {Tmp("d_mlp")}
      /\ op.srv[1] = Null /\ op.srv[2] = W("mlp.c_proj.w", l) /\ op.srv[3] = Tmp("dh")
      /\ op.uav[1] = Tmp("d_mlp") /\ op.uav[2] = Tmp("loss")
  <2>1. op = Run("matmul_bwd_dA", <<Null, W("mlp.c_proj.w", l), Tmp("dh")>>, {Tmp("d_mlp")},
            <<Tmp("d_mlp"), Tmp("loss")>>)
    BY OpsOf_mlpBack, Item9_3, Zenon DEF Run
  <2> QED BY <2>1, RunIs
<1>2. Ops(Place("mlpBack", l, 0))[3] = op
  OBVIOUS
<1>3. Fits(op) /\ DOMAIN op.uav = 1 .. 2
  <2>1. Fits(op)
    BY FitsOf_mlpBack
  <2>2. Len(op.uav) = 2
    BY <1>1, <2>1 DEF Fits, Arities
  <2> QED BY <2>1, <2>2, FitsLens
<1>4. /\ W("mlp.c_proj.w", l) \in Buffers
      /\ Tmp("dh") \in Buffers
      /\ Tmp("d_mlp") \in Buffers
      /\ Tmp("loss") \in Buffers
  BY SharedBuffers, LayerBuffers, HiddenBuffers, GlobalBuffers, ForwardBackwardAssumption
     DEF Shared, PerLayer, LayerParams, GlobalParams
<1>5. /\ W("mlp.c_proj.w", l) \notin op.zero
      /\ Tmp("dh") \notin op.zero
  BY <1>1, Tags, Parameters DEF Tmp, AttnCleared, Layers
<1>6. /\ B[W("mlp.c_proj.w", l)] = Weight("mlp.c_proj.w", l, t)
  BY WeightIs DEF LayerParams, GlobalParams
<1>7. /\ In(B, op, 2) = Weight("mlp.c_proj.w", l, t)
      /\ In(B, op, 3) = DH(l + 1, t)
  BY <1>1, <1>4, <1>5, <1>6, ReadIs
<1>8. /\ Out(B, op, 1) = Zero
      /\ Out(B, op, 2) = B[Tmp("loss")]
  BY <1>1, <1>4, <1>5, FoundIs, Tags DEF Tmp
<1>9. /\ Effect(B, op, Tokens(t))[Tmp("d_mlp")] = Zero (+) Apply("dA", 0,
           <<Weight("mlp.c_proj.w", l, t), DH(l + 1, t)>>)
      /\ Effect(B, op, Tokens(t))[Tmp("loss")] = B[Tmp("loss")]
  BY <1>1, <1>3, <1>4, <1>7, <1>8, Ran_matmul_bwd_dA
<1>10. /\ Apply("dA", 0, <<Weight("mlp.c_proj.w", l, t), DH(l + 1, t)>>) = Tensor("d_mlp_gelu",
            l, t)
  BY NamesMlpBackEqs
<1>11. /\ Effect(B, op, Tokens(t))[Tmp("d_mlp")] = Tensor("d_mlp_gelu", l, t)
      /\ Effect(B, op, Tokens(t))[Tmp("loss")] = B[Tmp("loss")]
  BY <1>9, <1>10, ZeroSum DEF Tensor
<1>12. \A b \in Buffers : b \notin {Tmp("d_mlp"), Tmp("loss")} => Effect(B, op, Tokens(t))[b]
           = B[b]
  <2> TAKE b \in Buffers
  <2> HAVE b \notin {Tmp("d_mlp"), Tmp("loss")}
  <2>1. \A k \in DOMAIN op.uav : op.uav[k] # b
    BY <1>1, <1>3, BufferNames
  <2>2. b \notin op.zero
    BY <1>1
  <2> QED BY <1>3, <2>1, <2>2, EffectFrame
<1>13. \A b \in Buffers : b \notin {Tmp("d_mlp")} => Effect(B, op, Tokens(t))[b] = B[b]
  BY <1>11, <1>12
<1> QED BY <1>2, <1>11, <1>13 DEF Changes1

LEMMA Does_mlpBack4 ==
    ASSUME NEW l \in Layers, NEW t \in Passes, NEW B, WeightsHeld(B, StepOf(t)),
           B[Act("mlp_pre", l)] = Tensor("mlp_pre", l, t),
           B[Tmp("d_mlp")] = Tensor("d_mlp_gelu", l, t)
    PROVE  Changes1(B, Effect(B, Ops(Place("mlpBack", l, 0))[4], Tokens(t)),
                    Tmp("d_mlp"), Tensor("d_mlp_pre", l, t))
<1> PICK op : op = Ops(Place("mlpBack", l, 0))[4]
  OBVIOUS
<1>1. /\ op.cs = "gelu_bwd" /\ op.head = 0 /\ op.zero = {}
      /\ op.srv[1] = Act("mlp_pre", l)
      /\ op.uav[1] = Tmp("d_mlp")
  <2>1. op = Run("gelu_bwd", <<Act("mlp_pre", l)>>, {}, <<Tmp("d_mlp")>>)
    BY OpsOf_mlpBack, Item9_4, Zenon DEF Run
  <2> QED BY <2>1, RunIs
<1>2. Ops(Place("mlpBack", l, 0))[4] = op
  OBVIOUS
<1>3. Fits(op) /\ DOMAIN op.uav = 1 .. 1
  <2>1. Fits(op)
    BY FitsOf_mlpBack
  <2>2. Len(op.uav) = 1
    BY <1>1, <2>1 DEF Fits, Arities
  <2> QED BY <2>1, <2>2, FitsLens
<1>4. /\ Act("mlp_pre", l) \in Buffers
      /\ Tmp("d_mlp") \in Buffers
  BY SharedBuffers, LayerBuffers, HiddenBuffers, GlobalBuffers, ForwardBackwardAssumption
     DEF Shared, PerLayer, LayerParams, GlobalParams
<1>5. op.zero = {}
  BY <1>1
<1>6. /\ In(B, op, 1) = Tensor("mlp_pre", l, t)
  BY <1>1, <1>4, <1>5, ReadIs
<1>7. /\ Out(B, op, 1) = Tensor("d_mlp_gelu", l, t)
  BY <1>1, <1>4, <1>5, FoundIs
<1>8. /\ Effect(B, op, Tokens(t))[Tmp("d_mlp")] = Apply("geluBwd", 0,
           <<Tensor("d_mlp_gelu", l, t), Tensor("mlp_pre", l, t)>>)
  BY <1>1, <1>3, <1>4, <1>6, <1>7, Ran_gelu_bwd
<1>9. /\ Apply("geluBwd", 0, <<Tensor("d_mlp_gelu", l, t), Tensor("mlp_pre", l, t)>>)
           = Tensor("d_mlp_pre", l, t)
  BY NamesMlpBackEqs
<1>10. /\ Effect(B, op, Tokens(t))[Tmp("d_mlp")] = Tensor("d_mlp_pre", l, t)
  BY <1>8, <1>9 DEF Tensor
<1>11. \A b \in Buffers : b \notin {Tmp("d_mlp")} => Effect(B, op, Tokens(t))[b] = B[b]
  <2> TAKE b \in Buffers
  <2> HAVE b \notin {Tmp("d_mlp")}
  <2>1. \A k \in DOMAIN op.uav : op.uav[k] # b
    BY <1>1, <1>3, BufferNames
  <2>2. b \notin op.zero
    BY <1>1
  <2> QED BY <1>3, <2>1, <2>2, EffectFrame
<1> QED BY <1>2, <1>10, <1>11 DEF Changes1

LEMMA Does_mlpBack5 ==
    ASSUME NEW l \in Layers, NEW t \in Passes, NEW B, WeightsHeld(B, StepOf(t)),
           B[Act("ln2_y", l)] = Tensor("ln2_y", l, t),
           B[Tmp("d_mlp")] = Tensor("d_mlp_pre", l, t)
    PROVE  Changes1(B, Effect(B, Ops(Place("mlpBack", l, 0))[5], Tokens(t)),
                    G("c_fc.w", l), B[G("c_fc.w", l)] (+) Only(Gradient("c_fc.w", l, t)))
<1> PICK op : op = Ops(Place("mlpBack", l, 0))[5]
  OBVIOUS
<1>1. /\ op.cs = "matmul_bwd_dB" /\ op.head = 0 /\ op.zero = {}
      /\ op.srv[1] = Act("ln2_y", l) /\ op.srv[2] = Null /\ op.srv[3] = Tmp("d_mlp")
      /\ op.uav[1] = Tmp("loss") /\ op.uav[2] = G("c_fc.w", l)
  <2>1. op = Run("matmul_bwd_dB", <<Act("ln2_y", l), Null, Tmp("d_mlp")>>, {},
            <<Tmp("loss"), G("c_fc.w", l)>>)
    BY OpsOf_mlpBack, Item9_5, Zenon DEF Run
  <2> QED BY <2>1, RunIs
<1>2. Ops(Place("mlpBack", l, 0))[5] = op
  OBVIOUS
<1>3. Fits(op) /\ DOMAIN op.uav = 1 .. 2
  <2>1. Fits(op)
    BY FitsOf_mlpBack
  <2>2. Len(op.uav) = 2
    BY <1>1, <2>1 DEF Fits, Arities
  <2> QED BY <2>1, <2>2, FitsLens
<1>4. /\ Act("ln2_y", l) \in Buffers
      /\ Tmp("d_mlp") \in Buffers
      /\ Tmp("loss") \in Buffers
      /\ G("c_fc.w", l) \in Buffers
  BY SharedBuffers, LayerBuffers, HiddenBuffers, GlobalBuffers, ForwardBackwardAssumption
     DEF Shared, PerLayer, LayerParams, GlobalParams
<1>5. op.zero = {}
  BY <1>1
<1>6. /\ In(B, op, 1) = Tensor("ln2_y", l, t)
      /\ In(B, op, 3) = Tensor("d_mlp_pre", l, t)
  BY <1>1, <1>4, <1>5, ReadIs
<1>7. /\ Out(B, op, 1) = B[Tmp("loss")]
      /\ Out(B, op, 2) = B[G("c_fc.w", l)]
  BY <1>1, <1>4, <1>5, FoundIs
<1>8. /\ Effect(B, op, Tokens(t))[Tmp("loss")] = B[Tmp("loss")]
      /\ Effect(B, op, Tokens(t))[G("c_fc.w", l)] = B[G("c_fc.w", l)] (+) Apply("dB", 0,
           <<Tensor("ln2_y", l, t), Tensor("d_mlp_pre", l, t)>>)
  BY <1>1, <1>3, <1>4, <1>6, <1>7, Ran_matmul_bwd_dB
<1>9. /\ Apply("dB", 0, <<Tensor("ln2_y", l, t), Tensor("d_mlp_pre", l, t)>>)
           = Only(Gradient("c_fc.w", l, t))
  BY NamesMlpBackEqs
<1>10. /\ Effect(B, op, Tokens(t))[Tmp("loss")] = B[Tmp("loss")]
      /\ Effect(B, op, Tokens(t))[G("c_fc.w", l)] = B[G("c_fc.w", l)]
           (+) Only(Gradient("c_fc.w", l, t))
  BY <1>8, <1>9
<1>11. \A b \in Buffers : b \notin {Tmp("loss"), G("c_fc.w", l)} => Effect(B, op, Tokens(t))[b]
           = B[b]
  <2> TAKE b \in Buffers
  <2> HAVE b \notin {Tmp("loss"), G("c_fc.w", l)}
  <2>1. \A k \in DOMAIN op.uav : op.uav[k] # b
    BY <1>1, <1>3, BufferNames
  <2>2. b \notin op.zero
    BY <1>1
  <2> QED BY <1>3, <2>1, <2>2, EffectFrame
<1>12. \A b \in Buffers : b \notin {G("c_fc.w", l)} => Effect(B, op, Tokens(t))[b] = B[b]
  BY <1>10, <1>11
<1> QED BY <1>2, <1>10, <1>12 DEF Changes1

LEMMA Does_mlpBack6 ==
    ASSUME NEW l \in Layers, NEW t \in Passes, NEW B, WeightsHeld(B, StepOf(t)),
           B[Tmp("d_mlp")] = Tensor("d_mlp_pre", l, t)
    PROVE  Changes1(B, Effect(B, Ops(Place("mlpBack", l, 0))[6], Tokens(t)),
                    G("c_fc.b", l), B[G("c_fc.b", l)] (+) Only(Gradient("c_fc.b", l, t)))
<1> PICK op : op = Ops(Place("mlpBack", l, 0))[6]
  OBVIOUS
<1>1. /\ op.cs = "bias_bwd" /\ op.head = 0 /\ op.zero = {}
      /\ op.srv[1] = Tmp("d_mlp")
      /\ op.uav[1] = G("c_fc.b", l)
  <2>1. op = Run("bias_bwd", <<Tmp("d_mlp")>>, {}, <<G("c_fc.b", l)>>)
    BY OpsOf_mlpBack, Item9_6, Zenon DEF Run
  <2> QED BY <2>1, RunIs
<1>2. Ops(Place("mlpBack", l, 0))[6] = op
  OBVIOUS
<1>3. Fits(op) /\ DOMAIN op.uav = 1 .. 1
  <2>1. Fits(op)
    BY FitsOf_mlpBack
  <2>2. Len(op.uav) = 1
    BY <1>1, <2>1 DEF Fits, Arities
  <2> QED BY <2>1, <2>2, FitsLens
<1>4. /\ Tmp("d_mlp") \in Buffers
      /\ G("c_fc.b", l) \in Buffers
  BY SharedBuffers, LayerBuffers, HiddenBuffers, GlobalBuffers, ForwardBackwardAssumption
     DEF Shared, PerLayer, LayerParams, GlobalParams
<1>5. op.zero = {}
  BY <1>1
<1>6. /\ In(B, op, 1) = Tensor("d_mlp_pre", l, t)
  BY <1>1, <1>4, <1>5, ReadIs
<1>7. /\ Out(B, op, 1) = B[G("c_fc.b", l)]
  BY <1>1, <1>4, <1>5, FoundIs
<1>8. /\ Effect(B, op, Tokens(t))[G("c_fc.b", l)] = B[G("c_fc.b", l)] (+) Apply("rows", 0,
           <<Tensor("d_mlp_pre", l, t)>>)
  BY <1>1, <1>3, <1>4, <1>6, <1>7, Ran_bias_bwd
<1>9. /\ Apply("rows", 0, <<Tensor("d_mlp_pre", l, t)>>) = Only(Gradient("c_fc.b", l, t))
  BY NamesMlpBackEqs
<1>10. /\ Effect(B, op, Tokens(t))[G("c_fc.b", l)] = B[G("c_fc.b", l)]
            (+) Only(Gradient("c_fc.b", l, t))
  BY <1>8, <1>9
<1>11. \A b \in Buffers : b \notin {G("c_fc.b", l)} => Effect(B, op, Tokens(t))[b] = B[b]
  <2> TAKE b \in Buffers
  <2> HAVE b \notin {G("c_fc.b", l)}
  <2>1. \A k \in DOMAIN op.uav : op.uav[k] # b
    BY <1>1, <1>3, BufferNames
  <2>2. b \notin op.zero
    BY <1>1
  <2> QED BY <1>3, <2>1, <2>2, EffectFrame
<1> QED BY <1>2, <1>10, <1>11 DEF Changes1

LEMMA Does_mlpBack7 ==
    ASSUME NEW l \in Layers, NEW t \in Passes, NEW B, WeightsHeld(B, StepOf(t)),
           B[Tmp("d_mlp")] = Tensor("d_mlp_pre", l, t)
    PROVE  Changes1(B, Effect(B, Ops(Place("mlpBack", l, 0))[7], Tokens(t)),
                    Tmp("d_qkv"), Tensor("d_ln2_y", l, t))
<1> PICK op : op = Ops(Place("mlpBack", l, 0))[7]
  OBVIOUS
<1>1. /\ op.cs = "matmul_bwd_dA" /\ op.head = 0 /\ op.zero = {Tmp("d_qkv")}
      /\ op.srv[1] = Null /\ op.srv[2] = W("c_fc.w", l) /\ op.srv[3] = Tmp("d_mlp")
      /\ op.uav[1] = Tmp("d_qkv") /\ op.uav[2] = Tmp("loss")
  <2>1. op = Run("matmul_bwd_dA", <<Null, W("c_fc.w", l), Tmp("d_mlp")>>, {Tmp("d_qkv")},
            <<Tmp("d_qkv"), Tmp("loss")>>)
    BY OpsOf_mlpBack, Item9_7, Zenon DEF Run
  <2> QED BY <2>1, RunIs
<1>2. Ops(Place("mlpBack", l, 0))[7] = op
  OBVIOUS
<1>3. Fits(op) /\ DOMAIN op.uav = 1 .. 2
  <2>1. Fits(op)
    BY FitsOf_mlpBack
  <2>2. Len(op.uav) = 2
    BY <1>1, <2>1 DEF Fits, Arities
  <2> QED BY <2>1, <2>2, FitsLens
<1>4. /\ W("c_fc.w", l) \in Buffers
      /\ Tmp("d_mlp") \in Buffers
      /\ Tmp("d_qkv") \in Buffers
      /\ Tmp("loss") \in Buffers
  BY SharedBuffers, LayerBuffers, HiddenBuffers, GlobalBuffers, ForwardBackwardAssumption
     DEF Shared, PerLayer, LayerParams, GlobalParams
<1>5. /\ W("c_fc.w", l) \notin op.zero
      /\ Tmp("d_mlp") \notin op.zero
  BY <1>1, Tags, Parameters DEF Tmp, AttnCleared, Layers
<1>6. /\ B[W("c_fc.w", l)] = Weight("c_fc.w", l, t)
  BY WeightIs DEF LayerParams, GlobalParams
<1>7. /\ In(B, op, 2) = Weight("c_fc.w", l, t)
      /\ In(B, op, 3) = Tensor("d_mlp_pre", l, t)
  BY <1>1, <1>4, <1>5, <1>6, ReadIs
<1>8. /\ Out(B, op, 1) = Zero
      /\ Out(B, op, 2) = B[Tmp("loss")]
  BY <1>1, <1>4, <1>5, FoundIs, Tags DEF Tmp
<1>9. /\ Effect(B, op, Tokens(t))[Tmp("d_qkv")] = Zero (+) Apply("dA", 0,
           <<Weight("c_fc.w", l, t), Tensor("d_mlp_pre", l, t)>>)
      /\ Effect(B, op, Tokens(t))[Tmp("loss")] = B[Tmp("loss")]
  BY <1>1, <1>3, <1>4, <1>7, <1>8, Ran_matmul_bwd_dA
<1>10. /\ Apply("dA", 0, <<Weight("c_fc.w", l, t), Tensor("d_mlp_pre", l, t)>>)
            = Tensor("d_ln2_y", l, t)
  BY NamesMlpBackEqs
<1>11. /\ Effect(B, op, Tokens(t))[Tmp("d_qkv")] = Tensor("d_ln2_y", l, t)
      /\ Effect(B, op, Tokens(t))[Tmp("loss")] = B[Tmp("loss")]
  BY <1>9, <1>10, ZeroSum DEF Tensor
<1>12. \A b \in Buffers : b \notin {Tmp("d_qkv"), Tmp("loss")} => Effect(B, op, Tokens(t))[b]
           = B[b]
  <2> TAKE b \in Buffers
  <2> HAVE b \notin {Tmp("d_qkv"), Tmp("loss")}
  <2>1. \A k \in DOMAIN op.uav : op.uav[k] # b
    BY <1>1, <1>3, BufferNames
  <2>2. b \notin op.zero
    BY <1>1
  <2> QED BY <1>3, <2>1, <2>2, EffectFrame
<1>13. \A b \in Buffers : b \notin {Tmp("d_qkv")} => Effect(B, op, Tokens(t))[b] = B[b]
  BY <1>11, <1>12
<1> QED BY <1>2, <1>11, <1>13 DEF Changes1

LEMMA Does_mlpBack8 ==
    ASSUME NEW l \in Layers, NEW t \in Passes, NEW B, WeightsHeld(B, StepOf(t)),
           B[Act("xhat_ln2", l)] = Tensor("ln2_xhat", l, t),
           B[Act("inv_std_ln2", l)] = Tensor("ln2_inv_std", l, t),
           B[Tmp("d_qkv")] = Tensor("d_ln2_y", l, t),
           B[Tmp("dh")] = DH(l + 1, t)
    PROVE  Changes1(B, Effect(B, Ops(Place("mlpBack", l, 0))[8], Tokens(t)),
                    Tmp("dh"), DHMid(l, t))
<1> PICK op : op = Ops(Place("mlpBack", l, 0))[8]
  OBVIOUS
<1>1. /\ op.cs = "lnorm_bwd" /\ op.head = 0 /\ op.zero = {}
      /\ op.srv[1] = Act("xhat_ln2", l) /\ op.srv[2] = W("ln_2.w", l)
           /\ op.srv[3] = Tmp("d_qkv") /\ op.srv[4] = Act("inv_std_ln2", l)
      /\ op.uav[1] = Tmp("dh") /\ op.uav[2] = Null /\ op.uav[3] = Null
  <2>1. op = Run("lnorm_bwd", <<Act("xhat_ln2", l), W("ln_2.w", l), Tmp("d_qkv"),
            Act("inv_std_ln2", l)>>, {}, <<Tmp("dh"), Null, Null>>)
    BY OpsOf_mlpBack, Item9_8, Zenon DEF Run
  <2> QED BY <2>1, RunIs
<1>2. Ops(Place("mlpBack", l, 0))[8] = op
  OBVIOUS
<1>3. Fits(op) /\ DOMAIN op.uav = 1 .. 3
  <2>1. Fits(op)
    BY FitsOf_mlpBack
  <2>2. Len(op.uav) = 3
    BY <1>1, <2>1 DEF Fits, Arities
  <2> QED BY <2>1, <2>2, FitsLens
<1>4. /\ Act("xhat_ln2", l) \in Buffers
      /\ W("ln_2.w", l) \in Buffers
      /\ Tmp("d_qkv") \in Buffers
      /\ Act("inv_std_ln2", l) \in Buffers
      /\ Tmp("dh") \in Buffers
  BY SharedBuffers, LayerBuffers, HiddenBuffers, GlobalBuffers, ForwardBackwardAssumption
     DEF Shared, PerLayer, LayerParams, GlobalParams
<1>5. op.zero = {}
  BY <1>1
<1>6. /\ B[W("ln_2.w", l)] = Weight("ln_2.w", l, t)
  BY WeightIs DEF LayerParams, GlobalParams
<1>7. /\ In(B, op, 1) = Tensor("ln2_xhat", l, t)
      /\ In(B, op, 2) = Weight("ln_2.w", l, t)
      /\ In(B, op, 3) = Tensor("d_ln2_y", l, t)
      /\ In(B, op, 4) = Tensor("ln2_inv_std", l, t)
  BY <1>1, <1>4, <1>5, <1>6, ReadIs
<1>8. /\ Out(B, op, 1) = DH(l + 1, t)
  BY <1>1, <1>4, <1>5, FoundIs
<1>9. /\ Effect(B, op, Tokens(t))[Tmp("dh")] = DH(l + 1, t) (+) Apply("lnDx", 0,
           <<Tensor("ln2_xhat", l, t), Weight("ln_2.w", l, t), Tensor("d_ln2_y", l, t),
               Tensor("ln2_inv_std", l, t)>>)
  BY <1>1, <1>3, <1>4, <1>7, <1>8, Ran_lnorm_bwd
<1>10. /\ Apply("lnDx", 0, <<Tensor("ln2_xhat", l, t), Weight("ln_2.w", l, t),
            Tensor("d_ln2_y", l, t), Tensor("ln2_inv_std", l, t)>>) = Tensor("d_ln2", l, t)
  BY NamesMlpBackEqs
<1>11. /\ Effect(B, op, Tokens(t))[Tmp("dh")] = DHMid(l, t)
  BY <1>9, <1>10 DEF Tensor, DHMid
<1>12. \A b \in Buffers : b \notin {Tmp("dh")} => Effect(B, op, Tokens(t))[b] = B[b]
  <2> TAKE b \in Buffers
  <2> HAVE b \notin {Tmp("dh")}
  <2>1. \A k \in DOMAIN op.uav : op.uav[k] # b
    BY <1>1, <1>3, BufferNames
  <2>2. b \notin op.zero
    BY <1>1
  <2> QED BY <1>3, <2>1, <2>2, EffectFrame
<1> QED BY <1>2, <1>11, <1>12 DEF Changes1

LEMMA Does_mlpBack9 ==
    ASSUME NEW l \in Layers, NEW t \in Passes, NEW B, WeightsHeld(B, StepOf(t)),
           B[Act("xhat_ln2", l)] = Tensor("ln2_xhat", l, t),
           B[Tmp("d_qkv")] = Tensor("d_ln2_y", l, t)
    PROVE  Changes2(B, Effect(B, Ops(Place("mlpBack", l, 0))[9], Tokens(t)),
                    G("ln_2.w", l), B[G("ln_2.w", l)] (+) Only(Gradient("ln_2.w", l, t)),
                          G("ln_2.b", l), B[G("ln_2.b", l)] (+) Only(Gradient("ln_2.b", l, t)))
<1> PICK op : op = Ops(Place("mlpBack", l, 0))[9]
  OBVIOUS
<1>1. /\ op.cs = "lnorm_bwd_params" /\ op.head = 0 /\ op.zero = {}
      /\ op.srv[1] = Act("xhat_ln2", l) /\ op.srv[2] = Null /\ op.srv[3] = Tmp("d_qkv")
           /\ op.srv[4] = Null
      /\ op.uav[1] = Null /\ op.uav[2] = G("ln_2.w", l) /\ op.uav[3] = G("ln_2.b", l)
  <2>1. op = Run("lnorm_bwd_params", <<Act("xhat_ln2", l), Null, Tmp("d_qkv"), Null>>, {},
            <<Null, G("ln_2.w", l), G("ln_2.b", l)>>)
    BY OpsOf_mlpBack, Item9_9, Zenon DEF Run
  <2> QED BY <2>1, RunIs
<1>2. Ops(Place("mlpBack", l, 0))[9] = op
  OBVIOUS
<1>3. Fits(op) /\ DOMAIN op.uav = 1 .. 3
  <2>1. Fits(op)
    BY FitsOf_mlpBack
  <2>2. Len(op.uav) = 3
    BY <1>1, <2>1 DEF Fits, Arities
  <2> QED BY <2>1, <2>2, FitsLens
<1>4. /\ Act("xhat_ln2", l) \in Buffers
      /\ Tmp("d_qkv") \in Buffers
      /\ G("ln_2.w", l) \in Buffers
      /\ G("ln_2.b", l) \in Buffers
  BY SharedBuffers, LayerBuffers, HiddenBuffers, GlobalBuffers, ForwardBackwardAssumption
     DEF Shared, PerLayer, LayerParams, GlobalParams
<1>5. op.zero = {}
  BY <1>1
<1>6. /\ In(B, op, 1) = Tensor("ln2_xhat", l, t)
      /\ In(B, op, 3) = Tensor("d_ln2_y", l, t)
  BY <1>1, <1>4, <1>5, ReadIs
<1>7. /\ Out(B, op, 2) = B[G("ln_2.w", l)]
      /\ Out(B, op, 3) = B[G("ln_2.b", l)]
  BY <1>1, <1>4, <1>5, FoundIs
<1>8. /\ Effect(B, op, Tokens(t))[G("ln_2.w", l)] = B[G("ln_2.w", l)] (+) Apply("lnGamma", 0,
           <<Tensor("ln2_xhat", l, t), Tensor("d_ln2_y", l, t)>>)
      /\ Effect(B, op, Tokens(t))[G("ln_2.b", l)] = B[G("ln_2.b", l)] (+) Apply("lnBeta", 0,
           <<Tensor("d_ln2_y", l, t)>>)
  BY <1>1, <1>3, <1>4, <1>6, <1>7, Ran_lnorm_bwd_params
<1>9. /\ Apply("lnGamma", 0, <<Tensor("ln2_xhat", l, t), Tensor("d_ln2_y", l, t)>>)
           = Only(Gradient("ln_2.w", l, t))
      /\ Apply("lnBeta", 0, <<Tensor("d_ln2_y", l, t)>>) = Only(Gradient("ln_2.b", l, t))
  BY NamesMlpBackEqs
<1>10. /\ Effect(B, op, Tokens(t))[G("ln_2.w", l)] = B[G("ln_2.w", l)]
            (+) Only(Gradient("ln_2.w", l, t))
      /\ Effect(B, op, Tokens(t))[G("ln_2.b", l)] = B[G("ln_2.b", l)]
           (+) Only(Gradient("ln_2.b", l, t))
  BY <1>8, <1>9
<1>11. \A b \in Buffers : b \notin {G("ln_2.w", l), G("ln_2.b", l)}
           => Effect(B, op, Tokens(t))[b] = B[b]
  <2> TAKE b \in Buffers
  <2> HAVE b \notin {G("ln_2.w", l), G("ln_2.b", l)}
  <2>1. \A k \in DOMAIN op.uav : op.uav[k] # b
    BY <1>1, <1>3, BufferNames
  <2>2. b \notin op.zero
    BY <1>1
  <2> QED BY <1>3, <2>1, <2>2, EffectFrame
<1> QED BY <1>2, <1>10, <1>11 DEF Changes2

LEMMA Does_projBack1 ==
    ASSUME NEW l \in Layers, NEW t \in Passes, NEW B, WeightsHeld(B, StepOf(t)),
           B[Act("attn_out", l)] = Tensor("attn_out", l, t),
           B[Tmp("dh")] = DHMid(l, t)
    PROVE  Changes1(B, Effect(B, Ops(Place("projBack", l, 0))[1], Tokens(t)),
                    G("attn.c_proj.w", l),
                          B[G("attn.c_proj.w", l)] (+) Only(Gradient("attn.c_proj.w", l, t)))
<1> PICK op : op = Ops(Place("projBack", l, 0))[1]
  OBVIOUS
<1>1. /\ op.cs = "matmul_bwd_dB" /\ op.head = 0 /\ op.zero = {}
      /\ op.srv[1] = Act("attn_out", l) /\ op.srv[2] = Null /\ op.srv[3] = Tmp("dh")
      /\ op.uav[1] = Tmp("loss") /\ op.uav[2] = G("attn.c_proj.w", l)
  <2>1. op = Run("matmul_bwd_dB", <<Act("attn_out", l), Null, Tmp("dh")>>, {},
            <<Tmp("loss"), G("attn.c_proj.w", l)>>)
    BY OpsOf_projBack, Item3_1, Zenon DEF Run
  <2> QED BY <2>1, RunIs
<1>2. Ops(Place("projBack", l, 0))[1] = op
  OBVIOUS
<1>3. Fits(op) /\ DOMAIN op.uav = 1 .. 2
  <2>1. Fits(op)
    BY FitsOf_projBack
  <2>2. Len(op.uav) = 2
    BY <1>1, <2>1 DEF Fits, Arities
  <2> QED BY <2>1, <2>2, FitsLens
<1>4. /\ Act("attn_out", l) \in Buffers
      /\ Tmp("dh") \in Buffers
      /\ Tmp("loss") \in Buffers
      /\ G("attn.c_proj.w", l) \in Buffers
  BY SharedBuffers, LayerBuffers, HiddenBuffers, GlobalBuffers, ForwardBackwardAssumption
     DEF Shared, PerLayer, LayerParams, GlobalParams
<1>5. op.zero = {}
  BY <1>1
<1>6. /\ In(B, op, 1) = Tensor("attn_out", l, t)
      /\ In(B, op, 3) = DHMid(l, t)
  BY <1>1, <1>4, <1>5, ReadIs
<1>7. /\ Out(B, op, 1) = B[Tmp("loss")]
      /\ Out(B, op, 2) = B[G("attn.c_proj.w", l)]
  BY <1>1, <1>4, <1>5, FoundIs
<1>8. /\ Effect(B, op, Tokens(t))[Tmp("loss")] = B[Tmp("loss")]
      /\ Effect(B, op, Tokens(t))[G("attn.c_proj.w", l)] = B[G("attn.c_proj.w", l)]
           (+) Apply("dB", 0, <<Tensor("attn_out", l, t), DHMid(l, t)>>)
  BY <1>1, <1>3, <1>4, <1>6, <1>7, Ran_matmul_bwd_dB
<1>9. /\ Apply("dB", 0, <<Tensor("attn_out", l, t), DHMid(l, t)>>)
           = Only(Gradient("attn.c_proj.w", l, t))
  BY NamesAttnBackEqs
<1>10. /\ Effect(B, op, Tokens(t))[Tmp("loss")] = B[Tmp("loss")]
      /\ Effect(B, op, Tokens(t))[G("attn.c_proj.w", l)] = B[G("attn.c_proj.w", l)]
           (+) Only(Gradient("attn.c_proj.w", l, t))
  BY <1>8, <1>9
<1>11. \A b \in Buffers : b \notin {Tmp("loss"), G("attn.c_proj.w", l)}
           => Effect(B, op, Tokens(t))[b] = B[b]
  <2> TAKE b \in Buffers
  <2> HAVE b \notin {Tmp("loss"), G("attn.c_proj.w", l)}
  <2>1. \A k \in DOMAIN op.uav : op.uav[k] # b
    BY <1>1, <1>3, BufferNames
  <2>2. b \notin op.zero
    BY <1>1
  <2> QED BY <1>3, <2>1, <2>2, EffectFrame
<1>12. \A b \in Buffers : b \notin {G("attn.c_proj.w", l)} => Effect(B, op, Tokens(t))[b] = B[b]
  BY <1>10, <1>11
<1> QED BY <1>2, <1>10, <1>12 DEF Changes1

LEMMA Does_projBack2 ==
    ASSUME NEW l \in Layers, NEW t \in Passes, NEW B, WeightsHeld(B, StepOf(t)),
           B[Tmp("dh")] = DHMid(l, t)
    PROVE  Changes1(B, Effect(B, Ops(Place("projBack", l, 0))[2], Tokens(t)),
                    G("attn.c_proj.b", l),
                          B[G("attn.c_proj.b", l)] (+) Only(Gradient("attn.c_proj.b", l, t)))
<1> PICK op : op = Ops(Place("projBack", l, 0))[2]
  OBVIOUS
<1>1. /\ op.cs = "bias_bwd" /\ op.head = 0 /\ op.zero = {}
      /\ op.srv[1] = Tmp("dh")
      /\ op.uav[1] = G("attn.c_proj.b", l)
  <2>1. op = Run("bias_bwd", <<Tmp("dh")>>, {}, <<G("attn.c_proj.b", l)>>)
    BY OpsOf_projBack, Item3_2, Zenon DEF Run
  <2> QED BY <2>1, RunIs
<1>2. Ops(Place("projBack", l, 0))[2] = op
  OBVIOUS
<1>3. Fits(op) /\ DOMAIN op.uav = 1 .. 1
  <2>1. Fits(op)
    BY FitsOf_projBack
  <2>2. Len(op.uav) = 1
    BY <1>1, <2>1 DEF Fits, Arities
  <2> QED BY <2>1, <2>2, FitsLens
<1>4. /\ Tmp("dh") \in Buffers
      /\ G("attn.c_proj.b", l) \in Buffers
  BY SharedBuffers, LayerBuffers, HiddenBuffers, GlobalBuffers, ForwardBackwardAssumption
     DEF Shared, PerLayer, LayerParams, GlobalParams
<1>5. op.zero = {}
  BY <1>1
<1>6. /\ In(B, op, 1) = DHMid(l, t)
  BY <1>1, <1>4, <1>5, ReadIs
<1>7. /\ Out(B, op, 1) = B[G("attn.c_proj.b", l)]
  BY <1>1, <1>4, <1>5, FoundIs
<1>8. /\ Effect(B, op, Tokens(t))[G("attn.c_proj.b", l)] = B[G("attn.c_proj.b", l)]
           (+) Apply("rows", 0, <<DHMid(l, t)>>)
  BY <1>1, <1>3, <1>4, <1>6, <1>7, Ran_bias_bwd
<1>9. /\ Apply("rows", 0, <<DHMid(l, t)>>) = Only(Gradient("attn.c_proj.b", l, t))
  BY NamesAttnBackEqs
<1>10. /\ Effect(B, op, Tokens(t))[G("attn.c_proj.b", l)] = B[G("attn.c_proj.b", l)]
            (+) Only(Gradient("attn.c_proj.b", l, t))
  BY <1>8, <1>9
<1>11. \A b \in Buffers : b \notin {G("attn.c_proj.b", l)} => Effect(B, op, Tokens(t))[b] = B[b]
  <2> TAKE b \in Buffers
  <2> HAVE b \notin {G("attn.c_proj.b", l)}
  <2>1. \A k \in DOMAIN op.uav : op.uav[k] # b
    BY <1>1, <1>3, BufferNames
  <2>2. b \notin op.zero
    BY <1>1
  <2> QED BY <1>3, <2>1, <2>2, EffectFrame
<1> QED BY <1>2, <1>10, <1>11 DEF Changes1

LEMMA Does_projBack3 ==
    ASSUME NEW l \in Layers, NEW t \in Passes, NEW B, WeightsHeld(B, StepOf(t)),
           B[Tmp("dh")] = DHMid(l, t)
    PROVE  Changes1(B, Effect(B, Ops(Place("projBack", l, 0))[3], Tokens(t)),
                    Tmp("lnf_y"), Tensor("d_attn_out", l, t))
<1> PICK op : op = Ops(Place("projBack", l, 0))[3]
  OBVIOUS
<1>1. /\ op.cs = "matmul_bwd_dA" /\ op.head = 0 /\ op.zero = {Tmp("lnf_y")}
      /\ op.srv[1] = Null /\ op.srv[2] = W("attn.c_proj.w", l) /\ op.srv[3] = Tmp("dh")
      /\ op.uav[1] = Tmp("lnf_y") /\ op.uav[2] = Tmp("loss")
  <2>1. op = Run("matmul_bwd_dA", <<Null, W("attn.c_proj.w", l), Tmp("dh")>>, {Tmp("lnf_y")},
            <<Tmp("lnf_y"), Tmp("loss")>>)
    BY OpsOf_projBack, Item3_3, Zenon DEF Run
  <2> QED BY <2>1, RunIs
<1>2. Ops(Place("projBack", l, 0))[3] = op
  OBVIOUS
<1>3. Fits(op) /\ DOMAIN op.uav = 1 .. 2
  <2>1. Fits(op)
    BY FitsOf_projBack
  <2>2. Len(op.uav) = 2
    BY <1>1, <2>1 DEF Fits, Arities
  <2> QED BY <2>1, <2>2, FitsLens
<1>4. /\ W("attn.c_proj.w", l) \in Buffers
      /\ Tmp("dh") \in Buffers
      /\ Tmp("lnf_y") \in Buffers
      /\ Tmp("loss") \in Buffers
  BY SharedBuffers, LayerBuffers, HiddenBuffers, GlobalBuffers, ForwardBackwardAssumption
     DEF Shared, PerLayer, LayerParams, GlobalParams
<1>5. /\ W("attn.c_proj.w", l) \notin op.zero
      /\ Tmp("dh") \notin op.zero
  BY <1>1, Tags, Parameters DEF Tmp, AttnCleared, Layers
<1>6. /\ B[W("attn.c_proj.w", l)] = Weight("attn.c_proj.w", l, t)
  BY WeightIs DEF LayerParams, GlobalParams
<1>7. /\ In(B, op, 2) = Weight("attn.c_proj.w", l, t)
      /\ In(B, op, 3) = DHMid(l, t)
  BY <1>1, <1>4, <1>5, <1>6, ReadIs
<1>8. /\ Out(B, op, 1) = Zero
      /\ Out(B, op, 2) = B[Tmp("loss")]
  BY <1>1, <1>4, <1>5, FoundIs, Tags DEF Tmp
<1>9. /\ Effect(B, op, Tokens(t))[Tmp("lnf_y")] = Zero (+) Apply("dA", 0,
           <<Weight("attn.c_proj.w", l, t), DHMid(l, t)>>)
      /\ Effect(B, op, Tokens(t))[Tmp("loss")] = B[Tmp("loss")]
  BY <1>1, <1>3, <1>4, <1>7, <1>8, Ran_matmul_bwd_dA
<1>10. /\ Apply("dA", 0, <<Weight("attn.c_proj.w", l, t), DHMid(l, t)>>) = Tensor("d_attn_out",
            l, t)
  BY NamesAttnBackEqs
<1>11. /\ Effect(B, op, Tokens(t))[Tmp("lnf_y")] = Tensor("d_attn_out", l, t)
      /\ Effect(B, op, Tokens(t))[Tmp("loss")] = B[Tmp("loss")]
  BY <1>9, <1>10, ZeroSum DEF Tensor
<1>12. \A b \in Buffers : b \notin {Tmp("lnf_y"), Tmp("loss")} => Effect(B, op, Tokens(t))[b]
           = B[b]
  <2> TAKE b \in Buffers
  <2> HAVE b \notin {Tmp("lnf_y"), Tmp("loss")}
  <2>1. \A k \in DOMAIN op.uav : op.uav[k] # b
    BY <1>1, <1>3, BufferNames
  <2>2. b \notin op.zero
    BY <1>1
  <2> QED BY <1>3, <2>1, <2>2, EffectFrame
<1>13. \A b \in Buffers : b \notin {Tmp("lnf_y")} => Effect(B, op, Tokens(t))[b] = B[b]
  BY <1>11, <1>12
<1> QED BY <1>2, <1>11, <1>13 DEF Changes1

LEMMA Does_qkvBack1 ==
    ASSUME NEW l \in Layers, NEW t \in Passes, NEW B, WeightsHeld(B, StepOf(t)),
           B[Act("ln1_y", l)] = Tensor("ln1_y", l, t),
           B[Tmp("d_qkv")] = DQkv(l, t)
    PROVE  Changes1(B, Effect(B, Ops(Place("qkvBack", l, 0))[1], Tokens(t)),
                    G("c_attn.w", l), B[G("c_attn.w", l)] (+) Only(Gradient("c_attn.w", l, t)))
<1> PICK op : op = Ops(Place("qkvBack", l, 0))[1]
  OBVIOUS
<1>1. /\ op.cs = "matmul_bwd_dB" /\ op.head = 0 /\ op.zero = {}
      /\ op.srv[1] = Act("ln1_y", l) /\ op.srv[2] = Null /\ op.srv[3] = Tmp("d_qkv")
      /\ op.uav[1] = Tmp("loss") /\ op.uav[2] = G("c_attn.w", l)
  <2>1. op = Run("matmul_bwd_dB", <<Act("ln1_y", l), Null, Tmp("d_qkv")>>, {},
            <<Tmp("loss"), G("c_attn.w", l)>>)
    BY OpsOf_qkvBack, Item5_1, Zenon DEF Run
  <2> QED BY <2>1, RunIs
<1>2. Ops(Place("qkvBack", l, 0))[1] = op
  OBVIOUS
<1>3. Fits(op) /\ DOMAIN op.uav = 1 .. 2
  <2>1. Fits(op)
    BY FitsOf_qkvBack
  <2>2. Len(op.uav) = 2
    BY <1>1, <2>1 DEF Fits, Arities
  <2> QED BY <2>1, <2>2, FitsLens
<1>4. /\ Act("ln1_y", l) \in Buffers
      /\ Tmp("d_qkv") \in Buffers
      /\ Tmp("loss") \in Buffers
      /\ G("c_attn.w", l) \in Buffers
  BY SharedBuffers, LayerBuffers, HiddenBuffers, GlobalBuffers, ForwardBackwardAssumption
     DEF Shared, PerLayer, LayerParams, GlobalParams
<1>5. op.zero = {}
  BY <1>1
<1>6. /\ In(B, op, 1) = Tensor("ln1_y", l, t)
      /\ In(B, op, 3) = DQkv(l, t)
  BY <1>1, <1>4, <1>5, ReadIs
<1>7. /\ Out(B, op, 1) = B[Tmp("loss")]
      /\ Out(B, op, 2) = B[G("c_attn.w", l)]
  BY <1>1, <1>4, <1>5, FoundIs
<1>8. /\ Effect(B, op, Tokens(t))[Tmp("loss")] = B[Tmp("loss")]
      /\ Effect(B, op, Tokens(t))[G("c_attn.w", l)] = B[G("c_attn.w", l)] (+) Apply("dB", 0,
           <<Tensor("ln1_y", l, t), DQkv(l, t)>>)
  BY <1>1, <1>3, <1>4, <1>6, <1>7, Ran_matmul_bwd_dB
<1>9. /\ Apply("dB", 0, <<Tensor("ln1_y", l, t), DQkv(l, t)>>) = Only(Gradient("c_attn.w", l,
           t))
  BY NamesAttnBackEqs
<1>10. /\ Effect(B, op, Tokens(t))[Tmp("loss")] = B[Tmp("loss")]
      /\ Effect(B, op, Tokens(t))[G("c_attn.w", l)] = B[G("c_attn.w", l)]
           (+) Only(Gradient("c_attn.w", l, t))
  BY <1>8, <1>9
<1>11. \A b \in Buffers : b \notin {Tmp("loss"), G("c_attn.w", l)}
           => Effect(B, op, Tokens(t))[b] = B[b]
  <2> TAKE b \in Buffers
  <2> HAVE b \notin {Tmp("loss"), G("c_attn.w", l)}
  <2>1. \A k \in DOMAIN op.uav : op.uav[k] # b
    BY <1>1, <1>3, BufferNames
  <2>2. b \notin op.zero
    BY <1>1
  <2> QED BY <1>3, <2>1, <2>2, EffectFrame
<1>12. \A b \in Buffers : b \notin {G("c_attn.w", l)} => Effect(B, op, Tokens(t))[b] = B[b]
  BY <1>10, <1>11
<1> QED BY <1>2, <1>10, <1>12 DEF Changes1

LEMMA Does_qkvBack2 ==
    ASSUME NEW l \in Layers, NEW t \in Passes, NEW B, WeightsHeld(B, StepOf(t)),
           B[Tmp("d_qkv")] = DQkv(l, t)
    PROVE  Changes1(B, Effect(B, Ops(Place("qkvBack", l, 0))[2], Tokens(t)),
                    G("c_attn.b", l), B[G("c_attn.b", l)] (+) Only(Gradient("c_attn.b", l, t)))
<1> PICK op : op = Ops(Place("qkvBack", l, 0))[2]
  OBVIOUS
<1>1. /\ op.cs = "bias_bwd" /\ op.head = 0 /\ op.zero = {}
      /\ op.srv[1] = Tmp("d_qkv")
      /\ op.uav[1] = G("c_attn.b", l)
  <2>1. op = Run("bias_bwd", <<Tmp("d_qkv")>>, {}, <<G("c_attn.b", l)>>)
    BY OpsOf_qkvBack, Item5_2, Zenon DEF Run
  <2> QED BY <2>1, RunIs
<1>2. Ops(Place("qkvBack", l, 0))[2] = op
  OBVIOUS
<1>3. Fits(op) /\ DOMAIN op.uav = 1 .. 1
  <2>1. Fits(op)
    BY FitsOf_qkvBack
  <2>2. Len(op.uav) = 1
    BY <1>1, <2>1 DEF Fits, Arities
  <2> QED BY <2>1, <2>2, FitsLens
<1>4. /\ Tmp("d_qkv") \in Buffers
      /\ G("c_attn.b", l) \in Buffers
  BY SharedBuffers, LayerBuffers, HiddenBuffers, GlobalBuffers, ForwardBackwardAssumption
     DEF Shared, PerLayer, LayerParams, GlobalParams
<1>5. op.zero = {}
  BY <1>1
<1>6. /\ In(B, op, 1) = DQkv(l, t)
  BY <1>1, <1>4, <1>5, ReadIs
<1>7. /\ Out(B, op, 1) = B[G("c_attn.b", l)]
  BY <1>1, <1>4, <1>5, FoundIs
<1>8. /\ Effect(B, op, Tokens(t))[G("c_attn.b", l)] = B[G("c_attn.b", l)] (+) Apply("rows", 0,
           <<DQkv(l, t)>>)
  BY <1>1, <1>3, <1>4, <1>6, <1>7, Ran_bias_bwd
<1>9. /\ Apply("rows", 0, <<DQkv(l, t)>>) = Only(Gradient("c_attn.b", l, t))
  BY NamesAttnBackEqs
<1>10. /\ Effect(B, op, Tokens(t))[G("c_attn.b", l)] = B[G("c_attn.b", l)]
            (+) Only(Gradient("c_attn.b", l, t))
  BY <1>8, <1>9
<1>11. \A b \in Buffers : b \notin {G("c_attn.b", l)} => Effect(B, op, Tokens(t))[b] = B[b]
  <2> TAKE b \in Buffers
  <2> HAVE b \notin {G("c_attn.b", l)}
  <2>1. \A k \in DOMAIN op.uav : op.uav[k] # b
    BY <1>1, <1>3, BufferNames
  <2>2. b \notin op.zero
    BY <1>1
  <2> QED BY <1>3, <2>1, <2>2, EffectFrame
<1> QED BY <1>2, <1>10, <1>11 DEF Changes1

LEMMA Does_qkvBack3 ==
    ASSUME NEW l \in Layers, NEW t \in Passes, NEW B, WeightsHeld(B, StepOf(t)),
           B[Tmp("d_qkv")] = DQkv(l, t)
    PROVE  Changes1(B, Effect(B, Ops(Place("qkvBack", l, 0))[3], Tokens(t)),
                    Tmp("lnf_y"), Tensor("d_ln1_y", l, t))
<1> PICK op : op = Ops(Place("qkvBack", l, 0))[3]
  OBVIOUS
<1>1. /\ op.cs = "matmul_bwd_dA" /\ op.head = 0 /\ op.zero = {Tmp("lnf_y")}
      /\ op.srv[1] = Null /\ op.srv[2] = W("c_attn.w", l) /\ op.srv[3] = Tmp("d_qkv")
      /\ op.uav[1] = Tmp("lnf_y") /\ op.uav[2] = Tmp("loss")
  <2>1. op = Run("matmul_bwd_dA", <<Null, W("c_attn.w", l), Tmp("d_qkv")>>, {Tmp("lnf_y")},
            <<Tmp("lnf_y"), Tmp("loss")>>)
    BY OpsOf_qkvBack, Item5_3, Zenon DEF Run
  <2> QED BY <2>1, RunIs
<1>2. Ops(Place("qkvBack", l, 0))[3] = op
  OBVIOUS
<1>3. Fits(op) /\ DOMAIN op.uav = 1 .. 2
  <2>1. Fits(op)
    BY FitsOf_qkvBack
  <2>2. Len(op.uav) = 2
    BY <1>1, <2>1 DEF Fits, Arities
  <2> QED BY <2>1, <2>2, FitsLens
<1>4. /\ W("c_attn.w", l) \in Buffers
      /\ Tmp("d_qkv") \in Buffers
      /\ Tmp("lnf_y") \in Buffers
      /\ Tmp("loss") \in Buffers
  BY SharedBuffers, LayerBuffers, HiddenBuffers, GlobalBuffers, ForwardBackwardAssumption
     DEF Shared, PerLayer, LayerParams, GlobalParams
<1>5. /\ W("c_attn.w", l) \notin op.zero
      /\ Tmp("d_qkv") \notin op.zero
  BY <1>1, Tags, Parameters DEF Tmp, AttnCleared, Layers
<1>6. /\ B[W("c_attn.w", l)] = Weight("c_attn.w", l, t)
  BY WeightIs DEF LayerParams, GlobalParams
<1>7. /\ In(B, op, 2) = Weight("c_attn.w", l, t)
      /\ In(B, op, 3) = DQkv(l, t)
  BY <1>1, <1>4, <1>5, <1>6, ReadIs
<1>8. /\ Out(B, op, 1) = Zero
      /\ Out(B, op, 2) = B[Tmp("loss")]
  BY <1>1, <1>4, <1>5, FoundIs, Tags DEF Tmp
<1>9. /\ Effect(B, op, Tokens(t))[Tmp("lnf_y")] = Zero (+) Apply("dA", 0,
           <<Weight("c_attn.w", l, t), DQkv(l, t)>>)
      /\ Effect(B, op, Tokens(t))[Tmp("loss")] = B[Tmp("loss")]
  BY <1>1, <1>3, <1>4, <1>7, <1>8, Ran_matmul_bwd_dA
<1>10. /\ Apply("dA", 0, <<Weight("c_attn.w", l, t), DQkv(l, t)>>) = Tensor("d_ln1_y", l, t)
  BY NamesAttnBackEqs
<1>11. /\ Effect(B, op, Tokens(t))[Tmp("lnf_y")] = Tensor("d_ln1_y", l, t)
      /\ Effect(B, op, Tokens(t))[Tmp("loss")] = B[Tmp("loss")]
  BY <1>9, <1>10, ZeroSum DEF Tensor
<1>12. \A b \in Buffers : b \notin {Tmp("lnf_y"), Tmp("loss")} => Effect(B, op, Tokens(t))[b]
           = B[b]
  <2> TAKE b \in Buffers
  <2> HAVE b \notin {Tmp("lnf_y"), Tmp("loss")}
  <2>1. \A k \in DOMAIN op.uav : op.uav[k] # b
    BY <1>1, <1>3, BufferNames
  <2>2. b \notin op.zero
    BY <1>1
  <2> QED BY <1>3, <2>1, <2>2, EffectFrame
<1>13. \A b \in Buffers : b \notin {Tmp("lnf_y")} => Effect(B, op, Tokens(t))[b] = B[b]
  BY <1>11, <1>12
<1> QED BY <1>2, <1>11, <1>13 DEF Changes1

LEMMA Does_qkvBack4 ==
    ASSUME NEW l \in Layers, NEW t \in Passes, NEW B, WeightsHeld(B, StepOf(t)),
           B[Act("xhat_ln1", l)] = Tensor("ln1_xhat", l, t),
           B[Act("inv_std_ln1", l)] = Tensor("ln1_inv_std", l, t),
           B[Tmp("lnf_y")] = Tensor("d_ln1_y", l, t),
           B[Tmp("dh")] = DHMid(l, t)
    PROVE  Changes1(B, Effect(B, Ops(Place("qkvBack", l, 0))[4], Tokens(t)),
                    Tmp("dh"), DH(l, t))
<1> PICK op : op = Ops(Place("qkvBack", l, 0))[4]
  OBVIOUS
<1>1. /\ op.cs = "lnorm_bwd" /\ op.head = 0 /\ op.zero = {}
      /\ op.srv[1] = Act("xhat_ln1", l) /\ op.srv[2] = W("ln_1.w", l)
           /\ op.srv[3] = Tmp("lnf_y") /\ op.srv[4] = Act("inv_std_ln1", l)
      /\ op.uav[1] = Tmp("dh") /\ op.uav[2] = Null /\ op.uav[3] = Null
  <2>1. op = Run("lnorm_bwd", <<Act("xhat_ln1", l), W("ln_1.w", l), Tmp("lnf_y"),
            Act("inv_std_ln1", l)>>, {}, <<Tmp("dh"), Null, Null>>)
    BY OpsOf_qkvBack, Item5_4, Zenon DEF Run
  <2> QED BY <2>1, RunIs
<1>2. Ops(Place("qkvBack", l, 0))[4] = op
  OBVIOUS
<1>3. Fits(op) /\ DOMAIN op.uav = 1 .. 3
  <2>1. Fits(op)
    BY FitsOf_qkvBack
  <2>2. Len(op.uav) = 3
    BY <1>1, <2>1 DEF Fits, Arities
  <2> QED BY <2>1, <2>2, FitsLens
<1>4. /\ Act("xhat_ln1", l) \in Buffers
      /\ W("ln_1.w", l) \in Buffers
      /\ Tmp("lnf_y") \in Buffers
      /\ Act("inv_std_ln1", l) \in Buffers
      /\ Tmp("dh") \in Buffers
  BY SharedBuffers, LayerBuffers, HiddenBuffers, GlobalBuffers, ForwardBackwardAssumption
     DEF Shared, PerLayer, LayerParams, GlobalParams
<1>5. op.zero = {}
  BY <1>1
<1>6. /\ B[W("ln_1.w", l)] = Weight("ln_1.w", l, t)
  BY WeightIs DEF LayerParams, GlobalParams
<1>7. /\ In(B, op, 1) = Tensor("ln1_xhat", l, t)
      /\ In(B, op, 2) = Weight("ln_1.w", l, t)
      /\ In(B, op, 3) = Tensor("d_ln1_y", l, t)
      /\ In(B, op, 4) = Tensor("ln1_inv_std", l, t)
  BY <1>1, <1>4, <1>5, <1>6, ReadIs
<1>8. /\ Out(B, op, 1) = DHMid(l, t)
  BY <1>1, <1>4, <1>5, FoundIs
<1>9. /\ Effect(B, op, Tokens(t))[Tmp("dh")] = DHMid(l, t) (+) Apply("lnDx", 0,
           <<Tensor("ln1_xhat", l, t), Weight("ln_1.w", l, t), Tensor("d_ln1_y", l, t),
               Tensor("ln1_inv_std", l, t)>>)
  BY <1>1, <1>3, <1>4, <1>7, <1>8, Ran_lnorm_bwd
<1>10. /\ Apply("lnDx", 0, <<Tensor("ln1_xhat", l, t), Weight("ln_1.w", l, t),
            Tensor("d_ln1_y", l, t), Tensor("ln1_inv_std", l, t)>>) = Tensor("d_ln1", l, t)
  BY NamesAttnBackEqs
<1>11. /\ Effect(B, op, Tokens(t))[Tmp("dh")] = DH(l, t)
  BY <1>9, <1>10, DHNext DEF Tensor
<1>12. \A b \in Buffers : b \notin {Tmp("dh")} => Effect(B, op, Tokens(t))[b] = B[b]
  <2> TAKE b \in Buffers
  <2> HAVE b \notin {Tmp("dh")}
  <2>1. \A k \in DOMAIN op.uav : op.uav[k] # b
    BY <1>1, <1>3, BufferNames
  <2>2. b \notin op.zero
    BY <1>1
  <2> QED BY <1>3, <2>1, <2>2, EffectFrame
<1> QED BY <1>2, <1>11, <1>12 DEF Changes1

LEMMA Does_qkvBack5 ==
    ASSUME NEW l \in Layers, NEW t \in Passes, NEW B, WeightsHeld(B, StepOf(t)),
           B[Act("xhat_ln1", l)] = Tensor("ln1_xhat", l, t),
           B[Tmp("lnf_y")] = Tensor("d_ln1_y", l, t)
    PROVE  Changes2(B, Effect(B, Ops(Place("qkvBack", l, 0))[5], Tokens(t)),
                    G("ln_1.w", l), B[G("ln_1.w", l)] (+) Only(Gradient("ln_1.w", l, t)),
                          G("ln_1.b", l), B[G("ln_1.b", l)] (+) Only(Gradient("ln_1.b", l, t)))
<1> PICK op : op = Ops(Place("qkvBack", l, 0))[5]
  OBVIOUS
<1>1. /\ op.cs = "lnorm_bwd_params" /\ op.head = 0 /\ op.zero = {}
      /\ op.srv[1] = Act("xhat_ln1", l) /\ op.srv[2] = Null /\ op.srv[3] = Tmp("lnf_y")
           /\ op.srv[4] = Null
      /\ op.uav[1] = Null /\ op.uav[2] = G("ln_1.w", l) /\ op.uav[3] = G("ln_1.b", l)
  <2>1. op = Run("lnorm_bwd_params", <<Act("xhat_ln1", l), Null, Tmp("lnf_y"), Null>>, {},
            <<Null, G("ln_1.w", l), G("ln_1.b", l)>>)
    BY OpsOf_qkvBack, Item5_5, Zenon DEF Run
  <2> QED BY <2>1, RunIs
<1>2. Ops(Place("qkvBack", l, 0))[5] = op
  OBVIOUS
<1>3. Fits(op) /\ DOMAIN op.uav = 1 .. 3
  <2>1. Fits(op)
    BY FitsOf_qkvBack
  <2>2. Len(op.uav) = 3
    BY <1>1, <2>1 DEF Fits, Arities
  <2> QED BY <2>1, <2>2, FitsLens
<1>4. /\ Act("xhat_ln1", l) \in Buffers
      /\ Tmp("lnf_y") \in Buffers
      /\ G("ln_1.w", l) \in Buffers
      /\ G("ln_1.b", l) \in Buffers
  BY SharedBuffers, LayerBuffers, HiddenBuffers, GlobalBuffers, ForwardBackwardAssumption
     DEF Shared, PerLayer, LayerParams, GlobalParams
<1>5. op.zero = {}
  BY <1>1
<1>6. /\ In(B, op, 1) = Tensor("ln1_xhat", l, t)
      /\ In(B, op, 3) = Tensor("d_ln1_y", l, t)
  BY <1>1, <1>4, <1>5, ReadIs
<1>7. /\ Out(B, op, 2) = B[G("ln_1.w", l)]
      /\ Out(B, op, 3) = B[G("ln_1.b", l)]
  BY <1>1, <1>4, <1>5, FoundIs
<1>8. /\ Effect(B, op, Tokens(t))[G("ln_1.w", l)] = B[G("ln_1.w", l)] (+) Apply("lnGamma", 0,
           <<Tensor("ln1_xhat", l, t), Tensor("d_ln1_y", l, t)>>)
      /\ Effect(B, op, Tokens(t))[G("ln_1.b", l)] = B[G("ln_1.b", l)] (+) Apply("lnBeta", 0,
           <<Tensor("d_ln1_y", l, t)>>)
  BY <1>1, <1>3, <1>4, <1>6, <1>7, Ran_lnorm_bwd_params
<1>9. /\ Apply("lnGamma", 0, <<Tensor("ln1_xhat", l, t), Tensor("d_ln1_y", l, t)>>)
           = Only(Gradient("ln_1.w", l, t))
      /\ Apply("lnBeta", 0, <<Tensor("d_ln1_y", l, t)>>) = Only(Gradient("ln_1.b", l, t))
  BY NamesAttnBackEqs
<1>10. /\ Effect(B, op, Tokens(t))[G("ln_1.w", l)] = B[G("ln_1.w", l)]
            (+) Only(Gradient("ln_1.w", l, t))
      /\ Effect(B, op, Tokens(t))[G("ln_1.b", l)] = B[G("ln_1.b", l)]
           (+) Only(Gradient("ln_1.b", l, t))
  BY <1>8, <1>9
<1>11. \A b \in Buffers : b \notin {G("ln_1.w", l), G("ln_1.b", l)}
           => Effect(B, op, Tokens(t))[b] = B[b]
  <2> TAKE b \in Buffers
  <2> HAVE b \notin {G("ln_1.w", l), G("ln_1.b", l)}
  <2>1. \A k \in DOMAIN op.uav : op.uav[k] # b
    BY <1>1, <1>3, BufferNames
  <2>2. b \notin op.zero
    BY <1>1
  <2> QED BY <1>3, <2>1, <2>2, EffectFrame
<1> QED BY <1>2, <1>10, <1>11 DEF Changes2

LEMMA Does_embedBack1 ==
    ASSUME NEW t \in Passes, NEW B, WeightsHeld(B, StepOf(t)),
           B[Tmp("tokens")] = Tokens(t),
           B[Tmp("dh")] = DH(0, t)
    PROVE  Changes2(B, Effect(B, Ops(Place("embedBack", 0, 0))[1], Tokens(t)),
                    G("wte", 0), B[G("wte", 0)] (+) Only(Gradient("wte:embed", 0, t)),
                          G("wpe", 0), B[G("wpe", 0)] (+) Only(Gradient("wpe", 0, t)))
<1> PICK op : op = Ops(Place("embedBack", 0, 0))[1]
  OBVIOUS
<1>1. /\ op.cs = "embed_bwd" /\ op.head = 0 /\ op.zero = {}
      /\ op.srv[1] = Tmp("tokens") /\ op.srv[2] = Tmp("dh")
      /\ op.uav[1] = G("wte", 0) /\ op.uav[2] = G("wpe", 0)
  <2>1. op = Run("embed_bwd", <<Tmp("tokens"), Tmp("dh")>>, {}, <<G("wte", 0), G("wpe", 0)>>)
    BY OpsOf_embedBack, Item1_1, Zenon DEF Run
  <2> QED BY <2>1, RunIs
<1>2. Ops(Place("embedBack", 0, 0))[1] = op
  OBVIOUS
<1>3. Fits(op) /\ DOMAIN op.uav = 1 .. 2
  <2>1. Fits(op)
    BY FitsOf_embedBack
  <2>2. Len(op.uav) = 2
    BY <1>1, <2>1 DEF Fits, Arities
  <2> QED BY <2>1, <2>2, FitsLens
<1>4. /\ Tmp("tokens") \in Buffers
      /\ Tmp("dh") \in Buffers
      /\ G("wte", 0) \in Buffers
      /\ G("wpe", 0) \in Buffers
  BY SharedBuffers, LayerBuffers, HiddenBuffers, GlobalBuffers, ForwardBackwardAssumption
     DEF Shared, PerLayer, LayerParams, GlobalParams
<1>5. op.zero = {}
  BY <1>1
<1>6. /\ In(B, op, 1) = Tokens(t)
      /\ In(B, op, 2) = DH(0, t)
  BY <1>1, <1>4, <1>5, ReadIs
<1>7. /\ Out(B, op, 1) = B[G("wte", 0)]
      /\ Out(B, op, 2) = B[G("wpe", 0)]
  BY <1>1, <1>4, <1>5, FoundIs
<1>8. /\ Effect(B, op, Tokens(t))[G("wte", 0)] = B[G("wte", 0)] (+) Apply("scatter", 0,
           <<Tokens(t), DH(0, t)>>)
      /\ Effect(B, op, Tokens(t))[G("wpe", 0)] = B[G("wpe", 0)] (+) Apply("addRows", 0,
           <<DH(0, t)>>)
  BY <1>1, <1>3, <1>4, <1>6, <1>7, Ran_embed_bwd
<1>9. /\ Apply("scatter", 0, <<Tokens(t), DH(0, t)>>) = Only(Gradient("wte:embed", 0, t))
      /\ Apply("addRows", 0, <<DH(0, t)>>) = Only(Gradient("wpe", 0, t))
  BY NamesEmbedBackEqs
<1>10. /\ Effect(B, op, Tokens(t))[G("wte", 0)] = B[G("wte", 0)] (+) Only(Gradient("wte:embed",
            0, t))
      /\ Effect(B, op, Tokens(t))[G("wpe", 0)] = B[G("wpe", 0)] (+) Only(Gradient("wpe", 0, t))
  BY <1>8, <1>9
<1>11. \A b \in Buffers : b \notin {G("wte", 0), G("wpe", 0)} => Effect(B, op, Tokens(t))[b]
           = B[b]
  <2> TAKE b \in Buffers
  <2> HAVE b \notin {G("wte", 0), G("wpe", 0)}
  <2>1. \A k \in DOMAIN op.uav : op.uav[k] # b
    BY <1>1, <1>3, BufferNames
  <2>2. b \notin op.zero
    BY <1>1
  <2> QED BY <1>3, <2>1, <2>2, EffectFrame
<1> QED BY <1>2, <1>10, <1>11 DEF Changes2

-----------------------------------------------------------------------------
(* The three passes over a head                                              *)

\* What the gradient of qkv holds grows by one term per pass.
LEMMA HeadGradsGrow ==
    ASSUME NEW l \in Layers, NEW h \in Heads, NEW t
    PROVE  /\ SetToBag(HeadGrads(l, h, 1, t)) (+) Only(Named("dV", l, h, t))
                  = SetToBag(HeadGrads(l, h, 2, t))
           /\ SetToBag(HeadGrads(l, h, 2, t)) (+) Only(Named("dQ", l, h, t))
                  = SetToBag(HeadGrads(l, h, 3, t))
           /\ SetToBag(HeadGrads(l, h, 3, t)) (+) Only(Named("dK", l, h, t))
                  = SetToBag(HeadGrads(l, h + 1, 1, t))
<1> DEFINE A == HeadGrads(l, h, 1, t)
<1>1. h \in Nat
  BY Parameters DEF Heads
<1>2. /\ HeadGrads(l, h, 2, t) = A \cup {Named("dV", l, h, t)}
      /\ HeadGrads(l, h, 3, t) = A \cup {Named("dV", l, h, t)} \cup {Named("dQ", l, h, t)}
  BY DEF HeadGrads
<1>3. HeadGrads(l, h + 1, 1, t) = HeadGrads(l, h, 3, t) \cup {Named("dK", l, h, t)}
  <2>1. 0 .. (h + 1) - 1 = (0 .. h - 1) \cup {h}
    BY <1>1
  <2>2. {Named(n, l, g, t) : n \in {"dQ", "dK", "dV"}, g \in 0 .. (h + 1) - 1}
            = {Named(n, l, g, t) : n \in {"dQ", "dK", "dV"}, g \in 0 .. h - 1}
              \cup {Named("dV", l, h, t)} \cup {Named("dQ", l, h, t)} \cup {Named("dK", l, h,
                  t)}
    BY <2>1
  <2>3. HeadGrads(l, h + 1, 1, t) = {Named(n, l, g, t) : n \in {"dQ", "dK", "dV"},
                    g \in 0 .. (h + 1) - 1}
    BY DEF HeadGrads
  <2>4. A = {Named(n, l, g, t) : n \in {"dQ", "dK", "dV"}, g \in 0 .. h - 1}
    BY DEF HeadGrads
  <2>5. HeadGrads(l, h, 3, t) = A \cup {Named("dV", l, h, t)} \cup {Named("dQ", l, h, t)}
    BY <1>2
  <2> HIDE DEF A
  <2> QED BY <2>2, <2>3, <2>4, <2>5
<1>4. Named("dV", l, h, t) \notin A
  BY NamedInj, <1>1 DEF HeadGrads
<1>5. Named("dQ", l, h, t) \notin HeadGrads(l, h, 2, t)
  BY NamedInj, <1>1 DEF HeadGrads
<1>6. Named("dK", l, h, t) \notin HeadGrads(l, h, 3, t)
  BY NamedInj, <1>1 DEF HeadGrads
<1>7. HeadGrads(l, h, 3, t) = HeadGrads(l, h, 2, t) \cup {Named("dQ", l, h, t)}
  BY <1>2
<1> QED BY <1>2, <1>3, <1>4, <1>5, <1>6, <1>7, AddOnly

\* The gradient of qkv is empty before the first head and whole after the last.
LEMMA HeadGradsEnds ==
    \A l \in Layers : \A t :
        /\ SetToBag(HeadGrads(l, 0, 1, t)) = Zero
        /\ SetToBag(HeadGrads(l, NHead, 1, t)) = DQkv(l, t)
<1> TAKE l \in Layers
<1> TAKE t
<1>1. HeadGrads(l, 0, 1, t) = {}
  BY DEF HeadGrads
<1>2. HeadGrads(l, NHead, 1, t) = {Named(n, l, g, t) : n \in {"dQ", "dK", "dV"}, g \in Heads}
  BY DEF HeadGrads, Heads
<1> QED BY <1>1, <1>2, ZeroIsNone DEF DQkv

\* The three dispatches of a head, as above.
LEMMA Does_attnBack1 ==
    ASSUME NEW l \in Layers, NEW h \in Heads, NEW t \in Passes, NEW B,
           WeightsHeld(B, StepOf(t)),
           B[Act("qkv", l)] = Tensor("qkv", l, t),
           B[Act("P", l)] = Tensor("P", l, t),
           B[Tmp("lnf_y")] = Tensor("d_attn_out", l, t),
           h > 0 => B[Tmp("d_qkv")] = SetToBag(HeadGrads(l, h, 1, t))
    PROVE  Changes3(B, Effect(B, Ops(Place("attnBack", l, h))[1], Tokens(t)),
                    Tmp("d_qkv"), SetToBag(HeadGrads(l, h, 2, t)), Tmp("dP_tmp"),
                            Only(Named("dP", l, h, t)), Tmp("dot_row"), Zero)
<1> PICK op : op = Ops(Place("attnBack", l, h))[1]
  OBVIOUS
<1>1. /\ op.cs = "attn_bwd_dvdp" /\ op.head = h /\ op.zero = AttnCleared(h)
      /\ op.srv[1] = Act("qkv", l) /\ op.srv[2] = Act("P", l) /\ op.srv[3] = Tmp("lnf_y")
      /\ op.uav[1] = Tmp("d_qkv") /\ op.uav[2] = Tmp("dP_tmp") /\ op.uav[3] = Tmp("dot_row")
  <2>1. op = OverHead("attn_bwd_dvdp", h, <<Act("qkv", l), Act("P", l), Tmp("lnf_y")>>,
            AttnCleared(h), <<Tmp("d_qkv"), Tmp("dP_tmp"), Tmp("dot_row")>>)
    BY OpsOf_attnBack, Item3_1, Zenon DEF OverHead
  <2> QED BY <2>1, OverHeadIs
<1>2. Ops(Place("attnBack", l, h))[1] = op
  OBVIOUS
<1>3. Fits(op) /\ DOMAIN op.uav = 1 .. 3
  <2>1. Fits(op)
    BY FitsOf_attnBack
  <2>2. Len(op.uav) = 3
    BY <1>1, <2>1 DEF Fits, Arities
  <2> QED BY <2>1, <2>2, FitsLens
<1>4. /\ Act("qkv", l) \in Buffers
      /\ Act("P", l) \in Buffers
      /\ Tmp("lnf_y") \in Buffers
      /\ Tmp("d_qkv") \in Buffers
      /\ Tmp("dP_tmp") \in Buffers
      /\ Tmp("dot_row") \in Buffers
  BY SharedBuffers, LayerBuffers, HiddenBuffers, GlobalBuffers, ForwardBackwardAssumption
     DEF Shared, PerLayer, LayerParams, GlobalParams
<1>5. /\ Act("qkv", l) \notin op.zero
      /\ Act("P", l) \notin op.zero
      /\ Tmp("lnf_y") \notin op.zero
  BY <1>1, Tags, Parameters DEF Tmp, AttnCleared, Layers
<1>6. /\ In(B, op, 1) = Tensor("qkv", l, t)
      /\ In(B, op, 2) = Tensor("P", l, t)
      /\ In(B, op, 3) = Tensor("d_attn_out", l, t)
  BY <1>1, <1>4, <1>5, ReadIs
<1>7. /\ Out(B, op, 1) = SetToBag(HeadGrads(l, h, 1, t))
      /\ Out(B, op, 2) = Zero
      /\ Out(B, op, 3) = Zero
  <2>1. Tmp("dP_tmp") \in op.zero /\ Tmp("dot_row") \in op.zero /\ (Tmp("d_qkv") \in op.zero
                <=> h = 0)
    BY <1>1, Tags DEF AttnCleared, Tmp
  <2>2. h = 0 \/ h > 0
    BY Parameters DEF Heads
  <2>3. h = 0 => SetToBag(HeadGrads(l, h, 1, t)) = Zero
    BY HeadGradsEnds
  <2> QED BY <1>1, <1>4, <2>1, <2>2, <2>3, FoundIs
<1>8. /\ Effect(B, op, Tokens(t))[Tmp("d_qkv")] = SetToBag(HeadGrads(l, h, 1, t))
           (+) Apply("dV", h, <<Tensor("P", l, t), Tensor("d_attn_out", l, t)>>)
      /\ Effect(B, op, Tokens(t))[Tmp("dP_tmp")] = Apply("dP", h, <<Tensor("d_attn_out", l, t),
           Tensor("qkv", l, t)>>)
      /\ Effect(B, op, Tokens(t))[Tmp("dot_row")] = Zero
  BY <1>1, <1>3, <1>4, <1>6, <1>7, Ran_attn_bwd_dvdp
<1>9. /\ Apply("dV", h, <<Tensor("P", l, t), Tensor("d_attn_out", l, t)>>)
           = Only(Named("dV", l, h, t))
      /\ Apply("dP", h, <<Tensor("d_attn_out", l, t), Tensor("qkv", l, t)>>)
           = Only(Named("dP", l, h, t))
  BY NamesHeadBackEqs
<1>10. /\ Effect(B, op, Tokens(t))[Tmp("d_qkv")] = SetToBag(HeadGrads(l, h, 2, t))
      /\ Effect(B, op, Tokens(t))[Tmp("dP_tmp")] = Only(Named("dP", l, h, t))
      /\ Effect(B, op, Tokens(t))[Tmp("dot_row")] = Zero
  BY <1>8, <1>9, HeadGradsGrow
<1>11. \A b \in Buffers : b \notin {Tmp("d_qkv"), Tmp("dP_tmp"), Tmp("dot_row")}
           => Effect(B, op, Tokens(t))[b] = B[b]
  <2> TAKE b \in Buffers
  <2> HAVE b \notin {Tmp("d_qkv"), Tmp("dP_tmp"), Tmp("dot_row")}
  <2>1. \A k \in DOMAIN op.uav : op.uav[k] # b
    BY <1>1, <1>3, BufferNames
  <2>2. b \notin op.zero
    BY <1>1 DEF AttnCleared
  <2> QED BY <1>3, <2>1, <2>2, EffectFrame
<1> QED BY <1>2, <1>10, <1>11 DEF Changes3

LEMMA Does_attnBack2 ==
    ASSUME NEW l \in Layers, NEW h \in Heads, NEW t \in Passes, NEW B,
           WeightsHeld(B, StepOf(t)),
           B[Act("qkv", l)] = Tensor("qkv", l, t),
           B[Act("P", l)] = Tensor("P", l, t),
           B[Tmp("lnf_y")] = Tensor("d_attn_out", l, t),
           B[Tmp("d_qkv")] = SetToBag(HeadGrads(l, h, 2, t)),
           B[Tmp("dP_tmp")] = Only(Named("dP", l, h, t))
    PROVE  Changes2(B, Effect(B, Ops(Place("attnBack", l, h))[2], Tokens(t)),
                    Tmp("d_qkv"), SetToBag(HeadGrads(l, h, 3, t)), Tmp("dot_row"),
                            Only(Named("dot", l, h, t)))
<1> PICK op : op = Ops(Place("attnBack", l, h))[2]
  OBVIOUS
<1>1. /\ op.cs = "attn_bwd_dq" /\ op.head = h /\ op.zero = {}
      /\ op.srv[1] = Act("qkv", l) /\ op.srv[2] = Act("P", l) /\ op.srv[3] = Tmp("lnf_y")
      /\ op.uav[1] = Tmp("d_qkv") /\ op.uav[2] = Tmp("dP_tmp") /\ op.uav[3] = Tmp("dot_row")
  <2>1. op = OverHead("attn_bwd_dq", h, <<Act("qkv", l), Act("P", l), Tmp("lnf_y")>>, {},
            <<Tmp("d_qkv"), Tmp("dP_tmp"), Tmp("dot_row")>>)
    BY OpsOf_attnBack, Item3_2, Zenon DEF OverHead
  <2> QED BY <2>1, OverHeadIs
<1>2. Ops(Place("attnBack", l, h))[2] = op
  OBVIOUS
<1>3. Fits(op) /\ DOMAIN op.uav = 1 .. 3
  <2>1. Fits(op)
    BY FitsOf_attnBack
  <2>2. Len(op.uav) = 3
    BY <1>1, <2>1 DEF Fits, Arities
  <2> QED BY <2>1, <2>2, FitsLens
<1>4. /\ Act("qkv", l) \in Buffers
      /\ Act("P", l) \in Buffers
      /\ Tmp("lnf_y") \in Buffers
      /\ Tmp("d_qkv") \in Buffers
      /\ Tmp("dP_tmp") \in Buffers
      /\ Tmp("dot_row") \in Buffers
  BY SharedBuffers, LayerBuffers, HiddenBuffers, GlobalBuffers, ForwardBackwardAssumption
     DEF Shared, PerLayer, LayerParams, GlobalParams
<1>5. op.zero = {}
  BY <1>1
<1>6. /\ In(B, op, 1) = Tensor("qkv", l, t)
      /\ In(B, op, 2) = Tensor("P", l, t)
      /\ In(B, op, 3) = Tensor("d_attn_out", l, t)
  BY <1>1, <1>4, <1>5, ReadIs
<1>7. /\ Out(B, op, 1) = SetToBag(HeadGrads(l, h, 2, t))
      /\ Out(B, op, 2) = Only(Named("dP", l, h, t))
      /\ Out(B, op, 3) = B[Tmp("dot_row")]
  BY <1>1, <1>4, <1>5, FoundIs
<1>8. Apply("dot", h, <<Tensor("P", l, t), Only(Named("dP", l, h, t))>>)
                = Only(Named("dot", l, h, t))
  BY NamesHeadBackEqs
<1>9. /\ Effect(B, op, Tokens(t))[Tmp("d_qkv")] = SetToBag(HeadGrads(l, h, 2, t))
           (+) Apply("dQ", h, <<Tensor("P", l, t), Only(Named("dP", l, h, t)),
               Only(Named("dot", l, h, t)), Tensor("qkv", l, t)>>)
      /\ Effect(B, op, Tokens(t))[Tmp("dP_tmp")] = Only(Named("dP", l, h, t))
      /\ Effect(B, op, Tokens(t))[Tmp("dot_row")] = Only(Named("dot", l, h, t))
  <2>1. /\ Effect(B, op, Tokens(t))[Tmp("d_qkv")] = SetToBag(HeadGrads(l, h, 2, t))
             (+) Apply("dQ", h, <<Tensor("P", l, t), Only(Named("dP", l, h, t)),
                 Apply("dot", h, <<Tensor("P", l, t), Only(Named("dP", l, h, t))>>),
                           Tensor("qkv", l, t)>>)
        /\ Effect(B, op, Tokens(t))[Tmp("dP_tmp")] = Only(Named("dP", l, h, t))
        /\ Effect(B, op, Tokens(t))[Tmp("dot_row")] = Apply("dot", h,
             <<Tensor("P", l, t), Only(Named("dP", l, h, t))>>)
    BY <1>1, <1>3, <1>4, <1>6, <1>7, Ran_attn_bwd_dq
  <2> QED BY <2>1, <1>8
<1>10. /\ Apply("dQ", h, <<Tensor("P", l, t), Only(Named("dP", l, h, t)),
            Only(Named("dot", l, h, t)), Tensor("qkv", l, t)>>) = Only(Named("dQ", l, h, t))
  BY NamesHeadBackEqs
<1>11. /\ Effect(B, op, Tokens(t))[Tmp("d_qkv")] = SetToBag(HeadGrads(l, h, 3, t))
      /\ Effect(B, op, Tokens(t))[Tmp("dP_tmp")] = B[Tmp("dP_tmp")]
      /\ Effect(B, op, Tokens(t))[Tmp("dot_row")] = Only(Named("dot", l, h, t))
  BY <1>9, <1>10, HeadGradsGrow
<1>12. \A b \in Buffers : b \notin {Tmp("d_qkv"), Tmp("dP_tmp"), Tmp("dot_row")}
           => Effect(B, op, Tokens(t))[b] = B[b]
  <2> TAKE b \in Buffers
  <2> HAVE b \notin {Tmp("d_qkv"), Tmp("dP_tmp"), Tmp("dot_row")}
  <2>1. \A k \in DOMAIN op.uav : op.uav[k] # b
    BY <1>1, <1>3, BufferNames
  <2>2. b \notin op.zero
    BY <1>1 DEF AttnCleared
  <2> QED BY <1>3, <2>1, <2>2, EffectFrame
<1>13. \A b \in Buffers : b \notin {Tmp("d_qkv"), Tmp("dot_row")}
           => Effect(B, op, Tokens(t))[b] = B[b]
  BY <1>11, <1>12
<1> QED BY <1>2, <1>11, <1>13 DEF Changes2

LEMMA Does_attnBack3 ==
    ASSUME NEW l \in Layers, NEW h \in Heads, NEW t \in Passes, NEW B,
           WeightsHeld(B, StepOf(t)),
           B[Act("qkv", l)] = Tensor("qkv", l, t),
           B[Act("P", l)] = Tensor("P", l, t),
           B[Tmp("lnf_y")] = Tensor("d_attn_out", l, t),
           B[Tmp("d_qkv")] = SetToBag(HeadGrads(l, h, 3, t)),
           B[Tmp("dP_tmp")] = Only(Named("dP", l, h, t)),
           B[Tmp("dot_row")] = Only(Named("dot", l, h, t))
    PROVE  Changes1(B, Effect(B, Ops(Place("attnBack", l, h))[3], Tokens(t)),
                    Tmp("d_qkv"), SetToBag(HeadGrads(l, h + 1, 1, t)))
<1> PICK op : op = Ops(Place("attnBack", l, h))[3]
  OBVIOUS
<1>1. /\ op.cs = "attn_bwd_dk" /\ op.head = h /\ op.zero = {}
      /\ op.srv[1] = Act("qkv", l) /\ op.srv[2] = Act("P", l) /\ op.srv[3] = Tmp("lnf_y")
      /\ op.uav[1] = Tmp("d_qkv") /\ op.uav[2] = Tmp("dP_tmp") /\ op.uav[3] = Tmp("dot_row")
  <2>1. op = OverHead("attn_bwd_dk", h, <<Act("qkv", l), Act("P", l), Tmp("lnf_y")>>, {},
            <<Tmp("d_qkv"), Tmp("dP_tmp"), Tmp("dot_row")>>)
    BY OpsOf_attnBack, Item3_3, Zenon DEF OverHead
  <2> QED BY <2>1, OverHeadIs
<1>2. Ops(Place("attnBack", l, h))[3] = op
  OBVIOUS
<1>3. Fits(op) /\ DOMAIN op.uav = 1 .. 3
  <2>1. Fits(op)
    BY FitsOf_attnBack
  <2>2. Len(op.uav) = 3
    BY <1>1, <2>1 DEF Fits, Arities
  <2> QED BY <2>1, <2>2, FitsLens
<1>4. /\ Act("qkv", l) \in Buffers
      /\ Act("P", l) \in Buffers
      /\ Tmp("lnf_y") \in Buffers
      /\ Tmp("d_qkv") \in Buffers
      /\ Tmp("dP_tmp") \in Buffers
      /\ Tmp("dot_row") \in Buffers
  BY SharedBuffers, LayerBuffers, HiddenBuffers, GlobalBuffers, ForwardBackwardAssumption
     DEF Shared, PerLayer, LayerParams, GlobalParams
<1>5. op.zero = {}
  BY <1>1
<1>6. /\ In(B, op, 1) = Tensor("qkv", l, t)
      /\ In(B, op, 2) = Tensor("P", l, t)
      /\ In(B, op, 3) = Tensor("d_attn_out", l, t)
  BY <1>1, <1>4, <1>5, ReadIs
<1>7. /\ Out(B, op, 1) = SetToBag(HeadGrads(l, h, 3, t))
      /\ Out(B, op, 2) = Only(Named("dP", l, h, t))
      /\ Out(B, op, 3) = Only(Named("dot", l, h, t))
  BY <1>1, <1>4, <1>5, FoundIs
<1>8. /\ Effect(B, op, Tokens(t))[Tmp("d_qkv")] = SetToBag(HeadGrads(l, h, 3, t))
           (+) Apply("dK", h, <<Tensor("P", l, t), Only(Named("dP", l, h, t)),
               Only(Named("dot", l, h, t)), Tensor("qkv", l, t)>>)
      /\ Effect(B, op, Tokens(t))[Tmp("dP_tmp")] = Only(Named("dP", l, h, t))
      /\ Effect(B, op, Tokens(t))[Tmp("dot_row")] = Only(Named("dot", l, h, t))
  BY <1>1, <1>3, <1>4, <1>6, <1>7, Ran_attn_bwd_dk
<1>9. /\ Apply("dK", h, <<Tensor("P", l, t), Only(Named("dP", l, h, t)),
           Only(Named("dot", l, h, t)), Tensor("qkv", l, t)>>) = Only(Named("dK", l, h, t))
  BY NamesHeadBackEqs
<1>10. /\ Effect(B, op, Tokens(t))[Tmp("d_qkv")] = SetToBag(HeadGrads(l, h + 1, 1, t))
      /\ Effect(B, op, Tokens(t))[Tmp("dP_tmp")] = B[Tmp("dP_tmp")]
      /\ Effect(B, op, Tokens(t))[Tmp("dot_row")] = B[Tmp("dot_row")]
  BY <1>8, <1>9, HeadGradsGrow
<1>11. \A b \in Buffers : b \notin {Tmp("d_qkv"), Tmp("dP_tmp"), Tmp("dot_row")}
           => Effect(B, op, Tokens(t))[b] = B[b]
  <2> TAKE b \in Buffers
  <2> HAVE b \notin {Tmp("d_qkv"), Tmp("dP_tmp"), Tmp("dot_row")}
  <2>1. \A k \in DOMAIN op.uav : op.uav[k] # b
    BY <1>1, <1>3, BufferNames
  <2>2. b \notin op.zero
    BY <1>1 DEF AttnCleared
  <2> QED BY <1>3, <2>1, <2>2, EffectFrame
<1>12. \A b \in Buffers : b \notin {Tmp("d_qkv")} => Effect(B, op, Tokens(t))[b] = B[b]
  BY <1>10, <1>11
<1> QED BY <1>2, <1>10, <1>12 DEF Changes1
=============================================================================
