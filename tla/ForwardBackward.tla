--------------------------- MODULE ForwardBackward ---------------------------
(* What one sequence contributes to the gradients, as the CPU path computes  *)
(* it (native/gpu_trainer/gpt2_trainer.cpp, forwardBackwardCPU).  Numbers are*)
(* left out: a tensor is named by the statement that computes it, its layer, *)
(* its head and its sequence, and every statement is an equation             *)
(*     name = operation(contents, ...)                                       *)
(* over the contents of the arrays it reads.  An array that is only added to *)
(* (a residual, a gradient) holds the bag of what was added.                 *)
EXTENDS Integers, Sequences, FiniteSets, Bags

CONSTANTS
    NLayer,            \* model_cfg_.n_layer
    NHead,             \* model_cfg_.n_head
    NSeq,              \* sequences in the data file
    MaxSteps           \* cfg_.max_steps

ASSUME ForwardBackwardAssumption ==
    {NLayer, NHead, NSeq, MaxSteps} \subseteq Nat \ {0}

Layers == 0..(NLayer - 1)
Heads == 0..(NHead - 1)

\* a sequence as one step sees it: steps and sequences from 0
Passes == 0..(MaxSteps * NSeq - 1)
Pass(step, seq) == step * NSeq + seq
StepOf(t) == t \div NSeq

GlobalParams == {"wte", "wpe", "ln_f.w", "ln_f.b"}
LayerParams ==
    {"ln_1.w", "ln_1.b", "c_attn.w", "c_attn.b", "attn.c_proj.w", "attn.c_proj.b",
     "ln_2.w", "ln_2.b", "c_fc.w", "c_fc.b", "mlp.c_proj.w", "mlp.c_proj.b"}
Params == (GlobalParams \X {0}) \cup (LayerParams \X Layers)

Named(name, l, h, t) == <<name, l, h, t>>
Only(v) == SetToBag({v})

Tensor(name, l, t) == Only(Named(name, l, 0, t))
Tokens(t) == Tensor("tokens", 0, t)
\* the weights a pass reads are those of its step
Weight(p, l, t) == Only(Named(p, l, 0, StepOf(t)))

\* "head" is 0 for an operation over all heads
Equation(name, l, h, t, op, args) ==
    [value |-> Named(name, l, h, t), key |-> <<op, h, args>>]
Eq(name, l, t, op, args) == Equation(name, l, 0, t, op, args)

\* What pass t adds to the gradient of p, which is no head's and not p itself.
Gradient(p, l, t) == Named(p, l, -1, t)
GradientEq(p, l, t, op, args) == [value |-> Gradient(p, l, t), key |-> <<op, 0, args>>]

-----------------------------------------------------------------------------
(* Forward                                                                   *)

\* hidden before layer l, and between its two residuals
Hidden(l, t) ==
    SetToBag({Named("embed", 0, 0, t)}
             \cup {Named(n, k, 0, t) : n \in {"attn_proj", "mlp_out"}, k \in 0..(l - 1)})
HiddenMid(l, t) == Hidden(l, t) (+) Tensor("attn_proj", l, t)

LayerNormEqs(y, xhat, istd, l, t, x, gamma, beta) ==
    {Eq(y, l, t, "lnY", <<x, gamma, beta>>),
     Eq(xhat, l, t, "lnXhat", <<x>>), Eq(istd, l, t, "lnInvStd", <<x>>)}

ForwardEqs(l, t) ==
    LET T(n) == Tensor(n, l, t)
        W(p) == Weight(p, l, t)
    IN  LayerNormEqs("ln1_y", "ln1_xhat", "ln1_inv_std", l, t,
                     Hidden(l, t), W("ln_1.w"), W("ln_1.b"))
        \cup LayerNormEqs("ln2_y", "ln2_xhat", "ln2_inv_std", l, t,
                          HiddenMid(l, t), W("ln_2.w"), W("ln_2.b"))
        \cup {Eq("qkv", l, t, "linear", <<T("ln1_y"), W("c_attn.w"), W("c_attn.b")>>),
              Eq("P", l, t, "softmax", <<T("qkv")>>),
              Eq("attn_out", l, t, "attend", <<T("qkv")>>),
              Eq("attn_proj", l, t, "linear",
                 <<T("attn_out"), W("attn.c_proj.w"), W("attn.c_proj.b")>>),
              Eq("mlp_pre", l, t, "linear", <<T("ln2_y"), W("c_fc.w"), W("c_fc.b")>>),
              Eq("mlp_gelu", l, t, "gelu", <<T("mlp_pre")>>),
              Eq("mlp_out", l, t, "linear",
                 <<T("mlp_gelu"), W("mlp.c_proj.w"), W("mlp.c_proj.b")>>)}

EmbedEqs(t) ==
    {Eq("embed", 0, t, "embed", <<Tokens(t), Weight("wte", 0, t), Weight("wpe", 0, t)>>)}

-----------------------------------------------------------------------------
(* Loss, head and final norm; "dh" is the gradient into hidden               *)

HeadEqs(t) ==
    LET T(n) == Tensor(n, 0, t)
        W(p) == Weight(p, 0, t)
    IN  LayerNormEqs("ln_f_y", "ln_f_xhat", "ln_f_inv_std", 0, t,
                     Hidden(NLayer, t), W("ln_f.w"), W("ln_f.b"))
        \cup {Eq("logits", 0, t, "lmHead", <<T("ln_f_y"), W("wte")>>),
              Eq("loss", 0, t, "loss", <<T("logits"), Tokens(t)>>),
              Eq("dlogits", 0, t, "dlogits", <<T("logits"), Tokens(t)>>),
              GradientEq("wte:head", 0, t, "column", <<T("dlogits"), T("ln_f_y")>>),
              Eq("d_ln_f_y", 0, t, "row", <<T("dlogits"), W("wte")>>),
              Eq("d_ln_f", 0, t, "lnDx",
                 <<T("ln_f_xhat"), W("ln_f.w"), T("d_ln_f_y"), T("ln_f_inv_std")>>),
              GradientEq("ln_f.w", 0, t, "lnGamma", <<T("ln_f_xhat"), T("d_ln_f_y")>>),
              GradientEq("ln_f.b", 0, t, "lnBeta", <<T("d_ln_f_y")>>)}

\* dh above layer l, and between the two halves of layer l
DH(l, t) ==
    SetToBag({Named("d_ln_f", 0, 0, t)}
             \cup {Named(n, k, 0, t) : n \in {"d_ln1", "d_ln2"}, k \in l..(NLayer - 1)})
DHMid(l, t) == DH(l + 1, t) (+) Tensor("d_ln2", l, t)

MlpBackEqs(l, t) ==
    LET T(n) == Tensor(n, l, t)
        W(p) == Weight(p, l, t)
        dh == DH(l + 1, t)
    IN  {GradientEq("mlp.c_proj.w", l, t, "dB", <<T("mlp_gelu"), dh>>),
         GradientEq("mlp.c_proj.b", l, t, "rows", <<dh>>),
         Eq("d_mlp_gelu", l, t, "dA", <<W("mlp.c_proj.w"), dh>>),
         Eq("d_mlp_pre", l, t, "geluBwd", <<T("d_mlp_gelu"), T("mlp_pre")>>),
         GradientEq("c_fc.w", l, t, "dB", <<T("ln2_y"), T("d_mlp_pre")>>),
         GradientEq("c_fc.b", l, t, "rows", <<T("d_mlp_pre")>>),
         Eq("d_ln2_y", l, t, "dA", <<W("c_fc.w"), T("d_mlp_pre")>>),
         Eq("d_ln2", l, t, "lnDx",
            <<T("ln2_xhat"), W("ln_2.w"), T("d_ln2_y"), T("ln2_inv_std")>>),
         GradientEq("ln_2.w", l, t, "lnGamma", <<T("ln2_xhat"), T("d_ln2_y")>>),
         GradientEq("ln_2.b", l, t, "lnBeta", <<T("d_ln2_y")>>)}

HeadBackEqs(l, h, t) ==
    LET T(n) == Tensor(n, l, t)
        OfHead(n) == Only(Named(n, l, h, t))
        He(n, op, args) == Equation(n, l, h, t, op, args)
    IN  {He("dV", "dV", <<T("P"), T("d_attn_out")>>),
         He("dP", "dP", <<T("d_attn_out"), T("qkv")>>),
         He("dot", "dot", <<T("P"), OfHead("dP")>>),
         He("dQ", "dQ", <<T("P"), OfHead("dP"), OfHead("dot"), T("qkv")>>),
         He("dK", "dK", <<T("P"), OfHead("dP"), OfHead("dot"), T("qkv")>>)}

DQkv(l, t) == SetToBag({Named(n, l, h, t) : n \in {"dQ", "dK", "dV"}, h \in Heads})

AttnBackEqs(l, t) ==
    LET T(n) == Tensor(n, l, t)
        W(p) == Weight(p, l, t)
        dh == DHMid(l, t)
    IN  {GradientEq("attn.c_proj.w", l, t, "dB", <<T("attn_out"), dh>>),
         GradientEq("attn.c_proj.b", l, t, "rows", <<dh>>),
         Eq("d_attn_out", l, t, "dA", <<W("attn.c_proj.w"), dh>>),
         GradientEq("c_attn.w", l, t, "dB", <<T("ln1_y"), DQkv(l, t)>>),
         GradientEq("c_attn.b", l, t, "rows", <<DQkv(l, t)>>),
         Eq("d_ln1_y", l, t, "dA", <<W("c_attn.w"), DQkv(l, t)>>),
         Eq("d_ln1", l, t, "lnDx",
            <<T("ln1_xhat"), W("ln_1.w"), T("d_ln1_y"), T("ln1_inv_std")>>),
         GradientEq("ln_1.w", l, t, "lnGamma", <<T("ln1_xhat"), T("d_ln1_y")>>),
         GradientEq("ln_1.b", l, t, "lnBeta", <<T("d_ln1_y")>>)}
        \cup UNION {HeadBackEqs(l, h, t) : h \in Heads}

EmbedBackEqs(t) ==
    {GradientEq("wpe", 0, t, "addRows", <<DH(0, t)>>),
     GradientEq("wte:embed", 0, t, "scatter", <<Tokens(t), DH(0, t)>>)}

-----------------------------------------------------------------------------

Equations ==
    UNION {EmbedEqs(t) \cup HeadEqs(t) \cup EmbedBackEqs(t)
           \cup UNION {ForwardEqs(l, t) \cup MlpBackEqs(l, t) \cup AttnBackEqs(l, t)
                       : l \in Layers}
           : t \in Passes}

\* the name of what an operation makes of the contents it reads
NameOf == [k \in {e.key : e \in Equations} |->
               (CHOOSE e \in Equations : e.key = k).value]

Unknown == Named("unknown", 0, 0, 0)

Apply(op, h, args) ==
    Only(IF <<op, h, args>> \in DOMAIN NameOf THEN NameOf[<<op, h, args>>]
                                              ELSE Unknown)

\* what pass t adds to the gradient of a parameter
Contribution(param, t) ==
    LET parts == IF param[1] = "wte" THEN {"wte:head", "wte:embed"} ELSE {param[1]}
    IN  SetToBag({Gradient(n, param[2], t) : n \in parts})
=============================================================================
