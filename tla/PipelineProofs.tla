--------------------------- MODULE PipelineProofs ---------------------------
(* The DX12 inference pipeline.  First the safety of the generation lifecycle *)
(* (GenSession), and that it implements GenPipeline, for any number of        *)
(* clients, layers and calls and any prompt and cache lengths; then that      *)
(* nothing is reused early (PipelineSync) for one thread, any ring of frames  *)
(* and any set of staging slots.                                              *)
EXTENDS GenSession, PipelineSync, TLAPS, FiniteSetTheorems

-----------------------------------------------------------------------------
(* The generation lifecycle.                                                  *)

Claiming == {"clear", "join", "spawn"}
Claimers == {c \in Clients : client[c].pc \in Claiming}
LiveThreads == {t \in GenThreads : Live(t)}

\* running_ is the lock: one client that has it and no thread yet, or the
\* thread spawned last.
Single ==
    /\ \A c, d \in Claimers : c = d
    /\ \A t \in LiveThreads : t = spawned
    /\ Claimers = {} \/ LiveThreads = {}
    /\ running <=> Claimers # {} \/ LiveThreads # {}
    /\ Claimers # {} => spawned < MaxCalls
    /\ \A t \in GenThreads : t > spawned => gen[t].pc = "unborn"
    /\ \A c \in Clients : client[c].pc = "assign" => client[c].thread \in 1 .. spawned

\* The sequence has grown by the tokens sent, from a prompt that fits.
Budget(g) ==
    /\ g.sent <= g.maxNew /\ g.len <= MaxSeq + g.sent
    /\ g.pc = "layers" => g.sent = 0
    /\ g.pc = "sample" => g.sent < g.maxNew
    /\ g.pc = "embed" => g.len \in 1 .. MaxSeq

BudgetHeld == \A t \in GenThreads : Budget(gen[t])

GInv == SessionTypeOK /\ Single /\ BudgetHeld /\ KvInBounds /\ WeightsBeforeUse

-----------------------------------------------------------------------------
(* The position arithmetic in uint32_t.                                       *)

LEMMA ModBelow == ASSUME NEW W \in Nat, NEW n \in Nat, n < W PROVE n % W = n
OBVIOUS

LEMMA ModPred ==
    ASSUME NEW W \in Nat, NEW n \in Nat, n < W, n > 0 PROVE (n + W - 1) % W = n - 1
OBVIOUS

LEMMA ModSuccPred ==
    ASSUME NEW W \in Nat, NEW n \in Nat, n < W PROVE (((n + W - 1) % W) + 1) % W = n
OBVIOUS

\* The bound test sees the old length, the wrapped position of the empty
\* prompt included.
LEMMA SeqFullMeaning ==
    ASSUME NEW len \in Nat, len <= MaxSeq + MaxNew
    PROVE  SeqFull(len) <=> len >= MaxSeq
BY ModSuccPred, GenSessionAssumption DEF SeqFull, Pos

LEMMA EmbedPosition ==
    ASSUME NEW len \in 1 .. MaxSeq
    PROVE  (Pos(len - 1) + 1) % WordSize = len - 1
BY ModSuccPred, GenSessionAssumption DEF Pos

-----------------------------------------------------------------------------
(* The records of clients and threads.                                        *)

LEMMA ClientUpdate ==
    ASSUME NEW r \in ClientRec, NEW p \in {"out", "clear", "join", "spawn", "assign"},
           NEW n \in 0 .. MaxCalls
    PROVE  [r EXCEPT !.pc = p, !.thread = n] \in ClientRec
BY DEF ClientRec

LEMMA GenUpdate ==
    ASSUME NEW r \in GenRec, NEW n \in 0 .. (MaxSeq + MaxNew), NEW m \in 0 .. MaxNew,
           NEW p \in {"unborn", "layers", "top", "sample", "embed", "end", "done"}
    PROVE  [r EXCEPT !.len = n, !.sent = m, !.pc = p] \in GenRec
BY DEF GenRec

-----------------------------------------------------------------------------
(* Steps of a client: the lock's owner changes hands.                         *)

LEMMA ClaimSafe ==
    ASSUME GInv, NEW c \in Clients, NEW len \in Prompts, NEW n \in 0 .. MaxNew,
           Claim(c, len, n)
    PROVE  GInv'
<1>1. client' = [client EXCEPT ![c] = [pc |-> "clear", len |-> len,
                                       maxNew |-> n, thread |-> 0]]
    BY DEF Claim
<1>2. SessionTypeOK'
    <2>1. client' \in [Clients -> ClientRec]
        BY <1>1, GenSessionAssumption DEF GInv, SessionTypeOK, ClientRec
    <2> QED
        BY <2>1 DEF Claim, GInv, SessionTypeOK
<1>3. Claimers = {} /\ LiveThreads = {} /\ ~running
    BY DEF Claim, GInv, Single
<1>4. Claimers' = {c} /\ LiveThreads' = {}
    <2>1. \A d \in Clients : client'[d].pc \in Claiming <=> d = c
        BY <1>1, <1>3 DEF Claimers, Claiming, GInv, SessionTypeOK
    <2> QED
        BY <1>3, <2>1 DEF Claim, Claimers, LiveThreads, Live
<1>5. spawned < MaxCalls
    <2>1. {d \in Clients : client[d].pc \in {"clear", "join", "spawn"}} = {}
        BY <1>3 DEF Claimers, Claiming
    <2>2. Cardinality({d \in Clients : client[d].pc \in {"clear", "join", "spawn"}}) = 0
        BY <2>1, FS_EmptySet
    <2>3. spawned + 0 < MaxCalls
        BY <2>2 DEF Claim
    <2> QED
        BY <2>3 DEF GInv, SessionTypeOK
<1>6. Single'
    <2>1. \A d \in Clients : client'[d].pc = "assign" =>
                               client[d].pc = "assign" /\ client'[d].thread = client[d].thread
        BY <1>1 DEF GInv, SessionTypeOK
    <2> QED
        BY <1>4, <1>5, <2>1 DEF Claim, GInv, Single
<1>7. BudgetHeld' /\ KvInBounds' /\ WeightsBeforeUse'
    BY DEF Claim, GInv, BudgetHeld, KvInBounds, WeightsBeforeUse
<1> QED
    BY <1>2, <1>6, <1>7 DEF GInv

\* ClearStop and JoinOld move the claimer on.
LEMMA ClaimerMoves ==
    ASSUME GInv, NEW c \in Clients, ClearStop(c) \/ JoinOld(c)
    PROVE  GInv'
<1>1. PICK pc \in Claiming : /\ client[c].pc \in Claiming
                             /\ client' = [client EXCEPT ![c].pc = pc]
    BY DEF ClearStop, JoinOld, Claiming
<1>2. SessionTypeOK'
    <2>1. client' \in [Clients -> ClientRec]
        BY <1>1 DEF GInv, SessionTypeOK, ClientRec, Claiming
    <2>2. handle' \in {handle, 0} /\ stopFlag' \in {stopFlag, FALSE}
        BY DEF ClearStop, JoinOld, HandleAfterJoin
    <2>3. handle' \in 0 .. MaxCalls
        BY <2>2, GenSessionAssumption DEF GInv, SessionTypeOK
    <2>4. stopFlag' \in BOOLEAN
        BY <2>2 DEF GInv, SessionTypeOK
    <2>5. UNCHANGED <<running, layerReady, gen, spawned, kvPos, phase>>
        BY DEF ClearStop, JoinOld
    <2> QED
        BY <2>1, <2>3, <2>4, <2>5 DEF GInv, SessionTypeOK
<1>3. Claimers' = Claimers
    BY <1>1 DEF Claimers, Claiming, GInv, SessionTypeOK
<1>4. LiveThreads' = LiveThreads
    BY DEF LiveThreads, Live, ClearStop, JoinOld
<1>5. \A d \in Clients : client'[d].pc = "assign" =>
                           client[d].pc = "assign" /\ client'[d].thread = client[d].thread
    BY <1>1 DEF GInv, SessionTypeOK, Claiming
<1>6. Single'
    BY <1>3, <1>4, <1>5 DEF GInv, Single, ClearStop, JoinOld
<1>7. BudgetHeld' /\ KvInBounds' /\ WeightsBeforeUse'
    BY DEF ClearStop, JoinOld, GInv, BudgetHeld, KvInBounds, WeightsBeforeUse
<1> QED
    BY <1>2, <1>6, <1>7 DEF GInv

\* What a new thread starts with.
NewGen(c) == [pc |-> "layers", len |-> client[c].len, maxNew |-> client[c].maxNew,
              sent |-> 0]

LEMMA SpawnSafe == ASSUME GInv, NEW c \in Clients, Spawn(c) PROVE GInv'
<1>1. /\ client[c].pc = "spawn" /\ c \in Claimers
      /\ spawned' = spawned + 1
      /\ gen' = [gen EXCEPT ![spawned + 1] = NewGen(c)]
      /\ client' = [client EXCEPT ![c].pc = "assign", ![c].thread = spawned + 1]
    BY DEF Spawn, NewGen, Claimers, Claiming
<1>2. /\ Claimers = {c} /\ LiveThreads = {} /\ running /\ spawned \in Nat
      /\ spawned + 1 \in GenThreads
    <2>1. Claimers = {c} /\ LiveThreads = {} /\ running /\ spawned < MaxCalls
        BY <1>1 DEF GInv, Single
    <2> QED
        BY <2>1, GenSessionAssumption DEF GInv, SessionTypeOK, GenThreads
<1>3. client[c] \in ClientRec
    BY DEF GInv, SessionTypeOK
<1>4. SessionTypeOK'
    <2>1. client' \in [Clients -> ClientRec]
        <3>1. spawned + 1 \in 0 .. MaxCalls
            BY <1>2, GenSessionAssumption DEF GenThreads
        <3>2. [client[c] EXCEPT !.pc = "assign", !.thread = spawned + 1] \in ClientRec
            BY <1>3, <3>1, ClientUpdate
        <3>3. client' = [client EXCEPT ![c] =
                           [client[c] EXCEPT !.pc = "assign", !.thread = spawned + 1]]
            BY <1>1 DEF GInv, SessionTypeOK
        <3> QED
            BY <3>2, <3>3 DEF GInv, SessionTypeOK
    <2>2. NewGen(c) \in GenRec
        BY <1>3, GenSessionAssumption DEF NewGen, ClientRec, GenRec
    <2>3. gen' \in [GenThreads -> GenRec]
        BY <1>1, <2>2 DEF GInv, SessionTypeOK
    <2> QED
        BY <1>1, <1>2, <2>1, <2>3 DEF Spawn, GInv, SessionTypeOK, GenThreads
<1>5. Claimers' = {}
    <2>1. \A d \in Clients : client'[d].pc \notin Claiming
        BY <1>1, <1>2 DEF Claimers, Claiming, GInv, SessionTypeOK
    <2> QED
        BY <2>1 DEF Claimers
<1>6. \A t \in GenThreads : gen'[t] = IF t = spawned + 1 THEN NewGen(c) ELSE gen[t]
    BY <1>1 DEF GInv, SessionTypeOK
<1>7. LiveThreads' = {spawned + 1}
    BY <1>2, <1>6 DEF LiveThreads, Live, NewGen
<1>8. Single'
    <2>1. \A t \in GenThreads : t > spawned + 1 => gen'[t].pc = "unborn"
        BY <1>2, <1>6 DEF GInv, Single, GenThreads
    <2>2. \A d \in Clients : client'[d].pc = "assign" => client'[d].thread \in 1 .. spawned + 1
        BY <1>1, <1>2 DEF GInv, Single, SessionTypeOK
    <2> QED
        BY <1>1, <1>2, <1>5, <1>7, <2>1, <2>2 DEF Spawn, Single
<1>9. BudgetHeld'
    <2>1. Budget(NewGen(c))
        BY <1>3, GenSessionAssumption DEF NewGen, Budget, ClientRec
    <2> QED
        BY <1>6, <2>1 DEF GInv, BudgetHeld
<1>10. WeightsBeforeUse'
    BY <1>6 DEF Spawn, NewGen, GInv, WeightsBeforeUse
<1>11. KvInBounds'
    BY DEF Spawn, GInv, KvInBounds
<1> QED
    BY <1>4, <1>8, <1>9, <1>10, <1>11 DEF GInv

LEMMA AssignSafe == ASSUME GInv, NEW c \in Clients, Assign(c) PROVE GInv'
<1>1. client[c].pc = "assign" /\ client' = [client EXCEPT ![c] = NoCall]
    BY DEF Assign
<1>2. SessionTypeOK'
    <2>1. client' \in [Clients -> ClientRec]
        BY <1>1, GenSessionAssumption DEF GInv, SessionTypeOK, ClientRec, NoCall
    <2>2. client[c] \in ClientRec
        BY DEF GInv, SessionTypeOK
    <2>3. handle' \in 0 .. MaxCalls
        BY <2>2 DEF Assign, ClientRec
    <2> QED
        BY <2>1, <2>3 DEF Assign, GInv, SessionTypeOK
<1>3. Claimers' = Claimers
    BY <1>1 DEF Claimers, Claiming, NoCall, GInv, SessionTypeOK
<1>4. LiveThreads' = LiveThreads
    BY DEF LiveThreads, Live, Assign
<1>5. \A d \in Clients : client'[d].pc = "assign" =>
                           client[d].pc = "assign" /\ client'[d].thread = client[d].thread
    BY <1>1 DEF GInv, SessionTypeOK, NoCall
<1>6. Single'
    BY <1>3, <1>4, <1>5 DEF GInv, Single, Assign
<1>7. BudgetHeld' /\ KvInBounds' /\ WeightsBeforeUse'
    BY DEF Assign, GInv, BudgetHeld, KvInBounds, WeightsBeforeUse
<1> QED
    BY <1>2, <1>6, <1>7 DEF GInv

-----------------------------------------------------------------------------
(* Stop, MarkLayerReady, ShutdownStop and ShutdownJoin move no owner.         *)

LEMMA OthersSafe ==
    ASSUME GInv, \/ Stop \/ ShutdownStop \/ ShutdownJoin
                 \/ \E l \in Layers : MarkLayerReady(l)
                 \/ UNCHANGED sessionVars
    PROVE  GInv'
<1>1. UNCHANGED <<running, client, gen, spawned, kvPos>>
    BY DEF Stop, ShutdownStop, ShutdownJoin, MarkLayerReady, sessionVars
<1>2. SessionTypeOK'
    <2>1. layerReady' \in [Layers -> BOOLEAN]
        BY DEF Stop, ShutdownStop, ShutdownJoin, MarkLayerReady, sessionVars, GInv, SessionTypeOK
    <2>2. stopFlag' \in {stopFlag, TRUE} /\ phase' \in {phase, "stopping", "down"}
        BY DEF Stop, ShutdownStop, ShutdownJoin, MarkLayerReady, sessionVars
    <2>3. handle' \in {handle, 0}
        BY DEF Stop, ShutdownStop, ShutdownJoin, MarkLayerReady, sessionVars, HandleAfterJoin
    <2>4. handle' \in 0 .. MaxCalls
        BY <2>3, GenSessionAssumption DEF GInv, SessionTypeOK
    <2> QED
        BY <1>1, <2>1, <2>2, <2>4 DEF GInv, SessionTypeOK
<1>3. Single' /\ BudgetHeld' /\ KvInBounds'
    BY <1>1 DEF GInv, Single, BudgetHeld, KvInBounds, Claimers, LiveThreads, Live
<1>4. WeightsBeforeUse'
    <2>1. \A l \in Layers : layerReady[l] => layerReady'[l]
        BY DEF Stop, ShutdownStop, ShutdownJoin, MarkLayerReady, sessionVars, GInv, SessionTypeOK
    <2> QED
        BY <1>1, <2>1 DEF GInv, WeightsBeforeUse
<1> QED
    BY <1>2, <1>3, <1>4 DEF GInv

-----------------------------------------------------------------------------
(* Steps of a generator thread.                                               *)

\* A live thread is the only owner, so a step that changes its record keeps
\* the lock if it stays live and gives it up if not.
LEMMA ThreadStep ==
    ASSUME SessionTypeOK, Single, NEW t \in GenThreads, Live(t), NEW g,
           gen' = [gen EXCEPT ![t] = g], g.pc # "unborn",
           running' = (g.pc # "done"), UNCHANGED <<client, spawned>>
    PROVE  Single'
<1>1. Claimers = {} /\ LiveThreads = {t} /\ t = spawned
    BY DEF Single, LiveThreads
<1>2. \A u \in GenThreads : gen'[u] = IF u = t THEN g ELSE gen[u]
    BY DEF SessionTypeOK
<1>3. Claimers' = {}
    BY <1>1 DEF Claimers
<1>4. LiveThreads' = IF g.pc = "done" THEN {} ELSE {t}
    BY <1>1, <1>2 DEF LiveThreads, Live
<1>5. \A u \in GenThreads : u > spawned => gen'[u].pc = "unborn"
    BY <1>1, <1>2 DEF Single, SessionTypeOK, GenThreads
<1> QED
    BY <1>1, <1>3, <1>4, <1>5 DEF Single

\* What a step of runGenLoop has to show: the record it leaves is within its
\* budget and its weights are there.
LEMMA GenMove ==
    ASSUME GInv, NEW t \in GenThreads, Live(t), NEW h \in GenRec, Budget(h),
           gen' = [gen EXCEPT ![t] = h], h.pc # "unborn", running' = (h.pc # "done"),
           h.pc \in {"top", "sample", "embed", "end"} => \A l \in Layers : layerReady[l],
           kvPos' \in Nat, kvPos' < MaxSeq,
           UNCHANGED <<stopFlag, layerReady, client, handle, spawned, phase>>
    PROVE  GInv'
<1>1. SessionTypeOK'
    <2>1. gen' \in [GenThreads -> GenRec] /\ running' \in BOOLEAN
        BY DEF GInv, SessionTypeOK
    <2>2. kvPos' \in 0 .. WordSize - 1
        BY GenSessionAssumption
    <2> QED
        BY <2>1, <2>2 DEF GInv, SessionTypeOK
<1>2. Single'
    BY ThreadStep DEF GInv
<1>3. \A u \in GenThreads : gen'[u] = IF u = t THEN h ELSE gen[u]
    BY DEF GInv, SessionTypeOK
<1>4. BudgetHeld'
    BY <1>3 DEF GInv, BudgetHeld
<1>5. WeightsBeforeUse'
    BY <1>3 DEF GInv, WeightsBeforeUse
<1> QED
    BY <1>1, <1>2, <1>4, <1>5 DEF GInv, KvInBounds

LEMMA GenStepSafe == ASSUME GInv, NEW t \in GenThreads, GenStep(t) PROVE GInv'
<1> DEFINE g == gen[t]
<1>1. /\ g \in GenRec /\ Budget(g) /\ kvPos < MaxSeq /\ kvPos \in Nat
      /\ g = [pc |-> g.pc, len |-> g.len, maxNew |-> g.maxNew, sent |-> g.sent]
    BY DEF GInv, SessionTypeOK, BudgetHeld, KvInBounds, GenRec
<1>2. Live(t)
    BY DEF GenStep, WaitQuit, Prefill, EnterStep, EmbedNext, Finish, Sample, Live
<1>3. running = TRUE
    BY <1>2 DEF GInv, Single, LiveThreads, SessionTypeOK
<1>4. g.pc \in {"top", "sample", "embed", "end"} => \A l \in Layers : layerReady[l]
    BY DEF GInv, WeightsBeforeUse
<1>5. CASE WaitQuit(t)
    <2> DEFINE h == [g EXCEPT !.pc = "done"]
    <2>1. h \in GenRec /\ Budget(h) /\ h.pc = "done"
        BY <1>1 DEF GenRec, Budget
    <2>2. gen' = [gen EXCEPT ![t] = h] /\ running' = FALSE
        BY <1>5 DEF WaitQuit
    <2>3. UNCHANGED <<stopFlag, layerReady, client, handle, spawned, kvPos, phase>>
        BY <1>5 DEF WaitQuit
    <2> QED
        BY <1>1, <1>2, <2>1, <2>2, <2>3, GenMove
<1>6. CASE Finish(t)
    <2> DEFINE h == [g EXCEPT !.pc = "done"]
    <2>1. h \in GenRec /\ Budget(h) /\ h.pc = "done"
        BY <1>1 DEF GenRec, Budget
    <2>2. gen' = [gen EXCEPT ![t] = h] /\ running' = FALSE
        BY <1>6 DEF Finish, RunningAfter
    <2>3. UNCHANGED <<stopFlag, layerReady, client, handle, spawned, kvPos, phase>>
        BY <1>6 DEF Finish
    <2> QED
        BY <1>1, <1>2, <2>1, <2>2, <2>3, GenMove
<1>7. CASE Prefill(t)
    <2> DEFINE h == [g EXCEPT !.pc = "top"]
    <2>1. h \in GenRec /\ Budget(h) /\ h.pc = "top"
        BY <1>1 DEF GenRec, Budget
    <2>2. gen' = [gen EXCEPT ![t] = h] /\ running' = TRUE
        BY <1>3, <1>7 DEF Prefill
    <2>3. kvPos' \in Nat /\ kvPos' < MaxSeq
        BY <1>1, <1>7, GenSessionAssumption DEF Prefill, Budget, GenRec
    <2>4. \A l \in Layers : layerReady[l]
        BY <1>7 DEF Prefill, AllLayersReady
    <2>5. UNCHANGED <<stopFlag, layerReady, client, handle, spawned, phase>>
        BY <1>7 DEF Prefill
    <2> QED
        BY <1>2, <2>1, <2>2, <2>3, <2>4, <2>5, GenMove
<1>8. CASE EnterStep(t)
    <2> DEFINE h == [g EXCEPT !.pc = IF LoopTest(t) THEN "sample" ELSE "end"]
    <2>1. h \in GenRec /\ h.pc \in {"sample", "end"}
        BY <1>1 DEF GenRec
    <2>2. Budget(h)
        BY <1>1 DEF GenRec, Budget, LoopTest
    <2>3. gen' = [gen EXCEPT ![t] = h] /\ running' = TRUE /\ g.pc = "top"
        BY <1>3, <1>8 DEF EnterStep
    <2>4. UNCHANGED <<stopFlag, layerReady, client, handle, spawned, kvPos, phase>>
        BY <1>8 DEF EnterStep
    <2> QED
        BY <1>1, <1>2, <1>4, <2>1, <2>2, <2>3, <2>4, GenMove
<1>9. ASSUME NEW newline \in BOOLEAN, Sample(t, newline) PROVE GInv'
    <2> DEFINE full == newline \/ SeqFull(g.len)
               h == [g EXCEPT !.len = g.len + 1, !.sent = g.sent + 1,
                              !.pc = IF full THEN "end" ELSE "embed"]
    <2>1. /\ g.pc = "sample" /\ g.sent < g.maxNew /\ g.len <= MaxSeq + g.sent
          /\ g.len \in Nat /\ g.sent \in Nat /\ g.maxNew \in 0 .. MaxNew
        BY <1>1, <1>9, GenSessionAssumption DEF Sample, Budget, GenRec
    <2>2. /\ h.pc = (IF full THEN "end" ELSE "embed")
          /\ h.len = g.len + 1 /\ h.sent = g.sent + 1 /\ h.maxNew = g.maxNew
        BY <1>1
    <2>3. h \in GenRec
        <3>1. g.len + 1 \in 0 .. (MaxSeq + MaxNew) /\ g.sent + 1 \in 0 .. MaxNew
            BY <2>1, GenSessionAssumption
        <3> QED
            BY <1>1, <3>1, GenUpdate
    <2>4. Budget(h)
        <3>1. h.pc = "embed" => g.len < MaxSeq
            BY <2>1, <2>2, SeqFullMeaning, GenSessionAssumption
        <3>2. h.pc = "embed" => h.len \in 1 .. MaxSeq
            BY <2>1, <2>2, <3>1, GenSessionAssumption
        <3> HIDE DEF h
        <3>3. h.pc \notin {"layers", "sample"}
            BY <2>2
        <3>4. h.sent <= h.maxNew /\ h.len <= MaxSeq + h.sent
            BY <2>1, <2>2, GenSessionAssumption
        <3> QED
            BY <3>2, <3>3, <3>4 DEF Budget
    <2>5. gen' = [gen EXCEPT ![t] = h] /\ running' = TRUE
        BY <1>3, <1>9 DEF Sample
    <2>6. UNCHANGED <<stopFlag, layerReady, client, handle, spawned, kvPos, phase>>
        BY <1>9 DEF Sample
    <2> QED
        BY <1>1, <1>2, <1>4, <2>1, <2>2, <2>3, <2>4, <2>5, <2>6, GenMove
<1>10. CASE EmbedNext(t)
    <2> DEFINE h == [g EXCEPT !.pc = "top"]
    <2>1. h \in GenRec /\ Budget(h) /\ h.pc = "top" /\ g.pc = "embed"
        BY <1>1, <1>10 DEF GenRec, Budget, EmbedNext
    <2>2. gen' = [gen EXCEPT ![t] = h] /\ running' = TRUE
        BY <1>3, <1>10 DEF EmbedNext
    <2>3. g.len \in 1 .. MaxSeq
        BY <1>1, <2>1 DEF Budget
    <2>4. kvPos' = g.len - 1
        BY <1>10, <2>3, EmbedPosition DEF EmbedNext
    <2>5. kvPos' \in Nat /\ kvPos' < MaxSeq
        BY <2>3, <2>4, GenSessionAssumption
    <2>6. UNCHANGED <<stopFlag, layerReady, client, handle, spawned, phase>>
        BY <1>10 DEF EmbedNext
    <2> QED
        BY <1>2, <1>4, <2>1, <2>2, <2>5, <2>6, GenMove
<1> QED
    BY <1>5, <1>6, <1>7, <1>8, <1>9, <1>10 DEF GenStep

-----------------------------------------------------------------------------
LEMMA InvInit == SessionInit => GInv
<1> SUFFICES ASSUME SessionInit PROVE GInv
    OBVIOUS
<1> USE DEF SessionInit
<1>1. SessionTypeOK
    <2>1. NoCall \in ClientRec
        BY GenSessionAssumption DEF NoCall, ClientRec
    <2>2. Unborn \in GenRec
        BY GenSessionAssumption DEF Unborn, GenRec
    <2>3. spawned \in 0 .. MaxCalls /\ handle \in 0 .. MaxCalls /\ kvPos \in 0 .. WordSize - 1
        BY GenSessionAssumption
    <2> QED
        BY <2>1, <2>2, <2>3 DEF SessionTypeOK
<1>2. Claimers = {} /\ LiveThreads = {}
    BY DEF Claimers, Claiming, NoCall, LiveThreads, Live, Unborn
<1>3. Single
    BY <1>2 DEF Single, NoCall, Unborn
<1>4. BudgetHeld /\ KvInBounds /\ WeightsBeforeUse
    BY GenSessionAssumption DEF BudgetHeld, Budget, Unborn, KvInBounds, WeightsBeforeUse
<1> QED
    BY <1>1, <1>3, <1>4 DEF GInv

LEMMA InvStep == GInv /\ [SessionNext]_sessionVars => GInv'
BY ClaimSafe, ClaimerMoves, SpawnSafe, AssignSafe, OthersSafe, GenStepSafe
DEF SessionNext, ClientStep

\* The lock invariant is OneOwner.
LEMMA SingleIsOneOwner == ASSUME Single PROVE OneOwner
<1>1. Owners = Claimers \cup LiveThreads
    BY DEF Owners, Claimers, Claiming, LiveThreads
<1>2. Owners = {} \/ \E x : Owners = {x}
    BY <1>1 DEF Single
<1>3. Cardinality(Owners) <= 1
    <2>1. Cardinality(Owners) = 0 \/ Cardinality(Owners) = 1
        BY <1>2, FS_EmptySet, FS_Singleton
    <2> QED
        BY <2>1
<1> QED
    BY <1>1, <1>3 DEF Single, OneOwner

\* Whatever the clients do, one generation at a time owns the pipeline; it
\* writes KV rows inside the cache and uses no layer before its weights are
\* there, for any prompt and cache lengths, the empty prompt's wrapped position
\* included.
THEOREM OneGeneration ==
    SessionSpec => [](SessionTypeOK /\ OneOwner /\ KvInBounds /\ WeightsBeforeUse)
<1>1. GInv => SessionTypeOK /\ OneOwner /\ KvInBounds /\ WeightsBeforeUse
    BY SingleIsOneOwner DEF GInv
<1> QED
    BY <1>1, InvInit, InvStep, PTL DEF SessionSpec

-----------------------------------------------------------------------------
(* One client: the thread object is never assigned over.                      *)

OneClientInv == \A c \in Clients : client[c].pc \in {"spawn", "assign"} => handle = 0

LEMMA HandleStep ==
    ASSUME GInv, OneClientInv, [SessionNext]_sessionVars, \A c, d \in Clients : c = d
    PROVE  OneClientInv'
<1> USE DEF OneClientInv, GInv, SessionTypeOK
<1>1. CASE \E c \in Clients, len \in Prompts, n \in 0 .. MaxNew : Claim(c, len, n)
    BY <1>1 DEF Claim
<1>2. ASSUME NEW c \in Clients, ClientStep(c) PROVE OneClientInv'
    <2>1. \A d \in Clients : d = c
        OBVIOUS
    <2>2. CASE ClearStop(c)
        BY <2>1, <2>2 DEF ClearStop
    <2>3. CASE JoinOld(c)
        BY <2>3 DEF JoinOld, HandleAfterJoin
    <2>4. CASE Spawn(c)
        BY <2>1, <2>4 DEF Spawn
    <2>5. CASE Assign(c)
        <3>1. client'[c].pc = "out"
            BY <2>5 DEF Assign, NoCall
        <3> QED
            BY <2>1, <3>1
    <2> QED
        BY <1>2, <2>2, <2>3, <2>4, <2>5 DEF ClientStep
<1>3. CASE Stop \/ ShutdownStop \/ ShutdownJoin \/ (\E l \in Layers : MarkLayerReady(l))
           \/ UNCHANGED sessionVars
    BY <1>3 DEF Stop, ShutdownStop, ShutdownJoin, MarkLayerReady, sessionVars, HandleAfterJoin
<1>4. CASE \E t \in GenThreads : GenStep(t)
    BY <1>4 DEF GenStep, WaitQuit, Prefill, EnterStep, EmbedNext, Finish, Sample
<1> QED
    BY <1>1, <1>2, <1>3, <1>4 DEF SessionNext

\* With one client, starts, stops and shutdowns in any order never assign over
\* a joinable thread either (std::terminate), so the whole of SessionSafety holds.
THEOREM SessionSafe ==
    ASSUME \A c, d \in Clients : c = d PROVE SessionSpec => []SessionSafety
<1>1. SessionInit => OneClientInv
    BY DEF SessionInit, OneClientInv
<1>2. GInv /\ OneClientInv /\ [SessionNext]_sessionVars => OneClientInv'
    BY HandleStep
<1>3. GInv /\ OneClientInv => SessionSafety
    BY SingleIsOneOwner DEF GInv, OneClientInv, SessionSafety, HandleFree
<1> QED
    BY <1>1, <1>2, <1>3, InvInit, InvStep, PTL DEF SessionSpec

-----------------------------------------------------------------------------
(* GenSession implements GenPipeline.                                         *)

Busy == Starting # {} \/ \E t \in GenThreads : Live(t)
Late == IF stopFlag /\ \E t \in GenThreads : gen[t].pc = "sample" THEN 1 ELSE 0

\* The mapped state, by where the owner of the pipeline stands.
Mapped ==
    /\ \A t \in GenThreads : Live(t) =>
         /\ Busy /\ LeftOfCall = gen[t].maxNew - gen[t].sent
         /\ Late = IF stopFlag /\ gen[t].pc = "sample" THEN 1 ELSE 0
    /\ \A c \in Starting : Busy /\ LeftOfCall = client[c].maxNew /\ Late = 0
    /\ Starting = {} /\ LiveThreads = {} =>
         /\ ~Busy /\ Late = 0
         /\ LeftOfCall = IF spawned = 0 THEN 0 ELSE gen[spawned].maxNew - gen[spawned].sent

LEMMA MappedHolds == GInv => Mapped
<1> SUFFICES ASSUME GInv PROVE Mapped
    OBVIOUS
<1>1. Starting \subseteq Claimers
    BY DEF Starting, Claimers, Claiming
<1>2. ASSUME NEW t \in GenThreads, Live(t)
      PROVE  /\ Busy /\ LeftOfCall = gen[t].maxNew - gen[t].sent
             /\ Late = IF stopFlag /\ gen[t].pc = "sample" THEN 1 ELSE 0
    <2>1. \A u \in GenThreads : Live(u) <=> u = t
        BY <1>2 DEF GInv, Single, LiveThreads
    <2>2. Owner = t
        BY <2>1 DEF Owner
    <2>3. \A u \in GenThreads : gen[u].pc = "sample" => u = t
        BY <2>1 DEF Live
    <2> QED
        BY <1>2, <2>2, <2>3 DEF Busy, Late, LeftOfCall
<1>3. ASSUME LiveThreads = {} PROVE Late = 0 /\ \A t \in GenThreads : ~Live(t)
    BY <1>3 DEF Late, LiveThreads, Live
<1>4. ASSUME NEW c \in Starting PROVE Busy /\ LeftOfCall = client[c].maxNew /\ Late = 0
    <2>1. LiveThreads = {} /\ Starting = {c}
        BY <1>1 DEF GInv, Single
    <2>2. (CHOOSE d \in Starting : TRUE) = c
        BY <2>1
    <2> QED
        BY <1>3, <2>1, <2>2 DEF Busy, LeftOfCall
<1>5. ASSUME Starting = {}, LiveThreads = {}
      PROVE  /\ ~Busy /\ Late = 0
             /\ LeftOfCall = IF spawned = 0 THEN 0 ELSE gen[spawned].maxNew - gen[spawned].sent
    BY <1>3, <1>5 DEF Busy, LeftOfCall
<1> QED
    BY <1>2, <1>4, <1>5 DEF Mapped

\* A step of the abstract pipeline in terms of the mapped state.
LEMMA AbstractStep ==
    ASSUME \/ \E n \in 0 .. MaxNew :
                ~Busy /\ Busy' /\ stopFlag' = FALSE /\ LeftOfCall' = n /\ Late' = 0
           \/ /\ Busy /\ Busy' /\ LeftOfCall > 0 /\ (stopFlag => Late = 1)
              /\ LeftOfCall' = LeftOfCall - 1 /\ Late' = 0 /\ stopFlag' = stopFlag
           \/ /\ Busy /\ ~Busy' /\ Late' = 0 /\ stopFlag' = stopFlag
              /\ LeftOfCall' = LeftOfCall
           \/ /\ stopFlag' = TRUE /\ (Busy' <=> Busy) /\ LeftOfCall' = LeftOfCall
              /\ IF Busy /\ ~stopFlag THEN Late' \in {0, 1} ELSE Late' = Late
           \/ /\ (Busy' <=> Busy) /\ stopFlag' = stopFlag /\ LeftOfCall' = LeftOfCall
              /\ Late' = Late
    PROVE  [Pipe!Next]_(Pipe!pipeVars)
BY DEF Pipe!Next, Pipe!Start, Pipe!Emit, Pipe!End, Pipe!Stop, Pipe!pipeVars, Busy, Late

\* A step that moves neither the threads nor the starting clients leaves the
\* client's view alone, up to the stop flag.
LEMMA QuietStep ==
    ASSUME UNCHANGED <<gen, spawned>>, Starting' = Starting,
           \A c \in Starting : client'[c].maxNew = client[c].maxNew
    PROVE  (Busy' <=> Busy) /\ LeftOfCall' = LeftOfCall
<1>1. (\E t \in GenThreads : Live(t))' <=> \E t \in GenThreads : Live(t)
    BY DEF Live
<1>2. Owner' = Owner
    BY DEF Owner, Live
<1>3. CASE Starting = {}
    BY <1>1, <1>2, <1>3 DEF Busy, LeftOfCall
<1>4. CASE Starting # {}
    <2>1. (CHOOSE c \in Starting : TRUE) \in Starting
        BY <1>4
    <2> QED
        BY <1>1, <1>2, <1>4, <2>1 DEF Busy, LeftOfCall
<1> QED
    BY <1>3, <1>4

LEMMA ClientStepImplements ==
    ASSUME GInv, GInv', Mapped, Mapped', NEW c \in Clients, ClientStep(c)
    PROVE  [Pipe!Next]_(Pipe!pipeVars)
<1>1. CASE ClearStop(c)
    <2>1. c \in Claimers /\ LiveThreads = {} /\ Claimers = {c}
        BY <1>1 DEF ClearStop, Claimers, Claiming, GInv, Single
    <2>2. Starting = {}
        BY <1>1, <2>1 DEF Starting, Claimers, Claiming, ClearStop
    <2>3. c \in Starting' /\ client'[c].maxNew = client[c].maxNew
        BY <1>1 DEF ClearStop, Starting, GInv, SessionTypeOK
    <2>4. client[c].maxNew \in 0 .. MaxNew
        BY DEF GInv, SessionTypeOK, ClientRec
    <2>5. ~Busy /\ Busy' /\ LeftOfCall' = client[c].maxNew /\ Late' = 0
        BY <2>1, <2>2, <2>3 DEF Mapped
    <2> QED
        BY <1>1, <2>4, <2>5, AbstractStep DEF ClearStop
<1>2. CASE JoinOld(c) \/ Assign(c)
    <2>1. Starting' = Starting /\ \A d \in Starting : client'[d].maxNew = client[d].maxNew
        <3>1. CASE JoinOld(c)
            <4>1. client[c].pc = "join" /\ client' = [client EXCEPT ![c].pc = "spawn"]
                BY <3>1 DEF JoinOld
            <4> QED
                BY <4>1 DEF Starting, GInv, SessionTypeOK
        <3>2. CASE Assign(c)
            <4>1. client[c].pc = "assign" /\ client' = [client EXCEPT ![c] = NoCall]
                BY <3>2 DEF Assign
            <4>2. \A d \in Starting : d # c /\ client'[d] = client[d]
                BY <4>1 DEF Starting, GInv, SessionTypeOK
            <4>3. \A d \in Starting' : d # c /\ client'[d] = client[d]
                BY <4>1 DEF Starting, GInv, SessionTypeOK, NoCall
            <4> QED
                BY <4>2, <4>3 DEF Starting
        <3> QED
            BY <1>2, <3>1, <3>2
    <2>2. UNCHANGED <<gen, spawned, stopFlag>>
        BY <1>2 DEF JoinOld, Assign
    <2>3. Late' = Late
        BY <2>2 DEF Late
    <2> QED
        BY <2>1, <2>2, <2>3, QuietStep, AbstractStep
<1>3. CASE Spawn(c)
    <2>1. c \in Starting /\ c \in Claimers /\ client[c].maxNew \in Nat
        BY <1>3, GenSessionAssumption DEF Spawn, Starting, Claimers, Claiming, GInv, SessionTypeOK, ClientRec
    <2>2. PICK u \in GenThreads : u = spawned + 1
        BY <2>1, GenSessionAssumption DEF GInv, Single, SessionTypeOK, GenThreads
    <2>3. gen'[u] = NewGen(c) /\ stopFlag' = stopFlag
        BY <1>3, <2>2 DEF Spawn, NewGen, GInv, SessionTypeOK
    <2>4. Live(u)'
        BY <2>3 DEF Live, NewGen
    <2>5. Busy' /\ LeftOfCall' = client[c].maxNew - 0 /\ Late' = 0
        BY <2>3, <2>4 DEF Mapped, NewGen
    <2>6. Busy /\ LeftOfCall = client[c].maxNew /\ Late = 0
        BY <2>1 DEF Mapped
    <2>7. LeftOfCall' = LeftOfCall
        BY <2>1, <2>5, <2>6
    <2> QED
        BY <2>3, <2>5, <2>6, <2>7, AbstractStep
<1> QED
    BY <1>1, <1>2, <1>3 DEF ClientStep

LEMMA GenStepImplements ==
    ASSUME GInv, GInv', Mapped, Mapped', NEW t \in GenThreads, GenStep(t)
    PROVE  [Pipe!Next]_(Pipe!pipeVars)
<1> DEFINE g == gen[t]
<1>1. Live(t)
    BY DEF GenStep, WaitQuit, Prefill, EnterStep, EmbedNext, Finish, Sample, Live
<1>2. /\ Busy /\ LeftOfCall = g.maxNew - g.sent
      /\ Late = IF stopFlag /\ g.pc = "sample" THEN 1 ELSE 0
    BY <1>1 DEF Mapped
<1>3. UNCHANGED <<client, spawned, stopFlag>>
    BY DEF GenStep, WaitQuit, Prefill, EnterStep, EmbedNext, Finish, Sample
<1>4. /\ g.maxNew \in Nat /\ g.sent \in Nat /\ Budget(g)
      /\ Starting = {} /\ t = spawned /\ LiveThreads = {t} /\ t # 0
    <2>1. g \in GenRec /\ Budget(g)
        BY DEF GInv, SessionTypeOK, BudgetHeld
    <2>2. g.maxNew \in Nat /\ g.sent \in Nat
        BY <2>1, GenSessionAssumption DEF GenRec
    <2>3. Claimers = {} /\ t = spawned /\ LiveThreads = {t}
        BY <1>1 DEF GInv, Single, LiveThreads
    <2>4. Starting = {}
        BY <2>3 DEF Starting, Claimers, Claiming
    <2> QED
        BY <2>1, <2>2, <2>3, <2>4 DEF GenThreads
<1>5. Starting' = {}
    BY <1>3, <1>4 DEF Starting
<1>6. CASE WaitQuit(t) \/ Finish(t)
    <2>1. gen' = [gen EXCEPT ![t].pc = "done"]
        BY <1>6 DEF WaitQuit, Finish
    <2>2. LiveThreads' = {}
        BY <1>4, <2>1 DEF LiveThreads, Live, GInv, SessionTypeOK
    <2>3. gen'[t].maxNew = g.maxNew /\ gen'[t].sent = g.sent
        BY <2>1 DEF GInv, SessionTypeOK
    <2>4. ~Busy' /\ Late' = 0 /\ LeftOfCall' = LeftOfCall
        BY <1>2, <1>3, <1>4, <1>5, <2>2, <2>3 DEF Mapped
    <2> QED
        BY <1>2, <1>3, <2>4, AbstractStep
<1>7. CASE Prefill(t) \/ EnterStep(t) \/ EmbedNext(t)
    <2>1. PICK pc \in {"top", "sample", "end"} :
             /\ gen' = [gen EXCEPT ![t].pc = pc] /\ g.pc # "sample"
             /\ pc = "sample" => ~stopFlag
        BY <1>7 DEF Prefill, EnterStep, EmbedNext, LoopTest
    <2>2. gen'[t].maxNew = g.maxNew /\ gen'[t].sent = g.sent /\ gen'[t].pc = pc
        BY <2>1 DEF GInv, SessionTypeOK, GenRec
    <2>3. Live(t)'
        BY <2>2 DEF Live
    <2>4. Busy' /\ LeftOfCall' = LeftOfCall /\ Late' = 0 /\ Late = 0
        BY <1>2, <1>3, <2>1, <2>2, <2>3 DEF Mapped
    <2> QED
        BY <1>2, <1>3, <2>4, AbstractStep
<1>8. ASSUME NEW newline \in BOOLEAN, Sample(t, newline) PROVE [Pipe!Next]_(Pipe!pipeVars)
    <2>1. /\ g.pc = "sample" /\ gen'[t].maxNew = g.maxNew /\ gen'[t].sent = g.sent + 1
          /\ gen'[t].pc \in {"end", "embed"}
        BY <1>8 DEF Sample, GInv, SessionTypeOK, GenRec
    <2>2. Live(t)'
        BY <2>1 DEF Live
    <2>3. Busy' /\ LeftOfCall' = g.maxNew - (g.sent + 1) /\ Late' = 0
        BY <2>1, <2>2 DEF Mapped
    <2>4. LeftOfCall > 0 /\ LeftOfCall' = LeftOfCall - 1
        BY <1>2, <1>4, <2>1, <2>3 DEF Budget
    <2>5. stopFlag => Late = 1
        BY <1>2, <2>1
    <2> QED
        BY <1>2, <1>3, <2>3, <2>4, <2>5, AbstractStep
<1> QED
    BY <1>6, <1>7, <1>8 DEF GenStep

LEMMA OthersImplement ==
    ASSUME GInv, Mapped, Mapped',
           \/ Stop \/ ShutdownStop \/ ShutdownJoin
           \/ \E l \in Layers : MarkLayerReady(l)
           \/ UNCHANGED sessionVars
    PROVE  [Pipe!Next]_(Pipe!pipeVars)
<1>1. UNCHANGED <<client, gen, spawned>>
    BY DEF Stop, ShutdownStop, ShutdownJoin, MarkLayerReady, sessionVars
<1>2. Starting' = Starting
    BY <1>1 DEF Starting
<1>3. (Busy' <=> Busy) /\ LeftOfCall' = LeftOfCall
    BY <1>1, <1>2, QuietStep
<1>4. CASE stopFlag' = stopFlag
    <2>1. Late' = Late
        BY <1>1, <1>4 DEF Late
    <2> QED
        BY <1>3, <1>4, <2>1, AbstractStep
<1>5. CASE stopFlag' # stopFlag
    <2>1. stopFlag' = TRUE /\ stopFlag = FALSE
        BY <1>5 DEF Stop, ShutdownStop, ShutdownJoin, MarkLayerReady, sessionVars, GInv, SessionTypeOK
    <2>2. Late' \in {0, 1}
        BY DEF Late
    <2>3. ~Busy => Late' = Late
        BY <1>1, <2>1 DEF Late, Busy, Live
    <2> QED
        BY <1>3, <2>1, <2>2, <2>3, AbstractStep
<1> QED
    BY <1>4, <1>5

LEMMA ClaimImplements ==
    ASSUME GInv, NEW c \in Clients, NEW len \in Prompts, NEW n \in 0 .. MaxNew,
           Claim(c, len, n)
    PROVE  [Pipe!Next]_(Pipe!pipeVars)
<1>1. Claimers = {}
    BY DEF Claim, GInv, Single
<1>2. Starting = {} /\ Starting' = {}
    BY <1>1 DEF Claim, Starting, Claimers, Claiming, GInv, SessionTypeOK
<1>3. UNCHANGED <<gen, spawned, stopFlag>>
    BY DEF Claim
<1>4. Late' = Late
    BY <1>3 DEF Late
<1> QED
    BY <1>2, <1>3, <1>4, QuietStep, AbstractStep

LEMMA StepImplements ==
    GInv /\ GInv' /\ Mapped /\ Mapped' /\ [SessionNext]_sessionVars => [Pipe!Next]_(Pipe!pipeVars)
BY ClaimImplements, ClientStepImplements, GenStepImplements, OthersImplement DEF SessionNext

\* What a client sees of DX12InferencePipeline is a GenPipeline: tokens only
\* while it is running, never more than asked for, at most one after a stop();
\* for any number of clients, although generateAsync clears the stop flag after
\* it has claimed running_.
THEOREM SessionImplementsPipeline == SessionSpec => PipeSpec
<1>1. SessionInit => Pipe!Init
    <2> SUFFICES ASSUME SessionInit PROVE Pipe!Init
        OBVIOUS
    <2>1. Starting = {} /\ ~ (\E t \in GenThreads : Live(t)) /\ spawned = 0 /\ stopFlag = FALSE
        BY DEF SessionInit, Starting, NoCall, Live, Unborn
    <2> QED
        BY <2>1 DEF Pipe!Init, LeftOfCall
<1>2. GInv' => Mapped'
    BY MappedHolds, PTL
<1> QED
    BY <1>1, <1>2, MappedHolds, InvInit, InvStep, StepImplements, PTL DEF SessionSpec, PipeSpec, Pipe!Spec

-----------------------------------------------------------------------------
(* The submission path: uploads, submissions and waits.                       *)

\* The ring is used as the program uses it: by one thread, in either role.
OneThread == \A a, b \in Threads : a = b

Places == {"idle", "copy", "frame", "advance", "watchFrame", "waitFrame", "record",
           "tick", "signal", "watchDone", "waitDone", "release", "signalDrain",
           "watchDrain", "waitDrain", "read"}
Local == [pc : Places, slot : Slots \cup {NoSlot}, frame : Frames, val : Nat]
Entry == [kind : {"list", "signal"}, by : Threads, slot : Slots \cup {NoSlot},
          frame : Frames, val : Nat]

Shapes == SyncTypeOK /\ th \in [Threads -> Local] /\ gpuQ \in Seq(Entry)

Signals == {i \in DOMAIN gpuQ : gpuQ[i].kind = "signal"}

\* The queued signals are still to come and in increasing order.
SignalsRise ==
    \A i \in Signals :
        /\ completed < gpuQ[i].val
        /\ \A j \in Signals : i < j => gpuQ[i].val < gpuQ[j].val

\* A list is followed by a signal its frame's fence value covers, or its thread
\* is about to send that signal.
Behind(i) == \E j \in Signals : i < j /\ gpuQ[j].val <= frameFence[gpuQ[i].frame]
Open(i) ==
    \E t \in Threads : th[t].pc \in {"tick", "signal"} /\ th[t].frame = gpuQ[i].frame
ListsFenced == \A i \in DOMAIN gpuQ \ Signals : Behind(i) \/ Open(i)

\* The value about to be signalled is the greatest.
Signalling ==
    \A t \in Threads :
        /\ At(t, "signal") => frameFence[th[t].frame] = fenceVal
        /\ At(t, "signalDrain") => th[t].val = fenceVal
        /\ th[t].pc \in {"signal", "signalDrain"} =>
             completed < fenceVal /\ \A i \in Signals : gpuQ[i].val < fenceVal

\* The event is the thread's own, and nothing is registered once it is set.
Waits == {"waitFrame", "waitDone", "waitDrain"}
Waiting ==
    \A t \in Threads :
        /\ registered \subseteq {th[t].val} /\ th[t].val <= fenceVal
        /\ registered # {} => th[t].pc \in Waits
        /\ event => th[t].pc \in Waits /\ completed >= th[t].val /\ registered = {}
        /\ th[t].pc \in {"watchFrame", "waitFrame"} => th[t].val = frameFence[th[t].frame]
        /\ th[t].pc \in {"watchDone", "waitDone", "watchDrain", "waitDrain"} =>
             th[t].val = fenceVal

\* What has been waited for is reached.
Waited ==
    \A t \in Threads :
        /\ At(t, "record") => completed >= frameFence[th[t].frame]
        /\ th[t].pc \in {"release", "read"} => completed >= fenceVal

\* A queued list reads the thread's own slot, and only until the wait is over.
Reading(t) == th[t].pc \in {"tick", "signal", "watchDone", "waitDone"}
SlotsHeld ==
    \A t \in Threads :
        /\ th[t].slot # NoSlot => ~slotFree[th[t].slot]
        /\ At(t, "idle") => th[t].slot = NoSlot
        /\ \A i \in DOMAIN gpuQ \ Signals :
             gpuQ[i].slot # NoSlot => gpuQ[i].slot = th[t].slot /\ Reading(t)

PInv == Shapes /\ SignalsRise /\ ListsFenced /\ Signalling /\ Waiting /\ Waited /\ SlotsHeld

-----------------------------------------------------------------------------
(* What the invariant gives                                                   *)

\* Every list is behind a signal beyond the fence, unless its thread still has
\* to signal: once the fence is there, no list is left.
LEMMA NoListLeft ==
    ASSUME PInv, NEW t \in Threads, OneThread, th[t].pc \notin {"tick", "signal"},
           NEW i \in DOMAIN gpuQ \ Signals
    PROVE  completed < frameFence[gpuQ[i].frame] /\ completed < fenceVal
<1>1. PICK j \in Signals : gpuQ[j].val <= frameFence[gpuQ[i].frame]
    BY DEF PInv, ListsFenced, Open, Behind, OneThread
<1>2. completed < gpuQ[j].val
    BY DEF PInv, SignalsRise
<1>3. gpuQ[i] \in Entry /\ gpuQ[j] \in Entry
    BY DEF PInv, Shapes, Signals
<1>4. frameFence[gpuQ[i].frame] \in 0 .. fenceVal /\ fenceVal \in Nat /\ completed \in Nat
    BY <1>3 DEF PInv, Shapes, SyncTypeOK, Entry
<1>5. gpuQ[j].val \in Nat
    BY <1>3 DEF Entry
<1> QED
    BY <1>1, <1>2, <1>4, <1>5

LEMMA InvSafety == ASSUME PInv, OneThread PROVE ReuseSafety
<1>1. \A e \in Lists : \E i \in DOMAIN gpuQ \ Signals : e = gpuQ[i]
    <2> SUFFICES ASSUME NEW e \in Lists PROVE \E i \in DOMAIN gpuQ \ Signals : e = gpuQ[i]
        OBVIOUS
    <2>1. PICK i \in DOMAIN gpuQ : e = gpuQ[i]
        BY DEF Lists, Queued
    <2>2. i \notin Signals
        BY <2>1 DEF Lists, Signals
    <2> QED BY <2>1, <2>2
<1>2. AllocatorIdle
    <2> SUFFICES ASSUME NEW t \in Threads, At(t, "record"), NEW i \in DOMAIN gpuQ \ Signals,
                        gpuQ[i].frame = th[t].frame
                 PROVE  FALSE
        BY <1>1 DEF AllocatorIdle
    <2>1. completed < frameFence[th[t].frame] /\ completed >= frameFence[th[t].frame]
        BY NoListLeft DEF At, PInv, Waited
    <2>2. completed \in Nat /\ frameFence[th[t].frame] \in Nat
        BY DEF PInv, Shapes, SyncTypeOK, Local
    <2> QED BY <2>1, <2>2
<1>3. StagingIdle
    <2> SUFFICES ASSUME NEW s \in Slots,
                        slotFree[s] \/ \E t \in Threads : th[t].slot = s /\ At(t, "copy"),
                        NEW i \in DOMAIN gpuQ \ Signals, gpuQ[i].slot = s
                 PROVE  FALSE
        BY <1>1 DEF StagingIdle
    <2>1. PICK t \in Threads : TRUE
        BY DEF PInv, Shapes, Entry
    <2>2. s # NoSlot
        BY PipelineSyncAssumption
    <2>3. s = th[t].slot /\ Reading(t) /\ ~slotFree[s]
        BY <2>1, <2>2 DEF PInv, SlotsHeld
    <2> QED BY <2>1, <2>3 DEF Reading, At, OneThread
<1>4. LogitsComplete
    <2> SUFFICES ASSUME NEW t \in Threads, At(t, "read"), NEW i \in DOMAIN gpuQ \ Signals
                 PROVE  FALSE
        BY <1>1 DEF LogitsComplete
    <2>1. completed < fenceVal /\ completed >= fenceVal
        BY NoListLeft DEF At, PInv, Waited
    <2> QED BY <2>1 DEF PInv, Shapes, SyncTypeOK
<1> QED BY <1>2, <1>3, <1>4 DEF ReuseSafety, PInv, Shapes

LEMMA SyncInvInit == ASSUME SyncInit PROVE PInv
<1>1. DOMAIN gpuQ = {} /\ gpuQ \in Seq(Entry)
    BY DEF SyncInit
<1>2. Signals = {}
    BY <1>1 DEF Signals
<1>3. 0 \in Frames
    BY PipelineSyncAssumption DEF Frames
<1>4. Idle \in Local
    BY <1>3 DEF Idle, Local, Places
<1>5. Shapes
    BY <1>1, <1>3, <1>4 DEF SyncInit, Shapes, SyncTypeOK, Idle
<1>6. SignalsRise /\ ListsFenced
    BY <1>1, <1>2 DEF SignalsRise, ListsFenced
<1>7. Signalling /\ Waiting /\ Waited /\ SlotsHeld
    BY <1>1, <1>2, <1>4 DEF SyncInit, Signalling, Waiting, Waited, SlotsHeld, Idle, At
<1> QED BY <1>5, <1>6, <1>7 DEF PInv

-----------------------------------------------------------------------------
(* Steps that leave the queue and the fence alone                             *)

Quiet == UNCHANGED <<gpuQ, fenceVal, frameFence, completed>>

LEMMA QuietKept ==
    ASSUME PInv, OneThread, NEW t \in Threads, Quiet,
           th[t].pc \notin {"tick", "signal"}, th'[t].pc \notin {"signal", "signalDrain"}
    PROVE  SignalsRise' /\ ListsFenced' /\ Signalling'
<1>1. Signals' = Signals /\ (DOMAIN gpuQ)' = DOMAIN gpuQ
    BY DEF Signals, Quiet
<1>2. SignalsRise'
    BY <1>1 DEF PInv, SignalsRise, Quiet
<1>3. ASSUME NEW i \in DOMAIN gpuQ \ Signals PROVE Behind(i)'
    <2>1. Behind(i)
        BY DEF PInv, ListsFenced, Open, OneThread
    <2> QED BY <2>1, <1>1 DEF Behind, Quiet
<1>4. ListsFenced'
    BY <1>1, <1>3 DEF ListsFenced
<1>5. Signalling'
    BY DEF Signalling, OneThread, At
<1> QED BY <1>2, <1>4, <1>5

\* Moving the one thread.
LEMMA Moved ==
    ASSUME PInv, NEW t \in Threads, NEW r \in Local, th' = [th EXCEPT ![t] = r]
    PROVE  th' \in [Threads -> Local] /\ th'[t] = r
BY DEF PInv, Shapes

LEMMA PlaceUpdate ==
    ASSUME NEW r \in Local, NEW p \in Places
    PROVE  LET x == [r EXCEPT !.pc = p]
           IN  /\ x \in Local /\ x.pc = p /\ x.slot = r.slot
               /\ x.frame = r.frame /\ x.val = r.val
BY DEF Local

\* A quiet step: what is left to show of it.
LEMMA SyncQuietStep ==
    ASSUME PInv, OneThread, NEW t \in Threads, NEW r \in Local,
           th' = [th EXCEPT ![t] = r], Quiet,
           th[t].pc \notin {"tick", "signal"}, r.pc \notin {"signal", "signalDrain"},
           cmdHead' \in Frames, slotFree' \in [Slots -> BOOLEAN],
           registered' \subseteq 1 .. fenceVal, event' \in BOOLEAN,
           Waiting', Waited', SlotsHeld'
    PROVE  PInv'
<1>1. th' \in [Threads -> Local] /\ th'[t] = r
    BY Moved
<1>2. SignalsRise' /\ ListsFenced' /\ Signalling'
    BY <1>1, QuietKept
<1>3. Shapes'
    BY <1>1 DEF PInv, Shapes, SyncTypeOK, Quiet, Local
<1> QED BY <1>2, <1>3 DEF PInv

\* Of the thread's record the step changes its place, and perhaps frame or value;
\* it touches neither slots nor event.
LEMMA PlainStep ==
    ASSUME PInv, OneThread, NEW t \in Threads, NEW r \in Local,
           th' = [th EXCEPT ![t] = r], Quiet, cmdHead' \in Frames,
           UNCHANGED <<slotFree, registered, event>>,
           th[t].pc \notin {"tick", "signal", "watchDone", "waitDone"} \cup Waits,
           r.pc \notin {"signal", "signalDrain", "idle", "watchDone", "waitDone", "release",
                        "watchDrain", "waitDrain", "read"} \cup Waits,
           r.slot = th[t].slot, r.val <= fenceVal,
           r.pc = "watchFrame" => r.val = frameFence[r.frame],
           r.pc = "record" => completed >= frameFence[r.frame]
    PROVE  PInv'
<1>1. th' \in [Threads -> Local] /\ th'[t] = r /\ \A u \in Threads : u = t
    BY Moved DEF OneThread
<1>2. Signals' = Signals
    BY DEF Signals, Quiet
<1>3. Waiting'
    BY <1>1 DEF PInv, Waiting, Waits, Quiet
<1>4. Waited'
    BY <1>1 DEF Waited, At, Quiet
<1>5. SlotsHeld'
    BY <1>1, <1>2 DEF PInv, SlotsHeld, Reading, At, Quiet
<1>6. slotFree' \in [Slots -> BOOLEAN] /\ registered' \subseteq 1 .. fenceVal /\ event' \in BOOLEAN
    BY DEF PInv, Shapes, SyncTypeOK
<1> QED BY <1>3, <1>4, <1>5, <1>6, SyncQuietStep

LEMMA PlainSafe ==
    ASSUME PInv, OneThread, NEW t \in Threads,
           Copy(t) \/ BeginSubmit(t) \/ NextFrame(t) \/ AdvanceHead(t)
    PROVE  PInv'
<1>1. th[t] \in Local /\ cmdHead \in Frames
    BY DEF PInv, Shapes, SyncTypeOK
<1>2. th[t].val \in Nat /\ th[t].val <= fenceVal /\ fenceVal \in Nat /\ completed \in Nat
    BY <1>1 DEF PInv, Waiting, Shapes, SyncTypeOK, Local
<1>4. CASE Copy(t) \/ BeginSubmit(t)
    <2> DEFINE r == [th[t] EXCEPT !.pc = "frame"]
    <2>1. r \in Local /\ r.pc = "frame" /\ r.slot = th[t].slot /\ r.val = th[t].val
        BY <1>1, PlaceUpdate DEF Places
    <2>2. th' = [th EXCEPT ![t] = r]
        BY <1>4 DEF Copy, BeginSubmit, Goto
    <2>3. /\ Quiet /\ cmdHead' = cmdHead /\ UNCHANGED <<slotFree, registered, event>>
          /\ th[t].pc \in {"copy", "idle"}
        BY <1>4 DEF Copy, BeginSubmit, Quiet, ringVars, fenceVars, At
    <2> HIDE DEF r
    <2> QED BY <1>1, <1>2, <2>1, <2>2, <2>3, PlainStep DEF Waits
<1>5. CASE NextFrame(t)
    <2> DEFINE r == [th[t] EXCEPT !.pc = "advance", !.frame = cmdHead]
    <2>1. r \in Local /\ r.pc = "advance" /\ r.slot = th[t].slot /\ r.val = th[t].val
        BY <1>1 DEF Places, Local
    <2>2. th' = [th EXCEPT ![t] = r]
        BY <1>5 DEF NextFrame
    <2>3. /\ Quiet /\ cmdHead' = cmdHead /\ UNCHANGED <<slotFree, registered, event>>
          /\ th[t].pc = "frame"
        BY <1>5 DEF NextFrame, Quiet, ringVars, fenceVars, At
    <2> HIDE DEF r
    <2> QED BY <1>1, <1>2, <2>1, <2>2, <2>3, PlainStep DEF Waits
<1>6. CASE AdvanceHead(t)
    <2> DEFINE p == IF FrameFresh(th[t].frame) THEN "record" ELSE "watchFrame"
               r == [th[t] EXCEPT !.pc = p, !.val = frameFence[th[t].frame]]
    <2>1. th[t].frame \in Frames /\ frameFence[th[t].frame] \in 0 .. fenceVal
        BY <1>1 DEF PInv, Shapes, SyncTypeOK, Local
    <2>7. p \in {"record", "watchFrame"}
        OBVIOUS
    <2> HIDE DEF p
    <2>2. /\ r \in Local /\ r.pc = p /\ r.slot = th[t].slot /\ r.frame = th[t].frame
          /\ r.val = frameFence[th[t].frame]
        <3>1. frameFence[th[t].frame] \in Nat /\ p \in Places
            BY <1>2, <2>1, <2>7 DEF Places
        <3> QED BY <3>1, <1>1 DEF Local
    <2>3. th' = [th EXCEPT ![t] = r]
        BY <1>6 DEF AdvanceHead, p
    <2>4. HeadAfter(th[t].frame) \in Frames
        BY <2>1, PipelineSyncAssumption DEF HeadAfter, Frames
    <2>5. /\ Quiet /\ cmdHead' \in Frames /\ UNCHANGED <<slotFree, registered, event>>
          /\ th[t].pc = "advance"
        BY <1>6, <2>4 DEF AdvanceHead, Quiet, fenceVars, At
    <2>6. p = "record" => completed >= frameFence[th[t].frame]
        BY <1>2 DEF FrameFresh, p
    <2> HIDE DEF r
    <2>8. r.val <= fenceVal /\ r.frame = th[t].frame
        BY <1>2, <2>1, <2>2
    <2>9. /\ r.pc = "watchFrame" => r.val = frameFence[r.frame]
          /\ r.pc = "record" => completed >= frameFence[r.frame]
        BY <2>2, <2>6
    <2> QED BY <2>2, <2>3, <2>5, <2>7, <2>8, <2>9, PlainStep DEF Waits
<1> QED BY <1>4, <1>5, <1>6

\* Slots taken and given back.
LEMMA AcquireSafe ==
    ASSUME PInv, OneThread, NEW t \in Threads, NEW s \in Slots, AcquireStaging(t, s)
    PROVE  PInv'
<1> DEFINE r == [th[t] EXCEPT !.pc = "copy", !.slot = s]
<1>1. th[t] \in Local
    BY DEF PInv, Shapes
<1>2. r \in Local /\ r.pc = "copy" /\ r.slot = s /\ r.val = th[t].val
    BY <1>1 DEF Places, Local
<1>3. th' = [th EXCEPT ![t] = r]
    BY DEF AcquireStaging
<1> HIDE DEF r
<1>4. th' \in [Threads -> Local] /\ th'[t] = r /\ \A u \in Threads : u = t
    BY <1>2, <1>3, Moved DEF OneThread
<1>5. Quiet /\ UNCHANGED <<cmdHead, registered, event>> /\ th[t].pc = "idle"
    BY DEF AcquireStaging, Quiet, ringVars, fenceVars, At
<1>6. Signals' = Signals
    BY <1>5 DEF Signals, Quiet
<1>7. slotFree' \in [Slots -> BOOLEAN] /\ ~slotFree'[s]
    BY DEF AcquireStaging, PInv, Shapes, SyncTypeOK
<1>8. Waiting'
    BY <1>2, <1>4, <1>5 DEF PInv, Waiting, Waits, Quiet
<1>9. Waited'
    BY <1>2, <1>4 DEF Waited, At
<1>10. SlotsHeld'
    BY <1>2, <1>4, <1>5, <1>6, <1>7 DEF PInv, SlotsHeld, Reading, At, Quiet
<1>11. cmdHead' \in Frames /\ registered' \subseteq 1 .. fenceVal /\ event' \in BOOLEAN
    BY <1>5 DEF PInv, Shapes, SyncTypeOK
<1> QED BY <1>2, <1>3, <1>5, <1>7, <1>8, <1>9, <1>10, <1>11, SyncQuietStep

LEMMA ReleaseSafe ==
    ASSUME PInv, OneThread, NEW t \in Threads,
           UnknownType(t) \/ FinishUpload(t) \/ ReadLogits(t)
    PROVE  PInv'
<1>1. Idle \in Local /\ Idle.pc = "idle" /\ Idle.slot = NoSlot /\ Idle.val = 0
    BY PipelineSyncAssumption DEF Idle, Local, Places, Frames
<1>2. th' = [th EXCEPT ![t] = Idle]
    BY DEF UnknownType, FinishUpload, ReadLogits, ReleaseStaging
<1>3. th' \in [Threads -> Local] /\ th'[t] = Idle /\ \A u \in Threads : u = t
    BY <1>1, <1>2, Moved DEF OneThread
<1>4. /\ Quiet /\ UNCHANGED <<cmdHead, registered, event>>
      /\ th[t].pc \in {"copy", "release", "read"}
    BY DEF UnknownType, FinishUpload, ReadLogits, ReleaseStaging, Quiet, ringVars, fenceVars, At
<1>5. Signals' = Signals
    BY <1>4 DEF Signals, Quiet
<1>6. slotFree' \in [Slots -> BOOLEAN]
    BY DEF UnknownType, FinishUpload, ReadLogits, ReleaseStaging, PInv, Shapes, SyncTypeOK
<1>7. \A i \in DOMAIN gpuQ \ Signals : gpuQ[i].slot = NoSlot
    BY <1>4 DEF PInv, SlotsHeld, Reading
<1>8. Waiting'
    BY <1>1, <1>3, <1>4 DEF PInv, Waiting, Waits, Quiet, Shapes, SyncTypeOK
<1>9. Waited'
    BY <1>1, <1>3 DEF Waited, At
<1>10. SlotsHeld'
    BY <1>1, <1>3, <1>4, <1>5, <1>7 DEF SlotsHeld, At, Quiet
<1>11. cmdHead' \in Frames /\ registered' \subseteq 1 .. fenceVal /\ event' \in BOOLEAN
    BY <1>4 DEF PInv, Shapes, SyncTypeOK
<1> QED BY <1>1, <1>2, <1>4, <1>6, <1>8, <1>9, <1>10, <1>11, SyncQuietStep

-----------------------------------------------------------------------------
(* The event                                                                  *)

LEMMA WatchSafe ==
    ASSUME PInv, OneThread, NEW t \in Threads, NEW from, NEW to, Watch(t, from, to),
           <<from, to>> \in {<<"watchFrame", "waitFrame">>, <<"watchDone", "waitDone">>,
                             <<"watchDrain", "waitDrain">>}
    PROVE  PInv'
<1> DEFINE r == [th[t] EXCEPT !.pc = to]
<1>1. th[t] \in Local /\ to \in Waits
    BY DEF PInv, Shapes, Waits
<1>2. /\ r \in Local /\ r.pc = to /\ r.slot = th[t].slot /\ r.frame = th[t].frame
      /\ r.val = th[t].val
    BY <1>1 DEF Places, Local, Waits
<1>3. th' = [th EXCEPT ![t] = r]
    BY DEF Watch, Goto
<1> HIDE DEF r
<1>4. th' \in [Threads -> Local] /\ th'[t] = r /\ \A u \in Threads : u = t
    BY <1>2, <1>3, Moved DEF OneThread
<1>5. Quiet /\ UNCHANGED <<cmdHead, slotFree>> /\ th[t].pc = from
    BY DEF Watch, Quiet, ringVars, At
<1>6. Signals' = Signals
    BY <1>5 DEF Signals, Quiet
<1>7. registered = {} /\ ~event
    BY <1>5 DEF PInv, Waiting, Waits
<1>8. /\ th[t].val \in Nat /\ th[t].val <= fenceVal /\ completed \in Nat /\ fenceVal \in Nat
    BY <1>1 DEF PInv, Waiting, Shapes, SyncTypeOK, Local
<1>9. /\ registered' \subseteq {th[t].val} /\ registered' \subseteq 1 .. fenceVal
      /\ event' \in BOOLEAN
      /\ event' => completed >= th[t].val /\ registered' = {}
    <2>1. CASE AtOnce(th[t].val)
        BY <2>1, <1>7 DEF Watch, AtOnce
    <2>2. CASE ~AtOnce(th[t].val)
        <3>1. registered' = {th[t].val} /\ event' = FALSE /\ th[t].val > completed
            BY <2>2, <1>7, <1>8 DEF Watch, AtOnce
        <3>2. registered' \subseteq {th[t].val}
            BY <3>1
        <3>3. registered' \subseteq 1 .. fenceVal
            BY <3>1, <1>8
        <3> QED BY <3>1, <3>2, <3>3, Zenon
    <2> QED BY <2>1, <2>2
<1>10. Waiting'
    BY <1>1, <1>2, <1>4, <1>5, <1>8, <1>9 DEF PInv, Waiting, Waits, Quiet
<1>11. Waited'
    BY <1>1, <1>2, <1>4 DEF Waited, At, Waits
<1>12. SlotsHeld'
    BY <1>1, <1>2, <1>4, <1>5, <1>6 DEF PInv, SlotsHeld, Reading, At, Quiet, Waits
<1>13. cmdHead' \in Frames /\ slotFree' \in [Slots -> BOOLEAN]
    BY <1>5 DEF PInv, Shapes, SyncTypeOK
<1>14. th[t].pc \notin {"tick", "signal"} /\ r.pc \notin {"signal", "signalDrain"}
    BY <1>1, <1>2, <1>5 DEF Waits
<1> QED BY <1>2, <1>3, <1>5, <1>9, <1>10, <1>11, <1>12, <1>13, <1>14, SyncQuietStep

LEMMA WaitSafe ==
    ASSUME PInv, OneThread, NEW t \in Threads, NEW from, NEW to, Wait(t, from, to),
           <<from, to>> \in {<<"waitFrame", "record">>, <<"waitDone", "release">>,
                             <<"waitDrain", "read">>}
    PROVE  PInv'
<1> DEFINE r == [th[t] EXCEPT !.pc = to]
<1>1. th[t] \in Local /\ to \in {"record", "release", "read"} /\ from \in Waits
    BY DEF PInv, Shapes, Waits
<1>2. /\ r \in Local /\ r.pc = to /\ r.slot = th[t].slot /\ r.frame = th[t].frame
      /\ r.val = th[t].val
    BY <1>1 DEF Places, Local
<1>3. th' = [th EXCEPT ![t] = r]
    BY DEF Wait, Goto
<1> HIDE DEF r
<1>4. th' \in [Threads -> Local] /\ th'[t] = r /\ \A u \in Threads : u = t
    BY <1>2, <1>3, Moved DEF OneThread
<1>5. Quiet /\ UNCHANGED <<cmdHead, slotFree, registered>> /\ th[t].pc = from /\ event' = FALSE
    BY DEF Wait, Quiet, ringVars, At
<1>6. Signals' = Signals
    BY <1>5 DEF Signals, Quiet
<1>7. registered = {} /\ completed >= th[t].val
    BY DEF Wait, PInv, Waiting
<1>8. /\ to = "record" => th[t].val = frameFence[th[t].frame]
      /\ to # "record" => th[t].val = fenceVal
    BY <1>5 DEF PInv, Waiting
<1>9. Waiting'
    BY <1>1, <1>2, <1>4, <1>5, <1>7 DEF PInv, Waiting, Waits, Quiet
<1>10. Waited'
    BY <1>1, <1>2, <1>4, <1>5, <1>7, <1>8 DEF Waited, At, Quiet
<1>11. to = "release" => \A i \in DOMAIN gpuQ \ Signals : FALSE
    BY <1>1, <1>5, <1>7, <1>8, NoListLeft DEF Waits, PInv, Shapes, SyncTypeOK
<1>12. SlotsHeld'
    BY <1>1, <1>2, <1>4, <1>5, <1>6, <1>11 DEF PInv, SlotsHeld, Reading, At, Quiet
<1>13. cmdHead' \in Frames /\ slotFree' \in [Slots -> BOOLEAN]
    BY <1>5 DEF PInv, Shapes, SyncTypeOK
<1>14. th[t].pc \notin {"tick", "signal"} /\ r.pc \notin {"signal", "signalDrain"}
    BY <1>1, <1>2, <1>5 DEF Waits
<1> QED BY <1>2, <1>3, <1>5, <1>7, <1>9, <1>10, <1>12, <1>13, <1>14, SyncQuietStep

-----------------------------------------------------------------------------
(* Steps that append to the queue                                             *)

LEMMA Appended ==
    ASSUME PInv, NEW e \in Entry, gpuQ' = Append(gpuQ, e)
    PROVE  /\ gpuQ' \in Seq(Entry) /\ Len(gpuQ) \in Nat
           /\ (DOMAIN gpuQ)' = 1 .. (Len(gpuQ) + 1) /\ DOMAIN gpuQ = 1 .. Len(gpuQ)
           /\ \A i \in DOMAIN gpuQ : gpuQ'[i] = gpuQ[i] /\ gpuQ[i] \in Entry
           /\ gpuQ'[Len(gpuQ) + 1] = e
BY DEF PInv, Shapes

LEMMA ExecuteSafe ==
    ASSUME PInv, OneThread, NEW t \in Threads, Execute(t) PROVE PInv'
<1> DEFINE r == [th[t] EXCEPT !.pc = "tick"]
           e == [kind |-> "list", by |-> t, slot |-> th[t].slot,
                 frame |-> th[t].frame, val |-> 0]
           n == Len(gpuQ) + 1
<1>1. th[t] \in Local
    BY DEF PInv, Shapes
<1>2. /\ r \in Local /\ r.pc = "tick" /\ r.slot = th[t].slot /\ r.frame = th[t].frame
      /\ r.val = th[t].val
    BY <1>1, PlaceUpdate DEF Places
<1>3. /\ e \in Entry /\ e.kind = "list" /\ e.slot = th[t].slot /\ e.frame = th[t].frame
      /\ e.val = 0
    BY <1>1 DEF Entry, Local
<1>4. th' = [th EXCEPT ![t] = r] /\ gpuQ' = Append(gpuQ, e)
    BY DEF Execute, Goto
<1>5. /\ UNCHANGED <<slotFree, cmdHead, frameFence, fenceVal, completed, registered, event>>
      /\ th[t].pc = "record"
    BY DEF Execute, ringVars, fenceVars, At
<1> HIDE DEF r, e
<1>6. th' \in [Threads -> Local] /\ th'[t] = r /\ \A u \in Threads : u = t
    BY <1>2, <1>4, Moved DEF OneThread
<1>7. /\ gpuQ' \in Seq(Entry) /\ Len(gpuQ) \in Nat
      /\ (DOMAIN gpuQ)' = 1 .. n /\ DOMAIN gpuQ = 1 .. Len(gpuQ)
      /\ \A i \in DOMAIN gpuQ : gpuQ'[i] = gpuQ[i] /\ gpuQ[i] \in Entry
      /\ gpuQ'[n] = e
    BY <1>3, <1>4, Appended
<1>8. Signals' = Signals
    BY <1>3, <1>7 DEF Signals
<1>9. (DOMAIN gpuQ)' \ Signals' = (DOMAIN gpuQ \ Signals) \cup {n}
    BY <1>3, <1>7, <1>8 DEF Signals
<1>10. \A i \in Signals : gpuQ'[i] = gpuQ[i]
    BY <1>7 DEF Signals
<1>11. Shapes'
    <2>1. fenceVal \in Nat /\ \A i \in DOMAIN gpuQ : gpuQ[i].val \in 0 .. fenceVal
        BY DEF PInv, Shapes, SyncTypeOK
    <2>2. \A i \in (DOMAIN gpuQ)' : i \in DOMAIN gpuQ \/ i = n
        BY <1>7
    <2>3. \A i \in (DOMAIN gpuQ)' : gpuQ'[i].val \in 0 .. fenceVal
        BY <2>1, <2>2, <1>3, <1>7
    <2> QED BY <2>3, <1>5, <1>6, <1>7 DEF PInv, Shapes, SyncTypeOK, Local
<1> HIDE DEF n
<1>12. SignalsRise'
    BY <1>5, <1>8, <1>10 DEF PInv, SignalsRise
<1>13. ListsFenced'
    <2>1. ASSUME NEW i \in DOMAIN gpuQ \ Signals PROVE Behind(i)'
        <3>1. Behind(i)
            BY <1>5 DEF PInv, ListsFenced, Open, OneThread
        <3> QED BY <3>1, <1>5, <1>7, <1>8, <1>10 DEF Behind
    <2>2. ASSUME NEW i, i = n PROVE Open(i)'
        BY <2>2, <1>2, <1>3, <1>6, <1>7 DEF Open
    <2> QED BY <2>1, <2>2, <1>9 DEF ListsFenced
<1>14. Signalling' /\ Waited'
    BY <1>2, <1>6 DEF Signalling, Waited, At
<1>15. Waiting'
    BY <1>2, <1>5, <1>6 DEF PInv, Waiting, Waits
<1>16. SlotsHeld'
    BY <1>2, <1>3, <1>5, <1>6, <1>7, <1>9 DEF PInv, SlotsHeld, Reading, At
<1> QED BY <1>11, <1>12, <1>13, <1>14, <1>15, <1>16 DEF PInv

\* A signal of the greatest value, at the end of the queue.
LEMMA SignalSent ==
    ASSUME PInv, NEW t \in Threads, OneThread, NEW e \in Entry, e.kind = "signal",
           gpuQ' = Append(gpuQ, e), e.val = fenceVal,
           th[t].pc \in {"signal", "signalDrain"},
           th' \in [Threads -> Local], th'[t].pc \notin {"signal", "signalDrain"},
           UNCHANGED <<frameFence, fenceVal, completed>>,
           \A i \in DOMAIN gpuQ \ Signals : Open(i) => frameFence[gpuQ[i].frame] = fenceVal
    PROVE  /\ SignalsRise' /\ ListsFenced' /\ Signalling'
           /\ (DOMAIN gpuQ)' \ Signals' = DOMAIN gpuQ \ Signals
           /\ \A i \in DOMAIN gpuQ : gpuQ'[i] = gpuQ[i]
<1> DEFINE n == Len(gpuQ) + 1
<1>1. /\ gpuQ' \in Seq(Entry) /\ Len(gpuQ) \in Nat
      /\ (DOMAIN gpuQ)' = 1 .. n /\ DOMAIN gpuQ = 1 .. Len(gpuQ)
      /\ \A i \in DOMAIN gpuQ : gpuQ'[i] = gpuQ[i] /\ gpuQ[i] \in Entry
      /\ gpuQ'[n] = e
    BY Appended
<1>2. n \notin DOMAIN gpuQ /\ \A i \in DOMAIN gpuQ : i < n /\ ~(n < i)
    BY <1>1
<1>3. (DOMAIN gpuQ)' = DOMAIN gpuQ \cup {n}
    BY <1>1
<1>4. Signals' = Signals \cup {n} /\ (DOMAIN gpuQ)' \ Signals' = DOMAIN gpuQ \ Signals
    BY <1>1, <1>2, <1>3 DEF Signals
<1>5. \A i \in Signals : i \in DOMAIN gpuQ /\ gpuQ'[i] = gpuQ[i]
    BY <1>1 DEF Signals
<1>6. completed < fenceVal /\ \A i \in Signals : gpuQ[i].val < fenceVal
    BY DEF PInv, Signalling
<1>7. gpuQ'[n].val = fenceVal
    BY <1>1
<1>8. ~(n < n)
    BY <1>1
<1> HIDE DEF n
<1>9. SignalsRise'
    BY <1>2, <1>4, <1>5, <1>6, <1>7, <1>8 DEF PInv, SignalsRise
<1>10. ASSUME NEW i \in DOMAIN gpuQ \ Signals PROVE Behind(i)'
    <2>1. CASE Behind(i)
        BY <2>1, <1>1, <1>4, <1>5 DEF Behind
    <2>2. CASE Open(i)
        <3>1. frameFence'[gpuQ'[i].frame] = fenceVal
            BY <2>2, <1>1
        <3>2. fenceVal \in Nat
            BY DEF PInv, Shapes, SyncTypeOK
        <3> QED BY <3>1, <3>2, <1>2, <1>4, <1>7 DEF Behind
    <2> QED BY <2>1, <2>2 DEF PInv, ListsFenced
<1>11. ListsFenced'
    BY <1>4, <1>10 DEF ListsFenced
<1>12. Signalling'
    BY DEF Signalling, At, OneThread
<1> QED BY <1>1, <1>4, <1>9, <1>11, <1>12

LEMMA SignalFrameSafe ==
    ASSUME PInv, OneThread, NEW t \in Threads, SignalFrame(t) PROVE PInv'
<1> DEFINE p == AfterSignal(t)
           v == frameFence[th[t].frame]
           r == [th[t] EXCEPT !.pc = p, !.val = v]
           e == [kind |-> "signal", by |-> t, slot |-> NoSlot, frame |-> 0, val |-> v]
<1>1. /\ th[t] \in Local /\ th[t].frame \in Frames
      /\ fenceVal \in Nat /\ completed \in Nat /\ frameFence \in [Frames -> 0 .. fenceVal]
    BY DEF PInv, Shapes, SyncTypeOK, Local
<1>2. v \in Nat /\ v <= fenceVal
    BY <1>1
<1>3. /\ p \in {"idle", "watchDone"} /\ p \in Places
      /\ p = "idle" <=> th[t].slot = NoSlot
    BY DEF AfterSignal, Places
<1>4. th' = [th EXCEPT ![t] = r] /\ gpuQ' = Append(gpuQ, e)
    BY DEF SignalFrame, SignalEntry, Signalled
<1> HIDE DEF p, v
<1>5. /\ r \in Local /\ r.pc = p /\ r.slot = th[t].slot /\ r.frame = th[t].frame
      /\ r.val = v
    BY <1>1, <1>2, <1>3 DEF Local
<1>6. e \in Entry /\ e.kind = "signal" /\ e.val = v
    BY <1>2, PipelineSyncAssumption DEF Entry, Frames
<1> HIDE DEF r, e
<1>7. /\ UNCHANGED <<slotFree, cmdHead, frameFence, fenceVal, completed, registered, event>>
      /\ th[t].pc = "signal"
    BY DEF SignalFrame, ringVars, fenceVars, At
<1>8. v = fenceVal
    BY <1>7 DEF PInv, Signalling, At, v
<1>9. th' \in [Threads -> Local] /\ th'[t] = r /\ \A u \in Threads : u = t
    BY <1>4, <1>5, Moved DEF OneThread
<1>10. /\ SignalsRise' /\ ListsFenced' /\ Signalling'
       /\ (DOMAIN gpuQ)' \ Signals' = DOMAIN gpuQ \ Signals
       /\ \A i \in DOMAIN gpuQ : gpuQ'[i] = gpuQ[i]
    <2>1. \A i \in DOMAIN gpuQ \ Signals : Open(i) => frameFence[gpuQ[i].frame] = fenceVal
        BY <1>8, <1>9 DEF Open, v
    <2>2. /\ th[t].pc \in {"signal", "signalDrain"}
          /\ th'[t].pc \notin {"signal", "signalDrain"}
        BY <1>3, <1>5, <1>7, <1>9
    <2> QED BY <2>1, <2>2, <1>4, <1>6, <1>7, <1>8, <1>9, SignalSent
<1>11. Shapes'
    <2>1. gpuQ' \in Seq(Entry) /\ \A i \in (DOMAIN gpuQ)' : gpuQ'[i].val \in 0 .. fenceVal
        <3>1. \A i \in DOMAIN gpuQ : gpuQ[i].val \in 0 .. fenceVal
            BY DEF PInv, Shapes, SyncTypeOK
        <3>2. \A i \in (DOMAIN gpuQ)' : i \in DOMAIN gpuQ \/ gpuQ'[i] = e
            BY <1>4, <1>6, Appended
        <3>3. e.val \in 0 .. fenceVal
            BY <1>1, <1>6, <1>8
        <3> QED BY <3>1, <3>2, <3>3, <1>4, <1>6, <1>10, Appended
    <2> QED BY <2>1, <1>5, <1>7, <1>9 DEF PInv, Shapes, SyncTypeOK, Local
<1>12. Waiting'
    BY <1>1, <1>2, <1>3, <1>5, <1>7, <1>8, <1>9 DEF PInv, Waiting, Waits
<1>13. Waited'
    BY <1>3, <1>5, <1>9 DEF Waited, At
<1>14. SlotsHeld'
    BY <1>3, <1>5, <1>7, <1>9, <1>10 DEF PInv, SlotsHeld, Reading, At
<1> QED BY <1>10, <1>11, <1>12, <1>13, <1>14 DEF PInv

LEMMA SignalDrainSafe ==
    ASSUME PInv, OneThread, NEW t \in Threads, SignalDrain(t) PROVE PInv'
<1> DEFINE v == th[t].val
           r == [th[t] EXCEPT !.pc = "watchDrain"]
           e == [kind |-> "signal", by |-> t, slot |-> NoSlot, frame |-> 0, val |-> v]
<1>1. th[t] \in Local /\ v \in Nat /\ fenceVal \in Nat /\ completed \in Nat
    BY DEF PInv, Shapes, SyncTypeOK, Local
<1>2. /\ r \in Local /\ r.pc = "watchDrain" /\ r.slot = th[t].slot /\ r.frame = th[t].frame
      /\ r.val = v
    BY <1>1, PlaceUpdate DEF Places
<1>3. th' = [th EXCEPT ![t] = r] /\ gpuQ' = Append(gpuQ, e)
    BY DEF SignalDrain, Goto, SignalEntry
<1>4. e \in Entry /\ e.kind = "signal" /\ e.val = v
    BY <1>1, PipelineSyncAssumption DEF Entry, Frames
<1> HIDE DEF r, e
<1>5. /\ UNCHANGED <<slotFree, cmdHead, frameFence, fenceVal, completed, registered, event>>
      /\ th[t].pc = "signalDrain"
    BY DEF SignalDrain, ringVars, fenceVars, At
<1>6. v = fenceVal
    BY <1>5 DEF PInv, Signalling, At
<1>7. th' \in [Threads -> Local] /\ th'[t] = r /\ \A u \in Threads : u = t
    BY <1>2, <1>3, Moved DEF OneThread
<1>8. /\ SignalsRise' /\ ListsFenced' /\ Signalling'
      /\ (DOMAIN gpuQ)' \ Signals' = DOMAIN gpuQ \ Signals
      /\ \A i \in DOMAIN gpuQ : gpuQ'[i] = gpuQ[i]
    <2>1. \A i \in DOMAIN gpuQ \ Signals : ~Open(i)
        BY <1>5, <1>7 DEF Open
    <2>2. /\ th[t].pc \in {"signal", "signalDrain"}
          /\ th'[t].pc \notin {"signal", "signalDrain"}
        BY <1>2, <1>5, <1>7
    <2> QED BY <2>1, <2>2, <1>3, <1>4, <1>5, <1>6, <1>7, SignalSent
<1>9. Shapes'
    <2>1. gpuQ' \in Seq(Entry) /\ \A i \in (DOMAIN gpuQ)' : gpuQ'[i].val \in 0 .. fenceVal
        <3>1. \A i \in DOMAIN gpuQ : gpuQ[i].val \in 0 .. fenceVal
            BY DEF PInv, Shapes, SyncTypeOK
        <3>2. \A i \in (DOMAIN gpuQ)' : i \in DOMAIN gpuQ \/ gpuQ'[i] = e
            BY <1>3, <1>4, Appended
        <3>3. e.val \in 0 .. fenceVal
            BY <1>1, <1>4, <1>6
        <3> QED BY <3>1, <3>2, <3>3, <1>3, <1>4, <1>8, Appended
    <2> QED BY <2>1, <1>2, <1>5, <1>7 DEF PInv, Shapes, SyncTypeOK, Local
<1>10. Waiting'
    BY <1>1, <1>2, <1>5, <1>6, <1>7 DEF PInv, Waiting, Waits
<1>11. Waited'
    BY <1>2, <1>7 DEF Waited, At
<1>12. SlotsHeld'
    BY <1>2, <1>5, <1>7, <1>8 DEF PInv, SlotsHeld, Reading, At
<1> QED BY <1>8, <1>9, <1>10, <1>11, <1>12 DEF PInv

-----------------------------------------------------------------------------
(* Steps that hand out a fence value                                          *)

LEMMA TickSafe ==
    ASSUME PInv, OneThread, NEW t \in Threads, Tick(t) PROVE PInv'
<1> DEFINE f == th[t].frame
           r == [th[t] EXCEPT !.pc = "signal"]
<1>1. /\ th[t] \in Local /\ f \in Frames
      /\ fenceVal \in Nat /\ completed \in 0 .. fenceVal /\ frameFence \in [Frames -> 0 .. fenceVal]
    BY DEF PInv, Shapes, SyncTypeOK, Local
<1>2. /\ r \in Local /\ r.pc = "signal" /\ r.slot = th[t].slot /\ r.frame = f
      /\ r.val = th[t].val
    BY <1>1, PlaceUpdate DEF Places
<1>3. th' = [th EXCEPT ![t] = r] /\ fenceVal' = fenceVal + 1
    BY DEF Tick, Goto
<1> HIDE DEF r
<1>4. /\ UNCHANGED <<slotFree, cmdHead, completed, registered, event, gpuQ>>
      /\ th[t].pc = "tick"
    BY DEF Tick, At
<1>5. th' \in [Threads -> Local] /\ th'[t] = r /\ \A u \in Threads : u = t
    BY <1>2, <1>3, Moved DEF OneThread
<1>6. /\ frameFence' \in [Frames -> 0 .. fenceVal'] /\ frameFence'[f] = fenceVal'
      /\ \A g \in Frames : frameFence[g] <= frameFence'[g]
    BY <1>1 DEF Tick
<1>7. Signals' = Signals
    BY <1>4 DEF Signals
<1>8. \A i \in DOMAIN gpuQ : gpuQ[i] \in Entry /\ gpuQ[i].frame \in Frames /\ gpuQ[i].val \in 0 .. fenceVal
    <2>1. \A i \in DOMAIN gpuQ : gpuQ[i].val \in 0 .. fenceVal
        BY DEF PInv, Shapes, SyncTypeOK
    <2>2. \A i \in DOMAIN gpuQ : gpuQ[i] \in Entry
        BY DEF PInv, Shapes
    <2> QED BY <2>1, <2>2 DEF Entry
<1>9. Signals \subseteq DOMAIN gpuQ
    BY DEF Signals
<1>10. Shapes'
    <2>1. \A i \in DOMAIN gpuQ : gpuQ[i].val \in 0 .. fenceVal'
        BY <1>1, <1>3, <1>8
    <2>2. /\ completed' \in 0 .. fenceVal' /\ registered' \subseteq 1 .. fenceVal'
          /\ fenceVal' \in Nat
        BY <1>1, <1>3, <1>4 DEF PInv, Shapes, SyncTypeOK
    <2> QED BY <2>1, <2>2, <1>2, <1>4, <1>5, <1>6 DEF PInv, Shapes, SyncTypeOK, Local
<1>11. SignalsRise'
    BY <1>4, <1>7 DEF PInv, SignalsRise
<1>12. ListsFenced'
    <2> SUFFICES ASSUME NEW i \in DOMAIN gpuQ \ Signals PROVE (Behind(i) \/ Open(i))'
        BY <1>4, <1>7 DEF ListsFenced
    <2>1. CASE Behind(i)
        <3>1. PICK j \in Signals : i < j /\ gpuQ[j].val <= frameFence[gpuQ[i].frame]
            BY <2>1 DEF Behind
        <3>2. gpuQ[j].val <= frameFence'[gpuQ[i].frame]
            <4>1. frameFence[gpuQ[i].frame] \in Nat /\ frameFence'[gpuQ[i].frame] \in Nat
                BY <1>1, <1>3, <1>6, <1>8
            <4>2. gpuQ[j].val \in Nat /\ frameFence[gpuQ[i].frame] <= frameFence'[gpuQ[i].frame]
                BY <1>6, <1>8, <1>9
            <4> QED BY <3>1, <4>1, <4>2
        <3> QED BY <3>1, <3>2, <1>4, <1>7 DEF Behind
    <2>2. CASE Open(i)
        BY <2>2, <1>2, <1>4, <1>5 DEF Open
    <2> QED BY <2>1, <2>2 DEF PInv, ListsFenced
<1>13. Signalling'
    <2>1. completed < fenceVal' /\ \A i \in Signals : gpuQ[i].val < fenceVal'
        BY <1>1, <1>3, <1>8, <1>9
    <2> QED BY <2>1, <1>2, <1>4, <1>5, <1>6, <1>7 DEF Signalling, At
<1>14. Waiting'
    <2>1. registered = {} /\ ~event /\ registered \subseteq {th[t].val} /\ th[t].val <= fenceVal
        BY <1>4 DEF PInv, Waiting, Waits
    <2>2. th[t].val <= fenceVal'
        BY <2>1, <1>1, <1>3 DEF Local
    <2> QED BY <2>1, <2>2, <1>2, <1>4, <1>5 DEF Waiting, Waits
<1>15. Waited'
    BY <1>2, <1>5 DEF Waited, At
<1>16. SlotsHeld'
    BY <1>2, <1>4, <1>5, <1>7 DEF PInv, SlotsHeld, Reading, At
<1> QED BY <1>10, <1>11, <1>12, <1>13, <1>14, <1>15, <1>16 DEF PInv

LEMMA BeginDrainSafe ==
    ASSUME PInv, OneThread, NEW t \in Threads, BeginDrain(t) PROVE PInv'
<1> DEFINE v == fenceVal + 1
           r == [th[t] EXCEPT !.pc = "signalDrain", !.val = v]
<1>1. /\ th[t] \in Local /\ v \in Nat
      /\ fenceVal \in Nat /\ completed \in 0 .. fenceVal /\ frameFence \in [Frames -> 0 .. fenceVal]
    BY DEF PInv, Shapes, SyncTypeOK
<1>2. th' = [th EXCEPT ![t] = r] /\ fenceVal' = v
    BY DEF BeginDrain, DrainValue
<1>3. v > fenceVal
    BY <1>1
<1> HIDE DEF v
<1>4. /\ r \in Local /\ r.pc = "signalDrain" /\ r.slot = th[t].slot /\ r.val = v
    <2>1. "signalDrain" \in Places
        BY DEF Places
    <2> QED BY <2>1, <1>1 DEF Local
<1> HIDE DEF r
<1>5. /\ UNCHANGED <<slotFree, cmdHead, frameFence, completed, registered, event, gpuQ>>
      /\ th[t].pc = "idle"
    BY DEF BeginDrain, At, ringVars
<1>6. th' \in [Threads -> Local] /\ th'[t] = r /\ \A u \in Threads : u = t
    BY <1>2, <1>4, Moved DEF OneThread
<1>7. Signals' = Signals
    BY <1>5 DEF Signals
<1>8. \A i \in DOMAIN gpuQ : gpuQ[i].val \in 0 .. fenceVal
    BY DEF PInv, Shapes, SyncTypeOK
<1>9. Signals \subseteq DOMAIN gpuQ
    BY DEF Signals
<1>10. Shapes'
    <2>1. \A i \in DOMAIN gpuQ : gpuQ[i].val \in 0 .. fenceVal'
        BY <1>1, <1>2, <1>3, <1>8
    <2>2. /\ completed' \in 0 .. fenceVal' /\ registered' \subseteq 1 .. fenceVal'
          /\ fenceVal' \in Nat /\ frameFence' \in [Frames -> 0 .. fenceVal']
        BY <1>1, <1>2, <1>3, <1>5 DEF PInv, Shapes, SyncTypeOK
    <2> QED BY <2>1, <2>2, <1>4, <1>5, <1>6 DEF PInv, Shapes, SyncTypeOK, Local
<1>11. SignalsRise'
    BY <1>5, <1>7 DEF PInv, SignalsRise
<1>12. ListsFenced'
    <2>1. ASSUME NEW i \in DOMAIN gpuQ \ Signals PROVE Behind(i)'
        <3>1. Behind(i)
            BY <1>5 DEF PInv, ListsFenced, Open, OneThread
        <3> QED BY <3>1, <1>5, <1>7 DEF Behind
    <2> QED BY <2>1, <1>5, <1>7 DEF ListsFenced
<1>13. Signalling'
    <2>1. completed < fenceVal' /\ \A i \in Signals : gpuQ[i].val < fenceVal'
        BY <1>1, <1>2, <1>3, <1>8, <1>9
    <2> QED BY <2>1, <1>2, <1>4, <1>5, <1>6, <1>7 DEF Signalling, At
<1>14. Waiting'
    <2>1. registered = {} /\ ~event
        BY <1>5 DEF PInv, Waiting, Waits
    <2> QED BY <2>1, <1>1, <1>2, <1>4, <1>5, <1>6 DEF Waiting, Waits
<1>15. Waited'
    BY <1>4, <1>6 DEF Waited, At
<1>16. SlotsHeld'
    BY <1>4, <1>5, <1>6, <1>7 DEF PInv, SlotsHeld, Reading, At
<1> QED BY <1>10, <1>11, <1>12, <1>13, <1>14, <1>15, <1>16 DEF PInv

-----------------------------------------------------------------------------
(* The GPU takes the head of the queue                                        *)

LEMMA Taken ==
    ASSUME PInv, gpuQ # <<>>, gpuQ' = Tail(gpuQ)
    PROVE  /\ gpuQ' \in Seq(Entry) /\ 1 \in DOMAIN gpuQ /\ Head(gpuQ) = gpuQ[1]
           /\ \A i \in (DOMAIN gpuQ)' : i \in Nat /\ i >= 1 /\ i + 1 \in DOMAIN gpuQ
                                          /\ gpuQ'[i] = gpuQ[i + 1]
           /\ \A i \in DOMAIN gpuQ : i \in Nat /\ (i > 1 => i - 1 \in (DOMAIN gpuQ)')
BY DEF PInv, Shapes

LEMMA GpuSafe == ASSUME PInv, OneThread, GpuStep PROVE PInv'
<1>1. /\ gpuQ' \in Seq(Entry) /\ 1 \in DOMAIN gpuQ /\ Head(gpuQ) = gpuQ[1]
      /\ \A i \in (DOMAIN gpuQ)' : i \in Nat /\ i >= 1 /\ i + 1 \in DOMAIN gpuQ
                                     /\ gpuQ'[i] = gpuQ[i + 1]
      /\ \A i \in DOMAIN gpuQ : i \in Nat /\ (i > 1 => i - 1 \in (DOMAIN gpuQ)')
    BY Taken DEF GpuStep
<1>2. UNCHANGED <<slotFree, cmdHead, frameFence, fenceVal, th>>
    BY DEF GpuStep, ringVars
<1>3. \A i \in DOMAIN gpuQ : gpuQ[i] \in Entry /\ gpuQ[i].val \in 0 .. fenceVal
    BY DEF PInv, Shapes, SyncTypeOK
<1>4. fenceVal \in Nat /\ completed \in 0 .. fenceVal
    BY DEF PInv, Shapes, SyncTypeOK
\* the signals move one place forward
<1>5. \A i \in Signals' : i \in (DOMAIN gpuQ)' /\ i + 1 \in Signals
    BY <1>1 DEF Signals
<1>6. \A i \in Signals : i > 1 => i - 1 \in Signals'
    <2> SUFFICES ASSUME NEW i \in Signals, i > 1 PROVE i - 1 \in Signals'
        OBVIOUS
    <2>1. i \in DOMAIN gpuQ /\ gpuQ[i].kind = "signal" /\ i \in Nat
        BY <1>1 DEF Signals
    <2>2. i - 1 \in (DOMAIN gpuQ)' /\ (i - 1) + 1 = i
        BY <2>1, <1>1
    <2>3. gpuQ'[i - 1] = gpuQ[i]
        BY <2>2, <1>1
    <2> QED BY <2>1, <2>2, <2>3 DEF Signals
<1>7. \A i \in (DOMAIN gpuQ)' \ Signals' : i + 1 \in DOMAIN gpuQ \ Signals
    <2> SUFFICES ASSUME NEW i \in (DOMAIN gpuQ)' \ Signals', i + 1 \in Signals PROVE FALSE
        BY <1>1
    <2>1. i \in Nat /\ i >= 1 /\ gpuQ'[i] = gpuQ[i + 1]
        BY <1>1
    <2> QED BY <2>1 DEF Signals
\* the fence rises, and stays below what is queued
<1>8. /\ completed' \in 0 .. fenceVal /\ completed <= completed'
      /\ completed' = completed \/ (1 \in Signals /\ completed' = gpuQ[1].val)
    <2>1. CASE Head(gpuQ).kind = "signal"
        <3>1. 1 \in Signals /\ completed' = gpuQ[1].val
            BY <2>1, <1>1 DEF Signals, GpuStep
        <3>2. completed < gpuQ[1].val /\ gpuQ[1].val \in 0 .. fenceVal
            BY <3>1, <1>1, <1>3 DEF PInv, SignalsRise
        <3> QED BY <3>1, <3>2, <1>4
    <2>2. CASE Head(gpuQ).kind # "signal"
        BY <2>2, <1>4 DEF GpuStep
    <2> QED BY <2>1, <2>2
<1>9. Shapes'
    <2>1. \A i \in (DOMAIN gpuQ)' : gpuQ'[i].val \in 0 .. fenceVal
        BY <1>1, <1>3
    <2>2. event' \in BOOLEAN
        BY DEF GpuStep, PInv, Shapes, SyncTypeOK
    <2>3. registered' \subseteq registered
        BY DEF GpuStep
    <2> QED BY <2>1, <2>2, <2>3, <1>1, <1>2, <1>8 DEF PInv, Shapes, SyncTypeOK
<1>10. SignalsRise'
    <2> SUFFICES ASSUME NEW i \in Signals'
                 PROVE  /\ completed' < gpuQ'[i].val
                        /\ \A j \in Signals' : i < j => gpuQ'[i].val < gpuQ'[j].val
        BY DEF SignalsRise
    <2>1. i + 1 \in Signals /\ i \in Nat /\ i >= 1 /\ gpuQ'[i] = gpuQ[i + 1]
        BY <1>1, <1>5
    <2>2. completed' < gpuQ'[i].val
        <3>1. CASE completed' = completed
            BY <3>1, <2>1 DEF PInv, SignalsRise
        <3>2. CASE 1 \in Signals /\ completed' = gpuQ[1].val
            <4>1. 1 < i + 1
                BY <2>1
            <4> QED BY <4>1, <3>2, <2>1 DEF PInv, SignalsRise
        <3> QED BY <3>1, <3>2, <1>8
    <2>3. ASSUME NEW j \in Signals', i < j PROVE gpuQ'[i].val < gpuQ'[j].val
        <3>1. j + 1 \in Signals /\ j \in Nat /\ gpuQ'[j] = gpuQ[j + 1]
            BY <1>1, <1>5
        <3>2. i + 1 < j + 1
            BY <2>1, <2>3, <3>1
        <3> QED BY <3>1, <3>2, <2>1 DEF PInv, SignalsRise
    <2> QED BY <2>2, <2>3
<1>11. ListsFenced'
    <2> SUFFICES ASSUME NEW i \in (DOMAIN gpuQ)' \ Signals' PROVE (Behind(i) \/ Open(i))'
        BY DEF ListsFenced
    <2>1. i \in Nat /\ gpuQ'[i] = gpuQ[i + 1] /\ i + 1 \in DOMAIN gpuQ \ Signals
        BY <1>1, <1>7
    <2>2. CASE Open(i + 1)
        BY <2>1, <2>2, <1>2 DEF Open
    <2>3. CASE Behind(i + 1)
        <3>1. PICK j \in Signals : i + 1 < j /\ gpuQ[j].val <= frameFence[gpuQ[i + 1].frame]
            BY <2>3 DEF Behind
        <3>2. j \in Nat /\ j > 1 /\ i < j - 1 /\ (j - 1) + 1 = j
            BY <2>1, <3>1, <1>1 DEF Signals
        <3>3. j - 1 \in Signals' /\ gpuQ'[j - 1] = gpuQ[j]
            BY <3>2, <1>1, <1>5, <1>6
        <3> QED BY <2>1, <3>1, <3>2, <3>3, <1>2 DEF Behind
    <2> QED BY <2>1, <2>2, <2>3 DEF PInv, ListsFenced
<1>12. Signalling'
    <2> SUFFICES ASSUME NEW t \in Threads, th[t].pc \in {"signal", "signalDrain"}
                 PROVE  completed' < fenceVal /\ \A i \in Signals' : gpuQ'[i].val < fenceVal
        BY <1>2 DEF PInv, Signalling, At
    <2>1. completed < fenceVal /\ \A i \in Signals : gpuQ[i].val < fenceVal
        BY DEF PInv, Signalling
    <2> QED BY <2>1, <1>1, <1>5, <1>8
<1>13. Waiting'
    <2> SUFFICES ASSUME NEW t \in Threads
                 PROVE  /\ registered' \subseteq {th[t].val}
                        /\ registered' # {} => th[t].pc \in Waits
                        /\ event' => th[t].pc \in Waits /\ completed' >= th[t].val
                                       /\ registered' = {}
        BY <1>2 DEF PInv, Waiting
    <2>1. /\ registered \subseteq {th[t].val}
          /\ registered # {} => th[t].pc \in Waits
          /\ event => th[t].pc \in Waits /\ completed >= th[t].val /\ registered = {}
        BY DEF PInv, Waiting
    <2>2. th[t].val \in Nat
        BY DEF PInv, Shapes, Local
    <2>3. registered' \subseteq registered
        BY DEF GpuStep
    <2>4. event' => event \/ (th[t].val \in registered /\ completed' >= th[t].val
                                /\ th[t].val \notin registered')
        BY <2>1 DEF GpuStep, Reached
    <2>5. ASSUME event' PROVE th[t].pc \in Waits /\ completed' >= th[t].val /\ registered' = {}
        <3>1. CASE event
            BY <3>1, <2>1, <2>2, <2>3, <1>4, <1>8
        <3>2. CASE ~event
            BY <3>2, <2>1, <2>3, <2>4, <2>5
        <3> QED BY <3>1, <3>2
    <2> QED BY <2>1, <2>3, <2>5
<1>14. Waited'
    <2> SUFFICES ASSUME NEW t \in Threads
                 PROVE  /\ At(t, "record") => completed' >= frameFence[th[t].frame]
                        /\ th[t].pc \in {"release", "read"} => completed' >= fenceVal
        BY <1>2 DEF Waited, At
    <2>1. frameFence[th[t].frame] \in Nat
        BY DEF PInv, Shapes, SyncTypeOK
    <2> QED BY <2>1, <1>4, <1>8 DEF PInv, Waited
<1>15. SlotsHeld'
    BY <1>1, <1>2, <1>7 DEF PInv, SlotsHeld, Reading, At
<1> QED BY <1>9, <1>10, <1>11, <1>12, <1>13, <1>14, <1>15 DEF PInv

-----------------------------------------------------------------------------

LEMMA SyncInvStep == ASSUME PInv, OneThread, [SyncNext]_syncVars PROVE PInv'
<1>1. ASSUME NEW t \in Threads, Step(t) PROVE PInv'
    <2>1. CASE Copy(t) \/ NextFrame(t) \/ AdvanceHead(t)
        BY <2>1, PlainSafe
    <2>2. CASE UnknownType(t) \/ FinishUpload(t) \/ ReadLogits(t)
        BY <2>2, ReleaseSafe
    <2>3. CASE Watch(t, "watchFrame", "waitFrame") \/ Watch(t, "watchDone", "waitDone")
                 \/ Watch(t, "watchDrain", "waitDrain")
        BY <2>3, WatchSafe
    <2>4. CASE Wait(t, "waitFrame", "record") \/ Wait(t, "waitDone", "release")
                 \/ Wait(t, "waitDrain", "read")
        BY <2>4, WaitSafe
    <2>5. CASE Execute(t)
        BY <2>5, ExecuteSafe
    <2>6. CASE Tick(t)
        BY <2>6, TickSafe
    <2>7. CASE SignalFrame(t)
        BY <2>7, SignalFrameSafe
    <2>8. CASE SignalDrain(t)
        BY <2>8, SignalDrainSafe
    <2> QED BY <1>1, <2>1, <2>2, <2>3, <2>4, <2>5, <2>6, <2>7, <2>8 DEF Step
<1>2. ASSUME NEW t \in Threads, BeginOp(t) PROVE PInv'
    BY <1>2, PlainSafe, BeginDrainSafe, AcquireSafe DEF BeginOp
<1>3. CASE GpuStep
    BY <1>3, GpuSafe
<1>4. CASE UNCHANGED syncVars
    <2> USE <1>4 DEF syncVars
    <2>1. Signals' = Signals
        BY DEF Signals
    <2>2. Shapes' /\ SignalsRise'
        BY <2>1 DEF PInv, Shapes, SyncTypeOK, SignalsRise
    <2>3. ListsFenced'
        BY <2>1 DEF PInv, ListsFenced, Behind, Open
    <2>4. Signalling' /\ Waiting' /\ Waited'
        BY <2>1 DEF PInv, Signalling, Waiting, Waited, At
    <2>5. SlotsHeld'
        BY <2>1 DEF PInv, SlotsHeld, Reading, At
    <2> QED BY <2>2, <2>3, <2>4, <2>5 DEF PInv
<1> QED BY <1>1, <1>2, <1>3, <1>4 DEF SyncNext

\* For one thread, any number of frames and slots: no allocator is reset, no
\* staging slot written or freed, and no logits read while the GPU still has a
\* list that uses them (submit, uploadWeights and waitGPU of
\* dx12_inference_pipeline.cpp).
THEOREM NothingReusedEarly == ASSUME OneThread PROVE SyncSpec => []ReuseSafety
<1>1. SyncInit => PInv
    BY SyncInvInit
<1>2. PInv /\ [SyncNext]_syncVars => PInv'
    BY SyncInvStep
<1>3. PInv => ReuseSafety
    BY InvSafety
<1> QED BY <1>1, <1>2, <1>3, PTL DEF SyncSpec
=============================================================================
