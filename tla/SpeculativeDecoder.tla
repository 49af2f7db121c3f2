------------------------- MODULE SpeculativeDecoder -------------------------
(* native/gpu_trainer/speculative_decoder.{h,cpp}: the scheduler thread that *)
(* lets a draft pipeline propose K tokens and a main pipeline verify them.   *)
(* Each pipeline is a GenPipeline (the abstract side of GenSession) with the *)
(* tokens its callback delivered.  A callback that fires after the frame its *)
(* references point into has returned is undefined behaviour: `dangling`,    *)
(* after which nothing is said of the run.                                   *)
EXTENDS Naturals, Sequences, FiniteSetsExt, SequencesExt

CONSTANTS
    Tokens, Newline,   \* token values; Newline ends a generation
    Zero,              \* token 0, what mainStep returns if no token came
    MainChoices(_),    \* the tokens the main model may choose after a context
    K,                 \* cfg_.K
    MaxSeq,            \* cfg_.main.max_seq = cfg_.draft.max_seq
    MaxNew,            \* maxNew of generateAsync
    PromptLens,        \* lengths of its prompts
    Strict,            \* cfg_.threshold = 1.0
    MaxStops           \* bound: calls of stop()

ASSUME DecoderAssumption ==
    /\ Newline \in Tokens /\ Zero \in Tokens
    /\ K \in Nat \ {0} /\ MaxSeq \in Nat /\ MaxNew \in Nat /\ MaxStops \in Nat
    /\ PromptLens \subseteq 0..(MaxSeq - 1)
    /\ Strict \in BOOLEAN

VARIABLES
    running, stopFlag, \* the decoder's own flags
    pc,                \* the scheduler's place
    tokens,            \* its context: the prompt, then everything emitted
    prompt,            \* length of the prompt
    step,              \* tokens emitted
    dOut, mOut,        \* tokens the two callbacks collected
    mainTokens,        \* VerifyResult::main_tokens
    stopper,           \* stop()'s place: its three stores are separate
    stops,             \* calls of stop() so far
    ready,             \* the pipelines whose layers are all loaded
    dangling,          \* a callback wrote into a frame that is gone
    dBusy, dStopped, dLeft, dLate,     \* the draft pipeline
    mBusy, mStopped, mLeft, mLate      \* the main pipeline

dVars == <<dBusy, dStopped, dLeft, dLate>>
mVars == <<mBusy, mStopped, mLeft, mLate>>
loopVars == <<tokens, prompt, step>>
resultVars == <<dOut, mOut, mainTokens>>
outsideVars == <<stopper, stops, ready, dangling>>
flagVars == <<running, stopFlag>>
vars == <<flagVars, pc, loopVars, resultVars, outsideVars, dVars, mVars>>

Draft == INSTANCE GenPipeline WITH MaxNew <- K,
    busy <- dBusy, stopped <- dStopped, left <- dLeft, late <- dLate
Main == INSTANCE GenPipeline WITH MaxNew <- K + 1,
    busy <- mBusy, stopped <- mStopped, left <- mLeft, late <- mLate

Init ==
    /\ running = FALSE /\ stopFlag = FALSE
    /\ pc = "out"
    /\ tokens = <<>> /\ prompt = 0 /\ step = 0
    /\ dOut = <<>> /\ mOut = <<>> /\ mainTokens = <<>>
    /\ stopper = "out" /\ stops = 0 /\ ready = {} /\ dangling = FALSE
    /\ Draft!Init /\ Main!Init

-----------------------------------------------------------------------------
(* The pipelines' threads                                                    *)

\* The frames whose locals the callbacks refer to.
DraftFrame == pc = "draftWait"
MainFrame == pc \in {"verifyWait", "stepWait"}

\* runGenLoop's break: '\n', or a sequence that has outgrown max_seq
DraftBreaks == dOut # <<>> /\ (Last(dOut) = Newline
                             \/ Len(tokens) + Len(dOut) > MaxSeq)
MainBreaks == mOut # <<>> /\ (Last(mOut) = Newline
                            \/ Len(tokens) + Len(dOut) + Len(mOut) > MaxSeq)

DraftEmit(tok) ==
    /\ ~dangling
    /\ "draft" \in ready
    /\ Draft!Emit
    /\ ~DraftBreaks
    /\ IF DraftFrame
       THEN dOut' = Append(dOut, tok) /\ UNCHANGED dangling
       ELSE dangling' = TRUE /\ UNCHANGED dOut
    /\ UNCHANGED <<flagVars, pc, loopVars, mOut, mainTokens, stopper, stops, ready, mVars>>

DraftEnd ==
    /\ ~dangling
    /\ Draft!End
    /\ dStopped \/ ("draft" \in ready /\ (dLeft = 0 \/ DraftBreaks))
    /\ UNCHANGED <<flagVars, pc, loopVars, resultVars, outsideVars, mVars>>

MainEmit(tok) ==
    /\ ~dangling
    /\ "main" \in ready
    /\ Main!Emit
    /\ ~MainBreaks
    /\ tok \in MainChoices(tokens \o dOut \o mOut)
    /\ IF MainFrame
       THEN mOut' = Append(mOut, tok) /\ UNCHANGED dangling
       ELSE dangling' = TRUE /\ UNCHANGED mOut
    /\ UNCHANGED <<flagVars, pc, loopVars, dOut, mainTokens, stopper, stops, ready, dVars>>

MainEnd ==
    /\ ~dangling
    /\ Main!End
    /\ mStopped \/ ("main" \in ready /\ (mLeft = 0 \/ MainBreaks))
    /\ UNCHANGED <<flagVars, pc, loopVars, resultVars, outsideVars, dVars>>

MarkReady(p) ==
    /\ ~dangling
    /\ ready' = ready \cup {p}
    /\ p \notin ready
    /\ UNCHANGED <<flagVars, pc, loopVars, resultVars, stopper, stops, dangling, dVars, mVars>>

-----------------------------------------------------------------------------
(* The client: generateAsync and stop                                        *)

Claim(len) ==
    /\ ~dangling
    /\ pc = "out" /\ ~running
    /\ running' = TRUE
    /\ pc' = "clear"
    /\ tokens' = [i \in 1..len |-> Zero]
    /\ prompt' = len /\ step' = 0
    /\ UNCHANGED <<stopFlag, resultVars, outsideVars, dVars, mVars>>

\* stopFlag_.store(false), join, start of the scheduler thread
ClearStop ==
    /\ ~dangling
    /\ pc = "clear"
    /\ stopFlag' = FALSE
    /\ pc' = "top"
    /\ UNCHANGED <<running, loopVars, resultVars, outsideVars, dVars, mVars>>

\* stop(): stopFlag_, then draft_.stop(), then main_.stop()
StopSelf ==
    /\ ~dangling
    /\ stopper = "out" /\ stops < MaxStops
    /\ stops' = stops + 1
    /\ stopFlag' = TRUE
    /\ stopper' = "draft"
    /\ UNCHANGED <<running, pc, loopVars, resultVars, ready, dangling, dVars, mVars>>

StopDraft ==
    /\ ~dangling
    /\ stopper = "draft"
    /\ Draft!Stop
    /\ stopper' = "main"
    /\ UNCHANGED <<flagVars, pc, loopVars, resultVars, stops, ready, dangling, mVars>>

StopMain ==
    /\ ~dangling
    /\ stopper = "main"
    /\ Main!Stop
    /\ stopper' = "out"
    /\ UNCHANGED <<flagVars, pc, loopVars, resultVars, stops, ready, dangling, dVars>>

-----------------------------------------------------------------------------
(* runScheduler                                                              *)

Goto(place) == pc' = place
Scheduler(from) == ~dangling /\ pc = from /\ UNCHANGED <<stopFlag, outsideVars>>

BudgetLeft == step < MaxNew

\* while (step < maxNew && !stopFlag_): draftGenerate starts the draft, which
\* refuses silently if it is still running
StartDraft ==
    /\ Scheduler("top")
    /\ BudgetLeft /\ ~stopFlag
    /\ IF dBusy THEN UNCHANGED dVars ELSE Draft!Start(K)
    /\ dOut' = <<>> /\ mOut' = <<>> /\ mainTokens' = <<>>
    /\ Goto("draftWait")
    /\ UNCHANGED <<running, loopVars, mVars>>

LeaveLoop ==
    /\ Scheduler("top")
    /\ ~BudgetLeft \/ stopFlag
    /\ Goto("done")
    /\ UNCHANGED <<running, loopVars, resultVars, dVars, mVars>>

\* mutant: the wait for the draft is left at once
NoDraftWait == TRUE

DraftWaitOver == ~dBusy \/ stopFlag

\* The wait ends; an empty draft or a stop ends the run.
DraftReturns ==
    /\ Scheduler("draftWait")
    /\ DraftWaitOver
    /\ Goto(IF dOut = <<>> \/ stopFlag THEN "done" ELSE "verify")
    /\ UNCHANGED <<running, loopVars, resultVars, dVars, mVars>>

\* verifyTokens: main on the context and the draft, for one token more
StartVerify ==
    /\ Scheduler("verify")
    /\ IF mBusy THEN UNCHANGED mVars ELSE Main!Start(Len(dOut) + 1)
    /\ Goto("verifyWait")
    /\ UNCHANGED <<running, loopVars, resultVars, dVars>>

\* mutant: the wait is for K + 1 tokens instead of the end of the run
AllTokensCame == Len(mOut) = Len(dOut) + 1

VerifyWaitOver == ~mBusy \/ stopFlag

\* mutant: no slot for the bonus token
NoBonusSlot == FALSE

\* mutant: one bonus token too many
AlwaysBonus == Len(mOut) <= Len(dOut) + 1

BonusMissing == Len(mOut) < Len(dOut) + 1

VerifyReturns ==
    /\ Scheduler("verifyWait")
    /\ VerifyWaitOver
    /\ mainTokens' = mOut
    /\ Goto(IF BonusMissing THEN "mainStep" ELSE "accept")
    /\ UNCHANGED <<running, loopVars, dOut, mOut, dVars, mVars>>

\* mainStep: the same context again, one token
StartMainStep ==
    /\ Scheduler("mainStep")
    /\ IF mBusy THEN UNCHANGED mVars ELSE Main!Start(1)
    /\ mOut' = <<>>
    /\ Goto("stepWait")
    /\ UNCHANGED <<running, loopVars, dOut, mainTokens, dVars>>

MainStepReturns ==
    /\ Scheduler("stepWait")
    /\ ~mBusy
    /\ mainTokens' = Append(mainTokens, IF mOut = <<>> THEN Zero ELSE Last(mOut))
    /\ Goto("accept")
    /\ UNCHANGED <<running, loopVars, dOut, mOut, dVars, mVars>>

\* p_main[i] is 1 where main's token i equals the draft's, 0 where it does
\* not or is missing.  The last entry of mainTokens is never compared.
Match(i) == i < Len(mainTokens) /\ mainTokens[i] = dOut[i]

\* mutant: a match may be rejected whatever the threshold
LenientCounts == {n \in 0..Len(dOut) : \A i \in 1..n : Match(i)}

\* acceptTokens: uniform() < min(1, p_main) * threshold; a threshold below 1
\* may reject a match
AcceptCounts ==
    {n \in 0..Len(dOut) :
        /\ \A i \in 1..n : Match(i)
        /\ n < Len(dOut) => ~Match(n + 1) \/ ~Strict}

\* mutant: '\n' is not looked at while draft tokens are emitted
LengthOnly(out) == Len(out) >= MaxSeq

EndsRun(out) == Last(out) = Newline \/ Len(out) >= MaxSeq

\* Emission of n accepted tokens ends early at the budget, '\n' or max_seq.
LastEmitted(n) ==
    {e \in 1..n : step + e = MaxNew \/ EndsRun(tokens \o SubSeq(dOut, 1, e))}
Emitted(n) == IF LastEmitted(n) = {} THEN n ELSE Min(LastEmitted(n))

\* mutant: the break before the correction is missing
AlwaysCorrect(s) == FALSE

BudgetSpent(s) == s >= MaxNew

\* The accepted tokens, then main's token at the next position: a correction
\* or, if all were accepted, the bonus.
AcceptAndEmit(n) ==
    LET e == Emitted(n)
        kept == tokens \o SubSeq(dOut, 1, e)
        over == BudgetSpent(step + e) \/ (e > 0 /\ EndsRun(kept))
        full == Append(kept, mainTokens[n + 1])
    IN  /\ Scheduler("accept") /\ ~stopFlag
        /\ n \in AcceptCounts
        /\ IF over
           THEN tokens' = kept /\ step' = step + e /\ Goto("done")
           ELSE /\ n + 1 <= Len(mainTokens)
                /\ tokens' = full /\ step' = step + e + 1
                /\ Goto(IF EndsRun(full) THEN "done" ELSE "top")
        /\ UNCHANGED <<running, prompt, resultVars, dVars, mVars>>

StopBeforeAccept ==
    /\ Scheduler("accept") /\ stopFlag
    /\ Goto("done")
    /\ UNCHANGED <<running, loopVars, resultVars, dVars, mVars>>

Finish ==
    /\ Scheduler("done")
    /\ running' = FALSE
    /\ Goto("out")
    /\ UNCHANGED <<loopVars, resultVars, dVars, mVars>>

SchedulerStep ==
    \/ StartDraft \/ LeaveLoop \/ DraftReturns \/ StartVerify \/ VerifyReturns
    \/ StartMainStep \/ MainStepReturns \/ StopBeforeAccept \/ Finish
    \/ \E n \in 0..K : AcceptAndEmit(n)

DraftStep == DraftEnd \/ \E tok \in Tokens : DraftEmit(tok)
MainStep == MainEnd \/ \E tok \in Tokens : MainEmit(tok)
StopStep == StopDraft \/ StopMain

Next ==
    \/ SchedulerStep \/ DraftStep \/ MainStep \/ StopSelf \/ StopStep \/ ClearStop
    \/ \E len \in PromptLens : Claim(len)
    \/ \E p \in {"draft", "main"} : MarkReady(p)

Spec == Init /\ [][Next]_vars

\* Threads are scheduled, and the weights of both models are loaded in the end.
FairSpec ==
    /\ Spec
    /\ WF_vars(SchedulerStep) /\ WF_vars(ClearStop)
    /\ WF_vars(DraftStep) /\ WF_vars(MainStep) /\ WF_vars(StopStep)
    /\ \A p \in {"draft", "main"} : WF_vars(MarkReady(p))

-----------------------------------------------------------------------------
(* Properties                                                                *)

\* The shape of the state.
TypeOK ==
    /\ running \in BOOLEAN /\ stopFlag \in BOOLEAN /\ dangling \in BOOLEAN
    /\ pc \in {"out", "clear", "top", "draftWait", "verify", "verifyWait",
              "mainStep", "stepWait", "accept", "done"}
    /\ Len(tokens) = prompt + step
    /\ Len(dOut) <= K /\ Len(mOut) <= K + 1 /\ Len(mainTokens) <= K + 1
    /\ stopper \in {"out", "draft", "main"} /\ stops \in 0..MaxStops
    /\ ready \subseteq {"draft", "main"}

\* Speculation never emits more than maxNew tokens, nor past max_seq: neither
\* the accepted tokens nor the correction after them.
BudgetKept == step <= MaxNew /\ Len(tokens) <= MaxSeq

\* Nothing is emitted after a '\n', wherever in a round it comes.
NothingAfterNewline ==
    \A i \in (prompt + 1)..(Len(tokens) - 1) : tokens[i] # Newline

\* main_tokens[n_accepted] exists, however few tokens the verification gave.
CorrectionExists ==
    (pc = "accept" /\ ~stopFlag) => \A n \in AcceptCounts : n + 1 <= Len(mainTokens)

\* draftGenerate's comment "Wait for draft to finish K tokens": until somebody
\* calls stop(), no pipeline runs on when the frame its callback refers to is
\* gone.
CallbackAlive == stops = 0 => (dBusy => DraftFrame) /\ (mBusy => MainFrame)

\* verifyTokens' comment: each emitted token is the main model's choice at its
\* position, as if main had generated alone.
MainsOwnChoice ==
    \A i \in (prompt + 1)..Len(tokens) :
        tokens[i] \in MainChoices(SubSeq(tokens, 1, i - 1))

\* At the threshold SpecConfig calls strict, a draft token main agrees with is
\* never rejected.
MatchAccepted ==
    (pc = "accept" /\ ~stopFlag) =>
        \A n \in AcceptCounts : n < Len(dOut) => ~Match(n + 1)

\* A run ends once the weights are there; a stop that came after the start
\* cleared the flag ends it too.
RunEnds == running ~> (~running \/ dangling)

\* A round accepts what agrees, corrects from a token that exists and stays
\* within the budget, however the two pipelines are cut short, and no pipeline
\* runs on into a frame that is gone.
RoundSafety ==
    /\ TypeOK /\ BudgetKept /\ NothingAfterNewline /\ CorrectionExists /\ MatchAccepted
    /\ CallbackAlive
=============================================================================
