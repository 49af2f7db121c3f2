---------------------- MODULE SpeculativeDecoderProofs ----------------------
(* RoundSafety of the decoder for every K, budget, sequence length, prompt    *)
(* and number of stops: whatever the draft proposes, the main model chooses   *)
(* and stop() interrupts.                                                     *)
EXTENDS SpeculativeDecoder, WellFoundedInduction, TLAPS

Places == {"out", "clear", "top", "draftWait", "verify", "verifyWait",
           "mainStep", "stepWait", "accept", "done"}

Flags ==
    /\ running \in BOOLEAN /\ stopFlag \in BOOLEAN /\ dangling \in BOOLEAN
    /\ dBusy \in BOOLEAN /\ mBusy \in BOOLEAN

Typed ==
    /\ Flags
    /\ pc \in Places
    /\ tokens \in Seq(Tokens) /\ prompt \in Nat /\ step \in Nat
    /\ dOut \in Seq(Tokens) /\ mOut \in Seq(Tokens) /\ mainTokens \in Seq(Tokens)
    /\ stopper \in {"out", "draft", "main"} /\ stops \in 0..MaxStops
    /\ ready \subseteq {"draft", "main"}
    /\ dLeft \in 0..K /\ mLeft \in 0..(K + 1)

\* What is emitted so far, and that the loop goes on only while there is room.
InRound == pc \in {"draftWait", "verify", "verifyWait", "mainStep", "stepWait", "accept"}

Emission ==
    /\ Len(tokens) = prompt + step
    /\ BudgetKept
    /\ NothingAfterNewline
    /\ (InRound \/ pc \in {"clear", "top"}) =>
           /\ Len(tokens) < MaxSeq
           /\ \A i \in (prompt + 1)..Len(tokens) : tokens[i] # Newline
    /\ InRound => step < MaxNew

\* A pipeline brings no more than it was asked for, and a verification that is
\* one token short is completed by one token.
Counts ==
    /\ Len(dOut) <= K /\ Len(mOut) <= K + 1 /\ Len(mainTokens) <= K + 1
    /\ DraftFrame => Len(dOut) + dLeft <= K
    /\ pc \in {"draftWait", "verify"} => mOut = <<>>
    /\ MainFrame => Len(mOut) + mLeft <= K + 1
    /\ pc \in {"mainStep", "stepWait"} => Len(mainTokens) <= Len(dOut)
    /\ pc = "accept" => Len(mainTokens) >= 1

\* Before the first stop() the frames outlive the pipelines' runs.
Frames ==
    /\ stops = 0 => ~stopFlag
    /\ CallbackAlive

IInv == Typed /\ Emission /\ Counts /\ Frames

-----------------------------------------------------------------------------
(* Operators                                                                 *)

LEMMA MinOf ==
    ASSUME NEW S \in SUBSET Nat, S # {}
    PROVE  Min(S) \in S /\ \A y \in S : Min(S) <= y
<1>1. PICK x \in S : \A y \in S : <<y, x>> \notin OpToRel(<, Nat)
    BY NatLessThanWellFounded, WFMin, Zenon
<1>2. ASSUME NEW y \in S PROVE x <= y
    <2>1. ~(y < x)
        BY <1>1, <<y, x>>[1] = y, <<y, x>>[2] = x, <<y, x>> \in Nat \X Nat DEF OpToRel
    <2> QED
        BY <2>1
<1>3. \E z \in S : \A y \in S : z <= y
    BY <1>2
<1> QED
    BY <1>3, Zenon DEF Min

\* Emission stops at the first accepted token that spends the budget or ends
\* the run: none before it does either.
LEMMA EmittedFirst ==
    ASSUME NEW n \in Nat
    PROVE  /\ Emitted(n) \in 0..n
           /\ \A j \in 1..(Emitted(n) - 1) :
                 step + j # MaxNew /\ ~EndsRun(tokens \o SubSeq(dOut, 1, j))
           /\ (Emitted(n) = n /\ n > 0 /\ LastEmitted(n) = {}) =>
                 step + n # MaxNew /\ ~EndsRun(tokens \o SubSeq(dOut, 1, n))
<1>1. LastEmitted(n) \in SUBSET (1..n)
    BY DEF LastEmitted
<1>2. CASE LastEmitted(n) = {}
    BY <1>2 DEF Emitted, LastEmitted
<1>3. CASE LastEmitted(n) # {}
    <2>1. LastEmitted(n) \in SUBSET Nat
        BY <1>1
    <2>2. /\ Emitted(n) \in LastEmitted(n)
          /\ \A y \in LastEmitted(n) : Emitted(n) <= y
        BY <1>3, <2>1, MinOf DEF Emitted
    <2>3. \A j \in 1..(Emitted(n) - 1) : j \in 1..n /\ j \notin LastEmitted(n)
        BY <1>1, <2>2
    <2> QED
        BY <1>1, <1>3, <2>2, <2>3 DEF LastEmitted
<1> QED
    BY <1>2, <1>3

\* A step of the scheduler leaves what is outside it alone.
LEMMA Outside ==
    ASSUME SchedulerStep
    PROVE  UNCHANGED <<stopFlag, stopper, stops, ready, dangling>> /\ ~dangling
<1> QED
    BY DEF SchedulerStep, Scheduler, outsideVars, StartDraft, LeaveLoop, DraftReturns,
       StartVerify, VerifyReturns, StartMainStep, MainStepReturns, StopBeforeAccept,
       Finish, AcceptAndEmit

\* The acceptance of n draft tokens, seen from the tokens it adds.
LEMMA Acceptance ==
    ASSUME DecoderAssumption, IInv, NEW n \in 0..K, AcceptAndEmit(n)
    PROVE  /\ tokens' \in Seq(Tokens) /\ step' \in Nat
           /\ Len(tokens') = prompt + step'
           /\ step' <= MaxNew /\ Len(tokens') <= MaxSeq
           /\ \A i \in (prompt + 1)..(Len(tokens') - 1) : tokens'[i] # Newline
           /\ pc' = "top" => /\ Len(tokens') < MaxSeq
                             /\ \A i \in (prompt + 1)..Len(tokens') : tokens'[i] # Newline
           /\ pc' \in {"top", "done"}
<1> DEFINE e == Emitted(n)
           kept == tokens \o SubSeq(dOut, 1, e)
           full == Append(kept, mainTokens[n + 1])
           over == BudgetSpent(step + e) \/ (e > 0 /\ EndsRun(kept))
<1>1. /\ tokens \in Seq(Tokens) /\ dOut \in Seq(Tokens) /\ mainTokens \in Seq(Tokens)
      /\ prompt \in Nat /\ step \in Nat /\ MaxNew \in Nat /\ MaxSeq \in Nat /\ n \in Nat
      /\ step < MaxNew /\ Len(tokens) < MaxSeq /\ Len(tokens) = prompt + step
      /\ \A i \in (prompt + 1)..Len(tokens) : tokens[i] # Newline
      /\ pc = "accept"
    BY DEF IInv, Typed, Emission, DecoderAssumption, AcceptAndEmit, Scheduler, InRound
<1>2. n <= Len(dOut)
    BY DEF AcceptAndEmit, AcceptCounts
<1>3. /\ e \in 0..n
      /\ \A j \in 1..(e - 1) : step + j # MaxNew /\ ~EndsRun(tokens \o SubSeq(dOut, 1, j))
    BY <1>1, EmittedFirst
<1>4. IF over THEN tokens' = kept /\ step' = step + e /\ pc' = "done"
      ELSE /\ n + 1 <= Len(mainTokens)
           /\ tokens' = full /\ step' = step + e + 1
           /\ pc' = IF EndsRun(full) THEN "done" ELSE "top"
    BY DEF AcceptAndEmit, Goto
<1> HIDE DEF e
<1>5. ASSUME NEW j \in 0..e
      PROVE  /\ SubSeq(dOut, 1, j) \in Seq(Tokens) /\ Len(SubSeq(dOut, 1, j)) = j
             /\ tokens \o SubSeq(dOut, 1, j) \in Seq(Tokens)
             /\ Len(tokens \o SubSeq(dOut, 1, j)) = Len(tokens) + j
             /\ \A i \in 1..Len(tokens) : (tokens \o SubSeq(dOut, 1, j))[i] = tokens[i]
             /\ \A i \in 1..j : (tokens \o SubSeq(dOut, 1, j))[Len(tokens) + i] = dOut[i]
    BY <1>1, <1>2, <1>3
<1>6. ASSUME NEW j \in 1..(e - 1)
      PROVE  dOut[j] # Newline /\ Len(tokens) + j < MaxSeq /\ step + j # MaxNew
    BY <1>1, <1>3, <1>5 DEF EndsRun, Last
<1>7. step + e <= MaxNew /\ Len(tokens) + e <= MaxSeq
    <2>1. CASE e <= 1
        BY <2>1, <1>1, <1>3
    <2>2. CASE e > 1
        <3>1. \A j \in 1..(e - 1) : step + j # MaxNew
            BY <1>6
        <3>2. e - 1 \in 1..(e - 1)
            BY <2>2, <1>3
        <3>3. Len(tokens) + (e - 1) < MaxSeq
            BY <1>6, <3>2
        <3>4. step + e <= MaxNew
            <4>1. CASE step + e > MaxNew
                <5>1. MaxNew - step \in 1..(e - 1)
                    BY <4>1, <1>1, <1>3
                <5> QED
                    BY <3>1, <5>1, <1>1
            <4> QED
                BY <4>1, <1>1, <1>3
        <3> QED
            BY <3>3, <3>4, <1>1, <1>3
    <2> QED
        BY <2>1, <2>2, <1>3
<1>8. /\ kept \in Seq(Tokens) /\ Len(kept) = Len(tokens) + e
      /\ \A i \in 1..Len(tokens) : kept[i] = tokens[i]
      /\ \A i \in 1..e : kept[Len(tokens) + i] = dOut[i]
    BY <1>3, <1>5
<1> HIDE DEF kept, over
<1>9. \A i \in (prompt + 1)..(Len(kept) - 1) : kept[i] # Newline
    <2> SUFFICES ASSUME NEW i \in (prompt + 1)..(Len(kept) - 1) PROVE kept[i] # Newline
        OBVIOUS
    <2>1. /\ i \in Nat /\ Len(tokens) \in Nat /\ e \in Nat
          /\ i >= prompt + 1 /\ i <= Len(tokens) + e - 1
        BY <1>1, <1>3, <1>8
    <2>2. CASE i <= Len(tokens)
        BY <2>1, <2>2, <1>1, <1>8
    <2>3. CASE i > Len(tokens)
        <3> DEFINE j == i - Len(tokens)
        <3>1. j \in 1..(e - 1) /\ i = Len(tokens) + j
            BY <2>1, <2>3
        <3> HIDE DEF j
        <3>2. kept[i] = dOut[j]
            BY <3>1, <2>1, <1>8
        <3> QED
            BY <3>1, <3>2, <1>6
    <2> QED
        BY <2>1, <2>2, <2>3
<1>10. CASE over
    BY <1>10, <1>1, <1>3, <1>4, <1>7, <1>8, <1>9
<1>11. CASE ~over
    <2>1. step + e < MaxNew /\ (e > 0 => kept[Len(kept)] # Newline /\ Len(kept) < MaxSeq)
        BY <1>11, <1>1, <1>3, <1>8 DEF over, BudgetSpent, EndsRun, Last
    <2>2. \A i \in (prompt + 1)..Len(kept) : kept[i] # Newline
        <3>1. CASE e = 0
            BY <3>1, <1>1, <1>8
        <3>2. CASE e > 0
            BY <3>2, <2>1, <1>9, <1>8, <1>1
        <3> QED
            BY <3>1, <3>2, <1>3
    <2>3. mainTokens[n + 1] \in Tokens
        BY <1>11, <1>4, <1>1
    <2> DEFINE t == mainTokens[n + 1]
    <2>4. /\ full \in Seq(Tokens) /\ Len(full) = Len(kept) + 1
          /\ \A i \in 1..Len(kept) : full[i] = kept[i]
          /\ full[Len(full)] = t
        <3> HIDE DEF t
        <3>1. full = Append(kept, t)
            BY DEF t
        <3>2. t \in Tokens
            BY <2>3 DEF t
        <3> QED
            BY <3>1, <3>2, <1>8
    <2> HIDE DEF full
    <2>5. Len(full) <= MaxSeq
        BY <2>1, <2>4, <1>8, <1>1, <1>3
    <2>6. \A i \in (prompt + 1)..(Len(full) - 1) : full[i] # Newline
        BY <2>2, <2>4, <1>8, <1>1
    <2>7. /\ tokens' = full /\ step' = step + e + 1
          /\ pc' = IF EndsRun(full) THEN "done" ELSE "top"
        BY <1>11, <1>4
    <2>8. pc' = "top" => Len(full) < MaxSeq /\ full[Len(full)] # Newline
        BY <2>7, <2>4, <1>8, <1>1 DEF EndsRun, Last
    <2>9. pc' = "top" => \A i \in (prompt + 1)..Len(full) : full[i] # Newline
        BY <2>8, <2>6, <2>4, <1>8, <1>1, <1>3
    <2> QED
        BY <2>1, <2>4, <2>5, <2>6, <2>7, <2>8, <2>9, <1>1, <1>3, <1>8
<1> QED
    BY <1>10, <1>11

-----------------------------------------------------------------------------
(* The invariant is inductive: one step per action                           *)

\* What is emitted stays, and the loop goes on only from a place inside it.
LEMMA EmissionKept ==
    ASSUME Emission, UNCHANGED loopVars,
           InRound' => InRound \/ (pc = "top" /\ BudgetLeft),
           pc' \in {"clear", "top"} => pc \in {"clear", "top"}
    PROVE  Emission'
<1>1. BudgetKept' /\ NothingAfterNewline'
    BY DEF Emission, BudgetKept, NothingAfterNewline, loopVars
<1> QED
    BY <1>1 DEF Emission, loopVars, BudgetLeft, InRound

LEMMA AppendOne ==
    ASSUME NEW s \in Seq(Tokens), NEW t \in Tokens
    PROVE  Append(s, t) \in Seq(Tokens) /\ Len(Append(s, t)) = Len(s) + 1
<1> QED
    OBVIOUS

LEMMA NoneYet ==
    ASSUME NEW s, Len(s) = 0, NEW n \in Nat
    PROVE  Len(s) + n = n
<1> QED
    OBVIOUS

LEMMA LastOf ==
    ASSUME NEW s \in Seq(Tokens), s # <<>>
    PROVE  Last(s) \in Tokens
<1>1. Len(s) \in 1..Len(s)
    OBVIOUS
<1> QED
    BY <1>1 DEF Last

LEMMA InitInv == ASSUME DecoderAssumption, Init PROVE IInv
<1> USE DEF DecoderAssumption, Init, Draft!Init, Main!Init
<1>1. Typed
    <2>1. Flags
        BY Zenon DEF Flags
    <2> QED
        BY <2>1 DEF Typed, Places
<1>2. Emission
    BY DEF Emission, BudgetKept, NothingAfterNewline, InRound
<1>3. Counts
    BY DEF Counts, DraftFrame, MainFrame
<1>4. Frames
    BY DEF Frames, CallbackAlive, DraftFrame, MainFrame
<1> QED
    BY <1>1, <1>2, <1>3, <1>4 DEF IInv

LEMMA DraftPipeline ==
    ASSUME DecoderAssumption, IInv, DraftStep
    PROVE  IInv'
<1> USE DEF IInv, DecoderAssumption
<1>1. ASSUME NEW tok \in Tokens, DraftEmit(tok)
      PROVE  IInv'
    <2>1. /\ Append(dOut, tok) \in Seq(Tokens) /\ Len(Append(dOut, tok)) = Len(dOut) + 1
          /\ Len(dOut) \in Nat
        BY AppendOne DEF Typed
    <2>2. /\ UNCHANGED <<flagVars, pc, loopVars, mOut, mainTokens, stopper, stops, ready, mVars>>
          /\ dLeft > 0 /\ dLeft' = dLeft - 1 /\ dBusy' = dBusy
          /\ \/ DraftFrame /\ dOut' = Append(dOut, tok) /\ dangling' = dangling
             \/ ~DraftFrame /\ dOut' = dOut /\ dangling' = TRUE
        BY <1>1 DEF DraftEmit, Draft!Emit
    <2>3. Typed'
        <3>1. Flags'
            BY <2>2, Zenon DEF Typed, Flags, flagVars, mVars
        <3>2. UNCHANGED <<pc, tokens, prompt, step, mainTokens, stopper, stops, ready>>
            BY <2>2 DEF loopVars
        <3>3. dOut' \in Seq(Tokens)
            BY <2>1, <2>2 DEF Typed
        <3>4. dLeft' \in 0..(K)
            BY <2>2 DEF Typed
        <3>5. UNCHANGED <<mOut, mLeft>>
            BY <2>2 DEF mVars
        <3> QED
            BY <3>1, <3>2, <3>3, <3>4, <3>5 DEF Typed
    <2>4. Emission'
        BY <2>2, EmissionKept DEF InRound, loopVars
    <2>5. Counts'
        BY <2>1, <2>2 DEF Counts, Typed, DraftFrame, MainFrame, loopVars, mVars
    <2>6. Frames'
        BY <2>2 DEF Frames, CallbackAlive, DraftFrame, MainFrame, flagVars, mVars
    <2> QED
        BY <2>3, <2>4, <2>5, <2>6
<1>2. CASE DraftEnd
    <2>1. /\ UNCHANGED <<flagVars, pc, loopVars, resultVars, outsideVars, mVars>>
          /\ dLeft' = dLeft /\ dBusy' = FALSE
        BY <1>2 DEF DraftEnd, Draft!End
    <2>2. Typed'
        <3>1. Flags'
            BY <2>1, Zenon DEF Typed, Flags, flagVars, outsideVars, mVars
        <3> QED
            BY <2>1, <3>1 DEF Typed, loopVars, resultVars, outsideVars, mVars
    <2>3. Emission'
        BY <2>1, EmissionKept DEF InRound, loopVars
    <2>4. Counts'
        BY <2>1 DEF Counts, DraftFrame, MainFrame, resultVars, mVars
    <2>5. Frames'
        BY <2>1 DEF Frames, CallbackAlive, DraftFrame, MainFrame, flagVars, outsideVars, mVars
    <2> QED
        BY <2>2, <2>3, <2>4, <2>5
<1> QED
    BY <1>1, <1>2 DEF DraftStep

LEMMA MainPipeline ==
    ASSUME DecoderAssumption, IInv, MainStep
    PROVE  IInv'
<1> USE DEF IInv, DecoderAssumption
<1>1. ASSUME NEW tok \in Tokens, MainEmit(tok)
      PROVE  IInv'
    <2>1. /\ Append(mOut, tok) \in Seq(Tokens) /\ Len(Append(mOut, tok)) = Len(mOut) + 1
          /\ Len(mOut) \in Nat
        BY AppendOne DEF Typed
    <2>2. /\ UNCHANGED <<flagVars, pc, loopVars, dOut, mainTokens, stopper, stops, ready, dVars>>
          /\ mLeft > 0 /\ mLeft' = mLeft - 1 /\ mBusy' = mBusy
          /\ \/ MainFrame /\ mOut' = Append(mOut, tok) /\ dangling' = dangling
             \/ ~MainFrame /\ mOut' = mOut /\ dangling' = TRUE
        BY <1>1 DEF MainEmit, Main!Emit
    <2>3. Typed'
        <3>1. Flags'
            BY <2>2, Zenon DEF Typed, Flags, flagVars, dVars
        <3>2. UNCHANGED <<pc, tokens, prompt, step, mainTokens, stopper, stops, ready>>
            BY <2>2 DEF loopVars
        <3>3. mOut' \in Seq(Tokens)
            BY <2>1, <2>2 DEF Typed
        <3>4. mLeft' \in 0..(K + 1)
            BY <2>2 DEF Typed
        <3>5. UNCHANGED <<dOut, dLeft>>
            BY <2>2 DEF dVars
        <3> QED
            BY <3>1, <3>2, <3>3, <3>4, <3>5 DEF Typed
    <2>4. Emission'
        BY <2>2, EmissionKept DEF InRound, loopVars
    <2>5. Counts'
        BY <2>1, <2>2 DEF Counts, Typed, DraftFrame, MainFrame, loopVars, dVars
    <2>6. Frames'
        BY <2>2 DEF Frames, CallbackAlive, DraftFrame, MainFrame, flagVars, dVars
    <2> QED
        BY <2>3, <2>4, <2>5, <2>6
<1>2. CASE MainEnd
    <2>1. /\ UNCHANGED <<flagVars, pc, loopVars, resultVars, outsideVars, dVars>>
          /\ mLeft' = mLeft /\ mBusy' = FALSE
        BY <1>2 DEF MainEnd, Main!End
    <2>2. Typed'
        <3>1. Flags'
            BY <2>1, Zenon DEF Typed, Flags, flagVars, outsideVars, dVars
        <3> QED
            BY <2>1, <3>1 DEF Typed, loopVars, resultVars, outsideVars, dVars
    <2>3. Emission'
        BY <2>1, EmissionKept DEF InRound, loopVars
    <2>4. Counts'
        BY <2>1 DEF Counts, DraftFrame, MainFrame, resultVars, dVars
    <2>5. Frames'
        BY <2>1 DEF Frames, CallbackAlive, DraftFrame, MainFrame, flagVars, outsideVars, dVars
    <2> QED
        BY <2>2, <2>3, <2>4, <2>5
<1> QED
    BY <1>1, <1>2 DEF MainStep

LEMMA ClientSteps ==
    ASSUME DecoderAssumption, IInv,
           \/ StopSelf \/ StopStep \/ ClearStop
           \/ \E len \in PromptLens : Claim(len)
           \/ \E p \in {"draft", "main"} : MarkReady(p)
    PROVE  IInv'
<1> USE DEF IInv, DecoderAssumption
<1>1. CASE StopSelf
    <2>1. /\ UNCHANGED <<running, pc, loopVars, resultVars, ready, dangling, dVars, mVars>>
          /\ stopFlag' = TRUE /\ stops' = stops + 1 /\ stops < MaxStops /\ stopper' = "draft"
        BY <1>1 DEF StopSelf
    <2>2. Typed'
        <3>1. Flags'
            BY <2>1, Zenon DEF Typed, Flags, dVars, mVars
        <3>2. stops' \in 1..MaxStops
            BY <2>1 DEF Typed
        <3> QED
            BY <2>1, <3>1, <3>2 DEF Typed, loopVars, resultVars, dVars, mVars
    <2>3. Emission'
        BY <2>1, EmissionKept DEF InRound
    <2>4. Counts'
        BY <2>1 DEF Counts, DraftFrame, MainFrame, resultVars, dVars, mVars
    <2>5. Frames'
        BY <2>1 DEF Typed, Frames, CallbackAlive
    <2> QED
        BY <2>2, <2>3, <2>4, <2>5
<1>2. CASE StopStep
    <2>1. /\ UNCHANGED <<flagVars, pc, loopVars, resultVars, stops, ready, dangling>>
          /\ stopper' \in {"out", "main"}
          /\ UNCHANGED <<dBusy, dLeft, mBusy, mLeft>>
        BY <1>2 DEF StopStep, StopDraft, StopMain, Draft!Stop, Main!Stop, dVars, mVars
    <2>2. Typed'
        <3>1. Flags'
            BY <2>1, Zenon DEF Typed, Flags, flagVars
        <3> QED
            BY <2>1, <3>1 DEF Typed, loopVars, resultVars
    <2>3. Emission'
        BY <2>1, EmissionKept DEF InRound
    <2>4. Counts'
        BY <2>1 DEF Counts, DraftFrame, MainFrame, resultVars
    <2>5. Frames'
        BY <2>1 DEF Frames, CallbackAlive, DraftFrame, MainFrame, flagVars
    <2> QED
        BY <2>2, <2>3, <2>4, <2>5
<1>3. CASE ClearStop
    <2>1. /\ UNCHANGED <<running, loopVars, resultVars, outsideVars, dVars, mVars>>
          /\ pc = "clear" /\ pc' = "top" /\ stopFlag' = FALSE
        BY <1>3 DEF ClearStop
    <2>2. Typed'
        <3>1. Flags'
            BY <2>1, Zenon DEF Typed, Flags, outsideVars, dVars, mVars
        <3> QED
            BY <2>1, <3>1 DEF Typed, Places, loopVars, resultVars, outsideVars, dVars, mVars
    <2>3. Emission'
        BY <2>1, EmissionKept DEF InRound
    <2>4. Counts'
        BY <2>1 DEF Counts, DraftFrame, MainFrame, resultVars, dVars, mVars
    <2>5. Frames'
        BY <2>1 DEF Frames, CallbackAlive, DraftFrame, MainFrame, outsideVars, dVars, mVars
    <2> QED
        BY <2>2, <2>3, <2>4, <2>5
<1>4. ASSUME NEW len \in PromptLens, Claim(len)
      PROVE  IInv'
    <2>1. /\ UNCHANGED <<stopFlag, resultVars, outsideVars, dVars, mVars>>
          /\ running' = TRUE /\ pc = "out" /\ pc' = "clear"
          /\ tokens' = [i \in 1..len |-> Zero] /\ prompt' = len /\ step' = 0
        BY <1>4 DEF Claim
    <2>2. len \in Nat /\ len < MaxSeq
        OBVIOUS
    <2>3. tokens' \in Seq(Tokens) /\ Len(tokens') = len
        BY <2>1, <2>2
    <2>4. Typed'
        <3>1. Flags'
            BY <2>1, Zenon DEF Typed, Flags, outsideVars, dVars, mVars
        <3> QED
            BY <2>1, <2>2, <2>3, <3>1 DEF Typed, Places, resultVars, outsideVars, dVars, mVars
    <2>5. Emission'
        BY <2>1, <2>2, <2>3 DEF Emission, BudgetKept, NothingAfterNewline, InRound
    <2>6. Counts'
        BY <2>1 DEF Counts, DraftFrame, MainFrame, resultVars, dVars, mVars
    <2>7. Frames'
        BY <2>1 DEF Frames, CallbackAlive, DraftFrame, MainFrame, outsideVars, dVars, mVars
    <2> QED
        BY <2>4, <2>5, <2>6, <2>7
<1>5. ASSUME NEW p \in {"draft", "main"}, MarkReady(p)
      PROVE  IInv'
    <2>1. /\ UNCHANGED <<flagVars, pc, loopVars, resultVars, stopper, stops, dangling, dVars, mVars>>
          /\ ready' = ready \cup {p}
        BY <1>5 DEF MarkReady
    <2>2. Typed'
        <3>1. Flags'
            BY <2>1, Zenon DEF Typed, Flags, flagVars, dVars, mVars
        <3> QED
            BY <2>1, <3>1 DEF Typed, loopVars, resultVars, dVars, mVars
    <2>3. Emission'
        BY <2>1, EmissionKept DEF InRound
    <2>4. Counts'
        BY <2>1 DEF Counts, DraftFrame, MainFrame, resultVars, dVars, mVars
    <2>5. Frames'
        BY <2>1 DEF Frames, CallbackAlive, DraftFrame, MainFrame, flagVars, dVars, mVars
    <2> QED
        BY <2>2, <2>3, <2>4, <2>5
<1> QED
    BY <1>1, <1>2, <1>3, <1>4, <1>5

\* A generation the scheduler starts asks for n tokens; a pipeline that still
\* runs refuses and keeps what it has.
LEMMA Started ==
    ASSUME DecoderAssumption, Typed, NEW n \in Nat
    PROVE  /\ (n <= K /\ IF dBusy THEN UNCHANGED dVars ELSE Draft!Start(n)) =>
                  dBusy' = TRUE /\ dLeft' \in 0..K
           /\ (n <= K + 1 /\ IF mBusy THEN UNCHANGED mVars ELSE Main!Start(n)) =>
                  mBusy' = TRUE /\ mLeft' \in 0..(K + 1)
<1>1. dBusy \in BOOLEAN /\ mBusy \in BOOLEAN
    BY DEF Typed, Flags
<1>2. dLeft \in 0..K /\ mLeft \in 0..(K + 1) /\ n \in 0..n
    BY DEF Typed
<1>3. ASSUME n <= K, IF dBusy THEN UNCHANGED dVars ELSE Draft!Start(n)
      PROVE  dBusy' = TRUE /\ dLeft' \in 0..K
    <2>1. CASE dBusy
        BY <1>1, <1>2, <1>3, <2>1, Zenon DEF dVars
    <2>2. CASE ~dBusy
        BY <1>3, <2>2 DEF Draft!Start, DecoderAssumption
    <2> QED
        BY <2>1, <2>2
<1>4. ASSUME n <= K + 1, IF mBusy THEN UNCHANGED mVars ELSE Main!Start(n)
      PROVE  mBusy' = TRUE /\ mLeft' \in 0..(K + 1)
    <2>1. CASE mBusy
        BY <1>1, <1>2, <1>4, <2>1, Zenon DEF mVars
    <2>2. CASE ~mBusy
        BY <1>4, <2>2 DEF Main!Start, DecoderAssumption
    <2> QED
        BY <2>1, <2>2
<1> QED
    BY <1>3, <1>4

\* What every step of the scheduler leaves alone.
LEMMA FlagsKept ==
    ASSUME Typed, UNCHANGED <<stopFlag, outsideVars>>,
           running' \in BOOLEAN, dBusy' \in BOOLEAN, mBusy' \in BOOLEAN
    PROVE  Flags' /\ UNCHANGED <<stopFlag, stopper, stops, ready, dangling>>
<1>1. UNCHANGED <<stopFlag, stopper, stops, ready, dangling>>
    BY DEF outsideVars
<1> QED
    BY <1>1, Zenon DEF Typed, Flags

LEMMA SchedulerSteps ==
    ASSUME DecoderAssumption, IInv, SchedulerStep
    PROVE  IInv'
<1> USE DEF IInv, DecoderAssumption
<1>0. running \in BOOLEAN /\ dBusy \in BOOLEAN /\ mBusy \in BOOLEAN
    BY DEF Typed, Flags
<1>1. CASE StartDraft
    <2>1. /\ UNCHANGED <<stopFlag, outsideVars>> /\ UNCHANGED <<running, loopVars, mVars>>
          /\ pc = "top" /\ pc' = "draftWait" /\ BudgetLeft /\ ~stopFlag
          /\ IF dBusy THEN UNCHANGED dVars ELSE Draft!Start(K)
          /\ dOut' = <<>> /\ mOut' = <<>> /\ mainTokens' = <<>>
        BY <1>1 DEF StartDraft, Scheduler, Goto
    <2>2. dBusy' = TRUE /\ dLeft' \in 0..K
        <3>1. K \in Nat /\ K <= K
            OBVIOUS
        <3> QED
            BY <2>1, <3>1, Started
    <2>3. UNCHANGED <<running, tokens, prompt, step, mBusy, mLeft>>
        BY <2>1 DEF loopVars, mVars
    <2>4. Flags' /\ UNCHANGED <<stopFlag, stopper, stops, ready, dangling>>
        BY <1>0, <2>1, <2>2, <2>3, FlagsKept
    <2>5. Typed'
        BY <2>1, <2>2, <2>3, <2>4 DEF Typed, Places
    <2>6. Emission'
        BY <2>1, EmissionKept DEF InRound
    <2>7. Counts'
        <3>1. Len(dOut') = 0 /\ Len(mOut') = 0 /\ Len(mainTokens') = 0
            BY <2>1
        <3>2. dLeft' \in Nat /\ dLeft' <= K
            BY <2>2
        <3>3. Len(dOut') + dLeft' <= K
            BY <3>1, <3>2, NoneYet
        <3>4. Len(dOut') <= K /\ Len(mOut') <= K + 1 /\ Len(mainTokens') <= K + 1
            BY <3>1
        <3> QED
            BY <2>1, <3>3, <3>4 DEF Counts, DraftFrame, MainFrame
    <2>8. Frames'
        BY <2>1, <2>3, <2>4 DEF Frames, CallbackAlive, DraftFrame, MainFrame
    <2> QED
        BY <2>5, <2>6, <2>7, <2>8
<1>2. CASE LeaveLoop
    <2>1. /\ UNCHANGED <<stopFlag, outsideVars>>
          /\ UNCHANGED <<running, loopVars, resultVars, dVars, mVars>>
          /\ pc = "top" /\ pc' = "done"
        BY <1>2 DEF LeaveLoop, Scheduler, Goto
    <2>2. UNCHANGED <<running, tokens, prompt, step, dOut, mOut, mainTokens, dBusy, dLeft, mBusy, mLeft>>
        BY <2>1 DEF loopVars, resultVars, dVars, mVars
    <2>3. Flags' /\ UNCHANGED <<stopFlag, stopper, stops, ready, dangling>>
        BY <1>0, <2>1, <2>2, FlagsKept
    <2>4. Typed'
        BY <2>1, <2>2, <2>3 DEF Typed, Places
    <2>5. Emission'
        BY <2>1, EmissionKept DEF InRound
    <2>6. Counts'
        BY <2>1, <2>2 DEF Counts, DraftFrame, MainFrame
    <2>7. Frames'
        BY <2>1, <2>2, <2>3 DEF Frames, CallbackAlive, DraftFrame, MainFrame
    <2> QED
        BY <2>4, <2>5, <2>6, <2>7
<1>3. CASE DraftReturns
    <2>1. /\ UNCHANGED <<stopFlag, outsideVars>>
          /\ UNCHANGED <<running, loopVars, resultVars, dVars, mVars>>
          /\ pc = "draftWait" /\ pc' \in {"done", "verify"} /\ (~dBusy \/ stopFlag)
        BY <1>3 DEF DraftReturns, DraftWaitOver, Scheduler, Goto
    <2>2. UNCHANGED <<running, tokens, prompt, step, dOut, mOut, mainTokens, dBusy, dLeft, mBusy, mLeft>>
        BY <2>1 DEF loopVars, resultVars, dVars, mVars
    <2>3. Flags' /\ UNCHANGED <<stopFlag, stopper, stops, ready, dangling>>
        BY <1>0, <2>1, <2>2, FlagsKept
    <2>4. Typed'
        BY <2>1, <2>2, <2>3 DEF Typed, Places
    <2>5. Emission'
        BY <2>1, EmissionKept DEF InRound
    <2>6. Counts'
        BY <2>1, <2>2 DEF Counts, DraftFrame, MainFrame
    <2>7. Frames'
        BY <2>1, <2>2, <2>3 DEF Frames, CallbackAlive, DraftFrame, MainFrame
    <2> QED
        BY <2>4, <2>5, <2>6, <2>7
<1>4. CASE StartVerify
    <2>1. /\ UNCHANGED <<stopFlag, outsideVars>>
          /\ UNCHANGED <<running, loopVars, resultVars, dVars>>
          /\ pc = "verify" /\ pc' = "verifyWait"
          /\ IF mBusy THEN UNCHANGED mVars ELSE Main!Start(Len(dOut) + 1)
        BY <1>4 DEF StartVerify, Scheduler, Goto
    <2>2. UNCHANGED <<running, tokens, prompt, step, dOut, mOut, mainTokens, dBusy, dLeft>>
        BY <2>1 DEF loopVars, resultVars, dVars
    <2>3. mBusy' = TRUE /\ mLeft' \in 0..(K + 1)
        <3>1. Len(dOut) + 1 \in Nat /\ Len(dOut) + 1 <= K + 1
            BY DEF Typed, Counts
        <3> QED
            BY <2>1, <3>1, Started
    <2>4. Flags' /\ UNCHANGED <<stopFlag, stopper, stops, ready, dangling>>
        BY <1>0, <2>1, <2>2, <2>3, FlagsKept
    <2>5. Typed'
        BY <2>1, <2>2, <2>3, <2>4 DEF Typed, Places
    <2>6. Emission'
        BY <2>1, EmissionKept DEF InRound
    <2>7. Counts'
        <3>1. Len(mOut') = 0
            BY <2>1, <2>2 DEF Counts
        <3>2. mLeft' \in Nat /\ mLeft' <= K + 1
            BY <2>3
        <3>3. Len(mOut') + mLeft' <= K + 1
            BY <3>1, <3>2, NoneYet
        <3> QED
            BY <2>1, <2>2, <3>1, <3>2, <3>3 DEF Counts, DraftFrame, MainFrame
    <2>8. Frames'
        BY <2>1, <2>2, <2>4 DEF Frames, CallbackAlive, DraftFrame, MainFrame
    <2> QED
        BY <2>5, <2>6, <2>7, <2>8
<1>5. CASE VerifyReturns
    <2>1. /\ UNCHANGED <<stopFlag, outsideVars>>
          /\ UNCHANGED <<running, loopVars, dOut, mOut, dVars, mVars>>
          /\ pc = "verifyWait" /\ (~mBusy \/ stopFlag)
          /\ mainTokens' = mOut
          /\ \/ pc' = "mainStep" /\ Len(mOut) < Len(dOut) + 1
             \/ pc' = "accept" /\ Len(mOut) >= Len(dOut) + 1
        BY <1>5 DEF VerifyReturns, VerifyWaitOver, BonusMissing, Scheduler, Goto, Typed
    <2>2. UNCHANGED <<running, tokens, prompt, step, dBusy, dLeft, mBusy, mLeft>>
        BY <2>1 DEF loopVars, dVars, mVars
    <2>3. Flags' /\ UNCHANGED <<stopFlag, stopper, stops, ready, dangling>>
        BY <1>0, <2>1, <2>2, FlagsKept
    <2>4. Typed'
        BY <2>1, <2>2, <2>3 DEF Typed, Places
    <2>5. Emission'
        BY <2>1, EmissionKept DEF InRound
    <2>6. Counts'
        BY <2>1, <2>2 DEF Typed, Counts, DraftFrame, MainFrame
    <2>7. Frames'
        BY <2>1, <2>2, <2>3 DEF Frames, CallbackAlive, DraftFrame, MainFrame
    <2> QED
        BY <2>4, <2>5, <2>6, <2>7
<1>6. CASE StartMainStep
    <2>1. /\ UNCHANGED <<stopFlag, outsideVars>>
          /\ UNCHANGED <<running, loopVars, dOut, mainTokens, dVars>>
          /\ pc = "mainStep" /\ pc' = "stepWait" /\ mOut' = <<>>
          /\ IF mBusy THEN UNCHANGED mVars ELSE Main!Start(1)
        BY <1>6 DEF StartMainStep, Scheduler, Goto
    <2>2. UNCHANGED <<running, tokens, prompt, step, dBusy, dLeft>>
        BY <2>1 DEF loopVars, dVars
    <2>3. mBusy' = TRUE /\ mLeft' \in 0..(K + 1)
        <3>1. 1 \in Nat /\ 1 <= K + 1
            OBVIOUS
        <3> QED
            BY <2>1, <3>1, Started
    <2>4. Flags' /\ UNCHANGED <<stopFlag, stopper, stops, ready, dangling>>
        BY <1>0, <2>1, <2>2, <2>3, FlagsKept
    <2>5. Typed'
        BY <2>1, <2>2, <2>3, <2>4 DEF Typed, Places
    <2>6. Emission'
        BY <2>1, EmissionKept DEF InRound
    <2>7. Counts'
        <3>1. Len(mOut') = 0
            BY <2>1
        <3>2. mLeft' \in Nat /\ mLeft' <= K + 1
            BY <2>3
        <3>3. Len(mOut') + mLeft' <= K + 1
            BY <3>1, <3>2, NoneYet
        <3>4. Len(mOut') <= K + 1
            BY <3>1
        <3>5. mainTokens' = mainTokens /\ dOut' = dOut
            BY <2>1
        <3> QED
            BY <2>1, <2>2, <3>3, <3>4, <3>5 DEF Counts, DraftFrame, MainFrame
    <2>8. Frames'
        BY <2>1, <2>2, <2>4 DEF Frames, CallbackAlive, DraftFrame, MainFrame
    <2> QED
        BY <2>5, <2>6, <2>7, <2>8
<1>7. CASE MainStepReturns
    <2> DEFINE tok == IF mOut = <<>> THEN Zero ELSE Last(mOut)
    <2>1. /\ UNCHANGED <<stopFlag, outsideVars>>
          /\ UNCHANGED <<running, loopVars, dOut, mOut, dVars, mVars>>
          /\ pc = "stepWait" /\ pc' = "accept" /\ ~mBusy
          /\ mainTokens' = Append(mainTokens, tok)
        BY <1>7 DEF MainStepReturns, Scheduler, Goto
    <2>2. UNCHANGED <<running, tokens, prompt, step, dBusy, dLeft, mBusy, mLeft>>
        BY <2>1 DEF loopVars, dVars, mVars
    <2>3. tok \in Tokens
        BY LastOf DEF Typed
    <2> HIDE DEF tok
    <2>4. mainTokens' \in Seq(Tokens) /\ Len(mainTokens') = Len(mainTokens) + 1
          /\ Len(mainTokens) \in Nat /\ Len(dOut) \in Nat
        BY <2>1, <2>3, AppendOne DEF Typed
    <2>5. Flags' /\ UNCHANGED <<stopFlag, stopper, stops, ready, dangling>>
        BY <1>0, <2>1, <2>2, FlagsKept
    <2>6. Typed'
        BY <2>1, <2>2, <2>4, <2>5 DEF Typed, Places
    <2>7. Emission'
        BY <2>1, EmissionKept DEF InRound
    <2>8. Counts'
        BY <2>1, <2>2, <2>4 DEF Counts, DraftFrame, MainFrame
    <2>9. Frames'
        BY <2>1, <2>2, <2>5 DEF Frames, CallbackAlive, DraftFrame, MainFrame
    <2> QED
        BY <2>6, <2>7, <2>8, <2>9
<1>8. CASE StopBeforeAccept \/ Finish
    <2>1. /\ UNCHANGED <<stopFlag, outsideVars>>
          /\ UNCHANGED <<loopVars, resultVars, dVars, mVars>>
          /\ \/ pc = "accept" /\ pc' = "done" /\ running' = running
             \/ pc = "done" /\ pc' = "out" /\ running' = FALSE
        BY <1>8 DEF StopBeforeAccept, Finish, Scheduler, Goto
    <2>2. UNCHANGED <<tokens, prompt, step, dOut, mOut, mainTokens, dBusy, dLeft, mBusy, mLeft>>
        BY <2>1 DEF loopVars, resultVars, dVars, mVars
    <2>3. Flags' /\ UNCHANGED <<stopFlag, stopper, stops, ready, dangling>>
        BY <1>0, <2>1, <2>2, FlagsKept
    <2>4. Typed'
        BY <2>1, <2>2, <2>3 DEF Typed, Places
    <2>5. Emission'
        BY <2>1, EmissionKept DEF InRound
    <2>6. Counts'
        BY <2>1, <2>2 DEF Counts, DraftFrame, MainFrame
    <2>7. Frames'
        BY <2>1, <2>2, <2>3 DEF Frames, CallbackAlive, DraftFrame, MainFrame
    <2> QED
        BY <2>4, <2>5, <2>6, <2>7
<1>9. ASSUME NEW n \in 0..K, AcceptAndEmit(n)
      PROVE  IInv'
    <2>1. /\ tokens' \in Seq(Tokens) /\ step' \in Nat
          /\ Len(tokens') = prompt + step'
          /\ step' <= MaxNew /\ Len(tokens') <= MaxSeq
          /\ \A i \in (prompt + 1)..(Len(tokens') - 1) : tokens'[i] # Newline
          /\ pc' = "top" => /\ Len(tokens') < MaxSeq
                            /\ \A i \in (prompt + 1)..Len(tokens') : tokens'[i] # Newline
          /\ pc' \in {"top", "done"}
        BY <1>9, Acceptance
    <2>2. /\ UNCHANGED <<stopFlag, outsideVars>>
          /\ UNCHANGED <<running, prompt, resultVars, dVars, mVars>> /\ pc = "accept"
        BY <1>9 DEF AcceptAndEmit, Scheduler
    <2>3. UNCHANGED <<running, prompt, dOut, mOut, mainTokens, dBusy, dLeft, mBusy, mLeft>>
        BY <2>2 DEF resultVars, dVars, mVars
    <2>4. Flags' /\ UNCHANGED <<stopFlag, stopper, stops, ready, dangling>>
        BY <1>0, <2>2, <2>3, FlagsKept
    <2>5. Typed'
        BY <2>1, <2>3, <2>4 DEF Typed, Places
    <2>6. Emission'
        BY <2>1, <2>3 DEF Emission, BudgetKept, NothingAfterNewline, InRound
    <2>7. Counts'
        BY <2>1, <2>3 DEF Counts, DraftFrame, MainFrame
    <2>8. Frames'
        BY <2>1, <2>2, <2>3, <2>4 DEF Frames, CallbackAlive, DraftFrame, MainFrame
    <2> QED
        BY <2>5, <2>6, <2>7, <2>8
<1> QED
    BY <1>1, <1>2, <1>3, <1>4, <1>5, <1>6, <1>7, <1>8, <1>9 DEF SchedulerStep

LEMMA StutterInv == ASSUME IInv, UNCHANGED vars PROVE IInv'
<1>1. UNCHANGED <<running, stopFlag, pc, tokens, prompt, step, dOut, mOut, mainTokens,
                  stopper, stops, ready, dangling, dBusy, dLeft, mBusy, mLeft>>
    BY DEF vars, flagVars, loopVars, resultVars, outsideVars, dVars, mVars
<1>2. Typed'
    BY <1>1 DEF IInv, Typed, Flags
<1>3. Emission' /\ Counts' /\ Frames'
    BY <1>1 DEF IInv, Emission, BudgetKept, NothingAfterNewline, InRound, Counts,
       DraftFrame, MainFrame, Frames, CallbackAlive
<1> QED
    BY <1>2, <1>3 DEF IInv

LEMMA InvAlways == Spec => []IInv
<1>1. Init => IInv
    BY DecoderAssumption, InitInv
<1>2. IInv /\ [Next]_vars => IInv'
    BY DecoderAssumption, SchedulerSteps, DraftPipeline, MainPipeline, ClientSteps, StutterInv
       DEF Next
<1> QED
    BY <1>1, <1>2, PTL DEF Spec

\* The correction exists because main's last token is never compared: only a
\* token before it can be counted as accepted.
LEMMA Correction == ASSUME IInv PROVE CorrectionExists
<1> SUFFICES ASSUME pc = "accept", NEW n \in AcceptCounts
             PROVE  n + 1 <= Len(mainTokens)
    BY DEF CorrectionExists
<1>1. n \in Nat /\ Len(mainTokens) >= 1 /\ mainTokens \in Seq(Tokens)
    BY DEF IInv, Counts, Typed, AcceptCounts
<1>2. CASE n = 0
    BY <1>1, <1>2
<1>3. CASE n > 0
    <2>1. Match(n)
        BY <1>1, <1>3 DEF AcceptCounts
    <2> QED
        BY <1>1, <2>1 DEF Match
<1> QED
    BY <1>1, <1>2, <1>3

\* draftGenerate, verifyTokens, mainStep and runScheduler at any threshold:
\* within the budget and max_seq, nothing behind a '\n', a correction that
\* exists, and until the first stop() no pipeline outlives the frame its
\* callback refers to.
THEOREM RoundsBounded ==
    Spec => [](BudgetKept /\ NothingAfterNewline /\ CorrectionExists /\ CallbackAlive)
<1>1. IInv => BudgetKept /\ NothingAfterNewline /\ CorrectionExists /\ CallbackAlive
    BY Correction DEF IInv, Emission, Frames
<1> QED
    BY <1>1, InvAlways, PTL

\* With acceptTokens at the threshold SpecConfig calls strict, nor is a match
\* ever rejected, for every K, budget, sequence length and set of prompts.
THEOREM RoundsSafe ==
    ASSUME Strict PROVE Spec => []RoundSafety
<1>1. IInv => TypeOK
    BY DecoderAssumption DEF IInv, Typed, Flags, Emission, Counts, TypeOK, Places
<1>2. MatchAccepted
    BY DEF MatchAccepted, AcceptCounts
<1>3. /\ TypeOK
      /\ BudgetKept /\ NothingAfterNewline /\ CorrectionExists /\ CallbackAlive
      => RoundSafety
    BY <1>2 DEF RoundSafety
<1> QED
    BY <1>1, <1>3, InvAlways, RoundsBounded, PTL
=============================================================================
