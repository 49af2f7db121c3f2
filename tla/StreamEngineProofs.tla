------------------------- MODULE StreamEngineProofs -------------------------
(***************************************************************************)
(* What StreamEngine promises for every stream, ring size, number of       *)
(* layers and set of decode threads.  First TypeOK and SlotAccounting:     *)
(* neither is inductive by itself, since what a thread owns depends on     *)
(* where it is, so IInv adds Control, which ties work, waiting, recording  *)
(* and mixed to the program counters.  Then, resting on IInv, what the     *)
(* engine does with the chunks it is handed: their places in the weight    *)
(* buffers, their accounts, and the refinement of TilePipeline.  Last, what *)
(* holds when one thread decodes one layer.                                *)
(***************************************************************************)
EXTENDS StreamEngine, FiniteSetTheorems, TLAPS

Busy == {"scan", "count", "total", "check"} \cup Holding
WorkerLabels == {"idle", "block", "waiting", "exited"} \cup Busy

\* What a thread holds is decided by where it is.
Control ==
    /\ \A w \in Workers : pc[w] \in WorkerLabels
    /\ \A w \in Workers : work[w] # 0 <=> pc[w] \in Busy
    /\ waiting = {w \in Workers : pc[w] = "waiting"}
    /\ recording = {t \in Threads : pc[t] = "record"}
    /\ mixed \subseteq recording

IInv == TypeOK /\ Control /\ SlotAccounting

-----------------------------------------------------------------------------
(* The constants *)

LEMMA ChunkFacts ==
    /\ Chunks \subseteq Frames
    /\ Frames \subseteq Nat \ {0}
    /\ \A c \in Chunks : LayerOf(c) \in Layers /\ Stream[c].size \in Nat
<1>1. \A f \in Frames : Stream[f] \in FrameType
  BY StreamAssumption DEF Frames
<1>2. \A f \in Frames : Stream[f].size \in Nat
  BY <1>1 DEF FrameType
<1>3. Chunks \subseteq Frames /\ \A c \in Chunks : LayerOf(c) \in Layers
  BY DEF Chunks, IsChunk, LayerOf
<1>4. Frames \subseteq Nat \ {0}
  BY StreamAssumption DEF Frames
<1> QED BY <1>2, <1>3, <1>4

LEMMA NoSlotZero == 0 \notin Slots /\ 1 \in Slots
BY SizeAssumption DEF Slots

-----------------------------------------------------------------------------
(* Steps that move one thread, or none, and touch no slot *)

\* A step that leaves the ring's ownership alone and moves threads only inside
\* or only outside the slot-holding section keeps the accounting.
LEMMA SlotsKept ==
    ASSUME SlotAccounting, UNCHANGED <<slot, slotFree>>,
           \A w \in Workers : pc'[w] \in Holding <=> pc[w] \in Holding
    PROVE  SlotAccounting'
BY DEF SlotAccounting

\* The same, when the step moves one thread t to a label.
LEMMA SlotsKeptByMove ==
    ASSUME TypeOK, SlotAccounting, UNCHANGED <<slot, slotFree>>,
           NEW t \in Threads, NEW label, pc' = [pc EXCEPT ![t] = label],
           t \in Workers => (label \in Holding <=> pc[t] \in Holding)
    PROVE  SlotAccounting'
<1>1. \A w \in Workers : pc'[w] \in Holding <=> pc[w] \in Holding
  BY DEF TypeOK, Threads
<1> QED BY <1>1, SlotsKept

\* A thread that moves without taking or dropping work, waiting or recording.
LEMMA ControlKeptByMove ==
    ASSUME TypeOK, Control, UNCHANGED <<work, waiting, recording, mixed>>,
           NEW t \in Threads, NEW label, pc' = [pc EXCEPT ![t] = label],
           pc[t] \notin {"waiting", "record"}, label \notin {"waiting", "record"},
           t \in Workers => /\ label \in WorkerLabels
                            /\ label \in Busy <=> pc[t] \in Busy
    PROVE  Control'
<1>1. \A u \in Threads : pc'[u] = IF u = t THEN label ELSE pc[u]
  BY DEF TypeOK
<1>2. Workers \subseteq Threads
  BY DEF Threads
<1> QED BY <1>1, <1>2 DEF Control

\* A decode thread that leaves the wait set goes back to its predicate.
LEMMA WakeOne ==
    ASSUME TypeOK, Control, UNCHANGED <<work, recording, mixed>>,
           NEW w \in waiting, waiting' = waiting \ {w}, pc' = [pc EXCEPT ![w] = "idle"]
    PROVE  Control'
<1>1. w \in Threads /\ w \in Workers /\ pc[w] = "waiting"
  BY DEF Control, Threads
<1>2. \A u \in Threads : pc'[u] = IF u = w THEN "idle" ELSE pc[u]
  BY <1>1 DEF TypeOK
<1>3. Workers \subseteq Threads
  BY DEF Threads
<1> QED BY <1>1, <1>2, <1>3 DEF Control, WorkerLabels, Busy, Holding

\* A step of one thread that changes nothing but its program counter.
LEMMA PlainMove ==
    ASSUME IInv, UNCHANGED <<hostVars, decodeVars, deviceVars, genVars>>,
           NEW t \in Threads, NEW label \in Labels, pc' = [pc EXCEPT ![t] = label],
           pc[t] \notin {"waiting", "record"}, label \notin {"waiting", "record"},
           t \in Workers => /\ label \in WorkerLabels
                            /\ label \in Busy <=> pc[t] \in Busy
                            /\ label \in Holding <=> pc[t] \in Holding
    PROVE  IInv'
<1> USE DEF hostVars, ioVars, queueVars, decodeVars, ringVars, tileVars,
            deviceVars, cmdVars, gpuVars, fenceVars, genVars
<1>1. TypeHost' /\ TypeRing' /\ TypeTiles' /\ TypeDevice'
  BY DEF IInv, TypeOK, TypeHost, TypeRing, TypeTiles, TypeDevice
<1>2. TypeOK'
  BY <1>1 DEF IInv, TypeOK
<1>3. Control'
  BY ControlKeptByMove DEF IInv
<1>4. SlotAccounting'
  BY SlotsKeptByMove DEF IInv
<1> QED BY <1>2, <1>3, <1>4 DEF IInv

-----------------------------------------------------------------------------
(* IO thread *)

LEMMA IoStep == ASSUME IInv, IoNext PROVE IInv'
<1> USE DEF IInv
<1>1. UNCHANGED <<decodeVars, deviceVars, genVars>>
  BY DEF IoNext, DropFrame, SubmitChunk, NotifyOne
<1> USE DEF decodeVars, ringVars, tileVars, deviceVars, cmdVars, gpuVars, fenceVars, genVars
<1>2. TypeRing' /\ TypeTiles' /\ TypeDevice' /\ UNCHANGED <<work, step, layer, result>>
  BY <1>1 DEF TypeOK, TypeRing, TypeTiles, TypeDevice
<1>3. UNCHANGED <<slot, slotFree, recording, mixed>>
  BY <1>1
<1>4. CASE DropFrame
  <2>1. TypeHost' /\ UNCHANGED <<waiting, pc>>
    BY <1>4, StreamAssumption DEF DropFrame, TypeOK, TypeHost, Frames, queueVars
  <2>2. TypeOK' /\ Control'
    BY <1>2, <1>3, <2>1 DEF TypeOK, Control
  <2>3. SlotAccounting'
    BY <1>3, <2>1, SlotsKept
  <2> QED BY <2>2, <2>3
<1>5. CASE SubmitChunk
  <2>1. TypeHost' /\ UNCHANGED <<waiting, pc>>
    <3>1. nextFrame \in Chunks /\ nextFrame' = nextFrame + 1 /\ ioPc' = "notify"
          /\ workQ' = Append(workQ, nextFrame)
          /\ accepted' = (IF running THEN accepted \cup {nextFrame} ELSE accepted)
          /\ UNCHANGED <<workMu, waiting, running, pc>>
      BY <1>5 DEF SubmitChunk
    <3>2. nextFrame' \in 1 .. Len(Stream) + 1
      BY <3>1, StreamAssumption DEF TypeOK, TypeHost, Chunks, Frames
    <3>3. workQ' \in Seq(Chunks)
      BY <3>1 DEF TypeOK, TypeHost
    <3> QED BY <3>1, <3>2, <3>3 DEF TypeOK, TypeHost
  <2>2. TypeOK' /\ Control'
    BY <1>2, <1>3, <2>1 DEF TypeOK, Control
  <2>3. SlotAccounting'
    BY <1>3, <2>1, SlotsKept
  <2> QED BY <2>2, <2>3
<1>6. CASE NotifyOne /\ waiting = {}
  <2>1. TypeHost' /\ UNCHANGED <<waiting, pc>>
    BY <1>6 DEF NotifyOne, TypeOK, TypeHost
  <2>2. TypeOK' /\ Control'
    BY <1>2, <1>3, <2>1 DEF TypeOK, Control
  <2>3. SlotAccounting'
    BY <1>3, <2>1, SlotsKept
  <2> QED BY <2>2, <2>3
<1>7. CASE NotifyOne /\ waiting # {}
  <2>1. PICK w \in waiting : waiting' = waiting \ {w} /\ pc' = [pc EXCEPT ![w] = "idle"]
    BY <1>7 DEF NotifyOne, Goto
  <2>2. w \in Workers /\ w \in Threads /\ pc[w] = "waiting"
    BY <2>1 DEF Control, Threads
  <2>3. TypeHost'
    BY <1>7, <2>1 DEF NotifyOne, TypeOK, TypeHost
  <2>4. pc' \in [Threads -> Labels]
    BY <2>1, <2>2 DEF TypeOK, Labels
  <2>5. Control'
    BY <1>2, <1>3, <2>1, <2>2, WakeOne
  <2>6. SlotAccounting'
    BY <1>3, <2>1, <2>2, SlotsKeptByMove DEF Holding
  <2> QED BY <1>2, <2>3, <2>4, <2>5, <2>6 DEF TypeOK
<1> QED BY <1>4, <1>5, <1>6, <1>7 DEF IoNext

-----------------------------------------------------------------------------
(* Decode threads: the queue *)

LEMMA TakeWorkStep == ASSUME IInv, NEW w \in Workers, TakeWork(w) PROVE IInv'
<1> USE DEF IInv
<1>1. w \in Threads /\ pc[w] = "idle" /\ pc' = [pc EXCEPT ![w] = "scan"]
  BY DEF TakeWork, Goto, Threads
<1>2. workQ # <<>> /\ workQ' = Tail(workQ) /\ work' = [work EXCEPT ![w] = Head(workQ)]
      /\ scan' = [scan EXCEPT ![w] = 1]
  BY DEF TakeWork
<1>3. /\ UNCHANGED <<ioVars, workMu, waiting, running, accepted, slot, slotFree, slotData,
                     writeOffset, dst, tileVars, deviceVars, genVars>>
  BY DEF TakeWork
<1> USE DEF ioVars, tileVars, deviceVars, cmdVars, gpuVars, fenceVars, genVars
<1>4. Head(workQ) \in Chunks /\ Tail(workQ) \in Seq(Chunks)
  BY <1>2 DEF TypeOK, TypeHost
<1>5. TypeHost' /\ TypeTiles' /\ TypeDevice'
  BY <1>2, <1>3, <1>4 DEF TypeOK, TypeHost, TypeTiles, TypeDevice
<1>6. TypeRing'
  BY <1>2, <1>3, NoSlotZero DEF TypeOK, TypeRing
<1>7. TypeOK'
  BY <1>1, <1>2, <1>3, <1>4, <1>5, <1>6 DEF TypeOK, Labels
<1>8. Control'
  <2>1. Head(workQ) # 0
    BY <1>4, ChunkFacts
  <2>2. \A u \in Threads : pc'[u] = IF u = w THEN "scan" ELSE pc[u]
    BY <1>1 DEF TypeOK
  <2>3. \A u \in Workers : work'[u] = IF u = w THEN Head(workQ) ELSE work[u]
    BY <1>2 DEF TypeOK
  <2> QED BY <1>1, <1>3, <2>1, <2>2, <2>3 DEF Control, WorkerLabels, Busy, Holding, Threads
<1>9. SlotAccounting'
  BY <1>1, <1>3, SlotsKeptByMove DEF Holding
<1> QED BY <1>7, <1>8, <1>9

LEMMA ExitWorkerStep == ASSUME IInv, NEW w \in Workers, ExitWorker(w) PROVE IInv'
BY PlainMove DEF ExitWorker, Goto, Threads, Labels, WorkerLabels, Busy, Holding

LEMMA DecideToWaitStep == ASSUME IInv, NEW w \in Workers, DecideToWait(w) PROVE IInv'
<1> USE DEF IInv
<1>1. w \in Threads /\ pc[w] = "idle" /\ pc' = [pc EXCEPT ![w] = "block"] /\ workMu' = w
  BY DEF DecideToWait, Goto, Threads
<1>2. UNCHANGED <<ioVars, workQ, waiting, running, accepted, decodeVars, deviceVars, genVars>>
  BY DEF DecideToWait
<1> USE DEF ioVars, decodeVars, ringVars, tileVars, deviceVars, cmdVars, gpuVars, fenceVars, genVars
<1>3. TypeHost' /\ TypeRing' /\ TypeTiles' /\ TypeDevice'
  BY <1>1, <1>2 DEF TypeOK, TypeHost, TypeRing, TypeTiles, TypeDevice
<1>4. TypeOK'
  BY <1>1, <1>2, <1>3 DEF TypeOK, Labels
<1>5. Control' /\ SlotAccounting'
  BY <1>1, <1>2, ControlKeptByMove, SlotsKeptByMove DEF WorkerLabels, Busy, Holding
<1> QED BY <1>4, <1>5

LEMMA BlockStep == ASSUME IInv, NEW w \in Workers, Block(w) PROVE IInv'
<1> USE DEF IInv
<1>1. w \in Threads /\ pc[w] = "block" /\ pc' = [pc EXCEPT ![w] = "waiting"]
      /\ workMu' = NoOne /\ waiting' = waiting \cup {w}
  BY DEF Block, Goto, Threads
<1>2. UNCHANGED <<ioVars, workQ, running, accepted, decodeVars, deviceVars, genVars>>
  BY DEF Block
<1> USE DEF ioVars, decodeVars, ringVars, tileVars, deviceVars, cmdVars, gpuVars, fenceVars, genVars
<1>3. TypeHost' /\ TypeRing' /\ TypeTiles' /\ TypeDevice'
  BY <1>1, <1>2 DEF TypeOK, TypeHost, TypeRing, TypeTiles, TypeDevice
<1>4. TypeOK'
  BY <1>1, <1>2, <1>3 DEF TypeOK, Labels
<1>5. Control'
  <2>1. \A u \in Threads : pc'[u] = IF u = w THEN "waiting" ELSE pc[u]
    BY <1>1 DEF TypeOK
  <2> QED BY <1>1, <1>2, <2>1 DEF Control, WorkerLabels, Busy, Holding, Threads
<1>6. SlotAccounting'
  BY <1>1, <1>2, SlotsKeptByMove DEF Holding
<1> QED BY <1>4, <1>5, <1>6

LEMMA SpuriousWakeupStep == ASSUME IInv, NEW w \in Workers, SpuriousWakeup(w) PROVE IInv'
<1> USE DEF IInv
<1>1. w \in waiting /\ w \in Threads /\ pc[w] = "waiting"
      /\ pc' = [pc EXCEPT ![w] = "idle"] /\ waiting' = waiting \ {w}
  BY DEF SpuriousWakeup, Goto, Threads, Control
<1>2. UNCHANGED <<ioVars, workMu, workQ, running, accepted, decodeVars, deviceVars, genVars>>
  BY DEF SpuriousWakeup
<1> USE DEF ioVars, decodeVars, ringVars, tileVars, deviceVars, cmdVars, gpuVars, fenceVars, genVars
<1>3. TypeHost' /\ TypeRing' /\ TypeTiles' /\ TypeDevice'
  BY <1>1, <1>2 DEF TypeOK, TypeHost, TypeRing, TypeTiles, TypeDevice
<1>4. TypeOK'
  BY <1>1, <1>2, <1>3 DEF TypeOK, Labels
<1>5. Control'
  BY <1>1, <1>2, WakeOne
<1>6. SlotAccounting'
  BY <1>1, <1>2, SlotsKeptByMove DEF Holding
<1> QED BY <1>4, <1>5, <1>6

-----------------------------------------------------------------------------
(* Decode threads: the upload ring *)

LEMMA ScanSlotStep == ASSUME IInv, NEW w \in Workers, ScanSlot(w) PROVE IInv'
<1> USE DEF IInv
<1> DEFINE s == scan[w]
<1>1. UNCHANGED <<hostVars, work, slotData, writeOffset, dst, tileVars, deviceVars, genVars>>
  BY DEF ScanSlot
<1>2. w \in Threads /\ pc[w] = "scan" /\ s \in Slots
  BY DEF ScanSlot, TypeOK, TypeRing, Threads
<1>3. TypeHost' /\ TypeTiles' /\ TypeDevice'
  BY <1>1 DEF TypeOK, TypeHost, TypeTiles, TypeDevice, hostVars, ioVars, queueVars,
              tileVars, deviceVars, cmdVars, gpuVars, fenceVars
<1>4. UNCHANGED <<work, recording, mixed, waiting, step, layer, result>>
  BY <1>1 DEF hostVars, queueVars, deviceVars, cmdVars, genVars
<1>5. ASSUME slotFree[s], slotFree' = [slotFree EXCEPT ![s] = FALSE],
             slot' = [slot EXCEPT ![w] = s], pc' = [pc EXCEPT ![w] = "copy"],
             scan' = scan
      PROVE  IInv'
  <2>1. TypeRing'
    BY <1>1, <1>2, <1>5 DEF TypeOK, TypeRing
  <2>2. TypeOK'
    BY <1>2, <1>3, <1>4, <1>5, <2>1 DEF TypeOK, Labels
  <2>3. Control'
    BY <1>2, <1>4, <1>5, ControlKeptByMove DEF WorkerLabels, Busy, Holding
  <2>4. SlotAccounting'
    <3>1. slot[w] = 0 /\ s # 0 /\ \A u \in Workers : slot[u] # s
      BY <1>2, <1>5, NoSlotZero DEF SlotAccounting, Holding, TypeOK, TypeRing
    <3>2. \A u \in Workers : /\ slot'[u] = (IF u = w THEN s ELSE slot[u])
                             /\ pc'[u] = (IF u = w THEN "copy" ELSE pc[u])
      BY <1>2, <1>5 DEF TypeOK, TypeRing, Threads
    <3>3. \A r \in Slots : slotFree'[r] = (IF r = s THEN FALSE ELSE slotFree[r])
      BY <1>2, <1>5 DEF TypeOK, TypeRing
    <3> HIDE DEF s
    <3>4. \A u \in Workers : slot'[u] # 0 <=> pc'[u] \in Holding
      BY <3>1, <3>2 DEF SlotAccounting, Holding
    <3>5. \A r \in Slots : slotFree'[r] <=> \A u \in Workers : slot'[u] # r
      <4> TAKE r \in Slots
      <4>1. CASE r = s
        <5>1. slotFree'[r] = FALSE /\ slot'[w] = r
          BY <4>1, <3>2, <3>3
        <5> QED BY <5>1
      <4>2. CASE r # s
        <5>1. slotFree'[r] = slotFree[r]
          BY <4>2, <3>3
        <5>2. (\A u \in Workers : slot'[u] # r) <=> \A u \in Workers : slot[u] # r
          BY <4>2, <3>1, <3>2, NoSlotZero
        <5>3. slotFree[r] <=> \A u \in Workers : slot[u] # r
          BY DEF SlotAccounting
        <5> QED BY <5>1, <5>2, <5>3
      <4> QED BY <4>1, <4>2
    <3>6. \A u, v \in Workers : slot'[u] = slot'[v] /\ slot'[u] # 0 => u = v
      BY <3>1, <3>2 DEF SlotAccounting
    <3> QED BY <3>4, <3>5, <3>6 DEF SlotAccounting
  <2> QED BY <2>2, <2>3, <2>4
<1>6. ASSUME scan' = [scan EXCEPT ![w] = NextSlot(s)], UNCHANGED <<slotFree, slot, pc>>
      PROVE  IInv'
  <2>1. NextSlot(s) \in Slots
    BY <1>2, SizeAssumption DEF NextSlot, Slots
  <2>2. TypeRing'
    BY <1>1, <1>6, <2>1 DEF TypeOK, TypeRing
  <2>3. TypeOK' /\ Control'
    BY <1>3, <1>4, <1>6, <2>2 DEF TypeOK, Control
  <2>4. SlotAccounting'
    BY <1>6, SlotsKept
  <2> QED BY <2>3, <2>4
<1> QED BY <1>5, <1>6 DEF ScanSlot, SlotAvailable, Goto

LEMMA CopyAndReserveStep == ASSUME IInv, NEW w \in Workers, CopyAndReserve(w) PROVE IInv'
<1> USE DEF IInv
<1> DEFINE c == work[w]
<1>1. w \in Threads /\ pc[w] = "copy" /\ pc' = [pc EXCEPT ![w] = "reset"]
  BY DEF CopyAndReserve, Goto, Threads
<1>2. UNCHANGED <<hostVars, work, scan, slot, slotFree, tileVars, deviceVars, genVars>>
  BY DEF CopyAndReserve
<1>3. c \in Chunks /\ LayerOf(c) \in Layers /\ TileBytes(c) \in Nat /\ slot[w] \in Slots
  BY <1>1, ChunkFacts DEF TypeOK, TypeRing, Control, SlotAccounting, Busy, Holding, TileBytes
<1>4. TypeHost' /\ TypeTiles' /\ TypeDevice' /\ UNCHANGED <<waiting, recording, mixed, step, layer, result>>
  BY <1>2 DEF TypeOK, TypeHost, TypeTiles, TypeDevice, hostVars, ioVars, queueVars,
              tileVars, deviceVars, cmdVars, gpuVars, fenceVars, genVars
<1>5. TypeRing'
  <2>1. /\ slotData' = [slotData EXCEPT ![slot[w]] = c]
        /\ dst' = [d \in DOMAIN dst \cup {c} |->
                     IF d = c THEN writeOffset[LayerOf(c)] ELSE dst[d]]
        /\ writeOffset' = [writeOffset EXCEPT ![LayerOf(c)] = @ + TileBytes(c)]
    BY DEF CopyAndReserve
  <2>2. DOMAIN dst' \subseteq Chunks /\ dst' \in [DOMAIN dst' -> Nat]
    BY <1>3, <2>1 DEF TypeOK, TypeRing
  <2>3. slotData' \in [Slots -> Chunks \cup {0}] /\ writeOffset' \in [Layers -> Nat]
    BY <1>3, <2>1 DEF TypeOK, TypeRing
  <2> QED BY <1>2, <2>2, <2>3 DEF TypeOK, TypeRing
<1>6. TypeOK'
  BY <1>1, <1>2, <1>4, <1>5 DEF TypeOK, Labels
<1>7. Control' /\ SlotAccounting'
  BY <1>1, <1>2, <1>4, ControlKeptByMove, SlotsKeptByMove DEF WorkerLabels, Busy, Holding
<1> QED BY <1>6, <1>7

LEMMA ReleaseSlotStep == ASSUME IInv, NEW w \in Workers, ReleaseSlot(w) PROVE IInv'
<1> USE DEF IInv
<1> DEFINE s == slot[w]
<1>1. w \in Threads /\ pc[w] = "release" /\ pc' = [pc EXCEPT ![w] = "count"]
      /\ slotFree' = [slotFree EXCEPT ![s] = TRUE] /\ slot' = [slot EXCEPT ![w] = 0]
  BY DEF ReleaseSlot, Goto, Threads
<1>2. UNCHANGED <<hostVars, work, scan, slotData, writeOffset, dst, tileVars, deviceVars, genVars>>
  BY DEF ReleaseSlot
<1>3. s \in Slots /\ s # 0
  BY <1>1 DEF TypeOK, TypeRing, SlotAccounting, Holding
<1>4. TypeHost' /\ TypeTiles' /\ TypeDevice' /\ UNCHANGED <<waiting, recording, mixed, step, layer, result>>
  BY <1>2 DEF TypeOK, TypeHost, TypeTiles, TypeDevice, hostVars, ioVars, queueVars,
              tileVars, deviceVars, cmdVars, gpuVars, fenceVars, genVars
<1>5. TypeRing'
  BY <1>1, <1>2 DEF TypeOK, TypeRing
<1>6. TypeOK'
  BY <1>1, <1>2, <1>4, <1>5 DEF TypeOK, Labels
<1>7. Control'
  BY <1>1, <1>2, <1>4, ControlKeptByMove DEF WorkerLabels, Busy, Holding
<1>8. SlotAccounting'
  <2>1. \A u \in Workers : /\ slot'[u] = (IF u = w THEN 0 ELSE slot[u])
                           /\ pc'[u] = (IF u = w THEN "count" ELSE pc[u])
    BY <1>1 DEF TypeOK, TypeRing, Threads
  <2>2. \A r \in Slots : slotFree'[r] = (IF r = s THEN TRUE ELSE slotFree[r])
    BY <1>1, <1>3 DEF TypeOK, TypeRing
  <2>3. \A u \in Workers : u # w => slot[u] # s
    BY <1>3 DEF SlotAccounting
  <2>4. s = slot[w]
    OBVIOUS
  <2> HIDE DEF s
  <2>5. \A u \in Workers : slot'[u] # 0 <=> pc'[u] \in Holding
    BY <2>1 DEF SlotAccounting, Holding
  <2>6. \A r \in Slots : slotFree'[r] <=> \A u \in Workers : slot'[u] # r
    <3> TAKE r \in Slots
    <3>1. CASE r = s
      <4>1. slotFree'[r] = TRUE /\ \A u \in Workers : slot'[u] # r
        BY <3>1, <1>3, <2>1, <2>2, <2>3
      <4> QED BY <4>1
    <3>2. CASE r # s
      <4>1. slotFree'[r] = slotFree[r]
        BY <3>2, <2>2
      <4>2. (\A u \in Workers : slot'[u] # r) <=> \A u \in Workers : slot[u] # r
        BY <3>2, <2>1, <2>4, NoSlotZero
      <4>3. slotFree[r] <=> \A u \in Workers : slot[u] # r
        BY DEF SlotAccounting
      <4> QED BY <4>1, <4>2, <4>3
    <3> QED BY <3>1, <3>2
  <2>7. \A u, v \in Workers : slot'[u] = slot'[v] /\ slot'[u] # 0 => u = v
    BY <2>1 DEF SlotAccounting
  <2> QED BY <2>5, <2>6, <2>7 DEF SlotAccounting
<1> QED BY <1>6, <1>7, <1>8

-----------------------------------------------------------------------------
(* Decode threads: the tile counters *)

LEMMA CountTileStep == ASSUME IInv, NEW w \in Workers, CountTile(w) PROVE IInv'
<1> USE DEF IInv
<1> DEFINE c == work[w]
           label == IF Stream[c].last THEN "total" ELSE "check"
<1>1. w \in Threads /\ pc[w] = "count" /\ pc' = [pc EXCEPT ![w] = label]
  BY DEF CountTile, Goto, Threads
<1>2. UNCHANGED <<hostVars, work, ringVars, tilesTotal, ready, deviceVars, genVars>>
  BY DEF CountTile
<1>3. c \in Chunks /\ LayerOf(c) \in Layers
  BY <1>1, ChunkFacts DEF TypeOK, Control, Busy
<1>4. TypeTiles'
  BY <1>2, <1>3 DEF CountTile, FetchAdd, TypeOK, TypeTiles
<1>5. TypeHost' /\ TypeRing' /\ TypeDevice'
      /\ UNCHANGED <<waiting, recording, mixed, slot, slotFree, step, layer, result>>
  BY <1>2 DEF TypeOK, TypeHost, TypeRing, TypeDevice, hostVars, ioVars, queueVars,
              ringVars, deviceVars, cmdVars, gpuVars, fenceVars, genVars
<1>6. label \in {"total", "check"}
  OBVIOUS
<1> HIDE DEF label
<1>7. TypeOK'
  BY <1>1, <1>2, <1>4, <1>5, <1>6 DEF TypeOK, Labels
<1>8. Control' /\ SlotAccounting'
  BY <1>1, <1>2, <1>5, <1>6, ControlKeptByMove, SlotsKeptByMove
     DEF WorkerLabels, Busy, Holding
<1> QED BY <1>7, <1>8

LEMMA StoreTotalStep == ASSUME IInv, NEW w \in Workers, StoreTotal(w) PROVE IInv'
<1> USE DEF IInv
<1>1. w \in Threads /\ pc[w] = "total" /\ pc' = [pc EXCEPT ![w] = "check"]
  BY DEF StoreTotal, Goto, Threads
<1>2. UNCHANGED <<hostVars, work, ringVars, tilesLoaded, ready, loaded, deviceVars, genVars>>
  BY DEF StoreTotal
<1>3. LayerOf(work[w]) \in Layers
  BY <1>1, ChunkFacts DEF TypeOK, Control, Busy
<1>4. TypeTiles'
  BY <1>2, <1>3 DEF StoreTotal, TypeOK, TypeTiles
<1>5. TypeHost' /\ TypeRing' /\ TypeDevice'
      /\ UNCHANGED <<waiting, recording, mixed, slot, slotFree, step, layer, result>>
  BY <1>2 DEF TypeOK, TypeHost, TypeRing, TypeDevice, hostVars, ioVars, queueVars,
              ringVars, deviceVars, cmdVars, gpuVars, fenceVars, genVars
<1>6. TypeOK'
  BY <1>1, <1>2, <1>4, <1>5 DEF TypeOK, Labels
<1>7. Control'
  BY <1>1, <1>2, <1>5, ControlKeptByMove DEF WorkerLabels, Busy, Holding
<1>8. SlotAccounting'
  BY <1>1, <1>5, SlotsKeptByMove DEF Holding
<1> QED BY <1>6, <1>7, <1>8

LEMMA CheckReadyStep == ASSUME IInv, NEW w \in Workers, CheckReady(w) PROVE IInv'
<1> USE DEF IInv
<1>1. w \in Threads /\ pc[w] = "check" /\ pc' = [pc EXCEPT ![w] = "idle"]
      /\ work' = [work EXCEPT ![w] = 0]
  BY DEF CheckReady, Goto, Threads
<1>2. UNCHANGED <<hostVars, ringVars, tilesLoaded, tilesTotal, deviceVars, genVars>>
  BY DEF CheckReady
<1>3. LayerOf(work[w]) \in Layers
  BY <1>1, ChunkFacts DEF TypeOK, Control, Busy
<1>4. AllTilesIn(w) \in BOOLEAN
  BY DEF AllTilesIn
<1>5. TypeTiles'
  BY <1>2, <1>3, <1>4 DEF CheckReady, TypeOK, TypeTiles
<1>6. TypeHost' /\ TypeRing' /\ TypeDevice'
      /\ UNCHANGED <<waiting, recording, mixed, slot, slotFree, step, layer, result>>
  BY <1>2 DEF TypeOK, TypeHost, TypeRing, TypeDevice, hostVars, ioVars, queueVars,
              ringVars, deviceVars, cmdVars, gpuVars, fenceVars, genVars
<1>7. TypeOK'
  BY <1>1, <1>2, <1>5, <1>6 DEF TypeOK, Labels
<1>8. Control'
  <2>1. \A u \in Threads : pc'[u] = IF u = w THEN "idle" ELSE pc[u]
    BY <1>1 DEF TypeOK
  <2>2. \A u \in Workers : work'[u] = IF u = w THEN 0 ELSE work[u]
    BY <1>1 DEF TypeOK
  <2> QED BY <1>1, <1>6, <2>1, <2>2 DEF Control, WorkerLabels, Busy, Holding, Threads
<1>9. SlotAccounting'
  BY <1>1, <1>6, SlotsKeptByMove DEF Holding
<1> QED BY <1>7, <1>8, <1>9

-----------------------------------------------------------------------------
(* Command list, fence and GPU *)

\* A thread that records or waits is at a label of the section it shares with
\* every other thread; a decode thread owns a slot and a chunk there.
LEMMA CommandTyped ==
    ASSUME IInv, NEW t \in Threads, pc[t] \in {"reset", "record", "execute"}
    PROVE  CommandOf(t) \in Command
<1>1. CASE t \in Workers
  <2>1. work[t] \in Chunks /\ slot[t] \in Slots
    BY <1>1 DEF IInv, TypeOK, TypeRing, Control, SlotAccounting, Busy, Holding
  <2> QED BY <1>1, <2>1 DEF CommandOf, Command
<1>2. CASE t \notin Workers
  BY <1>2 DEF CommandOf, Command
<1> QED BY <1>1, <1>2

\* Steps of the section that change device state only: the part of IInv that is
\* about slots and program counters follows from the move alone.
LEMMA DeviceMove ==
    ASSUME IInv, UNCHANGED <<hostVars, decodeVars, genVars, recording, mixed>>,
           TypeDevice', NEW t \in Threads, NEW label \in Labels,
           pc' = [pc EXCEPT ![t] = label],
           pc[t] \notin {"waiting", "record"}, label \notin {"waiting", "record"},
           t \in Workers => /\ label \in WorkerLabels
                            /\ label \in Busy <=> pc[t] \in Busy
                            /\ label \in Holding <=> pc[t] \in Holding
    PROVE  IInv'
<1> USE DEF hostVars, ioVars, queueVars, decodeVars, ringVars, tileVars, genVars
<1>1. TypeHost' /\ TypeRing' /\ TypeTiles'
  BY DEF IInv, TypeOK, TypeHost, TypeRing, TypeTiles
<1>2. TypeOK'
  BY <1>1 DEF IInv, TypeOK
<1>3. Control'
  BY ControlKeptByMove DEF IInv
<1>4. SlotAccounting'
  BY SlotsKeptByMove DEF IInv
<1> QED BY <1>2, <1>3, <1>4 DEF IInv

LEMMA ResetListStep == ASSUME IInv, NEW t \in Threads, ResetList(t) PROVE IInv'
<1> USE DEF IInv
<1>1. pc[t] = "reset" /\ pc' = [pc EXCEPT ![t] = "record"] /\ cmdList' = {}
      /\ recording' = recording \cup {t}
      /\ mixed' = IF recording = {} THEN mixed ELSE mixed \cup recording \cup {t}
  BY DEF ResetList, Goto
<1>2. UNCHANGED <<hostVars, decodeVars, gpuVars, fenceVars, genVars>>
  BY DEF ResetList
<1> USE DEF hostVars, ioVars, queueVars, decodeVars, ringVars, tileVars, gpuVars, fenceVars, genVars
<1>3. TypeHost' /\ TypeRing' /\ TypeTiles'
  BY <1>2 DEF TypeOK, TypeHost, TypeRing, TypeTiles
<1>4. TypeDevice'
  BY <1>1, <1>2 DEF TypeOK, TypeDevice
<1>5. TypeOK'
  BY <1>1, <1>2, <1>3, <1>4 DEF TypeOK, Labels
<1>6. Control'
  <2>1. \A u \in Threads : pc'[u] = IF u = t THEN "record" ELSE pc[u]
    BY <1>1 DEF TypeOK
  <2> QED BY <1>1, <1>2, <2>1 DEF Control, WorkerLabels, Busy, Holding, Threads
<1>7. SlotAccounting'
  BY <1>1, <1>2, SlotsKeptByMove DEF Holding
<1> QED BY <1>5, <1>6, <1>7

LEMMA RecordListStep == ASSUME IInv, NEW t \in Threads, RecordList(t) PROVE IInv'
<1> USE DEF IInv
<1>1. pc[t] = "record" /\ pc' = [pc EXCEPT ![t] = "execute"]
      /\ recording' = recording \ {t} /\ mixed' = mixed \ {t}
  BY DEF RecordList, Goto
<1>2. UNCHANGED <<hostVars, decodeVars, gpuVars, fenceVars, genVars>>
  BY DEF RecordList
<1> USE DEF hostVars, ioVars, queueVars, decodeVars, ringVars, tileVars, gpuVars, fenceVars, genVars
<1>3. TypeHost' /\ TypeRing' /\ TypeTiles'
  BY <1>2 DEF TypeOK, TypeHost, TypeRing, TypeTiles
<1>4. cmdList' \subseteq Command
  <2>1. CommandOf(t) \in Command
    BY <1>1, CommandTyped
  <2>2. \A u \in mixed : CommandOf(u) \in Command
    BY CommandTyped DEF Control
  <2> QED BY <2>1, <2>2 DEF RecordList, TypeOK, TypeDevice
<1>5. TypeDevice'
  BY <1>1, <1>2, <1>4 DEF TypeOK, TypeDevice
<1>6. TypeOK'
  BY <1>1, <1>2, <1>3, <1>5 DEF TypeOK, Labels
<1>7. Control'
  <2>1. \A u \in Threads : pc'[u] = IF u = t THEN "execute" ELSE pc[u]
    BY <1>1 DEF TypeOK
  <2> QED BY <1>1, <1>2, <2>1 DEF Control, WorkerLabels, Busy, Holding, Threads
<1>8. SlotAccounting'
  BY <1>1, <1>2, SlotsKeptByMove DEF Holding
<1> QED BY <1>6, <1>7, <1>8

LEMMA ExecuteListStep == ASSUME IInv, NEW t \in Threads, ExecuteList(t) PROVE IInv'
<1>1. pc[t] = "execute" /\ pc' = [pc EXCEPT ![t] = "fload"]
      /\ UNCHANGED <<hostVars, decodeVars, cmdVars, vram, fenceDone, fenceVars, genVars>>
  BY DEF ExecuteList, Goto
<1>2. PICK cmds \in SUBSET cmdList :
         gpuQ' = Append(gpuQ, [op |-> "exec", cmds |-> cmds, value |-> 0])
  BY DEF ExecuteList
<1>3. [op |-> "exec", cmds |-> cmds, value |-> 0] \in GpuEntry
  BY <1>2 DEF IInv, TypeOK, TypeDevice, GpuEntry
<1>4. TypeDevice'
  BY <1>1, <1>2, <1>3 DEF IInv, TypeOK, TypeDevice, cmdVars, fenceVars
<1> QED BY <1>1, <1>4, DeviceMove DEF cmdVars, Labels, WorkerLabels, Busy, Holding

LEMMA FenceStep ==
    ASSUME IInv, NEW t \in Threads,
           \/ LoadFence(t) \/ StoreFence(t) \/ SignalFence(t)
           \/ CheckFence(t) \/ SetEvent(t) \/ WaitEvent(t)
    PROVE  IInv'
<1> DEFINE after == AfterWait(t)
<1>1. after \in {"served", "closed", "release"} /\ (t \in Workers => after = "release")
  BY ThreadAssumption DEF AfterWait
<1> HIDE DEF after
<1> USE DEF cmdVars, gpuVars, fenceVars, deviceVars
<1>2. CASE LoadFence(t)
  <2>1. TypeDevice'
    BY <1>2 DEF LoadFence, IInv, TypeOK, TypeDevice
  <2> QED BY <1>2, <2>1, DeviceMove DEF LoadFence, Goto, Labels, WorkerLabels, Busy, Holding
<1>3. CASE StoreFence(t)
  <2>1. TypeDevice'
    BY <1>3 DEF StoreFence, IInv, TypeOK, TypeDevice
  <2> QED BY <1>3, <2>1, DeviceMove DEF StoreFence, Goto, Labels, WorkerLabels, Busy, Holding
<1>4. CASE SignalFence(t)
  <2>1. [op |-> "signal", cmds |-> {}, value |-> fenceVal] \in GpuEntry
    BY DEF IInv, TypeOK, TypeDevice, GpuEntry
  <2>2. TypeDevice'
    BY <1>4, <2>1 DEF SignalFence, IInv, TypeOK, TypeDevice
  <2> QED BY <1>4, <2>2, DeviceMove DEF SignalFence, Goto, Labels, WorkerLabels, Busy, Holding
<1>5. CASE CheckFence(t)
  <2>1. pc[t] = "fcheck" /\ \E label \in {after, "fset"} : pc' = [pc EXCEPT ![t] = label]
    BY <1>5 DEF CheckFence, Goto, after
  <2>2. PICK label \in {after, "fset"} : pc' = [pc EXCEPT ![t] = label]
    BY <2>1
  <2> QED BY <1>1, <1>5, <2>1, <2>2, PlainMove DEF CheckFence, Labels, WorkerLabels, Busy, Holding
<1>6. CASE SetEvent(t)
  <2>1. TypeDevice'
    BY <1>6 DEF SetEvent, IInv, TypeOK, TypeDevice
  <2> QED BY <1>6, <2>1, DeviceMove DEF SetEvent, Goto, Labels, WorkerLabels, Busy, Holding
<1>7. CASE WaitEvent(t)
  <2>1. TypeDevice'
    BY <1>7 DEF WaitEvent, IInv, TypeOK, TypeDevice
  <2>2. pc[t] = "fwait" /\ pc' = [pc EXCEPT ![t] = after]
    BY <1>7 DEF WaitEvent, Goto, after
  <2> QED BY <1>1, <1>7, <2>1, <2>2, DeviceMove DEF WaitEvent, Labels, WorkerLabels, Busy, Holding
<1> QED BY <1>2, <1>3, <1>4, <1>5, <1>6, <1>7

LEMMA GpuSectionStep == ASSUME IInv, NEW t \in Threads, GpuSection(t) PROVE IInv'
BY ResetListStep, RecordListStep, ExecuteListStep, FenceStep DEF GpuSection

LEMMA GpuStepStep == ASSUME IInv, GpuStep PROVE IInv'
<1> USE DEF IInv
<1> DEFINE entry == Head(gpuQ)
<1>1. UNCHANGED <<hostVars, pc, decodeVars, cmdVars, fenceVal, ftmp, genVars>>
  BY DEF GpuStep
<1>2. entry \in GpuEntry /\ Tail(gpuQ) \in Seq(GpuEntry) /\ gpuQ' = Tail(gpuQ)
  BY DEF GpuStep, TypeOK, TypeDevice
<1> USE DEF hostVars, ioVars, queueVars, decodeVars, ringVars, tileVars, cmdVars, genVars
<1>3. TypeHost' /\ TypeRing' /\ TypeTiles'
  BY <1>1 DEF TypeOK, TypeHost, TypeRing, TypeTiles
<1>4. vram' \in [Chunks -> Chunks \cup {0}]
  <2>1. CASE UNCHANGED vram
    BY <2>1 DEF TypeOK, TypeDevice
  <2>2. CASE vram' = [c \in Chunks |->
                        IF \E k \in entry.cmds : k.chunk = c
                          THEN slotData[(CHOOSE k \in entry.cmds : k.chunk = c).slot]
                          ELSE vram[c]]
    <3>1. ASSUME NEW c \in Chunks, \E k \in entry.cmds : k.chunk = c
          PROVE  slotData[(CHOOSE k \in entry.cmds : k.chunk = c).slot] \in Chunks \cup {0}
      <4> DEFINE k == CHOOSE k \in entry.cmds : k.chunk = c
      <4>1. k \in entry.cmds /\ k.chunk = c
        BY <3>1
      <4> HIDE DEF k
      <4>2. k \in Command /\ c # 0
        BY <1>2, <4>1, ChunkFacts DEF GpuEntry
      <4>3. k.slot \in Slots
        BY <4>1, <4>2 DEF Command
      <4> QED BY <4>3 DEF k, TypeOK, TypeRing
    <3> QED BY <2>2, <3>1 DEF TypeOK, TypeDevice
  <2> QED BY <2>1, <2>2 DEF GpuStep
<1>5. fenceDone' \in Nat /\ fenceReg' \subseteq Nat /\ fenceEvent' \in BOOLEAN
  BY <1>2 DEF GpuStep, TypeOK, TypeDevice, GpuEntry
<1>6. TypeDevice'
  BY <1>1, <1>2, <1>4, <1>5 DEF TypeOK, TypeDevice
<1>7. TypeOK' /\ Control'
  BY <1>1, <1>3, <1>6 DEF TypeOK, Control
<1>8. SlotAccounting'
  BY <1>1, SlotsKept
<1> QED BY <1>7, <1>8

-----------------------------------------------------------------------------
(* Inference thread and shutdown *)

LEMMA InferStep == ASSUME IInv, InferNext PROVE IInv'
<1> USE DEF IInv
<1>1. Infer \in Threads /\ Infer \notin Workers
  BY ThreadAssumption DEF Threads
<1>2. CASE PollReady
  <2>1. PICK label \in {"reset", "pollrun"} : pc' = [pc EXCEPT ![Infer] = label]
    BY <1>2 DEF PollReady, Goto
  <2> QED BY <1>1, <1>2, <2>1, PlainMove DEF PollReady, Labels
<1>3. CASE PollRunning \/ NextLayer \/ ReturnTrue
  <2>1. PICK label \in {"poll", "returned"} : pc' = [pc EXCEPT ![Infer] = label]
    BY <1>3 DEF PollRunning, NextLayer, ReturnTrue, Goto
  <2>2. pc[Infer] \in {"pollrun", "served", "poll"}
        /\ UNCHANGED <<hostVars, decodeVars, deviceVars>>
    BY <1>3 DEF PollRunning, NextLayer, ReturnTrue
  <2>3. step' \in Nat /\ layer' \in Nat /\ result' \in {"none", "true", "false"}
    BY <1>3 DEF PollRunning, NextLayer, ReturnTrue, TypeOK
  <2> USE DEF hostVars, ioVars, queueVars, decodeVars, ringVars, tileVars,
              deviceVars, cmdVars, gpuVars, fenceVars
  <2>4. TypeHost' /\ TypeRing' /\ TypeTiles' /\ TypeDevice'
    BY <2>2 DEF TypeOK, TypeHost, TypeRing, TypeTiles, TypeDevice
  <2>5. TypeOK'
    BY <1>1, <2>1, <2>2, <2>3, <2>4 DEF TypeOK, Labels
  <2>6. Control' /\ SlotAccounting'
    BY <1>1, <2>1, <2>2, ControlKeptByMove, SlotsKeptByMove
  <2> QED BY <2>5, <2>6
<1>4. CASE GpuSection(Infer)
  BY <1>1, <1>4, GpuSectionStep
<1> QED BY <1>2, <1>3, <1>4 DEF InferNext

LEMMA ShutdownStep == ASSUME IInv, Shutdown PROVE IInv'
<1> USE DEF IInv
<1>1. Main \in Threads /\ Main \notin Workers
  BY ThreadAssumption DEF Threads
<1>2. CASE StopRunning
  <2>1. pc[Main] = "live" /\ pc' = [pc EXCEPT ![Main] = "notify"] /\ running' = FALSE
        /\ UNCHANGED <<ioVars, queueVars, accepted, decodeVars, deviceVars, genVars>>
    BY <1>2 DEF StopRunning, Goto
  <2> USE DEF ioVars, queueVars, decodeVars, ringVars, tileVars,
              deviceVars, cmdVars, gpuVars, fenceVars, genVars
  <2>2. TypeHost' /\ TypeRing' /\ TypeTiles' /\ TypeDevice'
    BY <2>1 DEF TypeOK, TypeHost, TypeRing, TypeTiles, TypeDevice
  <2>3. TypeOK'
    BY <2>1, <2>2 DEF TypeOK, Labels
  <2>4. Control' /\ SlotAccounting'
    BY <1>1, <2>1, ControlKeptByMove, SlotsKeptByMove
  <2> QED BY <2>3, <2>4
<1>3. CASE NotifyAll
  <2>1. waiting' = {} /\ pc[Main] = "notify"
        /\ pc' = [t \in Threads |-> CASE t = Main      -> "join"
                                      [] t \in waiting -> "idle"
                                      [] OTHER         -> pc[t]]
        /\ UNCHANGED <<ioVars, workMu, workQ, running, accepted, decodeVars, deviceVars, genVars>>
    BY <1>3 DEF NotifyAll
  <2> USE DEF ioVars, decodeVars, ringVars, tileVars, deviceVars, cmdVars, gpuVars, fenceVars, genVars
  <2>2. TypeHost' /\ TypeRing' /\ TypeTiles' /\ TypeDevice'
    BY <2>1 DEF TypeOK, TypeHost, TypeRing, TypeTiles, TypeDevice
  <2>3. \A t \in Threads : \/ t \notin Workers /\ t = Main /\ pc'[t] = "join"
                           \/ t # Main /\ t \in waiting /\ pc[t] = "waiting" /\ pc'[t] = "idle"
                           \/ t # Main /\ t \notin waiting /\ pc'[t] = pc[t]
    BY <1>1, <2>1 DEF Control
  <2>4. TypeOK'
    <3>1. pc' \in [Threads -> Labels]
      BY <2>1, <2>3 DEF TypeOK, Labels
    <3> QED BY <2>1, <2>2, <3>1 DEF TypeOK
  <2>5. Control'
    BY <1>1, <2>1, <2>3 DEF Control, WorkerLabels, Busy, Holding, Threads
  <2>6. SlotAccounting'
    <3>1. \A w \in Workers : pc'[w] \in Holding <=> pc[w] \in Holding
      BY <1>1, <2>3 DEF Threads, Holding
    <3> QED BY <2>1, <3>1, SlotsKept
  <2> QED BY <2>4, <2>5, <2>6
<1>4. CASE JoinWorkers
  BY <1>1, <1>4, PlainMove DEF JoinWorkers, Goto, Labels
<1>5. CASE GpuSection(Main)
  BY <1>1, <1>5, GpuSectionStep
<1> QED BY <1>2, <1>3, <1>4, <1>5 DEF Shutdown

-----------------------------------------------------------------------------
LEMMA WorkerStep == ASSUME IInv, NEW w \in Workers, WorkerNext(w) PROVE IInv'
<1>1. w \in Threads
  BY DEF Threads
<1> QED BY <1>1, TakeWorkStep, ExitWorkerStep, DecideToWaitStep, BlockStep, ScanSlotStep,
           CopyAndReserveStep, GpuSectionStep, ReleaseSlotStep, CountTileStep,
           StoreTotalStep, CheckReadyStep DEF WorkerNext

LEMMA InitIInv == Init => IInv
<1> SUFFICES ASSUME Init PROVE IInv
  OBVIOUS
<1> USE DEF Init
<1>1. TypeHost
  BY StreamAssumption DEF TypeHost
<1>2. TypeRing
  <2>1. DOMAIN dst = {} /\ dst \in [DOMAIN dst -> Nat]
    OBVIOUS
  <2>2. /\ scan \in [Workers -> Slots] /\ slot \in [Workers -> Slots \cup {0}]
        /\ slotFree \in [Slots -> BOOLEAN] /\ slotData \in [Slots -> Chunks \cup {0}]
        /\ writeOffset \in [Layers -> Nat]
    BY NoSlotZero
  <2> QED BY <2>1, <2>2 DEF TypeRing
<1>3. TypeTiles /\ TypeDevice
  <2>1. TypeTiles
    BY DEF TypeTiles
  <2>2. gpuQ \in Seq(GpuEntry) /\ vram \in [Chunks -> Chunks \cup {0}] /\ ftmp \in [Threads -> Nat]
    OBVIOUS
  <2>3. recording \subseteq Threads /\ mixed \subseteq Threads /\ cmdList \subseteq Command
        /\ fenceDone \in Nat /\ fenceVal \in Nat /\ fenceReg \subseteq Nat /\ fenceEvent \in BOOLEAN
    OBVIOUS
  <2> QED BY <2>1, <2>2, <2>3 DEF TypeDevice
<1>4. /\ pc \in [Threads -> Labels]
      /\ \A w \in Workers : pc[w] = "idle"
      /\ \A t \in Threads : pc[t] \notin {"waiting", "record"}
  BY ThreadAssumption DEF Labels, Threads
<1>5. TypeOK
  BY <1>1, <1>2, <1>3, <1>4 DEF TypeOK
<1>6. Control
  BY <1>4 DEF Control, WorkerLabels, Busy, Holding, Threads
<1>7. SlotAccounting
  BY <1>4, NoSlotZero DEF SlotAccounting, Holding
<1> QED BY <1>5, <1>6, <1>7 DEF IInv

LEMMA NextIInv == IInv /\ [Next]_vars => IInv'
<1> SUFFICES ASSUME IInv, [Next]_vars PROVE IInv'
  OBVIOUS
<1>1. CASE Next
  BY <1>1, IoStep, WorkerStep, SpuriousWakeupStep, InferStep, ShutdownStep, GpuStepStep DEF Next
<1>2. CASE UNCHANGED vars
  <2> USE DEF vars, hostVars, ioVars, queueVars, decodeVars, ringVars, tileVars,
              deviceVars, cmdVars, gpuVars, fenceVars, genVars
  <2>1. TypeHost' /\ TypeRing' /\ TypeTiles' /\ TypeDevice'
    BY <1>2 DEF IInv, TypeOK, TypeHost, TypeRing, TypeTiles, TypeDevice
  <2>2. TypeOK' /\ Control' /\ SlotAccounting'
    BY <1>2, <2>1, SlotsKept DEF IInv, TypeOK, Control
  <2> QED BY <2>2 DEF IInv
<1> QED BY <1>1, <1>2

\* For every stream, ring size and set of decode threads, every variable of the
\* engine keeps its type: in particular no thread ever uses a slot index outside
\* the ring or counts a tile of a layer that does not exist.
THEOREM TypeCorrect == Spec => []TypeOK
<1>1. IInv => TypeOK
  BY DEF IInv
<1> QED BY <1>1, InitIInv, NextIInv, PTL DEF Spec

\* For every stream, ring size and set of decode threads, an upload slot is free
\* or owned by exactly one decode thread that is inside uploadAndDecode.
THEOREM SlotsExclusive == Spec => []SlotAccounting
<1>1. IInv => SlotAccounting
  BY DEF IInv
<1> QED BY <1>1, InitIInv, NextIInv, PTL DEF Spec

-----------------------------------------------------------------------------
(* Places in the weight buffers *)

\* Every place handed out ends below the layer's write offset, so that the next
\* one starts beyond all of them.
Places ==
    /\ \A c \in DOMAIN dst : dst[c] + Stream[c].size <= writeOffset[LayerOf(c)]
    /\ RegionsDisjoint

LEMMA OnlyCopyReserves ==
    ASSUME [Next]_vars
    PROVE  \/ UNCHANGED <<writeOffset, dst>>
           \/ \E w \in Workers : CopyAndReserve(w)
<1> USE DEF decodeVars, ringVars
<1>1. CASE IoNext
  BY <1>1 DEF IoNext, DropFrame, SubmitChunk, NotifyOne
<1>2. ASSUME NEW t \in Threads, GpuSection(t) PROVE UNCHANGED <<writeOffset, dst>>
  BY <1>2 DEF GpuSection, ResetList, RecordList, ExecuteList, LoadFence, StoreFence,
     SignalFence, CheckFence, SetEvent, WaitEvent
<1>3. ASSUME NEW w \in Workers, WorkerNext(w) \/ SpuriousWakeup(w)
      PROVE  UNCHANGED <<writeOffset, dst>> \/ CopyAndReserve(w)
  <2>1. CASE GpuSection(w)
    BY <2>1, <1>2 DEF Threads
  <2> QED BY <1>3, <2>1 DEF WorkerNext, TakeWork, ExitWorker, DecideToWait, Block, ScanSlot,
             ReleaseSlot, CountTile, StoreTotal, CheckReady, SpuriousWakeup
<1>4. CASE InferNext
  BY <1>4, <1>2 DEF InferNext, PollReady, PollRunning, NextLayer, ReturnTrue, Threads
<1>5. CASE Shutdown
  BY <1>5, <1>2 DEF Shutdown, StopRunning, NotifyAll, JoinWorkers, Threads
<1>6. CASE GpuStep
  BY <1>6 DEF GpuStep
<1>7. CASE UNCHANGED vars
  BY <1>7 DEF vars
<1> QED BY <1>1, <1>3, <1>4, <1>5, <1>6, <1>7 DEF Next

LEMMA CopyKeepsPlaces ==
    ASSUME IInv, Places, NEW w \in Workers, CopyAndReserve(w)
    PROVE  Places'
<1> DEFINE c == work[w]
           l == LayerOf(c)
<1>1. c \in Chunks /\ l \in Layers /\ Stream[c].size \in Nat
  <2>1. c # 0
    BY DEF IInv, Control, CopyAndReserve, Busy, Holding
  <2>2. c \in Chunks
    BY <2>1 DEF IInv, TypeOK
  <2> QED BY <2>2, ChunkFacts
<1>2. /\ dst' = [d \in DOMAIN dst \cup {c} |-> IF d = c THEN writeOffset[l] ELSE dst[d]]
      /\ writeOffset' = [writeOffset EXCEPT ![l] = @ + Stream[c].size]
  BY DEF CopyAndReserve, TileBytes
<1>3. /\ writeOffset \in [Layers -> Nat] /\ DOMAIN dst \subseteq Chunks
      /\ \A d \in DOMAIN dst : dst[d] \in Nat /\ LayerOf(d) \in Layers /\ Stream[d].size \in Nat
  BY ChunkFacts DEF IInv, TypeOK, TypeRing
<1> HIDE DEF c, l
<1>4. /\ DOMAIN dst' = DOMAIN dst \cup {c}
      /\ dst'[c] = writeOffset[l]
      /\ \A d \in DOMAIN dst : d # c => dst'[d] = dst[d]
  BY <1>2
<1>5. /\ writeOffset'[l] = writeOffset[l] + Stream[c].size
      /\ \A m \in Layers : m # l => writeOffset'[m] = writeOffset[m]
  BY <1>1, <1>2, <1>3
<1>6. \A d \in DOMAIN dst : writeOffset[LayerOf(d)] <= writeOffset'[LayerOf(d)]
  BY <1>1, <1>3, <1>5
<1>7. ASSUME NEW d \in DOMAIN dst' PROVE dst'[d] + Stream[d].size <= writeOffset'[LayerOf(d)]
  <2>1. CASE d = c
    BY <2>1, <1>1, <1>3, <1>4, <1>5 DEF l
  <2>2. CASE d # c
    <3>1. d \in DOMAIN dst /\ dst'[d] = dst[d]
      BY <2>2, <1>4
    <3>2. dst[d] + Stream[d].size <= writeOffset[LayerOf(d)]
      BY <3>1 DEF Places
    <3>3. writeOffset'[LayerOf(d)] \in Nat
      BY <1>1, <1>3, <1>5, <3>1
    <3> QED BY <3>1, <3>2, <3>3, <1>3, <1>6
  <2> QED BY <2>1, <2>2
<1>8. ASSUME NEW d \in DOMAIN dst, d # c, LayerOf(d) = l
      PROVE  dst'[d] + Stream[d].size <= dst'[c]
  BY <1>8, <1>4 DEF Places
<1>9. RegionsDisjoint'
  <2> SUFFICES ASSUME NEW b \in DOMAIN dst', NEW d \in DOMAIN dst', b # d, LayerOf(b) = LayerOf(d)
               PROVE  \/ dst'[b] + Stream[b].size <= dst'[d]
                      \/ dst'[d] + Stream[d].size <= dst'[b]
    BY DEF RegionsDisjoint
  <2>1. CASE b = c
    BY <2>1, <1>4, <1>8 DEF l
  <2>2. CASE d = c
    BY <2>2, <1>4, <1>8 DEF l
  <2>3. CASE b # c /\ d # c
    BY <2>3, <1>4 DEF Places, RegionsDisjoint
  <2> QED BY <2>1, <2>2, <2>3
<1> QED BY <1>7, <1>9 DEF Places

\* For every stream and set of decode threads, two tiles of a layer never get
\* overlapping places in the layer's weight buffer.
THEOREM PlacesDisjoint == Spec => []RegionsDisjoint
<1>1. Init => Places
  BY DEF Init, Places, RegionsDisjoint
<1>2. IInv /\ Places /\ [Next]_vars => Places'
  <2> SUFFICES ASSUME IInv, Places, [Next]_vars PROVE Places'
    OBVIOUS
  <2>1. CASE UNCHANGED <<writeOffset, dst>>
    BY <2>1 DEF Places, RegionsDisjoint
  <2>2. CASE \E w \in Workers : CopyAndReserve(w)
    BY <2>2, CopyKeepsPlaces
  <2> QED BY <2>1, <2>2, OnlyCopyReserves
<1>3. Places => RegionsDisjoint
  BY DEF Places
<1> QED BY <1>1, <1>2, <1>3, InitIInv, NextIInv, PTL DEF Spec

-----------------------------------------------------------------------------
(* The life of a chunk: queued once, held by one thread, counted once *)

\* No chunk is in the queue twice; what is queued has been submitted.
QueueOnce ==
    /\ \A i, j \in DOMAIN workQ : workQ[i] = workQ[j] => i = j
    /\ \A i \in DOMAIN workQ : workQ[i] < nextFrame

\* A chunk in hand is out of the queue, and in one hand only.
HandOnce ==
    /\ \A w \in Workers : work[w] # 0 => work[w] < nextFrame /\ ~Queued(work[w])
    /\ \A u, w \in Workers : work[u] = work[w] /\ work[u] # 0 => u = w

\* A total is known only once the layer's last tile has been counted.
TotalsKnown ==
    /\ \A w \in Workers : pc[w] = "total" => Stream[work[w]].last
    /\ \A l \in Layers : tilesTotal[l] > 0 =>
          \E c \in Chunks : LayerOf(c) = l /\ Stream[c].last /\ Counted(c)

LifeInv == QueueOnce /\ HandOnce /\ TotalsKnown /\ TileAccounting

BeforeJoin == {"live", "notify", "join"}
Marks == {"total", "check", "exited"}   \* the labels these proofs look at

\* A step that no chunk notices: it moves threads between unmarked labels.
Quiet ==
    /\ UNCHANGED <<nextFrame, workQ, running, accepted, work, tilesLoaded, tilesTotal, ready>>
    /\ \A w \in Workers : pc'[w] # pc[w] => pc[w] \notin Marks /\ pc'[w] \notin Marks
    /\ pc'[Main] \in BeforeJoin <=> pc[Main] \in BeforeJoin

LEMMA QuietMove ==
    ASSUME IInv, NEW t \in Threads, NEW label, pc' = [pc EXCEPT ![t] = label],
           UNCHANGED <<nextFrame, workQ, running, accepted, work, tilesLoaded, tilesTotal, ready>>,
           t \in Workers => pc[t] \notin Marks /\ label \notin Marks,
           t = Main => pc[Main] \notin BeforeJoin /\ label \notin BeforeJoin
    PROVE  Quiet
<1>1. \A u \in Threads : pc'[u] = IF u = t THEN label ELSE pc[u]
  BY DEF IInv, TypeOK
<1>2. Workers \subseteq Threads /\ Main \in Threads
  BY DEF Threads
<1> QED BY <1>1, <1>2 DEF Quiet

LEMMA QuietGpu == ASSUME IInv, NEW t \in Threads, GpuSection(t) PROVE Quiet
<1> USE DEF hostVars, ioVars, queueVars, decodeVars, tileVars
<1> DEFINE Same == UNCHANGED <<nextFrame, workQ, running, accepted, work, tilesLoaded, tilesTotal, ready>>
<1>1. Same
  BY DEF GpuSection, ResetList, RecordList, ExecuteList, LoadFence, StoreFence,
     SignalFence, CheckFence, SetEvent, WaitEvent
<1>2. AfterWait(t) \notin Marks /\ AfterWait(t) \notin BeforeJoin
  BY DEF AfterWait, Marks, BeforeJoin
<1>3. PICK label : /\ pc' = [pc EXCEPT ![t] = label]
                   /\ label \in {"record", "execute", "fload", "fstore", "fsignal", "fcheck",
                                 "fset", "fwait", AfterWait(t)}
                   /\ pc[t] \in {"reset", "record", "execute", "fload", "fstore", "fsignal",
                                 "fcheck", "fset", "fwait"}
  <2>1. CASE ResetList(t)
    BY <2>1 DEF ResetList, Goto
  <2>2. CASE RecordList(t)
    BY <2>2 DEF RecordList, Goto
  <2>3. CASE ExecuteList(t)
    BY <2>3 DEF ExecuteList, Goto
  <2>4. CASE LoadFence(t)
    BY <2>4 DEF LoadFence, Goto
  <2>5. CASE StoreFence(t)
    BY <2>5 DEF StoreFence, Goto
  <2>6. CASE SignalFence(t)
    BY <2>6 DEF SignalFence, Goto
  <2>7. CASE CheckFence(t)
    <3>1. CASE FenceReached
      BY <2>7, <3>1 DEF CheckFence, Goto
    <3>2. CASE ~FenceReached
      BY <2>7, <3>2 DEF CheckFence, Goto
    <3> QED BY <3>1, <3>2
  <2>8. CASE SetEvent(t)
    BY <2>8 DEF SetEvent, Goto
  <2>9. CASE WaitEvent(t)
    BY <2>9 DEF WaitEvent, Goto
  <2> QED BY <2>1, <2>2, <2>3, <2>4, <2>5, <2>6, <2>7, <2>8, <2>9 DEF GpuSection
<1>4. pc[t] \notin Marks /\ pc[t] \notin BeforeJoin /\ label \notin Marks /\ label \notin BeforeJoin
  BY <1>2, <1>3 DEF Marks, BeforeJoin
<1> QED BY <1>1, <1>3, <1>4, QuietMove

LEMMA QuietWorker ==
    ASSUME IInv, NEW w \in Workers,
           DecideToWait(w) \/ Block(w) \/ ScanSlot(w) \/ CopyAndReserve(w) \/ ReleaseSlot(w)
    PROVE  Quiet
<1> USE DEF hostVars, ioVars, queueVars, decodeVars, ringVars, tileVars, Goto
<1>0. w \in Threads /\ w # Main
  BY ThreadAssumption DEF Threads
<1>1. CASE DecideToWait(w)
  BY <1>0, <1>1, QuietMove DEF DecideToWait, Marks
<1>2. CASE Block(w)
  BY <1>0, <1>2, QuietMove DEF Block, Marks
<1>3. CASE ScanSlot(w)
  <2>1. CASE pc' = [pc EXCEPT ![w] = "copy"]
    BY <1>0, <1>3, <2>1, QuietMove DEF ScanSlot, Marks
  <2>2. CASE pc' = pc
    BY <1>3, <2>2 DEF ScanSlot, Quiet
  <2> QED BY <1>3, <2>1, <2>2 DEF ScanSlot
<1>4. CASE CopyAndReserve(w)
  BY <1>0, <1>4, QuietMove DEF CopyAndReserve, Marks
<1>5. CASE ReleaseSlot(w)
  BY <1>0, <1>5, QuietMove DEF ReleaseSlot, Marks
<1> QED BY <1>1, <1>2, <1>3, <1>4, <1>5

\* A decode thread that is woken up goes back to its predicate.
LEMMA QuietWake ==
    ASSUME IInv, NEW w \in waiting, pc' = [pc EXCEPT ![w] = "idle"],
           UNCHANGED <<nextFrame, workQ, running, accepted, decodeVars>>
    PROVE  Quiet
<1>1. w \in Workers /\ pc[w] = "waiting"
  BY DEF IInv, Control
<1>2. w \in Threads /\ w # Main
  BY <1>1, ThreadAssumption DEF Threads
<1> QED BY <1>1, <1>2, QuietMove DEF Marks, decodeVars, tileVars

LEMMA QuietInfer == ASSUME IInv, InferNext PROVE Quiet
<1> USE DEF hostVars, ioVars, queueVars, decodeVars, ringVars, tileVars, Goto
<1>0. Infer \in Threads /\ Infer \notin Workers /\ Infer # Main
  BY ThreadAssumption DEF Threads
<1>1. CASE PollReady
  BY <1>0, <1>1, QuietMove DEF PollReady
<1>2. CASE PollRunning
  <2>1. PICK label : pc' = [pc EXCEPT ![Infer] = label]
    BY <1>2 DEF PollRunning
  <2> QED BY <1>0, <1>2, <2>1, QuietMove DEF PollRunning
<1>3. CASE NextLayer
  BY <1>0, <1>3, QuietMove DEF NextLayer
<1>4. CASE ReturnTrue
  BY <1>0, <1>4, QuietMove DEF ReturnTrue
<1>5. CASE GpuSection(Infer)
  BY <1>0, <1>5, QuietGpu
<1> QED BY <1>1, <1>2, <1>3, <1>4, <1>5 DEF InferNext

LEMMA QuietNotifyAll == ASSUME IInv, NotifyAll PROVE Quiet
<1>1. UNCHANGED <<nextFrame, workQ, running, accepted, work, tilesLoaded, tilesTotal, ready>>
  BY DEF NotifyAll, ioVars, decodeVars, tileVars
<1>2. \A t \in Threads : pc'[t] = IF t = Main THEN "join" ELSE IF t \in waiting THEN "idle" ELSE pc[t]
  <2>1. pc' = [t \in Threads |-> CASE t = Main -> "join"
                                   [] t \in waiting -> "idle"
                                   [] OTHER -> pc[t]]
    BY DEF NotifyAll
  <2>2. Main \notin waiting
    BY ThreadAssumption DEF IInv, Control
  <2> QED BY <2>1, <2>2
<1>3. Workers \subseteq Threads /\ Main \in Threads /\ Main \notin Workers
  BY ThreadAssumption DEF Threads
<1>4. \A w \in Workers : w \in waiting => pc[w] = "waiting"
  BY DEF IInv, Control
<1>5. pc[Main] = "notify"
  BY DEF NotifyAll
<1> QED BY <1>1, <1>2, <1>3, <1>4, <1>5 DEF Quiet, Marks, BeforeJoin

\* The steps a chunk notices, and the rest.
LEMMA StepKinds ==
    ASSUME IInv, [Next]_vars
    PROVE  \/ Quiet \/ DropFrame \/ SubmitChunk \/ StopRunning \/ JoinWorkers
           \/ \E w \in Workers : \/ TakeWork(w) \/ ExitWorker(w) \/ CountTile(w)
                                 \/ StoreTotal(w) \/ CheckReady(w)
<1>1. CASE NotifyOne
  <2> USE DEF hostVars, ioVars, queueVars, decodeVars, tileVars
  <2>1. UNCHANGED <<nextFrame, workQ, running, accepted, decodeVars>>
    BY <1>1 DEF NotifyOne
  <2>2. CASE waiting = {}
    BY <1>1, <2>1, <2>2 DEF NotifyOne, Quiet
  <2>3. CASE waiting # {}
    <3>1. PICK w \in waiting : pc' = [pc EXCEPT ![w] = "idle"]
      BY <1>1, <2>3 DEF NotifyOne, Goto
    <3> QED BY <2>1, <3>1, QuietWake
  <2> QED BY <2>2, <2>3
<1>2. ASSUME NEW w \in Workers, SpuriousWakeup(w) PROVE Quiet
  BY <1>2, QuietWake DEF SpuriousWakeup, Goto, ioVars
<1>3. ASSUME NEW w \in Workers, GpuSection(w) PROVE Quiet
  BY <1>3, QuietGpu DEF Threads
<1>4. CASE GpuSection(Main)
  BY <1>4, QuietGpu DEF Threads
<1>5. CASE GpuStep
  BY <1>5 DEF GpuStep, Quiet, hostVars, ioVars, queueVars, decodeVars, tileVars
<1>6. CASE UNCHANGED vars
  BY <1>6 DEF vars, Quiet, hostVars, ioVars, queueVars, decodeVars, tileVars
<1>7. CASE IoNext
  BY <1>1, <1>7 DEF IoNext
<1>8. ASSUME NEW w \in Workers, WorkerNext(w)
      PROVE  \/ Quiet \/ TakeWork(w) \/ ExitWorker(w) \/ CountTile(w)
             \/ StoreTotal(w) \/ CheckReady(w)
  BY <1>3, <1>8, QuietWorker DEF WorkerNext
<1>9. CASE Shutdown
  BY <1>4, <1>9, QuietNotifyAll DEF Shutdown
<1> QED BY <1>2, <1>5, <1>6, <1>7, <1>8, <1>9, QuietInfer DEF Next

-----------------------------------------------------------------------------
(* What each kind of step does to the chunks *)

\* A step that counts no tile and forgets none keeps the layers' counters right.
LEMMA CountsKept ==
    ASSUME LifeInv, UNCHANGED <<tilesLoaded, tilesTotal>>,
           \A c \in Chunks : Counted(c)' <=> Counted(c)
    PROVE  /\ TileAccounting'
           /\ \A l \in Layers : tilesTotal'[l] > 0 =>
                 \E c \in Chunks : LayerOf(c) = l /\ Stream[c].last /\ Counted(c)'
<1>1. \A l \in Layers : {c \in Chunks : LayerOf(c) = l /\ Counted(c)'}
                          = {c \in Chunks : LayerOf(c) = l /\ Counted(c)}
  OBVIOUS
<1> QED BY <1>1 DEF LifeInv, TileAccounting, TotalsKnown

LEMMA QuietLife ==
    ASSUME IInv, LifeInv, Quiet
    PROVE  /\ LifeInv'
           /\ \A c \in Chunks : (Queued(c)' <=> Queued(c)) /\ (Counted(c)' <=> Counted(c))
<1>1. \A w \in Workers : Tallied(w)' <=> Tallied(w)
  BY DEF Quiet, Tallied, Marks
<1>2. \A c \in Chunks : Queued(c)' <=> Queued(c)
  BY DEF Quiet, Queued
<1>3. \A c \in Chunks : Counted(c)' <=> Counted(c)
  BY <1>1, <1>2 DEF Quiet, Counted
<1>4. QueueOnce'
  BY DEF Quiet, LifeInv, QueueOnce
<1>5. HandOnce'
  BY DEF Quiet, LifeInv, HandOnce, Queued
<1>6. \A w \in Workers : pc'[w] = "total" => Stream[work'[w]].last
  BY DEF Quiet, LifeInv, TotalsKnown, Marks
<1> QED BY <1>2, <1>3, <1>4, <1>5, <1>6, CountsKept DEF LifeInv, TotalsKnown, Quiet

\* A step that leaves queue, hands and tallies alone, as a move of the frame
\* index past a frame that is no chunk, or a label that is no tally.
LEMMA AsideLife ==
    ASSUME IInv, LifeInv, UNCHANGED <<workQ, work, tilesLoaded, tilesTotal, ready>>,
           \A w \in Workers : /\ Tallied(w)' <=> Tallied(w)
                              /\ pc'[w] = "total" => pc[w] = "total",
           nextFrame' \in Nat, nextFrame <= nextFrame',
           \A c \in Chunks : c < nextFrame' <=> c < nextFrame
    PROVE  /\ LifeInv'
           /\ \A c \in Chunks : (Queued(c)' <=> Queued(c)) /\ (Counted(c)' <=> Counted(c))
<1>1. \A c \in Chunks : Queued(c)' <=> Queued(c)
  BY DEF Queued
<1>2. \A c \in Chunks : Counted(c)' <=> Counted(c)
  BY <1>1 DEF Counted
<1>3. workQ \in Seq(Chunks) /\ nextFrame \in Nat /\ Chunks \subseteq Nat
      /\ \A w \in Workers : work[w] \in Chunks \cup {0}
  BY ChunkFacts DEF IInv, TypeOK, TypeHost
<1>4. QueueOnce'
  <2>1. \A i \in DOMAIN workQ : workQ[i] \in Chunks
    BY <1>3
  <2> QED BY <2>1, <1>3 DEF LifeInv, QueueOnce
<1>5. HandOnce'
  BY <1>3 DEF LifeInv, HandOnce, Queued
<1>6. \A w \in Workers : pc'[w] = "total" => Stream[work'[w]].last
  BY DEF LifeInv, TotalsKnown
<1> QED BY <1>1, <1>2, <1>4, <1>5, <1>6, CountsKept DEF LifeInv, TotalsKnown

LEMMA DropLife ==
    ASSUME IInv, LifeInv, DropFrame
    PROVE  /\ LifeInv'
           /\ \A c \in Chunks : (Queued(c)' <=> Queued(c)) /\ (Counted(c)' <=> Counted(c))
<1>1. UNCHANGED <<workQ, work, tilesLoaded, tilesTotal, ready, pc>>
  BY DEF DropFrame, queueVars, decodeVars, tileVars
<1>2. nextFrame \in Nat /\ nextFrame' = nextFrame + 1 /\ nextFrame \notin Chunks
  BY StreamAssumption DEF DropFrame, Chunks, IInv, TypeOK, TypeHost
<1>3. \A c \in Chunks : c < nextFrame' <=> c < nextFrame
  BY <1>2, ChunkFacts
<1>4. \A w \in Workers : (Tallied(w)' <=> Tallied(w)) /\ (pc'[w] = "total" => pc[w] = "total")
  BY <1>1 DEF Tallied
<1>5. nextFrame' \in Nat /\ nextFrame <= nextFrame'
  BY <1>2
<1> QED BY <1>1, <1>3, <1>4, <1>5, AsideLife

LEMMA OwnerLife ==
    ASSUME IInv, LifeInv, StopRunning \/ JoinWorkers
    PROVE  /\ LifeInv'
           /\ \A c \in Chunks : (Queued(c)' <=> Queued(c)) /\ (Counted(c)' <=> Counted(c))
           /\ UNCHANGED <<nextFrame, workQ, ready>>
<1>1. UNCHANGED <<nextFrame, workQ, work, tilesLoaded, tilesTotal, ready>>
  BY DEF StopRunning, JoinWorkers, hostVars, ioVars, queueVars, decodeVars, tileVars
<1>2. \A w \in Workers : pc'[w] = pc[w]
  BY ThreadAssumption DEF StopRunning, JoinWorkers, Goto, Threads, IInv, TypeOK
<1>3. \A w \in Workers : (Tallied(w)' <=> Tallied(w)) /\ (pc'[w] = "total" => pc[w] = "total")
  BY <1>2 DEF Tallied
<1>4. nextFrame' \in Nat /\ nextFrame <= nextFrame' /\ \A c \in Chunks : c < nextFrame' <=> c < nextFrame
  BY <1>1, StreamAssumption DEF IInv, TypeOK, TypeHost
<1> QED BY <1>1, <1>3, <1>4, AsideLife

LEMMA ExitLife ==
    ASSUME IInv, LifeInv, NEW w \in Workers, ExitWorker(w)
    PROVE  /\ LifeInv'
           /\ \A c \in Chunks : (Queued(c)' <=> Queued(c)) /\ (Counted(c)' <=> Counted(c))
           /\ UNCHANGED <<nextFrame, workQ, ready>>
<1>1. UNCHANGED <<nextFrame, workQ, work, tilesLoaded, tilesTotal, ready>>
  BY DEF ExitWorker, hostVars, ioVars, queueVars, decodeVars, tileVars
<1>2. \A u \in Workers : pc'[u] = IF u = w THEN "exited" ELSE pc[u]
  BY DEF ExitWorker, Goto, Threads, IInv, TypeOK
<1>3. pc[w] = "idle"
  BY DEF ExitWorker
<1>4. \A u \in Workers : (Tallied(u)' <=> Tallied(u)) /\ (pc'[u] = "total" => pc[u] = "total")
  BY <1>2, <1>3 DEF Tallied
<1>5. nextFrame' \in Nat /\ nextFrame <= nextFrame' /\ \A c \in Chunks : c < nextFrame' <=> c < nextFrame
  BY <1>1, StreamAssumption DEF IInv, TypeOK, TypeHost
<1> QED BY <1>1, <1>4, <1>5, AsideLife

\* The entries of the queue are chunks that have been submitted.
LEMMA QueueFacts ==
    ASSUME IInv, LifeInv
    PROVE  /\ workQ \in Seq(Chunks) /\ nextFrame \in Nat /\ Chunks \subseteq Nat \ {0}
           /\ \A w \in Workers : work[w] \in Chunks \cup {0}
           /\ \A i \in DOMAIN workQ : workQ[i] \in Chunks /\ workQ[i] < nextFrame
           /\ \A i, j \in DOMAIN workQ : workQ[i] = workQ[j] => i = j
<1>1. /\ workQ \in Seq(Chunks) /\ nextFrame \in Nat /\ Chunks \subseteq Nat \ {0}
      /\ \A w \in Workers : work[w] \in Chunks \cup {0}
  BY ChunkFacts, StreamAssumption DEF IInv, TypeOK, TypeHost
<1>2. \A i \in DOMAIN workQ : workQ[i] \in Chunks
  BY <1>1
<1> QED BY <1>1, <1>2 DEF LifeInv, QueueOnce

LEMMA SubmitLife ==
    ASSUME IInv, LifeInv, SubmitChunk, NEW f, f = nextFrame
    PROVE  /\ LifeInv'
           /\ f \in Chunks /\ ~Queued(f) /\ Queued(f)'
           /\ nextFrame' = f + 1 /\ workQ' = Append(workQ, f)
           /\ UNCHANGED ready
           /\ \A c \in Chunks : /\ c # f => (Queued(c)' <=> Queued(c))
                                /\ Counted(c)' <=> Counted(c)
<1>1. UNCHANGED <<work, tilesLoaded, tilesTotal, ready, pc>>
  BY DEF SubmitChunk, decodeVars, tileVars
<1>2. f \in Chunks /\ nextFrame' = f + 1 /\ workQ' = Append(workQ, f)
  BY DEF SubmitChunk
<1>3. /\ workQ \in Seq(Chunks) /\ f \in Nat
      /\ \A w \in Workers : work[w] \in Chunks \cup {0}
      /\ \A i \in DOMAIN workQ : workQ[i] \in Nat /\ workQ[i] < f
      /\ \A i, j \in DOMAIN workQ : workQ[i] = workQ[j] => i = j
      /\ Chunks \subseteq Nat \ {0}
  BY QueueFacts
<1>4. /\ DOMAIN workQ = 1 .. Len(workQ) /\ Len(workQ) \in Nat
      /\ DOMAIN workQ' = 1 .. Len(workQ) + 1
      /\ \A i \in DOMAIN workQ : workQ'[i] = workQ[i]
      /\ workQ'[Len(workQ) + 1] = f
  BY <1>2, <1>3
<1>5. ~Queued(f)
  BY <1>3 DEF Queued
<1>6. Queued(f)'
  <2>1. Len(workQ) + 1 \in DOMAIN workQ'
    BY <1>4
  <2> QED BY <2>1, <1>4 DEF Queued
<1>7. \A c \in Chunks : c # f => (Queued(c)' <=> Queued(c))
  <2> SUFFICES ASSUME NEW c \in Chunks, c # f PROVE Queued(c)' <=> Queued(c)
    OBVIOUS
  <2>1. ASSUME NEW i \in DOMAIN workQ', workQ'[i] = c PROVE Queued(c)
    <3>1. i \in DOMAIN workQ
      BY <2>1, <1>4
    <3> QED BY <2>1, <3>1, <1>4 DEF Queued
  <2>2. ASSUME NEW i \in DOMAIN workQ, workQ[i] = c PROVE Queued(c)'
    <3>1. i \in DOMAIN workQ' /\ workQ'[i] = c
      BY <2>2, <1>4
    <3> QED BY <3>1 DEF Queued
  <2> QED BY <2>1, <2>2 DEF Queued
<1>8. \A c \in Chunks : Counted(c)' <=> Counted(c)
  <2> SUFFICES ASSUME NEW c \in Chunks PROVE Counted(c)' <=> Counted(c)
    OBVIOUS
  <2>1. CASE c = f
    BY <2>1, <1>6, <1>3 DEF Counted
  <2>2. CASE c # f
    <3>1. c < nextFrame' <=> c < nextFrame
      BY <2>2, <1>2, <1>3
    <3> QED BY <2>2, <3>1, <1>1, <1>7 DEF Counted, Tallied
  <2> QED BY <2>1, <2>2
<1>9. QueueOnce'
  <2>1. \A i \in DOMAIN workQ' : workQ'[i] < nextFrame'
    BY <1>2, <1>3, <1>4
  <2>2. \A i, j \in DOMAIN workQ' : workQ'[i] = workQ'[j] => i = j
    BY <1>3, <1>4
  <2> QED BY <2>1, <2>2 DEF QueueOnce
<1>10. HandOnce'
  <2>1. \A w \in Workers : work[w] # 0 => work[w] \in Chunks /\ work[w] < f /\ ~Queued(work[w])
    BY <1>3 DEF LifeInv, HandOnce
  <2>2. ASSUME NEW w \in Workers, work'[w] # 0 PROVE work'[w] < nextFrame' /\ ~Queued(work[w])'
    <3>1. work'[w] = work[w] /\ work[w] \in Chunks /\ work[w] < f /\ ~Queued(work[w])
      BY <1>1, <2>1, <2>2
    <3>2. \A i \in DOMAIN workQ' : workQ'[i] # work'[w]
      <4> SUFFICES ASSUME NEW i \in DOMAIN workQ', workQ'[i] = work[w] PROVE FALSE
        BY <3>1
      <4>1. work[w] # f
        BY <3>1, <1>3
      <4>2. i \in DOMAIN workQ /\ workQ[i] = work[w]
        BY <4>1, <1>4
      <4> QED BY <4>2, <3>1 DEF Queued
    <3>3. ~Queued(work[w])'
      BY <3>2 DEF Queued
    <3>4. work[w] \in Nat /\ f \in Nat /\ nextFrame' = f + 1
      BY <3>1, <1>2, <1>3
    <3>5. work'[w] < nextFrame'
      BY <3>1, <3>4
    <3> QED BY <3>3, <3>5
  <2>3. \A u, w \in Workers : work'[u] = work'[w] /\ work'[u] # 0 => u = w
    BY <1>1 DEF LifeInv, HandOnce
  <2> QED BY <1>1, <2>2, <2>3 DEF HandOnce
<1>11. \A w \in Workers : pc'[w] = "total" => Stream[work'[w]].last
  BY <1>1 DEF LifeInv, TotalsKnown
<1>12. LifeInv'
  BY <1>1, <1>8, <1>9, <1>10, <1>11, CountsKept DEF LifeInv, TotalsKnown
<1> QED BY <1>1, <1>2, <1>5, <1>6, <1>7, <1>8, <1>12

LEMMA TakeLife ==
    ASSUME IInv, LifeInv, NEW w \in Workers, TakeWork(w), NEW f, f = Head(workQ)
    PROVE  /\ LifeInv'
           /\ workQ # <<>> /\ workQ' = Tail(workQ) /\ UNCHANGED <<nextFrame, ready>>
           /\ f \in Chunks /\ f < nextFrame /\ Queued(f) /\ ~Queued(f)' /\ ~Counted(f)'
           /\ \A c \in Chunks : c # f => /\ Queued(c)' <=> Queued(c)
                                         /\ Counted(c)' <=> Counted(c)
<1>1. /\ UNCHANGED <<nextFrame, tilesLoaded, tilesTotal, ready>>
      /\ workQ # <<>> /\ workQ' = Tail(workQ) /\ pc[w] = "idle"
      /\ work' = [work EXCEPT ![w] = f] /\ pc' = [pc EXCEPT ![w] = "scan"]
  BY DEF TakeWork, Goto, ioVars, tileVars
<1>2. /\ workQ \in Seq(Chunks) /\ nextFrame \in Nat /\ 0 \notin Chunks
      /\ \A i \in DOMAIN workQ : workQ[i] \in Chunks /\ workQ[i] < nextFrame
      /\ \A i, j \in DOMAIN workQ : workQ[i] = workQ[j] => i = j
  BY QueueFacts
<1>3. /\ DOMAIN workQ = 1 .. Len(workQ) /\ Len(workQ) \in Nat \ {0}
      /\ DOMAIN workQ' = 1 .. Len(workQ) - 1
      /\ \A i \in DOMAIN workQ' : workQ'[i] = workQ[i + 1]
      /\ workQ[1] = f
  BY <1>1, <1>2
<1>4. f \in Chunks /\ f < nextFrame /\ f # 0
  <2>1. 1 \in DOMAIN workQ
    BY <1>3
  <2> QED BY <2>1, <1>2, <1>3
<1>5. /\ \A u \in Workers : work'[u] = IF u = w THEN f ELSE work[u]
      /\ \A u \in Workers : pc'[u] = IF u = w THEN "scan" ELSE pc[u]
  BY <1>1 DEF IInv, TypeOK, Threads
<1>6. Queued(f)
  <2>1. 1 \in DOMAIN workQ
    BY <1>3
  <2> QED BY <2>1, <1>3 DEF Queued
<1>7. ~Queued(f)'
  <2> SUFFICES ASSUME NEW i \in DOMAIN workQ', workQ'[i] = f PROVE FALSE
    BY DEF Queued
  <2>1. i + 1 \in DOMAIN workQ /\ 1 \in DOMAIN workQ /\ workQ[i + 1] = workQ[1] /\ i + 1 # 1
    BY <1>3
  <2> QED BY <2>1, <1>2
<1>8. \A c \in Chunks : c # f => (Queued(c)' <=> Queued(c))
  <2> SUFFICES ASSUME NEW c \in Chunks, c # f PROVE Queued(c)' <=> Queued(c)
    OBVIOUS
  <2>1. ASSUME NEW i \in DOMAIN workQ', workQ'[i] = c PROVE Queued(c)
    <3>1. i + 1 \in DOMAIN workQ /\ workQ[i + 1] = c
      BY <2>1, <1>3
    <3> QED BY <3>1 DEF Queued
  <2>2. ASSUME NEW i \in DOMAIN workQ, workQ[i] = c PROVE Queued(c)'
    <3>1. i - 1 \in DOMAIN workQ' /\ workQ'[i - 1] = c
      BY <2>2, <1>3
    <3> QED BY <3>1 DEF Queued
  <2> QED BY <2>1, <2>2 DEF Queued
<1>9. /\ work[w] = 0
      /\ \A u \in Workers : work[u] # 0 => /\ work[u] \in Chunks /\ work[u] < nextFrame
                                           /\ ~Queued(work[u])
      /\ \A u, v \in Workers : work[u] = work[v] /\ work[u] # 0 => u = v
  <2>1. work[w] = 0
    BY <1>1 DEF IInv, Control, Busy, Holding
  <2>2. \A u \in Workers : work[u] # 0 => work[u] \in Chunks
    BY QueueFacts
  <2> QED BY <2>1, <2>2 DEF LifeInv, HandOnce
<1>10. \A u \in Workers : work[u] # f
  BY <1>4, <1>6, <1>9
<1>11. ~Counted(f)'
  BY <1>5 DEF Counted, Tallied
<1>12. ~Counted(f)
  BY <1>6 DEF Counted
<1>13. \A c \in Chunks : c # f => (Counted(c)' <=> Counted(c))
  <2> SUFFICES ASSUME NEW c \in Chunks, c # f PROVE Counted(c)' <=> Counted(c)
    OBVIOUS
  <2>1. \A u \in Workers : (work'[u] = c <=> work[u] = c)
                           /\ (work[u] = c => (Tallied(u)' <=> Tallied(u)))
    BY <1>2, <1>5, <1>9 DEF Tallied
  <2> QED BY <2>1, <1>1, <1>8 DEF Counted
<1>14. QueueOnce'
  <2>1. \A i \in DOMAIN workQ' : workQ'[i] < nextFrame'
    BY <1>1, <1>2, <1>3
  <2>2. ASSUME NEW i \in DOMAIN workQ', NEW j \in DOMAIN workQ', workQ'[i] = workQ'[j] PROVE i = j
    <3>1. i + 1 \in DOMAIN workQ /\ j + 1 \in DOMAIN workQ /\ workQ[i + 1] = workQ[j + 1]
      BY <2>2, <1>3
    <3>2. i + 1 = j + 1
      BY <3>1, <1>2
    <3> QED BY <3>2, <1>3
  <2> QED BY <2>1, <2>2 DEF QueueOnce
<1>15. HandOnce'
  <2>1. ASSUME NEW u \in Workers, work'[u] # 0 PROVE work'[u] < nextFrame' /\ ~Queued(work[u])'
    <3>1. CASE u = w
      <4>1. work'[u] = f
        BY <3>1, <1>5
      <4>2. ~Queued(work[u])'
        BY <4>1, <1>7 DEF Queued
      <4> QED BY <4>1, <4>2, <1>1, <1>4
    <3>2. CASE u # w
      <4>1. work'[u] = work[u] /\ work[u] \in Chunks /\ work[u] < nextFrame /\ ~Queued(work[u])
            /\ work[u] # f
        BY <3>2, <2>1, <1>5, <1>9, <1>10
      <4>2. PICK c \in Chunks : c = work[u]
        BY <4>1
      <4>3. ~Queued(c)'
        BY <4>1, <4>2, <1>8
      <4>4. ~Queued(work[u])'
        BY <4>1, <4>2, <4>3 DEF Queued
      <4> QED BY <4>1, <4>4, <1>1
    <3> QED BY <3>1, <3>2
  <2>2. \A u, v \in Workers : work'[u] = work'[v] /\ work'[u] # 0 => u = v
    BY <1>5, <1>9, <1>10
  <2> QED BY <2>1, <2>2 DEF HandOnce
<1>16. \A u \in Workers : pc'[u] = "total" => Stream[work'[u]].last
  BY <1>5 DEF LifeInv, TotalsKnown
<1>17. \A c \in Chunks : Counted(c)' <=> Counted(c)
  BY <1>11, <1>12, <1>13
<1>18. LifeInv'
  BY <1>1, <1>14, <1>15, <1>16, <1>17, CountsKept DEF LifeInv, TotalsKnown
<1> QED BY <1>1, <1>4, <1>6, <1>7, <1>8, <1>11, <1>13, <1>18

\* A decode thread that stands at one of the last three labels holds a chunk
\* that has left the queue and that nobody else holds.
LEMMA HeldChunk ==
    ASSUME IInv, LifeInv, NEW w \in Workers, pc[w] \in {"count", "total", "check"}
    PROVE  /\ work[w] \in Chunks /\ LayerOf(work[w]) \in Layers
           /\ work[w] < nextFrame /\ ~Queued(work[w])
           /\ \A u \in Workers : work[u] = work[w] => u = w
<1>1. work[w] # 0
  BY DEF IInv, Control, Busy
<1>2. work[w] \in Chunks
  BY <1>1 DEF IInv, TypeOK
<1> QED BY <1>1, <1>2, ChunkFacts DEF LifeInv, HandOnce

LEMMA DoneFinite ==
    ASSUME NEW S, S \subseteq Chunks PROVE IsFiniteSet(S)
<1>1. IsFiniteSet(Frames)
  BY StreamAssumption, FS_Interval DEF Frames
<1> QED BY <1>1, ChunkFacts, FS_Subset

LEMMA CountLife ==
    ASSUME IInv, LifeInv, NEW w \in Workers, CountTile(w), NEW f, f = work[w]
    PROVE  /\ LifeInv'
           /\ f \in Chunks /\ f < nextFrame /\ ~Queued(f) /\ ~Counted(f) /\ Counted(f)'
           /\ UNCHANGED <<nextFrame, workQ, ready>>
           /\ \A c \in Chunks : /\ Queued(c)' <=> Queued(c)
                                /\ c # f => (Counted(c)' <=> Counted(c))
<1> DEFINE l == LayerOf(f)
           Done(k) == {c \in Chunks : LayerOf(c) = k /\ Counted(c)}
           DoneAfter(k) == {c \in Chunks : LayerOf(c) = k /\ Counted(c)'}
<1>1. /\ UNCHANGED <<nextFrame, workQ, work, tilesTotal, ready>>
      /\ pc[w] = "count"
      /\ tilesLoaded' = [tilesLoaded EXCEPT ![l] = @ + 1]
      /\ pc' = [pc EXCEPT ![w] = IF Stream[f].last THEN "total" ELSE "check"]
  BY DEF CountTile, Goto, FetchAdd, hostVars, ioVars, queueVars, ringVars
<1>2. /\ f \in Chunks /\ l \in Layers /\ f < nextFrame /\ ~Queued(f)
      /\ \A u \in Workers : work[u] = f => u = w
  BY <1>1, HeldChunk
<1>3. \A u \in Workers : pc'[u] = IF u = w THEN IF Stream[f].last THEN "total" ELSE "check" ELSE pc[u]
  BY <1>1 DEF IInv, TypeOK, Threads
<1>4. \A c \in Chunks : Queued(c)' <=> Queued(c)
  BY <1>1 DEF Queued
<1>5. ~Counted(f)
  BY <1>1 DEF Counted, Tallied
<1>6. Counted(f)'
  <2>1. pc'[w] \in {"total", "check"}
    BY <1>3
  <2> QED BY <1>1, <1>2, <1>4, <2>1 DEF Counted, Tallied
<1>7. \A c \in Chunks : c # f => (Counted(c)' <=> Counted(c))
  <2>1. \A c \in Chunks, u \in Workers : c # f /\ work[u] = c => pc'[u] = pc[u]
    BY <1>3
  <2> QED BY <2>1, <1>1, <1>4 DEF Counted, Tallied
<1>8. /\ DoneAfter(l) = Done(l) \cup {f} /\ f \notin Done(l)
      /\ \A k \in Layers : k # l => DoneAfter(k) = Done(k)
  BY <1>2, <1>5, <1>6, <1>7
<1>9. \A k \in Layers : tilesLoaded[k] = Cardinality(Done(k))
  BY DEF LifeInv, TileAccounting
<1>10. Cardinality(DoneAfter(l)) = Cardinality(Done(l)) + 1
  <2>1. IsFiniteSet(Done(l))
    BY DoneFinite
  <2> HIDE DEF Done, DoneAfter
  <2> QED BY <2>1, <1>8, FS_AddElement
<1>11. \A k \in Layers : tilesLoaded'[k] = Cardinality(DoneAfter(k))
  <2> HIDE DEF Done, DoneAfter
  <2>1. /\ tilesLoaded'[l] = tilesLoaded[l] + 1
        /\ \A k \in Layers : k # l => tilesLoaded'[k] = tilesLoaded[k]
    BY <1>1, <1>2 DEF IInv, TypeOK, TypeTiles
  <2> QED BY <2>1, <1>2, <1>8, <1>9, <1>10
<1>12. TileAccounting'
  BY <1>11 DEF TileAccounting
<1>13. TotalsKnown'
  <2>1. ASSUME NEW u \in Workers, pc'[u] = "total" PROVE Stream[work'[u]].last
    BY <2>1, <1>1, <1>3 DEF LifeInv, TotalsKnown
  <2>2. ASSUME NEW k \in Layers, tilesTotal'[k] > 0
        PROVE  \E c \in Chunks : LayerOf(c) = k /\ Stream[c].last /\ Counted(c)'
    BY <2>2, <1>1, <1>6, <1>7 DEF LifeInv, TotalsKnown
  <2> QED BY <2>1, <2>2 DEF TotalsKnown
<1>14. QueueOnce' /\ HandOnce'
  BY <1>1 DEF LifeInv, QueueOnce, HandOnce, Queued
<1> QED BY <1>1, <1>2, <1>4, <1>5, <1>6, <1>7, <1>12, <1>13, <1>14 DEF LifeInv

LEMMA StoreLife ==
    ASSUME IInv, LifeInv, NEW w \in Workers, StoreTotal(w)
    PROVE  /\ LifeInv'
           /\ \A c \in Chunks : (Queued(c)' <=> Queued(c)) /\ (Counted(c)' <=> Counted(c))
           /\ UNCHANGED <<nextFrame, workQ, ready>>
<1> DEFINE l == LayerOf(work[w])
<1>1. /\ UNCHANGED <<nextFrame, workQ, work, tilesLoaded, ready>>
      /\ pc[w] = "total"
      /\ tilesTotal' = [tilesTotal EXCEPT ![l] = loaded[w] + 1]
      /\ pc' = [pc EXCEPT ![w] = "check"]
  BY DEF StoreTotal, Goto, hostVars, ioVars, queueVars, ringVars
<1>2. /\ work[w] \in Chunks /\ l \in Layers /\ work[w] < nextFrame /\ ~Queued(work[w])
      /\ \A u \in Workers : work[u] = work[w] => u = w
  BY <1>1, HeldChunk
<1>3. \A u \in Workers : pc'[u] = IF u = w THEN "check" ELSE pc[u]
  BY <1>1 DEF IInv, TypeOK, Threads
<1>4. \A u \in Workers : Tallied(u)' <=> Tallied(u)
  BY <1>1, <1>3 DEF Tallied
<1>5. \A c \in Chunks : Queued(c)' <=> Queued(c)
  BY <1>1 DEF Queued
<1>6. \A c \in Chunks : Counted(c)' <=> Counted(c)
  BY <1>1, <1>4, <1>5 DEF Counted
<1>7. TileAccounting'
  <2>1. \A k \in Layers : {c \in Chunks : LayerOf(c) = k /\ Counted(c)'}
                            = {c \in Chunks : LayerOf(c) = k /\ Counted(c)}
    BY <1>6
  <2> QED BY <1>1, <2>1 DEF LifeInv, TileAccounting
<1>8. Stream[work[w]].last /\ Counted(work[w])
  BY <1>1, <1>2 DEF LifeInv, TotalsKnown, Counted, Tallied
<1>9. TotalsKnown'
  <2>1. ASSUME NEW u \in Workers, pc'[u] = "total" PROVE Stream[work'[u]].last
    BY <2>1, <1>1, <1>3 DEF LifeInv, TotalsKnown
  <2>2. ASSUME NEW k \in Layers, tilesTotal'[k] > 0
        PROVE  \E c \in Chunks : LayerOf(c) = k /\ Stream[c].last /\ Counted(c)'
    <3>1. CASE k = l
      BY <3>1, <1>2, <1>6, <1>8
    <3>2. CASE k # l
      <4>1. tilesTotal'[k] = tilesTotal[k]
        BY <3>2, <1>1, <1>2 DEF IInv, TypeOK, TypeTiles
      <4> QED BY <2>2, <4>1, <1>6 DEF LifeInv, TotalsKnown
    <3> QED BY <3>1, <3>2
  <2> QED BY <2>1, <2>2 DEF TotalsKnown
<1>10. QueueOnce' /\ HandOnce'
  BY <1>1 DEF LifeInv, QueueOnce, HandOnce, Queued
<1> QED BY <1>1, <1>5, <1>6, <1>7, <1>9, <1>10 DEF LifeInv

LEMMA CheckLife ==
    ASSUME IInv, LifeInv, NEW w \in Workers, CheckReady(w), NEW l, l = LayerOf(work[w])
    PROVE  /\ LifeInv'
           /\ \A c \in Chunks : (Queued(c)' <=> Queued(c)) /\ (Counted(c)' <=> Counted(c))
           /\ UNCHANGED <<nextFrame, workQ>>
           /\ l \in Layers
           /\ \A k \in Layers \ {l} : ready'[k] = ready[k]
           /\ ready'[l] # ready[l] =>
                 /\ ready'[l]
                 /\ \E c \in Chunks : LayerOf(c) = l /\ Stream[c].last /\ Counted(c)
<1>1. /\ UNCHANGED <<nextFrame, workQ, tilesLoaded, tilesTotal>>
      /\ pc[w] = "check"
      /\ ready' = [ready EXCEPT ![l] = @ \/ AllTilesIn(w)]
      /\ work' = [work EXCEPT ![w] = 0]
      /\ pc' = [pc EXCEPT ![w] = "idle"]
  BY DEF CheckReady, Goto, hostVars, ioVars, queueVars, ringVars
<1>2. /\ work[w] \in Chunks /\ l \in Layers /\ work[w] < nextFrame /\ ~Queued(work[w])
      /\ \A u \in Workers : work[u] = work[w] => u = w
  BY <1>1, HeldChunk
<1>3. /\ \A u \in Workers : pc'[u] = IF u = w THEN "idle" ELSE pc[u]
      /\ \A u \in Workers : work'[u] = IF u = w THEN 0 ELSE work[u]
  BY <1>1 DEF IInv, TypeOK, Threads
<1>4. \A c \in Chunks : Queued(c)' <=> Queued(c)
  BY <1>1 DEF Queued
<1>5. \A c \in Chunks : Counted(c)' <=> Counted(c)
  <2>1. 0 \notin Chunks
    BY ChunkFacts
  <2>2. \A c \in Chunks, u \in Workers : u # w => /\ work'[u] = work[u]
                                                  /\ Tallied(u)' <=> Tallied(u)
    BY <1>3 DEF Tallied
  <2>3. Tallied(w)
    BY <1>1 DEF Tallied
  <2>4. \A c \in Chunks : work'[w] # c
    BY <2>1, <1>3
  <2>5. \A c \in Chunks : (\A u \in Workers : work'[u] = c => Tallied(u)')
                            <=> (\A u \in Workers : work[u] = c => Tallied(u))
    BY <2>2, <2>3, <2>4
  <2> QED BY <1>1, <1>4, <2>5 DEF Counted
<1>6. QueueOnce'
  BY <1>1 DEF LifeInv, QueueOnce
<1>7. HandOnce'
  <2>1. \A u \in Workers : work'[u] # 0 => work'[u] = work[u]
    BY <1>3
  <2> QED BY <2>1, <1>1 DEF LifeInv, HandOnce, Queued
<1>8. \A u \in Workers : pc'[u] = "total" => Stream[work'[u]].last
  BY <1>3 DEF LifeInv, TotalsKnown
<1>9. LifeInv'
  BY <1>1, <1>5, <1>6, <1>7, <1>8, CountsKept DEF LifeInv, TotalsKnown
<1>10. /\ ready'[l] = (ready[l] \/ AllTilesIn(w))
       /\ \A k \in Layers \ {l} : ready'[k] = ready[k]
  BY <1>1, <1>2 DEF IInv, TypeOK, TypeTiles
<1>11. AllTilesIn(w) => \E c \in Chunks : LayerOf(c) = l /\ Stream[c].last /\ Counted(c)
  BY <1>2 DEF AllTilesIn, LifeInv, TotalsKnown
<1>12. ready[l] \in BOOLEAN
  BY <1>2 DEF IInv, TypeOK, TypeTiles
<1> QED BY <1>1, <1>2, <1>4, <1>5, <1>9, <1>10, <1>11, <1>12

LEMMA InitLife == Init => LifeInv
<1> SUFFICES ASSUME Init PROVE LifeInv
  OBVIOUS
<1>1. /\ nextFrame = 1 /\ workQ = <<>>
      /\ work = [w \in Workers |-> 0]
      /\ tilesLoaded = [l \in Layers |-> 0] /\ tilesTotal = [l \in Layers |-> 0]
  BY DEF Init
<1>2. \A w \in Workers : pc[w] = "idle"
  BY ThreadAssumption DEF Init, Threads
<1>3. QueueOnce /\ HandOnce
  BY <1>1 DEF QueueOnce, HandOnce
<1>4. TotalsKnown
  BY <1>1, <1>2 DEF TotalsKnown
<1>5. \A c \in Chunks : ~Counted(c)
  BY <1>1, ChunkFacts DEF Counted
<1>6. \A l \in Layers : {c \in Chunks : LayerOf(c) = l /\ Counted(c)} = {}
  BY <1>5
<1>7. TileAccounting
  BY <1>1, <1>6, FS_EmptySet DEF TileAccounting
<1> QED BY <1>3, <1>4, <1>7 DEF LifeInv

LEMMA StepLife == IInv /\ LifeInv /\ [Next]_vars => LifeInv'
<1> SUFFICES ASSUME IInv, LifeInv, [Next]_vars PROVE LifeInv'
  OBVIOUS
<1>1. ASSUME NEW w \in Workers, TakeWork(w) PROVE LifeInv'
  BY <1>1, TakeLife
<1>2. ASSUME NEW w \in Workers, CountTile(w) PROVE LifeInv'
  BY <1>2, CountLife
<1>3. ASSUME NEW w \in Workers, CheckReady(w) PROVE LifeInv'
  BY <1>3, CheckLife
<1>4. CASE SubmitChunk
  BY <1>4, SubmitLife
<1> QED BY <1>1, <1>2, <1>3, <1>4, StepKinds, QuietLife, DropLife, OwnerLife, ExitLife, StoreLife

-----------------------------------------------------------------------------
(* Shutdown *)

\* A decode thread exits only when running_ is FALSE and the queue is empty, and
\* from then on no chunk is accepted; the owner passes its joins when all did.
DrainInv ==
    /\ \A c \in accepted : c < nextFrame
    /\ (\E w \in Workers : pc[w] = "exited") => ~running /\ \A c \in accepted : ~Queued(c)
    /\ pc[Main] \notin BeforeJoin => \A w \in Workers : pc[w] = "exited"

\* Steps of the decode threads other than their exit.
LEMMA DrainKept ==
    ASSUME IInv, DrainInv, NEW w \in Workers, NEW label,
           UNCHANGED <<nextFrame, running, accepted>>,
           pc' = [pc EXCEPT ![w] = label], pc[w] # "exited", label # "exited",
           \A c \in Chunks : Queued(c)' => Queued(c)
    PROVE  DrainInv'
<1>1. /\ \A u \in Workers : pc'[u] = IF u = w THEN label ELSE pc[u]
      /\ pc'[Main] = pc[Main]
  BY ThreadAssumption DEF IInv, TypeOK, Threads
<1>2. accepted \subseteq Chunks
  BY DEF IInv, TypeOK, TypeHost
<1>3. \A u \in Workers : pc'[u] = "exited" <=> pc[u] = "exited"
  BY <1>1
<1>4. \A c \in accepted' : c < nextFrame'
  BY DEF DrainInv
<1>5. (\E u \in Workers : pc'[u] = "exited") => ~running' /\ \A c \in accepted' : ~Queued(c)'
  BY <1>2, <1>3 DEF DrainInv
<1>6. pc'[Main] \notin BeforeJoin => \A u \in Workers : pc'[u] = "exited"
  BY <1>1, <1>3 DEF DrainInv
<1> QED BY <1>4, <1>5, <1>6 DEF DrainInv

LEMMA StepDrain == IInv /\ LifeInv /\ DrainInv /\ [Next]_vars => DrainInv'
<1> SUFFICES ASSUME IInv, LifeInv, DrainInv, [Next]_vars PROVE DrainInv'
  OBVIOUS
<1>0. /\ accepted \subseteq Chunks /\ running \in BOOLEAN
      /\ nextFrame \in Nat /\ Chunks \subseteq Nat
      /\ Main \in Threads /\ Main \notin Workers /\ Workers \subseteq Threads
      /\ pc \in [Threads -> Labels]
  BY QueueFacts, ThreadAssumption DEF IInv, TypeOK, TypeHost, Threads
<1>1. CASE Quiet
  <2>1. \A c \in accepted : Queued(c)' <=> Queued(c)
    BY <1>0, <1>1, QuietLife
  <2>2. \A w \in Workers : pc'[w] = "exited" <=> pc[w] = "exited"
    BY <1>1 DEF Quiet, Marks
  <2> QED BY <1>1, <2>1, <2>2 DEF DrainInv, Quiet
<1>2. CASE DropFrame
  <2>1. UNCHANGED <<pc, running, accepted>> /\ nextFrame' = nextFrame + 1
    BY <1>2 DEF DropFrame
  <2>2. \A c \in accepted : Queued(c)' <=> Queued(c)
    BY <1>0, <1>2, DropLife
  <2>3. \A c \in accepted' : c < nextFrame'
    BY <1>0, <2>1 DEF DrainInv
  <2> QED BY <2>1, <2>2, <2>3 DEF DrainInv
<1>3. CASE SubmitChunk
  <2>1. PICK f : f = nextFrame
    OBVIOUS
  <2>2. /\ UNCHANGED <<pc, running>> /\ nextFrame' = f + 1 /\ f \in Chunks
        /\ accepted' = IF running THEN accepted \cup {f} ELSE accepted
    BY <1>3, <2>1 DEF SubmitChunk
  <2>3. \A c \in Chunks : c # f => (Queued(c)' <=> Queued(c))
    BY <1>3, <2>1, SubmitLife
  <2>4. \A c \in accepted' : c < nextFrame'
    <3>1. \A c \in accepted : c \in Nat /\ c < f /\ f \in Nat
      BY <1>0, <2>1 DEF DrainInv
    <3> QED BY <1>0, <2>1, <2>2, <3>1
  <2>5. (\E w \in Workers : pc'[w] = "exited") => ~running' /\ \A c \in accepted' : ~Queued(c)'
    <3> SUFFICES ASSUME \E w \in Workers : pc[w] = "exited"
                 PROVE  ~running' /\ \A c \in accepted' : ~Queued(c)'
      BY <2>2
    <3>1. ~running /\ accepted' = accepted /\ \A c \in accepted : ~Queued(c)
      BY <2>2 DEF DrainInv
    <3>2. \A c \in accepted : c \in Chunks /\ c # f
      BY <1>0, <2>1 DEF DrainInv
    <3> QED BY <2>2, <2>3, <3>1, <3>2
  <2> QED BY <2>2, <2>4, <2>5 DEF DrainInv
<1>4. CASE StopRunning
  <2>1. UNCHANGED <<nextFrame, workQ, accepted>> /\ running' = FALSE
        /\ pc[Main] = "live" /\ pc' = [pc EXCEPT ![Main] = "notify"]
    BY <1>4 DEF StopRunning, Goto, ioVars, queueVars
  <2>2. pc'[Main] = "notify" /\ \A w \in Workers : pc'[w] = pc[w]
    BY <1>0, <2>1
  <2>3. \A c \in accepted : Queued(c)' <=> Queued(c)
    BY <2>1 DEF Queued
  <2> QED BY <2>1, <2>2, <2>3 DEF DrainInv, BeforeJoin
<1>5. CASE JoinWorkers
  <2>1. UNCHANGED <<nextFrame, workQ, accepted, running>>
        /\ pc' = [pc EXCEPT ![Main] = "fload"] /\ \A w \in Workers : pc[w] = "exited"
    BY <1>5 DEF JoinWorkers, Goto, hostVars, ioVars, queueVars
  <2>2. \A w \in Workers : pc'[w] = pc[w]
    BY <1>0, <2>1
  <2>3. \A c \in accepted : Queued(c)' <=> Queued(c)
    BY <2>1 DEF Queued
  <2> QED BY <2>1, <2>2, <2>3 DEF DrainInv
<1>6. ASSUME NEW w \in Workers, ExitWorker(w) PROVE DrainInv'
  <2>1. UNCHANGED <<nextFrame, workQ, accepted, running>> /\ ~running /\ workQ = <<>>
        /\ pc' = [pc EXCEPT ![w] = "exited"]
    BY <1>6 DEF ExitWorker, MayExit, Goto, hostVars, ioVars, queueVars
  <2>2. pc'[Main] = pc[Main] /\ \A u \in Workers : u # w => pc'[u] = pc[u]
    BY <1>0, <2>1
  <2>3. pc'[w] = "exited"
    BY <1>0, <2>1
  <2>4. \A c \in accepted : ~Queued(c)'
    BY <2>1 DEF Queued
  <2> QED BY <2>1, <2>2, <2>3, <2>4 DEF DrainInv
<1>7. ASSUME NEW w \in Workers, TakeWork(w) PROVE DrainInv'
  <2>1. PICK f : f = Head(workQ)
    OBVIOUS
  <2>2. \A c \in Chunks : Queued(c)' => Queued(c)
    BY <1>7, <2>1, TakeLife
  <2>3. UNCHANGED <<nextFrame, running, accepted>> /\ pc[w] = "idle"
        /\ pc' = [pc EXCEPT ![w] = "scan"]
    BY <1>7 DEF TakeWork, Goto, ioVars
  <2> QED BY <2>2, <2>3, DrainKept
<1>8. ASSUME NEW w \in Workers, CountTile(w) \/ StoreTotal(w) \/ CheckReady(w) PROVE DrainInv'
  <2>1. UNCHANGED <<nextFrame, workQ, running, accepted>>
    BY <1>8 DEF CountTile, StoreTotal, CheckReady, hostVars, ioVars, queueVars
  <2>2. \A c \in Chunks : Queued(c)' => Queued(c)
    BY <2>1 DEF Queued
  <2>3. PICK label : pc' = [pc EXCEPT ![w] = label] /\ label # "exited" /\ pc[w] # "exited"
    <3>1. CASE CountTile(w)
      <4>1. CASE Stream[work[w]].last
        BY <3>1, <4>1 DEF CountTile, Goto
      <4>2. CASE ~Stream[work[w]].last
        BY <3>1, <4>2 DEF CountTile, Goto
      <4> QED BY <4>1, <4>2
    <3>2. CASE StoreTotal(w)
      BY <3>2 DEF StoreTotal, Goto
    <3>3. CASE CheckReady(w)
      BY <3>3 DEF CheckReady, Goto
    <3> QED BY <1>8, <3>1, <3>2, <3>3
  <2> QED BY <2>1, <2>2, <2>3, DrainKept
<1> QED BY <1>1, <1>2, <1>3, <1>4, <1>5, <1>6, <1>7, <1>8, StepKinds

\* With at least one decode thread, for every stream and ring size: no chunk is
\* lost, taken twice or counted twice, and a shutdown whose joins have returned
\* has decoded and counted every chunk pushed while running_ was TRUE.
THEOREM EveryChunkAccounted == Workers # {} => (Spec => []ChunksAccounted)
<1> SUFFICES ASSUME Workers # {} PROVE Spec => []ChunksAccounted
  OBVIOUS
<1>1. Init => DrainInv
  BY ThreadAssumption DEF Init, DrainInv, BeforeJoin, Threads
<1>2. IInv /\ LifeInv /\ DrainInv => ChunksAccounted
  <2> SUFFICES ASSUME IInv, LifeInv, DrainInv PROVE TileAccounting /\ AcceptedDrained
    BY DEF ChunksAccounted
  <2>1. ASSUME pc[Main] \notin BeforeJoin, NEW c \in accepted PROVE Counted(c) /\ ~InHand(c)
    <3>1. \A w \in Workers : pc[w] = "exited"
      BY <2>1 DEF DrainInv
    <3>2. \A w \in Workers : work[w] = 0
      BY <3>1 DEF IInv, Control, Busy, Holding
    <3>3. c < nextFrame /\ ~Queued(c) /\ c # 0
      BY <2>1, <3>1, ChunkFacts DEF DrainInv, IInv, TypeOK, TypeHost
    <3> QED BY <3>2, <3>3 DEF Counted, InHand
  <2> QED BY <2>1 DEF AcceptedDrained, BeforeJoin, LifeInv
<1> QED BY <1>1, <1>2, InitIInv, NextIInv, InitLife, StepLife, StepDrain, PTL DEF Spec

-----------------------------------------------------------------------------
(* The refinement *)

\* The abstract life of each tile, as Pipeline computes it.
Stage == [c \in Chunks |-> CASE c >= nextFrame -> "unsent"
                             [] Queued(c)      -> "queued"
                             [] Counted(c)     -> "counted"
                             [] OTHER          -> "held"]
OpenLayers == {l \in Layers : ready[l]}

\* The four stages exclude each other.
StageTable ==
    \A c \in Chunks :
        Stage[c] = IF c >= nextFrame THEN "unsent"
                   ELSE IF Queued(c) THEN "queued"
                   ELSE IF Counted(c) THEN "counted" ELSE "held"

LEMMA StageTableHolds == IInv /\ LifeInv => StageTable
<1> SUFFICES ASSUME IInv, LifeInv, NEW c \in Chunks
             PROVE  Stage[c] = IF c >= nextFrame THEN "unsent"
                               ELSE IF Queued(c) THEN "queued"
                               ELSE IF Counted(c) THEN "counted" ELSE "held"
  BY DEF StageTable
<1>1. nextFrame \in Nat /\ c \in Nat
  BY QueueFacts
<1>2. Queued(c) => ~(c >= nextFrame)
  BY <1>1, QueueFacts DEF Queued
<1>3. Counted(c) => ~(c >= nextFrame) /\ ~Queued(c)
  BY <1>1 DEF Counted
<1>4. Stage[c] = CASE c >= nextFrame -> "unsent"
                   [] Queued(c)      -> "queued"
                   [] Counted(c)     -> "counted"
                   [] OTHER          -> "held"
  BY DEF Stage
<1> HIDE DEF Queued, Counted
<1>5. CASE c >= nextFrame
  BY <1>2, <1>3, <1>4, <1>5
<1>6. CASE ~(c >= nextFrame) /\ Queued(c)
  BY <1>3, <1>4, <1>6
<1>7. CASE ~(c >= nextFrame) /\ ~Queued(c) /\ Counted(c)
  BY <1>4, <1>7
<1>8. CASE ~(c >= nextFrame) /\ ~Queued(c) /\ ~Counted(c)
  BY <1>4, <1>8
<1> QED BY <1>5, <1>6, <1>7, <1>8

\* The abstract actions, in terms of Stage and OpenLayers.
LEMMA AbstractStutter ==
    ASSUME UNCHANGED <<workQ, Stage, OpenLayers>>
    PROVE  [Pipeline!Next]_(Pipeline!vars)
BY DEF Pipeline!vars, Stage, OpenLayers

LEMMA AbstractSubmit ==
    ASSUME NEW f \in Chunks, Stage[f] = "unsent", Stage' = [Stage EXCEPT ![f] = "queued"],
           workQ' = Append(workQ, f), UNCHANGED OpenLayers
    PROVE  [Pipeline!Next]_(Pipeline!vars)
BY DEF Pipeline!Next, Pipeline!Submit, Stage, OpenLayers

LEMMA AbstractTake ==
    ASSUME workQ # <<>>, Stage' = [Stage EXCEPT ![Head(workQ)] = "held"],
           workQ' = Tail(workQ), UNCHANGED OpenLayers
    PROVE  [Pipeline!Next]_(Pipeline!vars)
BY DEF Pipeline!Next, Pipeline!Take, Stage, OpenLayers

LEMMA AbstractCount ==
    ASSUME NEW f \in Chunks, Stage[f] = "held", Stage' = [Stage EXCEPT ![f] = "counted"],
           UNCHANGED <<workQ, OpenLayers>>
    PROVE  [Pipeline!Next]_(Pipeline!vars)
BY DEF Pipeline!Next, Pipeline!Count, Stage, OpenLayers

LEMMA AbstractOpen ==
    ASSUME NEW f \in Chunks, Stream[f].last, Stage[f] = "counted",
           OpenLayers' = OpenLayers \cup {LayerOf(f)}, UNCHANGED <<workQ, Stage>>
    PROVE  [Pipeline!Next]_(Pipeline!vars)
<1>1. Pipeline!Open(LayerOf(f))
  BY DEF Pipeline!Open, Stage, OpenLayers
<1> QED BY <1>1 DEF Pipeline!Next

\* A step that leaves every chunk where it is keeps its stage.
LEMMA SameStage ==
    ASSUME StageTable, StageTable',
           \A c \in Chunks : /\ c < nextFrame' <=> c < nextFrame
                             /\ (Queued(c)' <=> Queued(c)) /\ (Counted(c)' <=> Counted(c)),
           nextFrame \in Nat, nextFrame' \in Nat
    PROVE  Stage' = Stage
<1>1. \A c \in Chunks : c >= nextFrame' <=> c >= nextFrame
  BY ChunkFacts
<1>2. \A c \in Chunks : Stage'[c] = Stage[c]
  BY <1>1 DEF StageTable
<1>3. Stage = [c \in Chunks |-> Stage[c]] /\ Stage' = [c \in Chunks |-> Stage'[c]]
  BY DEF Stage
<1> QED BY <1>2, <1>3

\* A step that moves one chunk f.
LEMMA OneStage ==
    ASSUME NEW f \in Chunks, NEW stage, Stage'[f] = stage,
           \A c \in Chunks : c # f => Stage'[c] = Stage[c]
    PROVE  Stage' = [Stage EXCEPT ![f] = stage]
<1>1. Stage = [c \in Chunks |-> Stage[c]] /\ Stage' = [c \in Chunks |-> Stage'[c]]
  BY DEF Stage
<1> HIDE DEF Stage
<1> QED BY <1>1

LEMMA StepImplements ==
    ASSUME IInv, IInv', LifeInv, StageTable, StageTable', [Next]_vars
    PROVE  [Pipeline!Next]_(Pipeline!vars)
<1>0. /\ nextFrame \in Nat /\ nextFrame' \in Nat /\ Chunks \subseteq Nat
      /\ ready \in [Layers -> BOOLEAN] /\ ready' \in [Layers -> BOOLEAN]
  BY QueueFacts, StreamAssumption DEF IInv, TypeOK, TypeHost, TypeTiles
<1>1. ASSUME UNCHANGED <<nextFrame, workQ, ready>>,
             \A c \in Chunks : (Queued(c)' <=> Queued(c)) /\ (Counted(c)' <=> Counted(c))
      PROVE  [Pipeline!Next]_(Pipeline!vars)
  <2>1. Stage' = Stage
    BY <1>0, <1>1, SameStage
  <2>2. OpenLayers' = OpenLayers
    BY <1>1 DEF OpenLayers
  <2> QED BY <1>1, <2>1, <2>2, AbstractStutter
<1>2. CASE Quiet
  <2>1. UNCHANGED <<nextFrame, workQ, ready>>
    BY <1>2 DEF Quiet
  <2>2. \A c \in Chunks : (Queued(c)' <=> Queued(c)) /\ (Counted(c)' <=> Counted(c))
    BY <1>2, QuietLife
  <2> QED BY <1>1, <2>1, <2>2
<1>3. CASE DropFrame
  <2>1. nextFrame' = nextFrame + 1 /\ nextFrame \notin Chunks /\ UNCHANGED <<workQ, ready>>
    BY <1>3 DEF DropFrame, Chunks, queueVars, decodeVars, tileVars
  <2>2. \A c \in Chunks : c < nextFrame' <=> c < nextFrame
    BY <1>0, <2>1
  <2>3. \A c \in Chunks : (Queued(c)' <=> Queued(c)) /\ (Counted(c)' <=> Counted(c))
    BY <1>3, DropLife
  <2>4. Stage' = Stage
    BY <1>0, <2>2, <2>3, SameStage
  <2> QED BY <2>1, <2>4, AbstractStutter DEF OpenLayers
<1>4. CASE SubmitChunk
  <2>1. PICK f : f = nextFrame
    OBVIOUS
  <2>2. /\ f \in Chunks /\ ~Queued(f) /\ Queued(f)'
        /\ nextFrame' = f + 1 /\ workQ' = Append(workQ, f)
        /\ UNCHANGED ready
        /\ \A c \in Chunks : /\ c # f => (Queued(c)' <=> Queued(c))
                             /\ Counted(c)' <=> Counted(c)
    BY <1>4, <2>1, SubmitLife
  <2>3. f >= nextFrame /\ ~(f >= nextFrame')
        /\ \A c \in Chunks : c # f => (c >= nextFrame' <=> c >= nextFrame)
    BY <1>0, <2>1, <2>2
  <2>4. Stage[f] = "unsent" /\ Stage'[f] = "queued"
    BY <2>2, <2>3 DEF StageTable
  <2>5. \A c \in Chunks : c # f => Stage'[c] = Stage[c]
    BY <2>2, <2>3 DEF StageTable
  <2>6. Stage' = [Stage EXCEPT ![f] = "queued"]
    BY <2>2, <2>4, <2>5, OneStage
  <2>7. OpenLayers' = OpenLayers
    BY <2>2 DEF OpenLayers
  <2> QED BY <2>2, <2>4, <2>6, <2>7, AbstractSubmit
<1>5. CASE StopRunning \/ JoinWorkers
  BY <1>1, <1>5, OwnerLife
<1>6. ASSUME NEW w \in Workers, ExitWorker(w) PROVE [Pipeline!Next]_(Pipeline!vars)
  BY <1>1, <1>6, ExitLife
<1>7. ASSUME NEW w \in Workers, StoreTotal(w) PROVE [Pipeline!Next]_(Pipeline!vars)
  BY <1>1, <1>7, StoreLife
<1>8. ASSUME NEW w \in Workers, TakeWork(w) PROVE [Pipeline!Next]_(Pipeline!vars)
  <2>1. PICK f : f = Head(workQ)
    OBVIOUS
  <2>2. /\ workQ # <<>> /\ workQ' = Tail(workQ) /\ UNCHANGED <<nextFrame, ready>>
        /\ f \in Chunks /\ f < nextFrame /\ Queued(f) /\ ~Queued(f)' /\ ~Counted(f)'
        /\ \A c \in Chunks : c # f => /\ Queued(c)' <=> Queued(c)
                                      /\ Counted(c)' <=> Counted(c)
    BY <1>8, <2>1, TakeLife
  <2>3. ~(f >= nextFrame')
    BY <1>0, <2>2
  <2>4. Stage'[f] = "held"
    BY <2>2, <2>3 DEF StageTable
  <2>5. \A c \in Chunks : c # f => Stage'[c] = Stage[c]
    BY <2>2 DEF StageTable
  <2>6. Stage' = [Stage EXCEPT ![Head(workQ)] = "held"]
    BY <2>1, <2>2, <2>4, <2>5, OneStage
  <2>7. OpenLayers' = OpenLayers
    BY <2>2 DEF OpenLayers
  <2> QED BY <2>2, <2>6, <2>7, AbstractTake
<1>9. ASSUME NEW w \in Workers, CountTile(w) PROVE [Pipeline!Next]_(Pipeline!vars)
  <2>1. PICK f : f = work[w]
    OBVIOUS
  <2>2. /\ f \in Chunks /\ f < nextFrame /\ ~Queued(f) /\ ~Counted(f) /\ Counted(f)'
        /\ UNCHANGED <<nextFrame, workQ, ready>>
        /\ \A c \in Chunks : /\ Queued(c)' <=> Queued(c)
                             /\ c # f => (Counted(c)' <=> Counted(c))
    BY <1>9, <2>1, CountLife
  <2>3. ~(f >= nextFrame) /\ ~(f >= nextFrame')
    BY <1>0, <2>2
  <2>4. Stage[f] = "held" /\ Stage'[f] = "counted"
    BY <2>2, <2>3 DEF StageTable
  <2>5. \A c \in Chunks : c # f => Stage'[c] = Stage[c]
    BY <2>2 DEF StageTable
  <2>6. Stage' = [Stage EXCEPT ![f] = "counted"]
    BY <2>2, <2>4, <2>5, OneStage
  <2>7. OpenLayers' = OpenLayers
    BY <2>2 DEF OpenLayers
  <2> QED BY <2>2, <2>4, <2>6, <2>7, AbstractCount
<1>10. ASSUME NEW w \in Workers, CheckReady(w) PROVE [Pipeline!Next]_(Pipeline!vars)
  <2>1. PICK l : l = LayerOf(work[w])
    OBVIOUS
  <2>2. /\ \A c \in Chunks : (Queued(c)' <=> Queued(c)) /\ (Counted(c)' <=> Counted(c))
        /\ UNCHANGED <<nextFrame, workQ>>
        /\ l \in Layers
        /\ \A k \in Layers \ {l} : ready'[k] = ready[k]
        /\ ready'[l] # ready[l] =>
              /\ ready'[l]
              /\ \E c \in Chunks : LayerOf(c) = l /\ Stream[c].last /\ Counted(c)
    BY <1>10, <2>1, CheckLife
  <2>3. Stage' = Stage
    BY <1>0, <2>2, SameStage
  <2>4. CASE ready'[l] = ready[l]
    <3>1. OpenLayers' = OpenLayers
      BY <2>2, <2>4 DEF OpenLayers
    <3> QED BY <2>2, <2>3, <3>1, AbstractStutter
  <2>5. CASE ready'[l] # ready[l]
    <3>1. PICK f \in Chunks : LayerOf(f) = l /\ Stream[f].last /\ Counted(f)
      BY <2>2, <2>5
    <3>2. f < nextFrame /\ ~Queued(f)
      BY <3>1 DEF Counted
    <3>3. ~(f >= nextFrame)
      BY <1>0, <3>2
    <3>4. Stage[f] = "counted"
      BY <3>1, <3>2, <3>3 DEF StageTable
    <3>5. OpenLayers' = OpenLayers \cup {LayerOf(f)}
      BY <2>2, <2>5, <3>1 DEF OpenLayers
    <3> QED BY <2>2, <2>3, <3>1, <3>4, <3>5, AbstractOpen
  <2> QED BY <2>4, <2>5
<1> QED BY <1>2, <1>3, <1>4, <1>5, <1>6, <1>7, <1>8, <1>9, <1>10, StepKinds

\* For every stream, ring size, number of layers and set of decode threads, the
\* engine implements TilePipeline: each chunk is submitted once, taken from the
\* head of the queue by one thread, counted once, and a layer becomes ready only
\* after its last chunk has been counted.
THEOREM EngineImplementsPipeline == Spec => PipelineSpec
<1>1. Init => Pipeline!Init
  <2> SUFFICES ASSUME Init PROVE Pipeline!Init
    OBVIOUS
  <2>1. nextFrame = 1 /\ workQ = <<>> /\ ready = [l \in Layers |-> FALSE]
    BY DEF Init
  <2>2. IInv /\ LifeInv
    BY InitIInv, InitLife
  <2>3. \A c \in Chunks : c >= nextFrame
    BY <2>1, ChunkFacts
  <2>4. \A c \in Chunks : Stage[c] = "unsent"
    BY <2>2, <2>3, StageTableHolds DEF StageTable
  <2>5. Stage = [c \in Chunks |-> Stage[c]]
    BY DEF Stage
  <2>6. Stage = [c \in Chunks |-> "unsent"]
    BY <2>4, <2>5
  <2>7. OpenLayers = {}
    BY <2>1 DEF OpenLayers
  <2> QED BY <2>1, <2>6, <2>7 DEF Pipeline!Init, Stage, OpenLayers
<1>2. IInv /\ LifeInv /\ IInv' /\ LifeInv' /\ [Next]_vars => [Pipeline!Next]_(Pipeline!vars)
  <2>1. (IInv' /\ LifeInv') => StageTable'
    BY StageTableHolds, PTL
  <2> QED BY <2>1, StageTableHolds, StepImplements
<1> QED BY <1>1, <1>2, InitIInv, NextIInv, InitLife, StepLife, PTL
        DEF Spec, PipelineSpec, Pipeline!Spec

-----------------------------------------------------------------------------
(* One layer, one decode thread *)

\* The decode thread w is alone, and the layer's last chunk is marked.
OneDecoder(w) ==
    /\ Workers = {w} /\ NumLayers = 1
    /\ \A c, d \in Chunks : Stream[c].last => d <= c

\* Every chunk has been submitted and taken.
Finished == \A c \in Chunks : c < nextFrame /\ ~Queued(c)

\* The chunks come through in order, so the last one is the end of all.
Fifo(w) ==
    /\ \A i, j \in DOMAIN workQ : i < j => workQ[i] < workQ[j]
    /\ \A c \in Chunks : Queued(c) /\ work[w] # 0 => work[w] < c
    /\ tilesTotal[0] > 0 => Finished
    /\ ready[0] => tilesTotal[0] > 0 /\ work[w] = 0

LEMMA SoleLayer ==
    ASSUME NEW w, OneDecoder(w)
    PROVE  /\ Layers = {0} /\ w \in Workers /\ w \in Threads /\ w # Infer /\ w # Main /\ Infer # Main
           /\ \A u \in Workers : u = w
           /\ \A c \in Chunks : LayerOf(c) = 0
<1>1. Layers = {0}
  BY DEF OneDecoder, Layers
<1>2. w \in Workers /\ w \in Threads /\ w # Infer /\ w # Main /\ Infer # Main
      /\ \A u \in Workers : u = w
  BY ThreadAssumption DEF OneDecoder, Threads
<1> QED BY <1>1, <1>2, ChunkFacts

\* While the last chunk is in hand nothing else is to come.
LEMMA LastIsEnd ==
    ASSUME NEW w, OneDecoder(w), IInv, LifeInv, Fifo(w), work[w] # 0, Stream[work[w]].last
    PROVE  Finished
<1>1. w \in Workers
  BY SoleLayer
<1>2. /\ work[w] \in Chunks /\ work[w] < nextFrame /\ nextFrame \in Nat /\ Chunks \subseteq Nat
  BY <1>1, QueueFacts DEF LifeInv, HandOnce
<1> SUFFICES ASSUME NEW c \in Chunks PROVE c < nextFrame /\ ~Queued(c)
  BY DEF Finished
<1>3. c <= work[w] /\ c \in Nat /\ work[w] \in Nat
  BY <1>2 DEF OneDecoder
<1>4. ~(work[w] < c)
  BY <1>3
<1>5. ~Queued(c)
  BY <1>4 DEF Fifo
<1> QED BY <1>2, <1>3, <1>5

LEMMA FifoInit == ASSUME NEW w, OneDecoder(w), Init PROVE Fifo(w)
<1>1. tilesTotal[0] = 0 /\ ready[0] = FALSE /\ workQ = <<>> /\ work[w] = 0
  BY SoleLayer DEF Init
<1>2. DOMAIN workQ = {}
  BY <1>1
<1> QED BY <1>1, <1>2 DEF Fifo, Queued

LEMMA FifoStep ==
    ASSUME NEW w, OneDecoder(w), IInv, LifeInv, Fifo(w), [Next]_vars
    PROVE  Fifo(w)'
<1>0. /\ w \in Workers /\ \A u \in Workers : u = w
      /\ 0 \in Layers
  BY SoleLayer
<1>1. ASSUME UNCHANGED <<workQ, work, tilesTotal, ready>>, nextFrame' >= nextFrame, nextFrame' \in Nat
      PROVE  Fifo(w)'
  <2>1. \A c \in Chunks : Queued(c)' <=> Queued(c)
    BY <1>1 DEF Queued
  <2>2. Finished => Finished'
    BY <1>1, <2>1, QueueFacts DEF Finished
  <2> QED BY <1>1, <2>1, <2>2 DEF Fifo
<1>2. CASE Quiet
  BY <1>1, <1>2, QueueFacts DEF Quiet
<1>3. CASE DropFrame
  BY <1>1, <1>3, QueueFacts DEF DropFrame, queueVars, decodeVars, tileVars
<1>4. CASE StopRunning
  BY <1>1, <1>4, QueueFacts DEF StopRunning, ioVars, queueVars, decodeVars, tileVars
<1>5. CASE JoinWorkers
  BY <1>1, <1>5, QueueFacts DEF JoinWorkers, hostVars, ioVars, queueVars, decodeVars, tileVars
<1>6. CASE SubmitChunk
  <2> DEFINE f == nextFrame
  <2>1. /\ f \in Chunks /\ nextFrame' = f + 1 /\ workQ' = Append(workQ, f)
        /\ \A c \in Chunks : c # f => (Queued(c)' <=> Queued(c))
    BY <1>6, SubmitLife
  <2>2. UNCHANGED <<work, tilesTotal, ready>>
    BY <1>6 DEF SubmitChunk, decodeVars, tileVars
  <2>3. /\ workQ \in Seq(Chunks) /\ f \in Nat /\ Chunks \subseteq Nat \ {0}
        /\ \A i \in DOMAIN workQ : workQ[i] < f
        /\ work[w] # 0 => work[w] < f
    BY <1>0, QueueFacts DEF LifeInv, HandOnce
  <2>4. ~Finished
    <3>1. ~(f < f)
      BY <2>3
    <3> QED BY <2>1, <3>1 DEF Finished
  <2> HIDE DEF f
  <2>5. /\ DOMAIN workQ = 1 .. Len(workQ) /\ Len(workQ) \in Nat
        /\ DOMAIN workQ' = 1 .. Len(workQ) + 1
        /\ \A i \in DOMAIN workQ : workQ'[i] = workQ[i]
        /\ workQ'[Len(workQ) + 1] = f
    BY <2>1, <2>3
  <2>6. ASSUME NEW i \in DOMAIN workQ', NEW j \in DOMAIN workQ', i < j PROVE workQ'[i] < workQ'[j]
    <3>1. i \in DOMAIN workQ
      BY <2>5, <2>6
    <3>2. CASE j \in DOMAIN workQ
      BY <2>5, <2>6, <3>1, <3>2 DEF Fifo
    <3>3. CASE j \notin DOMAIN workQ
      <4>1. j = Len(workQ) + 1
        BY <2>5, <3>3
      <4> QED BY <2>3, <2>5, <3>1, <4>1
    <3> QED BY <3>2, <3>3
  <2>7. \A c \in Chunks : Queued(c)' /\ work'[w] # 0 => work'[w] < c
    BY <2>1, <2>2, <2>3 DEF Fifo
  <2>8. ~(tilesTotal[0] > 0) /\ ~ready[0]
    BY <2>4 DEF Fifo
  <2> QED BY <2>2, <2>6, <2>7, <2>8 DEF Fifo
<1>7. CASE TakeWork(w)
  <2> PICK f : f = Head(workQ)
    OBVIOUS
  <2>1. /\ workQ # <<>> /\ workQ' = Tail(workQ) /\ UNCHANGED <<nextFrame, ready>>
        /\ f \in Chunks /\ f < nextFrame /\ Queued(f) /\ ~Queued(f)'
        /\ \A c \in Chunks : c # f => (Queued(c)' <=> Queued(c))
    BY <1>0, <1>7, TakeLife
  <2>2. tilesTotal' = tilesTotal /\ work'[w] = f
    BY <1>0, <1>7 DEF TakeWork, tileVars, IInv, TypeOK
  <2>3. workQ \in Seq(Chunks) /\ Chunks \subseteq Nat \ {0}
    BY QueueFacts
  <2>4. /\ DOMAIN workQ = 1 .. Len(workQ) /\ Len(workQ) \in Nat \ {0}
        /\ DOMAIN workQ' = 1 .. Len(workQ) - 1
        /\ \A i \in DOMAIN workQ' : workQ'[i] = workQ[i + 1]
        /\ workQ[1] = f
    BY <2>1, <2>3
  <2>5. ~Finished
    BY <2>1 DEF Finished
  <2>6. ~(tilesTotal[0] > 0) /\ ~ready[0]
    BY <2>5 DEF Fifo
  <2>7. ASSUME NEW i \in DOMAIN workQ', NEW j \in DOMAIN workQ', i < j PROVE workQ'[i] < workQ'[j]
    <3>1. i + 1 \in DOMAIN workQ /\ j + 1 \in DOMAIN workQ /\ i + 1 < j + 1
      BY <2>4, <2>7
    <3>2. workQ[i + 1] < workQ[j + 1]
      BY <3>1 DEF Fifo
    <3> QED BY <2>4, <3>2
  <2>8. ASSUME NEW c \in Chunks, Queued(c)' PROVE f < c
    <3>1. PICK i \in DOMAIN workQ' : workQ'[i] = c
      BY <2>8 DEF Queued
    <3>2. i + 1 \in DOMAIN workQ /\ 1 \in DOMAIN workQ /\ 1 < i + 1
      BY <2>4, <3>1
    <3>3. workQ[1] < workQ[i + 1]
      BY <3>2 DEF Fifo
    <3> QED BY <2>4, <3>1, <3>3
  <2> QED BY <2>1, <2>2, <2>6, <2>7, <2>8 DEF Fifo
<1>8. CASE ExitWorker(w)
  BY <1>1, <1>8, QueueFacts DEF ExitWorker, hostVars, ioVars, queueVars, decodeVars, tileVars
<1>9. CASE CountTile(w)
  BY <1>1, <1>9, QueueFacts DEF CountTile, hostVars, ioVars, queueVars
<1>10. CASE StoreTotal(w)
  <2>1. UNCHANGED <<nextFrame, workQ, work, ready>> /\ pc[w] = "total"
    BY <1>10 DEF StoreTotal, hostVars, ioVars, queueVars
  <2>2. work[w] # 0 /\ Stream[work[w]].last
    BY <1>0, <2>1 DEF LifeInv, TotalsKnown, IInv, Control, Busy
  <2>3. Finished
    BY <2>2, LastIsEnd
  <2>4. Finished'
    BY <2>1, <2>3 DEF Finished, Queued
  <2>5. ~ready[0]
    BY <2>2 DEF Fifo
  <2> QED BY <2>1, <2>4, <2>5 DEF Fifo, Queued
<1>11. CASE CheckReady(w)
  <2>1. UNCHANGED <<nextFrame, workQ, tilesTotal>> /\ work' = [work EXCEPT ![w] = 0]
        /\ ready' = [ready EXCEPT ![LayerOf(work[w])] = @ \/ AllTilesIn(w)] /\ pc[w] = "check"
    BY <1>11 DEF CheckReady, hostVars, ioVars, queueVars
  <2>2. work'[w] = 0
    BY <1>0, <2>1 DEF IInv, TypeOK
  <2>3. work[w] \in Chunks
    BY <1>0, <2>1, HeldChunk
  <2>4. LayerOf(work[w]) = 0
    BY <2>3, SoleLayer
  <2>5. ready'[0] => ready[0] \/ AllTilesIn(w)
    BY <1>0, <2>1, <2>4 DEF IInv, TypeOK, TypeTiles
  <2>6. ready'[0] => tilesTotal'[0] > 0
    BY <2>1, <2>4, <2>5 DEF Fifo, AllTilesIn
  <2>7. tilesTotal'[0] > 0 => Finished'
    BY <2>1 DEF Fifo, Finished, Queued
  <2> QED BY <2>1, <2>2, <2>6, <2>7 DEF Fifo, Queued
<1> QED BY <1>0, <1>2, <1>3, <1>4, <1>5, <1>6, <1>7, <1>8, <1>9, <1>10, <1>11, StepKinds

-----------------------------------------------------------------------------
\* The decode thread has the device to itself until the layer is ready, or it
\* has left; from then on the device is inference's and the owner's.
Over(w) == ready[0] \/ pc[w] = "exited"

Aside   == {"idle", "block", "waiting"}
Polling == {"poll", "pollrun", "returned"}
Filled  == Holding \ {"copy"}                        \* its slot holds its chunk
Sending == {"fload", "fstore", "fsignal"}
Awaits  == {"fcheck", "fset", "fwait"}
Brought == {"release", "count", "total", "check"}

\* What w has for the GPU to do, and that the GPU has done it.
Nothing == [chunk |-> 0, slot |-> 0]
Bring(w) == [op |-> "exec", cmds |-> {[chunk |-> work[w], slot |-> slot[w]]}, value |-> 0]
Tell == [op |-> "signal", cmds |-> {}, value |-> fenceVal]
Here(w) == vram[work[w]] = work[w]

Sent(w) == gpuQ = <<Bring(w)>> \/ (gpuQ = <<>> /\ Here(w))
Told(w) == \/ gpuQ = <<Bring(w), Tell>> /\ fenceVal = fenceDone + 1
           \/ gpuQ = <<Tell>> /\ fenceVal = fenceDone + 1 /\ Here(w)
           \/ gpuQ = <<>> /\ fenceVal = fenceDone /\ Here(w)

\* Where the others are.
Others(w) ==
    /\ mixed = {} /\ layer = 0
    /\ ~ready[0] => pc[Infer] \in Polling
    /\ pc[Main] \notin {"reset", "record", "execute"}
    /\ pc[w] # "exited" => pc[Main] \in BeforeJoin

\* What w sends is alone in the queue, and w waits for it.
Alone(w) ==
    /\ pc[w] \in Filled => slotData[slot[w]] = work[w]
    /\ pc[w] = "execute" => cmdList = {CommandOf(w)}
    /\ pc[w] \in Brought => Here(w)
    /\ pc[w] \notin Sending \cup Awaits => gpuQ = <<>>
    /\ pc[w] \in Sending => Sent(w)
    /\ pc[w] = "fstore" => ftmp[w] = fenceVal
    /\ pc[w] = "fsignal" => fenceVal = fenceDone + 1
    /\ pc[w] \notin Awaits \cup {"fsignal"} => fenceVal = fenceDone
    /\ pc[w] \in Awaits => Told(w)
    /\ pc[w] # "fwait" => fenceReg = {} /\ ~fenceEvent
    /\ pc[w] = "fwait" => /\ gpuQ # <<>> => fenceReg = {fenceVal} /\ ~fenceEvent
                          /\ gpuQ = <<>> => fenceReg = {} /\ fenceEvent

\* Afterwards nothing on the GPU touches the weights.
Calm ==
    /\ \A i \in DOMAIN gpuQ : gpuQ[i].cmds \subseteq {Nothing}
    /\ pc[Infer] = "execute" => cmdList \subseteq {Nothing}

\* A chunk that has left the decode thread is in VRAM.
Arrived(w) ==
    \A c \in Chunks : c < nextFrame /\ ~Queued(c) /\ c # work[w] => vram[c] = c

Sole(w) ==
    /\ Others(w) /\ Arrived(w)
    /\ ~Over(w) => Alone(w)
    /\ Over(w) => Calm

LEMMA SoleFacts ==
    ASSUME NEW w, OneDecoder(w), IInv, LifeInv, Fifo(w)
    PROVE  /\ w \in Workers /\ Threads = {w, Infer, Main} /\ w # Infer /\ w # Main /\ Infer # Main
           /\ pc \in [Threads -> Labels] /\ pc[w] \in WorkerLabels
           /\ recording = {t \in Threads : pc[t] = "record"}
           /\ pc[w] \in Busy => work[w] \in Chunks /\ work[w] < nextFrame /\ ~Queued(work[w])
           /\ pc[w] \notin Busy => work[w] = 0
           /\ pc[w] \in Holding => slot[w] \in Slots
           /\ ready[0] => work[w] = 0 /\ workQ = <<>> /\ Finished
           /\ Over(w) => pc[w] \in Aside \cup {"exited"}
<1>1. /\ w \in Workers /\ w # Infer /\ w # Main /\ Infer # Main
      /\ Threads = {w, Infer, Main}
  BY SoleLayer DEF Threads, OneDecoder
<1>2. /\ pc \in [Threads -> Labels] /\ pc[w] \in WorkerLabels
      /\ recording = {t \in Threads : pc[t] = "record"}
      /\ work[w] # 0 <=> pc[w] \in Busy
  BY <1>1 DEF IInv, Control, TypeOK
<1>3. work[w] \in Chunks \cup {0}
  BY <1>1, QueueFacts
<1>4. work[w] # 0 => work[w] < nextFrame /\ ~Queued(work[w])
  BY <1>1 DEF LifeInv, HandOnce
<1>5. pc[w] \in Holding => slot[w] \in Slots
  BY <1>1 DEF IInv, SlotAccounting, TypeOK, TypeRing
<1>6. ready[0] => work[w] = 0 /\ Finished
  BY DEF Fifo
<1>7. Finished => workQ = <<>>
  <2> SUFFICES ASSUME workQ # <<>> PROVE ~Finished
    OBVIOUS
  <2>1. workQ \in Seq(Chunks)
    BY QueueFacts
  <2>2. 1 \in DOMAIN workQ /\ workQ[1] \in Chunks
    BY <2>1
  <2> QED BY <2>2 DEF Finished, Queued
<1>8. Over(w) => pc[w] \in Aside \cup {"exited"}
  <2>1. CASE ready[0]
    BY <2>1, <1>2, <1>6 DEF WorkerLabels, Aside
  <2> QED BY <2>1 DEF Over
<1> QED BY <1>1, <1>2, <1>3, <1>4, <1>5, <1>6, <1>7, <1>8

\* A step of the host: the device and what the decode thread holds stay, and
\* threads move only where they do not use them.
LEMMA HostMove ==
    ASSUME NEW w, OneDecoder(w), IInv, LifeInv, Fifo(w), Sole(w),
           UNCHANGED <<deviceVars, slot, slotData, work, ready>>, layer' = 0,
           \A c \in Chunks : c < nextFrame' /\ ~Queued(c)' => c < nextFrame /\ ~Queued(c),
           pc'[w] = pc[w] \/ (pc[w] \in Aside /\ pc'[w] \in Aside),
           pc'[Main] = pc[Main] \/ (pc[Main] \in BeforeJoin /\ pc'[Main] \in BeforeJoin),
           pc'[Infer] = pc[Infer] \/ pc'[Infer] \in Polling
               \/ (ready[0] /\ pc'[Infer] = "reset")
    PROVE  Sole(w)'
<1>1. Others(w)'
  <2>1. mixed' = {} /\ layer' = 0
    BY DEF Sole, Others, deviceVars, cmdVars
  <2>2. ~ready'[0] => pc'[Infer] \in Polling
    BY DEF Sole, Others
  <2>3. pc'[Main] \notin {"reset", "record", "execute"}
    BY DEF Sole, Others, BeforeJoin
  <2>4. pc'[w] # "exited" => pc'[Main] \in BeforeJoin
    BY DEF Sole, Others, Aside
  <2> QED BY <2>1, <2>2, <2>3, <2>4 DEF Others
<1>2. Over(w)' <=> Over(w)
  BY DEF Over, Aside
<1>3. Arrived(w)'
  <2>1. vram' = vram /\ work' = work
    BY DEF deviceVars, gpuVars
  <2> QED BY <2>1 DEF Sole, Arrived
<1>4. Alone(w) => Alone(w)'
  <2>1. CASE pc'[w] = pc[w]
    BY <2>1 DEF Alone, Sent, Told, Here, Bring, Tell, CommandOf, deviceVars, cmdVars, gpuVars, fenceVars
  <2>2. CASE pc[w] \in Aside /\ pc'[w] \in Aside
    <3>1. \A p \in Aside : p \notin Filled \cup Brought \cup Sending \cup Awaits \cup {"execute"}
      BY DEF Aside, Filled, Holding, Brought, Sending, Awaits
    <3>2. \A p \in Aside : p # "fstore" /\ p # "fsignal" /\ p # "fwait"
      BY DEF Aside
    <3> QED BY <2>2, <3>1, <3>2 DEF Alone, deviceVars, cmdVars, gpuVars, fenceVars
  <2> QED BY <2>1, <2>2
<1>5. Calm => Calm'
  BY DEF Calm, Polling, deviceVars, cmdVars, gpuVars
<1> QED BY <1>1, <1>2, <1>3, <1>4, <1>5 DEF Sole

\* The IO thread, waits and wake-ups, the polls of generate and shutdown's start.
LEMMA HostSteps ==
    ASSUME NEW w, OneDecoder(w), IInv, LifeInv, Fifo(w), Sole(w),
           \/ IoNext \/ SpuriousWakeup(w) \/ DecideToWait(w) \/ Block(w)
           \/ PollReady \/ PollRunning \/ NextLayer \/ ReturnTrue \/ StopRunning \/ NotifyAll
    PROVE  Sole(w)'
<1>0. /\ w \in Workers /\ \A u \in Workers : u = w
      /\ w \in Threads /\ Infer \in Threads /\ Main \in Threads
      /\ w # Infer /\ w # Main /\ Infer # Main
      /\ pc \in [Threads -> Labels]
      /\ \A u \in waiting : u = w
  BY SoleLayer, SoleFacts DEF Threads, IInv, TypeOK, TypeHost
<1>1. layer = 0 /\ nextFrame \in Nat /\ Chunks \subseteq Nat
  BY QueueFacts DEF Sole, Others
<1>2. waiting = {u \in Workers : pc[u] = "waiting"}
  BY DEF IInv, Control
<1>3. ASSUME UNCHANGED <<nextFrame, workQ>>
      PROVE  \A c \in Chunks : c < nextFrame' /\ ~Queued(c)' => c < nextFrame /\ ~Queued(c)
  BY <1>3 DEF Queued
<1>4. CASE DropFrame
  <2>1. /\ nextFrame' = nextFrame + 1 /\ nextFrame \notin Chunks
        /\ UNCHANGED <<workQ, pc, deviceVars, slot, slotData, work, ready, layer>>
    BY <1>4 DEF DropFrame, queueVars, decodeVars, ringVars, tileVars, genVars, Chunks
  <2>2. ASSUME NEW c \in Chunks, c < nextFrame', ~Queued(c)' PROVE c < nextFrame /\ ~Queued(c)
    <3>1. c \in Nat /\ c # nextFrame /\ c < nextFrame + 1
      BY <1>1, <2>1, <2>2
    <3>2. c < nextFrame
      BY <1>1, <3>1
    <3> QED BY <2>1, <2>2, <3>2 DEF Queued
  <2> QED BY <1>1, <2>1, <2>2, HostMove
<1>5. CASE SubmitChunk
  <2> PICK f : f = nextFrame
    OBVIOUS
  <2>1. /\ f \in Chunks /\ nextFrame' = f + 1 /\ Queued(f)'
        /\ \A c \in Chunks : c # f => (Queued(c)' <=> Queued(c))
    BY <1>5, SubmitLife
  <2>2. UNCHANGED <<pc, deviceVars, slot, slotData, work, ready, layer>>
    BY <1>5 DEF SubmitChunk, decodeVars, ringVars, tileVars, genVars
  <2>3. ASSUME NEW c \in Chunks, c < nextFrame', ~Queued(c)' PROVE c < nextFrame /\ ~Queued(c)
    <3>1. c \in Nat /\ c # f /\ c < f + 1 /\ f \in Nat
      BY <1>1, <2>1, <2>3
    <3>2. c < f
      BY <3>1
    <3> QED BY <2>1, <2>3, <3>1, <3>2
  <2> QED BY <1>1, <2>2, <2>3, HostMove
<1>6. CASE NotifyOne
  <2>1. /\ UNCHANGED <<nextFrame, workQ, deviceVars, slot, slotData, work, ready, layer>>
        /\ pc' = pc \/ \E u \in waiting : pc' = [pc EXCEPT ![u] = "idle"]
    BY <1>6 DEF NotifyOne, Goto, decodeVars, ringVars, tileVars, genVars
  <2>2. /\ pc'[w] = pc[w] \/ (pc[w] \in Aside /\ pc'[w] \in Aside)
        /\ pc'[Main] = pc[Main] /\ pc'[Infer] = pc[Infer]
    BY <1>0, <1>2, <2>1 DEF Aside
  <2> QED BY <1>1, <1>3, <2>1, <2>2, HostMove
<1>7. CASE SpuriousWakeup(w) \/ DecideToWait(w) \/ Block(w)
  <2>1. UNCHANGED <<nextFrame, workQ, deviceVars, slot, slotData, work, ready, layer>>
    BY <1>7 DEF SpuriousWakeup, DecideToWait, Block, ioVars, decodeVars, ringVars, tileVars, genVars
  <2>2. \E q \in Aside : pc[w] \in Aside /\ pc' = [pc EXCEPT ![w] = q]
    BY <1>2, <1>7 DEF SpuriousWakeup, DecideToWait, Block, Goto, Aside
  <2>3. /\ pc[w] \in Aside /\ pc'[w] \in Aside
        /\ pc'[Main] = pc[Main] /\ pc'[Infer] = pc[Infer]
    BY <1>0, <2>2
  <2> QED BY <1>1, <1>3, <2>1, <2>3, HostMove
<1>8. CASE PollReady \/ PollRunning \/ NextLayer \/ ReturnTrue
  <2>1. UNCHANGED <<nextFrame, workQ, deviceVars, slot, slotData, work, ready>>
    BY <1>8 DEF PollReady, PollRunning, NextLayer, ReturnTrue, hostVars, ioVars, queueVars,
                decodeVars, ringVars, tileVars
  <2>2. layer' = 0
    <3>1. CASE NextLayer
      BY <1>1, <3>1 DEF NextLayer, OneDecoder
    <3>2. CASE PollReady \/ PollRunning \/ ReturnTrue
      BY <1>1, <3>2 DEF PollReady, PollRunning, ReturnTrue, genVars
    <3> QED BY <1>8, <3>1, <3>2
  <2>3. \E q \in Polling \cup {"reset"} :
            pc' = [pc EXCEPT ![Infer] = q] /\ (q = "reset" => ready[0])
    <3>1. CASE PollReady
      <4>1. CASE LayerReady(layer)
        BY <1>1, <3>1, <4>1 DEF PollReady, LayerReady, Goto
      <4>2. CASE ~LayerReady(layer)
        BY <3>1, <4>2 DEF PollReady, Goto, Polling
      <4> QED BY <4>1, <4>2
    <3>2. CASE PollRunning \/ NextLayer \/ ReturnTrue
      BY <3>2 DEF PollRunning, NextLayer, ReturnTrue, Goto, Polling
    <3> QED BY <1>8, <3>1, <3>2
  <2>4. /\ pc'[w] = pc[w] /\ pc'[Main] = pc[Main]
        /\ pc'[Infer] \in Polling \/ (ready[0] /\ pc'[Infer] = "reset")
    BY <1>0, <2>3
  <2> QED BY <1>3, <2>1, <2>2, <2>4, HostMove
<1>9. CASE StopRunning
  <2>1. /\ UNCHANGED <<nextFrame, workQ, deviceVars, slot, slotData, work, ready, layer>>
        /\ pc[Main] = "live" /\ pc' = [pc EXCEPT ![Main] = "notify"]
    BY <1>9 DEF StopRunning, Goto, ioVars, queueVars, decodeVars, ringVars, tileVars, genVars
  <2>2. /\ pc'[w] = pc[w] /\ pc'[Infer] = pc[Infer]
        /\ pc[Main] \in BeforeJoin /\ pc'[Main] \in BeforeJoin
    BY <1>0, <2>1 DEF BeforeJoin
  <2> QED BY <1>1, <1>3, <2>1, <2>2, HostMove
<1>10. CASE NotifyAll
  <2>1. /\ UNCHANGED <<nextFrame, workQ, deviceVars, slot, slotData, work, ready, layer>>
        /\ pc[Main] = "notify" /\ pc'[Main] = "join" /\ pc'[Infer] = pc[Infer]
    BY <1>0, <1>10 DEF NotifyAll, ioVars, decodeVars, ringVars, tileVars, genVars
  <2>2. pc'[w] = pc[w] \/ (pc[w] = "waiting" /\ pc'[w] = "idle")
    BY <1>0, <1>2, <1>10 DEF NotifyAll
  <2>3. /\ pc'[w] = pc[w] \/ (pc[w] \in Aside /\ pc'[w] \in Aside)
        /\ pc[Main] \in BeforeJoin /\ pc'[Main] \in BeforeJoin
    BY <2>1, <2>2 DEF BeforeJoin, Aside
  <2> QED BY <1>1, <1>3, <2>1, <2>3, HostMove
<1> QED BY <1>4, <1>5, <1>6, <1>7, <1>8, <1>9, <1>10 DEF IoNext

-----------------------------------------------------------------------------
\* One entry or two, in and out of the queue.
LEMMA ShortQueues ==
    ASSUME NEW x, NEW y
    PROVE  /\ Append(<<>>, x) = <<x>> /\ Append(<<x>>, y) = <<x, y>>
           /\ Head(<<x>>) = x /\ Tail(<<x>>) = <<>>
           /\ Head(<<x, y>>) = x /\ Tail(<<x, y>>) = <<y>>
           /\ <<x>> # <<>> /\ <<x, y>> # <<>>
<1>1. <<>> \in Seq({x, y}) /\ <<x>> \in Seq({x, y}) /\ <<x, y>> \in Seq({x, y})
  OBVIOUS
<1>2. Append(<<>>, x) = <<x>>
  BY <1>1
<1>3. Append(<<x>>, y) = <<x, y>>
  <2> DEFINE a == Append(<<x>>, y)
  <2>1. a \in Seq({x, y}) /\ Len(a) = 2 /\ a[1] = x /\ a[2] = y
    BY <1>1
  <2> HIDE DEF a
  <2>2. a = [i \in 1 .. 2 |-> a[i]] /\ <<x, y>> = [i \in 1 .. 2 |-> <<x, y>>[i]]
    BY <1>1, <2>1
  <2>3. \A i \in 1 .. 2 : a[i] = <<x, y>>[i]
    BY <2>1
  <2>4. a = <<x, y>>
    BY <2>2, <2>3
  <2> QED BY <2>4 DEF a
<1>4. Head(<<x>>) = x /\ Head(<<x, y>>) = x
  BY <1>1
<1>5. Tail(<<x>>) = <<>>
  BY <1>1
<1>6. Tail(<<x, y>>) = <<y>>
  BY <1>1
<1>7. Len(<<x>>) = 1 /\ Len(<<x, y>>) = 2 /\ Len(<<>>) = 0
  BY <1>1
<1> QED BY <1>2, <1>3, <1>4, <1>5, <1>6, <1>7

\* A step of the decode thread by which the engine is not over.
LEMMA OwnMove ==
    ASSUME NEW w, OneDecoder(w), IInv, LifeInv, Fifo(w), Sole(w), ~Over(w),
           NEW q, q # "exited", pc' = [pc EXCEPT ![w] = q],
           UNCHANGED <<ready, layer>>, mixed' = {}, Arrived(w)', Alone(w)'
    PROVE  Sole(w)'
<1>1. pc'[w] = q /\ pc'[Infer] = pc[Infer] /\ pc'[Main] = pc[Main]
  BY SoleFacts
<1>2. ~Over(w)'
  BY <1>1 DEF Over
<1>3. Others(w)'
  BY <1>1 DEF Sole, Others, Over
<1> QED BY <1>2, <1>3 DEF Sole

\* While it moves on nobody else is at the command list.
LEMMA NobodyElse ==
    ASSUME NEW w, OneDecoder(w), IInv, LifeInv, Fifo(w), Sole(w),
           pc[w] \notin Aside \cup {"exited"}
    PROVE  /\ ~Over(w) /\ Alone(w)
           /\ pc[w] = "record" => recording = {w}
           /\ pc[w] # "record" => recording = {}
           /\ AfterWait(w) = "release"
           /\ CommandOf(w) = [chunk |-> work[w], slot |-> slot[w]]
<1>1. ~Over(w) /\ Alone(w)
  BY SoleFacts DEF Sole
<1>2. pc[Infer] # "record" /\ pc[Main] # "record"
  BY <1>1 DEF Sole, Others, Over, Polling
<1>3. /\ pc[w] = "record" => recording = {w}
      /\ pc[w] # "record" => recording = {}
  BY <1>2, SoleFacts
<1>4. AfterWait(w) = "release"
  BY SoleFacts DEF AfterWait
<1>5. CommandOf(w) = [chunk |-> work[w], slot |-> slot[w]]
  BY SoleFacts DEF CommandOf
<1> QED BY <1>1, <1>3, <1>4, <1>5

\* It takes a chunk, a slot, copies and reserves.
LEMMA FillSteps ==
    ASSUME NEW w, OneDecoder(w), IInv, LifeInv, Fifo(w), Sole(w),
           TakeWork(w) \/ ScanSlot(w) \/ CopyAndReserve(w)
    PROVE  Sole(w)'
<1>0. w \in Workers /\ mixed = {}
  BY SoleFacts DEF Sole, Others
<1>1. CASE TakeWork(w)
  <2> PICK f : f = Head(workQ)
    OBVIOUS
  <2>1. /\ workQ # <<>> /\ UNCHANGED nextFrame
        /\ \A c \in Chunks : c # f => (Queued(c)' <=> Queued(c))
    BY <1>0, <1>1, TakeLife
  <2>2. /\ pc[w] = "idle" /\ pc' = [pc EXCEPT ![w] = "scan"] /\ work'[w] = f
        /\ UNCHANGED <<ready, layer, deviceVars>>
    BY <1>0, <1>1 DEF TakeWork, Goto, tileVars, genVars, IInv, TypeOK
  <2>3. ~ready[0] /\ work[w] = 0
    BY <2>1, <2>2, SoleFacts DEF Busy, Holding
  <2>4. ~Over(w) /\ Alone(w)
    BY <2>2, <2>3 DEF Over, Sole
  <2>5. pc'[w] = "scan"
    BY <2>2, SoleFacts
  <2>6. Alone(w)'
    BY <2>2, <2>4, <2>5 DEF Alone, Filled, Holding, Brought, Sending, Awaits, deviceVars, gpuVars, fenceVars
  <2>7. ASSUME NEW c \in Chunks, c < nextFrame', ~Queued(c)', c # work'[w] PROVE vram'[c] = c
    <3>1. c < nextFrame /\ ~Queued(c) /\ c # 0
      BY <2>1, <2>2, <2>7, QueueFacts
    <3>2. vram' = vram
      BY <2>2 DEF deviceVars, gpuVars
    <3> QED BY <2>3, <3>1, <3>2 DEF Sole, Arrived
  <2>8. mixed' = {}
    BY <1>0, <2>2 DEF deviceVars, cmdVars
  <2> QED BY <2>2, <2>4, <2>6, <2>7, <2>8, OwnMove DEF Arrived
<1>2. CASE ScanSlot(w) \/ CopyAndReserve(w)
  <2>1. /\ UNCHANGED <<nextFrame, workQ, ready, layer, deviceVars, work>>
        /\ pc[w] \in {"scan", "copy"}
    BY <1>2 DEF ScanSlot, CopyAndReserve, hostVars, ioVars, queueVars, tileVars, genVars
  <2>2. ~Over(w) /\ Alone(w)
    BY <2>1, NobodyElse DEF Aside
  <2>3. \E q \in {"scan", "copy", "reset"} : pc' = [pc EXCEPT ![w] = q]
    <3>1. pc = [pc EXCEPT ![w] = pc[w]]
      BY SoleFacts
    <3> QED BY <1>2, <3>1 DEF ScanSlot, CopyAndReserve, Goto
  <2>4. PICK q \in {"scan", "copy", "reset"} : pc' = [pc EXCEPT ![w] = q]
    BY <2>3
  <2>5. pc'[w] = q
    BY <2>4, SoleFacts
  <2>6. q = "reset" => slotData'[slot'[w]] = work'[w]
    <3>1. SUFFICES ASSUME q = "reset" PROVE slotData'[slot'[w]] = work'[w]
      OBVIOUS
    <3>2. CopyAndReserve(w)
      <4>1. ASSUME ScanSlot(w) PROVE FALSE
        <5>1. pc' = [pc EXCEPT ![w] = "copy"] \/ pc' = pc
          BY <4>1 DEF ScanSlot, Goto
        <5>2. pc[w] = "scan"
          BY <4>1 DEF ScanSlot
        <5> QED BY <2>5, <3>1, <5>1, <5>2, SoleFacts
      <4> QED BY <1>2, <4>1
    <3>3. slot[w] \in Slots /\ slot' = slot /\ slotData' = [slotData EXCEPT ![slot[w]] = work[w]]
      BY <3>2, SoleFacts DEF CopyAndReserve, Holding
    <3>4. slotData \in [Slots -> Chunks \cup {0}]
      BY DEF IInv, TypeOK, TypeRing
    <3> QED BY <2>1, <3>3, <3>4
  <2>7. gpuQ' = <<>> /\ fenceVal' = fenceDone' /\ fenceReg' = {} /\ ~fenceEvent'
    BY <2>1, <2>2 DEF Alone, Sending, Awaits, deviceVars, gpuVars, fenceVars
  <2>8. Alone(w)'
    BY <2>5, <2>6, <2>7 DEF Alone, Filled, Holding, Brought, Sending, Awaits
  <2>9. mixed' = {} /\ Arrived(w)'
    BY <1>0, <2>1 DEF Sole, Arrived, Queued, deviceVars, cmdVars, gpuVars
  <2> QED BY <2>1, <2>2, <2>4, <2>8, <2>9, OwnMove
<1> QED BY <1>1, <1>2

\* It records, sends, signals and waits.
LEMMA SendSteps ==
    ASSUME NEW w, OneDecoder(w), IInv, LifeInv, Fifo(w), Sole(w), GpuSection(w)
    PROVE  Sole(w)'
<1>1. pc[w] \in {"reset", "record", "execute"} \cup Sending \cup Awaits
  BY DEF GpuSection, ResetList, RecordList, ExecuteList, LoadFence, StoreFence, SignalFence,
         CheckFence, SetEvent, WaitEvent, Sending, Awaits
<1>2. /\ ~Over(w) /\ Alone(w)
      /\ pc[w] = "record" => recording = {w}
      /\ pc[w] # "record" => recording = {}
      /\ AfterWait(w) = "release"
      /\ CommandOf(w) = [chunk |-> work[w], slot |-> slot[w]]
  BY <1>1, NobodyElse DEF Aside, Sending, Awaits
<1>3. UNCHANGED <<nextFrame, workQ, work, slot, slotData, ready, layer, vram>>
  BY DEF GpuSection, ResetList, RecordList, ExecuteList, LoadFence, StoreFence, SignalFence,
         CheckFence, SetEvent, WaitEvent, hostVars, ioVars, queueVars, decodeVars, ringVars,
         tileVars, genVars, deviceVars, gpuVars
<1>4. mixed = {} /\ Arrived(w)' /\ (Here(w)' <=> Here(w)) /\ Bring(w)' = Bring(w)
  BY <1>3 DEF Sole, Others, Arrived, Queued, Here, Bring
<1>5. pc[w] \in Filled => slotData'[slot'[w]] = work'[w]
  BY <1>2, <1>3 DEF Alone
<1>6. ASSUME NEW q, pc' = [pc EXCEPT ![w] = q], mixed' = {}, Alone(w)', q # "exited"
      PROVE  Sole(w)'
  BY <1>2, <1>3, <1>4, <1>6, OwnMove
<1>7. ASSUME NEW q, pc' = [pc EXCEPT ![w] = q] PROVE pc'[w] = q
  BY <1>7, SoleFacts
<1>8. /\ fenceVal \in Nat /\ fenceDone \in Nat
      /\ ftmp \in [Threads -> Nat] /\ w \in Threads
  BY SoleFacts DEF IInv, TypeOK, TypeDevice
<1>9. CASE ResetList(w)
  <2>1. /\ pc[w] = "reset" /\ pc' = [pc EXCEPT ![w] = "record"] /\ UNCHANGED <<gpuVars, fenceVars>>
        /\ mixed' = {}
    BY <1>2, <1>4, <1>9 DEF ResetList, Goto
  <2>2. Alone(w)'
    BY <1>2, <1>5, <1>7, <2>1
       DEF Alone, Filled, Holding, Brought, Sending, Awaits, gpuVars, fenceVars
  <2> QED BY <1>6, <2>1, <2>2
<1>10. CASE RecordList(w)
  <2>1. /\ pc[w] = "record" /\ pc' = [pc EXCEPT ![w] = "execute"] /\ UNCHANGED <<gpuVars, fenceVars>>
        /\ cmdList' = {CommandOf(w)} /\ mixed' = {}
    BY <1>4, <1>10 DEF RecordList, Goto
  <2>2. CommandOf(w)' = CommandOf(w)
    BY <1>3 DEF CommandOf
  <2>3. Alone(w)'
    BY <1>2, <1>5, <1>7, <2>1, <2>2
       DEF Alone, Filled, Holding, Brought, Sending, Awaits, gpuVars, fenceVars
  <2> QED BY <1>6, <2>1, <2>3
<1>11. CASE ExecuteList(w)
  <2>1. /\ pc[w] = "execute" /\ pc' = [pc EXCEPT ![w] = "fload"]
        /\ UNCHANGED <<cmdVars, fenceDone, fenceVars>>
        /\ gpuQ' = Append(gpuQ, [op |-> "exec", cmds |-> cmdList, value |-> 0])
    BY <1>2, <1>11 DEF ExecuteList, Goto
  <2>2. gpuQ = <<>> /\ cmdList = {CommandOf(w)}
    BY <1>2, <2>1 DEF Alone, Sending, Awaits
  <2>3. gpuQ' = <<Bring(w)>>
    BY <1>2, <2>1, <2>2, ShortQueues DEF Bring
  <2>4. mixed' = {} /\ Sent(w)'
    BY <1>4, <2>1, <2>3 DEF cmdVars, Sent
  <2>5. Alone(w)'
    BY <1>2, <1>5, <1>7, <2>1, <2>4
       DEF Alone, Filled, Holding, Brought, Sending, Awaits, fenceVars
  <2> QED BY <1>6, <2>1, <2>4, <2>5
<1>12. CASE LoadFence(w)
  <2>1. /\ pc[w] = "fload" /\ pc' = [pc EXCEPT ![w] = "fstore"] /\ ftmp'[w] = fenceVal
        /\ UNCHANGED <<cmdVars, gpuVars, fenceVal, fenceReg, fenceEvent>>
    BY <1>8, <1>12 DEF LoadFence, Goto
  <2>2. Sent(w)' /\ mixed' = {}
    BY <1>2, <1>4, <2>1 DEF Alone, Sending, Sent, gpuVars, cmdVars
  <2>3. Alone(w)'
    BY <1>2, <1>5, <1>7, <2>1, <2>2
       DEF Alone, Filled, Holding, Brought, Sending, Awaits, gpuVars
  <2> QED BY <1>6, <2>1, <2>2, <2>3
<1>13. CASE StoreFence(w)
  <2>1. /\ pc[w] = "fstore" /\ pc' = [pc EXCEPT ![w] = "fsignal"] /\ fenceVal' = ftmp[w] + 1
        /\ UNCHANGED <<cmdVars, gpuVars, fenceReg, fenceEvent>>
    BY <1>13 DEF StoreFence, Goto
  <2>2. Sent(w)' /\ mixed' = {}
    BY <1>2, <1>4, <2>1 DEF Alone, Sending, Sent, gpuVars, cmdVars
  <2>3. fenceVal' = fenceDone' + 1
    BY <1>2, <2>1 DEF Alone, Awaits, gpuVars
  <2>4. Alone(w)'
    BY <1>2, <1>5, <1>7, <2>1, <2>2, <2>3
       DEF Alone, Filled, Holding, Brought, Sending, Awaits, gpuVars
  <2> QED BY <1>6, <2>1, <2>2, <2>4
<1>14. CASE SignalFence(w)
  <2>1. /\ pc[w] = "fsignal" /\ pc' = [pc EXCEPT ![w] = "fcheck"]
        /\ gpuQ' = Append(gpuQ, Tell)
        /\ UNCHANGED <<cmdVars, fenceDone, fenceVars>>
    BY <1>14 DEF SignalFence, Goto, Tell
  <2>2. Sent(w) /\ fenceVal = fenceDone + 1 /\ Tell' = Tell
    BY <1>2, <2>1 DEF Alone, Sending, Tell, fenceVars
  <2>3. gpuQ' = <<Bring(w), Tell>> \/ (gpuQ' = <<Tell>> /\ Here(w))
    BY <2>1, <2>2, ShortQueues DEF Sent
  <2>4. Told(w)' /\ mixed' = {}
    BY <1>4, <2>1, <2>2, <2>3 DEF Told, fenceVars, cmdVars
  <2>5. Alone(w)'
    BY <1>2, <1>5, <1>7, <2>1, <2>4
       DEF Alone, Filled, Holding, Brought, Sending, Awaits, fenceVars
  <2> QED BY <1>6, <2>1, <2>4, <2>5
<1>15. ASSUME pc[w] \in Awaits
       PROVE  /\ Told(w) /\ fenceVal >= fenceDone
              /\ gpuQ = <<>> <=> FenceReached
              /\ FenceReached => Here(w) /\ fenceVal = fenceDone
  <2>1. Told(w)
    BY <1>2, <1>15 DEF Alone
  <2>2. ~(fenceDone >= fenceDone + 1)
    BY <1>8
  <2>3. gpuQ # <<>> => ~FenceReached /\ fenceVal = fenceDone + 1
    BY <2>1, <2>2, ShortQueues DEF Told, FenceReached
  <2>4. gpuQ = <<>> => Here(w) /\ fenceVal = fenceDone
    BY <2>1, ShortQueues DEF Told
  <2> QED BY <1>8, <2>1, <2>3, <2>4 DEF FenceReached
<1>16. CASE CheckFence(w)
  <2>1. /\ pc[w] = "fcheck" /\ UNCHANGED deviceVars
        /\ FenceReached => pc' = [pc EXCEPT ![w] = "release"]
        /\ ~FenceReached => pc' = [pc EXCEPT ![w] = "fset"]
    BY <1>2, <1>16 DEF CheckFence, Goto
  <2>2. /\ UNCHANGED <<gpuQ, fenceVal, fenceDone, fenceReg, fenceEvent>> /\ mixed' = {}
        /\ Tell' = Tell
    BY <1>4, <2>1 DEF deviceVars, cmdVars, gpuVars, fenceVars, Tell
  <2>3. fenceReg = {} /\ ~fenceEvent
    BY <1>2, <2>1 DEF Alone
  <2>4. CASE FenceReached
    <3>1. gpuQ = <<>> /\ Here(w) /\ fenceVal = fenceDone
      BY <1>15, <2>1, <2>4 DEF Awaits
    <3>2. Alone(w)'
      BY <1>4, <1>5, <1>7, <2>1, <2>2, <2>3, <2>4, <3>1
         DEF Alone, Filled, Holding, Brought, Sending, Awaits
    <3> QED BY <1>6, <2>1, <2>2, <2>4, <3>2
  <2>5. CASE ~FenceReached
    <3>1. Told(w)'
      BY <1>4, <1>15, <2>1, <2>2 DEF Told, Awaits
    <3>2. Alone(w)'
      BY <1>5, <1>7, <2>1, <2>2, <2>3, <2>5, <3>1
         DEF Alone, Filled, Holding, Brought, Sending, Awaits
    <3> QED BY <1>6, <2>1, <2>2, <2>5, <3>2
  <2> QED BY <2>4, <2>5
<1>17. CASE SetEvent(w)
  <2>1. /\ pc[w] = "fset" /\ pc' = [pc EXCEPT ![w] = "fwait"]
        /\ UNCHANGED <<cmdVars, gpuVars, fenceVal>>
        /\ FenceReached => fenceEvent' = TRUE /\ fenceReg' = fenceReg
        /\ ~FenceReached => fenceReg' = fenceReg \cup {fenceVal} /\ fenceEvent' = fenceEvent
    BY <1>17 DEF SetEvent, Goto
  <2>2. fenceReg = {} /\ ~fenceEvent
    BY <1>2, <2>1 DEF Alone
  <2>3. gpuQ = <<>> <=> FenceReached
    BY <1>15, <2>1 DEF Awaits
  <2>4. Told(w)' /\ mixed' = {}
    BY <1>4, <1>15, <2>1 DEF Told, Awaits, gpuVars, cmdVars, Tell
  <2>5. /\ gpuQ' # <<>> => fenceReg' = {fenceVal'} /\ ~fenceEvent'
        /\ gpuQ' = <<>> => fenceReg' = {} /\ fenceEvent'
    BY <2>1, <2>2, <2>3 DEF gpuVars
  <2>6. Alone(w)'
    BY <1>5, <1>7, <2>1, <2>4, <2>5
       DEF Alone, Filled, Holding, Brought, Sending, Awaits
  <2> QED BY <1>6, <2>1, <2>4, <2>6
<1>18. CASE WaitEvent(w)
  <2>1. /\ pc[w] = "fwait" /\ pc' = [pc EXCEPT ![w] = "release"] /\ fenceEvent /\ ~fenceEvent'
        /\ UNCHANGED <<cmdVars, gpuVars, fenceVal, fenceReg>>
    BY <1>2, <1>18 DEF WaitEvent, Goto
  <2>2. gpuQ = <<>> /\ fenceReg = {}
    BY <1>2, <2>1 DEF Alone
  <2>3. Here(w) /\ fenceVal = fenceDone
    BY <1>15, <2>1, <2>2 DEF Awaits
  <2>4. mixed' = {} /\ gpuQ' = <<>> /\ fenceVal' = fenceDone' /\ Here(w)'
    BY <1>4, <2>1, <2>2, <2>3 DEF cmdVars, gpuVars
  <2>5. Alone(w)'
    BY <1>5, <1>7, <2>1, <2>2, <2>4
       DEF Alone, Filled, Holding, Brought, Sending, Awaits
  <2> QED BY <1>6, <2>1, <2>4, <2>5
<1> QED BY <1>9, <1>10, <1>11, <1>12, <1>13, <1>14, <1>16, <1>17, <1>18 DEF GpuSection

\* It gives the slot back, counts, and leaves for the next chunk or for good.
LEMMA LeaveSteps ==
    ASSUME NEW w, OneDecoder(w), IInv, LifeInv, Fifo(w), Sole(w),
           ReleaseSlot(w) \/ CountTile(w) \/ StoreTotal(w) \/ CheckReady(w) \/ ExitWorker(w)
    PROVE  Sole(w)'
<1>0. w \in Workers /\ mixed = {} /\ layer = 0
  BY SoleFacts DEF Sole, Others
<1>1. /\ UNCHANGED <<nextFrame, workQ, slotData, layer, deviceVars>>
      /\ mixed' = {} /\ vram' = vram /\ gpuQ' = gpuQ /\ cmdList' = cmdList
      /\ fenceVal' = fenceVal /\ fenceDone' = fenceDone /\ fenceReg' = fenceReg
      /\ fenceEvent' = fenceEvent
  BY <1>0 DEF ReleaseSlot, CountTile, StoreTotal, CheckReady, ExitWorker, hostVars, ioVars, queueVars,
         decodeVars, ringVars, genVars, deviceVars, cmdVars, gpuVars, fenceVars
<1>2. \A c \in Chunks : Queued(c)' <=> Queued(c)
  BY <1>1 DEF Queued
<1>3. CASE ReleaseSlot(w) \/ CountTile(w) \/ StoreTotal(w)
  <2>1. UNCHANGED <<work, ready>> /\ pc[w] \in {"release", "count", "total"}
    BY <1>3 DEF ReleaseSlot, CountTile, StoreTotal, tileVars
  <2>2. \E q \in {"count", "total", "check"} : pc' = [pc EXCEPT ![w] = q]
    <3>1. CASE ReleaseSlot(w)
      BY <3>1 DEF ReleaseSlot, Goto
    <3>2. CASE CountTile(w)
      <4>1. CASE Stream[work[w]].last
        BY <3>2, <4>1 DEF CountTile, Goto
      <4>2. CASE ~Stream[work[w]].last
        BY <3>2, <4>2 DEF CountTile, Goto
      <4> QED BY <4>1, <4>2
    <3>3. CASE StoreTotal(w)
      BY <3>3 DEF StoreTotal, Goto
    <3> QED BY <1>3, <3>1, <3>2, <3>3
  <2>3. PICK q \in {"count", "total", "check"} : pc' = [pc EXCEPT ![w] = q]
    BY <2>2
  <2>4. pc'[w] = q
    BY <2>3, SoleFacts
  <2>5. ~Over(w) /\ Alone(w)
    BY <2>1, NobodyElse DEF Aside
  <2>6. Here(w)' /\ gpuQ' = <<>> /\ fenceVal' = fenceDone' /\ fenceReg' = {} /\ ~fenceEvent'
    BY <1>1, <2>1, <2>5 DEF Alone, Brought, Sending, Awaits, Here
  <2>7. Alone(w)'
    BY <2>4, <2>6 DEF Alone, Filled, Holding, Brought, Sending, Awaits
  <2>8. Arrived(w)'
    BY <1>1, <1>2, <2>1 DEF Sole, Arrived
  <2> QED BY <1>1, <2>1, <2>3, <2>5, <2>7, <2>8, OwnMove
<1>4. CASE CheckReady(w)
  <2>1. /\ pc[w] = "check" /\ pc' = [pc EXCEPT ![w] = "idle"] /\ work' = [work EXCEPT ![w] = 0]
    BY <1>4 DEF CheckReady, Goto
  <2>2. /\ pc'[w] = "idle" /\ pc'[Infer] = pc[Infer] /\ pc'[Main] = pc[Main]
        /\ work'[w] = 0
    BY <1>0, <2>1, SoleFacts DEF IInv, TypeOK
  <2>3. ~Over(w) /\ Alone(w)
    BY <2>1, NobodyElse DEF Aside
  <2>4. Here(w) /\ gpuQ = <<>> /\ fenceVal = fenceDone /\ fenceReg = {} /\ ~fenceEvent
    BY <2>1, <2>3 DEF Alone, Brought, Sending, Awaits
  <2>5. Alone(w)'
    BY <1>1, <2>2, <2>4 DEF Alone, Filled, Holding, Brought, Sending, Awaits
  <2>6. ASSUME NEW c \in Chunks, c < nextFrame', ~Queued(c)' PROVE vram'[c] = c
    <3>1. CASE c = work[w]
      BY <1>1, <2>4, <3>1 DEF Here
    <3>2. CASE c # work[w]
      BY <1>1, <1>2, <2>6, <3>2 DEF Sole, Arrived
    <3> QED BY <3>1, <3>2
  <2>7. pc[Infer] \in Polling /\ pc[Main] \in BeforeJoin
    BY <2>1, <2>3 DEF Sole, Others, Over
  <2>8. Others(w)'
    BY <1>0, <1>1, <2>2, <2>7 DEF Others, BeforeJoin
  <2>9. Calm'
    <3>1. DOMAIN gpuQ' = {}
      BY <1>1, <2>4
    <3> QED BY <2>2, <2>7, <3>1 DEF Calm, Polling
  <2> QED BY <2>5, <2>6, <2>8, <2>9 DEF Sole, Arrived
<1>5. CASE ExitWorker(w)
  <2>1. /\ pc[w] = "idle" /\ pc' = [pc EXCEPT ![w] = "exited"] /\ UNCHANGED <<work, ready>>
    BY <1>5 DEF ExitWorker, Goto, decodeVars, tileVars
  <2>2. /\ pc'[w] = "exited" /\ pc'[Infer] = pc[Infer] /\ pc'[Main] = pc[Main]
    BY <2>1, SoleFacts
  <2>3. Others(w)'
    BY <1>0, <1>1, <2>1, <2>2 DEF Sole, Others
  <2>4. Arrived(w)'
    BY <1>1, <1>2, <2>1 DEF Sole, Arrived
  <2>5. Calm'
    <3>1. CASE Over(w)
      BY <1>1, <2>2, <3>1 DEF Sole, Calm
    <3>2. CASE ~Over(w)
      <4>1. gpuQ = <<>> /\ pc[Infer] \in Polling
        BY <2>1, <3>2 DEF Sole, Others, Over, Alone, Sending, Awaits
      <4>2. DOMAIN gpuQ' = {}
        BY <1>1, <4>1
      <4> QED BY <2>2, <4>1, <4>2 DEF Calm, Polling
    <3> QED BY <3>1, <3>2
  <2> QED BY <2>2, <2>3, <2>4, <2>5 DEF Sole, Over
<1> QED BY <1>3, <1>4, <1>5

-----------------------------------------------------------------------------
\* Inference and the owner use the device when it is theirs.
LEMMA OtherSteps ==
    ASSUME NEW w, OneDecoder(w), IInv, LifeInv, Fifo(w), Sole(w),
           NEW t \in {Infer, Main}, GpuSection(t) \/ (t = Main /\ JoinWorkers)
    PROVE  Sole(w)'
<1>1. t # w /\ t \in Threads /\ w \in Workers /\ t \notin Workers /\ Infer # Main
  BY SoleFacts, ThreadAssumption DEF Threads
<1>2. UNCHANGED <<nextFrame, workQ, work, slot, slotData, ready, layer, vram>>
  BY DEF GpuSection, ResetList, RecordList, ExecuteList, LoadFence, StoreFence, SignalFence,
         CheckFence, SetEvent, WaitEvent, JoinWorkers, hostVars, ioVars, queueVars, decodeVars,
         ringVars, tileVars, genVars, deviceVars, gpuVars
<1>3. \E q \in {"record", "execute", "fload", "fstore", "fsignal", "fcheck", "fset", "fwait",
                AfterWait(t)} :
          /\ pc' = [pc EXCEPT ![t] = q]
          /\ q = "record" => pc[t] = "reset"
          /\ q = "execute" => pc[t] = "record"
  <2>1. CASE CheckFence(t)
    <3>1. CASE FenceReached
      BY <1>1, <2>1, <3>1 DEF CheckFence, Goto, AfterWait
    <3>2. CASE ~FenceReached
      BY <2>1, <3>2 DEF CheckFence, Goto
    <3> QED BY <3>1, <3>2
  <2>2. CASE WaitEvent(t)
    BY <1>1, <2>2 DEF WaitEvent, Goto, AfterWait
  <2>3. CASE t = Main /\ JoinWorkers
    BY <2>3 DEF JoinWorkers, Goto
  <2>4. CASE ResetList(t) \/ RecordList(t) \/ ExecuteList(t) \/ LoadFence(t) \/ StoreFence(t)
             \/ SignalFence(t) \/ SetEvent(t)
    BY <2>4 DEF ResetList, RecordList, ExecuteList, LoadFence, StoreFence, SignalFence, SetEvent, Goto
  <2> QED BY <2>1, <2>2, <2>3, <2>4 DEF GpuSection
<1>4. PICK q \in {"record", "execute", "fload", "fstore", "fsignal", "fcheck", "fset", "fwait",
                  AfterWait(t)} :
          /\ pc' = [pc EXCEPT ![t] = q]
          /\ q = "record" => pc[t] = "reset"
          /\ q = "execute" => pc[t] = "record"
  BY <1>3
<1>5. /\ pc'[t] = q /\ \A u \in Threads : u # t => pc'[u] = pc[u]
      /\ pc'[w] = pc[w]
  BY <1>1, <1>4, SoleFacts
<1>6. AfterWait(Infer) = "served" /\ AfterWait(Main) = "closed"
  BY <1>1 DEF AfterWait
<1>7. Over(w)
  <2>1. CASE t = Infer
    <3>1. pc[Infer] \notin Polling
      BY <2>1, <1>1 DEF GpuSection, ResetList, RecordList, ExecuteList, LoadFence, StoreFence,
             SignalFence, CheckFence, SetEvent, WaitEvent, Polling
    <3> QED BY <3>1 DEF Sole, Others, Over
  <2>2. CASE t = Main /\ GpuSection(Main)
    <3>1. pc[Main] \notin BeforeJoin
      BY <2>2 DEF GpuSection, ResetList, RecordList, ExecuteList, LoadFence, StoreFence,
             SignalFence, CheckFence, SetEvent, WaitEvent, BeforeJoin
    <3> QED BY <3>1 DEF Sole, Others, Over
  <2>3. CASE t = Main /\ JoinWorkers
    BY <1>1, <2>3 DEF JoinWorkers, Over
  <2> QED BY <2>1, <2>2, <2>3
<1>8. Over(w)'
  BY <1>2, <1>5, <1>7 DEF Over
<1>9. Arrived(w)'
  BY <1>2 DEF Sole, Arrived, Queued
<1>10. Others(w)'
  <2>1. mixed' = {}
    <3>1. CASE ResetList(t)
      <4>1. pc[t] = "reset" /\ t = Infer
        BY <3>1 DEF ResetList, Sole, Others
      <4>2. pc[w] # "record" /\ pc[Main] # "record"
        BY <1>7, SoleFacts DEF Sole, Others, Aside
      <4>3. recording = {}
        BY <4>1, <4>2, SoleFacts
      <4> QED BY <3>1, <4>3 DEF ResetList, Sole, Others
    <3>2. CASE RecordList(t)
      BY <3>2 DEF RecordList, Sole, Others
    <3>3. CASE ~ResetList(t) /\ ~RecordList(t)
      BY <3>3 DEF GpuSection, ExecuteList, LoadFence, StoreFence, SignalFence, CheckFence, SetEvent,
             WaitEvent, JoinWorkers, deviceVars, cmdVars, Sole, Others
    <3> QED BY <3>1, <3>2, <3>3
  <2>2. layer' = 0
    BY <1>2 DEF Sole, Others
  <2>3. ~ready'[0] => pc'[Infer] \in Polling
    <3>1. SUFFICES ASSUME ~ready[0] PROVE pc'[Infer] \in Polling
      BY <1>2
    <3>2. pc[Infer] \in Polling
      BY <3>1 DEF Sole, Others
    <3>3. t # Infer
      BY <3>2, <1>1 DEF GpuSection, ResetList, RecordList, ExecuteList, LoadFence, StoreFence,
             SignalFence, CheckFence, SetEvent, WaitEvent, Polling
    <3> QED BY <3>2, <3>3, <1>5, SoleFacts
  <2>4. pc'[Main] \notin {"reset", "record", "execute"}
    <3>1. CASE t = Infer
      BY <3>1, <1>1, <1>5, SoleFacts DEF Sole, Others
    <3>2. CASE t = Main
      BY <3>2, <1>4, <1>5, <1>6 DEF Sole, Others
    <3> QED BY <3>1, <3>2
  <2>5. pc'[w] # "exited" => pc'[Main] \in BeforeJoin
    <3>1. SUFFICES ASSUME pc[w] # "exited" PROVE pc'[Main] \in BeforeJoin
      BY <1>5
    <3>2. pc[Main] \in BeforeJoin
      BY <3>1 DEF Sole, Others
    <3>3. t # Main
      BY <3>1, <3>2, <1>1 DEF GpuSection, ResetList, RecordList, ExecuteList, LoadFence, StoreFence,
             SignalFence, CheckFence, SetEvent, WaitEvent, BeforeJoin, JoinWorkers
    <3> QED BY <3>2, <3>3, <1>5, SoleFacts
  <2> QED BY <2>1, <2>2, <2>3, <2>4, <2>5 DEF Others
<1>11. Calm'
  <2>1. Calm /\ mixed = {}
    BY <1>7 DEF Sole, Others
  <2>2. pc'[Infer] = "execute" => cmdList' \subseteq {Nothing}
    <3>1. SUFFICES ASSUME pc'[Infer] = "execute" PROVE cmdList' \subseteq {Nothing}
      OBVIOUS
    <3>2. CASE t = Infer
      <4>1. q = "execute" /\ pc[Infer] = "record"
        BY <3>1, <3>2, <1>4, <1>5
      <4>2. RecordList(Infer)
        BY <3>2, <4>1, <1>1 DEF GpuSection, ResetList, ExecuteList, LoadFence, StoreFence,
               SignalFence, CheckFence, SetEvent, WaitEvent
      <4>3. CommandOf(Infer) = Nothing
        BY <1>1, <3>2 DEF CommandOf, Nothing
      <4> QED BY <2>1, <4>2, <4>3 DEF RecordList
    <3>3. CASE t = Main
      <4>1. pc[Infer] = "execute"
        BY <3>1, <3>3, <1>1, <1>5, SoleFacts
      <4>2. cmdList' = cmdList
        BY <3>3, <1>1 DEF GpuSection, ResetList, RecordList, ExecuteList, LoadFence, StoreFence,
               SignalFence, CheckFence, SetEvent, WaitEvent, JoinWorkers, deviceVars, cmdVars,
               Sole, Others
      <4> QED BY <2>1, <4>1, <4>2 DEF Calm
    <3> QED BY <3>2, <3>3
  <2>3. \A i \in DOMAIN gpuQ' : gpuQ'[i].cmds \subseteq {Nothing}
    <3>1. ASSUME NEW e, e.cmds \subseteq {Nothing}, gpuQ' = Append(gpuQ, e)
          PROVE  \A i \in DOMAIN gpuQ' : gpuQ'[i].cmds \subseteq {Nothing}
      <4>1. gpuQ \in Seq(GpuEntry)
        BY DEF IInv, TypeOK, TypeDevice
      <4>2. DOMAIN gpuQ = 1 .. Len(gpuQ) /\ Len(gpuQ) \in Nat
        BY <4>1
      <4>3. /\ DOMAIN gpuQ' = 1 .. Len(gpuQ) + 1 /\ gpuQ'[Len(gpuQ) + 1] = e
            /\ \A i \in 1 .. Len(gpuQ) : gpuQ'[i] = gpuQ[i]
        BY <3>1, <4>1, <4>2
      <4>4. \A i \in DOMAIN gpuQ' : i \in 1 .. Len(gpuQ) \/ i = Len(gpuQ) + 1
        BY <4>2, <4>3
      <4> QED BY <2>1, <3>1, <4>2, <4>3, <4>4 DEF Calm
    <3>2. CASE ExecuteList(t)
      <4>1. pc[t] = "execute" /\ t = Infer
        BY <3>2 DEF ExecuteList, Sole, Others
      <4>2. PICK cmds \in SUBSET cmdList :
                gpuQ' = Append(gpuQ, [op |-> "exec", cmds |-> cmds, value |-> 0])
        BY <3>2 DEF ExecuteList
      <4>3. cmds \subseteq {Nothing}
        BY <2>1, <4>1, <4>2 DEF Calm
      <4> QED BY <3>1, <4>2, <4>3
    <3>3. CASE SignalFence(t)
      BY <3>1, <3>3 DEF SignalFence
    <3>4. CASE ~ExecuteList(t) /\ ~SignalFence(t)
      <4>1. gpuQ' = gpuQ
        BY <3>4 DEF GpuSection, ResetList, RecordList, LoadFence, StoreFence, CheckFence, SetEvent,
               WaitEvent, JoinWorkers, deviceVars, gpuVars
      <4> QED BY <2>1, <4>1 DEF Calm
    <3> QED BY <3>2, <3>3, <3>4
  <2> QED BY <2>2, <2>3 DEF Calm
<1> QED BY <1>8, <1>9, <1>10, <1>11 DEF Sole

-----------------------------------------------------------------------------
\* The GPU takes an entry.
LEMMA GpuTurn ==
    ASSUME NEW w, OneDecoder(w), IInv, LifeInv, Fifo(w), Sole(w), GpuStep
    PROVE  Sole(w)'
<1>1. /\ UNCHANGED <<nextFrame, workQ, pc, work, slot, slotData, ready, layer, cmdVars, fenceVal, ftmp>>
      /\ gpuQ # <<>> /\ gpuQ' = Tail(gpuQ)
  BY DEF GpuStep, hostVars, ioVars, queueVars, decodeVars, ringVars, tileVars, genVars
<1>2. \/ /\ Head(gpuQ).op = "exec"
         /\ vram' = [c \in Chunks |->
                          IF \E k \in Head(gpuQ).cmds : k.chunk = c
                            THEN slotData[(CHOOSE k \in Head(gpuQ).cmds : k.chunk = c).slot]
                            ELSE vram[c]]
         /\ UNCHANGED <<fenceDone, fenceReg, fenceEvent>>
      \/ /\ Head(gpuQ).op = "signal"
         /\ fenceDone' = Head(gpuQ).value
         /\ fenceReg' = {v \in fenceReg : v > Head(gpuQ).value}
         /\ fenceEvent' = (fenceEvent \/ \E v \in fenceReg : v <= Head(gpuQ).value)
         /\ vram' = vram
  BY DEF GpuStep
<1>3. /\ gpuQ \in Seq(GpuEntry) /\ vram \in [Chunks -> Chunks \cup {0}]
      /\ fenceVal \in Nat /\ fenceDone \in Nat
  BY DEF IInv, TypeOK, TypeDevice
<1>4. Others(w)' /\ (Over(w)' <=> Over(w))
  BY <1>1 DEF Sole, Others, Over, cmdVars
<1>5. 0 \notin Chunks
  BY QueueFacts
<1>6. CASE Over(w)
  <2>1. /\ 1 \in DOMAIN gpuQ /\ Head(gpuQ) = gpuQ[1]
        /\ \A i \in DOMAIN gpuQ' : i + 1 \in DOMAIN gpuQ /\ gpuQ'[i] = gpuQ[i + 1]
    BY <1>1, <1>3
  <2>2. Head(gpuQ).cmds \subseteq {Nothing}
    BY <1>6, <2>1 DEF Sole, Calm
  <2>3. \A c \in Chunks : vram'[c] = vram[c]
    <3>1. \A c \in Chunks : ~ \E k \in Head(gpuQ).cmds : k.chunk = c
      BY <1>5, <2>2 DEF Nothing
    <3> QED BY <1>2, <3>1
  <2>4. Calm'
    BY <1>1, <1>6, <2>1 DEF Sole, Calm, cmdVars
  <2>5. Arrived(w)'
    BY <1>1, <2>3 DEF Sole, Arrived, Queued
  <2> QED BY <1>4, <1>6, <2>4, <2>5 DEF Sole
<1>7. CASE ~Over(w)
  <2>1. Alone(w) /\ pc[w] \in Sending \cup Awaits
    BY <1>1, <1>7 DEF Sole, Alone
  <2>2. pc[w] \in Filled /\ pc[w] \in Busy /\ pc[w] \notin Brought /\ pc[w] # "execute"
    BY <2>1 DEF Sending, Awaits, Filled, Holding, Busy, Brought
  <2>3. /\ work[w] \in Chunks /\ slotData[slot[w]] = work[w]
        /\ pc[w] \in Filled => slotData'[slot'[w]] = work'[w]
    BY <1>1, <2>1, <2>2, SoleFacts DEF Alone
  <2>4. Bring(w)' = Bring(w) /\ Tell' = Tell
    BY <1>1 DEF Bring, Tell
  <2>5. ASSUME gpuQ = <<Bring(w)>> \/ gpuQ = <<Bring(w), Tell>>
        PROVE  /\ Here(w)' /\ Arrived(w)' /\ UNCHANGED <<fenceDone, fenceReg, fenceEvent>>
    <3>1. Head(gpuQ) = Bring(w)
      BY <2>5, ShortQueues
    <3>2. Head(gpuQ).op = "exec" /\ Head(gpuQ).cmds = {[chunk |-> work[w], slot |-> slot[w]]}
      BY <3>1 DEF Bring
    <3>3. /\ UNCHANGED <<fenceDone, fenceReg, fenceEvent>>
          /\ vram' = [c \in Chunks |->
                          IF \E k \in Head(gpuQ).cmds : k.chunk = c
                            THEN slotData[(CHOOSE k \in Head(gpuQ).cmds : k.chunk = c).slot]
                            ELSE vram[c]]
      BY <1>2, <3>2
    <3>4. (CHOOSE k \in Head(gpuQ).cmds : k.chunk = work[w]) = [chunk |-> work[w], slot |-> slot[w]]
      BY <3>2
    <3>5. vram'[work[w]] = slotData[slot[w]]
      BY <2>3, <3>2, <3>3, <3>4
    <3>6. \A c \in Chunks : c # work[w] => vram'[c] = vram[c]
      BY <3>2, <3>3
    <3>7. Here(w)'
      BY <1>1, <2>3, <3>5 DEF Here
    <3>8. Arrived(w)'
      BY <1>1, <3>6 DEF Sole, Arrived, Queued
    <3> QED BY <3>3, <3>7, <3>8
  <2>6. CASE pc[w] \in Sending
    <3>1. gpuQ = <<Bring(w)>>
      BY <1>1, <2>1, <2>6 DEF Alone, Sent
    <3>2. gpuQ' = <<>>
      BY <1>1, <3>1, ShortQueues
    <3>3. /\ Here(w)' /\ Arrived(w)' /\ UNCHANGED <<fenceDone, fenceReg, fenceEvent>>
      BY <2>5, <3>1
    <3>4. Sent(w)' /\ pc[w] \notin Awaits
      BY <2>6, <3>2, <3>3 DEF Sent, Sending, Awaits
    <3>5. Alone(w)'
      BY <1>1, <2>1, <2>2, <2>3, <2>6, <3>2, <3>3, <3>4 DEF Alone, Awaits
    <3> QED BY <1>4, <1>7, <3>3, <3>5 DEF Sole
  <2>7. CASE pc[w] \in Awaits
    <3>1. /\ pc[w] \notin Sending /\ pc[w] # "fstore" /\ pc[w] # "fsignal" /\ Told(w)
      BY <2>1, <2>7 DEF Awaits, Sending, Alone
    <3>2. CASE gpuQ = <<Bring(w), Tell>> /\ fenceVal = fenceDone + 1
      <4>1. gpuQ' = <<Tell>> /\ gpuQ' # <<>>
        BY <1>1, <3>2, ShortQueues
      <4>2. /\ Here(w)' /\ Arrived(w)' /\ UNCHANGED <<fenceDone, fenceReg, fenceEvent>>
        BY <2>5, <3>2
      <4>3. Told(w)'
        BY <1>1, <2>4, <3>2, <4>1, <4>2 DEF Told
      <4>4. Alone(w)'
        BY <1>1, <2>1, <2>2, <2>3, <2>7, <3>1, <4>1, <4>2, <4>3 DEF Alone
      <4> QED BY <1>4, <1>7, <4>2, <4>4 DEF Sole
    <3>3. CASE gpuQ = <<Tell>> /\ fenceVal = fenceDone + 1 /\ Here(w)
      <4>1. gpuQ' = <<>> /\ Head(gpuQ) = Tell
        BY <1>1, <3>3, ShortQueues
      <4>2. /\ fenceDone' = fenceVal /\ vram' = vram
            /\ fenceReg' = {v \in fenceReg : v > fenceVal}
            /\ fenceEvent' = (fenceEvent \/ \E v \in fenceReg : v <= fenceVal)
        BY <1>2, <4>1 DEF Tell
      <4>3. Here(w)' /\ Arrived(w)'
        BY <1>1, <3>3, <4>2 DEF Sole, Arrived, Queued, Here
      <4>4. Told(w)'
        BY <1>1, <4>1, <4>2, <4>3 DEF Told
      <4>5. pc[w] # "fwait" => fenceReg' = {} /\ ~fenceEvent'
        BY <2>1, <4>2 DEF Alone
      <4>6. pc[w] = "fwait" => fenceReg' = {} /\ fenceEvent'
        <5>1. SUFFICES ASSUME pc[w] = "fwait" PROVE fenceReg' = {} /\ fenceEvent'
          OBVIOUS
        <5>2. fenceReg = {fenceVal}
          BY <1>1, <2>1, <5>1 DEF Alone
        <5>3. ~(fenceVal > fenceVal) /\ fenceVal <= fenceVal
          BY <1>3
        <5>4. fenceReg' = {}
          BY <4>2, <5>2, <5>3
        <5>5. \E v \in fenceReg : v <= fenceVal
          BY <5>2, <5>3
        <5> QED BY <4>2, <5>4, <5>5, Zenon
      <4>7. Alone(w)'
        BY <1>1, <2>1, <2>2, <2>3, <2>7, <3>1, <4>1, <4>4, <4>5, <4>6 DEF Alone
      <4> QED BY <1>4, <1>7, <4>3, <4>7 DEF Sole
    <3> QED BY <1>1, <3>1, <3>2, <3>3 DEF Told
  <2> QED BY <2>1, <2>6, <2>7
<1> QED BY <1>6, <1>7

-----------------------------------------------------------------------------
LEMMA SoleInit == ASSUME NEW w, OneDecoder(w), Init PROVE Sole(w)
<1>1. /\ w \in Workers /\ w \in Threads /\ w # Infer /\ w # Main /\ Infer # Main
      /\ Infer \in Threads /\ Main \in Threads /\ 0 \in Layers
  BY SoleLayer DEF Threads
<1>2. pc[w] = "idle" /\ pc[Infer] = "poll" /\ pc[Main] = "live" /\ ~ready[0]
  BY <1>1 DEF Init
<1>3. /\ mixed = {} /\ layer = 0 /\ gpuQ = <<>> /\ fenceVal = 0 /\ fenceDone = 0
      /\ fenceReg = {} /\ ~fenceEvent /\ nextFrame = 1
  BY DEF Init
<1>4. Others(w)
  BY <1>2, <1>3 DEF Others, Polling, BeforeJoin
<1>5. ~Over(w)
  BY <1>2 DEF Over
<1>6. Alone(w)
  BY <1>2, <1>3 DEF Alone, Filled, Holding, Brought, Sending, Awaits
<1>7. Arrived(w)
  <2>1. \A c \in Chunks : c \in Nat /\ c # 0
    BY ChunkFacts
  <2>2. \A c \in Chunks : ~(c < nextFrame)
    BY <1>3, <2>1
  <2> QED BY <2>2 DEF Arrived
<1> QED BY <1>4, <1>5, <1>6, <1>7 DEF Sole

LEMMA SoleStep ==
    ASSUME NEW w, OneDecoder(w), IInv, LifeInv, Fifo(w), Sole(w), [Next]_vars
    PROVE  Sole(w)'
<1>1. CASE UNCHANGED vars
  <2>1. /\ UNCHANGED <<deviceVars, slot, slotData, work, ready, layer, pc>>
        /\ UNCHANGED <<nextFrame, workQ>>
    BY <1>1 DEF vars, hostVars, ioVars, queueVars, decodeVars, ringVars, tileVars, genVars
  <2>2. layer' = 0
    BY <2>1 DEF Sole, Others
  <2> QED BY <2>1, <2>2, HostMove DEF Queued
<1>2. CASE Next
  <2>1. \A u \in Workers : u = w
    BY SoleLayer
  <2>2. CASE IoNext
    BY <2>2, HostSteps
  <2>3. CASE \E u \in Workers : WorkerNext(u) \/ SpuriousWakeup(u)
    <3>1. WorkerNext(w) \/ SpuriousWakeup(w)
      BY <2>1, <2>3
    <3> QED BY <3>1, HostSteps, FillSteps, SendSteps, LeaveSteps DEF WorkerNext
  <2>4. CASE InferNext
    BY <2>4, HostSteps, OtherSteps DEF InferNext
  <2>5. CASE Shutdown
    BY <2>5, HostSteps, OtherSteps DEF Shutdown
  <2>6. CASE GpuStep
    BY <2>6, GpuTurn
  <2> QED BY <1>2, <2>2, <2>3, <2>4, <2>5, <2>6 DEF Next
<1> QED BY <1>1, <1>2

\* What the two properties need of the invariant.
LEMMA SoleMeans ==
    ASSUME NEW w, OneDecoder(w), IInv, LifeInv, Fifo(w), Sole(w)
    PROVE  ReadyMeansDecoded /\ UploadsSerialised
<1>1. ReadyMeansDecoded
  <2>1. SUFFICES ASSUME ready[0], NEW c \in Chunks PROVE vram[c] = c
    BY SoleLayer DEF ReadyMeansDecoded
  <2>2. Finished /\ work[w] = 0 /\ c # 0
    BY <2>1, SoleFacts, QueueFacts
  <2> QED BY <2>2 DEF Finished, Sole, Arrived
<1>2. ListSerialised
  <2>1. recording = {t \in {w, Infer, Main} : pc[t] = "record"} /\ pc[Main] # "record"
    BY SoleFacts DEF Sole, Others
  <2>2. pc[w] = "record" => pc[Infer] # "record"
    BY SoleFacts DEF Sole, Others, Over, Aside, Polling
  <2>3. recording \subseteq {w} \/ recording \subseteq {Infer}
    BY <2>1, <2>2
  <2>4. recording = {} \/ \E t : recording = {t}
    BY <2>3
  <2>5. Cardinality(recording) = 0 \/ Cardinality(recording) = 1
    BY <2>4, FS_EmptySet, FS_Singleton, Zenon
  <2> QED BY <2>5 DEF ListSerialised
<1>3. SlotsReadBeforeReuse
  <2>1. SUFFICES ASSUME NEW i \in DOMAIN gpuQ, NEW k \in gpuQ[i].cmds, k.chunk # 0
                 PROVE  slotData[k.slot] = k.chunk
    BY DEF SlotsReadBeforeReuse
  <2>2. ~Over(w)
    BY <2>1 DEF Sole, Calm, Nothing
  <2>3. Alone(w)
    BY <2>2 DEF Sole
  <2>4. DOMAIN gpuQ # {}
    BY <2>1
  <2>5. pc[w] \in Sending \cup Awaits
    BY <2>3, <2>4 DEF Alone
  <2>6. slotData[slot[w]] = work[w]
    BY <2>3, <2>5 DEF Alone, Sending, Awaits, Filled, Holding
  <2>7. gpuQ = <<Bring(w)>> \/ gpuQ = <<Bring(w), Tell>> \/ gpuQ = <<Tell>> \/ gpuQ = <<>>
    BY <2>3, <2>5 DEF Alone, Sent, Told
  <2>8. gpuQ[i] = Bring(w) \/ gpuQ[i] = Tell
    BY <2>1, <2>7
  <2>9. k = [chunk |-> work[w], slot |-> slot[w]]
    BY <2>1, <2>8 DEF Bring, Tell
  <2> QED BY <2>6, <2>9
<1> QED BY <1>1, <1>2, <1>3 DEF UploadsSerialised

\* One decode thread and one layer (what init spawns on few cores, and a
\* model of one layer): when generate sees the layer ready, every chunk of it
\* lies decoded in VRAM, from its own bytes, whatever the stream, the ring and
\* the moment of a shutdown.
THEOREM OneDecoderDecodesAll == (\E w : OneDecoder(w)) => (Spec => []ReadyMeansDecoded)
<1> SUFFICES ASSUME NEW w, OneDecoder(w) PROVE Spec => []ReadyMeansDecoded
  OBVIOUS
<1>1. Init => IInv /\ LifeInv /\ Fifo(w) /\ Sole(w)
  BY InitIInv, InitLife, FifoInit, SoleInit
<1>2. IInv /\ LifeInv /\ Fifo(w) /\ Sole(w) /\ [Next]_vars => (IInv /\ LifeInv /\ Fifo(w) /\ Sole(w))'
  BY NextIInv, StepLife, FifoStep, SoleStep
<1>3. IInv /\ LifeInv /\ Fifo(w) /\ Sole(w) => ReadyMeansDecoded
  BY SoleMeans
<1> QED BY <1>1, <1>2, <1>3, PTL DEF Spec

\* With one decode thread the one command list has one recorder at a time, and
\* no command in the GPU's queue reads an upload slot that holds another chunk.
THEOREM OneDecoderSerialises == (\E w : OneDecoder(w)) => (Spec => []UploadsSerialised)
<1> SUFFICES ASSUME NEW w, OneDecoder(w) PROVE Spec => []UploadsSerialised
  OBVIOUS
<1>1. Init => IInv /\ LifeInv /\ Fifo(w) /\ Sole(w)
  BY InitIInv, InitLife, FifoInit, SoleInit
<1>2. IInv /\ LifeInv /\ Fifo(w) /\ Sole(w) /\ [Next]_vars => (IInv /\ LifeInv /\ Fifo(w) /\ Sole(w))'
  BY NextIInv, StepLife, FifoStep, SoleStep
<1>3. IInv /\ LifeInv /\ Fifo(w) /\ Sole(w) => UploadsSerialised
  BY SoleMeans
<1> QED BY <1>1, <1>2, <1>3, PTL DEF Spec

=============================================================================
