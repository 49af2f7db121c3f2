---------------------------- MODULE NativeProofs ----------------------------
(* Proofs about five programs of native/: the infer layer, the tile prefetch *)
(* queue, the tool runtime, GPUModel and the mesh program.                    *)
EXTENDS InferLayer, TilePrefetch, ToolRuntime, GpuModel, MeshCompute, FiniteSetTheorems, TLAPS,
        Integers
-----------------------------------------------------------------------------
(* The one-layer inference program                                            *)

(* Why the context is never shared: the chunks delivered so far are those in *)
(* the weight buffer, the flag is up only when all of them are, and by then  *)
(* the stream thread has no chunk left to upload.                            *)
InferInv ==
    /\ InferTypeOK
    /\ streamPc \in {"upload", "count"} => chunk < NumChunks
    /\ delivered = chunk
    /\ wBuf = {c \in Chunks : c < chunk \/ (c = chunk /\ streamPc = "count")}
    /\ weightsReady => chunk = NumChunks
    /\ streamPc \in {"store", "notify"} => chunk = NumChunks
    /\ inferPc \in {"dispatch", "readback", "done"} => weightsReady
    /\ inferPc \in {"readback", "done"} => yBuf = Chunks

\* The invariant gives the property.
LEMMA InferInvSafety == ASSUME NumChunks \in Nat, InferInv PROVE InferSafety
<1>1. weightsReady => streamPc \notin {"upload", "count"}
    BY DEF InferInv, InferTypeOK
<1> QED
    BY <1>1 DEF InferInv, InferSafety, ContextAlone

LEMMA InferInvInit == ASSUME NumChunks \in Nat, InferInit PROVE InferInv
<1> USE DEF InferInit
<1>1. wBuf = {c \in Chunks : c < chunk \/ (c = chunk /\ streamPc = "count")}
    BY DEF Chunks
<1>2. chunk \in 0 .. NumChunks /\ delivered \in 0 .. NumChunks
    BY DEF Chunks
<1>3. InferTypeOK
    BY <1>2 DEF InferTypeOK
<1> QED
    BY <1>1, <1>2, <1>3 DEF InferInv

\* Every step of either thread preserves it.
LEMMA InferInvStep ==
    ASSUME NumChunks \in Nat, InferInv, [InferNext]_inferVars
    PROVE  InferInv'
<1> USE DEF InferInv, InferTypeOK, Chunks
<1>1. CASE UploadBegin
    BY <1>1 DEF UploadBegin
<1>2. CASE UploadEnd
    BY <1>2 DEF UploadEnd
<1>3. CASE Deliver
    BY <1>3 DEF Deliver, LastDelivery
<1>4. CASE StoreReady
    BY <1>4 DEF StoreReady
<1>5. CASE NotifyAll
    BY <1>5 DEF NotifyAll
<1>6. CASE TestReady
    BY <1>6 DEF TestReady
<1>7. CASE Block
    BY <1>7 DEF Block
<1>8. CASE SpuriousWake
    BY <1>8 DEF SpuriousWake
<1>9. CASE DispatchLayer
    <2>1. wBuf = Chunks
        BY <1>9 DEF DispatchLayer
    <2> QED
        BY <1>9, <2>1 DEF DispatchLayer
<1>10. CASE ReadbackY
    BY <1>10 DEF ReadbackY
<1>11. CASE UNCHANGED inferVars
    BY <1>11 DEF inferVars
<1> QED
    BY <1>1, <1>2, <1>3, <1>4, <1>5, <1>6, <1>7, <1>8, <1>9, <1>10, <1>11
    DEF InferNext, StreamThread, InferSteps

\* The two threads of scx_infer_layer.cpp never use the immediate context at
\* the same time, and Y is computed from all chunks, however many there are.
THEOREM InferLayerSafe ==
    ASSUME NumChunks \in Nat PROVE InferSpec => []InferSafety
<1>1. InferInit => InferInv
    BY InferInvInit
<1>2. InferInv /\ [InferNext]_inferVars => InferInv'
    BY InferInvStep
<1>3. InferInv => InferSafety
    BY InferInvSafety
<1> QED
    BY <1>1, <1>2, <1>3, PTL DEF InferSpec

-----------------------------------------------------------------------------
(* The tile prefetcher                                                        *)

MainPlaces == {"pass", "prime", "load", "reading", "launch", "upload", "readback",
               "get", "verify", "unwind", "done", "lost", "exited"}
MainRec == [pc : MainPlaces, pass : 0 .. Passes, head : Heads, cur : Slots, nxt : Slots]
LoaderRec == [pc : {"idle", "start", "end"} \union Parts, head : 0 .. NHeads, slot : Slots]
SlotRec == [phase : {"Empty", "Loading", "Ready", "Computing"},
            tile : [Parts -> 0 .. NHeads]]

Types ==
    /\ prefetch \in BOOLEAN /\ main \in MainRec /\ loader \in LoaderRec
    /\ slots \in [Slots -> SlotRec]
    /\ window \in [Parts -> 0 .. NHeads] /\ verified \in 0 .. Passes * NHeads

\* All three tiles of head h are in slot s.
Whole(s, h) == \A x \in Parts : slots[s].tile[x] = h

\* The main thread in its loop, and what it counts on there.
InHead == {"prime", "load", "reading", "launch", "upload", "readback", "get", "verify",
           "unwind"}
WithLoader == {"upload", "readback", "get", "unwind"}

MainPlace ==
    /\ main.pc \in InHead =>
         /\ main.pass < Passes /\ verified = main.pass * NHeads + main.head
         /\ prefetch => main.cur # main.nxt
    /\ main.pc = "pass" => verified = main.pass * NHeads
    /\ main.pc \in {"prime", "launch", "get"} => prefetch
    /\ main.pc = "load" => ~prefetch
    /\ main.pc \in {"launch", "upload", "readback", "get", "verify"} => Whole(main.cur, main.head)
    /\ main.pc \in {"readback", "get", "verify"} => \A x \in Parts : window[x] = main.head

\* The loader works on the next head, in the slot the main thread does not use.
LoaderPlace ==
    /\ main.pc \notin WithLoader \/ ~prefetch \/ ~HasNext => loader.pc = "idle"
    /\ loader.pc # "idle" => loader.head = main.head + 1
    /\ loader.pc \in Parts \union {"end"} => loader.slot = main.nxt
    /\ loader.pc \in {"k", "v", "end"} => slots[main.nxt].tile["q"] = main.head + 1
    /\ loader.pc \in {"v", "end"} => slots[main.nxt].tile["k"] = main.head + 1
    /\ loader.pc = "end" => slots[main.nxt].tile["v"] = main.head + 1
    /\ main.pc \in WithLoader /\ prefetch /\ HasNext => loader.pc # "idle"
    /\ main.pc = "verify" /\ prefetch /\ HasNext => Whole(main.nxt, main.head + 1)

TInv == Types /\ MainPlace /\ LoaderPlace

\* The constants a run has.
Sizes == NHeads \in Nat \ {0} /\ Passes \in Nat

-----------------------------------------------------------------------------
LEMMA InvSafety == ASSUME Sizes, TInv PROVE TileSafety
<1>1. TileTypeOK
    <2>1. main \in MainRec /\ loader \in LoaderRec /\ slots \in [Slots -> SlotRec]
        BY DEF TInv, Types
    <2> QED
        BY <2>1 DEF TInv, Types, TileTypeOK, MainRec, LoaderRec, SlotRec
<1>2. TileWhole
    <2>1. \A s \in Slots : slots[s].tile \in [Parts -> 0 .. NHeads]
        BY DEF TInv, Types, SlotRec
    <2>2. main.cur \in Slots
        BY DEF TInv, Types, MainRec
    <2>3. window \in [Parts -> 0 .. NHeads]
        BY DEF TInv, Types
    <2> QED
        BY <2>1, <2>2, <2>3 DEF TInv, MainPlace, TileWhole, Whole
<1>3. LoaderApart
    <2>1. loader.pc # "idle" => main.pc \in WithLoader /\ prefetch
        BY DEF TInv, LoaderPlace
    <2> QED
        BY <2>1 DEF TInv, MainPlace, LoaderPlace, LoaderApart, InHead, WithLoader, Parts
<1> QED
    BY <1>1, <1>2, <1>3 DEF TileSafety

LEMMA InvInit == ASSUME Sizes, TileInit PROVE TInv
<1>1. Types
    <2>1. main \in MainRec
        BY DEF Sizes, TileInit, MainRec, MainPlaces, Heads, Slots
    <2>2. loader \in LoaderRec
        BY DEF Sizes, TileInit, NoLoader, LoaderRec, NoHead, Slots
    <2>3. EmptySlot \in SlotRec
        BY DEF Sizes, EmptySlot, SlotRec, NoHead
    <2>4. window \in [Parts -> 0 .. NHeads]
        BY DEF Sizes, TileInit, NoHead
    <2>5. verified \in 0 .. Passes * NHeads
        BY DEF Sizes, TileInit
    <2> QED
        BY <2>1, <2>2, <2>3, <2>4, <2>5 DEF TileInit, Types
<1>2. main.pc = "pass" /\ main.pass = 0 /\ verified = 0 /\ loader.pc = "idle"
    BY DEF TileInit, NoLoader
<1>3. MainPlace
    BY <1>2 DEF MainPlace, InHead, Sizes
<1>4. LoaderPlace
    BY <1>2 DEF LoaderPlace, WithLoader, Parts
<1> QED
    BY <1>1, <1>3, <1>4 DEF TInv

-----------------------------------------------------------------------------
(* The main thread's steps that leave the slots' tiles and the loader alone.  *)

LEMMA MainUpdate ==
    ASSUME NEW m \in MainRec, NEW p \in MainPlaces, NEW h \in Heads,
           NEW c \in Slots, NEW n \in Slots
    PROVE  /\ [m EXCEPT !.pc = p] \in MainRec
           /\ [m EXCEPT !.pc = p, !.cur = c] \in MainRec
           /\ [m EXCEPT !.head = h, !.cur = c, !.nxt = n, !.pc = p] \in MainRec
           /\ [m EXCEPT !.pc = p, !.head = h, !.cur = c, !.nxt = n] \in MainRec
BY DEF MainRec

LEMMA StartPassSafe == ASSUME Sizes, TInv, StartPass PROVE TInv'
<1> DEFINE p == IF main.pass = Passes THEN "done" ELSE IF prefetch THEN "prime" ELSE "load"
<1>1. /\ main' = [main EXCEPT !.head = 0, !.cur = 0, !.nxt = 1, !.pc = p]
      /\ main.pc = "pass" /\ UNCHANGED <<prefetch, loader, slots, window, verified>>
    BY DEF StartPass
<1>2. main \in MainRec
    BY DEF TInv, Types
<1>3. /\ main'.pc = p /\ main'.pass = main.pass /\ main'.head = 0
      /\ main'.cur = 0 /\ main'.nxt = 1
    BY <1>1, <1>2 DEF MainRec
<1>4. main' \in MainRec
    <2>1. p \in MainPlaces /\ 0 \in Heads /\ 0 \in Slots /\ 1 \in Slots
        BY DEF MainPlaces, Heads, Slots, Sizes
    <2> QED
        BY <1>1, <1>2, <2>1, MainUpdate
<1>5. loader.pc = "idle" /\ verified = main.pass * NHeads
    BY <1>1 DEF TInv, MainPlace, LoaderPlace, WithLoader
<1>6. MainPlace'
    <2>1. main.pass \in 0 .. Passes /\ Passes \in Nat /\ NHeads \in Nat
        BY <1>2 DEF MainRec, Sizes
    <2> QED
        BY <1>1, <1>3, <1>5, <2>1 DEF MainPlace, InHead
<1>7. LoaderPlace'
    BY <1>1, <1>3, <1>5 DEF LoaderPlace, WithLoader, Parts
<1> QED
    BY <1>1, <1>4, <1>6, <1>7 DEF TInv, Types

LEMMA PhaseUpdate ==
    ASSUME Types, NEW s \in Slots, NEW ph \in {"Empty", "Loading", "Ready", "Computing"},
           slots' = [slots EXCEPT ![s].phase = ph]
    PROVE  /\ slots' \in [Slots -> SlotRec]
           /\ \A u \in Slots : slots'[u].tile = slots[u].tile
<1>1. \A u \in Slots : slots[u] \in SlotRec
    BY DEF Types
<1>2. [slots[s] EXCEPT !.phase = ph] \in SlotRec
    BY <1>1 DEF SlotRec
<1>3. slots' = [slots EXCEPT ![s] = [slots[s] EXCEPT !.phase = ph]]
    OBVIOUS
<1>4. slots' \in [Slots -> SlotRec]
    BY <1>2, <1>3 DEF Types
<1>5. \A u \in Slots : slots'[u] = IF u = s THEN [slots[s] EXCEPT !.phase = ph] ELSE slots[u]
    BY <1>3 DEF Types
<1>6. [slots[s] EXCEPT !.phase = ph].tile = slots[s].tile
    BY <1>1 DEF SlotRec
<1> QED
    BY <1>4, <1>5, <1>6

\* A step that moves main to place p in the same head, the tiles and the loader
\* as they are.
LEMMA SameHead ==
    ASSUME Sizes, TInv, NEW p \in MainPlaces \ {"pass"},
           main' = [main EXCEPT !.pc = p], main.pc \in InHead,
           UNCHANGED <<prefetch, loader, verified>>,
           slots' \in [Slots -> SlotRec], window' \in [Parts -> 0 .. NHeads],
           \A u \in Slots : slots'[u].tile = slots[u].tile,
           p \in {"prime", "launch", "get"} => prefetch,
           p = "load" => ~prefetch,
           p \in {"launch", "upload", "readback", "get", "verify"} => Whole(main.cur, main.head),
           p \in {"readback", "get", "verify"} => \A x \in Parts : window'[x] = main.head,
           p \notin WithLoader => loader.pc = "idle",
           p \in WithLoader /\ prefetch /\ HasNext => loader.pc # "idle",
           p = "verify" => ~prefetch
    PROVE  TInv'
<1>1. main \in MainRec /\ main.cur \in Slots /\ main.nxt \in Slots
    BY DEF TInv, Types, MainRec
<1>2. /\ main'.pc = p /\ main'.pass = main.pass /\ main'.head = main.head
      /\ main'.cur = main.cur /\ main'.nxt = main.nxt
    BY <1>1 DEF MainRec
<1>3. main' \in MainRec
    BY <1>1, MainUpdate DEF MainRec
<1>4. MainPlace'
    BY <1>1, <1>2 DEF TInv, MainPlace, Whole, InHead
<1>5. LoaderPlace'
    BY <1>1, <1>2 DEF TInv, LoaderPlace, HasNext, WithLoader, Parts
<1> QED
    BY <1>3, <1>4, <1>5 DEF TInv, Types

LEMMA UploadSafe == ASSUME Sizes, TInv, UploadTile PROVE TInv'
<1>1. /\ main.pc = "upload" /\ main' = [main EXCEPT !.pc = "readback"]
      /\ slots' = [slots EXCEPT ![main.cur].phase = "Computing"]
      /\ window' = slots[main.cur].tile
      /\ UNCHANGED <<prefetch, loader, verified>>
    BY DEF UploadTile
<1>2. main.cur \in Slots /\ Types
    BY DEF TInv, Types, MainRec
<1>3. slots' \in [Slots -> SlotRec] /\ \A u \in Slots : slots'[u].tile = slots[u].tile
    BY <1>1, <1>2, PhaseUpdate
<1>4. Whole(main.cur, main.head)
    BY <1>1 DEF TInv, MainPlace
<1>5. window' \in [Parts -> 0 .. NHeads] /\ \A x \in Parts : window'[x] = main.head
    BY <1>1, <1>2, <1>4 DEF Types, SlotRec, Whole
<1>6. prefetch /\ HasNext => loader.pc # "idle"
    BY <1>1 DEF TInv, LoaderPlace, WithLoader
<1>7. "readback" \in MainPlaces \ {"pass"} /\ main.pc \in InHead /\ "readback" \in WithLoader
    BY <1>1 DEF MainPlaces, InHead, WithLoader
<1> QED
    BY <1>1, <1>3, <1>4, <1>5, <1>6, <1>7, SameHead

LEMMA ReadbackSafe ==
    ASSUME Sizes, TInv, NEW ok \in BOOLEAN, ReadbackTile(ok) PROVE TInv'
<1> DEFINE p == IF ~ok THEN "unwind" ELSE IF prefetch THEN "get" ELSE "verify"
<1>1. /\ main.pc = "readback" /\ main' = [main EXCEPT !.pc = p]
      /\ slots' = [slots EXCEPT ![main.cur].phase = "Empty"]
      /\ UNCHANGED <<prefetch, loader, window, verified>>
    BY DEF ReadbackTile
<1>2. main.cur \in Slots /\ Types /\ window \in [Parts -> 0 .. NHeads]
    BY DEF TInv, Types, MainRec
<1>3. slots' \in [Slots -> SlotRec] /\ \A u \in Slots : slots'[u].tile = slots[u].tile
    BY <1>1, <1>2, PhaseUpdate
<1>4. Whole(main.cur, main.head) /\ \A x \in Parts : window'[x] = main.head
    BY <1>1 DEF TInv, MainPlace
<1>5. (prefetch /\ HasNext => loader.pc # "idle") /\ (~prefetch => loader.pc = "idle")
    BY <1>1 DEF TInv, LoaderPlace, WithLoader
<1>6. p \in MainPlaces \ {"pass"} /\ main.pc \in InHead
    BY <1>1 DEF MainPlaces, InHead
<1>7. /\ p \notin {"prime", "load", "launch", "upload"}
      /\ p = "get" => prefetch
      /\ p = "verify" => ~prefetch
      /\ p \in WithLoader \/ p = "verify"
    BY DEF WithLoader
<1> HIDE DEF p
<1> QED
    BY <1>1, <1>2, <1>3, <1>4, <1>5, <1>6, <1>7, SameHead

\* A slot whose three tiles are of head h.
LEMMA LoadedSlot ==
    ASSUME Sizes, Types, NEW s \in Slots, NEW h \in Heads,
           slots' = [slots EXCEPT ![s] = Loaded(h)]
    PROVE  /\ slots' \in [Slots -> SlotRec]
           /\ \A x \in Parts : slots'[s].tile[x] = h
<1>1. Loaded(h) \in SlotRec
    BY DEF Loaded, SlotRec, Heads, Sizes
<1>2. slots' \in [Slots -> SlotRec] /\ slots'[s] = Loaded(h)
    BY <1>1 DEF Types
<1> QED
    BY <1>2 DEF Loaded

LEMMA BeginLoadSafe == ASSUME Sizes, TInv, BeginLoad PROVE TInv'
<1> DEFINE s == IF prefetch THEN main.cur ELSE main.head % 3
<1>1. /\ main.pc \in {"prime", "load"}
      /\ UNCHANGED <<prefetch, loader, window, verified>>
      /\ \/ /\ slots' = [slots EXCEPT ![s].phase = "Loading"]
            /\ main' = [main EXCEPT !.pc = "reading", !.cur = s]
         \/ main' = [main EXCEPT !.pc = "exited"] /\ slots' = slots
    BY DEF BeginLoad
<1>2. /\ main \in MainRec /\ Types
      /\ main.head \in Heads /\ main.cur \in Slots /\ main.nxt \in Slots
    BY DEF TInv, Types, MainRec
<1>3. s \in Slots
    BY <1>2 DEF MainRec, Heads, Slots, Sizes
<1>4. loader.pc = "idle"
    BY <1>1 DEF TInv, LoaderPlace, WithLoader
<1>5. CASE main' = [main EXCEPT !.pc = "exited"] /\ slots' = slots
    <2>1. main'.pc = "exited"
        BY <1>2, <1>5 DEF MainRec
    <2>2. main' \in MainRec
        <3>1. "exited" \in MainPlaces
            BY DEF MainPlaces
        <3> QED
            BY <1>2, <1>5, <3>1, MainUpdate
    <2>3. MainPlace'
        BY <2>1 DEF MainPlace, InHead
    <2>4. LoaderPlace'
        BY <1>1, <1>4, <2>1 DEF LoaderPlace, WithLoader, Parts
    <2> QED
        BY <1>1, <1>2, <1>5, <2>2, <2>3, <2>4 DEF TInv, Types
<1>6. CASE /\ slots' = [slots EXCEPT ![s].phase = "Loading"]
           /\ main' = [main EXCEPT !.pc = "reading", !.cur = s]
    <2>1. slots' \in [Slots -> SlotRec]
        BY <1>2, <1>3, <1>6, PhaseUpdate
    <2>2. /\ main'.pc = "reading" /\ main'.pass = main.pass /\ main'.head = main.head
          /\ main'.cur = s /\ main'.nxt = main.nxt
        BY <1>2, <1>6 DEF MainRec
    <2>3. main' \in MainRec
        <3>1. "reading" \in MainPlaces
            BY DEF MainPlaces
        <3> QED
            BY <1>2, <1>3, <1>6, <3>1, MainUpdate
    <2>4. MainPlace'
        BY <1>1, <2>2 DEF TInv, MainPlace, InHead
    <2>5. LoaderPlace'
        BY <1>1, <1>4, <2>2 DEF LoaderPlace, WithLoader, Parts
    <2> QED
        BY <1>1, <1>2, <2>1, <2>3, <2>4, <2>5 DEF TInv, Types
<1> QED
    BY <1>1, <1>5, <1>6

LEMMA EndLoadSafe == ASSUME Sizes, TInv, EndLoad PROVE TInv'
<1> DEFINE p == IF prefetch THEN "launch" ELSE "upload"
<1>1. /\ main.pc = "reading" /\ main' = [main EXCEPT !.pc = p]
      /\ slots' = [slots EXCEPT ![main.cur] = Loaded(main.head)]
      /\ UNCHANGED <<prefetch, loader, window, verified>>
    BY DEF EndLoad
<1>2. /\ main \in MainRec /\ Types
      /\ main.head \in Heads /\ main.cur \in Slots /\ main.nxt \in Slots
    BY DEF TInv, Types, MainRec
<1>3. /\ slots' \in [Slots -> SlotRec]
      /\ \A x \in Parts : slots'[main.cur].tile[x] = main.head
    BY <1>1, <1>2, LoadedSlot
<1>4. loader.pc = "idle"
    BY <1>1 DEF TInv, LoaderPlace, WithLoader
<1>5. /\ main'.pc = p /\ main'.pass = main.pass /\ main'.head = main.head
      /\ main'.cur = main.cur /\ main'.nxt = main.nxt
    BY <1>1, <1>2 DEF MainRec
<1>6. main' \in MainRec
    <2>1. p \in MainPlaces
        BY DEF MainPlaces
    <2> QED
        BY <1>1, <1>2, <2>1, MainUpdate
<1>7. MainPlace'
    BY <1>1, <1>3, <1>5 DEF TInv, MainPlace, Whole, InHead
<1>8. LoaderPlace'
    BY <1>1, <1>4, <1>5 DEF LoaderPlace, WithLoader, Parts
<1> QED
    BY <1>1, <1>2, <1>3, <1>6, <1>7, <1>8 DEF TInv, Types

-----------------------------------------------------------------------------
(* The steps in which the two threads meet.                                   *)

LEMMA LaunchSafe == ASSUME Sizes, TInv, Launch PROVE TInv'
<1>1. /\ main.pc = "launch" /\ main' = [main EXCEPT !.pc = "upload"]
      /\ loader' = IF HasNext THEN [pc |-> "start", head |-> main.head + 1, slot |-> 0]
                              ELSE NoLoader
      /\ UNCHANGED <<prefetch, slots, window, verified>>
    BY DEF Launch
<1>2. /\ main \in MainRec /\ Types
      /\ main.head \in Heads /\ main.cur \in Slots /\ main.nxt \in Slots
    BY DEF TInv, Types, MainRec
<1>3. /\ main'.pc = "upload" /\ main'.pass = main.pass /\ main'.head = main.head
      /\ main'.cur = main.cur /\ main'.nxt = main.nxt
    BY <1>1, <1>2 DEF MainRec
<1>4. main' \in MainRec
    <2>1. "upload" \in MainPlaces
        BY DEF MainPlaces
    <2> QED
        BY <1>1, <1>2, <2>1, MainUpdate
<1>5. loader' \in LoaderRec
    BY <1>1, <1>2 DEF LoaderRec, NoLoader, NoHead, HasNext, Heads, Slots, Sizes
<1>6. MainPlace'
    BY <1>1, <1>3 DEF TInv, MainPlace, Whole, InHead
<1>7. LoaderPlace'
    <2>1. HasNext' <=> HasNext
        BY <1>3 DEF HasNext
    <2>2. loader'.pc = (IF HasNext THEN "start" ELSE "idle")
          /\ (HasNext => loader'.head = main.head + 1)
        BY <1>1 DEF NoLoader
    <2>3. prefetch
        BY <1>1 DEF TInv, MainPlace
    <2> QED
        BY <1>1, <1>3, <2>1, <2>2, <2>3 DEF LoaderPlace, WithLoader, Parts
<1> QED
    BY <1>1, <1>2, <1>4, <1>5, <1>6, <1>7 DEF TInv, Types

\* get() and the future's destructor return with the loader gone.
LEMMA JoinSafe == ASSUME Sizes, TInv, GetFuture \/ Unwind PROVE TInv'
<1>1. PICK p \in {"verify", "lost"} :
        /\ main' = [main EXCEPT !.pc = p]
        /\ p = "verify" => main.pc = "get"
    BY DEF GetFuture, Unwind
<1>2. /\ main.pc \in {"get", "unwind"} /\ loader.pc \in {"idle", "end"}
      /\ loader' = IF loader.pc = "end" THEN NoLoader ELSE loader
      /\ UNCHANGED <<prefetch, slots, window, verified>>
    BY DEF GetFuture, Unwind, LoaderDone
<1>3. /\ main \in MainRec /\ Types /\ loader \in LoaderRec
      /\ main.head \in Heads /\ main.cur \in Slots /\ main.nxt \in Slots
    BY DEF TInv, Types, MainRec
<1>4. /\ main'.pc = p /\ main'.pass = main.pass /\ main'.head = main.head
      /\ main'.cur = main.cur /\ main'.nxt = main.nxt
    BY <1>1, <1>3 DEF MainRec
<1>5. main' \in MainRec
    <2>1. p \in MainPlaces
        BY DEF MainPlaces
    <2> QED
        BY <1>1, <1>3, <2>1, MainUpdate
<1>6. loader' \in LoaderRec /\ loader'.pc = "idle"
    BY <1>2, <1>3 DEF LoaderRec, NoLoader, NoHead, Slots, Sizes
<1>7. MainPlace'
    BY <1>1, <1>2, <1>4 DEF TInv, MainPlace, Whole, InHead
<1>8. p = "verify" /\ prefetch /\ HasNext => Whole(main.nxt, main.head + 1)
    <2>1. p = "verify" /\ prefetch /\ HasNext => loader.pc = "end"
        BY <1>1, <1>2 DEF TInv, LoaderPlace, WithLoader
    <2> QED
        BY <2>1 DEF TInv, LoaderPlace, Whole, Parts
<1>9. LoaderPlace'
    BY <1>2, <1>4, <1>6, <1>8 DEF LoaderPlace, Whole, WithLoader, HasNext, Parts
<1> QED
    BY <1>2, <1>3, <1>5, <1>6, <1>7, <1>9 DEF TInv, Types

\* The next head moves into the slot the loader filled; after the last one a
\* pass is over.
LEMMA VerifySafe == ASSUME Sizes, TInv, Verify PROVE TInv'
<1>1. /\ main.pc = "verify" /\ verified' = verified + 1
      /\ UNCHANGED <<prefetch, loader, slots, window>>
    BY DEF Verify
<1>2. /\ main \in MainRec /\ Types
      /\ main.head \in Heads /\ main.cur \in Slots /\ main.nxt \in Slots
      /\ main.pass \in 0 .. Passes
    BY DEF TInv, Types, MainRec
<1>3. loader.pc = "idle"
    BY <1>1 DEF TInv, LoaderPlace, WithLoader
<1>4. main.pass < Passes /\ verified = main.pass * NHeads + main.head
    BY <1>1 DEF TInv, MainPlace, InHead
<1>5. verified' \in 0 .. Passes * NHeads
    <2>1. main.head + 1 <= NHeads /\ main.pass + 1 <= Passes /\ main.pass \in Nat
          /\ main.head \in Nat
        BY <1>2, <1>4 DEF Heads, Sizes
    <2>2. (main.pass + 1) * NHeads <= Passes * NHeads
        BY <2>1 DEF Sizes
    <2>3. (main.pass + 1) * NHeads = main.pass * NHeads + NHeads
        BY <2>1 DEF Sizes
    <2>4. main.pass * NHeads \in Nat /\ Passes * NHeads \in Nat
        BY <2>1 DEF Sizes
    <2> QED
        BY <1>1, <1>4, <2>1, <2>2, <2>3, <2>4 DEF Sizes
<1>6. CASE main.head + 1 < NHeads
    <2> DEFINE p == IF prefetch THEN "launch" ELSE "load"
    <2>1. main' = [main EXCEPT !.pc = p, !.head = main.head + 1,
                               !.cur = main.nxt, !.nxt = main.cur]
        BY <1>6 DEF Verify
    <2>2. /\ main'.pc = p /\ main'.pass = main.pass /\ main'.head = main.head + 1
          /\ main'.cur = main.nxt /\ main'.nxt = main.cur
        BY <1>2, <2>1 DEF MainRec
    <2>3. p \in MainPlaces /\ main.head + 1 \in Heads
        BY <1>2, <1>6 DEF MainPlaces, Heads, Sizes
    <2>4. main' \in MainRec
        BY <1>2, <2>1, <2>3, MainUpdate
    <2>5. prefetch => Whole(main.nxt, main.head + 1) /\ main.cur # main.nxt
        BY <1>1, <1>6 DEF TInv, MainPlace, LoaderPlace, HasNext, InHead
    <2>6. verified' = main.pass * NHeads + (main.head + 1)
        <3>1. main.pass * NHeads \in Nat /\ main.head \in Nat
            BY <1>2 DEF Heads, Sizes
        <3> QED
            BY <1>1, <1>4, <3>1
    <2>7. MainPlace'
        BY <1>1, <1>4, <2>2, <2>5, <2>6 DEF MainPlace, Whole, InHead
    <2>8. LoaderPlace'
        BY <1>1, <1>3, <2>2 DEF LoaderPlace, WithLoader, Parts
    <2> QED
        BY <1>1, <1>2, <1>5, <2>4, <2>7, <2>8 DEF TInv, Types
<1>7. CASE ~(main.head + 1 < NHeads)
    <2>1. main' = [main EXCEPT !.pc = "pass", !.pass = main.pass + 1]
        BY <1>7 DEF Verify
    <2>2. main'.pc = "pass" /\ main'.pass = main.pass + 1
        BY <1>2, <2>1 DEF MainRec
    <2>3. main' \in MainRec
        <3>1. main.pass + 1 \in 0 .. Passes /\ "pass" \in MainPlaces
            BY <1>2, <1>4 DEF Sizes, MainPlaces
        <3> QED
            BY <1>2, <2>1, <3>1 DEF MainRec
    <2>4. verified' = (main.pass + 1) * NHeads
        <3>1. main.head = NHeads - 1 /\ main.pass \in Nat
            BY <1>2, <1>7 DEF Heads, Sizes
        <3>2. (main.pass + 1) * NHeads = main.pass * NHeads + NHeads
            BY <3>1 DEF Sizes
        <3>3. main.pass * NHeads \in Nat
            BY <3>1 DEF Sizes
        <3> QED
            BY <1>1, <1>4, <3>1, <3>2, <3>3 DEF Sizes
    <2>5. MainPlace'
        BY <2>2, <2>4 DEF MainPlace, InHead
    <2>6. LoaderPlace'
        BY <1>1, <1>3, <2>2 DEF LoaderPlace, WithLoader, Parts
    <2> QED
        BY <1>1, <1>2, <1>5, <2>3, <2>5, <2>6 DEF TInv, Types
<1> QED
    BY <1>6, <1>7

-----------------------------------------------------------------------------
(* The loader thread.                                                         *)

\* While the loader runs, the main thread is on the other slot.
LEMMA LoaderContext ==
    ASSUME TInv, loader.pc # "idle"
    PROVE  /\ main.pc \in WithLoader /\ prefetch /\ HasNext
           /\ main.cur \in Slots /\ main.nxt \in Slots /\ main.cur # main.nxt
           /\ loader.head = main.head + 1
BY DEF TInv, Types, MainPlace, LoaderPlace, MainRec, InHead, WithLoader

LEMMA LoaderStartSafe == ASSUME Sizes, TInv, LoaderStart PROVE TInv'
<1>1. /\ loader.pc = "start" /\ loader' = [loader EXCEPT !.pc = "q", !.slot = main.nxt]
      /\ slots' = [slots EXCEPT ![main.nxt].phase = "Loading"]
      /\ UNCHANGED <<prefetch, main, window, verified>>
    BY DEF LoaderStart, LoaderTarget
<1>2. /\ main.pc \in WithLoader /\ prefetch /\ HasNext
      /\ main.nxt \in Slots /\ loader.head = main.head + 1
    BY <1>1, LoaderContext
<1>3. Types /\ loader \in LoaderRec
    BY DEF TInv, Types
<1>4. slots' \in [Slots -> SlotRec] /\ \A u \in Slots : slots'[u].tile = slots[u].tile
    BY <1>1, <1>2, <1>3, PhaseUpdate
<1>5. loader'.pc = "q" /\ loader'.slot = main.nxt /\ loader'.head = loader.head
    BY <1>1, <1>3 DEF LoaderRec
<1>6. loader' \in LoaderRec
    BY <1>1, <1>2, <1>3 DEF LoaderRec, Parts
<1>7. MainPlace'
    <2>1. main.cur \in Slots
        BY DEF TInv, Types, MainRec
    <2> QED
        BY <1>1, <1>4, <2>1 DEF TInv, MainPlace, Whole
<1>8. LoaderPlace'
    BY <1>1, <1>2, <1>5 DEF LoaderPlace, HasNext, WithLoader
<1> QED
    BY <1>1, <1>3, <1>4, <1>6, <1>7, <1>8 DEF TInv, Types

\* One tile arrives in the loader's slot, or the process ends.
LEMMA LoaderReadSafe ==
    ASSUME Sizes, TInv, LoaderRead PROVE TInv'
<1> DEFINE x == loader.pc
           q == [q |-> "k", k |-> "v", v |-> "end"][x]
           ph == IF x = "v" THEN "Ready" ELSE slots[main.nxt].phase
<1>1. x \in Parts /\ UNCHANGED <<prefetch, window, verified>>
    BY DEF LoaderRead
<1>2. /\ main.pc \in WithLoader /\ prefetch /\ HasNext
      /\ main.cur \in Slots /\ main.nxt \in Slots /\ main.cur # main.nxt
      /\ loader.head = main.head + 1
    BY <1>1, LoaderContext DEF Parts
<1>3. /\ Types /\ loader \in LoaderRec /\ main \in MainRec /\ main.head \in Heads
      /\ loader.slot = main.nxt /\ loader.head \in 0 .. NHeads
    BY <1>1 DEF TInv, Types, LoaderPlace, LoaderRec, MainRec
<1>4. CASE /\ slots' = [slots EXCEPT ![loader.slot].tile[x] = loader.head,
                          ![loader.slot].phase = IF x = "v" THEN "Ready" ELSE @]
           /\ loader' = [loader EXCEPT !.pc = q] /\ main' = main
    <2>1. ph \in {"Empty", "Loading", "Ready", "Computing"}
        BY <1>2, <1>3 DEF Types, SlotRec
    <2> DEFINE r == [slots[main.nxt] EXCEPT !.tile[x] = main.head + 1, !.phase = ph]
    <2>2. slots' = [slots EXCEPT ![main.nxt] = r]
        BY <1>2, <1>3, <1>4 DEF Types, SlotRec
    <2>3. /\ slots' \in [Slots -> SlotRec]
          /\ \A u \in Slots \ {main.nxt} : slots'[u].tile = slots[u].tile
          /\ \A y \in Parts : slots'[main.nxt].tile[y] =
                                IF y = x THEN main.head + 1 ELSE slots[main.nxt].tile[y]
        <3>1. main.head + 1 \in 0 .. NHeads
            BY <1>2, <1>3
        <3>2. slots[main.nxt] \in SlotRec
            BY <1>2, <1>3 DEF Types
        <3> HIDE DEF ph, x
        <3>3. r \in SlotRec /\ r.tile = [slots[main.nxt].tile EXCEPT ![x] = main.head + 1]
            BY <1>1, <2>1, <3>1, <3>2 DEF SlotRec
        <3> HIDE DEF r
        <3>4. Types /\ main.nxt \in Slots /\ x \in Parts
            BY <1>1, <1>2, <1>3
        <3>5. slots' \in [Slots -> SlotRec]
            BY <2>2, <3>3, <3>4 DEF Types
        <3>6. slots'[main.nxt] = r /\ \A u \in Slots \ {main.nxt} : slots'[u] = slots[u]
            BY <2>2, <3>3, <3>4 DEF Types
        <3>7. slots[main.nxt].tile \in [Parts -> 0 .. NHeads]
            BY <3>2 DEF SlotRec
        <3> QED
            BY <3>3, <3>5, <3>6, <3>7
    <2>4. /\ loader'.pc = q /\ loader'.head = loader.head /\ loader'.slot = loader.slot
          /\ q = IF x = "q" THEN "k" ELSE IF x = "k" THEN "v" ELSE "end"
        BY <1>1, <1>3, <1>4 DEF LoaderRec, Parts
    <2>5. loader' \in LoaderRec
        BY <1>1, <1>3, <1>4, <2>4 DEF LoaderRec, Parts
    <2>6. MainPlace'
        BY <1>1, <1>2, <1>4, <2>3 DEF TInv, MainPlace, Whole
    <2>7. LoaderPlace'
        <3>1. "q" \in Parts /\ "k" \in Parts /\ "v" \in Parts
            BY DEF Parts
        <3> HIDE DEF q
        <3> QED
            BY <1>1, <1>2, <1>3, <1>4, <2>3, <2>4, <3>1
            DEF TInv, LoaderPlace, HasNext, WithLoader, Parts
    <2> QED
        BY <1>1, <1>3, <1>4, <2>3, <2>5, <2>6, <2>7 DEF TInv, Types
<1>5. CASE main' = [main EXCEPT !.pc = "exited"] /\ loader' = NoLoader /\ slots' = slots
    <2>1. main'.pc = "exited" /\ loader'.pc = "idle"
        BY <1>3, <1>5 DEF MainRec, NoLoader
    <2>2. main' \in MainRec
        BY <1>3, <1>5 DEF MainRec, MainPlaces
    <2>3. loader' \in LoaderRec
        BY <1>5 DEF LoaderRec, NoLoader, NoHead, Slots, Sizes
    <2>4. MainPlace' /\ LoaderPlace'
        BY <2>1 DEF MainPlace, LoaderPlace, InHead, WithLoader, Parts
    <2> QED
        BY <1>1, <1>3, <1>5, <2>2, <2>3, <2>4 DEF TInv, Types
<1> QED
    BY <1>1, <1>4, <1>5 DEF LoaderRead

LEMMA InvStep == ASSUME Sizes, TInv, [TileNext]_tileVars PROVE TInv'
<1>1. CASE UNCHANGED tileVars
    BY <1>1 DEF tileVars, TInv, Types, MainPlace, LoaderPlace, Whole, HasNext
<1> QED
    BY <1>1, StartPassSafe, BeginLoadSafe, EndLoadSafe, LaunchSafe, UploadSafe, ReadbackSafe,
       JoinSafe, VerifySafe, LoaderStartSafe, LoaderReadSafe
    DEF TileNext, MainStep, LoaderStep

\* Whatever the loader thread is doing, the GPU computes and the CPU verifies
\* from a slot that holds the three tiles of the current head, and the loader is
\* gone before the slots are: for any number of heads and passes, with and
\* without --prefetch, after a lost device too (asx_ram_test.cpp).
THEOREM TilesNeverShared == ASSUME Sizes PROVE TileSpec => []TileSafety
<1>1. TileInit => TInv
    BY InvInit
<1>2. TInv /\ [TileNext]_tileVars => TInv'
    BY InvStep
<1>3. TInv => TileSafety
    BY InvSafety
<1> QED
    BY <1>1, <1>2, <1>3, PTL DEF TileSpec

-----------------------------------------------------------------------------
(* The tool runtime                                                           *)

Pcs == {"idle", "get", "rate", "exec", "push", "notify", "wedged"}
TaskSet == [owner : Callers, slot : Nat, tool : Tools]
Frames == [pc : Pcs, tool : Tools \union {Nobody}, todo : Seq(Tools), sent : Nat,
           task : TaskSet \union {Nobody}]
TaskRuns == {w \in Workers : loop[w] = "task"}

\* A task by who sent it and its number in that batch, and where tasks are.
TaskKey(f) == <<f.owner, f.slot>>
KeysIn(q) == {TaskKey(q[i]) : i \in 1 .. Len(q)}
RunKeys == {TaskKey(frame[w].task) : w \in TaskRuns}
ReadyKeys == {TaskKey(f) : f \in ready}
SentKeys == {k \in Callers \X Nat : k[2] \in 1 .. frame[k[1]].sent}

KeyedOnce(q) == \A i, j \in 1 .. Len(q) : TaskKey(q[i]) = TaskKey(q[j]) => i = j

RegistryTyped ==
    known \subseteq Tools /\ regMu \in Callers \union {Nobody} /\ stop \in BOOLEAN

ToolTyped ==
    /\ loop \in [Workers -> {"test", "asleep", "task", "exited"}]
    /\ frame \in [Actors -> Frames]
    /\ queue \in Seq(TaskSet) /\ ready \subseteq TaskSet

\* A pool thread is inside a task exactly while its frame is in a Call, and
\* sends nothing; only a batch under way has tasks.
FramesFit ==
    /\ \A a \in Actors : frame[a].pc = "rate" => frame[a].tool \in Tools
    /\ \A a \in Actors : frame[a].pc \notin {"push", "notify"} => frame[a].sent = 0
    /\ \A w \in Workers : /\ frame[w].pc \in {"idle", "get", "rate", "exec"}
                          /\ loop[w] = "task" <=> frame[w].pc # "idle"
                          /\ loop[w] = "task" => frame[w].task \in TaskSet

\* In a window the calls let through are among those counted.
RateInv ==
    /\ open \in [Tools -> BOOLEAN]
    /\ count \in [Tools -> Nat] /\ granted \in [Tools -> Nat]
    /\ Limit > 0 => \A t \in Tools :
           /\ granted[t] <= Limit
           /\ open[t] => granted[t] <= count[t]
           /\ ~open[t] => granted[t] = 0

\* The tasks sent are those in the queue, in pool threads and in set futures:
\* three sets apart, none holding a task twice.
KeysApart ==
    /\ SentKeys = KeysIn(queue) \union RunKeys \union ReadyKeys
    /\ KeysIn(queue) \intersect RunKeys = {}
    /\ KeysIn(queue) \intersect ReadyKeys = {}
    /\ RunKeys \intersect ReadyKeys = {}
    /\ KeyedOnce(queue)
    /\ \A v, w \in TaskRuns : TaskKey(frame[v].task) = TaskKey(frame[w].task) => v = w
    /\ \A f, g \in ready : TaskKey(f) = TaskKey(g) => f = g

ToolInv == RegistryTyped /\ ToolTyped /\ FramesFit /\ RateInv /\ KeysApart

\* What a step of actor a leaves of the frames and of the pool's places.
LEMMA OneFrame ==
    ASSUME frame \in [Actors -> Frames], NEW a \in Actors, NEW g \in Frames,
           frame' = [frame EXCEPT ![a] = g]
    PROVE  /\ frame' \in [Actors -> Frames] /\ frame'[a] = g
           /\ \A b \in Actors : b # a => frame'[b] = frame[b]
<1> QED
    OBVIOUS

LEMMA IdleFrame ==
    /\ Idle \in Frames
    /\ Idle.pc = "idle" /\ Idle.tool = Nobody /\ Idle.todo = <<>> /\ Idle.sent = 0
    /\ Idle.task = Nobody
<1> QED
    BY DEF Idle, Frames, Pcs

LEMMA ActorKinds ==
    /\ \A c \in Callers : c \in Actors /\ c \notin Workers
    /\ \A w \in Workers : w \in Actors /\ w \notin Callers
<1> QED
    BY ToolAssumption DEF Actors

\* A task more at the end of the queue, and one less at its head.
LEMMA PushKeys ==
    ASSUME NEW q \in Seq(TaskSet), NEW f \in TaskSet, KeyedOnce(q),
           TaskKey(f) \notin KeysIn(q)
    PROVE  /\ Append(q, f) \in Seq(TaskSet)
           /\ KeysIn(Append(q, f)) = KeysIn(q) \union {TaskKey(f)}
           /\ KeyedOnce(Append(q, f))
<1> DEFINE r == Append(q, f)
<1>1. /\ r \in Seq(TaskSet) /\ Len(r) = Len(q) + 1 /\ Len(q) \in Nat
      /\ \A i \in 1 .. Len(q) : r[i] = q[i]
      /\ r[Len(q) + 1] = f
    OBVIOUS
<1> HIDE DEF r
<1>2. 1 .. Len(r) = (1 .. Len(q)) \union {Len(q) + 1}
    BY <1>1
<1>3. KeysIn(r) = KeysIn(q) \union {TaskKey(f)}
    BY <1>1, <1>2 DEF KeysIn
<1>4. \A i \in 1 .. Len(q) : TaskKey(r[i]) # TaskKey(f)
    BY <1>1 DEF KeysIn
<1>5. KeyedOnce(r)
    BY <1>1, <1>2, <1>4 DEF KeyedOnce
<1> QED
    BY <1>1, <1>3, <1>5 DEF r

LEMMA TakeKeys ==
    ASSUME NEW q \in Seq(TaskSet), q # <<>>, KeyedOnce(q)
    PROVE  /\ Tail(q) \in Seq(TaskSet) /\ Head(q) \in TaskSet
           /\ TaskKey(Head(q)) \in KeysIn(q)
           /\ KeysIn(Tail(q)) = KeysIn(q) \ {TaskKey(Head(q))}
           /\ KeyedOnce(Tail(q))
<1> DEFINE r == Tail(q)
<1>1. /\ r \in Seq(TaskSet) /\ Len(q) \in Nat \ {0} /\ Len(r) = Len(q) - 1
      /\ \A i \in 1 .. Len(r) : r[i] = q[i + 1]
      /\ Head(q) = q[1] /\ q[1] \in TaskSet
    OBVIOUS
<1> HIDE DEF r
<1>2. \A i \in 1 .. Len(r) : i + 1 \in 1 .. Len(q) /\ i + 1 # 1
    BY <1>1
<1>3. \A j \in 1 .. Len(q) : j # 1 => j - 1 \in 1 .. Len(r) /\ q[j] = r[j - 1]
    BY <1>1
<1>4. 1 \in 1 .. Len(q)
    BY <1>1
<1>5. \A j \in 1 .. Len(q) : j # 1 => TaskKey(q[j]) # TaskKey(q[1])
    BY <1>4 DEF KeyedOnce
<1>6. ASSUME NEW k \in KeysIn(r) PROVE k \in KeysIn(q) /\ k # TaskKey(Head(q))
    BY <1>1, <1>2, <1>5 DEF KeysIn
<1>7. ASSUME NEW k \in KeysIn(q), k # TaskKey(Head(q)) PROVE k \in KeysIn(r)
    <2>1. PICK j \in 1 .. Len(q) : k = TaskKey(q[j])
        BY DEF KeysIn
    <2>2. j # 1
        BY <1>1, <1>7, <2>1
    <2> QED
        BY <1>3, <2>1, <2>2 DEF KeysIn
<1>8. KeyedOnce(r)
    <2> SUFFICES ASSUME NEW i \in 1 .. Len(r), NEW j \in 1 .. Len(r),
                        TaskKey(r[i]) = TaskKey(r[j])
                 PROVE  i = j
        BY DEF KeyedOnce
    <2>1. i + 1 = j + 1
        BY <1>1, <1>2 DEF KeyedOnce
    <2> QED
        BY <2>1
<1> QED
    BY <1>1, <1>4, <1>6, <1>7, <1>8 DEF r, KeysIn

\* A one-to-one image has as many members.
LEMMA SameSize ==
    ASSUME NEW S, NEW T, IsFiniteSet(T), NEW f \in [S -> T],
           \A x, y \in S : f[x] = f[y] => x = y,
           \A t \in T : \E x \in S : f[x] = t
    PROVE  IsFiniteSet(S) /\ Cardinality(S) = Cardinality(T)
<1>1. f \in Injection(S, T) /\ f \in Surjection(S, T)
    BY DEF Injection, Surjection, IsInjective
<1> QED
    BY <1>1, FS_Injection

\* A run of n numbers.
LEMMA Tally ==
    ASSUME NEW n \in Nat PROVE IsFiniteSet(1 .. n) /\ Cardinality(1 .. n) = n
<1>1. IsFiniteSet(1 .. n)
    BY FS_Interval
<1>2. Cardinality(1 .. n) = IF 1 > n THEN 0 ELSE n - 1 + 1
    BY FS_Interval
<1> QED
    BY <1>1, <1>2

\* How many tasks of a are in each place, by their numbers in the batch.
Numbers(K, a) == {n \in Nat : <<a, n>> \in K}
QueuedOf(a) == {i \in 1 .. Len(queue) : queue[i].owner = a}
RunningOf(a) == {w \in Workers : loop[w] = "task" /\ frame[w].task.owner = a}

LEMMA NumbersSent ==
    ASSUME ToolTyped, KeysApart, NEW c \in Callers, NEW K,
           K \in {KeysIn(queue), RunKeys, ReadyKeys}
    PROVE  /\ Numbers(K, c) \subseteq 1 .. frame[c].sent
           /\ IsFiniteSet(Numbers(K, c))
<1>1. frame[c].sent \in Nat
    BY DEF ToolTyped, Frames, Actors
<1>2. K \subseteq SentKeys
    BY DEF KeysApart
<1>3. Numbers(K, c) \subseteq 1 .. frame[c].sent
    BY <1>2 DEF Numbers, SentKeys
<1>4. IsFiniteSet(1 .. frame[c].sent)
    BY <1>1, Tally
<1> QED
    BY <1>3, <1>4, FS_Subset

LEMMA PlaceSizes ==
    ASSUME ToolTyped, FramesFit, KeysApart, NEW c \in Callers
    PROVE  /\ IsFiniteSet(QueuedOf(c))
           /\ Cardinality(QueuedOf(c)) = Cardinality(Numbers(KeysIn(queue), c))
           /\ IsFiniteSet(RunningOf(c))
           /\ Cardinality(RunningOf(c)) = Cardinality(Numbers(RunKeys, c))
           /\ IsFiniteSet(Mine(c))
           /\ Cardinality(Mine(c)) = Cardinality(Numbers(ReadyKeys, c))
<1>1. /\ IsFiniteSet(Numbers(KeysIn(queue), c)) /\ IsFiniteSet(Numbers(RunKeys, c))
      /\ IsFiniteSet(Numbers(ReadyKeys, c))
    BY NumbersSent
<1>2. /\ IsFiniteSet(QueuedOf(c))
      /\ Cardinality(QueuedOf(c)) = Cardinality(Numbers(KeysIn(queue), c))
    <2> DEFINE f == [i \in QueuedOf(c) |-> queue[i].slot]
    <2>1. \A i \in 1 .. Len(queue) : queue[i] \in TaskSet
        BY DEF ToolTyped
    <2>2. f \in [QueuedOf(c) -> Numbers(KeysIn(queue), c)]
        BY <2>1 DEF QueuedOf, Numbers, KeysIn, TaskKey, TaskSet
    <2>3. \A i, j \in QueuedOf(c) : f[i] = f[j] => i = j
        BY DEF QueuedOf, KeysApart, KeyedOnce, TaskKey
    <2>4. \A n \in Numbers(KeysIn(queue), c) : \E i \in QueuedOf(c) : f[i] = n
        BY DEF QueuedOf, Numbers, KeysIn, TaskKey
    <2> HIDE DEF f
    <2> QED
        BY <1>1, <2>2, <2>3, <2>4, SameSize
<1>3. /\ IsFiniteSet(RunningOf(c))
      /\ Cardinality(RunningOf(c)) = Cardinality(Numbers(RunKeys, c))
    <2> DEFINE f == [w \in RunningOf(c) |-> frame[w].task.slot]
    <2>1. \A w \in TaskRuns : frame[w].task \in TaskSet
        BY DEF FramesFit, TaskRuns
    <2>2. f \in [RunningOf(c) -> Numbers(RunKeys, c)]
        BY <2>1 DEF RunningOf, TaskRuns, Numbers, RunKeys, TaskKey, TaskSet
    <2>3. \A v, w \in RunningOf(c) : f[v] = f[w] => v = w
        BY DEF RunningOf, TaskRuns, KeysApart, TaskKey
    <2>4. \A n \in Numbers(RunKeys, c) : \E w \in RunningOf(c) : f[w] = n
        BY DEF RunningOf, TaskRuns, Numbers, RunKeys, TaskKey
    <2> HIDE DEF f
    <2> QED
        BY <1>1, <2>2, <2>3, <2>4, SameSize
<1>4. /\ IsFiniteSet(Mine(c))
      /\ Cardinality(Mine(c)) = Cardinality(Numbers(ReadyKeys, c))
    <2> DEFINE f == [t \in Mine(c) |-> t.slot]
    <2>1. \A t \in ready : t \in TaskSet
        BY DEF ToolTyped
    <2>2. f \in [Mine(c) -> Numbers(ReadyKeys, c)]
        BY <2>1 DEF Mine, Numbers, ReadyKeys, TaskKey, TaskSet
    <2>3. \A s, t \in Mine(c) : f[s] = f[t] => s = t
        BY DEF Mine, KeysApart, TaskKey
    <2>4. \A n \in Numbers(ReadyKeys, c) : \E t \in Mine(c) : f[t] = n
        BY DEF Mine, Numbers, ReadyKeys, TaskKey
    <2> HIDE DEF f
    <2> QED
        BY <1>1, <2>2, <2>3, <2>4, SameSize
<1> QED
    BY <1>2, <1>3, <1>4

\* The invariant gives TaskOnce: three sets apart whose union is 1 .. sent.
LEMMA KeysGiveOnce ==
    ASSUME ToolTyped, FramesFit, KeysApart PROVE TaskOnce
<1> DEFINE Q(a) == Numbers(KeysIn(queue), a)
           R(a) == Numbers(RunKeys, a)
           M(a) == Numbers(ReadyKeys, a)
<1>1. ASSUME NEW a \in Actors
      PROVE  /\ {queue[i].slot : i \in QueuedOf(a)} = Q(a)
             /\ {frame[w].task.slot : w \in RunningOf(a)} = R(a)
             /\ {f.slot : f \in Mine(a)} = M(a)
    <2>1. \A i \in 1 .. Len(queue) : queue[i] \in TaskSet
        BY DEF ToolTyped
    <2>2. \A w \in TaskRuns : frame[w].task \in TaskSet
        BY DEF FramesFit, TaskRuns
    <2>3. \A f \in ready : f \in TaskSet
        BY DEF ToolTyped
    <2>4. {queue[i].slot : i \in QueuedOf(a)} = Q(a)
        BY <2>1 DEF QueuedOf, Numbers, KeysIn, TaskKey, TaskSet
    <2>5. {frame[w].task.slot : w \in RunningOf(a)} = R(a)
        BY <2>2 DEF RunningOf, TaskRuns, Numbers, RunKeys, TaskKey, TaskSet
    <2>6. {f.slot : f \in Mine(a)} = M(a)
        BY <2>3 DEF Mine, Numbers, ReadyKeys, TaskKey, TaskSet
    <2> QED
        BY <2>4, <2>5, <2>6
<1>2. ASSUME NEW c \in Callers
      PROVE  Cardinality(QueuedOf(c)) + Cardinality(RunningOf(c)) + Cardinality(Mine(c))
                 = frame[c].sent
    <2>1. /\ Q(c) \intersect R(c) = {} /\ Q(c) \intersect M(c) = {}
          /\ R(c) \intersect M(c) = {}
        BY DEF KeysApart, Numbers
    <2>2. frame[c].sent \in Nat
        BY DEF ToolTyped, Frames, Actors
    <2>3. Q(c) \union R(c) \union M(c) = 1 .. frame[c].sent
        BY <2>2 DEF KeysApart, Numbers, SentKeys
    <2>4. IsFiniteSet(Q(c)) /\ IsFiniteSet(R(c)) /\ IsFiniteSet(M(c))
        BY NumbersSent
    <2>5. Cardinality(1 .. frame[c].sent) = frame[c].sent
        BY <2>2, Tally
    <2> HIDE DEF Q, R, M
    <2>6. /\ IsFiniteSet(Q(c) \union R(c))
          /\ Cardinality(Q(c) \union R(c)) = Cardinality(Q(c)) + Cardinality(R(c))
        <3>1. Cardinality(Q(c) \union R(c))
                  = Cardinality(Q(c)) + Cardinality(R(c)) - Cardinality({})
            BY <2>1, <2>4, FS_Union
        <3>2. Cardinality(Q(c)) \in Nat /\ Cardinality(R(c)) \in Nat
            BY <2>4, FS_CardinalityType
        <3>3. IsFiniteSet(Q(c) \union R(c))
            BY <2>4, FS_Union
        <3> QED
            BY <3>1, <3>2, <3>3, FS_EmptySet
    <2>7. Cardinality(Q(c) \union R(c) \union M(c))
              = Cardinality(Q(c) \union R(c)) + Cardinality(M(c))
        <3>1. (Q(c) \union R(c)) \intersect M(c) = {}
            BY <2>1
        <3>2. Cardinality(Q(c) \union R(c) \union M(c))
                  = Cardinality(Q(c) \union R(c)) + Cardinality(M(c)) - Cardinality({})
            BY <2>4, <2>6, <3>1, FS_Union
        <3>3. Cardinality(Q(c) \union R(c)) \in Nat /\ Cardinality(M(c)) \in Nat
            BY <2>4, <2>6, FS_CardinalityType
        <3> QED
            BY <3>2, <3>3, FS_EmptySet
    <2>8. /\ Cardinality(QueuedOf(c)) = Cardinality(Q(c))
          /\ Cardinality(RunningOf(c)) = Cardinality(R(c))
          /\ Cardinality(Mine(c)) = Cardinality(M(c))
        BY PlaceSizes DEF Q, R, M
    <2> QED
        BY <2>3, <2>5, <2>6, <2>7, <2>8
<1>3. ASSUME NEW c \in Callers PROVE Q(c) \union R(c) \union M(c) = 1 .. frame[c].sent
    <2>1. frame[c].sent \in Nat
        BY DEF ToolTyped, Frames, Actors
    <2> QED
        BY <2>1 DEF KeysApart, Numbers, SentKeys
<1>4. ASSUME NEW w \in Workers
      PROVE  /\ frame[w].sent = 0
             /\ QueuedOf(w) = {} /\ RunningOf(w) = {} /\ Mine(w) = {}
    <2>1. w \notin Callers /\ w \in Actors
        BY ActorKinds
    <2>2. frame[w].sent = 0
        BY <2>1 DEF FramesFit
    <2>3. QueuedOf(w) = {}
        <3>1. \A i \in 1 .. Len(queue) : queue[i] \in TaskSet
            BY DEF ToolTyped
        <3> QED
            BY <2>1, <3>1 DEF QueuedOf, TaskSet
    <2>4. RunningOf(w) = {}
        BY <2>1 DEF RunningOf, FramesFit, TaskSet
    <2>5. Mine(w) = {}
        BY <2>1 DEF Mine, ToolTyped, TaskSet
    <2> QED
        BY <2>2, <2>3, <2>4, <2>5
<1> HIDE DEF Q, R, M
<1>5. ASSUME NEW a \in Actors
      PROVE  /\ Cardinality(QueuedOf(a)) + Cardinality(RunningOf(a)) + Cardinality(Mine(a))
                    = frame[a].sent
             /\ {queue[i].slot : i \in QueuedOf(a)}
                  \union {frame[w].task.slot : w \in RunningOf(a)}
                  \union {f.slot : f \in Mine(a)} = 1 .. frame[a].sent
    <2>1. CASE a \in Callers
        BY <2>1, <1>1, <1>2, <1>3
    <2>2. CASE a \in Workers
        <3>1. Cardinality({}) = 0 /\ 1 .. 0 = {}
            BY FS_EmptySet
        <3>2. /\ {queue[i].slot : i \in {}} = {}
              /\ {frame[w].task.slot : w \in {}} = {}
              /\ {f.slot : f \in {}} = {}
            OBVIOUS
        <3>3. frame[a].sent = 0 /\ QueuedOf(a) = {} /\ RunningOf(a) = {} /\ Mine(a) = {}
            BY <2>2, <1>4
        <3> QED
            BY <3>1, <3>2, <3>3
    <2> QED
        BY <2>1, <2>2 DEF Actors
<1> QED
    BY <1>5 DEF TaskOnce, QueuedOf, RunningOf

-----------------------------------------------------------------------------
\* No task changes its place and no batch grows or ends.
LEMMA KeysUnmoved ==
    ASSUME KeysApart, UNCHANGED <<queue, ready>>, TaskRuns' = TaskRuns,
           \A w \in TaskRuns : frame'[w].task = frame[w].task,
           \A c \in Callers : frame'[c].sent = frame[c].sent
    PROVE  KeysApart'
<1>1. SentKeys' = SentKeys
    BY DEF SentKeys
<1>2. RunKeys' = RunKeys
    BY DEF RunKeys
<1>3. KeysIn(queue)' = KeysIn(queue) /\ ReadyKeys' = ReadyKeys
    BY DEF KeysIn, ReadyKeys
<1>4. KeyedOnce(queue)'
    BY DEF KeysApart, KeyedOnce
<1>5. \A v, w \in TaskRuns' : TaskKey(frame'[v].task) = TaskKey(frame'[w].task) => v = w
    BY DEF KeysApart
<1>6. \A f, g \in ready' : TaskKey(f) = TaskKey(g) => f = g
    BY DEF KeysApart
<1> QED
    BY <1>1, <1>2, <1>3, <1>4, <1>5, <1>6 DEF KeysApart

LEMMA EnterKeeps ==
    ASSUME ToolTyped, FramesFit, KeysApart, NEW c \in Callers, NEW f \in Frames,
           f.sent = 0, f.pc # "rate", Enter(c, f), UNCHANGED poolVars
    PROVE  ToolTyped' /\ FramesFit' /\ KeysApart'
<1> USE DEF poolVars
<1>1. c \in Actors /\ c \notin Workers /\ frame[c].pc = "idle"
    BY ActorKinds DEF Enter
<1>2. /\ frame' \in [Actors -> Frames] /\ frame'[c] = f
      /\ \A b \in Actors : b # c => frame'[b] = frame[b]
    BY <1>1, OneFrame DEF Enter, ToolTyped
<1>3. \A w \in Workers : frame'[w] = frame[w] /\ w \in Actors
    BY <1>1, <1>2, ActorKinds
<1>4. frame[c].sent = 0
    BY <1>1 DEF FramesFit
<1>5. \A b \in Callers : frame'[b].sent = frame[b].sent
    BY <1>2, <1>4, ActorKinds
<1>6. ToolTyped'
    BY <1>2 DEF ToolTyped
<1>7. FramesFit'
    BY <1>2, <1>3 DEF FramesFit
<1>8. TaskRuns' = TaskRuns /\ \A w \in TaskRuns : frame'[w].task = frame[w].task
    BY <1>3 DEF TaskRuns
<1> QED
    BY <1>5, <1>6, <1>7, <1>8, KeysUnmoved

LEMMA GotoKeeps ==
    ASSUME ToolTyped, FramesFit, KeysApart, NEW a \in Actors,
           NEW pc \in {"rate", "exec"}, frame[a].pc \in {"get", "rate"},
           pc = "rate" => frame[a].tool \in Tools, Goto(a, pc), UNCHANGED queue
    PROVE  ToolTyped' /\ FramesFit' /\ KeysApart'
<1> DEFINE g == [frame[a] EXCEPT !.pc = pc]
<1>1. frame[a] \in Frames /\ frame[a].sent = 0
    BY DEF ToolTyped, FramesFit
<1>2. /\ g \in Frames /\ g.pc = pc /\ g.tool = frame[a].tool /\ g.sent = 0
      /\ g.task = frame[a].task
    BY <1>1 DEF Frames, Pcs
<1>3. frame' = [frame EXCEPT ![a] = g] /\ UNCHANGED <<ready, loop>>
    BY DEF Goto
<1> HIDE DEF g
<1>4. /\ frame' \in [Actors -> Frames] /\ frame'[a] = g
      /\ \A b \in Actors : b # a => frame'[b] = frame[b]
    BY <1>2, <1>3, OneFrame DEF ToolTyped
<1>5. ToolTyped'
    BY <1>3, <1>4 DEF ToolTyped
<1>6. FramesFit'
    <2>1. \A b \in Actors : frame'[b].pc = "rate" => frame'[b].tool \in Tools
        BY <1>2, <1>4 DEF FramesFit
    <2>2. \A b \in Actors : frame'[b].pc \notin {"push", "notify"} => frame'[b].sent = 0
        BY <1>2, <1>4 DEF FramesFit
    <2>3. ASSUME NEW w \in Workers
          PROVE  /\ frame'[w].pc \in {"idle", "get", "rate", "exec"}
                 /\ loop'[w] = "task" <=> frame'[w].pc # "idle"
                 /\ loop'[w] = "task" => frame'[w].task \in TaskSet
        <3>1. w \in Actors
            BY ActorKinds
        <3> QED
            BY <1>2, <1>3, <1>4, <3>1 DEF FramesFit
    <2> QED
        BY <2>1, <2>2, <2>3 DEF FramesFit
<1>7. TaskRuns' = TaskRuns
    BY <1>3 DEF TaskRuns
<1>8. \A b \in Actors : frame'[b].task = frame[b].task /\ frame'[b].sent = frame[b].sent
    BY <1>1, <1>2, <1>4
<1>9. /\ \A w \in TaskRuns : frame'[w].task = frame[w].task
      /\ \A c \in Callers : frame'[c].sent = frame[c].sent
    BY <1>8, ActorKinds DEF TaskRuns
<1> QED
    BY <1>3, <1>5, <1>6, <1>7, <1>9, KeysUnmoved

\* A pool thread's task leaves the thread for its future; a caller's Call has
\* sent nothing.
LEMMA ReturnKeeps ==
    ASSUME ToolTyped, FramesFit, KeysApart, NEW a \in Actors,
           frame[a].pc \in {"get", "rate", "exec"}, Return(a), UNCHANGED queue
    PROVE  ToolTyped' /\ FramesFit' /\ KeysApart'
<1>1. frame[a] \in Frames /\ frame[a].sent = 0
    BY DEF ToolTyped, FramesFit
<1>2. /\ frame' \in [Actors -> Frames] /\ frame'[a] = Idle
      /\ \A b \in Actors : b # a => frame'[b] = frame[b]
    BY IdleFrame, OneFrame DEF ToolTyped, Return
<1>3. \A b \in Actors : frame'[b].sent = frame[b].sent
    BY <1>1, <1>2, IdleFrame
<1>4. /\ \A b \in Actors : frame'[b].pc = "rate" => frame'[b].tool \in Tools
      /\ \A b \in Actors : frame'[b].pc \notin {"push", "notify"} => frame'[b].sent = 0
    BY <1>2, IdleFrame DEF FramesFit
<1>5. SentKeys' = SentKeys
    BY <1>3, ActorKinds DEF SentKeys
<1>6. CASE a \in Workers
    <2> DEFINE k == frame[a].task
    <2>1. loop[a] = "task" /\ k \in TaskSet /\ a \in TaskRuns
        BY <1>6 DEF FramesFit, TaskRuns
    <2>2. ready' = ready \union {k} /\ loop' = [loop EXCEPT ![a] = "test"]
        BY <1>6 DEF Return
    <2>3. /\ loop'[a] = "test" /\ \A w \in Workers : w # a => loop'[w] = loop[w]
          /\ loop' \in [Workers -> {"test", "asleep", "task", "exited"}]
        BY <1>6, <2>2 DEF ToolTyped
    <2>4. TaskRuns' = TaskRuns \ {a}
        BY <2>3 DEF TaskRuns
    <2>5. TaskKey(k) \in RunKeys
        BY <2>1 DEF RunKeys
    <2>6. \A w \in TaskRuns : w # a => TaskKey(frame[w].task) # TaskKey(k)
        BY <2>1 DEF KeysApart
    <2> HIDE DEF k
    <2>7. \A w \in TaskRuns' : frame'[w].task = frame[w].task /\ w # a /\ w \in TaskRuns
        BY <1>2, <2>4, ActorKinds DEF TaskRuns
    <2>8. RunKeys' = RunKeys \ {TaskKey(k)}
        <3>1. RunKeys' = {TaskKey(frame[w].task) : w \in TaskRuns \ {a}}
            BY <2>4, <2>7 DEF RunKeys
        <3>2. TaskKey(frame[a].task) = TaskKey(k)
            BY DEF k
        <3> QED
            BY <3>1, <3>2, <2>6 DEF RunKeys
    <2>9. ReadyKeys' = ReadyKeys \union {TaskKey(k)}
        BY <2>2 DEF ReadyKeys
    <2>10. KeysIn(queue)' = KeysIn(queue) /\ KeyedOnce(queue)'
        BY DEF KeysApart, KeysIn, KeyedOnce
    <2>11. \A v, w \in TaskRuns' : TaskKey(frame'[v].task) = TaskKey(frame'[w].task) => v = w
        BY <2>7 DEF KeysApart
    <2>12. \A f \in ready : TaskKey(f) # TaskKey(k)
        BY <2>5 DEF KeysApart, ReadyKeys
    <2>13. \A f, g \in ready' : TaskKey(f) = TaskKey(g) => f = g
        BY <2>2, <2>12 DEF KeysApart
    <2>14. KeysApart'
        BY <1>5, <2>5, <2>8, <2>9, <2>10, <2>11, <2>13 DEF KeysApart
    <2>15. ToolTyped'
        BY <1>2, <2>1, <2>2, <2>3 DEF ToolTyped
    <2>16. FramesFit'
        <3>1. ASSUME NEW w \in Workers
              PROVE  /\ frame'[w].pc \in {"idle", "get", "rate", "exec"}
                     /\ loop'[w] = "task" <=> frame'[w].pc # "idle"
                     /\ loop'[w] = "task" => frame'[w].task \in TaskSet
            BY <1>2, <2>3, ActorKinds, IdleFrame DEF FramesFit
        <3> QED
            BY <1>4, <3>1 DEF FramesFit
    <2> QED
        BY <2>14, <2>15, <2>16
<1>7. CASE a \notin Workers
    <2>1. UNCHANGED <<ready, loop>>
        BY <1>7 DEF Return
    <2>2. \A w \in Workers : frame'[w] = frame[w]
        BY <1>2, <1>7, ActorKinds
    <2>3. ToolTyped'
        BY <1>2, <2>1 DEF ToolTyped
    <2>4. FramesFit'
        BY <1>4, <2>1, <2>2 DEF FramesFit
    <2>5. TaskRuns' = TaskRuns
        BY <2>1 DEF TaskRuns
    <2>6. /\ \A w \in TaskRuns : frame'[w].task = frame[w].task
          /\ \A c \in Callers : frame'[c].sent = frame[c].sent
        BY <1>3, <2>2, ActorKinds DEF TaskRuns
    <2> QED
        BY <2>1, <2>3, <2>4, <2>5, <2>6, KeysUnmoved
<1> QED
    BY <1>6, <1>7

\* A batch's next task goes to the end of the queue.
LEMMA PushKeeps ==
    ASSUME ToolTyped, FramesFit, KeysApart, NEW a \in Actors, Push(a)
    PROVE  ToolTyped' /\ FramesFit' /\ KeysApart'
<1> DEFINE n == frame[a].sent + 1
           f == Task(a, n, Head(frame[a].todo))
           g == [frame[a] EXCEPT !.pc = "notify", !.todo = Tail(@), !.sent = n]
<1>1. frame[a].pc = "push" /\ frame[a].todo # <<>>
    BY DEF Push
<1>2. a \in Callers /\ a \notin Workers
    BY <1>1, ActorKinds DEF FramesFit, Actors
<1>3. /\ frame[a] \in Frames /\ frame[a].todo \in Seq(Tools) /\ frame[a].sent \in Nat
      /\ Head(frame[a].todo) \in Tools /\ Tail(frame[a].todo) \in Seq(Tools) /\ n \in Nat
    BY <1>1 DEF ToolTyped, Frames
<1>4. f \in TaskSet /\ TaskKey(f) = <<a, n>>
    BY <1>2, <1>3 DEF Task, TaskSet, TaskKey
<1>5. g \in Frames /\ g.pc = "notify" /\ g.sent = n
    BY <1>3 DEF Frames, Pcs
<1>6. /\ queue' = Append(queue, f) /\ frame' = [frame EXCEPT ![a] = g]
      /\ UNCHANGED <<loop, ready>>
    BY DEF Push
<1> HIDE DEF f, g
<1>7. /\ frame' \in [Actors -> Frames] /\ frame'[a] = g
      /\ \A b \in Actors : b # a => frame'[b] = frame[b]
    BY <1>5, <1>6, OneFrame DEF ToolTyped
<1>8. TaskKey(f) \notin SentKeys
    BY <1>3, <1>4 DEF SentKeys
<1>9. /\ queue' \in Seq(TaskSet) /\ KeysIn(queue)' = KeysIn(queue) \union {TaskKey(f)}
      /\ KeyedOnce(queue)'
    <2>1. queue \in Seq(TaskSet) /\ KeyedOnce(queue) /\ TaskKey(f) \notin KeysIn(queue)
        BY <1>8 DEF ToolTyped, KeysApart
    <2> DEFINE q == Append(queue, f)
    <2>2. q \in Seq(TaskSet) /\ KeysIn(q) = KeysIn(queue) \union {TaskKey(f)} /\ KeyedOnce(q)
        BY <1>4, <2>1, PushKeys
    <2>3. queue' = q
        BY <1>6
    <2> HIDE DEF q
    <2> QED
        BY <2>2, <2>3 DEF KeysIn, KeyedOnce
<1>10. \A w \in Workers : frame'[w] = frame[w]
    BY <1>2, <1>7, ActorKinds
<1>11. TaskRuns' = TaskRuns /\ RunKeys' = RunKeys
    BY <1>6, <1>10 DEF TaskRuns, RunKeys
<1>12. ReadyKeys' = ReadyKeys
    BY <1>6 DEF ReadyKeys
<1>13. SentKeys' = SentKeys \union {TaskKey(f)}
    <2>1. \A c \in Callers : frame'[c].sent = IF c = a THEN n ELSE frame[c].sent
        BY <1>5, <1>7, ActorKinds
    <2>2. 1 .. n = (1 .. frame[a].sent) \union {n}
        BY <1>3
    <2> QED
        BY <1>2, <1>3, <1>4, <2>1, <2>2 DEF SentKeys
<1>14. KeysApart'
    <2>1. \A v, w \in TaskRuns' : TaskKey(frame'[v].task) = TaskKey(frame'[w].task) => v = w
        BY <1>10, <1>11 DEF KeysApart, TaskRuns
    <2>2. \A x, y \in ready' : TaskKey(x) = TaskKey(y) => x = y
        BY <1>6 DEF KeysApart
    <2>3. TaskKey(f) \notin RunKeys /\ TaskKey(f) \notin ReadyKeys
        BY <1>8 DEF KeysApart
    <2> QED
        BY <1>9, <1>11, <1>12, <1>13, <2>1, <2>2, <2>3 DEF KeysApart
<1>15. ToolTyped'
    BY <1>6, <1>7, <1>9 DEF ToolTyped
<1>16. FramesFit'
    <2>1. /\ \A b \in Actors : frame'[b].pc = "rate" => frame'[b].tool \in Tools
          /\ \A b \in Actors : frame'[b].pc \notin {"push", "notify"} => frame'[b].sent = 0
        BY <1>5, <1>7 DEF FramesFit
    <2> QED
        BY <1>6, <1>10, <2>1 DEF FramesFit
<1> QED
    BY <1>14, <1>15, <1>16

\* A notification wakes a sleeper, which has no task.
LEMMA NotifyKeeps ==
    ASSUME ToolTyped, FramesFit, KeysApart, NEW a \in Actors, Notify(a)
    PROVE  ToolTyped' /\ FramesFit' /\ KeysApart'
<1> DEFINE g == [frame[a] EXCEPT !.pc = "push"]
<1>1. /\ frame[a].pc = "notify" /\ frame' = [frame EXCEPT ![a] = g]
      /\ UNCHANGED <<queue, ready>>
    BY DEF Notify
<1>2. a \in Callers /\ a \notin Workers /\ frame[a] \in Frames
    BY <1>1, ActorKinds DEF FramesFit, Actors, ToolTyped
<1>3. g \in Frames /\ g.pc = "push" /\ g.sent = frame[a].sent
    BY <1>2 DEF Frames, Pcs
<1> HIDE DEF g
<1>4. /\ frame' \in [Actors -> Frames] /\ frame'[a] = g
      /\ \A b \in Actors : b # a => frame'[b] = frame[b]
    BY <1>1, <1>3, OneFrame DEF ToolTyped
<1>5. /\ loop' \in [Workers -> {"test", "asleep", "task", "exited"}]
      /\ \A w \in Workers : loop'[w] = "task" <=> loop[w] = "task"
    <2>1. CASE UNCHANGED loop
        BY <2>1 DEF ToolTyped
    <2>2. CASE \E w \in Workers : loop[w] = "asleep" /\ loop' = [loop EXCEPT ![w] = "test"]
        BY <2>2 DEF ToolTyped
    <2> QED
        BY <2>1, <2>2 DEF Notify
<1>6. \A w \in Workers : frame'[w] = frame[w]
    BY <1>2, <1>4, ActorKinds
<1>7. TaskRuns' = TaskRuns /\ \A w \in TaskRuns : frame'[w].task = frame[w].task
    BY <1>5, <1>6 DEF TaskRuns
<1>8. \A c \in Callers : frame'[c].sent = frame[c].sent
    BY <1>3, <1>4, ActorKinds
<1>9. ToolTyped'
    BY <1>1, <1>4, <1>5 DEF ToolTyped
<1>10. FramesFit'
    <2>1. /\ \A b \in Actors : frame'[b].pc = "rate" => frame'[b].tool \in Tools
          /\ \A b \in Actors : frame'[b].pc \notin {"push", "notify"} => frame'[b].sent = 0
        BY <1>3, <1>4 DEF FramesFit
    <2> QED
        BY <1>5, <1>6, <2>1 DEF FramesFit
<1> QED
    BY <1>1, <1>7, <1>8, <1>9, <1>10, KeysUnmoved

\* The futures of a batch are all set, so nothing of it is elsewhere.
LEMMA AwaitKeeps ==
    ASSUME ToolTyped, FramesFit, KeysApart, NEW a \in Actors, Await(a)
    PROVE  ToolTyped' /\ FramesFit' /\ KeysApart'
<1>1. /\ frame[a].pc = "push" /\ Cardinality(Mine(a)) = frame[a].sent
      /\ frame' = [frame EXCEPT ![a] = Idle] /\ UNCHANGED queue
    BY DEF Await
<1>2. a \in Callers /\ a \notin Workers /\ frame[a] \in Frames /\ frame[a].sent \in Nat
    BY <1>1, ActorKinds DEF FramesFit, Actors, ToolTyped, Frames
<1>3. ready' = ready \ Mine(a) /\ loop' = loop
    BY <1>2 DEF Await
<1>4. /\ frame' \in [Actors -> Frames] /\ frame'[a] = Idle
      /\ \A b \in Actors : b # a => frame'[b] = frame[b]
    BY <1>1, IdleFrame, OneFrame DEF ToolTyped
<1>5. Numbers(ReadyKeys, a) = 1 .. frame[a].sent
    <2>1. /\ Numbers(ReadyKeys, a) \subseteq 1 .. frame[a].sent
          /\ Cardinality(Numbers(ReadyKeys, a)) = frame[a].sent
        BY <1>1, <1>2, NumbersSent, PlaceSizes
    <2>2. Cardinality(1 .. frame[a].sent) = frame[a].sent
        BY <1>2, Tally
    <2>3. IsFiniteSet(1 .. frame[a].sent)
        BY <1>2, Tally
    <2> QED
        BY <2>1, <2>2, <2>3, FS_Subset
<1>6. \A k \in KeysIn(queue) \union RunKeys : k[1] # a
    <2> SUFFICES ASSUME NEW k \in KeysIn(queue) \union RunKeys, k[1] = a
                 PROVE  FALSE
        OBVIOUS
    <2>1. k \in SentKeys /\ k \notin ReadyKeys
        BY DEF KeysApart
    <2>2. k = <<a, k[2]>> /\ k[2] \in 1 .. frame[a].sent
        BY <2>1 DEF SentKeys
    <2> QED
        BY <1>5, <2>1, <2>2 DEF Numbers
<1>7. SentKeys' = {k \in SentKeys : k[1] # a}
    <2>1. \A c \in Callers : frame'[c].sent = IF c = a THEN 0 ELSE frame[c].sent
        BY <1>4, IdleFrame, ActorKinds
    <2>2. 1 .. 0 = {}
        OBVIOUS
    <2> QED
        BY <2>1, <2>2 DEF SentKeys
<1>8. ReadyKeys' = {k \in ReadyKeys : k[1] # a}
    BY <1>3 DEF ReadyKeys, Mine, TaskKey
<1>9. \A w \in Workers : frame'[w] = frame[w]
    BY <1>2, <1>4, ActorKinds
<1>10. TaskRuns' = TaskRuns /\ RunKeys' = RunKeys
    BY <1>3, <1>9 DEF TaskRuns, RunKeys
<1>11. KeysIn(queue)' = KeysIn(queue) /\ KeyedOnce(queue)'
    BY <1>1 DEF KeysApart, KeysIn, KeyedOnce
<1>12. KeysApart'
    <2>1. \A v, w \in TaskRuns' : TaskKey(frame'[v].task) = TaskKey(frame'[w].task) => v = w
        BY <1>9, <1>10 DEF KeysApart, TaskRuns
    <2>2. \A x, y \in ready' : TaskKey(x) = TaskKey(y) => x = y
        BY <1>3 DEF KeysApart
    <2>3. SentKeys' = KeysIn(queue) \union RunKeys \union ReadyKeys'
        BY <1>6, <1>7, <1>8 DEF KeysApart
    <2> QED
        BY <1>8, <1>10, <1>11, <2>1, <2>2, <2>3 DEF KeysApart
<1>13. ToolTyped'
    BY <1>1, <1>3, <1>4 DEF ToolTyped
<1>14. FramesFit'
    <2>1. /\ \A b \in Actors : frame'[b].pc = "rate" => frame'[b].tool \in Tools
          /\ \A b \in Actors : frame'[b].pc \notin {"push", "notify"} => frame'[b].sent = 0
        BY <1>4, IdleFrame DEF FramesFit
    <2> QED
        BY <1>3, <1>9, <2>1 DEF FramesFit
<1> QED
    BY <1>12, <1>13, <1>14

\* The head of the queue goes to the thread that found it.
LEMMA TakeKeeps ==
    ASSUME ToolTyped, FramesFit, KeysApart, NEW w \in Workers, loop[w] = "test", Take(w),
           UNCHANGED ready
    PROVE  ToolTyped' /\ FramesFit' /\ KeysApart'
<1> DEFINE f == Head(queue)
           g == [Idle EXCEPT !.pc = "get", !.tool = f.tool, !.task = f]
<1>1. /\ queue # <<>> /\ loop' = [loop EXCEPT ![w] = "task"]
      /\ frame' = [frame EXCEPT ![w] = g] /\ queue' = Tail(queue)
    BY DEF Take
<1>2. /\ Tail(queue) \in Seq(TaskSet) /\ f \in TaskSet
      /\ TaskKey(f) \in KeysIn(queue)
      /\ KeysIn(Tail(queue)) = KeysIn(queue) \ {TaskKey(f)}
      /\ KeyedOnce(Tail(queue))
    BY <1>1, TakeKeys DEF ToolTyped, KeysApart
<1> HIDE DEF f
<1>3. f.tool \in Tools
    BY <1>2 DEF TaskSet
<1>4. g \in Frames /\ g.pc = "get" /\ g.sent = 0 /\ g.task = f
    BY <1>2, <1>3, IdleFrame DEF Frames, Pcs
<1> HIDE DEF g
<1>5. w \in Actors /\ w \notin Callers
    BY ActorKinds
<1>6. /\ frame' \in [Actors -> Frames] /\ frame'[w] = g
      /\ \A b \in Actors : b # w => frame'[b] = frame[b]
    BY <1>1, <1>4, <1>5, OneFrame DEF ToolTyped
<1>7. /\ loop' \in [Workers -> {"test", "asleep", "task", "exited"}] /\ loop'[w] = "task"
      /\ \A v \in Workers : v # w => loop'[v] = loop[v]
    BY <1>1 DEF ToolTyped
<1>8. w \notin TaskRuns /\ TaskRuns' = TaskRuns \union {w}
    BY <1>7 DEF TaskRuns
<1>9. \A v \in TaskRuns : v # w /\ frame'[v].task = frame[v].task
    BY <1>6, <1>8, ActorKinds DEF TaskRuns
<1>10. RunKeys' = RunKeys \union {TaskKey(f)}
    <2>1. RunKeys' = {TaskKey(frame'[v].task) : v \in TaskRuns} \union {TaskKey(frame'[w].task)}
        BY <1>8 DEF RunKeys
    <2> QED
        BY <1>4, <1>6, <1>9, <2>1 DEF RunKeys
<1>11. KeysIn(queue)' = KeysIn(queue) \ {TaskKey(f)} /\ KeyedOnce(queue)'
    BY <1>1, <1>2 DEF KeysIn, KeyedOnce
<1>12. ReadyKeys' = ReadyKeys
    BY DEF ReadyKeys
<1>13. SentKeys' = SentKeys
    BY <1>5, <1>6, ActorKinds DEF SentKeys
<1>14. KeysApart'
    <2>1. TaskKey(f) \notin RunKeys /\ TaskKey(f) \notin ReadyKeys
        BY <1>2 DEF KeysApart
    <2>2. \A v \in TaskRuns : TaskKey(frame[v].task) # TaskKey(f)
        BY <2>1 DEF RunKeys
    <2>3. \A u, v \in TaskRuns' : TaskKey(frame'[u].task) = TaskKey(frame'[v].task) => u = v
        BY <1>4, <1>6, <1>8, <1>9, <2>2 DEF KeysApart
    <2>4. \A x, y \in ready' : TaskKey(x) = TaskKey(y) => x = y
        BY DEF KeysApart
    <2> QED
        BY <1>2, <1>10, <1>11, <1>12, <1>13, <2>1, <2>3, <2>4 DEF KeysApart
<1>15. ToolTyped'
    BY <1>1, <1>2, <1>6, <1>7 DEF ToolTyped
<1>16. FramesFit'
    <2>1. /\ \A b \in Actors : frame'[b].pc = "rate" => frame'[b].tool \in Tools
          /\ \A b \in Actors : frame'[b].pc \notin {"push", "notify"} => frame'[b].sent = 0
        BY <1>4, <1>6 DEF FramesFit
    <2>2. ASSUME NEW v \in Workers
          PROVE  /\ frame'[v].pc \in {"idle", "get", "rate", "exec"}
                 /\ loop'[v] = "task" <=> frame'[v].pc # "idle"
                 /\ loop'[v] = "task" => frame'[v].task \in TaskSet
        <3>1. CASE v = w
            BY <3>1, <1>2, <1>4, <1>6, <1>7
        <3>2. CASE v # w
            BY <3>2, <1>6, <1>7, ActorKinds DEF FramesFit
        <3> QED
            BY <3>1, <3>2
    <2> QED
        BY <2>1, <2>2 DEF FramesFit
<1> QED
    BY <1>14, <1>15, <1>16

-----------------------------------------------------------------------------
LEMMA ToolInvInit == ToolInit => ToolInv
<1> SUFFICES ASSUME ToolInit PROVE ToolInv
    OBVIOUS
<1> USE DEF ToolInit
<1>1. RegistryTyped
    BY DEF RegistryTyped
<1>2. \A a \in Actors : frame[a] = Idle
    OBVIOUS
<1>3. ToolTyped
    BY IdleFrame DEF ToolTyped
<1>4. FramesFit
    BY <1>2, IdleFrame, ActorKinds DEF FramesFit
<1>5. RateInv
    BY ToolAssumption DEF RateInv
<1>6. KeysApart
    <2>1. KeysIn(queue) = {} /\ KeyedOnce(queue)
        BY DEF KeysIn, KeyedOnce
    <2>2. TaskRuns = {} /\ RunKeys = {} /\ ReadyKeys = {}
        BY DEF TaskRuns, RunKeys, ReadyKeys
    <2>3. SentKeys = {}
        BY <1>2, IdleFrame, ActorKinds DEF SentKeys
    <2> QED
        BY <2>1, <2>2, <2>3 DEF KeysApart
<1> QED
    BY <1>1, <1>3, <1>4, <1>5, <1>6 DEF ToolInv

\* Two steps of RateCheck cannot let one call too many through: the call that
\* is let through is counted in the same step.
LEMMA RateCheckKeeps ==
    ASSUME RateInv, NEW a \in Actors, frame[a].tool \in Tools, RateCheck(a)
    PROVE  RateInv'
<1> DEFINE t == frame[a].tool
           n == IF open[t] THEN count[t] + 1 ELSE FirstOfWindow
           allowed == Limit = 0 \/ ~open[t] \/ n <= Limit
<1>1. /\ IF Limit = 0 THEN UNCHANGED <<count, open>>
         ELSE count' = [count EXCEPT ![t] = n] /\ open' = [open EXCEPT ![t] = TRUE]
      /\ granted' = IF allowed THEN [granted EXCEPT ![t] = @ + 1] ELSE granted
    BY DEF RateCheck
<1>2. /\ t \in Tools /\ Limit \in Nat /\ n \in Nat /\ n >= 1
      /\ open[t] => n = count[t] + 1
    BY ToolAssumption DEF FirstOfWindow, RateInv
<1>3. allowed <=> Limit = 0 \/ ~open[t] \/ n <= Limit
    OBVIOUS
<1> HIDE DEF t, n, allowed
<1>4. count' \in [Tools -> Nat] /\ open' \in [Tools -> BOOLEAN]
    BY <1>1, <1>2 DEF RateInv
<1>5. granted' \in [Tools -> Nat]
    BY <1>1, <1>2 DEF RateInv
<1>6. ASSUME Limit > 0, NEW u \in Tools
      PROVE  /\ granted'[u] <= Limit
             /\ open'[u] => granted'[u] <= count'[u]
             /\ ~open'[u] => granted'[u] = 0
    <2>1. count' = [count EXCEPT ![t] = n] /\ open' = [open EXCEPT ![t] = TRUE]
        BY <1>1, <1>2, <1>6
    <2>2. CASE u # t
        <3>1. count'[u] = count[u] /\ open'[u] = open[u] /\ granted'[u] = granted[u]
            BY <1>1, <1>2, <2>1, <2>2 DEF RateInv
        <3> QED
            BY <1>6, <3>1 DEF RateInv
    <2>3. CASE u = t
        <3>1. count'[u] = n /\ open'[u]
            BY <1>2, <2>1, <2>3 DEF RateInv
        <3>2. CASE allowed
            <4>1. granted'[u] = granted[t] + 1
                BY <1>1, <1>2, <2>3, <3>2 DEF RateInv
            <4>2. /\ granted[t] \in Nat
                  /\ open[t] => granted[t] <= count[t] /\ n <= Limit /\ count[t] \in Nat
                  /\ ~open[t] => granted[t] = 0
                BY <1>2, <1>3, <1>6, <3>2 DEF RateInv
            <4> QED
                BY <1>2, <1>6, <3>1, <4>1, <4>2
        <3>3. CASE ~allowed
            <4>1. granted'[u] = granted[t] /\ open[t]
                BY <1>1, <1>2, <1>3, <2>3, <3>3 DEF RateInv
            <4>2. granted[t] \in Nat /\ granted[t] <= Limit /\ granted[t] <= count[t]
                  /\ count[t] \in Nat
                BY <1>2, <1>6, <4>1 DEF RateInv
            <4> QED
                BY <1>2, <3>1, <4>1, <4>2
        <3> QED
            BY <3>2, <3>3
    <2> QED
        BY <2>2, <2>3
<1> QED
    BY <1>4, <1>5, <1>6 DEF RateInv

LEMMA RateKeptBy ==
    ASSUME RateInv, UNCHANGED <<count, open, granted>> PROVE RateInv'
<1> QED
    BY DEF RateInv

\* Every step keeps the invariant.
LEMMA ToolInvStep == ASSUME ToolInv, [ToolNext]_toolVars PROVE ToolInv'
<1> USE DEF ToolInv, rateVars
<1>1. ASSUME NEW c \in Callers, Entry(c) PROVE ToolInv'
    <2>1. ASSUME NEW t \in Tools, Call(c, t) PROVE ToolInv'
        <3> DEFINE f == [Idle EXCEPT !.pc = "get", !.tool = t]
        <3>1. f \in Frames /\ f.sent = 0 /\ f.pc # "rate"
            BY IdleFrame DEF Frames, Pcs
        <3>2. Enter(c, f) /\ UNCHANGED poolVars /\ UNCHANGED <<known, regMu, rateVars>>
            BY <2>1 DEF Call
        <3> HIDE DEF f
        <3>3. RegistryTyped' /\ RateInv'
            BY <3>2, RateKeptBy DEF RegistryTyped, poolVars
        <3> QED
            BY <3>1, <3>2, <3>3, EnterKeeps
    <2>2. ASSUME NEW ts \in Batches, BatchCall(c, ts) PROVE ToolInv'
        <3> DEFINE f == [Idle EXCEPT !.pc = "push", !.todo = ts]
        <3>1. f \in Frames /\ f.sent = 0 /\ f.pc # "rate"
            BY IdleFrame, ToolAssumption DEF Frames, Pcs
        <3>2. Enter(c, f) /\ UNCHANGED poolVars /\ UNCHANGED <<known, regMu, rateVars>>
            BY <2>2 DEF BatchCall
        <3> HIDE DEF f
        <3>3. RegistryTyped' /\ RateInv'
            BY <3>2, RateKeptBy DEF RegistryTyped, poolVars
        <3> QED
            BY <3>1, <3>2, <3>3, EnterKeeps
    <2>3. ASSUME NEW ids \in Files, LoadFromJSONL(c, ids) PROVE ToolInv'
        <3>1. /\ known' = known \union ids
              /\ UNCHANGED <<regMu, queue, stop, loop, ready, count, open, granted, frame>>
            BY <2>3 DEF LoadFromJSONL, poolVars
        <3>2. RegistryTyped' /\ RateInv'
            BY <3>1, RateKeptBy, ToolAssumption DEF RegistryTyped
        <3>3. ToolTyped' /\ FramesFit' /\ TaskRuns' = TaskRuns
            BY <3>1 DEF ToolTyped, FramesFit, TaskRuns
        <3> QED
            BY <3>1, <3>2, <3>3, KeysUnmoved
    <2>4. ASSUME NEW ids, ByType(c, ids) PROVE ToolInv'
        <3>1. /\ \E f \in {Idle, [Idle EXCEPT !.pc = "wedged"]} : Enter(c, f)
              /\ regMu' \in {Nobody, c}
              /\ UNCHANGED poolVars /\ UNCHANGED <<known, rateVars>>
            BY <2>4 DEF ByType
        <3>2. PICK f \in {Idle, [Idle EXCEPT !.pc = "wedged"]} : Enter(c, f)
            BY <3>1
        <3>3. f \in Frames /\ f.sent = 0 /\ f.pc # "rate"
            BY IdleFrame DEF Frames, Pcs
        <3>4. RegistryTyped' /\ RateInv'
            BY <3>1, RateKeptBy DEF RegistryTyped, poolVars
        <3> QED
            BY <3>1, <3>2, <3>3, <3>4, EnterKeeps
    <2> QED
        BY <1>1, <2>1, <2>2, <2>3, <2>4 DEF Entry
<1>2. ASSUME NEW a \in Actors, InCall(a) PROVE ToolInv'
    <2>1. CASE Get(a)
        <3>1. /\ frame[a].pc = "get" /\ UNCHANGED <<known, regMu, queue, stop, count, open, granted>>
              /\ Return(a) \/ (frame[a].tool \in known /\ Goto(a, "rate"))
            BY <2>1 DEF Get
        <3>2. RegistryTyped' /\ RateInv'
            BY <3>1, RateKeptBy DEF RegistryTyped
        <3>3. known \subseteq Tools
            BY DEF RegistryTyped
        <3>4. CASE Return(a)
            BY <3>1, <3>2, <3>4, ReturnKeeps
        <3>5. CASE frame[a].tool \in known /\ Goto(a, "rate")
            BY <3>1, <3>2, <3>3, <3>5, GotoKeeps
        <3> QED
            BY <3>1, <3>4, <3>5
    <2>2. CASE RateCheck(a)
        <3>1. /\ frame[a].pc = "rate" /\ UNCHANGED <<known, regMu, queue, stop>>
              /\ Goto(a, "exec") \/ Return(a)
            BY <2>2 DEF RateCheck
        <3>2. frame[a].tool \in Tools
            BY <3>1 DEF FramesFit
        <3>3. RateInv'
            BY <2>2, <3>2, RateCheckKeeps
        <3>4. RegistryTyped'
            BY <3>1 DEF RegistryTyped
        <3>5. ToolTyped' /\ FramesFit' /\ KeysApart'
            BY <3>1, GotoKeeps, ReturnKeeps
        <3> QED
            BY <3>3, <3>4, <3>5
    <2>3. CASE Exec(a)
        <3>1. /\ frame[a].pc = "exec" /\ Return(a)
              /\ UNCHANGED <<known, regMu, queue, stop, count, open, granted>>
            BY <2>3 DEF Exec, SubTools
        <3>2. RegistryTyped' /\ RateInv'
            BY <3>1, RateKeptBy DEF RegistryTyped
        <3> QED
            BY <3>1, <3>2, ReturnKeeps
    <2>4. CASE Push(a) \/ Notify(a) \/ Await(a)
        <3>1. UNCHANGED <<known, regMu, stop, count, open, granted>>
            BY <2>4 DEF Push, Notify, Await
        <3>2. RegistryTyped' /\ RateInv'
            BY <3>1, RateKeptBy DEF RegistryTyped
        <3> QED
            BY <2>4, <3>2, PushKeeps, NotifyKeeps, AwaitKeeps
    <2> QED
        BY <1>2, <2>1, <2>2, <2>3, <2>4 DEF InCall
<1>3. ASSUME NEW w \in Workers, WorkerTest(w) PROVE ToolInv'
    <2>1. /\ loop[w] = "test" /\ UNCHANGED <<known, regMu, stop, ready, count, open, granted>>
        BY <1>3 DEF WorkerTest
    <2>2. RegistryTyped' /\ RateInv'
        BY <2>1, RateKeptBy DEF RegistryTyped
    <2>3. CASE Take(w)
        BY <2>1, <2>2, <2>3, TakeKeeps
    <2>4. CASE /\ loop' = [loop EXCEPT ![w] = IF stop THEN "exited" ELSE "asleep"]
               /\ UNCHANGED <<queue, frame>>
        <3>1. /\ loop' \in [Workers -> {"test", "asleep", "task", "exited"}]
              /\ \A v \in Workers : loop'[v] = "task" <=> loop[v] = "task"
            BY <2>1, <2>4 DEF ToolTyped
        <3>2. ToolTyped' /\ FramesFit' /\ TaskRuns' = TaskRuns
            BY <2>1, <2>4, <3>1 DEF ToolTyped, FramesFit, TaskRuns
        <3> QED
            BY <2>1, <2>2, <2>4, <3>2, KeysUnmoved
    <2> QED
        BY <1>3, <2>3, <2>4 DEF WorkerTest
<1>4. CASE Destroy
    <2>1. /\ stop' = TRUE
          /\ UNCHANGED <<known, regMu, queue, frame, ready, count, open, granted>>
          /\ \E ws \in Woken :
               loop' = [w \in Workers |-> IF w \in ws /\ loop[w] = "asleep" THEN "test"
                                          ELSE loop[w]]
        BY <1>4 DEF Destroy
    <2>2. RegistryTyped' /\ RateInv'
        BY <2>1, RateKeptBy DEF RegistryTyped
    <2>3. /\ loop' \in [Workers -> {"test", "asleep", "task", "exited"}]
          /\ \A v \in Workers : loop'[v] = "task" <=> loop[v] = "task"
        BY <2>1 DEF ToolTyped
    <2>4. ToolTyped' /\ FramesFit' /\ TaskRuns' = TaskRuns
        BY <2>1, <2>3 DEF ToolTyped, FramesFit, TaskRuns
    <2> QED
        BY <2>1, <2>2, <2>4, KeysUnmoved
<1>5. ASSUME NEW t \in Tools, Expire(t) PROVE ToolInv'
    <2>1. /\ open' = [open EXCEPT ![t] = FALSE] /\ granted' = [granted EXCEPT ![t] = 0]
          /\ UNCHANGED <<known, regMu, queue, stop, loop, ready, frame, count>>
        BY <1>5 DEF Expire, poolVars
    <2>2. RegistryTyped' /\ ToolTyped' /\ FramesFit' /\ TaskRuns' = TaskRuns
        BY <2>1 DEF RegistryTyped, ToolTyped, FramesFit, TaskRuns
    <2>3. KeysApart'
        BY <2>1, <2>2, KeysUnmoved
    <2>4. RateInv'
        <3>1. /\ open' \in [Tools -> BOOLEAN] /\ granted' \in [Tools -> Nat]
              /\ ~open'[t] /\ granted'[t] = 0
              /\ \A u \in Tools : u # t => open'[u] = open[u] /\ granted'[u] = granted[u]
            BY <2>1 DEF RateInv
        <3> QED
            BY <2>1, <3>1, ToolAssumption DEF RateInv
    <2> QED
        BY <2>2, <2>3, <2>4
<1>6. CASE UNCHANGED toolVars
    <2>1. UNCHANGED <<known, regMu, queue, stop, loop, ready, frame, count, open, granted>>
        BY <1>6 DEF toolVars
    <2>2. RegistryTyped' /\ ToolTyped' /\ FramesFit' /\ TaskRuns' = TaskRuns
        BY <2>1 DEF RegistryTyped, ToolTyped, FramesFit, TaskRuns
    <2> QED
        BY <2>1, <2>2, KeysUnmoved, RateKeptBy
<1> QED
    BY <1>1, <1>2, <1>3, <1>4, <1>5, <1>6 DEF ToolNext

\* However calls, batches, windows and the destructor interleave: no window
\* lets more than rate_limit calls of a tool through (RateCheck), and every
\* task RunBatch has sent is in the queue, in one pool thread or in its set
\* future, exactly once, for every set of callers, pool size and set of
\* batches.
THEOREM ToolRuntimeSafe == ToolSpec => []ToolSafety
<1>1. ToolInv => ToolSafety
    <2> SUFFICES ASSUME ToolInv PROVE ToolSafety
        OBVIOUS
    <2>1. ToolTypeOK
        BY DEF ToolInv, RegistryTyped, ToolTyped, RateInv, ToolTypeOK, Frames, Pcs
    <2>2. RateKept
        BY DEF ToolInv, RateInv, RateKept
    <2>3. TaskOnce
        BY KeysGiveOnce DEF ToolInv
    <2> QED
        BY <2>1, <2>2, <2>3 DEF ToolSafety
<1>2. ToolInv /\ [ToolNext]_toolVars => ToolInv'
    BY ToolInvStep
<1> QED
    BY <1>1, <1>2, ToolInvInit, PTL DEF ToolSpec

-----------------------------------------------------------------------------
(* GPUModel                                                                   *)

CallerShape == [pc : {"out", "clear", "join", "wait"}, size : 0 .. MaxRows,
                maxNew : 0 .. MaxTokens]
WorkerShape ==
    [pc : {"none", "prefill", "top", "sample", "embed", "end", "done"},
     size : 0 .. MaxRows + 1, maxNew : 0 .. MaxTokens, sent : 0 .. MaxTokens,
     filled : 0 .. MaxRows]
Resting == {"none", "done"}

GpuTyped ==
    /\ mode \in {"bridge", "sync"} /\ busyFlag \in BOOLEAN /\ haltFlag \in BOOLEAN
    /\ caller \in CallerShape /\ worker \in WorkerShape /\ gens \in Nat
    /\ sink \in {"ui", "call", "dead"}
    /\ DOMAIN kv = Rows

\* running_ spans generateAsync and the thread; the callback outlives both.
GpuControl ==
    /\ busyFlag <=> caller.pc \in {"clear", "join"} \/ worker.pc \notin Resting
    /\ caller.pc \in {"clear", "join"} => worker.pc \in Resting
    /\ mode = "bridge" => caller.pc # "wait" /\ sink = "ui"
    /\ mode = "sync" => /\ caller.pc # "out" => sink = "call"
                        /\ worker.pc \notin Resting => caller.pc = "wait"

\* How far the loop is: the token just pushed has no row yet.
GpuLoop ==
    /\ worker.sent <= worker.maxNew
    /\ worker.pc = "sample" => worker.sent < worker.maxNew
    /\ worker.pc = "prefill" => worker.size <= MaxRows
    /\ worker.pc \in {"top", "sample"} => worker.size <= MaxRows /\ worker.filled = worker.size
    /\ worker.pc = "embed" => worker.size <= MaxRows /\ worker.size = worker.filled + 1

GpuInv == GpuTyped /\ GpuControl /\ GpuLoop

\* With one head a layer's row for a position lies in the cache and is no
\* other layer's or position's row.
LEMMA Stride ==
    ASSUME NEW l \in Nat, NEW m \in Nat, NEW r \in Nat, l < m
    PROVE  l * r + r <= m * r
<1>1. PICK d \in Nat : m = (l + 1) + d
    <2>1. m - (l + 1) \in Nat /\ m = (l + 1) + (m - (l + 1))
        OBVIOUS
    <2> QED
        BY <2>1
<1>2. m * r = (l * r + r) + d * r
    BY <1>1
<1>3. d * r \in Nat /\ l * r \in Nat
    OBVIOUS
<1> QED
    BY <1>2, <1>3

LEMMA RowFacts ==
    ASSUME Width = 1, NEW l \in Layers, NEW p \in 0 .. MaxRows - 1
    PROVE  /\ Krow(l, p) \in Rows
           /\ Span(l, p) = {Krow(l, p)}
           /\ \A m \in Layers, q \in 0 .. MaxRows - 1 :
                 Krow(m, q) = Krow(l, p) => m = l /\ q = p
<1> USE GpuAssumption DEF Layers
<1>1. /\ l \in Nat /\ p \in Nat /\ MaxRows \in Nat /\ ModelLayers \in Nat /\ l < ModelLayers
      /\ p < MaxRows
    BY DEF Wrap
<1>2. l * MaxRows \in Nat /\ ModelLayers * MaxRows \in Nat
    BY <1>1
<1>3. l * MaxRows + MaxRows <= ModelLayers * MaxRows
    BY <1>1, Stride
<1>4. ModelLayers * MaxRows * Width = ModelLayers * MaxRows
    BY <1>2
<1>5. Krow(l, p) \in Rows
    BY <1>1, <1>2, <1>3, <1>4 DEF Krow, Rows
<1>6. Span(l, p) = {Krow(l, p)}
    BY <1>1, <1>2 DEF Span, Krow
<1>7. ASSUME NEW m \in Layers, NEW q \in 0 .. MaxRows - 1, Krow(m, q) = Krow(l, p)
      PROVE  m = l /\ q = p
    <2>1. m \in Nat /\ q \in Nat /\ q < MaxRows /\ m * MaxRows \in Nat
        BY <1>1
    <2>2. m * MaxRows + q = l * MaxRows + p
        BY <1>7 DEF Krow
    <2>3. CASE m < l
        <3>1. m * MaxRows + MaxRows <= l * MaxRows
            BY <1>1, <2>1, <2>3, Stride
        <3> QED
            BY <1>1, <1>2, <2>1, <2>2, <3>1
    <2>4. CASE l < m
        <3>1. l * MaxRows + MaxRows <= m * MaxRows
            BY <1>1, <2>1, <2>4, Stride
        <3> QED
            BY <1>1, <1>2, <2>1, <2>2, <3>1
    <2>5. CASE l = m
        BY <1>1, <1>2, <2>1, <2>2, <2>5
    <2> QED
        BY <1>1, <2>1, <2>3, <2>4, <2>5
<1> QED
    BY <1>5, <1>6, <1>7

LEMMA PairParts ==
    ASSUME NEW S, NEW T, NEW w \in S \X T
    PROVE  w[1] \in S /\ w[2] \in T /\ w = <<w[1], w[2]>>
<1> QED
    OBVIOUS

\* What the row of a position holds after the layers have run there.
Own(l, p) == <<gens, l, p + 1, 0>>

\* The cache after a pass over some positions.
LEMMA StoredRows ==
    ASSUME Width = 1, NEW P, P \subseteq 0 .. MaxRows - 1, NEW cache,
           NEW l \in Layers, NEW p \in 0 .. MaxRows - 1
    PROVE  /\ p \in P => Stored(cache, P)[Krow(l, p)] = Own(l, p)
           /\ p \notin P => Stored(cache, P)[Krow(l, p)] = cache[Krow(l, p)]
<1> DEFINE r == Krow(l, p)
<1>1. r \in Rows /\ r \in Int
    BY RowFacts, GpuAssumption DEF Rows
<1>2. ASSUME NEW m \in Layers, NEW q \in P PROVE r \in Span(m, q) <=> m = l /\ q = p
    <2>1. q \in 0 .. MaxRows - 1
        OBVIOUS
    <2>2. Span(m, q) = {Krow(m, q)}
        BY <2>1, RowFacts
    <2>3. Krow(m, q) = r => m = l /\ q = p
        BY <2>1, RowFacts
    <2> QED
        BY <2>2, <2>3
<1>3. Writers(r, P) = IF p \in P THEN {<<l, p>>} ELSE {}
    <2> HIDE DEF r
    <2>1. ASSUME NEW w \in Writers(r, P) PROVE w = <<l, p>> /\ p \in P
        <3>1. w \in Layers \X P /\ r \in Span(w[1], w[2])
            BY Zenon DEF Writers
        <3>2. w[1] \in Layers /\ w[2] \in P /\ w = <<w[1], w[2]>>
            BY <3>1, PairParts, Zenon
        <3>3. w[1] = l /\ w[2] = p
            BY <1>2, <3>1, <3>2, Zenon
        <3> QED
            BY <3>2, <3>3, Zenon
    <2>2. p \in P => <<l, p>> \in Writers(r, P)
        BY <1>2 DEF Writers
    <2> QED
        BY <2>1, <2>2
<1> HIDE DEF r
<1>4. CASE p \in P
    <2>1. Writers(r, P) = {<<l, p>>}
        BY <1>3, <1>4
    <2>2. \A v \in Writers(r, P) : v[2] < p \/ (v[2] = p /\ v[1] <= l)
        BY <2>1 DEF Layers
    <2>3. LastWriter(r, P) = <<l, p>>
        BY <2>1, <2>2 DEF LastWriter
    <2>4. Stored(cache, P)[r] = <<gens, l, p + 1, r - Krow(l, p)>>
        BY <1>1, <2>1, <2>3 DEF Stored
    <2> QED
        BY <1>1, <1>4, <2>4 DEF r, Own
<1>5. CASE p \notin P
    <2>1. Stored(cache, P)[r] = cache[r]
        BY <1>1, <1>3, <1>5 DEF Stored
    <2> QED
        BY <1>5, <2>1 DEF r
<1> QED
    BY <1>4, <1>5

LEMMA NextPosIs ==
    ASSUME NEW n \in 0 .. MaxRows + 1 PROVE NextPos(n) = n
<1>1. n \in 0 .. Wrap - 1
    BY GpuAssumption DEF Wrap
<1> QED
    BY <1>1 DEF NextPos, Wrap

LEMMA GpuInvInit == ASSUME GpuInit PROVE GpuInv
<1> USE GpuAssumption DEF GpuInit
<1>1. caller \in CallerShape /\ worker \in WorkerShape
    BY DEF Outside, NoThread, CallerShape, WorkerShape
<1>2. GpuTyped
    BY <1>1 DEF GpuTyped
<1>3. GpuControl
    BY DEF GpuControl, Outside, NoThread, Resting
<1>4. GpuLoop
    BY DEF GpuLoop, NoThread
<1> QED
    BY <1>2, <1>3, <1>4 DEF GpuInv

\* The client's steps leave the rows alone.
LEMMA GpuClientSteps ==
    ASSUME GpuInv,
           \/ \E size \in PromptSizes, n \in 0 .. MaxTokens : Generate(size, n)
           \/ CallerStep \/ Halt
    PROVE  GpuInv'
<1> USE GpuAssumption DEF GpuInv
<1>0. /\ caller \in CallerShape /\ worker \in WorkerShape
      /\ busyFlag \in BOOLEAN /\ haltFlag \in BOOLEAN
    BY DEF GpuTyped
<1>1. ASSUME NEW size \in PromptSizes, NEW n \in 0 .. MaxTokens, Generate(size, n)
      PROVE  GpuInv'
    <2>1. /\ caller.pc = "out" /\ ~busyFlag /\ busyFlag' = TRUE
          /\ caller' = [pc |-> "clear", size |-> size, maxNew |-> n]
          /\ sink' = IF mode = "sync" THEN "call" ELSE sink
          /\ UNCHANGED <<mode, haltFlag, worker, gens, kv>>
        BY <1>1 DEF Generate
    <2>2. caller' \in CallerShape /\ caller'.pc = "clear"
        BY <2>1 DEF CallerShape
    <2>3. GpuTyped'
        BY <2>1, <2>2 DEF GpuTyped
    <2>4. GpuControl'
        BY <2>1, <2>2 DEF GpuControl, GpuTyped, Resting
    <2>5. GpuLoop'
        BY <2>1 DEF GpuLoop
    <2> QED
        BY <2>3, <2>4, <2>5
<1>2. CASE ClearHalt
    <2>1. /\ caller.pc = "clear" /\ haltFlag' = FALSE
          /\ caller' = [caller EXCEPT !.pc = "join"]
          /\ UNCHANGED <<mode, busyFlag, worker, gens, sink, kv>>
        BY <1>2 DEF ClearHalt
    <2>2. caller' \in CallerShape /\ caller'.pc = "join"
        BY <1>0, <2>1 DEF CallerShape
    <2>3. GpuTyped'
        BY <2>1, <2>2 DEF GpuTyped
    <2>4. GpuControl'
        BY <2>1, <2>2 DEF GpuControl
    <2>5. GpuLoop'
        BY <2>1 DEF GpuLoop
    <2> QED
        BY <2>3, <2>4, <2>5
<1>3. CASE StartThread
    <2>1. /\ caller.pc = "join" /\ gens' = gens + 1
          /\ worker' = [pc |-> "prefill", size |-> caller.size, maxNew |-> caller.maxNew,
                        sent |-> 0, filled |-> 0]
          /\ caller' = IF mode = "sync" THEN [caller EXCEPT !.pc = "wait"] ELSE Outside
          /\ UNCHANGED <<mode, busyFlag, haltFlag, sink, kv>>
        BY <1>3 DEF StartThread
    <2>2. /\ worker' \in WorkerShape /\ worker'.pc = "prefill" /\ worker'.sent = 0
          /\ worker'.size = caller.size /\ worker'.maxNew = caller.maxNew
        BY <1>0, <2>1 DEF CallerShape, WorkerShape
    <2>3. /\ caller' \in CallerShape
          /\ caller'.pc = IF mode = "sync" THEN "wait" ELSE "out"
        BY <1>0, <2>1 DEF CallerShape, Outside
    <2>4. GpuTyped'
        BY <2>1, <2>2, <2>3 DEF GpuTyped
    <2>5. GpuControl'
        BY <2>1, <2>2, <2>3 DEF GpuControl, GpuTyped, Resting
    <2>6. GpuLoop'
        BY <1>0, <2>2 DEF GpuLoop, CallerShape
    <2> QED
        BY <2>4, <2>5, <2>6
<1>4. CASE SyncReturn
    <2>1. /\ caller.pc = "wait" /\ worker.pc = "done" /\ caller' = Outside /\ sink' = "dead"
          /\ UNCHANGED <<mode, busyFlag, haltFlag, worker, gens, kv>>
        BY <1>4 DEF SyncReturn, MayReturn
    <2>2. caller' \in CallerShape /\ caller'.pc = "out"
        BY <2>1 DEF CallerShape, Outside
    <2>3. GpuTyped'
        BY <2>1, <2>2 DEF GpuTyped
    <2>4. GpuControl'
        BY <2>1, <2>2 DEF GpuControl, GpuTyped, Resting
    <2>5. GpuLoop'
        BY <2>1 DEF GpuLoop
    <2> QED
        BY <2>3, <2>4, <2>5
<1>5. CASE Halt
    <2>1. haltFlag' = TRUE /\ UNCHANGED <<mode, busyFlag, caller, worker, gens, sink, kv>>
        BY <1>5 DEF Halt
    <2> QED
        BY <2>1 DEF GpuTyped, GpuControl, GpuLoop
<1> QED
    BY <1>1, <1>2, <1>3, <1>4, <1>5 DEF CallerStep

LEMMA GpuThreadSteps ==
    ASSUME GpuInv, WorkerStep
    PROVE  GpuInv'
<1> USE GpuAssumption DEF GpuInv
<1>0. worker \in WorkerShape /\ busyFlag \in BOOLEAN /\ MaxRows \in Nat /\ MaxTokens \in Nat
    BY DEF GpuTyped, Wrap
<1>1. CASE Prefill
    <2>1. /\ worker.pc = "prefill"
          /\ kv' = Stored([r \in Rows |-> Zero], 0 .. worker.size - 1)
          /\ worker' = [worker EXCEPT !.pc = "top", !.filled = worker.size]
          /\ UNCHANGED <<mode, busyFlag, haltFlag, caller, gens, sink>>
        BY <1>1 DEF Prefill
    <2>2. worker.size \in 0 .. MaxRows
        BY <1>0, <2>1 DEF GpuLoop, WorkerShape
    <2>3. /\ worker' \in WorkerShape /\ worker'.pc = "top" /\ worker'.size = worker.size
          /\ worker'.filled = worker.size /\ worker'.sent = worker.sent
          /\ worker'.maxNew = worker.maxNew
        BY <1>0, <2>1, <2>2 DEF WorkerShape
    <2>4. DOMAIN kv' = Rows
        BY <2>1 DEF Stored
    <2>5. GpuTyped'
        BY <2>1, <2>3, <2>4 DEF GpuTyped
    <2>6. GpuControl'
        BY <2>1, <2>3 DEF GpuControl, Resting
    <2>7. GpuLoop'
        BY <2>2, <2>3 DEF GpuLoop
    <2> QED
        BY <2>5, <2>6, <2>7
<1>2. CASE LoopTop
    <2>1. /\ worker.pc = "top"
          /\ worker' = [worker EXCEPT !.pc = IF More THEN "sample" ELSE "end"]
          /\ UNCHANGED <<mode, busyFlag, haltFlag, caller, gens, sink, kv>>
        BY <1>2 DEF LoopTop
    <2>2. /\ worker' \in WorkerShape /\ worker'.pc = IF More THEN "sample" ELSE "end"
          /\ worker'.size = worker.size /\ worker'.filled = worker.filled
          /\ worker'.sent = worker.sent /\ worker'.maxNew = worker.maxNew
        BY <1>0, <2>1 DEF WorkerShape
    <2>3. GpuTyped'
        BY <2>1, <2>2 DEF GpuTyped
    <2>4. GpuControl'
        BY <2>1, <2>2 DEF GpuControl, Resting
    <2>5. GpuLoop'
        BY <2>1, <2>2 DEF GpuLoop, More
    <2> QED
        BY <2>3, <2>4, <2>5
<1>3. ASSUME NEW newline \in BOOLEAN, SampleToken(newline)
      PROVE  GpuInv'
    <2>1. worker.pc = "sample" /\ worker.size \in 0 .. MaxRows /\ worker.filled = worker.size
          /\ worker.sent < worker.maxNew
        BY <1>0, <1>3 DEF SampleToken, GpuLoop, WorkerShape
    <2>2. NextPos(worker.size) = worker.size
        BY <1>0, <2>1, NextPosIs
    <2> DEFINE place == IF newline \/ worker.size >= MaxRows THEN "end" ELSE "embed"
    <2>3. /\ worker' = [worker EXCEPT !.size = @ + 1, !.sent = @ + 1, !.pc = place]
          /\ UNCHANGED <<mode, busyFlag, haltFlag, caller, gens, sink, kv>>
        BY <1>3, <2>2 DEF SampleToken
    <2>4. place \in {"end", "embed"} /\ (place = "embed" => worker.size < MaxRows)
        BY <1>0, <2>1
    <2> HIDE DEF place
    <2>5. /\ worker.size + 1 \in 0 .. MaxRows + 1 /\ worker.sent + 1 \in 0 .. MaxTokens
          /\ worker.sent + 1 <= worker.maxNew
        BY <1>0, <2>1 DEF WorkerShape
    <2>6. /\ worker' \in WorkerShape /\ worker'.pc = place
          /\ worker'.size = worker.size + 1 /\ worker'.sent = worker.sent + 1
          /\ worker'.filled = worker.filled /\ worker'.maxNew = worker.maxNew
        BY <1>0, <2>3, <2>4, <2>5 DEF WorkerShape
    <2>7. GpuTyped'
        BY <2>3, <2>6 DEF GpuTyped
    <2>8. GpuControl'
        BY <2>1, <2>3, <2>4, <2>6 DEF GpuControl, Resting
    <2>9. GpuLoop'
        BY <1>0, <2>1, <2>4, <2>5, <2>6 DEF GpuLoop
    <2> QED
        BY <2>7, <2>8, <2>9
<1>4. CASE EmbedToken
    <2> DEFINE p == worker.filled
    <2>1. /\ worker.pc = "embed" /\ p \in 0 .. MaxRows - 1 /\ worker.size = p + 1
        BY <1>0, <1>4 DEF EmbedToken, GpuLoop, WorkerShape
    <2>2. NextPos(worker.size - 1) = p
        <3>1. worker.size - 1 = p /\ p \in 0 .. MaxRows + 1
            BY <1>0, <2>1
        <3> QED
            BY <3>1, NextPosIs
    <2>3. /\ kv' = Stored(kv, {p})
          /\ worker' = [worker EXCEPT !.pc = "top", !.filled = worker.size]
          /\ UNCHANGED <<mode, busyFlag, haltFlag, caller, gens, sink>>
        BY <1>4, <2>2 DEF EmbedToken
    <2>4. /\ worker' \in WorkerShape /\ worker'.pc = "top" /\ worker'.size = worker.size
          /\ worker'.filled = p + 1 /\ worker'.sent = worker.sent
          /\ worker'.maxNew = worker.maxNew
        <3>1. p + 1 \in 0 .. MaxRows
            BY <1>0, <2>1
        <3> QED
            BY <1>0, <2>1, <2>3, <3>1 DEF WorkerShape
    <2> HIDE DEF p
    <2>5. DOMAIN kv' = Rows
        BY <2>3 DEF Stored
    <2>6. GpuTyped'
        BY <2>3, <2>4, <2>5 DEF GpuTyped
    <2>7. GpuControl'
        BY <2>1, <2>3, <2>4 DEF GpuControl, Resting
    <2>8. GpuLoop'
        BY <1>0, <2>1, <2>4 DEF GpuLoop
    <2> QED
        BY <2>6, <2>7, <2>8
<1>5. CASE FinishGen
    <2>1. /\ worker.pc = "end" /\ busyFlag' = FALSE
          /\ worker' = [worker EXCEPT !.pc = "done"]
          /\ UNCHANGED <<mode, haltFlag, caller, gens, sink, kv>>
        BY <1>5 DEF FinishGen, BusyAfter
    <2>2. /\ worker' \in WorkerShape /\ worker'.pc = "done"
          /\ worker'.sent = worker.sent /\ worker'.maxNew = worker.maxNew
        BY <1>0, <2>1 DEF WorkerShape
    <2>3. GpuTyped'
        BY <2>1, <2>2 DEF GpuTyped
    <2>4. GpuControl'
        BY <2>1, <2>2 DEF GpuControl, Resting
    <2>5. GpuLoop'
        BY <2>2 DEF GpuLoop
    <2> QED
        BY <2>3, <2>4, <2>5
<1> QED
    BY <1>1, <1>2, <1>3, <1>4, <1>5 DEF WorkerStep

LEMMA GpuInvStep == ASSUME GpuInv, [GpuNext]_gpuVars PROVE GpuInv'
<1>1. CASE UNCHANGED gpuVars
    BY <1>1 DEF gpuVars, GpuInv, GpuTyped, GpuControl, GpuLoop
<1> QED
    BY <1>1, GpuClientSteps, GpuThreadSteps DEF GpuNext

LEMMA GpuInvAlways == GpuSpec => []GpuInv
<1>1. GpuInit => GpuInv
    BY GpuInvInit
<1>2. GpuInv /\ [GpuNext]_gpuVars => GpuInv'
    BY GpuInvStep
<1> QED
    BY <1>1, <1>2, PTL DEF GpuSpec

\* The rows.  Only the thread's passes write them; a new generation starts with
\* none of its own.
LEMMA RowsInit == ASSUME GpuInit PROVE RowsAreOwn
<1> QED
    BY DEF GpuInit, NoThread, RowsAreOwn

LEMMA RowsStep ==
    ASSUME Width = 1, GpuInv, RowsAreOwn, [GpuNext]_gpuVars
    PROVE  RowsAreOwn'
<1> USE GpuAssumption DEF GpuInv
<1>0. worker \in WorkerShape /\ MaxRows \in Nat
    BY DEF GpuTyped, Wrap
<1>1. CASE UNCHANGED <<worker, gens, kv>>
    BY <1>1 DEF RowsAreOwn
<1>2. CASE StartThread
    <2>1. worker'.pc = "prefill"
        BY <1>2 DEF StartThread
    <2> QED
        BY <2>1 DEF RowsAreOwn
<1>3. CASE Prefill
    <2> DEFINE blank == [r \in Rows |-> Zero]
    <2>1. /\ worker.pc = "prefill" /\ worker'.filled = worker.size /\ gens' = gens
          /\ kv' = Stored(blank, 0 .. worker.size - 1)
        BY <1>0, <1>3 DEF Prefill, WorkerShape
    <2> HIDE DEF blank
    <2>2. worker.size \in 0 .. MaxRows
        BY <1>0, <2>1 DEF GpuLoop, WorkerShape
    <2> SUFFICES ASSUME NEW l \in Layers, NEW p \in 0 .. worker.size - 1
                 PROVE  kv'[Krow(l, p)] = <<gens, l, p + 1, 0>>
        BY <2>1 DEF RowsAreOwn
    <2>3. p \in 0 .. MaxRows - 1 /\ 0 .. worker.size - 1 \subseteq 0 .. MaxRows - 1
        BY <1>0, <2>2
    <2>4. Stored(blank, 0 .. worker.size - 1)[Krow(l, p)] = Own(l, p)
        BY <2>3, StoredRows, Zenon
    <2>5. kv'[Krow(l, p)] = Own(l, p)
        BY <2>1, <2>4, Zenon
    <2> QED
        BY <2>5 DEF Own
<1>4. CASE EmbedToken
    <2> DEFINE new == worker.filled
    <2>1. /\ worker.pc = "embed" /\ new \in 0 .. MaxRows - 1 /\ worker.size = new + 1
        BY <1>0, <1>4 DEF EmbedToken, GpuLoop, WorkerShape
    <2>2. NextPos(worker.size - 1) = new
        <3>1. worker.size - 1 = new /\ new \in 0 .. MaxRows + 1
            BY <1>0, <2>1
        <3> QED
            BY <3>1, NextPosIs
    <2>3. kv' = Stored(kv, {new}) /\ worker'.filled = new + 1 /\ gens' = gens
        BY <1>0, <1>4, <2>1, <2>2 DEF EmbedToken, WorkerShape
    <2>4. \A l \in Layers, p \in 0 .. new - 1 : kv[Krow(l, p)] = <<gens, l, p + 1, 0>>
        BY <2>1 DEF RowsAreOwn
    <2> HIDE DEF new
    <2>5. (new + 1) - 1 = new
        BY <2>1
    <2> SUFFICES ASSUME NEW l \in Layers, NEW p \in 0 .. new
                 PROVE  kv'[Krow(l, p)] = <<gens, l, p + 1, 0>>
        BY <2>3, <2>5 DEF RowsAreOwn
    <2>6. p \in 0 .. MaxRows - 1 /\ {new} \subseteq 0 .. MaxRows - 1
        BY <1>0, <2>1
    <2>7. /\ p \in {new} => Stored(kv, {new})[Krow(l, p)] = Own(l, p)
          /\ p \notin {new} => Stored(kv, {new})[Krow(l, p)] = kv[Krow(l, p)]
        <3>1. p \in {new} => Stored(kv, {new})[Krow(l, p)] = Own(l, p)
            BY <2>6, StoredRows, Zenon
        <3>2. p \notin {new} => Stored(kv, {new})[Krow(l, p)] = kv[Krow(l, p)]
            BY <2>6, StoredRows, SMT
        <3> QED
            BY <3>1, <3>2, Zenon
    <2>8. p \notin {new} => kv[Krow(l, p)] = Own(l, p)
        <3>1. p # new => p \in 0 .. new - 1
            BY <2>1
        <3> QED
            BY <2>4, <3>1 DEF Own
    <2>9. kv'[Krow(l, p)] = Own(l, p)
        BY <2>3, <2>7, <2>8, Zenon
    <2> QED
        BY <2>9 DEF Own
<1>5. CASE LoopTop
    <2>1. /\ worker.pc = "top" /\ worker'.filled = worker.filled /\ UNCHANGED <<gens, kv>>
        BY <1>0, <1>5 DEF LoopTop, WorkerShape
    <2> QED
        BY <2>1 DEF RowsAreOwn
<1>6. ASSUME NEW newline \in BOOLEAN, SampleToken(newline) PROVE RowsAreOwn'
    <2>1. /\ worker.pc = "sample" /\ worker'.filled = worker.filled /\ UNCHANGED <<gens, kv>>
        BY <1>0, <1>6 DEF SampleToken, WorkerShape
    <2> QED
        BY <2>1 DEF RowsAreOwn
<1>7. CASE FinishGen
    <2>1. worker'.pc = "done"
        BY <1>0, <1>7 DEF FinishGen, WorkerShape
    <2> QED
        BY <2>1 DEF RowsAreOwn
<1>8. [GpuNext]_gpuVars =>
          \/ UNCHANGED <<worker, gens, kv>>
          \/ StartThread \/ WorkerStep
    BY DEF GpuNext, gpuVars, CallerStep, Generate, ClearHalt, SyncReturn, Halt
<1> QED
    BY <1>1, <1>2, <1>3, <1>4, <1>5, <1>6, <1>7, <1>8 DEF WorkerStep

\* runLayer and KVCache of the one-head configuration, generateSync and the
\* bridge: whenever a token attends, the row of every layer and position before
\* it is that layer's and token's of this generation, and no token goes to the
\* string of a call that has returned, for every number of layers, cache length
\* and prompt.
THEOREM GpuModelSafe == ASSUME Width = 1 PROVE GpuSpec => []GpuSafety
<1>1. GpuInv /\ RowsAreOwn => GpuSafety
    <2> SUFFICES ASSUME GpuInv, RowsAreOwn PROVE GpuSafety
        OBVIOUS
    <2>1. GpuTypeOK
        BY DEF GpuInv, GpuTyped, CallerShape, WorkerShape, GpuTypeOK
    <2>2. SinkAlive
        BY DEF GpuInv, GpuTyped, GpuControl, Resting, SinkAlive
    <2> QED
        BY <2>1, <2>2 DEF GpuSafety
<1>2. GpuInit => RowsAreOwn
    BY RowsInit
<1>3. GpuInv /\ RowsAreOwn /\ [GpuNext]_gpuVars => RowsAreOwn'
    BY RowsStep
<1>4. GpuSpec => []RowsAreOwn
    BY <1>2, <1>3, GpuInvAlways, PTL DEF GpuSpec
<1> QED
    BY <1>1, <1>4, GpuInvAlways, PTL

\* GPUModel implements GenPipeline.
GpuBusy == caller.pc = "join" \/ worker.pc \notin Resting
GpuLeft == IF caller.pc = "join" THEN caller.maxNew ELSE worker.maxNew - worker.sent
GpuLate == IF haltFlag /\ worker.pc = "sample" THEN 1 ELSE 0

\* A step of the abstract pipeline in terms of the mapped state.
LEMMA GpuAbstractStep ==
    ASSUME \/ \E n \in 0 .. MaxTokens :
                ~GpuBusy /\ GpuBusy' /\ haltFlag' = FALSE /\ GpuLeft' = n /\ GpuLate' = 0
           \/ /\ GpuBusy /\ GpuBusy' /\ GpuLeft > 0 /\ (haltFlag => GpuLate = 1)
              /\ GpuLeft' = GpuLeft - 1 /\ GpuLate' = 0 /\ haltFlag' = haltFlag
           \/ /\ GpuBusy /\ ~GpuBusy' /\ GpuLate' = 0 /\ haltFlag' = haltFlag
              /\ GpuLeft' = GpuLeft
           \/ /\ haltFlag' = TRUE /\ (GpuBusy' <=> GpuBusy) /\ GpuLeft' = GpuLeft
              /\ IF GpuBusy /\ ~haltFlag THEN GpuLate' \in {0, 1} ELSE GpuLate' = GpuLate
           \/ /\ (GpuBusy' <=> GpuBusy) /\ haltFlag' = haltFlag /\ GpuLeft' = GpuLeft
              /\ GpuLate' = GpuLate
    PROVE  [GpuPipe!Next]_(GpuPipe!pipeVars)
BY DEF GpuPipe!Next, GpuPipe!Start, GpuPipe!Emit, GpuPipe!End, GpuPipe!Stop, GpuPipe!pipeVars,
       GpuBusy, GpuLeft, GpuLate, Resting

LEMMA GpuStepImplements ==
    ASSUME GpuInv, [GpuNext]_gpuVars
    PROVE  [GpuPipe!Next]_(GpuPipe!pipeVars)
<1> USE GpuAssumption DEF GpuInv
<1>0. caller \in CallerShape /\ worker \in WorkerShape /\ MaxTokens \in Nat
    BY DEF GpuTyped
<1>1. CASE UNCHANGED gpuVars
    BY <1>1, GpuAbstractStep DEF gpuVars, GpuBusy, GpuLeft, GpuLate
<1>2. ASSUME NEW size \in PromptSizes, NEW n \in 0 .. MaxTokens, Generate(size, n)
      PROVE  [GpuPipe!Next]_(GpuPipe!pipeVars)
    <2>1. caller.pc = "out" /\ caller'.pc = "clear" /\ UNCHANGED <<haltFlag, worker>>
        BY <1>2 DEF Generate
    <2> QED
        BY <2>1, GpuAbstractStep DEF GpuBusy, GpuLeft, GpuLate
<1>3. CASE ClearHalt
    <2>1. /\ caller.pc = "clear" /\ haltFlag' = FALSE /\ caller'.pc = "join"
          /\ caller'.maxNew = caller.maxNew /\ worker' = worker
        BY <1>0, <1>3 DEF ClearHalt, CallerShape
    <2>2. caller.maxNew \in 0 .. MaxTokens /\ worker.pc \in Resting
        BY <1>0, <2>1 DEF CallerShape, GpuControl
    <2>3. ~GpuBusy /\ GpuBusy' /\ GpuLeft' = caller.maxNew /\ GpuLate' = 0
        BY <2>1, <2>2 DEF GpuBusy, GpuLeft, GpuLate, Resting
    <2> QED
        BY <2>1, <2>2, <2>3, GpuAbstractStep
<1>4. CASE StartThread
    <2>1. /\ caller.pc = "join" /\ caller'.pc # "join" /\ worker.pc \in Resting
          /\ worker'.pc = "prefill" /\ worker'.maxNew = caller.maxNew /\ worker'.sent = 0
          /\ haltFlag' = haltFlag /\ caller.maxNew \in Nat
        BY <1>0, <1>4 DEF StartThread, CallerShape, Outside, Resting
    <2>2. GpuBusy /\ GpuBusy' /\ GpuLeft = caller.maxNew /\ GpuLeft' = caller.maxNew
        BY <2>1 DEF GpuBusy, GpuLeft, Resting
    <2>3. GpuLate = 0 /\ GpuLate' = 0
        BY <2>1 DEF GpuLate, Resting
    <2> QED
        BY <2>1, <2>2, <2>3, GpuAbstractStep
<1>5. CASE SyncReturn
    <2>1. caller.pc = "wait" /\ caller'.pc = "out" /\ UNCHANGED <<haltFlag, worker>>
        BY <1>5 DEF SyncReturn, Outside
    <2> QED
        BY <2>1, GpuAbstractStep DEF GpuBusy, GpuLeft, GpuLate
<1>6. CASE Halt
    <2>1. haltFlag' = TRUE /\ UNCHANGED <<caller, worker>>
        BY <1>6 DEF Halt
    <2>2. (GpuBusy' <=> GpuBusy) /\ GpuLeft' = GpuLeft
        BY <2>1 DEF GpuBusy, GpuLeft
    <2>3. IF GpuBusy /\ ~haltFlag THEN GpuLate' \in {0, 1} ELSE GpuLate' = GpuLate
        BY <2>1 DEF GpuBusy, GpuLate, GpuTyped, Resting
    <2> QED
        BY <2>1, <2>2, <2>3, GpuAbstractStep
<1>7. CASE Prefill \/ LoopTop \/ EmbedToken
    <2>1. /\ worker.pc \in {"prefill", "top", "embed"} /\ worker'.pc \notin Resting
          /\ worker'.pc = "sample" => ~haltFlag
          /\ worker'.maxNew = worker.maxNew /\ worker'.sent = worker.sent
          /\ UNCHANGED <<caller, haltFlag>>
        BY <1>0, <1>7 DEF Prefill, LoopTop, EmbedToken, WorkerShape, Resting, More
    <2>2. GpuBusy /\ GpuBusy' /\ GpuLeft' = GpuLeft
        BY <2>1 DEF GpuBusy, GpuLeft, Resting
    <2>3. GpuLate = 0 /\ GpuLate' = 0
        BY <2>1 DEF GpuLate
    <2> QED
        BY <2>1, <2>2, <2>3, GpuAbstractStep
<1>8. ASSUME NEW newline \in BOOLEAN, SampleToken(newline)
      PROVE  [GpuPipe!Next]_(GpuPipe!pipeVars)
    <2>1. /\ worker.pc = "sample" /\ worker'.pc \in {"end", "embed"}
          /\ worker'.maxNew = worker.maxNew /\ worker'.sent = worker.sent + 1
          /\ UNCHANGED <<caller, haltFlag>>
        BY <1>0, <1>8 DEF SampleToken, WorkerShape
    <2>2. /\ worker.sent < worker.maxNew /\ caller.pc # "join"
          /\ worker.sent \in Nat /\ worker.maxNew \in Nat
        BY <1>0, <2>1 DEF GpuLoop, GpuControl, Resting, WorkerShape
    <2>3. GpuBusy /\ GpuBusy' /\ GpuLeft > 0 /\ GpuLeft' = GpuLeft - 1
        BY <2>1, <2>2 DEF GpuBusy, GpuLeft, Resting
    <2>4. (haltFlag => GpuLate = 1) /\ GpuLate' = 0
        BY <2>1 DEF GpuLate
    <2> QED
        BY <2>1, <2>3, <2>4, GpuAbstractStep
<1>9. CASE FinishGen
    <2>1. /\ worker.pc = "end" /\ worker'.pc = "done"
          /\ worker'.maxNew = worker.maxNew /\ worker'.sent = worker.sent
          /\ UNCHANGED <<caller, haltFlag>>
        BY <1>0, <1>9 DEF FinishGen, WorkerShape
    <2>2. caller.pc # "join"
        BY <2>1 DEF GpuControl, Resting
    <2>3. GpuBusy /\ ~GpuBusy' /\ GpuLate' = 0 /\ GpuLeft' = GpuLeft
        BY <2>1, <2>2 DEF GpuBusy, GpuLeft, GpuLate, Resting
    <2> QED
        BY <2>1, <2>3, GpuAbstractStep
<1> QED
    BY <1>1, <1>2, <1>3, <1>4, <1>5, <1>6, <1>7, <1>8, <1>9 DEF GpuNext, CallerStep, WorkerStep

\* What either client sees of GPUModel is the pipeline the DX12 engine promises:
\* tokens only while a generation runs, never more than were asked for, at most
\* one after a stop (gpu_model.cpp:219 and 276), with any head configuration.
THEOREM GpuImplementsPipeline == GpuSpec => GpuPipeSpec
<1>1. GpuInit => GpuPipe!Init
    <2> SUFFICES ASSUME GpuInit PROVE GpuPipe!Init
        OBVIOUS
    <2> QED
        BY DEF GpuInit, Outside, NoThread, GpuPipe!Init
<1>2. GpuInv /\ [GpuNext]_gpuVars => [GpuPipe!Next]_(GpuPipe!pipeVars)
    BY GpuStepImplements
<1> QED
    BY <1>1, <1>2, GpuInvAlways, PTL DEF GpuSpec, GpuPipeSpec, GpuPipe!Spec

-----------------------------------------------------------------------------
(* MeshCompute: the command lists                                            *)

\* The lists of the program, one by one.
LEMMA ProgramLists ==
    ASSUME NEW n \in Nat
    PROVE  /\ Len(Program(n)) = 25 /\ DOMAIN Program(n) = 1 .. 25
           /\ Program(n)[1] = Upload("a", 0, "srv") /\ Program(n)[2] = Upload("b", 0, "srv")
           /\ Program(n)[3] = <<VectorAdd("a", "b", "sum")>> /\ Program(n)[4] = Readback("sum")
           /\ Program(n)[5] = Upload("vertex", 0, "srv") /\ Program(n)[6] = Upload("neighbor", 0, "srv")
           /\ Program(n)[7] = Upload("triangle", 0, "uav") /\ Program(n)[8] = Upload("tensor", 0, "srv")
           /\ Program(n)[9] = Upload("phaseA", 0, "srv") /\ Program(n)[10] = Upload("phaseB", 0, "uav")
           /\ Program(n)[11] = Upload("outA", 0, "srv") /\ Program(n)[12] = Upload("outB", 0, "uav")
           /\ Program(n)[13] = StepCommands(n) /\ Program(n)[14] = Readback(FinalOut(n))
           /\ Program(n)[15] = Upload("kA", 0, "srv") /\ Program(n)[16] = Upload("kB", 0, "srv")
           /\ Program(n)[17] = Upload("kOut", 0, "uav") /\ Program(n)[18] = Upload("kPhaseIn", 0, "srv")
           /\ Program(n)[19] = Upload("kOutIn", 0, "srv") /\ Program(n)[20] = Upload("kPhaseOut", 0, "uav")
           /\ Program(n)[21] = Upload("kOutOut", 0, "uav")
           /\ Program(n)[22] = <<VectorAdd("kA", "kB", "kOut")>>
           /\ Program(n)[23] =
                <<TriangleStep("kOutIn", "kPhaseIn", "kOutIn", "kPhaseOut", "kOutOut")>>
           /\ Program(n)[24] = Readback("kOut") /\ Program(n)[25] = Readback("kOutOut")
<1>1. Len(KuhulAllocs) = 7 /\ Len(KuhulSteps) = 2
    BY DEF KuhulAllocs, KuhulSteps
<1> QED
    BY SMTT(60) DEF Program, KuhulAllocs, KuhulSteps

\* The GPU is past command c of list i.
Ran(i, c) == fence >= i \/ (fence = i - 1 /\ at > c)

\* The list and the buffer of each upload, and the state it leaves.
Uploads ==
    {<<1, "a", "srv">>, <<2, "b", "srv">>, <<5, "vertex", "srv">>, <<6, "neighbor", "srv">>,
     <<7, "triangle", "uav">>, <<8, "tensor", "srv">>, <<9, "phaseA", "srv">>,
     <<10, "phaseB", "uav">>, <<11, "outA", "srv">>, <<12, "outB", "uav">>,
     <<15, "kA", "srv">>, <<16, "kB", "srv">>, <<17, "kOut", "uav">>, <<18, "kPhaseIn", "srv">>,
     <<19, "kOutIn", "srv">>, <<20, "kPhaseOut", "uav">>, <<21, "kOutOut", "uav">>}

\* A buffer that is still as its upload left it.
Uploaded(b, i, after) ==
    buffer[b] = [state |-> IF Ran(i, 2) THEN after ELSE "copyDst", holds |-> 0, open |-> FALSE]

\* A buffer that list i writes and list r reads back.
Computed(b, before, i, r) ==
    /\ buffer[b].state = IF Ran(r, 1) THEN "copySrc" ELSE before
    /\ buffer[b].holds = IF Ran(i, 1) THEN 1 ELSE 0
    /\ buffer[b].open <=> (fence = i - 1 /\ at > 1)

\* The step whose commands the GPU is at in list 13, and how many of its four
\* barriers it has run; the first step has none left to run.
StepAt == IF fence > 12 THEN steps ELSE IF at = 0 THEN 0 ELSE (at + 3) \div 5
Barriers == IF fence > 12 THEN 0 ELSE IF at = 0 THEN 4 ELSE (at + 3) % 5

\* The ping-pong: the pair a step reads was written by the step before it, and
\* goes from written to read while the other pair goes from read to written.
Pair(p, n, s1, s2, w1, w2) ==
    /\ buffer[p[1]].holds = n /\ buffer[p[1]].state = s1 /\ (buffer[p[1]].open <=> w1)
    /\ buffer[p[2]].holds = n /\ buffer[p[2]].state = s2 /\ (buffer[p[2]].open <=> w2)

PingPong ==
    /\ Pair(In(StepAt), StepAt, IF Barriers > 0 THEN "srv" ELSE "uav",
            IF Ran(14, 1) THEN "copySrc" ELSE IF Barriers > 1 THEN "srv" ELSE "uav",
            fence = 12 /\ Barriers < 1, fence = 12 /\ Barriers < 2)
    /\ Pair(In(StepAt + 1), IF StepAt = 0 THEN 0 ELSE StepAt - 1,
            IF Barriers > 2 THEN "uav" ELSE "srv", IF Barriers > 3 THEN "uav" ELSE "srv",
            FALSE, FALSE)

PingPongIdle ==
    /\ Uploaded("phaseA", 9, "srv") /\ Uploaded("phaseB", 10, "uav")
    /\ Uploaded("outA", 11, "srv") /\ Uploaded("outB", 12, "uav")

InputsHold ==
    /\ Uploaded("a", 1, "srv") /\ Uploaded("b", 2, "srv")
    /\ Uploaded("vertex", 5, "srv") /\ Uploaded("neighbor", 6, "srv")
    /\ Uploaded("triangle", 7, "uav") /\ Uploaded("tensor", 8, "srv")
    /\ Uploaded("kA", 15, "srv") /\ Uploaded("kB", 16, "srv")
    /\ Uploaded("kPhaseIn", 18, "srv") /\ Uploaded("kOutIn", 19, "srv")

OutputsHold ==
    /\ Computed("sum", "uav", 3, 4)
    /\ IF fence < 17 THEN Uploaded("kOut", 17, "uav") ELSE Computed("kOut", "uav", 22, 24)
    /\ IF fence < 20 THEN Uploaded("kPhaseOut", 20, "uav") ELSE Computed("kPhaseOut", "uav", 23, 26)
    /\ IF fence < 21 THEN Uploaded("kOutOut", 21, "uav") ELSE Computed("kOutOut", "uav", 23, 25)

Results ==
    result = IF ~Ran(4, 2) THEN <<>>
             ELSE IF ~Ran(14, 2) THEN <<1>>
             ELSE IF ~Ran(24, 2) THEN <<1, steps>>
             ELSE IF ~Ran(25, 2) THEN <<1, steps, 1>> ELSE <<1, steps, 1, 1>>

ListsInOrder ==
    /\ steps \in Nat \ {0}
    /\ list \in 1 .. 26 /\ at \in Nat
    /\ cpuPc \in {"reset", "submit", "wait"}
    /\ cpuPc # "wait" => fence = list - 1 /\ at = 0
    /\ cpuPc # "reset" => list <= 25
    /\ cpuPc = "wait" => \/ fence = list /\ at = 0
                         \/ fence = list - 1 /\ at \in 1 .. Len(Program(steps)[list]) + 1

BufferState == [state : {"copyDst", "copySrc", "srv", "uav"}, holds : Nat, open : BOOLEAN]
BufferType == [Buffers -> BufferState]

BuffersHold ==
    /\ buffer \in BufferType
    /\ InputsHold /\ OutputsHold
    /\ IF fence < 12 THEN PingPongIdle ELSE PingPong

MeshInv == ListsInOrder /\ BuffersHold /\ Results

\* Every list but the 13th has one or two commands.
LEMMA ListLengths ==
    ASSUME NEW n \in Nat \ {0}, NEW f \in 1 .. 25
    PROVE  /\ Len(Program(n)[f]) \in Nat \ {0}
           /\ DOMAIN Program(n)[f] = 1 .. Len(Program(n)[f])
           /\ Len(Program(n)[f]) = IF f = 13 THEN 5 * n - 4 ELSE IF f \in {3, 22, 23} THEN 1 ELSE 2
<1>1. Len(StepCommands(n)) = 5 * n - 4 /\ DOMAIN StepCommands(n) = 1 .. 5 * n - 4
    BY DEF StepCommands
<1>2. /\ \A b, x, s : Len(Upload(b, x, s)) = 2 /\ DOMAIN Upload(b, x, s) = 1 .. 2
      /\ \A b : Len(Readback(b)) = 2 /\ DOMAIN Readback(b) = 1 .. 2
    BY DEF Upload, Readback
<1>3. \A c : Len(<<c>>) = 1 /\ DOMAIN <<c>> = 1 .. 1
    OBVIOUS
<1> n \in Nat
    OBVIOUS
<1>4. CASE f = 13
  <2>1. Program(n)[f] = StepCommands(n)
    BY <1>4, ProgramLists
  <2> QED
    BY <1>1, <1>4, <2>1
<1>5. CASE f \in {3, 22, 23}
  <2>1. \E c : Program(n)[f] = <<c>>
    BY <1>5, ProgramLists
  <2> QED
    BY <1>3, <1>5, <2>1
<1>6. CASE f \in {4, 14, 24, 25}
  <2>1. \E b : Program(n)[f] = Readback(b)
    BY <1>6, ProgramLists
  <2> QED
    <3>1. f # 13 /\ f \notin {3, 22, 23}
        BY <1>6
    <3> QED
        BY <1>2, <2>1, <3>1
<1>7. CASE f \in 1 .. 2 \cup 5 .. 12 \cup 15 .. 21
  <2>1. \E b, s : Program(n)[f] = Upload(b, 0, s)
    BY <1>7, ProgramLists
  <2> QED
    <3>1. f # 13 /\ f \notin {3, 22, 23}
        BY <1>7
    <3>2. PICK b, s : Program(n)[f] = Upload(b, 0, s)
        BY <2>1
    <3>3. Len(Program(n)[f]) = 2 /\ DOMAIN Program(n)[f] = 1 .. 2
        BY <1>2, <3>2
    <3> QED
        BY <3>1, <3>3
<1> QED
    BY <1>4, <1>5, <1>6, <1>7

LEMMA MeshStart ==
    ASSUME MeshInit, 0 \notin StepCounts
    PROVE  MeshInv
<1>1. ListsInOrder
    BY MeshComputeAssumption DEF ListsInOrder, MeshInit
<1>2. fence = 0 /\ at = 0 /\ \A i \in 1 .. 26, c \in 1 .. 2 : ~Ran(i, c)
    BY DEF MeshInit, Ran
<1>3. /\ \A b \in Buffers \ {"sum"} : buffer[b] = [state |-> "copyDst", holds |-> 0, open |-> FALSE]
      /\ buffer["sum"] = [state |-> "uav", holds |-> 0, open |-> FALSE]
    BY DEF MeshInit, Buffers
<1>4. InputsHold
    BY <1>2, <1>3 DEF InputsHold, Uploaded, Buffers
<1>5. OutputsHold
  <2>1. ~(fence = 2 /\ at > 1)
    BY <1>2
  <2>2. Computed("sum", "uav", 3, 4)
    BY <1>2, <1>3, <2>1 DEF Computed
  <2> QED
    BY <1>2, <1>3, <2>2 DEF OutputsHold, Uploaded, Buffers
<1>6. PingPongIdle
    BY <1>2, <1>3 DEF PingPongIdle, Uploaded, Buffers
<1>7. buffer \in BufferType
    BY DEF MeshInit, BufferType, BufferState
<1>8. Results
    BY <1>2 DEF Results, MeshInit
<1> QED
    BY <1>1, <1>2, <1>4, <1>5, <1>6, <1>7, <1>8 DEF MeshInv, BuffersHold

\* The CPU's own steps leave the buffers and how far the GPU is alone.
LEMMA MeshCpuStep ==
    ASSUME MeshInv, Record \/ Submit \/ WaitFence
    PROVE  MeshInv'
<1>1. steps \in Nat \ {0} /\ Len(Program(steps)) = 25
    BY ProgramLists DEF MeshInv, ListsInOrder
<1>2. ListsInOrder'
  <2>1. CASE Record
    BY <1>1, <2>1 DEF MeshInv, ListsInOrder, Record
  <2>2. CASE Submit
    <3>1. list \in 1 .. 25
        BY <2>2 DEF MeshInv, ListsInOrder, Submit
    <3>2. Len(Program(steps)[list]) \in Nat \ {0}
        BY <1>1, <3>1, ListLengths
    <3> QED
        BY <2>2, <3>1, <3>2 DEF MeshInv, ListsInOrder, Submit
  <2>3. CASE WaitFence
    BY <2>3 DEF MeshInv, ListsInOrder, WaitFence, FenceReached
  <2> QED
    BY <2>1, <2>2, <2>3
<1>3. /\ UNCHANGED <<buffer, fence, steps, result>>
      /\ fence \in Int /\ at \in Int /\ at' \in Int
      /\ (at' > 1 <=> at > 1) /\ (at' > 2 <=> at > 2)
    BY DEF MeshInv, ListsInOrder, Record, Submit, WaitFence
<1>4. StepAt' = StepAt /\ Barriers' = Barriers
    BY DEF MeshInv, ListsInOrder, Record, Submit, WaitFence, StepAt, Barriers
<1>5. Results'
    BY <1>3 DEF MeshInv, Results, Ran
<1>6. InputsHold'
    BY <1>3 DEF MeshInv, BuffersHold, InputsHold, Uploaded, Ran
<1>7. OutputsHold'
    BY <1>3 DEF MeshInv, BuffersHold, OutputsHold, Uploaded, Computed, Ran
<1>8. PingPongIdle => PingPongIdle'
    BY <1>3 DEF PingPongIdle, Uploaded, Ran
<1>9. PingPong => PingPong'
    BY <1>3, <1>4 DEF PingPong, Pair, Ran
<1> QED
    BY <1>2, <1>3, <1>5, <1>6, <1>7, <1>8, <1>9 DEF MeshInv, BuffersHold

\* What the GPU's steps need of the CPU: one list, submitted and not waited for.
LEMMA MeshGpuAt ==
    ASSUME MeshInv, at > 0
    PROVE  /\ steps \in Nat \ {0} /\ fence \in 0 .. 24 /\ at \in Nat \ {0}
           /\ list = fence + 1 /\ cpuPc = "wait"
           /\ Commands = Program(steps)[fence + 1]
           /\ Len(Commands) \in Nat \ {0} /\ at <= Len(Commands) + 1
<1>1. /\ steps \in Nat \ {0} /\ fence \in 0 .. 24 /\ at \in Nat \ {0} /\ list = fence + 1
      /\ cpuPc = "wait" /\ at <= Len(Program(steps)[fence + 1]) + 1
  <2>1. steps \in Nat \ {0} /\ at \in Nat \ {0} /\ list \in 1 .. 25 /\ cpuPc = "wait" /\ fence = list - 1
    BY DEF MeshInv, ListsInOrder
  <2>2. list = fence + 1 /\ at <= Len(Program(steps)[list]) + 1
    BY <2>1 DEF MeshInv, ListsInOrder
  <2> QED
    BY <2>1, <2>2
<1>2. Commands = Program(steps)[fence + 1] /\ fence + 1 \in 1 .. 25
    BY <1>1 DEF Commands
<1> QED
    BY <1>1, <1>2, ListLengths

LEMMA MeshUploadStep ==
    ASSUME MeshInv, at > 0, GpuCommand, NEW u \in Uploads, fence = u[1] - 1
    PROVE  BuffersHold'
<1>1. /\ steps \in Nat /\ fence \in 0 .. 24 /\ at \in 1 .. 2 /\ at' = at + 1 /\ fence' = fence
      /\ steps' = steps
      /\ Commands = Upload(u[2], 0, u[3])
  <2>1. Commands = Upload(u[2], 0, u[3])
    <3>1. Commands = Program(steps)[u[1]] /\ steps \in Nat
        <4>1. u[1] \in Int
            BY DEF Uploads
        <4> QED
            BY <4>1, MeshGpuAt
    <3> QED
        BY <3>1, ProgramLists DEF Uploads
  <2> QED
    BY <2>1, MeshGpuAt DEF GpuCommand, Running, Upload
<1>2. u[2] \in Buffers /\ u[3] \in {"srv", "uav"} /\ u[1] \in 1 .. 21
    BY DEF Uploads, Buffers
<1>3. Uploaded(u[2], u[1], u[3])
    BY <1>1 DEF Uploads, MeshInv, BuffersHold, InputsHold, OutputsHold, PingPongIdle
<1>4. buffer \in BufferType
    BY DEF MeshInv, BuffersHold
<1>5. /\ buffer' \in BufferType
      /\ \A b \in Buffers : b # u[2] => buffer'[b] = buffer[b]
      /\ buffer'[u[2]] = [state |-> IF at = 2 THEN u[3] ELSE "copyDst", holds |-> 0, open |-> FALSE]
  <2>1. CASE at = 1
    <3>1. buffer' = [buffer EXCEPT ![u[2]].holds = 0]
        BY <1>1, <2>1 DEF GpuCommand, Run, Upload, CopyIn, Barrier
    <3>2. buffer[u[2]] = [state |-> "copyDst", holds |-> 0, open |-> FALSE]
        <4>1. ~Ran(u[1], 2)
            BY <1>1, <1>2, <2>1 DEF Ran
        <4> QED
            BY <1>3, <4>1 DEF Uploaded
    <3> QED
        BY <1>1, <1>2, <1>4, <2>1, <3>1, <3>2 DEF BufferType, BufferState
  <2>2. CASE at = 2
    <3>1. buffer' = [buffer EXCEPT ![u[2]].state = u[3], ![u[2]].open = FALSE]
        BY <1>1, <2>2 DEF GpuCommand, Run, Upload, CopyIn, Barrier
    <3>2. buffer[u[2]].holds = 0
        BY <1>1, <1>2, <1>3, <2>2 DEF Uploaded, Ran
    <3> QED
        BY <1>1, <1>2, <1>4, <2>2, <3>1, <3>2 DEF BufferType, BufferState
  <2> QED
    BY <1>1, <2>1, <2>2
<1>6. InputsHold'
    BY <1>1, <1>5 DEF MeshInv, BuffersHold, BufferType, BufferState, InputsHold, Uploaded, Ran, Uploads, Buffers
<1>7. OutputsHold'
    BY <1>1, <1>5 DEF MeshInv, BuffersHold, BufferType, BufferState, OutputsHold, Uploaded, Computed, Ran, Uploads, Buffers
<1>8. fence < 12 => PingPongIdle'
    BY <1>1, <1>5 DEF MeshInv, BuffersHold, BufferType, BufferState, PingPongIdle, Uploaded, Ran, Uploads, Buffers
<1>9. fence >= 12 => PingPong'
  <2> SUFFICES ASSUME fence >= 12
               PROVE  PingPong'
    OBVIOUS
  <2>1. StepAt' = StepAt /\ Barriers' = Barriers
    BY <1>1 DEF StepAt, Barriers, Uploads
  <2>2. \A b \in {"phaseA", "phaseB", "outA", "outB"} : buffer'[b] = buffer[b]
    BY <1>5 DEF Uploads, Buffers
  <2> QED
    BY <1>1, <2>1, <2>2 DEF MeshInv, BuffersHold, PingPong, Pair, Ran, Uploads, In
<1> QED
    BY <1>1, <1>5, <1>6, <1>7, <1>8, <1>9 DEF BuffersHold

Inputs ==
    {"a", "b", "vertex", "neighbor", "triangle", "tensor", "kA", "kB", "kPhaseIn", "kOutIn"}

\* The other lists leave alone what was uploaded and is not theirs.
LEMMA MeshInputsKept ==
    ASSUME MeshInv, fence \in {2, 3, 12, 13, 21, 22, 23, 24}, fence' = fence, at \in Nat, at' \in Nat,
           \A b \in Inputs : buffer'[b] = buffer[b]
    PROVE  InputsHold'
<1>1. InputsHold
    BY DEF MeshInv, BuffersHold
<1>2. \A i \in {1, 2, 5, 6, 7, 8, 15, 16, 18, 19} : Ran(i, 2)' <=> Ran(i, 2)
    BY DEF Ran
<1> QED
    BY <1>1, <1>2 DEF InputsHold, Uploaded, Inputs

LEMMA MeshIdleKept ==
    ASSUME MeshInv, fence \in {2, 3}, fence' = fence, at \in Nat, at' \in Nat,
           \A b \in {"phaseA", "phaseB", "outA", "outB"} : buffer'[b] = buffer[b]
    PROVE  PingPongIdle'
<1>1. PingPongIdle
    BY DEF MeshInv, BuffersHold
<1>2. \A i \in {9, 10, 11, 12} : Ran(i, 2)' <=> Ran(i, 2)
    BY DEF Ran
<1> QED
    BY <1>1, <1>2 DEF PingPongIdle, Uploaded

\* What a dispatch does to one buffer.
Wrote(r, n) == [r EXCEPT !.holds = n, !.open = TRUE]

LEMMA StateOpened ==
    ASSUME NEW v \in BufferState
    PROVE  [v EXCEPT !.open = TRUE] = [state |-> v.state, holds |-> v.holds, open |-> TRUE]
<1> PICK e : e = [v EXCEPT !.open = TRUE]
    OBVIOUS
<1>1. DOMAIN v = {"state", "holds", "open"}
    BY DEF BufferState
<1>2. e = [f \in {"state", "holds", "open"} |-> IF f = "open" THEN TRUE ELSE v[f]]
    BY <1>1, Zenon
<1>3. e = [state |-> v.state, holds |-> v.holds, open |-> TRUE]
    BY <1>2
<1> QED
    BY <1>3

LEMMA StateWritten ==
    ASSUME NEW r \in BufferState, NEW n \in Nat
    PROVE  /\ Wrote(r, n) \in BufferState /\ Wrote(r, n).state = r.state
           /\ Wrote(r, n).holds = n /\ Wrote(r, n).open = TRUE
<1> DEFINE w == [state |-> r.state, holds |-> n, open |-> TRUE]
<1> PICK v : v = [r EXCEPT !.holds = n]
    OBVIOUS
<1>1. v = [state |-> r.state, holds |-> n, open |-> r.open]
    BY DEF BufferState
<1>2. [v EXCEPT !.open = TRUE] = w
  <2>1. v \in BufferState /\ w = [state |-> v.state, holds |-> v.holds, open |-> TRUE]
    BY <1>1 DEF BufferState
  <2> QED
    BY <2>1, StateOpened, Zenon
<1>3. Wrote(r, n) = [v EXCEPT !.open = TRUE]
    BY Zenon DEF Wrote
<1>4. Wrote(r, n) = w
    BY <1>2, <1>3
<1> QED
    BY <1>4 DEF BufferState

\* A list of one dispatch, of inputs that are one upload away from their data.
LEMMA MeshDispatchStep ==
    ASSUME MeshInv, at > 0, GpuCommand, NEW out, NEW from,
           \/ fence = 2 /\ out = {"sum"} /\ from = "a"
           \/ fence = 21 /\ out = {"kOut"} /\ from = "kA"
           \/ fence = 22 /\ out = {"kPhaseOut", "kOutOut"} /\ from = "kPhaseIn"
    PROVE  BuffersHold'
<1>1. /\ steps \in Nat /\ fence \in 0 .. 24 /\ steps' = steps /\ fence' = fence /\ at = 1 /\ at' = 2
      /\ fence = 2 => Commands[1] = VectorAdd("a", "b", "sum")
      /\ fence = 21 => Commands[1] = VectorAdd("kA", "kB", "kOut")
      /\ fence = 22 => Commands[1] =
            TriangleStep("kOutIn", "kPhaseIn", "kOutIn", "kPhaseOut", "kOutOut")
  <2>1. /\ steps \in Nat /\ steps' = steps /\ fence' = fence /\ at' = at + 1 /\ at \in Nat \ {0}
        /\ at <= Len(Commands) /\ Commands = Program(steps)[fence + 1]
    BY MeshGpuAt DEF GpuCommand, Running
  <2>2. /\ fence = 2 => Commands = <<VectorAdd("a", "b", "sum")>>
        /\ fence = 21 => Commands = <<VectorAdd("kA", "kB", "kOut")>>
        /\ fence = 22 => Commands =
                <<TriangleStep("kOutIn", "kPhaseIn", "kOutIn", "kPhaseOut", "kOutOut")>>
    <3>1. /\ Program(steps)[3] = <<VectorAdd("a", "b", "sum")>>
          /\ Program(steps)[22] = <<VectorAdd("kA", "kB", "kOut")>>
          /\ Program(steps)[23] =
                <<TriangleStep("kOutIn", "kPhaseIn", "kOutIn", "kPhaseOut", "kOutOut")>>
        BY <2>1, ProgramLists
    <3> QED
        BY <2>1, <3>1
  <2>3. at = 1
    <3>1. \E c : Commands = <<c>>
        BY <2>2
    <3> QED
        BY <2>1, <3>1
  <2> QED
    BY <2>1, <2>2, <2>3
<1>2. buffer \in BufferType
    BY DEF MeshInv, BuffersHold, BufferType
<1>3. Commands[1].op = "dispatch" /\ Commands[1].writes = out /\ Commands[1].from = from
    BY <1>1 DEF VectorAdd, TriangleStep, Dispatch
<1>4. buffer[from].holds = 0
    BY <1>1 DEF MeshInv, BuffersHold, InputsHold, Uploaded
<1>5. /\ buffer' \in BufferType
      /\ \A b \in Buffers : b \notin out => buffer'[b] = buffer[b]
      /\ \A b \in out : /\ buffer'[b].state = buffer[b].state /\ buffer'[b].holds = 1
                        /\ buffer'[b].open = TRUE
  <2> PICK c : c = Commands[1]
    OBVIOUS
  <2>1. buffer' = Run(c)
    BY <1>1 DEF GpuCommand
  <2>2. c.op = "dispatch" /\ c.writes = out /\ c.from = from
    BY <1>3
  <2>3. out \subseteq Buffers /\ from \in Buffers
    BY DEF Buffers
  <2>4. buffer' = [b \in Buffers |->
                     IF b \in c.writes
                     THEN Wrote(buffer[b], buffer[c.from].holds + 1)
                     ELSE buffer[b]]
    BY <2>1, <2>2 DEF Run, Wrote
  <2>5. DOMAIN buffer' = Buffers /\ \A b \in Buffers : b \notin out => buffer'[b] = buffer[b]
    BY <2>2, <2>4
  <2>6. \A b \in out : buffer'[b] = Wrote(buffer[b], 1)
    <3>1. buffer[c.from].holds + 1 = 1
        BY <1>4, <2>2
    <3> QED
        BY <2>2, <2>3, <2>4, <3>1
  <2>7. buffer' = [b \in Buffers |-> buffer'[b]]
    BY <2>4
  <2>9. \A b \in Buffers : buffer[b] \in
            BufferState
    BY <1>2 DEF BufferType, BufferState
  <2>10. \A b \in out :
            /\ buffer'[b] \in BufferState
            /\ buffer'[b].state = buffer[b].state /\ buffer'[b].holds = 1 /\ buffer'[b].open = TRUE
    <3>1. 1 \in Nat
        OBVIOUS
    <3>2. \A b \in out : b \in Buffers
        BY <2>3
    <3>3. \A b \in out : /\ Wrote(buffer[b], 1) \in BufferState /\ Wrote(buffer[b], 1).state = buffer[b].state
                         /\ Wrote(buffer[b], 1).holds = 1 /\ Wrote(buffer[b], 1).open = TRUE
        BY <2>9, <3>1, <3>2, StateWritten, Zenon
    <3> QED
        BY <2>6, <3>3
  <2>11. \A b \in Buffers : buffer'[b] \in
            BufferState
    BY <2>5, <2>9, <2>10
  <2> QED
    BY <2>5, <2>7, <2>10, <2>11 DEF BufferType, BufferState
<1>6. InputsHold'
  <2>1. \A b \in Inputs : buffer'[b] = buffer[b]
    BY <1>5 DEF Inputs, Buffers
  <2> QED
    BY <1>1, <2>1, MeshInputsKept
<1>7. OutputsHold'
  <2>1. CASE fence = 2
    <3>1. /\ \A b \in {"kOut", "kPhaseOut", "kOutOut"} : buffer'[b] = buffer[b]
          /\ buffer'["sum"].state = buffer["sum"].state /\ buffer'["sum"].holds = 1 /\ buffer'["sum"].open
        BY <2>1, <1>5 DEF Buffers
    <3> QED
        BY <1>1, <2>1, <3>1 DEF MeshInv, BuffersHold, OutputsHold, Uploaded, Computed, Ran
  <2>2. CASE fence = 21
    <3>1. /\ \A b \in {"sum", "kPhaseOut", "kOutOut"} : buffer'[b] = buffer[b]
          /\ buffer'["kOut"].state = buffer["kOut"].state /\ buffer'["kOut"].holds = 1 /\ buffer'["kOut"].open
        BY <2>2, <1>5 DEF Buffers
    <3> QED
        BY <1>1, <2>2, <3>1 DEF MeshInv, BuffersHold, OutputsHold, Uploaded, Computed, Ran
  <2>3. CASE fence = 22
    <3>1. /\ \A b \in {"sum", "kOut"} : buffer'[b] = buffer[b]
          /\ \A b \in {"kPhaseOut", "kOutOut"} :
                buffer'[b].state = buffer[b].state /\ buffer'[b].holds = 1 /\ buffer'[b].open
        BY <2>3, <1>5 DEF Buffers
    <3> QED
        BY <1>1, <2>3, <3>1 DEF MeshInv, BuffersHold, OutputsHold, Uploaded, Computed, Ran
  <2> QED
    BY <2>1, <2>2, <2>3
<1>8. fence < 12 => PingPongIdle'
  <2>1. \A b \in {"phaseA", "phaseB", "outA", "outB"} : buffer'[b] = buffer[b]
    BY <1>5 DEF Buffers
  <2> QED
    BY <1>1, <2>1, MeshIdleKept
<1>9. fence >= 12 => PingPong'
  <2> SUFFICES ASSUME fence >= 12
               PROVE  PingPong'
    OBVIOUS
  <2>1. StepAt' = StepAt /\ Barriers' = Barriers
    BY <1>1 DEF StepAt, Barriers
  <2>2. \A b \in {"phaseA", "phaseB", "outA", "outB"} : buffer'[b] = buffer[b]
    BY <1>5 DEF Buffers
  <2> QED
    BY <1>1, <2>1, <2>2 DEF MeshInv, BuffersHold, PingPong, Pair, Ran, In
<1> QED
    BY <1>1, <1>5, <1>6, <1>7, <1>8, <1>9 DEF BuffersHold, BufferType

\* A list that reads a written buffer back.
LEMMA MeshReadbackStep ==
    ASSUME MeshInv, at > 0, GpuCommand, NEW src,
           \/ fence = 3 /\ src = "sum"
           \/ fence = 13 /\ src = In(steps)[2]
           \/ fence = 23 /\ src = "kOut"
           \/ fence = 24 /\ src = "kOutOut"
    PROVE  BuffersHold'
<1>1. /\ steps \in Nat \ {0} /\ fence \in 0 .. 24 /\ steps' = steps /\ fence' = fence /\ at' = at + 1 /\ at \in 1 .. 2
      /\ Commands = Readback(src)
  <2>1. /\ steps \in Nat \ {0} /\ steps' = steps /\ fence' = fence /\ at' = at + 1 /\ at \in Nat \ {0}
        /\ at <= Len(Commands) /\ Commands = Program(steps)[fence + 1]
    BY MeshGpuAt DEF GpuCommand, Running
  <2>2. FinalOut(steps) = In(steps)[2]
    BY DEF FinalOut, In
  <2>3. Commands = Readback(src)
    <3>1. /\ Program(steps)[4] = Readback("sum") /\ Program(steps)[14] = Readback(FinalOut(steps))
          /\ Program(steps)[24] = Readback("kOut") /\ Program(steps)[25] = Readback("kOutOut")
        BY <2>1, ProgramLists
    <3> QED
        BY <2>1, <2>2, <3>1
  <2> QED
    BY <2>1, <2>3 DEF Readback
<1>2. buffer \in BufferType
    BY DEF MeshInv, BuffersHold, BufferType
<1>3. src \in {"sum", "kOut", "kOutOut", "outA", "outB"} /\ ~buffer[src].open
  <2>1. CASE fence = 13
    <3>1. StepAt = steps /\ Barriers = 0
        BY <2>1 DEF StepAt, Barriers
    <3> QED
        BY <1>1, <2>1, <3>1 DEF MeshInv, BuffersHold, PingPong, Pair, In
  <2>2. CASE fence # 13
    BY <2>2 DEF MeshInv, BuffersHold, OutputsHold, Computed
  <2> QED
    BY <2>1, <2>2
<1>4. /\ buffer' \in BufferType
      /\ \A b \in Buffers : b # src => buffer'[b] = buffer[b]
      /\ buffer'[src].state = IF at = 1 THEN "copySrc" ELSE buffer[src].state
      /\ buffer'[src].holds = buffer[src].holds /\ ~buffer'[src].open
  <2>1. src \in Buffers
    BY <1>3 DEF Buffers
  <2>2. CASE at = 1
    <3>1. buffer' = [buffer EXCEPT ![src].state = "copySrc", ![src].open = FALSE]
        BY <1>1, <2>2 DEF GpuCommand, Run, Readback, Barrier
    <3> QED
        BY <1>2, <2>1, <2>2, <3>1 DEF BufferType, BufferState
  <2>3. CASE at = 2
    <3>1. buffer' = buffer
        BY <1>1, <2>3 DEF GpuCommand, Run, Readback, CopyOut
    <3> QED
        BY <1>2, <1>3, <2>1, <2>3, <3>1 DEF BufferType, BufferState
  <2> QED
    BY <1>1, <2>2, <2>3
<1>5. InputsHold'
  <2>1. \A b \in Inputs : buffer'[b] = buffer[b]
    BY <1>3, <1>4 DEF Inputs, Buffers
  <2> QED
    BY <1>1, <2>1, MeshInputsKept
<1>6. OutputsHold'
  <2>1. CASE fence = 3
    <3>1. /\ \A b \in {"kOut", "kPhaseOut", "kOutOut"} : buffer'[b] = buffer[b]
          /\ buffer'["sum"].state = IF at = 1 THEN "copySrc" ELSE buffer["sum"].state
          /\ buffer'["sum"].holds = buffer["sum"].holds /\ ~buffer'["sum"].open
        BY <2>1, <1>4 DEF Buffers
    <3> QED
        BY <1>1, <2>1, <3>1 DEF MeshInv, BuffersHold, OutputsHold, Uploaded, Computed, Ran
  <2>2. CASE fence = 13
    <3>1. \A b \in {"sum", "kOut", "kPhaseOut", "kOutOut"} : buffer'[b] = buffer[b]
        BY <2>2, <1>4 DEF Buffers, In
    <3> QED
        BY <1>1, <2>2, <3>1 DEF MeshInv, BuffersHold, OutputsHold, Uploaded, Computed, Ran
  <2>3. CASE fence = 23
    <3>1. /\ \A b \in {"sum", "kPhaseOut", "kOutOut"} : buffer'[b] = buffer[b]
          /\ buffer'["kOut"].state = IF at = 1 THEN "copySrc" ELSE buffer["kOut"].state
          /\ buffer'["kOut"].holds = buffer["kOut"].holds /\ ~buffer'["kOut"].open
        BY <2>3, <1>4 DEF Buffers
    <3> QED
        BY <1>1, <2>3, <3>1 DEF MeshInv, BuffersHold, OutputsHold, Uploaded, Computed, Ran
  <2>4. CASE fence = 24
    <3>1. /\ \A b \in {"sum", "kPhaseOut", "kOut"} : buffer'[b] = buffer[b]
          /\ buffer'["kOutOut"].state = IF at = 1 THEN "copySrc" ELSE buffer["kOutOut"].state
          /\ buffer'["kOutOut"].holds = buffer["kOutOut"].holds /\ ~buffer'["kOutOut"].open
        BY <2>4, <1>4 DEF Buffers
    <3> QED
        BY <1>1, <2>4, <3>1 DEF MeshInv, BuffersHold, OutputsHold, Uploaded, Computed, Ran
  <2> QED
    BY <2>1, <2>2, <2>3, <2>4
<1>7. fence < 12 => PingPongIdle'
  <2> SUFFICES ASSUME fence < 12
               PROVE  PingPongIdle'
    OBVIOUS
  <2>1. \A b \in {"phaseA", "phaseB", "outA", "outB"} : buffer'[b] = buffer[b]
    BY <1>4 DEF Buffers
  <2>2. fence = 3
    OBVIOUS
  <2> QED
    BY <1>1, <2>1, <2>2, MeshIdleKept
<1>8. fence >= 12 => PingPong'
  <2> SUFFICES ASSUME fence >= 12
               PROVE  PingPong'
    OBVIOUS
  <2>1. StepAt' = steps /\ Barriers' = 0 /\ StepAt = steps /\ Barriers = 0
    BY <1>1 DEF StepAt, Barriers
  <2> QED
    BY <1>1, <1>3, <1>4, <2>1 DEF MeshInv, BuffersHold, PingPong, Pair, Ran, In, Buffers
<1> QED
    BY <1>1, <1>4, <1>5, <1>6, <1>7, <1>8 DEF BuffersHold, BufferType

\* Command i of list 13 is command q of step k, and is followed by the next one.
StepFacts(n, i, k, q) ==
    /\ k \in 0 .. n - 1 /\ q \in 0 .. 4 /\ i + 3 = 5 * k + q
    /\ q < 4 => (i + 4) \div 5 = k /\ (i + 4) % 5 = q + 1
    /\ q = 4 => (i + 4) \div 5 = k + 1 /\ (i + 4) % 5 = 0
    /\ q = 0 => StepCommands(n)[i] = Barrier(In(k)[1], "uav", "srv")
    /\ q = 1 => StepCommands(n)[i] = Barrier(In(k)[2], "uav", "srv")
    /\ q = 2 => StepCommands(n)[i] = Barrier(In(k + 1)[1], "srv", "uav")
    /\ q = 3 => StepCommands(n)[i] = Barrier(In(k + 1)[2], "srv", "uav")
    /\ q = 4 => StepCommands(n)[i] = HeapStep(k)
    /\ k = 0 => q = 4

LEMMA StepCommand ==
    ASSUME NEW n \in Nat \ {0}, NEW i \in 1 .. 5 * n - 4
    PROVE  StepFacts(n, i, (i + 3) \div 5, (i + 3) % 5)
<1> PICK k, q : k = (i + 3) \div 5 /\ q = (i + 3) % 5
    OBVIOUS
<1>1. k \in Nat /\ q \in 0 .. 4 /\ i + 3 = 5 * k + q
    OBVIOUS
<1>2. k \in 0 .. n - 1
    BY <1>1
<1>3. (q < 4 => (i + 4) \div 5 = k /\ (i + 4) % 5 = q + 1) /\ (q = 4 => (i + 4) \div 5 = k + 1 /\ (i + 4) % 5 = 0)
    BY <1>1
<1>4. k = 0 => q = 4
    BY <1>1
<1>5. StepCommands(n)[i] = IF q = 4 THEN HeapStep(k) ELSE SwapBarriers(k)[q + 1]
    BY <1>1 DEF StepCommands
<1>6. /\ SwapBarriers(k)[1] = Barrier(In(k)[1], "uav", "srv")
      /\ SwapBarriers(k)[2] = Barrier(In(k)[2], "uav", "srv")
      /\ SwapBarriers(k)[3] = Barrier(In(k + 1)[1], "srv", "uav")
      /\ SwapBarriers(k)[4] = Barrier(In(k + 1)[2], "srv", "uav")
    BY DEF SwapBarriers
<1> QED
    BY <1>1, <1>2, <1>3, <1>4, <1>5, <1>6 DEF StepFacts

\* The two pairs of the ping-pong are apart and alternate.
LEMMA PairsAlternate ==
    ASSUME NEW k \in Nat
    PROVE  /\ {In(k)[1], In(k)[2], In(k + 1)[1], In(k + 1)[2]} = {"phaseA", "outA", "phaseB", "outB"}
           /\ In(k)[1] # In(k)[2] /\ In(k)[1] # In(k + 1)[1] /\ In(k)[1] # In(k + 1)[2]
           /\ In(k)[2] # In(k + 1)[1] /\ In(k)[2] # In(k + 1)[2] /\ In(k + 1)[1] # In(k + 1)[2]
           /\ In(k + 2) = In(k)
           /\ HeapStep(k) = TriangleStep("tensor", In(k)[1], In(k)[2], In(k + 1)[1], In(k + 1)[2])
<1>1. k % 2 = 0 \/ k % 2 = 1
    OBVIOUS
<1>2. CASE k % 2 = 0
  <2>1. (k + 1) % 2 = 1 /\ (k + 2) % 2 = 0
    BY <1>2
  <2> QED
    BY <1>2, <2>1 DEF In, HeapStep
<1>3. CASE k % 2 = 1
  <2>1. (k + 1) % 2 = 0 /\ (k + 2) % 2 = 1
    BY <1>3
  <2> QED
    BY <1>3, <2>1 DEF In, HeapStep
<1> QED
    BY <1>1, <1>2, <1>3

\* A command of a triangle step.
LEMMA MeshTriangleStep ==
    ASSUME MeshInv, at > 0, GpuCommand, fence = 12
    PROVE  BuffersHold'
<1> PICK k, q : k = (at + 3) \div 5 /\ q = (at + 3) % 5
    OBVIOUS
<1>1. /\ steps \in Nat \ {0} /\ steps' = steps /\ fence' = fence /\ at' = at + 1
      /\ at \in 1 .. 5 * steps - 4 /\ Commands = StepCommands(steps)
  <2>1. /\ steps \in Nat \ {0} /\ steps' = steps /\ fence' = fence /\ at' = at + 1 /\ at \in Nat \ {0}
        /\ at <= Len(Commands) /\ Commands = Program(steps)[13]
    BY MeshGpuAt DEF GpuCommand, Running
  <2>2. Commands = StepCommands(steps)
    BY <2>1, ProgramLists
  <2>3. Len(Commands) = 5 * steps - 4
    BY <2>1, <2>2 DEF StepCommands
  <2> QED
    BY <2>1, <2>2, <2>3
<1>20. StepFacts(steps, at, k, q)
    BY <1>1, StepCommand
<1>2. /\ k \in 0 .. steps - 1 /\ q \in 0 .. 4
      /\ q < 4 => StepAt' = k /\ Barriers' = q + 1
      /\ q = 4 => StepAt' = k + 1 /\ Barriers' = 0
      /\ StepAt = k /\ Barriers = q /\ (k = 0 => q = 4)
  <2>1. at' + 3 = at + 4 /\ at' # 0
    BY <1>1
  <2> QED
    BY <1>1, <1>20, <2>1 DEF StepFacts, StepAt, Barriers
<1>3. buffer \in BufferType
    BY DEF MeshInv, BuffersHold, BufferType
<1> DEFINE p == In(k)  o == In(k + 1)
<1>4. /\ \A b \in {p[1], p[2], o[1], o[2]} : b \in {"phaseA", "outA", "phaseB", "outB"} /\ b \in Buffers
      /\ {p[1], p[2], o[1], o[2]} = {"phaseA", "outA", "phaseB", "outB"}
      /\ p[1] # p[2] /\ p[1] # o[1] /\ p[1] # o[2] /\ p[2] # o[1] /\ p[2] # o[2] /\ o[1] # o[2]
      /\ In(k + 2) = p
  <2>1. \A n \in Nat : \A b \in {In(n)[1], In(n)[2]} : b \in {"phaseA", "outA", "phaseB", "outB"}
    BY DEF In
  <2>2. k \in Nat /\ k + 1 \in Nat
    BY <1>2
  <2>3. \A b \in {p[1], p[2], o[1], o[2]} : b \in {"phaseA", "outA", "phaseB", "outB"}
    BY <2>1, <2>2
  <2> QED
    BY <2>2, <2>3, PairsAlternate DEF Buffers
<1>5. /\ Pair(p, k, IF q > 0 THEN "srv" ELSE "uav", IF q > 1 THEN "srv" ELSE "uav", q < 1, q < 2)
      /\ Pair(o, IF k = 0 THEN 0 ELSE k - 1, IF q > 2 THEN "uav" ELSE "srv",
              IF q > 3 THEN "uav" ELSE "srv", FALSE, FALSE)
    BY <1>2 DEF MeshInv, BuffersHold, PingPong, Pair, Ran
<1>6. ASSUME NEW b \in {"phaseA", "outA", "phaseB", "outB"}, NEW before, NEW after \in {"srv", "uav"},
             Commands[at] = Barrier(b, before, after)
      PROVE  /\ buffer' \in BufferType
             /\ \A c \in Buffers : c # b => buffer'[c] = buffer[c]
             /\ buffer'[b].state = after /\ buffer'[b].holds = buffer[b].holds /\ ~buffer'[b].open
  <2>1. buffer' = [buffer EXCEPT ![b].state = after, ![b].open = FALSE]
    BY <1>6 DEF GpuCommand, Run, Barrier
  <2>2. b \in Buffers
    BY DEF Buffers
  <2> QED
    BY <1>3, <2>1, <2>2 DEF BufferType, BufferState
<1>7. /\ buffer' \in BufferType
      /\ \A b \in Buffers \ {"phaseA", "outA", "phaseB", "outB"} : buffer'[b] = buffer[b]
      /\ PingPong'
  <2>1. CASE q = 0
    <3>1. Commands[at] = Barrier(p[1], "uav", "srv")
        BY <1>1, <1>20, <2>1 DEF StepFacts
    <3>2. /\ buffer' \in BufferType
          /\ \A c \in Buffers : c # p[1] => buffer'[c] = buffer[c]
          /\ buffer'[p[1]].state = "srv" /\ buffer'[p[1]].holds = buffer[p[1]].holds
          /\ ~buffer'[p[1]].open
        BY <1>4, <1>6, <3>1
    <3>3. StepAt' = k /\ Barriers' = 1 /\ fence' = 12 /\ ~Ran(14, 1)'
        BY <1>1, <1>2, <2>1 DEF Ran
    <3>4. \A c \in {p[2], o[1], o[2]} : buffer'[c] = buffer[c]
        BY <1>4, <3>2 DEF Buffers
    <3> QED
        BY <1>2, <1>4, <1>5, <2>1, <3>2, <3>3, <3>4 DEF PingPong, Pair, Buffers
  <2>2. CASE q = 1
    <3>1. Commands[at] = Barrier(p[2], "uav", "srv")
        BY <1>1, <1>20, <2>2 DEF StepFacts
    <3>2. /\ buffer' \in BufferType
          /\ \A c \in Buffers : c # p[2] => buffer'[c] = buffer[c]
          /\ buffer'[p[2]].state = "srv" /\ buffer'[p[2]].holds = buffer[p[2]].holds
          /\ ~buffer'[p[2]].open
        BY <1>4, <1>6, <3>1
    <3>3. StepAt' = k /\ Barriers' = 2 /\ fence' = 12 /\ ~Ran(14, 1)'
        BY <1>1, <1>2, <2>2 DEF Ran
    <3>4. \A c \in {p[1], o[1], o[2]} : buffer'[c] = buffer[c]
        BY <1>4, <3>2 DEF Buffers
    <3> QED
        BY <1>2, <1>4, <1>5, <2>2, <3>2, <3>3, <3>4 DEF PingPong, Pair, Buffers
  <2>3. CASE q = 2
    <3>1. Commands[at] = Barrier(o[1], "srv", "uav")
        BY <1>1, <1>20, <2>3 DEF StepFacts
    <3>2. /\ buffer' \in BufferType
          /\ \A c \in Buffers : c # o[1] => buffer'[c] = buffer[c]
          /\ buffer'[o[1]].state = "uav" /\ buffer'[o[1]].holds = buffer[o[1]].holds
          /\ ~buffer'[o[1]].open
        BY <1>4, <1>6, <3>1
    <3>3. StepAt' = k /\ Barriers' = 3 /\ fence' = 12 /\ ~Ran(14, 1)'
        BY <1>1, <1>2, <2>3 DEF Ran
    <3>4. \A c \in {p[1], p[2], o[2]} : buffer'[c] = buffer[c]
        BY <1>4, <3>2 DEF Buffers
    <3> QED
        BY <1>2, <1>4, <1>5, <2>3, <3>2, <3>3, <3>4 DEF PingPong, Pair, Buffers
  <2>4. CASE q = 3
    <3>1. Commands[at] = Barrier(o[2], "srv", "uav")
        BY <1>1, <1>20, <2>4 DEF StepFacts
    <3>2. /\ buffer' \in BufferType
          /\ \A c \in Buffers : c # o[2] => buffer'[c] = buffer[c]
          /\ buffer'[o[2]].state = "uav" /\ buffer'[o[2]].holds = buffer[o[2]].holds
          /\ ~buffer'[o[2]].open
        BY <1>4, <1>6, <3>1
    <3>3. StepAt' = k /\ Barriers' = 4 /\ fence' = 12 /\ ~Ran(14, 1)'
        BY <1>1, <1>2, <2>4 DEF Ran
    <3>4. \A c \in {p[1], p[2], o[1]} : buffer'[c] = buffer[c]
        BY <1>4, <3>2 DEF Buffers
    <3> QED
        BY <1>2, <1>4, <1>5, <2>4, <3>2, <3>3, <3>4 DEF PingPong, Pair, Buffers
  <2>5. CASE q = 4
    <3> PICK c : c = Commands[at]
        OBVIOUS
    <3>1. c = TriangleStep("tensor", p[1], p[2], o[1], o[2])
        BY <1>1, <1>2, <1>20, <2>5, PairsAlternate DEF StepFacts
    <3>2. c.op = "dispatch" /\ c.writes = {o[1], o[2]} /\ c.from = p[1]
        BY <3>1 DEF TriangleStep, Dispatch
    <3>3. buffer' = [b \in Buffers |->
                       IF b \in c.writes
                       THEN Wrote(buffer[b], buffer[c.from].holds + 1)
                       ELSE buffer[b]]
        BY <3>2 DEF GpuCommand, Run, Wrote
    <3>4. {p[1], p[2], o[1], o[2]} \subseteq Buffers
        BY <1>4 DEF Buffers
    <3>5. /\ \A b \in Buffers : b \notin {o[1], o[2]} => buffer'[b] = buffer[b]
          /\ \A b \in {o[1], o[2]} : buffer'[b] = Wrote(buffer[b], k + 1)
          /\ buffer' = [b \in Buffers |-> buffer'[b]]
        BY <1>5, <3>2, <3>3, <3>4 DEF Pair
    <3>6. \A b \in {o[1], o[2]} :
            /\ buffer'[b] \in BufferState /\ buffer'[b].state = buffer[b].state
            /\ buffer'[b].holds = k + 1 /\ buffer'[b].open = TRUE
        <4>1. k + 1 \in Nat /\ \A b \in {o[1], o[2]} : buffer[b] \in BufferState
            BY <1>2, <1>3, <3>4 DEF BufferType
        <4>2. \A b \in {o[1], o[2]} :
                /\ Wrote(buffer[b], k + 1) \in BufferState
                /\ Wrote(buffer[b], k + 1).state = buffer[b].state
                /\ Wrote(buffer[b], k + 1).holds = k + 1 /\ Wrote(buffer[b], k + 1).open = TRUE
            BY <4>1, StateWritten, Zenon
        <4> QED
            BY <3>5, <4>2
    <3>7. buffer' \in BufferType
        BY <1>3, <3>5, <3>6 DEF BufferType
    <3>8. buffer'[p[1]] = buffer[p[1]] /\ buffer'[p[2]] = buffer[p[2]]
        BY <1>4, <3>4, <3>5
    <3>9. StepAt' = k + 1 /\ Barriers' = 0 /\ fence' = 12 /\ ~Ran(14, 1)'
        BY <1>1, <1>2, <2>5 DEF Ran
    <3>10. Pair(o, k + 1, "uav", "uav", TRUE, TRUE)'
        BY <1>5, <2>5, <3>6 DEF Pair
    <3>11. Pair(p, k, "srv", "srv", FALSE, FALSE)'
        BY <1>5, <2>5, <3>8 DEF Pair
    <3>12. k + 1 # 0 /\ (k + 1) - 1 = k /\ (k + 1) + 1 = k + 2
        BY <1>2
    <3> QED
        BY <1>4, <3>5, <3>7, <3>9, <3>10, <3>11, <3>12 DEF PingPong, Pair
  <2> QED
    BY <1>2, <2>1, <2>2, <2>3, <2>4, <2>5
<1>8. InputsHold'
  <2>1. \A b \in Inputs : buffer'[b] = buffer[b]
    BY <1>7 DEF Inputs, Buffers
  <2> QED
    BY <1>1, <2>1, MeshInputsKept
<1>9. OutputsHold'
  <2>1. \A b \in {"sum", "kOut", "kPhaseOut", "kOutOut"} : buffer'[b] = buffer[b]
    BY <1>7 DEF Buffers
  <2> QED
    BY <1>1, <2>1 DEF MeshInv, BuffersHold, OutputsHold, Uploaded, Computed, Ran
<1> QED
    BY <1>1, <1>7, <1>8, <1>9 DEF BuffersHold, BufferType, BufferState

\* The end of a list: its writes are visible, and the next list starts.
LEMMA MeshSignalStep ==
    ASSUME MeshInv, at > 0, Signal
    PROVE  BuffersHold'
<1>1. /\ steps \in Nat \ {0} /\ steps' = steps /\ fence \in 0 .. 24 /\ fence' = fence + 1 /\ at' = 0
      /\ at = Len(Program(steps)[fence + 1]) + 1
    BY MeshGpuAt DEF Signal
<1>2. /\ buffer \in BufferType
      /\ buffer' = [b \in Buffers |-> [buffer[b] EXCEPT !.open = FALSE]]
    BY DEF MeshInv, BuffersHold, Signal
<1>3. /\ buffer' \in BufferType
      /\ \A b \in Buffers : /\ buffer'[b].state = buffer[b].state /\ buffer'[b].holds = buffer[b].holds
                            /\ ~buffer'[b].open
                            /\ ~buffer[b].open => buffer'[b] = buffer[b]
    BY <1>2 DEF BufferType, BufferState
<1>4. /\ fence = 12 => at = 5 * steps - 3
      /\ fence \in {2, 21, 22} => at = 2
      /\ fence \notin {2, 12, 21, 22} => at = 3
  <2>1. fence + 1 \in 1 .. 25
    BY <1>1
  <2> QED
    <3>1. Len(Program(steps)[fence + 1]) = IF fence + 1 = 13 THEN 5 * steps - 4
                                          ELSE IF fence + 1 \in {3, 22, 23} THEN 1 ELSE 2
        BY <1>1, <2>1, ListLengths
    <3> QED
        BY <1>1, <3>1
<1>5. \A i \in {1, 2, 5, 6, 7, 8, 9, 10, 11, 12, 15, 16, 17, 18, 19, 20, 21} : Ran(i, 2)' <=> Ran(i, 2)
    BY <1>1, <1>4 DEF Ran
<1>6. \A i \in {3, 4, 14, 22, 23, 24, 25, 26} : Ran(i, 1)' <=> Ran(i, 1)
    BY <1>1, <1>4 DEF Ran
<1>7. InputsHold'
  <2>1. \A b \in Inputs : b \in Buffers /\ ~buffer[b].open
    BY DEF MeshInv, BuffersHold, InputsHold, Uploaded, Inputs, Buffers
  <2>2. \A b \in Inputs : buffer'[b] = buffer[b]
    BY <1>3, <2>1
  <2> QED
    BY <1>5, <2>2 DEF MeshInv, BuffersHold, InputsHold, Uploaded, Inputs
<1>8. Computed("sum", "uav", 3, 4)'
    BY <1>1, <1>3, <1>6 DEF MeshInv, BuffersHold, OutputsHold, Computed, Buffers
<1>9. IF fence' < 17 THEN Uploaded("kOut", 17, "uav")' ELSE Computed("kOut", "uav", 22, 24)'
  <2>1. CASE fence < 17
    <3>1. Uploaded("kOut", 17, "uav") /\ buffer'["kOut"] = buffer["kOut"]
        BY <1>1, <1>3, <2>1 DEF MeshInv, BuffersHold, OutputsHold, Uploaded, Buffers
    <3>2. fence' < 17 => Uploaded("kOut", 17, "uav")'
        BY <1>5, <3>1 DEF Uploaded
    <3>3. fence' = 17 => Computed("kOut", "uav", 22, 24)'
        <4> SUFFICES ASSUME fence' = 17
                     PROVE  Computed("kOut", "uav", 22, 24)'
            OBVIOUS
        <4>1. Ran(17, 2) /\ ~Ran(22, 1)' /\ ~Ran(24, 1)'
            BY <1>1, <1>4 DEF Ran
        <4> QED
            BY <1>1, <3>1, <4>1 DEF Uploaded, Computed
    <3> QED
        BY <1>1, <2>1, <3>2, <3>3
  <2>2. CASE fence >= 17
    BY <1>1, <1>3, <1>6, <2>2 DEF MeshInv, BuffersHold, OutputsHold, Computed, Buffers
  <2> QED
    BY <1>1, <2>1, <2>2
<1>10. IF fence' < 20 THEN Uploaded("kPhaseOut", 20, "uav")' ELSE Computed("kPhaseOut", "uav", 23, 26)'
  <2>1. CASE fence < 20
    <3>1. Uploaded("kPhaseOut", 20, "uav") /\ buffer'["kPhaseOut"] = buffer["kPhaseOut"]
        BY <1>1, <1>3, <2>1 DEF MeshInv, BuffersHold, OutputsHold, Uploaded, Buffers
    <3>2. fence' < 20 => Uploaded("kPhaseOut", 20, "uav")'
        BY <1>5, <3>1 DEF Uploaded
    <3>3. fence' = 20 => Computed("kPhaseOut", "uav", 23, 26)'
        <4> SUFFICES ASSUME fence' = 20
                     PROVE  Computed("kPhaseOut", "uav", 23, 26)'
            OBVIOUS
        <4>1. Ran(20, 2) /\ ~Ran(23, 1)' /\ ~Ran(26, 1)'
            BY <1>1, <1>4 DEF Ran
        <4> QED
            BY <1>1, <3>1, <4>1 DEF Uploaded, Computed
    <3> QED
        BY <1>1, <2>1, <3>2, <3>3
  <2>2. CASE fence >= 20
    BY <1>1, <1>3, <1>6, <2>2 DEF MeshInv, BuffersHold, OutputsHold, Computed, Buffers
  <2> QED
    BY <1>1, <2>1, <2>2
<1>11. IF fence' < 21 THEN Uploaded("kOutOut", 21, "uav")' ELSE Computed("kOutOut", "uav", 23, 25)'
  <2>1. CASE fence < 21
    <3>1. Uploaded("kOutOut", 21, "uav") /\ buffer'["kOutOut"] = buffer["kOutOut"]
        BY <1>1, <1>3, <2>1 DEF MeshInv, BuffersHold, OutputsHold, Uploaded, Buffers
    <3>2. fence' < 21 => Uploaded("kOutOut", 21, "uav")'
        BY <1>5, <3>1 DEF Uploaded
    <3>3. fence' = 21 => Computed("kOutOut", "uav", 23, 25)'
        <4> SUFFICES ASSUME fence' = 21
                     PROVE  Computed("kOutOut", "uav", 23, 25)'
            OBVIOUS
        <4>1. Ran(21, 2) /\ ~Ran(23, 1)' /\ ~Ran(25, 1)'
            BY <1>1, <1>4 DEF Ran
        <4> QED
            BY <1>1, <3>1, <4>1 DEF Uploaded, Computed
    <3> QED
        BY <1>1, <2>1, <3>2, <3>3
  <2>2. CASE fence >= 21
    BY <1>1, <1>3, <1>6, <2>2 DEF MeshInv, BuffersHold, OutputsHold, Computed, Buffers
  <2> QED
    BY <1>1, <2>1, <2>2
<1>12. CASE fence < 12
  <2>1. PingPongIdle
    BY <1>12 DEF MeshInv, BuffersHold
  <2>2. \A b \in {"phaseA", "phaseB", "outA", "outB"} : buffer'[b] = buffer[b]
    BY <1>3, <2>1 DEF PingPongIdle, Uploaded, Buffers
  <2>3. fence' < 12 => PingPongIdle'
    BY <1>5, <2>1, <2>2 DEF PingPongIdle, Uploaded
  <2>4. fence' = 12 => PingPong'
    <3> SUFFICES ASSUME fence' = 12
                 PROVE  PingPong'
        OBVIOUS
    <3>1. StepAt' = 0 /\ Barriers' = 4 /\ ~Ran(14, 1)'
        BY <1>1 DEF StepAt, Barriers, Ran
    <3>2. /\ \A b \in {"phaseA", "outA"} : buffer'[b] = [state |-> "srv", holds |-> 0, open |-> FALSE]
          /\ \A b \in {"phaseB", "outB"} : buffer'[b] = [state |-> "uav", holds |-> 0, open |-> FALSE]
        <4>1. Ran(9, 2) /\ Ran(10, 2) /\ Ran(11, 2) /\ Ran(12, 2)
            BY <1>1, <1>4 DEF Ran
        <4> QED
            BY <2>1, <2>2, <4>1 DEF PingPongIdle, Uploaded
    <3> QED
        BY <3>1, <3>2 DEF PingPong, Pair, In
  <2> QED
    BY <1>1, <1>3, <1>7, <1>8, <1>9, <1>10, <1>11, <1>12, <2>3, <2>4 DEF BuffersHold, OutputsHold
<1>13. CASE fence >= 12
  <2>1. PingPong
    BY <1>1, <1>13 DEF MeshInv, BuffersHold
  <2>2. /\ StepAt = steps /\ Barriers = 0 /\ StepAt' = steps /\ Barriers' = 0
        /\ Ran(14, 1)' <=> Ran(14, 1)
        /\ fence' > 12
    <3>1. (5 * steps - 3 + 3) \div 5 = steps /\ (5 * steps - 3 + 3) % 5 = 0 /\ 5 * steps - 3 # 0
        BY <1>1
    <3>2. StepAt = steps /\ Barriers = 0
        <4>1. CASE fence = 12
            BY <1>4, <3>1, <4>1 DEF StepAt, Barriers
        <4>2. CASE fence > 12
            BY <4>2 DEF StepAt, Barriers
        <4> QED
            BY <1>1, <1>13, <4>1, <4>2
    <3>3. StepAt' = steps /\ Barriers' = 0 /\ fence' > 12
        BY <1>1, <1>13 DEF StepAt, Barriers
    <3> QED
        BY <1>6, <3>2, <3>3
  <2>3. \A n \in Nat : In(n)[1] \in Buffers /\ In(n)[2] \in Buffers
    BY DEF In, Buffers
  <2>4. steps + 1 \in Nat
    BY <1>1
  <2>5. PingPong'
    BY <1>1, <1>3, <2>1, <2>2, <2>3, <2>4 DEF PingPong, Pair
  <2> QED
    BY <1>1, <1>3, <1>7, <1>8, <1>9, <1>10, <1>11, <1>13, <2>5 DEF BuffersHold, OutputsHold
<1> QED
    BY <1>1, <1>12, <1>13

\* What list f is, by its number.
LEMMA ListKinds ==
    ASSUME MeshInv, at > 0, at <= Len(Commands)
    PROVE  \/ \E u \in Uploads : fence = u[1] - 1 /\ Commands = Upload(u[2], 0, u[3]) /\ at \in 1 .. 2
           \/ fence = 2 /\ at = 1 /\ Commands = <<VectorAdd("a", "b", "sum")>>
           \/ fence = 21 /\ at = 1 /\ Commands = <<VectorAdd("kA", "kB", "kOut")>>
           \/ /\ fence = 22 /\ at = 1
              /\ Commands = <<TriangleStep("kOutIn", "kPhaseIn", "kOutIn", "kPhaseOut", "kOutOut")>>
           \/ fence = 3 /\ at \in 1 .. 2 /\ Commands = Readback("sum")
           \/ fence = 13 /\ at \in 1 .. 2 /\ Commands = Readback(In(steps)[2])
           \/ fence = 23 /\ at \in 1 .. 2 /\ Commands = Readback("kOut")
           \/ fence = 24 /\ at \in 1 .. 2 /\ Commands = Readback("kOutOut")
           \/ fence = 12 /\ at \in 1 .. 5 * steps - 4 /\ Commands = StepCommands(steps)
<1>1. /\ steps \in Nat \ {0} /\ steps \in Nat /\ fence \in 0 .. 24 /\ at \in Nat \ {0}
      /\ Commands = Program(steps)[fence + 1] /\ fence + 1 \in 1 .. 25
    BY MeshGpuAt
<1>2. Len(Commands) = IF fence = 12 THEN 5 * steps - 4 ELSE IF fence \in {2, 21, 22} THEN 1 ELSE 2
  <2>1. Len(Program(steps)[fence + 1]) = IF fence + 1 = 13 THEN 5 * steps - 4
                                         ELSE IF fence + 1 \in {3, 22, 23} THEN 1 ELSE 2
    BY <1>1, ListLengths
  <2> QED
    BY <1>1, <2>1
<1>3. FinalOut(steps) = In(steps)[2]
    BY DEF FinalOut, In
<1>4. CASE fence \in {2, 21, 22}
  <2>1. /\ Program(steps)[3] = <<VectorAdd("a", "b", "sum")>>
        /\ Program(steps)[22] = <<VectorAdd("kA", "kB", "kOut")>>
        /\ Program(steps)[23] =
                <<TriangleStep("kOutIn", "kPhaseIn", "kOutIn", "kPhaseOut", "kOutOut")>>
    BY <1>1, ProgramLists
  <2>2. at = 1
    BY <1>1, <1>2, <1>4
  <2> QED
    BY <1>1, <1>4, <2>1, <2>2
<1>5. CASE fence \in {3, 13, 23, 24}
  <2>1. /\ Program(steps)[4] = Readback("sum") /\ Program(steps)[14] = Readback(In(steps)[2])
        /\ Program(steps)[24] = Readback("kOut") /\ Program(steps)[25] = Readback("kOutOut")
    BY <1>1, <1>3, ProgramLists
  <2>2. at \in 1 .. 2
    BY <1>1, <1>2, <1>5
  <2> QED
    BY <1>1, <1>5, <2>1, <2>2
<1>6. CASE fence = 12
    BY <1>1, <1>2, <1>6, ProgramLists
<1>7. CASE fence \in 0 .. 1 \cup 4 .. 11 \cup 14 .. 20
  <2>1. PICK u \in Uploads : fence = u[1] - 1 /\ u[1] = fence + 1
    BY <1>7 DEF Uploads
  <2>2. Program(steps)[u[1]] = Upload(u[2], 0, u[3])
    BY <1>1, <2>1, ProgramLists DEF Uploads
  <2>3. at \in 1 .. 2
    BY <1>1, <1>2, <1>7
  <2> QED
    BY <1>1, <2>1, <2>2, <2>3
<1> QED
    BY <1>1, <1>4, <1>5, <1>6, <1>7

\* The command the GPU is at finds its buffers as it was recorded for.
LEMMA MeshFits ==
    ASSUME MeshInv
    PROVE  BarriersMatch /\ StepsOrdered
<1> SUFFICES ASSUME Running
             PROVE  BarriersMatch /\ StepsOrdered
    BY DEF BarriersMatch, StepsOrdered
<1>1. /\ at > 0 /\ at <= Len(Commands) /\ steps \in Nat \ {0} /\ fence \in 0 .. 24 /\ at \in Nat \ {0}
    BY MeshGpuAt DEF Running
<1> DEFINE c == Commands[at]
<1>2. ASSUME NEW b, NEW s, NEW t, c = Barrier(b, s, t), buffer[b].state = s
      PROVE  BarriersMatch /\ StepsOrdered
    BY <1>2 DEF BarriersMatch, StepsOrdered, Barrier
<1>3. ASSUME NEW r, NEW f, NEW w, c = Dispatch(r, f, w),
             \A b \in r : buffer[b].state = "srv" /\ ~buffer[b].open,
             \A b \in w : buffer[b].state = "uav" /\ ~buffer[b].open
      PROVE  BarriersMatch /\ StepsOrdered
    BY <1>3 DEF BarriersMatch, StepsOrdered, Dispatch
<1>4. ASSUME NEW u \in Uploads, fence = u[1] - 1, Commands = Upload(u[2], 0, u[3]), at \in 1 .. 2
      PROVE  BarriersMatch /\ StepsOrdered
  <2>1. Uploaded(u[2], u[1], u[3]) /\ u[1] \in 1 .. 21
    BY <1>4 DEF Uploads, MeshInv, BuffersHold, InputsHold, OutputsHold, PingPongIdle
  <2>2. ~Ran(u[1], 2)
    BY <1>1, <1>4, <2>1 DEF Ran
  <2>3. buffer[u[2]].state = "copyDst"
    BY <2>1, <2>2 DEF Uploaded
  <2>4. CASE at = 1
    <3>1. c = CopyIn(u[2], 0)
        BY <1>4, <2>4 DEF Upload
    <3> QED
        BY <2>3, <3>1 DEF BarriersMatch, StepsOrdered, CopyIn
  <2>5. CASE at = 2
    <3>1. c = Barrier(u[2], "copyDst", u[3])
        BY <1>4, <2>5 DEF Upload
    <3> QED
        BY <1>2, <2>3, <3>1
  <2> QED
    BY <1>4, <2>4, <2>5
<1>5. ASSUME NEW b, Commands = Readback(b), at \in 1 .. 2,
             buffer[b].state = IF at = 1 THEN "uav" ELSE "copySrc"
      PROVE  BarriersMatch /\ StepsOrdered
  <2>1. CASE at = 1
    <3>1. c = Barrier(b, "uav", "copySrc")
        BY <1>5, <2>1 DEF Readback
    <3> QED
        BY <1>2, <1>5, <2>1, <3>1
  <2>2. CASE at = 2
    <3>1. c = CopyOut(b) /\ buffer[b].state = "copySrc"
        BY <1>5, <2>2 DEF Readback
    <3> QED
        BY <3>1 DEF BarriersMatch, StepsOrdered, CopyOut
  <2> QED
    BY <1>5, <2>1, <2>2
<1>6. CASE fence = 2 /\ at = 1 /\ Commands = <<VectorAdd("a", "b", "sum")>>
  <2>1. c = Dispatch({"a", "b"}, "a", {"sum"})
    BY <1>6 DEF VectorAdd
  <2>2. /\ \A b \in {"a", "b"} : buffer[b].state = "srv" /\ ~buffer[b].open
        /\ buffer["sum"].state = "uav" /\ ~buffer["sum"].open
    BY <1>6 DEF MeshInv, BuffersHold, InputsHold, OutputsHold, Uploaded, Computed, Ran
  <2> QED
    BY <1>3, <2>1, <2>2
<1>7. CASE fence = 21 /\ at = 1 /\ Commands = <<VectorAdd("kA", "kB", "kOut")>>
  <2>1. c = Dispatch({"kA", "kB"}, "kA", {"kOut"})
    BY <1>7 DEF VectorAdd
  <2>2. /\ \A b \in {"kA", "kB"} : buffer[b].state = "srv" /\ ~buffer[b].open
        /\ buffer["kOut"].state = "uav" /\ ~buffer["kOut"].open
    BY <1>7 DEF MeshInv, BuffersHold, InputsHold, OutputsHold, Uploaded, Computed, Ran
  <2> QED
    BY <1>3, <2>1, <2>2
<1>8. CASE /\ fence = 22 /\ at = 1
           /\ Commands = <<TriangleStep("kOutIn", "kPhaseIn", "kOutIn", "kPhaseOut", "kOutOut")>>
  <2>1. c = Dispatch({"vertex", "neighbor", "kOutIn", "kPhaseIn"}, "kPhaseIn", {"kPhaseOut", "kOutOut"})
    BY <1>8 DEF TriangleStep
  <2>2. /\ \A b \in {"vertex", "neighbor", "kOutIn", "kPhaseIn"} :
                buffer[b].state = "srv" /\ ~buffer[b].open
        /\ \A b \in {"kPhaseOut", "kOutOut"} : buffer[b].state = "uav" /\ ~buffer[b].open
    BY <1>8 DEF MeshInv, BuffersHold, InputsHold, OutputsHold, Uploaded, Computed, Ran
  <2> QED
    BY <1>3, <2>1, <2>2
<1>9. CASE fence = 3 /\ at \in 1 .. 2 /\ Commands = Readback("sum")
  <2>1. buffer["sum"].state = IF at = 1 THEN "uav" ELSE "copySrc"
    BY <1>9 DEF MeshInv, BuffersHold, OutputsHold, Computed, Ran
  <2> QED
    BY <1>5, <1>9, <2>1
<1>10. CASE fence = 13 /\ at \in 1 .. 2 /\ Commands = Readback(In(steps)[2])
  <2>1. StepAt = steps /\ Barriers = 0 /\ (Ran(14, 1) <=> at = 2)
    BY <1>1, <1>10 DEF StepAt, Barriers, Ran
  <2>2. buffer[In(steps)[2]].state = IF at = 1 THEN "uav" ELSE "copySrc"
    BY <1>10, <2>1 DEF MeshInv, BuffersHold, PingPong, Pair
  <2> QED
    BY <1>5, <1>10, <2>2
<1>11. CASE fence = 23 /\ at \in 1 .. 2 /\ Commands = Readback("kOut")
  <2>1. buffer["kOut"].state = IF at = 1 THEN "uav" ELSE "copySrc"
    BY <1>11 DEF MeshInv, BuffersHold, OutputsHold, Computed, Ran
  <2> QED
    BY <1>5, <1>11, <2>1
<1>12. CASE fence = 24 /\ at \in 1 .. 2 /\ Commands = Readback("kOutOut")
  <2>1. buffer["kOutOut"].state = IF at = 1 THEN "uav" ELSE "copySrc"
    BY <1>12 DEF MeshInv, BuffersHold, OutputsHold, Computed, Ran
  <2> QED
    BY <1>5, <1>12, <2>1
<1>13. CASE fence = 12 /\ at \in 1 .. 5 * steps - 4 /\ Commands = StepCommands(steps)
  <2> PICK k, q : k = (at + 3) \div 5 /\ q = (at + 3) % 5
    OBVIOUS
  <2>1. StepFacts(steps, at, k, q)
    BY <1>1, <1>13, StepCommand
  <2>2. k \in Nat /\ k + 1 \in Nat /\ q \in 0 .. 4 /\ StepAt = k /\ Barriers = q /\ ~Ran(14, 1)
    BY <1>1, <1>13, <2>1 DEF StepFacts, StepAt, Barriers, Ran
  <2> DEFINE p == In(k)  o == In(k + 1)
  <2>3. /\ Pair(p, k, IF q > 0 THEN "srv" ELSE "uav", IF q > 1 THEN "srv" ELSE "uav", q < 1, q < 2)
        /\ Pair(o, IF k = 0 THEN 0 ELSE k - 1, IF q > 2 THEN "uav" ELSE "srv",
                IF q > 3 THEN "uav" ELSE "srv", FALSE, FALSE)
    BY <1>13, <2>2 DEF MeshInv, BuffersHold, PingPong, Pair
  <2>4. q = 0 => c = Barrier(p[1], "uav", "srv") /\ buffer[p[1]].state = "uav"
    BY <1>13, <2>1, <2>3 DEF StepFacts, Pair
  <2>5. q = 1 => c = Barrier(p[2], "uav", "srv") /\ buffer[p[2]].state = "uav"
    BY <1>13, <2>1, <2>3 DEF StepFacts, Pair
  <2>6. q = 2 => c = Barrier(o[1], "srv", "uav") /\ buffer[o[1]].state = "srv"
    BY <1>13, <2>1, <2>3 DEF StepFacts, Pair
  <2>7. q = 3 => c = Barrier(o[2], "srv", "uav") /\ buffer[o[2]].state = "srv"
    BY <1>13, <2>1, <2>3 DEF StepFacts, Pair
  <2>8. CASE q = 4
    <3>1. c = Dispatch({"vertex", "neighbor", "tensor", p[1], p[2]}, p[1], {o[1], o[2]})
        BY <1>13, <2>1, <2>2, <2>8, PairsAlternate DEF StepFacts, TriangleStep
    <3>2. \A b \in {"vertex", "neighbor", "tensor"} : buffer[b].state = "srv" /\ ~buffer[b].open
        BY <1>13 DEF MeshInv, BuffersHold, InputsHold, Uploaded, Ran
    <3>3. \A b \in {p[1], p[2]} : buffer[b].state = "srv" /\ ~buffer[b].open
        BY <2>3, <2>8 DEF Pair
    <3>4. \A b \in {o[1], o[2]} : buffer[b].state = "uav" /\ ~buffer[b].open
        BY <2>3, <2>8 DEF Pair
    <3> QED
        BY <1>3, <3>1, <3>2, <3>3, <3>4
  <2>9. CASE q = 0
    BY <1>2, <2>4, <2>9
  <2>10. CASE q = 1
    BY <1>2, <2>5, <2>10
  <2>11. CASE q = 2
    BY <1>2, <2>6, <2>11
  <2>12. CASE q = 3
    BY <1>2, <2>7, <2>12
  <2> QED
    BY <2>2, <2>8, <2>9, <2>10, <2>11, <2>12
<1> QED
    BY <1>1, <1>4, <1>6, <1>7, <1>8, <1>9, <1>10, <1>11, <1>12, <1>13, ListKinds

\* The results, one longer each time.
LEMMA Appends ==
    ASSUME NEW n \in Nat
    PROVE  /\ Append(<<1>>, n) = <<1, n>>
           /\ Append(<<1, n>>, 1) = <<1, n, 1>>
           /\ Append(<<1, n, 1>>, 1) = <<1, n, 1, 1>>
<1>1. ASSUME NEW s \in Seq(Nat), NEW e \in Nat, NEW r \in Seq(Nat), Len(r) = Len(s) + 1,
             \A i \in 1 .. Len(s) : r[i] = s[i], r[Len(s) + 1] = e
      PROVE  Append(s, e) = r
    BY <1>1
<1>2. /\ <<1>> \in Seq(Nat) /\ <<1, n>> \in Seq(Nat) /\ <<1, n, 1>> \in Seq(Nat) /\ <<1, n, 1, 1>> \in Seq(Nat)
      /\ Len(<<1>>) = 1 /\ Len(<<1, n>>) = 2 /\ Len(<<1, n, 1>>) = 3 /\ Len(<<1, n, 1, 1>>) = 4
    OBVIOUS
<1>3. Append(<<1>>, n) = <<1, n>>
  <2> PICK s, r : s = <<1>> /\ r = <<1, n>>
    OBVIOUS
  <2>1. s \in Seq(Nat) /\ r \in Seq(Nat) /\ Len(s) = 1 /\ Len(r) = Len(s) + 1
    BY <1>2
  <2>2. (\A i \in 1 .. 1 : r[i] = s[i]) /\ r[1 + 1] = n
    OBVIOUS
  <2> QED
    BY <1>1, <2>1, <2>2
<1>4. Append(<<1, n>>, 1) = <<1, n, 1>>
  <2> PICK s, r : s = <<1, n>> /\ r = <<1, n, 1>>
    OBVIOUS
  <2>1. s \in Seq(Nat) /\ r \in Seq(Nat) /\ Len(s) = 2 /\ Len(r) = Len(s) + 1
    BY <1>2
  <2>2. (\A i \in 1 .. 2 : r[i] = s[i]) /\ r[2 + 1] = 1
    OBVIOUS
  <2> QED
    BY <1>1, <2>1, <2>2
<1>5. Append(<<1, n, 1>>, 1) = <<1, n, 1, 1>>
  <2> PICK s, r : s = <<1, n, 1>> /\ r = <<1, n, 1, 1>>
    OBVIOUS
  <2>1. s \in Seq(Nat) /\ r \in Seq(Nat) /\ Len(s) = 3 /\ Len(r) = Len(s) + 1
    BY <1>2
  <2>2. (\A i \in 1 .. 3 : r[i] = s[i]) /\ r[3 + 1] = 1
    OBVIOUS
  <2> QED
    BY <1>1, <2>1, <2>2
<1> QED
    BY <1>3, <1>4, <1>5

\* What is read back, list by list.
LEMMA MeshResultStep ==
    ASSUME MeshInv, at > 0, GpuCommand
    PROVE  Results'
<1>1. /\ steps \in Nat \ {0} /\ fence \in 0 .. 24 /\ steps' = steps /\ fence' = fence
      /\ at \in Nat \ {0} /\ at <= Len(Commands) /\ at' = at + 1
    BY MeshGpuAt DEF GpuCommand, Running
<1>2. Results
    BY DEF MeshInv
<1> DEFINE c == Commands[at]
<1>3. result' = IF c.op = "copyOut" THEN Append(result, buffer[c.buf].holds) ELSE result
    BY DEF GpuCommand
<1>4. ASSUME c.op # "copyOut", fence \in {3, 13, 23, 24} => at = 1
      PROVE  Results'
  <2>1. \A i \in {4, 14, 24, 25} : Ran(i, 2)' <=> Ran(i, 2)
    BY <1>1, <1>4 DEF Ran
  <2> QED
    BY <1>1, <1>2, <1>3, <1>4, <2>1 DEF Results
<1>5. ASSUME NEW b, Commands = Readback(b), at = 1
      PROVE  Results'
  <2>1. c.op = "barrier"
    BY <1>5 DEF Readback, Barrier
  <2> QED
    BY <1>4, <1>5, <2>1
<1>6. ASSUME NEW b, Commands = Readback(b), at = 2
      PROVE  result' = Append(result, buffer[b].holds)
  <2>1. c = CopyOut(b)
    BY <1>6 DEF Readback
  <2> QED
    BY <1>3, <2>1 DEF CopyOut
<1>7. ASSUME NEW u \in Uploads, fence = u[1] - 1, Commands = Upload(u[2], 0, u[3]), at \in 1 .. 2
      PROVE  Results'
  <2>1. c.op # "copyOut"
    <3>1. CASE at = 1
        BY <1>7, <3>1 DEF Upload, CopyIn
    <3>2. CASE at = 2
        BY <1>7, <3>2 DEF Upload, Barrier
    <3> QED
        BY <1>7, <3>1, <3>2
  <2>2. fence \notin {3, 13, 23, 24}
    BY <1>7 DEF Uploads
  <2> QED
    BY <1>4, <2>1, <2>2
<1>8. CASE fence = 2 /\ at = 1 /\ Commands = <<VectorAdd("a", "b", "sum")>>
  <2>1. c.op = "dispatch"
    BY <1>8 DEF VectorAdd, Dispatch
  <2> QED
    BY <1>4, <1>8, <2>1
<1>9. CASE fence = 21 /\ at = 1 /\ Commands = <<VectorAdd("kA", "kB", "kOut")>>
  <2>1. c.op = "dispatch"
    BY <1>9 DEF VectorAdd, Dispatch
  <2> QED
    BY <1>4, <1>9, <2>1
<1>10. CASE /\ fence = 22 /\ at = 1
            /\ Commands = <<TriangleStep("kOutIn", "kPhaseIn", "kOutIn", "kPhaseOut", "kOutOut")>>
  <2>1. c.op = "dispatch"
    BY <1>10 DEF TriangleStep, Dispatch
  <2> QED
    BY <1>4, <1>10, <2>1
<1>11. CASE fence = 3 /\ at \in 1 .. 2 /\ Commands = Readback("sum")
  <2>1. CASE at = 2
    <3>1. buffer["sum"].holds = 1 /\ result = <<>>
        BY <1>2, <1>11, <2>1 DEF MeshInv, BuffersHold, OutputsHold, Computed, Ran, Results
    <3>2. Ran(4, 2)' /\ ~Ran(14, 2)'
        BY <1>1, <1>11, <2>1 DEF Ran
    <3> QED
        BY <1>1, <1>6, <1>11, <2>1, <3>1, <3>2 DEF Results
  <2> QED
    BY <1>5, <1>11, <2>1
<1>12. CASE fence = 13 /\ at \in 1 .. 2 /\ Commands = Readback(In(steps)[2])
  <2>1. CASE at = 2
    <3>1. buffer[In(steps)[2]].holds = steps
        BY <1>12 DEF MeshInv, BuffersHold, PingPong, Pair, StepAt
    <3>2. result = <<1>>
        BY <1>2, <1>12, <2>1 DEF Ran, Results
    <3>3. Ran(4, 2)' /\ Ran(14, 2)' /\ ~Ran(24, 2)'
        BY <1>1, <1>12, <2>1 DEF Ran
    <3>4. result' = <<1, steps>>
      <4>1. result' = Append(<<1>>, steps)
        BY <1>6, <1>12, <2>1, <3>1, <3>2
      <4>2. Append(<<1>>, steps) = <<1, steps>>
        BY <1>1, Appends
      <4> QED
        BY <4>1, <4>2
    <3> QED
        BY <1>1, <3>3, <3>4 DEF Results
  <2> QED
    BY <1>5, <1>12, <2>1
<1>13. CASE fence = 23 /\ at \in 1 .. 2 /\ Commands = Readback("kOut")
  <2>1. CASE at = 2
    <3>1. buffer["kOut"].holds = 1
        BY <1>13 DEF MeshInv, BuffersHold, OutputsHold, Computed, Ran
    <3>2. result = <<1, steps>>
        BY <1>2, <1>13, <2>1 DEF Ran, Results
    <3>3. Ran(4, 2)' /\ Ran(14, 2)' /\ Ran(24, 2)' /\ ~Ran(25, 2)'
        BY <1>1, <1>13, <2>1 DEF Ran
    <3>4. result' = <<1, steps, 1>>
      <4>1. result' = Append(<<1, steps>>, 1)
        BY <1>6, <1>13, <2>1, <3>1, <3>2
      <4>2. Append(<<1, steps>>, 1) = <<1, steps, 1>>
        BY <1>1, Appends
      <4> QED
        BY <4>1, <4>2
    <3> QED
        BY <1>1, <3>3, <3>4 DEF Results
  <2> QED
    BY <1>5, <1>13, <2>1
<1>14. CASE fence = 24 /\ at \in 1 .. 2 /\ Commands = Readback("kOutOut")
  <2>1. CASE at = 2
    <3>1. buffer["kOutOut"].holds = 1
        BY <1>14 DEF MeshInv, BuffersHold, OutputsHold, Computed, Ran
    <3>2. result = <<1, steps, 1>>
        BY <1>2, <1>14, <2>1 DEF Ran, Results
    <3>3. Ran(4, 2)' /\ Ran(14, 2)' /\ Ran(24, 2)' /\ Ran(25, 2)'
        BY <1>1, <1>14, <2>1 DEF Ran
    <3>4. result' = <<1, steps, 1, 1>>
      <4>1. result' = Append(<<1, steps, 1>>, 1)
        BY <1>6, <1>14, <2>1, <3>1, <3>2
      <4>2. Append(<<1, steps, 1>>, 1) = <<1, steps, 1, 1>>
        BY <1>1, Appends
      <4> QED
        BY <4>1, <4>2
    <3> QED
        BY <1>1, <3>3, <3>4 DEF Results
  <2> QED
    BY <1>5, <1>14, <2>1
<1>15. CASE fence = 12 /\ at \in 1 .. 5 * steps - 4 /\ Commands = StepCommands(steps)
  <2> PICK k, q : k = (at + 3) \div 5 /\ q = (at + 3) % 5
    OBVIOUS
  <2>1. StepFacts(steps, at, k, q)
    BY <1>1, <1>15, StepCommand
  <2>2. c.op # "copyOut"
    <3>1. CASE q = 4
        BY <1>15, <2>1, <3>1 DEF StepFacts, HeapStep, TriangleStep, Dispatch
    <3>2. CASE q < 4
        BY <1>15, <2>1, <3>2 DEF StepFacts, Barrier
    <3> QED
        BY <2>1, <3>1, <3>2 DEF StepFacts
  <2> QED
    BY <1>4, <1>15, <2>2
<1> QED
    BY <1>1, <1>7, <1>8, <1>9, <1>10, <1>11, <1>12, <1>13, <1>14, <1>15, ListKinds

\* One command of the GPU.
LEMMA MeshCommandStep ==
    ASSUME MeshInv, at > 0, GpuCommand
    PROVE  MeshInv'
<1>1. ListsInOrder'
  <2>1. /\ list = fence + 1 /\ fence \in 0 .. 24 /\ at' = at + 1 /\ at \in Nat
        /\ at <= Len(Program(steps)[list]) /\ Len(Program(steps)[list]) \in Nat
    <3>1. /\ list = fence + 1 /\ fence \in 0 .. 24 /\ at' = at + 1 /\ at \in Nat
          /\ at <= Len(Commands) /\ Len(Commands) \in Nat /\ Commands = Program(steps)[fence + 1]
        BY MeshGpuAt DEF GpuCommand, Running
    <3> QED
        BY <3>1
  <2>2. UNCHANGED <<steps, list, cpuPc, fence>>
    BY DEF GpuCommand
  <2>3. at' \in 1 .. Len(Program(steps)[list]) + 1 /\ at' \in Nat
    BY <2>1
  <2> QED
    BY <2>1, <2>2, <2>3, MeshGpuAt DEF MeshInv, ListsInOrder
<1>2. at \in Nat \ {0} /\ at <= Len(Commands)
    BY MeshGpuAt DEF GpuCommand, Running
<1>3. BuffersHold'
    BY <1>2, ListKinds, MeshUploadStep, MeshDispatchStep, MeshReadbackStep, MeshTriangleStep
<1> QED
    BY <1>1, <1>3, MeshResultStep DEF MeshInv

\* The end of a list.
LEMMA MeshEndStep ==
    ASSUME MeshInv, at > 0, Signal
    PROVE  MeshInv'
<1>1. /\ steps \in Nat \ {0} /\ fence \in 0 .. 24 /\ at \in Nat \ {0} /\ list = fence + 1
      /\ cpuPc = "wait" /\ Commands = Program(steps)[fence + 1]
      /\ Len(Commands) \in Nat \ {0} /\ at = Len(Commands) + 1
    BY MeshGpuAt DEF Signal
<1>2. fence' = fence + 1 /\ at' = 0 /\ UNCHANGED <<steps, list, cpuPc, result>>
    BY DEF Signal
<1>3. ListsInOrder'
    BY <1>1, <1>2 DEF MeshInv, ListsInOrder
<1>4. Results'
  <2>1. fence \in {3, 13, 23, 24} => at = 3
    <3>1. fence + 1 \in 1 .. 25
        BY <1>1
    <3>2. Len(Program(steps)[fence + 1]) = IF fence + 1 = 13 THEN 5 * steps - 4
                                           ELSE IF fence + 1 \in {3, 22, 23} THEN 1 ELSE 2
        BY <1>1, <3>1, ListLengths
    <3> QED
        BY <1>1, <3>2
  <2>2. \A i \in {4, 14, 24, 25} : Ran(i, 2)' <=> Ran(i, 2)
    BY <1>1, <1>2, <2>1 DEF Ran
  <2> QED
    BY <1>2, <2>2 DEF MeshInv, Results
<1> QED
    BY <1>3, <1>4, MeshSignalStep DEF MeshInv

\* Each part of the property, from the invariant.
LEMMA MeshIsSafe ==
    ASSUME MeshInv
    PROVE  MeshSafety
<1>1. steps \in Nat /\ steps \in Nat \ {0}
    BY DEF MeshInv, ListsInOrder
<1>2. MeshTypeOK
  <2>1. Len(Program(steps)) = 25
    BY <1>1, ProgramLists
  <2>2. \A b \in Buffers : buffer[b].state \in {"copyDst", "copySrc", "srv", "uav"}
    BY DEF MeshInv, BuffersHold, BufferType, BufferState
  <2>3. /\ cpuPc \in {"reset", "submit", "wait"} /\ list \in 1 .. 26
        /\ cpuPc # "wait" => fence = list - 1
        /\ cpuPc = "wait" => list <= 25 /\ (fence = list \/ fence = list - 1)
    BY DEF MeshInv, ListsInOrder
  <2> QED
    BY <2>1, <2>2, <2>3 DEF MeshTypeOK
<1>3. OutputIsLast
  <2>1. \/ result = <<>> \/ result = <<1>> \/ result = <<1, steps>>
        \/ result = <<1, steps, 1>> \/ result = <<1, steps, 1, 1>>
    BY DEF MeshInv, Results
  <2> QED
    BY <2>1 DEF OutputIsLast
<1>4. AllocatorFree
    BY DEF AllocatorFree, MeshInv, ListsInOrder
<1> QED
    BY <1>2, <1>3, <1>4, MeshFits DEF MeshSafety

\* For every number of steps but zero, which the source's argument parser lets
\* through, every command of the program's 25 lists finds its buffers in the
\* state it was recorded for, no dispatch reads or overwrites what another of
\* its list may still be writing, the allocator is reset only behind the fence,
\* and what is read back is the output of the last step.
THEOREM MeshHolds ==
    ASSUME 0 \notin StepCounts
    PROVE  MeshSpec => []MeshSafety
<1>1. MeshInit => MeshInv
    BY MeshStart
<1>2. MeshInv /\ [MeshNext]_meshVars => MeshInv'
  <2> SUFFICES ASSUME MeshInv, [MeshNext]_meshVars
               PROVE  MeshInv'
    OBVIOUS
  <2>1. CASE UNCHANGED meshVars
    BY <2>1 DEF meshVars, MeshInv, ListsInOrder, BuffersHold, BufferType, InputsHold, OutputsHold,
                PingPongIdle, PingPong, Pair, Uploaded, Computed, Results, Ran, StepAt, Barriers
  <2>2. CASE Record \/ Submit \/ WaitFence
    BY <2>2, MeshCpuStep
  <2>3. CASE at > 0 /\ GpuCommand
    BY <2>3, MeshCommandStep
  <2>4. CASE at > 0 /\ Signal
    BY <2>4, MeshEndStep
  <2> QED
    BY <2>1, <2>2, <2>3, <2>4 DEF MeshNext
<1>3. MeshInv => MeshSafety
    BY MeshIsSafe
<1> QED
    BY <1>1, <1>2, <1>3, PTL DEF MeshSpec
=============================================================================
