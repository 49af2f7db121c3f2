---------------------------- MODULE TilePrefetch ----------------------------
(* The ASX RAM controller (asx_ram_controller.h, asx_ram_test.cpp): attention *)
(* heads stream from disk through CPU slots into one GPU window.  With        *)
(* --prefetch two slots alternate, one under the GPU and one under a loader   *)
(* thread started by std::async; without it three slots are used in turn by   *)
(* one thread.  A slot holds the Q, K and V tiles of a head, read one after   *)
(* the other.                                                                 *)
EXTENDS Naturals

CONSTANTS NHeads, Passes

Heads == 0 .. NHeads - 1
Slots == 0 .. 2
Parts == {"q", "k", "v"}
NoHead == NHeads       \* a slot never filled

VARIABLES
    prefetch,          \* use_prefetch
    main,              \* the main thread: place, pass, head, cur, nxt
    loader,            \* the std::async thread: place, its head, its slot
    slots,             \* phase and tiles of each TileSlot
    window,            \* the head whose tiles the GPU computed ctx_gpu from
    verified           \* heads compared with the CPU reference, over all passes

tileVars == <<prefetch, main, loader, slots, window, verified>>

EmptySlot == [phase |-> "Empty", tile |-> [x \in Parts |-> NoHead]]
NoLoader == [pc |-> "idle", head |-> NoHead, slot |-> 0]

TileInit ==
    /\ prefetch \in BOOLEAN
    /\ main = [pc |-> "pass", pass |-> 0, head |-> 0, cur |-> 0, nxt |-> 1]
    /\ loader = NoLoader
    /\ slots = [s \in Slots |-> EmptySlot]
    /\ window = [x \in Parts |-> NoHead]
    /\ verified = 0

Loaded(h) == [phase |-> "Ready", tile |-> [x \in Parts |-> h]]

-----------------------------------------------------------------------------
(* The main thread.                                                           *)

\* A pass: prefetching, head 0 is loaded first and the slots start at 0 and 1.
StartPass ==
    /\ main.pc = "pass"
    /\ main' = [main EXCEPT !.head = 0, !.cur = 0, !.nxt = 1,
                  !.pc = IF main.pass = Passes THEN "done"
                         ELSE IF prefetch THEN "prime" ELSE "load"]
    /\ UNCHANGED <<prefetch, loader, slots, window, verified>>

\* load_slot on the main thread: a slot in Loading, its tiles, Ready; a read
\* failure ends the process.
BeginLoad ==
    /\ main.pc \in {"prime", "load"}
    /\ LET s == IF prefetch THEN main.cur ELSE main.head % 3
       IN  \/ /\ slots' = [slots EXCEPT ![s].phase = "Loading"]
              /\ main' = [main EXCEPT !.pc = "reading", !.cur = s]
           \/ /\ main' = [main EXCEPT !.pc = "exited"]
              /\ UNCHANGED slots
    /\ UNCHANGED <<prefetch, loader, window, verified>>

EndLoad ==
    /\ main.pc = "reading"
    /\ slots' = [slots EXCEPT ![main.cur] = Loaded(main.head)]
    /\ main' = [main EXCEPT !.pc = IF prefetch THEN "launch" ELSE "upload"]
    /\ UNCHANGED <<prefetch, loader, window, verified>>

\* mutant: the last head is not prefetched
HasNextM == main.head + 2 < NHeads

HasNext == main.head + 1 < NHeads

\* std::async; the lambda holds nxt by reference.
Launch ==
    /\ main.pc = "launch"
    /\ loader' = IF HasNext THEN [pc |-> "start", head |-> main.head + 1, slot |-> 0]
                            ELSE NoLoader
    /\ main' = [main EXCEPT !.pc = "upload"]
    /\ UNCHANGED <<prefetch, slots, window, verified>>

\* phase = Computing, upload, dispatch.
UploadTile ==
    /\ main.pc = "upload"
    /\ slots' = [slots EXCEPT ![main.cur].phase = "Computing"]
    /\ window' = slots[main.cur].tile
    /\ main' = [main EXCEPT !.pc = "readback"]
    /\ UNCHANGED <<prefetch, loader, verified>>

\* Readback: the device may be lost, then goto done.
ReadbackTile(ok) ==
    /\ main.pc = "readback"
    /\ slots' = [slots EXCEPT ![main.cur].phase = "Empty"]
    /\ main' = [main EXCEPT !.pc = IF ~ok THEN "unwind" ELSE IF prefetch THEN "get" ELSE "verify"]
    /\ UNCHANGED <<prefetch, loader, window, verified>>

\* mutant: the future is read without waiting for the loader
LoaderDoneM == TRUE

\* mutant: the last head, which has no future, is waited for as well
LoaderDoneNoFutureM == loader.pc = "end"

LoaderDone == loader.pc \in {"idle", "end"}

\* pf_fut.get() waits for the loader ...
GetFuture ==
    /\ main.pc = "get"
    /\ LoaderDone
    /\ loader' = IF loader.pc = "end" THEN NoLoader ELSE loader
    /\ main' = [main EXCEPT !.pc = "verify"]
    /\ UNCHANGED <<prefetch, slots, window, verified>>

\* ... and so does its destructor when goto leaves the scope.
Unwind ==
    /\ main.pc = "unwind"
    /\ LoaderDone
    /\ loader' = IF loader.pc = "end" THEN NoLoader ELSE loader
    /\ main' = [main EXCEPT !.pc = "lost"]
    /\ UNCHANGED <<prefetch, slots, window, verified>>

\* The CPU reference from the slot, then swap(cur, nxt) and the next head.
Verify ==
    /\ main.pc = "verify"
    /\ verified' = verified + 1
    /\ main' = IF main.head + 1 < NHeads
               THEN [main EXCEPT !.pc = IF prefetch THEN "launch" ELSE "load",
                                 !.head = @ + 1, !.cur = main.nxt, !.nxt = main.cur]
               ELSE [main EXCEPT !.pc = "pass", !.pass = @ + 1]
    /\ UNCHANGED <<prefetch, loader, slots, window>>

MainStep ==
    \/ StartPass \/ BeginLoad \/ EndLoad \/ Launch \/ UploadTile
    \/ GetFuture \/ Unwind \/ Verify
    \/ \E ok \in BOOLEAN : ReadbackTile(ok)

-----------------------------------------------------------------------------
(* The loader thread: load_slot on slots[nxt].                                *)

\* mutant: the lambda loads into the slot it was told to display
LoaderTargetM == main.cur

LoaderTarget == main.nxt

LoaderStart ==
    /\ loader.pc = "start"
    /\ loader' = [loader EXCEPT !.pc = "q", !.slot = LoaderTarget]
    /\ slots' = [slots EXCEPT ![LoaderTarget].phase = "Loading"]
    /\ UNCHANGED <<prefetch, main, window, verified>>

\* One read_tile; the last one makes the slot Ready.  A failed read exits the
\* process under the main thread.
LoaderRead ==
    /\ loader.pc \in Parts
    /\ \/ /\ slots' = [slots EXCEPT
                         ![loader.slot].tile[loader.pc] = loader.head,
                         ![loader.slot].phase = IF loader.pc = "v" THEN "Ready" ELSE @]
          /\ loader' = [loader EXCEPT !.pc = [q |-> "k", k |-> "v", v |-> "end"][loader.pc]]
          /\ UNCHANGED main
       \/ /\ main' = [main EXCEPT !.pc = "exited"]
          /\ loader' = NoLoader
          /\ UNCHANGED slots
    /\ UNCHANGED <<prefetch, window, verified>>

LoaderStep == main.pc # "exited" /\ (LoaderStart \/ LoaderRead)

TileNext == MainStep \/ LoaderStep

TileSpec == TileInit /\ [][TileNext]_tileVars /\ WF_tileVars(MainStep) /\ WF_tileVars(LoaderStep)

-----------------------------------------------------------------------------
TileTypeOK ==
    /\ main.pass \in 0 .. Passes /\ main.head \in Heads /\ main.cur \in Slots /\ main.nxt \in Slots
    /\ loader.slot \in Slots /\ loader.pc \in {"idle", "start", "end"} \union Parts
    /\ \A s \in Slots : /\ slots[s].phase \in {"Empty", "Loading", "Ready", "Computing"}
                        /\ slots[s].tile \in [Parts -> 0 .. NHeads]
    /\ verified \in 0 .. Passes * NHeads

\* The GPU computes and the CPU verifies from a slot that holds all three tiles
\* of the current head, whatever the loader is doing (the slots swap roles
\* after get(), asx_ram_test.cpp:372 and :398).
TileWhole ==
    /\ main.pc \in {"upload", "verify"} =>
         slots[main.cur].tile = [x \in Parts |-> main.head]
    /\ main.pc \in {"readback", "get", "verify"} => window = [x \in Parts |-> main.head]

\* The loader never writes the slot the main thread uses, and is gone before
\* the slots are: after a lost device too.
LoaderApart ==
    /\ loader.pc \in Parts => loader.slot # main.cur
    /\ main.pc \in {"verify", "pass", "lost", "done"} => loader.pc = "idle"

\* A slot goes disk, CPU, GPU and back to empty in that order
\* (asx_ram_controller.h:4-7).
PhaseCycle ==
    [][\A s \in Slots :
         LET a == slots[s].phase
             b == slots'[s].phase
         IN  a # b => <<a, b>> \in {<<"Empty", "Loading">>, <<"Loading", "Ready">>,
                                    <<"Ready", "Computing">>, <<"Computing", "Empty">>}]_tileVars

\* A run that loses neither the device nor a read verifies every head of every
\* pass and ends; one that loses something ends too.
StreamEnds ==
    <>(\/ main.pc \in {"lost", "exited"}
       \/ main.pc = "done" /\ verified = Passes * NHeads)

\* Loader and main thread share the slots without ever sharing one.
TileSafety == TileTypeOK /\ TileWhole /\ LoaderApart
=============================================================================
