----------------------------- MODULE InferLayer -----------------------------
(* scx_infer_layer.cpp: the one-layer inference program.  A stream thread     *)
(* uploads the weight chunks through the immediate context and reports the    *)
(* last one through weightsReady and a condition variable; an inference       *)
(* thread waits for it, dispatches CSQProj and reads Y back, through the same *)
(* context.  The context belongs to one thread at a time, which nothing but   *)
(* the order of these steps ensures.                                          *)
EXTENDS Naturals

CONSTANT NumChunks     \* NUM_CHUNKS

Chunks == 0 .. NumChunks - 1

VARIABLES
    streamPc,          \* where the stream thread is
    chunk,             \* its loop variable c
    delivered,         \* chunksDelivered
    weightsReady,      \* the atomic flag
    inferPc,           \* where the inference thread is
    wBuf,              \* chunks the weight buffer holds
    yBuf               \* chunks the dispatch computed Y from

inferVars == <<streamPc, chunk, delivered, weightsReady, inferPc, wBuf, yBuf>>

InferInit ==
    /\ streamPc = "sleep" /\ chunk = 0 /\ delivered = 0 /\ weightsReady = FALSE
    /\ inferPc = "test" /\ wBuf = {} /\ yBuf = {}

-----------------------------------------------------------------------------
(* The stream thread.                                                         *)

\* UploadAt enters the context ...
UploadBegin ==
    /\ streamPc = "sleep" /\ chunk < NumChunks
    /\ streamPc' = "upload"
    /\ UNCHANGED <<chunk, delivered, weightsReady, inferPc, wBuf, yBuf>>

\* ... and leaves it.
UploadEnd ==
    /\ streamPc = "upload"
    /\ streamPc' = "count"
    /\ wBuf' = wBuf \union {chunk}
    /\ UNCHANGED <<chunk, delivered, weightsReady, inferPc, yBuf>>

\* mutant: the flag goes up one chunk early
LastDeliveryM == NumChunks - 1

\* The value of delivered at which the weights are reported.
LastDelivery == NumChunks

Deliver ==
    /\ streamPc = "count"
    /\ delivered' = delivered + 1
    /\ streamPc' = IF delivered + 1 = LastDelivery THEN "store" ELSE "sleep"
    /\ chunk' = chunk + 1
    /\ UNCHANGED <<weightsReady, inferPc, wBuf, yBuf>>

\* weightsReady.store(true): atomic, but outside LayerSync::mu.
StoreReady ==
    /\ streamPc = "store"
    /\ streamPc' = "notify"
    /\ weightsReady' = TRUE
    /\ UNCHANGED <<chunk, delivered, inferPc, wBuf, yBuf>>

\* mutant: the waiters are not notified
NotifyAllM ==
    /\ streamPc = "notify"
    /\ streamPc' = "sleep"
    /\ UNCHANGED <<chunk, delivered, weightsReady, inferPc, wBuf, yBuf>>

\* cv.notify_all wakes a waiter that is blocked by now and nobody else.
NotifyAll ==
    /\ streamPc = "notify"
    /\ streamPc' = "sleep"
    /\ inferPc' = IF inferPc = "asleep" THEN "test" ELSE inferPc
    /\ UNCHANGED <<chunk, delivered, weightsReady, wBuf, yBuf>>

StreamThread == UploadBegin \/ UploadEnd \/ Deliver \/ StoreReady \/ NotifyAll

-----------------------------------------------------------------------------
(* The inference thread.                                                      *)

\* cv.wait evaluates its predicate under mu ...
TestReady ==
    /\ inferPc = "test"
    /\ inferPc' = IF weightsReady THEN "dispatch" ELSE "toBlock"
    /\ UNCHANGED <<streamPc, chunk, delivered, weightsReady, wBuf, yBuf>>

\* ... and blocks afterwards; the stream thread, which does not take mu, may
\* store and notify in between.
Block ==
    /\ inferPc = "toBlock"
    /\ inferPc' = "asleep"
    /\ UNCHANGED <<streamPc, chunk, delivered, weightsReady, wBuf, yBuf>>

\* A condition variable may wake without a notification.
SpuriousWake ==
    /\ inferPc = "asleep"
    /\ inferPc' = "test"
    /\ UNCHANGED <<streamPc, chunk, delivered, weightsReady, wBuf, yBuf>>

\* Bind and dispatch CSQProj: Y is computed from what W holds now.
DispatchLayer ==
    /\ inferPc = "dispatch"
    /\ inferPc' = "readback"
    /\ yBuf' = wBuf
    /\ UNCHANGED <<streamPc, chunk, delivered, weightsReady, wBuf>>

\* Readback Y, print and compare, done.store(true).
ReadbackY ==
    /\ inferPc = "readback"
    /\ inferPc' = "done"
    /\ UNCHANGED <<streamPc, chunk, delivered, weightsReady, wBuf, yBuf>>

InferSteps == TestReady \/ Block \/ DispatchLayer \/ ReadbackY

InferNext == StreamThread \/ InferSteps \/ SpuriousWake

\* Both threads are scheduled; a spurious wake-up is never owed.
InferSpec ==
    /\ InferInit /\ [][InferNext]_inferVars
    /\ WF_inferVars(StreamThread) /\ WF_inferVars(InferSteps)

-----------------------------------------------------------------------------
InferTypeOK ==
    /\ streamPc \in {"sleep", "upload", "count", "store", "notify"}
    /\ inferPc \in {"test", "toBlock", "asleep", "dispatch", "readback", "done"}
    /\ chunk \in 0 .. NumChunks /\ delivered \in 0 .. NumChunks
    /\ weightsReady \in BOOLEAN
    /\ wBuf \subseteq Chunks /\ yBuf \subseteq Chunks

\* The two threads never use the immediate context at the same time, and the
\* layer is computed from every chunk: the order upload, count, flag is all
\* that keeps them apart (the comment at scx_infer_layer.cpp:303-305).
ContextAlone ==
    /\ inferPc \in {"dispatch", "readback"} => streamPc # "upload"
    /\ inferPc \in {"readback", "done"} => yBuf = Chunks

\* A waiter that tests after the flag went up, or sleeps when it is notified,
\* finishes the layer.  A waiter between its test and its block does not: the
\* notification passes it by and join() at 378 never returns.
InferEnds ==
    (inferPc = "asleep" /\ streamPc = "notify") \/ (inferPc = "test" /\ weightsReady)
      ~> inferPc = "done"

\* The context is never shared and Y comes from every chunk.
InferSafety == InferTypeOK /\ ContextAlone
=============================================================================
