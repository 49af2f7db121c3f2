---------------------------- MODULE GenPipeline ----------------------------
(* What a DX12InferencePipeline promises a client that starts a generation   *)
(* and waits for isRunning() to become false: tokens arrive only while it is *)
(* running, never more than were asked for, and at most one of them after a  *)
(* stop().  GenSession implements it; SpeculativeDecoder drives two of them. *)
EXTENDS Naturals

CONSTANT MaxNew        \* largest maxNew a client passes

VARIABLES
    busy,              \* running_, once a start has cleared the stop flag
    stopped,           \* stopFlag_
    left,              \* tokens of this generation still to come at most
    late               \* 1: a token already past the stop test is still coming

pipeVars == <<busy, stopped, left, late>>

Init == busy = FALSE /\ stopped = FALSE /\ left = 0 /\ late = 0

\* generateAsync on an idle pipeline; on a running one it returns silently.
Start(n) ==
    /\ ~busy
    /\ busy' = TRUE
    /\ stopped' = FALSE
    /\ left' = n
    /\ late' = 0

\* One call of the token callback.
Emit ==
    /\ busy /\ left > 0
    /\ stopped => late = 1
    /\ left' = left - 1
    /\ late' = 0
    /\ UNCHANGED <<busy, stopped>>

\* The generator thread stores running_ = false.
End ==
    /\ busy
    /\ busy' = FALSE
    /\ late' = 0
    /\ UNCHANGED <<stopped, left>>

\* stop(), from any thread at any time.
Stop ==
    /\ stopped' = TRUE
    /\ IF busy /\ ~stopped THEN late' \in {0, 1} ELSE late' = late
    /\ UNCHANGED <<busy, left>>

Next == (\E n \in 0..MaxNew : Start(n)) \/ Emit \/ End \/ Stop

Spec == Init /\ [][Next]_pipeVars
============================================================================
