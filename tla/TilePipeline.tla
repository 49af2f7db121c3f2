---------------------------- MODULE TilePipeline ----------------------------
(***************************************************************************)
(* What the stream engine promises of the tiles it is given, whatever its  *)
(* threads do: every tile is submitted once, taken from the head of the    *)
(* queue by one decoder, counted once, and a layer opens for inference     *)
(* only after its last tile has been counted.                              *)
(***************************************************************************)
EXTENDS Naturals, Sequences

CONSTANTS Tiles, layerOf, isLast

VARIABLES
    queue,   \* submitted tiles no decoder has taken
    state,   \* life of each tile: unsent, queued, held, counted
    open     \* layers that inference may use

vars == <<queue, state, open>>

Init ==
    /\ queue = <<>>
    /\ state = [t \in Tiles |-> "unsent"]
    /\ open = {}

Submit(t) ==
    /\ state[t] = "unsent"
    /\ state' = [state EXCEPT ![t] = "queued"]
    /\ queue' = Append(queue, t)
    /\ UNCHANGED open

Take ==
    /\ queue # <<>>
    /\ state' = [state EXCEPT ![Head(queue)] = "held"]
    /\ queue' = Tail(queue)
    /\ UNCHANGED open

Count(t) ==
    /\ state[t] = "held"
    /\ state' = [state EXCEPT ![t] = "counted"]
    /\ UNCHANGED <<queue, open>>

Open(l) ==
    /\ \E t \in Tiles : layerOf[t] = l /\ isLast[t] /\ state[t] = "counted"
    /\ open' = open \cup {l}
    /\ UNCHANGED <<queue, state>>

Next ==
    \/ \E t \in Tiles : Submit(t) \/ Count(t)
    \/ Take
    \/ \E t \in Tiles : Open(layerOf[t])

Spec == Init /\ [][Next]_vars
=============================================================================
