--------------------------- MODULE MCStreamEngine ---------------------------
(* Small streams of frames on which TLC checks the stream engine. *)
EXTENDS StreamEngine, TLC

Chunk(l, isLast) == [type |-> "CHUNK", layer |-> l, last |-> isLast, size |-> 2]
Meta(l) == [type |-> "META", layer |-> l, last |-> FALSE, size |-> 1]

\* One layer of three tiles after its META frame, and a frame of no layer.
OneLayer == <<Meta(0), Chunk(0, FALSE), Chunk(0, FALSE), Chunk(7, FALSE), Chunk(0, TRUE)>>

\* Two layers whose tiles are interleaved.
TwoLayers == <<Chunk(0, FALSE), Chunk(1, FALSE), Chunk(0, TRUE), Chunk(1, TRUE)>>

\* One layer of two tiles.
TwoTiles == <<Chunk(0, FALSE), Chunk(0, TRUE)>>
\* The decode threads are interchangeable.
Symmetry == Permutations(Workers)
=============================================================================
