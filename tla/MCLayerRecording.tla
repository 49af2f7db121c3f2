-------------------------- MODULE MCLayerRecording --------------------------
(* All four constants are numbers and get their values in the .cfg: two      *)
(* layers, a prompt of three tokens against a ring of two frames, so that    *)
(* the CPU records a token while the GPU runs an earlier one, and two steps  *)
(* of the generation loop.                                                   *)
EXTENDS LayerRecording
=============================================================================
