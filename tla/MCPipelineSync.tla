--------------------------- MODULE MCPipelineSync ---------------------------
(* One thread in both roles (weights are uploaded before the generation), or *)
(* two threads that upload at once.                                          *)
EXTENDS PipelineSync

CONSTANTS t1, t2, s1, s2

One == {t1}
Both == {t1, t2}
None == {}
TwoSlots == {s1, s2}
=============================================================================
