-------------------------- MODULE MCTrainerServer --------------------------
(* Three processes: enough for a run, the next one and a third started while *)
(* the first two are still open.                                            *)
EXTENDS TrainerServer
=============================================================================
