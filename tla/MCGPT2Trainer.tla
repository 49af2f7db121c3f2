---------------------------- MODULE MCGPT2Trainer ----------------------------
(* GPT2Trainer with two layers of two heads, three sequences in batches of   *)
(* two, and three steps with a save after every second one.                  *)
EXTENDS GPT2Trainer
=============================================================================
