----------------------------- MODULE MCTrainRun -----------------------------
(* TrainRun on the yards of MCYards. *)
EXTENDS TrainRun, MCYards
=============================================================================
