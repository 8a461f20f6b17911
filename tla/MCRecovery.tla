----------------------------- MODULE MCRecovery -----------------------------
(* Recovery, with the view of the station, on the yards of MCYards. *)
EXTENDS Recovery, StationView, MCYards
=============================================================================
