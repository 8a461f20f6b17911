--------------------------- MODULE MCInterlocking ---------------------------
(* Interlocking on the yards of MCYards. *)
EXTENDS Interlocking, MCYards
=============================================================================
