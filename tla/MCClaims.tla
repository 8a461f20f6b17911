----------------------------- MODULE MCClaims -------------------------------
(* Claims on the yards of MCYards. *)
EXTENDS Claims, MCYards
=============================================================================
