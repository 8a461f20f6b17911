------------------------------ MODULE MCServer ------------------------------
(* Server on the yards of MCYards. *)
EXTENDS Server, MCYards
=============================================================================
