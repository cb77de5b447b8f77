-------------------------- MODULE MCPlantSimulator --------------------------
(* Two core slots per derived slot, three attempts at most. *)
EXTENDS PlantSimulator
=============================================================================
