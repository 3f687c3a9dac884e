--------------------------- MODULE MCConfigPasses ---------------------------
(* Instances of ConfigPasses for TLC.                                       *)
EXTENDS ConfigPasses
=============================================================================
