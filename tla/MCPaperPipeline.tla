-------------------------- MODULE MCPaperPipeline --------------------------
(***************************************************************************)
(* Instances of PaperPipeline for TLC.                                     *)
(***************************************************************************)
EXTENDS PaperPipeline
=============================================================================
