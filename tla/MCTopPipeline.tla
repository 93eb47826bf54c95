---------------------------- MODULE MCTopPipeline ----------------------------
(* Small instances of TopPipeline for TLC. *)
EXTENDS TopPipeline
=============================================================================
