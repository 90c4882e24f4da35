-------------------------- MODULE MCSourceControl --------------------------
(* Small instances of SourceControl for TLC: one source, consented or      *)
(* ordinary, named in the configuration.                                   *)
EXTENDS SourceControl
=============================================================================
