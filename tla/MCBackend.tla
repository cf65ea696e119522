------------------------------- MODULE MCBackend -------------------------------
(* Values for TLC.                                                         *)
EXTENDS Backend, MCAnalysisExecution
=============================================================================
