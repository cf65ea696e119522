------------------------- MODULE MCAnalysisExecution --------------------------
(* Values for TLC.                                                         *)
EXTENDS AnalysisExecution, MCAnalysisWorker

(* One exception class of each code.                                       *)
MCErrors == {{"timeout"}, {"ratelimit"}, {"auth"}, {"connection"}, {}}
=============================================================================
