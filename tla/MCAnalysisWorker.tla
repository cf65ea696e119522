--------------------------- MODULE MCAnalysisWorker ---------------------------
(* Values for TLC.                                                         *)
EXTENDS AnalysisWorker, TLC

MCStamps == 1..Cardinality(Ops)
MCProviderCodes == {"provider_timeout"}

MCSuccess(result) ==
    [kind |-> "success", code |-> Null, retryable |-> FALSE, result |-> result, usage |-> TRUE]

(* A success, one with no parsed result, a timeout that cost nothing.      *)
MCAnyOutcome == {MCSuccess(TRUE), MCSuccess(FALSE), Failure("provider_timeout", TRUE)}
MCSimpleOutcome == {MCSuccess(TRUE), Failure("provider_timeout", TRUE)}

(* What the production executor returns: usage is reported with a result   *)
(* and with an output that does not parse.                                 *)
MCMeteredOutcome ==
    {MCSuccess(TRUE), Failure("provider_timeout", TRUE),
     [Failure("structured_output_invalid", FALSE) EXCEPT !.usage = TRUE]}

WorkerSymmetry == Permutations(Workers)
=============================================================================
