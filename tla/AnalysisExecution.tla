--------------------------- MODULE AnalysisExecution ---------------------------
(***************************************************************************)
(* OpenAIAnalysisExecutor.execute (ai/openai_provider.py) inside the       *)
(* workers of AnalysisWorker: a PDF is uploaded to the provider, the model *)
(* is asked, exceptions are classified, and the upload is deleted whatever *)
(* happened.  A worker waits in "executing" meanwhile: the other workers,  *)
(* the clock, crashes and the leases go on.                                *)
(***************************************************************************)
EXTENDS AnalysisWorker

CONSTANTS
    Errors,    \* what the provider's client may raise, see ErrorWords
    MaxLapses  \* bound: files the provider keeps because a call of it failed

(* An exception is the set of these words that its class name contains.    *)
ErrorWords == {"timeout", "ratelimit", "auth", "connection", "internalserver"}
ErrorCodes == {"provider_timeout", "rate_limited", "provider_authentication_failed",
               "provider_unavailable", "provider_failure"}
Transient == {"provider_timeout", "provider_unavailable", "rate_limited"}

(* What the worker may count on: a result or an unparsable output, either  *)
(* of which may be metered, or a classified error, which never is.         *)
ProviderOutcomes ==
    [kind : {"success"}, code : {Null}, retryable : {FALSE}, result : {TRUE}, usage : BOOLEAN]
    \union
    [kind : {"failure"}, code : {"structured_output_invalid"}, retryable : {FALSE},
     result : {FALSE}, usage : BOOLEAN]
    \union
    {Failure(code, code \in Transient) : code \in ErrorCodes}

ASSUME ExecutorAssumption == ProviderOutcomes \subseteq ExecutorOutcomes
ASSUME ErrorAssumption == Errors \subseteq SUBSET ErrorWords
ASSUME LapseAssumption == MaxLapses \in Nat

VARIABLES
    pdf,      \* operations on a PDF; the others send their images inline
    calls,    \* execute of each worker: its upload, and the outcome it returns
    remote,   \* number of files at the provider, by operation
    metered,  \* history: responses that carried usage
    lapses    \* history: files left because a call of the provider failed

providerVars == <<pdf, calls, remote, metered, lapses>>
executionVars == <<vars, providerVars>>

Fresh == [uploaded |-> FALSE, answer |-> Null]

ExecutionInit ==
    /\ Init
    /\ pdf \in SUBSET Ops
    /\ calls = [w \in Workers |-> Fresh]
    /\ remote = [op \in Ops |-> 0]
    /\ metered = [op \in Ops |-> 0]
    /\ lapses = 0

Asking(w) == pc[w] = "executing" /\ calls[w].answer = Null
Decide(w, out) == calls' = [calls EXCEPT ![w].answer = out]

(* _failure_code.                                                          *)
ErrorCode(words) ==
    CASE "timeout" \in words -> "provider_timeout"
      [] "timeout" \notin words /\ "ratelimit" \in words -> "rate_limited"
      [] {"timeout", "ratelimit"} \intersect words = {} /\ "auth" \in words
            -> "provider_authentication_failed"
      [] {"timeout", "ratelimit", "auth"} \intersect words = {} /\ words # {}
            -> "provider_unavailable"
      [] words = {} -> "provider_failure"

(* Sensitivity variant: every error is retried.                            *)
RaisedRetryable(words) == Failure(ErrorCode(words), TRUE)

(* The outer except branch.                                                *)
Raised(words) == Failure(ErrorCode(words), ErrorCode(words) \in Transient)
-----------------------------------------------------------------------------
UploadReturns(w) ==
    /\ Asking(w) /\ job[w] \in pdf /\ ~calls[w].uploaded
    /\ calls' = [calls EXCEPT ![w].uploaded = TRUE]
    /\ remote' = [remote EXCEPT ![job[w]] = @ + 1]
    /\ UNCHANGED <<vars, pdf, metered, lapses>>

(* The provider may have kept the file: its id never arrives.              *)
UploadRaises(w) ==
    /\ Asking(w) /\ job[w] \in pdf /\ ~calls[w].uploaded
    /\ \E error \in Errors : Decide(w, Raised(error))
    /\ \/ UNCHANGED <<remote, lapses>>
       \/ /\ lapses < MaxLapses
          /\ lapses' = lapses + 1
          /\ remote' = [remote EXCEPT ![job[w]] = @ + 1]
    /\ UNCHANGED <<vars, pdf, metered>>

(* Sensitivity variant: an output that does not parse reports no usage.    *)
ParsedUnmetered(parses, reports) ==
    IF parses
    THEN [kind |-> "success", code |-> Null, retryable |-> FALSE, result |-> TRUE,
          usage |-> reports]
    ELSE Failure("structured_output_invalid", FALSE)

(* Usage is taken from the response before its output is parsed.           *)
Parsed(parses, reports) ==
    IF parses
    THEN [kind |-> "success", code |-> Null, retryable |-> FALSE, result |-> TRUE,
          usage |-> reports]
    ELSE [Failure("structured_output_invalid", FALSE) EXCEPT !.usage = reports]

ResponseReturns(w) ==
    /\ Asking(w) /\ (job[w] \in pdf => calls[w].uploaded)
    /\ \E parses, reports \in BOOLEAN :
          /\ Decide(w, Parsed(parses, reports))
          /\ metered' = [metered EXCEPT ![job[w]] = @ + (IF reports THEN 1 ELSE 0)]
    /\ UNCHANGED <<vars, pdf, remote, lapses>>

(* The request raises, or something before it does.                        *)
ResponseRaises(w) ==
    /\ Asking(w) /\ (job[w] \in pdf => calls[w].uploaded)
    /\ \E error \in Errors : Decide(w, Raised(error))
    /\ UNCHANGED <<vars, pdf, remote, metered, lapses>>

(* The finally branch, whose own errors are ignored.                       *)
CleanUp(w) ==
    /\ pc[w] = "executing" /\ calls[w].answer # Null /\ calls[w].uploaded
    /\ calls' = [calls EXCEPT ![w].uploaded = FALSE]
    /\ \/ remote' = [remote EXCEPT ![job[w]] = @ - 1] /\ UNCHANGED lapses
       \/ /\ lapses < MaxLapses
          /\ lapses' = lapses + 1
          /\ UNCHANGED remote
    /\ UNCHANGED <<vars, pdf, metered>>

(* Sensitivity variant: an error returns before the finally branch.        *)
ReturnEarly(w) ==
    /\ calls[w].answer # Null
    /\ calls[w].answer.kind = "success" => ~calls[w].uploaded
    /\ ExecuteReturns(w, calls[w].answer)
    /\ calls' = [calls EXCEPT ![w] = Fresh]
    /\ UNCHANGED <<pdf, remote, metered, lapses>>

Return(w) ==
    /\ calls[w].answer # Null /\ ~calls[w].uploaded
    /\ ExecuteReturns(w, calls[w].answer)
    /\ calls' = [calls EXCEPT ![w] = Fresh]
    /\ UNCHANGED <<pdf, remote, metered, lapses>>

(* Everything else of the workers goes on; one that executes can only be   *)
(* killed, and takes its call with it.                                     *)
Beside ==
    /\ Next
    /\ \A w \in Workers : pc[w] = "executing" => pc'[w] \in {"executing"} \union Down
    /\ calls' = [w \in Workers |-> IF pc'[w] = "executing" THEN calls[w] ELSE Fresh]
    /\ UNCHANGED <<pdf, remote, metered, lapses>>

Call(w) ==
    \/ UploadReturns(w)
    \/ UploadRaises(w)
    \/ ResponseReturns(w)
    \/ ResponseRaises(w)
    \/ CleanUp(w)
    \/ Return(w)

ExecutionNext == (\E w \in Workers : Call(w)) \/ Beside

ExecutionSpec == ExecutionInit /\ [][ExecutionNext]_executionVars
-----------------------------------------------------------------------------
ExecutionTypeOK ==
    /\ pdf \subseteq Ops
    /\ calls \in [Workers -> [uploaded : BOOLEAN, answer : Outcome \union {Null}]]
    /\ remote \in [Ops -> Nat]
    /\ metered \in [Ops -> Nat]
    /\ lapses \in Nat
    /\ \A w \in Workers : pc[w] # "executing" => calls[w] = Fresh

(* The workers see of the executor no more than AnalysisWorker assumes: it *)
(* retries what is transient, meters what was answered, and returns once.  *)
ImplementsWorker == Spec

(* No provider file outlives the attempt that uploaded it, whatever the    *)
(* answer was: only a failed call of the provider or a killed worker       *)
(* leaves one (the finally branch of execute).                             *)
Uploading(op) == {w \in Workers : job[w] = op /\ calls[w].uploaded}
FilesReleased ==
    \A op \in Ops : remote[op] <= Cardinality(Uploading(op)) + lapses + faults

(* Usage is captured for every response before its output is mapped, and   *)
(* from there to its row it is lost only by a crash or a database failure. *)
Answering(op) ==
    {w \in Workers : job[w] = op /\ calls[w].answer # Null /\ calls[w].answer.usage}
UsageOfEveryResponse ==
    faults = 0 =>
       \A op \in Ops :
          metered[op] = usage[op] + Cardinality(InHand(op)) + Cardinality(Answering(op))

(* An attempt is only ever followed by another if it ended in a transient  *)
(* error of the provider or an internal one, or never ended.               *)
OnlyTransientIsRetried ==
    \A op \in Ops : \A n \in 1..(Len(attempts[op]) - 1) :
       attempts[op][n] \in Transient \union {"internal_error", "processing"}
=============================================================================
