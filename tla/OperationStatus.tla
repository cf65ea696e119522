---------------------------- MODULE OperationStatus ----------------------------
(***************************************************************************)
(* OperationStatusQuery.get (operations/application/status.py): clients    *)
(* that poll GET /operations/{id} beside the workers of AnalysisWorker.    *)
(* The query reads the operation, and for a succeeded one then its result, *)
(* in two statements between which the workers go on.                      *)
(*                                                                         *)
(* A result expires with the temporary input of its operation, so          *)
(* inputs[op].ttl is also the time left to the expires_at of its result.   *)
(* Nothing deletes a result.  Whether what is stored validates when it is  *)
(* read is the matter of AnalysisTransport: here it does.                  *)
(***************************************************************************)
EXTENDS AnalysisWorker

CONSTANT Clients  \* clients that poll

VARIABLES
    polls,  \* operation whose result a poll is about to read
    told    \* the last answer of each client on each operation

pollVars == <<polls, told>>
statusVars == <<vars, pollVars>>

Pending == {"accepted", "processing"}
PublicFailures == {"input_unavailable", "analysis_unavailable", "processing_failed"}
Answers == [kind : {"none", "not_found", "succeeded", "expired", "unavailable"} \union Pending,
            failure : {Null}]
           \union [kind : {"failed"}, failure : PublicFailures]

Answer(kind) == [kind |-> kind, failure |-> Null]

AnalysisCodes == {"capability_unavailable", "provider_timeout", "provider_unavailable",
                  "provider_failure", "structured_output_invalid"}

(* Sensitivity variant: the internal code is passed on.                    *)
InternalFailure(code) == code

(* _public_failure.                                                        *)
PublicFailure(code) ==
    CASE code = "missing_temporary_input" -> "input_unavailable"
      [] code \in AnalysisCodes -> "analysis_unavailable"
      [] OTHER -> "processing_failed"

StatusInit ==
    /\ Init
    /\ polls = [c \in Clients |-> Null]
    /\ told = [c \in Clients |-> [op \in Ops |-> Answer("none")]]

Tell(c, op, answer) == told' = [told EXCEPT ![c][op] = answer]

(* The first read answers unless the operation succeeded.                  *)
PollOperation(c, op) ==
    LET row == operations[op] IN
    /\ polls[c] = Null
    /\ \/ /\ row.status = "absent"
          /\ Tell(c, op, Answer("not_found"))
          /\ UNCHANGED polls
       \/ /\ row.status \in Pending
          /\ Tell(c, op, Answer(row.status))
          /\ UNCHANGED polls
       \/ /\ row.status = "failed"
          /\ Tell(c, op, [kind |-> "failed", failure |-> PublicFailure(row.failure)])
          /\ UNCHANGED polls
       \/ /\ row.status = "succeeded"
          /\ polls' = [polls EXCEPT ![c] = op]
          /\ UNCHANGED told
    /\ UNCHANGED vars

Delivery(op) ==
    IF op \notin results THEN "unavailable"
    ELSE IF inputs[op].ttl = 0 THEN "expired"
    ELSE "succeeded"

(* The second one reads the result, and the clock.                         *)
PollResult(c) ==
    /\ polls[c] # Null
    /\ Tell(c, polls[c], Answer(Delivery(polls[c])))
    /\ polls' = [polls EXCEPT ![c] = Null]
    /\ UNCHANGED vars

(* The API process is killed, or the connection breaks.                    *)
PollLost(c) ==
    /\ polls[c] # Null
    /\ polls' = [polls EXCEPT ![c] = Null]
    /\ UNCHANGED <<vars, told>>

Poll(c) == (\E op \in Ops : PollOperation(c, op)) \/ PollResult(c) \/ PollLost(c)

StatusNext ==
    \/ Next /\ UNCHANGED pollVars
    \/ \E c \in Clients : Poll(c)

StatusSpec == StatusInit /\ [][StatusNext]_statusVars
-----------------------------------------------------------------------------
StatusTypeOK ==
    /\ polls \in [Clients -> Ops \union {Null}]
    /\ told \in [Clients -> [Ops -> Answers]]

(* Holds whatever the timing: a client is never answered 500 because the   *)
(* result of a succeeded operation is missing.  get reads the two rows at  *)
(* different times, but one transaction writes them, and no stale write    *)
(* makes an operation succeed without a result (_finish).                  *)
ResultIsNeverMissing ==
    \A c \in Clients, op \in Ops : told[c][op].kind # "unavailable"

(* Holds while attempts end within their leases: what a client is told of  *)
(* an end is final.  A failure stays the same failure; a result can only   *)
(* expire.                                                                 *)
EndIsFinal ==
    [][\A c \in Clients, op \in Ops :
          /\ told[c][op].kind = "failed" => told'[c][op] = told[c][op]
          /\ told[c][op].kind \in {"succeeded", "expired"}
                => told'[c][op].kind \in {told[c][op].kind, "expired"}]_statusVars

(* Holds while attempts end within their leases: the category a client is  *)
(* told is that of the attempt that ended the operation, not of an earlier *)
(* one whose code the row still held.                                      *)
FailureToldIsLast ==
    \A c \in Clients, op \in Ops :
       told[c][op].kind = "failed" =>
          told[c][op].failure = PublicFailure(attempts[op][Len(attempts[op])])
=============================================================================
