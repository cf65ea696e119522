------------------------- MODULE OperationStatusProofs -------------------------
(* Theorems about what clients are told, for all constants.                *)
EXTENDS OperationStatus, AnalysisWorkerTimelyProofs

USE DEF tables, locals, history

(* Polls disturb no worker: what holds of the worker holds beside clients. *)
LEMMA WorkersUndisturbed == StatusSpec => Spec
  <1>1. StatusInit => Init
    BY DEF StatusInit
  <1>2. [StatusNext]_statusVars => [Next]_vars
    BY DEF StatusNext, statusVars, Poll, PollOperation, PollResult, PollLost
  <1> QED
    BY <1>1, <1>2, PTL DEF StatusSpec, Spec

LEMMA AnswerTypes ==
    /\ \A kind \in {"none", "not_found", "succeeded", "expired", "unavailable"} \union Pending :
          Answer(kind) \in Answers
    /\ \A code : [kind |-> "failed", failure |-> PublicFailure(code)] \in Answers
  BY DEF Answer, Answers, PublicFailure, PublicFailures

(* What the clients hold is always of its type.                            *)
THEOREM StatusTypeCorrect == StatusSpec => []StatusTypeOK
  <1>1. StatusInit => StatusTypeOK
    BY AnswerTypes DEF StatusInit, StatusTypeOK
  <1>2. StatusTypeOK /\ [StatusNext]_statusVars => StatusTypeOK'
    <2> SUFFICES ASSUME StatusTypeOK, [StatusNext]_statusVars PROVE StatusTypeOK'
      OBVIOUS
    <2> USE DEF StatusTypeOK
    <2>1. ASSUME NEW c \in Clients, NEW op \in Ops, PollOperation(c, op) PROVE StatusTypeOK'
      <3>1. polls' \in [Clients -> Ops \union {Null}]
        BY <2>1 DEF PollOperation
      <3>2. \/ UNCHANGED told
            \/ \E answer \in Answers : Tell(c, op, answer)
        BY <2>1, AnswerTypes DEF PollOperation
      <3> QED
        BY <3>1, <3>2 DEF Tell
    <2>2. ASSUME NEW c \in Clients, PollResult(c) PROVE StatusTypeOK'
      <3>1. polls[c] \in Ops /\ Answer(Delivery(polls[c])) \in Answers
        BY <2>2, AnswerTypes DEF PollResult, Delivery
      <3> QED
        BY <2>2, <3>1 DEF PollResult, Tell
    <2>3. ASSUME NEW c \in Clients, PollLost(c) PROVE StatusTypeOK'
      BY <2>3 DEF PollLost
    <2>4. CASE UNCHANGED pollVars
      BY <2>4 DEF pollVars
    <2> QED
      BY <2>1, <2>2, <2>3, <2>4 DEF StatusNext, Poll, statusVars
  <1> QED
    BY <1>1, <1>2, PTL DEF StatusSpec
-----------------------------------------------------------------------------
(* No worker removes a result.                                             *)
LEMMA ResultsKept == TypeOK /\ [Next]_vars => results \subseteq results'
  <1>1. ASSUME NEW op \in Ops, Submit(op) PROVE UNCHANGED results
    BY <1>1 DEF Submit
  <1>2. ASSUME NEW w \in Workers,
               \/ \E op \in Ops : ClaimSelect(w, op)
               \/ ClaimCommit(w) \/ ReadOperation(w) \/ ReadAttempt(w) \/ DeleteInput(w) \/ LocalStep(w)
        PROVE  UNCHANGED results
    BY <1>2 DEF ClaimSelect, ClaimCommit, ReadOperation, ReadAttempt, DeleteInput, LocalStep
  <1>3. ASSUME NEW w \in Workers, Commits(w) PROVE results \subseteq results'
    BY <1>3 DEF Commits, FinishWrites
  <1>4. Tick => UNCHANGED results
    BY DEF Tick
  <1> QED
    BY <1>1, <1>2, <1>3, <1>4, NextCases DEF vars

(* The strengthening: a poll reads the result of an operation that had one *)
(* when the poll read its row.                                             *)
MissingInv ==
    /\ ResultIsNeverMissing
    /\ \A c \in Clients : polls[c] # Null => polls[c] \in results

LEMMA MissingStep ==
    ASSUME TypeOK, SucceededHasResult, StatusTypeOK, MissingInv, [StatusNext]_statusVars
    PROVE  MissingInv'
  <1> USE DEF MissingInv, ResultIsNeverMissing, StatusTypeOK
  <1>1. ASSUME NEW c \in Clients, NEW op \in Ops, PollOperation(c, op) PROVE MissingInv'
    <2>1. CASE UNCHANGED told /\ polls' = [polls EXCEPT ![c] = op] /\ operations[op].status = "succeeded"
      BY <1>1, <2>1 DEF PollOperation, SucceededHasResult, vars
    <2>2. CASE UNCHANGED polls /\ \E answer \in Answers : answer.kind # "unavailable" /\ Tell(c, op, answer)
      BY <1>1, <2>2 DEF PollOperation, Tell, vars
    <2> QED
      BY <1>1, <2>1, <2>2, AnswerTypes DEF PollOperation, Answer, Pending
  <1>2. ASSUME NEW c \in Clients, PollResult(c) PROVE MissingInv'
    <2>1. polls[c] \in Ops /\ Answer(Delivery(polls[c])).kind # "unavailable"
      BY <1>2 DEF PollResult, Delivery, Answer
    <2> QED
      BY <1>2, <2>1 DEF PollResult, Tell, vars
  <1>3. ASSUME NEW c \in Clients, PollLost(c) PROVE MissingInv'
    BY <1>3 DEF PollLost, vars
  <1>4. CASE [Next]_vars /\ UNCHANGED pollVars
    BY <1>4, ResultsKept DEF pollVars
  <1> QED
    BY <1>1, <1>2, <1>3, <1>4 DEF StatusNext, Poll, statusVars

(* Whatever the timing and whatever fails, no client is told that the      *)
(* result of a succeeded operation is unavailable: get meets the row and   *)
(* the result that one transaction of _finish wrote.                       *)
THEOREM ResultPresent == StatusSpec => []ResultIsNeverMissing
  <1>1. StatusInit => MissingInv
    BY DEF StatusInit, MissingInv, ResultIsNeverMissing, Answer
  <1>2. StatusSpec => [](TypeOK /\ SucceededHasResult)
    BY WorkersUndisturbed, TypeCorrect, ResultPresentCorrect, PTL
  <1>3. MissingInv => ResultIsNeverMissing
    BY DEF MissingInv
  <1> QED
    BY <1>1, <1>2, <1>3, MissingStep, StatusTypeCorrect, PTL DEF StatusSpec
-----------------------------------------------------------------------------
(* When attempts end within their leases, no worker touches what a client  *)
(* may have been told of an operation that ended.                          *)
LEMMA EndedKept ==
    ASSUME TypeOK, OwnInv, TimelyInv, [Next]_vars, NEW op \in Ops, operations[op].status \in Terminal
    PROVE  /\ operations'[op].status = operations[op].status
           /\ operations'[op].failure = operations[op].failure
           /\ inputs[op].ttl = 0 => inputs'[op].ttl = 0
  <1>1. ASSUME NEW o \in Ops, Submit(o) PROVE UNCHANGED <<operations[op], inputs[op]>>
    BY <1>1 DEF Submit, Terminal
  <1>2. ASSUME NEW w \in Workers, ClaimCommit(w) PROVE UNCHANGED <<operations[op], inputs[op]>>
    <2>1. job[w] # op
      BY <1>2 DEF ClaimCommit, Proceed, TimelyInv, WorkerOK, ClaimsFree, Terminal
    <2> QED
      BY <1>2, <2>1 DEF ClaimCommit
  <1>3. ASSUME NEW w \in Workers, Commits(w) PROVE UNCHANGED <<operations[op], inputs[op]>>
    <2>1. job[w] # op
      BY <1>3, TimelyCommit DEF Terminal
    <2> QED
      BY <1>3, <2>1 DEF Commits, FinishWrites
  <1>4. ASSUME NEW w \in Workers, DeleteInput(w)
        PROVE  UNCHANGED operations[op] /\ inputs'[op].ttl = inputs[op].ttl
    BY <1>4 DEF DeleteInput, TypeOK, TablesTypeOK
  <1>5. ASSUME NEW w \in Workers,
               \/ \E o \in Ops : ClaimSelect(w, o)
               \/ ReadOperation(w) \/ ReadAttempt(w) \/ LocalStep(w)
        PROVE  UNCHANGED <<operations[op], inputs[op]>>
    BY <1>5 DEF ClaimSelect, ReadOperation, ReadAttempt, LocalStep
  <1>6. Tick /\ inputs[op].ttl = 0 => inputs'[op].ttl = 0
    BY DEF Tick, Elapse, TypeOK, TablesTypeOK
  <1> QED
    BY <1>1, <1>2, <1>3, <1>4, <1>5, <1>6, TickFacts, NextCases DEF vars

(* What a client was told of an end is still so.                           *)
EndInv ==
    /\ \A c \in Clients : polls[c] # Null => operations[polls[c]].status = "succeeded"
    /\ \A c \in Clients, op \in Ops :
          /\ told[c][op].kind = "failed" =>
                /\ operations[op].status = "failed"
                /\ told[c][op].failure = PublicFailure(operations[op].failure)
          /\ told[c][op].kind \in {"succeeded", "expired"} => operations[op].status = "succeeded"
          /\ told[c][op].kind = "expired" => inputs[op].ttl = 0

(* The one answer a poll changes.                                          *)
LEMMA PollAnswers ==
    ASSUME StatusTypeOK, NEW c \in Clients, NEW op \in Ops, NEW answer, Tell(c, op, answer),
           NEW d \in Clients, NEW o \in Ops
    PROVE  told'[d][o] = IF d = c /\ o = op THEN answer ELSE told[d][o]
  BY DEF StatusTypeOK, Tell

LEMMA EndStep ==
    ASSUME TypeOK, OwnInv, TimelyInv, StatusTypeOK, EndInv, [StatusNext]_statusVars
    PROVE  EndInv'
  <1> USE DEF EndInv, StatusTypeOK
  <1>1. ASSUME NEW c \in Clients, NEW op \in Ops, PollOperation(c, op) PROVE EndInv'
    <2>1. CASE UNCHANGED told /\ polls' = [polls EXCEPT ![c] = op] /\ operations[op].status = "succeeded"
      BY <1>1, <2>1 DEF PollOperation, vars
    <2>2. CASE UNCHANGED polls /\ operations[op].status \notin Terminal
               /\ \E kind \in {"not_found"} \union Pending : Tell(c, op, Answer(kind))
      BY <1>1, <2>2, PollAnswers DEF PollOperation, Answer, Pending, vars
    <2>3. CASE UNCHANGED polls /\ operations[op].status = "failed"
               /\ Tell(c, op, [kind |-> "failed", failure |-> PublicFailure(operations[op].failure)])
      BY <1>1, <2>3, PollAnswers DEF PollOperation, vars
    <2> QED
      BY <1>1, <2>1, <2>2, <2>3 DEF PollOperation, Pending, Terminal
  <1>2. ASSUME NEW c \in Clients, PollResult(c) PROVE EndInv'
    <2>1. polls[c] \in Ops /\ operations[polls[c]].status = "succeeded"
      BY <1>2 DEF PollResult
    <2>2. /\ Answer(Delivery(polls[c])).kind \in {"unavailable", "expired", "succeeded"}
          /\ Answer(Delivery(polls[c])).kind = "expired" => inputs[polls[c]].ttl = 0
      BY DEF Answer, Delivery
    <2> QED
      BY <1>2, <2>1, <2>2, PollAnswers DEF PollResult, vars
  <1>3. ASSUME NEW c \in Clients, PollLost(c) PROVE EndInv'
    BY <1>3 DEF PollLost, vars
  <1>4. CASE [Next]_vars /\ UNCHANGED pollVars
    BY <1>4, EndedKept DEF pollVars, Terminal
  <1> QED
    BY <1>1, <1>2, <1>3, <1>4 DEF StatusNext, Poll, statusVars

LEMMA EndTold ==
    ASSUME StatusTypeOK, MissingInv, EndInv, [StatusNext]_statusVars,
           NEW c \in Clients, NEW op \in Ops
    PROVE  /\ told[c][op].kind = "failed" => told'[c][op] = told[c][op]
           /\ told[c][op].kind \in {"succeeded", "expired"}
                 => told'[c][op].kind \in {told[c][op].kind, "expired"}
  <1>1. told[c][op] \in Answers
    BY DEF StatusTypeOK
  <1>2. ASSUME NEW d \in Clients, NEW o \in Ops, PollOperation(d, o)
        PROVE  told'[c][op] = told[c][op]
               \/ told[c][op].kind \notin {"failed", "succeeded", "expired"}
    <2>1. CASE operations[o].status = "failed"
      <3>1. told[c][op].kind = "failed" /\ op = o
              => told[c][op] = [kind |-> "failed", failure |-> PublicFailure(operations[o].failure)]
        BY <1>1 DEF EndInv, Answers
      <3>2. Tell(d, o, [kind |-> "failed", failure |-> PublicFailure(operations[o].failure)])
        BY <1>2, <2>1 DEF PollOperation, Pending
      <3> QED
        BY <2>1, <3>1, <3>2, PollAnswers DEF EndInv
    <2>2. CASE operations[o].status # "failed"
      <3>1. UNCHANGED told \/ (operations[o].status # "succeeded" /\ \E answer : Tell(d, o, answer))
        BY <1>2, <2>2 DEF PollOperation, Pending
      <3> QED
        BY <2>2, <3>1, PollAnswers DEF EndInv
    <2> QED
      BY <2>1, <2>2
  <1>3. ASSUME NEW d \in Clients, PollResult(d)
        PROVE  \/ told'[c][op] = told[c][op]
               \/ /\ told[c][op].kind # "failed"
                  /\ told'[c][op].kind \in {"expired", "succeeded"}
                  /\ told[c][op].kind = "expired" => told'[c][op].kind = "expired"
    <2>1. polls[d] \in Ops /\ polls[d] \in results /\ operations[polls[d]].status = "succeeded"
      BY <1>3 DEF PollResult, EndInv, MissingInv, StatusTypeOK
    <2>2. Answer(Delivery(polls[d])).kind = IF inputs[polls[d]].ttl = 0 THEN "expired" ELSE "succeeded"
      BY <2>1 DEF Answer, Delivery
    <2> QED
      BY <1>3, <2>1, <2>2, PollAnswers DEF PollResult, EndInv
  <1> QED
    BY <1>2, <1>3 DEF StatusNext, Poll, PollLost, pollVars, statusVars

(* While attempts end in time and commits are acknowledged, a client that  *)
(* was told how an operation ended is told the same for ever, until its    *)
(* result expires.                                                         *)
THEOREM EndFinal ==
    ASSUME ~MayOverrun, ~MayLoseAck PROVE StatusSpec => EndIsFinal
  <1> DEFINE WorkerInv == TypeOK /\ SucceededHasResult /\ OwnInv /\ TimelyInv
             Inv == WorkerInv /\ StatusTypeOK /\ MissingInv /\ EndInv
  <1>1. StatusInit => MissingInv /\ EndInv
    BY DEF StatusInit, MissingInv, ResultIsNeverMissing, EndInv, Answer
  <1>2. StatusSpec => []WorkerInv
    <2>1. TimelyIInv => WorkerInv
      BY DEF TimelyIInv, InputInv
    <2> QED
      BY <2>1, WorkersUndisturbed, TimelyInvariant, PTL
  <1>3. Inv /\ [StatusNext]_statusVars => MissingInv' /\ EndInv'
    BY MissingStep, EndStep
  <1>4. Inv /\ [StatusNext]_statusVars =>
          [\A c \in Clients, op \in Ops :
             /\ told[c][op].kind = "failed" => told'[c][op] = told[c][op]
             /\ told[c][op].kind \in {"succeeded", "expired"}
                   => told'[c][op].kind \in {told[c][op].kind, "expired"}]_statusVars
    BY EndTold
  <1> QED
    BY <1>1, <1>2, <1>3, <1>4, StatusTypeCorrect, PTL DEF StatusSpec, EndIsFinal

-----------------------------------------------------------------------------
(* An operation fails only by an attempt.                                  *)
FailedInv == \A op \in Ops : operations[op].status = "failed" => attempts[op] # << >>

LEMMA FailedStep == TypeOK /\ OwnInv /\ TimelyInv /\ FailedInv /\ [Next]_vars => FailedInv'
  <1> SUFFICES ASSUME TypeOK, OwnInv, TimelyInv, FailedInv, [Next]_vars, NEW op \in Ops,
                      operations'[op].status = "failed"
               PROVE  attempts'[op] # << >>
    BY DEF FailedInv
  <1>1. ASSUME NEW o \in Ops, Submit(o) PROVE operations[op].status = "failed" /\ UNCHANGED attempts
    BY <1>1 DEF Submit, NewRow, TypeOK, TablesTypeOK
  <1>2. ASSUME NEW w \in Workers, ClaimCommit(w)
        PROVE  operations[op].status = "failed" /\ UNCHANGED attempts[op]
    BY <1>2 DEF ClaimCommit, ClaimedRow, TypeOK, TablesTypeOK
  <1>3. ASSUME NEW w \in Workers, Commits(w) PROVE attempts'[op] # << >>
    <2>1. CASE job[w] = op
      <3>1. DOMAIN attempts'[op] = DOMAIN attempts[op] /\ DOMAIN attempts[op] # {}
        BY <1>3, <2>1, TimelyCommit
      <3> QED
        BY <3>1
    <2>2. CASE job[w] # op
      BY <1>3, <2>2 DEF Commits, FinishWrites, FailedInv
    <2> QED
      BY <2>1, <2>2
  <1>4. ASSUME NEW w \in Workers,
               \/ \E o \in Ops : ClaimSelect(w, o)
               \/ ReadOperation(w) \/ ReadAttempt(w) \/ LocalStep(w) \/ DeleteInput(w)
        PROVE  UNCHANGED <<operations, attempts>>
    BY <1>4 DEF ClaimSelect, ReadOperation, ReadAttempt, LocalStep, DeleteInput
  <1>5. Tick => UNCHANGED attempts
    BY DEF Tick
  <1> QED
    BY <1>1, <1>2, <1>3, <1>4, <1>5, TickFacts, NextCases DEF FailedInv, vars

(* While attempts end in time and commits are acknowledged, a client is    *)
(* told the failure of the attempt that ended the operation.               *)
THEOREM FailureTold ==
    ASSUME ~MayOverrun, ~MayLoseAck PROVE StatusSpec => []FailureToldIsLast
  <1> DEFINE WorkerInv == TypeOK /\ OwnInv /\ TimelyInv
  <1>1. Spec => [](WorkerInv /\ FailedInv)
    <2>1. Init => FailedInv
      BY DEF Init, FailedInv, NewRow
    <2>2. TimelyIInv => WorkerInv
      BY DEF TimelyIInv
    <2> QED
      BY <2>1, <2>2, FailedStep, TimelyInvariant, PTL DEF Spec
  <1>2. StatusInit => EndInv
    BY DEF StatusInit, EndInv, Answer
  <1>3. WorkerInv /\ StatusTypeOK /\ EndInv /\ [StatusNext]_statusVars => EndInv'
    BY EndStep
  <1>4. WorkerInv /\ FailedInv /\ EndInv => FailureToldIsLast
    BY DEF TimelyInv, FailureMatchesHistory, FailedInv, EndInv, FailureToldIsLast
  <1> QED
    BY <1>1, <1>2, <1>3, <1>4, WorkersUndisturbed, StatusTypeCorrect, PTL DEF StatusSpec
=============================================================================
