---------------------------- MODULE AnalysisWorker ----------------------------
(***************************************************************************)
(* The polling worker of worker/runtime.py: several worker processes claim *)
(* document analysis operations through PostgreSQL row locks and leases,   *)
(* run an executor outside any transaction, and record the outcome.        *)
(*                                                                         *)
(* Transactions run at READ COMMITTED.  A step of this module is the piece *)
(* of a handler between two points where another process can intervene: a  *)
(* row lock taken, a read, a commit, a file operation, an executor call.   *)
(*                                                                         *)
(* Clocks.  A timestamp column is kept as the time left until it, so that  *)
(* lease_expires_at <= now reads lease = 0.  What a worker samples as now  *)
(* is kept as age, the time since the sample.  Tick lets one unit pass.    *)
(***************************************************************************)
EXTENDS Integers, Sequences, FiniteSets

CONSTANTS
    Ops,               \* operations that may be submitted
    Workers,           \* worker processes
    Stamps,            \* values of created_at
    Null,              \* SQL NULL, Python None
    ProviderCodes,     \* failure codes an executor may report
    ExecutorOutcomes,  \* what the executor may return (ExecutionOutcome)
    MaxAttempts,       \* max_attempts
    LeaseSeconds,      \* lease_seconds
    RetryDelay,        \* retry_delay_seconds
    Retention,         \* retention of a temporary input
    MayOverrun,        \* may an attempt outlive its lease?
    MayLoseAck,        \* may a commit succeed and its acknowledgement be lost?
    StoreFaults,       \* may the store fail to delete a directory?
    MaxFaults,         \* bound: processes killed, database calls failed, acknowledgements lost
    MaxClaims          \* bound: attempts rows per operation

WorkerCodes == {"missing_temporary_input", "internal_error", "structured_output_invalid"}
FailureCode == WorkerCodes \union ProviderCodes

Status == {"absent", "accepted", "processing", "succeeded", "failed"}
Terminal == {"succeeded", "failed"}

(* ExecutionOutcome, its telemetry reduced to whether usage was reported.  *)
Outcome == [kind : {"success"}, code : {Null}, retryable : {FALSE},
            result : BOOLEAN, usage : BOOLEAN]
           \union
           [kind : {"failure"}, code : FailureCode, retryable : BOOLEAN,
            result : {FALSE}, usage : BOOLEAN]

(* The columns of an operations row that the worker reads or writes.       *)
(* worker_id, claimed_at and lease_expires_at are always written together: *)
(* lease stands for the three.                                             *)
Row == [status : Status, lease : Nat \union {Null}, next : Nat \union {Null},
        failure : FailureCode \union {Null}, created : Nat]

(* What _finish has loaded: the columns of the row it may overwrite, the   *)
(* number of the attempt it closes, whether the input is undeleted.        *)
Snapshot == [status : Status, leased : BOOLEAN, failure : FailureCode \union {Null},
             attempt : Nat, inputLive : BOOLEAN]
Unseen == [status |-> "absent", leased |-> FALSE, failure |-> Null,
           attempt |-> 0, inputLive |-> FALSE]

AttemptOutcome == {"processing", "succeeded"} \union FailureCode

ASSUME NullAssumption ==
    Null \notin Nat \union FailureCode \union Ops \union Outcome
ASSUME CodeAssumption == {"processing", "succeeded"} \intersect FailureCode = {}
ASSUME ConfigAssumption ==
    /\ MaxAttempts \in Nat \ {0}
    /\ LeaseSeconds \in Nat \ {0}
    /\ RetryDelay \in Nat
    /\ Retention \in Nat
    /\ Stamps \subseteq Nat
    /\ MaxFaults \in Nat
    /\ MaxClaims \in Nat
ASSUME OutcomeAssumption == ExecutorOutcomes \subseteq Outcome
ASSUME WorkersAssumption == IsFiniteSet(Workers)
ASSUME ModeAssumption ==
    MayOverrun \in BOOLEAN /\ MayLoseAck \in BOOLEAN /\ StoreFaults \in BOOLEAN

VARIABLES
    operations,  \* operations table
    attempts,    \* operation_attempts table: outcomes in attempt_number order
    inputs,      \* temporary_inputs table, and whether the directory exists
    results,     \* operations with an operation_results row
    usage,       \* number of usage_events rows
    pc,          \* where each worker is
    job,         \* operation_id of the worker
    age,         \* time since the worker sampled now
    outcome,     \* the ExecutionOutcome passed to _finish
    inHandler,   \* is the worker in the except branch of process_one?
    seen,        \* what _finish has loaded
    own,         \* history: number of the attempt the worker's claim inserted
    billed,      \* history: executor calls that consumed provider usage
    faults,      \* history: faults so far
    acksLost     \* history: those of them that were lost acknowledgements

tables == <<operations, attempts, inputs, results, usage>>
locals == <<pc, job, age, outcome, inHandler, seen, own>>
history == <<billed, faults, acksLost>>
vars == <<tables, locals, history>>
-----------------------------------------------------------------------------
Max2(a, b) == IF a >= b THEN a ELSE b
Horizon == Max2(LeaseSeconds, RetryDelay)

(* Sensitivity variant: a delay counted past zero.                         *)
DelayPastZero(d, a) == d - a

(* d time units after a sample taken a units ago.                          *)
TimeLeft(d, a) == Max2(d - a, 0)
Elapse(t) == IF t = Null \/ t = 0 THEN t ELSE t - 1
(* Sensitivity variant: a delayed retry is never due.                      *)
NeverDelayed(t) == t = Null
Due(t) == t = Null \/ t = 0

(* Where the worker owns an attempt it has not recorded yet.               *)
Working == {"claimed", "loading", "executing", "finishing", "reading", "committing"}
Down == {"stopped", "exited"}
PCs == {"idle", "claiming", "deleting"} \union Working \union Down

TablesTypeOK ==
    /\ operations \in [Ops -> Row]
    /\ attempts \in [Ops -> Seq(AttemptOutcome)]
    /\ inputs \in [Ops -> [ttl : Nat, deleted : BOOLEAN, file : BOOLEAN]]
    /\ results \subseteq Ops
    /\ usage \in [Ops -> Nat]

LocalsTypeOK ==
    /\ pc \in [Workers -> PCs]
    /\ job \in [Workers -> Ops \union {Null}]
    /\ age \in [Workers -> Nat]
    /\ outcome \in [Workers -> Outcome \union {Null}]
    /\ inHandler \in [Workers -> BOOLEAN]
    /\ seen \in [Workers -> Snapshot]
    /\ own \in [Workers -> Nat]

HistoryTypeOK == billed \in [Ops -> Nat] /\ faults \in Nat /\ acksLost \in Nat

(* What a worker holds goes with where it is.                              *)
PhaseOK ==
    \A w \in Workers :
       /\ pc[w] \in Working \union {"claiming", "deleting"} <=> job[w] # Null
       /\ pc[w] \in {"finishing", "reading", "committing"} => outcome[w] # Null

TypeOK == TablesTypeOK /\ LocalsTypeOK /\ HistoryTypeOK /\ PhaseOK

NewRow(status, created) ==
    [status |-> status, lease |-> Null, next |-> Null, failure |-> Null, created |-> created]

Init ==
    /\ operations = [op \in Ops |-> NewRow("absent", 0)]
    /\ attempts = [op \in Ops |-> << >>]
    /\ inputs = [op \in Ops |-> [ttl |-> 0, deleted |-> FALSE, file |-> FALSE]]
    /\ results = {}
    /\ usage = [op \in Ops |-> 0]
    /\ pc = [w \in Workers |-> "idle"]
    /\ job = [w \in Workers |-> Null]
    /\ age = [w \in Workers |-> 0]
    /\ outcome = [w \in Workers |-> Null]
    /\ inHandler = [w \in Workers |-> FALSE]
    /\ seen = [w \in Workers |-> Unseen]
    /\ own = [w \in Workers |-> 0]
    /\ billed = [op \in Ops |-> 0]
    /\ faults = 0
    /\ acksLost = 0
-----------------------------------------------------------------------------
(* The API commits an accepted operation with its stored input             *)
(* (SubmissionService.submit).  created_at is sampled before the commit,   *)
(* so operations need not appear in its order.                             *)
Submit(op) ==
    /\ operations[op].status = "absent"
    /\ \E stamp \in Stamps :
          operations' = [operations EXCEPT ![op] = NewRow("accepted", stamp)]
    /\ inputs' = [inputs EXCEPT ![op] = [ttl |-> Retention, deleted |-> FALSE, file |-> TRUE]]
    /\ UNCHANGED <<attempts, results, usage, locals, history>>

(* The worker is in no operation any more: its locals go out of scope.     *)
Leave(w, where) ==
    /\ pc' = [pc EXCEPT ![w] = where]
    /\ job' = [job EXCEPT ![w] = Null]
    /\ age' = [age EXCEPT ![w] = 0]
    /\ outcome' = [outcome EXCEPT ![w] = Null]
    /\ inHandler' = [inHandler EXCEPT ![w] = FALSE]
    /\ seen' = [seen EXCEPT ![w] = Unseen]
    /\ own' = [own EXCEPT ![w] = 0]

Proceed(w, from, to) == pc[w] = from /\ pc' = [pc EXCEPT ![w] = to]

(* Sensitivity variant: a processing row is claimed whatever its lease.    *)
ClaimableAnyLease(row) == row.status \in {"accepted", "processing"} /\ Due(row.next)

(* Sensitivity variant: rows that ended are not filtered out.              *)
ClaimableAnyStatus(row) ==
    Due(row.next) /\ (row.status = "accepted" \/ (row.status # "absent" /\ Due(row.lease)))

(* claim_one.                                                              *)
Claimable(row) ==
    /\ row.status \in {"accepted", "processing"}
    /\ Due(row.next)
    /\ row.status = "accepted" \/ row.lease = 0

Locked(op) == \E w \in Workers : pc[w] = "claiming" /\ job[w] = op

(* SELECT ... ORDER BY created_at FOR UPDATE SKIP LOCKED LIMIT 1.  The     *)
(* input row that the query asks for is committed with the operation.      *)
ClaimSelect(w, op) ==
    /\ Proceed(w, "idle", "claiming")
    /\ Claimable(operations[op]) /\ ~Locked(op)
    /\ \A other \in Ops :
          Claimable(operations[other]) /\ ~Locked(other)
             => operations[op].created <= operations[other].created
    /\ Len(attempts[op]) < MaxClaims
    /\ job' = [job EXCEPT ![w] = op]
    /\ age' = [age EXCEPT ![w] = 0]
    /\ UNCHANGED <<tables, outcome, inHandler, seen, own, history>>

(* Sensitivity variant: the row keeps its status.                          *)
ClaimedRowUnmarked(row, a) == [row EXCEPT !.lease = TimeLeft(LeaseSeconds, a), !.next = Null]

ClaimedRow(row, a) ==
    [row EXCEPT !.status = "processing", !.lease = TimeLeft(LeaseSeconds, a), !.next = Null]

ClaimCommit(w) ==
    LET op == job[w] IN
    /\ Proceed(w, "claiming", "claimed")
    /\ operations' = [operations EXCEPT ![op] = ClaimedRow(@, age[w])]
    /\ attempts' = [attempts EXCEPT ![op] = Append(@, "processing")]
    /\ own' = [own EXCEPT ![w] = Len(attempts[op]) + 1]
    /\ UNCHANGED <<inputs, results, usage, job, age, outcome, inHandler, seen, history>>
-----------------------------------------------------------------------------
(* The except branch of process_one: a failure outcome of the worker's own *)
(* is finished instead; an exception of that second _finish is not caught  *)
(* by run and ends the process.                                            *)
Failure(code, retryable) ==
    [kind |-> "failure", code |-> code, retryable |-> retryable,
     result |-> FALSE, usage |-> FALSE]

Handle(w, code) ==
    /\ pc' = [pc EXCEPT ![w] = "finishing"]
    /\ outcome' = [outcome EXCEPT ![w] = Failure(code, code = "internal_error")]
    /\ inHandler' = [inHandler EXCEPT ![w] = TRUE]
    /\ seen' = [seen EXCEPT ![w] = Unseen]

Raise(w, code) ==
    IF inHandler[w]
    THEN Leave(w, "exited")
    ELSE Handle(w, code) /\ UNCHANGED <<job, age, own>>

(* process_one samples now and reads the temporary input row.              *)
CheckInput(w) ==
    LET input == inputs[job[w]] IN
    /\ pc[w] = "claimed"
    /\ age' = [age EXCEPT ![w] = 0]
    /\ \/ /\ ~input.deleted /\ input.ttl > 0
          /\ Proceed(w, "claimed", "loading")
          /\ UNCHANGED <<outcome, inHandler, seen>>
       \/ /\ input.deleted \/ input.ttl = 0
          /\ Handle(w, "missing_temporary_input")
    /\ UNCHANGED <<tables, job, own, history>>

(* Sensitivity variant: the directory is removed once it is loaded.        *)
LoadAndRemove(w) ==
    /\ Proceed(w, "loading", "executing")
    /\ inputs[job[w]].file
    /\ inputs' = [inputs EXCEPT ![job[w]].file = FALSE]
    /\ UNCHANGED <<operations, attempts, results, usage, job, age, outcome, inHandler, seen,
                   own, history>>

LoadDocument(w) ==
    /\ pc[w] = "loading"
    /\ \/ /\ inputs[job[w]].file
          /\ Proceed(w, "loading", "executing")
          /\ UNCHANGED <<outcome, inHandler, seen>>
       \/ /\ ~inputs[job[w]].file
          /\ Handle(w, "missing_temporary_input")
    /\ UNCHANGED <<tables, job, age, own, history>>

(* executor.execute returns; a success without a result is a failure.      *)
Checked(out) ==
    IF out.kind = "success" /\ ~out.result
    THEN Failure("structured_output_invalid", FALSE)
    ELSE out

ExecuteReturns(w, out) ==
    /\ Proceed(w, "executing", "finishing")
    /\ outcome' = [outcome EXCEPT ![w] = Checked(out)]
    /\ billed' = [billed EXCEPT ![job[w]] = @ + (IF out.usage THEN 1 ELSE 0)]
    /\ UNCHANGED <<tables, job, age, inHandler, seen, own, faults, acksLost>>

Execute(w) == \E out \in ExecutorOutcomes : ExecuteReturns(w, out)

(* The store or the executor raises something else.                        *)
ExecuteRaises(w) ==
    /\ pc[w] \in {"loading", "executing"}
    /\ Handle(w, "internal_error")
    /\ UNCHANGED <<tables, job, age, own, history>>
-----------------------------------------------------------------------------
(* _finish.  It reads the row without a lock ...                           *)
LoadRow(s, row) ==
    [s EXCEPT !.status = row.status, !.leased = row.lease # Null, !.failure = row.failure]

ReadOperation(w) ==
    /\ Proceed(w, "finishing", "reading")
    /\ seen' = [seen EXCEPT ![w] = LoadRow(@, operations[job[w]])]
    /\ UNCHANGED <<tables, job, age, outcome, inHandler, own, history>>

LoadAttempt(s, n, input) == [s EXCEPT !.attempt = n, !.inputLive = ~input.deleted]

OpenAttempts(op) == {n \in DOMAIN attempts[op] : attempts[op][n] = "processing"}

(* Sensitivity variant: the latest open attempt is taken.                  *)
ReadLatestAttempt(w) ==
    /\ Proceed(w, "reading", "committing")
    /\ \E n \in OpenAttempts(job[w]) :
          /\ \A m \in OpenAttempts(job[w]) : m <= n
          /\ seen' = [seen EXCEPT ![w] = LoadAttempt(@, n, inputs[job[w]])]
    /\ UNCHANGED <<tables, job, age, outcome, inHandler, own, history>>

(* ... then the one attempt that is open, and the input row ...            *)
ReadAttempt(w) ==
    /\ Proceed(w, "reading", "committing")
    /\ \E n \in OpenAttempts(job[w]) :
          /\ OpenAttempts(job[w]) = {n}
          /\ seen' = [seen EXCEPT ![w] = LoadAttempt(@, n, inputs[job[w]])]
    /\ UNCHANGED <<tables, job, age, outcome, inHandler, own, history>>

(* ... where scalar_one raises unless there is exactly one.                *)
NoSingleAttempt(w) ==
    /\ pc[w] = "reading"
    /\ \A n \in OpenAttempts(job[w]) : OpenAttempts(job[w]) # {n}
    /\ Raise(w, "internal_error")
    /\ UNCHANGED <<tables, history>>

(* Sensitivity variant: one attempt too many.                              *)
StatusOffByOne(out, n) ==
    CASE out.kind = "success" -> "succeeded"
      [] out.kind = "failure" /\ out.retryable /\ n <= MaxAttempts -> "accepted"
      [] OTHER -> "failed"

(* Sensitivity variant: success and final failure swapped.                 *)
StatusSwapped(out, n) ==
    CASE out.kind = "failure" /\ out.retryable ->
             IF n < MaxAttempts THEN "accepted" ELSE "failed"
      [] OTHER -> "succeeded"

StatusAfter(out, n) ==
    CASE out.kind = "success" -> "succeeded"
      [] out.kind = "failure" /\ out.retryable /\ n < MaxAttempts -> "accepted"
      [] OTHER -> "failed"

(* The unit of work writes a column only when its value differs from the   *)
(* one loaded, whatever the row holds by then.                             *)
Written(loaded, new, current) == IF new = loaded THEN current ELSE new

(* Sensitivity variant: the lease is cleared whatever was loaded.          *)
LeaseCleared(row, s) == Null

LeaseAfter(row, s) == IF s.leased THEN Null ELSE row.lease

(* Sensitivity variant: the first failure_code is kept.                    *)
FirstFailure(row, s, out) ==
    IF s.failure = Null /\ out.kind = "failure" THEN out.code ELSE row.failure

FailureAfter(row, s, out) ==
    IF out.kind = "success" THEN row.failure ELSE Written(s.failure, out.code, row.failure)

FinishedRow(row, s, out, a) ==
    LET status == StatusAfter(out, s.attempt) IN
    [row EXCEPT !.status = Written(s.status, status, row.status),
                !.lease = LeaseAfter(row, s),
                !.failure = FailureAfter(row, s, out),
                !.next = IF status = "accepted" THEN TimeLeft(RetryDelay, a) ELSE row.next]

(* Sensitivity variant: only a success gives the input up.                 *)
EndsOnSuccess(out, n) == out.kind = "success"

(* Sensitivity variant: every outcome gives the input up.                  *)
EndsAlways(out, n) == TRUE

(* A terminal outcome gives the temporary input up.                        *)
Ends(out, n) == StatusAfter(out, n) \in Terminal

(* Sensitivity variant: events of successes only.                          *)
UsageEventOnSuccess(out) == IF out.usage /\ out.kind = "success" THEN 1 ELSE 0

UsageEvents(out) == IF out.usage THEN 1 ELSE 0

(* Sensitivity variant: a retryable failure leaves its attempt open.       *)
AttemptResultOpen(out) ==
    IF out.kind = "success" THEN "succeeded"
    ELSE IF out.retryable THEN "processing" ELSE out.code

AttemptResult(out) == IF out.kind = "success" THEN "succeeded" ELSE out.code

(* Sensitivity variant: no unique key on results.                          *)
NoDuplicateResult(w) == FALSE

DuplicateResult(w) == outcome[w].kind = "success" /\ job[w] \in results

(* ... and flushes and commits, once no claim holds the row lock.          *)
Releases(w) == Ends(outcome[w], seen[w].attempt) /\ seen[w].inputLive

FinishWrites(w) ==
    LET op == job[w]
        out == outcome[w]
        s == seen[w]
    IN
    /\ pc[w] = "committing" /\ ~Locked(op) /\ ~DuplicateResult(w)
    /\ operations' = [operations EXCEPT ![op] = FinishedRow(@, s, out, age[w])]
    /\ attempts' = [attempts EXCEPT ![op][s.attempt] = AttemptResult(out)]
    /\ results' = results \union (IF out.kind = "success" THEN {op} ELSE {})
    /\ usage' = [usage EXCEPT ![op] = @ + UsageEvents(out)]
    /\ inputs' = [inputs EXCEPT ![op].deleted = @ \/ Releases(w)]

FinishCommit(w) ==
    /\ FinishWrites(w)
    /\ \/ /\ Releases(w)
          /\ Proceed(w, "committing", "deleting")
          /\ UNCHANGED <<job, age, outcome, inHandler, seen, own>>
       \/ /\ ~Releases(w)
          /\ Leave(w, "idle")
    /\ UNCHANGED history

(* The unique key on operation_results.operation_id rolls the whole        *)
(* transaction back.                                                       *)
FinishConflict(w) ==
    /\ pc[w] = "committing" /\ ~Locked(job[w]) /\ DuplicateResult(w)
    /\ Raise(w, "internal_error")
    /\ UNCHANGED <<tables, history>>

(* After the commit the directory goes; a failure is logged and forgotten. *)
DeleteInput(w) ==
    /\ pc[w] = "deleting"
    /\ inputs' = [inputs EXCEPT ![job[w]].file = FALSE]
    /\ Leave(w, "idle")
    /\ UNCHANGED <<operations, attempts, results, usage, history>>

DeleteFails(w) ==
    /\ StoreFaults
    /\ pc[w] = "deleting"
    /\ Leave(w, "idle")
    /\ UNCHANGED <<tables, history>>
-----------------------------------------------------------------------------
Fault ==
    /\ faults < MaxFaults
    /\ faults' = faults + 1
    /\ UNCHANGED billed

(* A process is killed; PostgreSQL rolls its open transaction back.        *)
Crash(w) ==
    /\ Fault
    /\ pc[w] \notin Down
    /\ Leave(w, "stopped")
    /\ UNCHANGED <<tables, acksLost>>

(* A query or a commit fails.  Nothing catches it around claim_one.        *)
DatabaseFails(w) ==
    /\ Fault
    /\ \/ /\ pc[w] \in {"idle", "claiming"}
          /\ Leave(w, "exited")
       \/ /\ pc[w] = "claimed"
          /\ Handle(w, "internal_error")
          /\ age' = [age EXCEPT ![w] = 0]
          /\ UNCHANGED <<job, own>>
       \/ /\ pc[w] \in {"finishing", "reading", "committing"}
          /\ Raise(w, "internal_error")
    /\ UNCHANGED <<tables, acksLost>>

(* Sensitivity variant: the outcome is finished again.                     *)
FinishAgain(w) ==
    /\ MayLoseAck
    /\ Fault
    /\ FinishWrites(w)
    /\ pc' = [pc EXCEPT ![w] = "finishing"]
    /\ acksLost' = acksLost + 1
    /\ UNCHANGED <<job, age, outcome, inHandler, seen, own>>

(* _finish commits and the connection breaks before PostgreSQL says so:    *)
(* the worker takes it for an exception and keeps the directory.           *)
FinishUnacknowledged(w) ==
    /\ MayLoseAck
    /\ Fault
    /\ FinishWrites(w)
    /\ Raise(w, "internal_error")
    /\ acksLost' = acksLost + 1

(* The container is started again (restart: unless-stopped).               *)
Restart(w) ==
    /\ pc[w] \in Down
    /\ Leave(w, "idle")
    /\ UNCHANGED <<tables, history>>

(* Without MayOverrun an attempt, from the sample of its claim to the      *)
(* commit of its outcome, takes less time than its lease.                  *)
InTime(w) ==
    /\ pc[w] = "claiming" => age[w] + 1 < LeaseSeconds
    /\ pc[w] \in Working => operations[job[w]].lease \notin {0, 1}

Older(row) == [row EXCEPT !.lease = Elapse(row.lease), !.next = Elapse(row.next)]

Tick ==
    /\ ~MayOverrun => \A w \in Workers : InTime(w)
    /\ operations' = [op \in Ops |-> Older(operations[op])]
    /\ inputs' = [op \in Ops |-> [inputs[op] EXCEPT !.ttl = Elapse(inputs[op].ttl)]]
    /\ age' = [w \in Workers |-> IF job[w] # Null /\ age[w] < Horizon THEN age[w] + 1 ELSE age[w]]
    /\ UNCHANGED <<attempts, results, usage, pc, job, outcome, inHandler, seen, own, history>>
-----------------------------------------------------------------------------
Finish(w) == ReadOperation(w) \/ ReadAttempt(w) \/ NoSingleAttempt(w)
             \/ FinishCommit(w) \/ FinishConflict(w)

WorkerStep(w) ==
    \/ \E op \in Ops : ClaimSelect(w, op)
    \/ ClaimCommit(w)
    \/ CheckInput(w)
    \/ LoadDocument(w)
    \/ Execute(w)
    \/ ExecuteRaises(w)
    \/ Finish(w)
    \/ DeleteInput(w)
    \/ DeleteFails(w)
    \/ Restart(w)

Next ==
    \/ \E op \in Ops : Submit(op)
    \/ \E w \in Workers : WorkerStep(w)
    \/ \E w \in Workers : Crash(w) \/ DatabaseFails(w) \/ FinishUnacknowledged(w)
    \/ Tick

Spec == Init /\ [][Next]_vars

(* A worker that can step does, the container runtime restarts it, and     *)
(* time passes; no submission and no fault need happen.                    *)
FairSpec == Spec /\ WF_vars(Tick) /\ \A w \in Workers : WF_vars(WorkerStep(w))
-----------------------------------------------------------------------------
(* Hold whatever the timing and whatever fails.                            *)

(* A client that polls a succeeded operation finds its result: the status  *)
(* is never written without the operation_results row (_finish), not even  *)
(* by a worker that flushes a stale row.                                   *)
SucceededHasResult ==
    \A op \in Ops : operations[op].status = "succeeded" => op \in results

(* An operation that ended has marked its temporary input deleted; no path *)
(* through _finish ends one and leaves the original in use.                *)
TerminalReleasesInput ==
    \A op \in Ops : operations[op].status \in Terminal => inputs[op].deleted

(* The directory of an input goes only after the commit that marks the     *)
(* input deleted, so a crash between the two cannot lose a document that a *)
(* retry still needs.                                                      *)
DirectoryOutlivesMark ==
    \A op \in Ops : operations[op].status # "absent" /\ ~inputs[op].deleted => inputs[op].file

(* Every usage event stands for one executor call that used the provider:  *)
(* neither two workers on one operation nor a second _finish, after a      *)
(* commit that only seemed to fail, records the usage of a call twice.     *)
InHand(op) == {w \in Workers : /\ pc[w] \in {"finishing", "reading", "committing"}
                               /\ job[w] = op
                               /\ outcome[w].usage}
UsageNotFabricated == \A op \in Ops : usage[op] + Cardinality(InHand(op)) <= billed[op]

-----------------------------------------------------------------------------
(* Hold whatever the timing and whatever fails, unless a commit of _finish *)
(* loses its acknowledgement: the worker that took it for a failure may    *)
(* close the attempt of a worker that claimed the operation meanwhile.     *)
Acknowledged == acksLost = 0

(* A processing operation can be claimed again once its lease runs out:    *)
(* with lease_expires_at NULL the query of claim_one would never see it.   *)
ProcessingIsReclaimable ==
    Acknowledged =>
       \A op \in Ops : operations[op].status = "processing" => operations[op].lease # Null

(* The outcome and the usage of an executor call are recorded on the       *)
(* attempt that made the call, although _finish looks the attempt up anew  *)
(* and another worker may have opened one since.                           *)
OutcomeOnOwnAttempt ==
    Acknowledged => \A w \in Workers : pc[w] = "committing" => seen[w].attempt = own[w]

(* The one result of an operation is that of its one succeeded attempt.    *)
Successes(op) == {n \in DOMAIN attempts[op] : attempts[op][n] = "succeeded"}
ResultOfOneAttempt ==
    Acknowledged => \A op \in Ops : Cardinality(Successes(op)) = IF op \in results THEN 1 ELSE 0
-----------------------------------------------------------------------------
(* Hold when no attempt outlives its lease and no acknowledgement is lost, *)
(* crashes and other failures included.                                    *)

(* The lease is a lock: two live workers are never in attempts of the same *)
(* operation (claim_one).                                                  *)
ExclusiveLease ==
    \A v, w \in Workers : v # w /\ pc[v] \in Working /\ pc[w] \in Working => job[v] # job[w]

(* succeeded and failed are final (ALLOWED_TRANSITIONS): a worker that     *)
(* recovers an operation never reopens one that another has ended.         *)
TerminalIsFinal ==
    [][\A op \in Ops : operations[op].status \in Terminal
          => operations'[op].status = operations[op].status]_vars

(* Whenever no worker is in an operation, the failure_code of its row, the *)
(* one a client sees, is that of its last attempt, and only a succeeded    *)
(* one may keep a code from an earlier attempt.                            *)
FailureMatchesHistory ==
    \A op \in Ops :
       /\ operations[op].status \in {"accepted", "failed"} /\ attempts[op] # << >>
            => operations[op].failure = attempts[op][Len(attempts[op])]
       /\ operations[op].status = "succeeded" => attempts[op][Len(attempts[op])] = "succeeded"

(* The original stays as long as an attempt may need it: a retryable       *)
(* failure never gives the input up (_finish).                             *)
InputKeptForRetry ==
    \A op \in Ops : operations[op].status \in {"accepted", "processing"}
                       => ~inputs[op].deleted /\ inputs[op].file

(* The worker gives clients the life of an operation that                  *)
(* OperationLifecycle promises.                                            *)
Lifecycle == INSTANCE OperationLifecycle WITH
    life <- [op \in Ops |-> operations[op].status],
    delivered <- results,
    held <- {op \in Ops : operations[op].status # "absent" /\ ~inputs[op].deleted}

ImplementsLifecycle == Lifecycle!Spec
-----------------------------------------------------------------------------
(* Hold when, besides, nothing fails.                                      *)

(* An operation never has more than max_attempts attempts.                 *)
AttemptsWithinBudget == \A op \in Ops : Len(attempts[op]) <= MaxAttempts

(* All the usage the provider charged for is recorded or about to be.      *)
UsageConserved == \A op \in Ops : usage[op] + Cardinality(InHand(op)) = billed[op]

(* A worker that has an attempt to record finds it, and finds it alone.    *)
AttemptIsClosable ==
    \A w \in Workers : pc[w] = "reading" => Cardinality(OpenAttempts(job[w])) = 1

(* An accepted operation ends, whatever the executor answers.              *)
EventuallyTerminal ==
    \A op \in Ops : operations[op].status = "accepted" ~> operations[op].status \in Terminal

(* The temporary original of an operation that ended is removed.           *)
OriginalEventuallyRemoved ==
    \A op \in Ops : operations[op].status \in Terminal ~> ~inputs[op].file
=============================================================================
