# Formal models of the Doxary backend

The backend accepts a document over HTTP, stores it for a while, lets polling
workers have it analysed by an AI provider, and serves the outcome to a client
that polls. This directory holds TLA+ modules that model it, TLC configurations
that check them on small instances, and proofs that TLAPS checks for all values
of the constants. Paths below are relative to `src/`.

## 1. Inventory

| component | state it keeps | operations | interacts with |
|---|---|---|---|
| intake API, `app/intake/api.py` | none | validate a multipart submission, answer it | calls the submission |
| submission, `app/intake/application/submission.py` | rows of `operations`, `idempotency_records`, `temporary_inputs` | `submit` | database; store; compensates the store when the database fails |
| temporary store, `app/intake/infrastructure/local_store.py` | a directory per operation: files, and a manifest written last | `store`, `load`, `delete`, `delete_expired` | a volume that API and worker processes share, without locks |
| analysis worker, `app/worker/runtime.py` | leases and retry times on `operations`; `operation_attempts`, `operation_results`, `usage_events`; `deleted_at` of inputs | `claim_one`, `process_one`, `_finish`, `run` | database row locks; store; executor, outside any transaction |
| provider executor, `app/ai/openai_provider.py` | files uploaded to the provider | `execute` | the provider; called by the worker |
| status query, `app/operations/application/status.py` | none | `get` | reads operation and result in two statements |
| operation domain, `app/operations/domain/operation.py` | none: a table of transitions | `transition_to` | called by nothing in the running program |
| result contracts, `app/analysis/contracts.py` | none | validate a result, dump it | executor before it is stored; status query after it is read |
| error handlers, `app/core/errors/` | none | exception to answer; bound of a diagnostic | every request; executor and worker |
| repositories, usage ledger, settings, logging, request ids, health, migrations | none of their own | plumbing | |

How the parts run: API processes are gunicorn sync workers, one request at a
time each; worker processes poll; a container runtime restarts what dies
(`restart: unless-stopped`). All share one PostgreSQL at READ COMMITTED and one
volume. There are no messages and no threads: the parts meet in rows and files.

What is hard:

* **Leases that run out.** A claim is a row lock for a moment and a lease for
  minutes. Nothing renews a lease and `_finish` compares neither `worker_id` nor
  `status`, so a slow worker and the one that took over write the same rows.
* **Stale unit of work.** `_finish` reads without locks; SQLAlchemy then writes
  only the columns that differ from what was *read*, over whatever is there by
  then.
* **Crashes between steps**: after the claim, after the provider answered, after
  the commit but before the directory goes, between storing files and committing.
* **Two stores without a transaction across them**: rows and directories.
* **Races on a key**: two requests with one `Idempotency-Key` both miss it.
* **A commit whose acknowledgement is lost**, in the submission and in `_finish`: the
  except branch of both takes it for a failure.
* **Unlocked directory walks** by `delete_expired` beside `store` and `delete`.
* **Retry boundaries**: which failures are retried, how often, from when.
* **Data that is validated in one form and read in another**: an answer of the
  model is normalised, validated, dumped, and validated again at each read; a
  document is checked part by part and stands for its fingerprint ever after.

What makes each part right:

| part | it is right when |
|---|---|
| intake API | it admits exactly what the contract allows, and every page is one file |
| submission | a key creates one operation; every answer fits the document sent; files exist exactly for operations that need them |
| store | a store under way loses nothing; a sweep misses nothing; only faults leave orphans |
| worker | the lease excludes; outcomes land on the attempt that made them; one result per success; ends are final; inputs last as long as a retry needs them and no longer; usage is neither invented nor lost; every operation ends |
| executor | errors are classified and only transient ones retried; uploads are deleted; usage of every response survives; it rejects no documented answer, and accepts no other but in the lax forms of section 5 |
| status query | what a client is told exists, and stays true |

`PROJECT.json` lists each hazard at its line with the properties about it.

## 2. Modules

| module | models | extends / instantiates |
|---|---|---|
| `OperationLifecycle` | abstract: what a client relies on in an operation's life | |
| `AnalysisWorker` | `worker/runtime.py`, statement by statement | `INSTANCE OperationLifecycle` |
| `AnalysisExecution` | `execute` of the OpenAI adapter inside the workers | extends `AnalysisWorker`, which it implements |
| `OperationStatus` | polling clients beside the workers | extends `AnalysisWorker` |
| `Backend` | workers, the executor in each of them, and polling clients together | extends `AnalysisExecution` and `OperationStatus`, both of which it implements |
| `IdempotentIntake` | abstract: what `docs/API_CONTRACT.md` promises of a key | |
| `Submission` | `SubmissionService.submit` in several API processes | `INSTANCE IdempotentIntake` |
| `Intake` | the multipart validation and the fingerprint, in front of the submission | extends `Submission`, which it implements |
| `AnalysisTransport` | one answer of the model through normalisation, validation, storage and reading | |
| `TemporaryStore` | the local store, system call by system call | |
| `MC*` | values of constants for TLC | the module they are named after |
| `*Proofs` | theorems | the module they are named after |

Definitions marked *Sensitivity variant* are plausible bugs: put in the place of
the definition that follows, each makes TLC find a violation of a named property
(the pairs are in `PROJECT.json` under `mutants`). No specification uses them.

### AnalysisWorker

State. `operations`, `attempts`, `inputs`, `results`, `usage` are the tables,
reduced to the columns something depends on. `worker_id`, `claimed_at` and
`lease_expires_at` are always written together and are one field, `lease`.
Timestamps are kept as the time left until them, and `now` of a worker as the
time since it was sampled, so that the state space is finite and `Tick` is the
only clock. `pc`, `job`, `age`, `outcome`, `inHandler` and `seen` are locals of
a worker; `own`, `billed`, `faults`, `acksLost` are history.

| action | code |
|---|---|
| `Submit` | what the submission commits |
| `ClaimSelect`, `ClaimCommit` | `claim_one`: the locking query (oldest first, `SKIP LOCKED`), then the update and the attempt |
| `CheckInput`, `LoadDocument` | the checks of `process_one`, database then volume |
| `Execute`, `ExecuteRaises` | the executor, as the set of outcomes it may return; a success without a result becomes a failure |
| `ReadOperation`, `ReadAttempt`, `NoSingleAttempt` | the reads of `_finish`; `scalar_one` raises unless one attempt is open |
| `FinishCommit`, `FinishConflict` | its flush and commit; the unique key on results |
| `DeleteInput`, `DeleteFails` | the removal of the directory after the commit |
| `Handle`, `Raise` | the except branch: a second `_finish`, whose own exception ends the process |
| `FinishUnacknowledged` | a commit of `_finish` that PostgreSQL makes and the worker takes for an exception: the second `_finish` finds no open attempt, or that of another worker |
| `Crash`, `DatabaseFails`, `Restart` | a kill, a failed query or commit, the container runtime |

A step is what lies between two points where another process can intervene, so
the reads of `_finish` are steps of their own and `FinishCommit` applies the
column-by-column write (`Written`) to the row as it is by then.

Choices worth knowing. `Submit` gives an input its full retention, and one
submission is one step: what precedes it is `Submission`. `LoadDocument` is one
step because a directory that is removed under it raises `FileNotFoundError`,
the branch of a missing one. A directory removed partially at the same time
behaves the same. Branches that foreign keys rule out (no input row for an
operation) are left out.

### AnalysisExecution

Each worker in `executing` has a call: whether its upload is at the provider and
what it will return. `UploadReturns`/`UploadRaises`, `ResponseReturns`/
`ResponseRaises`, `CleanUp` (the `finally` branch) and `Return` are its steps.
Any other step of the workers, faults and the clock goes on beside it
(`Beside`), except that a worker inside `execute` can only be killed. An
exception is the set of words its class name contains, which is all that
`_failure_code` looks at. Whether an output validates is a free choice here, and
the subject of `AnalysisTransport`. `pdf`
(which operations are PDFs) is chosen at the start.

### OperationStatus

`PollOperation` reads the row and answers unless it succeeded; `PollResult` reads
the result. A result takes the `expires_at` of its input, so one counter serves
both. Nothing marks a result deleted. Whether what is stored validates when it
is read is the subject of `AnalysisTransport`; here it does.

### Backend

The three kinds of process that meet in the database behind the intake. A step is
one of a worker, of an executor call or of the provider (`ExecutionNext`), or
one of a client's poll; `BackendComposes` proves that each side is what its own
module says, so the theorems of both hold of the whole.

### Submission

A request stands for the operation id it draws. Lookup, directory, files,
commit, answer and compensation are steps. `Commit` needs the key free (the
unique key decides the race, not the lookup); `CommitConflict`, `CommitFails` and
`AckLost` all reach the except branch, which cannot tell them apart. The worker
appears as two actions that end an operation and remove its directory.

### Intake

`SubmissionChecks` and `FileChecks` are the checks of `submit_document_analysis`
and `_validate_files` in the order they are made, each with the code it answers.
A submission that fails none is `Admissible`; `Refusal` is the code of the first
that fails otherwise. `Total`, what was read of the files so far, is at most the
body they are parts of (`UploadAssumption`). `Admit` makes the document and its
`Fingerprint` and hands them to `Submission`, whose actions are `Serve`. A file
is its content, size and the media type of its signature; a text field is valid or not.
`Valid` and `Document`, which the properties compare with, are written from
`docs/API_CONTRACT.md:33` and not from the checks.

### AnalysisTransport

An answer is no JSON, JSON but no object, or an object whose values are the forms
that decide what becomes of them: a plain date, a datetime at naive or UTC
midnight, at midnight with another offset, at another hour, a number; an
offset-free time, one with a timezone that `time.fromisoformat` reads or only
pydantic does; a number that is too precise; a currency whose upper case is
longer. `Parse` normalises and validates it, and makes either a result or a
diagnostic; `Store` and `Fail` are what `_finish` keeps of them; `Read`
validates the stored dump again. `Valid` is the contract alone, with the lax dates
and times of pydantic. `Documented`, which the properties compare with, is written
from `docs/AI_ARCHITECTURE.md:24-28` and the descriptions in the transport
schema; its parameter are the forms let pass beside those, of which `LaxForms`
names four. `Issues` is the set of places, entry and field, where the validation
finds an error: an answer is accepted if it is empty. The normalisation, the model
and the dump change each entry alone (`MapItems` of `NormalItem`, `ModelItem`,
`DumpItem`).

The diagnostic is modelled by its length. Each of the first six errors gets an
entry of any length (`EntryLengths`), since a location may quote a field name of
the model's. `Counted` is the sum by which the loop decides, `Kept` where the loop
ends, `Written` the text that is joined afterwards, and `Bound` the cut of
`bound_diagnostic`, which both the executor and the worker apply.

### TemporaryStore

The processes make directories, write files and at last the manifest, list,
unlink and remove directories; `rmtree` lists once, tolerates files that vanish
and raises when the directory does (as in Python 3.13; `pyproject.toml` allows 3.12
to 3.14). A manifest that is half
written does not parse, which `delete_expired` treats as missing.

## 3. What TLC checks

| run | instance | shows |
|---|---|---|
| `worker_any_timing` | 1 operation, 3 workers, leases of 1 tick that attempts may outlive, 3 attempts, 1 fault or lost acknowledgement, an executor that may forget its result | `SucceededHasResult`, `TerminalReleasesInput`, `DirectoryOutlivesMark`, `ProcessingIsReclaimable`, `UsageNotFabricated`, `OutcomeOnOwnAttempt`, `ResultOfOneAttempt`, and the types, hold however late a worker is; three of them only as long as no acknowledgement was lost (`Acknowledged`) |
| `backend_in_time` | 1 operation (PDF or images), 2 workers with executors, 1 client, five classes of error, 2 lapses of the provider, 2 faults, a store that may fail | while attempts end within their leases: `ExclusiveLease`, `TerminalIsFinal`, `FailureMatchesHistory`, `InputKeptForRetry`, the refinement `ImplementsLifecycle`; for the client `ResultIsNeverMissing`, `FailureToldIsLast`, `EndIsFinal`; for the executor `FilesReleased`, `UsageOfEveryResponse`, `OnlyTransientIsRetried`, the refinement `ImplementsWorker` |
| `worker_healthy` | 2 operations, 1 worker, no fault, fairness | `AttemptsWithinBudget`, `UsageConserved`, `AttemptIsClosable`, and the liveness properties `EventuallyTerminal`, `OriginalEventuallyRemoved` |
| `intake_any_fault` | 3 requests on 1 key, 4 valid submissions (two of them the same pages in another order of parts, one with the pages swapped) and 17 invalid ones of which at most one is sent, 1 fault or lost acknowledgement | `OneOperationPerKey`, `AdmittedIsValid`, `AnswersFitDocuments`, `AcceptedHasFiles`, `LeavesNothing`, the refinement `ImplementsIntake` |
| `transport_any_answer` | entries that vary in a field or two, in every three of the collections, and one answer with an error in each; entries of a diagnostic of 20, 21, 125 or 126 characters | `AcceptedIsDocumentedOrLax`, `DiagnosticWhole`, `DeliveredIsAnswered` |
| `store_shared` | 3 processes, 2 directories, 1 kill | `StoreUndisturbed`, `SweepIsThorough`, `OrphansOnlyByFaults` |

Distinct states, in the order of the table: 821 thousand, 550 thousand, 123
thousand, 1.14 million, 514 thousand (of 3 891 initial ones), 1.34 million.

Six runs are expected to end in a violation; each shows a disagreement between
the code and what the repository says of it (`findings` in `PROJECT.json`):

| run | what happens |
|---|---|
| `crash_spends_budget` | a crash after a claim gives an operation more attempts than `max_attempts`: `claim_one` never counts |
| `crash_blocks_finish` | the crashed worker's attempt stays `processing`; from then on `scalar_one` finds two, in the except branch too, the process exits and the operation can never end |
| `crash_keeps_original` | a crash between the commit and the removal leaves the original: nothing in the program looks for it (`delete_expired` has no caller outside a test) |
| `overrun_reopens` | a worker that outlived its lease writes over the status of an operation that another has ended |
| `ack_loss_drops_files` | a commit that succeeded but was not acknowledged is compensated: the accepted operation has no files |
| `replay_past_window` | nothing reads `expires_at` of an idempotency record, so keys are replayed for ever |

Bounds and why they are enough. `MaxClaims` exceeds `MaxAttempts` so that the
budget could be overrun; two workers are enough for a claim, a recovery and a
stale finish on one operation, three for a recovery of a recovery. Workers never
look at two operations at once, so one operation shows every interference on its
rows; `worker_healthy` has two for the order of claims. `LeaseSeconds`,
`RetryDelay` and `Retention` are a few ticks in different orders (delay longer
than a lease, retention running out between attempts). `MaxFaults` is one or two:
every property either survives any single fault or has a run that shows it does
not. Three requests on one key give a race, a replay and a conflict at
once. In the intake run `Retention` is 0, since the expiry of a key decides nothing there, and
`MaxRefused` lets one request in three be refused, since a refused one changes
nothing else. The entries of the transport run take each form of each field, alone
and beside others that fail. With `EntryLengths` six entries, or one alone, fill a
diagnostic to exactly 128 characters or exceed it by one.
`MaxLapses` counts files the provider keeps because one of its calls failed.
Symmetry is used on workers and on the processes and directories of the store, in runs
whose properties do not name a particular one; no run with a liveness property uses it.

Fairness. `FairSpec` asks that time passes and that a worker that can take a
step takes one: `run` is a loop that polls again after a wait, and the container
runtime restarts a worker that exits. No submission, fault or overrun is fair.
The liveness properties are stated for runs without faults, since
`crash_blocks_finish` and `crash_keeps_original` show that with one they fail.

A lost acknowledgement. When a commit of `_finish` seems to fail, the worker
finishes again. `SucceededHasResult`, `TerminalReleasesInput`,
`DirectoryOutlivesMark` and `UsageNotFabricated` survive it. `OutcomeOnOwnAttempt`
and `ResultOfOneAttempt` do not: after a retry was recorded, another worker may
have claimed the operation, and the second `_finish` closes that worker's attempt.
Nor does `ProcessingIsReclaimable`, which takes a second fault and a budget of four attempts to break.
They are therefore stated for runs without one, as are all that need attempts to end in time.

## 4. What TLAPS proves

For every value of the constants, from the named assumptions of each module: the
constants are distinct from `Null`, counts are naturals, outcomes are outcomes,
and there are finitely many workers. *In time* below means `~MayOverrun` and
`~MayLoseAck`: attempts end within their leases, and commits are acknowledged. Crashes
and failures are unbounded unless a theorem says `faults = 0`.

| theorem | statement | argument |
|---|---|---|
| `AnalysisWorkerProofs!TypeCorrect` | `[]TypeOK` | inductive as it stands, because it says what a worker holds where |
| `ResultPresentCorrect`, `ReleaseCorrect`, `DirectoryCorrect` | `SucceededHasResult`, `TerminalReleasesInput`, `DirectoryOutlivesMark`, any timing | `InputInv` adds that a worker that saw the input deleted, or deletes the directory, is right that it is: without it a stale `_finish` could leave an input undeleted |
| `UsageCorrect` | `UsageNotFabricated`, any timing | inductive, because it counts the outcomes in hand: a worker's step moves at most one from a call to a hand and from there to a row, and a second `_finish` after a lost acknowledgement holds an outcome without usage |
| `AttemptCorrect` | `OutcomeOnOwnAttempt` | `OwnInv`: unless an acknowledgement was lost, every worker inside an attempt owns one that is still open, and no two the same; so a single open attempt is one's own |
| `HistoryCorrect` | `[][HistoryStays]_vars`, any timing: until an acknowledgement is lost, no attempt disappears and no recorded outcome is written over | `OwnInv` again: the attempt that `_finish` closes is one's own, and open |
| `ResultCorrect` | `ResultOfOneAttempt` | `ResultInv`, from `OwnInv` and the unique key |
| `ReclaimCorrect` | `ProcessingIsReclaimable` | `LeaseInv`: what a worker loaded relates to the row, at most one worker can be between reading its attempt and committing, and a committed end is quiet |
| `AnalysisWorkerTimelyProofs!ExclusiveCorrect`, `InputKeptCorrect`, `FailureCorrect` | `ExclusiveLease`, `InputKeptForRetry`, `FailureMatchesHistory`, in time | `TimelyInv`: a worker in an attempt holds a lease that has not run out, and what it loaded is still current |
| `FinalCorrect`, `LifecycleCorrect` | `TerminalIsFinal`, `ImplementsLifecycle`, in time | each step maps to a step of `OperationLifecycle` or to a stutter |
| `AccountsCorrect` | `[](Accounts /\ NoFinishConflicts)`, in time: a result exists exactly if the operation succeeded, the original is in use exactly until it ended, and no `_finish` meets the unique key on results | inductive in `OperationLifecycle`, and inherited through the refinement; the key because a worker that commits holds an operation in `processing` |
| `RecordedCorrect` | `[]RecordedWithinBudget`, in time, whatever crashes: no attempt past `max_attempts` has an outcome, and an operation has at most `max_attempts` usage events (the attempts made have no such bound: `crash_spends_budget`) | `BlockInv`: while one attempt is open it is the last one, within the budget and without a usage event yet; with two open nobody is about to commit |
| `RecoveryCorrect`, `BlockedForever` | in time: a claim that recovers an operation from `processing` leaves two attempts open, and an operation with two open attempts is in `processing` for ever; so every crash inside an attempt ends as in `crash_blocks_finish` once the operation is claimed again | `BlockInv`, and that only a claim and a commit touch the attempts |
| `BudgetCorrect`, `ClosableCorrect` | `AttemptsWithinBudget`, `AttemptIsClosable`, in time and while `faults = 0` | `HealthyInv`: an operation in `processing` has a worker in its last attempt, the only open one; one that is `accepted` has attempts left; a result comes with `succeeded` |
| `UsageConservedCorrect` | `UsageConserved`, in time, while `faults = 0`, for executors that return a result with every success | the steps that drop an outcome in hand are faults, or a finish that finds no attempt or a result, which `HealthyInv` excludes |
| `AnalysisExecutionProofs!ExecutionCorrect` | `ImplementsWorker` | `CallInv`: a call only holds outcomes of `ProviderOutcomes`; with it everything proved of the worker carries over |
| `ExecutionTypeCorrect`, `FilesReleasedCorrect` | types; `FilesReleased` | `FilesInv` bounds the provider's files from both sides by the uploads under way; one kill ends at most one upload (`OnlyKilled`) |
| `RetryCorrect` | `OnlyTransientIsRetried`, in time | `ExecutionAnswers`: whatever else the worker would accept of an executor, it gets the answer of a call, which `CallInv` knows; `RetryInv`: a retryable outcome in hand is transient or internal; the last attempt is open while its operation is `processing`, and such an error when it is `accepted` again |
| `UsageOfEveryResponseCorrect` | `UsageOfEveryResponse`, in time | `UsageConserved`, whose condition on the executor `ExecutionAnswers` supplies step by step, and the answers not yet returned |
| `OperationStatusProofs!StatusTypeCorrect`, `ResultPresent`, `EndFinal`, `FailureTold` | types and `ResultIsNeverMissing` with any timing, `EndIsFinal` and `FailureToldIsLast` in time | polls disturb no worker; `MissingInv`, `EndInv`, `FailedInv` |
| `BackendProofs!BackendComposes`, `BackendTypeCorrect`, `BackendTellsTheEnd` | the composition implements both of its sides; types; what a client is told of an end, in time | each step of one side is a step or a stutter of the other's workers, so the theorems of both carry over |
| `BackendKeepsRecords`, `BackendInTime` | of the composition: every safety property of the workers and the executor that `worker_any_timing` and `backend_in_time` check, at any timing and in time | as above |
| `SubmissionProofs` | types, `OneOperationPerKey`, `AnswersAreTrue`, `AcceptedHasFiles`, `LeavesNothing`, `ImplementsIntake` | `BindInv`: records, operations and answers name each other; `FilesInv`: what a request in flight has on disk |
| `SubmissionProofs!IntakeServes`, `DocumentsCorrect` | the intake implements `Submission`; `AnswersFitDocuments` | equal fingerprints are of equal documents, whatever they consist of; `PrintInv`: what was asked is the fingerprint of what was sent |
| `PromisesKept` | `[][KeysStayBound /\ AnswersStay]_vars`: a key stays bound to its operation and input, an answer is never taken back | a property of `IdempotentIntake`, inherited through the refinement |
| `RepeatsCorrect` | `[]RepeatsAgree`: two accepted answers for one key name one operation and were given for one input | `BindInv` |
| `AdmissionCorrect` | `AdmittedIsValid` | `AdmissibleIsValid`: the checks pass a submission exactly if the contract does. Two of them need more than their definitions: as many indexes as files, all of `0..n-1` among them, are each index once (a surjection between sets of one size); and the sum over the files never exceeds the limit once the body has been checked, since the files are parts of it |
| `AnalysisTransportProofs!AcceptanceCorrect` | `AcceptedIsDocumentedOrLax` | `NothingWrong`: an entry has no issue exactly if its fields are valid, and normalisation does not change that; with the refusal of offsets, what is valid is what is documented and the lax forms; `Issues` is empty exactly if no entry has one |
| `DiagnosticCorrect` | `DiagnosticWhole` | `CountedIsWritten`: by steps up to six, the sum of the loop, with a separator in every entry but the first, is the length of the join, with one less than entries; `KeptIs`: the loop ends somewhere; so what is kept fits and the two bounds cut nothing |
| `DeliveryCorrect` | `DeliveredIsAnswered` | `PayloadKept`: the dump of a model validates unless a currency grew, and its model is the same again, entry by entry; `TransportInv`: the row is the dump of the model of what was answered |
| `TemporaryStoreProofs` | types, `StoreUndisturbed`, `SweepIsThorough`, `OrphansOnlyByFaults` | only the storing process is in an unfinished directory; what a sweep was to take and has not visited is still on its list; a process is listed at each directory that is not whole |

`backend_in_time` checks `ResultIsNeverMissing` in time only; the theorem covers
any timing. `AnswersAreTrue` is what `AnswersFitDocuments` rests on and is in no run,
nor are `HistoryStays`, `Accounts`, `NoFinishConflicts`, `KeysStayBound`, `AnswersStay`,
`RepeatsAgree`, `RecordedWithinBudget`, `RecoveryBlocks` and `Blocked`, which follow from the
invariants or the refinements that are, or say what a violation costs.

Every invariant, action property and refinement that a run checks is a theorem.
Model-checked only: the liveness properties `EventuallyTerminal` and
`OriginalEventuallyRemoved`, because liveness under fairness is out of the prover's
reach. The proofs about uploads and answers avoid induction over data by
construction: issues are a set, of which only the number enters the diagnostic; its
length has at most six summands; and that the files of a submission are no
larger than its body is an assumption on what a client sends, not computed.

## 5. Limits

* `UsageConserved` speaks of executors that return a result with every success;
  `Checked` drops the usage of any other (`runtime.py:149`). That the OpenAI
  adapter is one is proved (`UsageOfEveryResponseCorrect`), not assumed.
* A currency whose upper case is longer (`contracts.py:158`) passes the length
  check before it grows. `DeliveredIsAnswered` names that case: such a result is
  stored, and a reader is answered 500.
* `docs/AI_ARCHITECTURE.md:24-28`, the docstring of `_normalize_transport_values`
  and the descriptions in the schema want all but a plain date, or midnight naive
  or in UTC, and all but an offset-free time rejected, and an amount to be a JSON
  number. The code leaves the rejection to the contract, whose dates and times are
  pydantic's lax ones (`contracts.py:111-174`): it also accepts midnight with any
  offset, whose day becomes the date (`2026-09-30T00:00:00+02:00`), a number that
  is midnight as a timestamp, a time with a small `z` or a number of seconds, which
  become times with a timezone, and an amount as a decimal text.
  `AcceptedIsDocumentedOrLax` names these four forms; it shows that nothing else
  undocumented passes, and that the code and the documentation disagree on them.
* The fingerprint keeps files in the order of their parts: the same pages under
  the same key in another order are answered as a conflict. `AnswersFitDocuments`
  names that case.
* `Submission` has two actions for the worker, and `AnalysisWorker` one for the
  submission: the two are not composed, nor is the store with either. They meet in
  a commit and in the removal of a directory, which both sides have.
* `OperationLifecycle` lets `processing` go back to `accepted`, as
  `docs/OPERATIONS.md:19` says; the table in `operations/domain/operation.py`
  does not list it, and the worker never consults that table.
* Retry delays count from the start of an attempt, as in the code
  (`runtime.py:208`): the model has it, no property demands either reading.
* The statuses `partial`, `cancelled` and `expired` are written by nothing.

Not modelled, with the reason also in `PROJECT.json`: fields of a result that only
their type or a length limit constrains; the transport schema that is sent along,
prompts, pricing and the text of `_safe_failure_diagnostic`, which decide nothing the system
does; request ids and logging; settings, whose one consequence (leases shorter
than the provider's timeouts) is `MayOverrun`; health; identifiers; repositories and the usage
ledger, which only tests use; migrations.

## 6. Plan

Done, in this order: worker and lifecycle; submission and intake; status query;
store; executor; lost acknowledgements in `_finish`; validation of a submission;
the way of an answer through transport, storage and reading; the composition of
workers, executors and clients; theorems for every safety property that a run
checks. Next:

1. `Submission`, `AnalysisWorker` and `TemporaryStore` over one set of
   directories, with refinement mappings to each, so that the stand-ins for the
   worker in `Submission` and for the submission in `AnalysisWorker` are shown
   to be faithful.

Runs with related questions share a configuration: a new module brings one run
and takes over properties of a run that it extends.
