------------------------------ MODULE Submission ------------------------------
(***************************************************************************)
(* SubmissionService.submit (intake/application/submission.py) as several  *)
(* API processes run it: look the idempotency key up, store the files,     *)
(* insert operation, key and input in one transaction, and compensate by   *)
(* deleting the files when anything fails.                                 *)
(*                                                                         *)
(* Each request would create one operation, with a fresh opaque id that is *)
(* also the name of its directory: the request stands for that id.  A      *)
(* client that repeats itself after a 503 or a lost answer is another      *)
(* request with the same key and input.  A process serves one request at a *)
(* time, so killing the process loses one request.                         *)
(***************************************************************************)
EXTENDS Integers

CONSTANTS
    Requests,     \* HTTP requests, and the operation ids they draw
    Keys,         \* values of Idempotency-Key
    Prints,       \* request fingerprints: digests of the input
    Null,         \* Python None
    Retention,    \* temporary_input_retention_hours, in ticks
    MayLoseAck,   \* may a commit succeed and its acknowledgement be lost?
    StoreFaults,  \* may the store fail to delete files?
    MaxFaults     \* bound: processes killed, calls failed, acknowledgements lost

Input == [key : Keys, print : Prints]
Row == [op : Requests, print : Prints, ttl : 0..Retention]
Answers == [kind : {"accepted"}, op : Requests]
           \union [kind : {"conflict", "unavailable", "error"}, op : {Null}]

ASSUME NullAssumption ==
    Null \notin Requests \union Input \union Row \union Answers \union [op : Requests, print : Prints]
ASSUME BoundAssumption == Retention \in Nat /\ MaxFaults \in Nat
ASSUME ModeAssumption == MayLoseAck \in BOOLEAN /\ StoreFaults \in BOOLEAN

VARIABLES
    records,      \* idempotency_records table, by key
    operations,   \* operations table: "ended" stands for what the worker makes of it
    directories,  \* the directory of each operation id
    pc,           \* where each request is
    asked,        \* key_hash and fingerprint of each request
    answers,      \* HTTP answer of each request
    faults        \* history: faults so far

tables == <<records, operations>>
vars == <<tables, directories, pc, asked, answers, faults>>

InFlight == {"looking", "storing", "writing", "committing", "returning", "compensating"}

TypeOK ==
    /\ records \in [Keys -> Row \union {Null}]
    /\ operations \in [Requests -> {"absent", "accepted", "ended"}]
    /\ directories \in [Requests -> {"none", "partial", "whole"}]
    /\ pc \in [Requests -> {"new", "answered", "lost"} \union InFlight]
    /\ asked \in [Requests -> Input \union {Null}]
    /\ answers \in [Requests -> Answers \union {Null}]
    /\ faults \in Nat
    /\ \A r \in Requests : pc[r] # "new" <=> asked[r] # Null

Init ==
    /\ records = [k \in Keys |-> Null]
    /\ operations = [r \in Requests |-> "absent"]
    /\ directories = [r \in Requests |-> "none"]
    /\ pc = [r \in Requests |-> "new"]
    /\ asked = [r \in Requests |-> Null]
    /\ answers = [r \in Requests |-> Null]
    /\ faults = 0
-----------------------------------------------------------------------------
Proceed(r, from, to) == pc[r] = from /\ pc' = [pc EXCEPT ![r] = to]

(* The request leaves submit: with an operation, or with the error that    *)
(* the handlers of core/errors turn into an answer.                        *)
Reply(r, kind, op) ==
    /\ pc' = [pc EXCEPT ![r] = "answered"]
    /\ answers' = [answers EXCEPT ![r] = [kind |-> kind, op |-> op]]

Record(r) == records[asked[r].key]

(* The API has validated the submission and calls submit.                  *)
Receive(r) ==
    /\ Proceed(r, "new", "looking")
    /\ \E input \in Input : asked' = [asked EXCEPT ![r] = input]
    /\ UNCHANGED <<tables, directories, answers, faults>>

LookupMisses(r) ==
    /\ Proceed(r, "looking", "storing")
    /\ Record(r) = Null
    /\ UNCHANGED <<tables, directories, asked, answers, faults>>

SameInput(record, input) == record.print = input.print

(* expires_at of the record is not looked at.                              *)
Replay(r) ==
    /\ pc[r] = "looking"
    /\ Record(r) # Null /\ SameInput(Record(r), asked[r])
    /\ Reply(r, "accepted", Record(r).op)
    /\ UNCHANGED <<tables, directories, asked, faults>>

Conflict(r) ==
    /\ pc[r] = "looking"
    /\ Record(r) # Null /\ ~SameInput(Record(r), asked[r])
    /\ Reply(r, "conflict", Null)
    /\ UNCHANGED <<tables, directories, asked, faults>>
-----------------------------------------------------------------------------
(* store makes the directory, then writes the files and, last, the         *)
(* manifest.                                                               *)
MakeDirectory(r) ==
    /\ Proceed(r, "storing", "writing")
    /\ directories' = [directories EXCEPT ![r] = "partial"]
    /\ UNCHANGED <<tables, asked, answers, faults>>

WriteFiles(r) ==
    /\ Proceed(r, "writing", "committing")
    /\ directories' = [directories EXCEPT ![r] = "whole"]
    /\ UNCHANGED <<tables, asked, answers, faults>>

(* What a deletion that may fail leaves of a directory.                    *)
Deleted(was) == {"none"} \union (IF StoreFaults /\ was # "none" THEN {was, "partial"} ELSE {})

(* A write fails: store removes what it wrote, ignoring errors, and the    *)
(* caller has nothing to compensate yet.                                   *)
StoreFails(r) ==
    /\ pc[r] \in {"storing", "writing"}
    /\ \E left \in Deleted(directories[r]) :
          directories' = [directories EXCEPT ![r] = left]
    /\ Reply(r, "unavailable", Null)
    /\ UNCHANGED <<tables, asked, faults>>
-----------------------------------------------------------------------------
(* Operation, key and input become visible together.                       *)
Commits(r) ==
    /\ records' = [records EXCEPT ![asked[r].key] =
                      [op |-> r, print |-> asked[r].print, ttl |-> Retention]]
    /\ operations' = [operations EXCEPT ![r] = "accepted"]

(* Sensitivity variant: no unique key, so the last request wins.           *)
KeyAlwaysFree(r) == TRUE

KeyFree(r) == Record(r) = Null

(* Sensitivity variant: the transaction commits before the files are       *)
(* whole.                                                                  *)
CommitEarly(r) ==
    /\ pc[r] \in {"writing", "committing"}
    /\ pc' = [pc EXCEPT ![r] = "returning"]
    /\ KeyFree(r)
    /\ Commits(r)
    /\ UNCHANGED <<directories, asked, answers, faults>>

Commit(r) ==
    /\ Proceed(r, "committing", "returning")
    /\ KeyFree(r)
    /\ Commits(r)
    /\ UNCHANGED <<directories, asked, answers, faults>>

Return(r) ==
    /\ pc[r] = "returning"
    /\ Reply(r, "accepted", r)
    /\ UNCHANGED <<tables, directories, asked, faults>>

(* Another request with the key has committed since the lookup: the unique *)
(* key of idempotency_records rolls everything back.                       *)
CommitConflict(r) ==
    /\ Proceed(r, "committing", "compensating")
    /\ ~KeyFree(r)
    /\ UNCHANGED <<tables, directories, asked, answers, faults>>

(* Sensitivity variant: a failed commit is not compensated.                *)
CompensateNothing(r) ==
    /\ pc[r] = "compensating"
    /\ Reply(r, "unavailable", Null)
    /\ UNCHANGED <<tables, directories, asked, faults>>

Compensate(r) ==
    /\ pc[r] = "compensating"
    /\ directories' = [directories EXCEPT ![r] = "none"]
    /\ Reply(r, "unavailable", Null)
    /\ UNCHANGED <<tables, asked, faults>>

(* delete raises inside the except branch: the generic handler answers.    *)
CompensateFails(r) ==
    /\ StoreFaults
    /\ pc[r] = "compensating"
    /\ \E left \in Deleted(directories[r]) \ {"none"} :
          directories' = [directories EXCEPT ![r] = left]
    /\ Reply(r, "error", Null)
    /\ UNCHANGED <<tables, asked, faults>>
-----------------------------------------------------------------------------
Fault == faults < MaxFaults /\ faults' = faults + 1

(* The lookup fails outside the try: the generic handler answers.          *)
LookupFails(r) ==
    /\ Fault
    /\ pc[r] = "looking"
    /\ Reply(r, "error", Null)
    /\ UNCHANGED <<tables, directories, asked>>

CommitFails(r) ==
    /\ Fault
    /\ Proceed(r, "committing", "compensating")
    /\ UNCHANGED <<tables, directories, asked, answers>>

(* The database commits and the connection breaks before it says so.       *)
AckLost(r) ==
    /\ MayLoseAck
    /\ Fault
    /\ Proceed(r, "committing", "compensating")
    /\ KeyFree(r)
    /\ Commits(r)
    /\ UNCHANGED <<directories, asked, answers>>

(* The process is killed: PostgreSQL rolls back, the client gets no answer.*)
Crash(r) ==
    /\ Fault
    /\ pc[r] \in InFlight
    /\ pc' = [pc EXCEPT ![r] = "lost"]
    /\ UNCHANGED <<tables, directories, asked, answers>>

(* The worker records an outcome, and then removes the directory           *)
(* (module AnalysisWorker).                                                *)
WorkerEnds(r) ==
    /\ operations[r] = "accepted"
    /\ operations' = [operations EXCEPT ![r] = "ended"]
    /\ UNCHANGED <<records, directories, pc, asked, answers, faults>>

WorkerDeletes(r) ==
    /\ operations[r] = "ended" /\ directories[r] # "none"
    /\ directories' = [directories EXCEPT ![r] = "none"]
    /\ UNCHANGED <<tables, pc, asked, answers, faults>>

(* Sensitivity variant: a window counted past its end.                     *)
AgedPastEnd(record) ==
    IF record = Null THEN record ELSE [record EXCEPT !.ttl = @ - 1]

Aged(record) ==
    IF record = Null \/ record.ttl = 0 THEN record ELSE [record EXCEPT !.ttl = @ - 1]

Tick ==
    /\ records' = [k \in Keys |-> Aged(records[k])]
    /\ UNCHANGED <<operations, directories, pc, asked, answers, faults>>

Submit(r) ==
    \/ Receive(r) \/ LookupMisses(r) \/ Replay(r) \/ Conflict(r)
    \/ MakeDirectory(r) \/ WriteFiles(r) \/ StoreFails(r)
    \/ Commit(r) \/ Return(r) \/ CommitConflict(r) \/ Compensate(r) \/ CompensateFails(r)

Environment(r) ==
    LookupFails(r) \/ CommitFails(r) \/ AckLost(r) \/ Crash(r) \/ WorkerEnds(r) \/ WorkerDeletes(r)

Next == (\E r \in Requests : Submit(r) \/ Environment(r)) \/ Tick

Spec == Init /\ [][Next]_vars
-----------------------------------------------------------------------------
(* Hold whatever fails.                                                    *)

(* A client that repeats a submission never pays for two analyses: two     *)
(* requests with one key never both create an operation, even if both      *)
(* missed the key in their lookups (unique key on scope and key_hash).     *)
OneOperationPerKey ==
    \A r, s \in Requests :
       operations[r] # "absent" /\ operations[s] # "absent" /\ asked[r].key = asked[s].key => r = s

(* Every accepted answer names the operation that the same key and the     *)
(* same input created, and a conflict is told only to a client whose key   *)
(* another input holds.                                                    *)
AnswersAreTrue ==
    \A r \in Requests : answers[r] # Null =>
       /\ answers[r].kind = "accepted" =>
             operations[answers[r].op] # "absent" /\ asked[answers[r].op] = asked[r]
       /\ answers[r].kind = "conflict" =>
             \E s \in Requests : /\ operations[s] # "absent"
                                 /\ asked[s].key = asked[r].key /\ asked[s].print # asked[r].print

(* The service implements the idempotent intake that clients rely on.      *)
Intake == INSTANCE IdempotentIntake WITH
    bound <- [k \in Keys |-> IF records[k] = Null THEN Null
                             ELSE [op |-> records[k].op, print |-> records[k].print]]

ImplementsIntake == Intake!Spec

(* An accepted operation keeps all its files until the worker ends it: no  *)
(* compensation, that of a rival with its key included, takes the files of *)
(* an operation whose client was told of it or may still be.               *)
Refused(r) == answers[r] # Null /\ answers[r].kind # "accepted"

AcceptedHasFiles ==
    \A r \in Requests : operations[r] = "accepted" /\ ~Refused(r) => directories[r] = "whole"

(* A document without an operation is one of a request still in flight, of *)
(* one whose process was killed, or what a store that fails to delete has  *)
(* left and told of: no answered request leaves one silently, and no row   *)
(* of the database names it (the except branches of submit).               *)
LeavesNothing ==
    \A r \in Requests : operations[r] = "absent" /\ directories[r] # "none" =>
       \/ pc[r] \in InFlight
       \/ pc[r] = "lost" /\ faults > 0
       \/ /\ StoreFaults /\ pc[r] = "answered"
          /\ directories[r] = "partial" \/ answers[r].kind = "error"
-----------------------------------------------------------------------------
(* Every accepted operation has its files, told or not: what the documents *)
(* say of the submission, and what a lost acknowledgement breaks.          *)
AcceptedAfterStorage ==
    \A r \in Requests : operations[r] = "accepted" => directories[r] = "whole"
-----------------------------------------------------------------------------
(* A key is replayed only within its window (expires_at).                  *)
ReplayedWithinWindow ==
    [][\A r \in Requests :
          pc[r] = "looking" /\ pc'[r] = "answered" /\ answers'[r].kind = "accepted"
             => Record(r).ttl > 0]_vars
=============================================================================
