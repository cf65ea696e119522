--------------------------- MODULE SubmissionProofs ---------------------------
(* Theorems about Submission and Intake, for all constants.                *)
EXTENDS Intake, FiniteSetTheorems, TLAPS

USE DEF tables

LEMMA AgedTypes ==
    \A record \in Row \union {Null} : Aged(record) \in Row \union {Null}
  BY BoundAssumption, NullAssumption DEF Aged, Row

LEMMA CommitTypes ==
    ASSUME TypeOK, NEW r \in Requests, pc[r] = "committing", Commits(r)
    PROVE  /\ records' \in [Keys -> Row \union {Null}]
           /\ operations' \in [Requests -> {"absent", "accepted", "ended"}]
  <1>1. asked[r] \in Input
    BY DEF TypeOK
  <1>2. [op |-> r, print |-> asked[r].print, ttl |-> Retention] \in Row
    BY <1>1, BoundAssumption DEF Input, Row
  <1> QED
    BY <1>2 DEF Commits, TypeOK

(* Every reachable state has the types of TypeOK.                          *)
THEOREM TypeCorrect == Spec => []TypeOK
  <1>1. Init => TypeOK
    BY DEF Init, TypeOK
  <1>2. ASSUME TypeOK, [Next]_vars PROVE TypeOK'
    <2> USE <1>2 DEF TypeOK
    <2>1. ASSUME NEW r \in Requests, Submit(r) PROVE TypeOK'
      <3> USE <2>1 DEF Proceed, Reply, Answers, InFlight
      <3>1. CASE Receive(r)
        <4>1. PICK input \in Input : asked' = [asked EXCEPT ![r] = input]
          BY <3>1 DEF Receive
        <4>2. input # Null
          BY NullAssumption
        <4> QED
          BY <3>1, <4>1, <4>2 DEF Receive
      <3>2. CASE LookupMisses(r)
        BY <3>2 DEF LookupMisses
      <3>3. CASE Replay(r)
        <4>1. Record(r) \in Row
          BY <3>3 DEF Replay, Record, Input
        <4> QED
          BY <3>3, <4>1 DEF Replay, Row
      <3>4. CASE Conflict(r)
        BY <3>4 DEF Conflict
      <3>5. CASE MakeDirectory(r) \/ WriteFiles(r)
        BY <3>5 DEF MakeDirectory, WriteFiles
      <3>6. CASE StoreFails(r)
        BY <3>6 DEF StoreFails, Deleted
      <3>7. CASE Commit(r)
        <4>1. /\ records' \in [Keys -> Row \union {Null}]
              /\ operations' \in [Requests -> {"absent", "accepted", "ended"}]
          BY <3>7, CommitTypes DEF Commit
        <4> QED
          BY <3>7, <4>1 DEF Commit
      <3>8. CASE Return(r)
        BY <3>8 DEF Return
      <3>9. CASE CommitConflict(r)
        BY <3>9 DEF CommitConflict
      <3>10. CASE Compensate(r)
        BY <3>10 DEF Compensate
      <3>11. CASE CompensateFails(r)
        BY <3>11 DEF CompensateFails, Deleted
      <3> QED
        BY <3>1, <3>2, <3>3, <3>4, <3>5, <3>6, <3>7, <3>8, <3>9, <3>10, <3>11 DEF Submit
    <2>2. ASSUME NEW r \in Requests, Environment(r) PROVE TypeOK'
      <3> USE <2>2 DEF Proceed, Reply, Answers, InFlight, Fault
      <3>1. CASE LookupFails(r)
        BY <3>1 DEF LookupFails
      <3>2. CASE CommitFails(r)
        BY <3>2 DEF CommitFails
      <3>3. CASE AckLost(r)
        <4>1. /\ records' \in [Keys -> Row \union {Null}]
              /\ operations' \in [Requests -> {"absent", "accepted", "ended"}]
          BY <3>3, CommitTypes DEF AckLost
        <4>2. pc' = [pc EXCEPT ![r] = "compensating"] /\ pc[r] # "new" /\ faults' \in Nat
          BY <3>3 DEF AckLost
        <4>3. UNCHANGED <<directories, asked, answers>>
          BY <3>3 DEF AckLost
        <4> QED
          BY <4>1, <4>2, <4>3
      <3>4. CASE Crash(r)
        BY <3>4 DEF Crash
      <3>5. CASE WorkerEnds(r) \/ WorkerDeletes(r)
        BY <3>5 DEF WorkerEnds, WorkerDeletes
      <3> QED
        BY <3>1, <3>2, <3>3, <3>4, <3>5 DEF Environment
    <2>3. CASE Tick
      BY <2>3, AgedTypes DEF Tick
    <2>4. CASE UNCHANGED vars
      BY <2>4 DEF vars
    <2> QED
      BY <2>1, <2>2, <2>3, <2>4, <1>2 DEF Next
  <1> QED
    BY <1>1, <1>2, PTL DEF Spec
-----------------------------------------------------------------------------
(* A key is bound to one operation, an operation to its key; an answer     *)
(* speaks of what the key is bound to, and that never changes.             *)
Bound(r) == records[asked[r].key] # Null

KeyInv ==
    \A k \in Keys : records[k] # Null =>
       /\ operations[records[k].op] # "absent"
       /\ asked[records[k].op] = [key |-> k, print |-> records[k].print]

OperationInv ==
    \A r \in Requests : operations[r] # "absent" =>
       asked[r] # Null /\ Bound(r) /\ Record(r).op = r

AnswerInv ==
    \A r \in Requests :
       /\ answers[r] # Null <=> pc[r] = "answered"
       /\ answers[r] # Null => answers[r] \in Answers
       /\ pc[r] = "returning" => operations[r] # "absent"
       /\ pc[r] = "answered" /\ answers[r].kind = "accepted" =>
             Bound(r) /\ Record(r).op = answers[r].op /\ Record(r).print = asked[r].print
       /\ pc[r] = "answered" /\ answers[r].kind = "conflict" =>
             Bound(r) /\ Record(r).print # asked[r].print

BindInv == KeyInv /\ OperationInv /\ AnswerInv

LEMMA AgedKeeps ==
    \A record \in Row \union {Null} :
       /\ Aged(record) = Null <=> record = Null
       /\ record # Null => Aged(record).op = record.op /\ Aged(record).print = record.print
  <1>1. ASSUME NEW record \in Row
        PROVE  Aged(record) \in Row /\ Aged(record).op = record.op /\ Aged(record).print = record.print
    <2>1. CASE record.ttl = 0
      BY <2>1 DEF Aged
    <2>2. CASE record.ttl # 0
      <3>1. record.ttl - 1 \in 0..Retention
        BY <2>2, BoundAssumption DEF Row
      <3> QED
        BY <2>2, <3>1, NullAssumption DEF Aged, Row
    <2> QED
      BY <2>1, <2>2
  <1> QED
    BY <1>1, NullAssumption DEF Aged

(* Receive.                                                                *)
LEMMA ReceiveBinds ==
    ASSUME TypeOK, BindInv, NEW r \in Requests, Receive(r) PROVE BindInv'
  <1>1. PICK input \in Input : asked' = [asked EXCEPT ![r] = input]
    BY DEF Receive
  <1>2. asked[r] = Null /\ operations[r] = "absent" /\ pc[r] = "new" /\ input # Null
    BY NullAssumption DEF Receive, Proceed, TypeOK, BindInv, OperationInv
  <1>3. UNCHANGED <<records, operations, answers>> /\ pc' = [pc EXCEPT ![r] = "looking"]
    BY DEF Receive, Proceed
  <1>4. KeyInv'
    BY <1>1, <1>2, <1>3 DEF KeyInv, BindInv, TypeOK
  <1>5. OperationInv'
    BY <1>1, <1>2, <1>3 DEF OperationInv, BindInv, TypeOK, Bound, Record
  <1>6. AnswerInv'
    BY <1>1, <1>2, <1>3 DEF AnswerInv, BindInv, TypeOK, Bound, Record
  <1> QED
    BY <1>4, <1>5, <1>6 DEF BindInv

(* A step of submit that leaves the tables as they are and may answer.     *)
LEMMA QuietBinds ==
    ASSUME TypeOK, BindInv, NEW r \in Requests, UNCHANGED <<tables, asked>>,
           \/ /\ UNCHANGED answers
              /\ \E to \in InFlight \union {"lost"} :
                    to # "returning" /\ pc[r] # "answered" /\ pc' = [pc EXCEPT ![r] = to]
           \/ \E kind \in {"accepted", "conflict", "unavailable", "error"}, op \in Requests \union {Null} :
                 /\ Reply(r, kind, op)
                 /\ [kind |-> kind, op |-> op] \in Answers
                 /\ kind = "accepted" => Bound(r) /\ Record(r).op = op /\ Record(r).print = asked[r].print
                 /\ kind = "conflict" => Bound(r) /\ Record(r).print # asked[r].print
    PROVE  BindInv'
  <1>1. KeyInv' /\ OperationInv'
    BY DEF BindInv, KeyInv, OperationInv, Bound, Record
  <1>2. CASE /\ UNCHANGED answers
             /\ \E to \in InFlight \union {"lost"} :
                   to # "returning" /\ pc[r] # "answered" /\ pc' = [pc EXCEPT ![r] = to]
    <2>1. AnswerInv'
      BY <1>2 DEF BindInv, AnswerInv, TypeOK, Bound, Record, InFlight
    <2> QED
      BY <1>1, <2>1 DEF BindInv
  <1>3. ASSUME NEW kind \in {"accepted", "conflict", "unavailable", "error"},
               NEW op \in Requests \union {Null},
               Reply(r, kind, op), [kind |-> kind, op |-> op] \in Answers,
               kind = "accepted" => Bound(r) /\ Record(r).op = op /\ Record(r).print = asked[r].print,
               kind = "conflict" => Bound(r) /\ Record(r).print # asked[r].print
        PROVE  BindInv'
    <2>1. /\ pc' = [pc EXCEPT ![r] = "answered"]
          /\ answers' = [answers EXCEPT ![r] = [kind |-> kind, op |-> op]]
          /\ answers'[r] # Null /\ answers'[r].kind = kind /\ answers'[r].op = op
      BY <1>3, NullAssumption DEF Reply, TypeOK
    <2>2. AnswerInv'
      BY <1>3, <2>1 DEF BindInv, AnswerInv, TypeOK, Bound, Record
    <2> QED
      BY <1>1, <2>2 DEF BindInv
  <1> QED
    BY <1>2, <1>3

(* The transaction commits, acknowledged or not.                           *)
LEMMA CommitBinds ==
    ASSUME TypeOK, BindInv, NEW r \in Requests, pc[r] = "committing", KeyFree(r), Commits(r),
           NEW to \in {"returning", "compensating"}, pc' = [pc EXCEPT ![r] = to],
           UNCHANGED <<asked, answers>>
    PROVE  BindInv'
  <1> DEFINE row == [op |-> r, print |-> asked[r].print, ttl |-> Retention]
  <1>1. asked[r] \in Input /\ asked[r] # Null /\ row \in Row /\ row # Null
    BY NullAssumption, BoundAssumption DEF TypeOK, Input, Row
  <1>2. /\ records' = [records EXCEPT ![asked[r].key] = row]
        /\ operations' = [operations EXCEPT ![r] = "accepted"]
        /\ records[asked[r].key] = Null /\ operations[r] = "absent"
    BY DEF Commits, KeyFree, Record, BindInv, OperationInv, Bound
  <1>3. KeyInv'
    BY <1>1, <1>2 DEF BindInv, KeyInv, TypeOK, Input
  <1>4. OperationInv'
    BY <1>1, <1>2 DEF BindInv, OperationInv, TypeOK, Bound, Record, Input
  <1>5. AnswerInv'
    BY <1>1, <1>2 DEF BindInv, AnswerInv, TypeOK, Bound, Record, Input
  <1> QED
    BY <1>3, <1>4, <1>5 DEF BindInv

LEMMA BindStep == ASSUME TypeOK, BindInv, [Next]_vars PROVE BindInv'
  <1>1. ASSUME NEW r \in Requests, Submit(r) PROVE BindInv'
    <2>1. CASE Receive(r)
      BY <2>1, ReceiveBinds
    <2>2. CASE LookupMisses(r) \/ MakeDirectory(r) \/ WriteFiles(r) \/ CommitConflict(r)
      BY <2>2, QuietBinds
      DEF LookupMisses, MakeDirectory, WriteFiles, CommitConflict, Proceed, InFlight
    <2>3. CASE Replay(r)
      <3>1. asked[r] # Null /\ Bound(r) /\ Record(r).op \in Requests /\ Record(r).print = asked[r].print
        BY <2>3 DEF Replay, TypeOK, SameInput, Record, Bound, Row, Input
      <3> QED
        BY <2>3, <3>1, QuietBinds DEF Replay, Answers
    <2>4. CASE Conflict(r)
      BY <2>4, QuietBinds DEF Conflict, SameInput, Record, Bound, Answers
    <2>5. CASE StoreFails(r) \/ Compensate(r) \/ CompensateFails(r)
      BY <2>5, QuietBinds DEF StoreFails, Compensate, CompensateFails, Answers
    <2>6. CASE Commit(r)
      BY <2>6, CommitBinds DEF Commit, Proceed
    <2>7. CASE Return(r)
      <3>1. Bound(r) /\ Record(r).op = r /\ Record(r).print = asked[r].print
        <4>1. Bound(r) /\ Record(r).op = r /\ asked[r] # Null
          BY <2>7 DEF Return, BindInv, AnswerInv, OperationInv
        <4>2. asked[r].key \in Keys
          BY <4>1 DEF TypeOK, Input
        <4>3. asked[r] = [key |-> asked[r].key, print |-> Record(r).print]
          BY <4>1, <4>2 DEF BindInv, KeyInv, Bound, Record
        <4> QED
          BY <4>1, <4>3
      <3> QED
        BY <2>7, <3>1, QuietBinds DEF Return, Answers
    <2> QED
      BY <1>1, <2>1, <2>2, <2>3, <2>4, <2>5, <2>6, <2>7 DEF Submit
  <1>2. ASSUME NEW r \in Requests, Environment(r) PROVE BindInv'
    <2>1. CASE LookupFails(r)
      BY <2>1, QuietBinds DEF LookupFails, Answers
    <2>2. CASE CommitFails(r) \/ Crash(r)
      BY <2>2, QuietBinds DEF CommitFails, Crash, Proceed, InFlight
    <2>3. CASE AckLost(r)
      BY <2>3, CommitBinds DEF AckLost, Proceed
    <2>4. CASE WorkerEnds(r)
      BY <2>4 DEF WorkerEnds, BindInv, KeyInv, OperationInv, AnswerInv, TypeOK, Bound, Record
    <2>5. CASE WorkerDeletes(r)
      BY <2>5 DEF WorkerDeletes, BindInv, KeyInv, OperationInv, AnswerInv, TypeOK, Bound, Record
    <2> QED
      BY <1>2, <2>1, <2>2, <2>3, <2>4, <2>5 DEF Environment
  <1>3. CASE Tick
    <2>1. /\ \A k \in Keys : records'[k] = Null <=> records[k] = Null
          /\ \A k \in Keys : records[k] # Null =>
                records'[k].op = records[k].op /\ records'[k].print = records[k].print
      BY <1>3, AgedKeeps DEF Tick, TypeOK
    <2>2. UNCHANGED <<operations, pc, asked, answers>>
      BY <1>3 DEF Tick
    <2>3. \A r \in Requests : asked[r] # Null => asked[r].key \in Keys
      BY DEF TypeOK, Input
    <2>4. \A r \in Requests : pc[r] = "answered" => asked[r] # Null
      BY DEF TypeOK
    <2> QED
      BY <2>1, <2>2, <2>3, <2>4 DEF BindInv, KeyInv, OperationInv, AnswerInv, Bound, Record
  <1>4. CASE UNCHANGED vars
    BY <1>4 DEF vars, BindInv, KeyInv, OperationInv, AnswerInv, Bound, Record
  <1> QED
    BY <1>1, <1>2, <1>3, <1>4 DEF Next

LEMMA BindInvariant == Spec => [](TypeOK /\ BindInv)
  <1>1. Init => BindInv
    BY DEF Init, BindInv, KeyInv, OperationInv, AnswerInv
  <1>2. TypeOK /\ BindInv /\ [Next]_vars => BindInv'
    BY BindStep
  <1> QED
    BY <1>1, <1>2, TypeCorrect, PTL DEF Spec

(* Concurrent requests with one key create one operation (the unique key   *)
(* of idempotency_records), whatever fails.                                *)
THEOREM OneOperation == Spec => []OneOperationPerKey
  <1>1. TypeOK /\ BindInv => OneOperationPerKey
    BY DEF BindInv, OperationInv, OneOperationPerKey, Record
  <1> QED
    BY <1>1, BindInvariant, PTL

(* What clients are told of a key is true (the lookup of submit).          *)
THEOREM AnswersCorrect == Spec => []AnswersAreTrue
  <1>1. TypeOK /\ BindInv => AnswersAreTrue
    <2> SUFFICES ASSUME TypeOK, BindInv, NEW r \in Requests, answers[r] # Null
                 PROVE  /\ answers[r].kind = "accepted" =>
                              operations[answers[r].op] # "absent" /\ asked[answers[r].op] = asked[r]
                        /\ answers[r].kind = "conflict" =>
                              \E o \in Requests : /\ operations[o] # "absent"
                                                  /\ asked[o].key = asked[r].key
                                                  /\ asked[o].print # asked[r].print
      BY DEF AnswersAreTrue
    <2>1. pc[r] = "answered" /\ asked[r] \in Input
      BY DEF BindInv, AnswerInv, TypeOK
    <2>2. Bound(r) => /\ Record(r).op \in Requests
                      /\ operations[Record(r).op] # "absent"
                      /\ asked[Record(r).op] = [key |-> asked[r].key, print |-> Record(r).print]
      BY <2>1 DEF BindInv, KeyInv, Bound, Record, TypeOK, Input, Row
    <2> QED
      BY <2>1, <2>2 DEF BindInv, AnswerInv, Input
  <1> QED
    BY <1>1, BindInvariant, PTL
-----------------------------------------------------------------------------
(* The strengthening, request by request: a directory is whole before its  *)
(* operation is, and a refused request is past all of that.                *)
FilesOK(r) ==
    /\ pc[r] \in {"new", "looking", "storing", "writing", "committing"} => operations[r] = "absent"
    /\ pc[r] \in {"new", "looking", "storing"} => directories[r] = "none"
    /\ pc[r] = "writing" => directories[r] = "partial"
    /\ pc[r] = "committing" => directories[r] = "whole"
    /\ operations[r] = "accepted" /\ ~Refused(r) => directories[r] = "whole"
    /\ operations[r] = "absent" /\ directories[r] # "none" =>
          \/ pc[r] \in InFlight
          \/ pc[r] = "lost" /\ faults > 0
          \/ /\ StoreFaults /\ pc[r] = "answered"
             /\ directories[r] = "partial" \/ answers[r].kind = "error"

FilesInv == \A r \in Requests : FilesOK(r)

(* A request leaves the files of the others alone.                         *)
LEMMA FilesOfOthers ==
    ASSUME TypeOK, NEW r \in Requests, Submit(r) \/ Environment(r), NEW s \in Requests, s # r
    PROVE  /\ pc'[s] = pc[s] /\ operations'[s] = operations[s]
           /\ directories'[s] = directories[s] /\ answers'[s] = answers[s]
           /\ faults' >= faults
  <1> USE DEF TypeOK, Proceed, Reply, Fault
  <1>1. CASE Receive(r) \/ LookupMisses(r) \/ Replay(r) \/ Conflict(r) \/ Return(r) \/ CommitConflict(r)
    BY <1>1 DEF Receive, LookupMisses, Replay, Conflict, Return, CommitConflict
  <1>2. CASE MakeDirectory(r) \/ WriteFiles(r) \/ StoreFails(r) \/ Compensate(r) \/ CompensateFails(r)
    BY <1>2 DEF MakeDirectory, WriteFiles, StoreFails, Compensate, CompensateFails
  <1>3. CASE Commit(r) \/ AckLost(r)
    BY <1>3 DEF Commit, AckLost, Commits
  <1>4. CASE LookupFails(r) \/ CommitFails(r) \/ Crash(r) \/ WorkerEnds(r) \/ WorkerDeletes(r)
    BY <1>4 DEF LookupFails, CommitFails, Crash, WorkerEnds, WorkerDeletes
  <1> QED
    BY <1>1, <1>2, <1>3, <1>4 DEF Submit, Environment

LEMMA ReplyFacts ==
    ASSUME TypeOK, NEW r \in Requests, NEW kind, NEW op, Reply(r, kind, op),
           [kind |-> kind, op |-> op] \in Answers
    PROVE  /\ pc'[r] = "answered"
           /\ answers'[r].kind = kind
           /\ kind # "accepted" => Refused(r)'
  BY NullAssumption DEF TypeOK, Reply, Refused

(* Each step of a request keeps its own files right.                       *)
LEMMA FilesOfOwn ==
    ASSUME TypeOK, BindInv, NEW r \in Requests, FilesOK(r), Submit(r) \/ Environment(r)
    PROVE  FilesOK(r)'
  <1> USE DEF FilesOK, TypeOK, InFlight, Fault
  <1>1. pc[r] # "answered" => ~Refused(r)
    BY DEF Refused, BindInv, AnswerInv
  <1>2. CASE Receive(r) \/ LookupMisses(r) \/ CommitConflict(r) \/ CommitFails(r) \/ Crash(r)
    BY <1>1, <1>2 DEF Receive, LookupMisses, CommitConflict, CommitFails, Crash, Proceed, Refused
  <1>3. CASE MakeDirectory(r) \/ WriteFiles(r)
    BY <1>1, <1>3 DEF MakeDirectory, WriteFiles, Proceed, Refused
  <1>4. CASE Commit(r) \/ AckLost(r)
    BY <1>1, <1>4 DEF Commit, AckLost, Commits, Proceed, Refused
  <1>5. CASE Replay(r) \/ Conflict(r)
    BY <1>5 DEF Replay, Conflict, Reply
  <1>6. CASE Return(r)
    <2>1. pc'[r] = "answered" /\ operations[r] # "absent"
      BY <1>6 DEF Return, Reply, BindInv, AnswerInv
    <2> QED
      BY <1>1, <1>6, <2>1 DEF Return
  <1>7. CASE StoreFails(r) \/ Compensate(r)
    <2>1. pc'[r] = "answered" /\ Refused(r)'
      BY <1>7, ReplyFacts DEF StoreFails, Compensate, Answers
    <2>2. CASE StoreFails(r)
      <3>1. operations'[r] = "absent" /\ directories[r] \in {"none", "partial"}
        BY <2>2 DEF StoreFails
      <3>2. PICK left \in Deleted(directories[r]) : directories' = [directories EXCEPT ![r] = left]
        BY <2>2 DEF StoreFails
      <3>3. left = "none" \/ (StoreFaults /\ left = "partial")
        BY <3>1, <3>2 DEF Deleted
      <3> QED
        BY <2>1, <3>1, <3>2, <3>3
    <2>3. CASE Compensate(r)
      BY <2>1, <2>3 DEF Compensate
    <2> QED
      BY <1>7, <2>2, <2>3
  <1>8. CASE CompensateFails(r)
    BY <1>8, ReplyFacts DEF CompensateFails, Answers
  <1>9. CASE LookupFails(r)
    BY <1>9, ReplyFacts DEF LookupFails, Answers
  <1>10. CASE WorkerEnds(r) \/ WorkerDeletes(r)
    BY <1>10 DEF WorkerEnds, WorkerDeletes
  <1> QED
    BY <1>2, <1>3, <1>4, <1>5, <1>6, <1>7, <1>8, <1>9, <1>10 DEF Submit, Environment

LEMMA FilesStep ==
    ASSUME TypeOK, BindInv, FilesInv, [Next]_vars PROVE FilesInv'
  <1>1. ASSUME NEW r \in Requests, Submit(r) \/ Environment(r) PROVE FilesInv'
    <2>1. FilesOK(r)'
      BY <1>1, FilesOfOwn DEF FilesInv
    <2>2. ASSUME NEW s \in Requests, s # r PROVE FilesOK(s)'
      <3>1. /\ pc'[s] = pc[s] /\ operations'[s] = operations[s]
            /\ directories'[s] = directories[s] /\ answers'[s] = answers[s]
            /\ faults' >= faults
        BY <1>1, <2>2, FilesOfOthers
      <3>2. FilesOK(s) /\ faults \in Nat
        BY DEF FilesInv, TypeOK
      <3>3. faults > 0 => faults' > 0
        <4>1. faults' \in Nat
          BY <1>1 DEF TypeOK, Submit, Environment, Receive, LookupMisses, Replay, Conflict,
             MakeDirectory, WriteFiles, StoreFails, Commit, Return, CommitConflict, Compensate,
             CompensateFails, LookupFails, CommitFails, AckLost, Crash, WorkerEnds, WorkerDeletes,
             Fault
        <4> QED
          BY <3>1, <3>2, <4>1
      <3> QED
        BY <3>1, <3>2, <3>3 DEF FilesOK, Refused
    <2> QED
      BY <2>1, <2>2 DEF FilesInv
  <1>2. CASE Tick \/ UNCHANGED vars
    BY <1>2 DEF Tick, vars, FilesInv, FilesOK, Refused
  <1> QED
    BY <1>1, <1>2 DEF Next

LEMMA FilesInvariant == Spec => []FilesInv
  <1>1. Init => FilesInv
    BY DEF Init, FilesInv, FilesOK
  <1>2. TypeOK /\ BindInv /\ FilesInv /\ [Next]_vars => FilesInv'
    BY FilesStep
  <1> QED
    BY <1>1, <1>2, BindInvariant, PTL DEF Spec

(* Whatever fails, an accepted operation that its client was told of, or   *)
(* may still be, has its files (the except branches of submit).            *)
THEOREM FilesCorrect == Spec => []AcceptedHasFiles
  <1>1. FilesInv => AcceptedHasFiles
    BY DEF FilesInv, FilesOK, AcceptedHasFiles
  <1> QED
    BY <1>1, FilesInvariant, PTL

(* Whatever fails, no answered request leaves a document without an        *)
(* operation, unless the store failed to delete it.                        *)
THEOREM OrphansCorrect == Spec => []LeavesNothing
  <1>1. FilesInv => LeavesNothing
    BY DEF FilesInv, FilesOK, LeavesNothing
  <1> QED
    BY <1>1, FilesInvariant, PTL
-----------------------------------------------------------------------------
(* The refinement.                                                         *)
bound == [k \in Keys |-> IF records[k] = Null THEN Null
                         ELSE [op |-> records[k].op, print |-> records[k].print]]

(* What an answer of the service is in the abstract.                       *)
LEMMA ReplySimulated ==
    ASSUME TypeOK, BindInv, NEW r \in Requests, pc[r] \in InFlight, UNCHANGED <<tables, asked>>,
           NEW kind, NEW op, Reply(r, kind, op)
    PROVE  /\ Intake!Answer(r, kind, op)
           /\ Bound(r) /\ Record(r).print = asked[r].print /\ kind = "accepted" /\ op = Record(r).op
                 => Intake!Accept(r)
           /\ Bound(r) /\ Record(r).print # asked[r].print /\ kind = "conflict" /\ op = Null
                 => Intake!Reject(r)
           /\ kind \in {"unavailable", "error"} /\ op = Null => Intake!Fail(r)
  <1>1. asked[r] # Null /\ asked[r].key \in Keys /\ answers[r] = Null /\ bound' = bound
    BY DEF TypeOK, Input, InFlight, BindInv, AnswerInv, bound
  <1>2. Intake!Answer(r, kind, op)
    BY <1>1 DEF Intake!Answer, Reply, bound
  <1>3. Bound(r) => [op |-> Record(r).op, print |-> Record(r).print] # Null
    BY <1>1, NullAssumption DEF Bound, Record, TypeOK, Row
  <1> QED
    BY <1>1, <1>2, <1>3 DEF Intake!Accept, Intake!Reject, Intake!Fail, Bound, Record

(* Receive, the commits and the steps without an answer.                   *)
LEMMA ReceiveSimulated ==
    ASSUME TypeOK, NEW r \in Requests, Receive(r) PROVE Intake!Ask(r)
  <1>1. PICK input \in Input : asked' = [asked EXCEPT ![r] = input]
    BY DEF Receive
  <1>2. input.key \in Keys /\ input.print \in Prints /\ input = [key |-> input.key, print |-> input.print]
    BY DEF Input
  <1>3. asked[r] = Null /\ UNCHANGED <<bound, answers>>
    BY DEF Receive, Proceed, TypeOK, bound
  <1> QED
    BY <1>1, <1>2, <1>3 DEF Intake!Ask, bound

LEMMA CommitSimulated ==
    ASSUME TypeOK, BindInv, NEW r \in Requests, pc[r] = "committing", KeyFree(r), Commits(r),
           UNCHANGED <<asked, answers>>
    PROVE  Intake!Bind(r)
  <1>1. asked[r] # Null /\ asked[r].key \in Keys /\ asked[r].print \in Prints /\ answers[r] = Null
    BY DEF TypeOK, Input, BindInv, AnswerInv
  <1>2. bound[asked[r].key] = Null
    BY <1>1 DEF bound, KeyFree, Record
  <1>3. [op |-> r, print |-> asked[r].print, ttl |-> Retention] # Null
    BY <1>1, NullAssumption, BoundAssumption DEF Row
  <1>4. bound' = [bound EXCEPT ![asked[r].key] = [op |-> r, print |-> asked[r].print]]
    BY <1>1, <1>3 DEF bound, Commits, TypeOK
  <1> QED
    BY <1>1, <1>2, <1>4 DEF Intake!Bind, bound

(* The service implements the idempotent intake that clients rely on.      *)
THEOREM IntakeCorrect == Spec => ImplementsIntake
  <1>1. Init => Intake!Init
    BY DEF Init, Intake!Init
  <1>2. ASSUME TypeOK, BindInv, [Next]_vars PROVE [Intake!Next]_(Intake!vars)
    <2> DEFINE stutter == UNCHANGED <<bound, asked, answers>>
    <2>1. ASSUME NEW r \in Requests, Submit(r)
          PROVE  Intake!Ask(r) \/ Intake!Bind(r) \/ Intake!Accept(r) \/ Intake!Reject(r) \/ Intake!Fail(r)
                 \/ stutter
      <3>1. CASE Receive(r)
        BY <1>2, <3>1, ReceiveSimulated
      <3>2. CASE LookupMisses(r) \/ MakeDirectory(r) \/ WriteFiles(r) \/ CommitConflict(r)
        BY <3>2 DEF LookupMisses, MakeDirectory, WriteFiles, CommitConflict, bound
      <3>3. CASE Replay(r)
        BY <1>2, <3>3, ReplySimulated DEF Replay, SameInput, Bound, Record, InFlight
      <3>4. CASE Conflict(r)
        BY <1>2, <3>4, ReplySimulated DEF Conflict, SameInput, Bound, Record, InFlight
      <3>5. CASE StoreFails(r) \/ Compensate(r) \/ CompensateFails(r)
        BY <1>2, <3>5, ReplySimulated DEF StoreFails, Compensate, CompensateFails, InFlight
      <3>6. CASE Commit(r)
        BY <1>2, <3>6, CommitSimulated DEF Commit, Proceed
      <3>7. CASE Return(r)
        <4>1. Bound(r) /\ Record(r).op = r /\ asked[r] # Null
          BY <1>2, <3>7 DEF Return, BindInv, AnswerInv, OperationInv
        <4>2. asked[r].key \in Keys
          BY <1>2, <4>1 DEF TypeOK, Input
        <4>3. asked[r] = [key |-> asked[r].key, print |-> Record(r).print]
          BY <1>2, <4>1, <4>2 DEF BindInv, KeyInv, Bound, Record
        <4>4. Record(r).print = asked[r].print
          BY <4>3
        <4> QED
          BY <1>2, <3>7, <4>1, <4>4, ReplySimulated DEF Return, InFlight
      <3> QED
        BY <2>1, <3>1, <3>2, <3>3, <3>4, <3>5, <3>6, <3>7 DEF Submit
    <2>2. ASSUME NEW r \in Requests, Environment(r)
          PROVE  Intake!Bind(r) \/ Intake!Fail(r) \/ stutter
      <3>1. CASE LookupFails(r)
        BY <1>2, <3>1, ReplySimulated DEF LookupFails, InFlight
      <3>2. CASE CommitFails(r) \/ Crash(r) \/ WorkerEnds(r) \/ WorkerDeletes(r)
        BY <3>2 DEF CommitFails, Crash, WorkerEnds, WorkerDeletes, bound
      <3>3. CASE AckLost(r)
        BY <1>2, <3>3, CommitSimulated DEF AckLost, Proceed
      <3> QED
        BY <2>2, <3>1, <3>2, <3>3 DEF Environment
    <2>3. CASE Tick
      <3>1. \A k \in Keys : /\ records'[k] = Null <=> records[k] = Null
                            /\ records[k] # Null => /\ records'[k].op = records[k].op
                                                    /\ records'[k].print = records[k].print
        BY <1>2, <2>3, AgedKeeps DEF Tick, TypeOK
      <3>2. bound' = bound
        BY <3>1 DEF bound
      <3> QED
        BY <2>3, <3>2 DEF Tick, Intake!vars, bound
    <2>4. CASE UNCHANGED vars
      BY <2>4 DEF vars, Intake!vars
    <2>5. stutter => UNCHANGED Intake!vars
      BY DEF Intake!vars, bound
    <2> QED
      BY <1>2, <2>1, <2>2, <2>3, <2>4, <2>5 DEF Next, Intake!Next
  <1>3. TypeOK /\ BindInv /\ [Next]_vars => [Intake!Next]_(Intake!vars)
    BY <1>2
  <1> QED
    BY <1>1, <1>3, BindInvariant, PTL DEF Spec, ImplementsIntake, Intake!Spec
-----------------------------------------------------------------------------
(* What clients have from IdempotentIntake, and so from the service: a key *)
(* once bound stays bound to the same operation and input (no step writes  *)
(* over an idempotency record), and an answer is never taken back.         *)
KeysStayBound ==
    \A k \in Keys : bound[k] # Null => bound'[k] = bound[k]
AnswersStay ==
    \A r \in Requests : answers[r] # Null => asked'[r] = asked[r] /\ answers'[r] = answers[r]

(* Both, inherited through the refinement.                                 *)
THEOREM PromisesKept == Spec => [][KeysStayBound /\ AnswersStay]_vars
  <1>1. ASSUME TypeOK, BindInv, [Intake!Next]_(Intake!vars) PROVE KeysStayBound /\ AnswersStay
    <2>1. \A r \in Requests : answers[r] # Null => asked[r] # Null
      BY <1>1 DEF TypeOK, BindInv, AnswerInv
    <2>2. /\ DOMAIN asked = Requests /\ DOMAIN answers = Requests /\ DOMAIN bound = Keys
          /\ \A r \in Requests : answers[r] # Null => asked[r] # Null
      BY <1>1, <2>1 DEF TypeOK, bound
    <2>3. CASE UNCHANGED Intake!vars
      BY <2>3 DEF Intake!vars, bound, KeysStayBound, AnswersStay
    <2>4. ASSUME NEW r \in Requests, Intake!Ask(r) PROVE KeysStayBound /\ AnswersStay
      BY <2>2, <2>4 DEF Intake!Ask, bound, KeysStayBound, AnswersStay
    <2>5. ASSUME NEW r \in Requests, Intake!Bind(r) PROVE KeysStayBound /\ AnswersStay
      <3>1. PICK new : bound' = [bound EXCEPT ![asked[r].key] = new]
        BY <2>5 DEF Intake!Bind, bound
      <3>2. bound[asked[r].key] = Null /\ UNCHANGED <<asked, answers>>
        BY <2>5 DEF Intake!Bind, bound
      <3> HIDE DEF bound
      <3> QED
        BY <2>2, <3>1, <3>2 DEF KeysStayBound, AnswersStay
    <2>6. ASSUME NEW r \in Requests, NEW kind, NEW op, Intake!Answer(r, kind, op)
          PROVE  KeysStayBound /\ AnswersStay
      BY <2>2, <2>6 DEF Intake!Answer, bound, KeysStayBound, AnswersStay
    <2> QED
      BY <1>1, <2>3, <2>4, <2>5, <2>6 DEF Intake!Next, Intake!Accept, Intake!Reject, Intake!Fail
  <1>2. TypeOK /\ BindInv /\ [Intake!Next]_(Intake!vars) => [KeysStayBound /\ AnswersStay]_vars
    BY <1>1
  <1> QED
    BY <1>2, BindInvariant, IntakeCorrect, PTL DEF ImplementsIntake, Intake!Spec

(* Whoever repeats a request gets the operation of the first: two accepted *)
(* answers for one key name one operation, and were given for one input    *)
(* (the replay and the conflict of submit), however the requests raced.    *)
RepeatsAgree ==
    \A r, s \in Requests :
       /\ answers[r] # Null /\ answers[r].kind = "accepted"
       /\ answers[s] # Null /\ answers[s].kind = "accepted"
       /\ asked[r].key = asked[s].key
       => answers[r].op = answers[s].op /\ asked[r].print = asked[s].print

THEOREM RepeatsCorrect == Spec => []RepeatsAgree
  <1>1. BindInv => RepeatsAgree
    BY DEF BindInv, AnswerInv, RepeatsAgree, Record
  <1> QED
    BY <1>1, BindInvariant, PTL
-----------------------------------------------------------------------------
(* The requests of the intake, once admitted, are those of the service.    *)
LEMMA AdmitReceives == ASSUME NEW r \in Requests, Admit(r) PROVE Receive(r)
  <1>1. PICK u \in Uploads, k \in Keys :
           /\ Admissible(u)
           /\ asked' = [asked EXCEPT ![r] = [key |-> k, print |-> Fingerprint(u)]]
    BY DEF Admit
  <1>2. [key |-> k, print |-> Fingerprint(u)] \in Input
    BY <1>1, PrintAssumption DEF Input
  <1> QED
    BY <1>1, <1>2 DEF Admit, Receive

LEMMA IntakeStep == [IntakeNext]_intakeVars => [Next]_vars
  <1>1. ASSUME NEW r \in Requests, Refuse(r) \/ Admit(r) PROVE [Next]_vars
    BY <1>1, AdmitReceives DEF Refuse, Next, Submit
  <1>2. Serve => [Next]_vars
    BY DEF Serve, Next, Submit
  <1> QED
    BY <1>1, <1>2 DEF IntakeNext, intakeVars

(* Behind its checks the API is the service of Submission: all that was    *)
(* proved of that one holds of it.                                         *)
THEOREM IntakeServes == IntakeSpec => Spec
  <1>1. IntakeInit => Init
    BY DEF IntakeInit
  <1> QED
    BY <1>1, IntakeStep, PTL DEF IntakeSpec, Spec

LEMMA ServeKeeps == Serve => UNCHANGED <<asked, sent>>
  BY DEF Serve, Environment, LookupMisses, Replay, Conflict, MakeDirectory, WriteFiles,
     StoreFails, Commit, Return, CommitConflict, Compensate, CompensateFails, LookupFails,
     CommitFails, AckLost, Crash, WorkerEnds, WorkerDeletes, Tick

(* The fingerprint of an admitted request is that of what it sent.         *)
PrintInv ==
    \A r \in Requests : asked[r] # Null =>
       sent[r] # Null /\ asked[r].print = Fingerprint(sent[r])

LEMMA PrintStep ==
    ASSUME TypeOK, sent \in [Requests -> Uploads \union {Null}], PrintInv,
           [IntakeNext]_intakeVars
    PROVE  sent' \in [Requests -> Uploads \union {Null}] /\ PrintInv'
  <1>1. ASSUME NEW r \in Requests, Refuse(r)
        PROVE  sent' \in [Requests -> Uploads \union {Null}] /\ PrintInv'
    BY <1>1 DEF Refuse, PrintInv, vars
  <1>2. ASSUME NEW r \in Requests, Admit(r)
        PROVE  sent' \in [Requests -> Uploads \union {Null}] /\ PrintInv'
    BY <1>2, UploadAssumption DEF Admit, PrintInv, TypeOK
  <1>3. ASSUME Serve PROVE UNCHANGED <<asked, sent>>
    BY <1>3, ServeKeeps
  <1> QED
    BY <1>1, <1>2, <1>3 DEF IntakeNext, intakeVars, vars, PrintInv

(* Whatever fails, a client is only told of an operation on the document   *)
(* it sent, page by page: the fingerprint tells documents apart.           *)
THEOREM DocumentsCorrect == IntakeSpec => []AnswersFitDocuments
  <1> DEFINE Sent == sent \in [Requests -> Uploads \union {Null}]
  <1>1. IntakeInit => Sent /\ PrintInv
    BY DEF IntakeInit, Init, PrintInv
  <1>2. TypeOK /\ Sent /\ PrintInv /\ [IntakeNext]_intakeVars => Sent' /\ PrintInv'
    BY PrintStep
  <1>3. ASSUME TypeOK, BindInv, PrintInv, AnswersAreTrue PROVE AnswersFitDocuments
    <2> SUFFICES ASSUME NEW r \in Requests, answers[r] # Null
                 PROVE  /\ answers[r].kind = "accepted" =>
                              Document(sent[answers[r].op]) = Document(sent[r])
                        /\ answers[r].kind = "conflict" =>
                              \E s \in Requests :
                                 /\ operations[s] # "absent" /\ asked[s].key = asked[r].key
                                 /\ \/ Document(sent[s]) # Document(sent[r])
                                    \/ Parts(sent[s]) # Parts(sent[r])
      BY DEF AnswersFitDocuments
    <2>1. asked[r] # Null /\ answers[r] \in Answers
      BY <1>3 DEF BindInv, AnswerInv, TypeOK
    <2>2. asked[r].print = Fingerprint(sent[r])
      BY <1>3, <2>1 DEF PrintInv
    <2>3. CASE answers[r].kind = "accepted"
      <3>1. answers[r].op \in Requests /\ asked[answers[r].op] = asked[r]
        BY <1>3, <2>1, <2>3 DEF AnswersAreTrue, Answers
      <3>2. Fingerprint(sent[answers[r].op]) = Fingerprint(sent[r])
        BY <1>3, <2>1, <2>2, <3>1 DEF PrintInv
      <3> QED
        BY <2>3, <3>2 DEF Fingerprint, Document, Pdf
    <2>4. CASE answers[r].kind = "conflict"
      <3>1. PICK s \in Requests : /\ operations[s] # "absent" /\ asked[s].key = asked[r].key
                                  /\ asked[s].print # asked[r].print
        BY <1>3, <2>4 DEF AnswersAreTrue
      <3>2. asked[s] # Null
        BY <1>3, <3>1 DEF BindInv, OperationInv
      <3>3. Fingerprint(sent[s]) # Fingerprint(sent[r])
        BY <1>3, <2>2, <3>1, <3>2 DEF PrintInv
      <3> QED
        BY <2>4, <3>1, <3>3 DEF Fingerprint, Document, Parts
    <2> QED
      BY <2>3, <2>4
  <1>4. IntakeSpec => [](TypeOK /\ BindInv /\ AnswersAreTrue)
    BY IntakeServes, BindInvariant, AnswersCorrect, PTL
  <1>5. TypeOK /\ BindInv /\ PrintInv /\ AnswersAreTrue => AnswersFitDocuments
    BY <1>3
  <1> QED
    BY <1>1, <1>2, <1>4, <1>5, PTL DEF IntakeSpec
-----------------------------------------------------------------------------
(* The checks, and what the contract asks.                                 *)
ChecksPass(u) ==
    /\ u.keyed
    /\ ~(u.body > MaxSubmissionBytes)
    /\ FieldsValid(u)
    /\ u.files # <<>>
    /\ ~(Pdf(u) /\ Len(u.files) # 1)
    /\ ~(Images(u) /\ Len(u.files) > MaxImagePages)
    /\ ~(Images(u) /\ Len(u.page_indexes) # Len(u.files))
    /\ ~(Pdf(u) /\ u.page_indexes # <<>>)
    /\ ~(Images(u) /\ ~Contiguous(u))

LEMMA SubmissionPasses ==
    ASSUME NEW u PROVE Failed(SubmissionChecks(u)) = {} <=> ChecksPass(u)
  <1> DEFINE checks == SubmissionChecks(u)
  <1>1. DOMAIN checks = 1..11
    BY DEF SubmissionChecks
  <1>2. /\ checks[1].fails <=> ~u.keyed
        /\ checks[2].fails <=> (u.declared /\ u.body > MaxSubmissionBytes)
        /\ checks[3].fails <=> (u.body > MaxSubmissionBytes)
        /\ checks[4].fails <=> (u.files = <<>> /\ u.strays = 0)
        /\ checks[5].fails <=> ~FieldsValid(u)
        /\ checks[6].fails <=> (u.files = <<>>)
        /\ checks[7].fails <=> (Pdf(u) /\ Len(u.files) # 1)
        /\ checks[8].fails <=> (Images(u) /\ Len(u.files) > MaxImagePages)
        /\ checks[9].fails <=> (Images(u) /\ Len(u.page_indexes) # Len(u.files))
        /\ checks[10].fails <=> (Pdf(u) /\ u.page_indexes # <<>>)
        /\ checks[11].fails <=> (Images(u) /\ ~Contiguous(u))
    BY DEF SubmissionChecks, Check
  <1>3. Failed(SubmissionChecks(u)) = {} <=> \A k \in 1..11 : ~checks[k].fails
    BY <1>1 DEF Failed
  <1> HIDE DEF checks
  <1>4. (\A k \in 1..11 : ~checks[k].fails) <=>
           /\ ~checks[1].fails /\ ~checks[2].fails /\ ~checks[3].fails /\ ~checks[4].fails
           /\ ~checks[5].fails /\ ~checks[6].fails /\ ~checks[7].fails /\ ~checks[8].fails
           /\ ~checks[9].fails /\ ~checks[10].fails /\ ~checks[11].fails
    OBVIOUS
  <1> QED
    BY <1>2, <1>3, <1>4 DEF ChecksPass

LEMMA FilePasses ==
    ASSUME NEW u, NEW n
    PROVE  Failed(FileChecks(u, n)) = {} <=>
              /\ ~(u.files[n].size = 0)
              /\ ~(u.files[n].size > MaxFileBytes)
              /\ ~(Total(u, n) > MaxSubmissionBytes)
              /\ u.files[n].media \in (IF Pdf(u) THEN {"pdf"} ELSE {"jpeg", "png"})
  <1> DEFINE checks == FileChecks(u, n)
  <1>1. DOMAIN checks = 1..4
    BY DEF FileChecks
  <1>2. /\ checks[1].fails <=> (u.files[n].size = 0)
        /\ checks[2].fails <=> (u.files[n].size > MaxFileBytes)
        /\ checks[3].fails <=> (Total(u, n) > MaxSubmissionBytes)
        /\ checks[4].fails <=> (u.files[n].media \notin (IF Pdf(u) THEN {"pdf"} ELSE {"jpeg", "png"}))
    BY DEF FileChecks, Check
  <1>3. Failed(FileChecks(u, n)) = {} <=> \A k \in 1..4 : ~checks[k].fails
    BY <1>1 DEF Failed
  <1> HIDE DEF checks
  <1>4. (\A k \in 1..4 : ~checks[k].fails) <=>
           ~checks[1].fails /\ ~checks[2].fails /\ ~checks[3].fails /\ ~checks[4].fails
    OBVIOUS
  <1> QED
    BY <1>2, <1>3, <1>4

(* A sequence of n numbers that has all of 0..n-1 has nothing else.        *)
LEMMA AllPagesOnly ==
    ASSUME NEW n \in Nat, NEW f \in [1..n -> Int],
           \A page \in 0..(n - 1) : \E k \in 1..n : f[k] = page
    PROVE  Range(f) = 0..(n - 1)
  <1>1. f \in Surjection(1..n, Range(f))
    BY DEF Surjection, Range
  <1>2. IsFiniteSet(1..n) /\ Cardinality(1..n) = n
    BY FS_Interval
  <1>3. IsFiniteSet(0..(n - 1)) /\ Cardinality(0..(n - 1)) = n
    BY FS_Interval
  <1>4. IsFiniteSet(Range(f)) /\ Cardinality(Range(f)) <= n
    BY <1>1, <1>2, FS_Surjection
  <1>5. 0..(n - 1) \in SUBSET Range(f)
    BY DEF Range
  <1>6. /\ Cardinality(0..(n - 1)) <= Cardinality(Range(f))
        /\ Cardinality(Range(f)) = Cardinality(0..(n - 1)) => Range(f) = 0..(n - 1)
    BY <1>4, <1>5, FS_Subset
  <1>7. Cardinality(Range(f)) \in Nat
    BY <1>4, FS_CardinalityType
  <1> QED
    BY <1>3, <1>4, <1>6, <1>7

LEMMA ContiguousIsValid ==
    ASSUME NEW u \in UploadType, Len(u.page_indexes) = Len(u.files)
    PROVE  Contiguous(u) <=>
              \A page \in Pages(u) : \E n \in DOMAIN u.page_indexes : u.page_indexes[n] = page
  <1> DEFINE n == Len(u.files)
  <1>1. n \in Nat /\ u.page_indexes \in [1..n -> Int] /\ DOMAIN u.page_indexes = 1..n
    BY DEF UploadType
  <1>2. Contiguous(u) => \A page \in Pages(u) : \E k \in 1..n : u.page_indexes[k] = page
    BY <1>1 DEF Contiguous, Range
  <1>3. ASSUME \A page \in 0..(n - 1) : \E k \in 1..n : u.page_indexes[k] = page
        PROVE  Contiguous(u)
    BY <1>1, <1>3, AllPagesOnly DEF Contiguous, Pages
  <1> QED
    BY <1>1, <1>2, <1>3 DEF Pages

LEMMA AdmissibleIsValid == \A u \in Uploads : Admissible(u) <=> Valid(u)
  <1> SUFFICES ASSUME NEW u \in Uploads PROVE Admissible(u) <=> Valid(u)
    OBVIOUS
  <1>1. u \in UploadType
    BY UploadAssumption
  <1>2. /\ u.files \in Seq(Files) /\ u.page_indexes \in Seq(Int) /\ u.body \in Nat
        /\ u.input_kind \in {"pdf", "images", "invalid"}
    BY <1>1 DEF UploadType
  <1>3. Len(u.files) \in Nat /\ DOMAIN u.files = 1..Len(u.files)
        /\ (u.files = <<>> <=> Len(u.files) = 0)
    BY <1>2
  <1>4. ASSUME NEW n \in DOMAIN u.files PROVE u.files[n].size \in Nat
    <2>1. u.files[n] \in Files
      BY <1>2, <1>4
    <2> QED
      BY <2>1 DEF Files
  <1>5. ChecksPass(u) <=>
           /\ u.keyed /\ u.body <= MaxSubmissionBytes
           /\ FieldsValid(u)
           /\ Images(u) =>
                 /\ Len(u.files) \in 1..MaxImagePages
                 /\ Len(u.page_indexes) = Len(u.files)
                 /\ \A page \in Pages(u) : \E n \in DOMAIN u.page_indexes : u.page_indexes[n] = page
           /\ Pdf(u) => Len(u.files) = 1 /\ u.page_indexes = <<>>
    <2>1. FieldsValid(u) => Pdf(u) \/ Images(u)
      BY <1>2 DEF FieldsValid, Pdf, Images
    <2>2. ~(u.body > MaxSubmissionBytes) <=> u.body <= MaxSubmissionBytes
      BY <1>2, LimitAssumption
    <2>3. u.files # <<>> /\ ~(Len(u.files) > MaxImagePages) <=> Len(u.files) \in 1..MaxImagePages
      BY <1>3, LimitAssumption
    <2>4. Len(u.files) = 1 => u.files # <<>>
      BY <1>3
    <2>5. ASSUME Len(u.page_indexes) = Len(u.files)
          PROVE  Contiguous(u) <=>
             \A page \in Pages(u) : \E n \in DOMAIN u.page_indexes : u.page_indexes[n] = page
      BY <1>1, <2>5, ContiguousIsValid
    <2> QED
      BY <2>1, <2>2, <2>3, <2>4, <2>5 DEF ChecksPass
  <1>6. ASSUME NEW n \in DOMAIN u.files, u.body <= MaxSubmissionBytes
        PROVE  Failed(FileChecks(u, n)) = {} <=>
                  /\ u.files[n].size \in 1..MaxFileBytes
                  /\ u.files[n].media \in (IF Pdf(u) THEN {"pdf"} ELSE {"jpeg", "png"})
    <2>1. u.files[n].size \in 1..MaxFileBytes
             <=> ~(u.files[n].size = 0) /\ ~(u.files[n].size > MaxFileBytes)
      BY <1>4, <1>6, LimitAssumption
    <2>2. ~(Total(u, n) > MaxSubmissionBytes)
      <3>1. Total(u, n) \in 0..u.body
        BY <1>6, UploadAssumption
      <3> QED
        BY <1>2, <1>6, <3>1, LimitAssumption
    <2> QED
      BY <2>1, <2>2, FilePasses
  <1> QED
    BY <1>5, <1>6, SubmissionPasses DEF Admissible, Valid

LEMMA PagesOfValid ==
    ASSUME NEW u \in Uploads, Valid(u)
    PROVE  {page[1] : page \in Document(u).pages} = Pages(u)
  <1>1. u \in UploadType /\ u.input_kind \in {"pdf", "images", "invalid"}
    BY UploadAssumption DEF UploadType
  <1>2. CASE Pdf(u)
    <2>1. Document(u).pages = {<<0, u.files[1]>>}
      BY <1>2 DEF Document
    <2>2. Len(u.files) = 1
      BY <1>2 DEF Valid
    <2>3. Pages(u) = {0}
      BY <2>2 DEF Pages
    <2>4. <<0, u.files[1]>>[1] = 0
      OBVIOUS
    <2> QED
      BY <2>1, <2>3, <2>4
  <1>3. CASE Images(u)
    <2>1. Range(u.page_indexes) = Pages(u)
      BY <1>1, <1>3, ContiguousIsValid DEF Valid, Contiguous
    <2>2. Document(u).pages = {<<u.page_indexes[n], u.files[n]>> : n \in DOMAIN u.files}
      BY <1>3 DEF Images, Pdf, Document
    <2>3. DOMAIN u.files = DOMAIN u.page_indexes
      BY <1>1, <1>3 DEF Valid, UploadType
    <2>4. {page[1] : page \in Document(u).pages} = {u.page_indexes[n] : n \in DOMAIN u.page_indexes}
      <3> DEFINE at(n) == <<u.page_indexes[n], u.files[n]>>
      <3>1. \A n : at(n)[1] = u.page_indexes[n]
        OBVIOUS
      <3>2. Document(u).pages = {at(n) : n \in DOMAIN u.page_indexes}
        BY <2>2, <2>3
      <3> HIDE DEF at
      <3> QED
        BY <3>1, <3>2
    <2> QED
      BY <2>1, <2>4 DEF Range
  <1> QED
    BY <1>1, <1>2, <1>3 DEF Valid, FieldsValid, Pdf, Images

(* What was sent is passed on exactly when the checks pass.                *)
AdmitInv ==
    /\ sent \in [Requests -> Uploads \union {Null}]
    /\ \A r \in Requests : /\ sent[r] = Null => asked[r] = Null
                           /\ sent[r] # Null => (asked[r] # Null <=> Admissible(sent[r]))

LEMMA AdmitStep == ASSUME TypeOK, AdmitInv, [IntakeNext]_intakeVars PROVE AdmitInv'
  <1>1. ASSUME NEW r \in Requests, Refuse(r) PROVE AdmitInv'
    BY <1>1, UploadAssumption DEF Refuse, AdmitInv, vars
  <1>2. ASSUME NEW r \in Requests, Admit(r) PROVE AdmitInv'
    <2>1. PICK u \in Uploads, k \in Keys :
             /\ Admissible(u)
             /\ sent' = [sent EXCEPT ![r] = u]
             /\ asked' = [asked EXCEPT ![r] = [key |-> k, print |-> Fingerprint(u)]]
      BY <1>2 DEF Admit
    <2>2. [key |-> k, print |-> Fingerprint(u)] # Null
      BY <2>1, PrintAssumption, NullAssumption DEF Input
    <2> QED
      BY <2>1, <2>2, UploadAssumption DEF AdmitInv, TypeOK
  <1>3. ASSUME Serve PROVE UNCHANGED <<asked, sent>>
    BY <1>3, ServeKeeps
  <1> QED
    BY <1>1, <1>2, <1>3 DEF IntakeNext, intakeVars, vars, AdmitInv

(* The service receives a submission if and only if the contract allows    *)
(* it, and every page of what it receives is one file, from zero on.       *)
THEOREM AdmissionCorrect == IntakeSpec => []AdmittedIsValid
  <1>1. IntakeInit => AdmitInv
    BY DEF IntakeInit, Init, AdmitInv
  <1>2. TypeOK /\ AdmitInv /\ [IntakeNext]_intakeVars => AdmitInv'
    BY AdmitStep
  <1>3. ASSUME AdmitInv PROVE AdmittedIsValid
    <2> SUFFICES ASSUME NEW r \in Requests, sent[r] # Null
                 PROVE  /\ asked[r] # Null <=> Valid(sent[r])
                        /\ asked[r] # Null =>
                              {page[1] : page \in Document(sent[r]).pages} = Pages(sent[r])
      BY DEF AdmittedIsValid
    <2>1. sent[r] \in Uploads /\ (asked[r] # Null <=> Admissible(sent[r]))
      BY <1>3 DEF AdmitInv
    <2> QED
      BY <2>1, AdmissibleIsValid, PagesOfValid
  <1>4. IntakeSpec => []TypeOK
    BY IntakeServes, TypeCorrect, PTL
  <1> QED
    BY <1>1, <1>2, <1>3, <1>4, PTL DEF IntakeSpec
=============================================================================
