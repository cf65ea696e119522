------------------------ MODULE AnalysisWorkerProofs ------------------------
(* Theorems about the worker of AnalysisWorker, for all constants.         *)
EXTENDS AnalysisWorker, SequenceTheorems, FiniteSetTheorems, TLAPS

USE DEF tables, locals, history

(* The rows the worker writes are rows.                                    *)
LEMMA RowTypes ==
    /\ \A a, d \in Nat : TimeLeft(d, a) \in Nat
    /\ \A stamp \in Nat, status \in Status : NewRow(status, stamp) \in Row
    /\ \A row \in Row, a \in Nat : ClaimedRow(row, a) \in Row
    /\ \A row \in Row : Older(row) \in Row
    /\ \A row \in Row, s \in Snapshot, out \in Outcome, a \in Nat :
          FinishedRow(row, s, out, a) \in Row
  <1>1. \A a, d \in Nat : TimeLeft(d, a) \in Nat
    BY DEF TimeLeft, Max2
  <1>2. \A stamp \in Nat, status \in Status : NewRow(status, stamp) \in Row
    BY DEF NewRow, Row
  <1>3. ASSUME NEW row \in Row, NEW a \in Nat PROVE ClaimedRow(row, a) \in Row
    BY <1>1, ConfigAssumption DEF ClaimedRow, Row, Status
  <1>4. ASSUME NEW row \in Row PROVE Older(row) \in Row
    <2>1. \A t \in Nat \union {Null} : Elapse(t) \in Nat \union {Null}
      BY DEF Elapse
    <2> QED
      BY <2>1 DEF Older, Row
  <1>5. ASSUME NEW row \in Row, NEW s \in Snapshot, NEW out \in Outcome, NEW a \in Nat
        PROVE  FinishedRow(row, s, out, a) \in Row
    <2>1. StatusAfter(out, s.attempt) \in Status
      BY DEF StatusAfter, Status
    <2>2. Written(s.status, StatusAfter(out, s.attempt), row.status) \in Status
      BY <2>1 DEF Written, Row
    <2>3. out.code \in FailureCode \union {Null}
      BY DEF Outcome
    <2>4. Written(s.failure, out.code, row.failure) \in FailureCode \union {Null}
      BY <2>3 DEF Written, Row
    <2>5. TimeLeft(RetryDelay, a) \in Nat
      BY <1>1, ConfigAssumption
    <2> QED
      BY <2>2, <2>4, <2>5 DEF FinishedRow, LeaseAfter, FailureAfter, Row
  <1> QED
    BY <1>1, <1>2, <1>3, <1>4, <1>5

LEMMA SnapshotTypes ==
    /\ \A s \in Snapshot, row \in Row : LoadRow(s, row) \in Snapshot
    /\ \A s \in Snapshot, n \in Nat, input \in [ttl : Nat, deleted : BOOLEAN, file : BOOLEAN] :
          LoadAttempt(s, n, input) \in Snapshot
  BY DEF Snapshot, Row, LoadRow, LoadAttempt

LEMMA SeqExcept ==
    ASSUME NEW S, NEW seq \in Seq(S), NEW n, NEW e \in S
    PROVE  [seq EXCEPT ![n] = e] \in Seq(S)
  <1>1. PICK k \in Nat : seq \in [1..k -> S]
    BY SeqDef
  <1>2. [seq EXCEPT ![n] = e] \in [1..k -> S]
    BY <1>1
  <1> QED
    BY <1>2, SeqDef

(* What leaving an operation does to a worker's locals.                    *)
LEMMA LeaveType ==
    ASSUME TypeOK, NEW w \in Workers, NEW where \in {"idle"} \union Down, Leave(w, where)
    PROVE  LocalsTypeOK' /\ PhaseOK'
  <1> USE DEF Leave, TypeOK, Down, PCs, Working
  <1>1. LocalsTypeOK'
    BY DEF LocalsTypeOK, Snapshot, Unseen, Status
  <1>2. PhaseOK'
    BY DEF LocalsTypeOK, PhaseOK
  <1> QED
    BY <1>1, <1>2

LEMMA FailureType ==
    ASSUME NEW code \in FailureCode, NEW retryable \in BOOLEAN
    PROVE  Failure(code, retryable) \in Outcome
  BY DEF Failure, Outcome

(* An exception of process_one leaves well-typed locals.                   *)
LEMMA HandleType ==
    ASSUME TypeOK, NEW w \in Workers, NEW code \in WorkerCodes, pc[w] \in Working,
           Handle(w, code), UNCHANGED <<job, own>>, age' \in [Workers -> Nat]
    PROVE  LocalsTypeOK' /\ PhaseOK'
  <1>1. Failure(code, code = "internal_error") \in Outcome
    BY FailureType DEF FailureCode
  <1>2. LocalsTypeOK'
    BY <1>1 DEF TypeOK, LocalsTypeOK, Handle, Snapshot, Unseen, Status, PCs, Working
  <1>3. PhaseOK'
    BY <1>1, NullAssumption DEF TypeOK, LocalsTypeOK, PhaseOK, Handle, Working
  <1> QED
    BY <1>2, <1>3

LEMMA RaiseType ==
    ASSUME TypeOK, NEW w \in Workers, pc[w] \in Working, Raise(w, "internal_error")
    PROVE  LocalsTypeOK' /\ PhaseOK'
  <1>1. CASE Leave(w, "exited")
    BY <1>1, LeaveType DEF Down
  <1>2. CASE Handle(w, "internal_error") /\ UNCHANGED <<job, age, own>>
    BY <1>2, HandleType DEF WorkerCodes, TypeOK, LocalsTypeOK
  <1> QED
    BY <1>1, <1>2 DEF Raise

(* What a commit of _finish writes.                                        *)
LEMMA WritesType ==
    ASSUME TypeOK, NEW w \in Workers, FinishWrites(w)
    PROVE  TablesTypeOK'
  <1> DEFINE op == job[w]
             s == seen[w]
             out == outcome[w]
  <1> USE DEF TypeOK
  <1>1. op \in Ops /\ out \in Outcome /\ s \in Snapshot /\ age[w] \in Nat
    BY DEF FinishWrites, PhaseOK, LocalsTypeOK, Working
  <1>2. operations' \in [Ops -> Row]
    BY <1>1, RowTypes DEF FinishWrites, TablesTypeOK
  <1>3. AttemptResult(out) \in AttemptOutcome
    BY <1>1 DEF AttemptResult, AttemptOutcome, Outcome
  <1>4. attempts' \in [Ops -> Seq(AttemptOutcome)]
    <2>1. attempts' = [attempts EXCEPT ![op] = [attempts[op] EXCEPT ![s.attempt] = AttemptResult(out)]]
      BY DEF FinishWrites
    <2>2. [attempts[op] EXCEPT ![s.attempt] = AttemptResult(out)] \in Seq(AttemptOutcome)
      BY <1>1, <1>3, SeqExcept DEF TablesTypeOK
    <2> QED
      BY <1>1, <2>1, <2>2 DEF TablesTypeOK
  <1>5. UsageEvents(out) \in Nat
    BY DEF UsageEvents
  <1>6. usage' \in [Ops -> Nat]
    BY <1>1, <1>5 DEF FinishWrites, TablesTypeOK
  <1>7. inputs' \in [Ops -> [ttl : Nat, deleted : BOOLEAN, file : BOOLEAN]]
    BY <1>1 DEF FinishWrites, Releases, TablesTypeOK, Snapshot
  <1>8. results' \subseteq Ops
    BY <1>1 DEF FinishWrites, TablesTypeOK
  <1> QED
    BY <1>2, <1>4, <1>6, <1>7, <1>8 DEF TablesTypeOK

THEOREM TypeInit == Init => TypeOK
  <1> SUFFICES ASSUME Init PROVE TypeOK
    OBVIOUS
  <1>1. TablesTypeOK
    BY RowTypes DEF Init, TablesTypeOK, Status
  <1>2. LocalsTypeOK
    BY DEF Init, LocalsTypeOK, Snapshot, Unseen, Status, PCs
  <1>3. HistoryTypeOK /\ PhaseOK
    BY DEF Init, HistoryTypeOK, PhaseOK, Working
  <1> QED
    BY <1>1, <1>2, <1>3 DEF TypeOK

THEOREM TypeStep == TypeOK /\ [Next]_vars => TypeOK'
  <1> SUFFICES ASSUME TypeOK, [Next]_vars PROVE TypeOK'
    OBVIOUS
  <1> USE DEF TypeOK
  <1>1. ASSUME NEW op \in Ops, Submit(op) PROVE TypeOK'
    <2>1. PICK stamp \in Stamps : operations' = [operations EXCEPT ![op] = NewRow("accepted", stamp)]
      BY <1>1 DEF Submit
    <2>2. NewRow("accepted", stamp) \in Row
      BY RowTypes, ConfigAssumption DEF Status
    <2>3. TablesTypeOK'
      BY <1>1, <2>1, <2>2, ConfigAssumption DEF Submit, TablesTypeOK
    <2> QED
      BY <1>1, <2>3 DEF Submit, LocalsTypeOK, HistoryTypeOK, PhaseOK
  <1>2. ASSUME NEW w \in Workers, NEW op \in Ops, ClaimSelect(w, op) PROVE TypeOK'
    BY <1>2, NullAssumption
    DEF ClaimSelect, Proceed, PCs, Working, TablesTypeOK, LocalsTypeOK, HistoryTypeOK, PhaseOK
  <1>3. ASSUME NEW w \in Workers, ClaimCommit(w) PROVE TypeOK'
    <2>1. job[w] \in Ops
      BY <1>3 DEF ClaimCommit, Proceed, PhaseOK, LocalsTypeOK
    <2>2. operations' \in [Ops -> Row]
      BY <1>3, <2>1, RowTypes DEF ClaimCommit, TablesTypeOK, LocalsTypeOK
    <2>3. attempts' \in [Ops -> Seq(AttemptOutcome)]
      BY <1>3, <2>1 DEF ClaimCommit, TablesTypeOK, AttemptOutcome
    <2>4. LocalsTypeOK' /\ PhaseOK'
      BY <1>3, <2>1 DEF ClaimCommit, Proceed, LocalsTypeOK, PhaseOK, PCs, Working, TablesTypeOK
    <2> QED
      BY <1>3, <2>2, <2>3, <2>4 DEF ClaimCommit, TablesTypeOK, HistoryTypeOK
  <1>4. ASSUME NEW w \in Workers, CheckInput(w) PROVE TypeOK'
    <2>1. age' \in [Workers -> Nat] /\ pc[w] \in Working
      BY <1>4 DEF CheckInput, LocalsTypeOK, Working
    <2>2. TablesTypeOK' /\ HistoryTypeOK'
      BY <1>4 DEF CheckInput, TablesTypeOK, HistoryTypeOK
    <2>3. CASE Handle(w, "missing_temporary_input")
      BY <1>4, <2>1, <2>2, <2>3, HandleType DEF CheckInput, WorkerCodes
    <2>4. CASE Proceed(w, "claimed", "loading") /\ UNCHANGED <<outcome, inHandler, seen>>
      BY <1>4, <2>1, <2>2, <2>4 DEF CheckInput, Proceed, LocalsTypeOK, PhaseOK, PCs, Working
    <2> QED
      BY <1>4, <2>3, <2>4 DEF CheckInput
  <1>5. ASSUME NEW w \in Workers, LoadDocument(w) PROVE TypeOK'
    <2>1. age' \in [Workers -> Nat] /\ pc[w] \in Working
      BY <1>5 DEF LoadDocument, LocalsTypeOK, Working
    <2>2. TablesTypeOK' /\ HistoryTypeOK'
      BY <1>5 DEF LoadDocument, TablesTypeOK, HistoryTypeOK
    <2>3. CASE Handle(w, "missing_temporary_input")
      BY <1>5, <2>1, <2>2, <2>3, HandleType DEF LoadDocument, WorkerCodes
    <2>4. CASE Proceed(w, "loading", "executing") /\ UNCHANGED <<outcome, inHandler, seen>>
      BY <1>5, <2>1, <2>2, <2>4 DEF LoadDocument, Proceed, LocalsTypeOK, PhaseOK, PCs, Working
    <2> QED
      BY <1>5, <2>3, <2>4 DEF LoadDocument
  <1>6. ASSUME NEW w \in Workers, Execute(w) PROVE TypeOK'
    <2>1. PICK out \in ExecutorOutcomes :
            /\ outcome' = [outcome EXCEPT ![w] = Checked(out)]
            /\ billed' = [billed EXCEPT ![job[w]] = @ + (IF out.usage THEN 1 ELSE 0)]
      BY <1>6 DEF Execute, ExecuteReturns
    <2>2. Checked(out) \in Outcome
      BY OutcomeAssumption, FailureType DEF Checked, FailureCode, WorkerCodes
    <2>3. job[w] \in Ops
      BY <1>6 DEF Execute, ExecuteReturns, Proceed, PhaseOK, LocalsTypeOK, Working
    <2>4. TablesTypeOK' /\ HistoryTypeOK'
      BY <1>6, <2>1, <2>3 DEF Execute, ExecuteReturns, TablesTypeOK, HistoryTypeOK
    <2>5. LocalsTypeOK' /\ PhaseOK'
      BY <1>6, <2>1, <2>2, NullAssumption
      DEF Execute, ExecuteReturns, Proceed, LocalsTypeOK, PhaseOK, PCs, Working
    <2> QED
      BY <2>4, <2>5
  <1>7. ASSUME NEW w \in Workers, ExecuteRaises(w) PROVE TypeOK'
    BY <1>7, HandleType
    DEF ExecuteRaises, WorkerCodes, Working, TablesTypeOK, LocalsTypeOK, HistoryTypeOK
  <1>8. ASSUME NEW w \in Workers, ReadOperation(w) PROVE TypeOK'
    <2>1. job[w] \in Ops
      BY <1>8 DEF ReadOperation, Proceed, PhaseOK, LocalsTypeOK, Working
    <2>2. seen' \in [Workers -> Snapshot]
      BY <1>8, <2>1, SnapshotTypes DEF ReadOperation, TablesTypeOK, LocalsTypeOK
    <2> QED
      BY <1>8, <2>2
      DEF ReadOperation, Proceed, PCs, Working, TablesTypeOK, LocalsTypeOK, HistoryTypeOK, PhaseOK
  <1>9. ASSUME NEW w \in Workers, ReadAttempt(w) PROVE TypeOK'
    <2>1. job[w] \in Ops
      BY <1>9 DEF ReadAttempt, Proceed, PhaseOK, LocalsTypeOK, Working
    <2>2. seen' \in [Workers -> Snapshot]
      BY <1>9, <2>1, SnapshotTypes DEF ReadAttempt, OpenAttempts, TablesTypeOK, LocalsTypeOK
    <2> QED
      BY <1>9, <2>2
      DEF ReadAttempt, Proceed, PCs, Working, TablesTypeOK, LocalsTypeOK, HistoryTypeOK, PhaseOK
  <1>10. ASSUME NEW w \in Workers, NoSingleAttempt(w) PROVE TypeOK'
    BY <1>10, RaiseType
    DEF NoSingleAttempt, Working, TablesTypeOK, HistoryTypeOK
  <1>11. ASSUME NEW w \in Workers, FinishCommit(w) PROVE TypeOK'
    <2>1. TablesTypeOK' /\ HistoryTypeOK'
      BY <1>11, WritesType DEF FinishCommit, HistoryTypeOK
    <2>2. CASE Leave(w, "idle")
      BY <2>1, <2>2, LeaveType
    <2>3. CASE Proceed(w, "committing", "deleting") /\ UNCHANGED <<job, age, outcome, inHandler, seen, own>>
      BY <2>1, <2>3 DEF Proceed, LocalsTypeOK, PhaseOK, PCs, Working
    <2> QED
      BY <1>11, <2>2, <2>3 DEF FinishCommit
  <1>12. ASSUME NEW w \in Workers, FinishConflict(w) PROVE TypeOK'
    BY <1>12, RaiseType
    DEF FinishConflict, Working, TablesTypeOK, HistoryTypeOK
  <1>13. ASSUME NEW w \in Workers, DeleteInput(w) PROVE TypeOK'
    <2>1. TablesTypeOK' /\ HistoryTypeOK'
      BY <1>13 DEF DeleteInput, TablesTypeOK, HistoryTypeOK
    <2> QED
      BY <1>13, <2>1, LeaveType DEF DeleteInput
  <1>14. ASSUME NEW w \in Workers, DeleteFails(w) PROVE TypeOK'
    BY <1>14, LeaveType DEF DeleteFails, TablesTypeOK, HistoryTypeOK
  <1>15. ASSUME NEW w \in Workers, Crash(w) PROVE TypeOK'
    BY <1>15, LeaveType DEF Crash, Fault, Down, TablesTypeOK, HistoryTypeOK
  <1>16. ASSUME NEW w \in Workers, DatabaseFails(w) PROVE TypeOK'
    <2>1. TablesTypeOK' /\ HistoryTypeOK'
      BY <1>16 DEF DatabaseFails, Fault, TablesTypeOK, HistoryTypeOK
    <2>2. CASE Leave(w, "exited")
      BY <2>1, <2>2, LeaveType DEF Down
    <2>3. CASE /\ pc[w] = "claimed"
               /\ Handle(w, "internal_error")
               /\ age' = [age EXCEPT ![w] = 0]
               /\ UNCHANGED <<job, own>>
      BY <2>1, <2>3, HandleType DEF Working, WorkerCodes, LocalsTypeOK
    <2>4. CASE pc[w] \in {"finishing", "reading", "committing"} /\ Raise(w, "internal_error")
      BY <2>1, <2>4, RaiseType DEF Working
    <2> QED
      BY <1>16, <2>2, <2>3, <2>4 DEF DatabaseFails
  <1>17. ASSUME NEW w \in Workers, Restart(w) PROVE TypeOK'
    BY <1>17, LeaveType DEF Restart, TablesTypeOK, HistoryTypeOK
  <1>18. CASE Tick
    <2>1. operations' \in [Ops -> Row]
      BY <1>18, RowTypes DEF Tick, TablesTypeOK
    <2>2. inputs' \in [Ops -> [ttl : Nat, deleted : BOOLEAN, file : BOOLEAN]]
      <3>1. \A t \in Nat : Elapse(t) \in Nat
        BY DEF Elapse
      <3> QED
        BY <1>18, <3>1 DEF Tick, TablesTypeOK
    <2>3. age' \in [Workers -> Nat]
      BY <1>18 DEF Tick, LocalsTypeOK
    <2> QED
      BY <1>18, <2>1, <2>2, <2>3 DEF Tick, TablesTypeOK, LocalsTypeOK, HistoryTypeOK, PhaseOK
  <1>19. ASSUME NEW w \in Workers, FinishUnacknowledged(w) PROVE TypeOK'
    <2>1. TablesTypeOK' /\ HistoryTypeOK'
      BY <1>19, WritesType DEF FinishUnacknowledged, Fault, HistoryTypeOK
    <2>2. LocalsTypeOK' /\ PhaseOK'
      BY <1>19, RaiseType DEF FinishUnacknowledged, FinishWrites, Working
    <2> QED
      BY <2>1, <2>2
  <1>20. CASE UNCHANGED vars
    BY <1>20 DEF vars, TablesTypeOK, LocalsTypeOK, HistoryTypeOK, PhaseOK
  <1> QED
    BY <1>1, <1>2, <1>3, <1>4, <1>5, <1>6, <1>7, <1>8, <1>9, <1>10, <1>11, <1>12, <1>13, <1>14,
       <1>15, <1>16, <1>17, <1>18, <1>19, <1>20
    DEF Next, WorkerStep, Finish

(* Every reachable state is well typed.                                    *)
THEOREM TypeCorrect == Spec => []TypeOK
  BY TypeInit, TypeStep, PTL DEF Spec
-----------------------------------------------------------------------------
(* Most steps of a worker touch no table: the worker leaves its operation, *)
(* or moves on within the attempt it keeps.                                *)
LocalStep(w) ==
    /\ UNCHANGED tables
    /\ \A v \in Workers \ {w} :
          /\ pc'[v] = pc[v] /\ job'[v] = job[v] /\ outcome'[v] = outcome[v]
          /\ seen'[v] = seen[v] /\ own'[v] = own[v] /\ age'[v] = age[v]
    /\ \/ pc'[w] \in {"idle"} \union Down /\ job'[w] = Null
       \/ /\ pc[w] \in Working /\ pc'[w] \in {"loading", "executing", "finishing"}
          /\ job'[w] = job[w] /\ own'[w] = own[w]

LEMMA LeaveIsLocal ==
    ASSUME TypeOK, NEW w \in Workers, NEW where \in {"idle"} \union Down,
           Leave(w, where), UNCHANGED tables
    PROVE  LocalStep(w)
  BY DEF LocalStep, Leave, TypeOK, LocalsTypeOK

LEMMA HandleIsLocal ==
    ASSUME TypeOK, NEW w \in Workers, NEW code, pc[w] \in Working,
           Handle(w, code), UNCHANGED <<tables, job, own>>,
           \A v \in Workers \ {w} : age'[v] = age[v]
    PROVE  LocalStep(w)
  BY DEF LocalStep, Handle, TypeOK, LocalsTypeOK

LEMMA RaiseIsLocal ==
    ASSUME TypeOK, NEW w \in Workers, NEW code, pc[w] \in Working,
           Raise(w, code), UNCHANGED tables
    PROVE  LocalStep(w)
  BY LeaveIsLocal, HandleIsLocal DEF Raise, Down

(* A commit of _finish, acknowledged or not, and where it leaves its       *)
(* worker: in the directory to delete, in no operation, or, after a lost   *)
(* acknowledgement, in the except branch.                                  *)
Commits(w) ==
    /\ FinishWrites(w)
    /\ \A v \in Workers \ {w} :
          /\ pc'[v] = pc[v] /\ job'[v] = job[v] /\ outcome'[v] = outcome[v]
          /\ seen'[v] = seen[v] /\ own'[v] = own[v] /\ age'[v] = age[v]
    /\ \/ pc'[w] = "deleting" /\ job'[w] = job[w] /\ Releases(w)
       \/ pc'[w] \in {"idle"} \union Down /\ job'[w] = Null
       \/ pc'[w] = "finishing" /\ job'[w] = job[w] /\ ~Acknowledged' /\ MayLoseAck

LEMMA CommitCases ==
    ASSUME TypeOK, NEW w \in Workers, FinishCommit(w) \/ FinishUnacknowledged(w)
    PROVE  Commits(w)
  <1>1. CASE FinishCommit(w)
    <2>1. CASE Leave(w, "idle")
      BY <1>1, <2>1 DEF Commits, FinishCommit, Leave, TypeOK, LocalsTypeOK
    <2>2. CASE /\ Releases(w)
               /\ Proceed(w, "committing", "deleting")
               /\ UNCHANGED <<job, age, outcome, inHandler, seen, own>>
      BY <1>1, <2>2 DEF Commits, FinishCommit, Proceed, TypeOK, LocalsTypeOK
    <2> QED
      BY <1>1, <2>1, <2>2 DEF FinishCommit
  <1>2. CASE FinishUnacknowledged(w)
    <2>1. CASE Leave(w, "exited")
      BY <1>2, <2>1 DEF Commits, FinishUnacknowledged, Leave, Down, TypeOK, LocalsTypeOK
    <2>2. CASE Handle(w, "internal_error") /\ UNCHANGED <<job, age, own>>
      BY <1>2, <2>2
      DEF Commits, FinishUnacknowledged, Acknowledged, Handle, TypeOK, LocalsTypeOK, HistoryTypeOK
    <2> QED
      BY <1>2, <2>1, <2>2 DEF FinishUnacknowledged, Raise
  <1> QED
    BY <1>1, <1>2

(* Lost acknowledgements are counted.                                      *)
LEMMA AcksGrow ==
    ASSUME TypeOK, [Next]_vars
    PROVE  /\ Acknowledged' => Acknowledged
           /\ ~MayLoseAck /\ Acknowledged => Acknowledged'
  <1>1. ASSUME NEW op \in Ops, Submit(op) PROVE acksLost' = acksLost
    BY <1>1 DEF Submit
  <1>2. ASSUME NEW w \in Workers,
               \/ \E op \in Ops : ClaimSelect(w, op)
               \/ ClaimCommit(w) \/ CheckInput(w) \/ LoadDocument(w) \/ ExecuteRaises(w)
        PROVE  acksLost' = acksLost
    BY <1>2 DEF ClaimSelect, ClaimCommit, CheckInput, LoadDocument, ExecuteRaises
  <1>3. ASSUME NEW w \in Workers, Execute(w) PROVE acksLost' = acksLost
    BY <1>3 DEF Execute, ExecuteReturns
  <1>4. ASSUME NEW w \in Workers, Finish(w) PROVE acksLost' = acksLost
    BY <1>4
    DEF Finish, ReadOperation, ReadAttempt, NoSingleAttempt, FinishCommit, FinishConflict
  <1>5. ASSUME NEW w \in Workers,
               DeleteInput(w) \/ DeleteFails(w) \/ Restart(w) \/ Crash(w) \/ DatabaseFails(w)
        PROVE  acksLost' = acksLost
    BY <1>5 DEF DeleteInput, DeleteFails, Restart, Crash, DatabaseFails
  <1>6. ASSUME NEW w \in Workers, FinishUnacknowledged(w) PROVE acksLost' = acksLost + 1 /\ MayLoseAck
    BY <1>6 DEF FinishUnacknowledged
  <1>7. Tick \/ UNCHANGED vars => acksLost' = acksLost
    BY DEF Tick, vars
  <1>8. acksLost' = acksLost \/ (acksLost' = acksLost + 1 /\ MayLoseAck)
    BY <1>1, <1>2, <1>3, <1>4, <1>5, <1>6, <1>7 DEF Next, WorkerStep
  <1> QED
    BY <1>8 DEF Acknowledged, TypeOK, HistoryTypeOK

(* The steps that matter to the tables.                                    *)
LEMMA NextCases ==
    ASSUME TypeOK, Next
    PROVE  \/ \E op \in Ops : Submit(op)
           \/ Tick
           \/ \E w \in Workers :
                 \/ \E op \in Ops : ClaimSelect(w, op)
                 \/ ClaimCommit(w) \/ ReadOperation(w) \/ ReadAttempt(w)
                 \/ Commits(w) \/ DeleteInput(w) \/ LocalStep(w)
  <1>1. ASSUME NEW w \in Workers, CheckInput(w) PROVE LocalStep(w)
    <2>1. CASE Handle(w, "missing_temporary_input")
      BY <1>1, <2>1, HandleIsLocal DEF CheckInput, Working, TypeOK, LocalsTypeOK
    <2>2. CASE Proceed(w, "claimed", "loading") /\ UNCHANGED <<outcome, inHandler, seen>>
      BY <1>1, <2>2 DEF CheckInput, Proceed, LocalStep, Working, TypeOK, LocalsTypeOK
    <2> QED
      BY <1>1, <2>1, <2>2 DEF CheckInput
  <1>2. ASSUME NEW w \in Workers, LoadDocument(w) PROVE LocalStep(w)
    <2>1. CASE Handle(w, "missing_temporary_input")
      BY <1>2, <2>1, HandleIsLocal DEF LoadDocument, Working
    <2>2. CASE Proceed(w, "loading", "executing") /\ UNCHANGED <<outcome, inHandler, seen>>
      BY <1>2, <2>2 DEF LoadDocument, Proceed, LocalStep, Working, TypeOK, LocalsTypeOK
    <2> QED
      BY <1>2, <2>1, <2>2 DEF LoadDocument
  <1>3. ASSUME NEW w \in Workers, Execute(w) PROVE LocalStep(w)
    BY <1>3 DEF Execute, ExecuteReturns, Proceed, LocalStep, Working, TypeOK, LocalsTypeOK
  <1>4. ASSUME NEW w \in Workers, ExecuteRaises(w) PROVE LocalStep(w)
    BY <1>4, HandleIsLocal DEF ExecuteRaises, Working
  <1>5. ASSUME NEW w \in Workers, NoSingleAttempt(w) PROVE LocalStep(w)
    BY <1>5, RaiseIsLocal DEF NoSingleAttempt, Working
  <1>6. ASSUME NEW w \in Workers, FinishConflict(w) PROVE LocalStep(w)
    BY <1>6, RaiseIsLocal DEF FinishConflict, Working
  <1>7. ASSUME NEW w \in Workers, DeleteFails(w) \/ Restart(w) \/ Crash(w) PROVE LocalStep(w)
    BY <1>7, LeaveIsLocal DEF DeleteFails, Restart, Crash, Fault, Down
  <1>8. ASSUME NEW w \in Workers, DatabaseFails(w) PROVE LocalStep(w)
    BY <1>8, LeaveIsLocal, HandleIsLocal, RaiseIsLocal
    DEF DatabaseFails, Fault, Working, Down, TypeOK, LocalsTypeOK
  <1> QED
    BY <1>1, <1>2, <1>3, <1>4, <1>5, <1>6, <1>7, <1>8, CommitCases DEF Next, WorkerStep, Finish
-----------------------------------------------------------------------------
(* Results and inputs, whatever the timing.                                *)

(* The strengthening: a worker's operation exists; a worker that saw the   *)
(* input deleted, or that deletes the directory, is right that it is.      *)
InputInv ==
    /\ SucceededHasResult
    /\ TerminalReleasesInput
    /\ DirectoryOutlivesMark
    /\ \A w \in Workers :
          /\ job[w] # Null => operations[job[w]].status # "absent"
          /\ pc[w] = "committing" /\ ~seen[w].inputLive => inputs[job[w]].deleted
          /\ pc[w] = "deleting" => inputs[job[w]].deleted

(* Time changes no column but the timers, and never a NULL one.            *)
LEMMA TickFacts ==
    ASSUME TypeOK, Tick
    PROVE  \A op \in Ops :
              /\ operations'[op].status = operations[op].status
              /\ operations'[op].failure = operations[op].failure
              /\ operations'[op].lease = Null <=> operations[op].lease = Null
              /\ inputs'[op].deleted = inputs[op].deleted
              /\ inputs'[op].file = inputs[op].file
  <1> TAKE op \in Ops
  <1>1. operations[op] \in Row /\ operations'[op] = Older(operations[op])
    BY DEF Tick, TypeOK, TablesTypeOK
  <1>2. \A t \in Nat \union {Null} : Elapse(t) = Null <=> t = Null
    BY NullAssumption DEF Elapse
  <1>3. inputs'[op] = [inputs[op] EXCEPT !.ttl = Elapse(inputs[op].ttl)]
    BY DEF Tick
  <1> QED
    BY <1>1, <1>2, <1>3 DEF Older, Row, TypeOK, TablesTypeOK

LEMMA InputStep == TypeOK /\ InputInv /\ [Next]_vars => InputInv'
  <1> SUFFICES ASSUME TypeOK, InputInv, [Next]_vars PROVE InputInv'
    OBVIOUS
  <1> USE DEF InputInv, SucceededHasResult, TerminalReleasesInput, DirectoryOutlivesMark,
              TypeOK, TablesTypeOK, LocalsTypeOK, PhaseOK, Terminal
  <1>1. ASSUME NEW op \in Ops, Submit(op) PROVE InputInv'
    <2>1. PICK stamp \in Stamps : operations' = [operations EXCEPT ![op] = NewRow("accepted", stamp)]
      BY <1>1 DEF Submit
    <2>2. operations'[op].status = "accepted" /\ inputs'[op].file
      BY <1>1, <2>1 DEF Submit, NewRow
    <2>3. \A o \in Ops \ {op} : operations'[o] = operations[o] /\ inputs'[o] = inputs[o]
      BY <1>1, <2>1 DEF Submit
    <2>4. \A w \in Workers : job[w] # op
      BY <1>1, NullAssumption DEF Submit
    <2> QED
      BY <1>1, <2>2, <2>3, <2>4 DEF Submit, Working
  <1>2. ASSUME NEW w \in Workers, NEW op \in Ops, ClaimSelect(w, op) PROVE InputInv'
    BY <1>2 DEF ClaimSelect, Claimable, Proceed
  <1>3. ASSUME NEW w \in Workers, ClaimCommit(w) PROVE InputInv'
    BY <1>3 DEF ClaimCommit, ClaimedRow, Proceed, Row
  <1>4. ASSUME NEW w \in Workers, ReadOperation(w) PROVE InputInv'
    BY <1>4 DEF ReadOperation, Proceed
  <1>5. ASSUME NEW w \in Workers, ReadAttempt(w) PROVE InputInv'
    <2>1. PICK n \in OpenAttempts(job[w]) :
            seen' = [seen EXCEPT ![w] = LoadAttempt(@, n, inputs[job[w]])]
      BY <1>5 DEF ReadAttempt
    <2>2. seen'[w].inputLive = ~inputs[job[w]].deleted
      BY <2>1 DEF LoadAttempt, Snapshot
    <2> QED
      BY <1>5, <2>1, <2>2 DEF ReadAttempt, Proceed
  <1>6. ASSUME NEW w \in Workers, Commits(w) PROVE InputInv'
    <2> DEFINE op == job[w]
               s == seen[w]
               out == outcome[w]
    <2>1. op \in Ops /\ pc[w] = "committing"
      BY <1>6 DEF Commits, FinishWrites, Working
    <2>2. /\ operations'[op] = FinishedRow(operations[op], s, out, age[w])
          /\ \A o \in Ops \ {op} : operations'[o] = operations[o] /\ inputs'[o] = inputs[o]
      BY <1>6, <2>1 DEF Commits, FinishWrites
    <2>3. /\ inputs'[op].deleted = (inputs[op].deleted \/ (Ends(out, s.attempt) /\ s.inputLive))
          /\ inputs'[op].file = inputs[op].file
          /\ results \subseteq results' /\ (out.kind = "success" => op \in results')
      BY <1>6, <2>1 DEF Commits, FinishWrites, Releases
    <2>4. operations'[op].status \in {operations[op].status, StatusAfter(out, s.attempt)}
      BY <2>1, <2>2 DEF FinishedRow, Written, Row
    <2>5. StatusAfter(out, s.attempt) # "absent"
      BY DEF StatusAfter
    <2>6. StatusAfter(out, s.attempt) = "succeeded" => out.kind = "success"
      BY DEF StatusAfter
    <2>7. StatusAfter(out, s.attempt) \in Terminal => inputs'[op].deleted
      BY <2>1, <2>3 DEF Ends
    <2>8. SucceededHasResult'
      BY <2>2, <2>3, <2>4, <2>6
    <2>9. TerminalReleasesInput'
      BY <2>2, <2>3, <2>4, <2>7
    <2>10. DirectoryOutlivesMark'
      <3>1. operations[op].status # "absent"
        BY <2>1, NullAssumption
      <3> QED
        BY <2>1, <2>2, <2>3, <3>1
    <2>11. \A o \in Ops : /\ operations[o].status # "absent" => operations'[o].status # "absent"
                          /\ inputs[o].deleted => inputs'[o].deleted
      BY <2>2, <2>3, <2>4, <2>5
    <2>12. ASSUME NEW v \in Workers
           PROVE  /\ job'[v] # Null => operations'[job'[v]].status # "absent"
                  /\ pc'[v] = "committing" /\ ~seen'[v].inputLive => inputs'[job'[v]].deleted
                  /\ pc'[v] = "deleting" => inputs'[job'[v]].deleted
      <3>1. CASE v = w
        <4>1. job[w] # Null /\ operations[op].status # "absent"
          BY <2>1, NullAssumption
        <4>2. CASE pc'[w] = "deleting" /\ job'[w] = job[w] /\ Releases(w)
          BY <2>1, <2>3, <2>11, <3>1, <4>1, <4>2 DEF Releases
        <4>3. CASE pc'[w] \in {"idle"} \union Down /\ job'[w] = Null
          BY <3>1, <4>3 DEF Down
        <4>4. CASE pc'[w] = "finishing" /\ job'[w] = job[w]
          BY <2>1, <2>11, <3>1, <4>1, <4>4
        <4> QED
          BY <1>6, <4>2, <4>3, <4>4 DEF Commits
      <3>2. CASE v # w
        <4>1. pc'[v] = pc[v] /\ job'[v] = job[v] /\ seen'[v] = seen[v]
          BY <1>6, <3>2 DEF Commits
        <4>2. job[v] # Null => job[v] \in Ops
          OBVIOUS
        <4>3. pc[v] \in {"committing", "deleting"} => job[v] # Null
          BY DEF Working
        <4> QED
          BY <2>11, <4>1, <4>2, <4>3
      <3> QED
        BY <3>1, <3>2
    <2> QED
      BY <2>8, <2>9, <2>10, <2>12
  <1>7. ASSUME NEW w \in Workers, DeleteInput(w) PROVE InputInv'
    BY <1>7 DEF DeleteInput, Leave
  <1>8. ASSUME NEW w \in Workers, LocalStep(w) PROVE InputInv'
    <2>1. SucceededHasResult' /\ TerminalReleasesInput' /\ DirectoryOutlivesMark'
      BY <1>8 DEF LocalStep
    <2>2. pc'[w] \notin {"committing", "deleting"} /\ (job'[w] # Null => job'[w] = job[w])
      BY <1>8 DEF LocalStep, Down
    <2> QED
      <3> SUFFICES ASSUME NEW v \in Workers
                   PROVE  /\ job'[v] # Null => operations'[job'[v]].status # "absent"
                          /\ pc'[v] = "committing" /\ ~seen'[v].inputLive => inputs'[job'[v]].deleted
                          /\ pc'[v] = "deleting" => inputs'[job'[v]].deleted
        BY <2>1
      <3>1. CASE v = w
        BY <1>8, <2>2, <3>1 DEF LocalStep
      <3>2. CASE v # w
        BY <1>8, <3>2 DEF LocalStep
      <3> QED
        BY <3>1, <3>2
  <1>9. CASE Tick
    <2>1. \A op \in Ops : /\ operations'[op].status = operations[op].status
                         /\ inputs'[op].deleted = inputs[op].deleted
                         /\ inputs'[op].file = inputs[op].file
      BY <1>9, TickFacts
    <2>2. UNCHANGED <<results, pc, job, seen>>
      BY <1>9 DEF Tick
    <2>3. SucceededHasResult' /\ TerminalReleasesInput' /\ DirectoryOutlivesMark'
      BY <2>1, <2>2
    <2>4. ASSUME NEW v \in Workers
          PROVE  /\ job'[v] # Null => operations'[job'[v]].status # "absent"
                 /\ pc'[v] = "committing" /\ ~seen'[v].inputLive => inputs'[job'[v]].deleted
                 /\ pc'[v] = "deleting" => inputs'[job'[v]].deleted
      BY <2>1, <2>2, NullAssumption DEF Working
    <2> QED
      BY <2>3, <2>4
  <1>10. CASE UNCHANGED vars
    BY <1>10 DEF vars
  <1> QED
    BY <1>1, <1>2, <1>3, <1>4, <1>5, <1>6, <1>7, <1>8, <1>9, <1>10, NextCases

LEMMA InputInit == Init => InputInv
  BY NullAssumption
  DEF Init, InputInv, SucceededHasResult, TerminalReleasesInput, DirectoryOutlivesMark, NewRow,
      Terminal

LEMMA InputInvariant == Spec => []InputInv
  BY InputInit, InputStep, TypeCorrect, PTL DEF Spec

(* A succeeded operation has its result, whatever the timing and whatever  *)
(* fails.                                                                  *)
THEOREM ResultPresentCorrect == Spec => []SucceededHasResult
  <1>1. InputInv => SucceededHasResult
    BY DEF InputInv
  <1> QED
    BY <1>1, InputInvariant, PTL

(* An operation that ended has given its input up, ...                     *)
THEOREM ReleaseCorrect == Spec => []TerminalReleasesInput
  <1>1. InputInv => TerminalReleasesInput
    BY DEF InputInv
  <1> QED
    BY <1>1, InputInvariant, PTL

(* ... and no directory goes before its mark.                              *)
THEOREM DirectoryCorrect == Spec => []DirectoryOutlivesMark
  <1>1. InputInv => DirectoryOutlivesMark
    BY DEF InputInv
  <1> QED
    BY <1>1, InputInvariant, PTL
-----------------------------------------------------------------------------
(* Attempts and results, whatever the timing.                              *)

(* A worker's own attempt is open until the worker closes it, and no two   *)
(* workers share one.                                                      *)
OwnInv ==
    /\ \A w \in Workers :
          /\ pc[w] \in Working => own[w] \in OpenAttempts(job[w])
          /\ pc[w] = "committing" => seen[w].attempt = own[w]
    /\ \A v, w \in Workers :
          pc[v] \in Working /\ pc[w] \in Working /\ job[v] = job[w] /\ own[v] = own[w] => v = w

LEMMA WorkingJob ==
    ASSUME TypeOK, NEW w \in Workers, pc[w] \in Working \union {"claiming", "deleting"}
    PROVE  job[w] \in Ops
  BY DEF TypeOK, LocalsTypeOK, PhaseOK

LEMMA OwnKept ==
    ASSUME OwnInv, UNCHANGED attempts,
           \A v \in Workers :
              /\ pc'[v] \in Working => /\ pc[v] \in Working /\ job'[v] = job[v] /\ own'[v] = own[v]
              /\ pc'[v] = "committing" => pc[v] = "committing" /\ seen'[v] = seen[v]
    PROVE  OwnInv'
  BY DEF OwnInv, OpenAttempts, Working

LEMMA OwnStep == TypeOK /\ OwnInv /\ [Next]_vars /\ Acknowledged' => OwnInv'
  <1> SUFFICES ASSUME TypeOK, OwnInv, [Next]_vars, Acknowledged' PROVE OwnInv'
    OBVIOUS
  <1>1. ASSUME NEW op \in Ops, Submit(op) PROVE OwnInv'
    BY <1>1, OwnKept DEF Submit
  <1>2. ASSUME NEW w \in Workers, NEW op \in Ops, ClaimSelect(w, op) PROVE OwnInv'
    BY <1>2, OwnKept DEF ClaimSelect, Proceed, Working, TypeOK, LocalsTypeOK
  <1>3. ASSUME NEW w \in Workers, ClaimCommit(w) PROVE OwnInv'
    <2>0. PICK op \in Ops : op = job[w]
      BY <1>3, WorkingJob DEF ClaimCommit, Proceed
    <2>1. attempts[op] \in Seq(AttemptOutcome) /\ "processing" \in AttemptOutcome
      BY DEF TypeOK, TablesTypeOK, AttemptOutcome
    <2>2. /\ pc'[w] = "claimed" /\ job' = job /\ own'[w] = Len(attempts[op]) + 1 /\ seen' = seen
          /\ \A v \in Workers \ {w} : pc'[v] = pc[v] /\ own'[v] = own[v]
      BY <1>3, <2>0 DEF ClaimCommit, Proceed, TypeOK, LocalsTypeOK
    <2>3. /\ attempts'[op] = Append(attempts[op], "processing")
          /\ \A o \in Ops \ {op} : attempts'[o] = attempts[o]
      BY <1>3, <2>0 DEF ClaimCommit, TypeOK, TablesTypeOK
    <2>4. /\ OpenAttempts(op)' = OpenAttempts(op) \union {Len(attempts[op]) + 1}
          /\ Len(attempts[op]) + 1 \notin OpenAttempts(op)
      BY <2>1, <2>3 DEF OpenAttempts
    <2>5. \A o \in Ops \ {op} : OpenAttempts(o)' = OpenAttempts(o)
      BY <2>3 DEF OpenAttempts
    <2>6. \A v \in Workers \ {w} : pc[v] \in Working => job[v] \in Ops
      BY WorkingJob
    <2> QED
      BY <2>0, <2>2, <2>4, <2>5, <2>6 DEF OwnInv, Working
  <1>4. ASSUME NEW w \in Workers, ReadOperation(w) PROVE OwnInv'
    BY <1>4, OwnKept DEF ReadOperation, Proceed, Working, TypeOK, LocalsTypeOK
  <1>5. ASSUME NEW w \in Workers, ReadAttempt(w) PROVE OwnInv'
    <2>1. PICK n \in OpenAttempts(job[w]) :
            /\ OpenAttempts(job[w]) = {n}
            /\ seen' = [seen EXCEPT ![w] = LoadAttempt(@, n, inputs[job[w]])]
      BY <1>5 DEF ReadAttempt
    <2>2. own[w] = n /\ pc[w] \in Working
      BY <1>5, <2>1 DEF OwnInv, ReadAttempt, Proceed, Working
    <2>3. seen'[w].attempt = n
      BY <2>1 DEF LoadAttempt, TypeOK, LocalsTypeOK, Snapshot
    <2>4. /\ UNCHANGED <<attempts, job, own>> /\ pc'[w] = "committing"
          /\ \A v \in Workers \ {w} : pc'[v] = pc[v] /\ seen'[v] = seen[v]
      BY <1>5, <2>1 DEF ReadAttempt, Proceed, TypeOK, LocalsTypeOK
    <2> QED
      BY <2>2, <2>3, <2>4 DEF OwnInv, OpenAttempts, Working
  <1>6. ASSUME NEW w \in Workers, Commits(w) PROVE OwnInv'
    <2>0. PICK op \in Ops, n \in Nat : op = job[w] /\ n = seen[w].attempt
      BY <1>6, WorkingJob DEF Commits, FinishWrites, Working, TypeOK, LocalsTypeOK, Snapshot
    <2>1. n = own[w] /\ pc[w] \in Working
      BY <1>6, <2>0 DEF Commits, FinishWrites, Working, OwnInv
    <2>2. /\ attempts'[op] = [attempts[op] EXCEPT ![n] = AttemptResult(outcome[w])]
          /\ \A o \in Ops \ {op} : attempts'[o] = attempts[o]
      BY <1>6, <2>0 DEF Commits, FinishWrites, TypeOK, TablesTypeOK
    <2>3. \A o \in Ops : OpenAttempts(o) \ {n} \subseteq OpenAttempts(o)'
      BY <2>1, <2>2 DEF OpenAttempts
    <2>4. \A o \in Ops \ {op} : OpenAttempts(o)' = OpenAttempts(o)
      BY <2>2 DEF OpenAttempts
    <2>5. /\ pc'[w] \notin Working
          /\ \A v \in Workers \ {w} : pc'[v] = pc[v] /\ job'[v] = job[v] /\ own'[v] = own[v] /\ seen'[v] = seen[v]
      BY <1>6 DEF Commits, Working, Down
    <2>6. \A v \in Workers \ {w} : pc[v] \in Working => job[v] \in Ops /\ (job[v] = op => own[v] # n)
      BY <2>0, <2>1, WorkingJob DEF OwnInv
    <2>7. \A v \in Workers \ {w} : pc[v] \in Working => own[v] \in OpenAttempts(job[v])'
      BY <2>3, <2>4, <2>5, <2>6 DEF OwnInv
    <2> QED
      BY <2>5, <2>7 DEF OwnInv, Working
  <1>7. ASSUME NEW w \in Workers, DeleteInput(w) PROVE OwnInv'
    BY <1>7, OwnKept DEF DeleteInput, Leave, Working, TypeOK, LocalsTypeOK
  <1>8. ASSUME NEW w \in Workers, LocalStep(w) PROVE OwnInv'
    BY <1>8, OwnKept DEF LocalStep, Working, Down
  <1>9. CASE Tick
    BY <1>9, OwnKept DEF Tick
  <1>10. CASE UNCHANGED vars
    BY <1>10, OwnKept DEF vars
  <1> QED
    BY <1>1, <1>2, <1>3, <1>4, <1>5, <1>6, <1>7, <1>8, <1>9, <1>10, NextCases

LEMMA OwnInvariant == Spec => [](Acknowledged => OwnInv)
  <1>1. Init => OwnInv
    BY DEF Init, OwnInv, Working
  <1>2. TypeOK /\ (Acknowledged => OwnInv) /\ [Next]_vars => (Acknowledged' => OwnInv')
    BY OwnStep, AcksGrow
  <1> QED
    BY <1>1, <1>2, TypeCorrect, PTL DEF Spec

(* Unless an acknowledgement is lost, a worker records its outcome on its  *)
(* own attempt, whatever the timing.                                       *)
THEOREM AttemptCorrect == Spec => []OutcomeOnOwnAttempt
  <1>1. (Acknowledged => OwnInv) => OutcomeOnOwnAttempt
    BY DEF OwnInv, OutcomeOnOwnAttempt
  <1> QED
    BY <1>1, OwnInvariant, PTL

(* The attempts of an operation are its history: until an acknowledgement  *)
(* is lost, no attempt disappears and no recorded outcome is written over, *)
(* although _finish of any worker may close any attempt (scalar_one).      *)
HistoryStays ==
    Acknowledged =>
       \A op \in Ops : \A n \in DOMAIN attempts[op] :
          /\ n \in DOMAIN attempts'[op]
          /\ attempts[op][n] # "processing" => attempts'[op][n] = attempts[op][n]

LEMMA HistoryStep == ASSUME TypeOK, OwnInv, [Next]_vars PROVE HistoryStays
  <1>1. ASSUME NEW w \in Workers, ClaimCommit(w) PROVE HistoryStays
    <2>1. \A op \in Ops : attempts'[op] \in {attempts[op], Append(attempts[op], "processing")}
      BY <1>1 DEF ClaimCommit, TypeOK, TablesTypeOK
    <2>2. \A op \in Ops : attempts[op] \in Seq(AttemptOutcome)
      BY DEF TypeOK, TablesTypeOK
    <2> QED
      BY <2>1, <2>2 DEF HistoryStays
  <1>2. ASSUME NEW w \in Workers, Commits(w) PROVE HistoryStays
    <2>1. PICK op \in Ops, n \in Nat : op = job[w] /\ n = seen[w].attempt
      BY <1>2, WorkingJob DEF Commits, FinishWrites, Working, TypeOK, LocalsTypeOK, Snapshot
    <2>2. attempts[op][n] = "processing"
      BY <1>2, <2>1 DEF Commits, FinishWrites, OwnInv, OpenAttempts, Working
    <2>3. /\ attempts'[op] = [attempts[op] EXCEPT ![n] = AttemptResult(outcome[w])]
          /\ \A o \in Ops \ {op} : attempts'[o] = attempts[o]
      BY <1>2, <2>1 DEF Commits, FinishWrites, TypeOK, TablesTypeOK
    <2>4. attempts[op] \in Seq(AttemptOutcome)
      BY DEF TypeOK, TablesTypeOK
    <2> QED
      BY <2>2, <2>3, <2>4 DEF HistoryStays
  <1>3. UNCHANGED attempts => HistoryStays
    BY DEF HistoryStays
  <1> QED
    BY <1>1, <1>2, <1>3, NextCases
    DEF Submit, Tick, ClaimSelect, ReadOperation, ReadAttempt, DeleteInput, LocalStep, vars

(* Whatever the timing, an attempt that was recorded is never written over *)
(* by a worker that overran its lease, unless an acknowledgement was lost. *)
THEOREM HistoryCorrect == Spec => [][HistoryStays]_vars
  <1>1. TypeOK /\ (Acknowledged => OwnInv) /\ [Next]_vars => HistoryStays
    BY HistoryStep DEF HistoryStays
  <1> QED
    BY <1>1, OwnInvariant, TypeCorrect, PTL DEF Spec

(* A result belongs to exactly one attempt, no result to none.             *)
ResultInv ==
    \A op \in Ops : IF op \in results THEN \E n \in Nat : Successes(op) = {n}
                                      ELSE Successes(op) = {}

LEMMA ResultKept == ASSUME ResultInv, UNCHANGED <<attempts, results>> PROVE ResultInv'
  BY DEF ResultInv, Successes

LEMMA ResultStep == TypeOK /\ OwnInv /\ ResultInv /\ [Next]_vars => ResultInv'
  <1> SUFFICES ASSUME TypeOK, OwnInv, ResultInv, [Next]_vars PROVE ResultInv'
    OBVIOUS
  <1>1. ASSUME NEW w \in Workers, ClaimCommit(w) PROVE ResultInv'
    <2>1. PICK op \in Ops : op = job[w]
      BY <1>1, WorkingJob DEF ClaimCommit, Proceed
    <2>2. /\ attempts'[op] = Append(attempts[op], "processing")
          /\ \A o \in Ops \ {op} : attempts'[o] = attempts[o]
          /\ results' = results
      BY <1>1, <2>1 DEF ClaimCommit, TypeOK, TablesTypeOK
    <2>3. attempts[op] \in Seq(AttemptOutcome)
      BY DEF TypeOK, TablesTypeOK
    <2>4. \A o \in Ops : Successes(o)' = Successes(o)
      BY <2>2, <2>3 DEF Successes
    <2> QED
      BY <2>2, <2>4 DEF ResultInv
  <1>2. ASSUME NEW w \in Workers, Commits(w) PROVE ResultInv'
    <2>1. PICK op \in Ops, n \in Nat : op = job[w] /\ n = seen[w].attempt
      BY <1>2, WorkingJob DEF Commits, FinishWrites, Working, TypeOK, LocalsTypeOK, Snapshot
    <2>2. n \in DOMAIN attempts[op] /\ attempts[op][n] = "processing"
      BY <1>2, <2>1 DEF Commits, FinishWrites, OwnInv, OpenAttempts, Working
    <2>3. /\ attempts'[op] = [attempts[op] EXCEPT ![n] = AttemptResult(outcome[w])]
          /\ \A o \in Ops \ {op} : attempts'[o] = attempts[o]
          /\ results' = results \union (IF outcome[w].kind = "success" THEN {op} ELSE {})
      BY <1>2, <2>1 DEF Commits, FinishWrites, TypeOK, TablesTypeOK
    <2>4. \A o \in Ops \ {op} : Successes(o)' = Successes(o)
      BY <2>3 DEF Successes
    <2>5. outcome[w] \in Outcome
      BY <1>2 DEF Commits, FinishWrites, TypeOK, LocalsTypeOK, PhaseOK
    <2>6. CASE outcome[w].kind = "success"
      <3>1. op \notin results
        BY <1>2, <2>1, <2>6 DEF Commits, FinishWrites, DuplicateResult
      <3>2. Successes(op)' = Successes(op) \union {n}
        BY <2>2, <2>3, <2>6 DEF Successes, AttemptResult
      <3> QED
        BY <2>3, <2>4, <2>6, <3>1, <3>2 DEF ResultInv
    <2>7. CASE outcome[w].kind = "failure"
      <3>1. AttemptResult(outcome[w]) # "succeeded"
        BY <2>5, <2>7, CodeAssumption DEF AttemptResult, Outcome
      <3>2. Successes(op)' = Successes(op)
        BY <2>2, <2>3, <3>1 DEF Successes
      <3> QED
        BY <2>3, <2>4, <2>7, <3>2 DEF ResultInv
    <2> QED
      BY <2>5, <2>6, <2>7 DEF Outcome
  <1>3. CASE UNCHANGED <<attempts, results>>
    BY <1>3, ResultKept
  <1> QED
    BY <1>1, <1>2, <1>3, NextCases
    DEF Submit, Tick, ClaimSelect, ReadOperation, ReadAttempt, DeleteInput, LocalStep, vars

(* Unless an acknowledgement is lost, an operation has a result exactly if *)
(* one of its attempts succeeded, and then only one did.                   *)
THEOREM ResultCorrect == Spec => []ResultOfOneAttempt
  <1>1. Init => ResultInv
    BY DEF Init, ResultInv, Successes
  <1>2. /\ TypeOK /\ (Acknowledged => OwnInv /\ ResultInv) /\ [Next]_vars
        => (Acknowledged' => ResultInv')
    BY ResultStep, AcksGrow
  <1>3. (Acknowledged => ResultInv) => ResultOfOneAttempt
    BY FS_EmptySet, FS_Singleton DEF ResultInv, ResultOfOneAttempt
  <1> QED
    BY <1>1, <1>2, <1>3, OwnInvariant, TypeCorrect, PTL DEF Spec
-----------------------------------------------------------------------------
(* Leases, whatever the timing.                                            *)

Reading == {"reading", "committing"}

(* The lease of a row goes with its status, as long as it has not ended.   *)
LeaseOfRow ==
    \A op \in Ops : /\ operations[op].status = "processing" => operations[op].lease # Null
                    /\ operations[op].status = "accepted" => operations[op].lease = Null

(* So it does in what a worker has loaded, and what it has loaded of an    *)
(* operation that ended is still so.                                       *)
SnapshotOK(w) ==
    LET s == seen[w]
        row == operations[job[w]]
    IN
    /\ s.status # "absent"
    /\ s.status = "processing" => s.leased
    /\ s.status = "accepted" => ~s.leased
    /\ s.status \in Terminal => row.status = s.status /\ (s.leased <=> row.lease # Null)

(* One worker at a time gets past the look-up of its attempt, ...          *)
SingleFinisher ==
    \A v, w \in Workers :
       pc[v] = "committing" /\ pc[w] = "committing" /\ job[v] = job[w] => v = w

(* ... it is the last one if the operation has ended, and that operation   *)
(* is not being claimed.                                                   *)
EndedIsQuiet ==
    /\ \A v, w \in Workers :
          /\ pc[v] = "committing" /\ operations[job[v]].status \in Terminal
          /\ pc[w] \in Working /\ job[v] = job[w]
          => v = w
    /\ \A w \in Workers : pc[w] = "claiming" => operations[job[w]].status \notin Terminal

LeaseInv ==
    /\ LeaseOfRow
    /\ \A w \in Workers : pc[w] \in Reading => SnapshotOK(w)
    /\ SingleFinisher
    /\ EndedIsQuiet

(* Steps that change no status and give no worker a new part to play.      *)
LEMMA LeaseKept ==
    ASSUME TypeOK, LeaseInv,
           \A op \in Ops : /\ operations'[op].status = operations[op].status
                           /\ operations'[op].lease = Null <=> operations[op].lease = Null,
           \A v \in Workers :
              /\ pc'[v] \in Working => pc[v] \in Working
              /\ pc'[v] \in Reading => pc'[v] = pc[v] /\ seen'[v] = seen[v]
              /\ pc'[v] = "claiming" => pc[v] = "claiming"
              /\ pc'[v] \in Working \union {"claiming"} => job'[v] = job[v]
    PROVE  LeaseInv'
  <1> USE DEF LeaseInv, Reading, Working
  <1>1. \A v \in Workers : pc[v] \in Working \union {"claiming"} => job[v] \in Ops
    BY WorkingJob
  <1>2. LeaseOfRow'
    BY DEF LeaseOfRow
  <1>3. ASSUME NEW w \in Workers, pc'[w] \in Reading PROVE SnapshotOK(w)'
    BY <1>1, <1>3 DEF SnapshotOK
  <1>4. SingleFinisher'
    BY DEF SingleFinisher
  <1>5. EndedIsQuiet'
    BY <1>1 DEF EndedIsQuiet
  <1> QED
    BY <1>2, <1>3, <1>4, <1>5

LEMMA LeaseStep ==
    TypeOK /\ InputInv /\ OwnInv /\ LeaseInv /\ [Next]_vars /\ Acknowledged' => LeaseInv'
  <1> SUFFICES ASSUME TypeOK, InputInv, OwnInv, LeaseInv, [Next]_vars, Acknowledged'
               PROVE  LeaseInv'
    OBVIOUS
  <1>0. \A v \in Workers : pc[v] \in Working \union {"claiming"} => job[v] \in Ops
    BY WorkingJob
  <1>1. ASSUME NEW op \in Ops, Submit(op) PROVE LeaseInv'
    <2>1. PICK stamp \in Stamps : operations' = [operations EXCEPT ![op] = NewRow("accepted", stamp)]
      BY <1>1 DEF Submit
    <2>2. /\ operations'[op].status = "accepted" /\ operations'[op].lease = Null
          /\ \A o \in Ops \ {op} : operations'[o] = operations[o]
          /\ UNCHANGED <<pc, job, seen>>
      BY <1>1, <2>1 DEF Submit, NewRow, TypeOK, TablesTypeOK
    <2>3. \A v \in Workers : job[v] # op
      BY <1>1, NullAssumption DEF Submit, InputInv
    <2> QED
      BY <1>0, <2>2, <2>3
      DEF LeaseInv, LeaseOfRow, SnapshotOK, SingleFinisher, EndedIsQuiet, Reading, Working
  <1>2. ASSUME NEW w \in Workers, NEW op \in Ops, ClaimSelect(w, op) PROVE LeaseInv'
    <2>1. /\ UNCHANGED <<operations, seen>> /\ pc'[w] = "claiming" /\ job'[w] = op
          /\ \A v \in Workers \ {w} : pc'[v] = pc[v] /\ job'[v] = job[v]
          /\ operations[op].status \notin Terminal
      BY <1>2 DEF ClaimSelect, Claimable, Proceed, Terminal, TypeOK, LocalsTypeOK
    <2> QED
      BY <2>1 DEF LeaseInv, LeaseOfRow, SnapshotOK, SingleFinisher, EndedIsQuiet, Reading, Working
  <1>3. ASSUME NEW w \in Workers, ClaimCommit(w) PROVE LeaseInv'
    <2>1. PICK op \in Ops : op = job[w]
      BY <1>3, WorkingJob DEF ClaimCommit, Proceed
    <2>2. /\ operations'[op] = ClaimedRow(operations[op], age[w])
          /\ \A o \in Ops \ {op} : operations'[o] = operations[o]
          /\ UNCHANGED <<job, seen>> /\ pc[w] = "claiming" /\ pc'[w] = "claimed"
          /\ \A v \in Workers \ {w} : pc'[v] = pc[v]
      BY <1>3, <2>1 DEF ClaimCommit, Proceed, TypeOK, TablesTypeOK, LocalsTypeOK
    <2>3. operations'[op].status = "processing" /\ operations'[op].lease # Null
      <3>1. TimeLeft(LeaseSeconds, age[w]) # Null
        BY RowTypes, ConfigAssumption, NullAssumption DEF TypeOK, LocalsTypeOK
      <3> QED
        BY <2>2, <3>1 DEF ClaimedRow, Row, TypeOK, TablesTypeOK
    <2>4. operations[op].status \notin Terminal
      BY <2>1, <2>2 DEF LeaseInv, EndedIsQuiet
    <2> QED
      BY <1>0, <2>1, <2>2, <2>3, <2>4
      DEF LeaseInv, LeaseOfRow, SnapshotOK, SingleFinisher, EndedIsQuiet, Reading, Working, Terminal
  <1>4. ASSUME NEW w \in Workers, ReadOperation(w) PROVE LeaseInv'
    <2>1. /\ UNCHANGED <<operations, job>> /\ pc[w] = "finishing" /\ pc'[w] = "reading"
          /\ seen'[w] = LoadRow(seen[w], operations[job[w]])
          /\ \A v \in Workers \ {w} : pc'[v] = pc[v] /\ seen'[v] = seen[v]
      BY <1>4 DEF ReadOperation, Proceed, TypeOK, LocalsTypeOK
    <2>2. /\ seen'[w].status = operations[job[w]].status
          /\ seen'[w].leased <=> operations[job[w]].lease # Null
      <3>1. seen[w] \in Snapshot
        BY DEF TypeOK, LocalsTypeOK
      <3>2. seen'[w] = [seen[w] EXCEPT !.status = operations[job[w]].status,
                                      !.leased = operations[job[w]].lease # Null,
                                      !.failure = operations[job[w]].failure]
        BY <2>1 DEF LoadRow
      <3> DEFINE held == operations[job[w]].lease # Null
      <3>3. held \in BOOLEAN
        OBVIOUS
      <3> HIDE DEF held
      <3>4. seen'[w].leased = held
        BY <3>1, <3>2 DEF Snapshot, held
      <3>5. seen'[w].status = operations[job[w]].status
        BY <3>1, <3>2 DEF Snapshot
      <3> QED
        BY <3>4, <3>5 DEF held
    <2>3. job[w] \in Ops /\ operations[job[w]].status # "absent"
      BY <1>0, <2>1, NullAssumption DEF InputInv, Working
    <2> QED
      BY <2>1, <2>2, <2>3
      DEF LeaseInv, LeaseOfRow, SnapshotOK, SingleFinisher, EndedIsQuiet, Reading, Working
  <1>5. ASSUME NEW w \in Workers, ReadAttempt(w) PROVE LeaseInv'
    <2>1. PICK n \in OpenAttempts(job[w]) :
            /\ OpenAttempts(job[w]) = {n}
            /\ seen' = [seen EXCEPT ![w] = LoadAttempt(@, n, inputs[job[w]])]
      BY <1>5 DEF ReadAttempt
    <2>2. /\ UNCHANGED <<operations, job>> /\ pc[w] = "reading" /\ pc'[w] = "committing"
          /\ \A v \in Workers \ {w} : pc'[v] = pc[v] /\ seen'[v] = seen[v]
          /\ seen'[w].status = seen[w].status /\ seen'[w].leased = seen[w].leased
      BY <1>5, <2>1 DEF ReadAttempt, Proceed, LoadAttempt, Snapshot, TypeOK, LocalsTypeOK
    <2>3. \A v \in Workers : pc[v] \in Working /\ job[v] = job[w] => v = w
      BY <2>1, <2>2 DEF OwnInv, Working
    <2> QED
      BY <2>2, <2>3 DEF LeaseInv, LeaseOfRow, SnapshotOK, SingleFinisher, EndedIsQuiet, Reading, Working
  <1>6. ASSUME NEW w \in Workers, Commits(w) PROVE LeaseInv'
    <2>1. PICK op \in Ops : op = job[w]
      BY <1>6, WorkingJob DEF Commits, FinishWrites, Working
    <2> DEFINE s == seen[w]
               new == StatusAfter(outcome[w], seen[w].attempt)
    <2>2. /\ operations'[op] = FinishedRow(operations[op], s, outcome[w], age[w])
          /\ \A o \in Ops \ {op} : operations'[o] = operations[o]
          /\ pc[w] = "committing" /\ ~Locked(op) /\ pc'[w] \in {"idle", "deleting"} \union Down
          /\ \A v \in Workers \ {w} : pc'[v] = pc[v] /\ job'[v] = job[v] /\ seen'[v] = seen[v]
      BY <1>6, <2>1 DEF Commits, FinishWrites, TypeOK, TablesTypeOK, LocalsTypeOK
    <2>3. /\ operations'[op].status = Written(s.status, new, operations[op].status)
          /\ operations'[op].lease = IF s.leased THEN Null ELSE operations[op].lease
      BY <2>2 DEF FinishedRow, LeaseAfter, Row, TypeOK, TablesTypeOK
    <2>4. new \in {"accepted", "succeeded", "failed"}
      BY DEF StatusAfter
    <2>5. SnapshotOK(w) /\ s.status \in Status
      BY <2>2 DEF LeaseInv, Reading, TypeOK, LocalsTypeOK, Snapshot
    <2>6. LeaseOfRow'
      <3>1. /\ operations'[op].status = "processing" => operations'[op].lease # Null
            /\ operations'[op].status = "accepted" => operations'[op].lease = Null
        BY <2>1, <2>3, <2>4, <2>5 DEF LeaseInv, LeaseOfRow, SnapshotOK, Written, Status, Terminal
      <3> QED
        BY <2>2, <3>1 DEF LeaseInv, LeaseOfRow
    <2>7. \A v \in Workers \ {w} : pc[v] \in Working /\ job[v] = op => operations[op].status \notin Terminal
      BY <2>1, <2>2 DEF LeaseInv, EndedIsQuiet
    <2>8. ASSUME NEW v \in Workers, pc'[v] \in Reading PROVE SnapshotOK(v)'
      <3>1. v # w /\ pc[v] \in Reading
        BY <2>2, <2>8 DEF Reading, Down
      <3>2. CASE job[v] # op
        BY <1>0, <2>2, <3>1, <3>2 DEF LeaseInv, SnapshotOK, Reading, Working
      <3>3. CASE job[v] = op
        BY <2>2, <2>7, <3>1, <3>3 DEF LeaseInv, SnapshotOK, Reading, Working
      <3> QED
        BY <3>2, <3>3
    <2>9. \A v \in Workers : pc'[v] = "committing" => job'[v] # op
      BY <2>1, <2>2 DEF LeaseInv, SingleFinisher, Down
    <2>10. \A v \in Workers : pc'[v] = "claiming" => job'[v] # op
      BY <2>2 DEF Locked, Down
    <2>11. SingleFinisher' /\ EndedIsQuiet'
      <3>1. \A v \in Workers : pc'[v] \in Working \union {"claiming"} =>
               v # w /\ pc'[v] = pc[v] /\ job'[v] = job[v] /\ job[v] \in Ops
        BY <1>0, <2>2 DEF Working, Down
      <3>2. SingleFinisher'
        BY <3>1 DEF LeaseInv, SingleFinisher, Working
      <3>3. \A v \in Workers : pc'[v] \in {"committing", "claiming"} =>
               job[v] # op /\ operations'[job[v]] = operations[job[v]]
        BY <2>2, <2>9, <2>10, <3>1 DEF Working
      <3>4. EndedIsQuiet'
        BY <3>1, <3>3 DEF LeaseInv, EndedIsQuiet, Working
      <3> QED
        BY <3>2, <3>4
    <2> QED
      BY <2>6, <2>8, <2>11 DEF LeaseInv
  <1>7. ASSUME NEW w \in Workers, DeleteInput(w) PROVE LeaseInv'
    BY <1>7, LeaseKept DEF DeleteInput, Leave, Working, Reading, TypeOK, LocalsTypeOK
  <1>8. ASSUME NEW w \in Workers, LocalStep(w) PROVE LeaseInv'
    BY <1>8, LeaseKept DEF LocalStep, Working, Reading, Down
  <1>9. CASE Tick
    <2>1. UNCHANGED <<pc, job, seen>>
      BY <1>9 DEF Tick
    <2> QED
      BY <1>9, <2>1, TickFacts, LeaseKept
  <1>10. CASE UNCHANGED vars
    BY <1>10, LeaseKept DEF vars
  <1> QED
    BY <1>1, <1>2, <1>3, <1>4, <1>5, <1>6, <1>7, <1>8, <1>9, <1>10, NextCases

(* Unless an acknowledgement is lost, an operation in processing always    *)
(* has a lease to run out, so that claim_one finds it again.               *)
THEOREM ReclaimCorrect == Spec => []ProcessingIsReclaimable
  <1>1. Init => LeaseInv
    BY DEF Init, LeaseInv, LeaseOfRow, SingleFinisher, EndedIsQuiet, Working, Reading, NewRow
  <1>2. /\ TypeOK /\ InputInv /\ (Acknowledged => OwnInv /\ LeaseInv) /\ [Next]_vars
        => (Acknowledged' => LeaseInv')
    BY LeaseStep, AcksGrow
  <1>3. (Acknowledged => LeaseInv) => ProcessingIsReclaimable
    BY DEF LeaseInv, LeaseOfRow, ProcessingIsReclaimable
  <1> QED
    BY <1>1, <1>2, <1>3, InputInvariant, OwnInvariant, TypeCorrect, PTL DEF Spec
-----------------------------------------------------------------------------
(* Usage, whatever the timing.                                             *)

LEMMA InHandFinite ==
    /\ \A op : IsFiniteSet(InHand(op)) /\ Cardinality(InHand(op)) \in Nat
    /\ \A op : IsFiniteSet(InHand(op)') /\ Cardinality(InHand(op)') \in Nat
  BY WorkersAssumption, FS_Subset, FS_CardinalityType DEF InHand

(* A worker takes the usage of an operation in hand when the executor      *)
(* returns, and gives it up when it records it or drops its outcome.       *)
HandsEmptied ==
    /\ usage' = usage /\ billed' = billed
    /\ \A op \in Ops : InHand(op)' \subseteq InHand(op)
HandFilled(w) ==
    /\ usage' = usage
    /\ billed' = [billed EXCEPT ![job[w]] = @ + 1]
    /\ job[w] \in Ops
    /\ \A op \in Ops : InHand(op)' \subseteq InHand(op) \union (IF op = job[w] THEN {w} ELSE {})
HandRecorded(w) ==
    /\ usage' = [usage EXCEPT ![job[w]] = @ + 1]
    /\ billed' = billed
    /\ job[w] \in Ops /\ w \in InHand(job[w])
    /\ \A op \in Ops : InHand(op)' \subseteq InHand(op) \ {w}

LEMMA LeaveHand ==
    ASSUME TypeOK, NEW w \in Workers, NEW where \in {"idle"} \union Down, Leave(w, where)
    PROVE  \A op \in Ops : InHand(op)' \subseteq InHand(op) \ {w}
  BY DEF Leave, Down, InHand, TypeOK, LocalsTypeOK

LEMMA HandleHand ==
    ASSUME TypeOK, NEW w \in Workers, NEW code, Handle(w, code), UNCHANGED job
    PROVE  \A op \in Ops : InHand(op)' \subseteq InHand(op) \ {w}
  BY DEF Handle, Failure, InHand, TypeOK, LocalsTypeOK

LEMMA RaiseHand ==
    ASSUME TypeOK, NEW w \in Workers, NEW code, Raise(w, code)
    PROVE  \A op \in Ops : InHand(op)' \subseteq InHand(op) \ {w}
  BY LeaveHand, HandleHand DEF Raise, Down

LEMMA UsageSteps ==
    ASSUME TypeOK, [Next]_vars
    PROVE  HandsEmptied \/ \E w \in Workers : HandFilled(w) \/ HandRecorded(w)
  <1>1. ASSUME NEW op \in Ops, Submit(op) PROVE HandsEmptied
    BY <1>1 DEF Submit, HandsEmptied, InHand
  <1>2. ASSUME NEW w \in Workers, NEW op \in Ops, ClaimSelect(w, op) PROVE HandsEmptied
    BY <1>2 DEF ClaimSelect, Proceed, HandsEmptied, InHand, TypeOK, LocalsTypeOK
  <1>3. ASSUME NEW w \in Workers, ClaimCommit(w) PROVE HandsEmptied
    BY <1>3 DEF ClaimCommit, Proceed, HandsEmptied, InHand, TypeOK, LocalsTypeOK
  <1>4. ASSUME NEW w \in Workers, CheckInput(w) PROVE HandsEmptied
    BY <1>4, HandleHand DEF CheckInput, Proceed, HandsEmptied, InHand, TypeOK, LocalsTypeOK
  <1>5. ASSUME NEW w \in Workers, LoadDocument(w) PROVE HandsEmptied
    BY <1>5, HandleHand DEF LoadDocument, Proceed, HandsEmptied, InHand, TypeOK, LocalsTypeOK
  <1>6. ASSUME NEW w \in Workers, NEW out \in ExecutorOutcomes, ExecuteReturns(w, out)
        PROVE  HandsEmptied \/ HandFilled(w)
    <2>1. /\ pc[w] = "executing" /\ job[w] \in Ops /\ UNCHANGED <<job, usage>>
          /\ outcome'[w] = Checked(out)
          /\ \A v \in Workers \ {w} : pc'[v] = pc[v] /\ outcome'[v] = outcome[v]
      BY <1>6, WorkingJob DEF ExecuteReturns, Proceed, Working, TypeOK, LocalsTypeOK
    <2>2. CASE out.usage
      <3>1. billed' = [billed EXCEPT ![job[w]] = @ + 1]
        BY <1>6, <2>2 DEF ExecuteReturns
      <3>2. HandFilled(w)
        BY <2>1, <3>1 DEF HandFilled, InHand
      <3> QED
        BY <3>2
    <2>3. CASE ~out.usage
      <3>1. ~Checked(out).usage
        BY <2>3 DEF Checked, Failure
      <3>2. \A op \in Ops : InHand(op)' \subseteq InHand(op)
        BY <2>1, <3>1 DEF InHand
      <3>3. billed' = billed
        <4>1. billed' = [billed EXCEPT ![job[w]] = @ + 0]
          BY <1>6, <2>3 DEF ExecuteReturns
        <4> QED
          BY <2>1, <4>1 DEF TypeOK, HistoryTypeOK
      <3> QED
        BY <2>1, <3>2, <3>3 DEF HandsEmptied
    <2> QED
      BY <2>2, <2>3
  <1>7. ASSUME NEW w \in Workers, ExecuteRaises(w) PROVE HandsEmptied
    BY <1>7, HandleHand DEF ExecuteRaises, HandsEmptied
  <1>8. ASSUME NEW w \in Workers, ReadOperation(w) \/ ReadAttempt(w) PROVE HandsEmptied
    BY <1>8 DEF ReadOperation, ReadAttempt, Proceed, HandsEmptied, InHand, TypeOK, LocalsTypeOK
  <1>9. ASSUME NEW w \in Workers, NoSingleAttempt(w) \/ FinishConflict(w) PROVE HandsEmptied
    BY <1>9, RaiseHand DEF NoSingleAttempt, FinishConflict, HandsEmptied
  <1>10. ASSUME NEW w \in Workers, FinishCommit(w) \/ FinishUnacknowledged(w)
         PROVE  HandsEmptied \/ HandRecorded(w)
    <2>1. /\ pc[w] = "committing" /\ job[w] \in Ops /\ billed' = billed
          /\ usage' = [usage EXCEPT ![job[w]] = @ + UsageEvents(outcome[w])]
      BY <1>10, WorkingJob
      DEF FinishCommit, FinishUnacknowledged, FinishWrites, Fault, Working
    <2>2. \A op \in Ops : InHand(op)' \subseteq InHand(op) \ {w}
      <3>1. CASE FinishCommit(w)
        BY <3>1, LeaveHand DEF FinishCommit, Proceed, InHand, TypeOK, LocalsTypeOK
      <3>2. CASE FinishUnacknowledged(w)
        BY <3>2, RaiseHand DEF FinishUnacknowledged
      <3> QED
        BY <1>10, <3>1, <3>2
    <2>3. CASE outcome[w].usage
      BY <2>1, <2>2, <2>3 DEF HandRecorded, InHand, UsageEvents
    <2>4. CASE ~outcome[w].usage
      <3>1. usage' = [usage EXCEPT ![job[w]] = @ + 0]
        BY <2>1, <2>4 DEF UsageEvents
      <3>2. usage' = usage
        BY <2>1, <3>1 DEF TypeOK, TablesTypeOK
      <3> QED
        BY <2>1, <2>2, <3>2 DEF HandsEmptied
    <2> QED
      BY <2>3, <2>4
  <1>11. ASSUME NEW w \in Workers, DeleteInput(w) \/ DeleteFails(w) \/ Restart(w) \/ Crash(w)
         PROVE  HandsEmptied
    BY <1>11, LeaveHand DEF DeleteInput, DeleteFails, Restart, Crash, Fault, Down, HandsEmptied
  <1>12. ASSUME NEW w \in Workers, DatabaseFails(w) PROVE HandsEmptied
    BY <1>12, LeaveHand, HandleHand, RaiseHand DEF DatabaseFails, Fault, Down, HandsEmptied
  <1>13. Tick \/ UNCHANGED vars => HandsEmptied
    BY DEF Tick, vars, HandsEmptied, InHand
  <1> QED
    BY <1>1, <1>2, <1>3, <1>4, <1>5, <1>6, <1>7, <1>8, <1>9, <1>10, <1>11, <1>12, <1>13
    DEF Next, WorkerStep, Execute, Finish

(* No usage is recorded twice, whatever the timing and whatever fails.     *)
THEOREM UsageCorrect == Spec => []UsageNotFabricated
  <1>1. Init => UsageNotFabricated
    <2> SUFFICES ASSUME Init, NEW op \in Ops PROVE usage[op] + Cardinality(InHand(op)) <= billed[op]
      BY DEF UsageNotFabricated
    <2>1. InHand(op) = {} /\ usage[op] = 0 /\ billed[op] = 0
      BY DEF Init, InHand
    <2> QED
      BY <2>1, FS_EmptySet
  <1>2. ASSUME TypeOK, UsageNotFabricated, [Next]_vars PROVE UsageNotFabricated'
    <2> SUFFICES ASSUME NEW op \in Ops
                 PROVE  usage'[op] + Cardinality(InHand(op)') <= billed'[op]
      BY DEF UsageNotFabricated
    <2>1. /\ usage[op] \in Nat /\ billed[op] \in Nat
          /\ usage[op] + Cardinality(InHand(op)) <= billed[op]
      BY <1>2 DEF UsageNotFabricated, TypeOK, TablesTypeOK, HistoryTypeOK
    <2>2. CASE usage'[op] = usage[op] /\ billed'[op] = billed[op] /\ InHand(op)' \subseteq InHand(op)
      <3>1. Cardinality(InHand(op)') <= Cardinality(InHand(op))
        BY <2>2, InHandFinite, FS_Subset
      <3> QED
        BY <2>1, <2>2, <3>1, InHandFinite
    <2>3. ASSUME NEW w \in Workers, HandFilled(w), op = job[w]
          PROVE  usage'[op] + Cardinality(InHand(op)') <= billed'[op]
      <3>1. InHand(op)' \subseteq InHand(op) \union {w}
        BY <2>3 DEF HandFilled
      <3>2. /\ Cardinality(InHand(op)') <= Cardinality(InHand(op) \union {w})
            /\ Cardinality(InHand(op) \union {w}) <= Cardinality(InHand(op)) + 1
        BY <3>1, InHandFinite, FS_AddElement, FS_Subset
      <3>3. Cardinality(InHand(op) \union {w}) \in Nat
        BY InHandFinite, FS_AddElement, FS_CardinalityType
      <3>4. usage'[op] = usage[op] /\ billed'[op] = billed[op] + 1
        BY <1>2, <2>3 DEF HandFilled, TypeOK, HistoryTypeOK
      <3> QED
        BY <2>1, <3>2, <3>3, <3>4, InHandFinite
    <2>4. ASSUME NEW w \in Workers, HandRecorded(w), op = job[w]
          PROVE  usage'[op] + Cardinality(InHand(op)') <= billed'[op]
      <3>1. InHand(op)' \subseteq InHand(op) \ {w} /\ w \in InHand(op)
        BY <2>4 DEF HandRecorded
      <3>2. /\ IsFiniteSet(InHand(op) \ {w})
            /\ Cardinality(InHand(op) \ {w}) = Cardinality(InHand(op)) - 1
        BY <3>1, InHandFinite, FS_RemoveElement
      <3>3. Cardinality(InHand(op)') <= Cardinality(InHand(op) \ {w})
        BY <3>1, <3>2, FS_Subset
      <3>4. usage'[op] = usage[op] + 1 /\ billed'[op] = billed[op]
        BY <1>2, <2>4 DEF HandRecorded, TypeOK, TablesTypeOK
      <3> QED
        BY <2>1, <3>2, <3>3, <3>4, InHandFinite
    <2>5. ASSUME NEW w \in Workers, HandFilled(w) \/ HandRecorded(w), op # job[w]
          PROVE  usage'[op] = usage[op] /\ billed'[op] = billed[op] /\ InHand(op)' \subseteq InHand(op)
      BY <1>2, <2>5 DEF HandFilled, HandRecorded, TypeOK, TablesTypeOK, HistoryTypeOK
    <2> QED
      BY <1>2, <2>2, <2>3, <2>4, <2>5, UsageSteps DEF HandsEmptied
  <1> QED
    BY <1>1, <1>2, TypeCorrect, PTL DEF Spec
=============================================================================
