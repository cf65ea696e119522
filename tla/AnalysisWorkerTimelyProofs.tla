---------------------- MODULE AnalysisWorkerTimelyProofs ----------------------
(* Theorems about the worker of AnalysisWorker when no attempt outlives    *)
(* its lease and no acknowledgement is lost: first with crashes and other  *)
(* failures of the database and the store included, then, after the line,  *)
(* as long as no process has been killed and no database call has failed   *)
(* (the store may still fail to delete).                                   *)
EXTENDS AnalysisWorkerProofs

USE DEF tables, locals, history

(* A worker in an operation holds its lease: the row is processing, the    *)
(* lease has time left, the worker's attempt is the last.                  *)
HoldsLease(w) ==
    LET row == operations[job[w]] IN
    /\ row.status = "processing"
    /\ row.lease \in Nat \ {0}
    /\ own[w] = Len(attempts[job[w]])

(* What _finish has loaded is what the row still holds.                    *)
SnapshotCurrent(w) ==
    LET row == operations[job[w]] IN
    /\ seen[w].status = "processing" /\ seen[w].leased
    /\ seen[w].failure = row.failure
    /\ pc[w] = "committing" => seen[w].inputLive

(* A claim in progress is of an operation nobody holds, and will commit    *)
(* with time left.                                                         *)
ClaimsFree(w) ==
    LET row == operations[job[w]] IN
    /\ row.status = "accepted" \/ (row.status = "processing" /\ row.lease = 0)
    /\ age[w] < LeaseSeconds

Engaged == Working \union {"claiming"}

WorkerOK(w) ==
    /\ pc[w] \in Working => HoldsLease(w)
    /\ pc[w] \in Reading => SnapshotCurrent(w)
    /\ pc[w] = "claiming" => ClaimsFree(w)

TimelyInv ==
    /\ \A w \in Workers : WorkerOK(w)
    /\ \A v, w \in Workers :
          pc[v] \in Engaged /\ pc[w] \in Engaged /\ job[v] = job[w] => v = w
    /\ \A op \in Ops : operations[op].status \in {"accepted", "processing"} => ~inputs[op].deleted
    /\ \A op \in Ops : operations[op].status = "absent" => attempts[op] = << >>
    /\ FailureMatchesHistory

(* A worker is as before if its row and its locals are.                    *)
LEMMA WorkerFrame ==
    ASSUME NEW v \in Workers, WorkerOK(v),
           pc'[v] = pc[v], job'[v] = job[v], age'[v] = age[v], seen'[v] = seen[v], own'[v] = own[v],
           pc[v] \in Engaged => /\ operations'[job[v]] = operations[job[v]]
                               /\ attempts'[job[v]] = attempts[job[v]]
    PROVE  WorkerOK(v)'
  <1> USE DEF WorkerOK, Engaged
  <1>1. pc[v] \in Working => HoldsLease(v)'
    BY DEF HoldsLease
  <1>2. pc[v] \in Reading => SnapshotCurrent(v)'
    BY DEF SnapshotCurrent, Reading, Working
  <1>3. pc[v] = "claiming" => ClaimsFree(v)'
    BY DEF ClaimsFree
  <1> QED
    BY <1>1, <1>2, <1>3

(* Steps that change no row and give no worker a new part to play.         *)
LEMMA TimelyKept ==
    ASSUME TypeOK, TimelyInv, UNCHANGED <<operations, attempts>>,
           \A op \in Ops : inputs'[op].deleted = inputs[op].deleted,
           \A v \in Workers :
              /\ pc'[v] \in Working =>
                    /\ pc[v] \in Working
                    /\ job'[v] = job[v] /\ own'[v] = own[v]
              /\ pc'[v] \in Reading => pc'[v] = pc[v] /\ seen'[v] = seen[v]
              /\ pc'[v] = "claiming" =>
                    /\ pc[v] = "claiming"
                    /\ job'[v] = job[v] /\ age'[v] = age[v]
    PROVE  TimelyInv'
  <1> USE DEF Working, Reading, Engaged
  <1>1. ASSUME NEW w \in Workers, pc'[w] \in Working PROVE HoldsLease(w)'
    BY <1>1 DEF TimelyInv, WorkerOK, HoldsLease
  <1>2. ASSUME NEW w \in Workers, pc'[w] \in Reading PROVE SnapshotCurrent(w)'
    BY <1>2 DEF TimelyInv, WorkerOK, SnapshotCurrent
  <1>3. ASSUME NEW w \in Workers, pc'[w] = "claiming" PROVE ClaimsFree(w)'
    BY <1>3 DEF TimelyInv, WorkerOK, ClaimsFree
  <1>4. ASSUME NEW v \in Workers, NEW w \in Workers,
               pc'[v] \in Engaged, pc'[w] \in Engaged, job'[v] = job'[w]
        PROVE  v = w
    BY <1>4 DEF TimelyInv
  <1>5. FailureMatchesHistory'
    BY DEF TimelyInv, WorkerOK, FailureMatchesHistory
  <1> QED
    BY <1>1, <1>2, <1>3, <1>4, <1>5 DEF TimelyInv, WorkerOK

(* A commit in time is never stale: it does what the outcome asks for.     *)
LEMMA TimelyCommit ==
    ASSUME TypeOK, OwnInv, TimelyInv, NEW w \in Workers, Commits(w), NEW op \in Ops, op = job[w]
    PROVE  /\ operations[op].status = "processing"
           /\ operations'[op].status = StatusAfter(outcome[w], seen[w].attempt)
           /\ outcome[w].kind = "failure" => operations'[op].failure = outcome[w].code
           /\ attempts'[op] = [attempts[op] EXCEPT ![Len(attempts[op])] = AttemptResult(outcome[w])]
           /\ Len(attempts[op]) \in DOMAIN attempts[op]
           /\ inputs'[op].deleted = (inputs[op].deleted \/ Ends(outcome[w], seen[w].attempt))
  <1>1. pc[w] = "committing" /\ HoldsLease(w) /\ SnapshotCurrent(w) /\ own[w] \in OpenAttempts(op)
        /\ seen[w].attempt = own[w]
    BY DEF Commits, FinishWrites, TimelyInv, WorkerOK, OwnInv, Working, Reading
  <1>2. operations'[op] = FinishedRow(operations[op], seen[w], outcome[w], age[w])
    BY DEF Commits, FinishWrites, TypeOK, TablesTypeOK
  <1>3. StatusAfter(outcome[w], seen[w].attempt) # "processing"
    BY DEF StatusAfter
  <1>4. /\ operations'[op].status = StatusAfter(outcome[w], seen[w].attempt)
        /\ outcome[w].kind = "failure" => operations'[op].failure = outcome[w].code
    BY <1>1, <1>2, <1>3
    DEF FinishedRow, FailureAfter, Written, HoldsLease, SnapshotCurrent, Row, TypeOK, TablesTypeOK
  <1>5. attempts'[op] = [attempts[op] EXCEPT ![Len(attempts[op])] = AttemptResult(outcome[w])]
    BY <1>1 DEF Commits, FinishWrites, HoldsLease, TypeOK, TablesTypeOK
  <1>6. Len(attempts[op]) \in DOMAIN attempts[op]
    BY <1>1 DEF HoldsLease, OpenAttempts
  <1>7. inputs'[op].deleted = (inputs[op].deleted \/ Ends(outcome[w], seen[w].attempt))
    BY <1>1 DEF Commits, FinishWrites, Releases, SnapshotCurrent, TypeOK, TablesTypeOK
  <1> QED
    BY <1>1, <1>4, <1>5, <1>6, <1>7 DEF HoldsLease

LEMMA TimelyStep ==
    ASSUME ~MayOverrun, ~MayLoseAck, TypeOK, InputInv, OwnInv, TimelyInv, [Next]_vars
    PROVE  TimelyInv'
  <1>0. \A v \in Workers : pc[v] \in Engaged => job[v] \in Ops
    BY WorkingJob DEF Engaged
  <1>1. ASSUME NEW op \in Ops, Submit(op) PROVE TimelyInv'
    <2>1. PICK stamp \in Stamps : operations' = [operations EXCEPT ![op] = NewRow("accepted", stamp)]
      BY <1>1 DEF Submit
    <2>2. /\ operations'[op] = NewRow("accepted", stamp) /\ ~inputs'[op].deleted
          /\ \A o \in Ops \ {op} : operations'[o] = operations[o] /\ inputs'[o] = inputs[o]
          /\ UNCHANGED <<attempts, pc, job, age, seen, own>>
      BY <1>1, <2>1 DEF Submit, TypeOK, TablesTypeOK
    <2>3. \A v \in Workers : job[v] # op
      BY <1>1, NullAssumption DEF Submit, InputInv
    <2>4. attempts[op] = << >>
      BY <1>1 DEF Submit, TimelyInv
    <2>5. FailureMatchesHistory'
      BY <2>2, <2>4 DEF TimelyInv, WorkerOK, FailureMatchesHistory, NewRow
    <2>6. ASSUME NEW v \in Workers PROVE WorkerOK(v)'
      BY <1>0, <2>2, <2>3, WorkerFrame DEF TimelyInv
    <2> QED
      BY <2>2, <2>4, <2>5, <2>6 DEF TimelyInv, NewRow
  <1>2. ASSUME NEW w \in Workers, NEW op \in Ops, ClaimSelect(w, op) PROVE TimelyInv'
    <2>1. /\ UNCHANGED <<tables, seen, own>> /\ pc[w] = "idle" /\ pc'[w] = "claiming"
          /\ job'[w] = op /\ age'[w] = 0
          /\ \A v \in Workers \ {w} : pc'[v] = pc[v] /\ job'[v] = job[v] /\ age'[v] = age[v]
          /\ Claimable(operations[op]) /\ ~Locked(op)
      BY <1>2 DEF ClaimSelect, Proceed, TypeOK, LocalsTypeOK
    <2>2. ClaimsFree(w)'
      BY <2>1, ConfigAssumption DEF ClaimsFree, Claimable
    <2>3. \A v \in Workers : pc[v] \in Engaged => job[v] # op
      BY <2>1 DEF TimelyInv, WorkerOK, HoldsLease, Claimable, Locked, Engaged
    <2> QED
      BY <1>0, <2>1, <2>2, <2>3
      DEF TimelyInv, WorkerOK, HoldsLease, SnapshotCurrent, ClaimsFree, Engaged, Reading, Working,
          FailureMatchesHistory
  <1>3. ASSUME NEW w \in Workers, ClaimCommit(w) PROVE TimelyInv'
    <2>1. PICK op \in Ops : op = job[w]
      BY <1>3, WorkingJob DEF ClaimCommit, Proceed
    <2>2. /\ operations'[op] = ClaimedRow(operations[op], age[w])
          /\ attempts'[op] = Append(attempts[op], "processing")
          /\ \A o \in Ops \ {op} : operations'[o] = operations[o] /\ attempts'[o] = attempts[o]
          /\ UNCHANGED <<inputs, job, seen, age>> /\ pc[w] = "claiming" /\ pc'[w] = "claimed"
          /\ own'[w] = Len(attempts[op]) + 1
          /\ \A v \in Workers \ {w} : pc'[v] = pc[v] /\ own'[v] = own[v]
      BY <1>3, <2>1 DEF ClaimCommit, Proceed, TypeOK, TablesTypeOK, LocalsTypeOK
    <2>3. TimeLeft(LeaseSeconds, age[w]) \in Nat \ {0}
      BY <2>2, ConfigAssumption DEF TimelyInv, WorkerOK, ClaimsFree, TimeLeft, Max2, TypeOK, LocalsTypeOK
    <2>4. operations'[op].status = "processing" /\ operations'[op].lease \in Nat \ {0}
      BY <2>2, <2>3 DEF ClaimedRow, Row, TypeOK, TablesTypeOK
    <2>5. \A v \in Workers \ {w} : pc[v] \in Engaged => job[v] \in Ops \ {op}
      BY <1>0, <2>1, <2>2 DEF TimelyInv, WorkerOK, Engaged
    <2>6. HoldsLease(w)'
      BY <2>1, <2>2, <2>4 DEF HoldsLease, TypeOK, TablesTypeOK
    <2>7. FailureMatchesHistory'
      BY <2>2, <2>4 DEF TimelyInv, WorkerOK, FailureMatchesHistory
    <2>8. ~inputs[op].deleted
      BY <2>1, <2>2 DEF TimelyInv, WorkerOK, ClaimsFree
    <2> QED
      BY <2>1, <2>2, <2>4, <2>5, <2>6, <2>7, <2>8
      DEF TimelyInv, WorkerOK, HoldsLease, SnapshotCurrent, ClaimsFree, Engaged, Reading, Working
  <1>4. ASSUME NEW w \in Workers, ReadOperation(w) PROVE TimelyInv'
    <2>1. /\ UNCHANGED <<tables, job, own, age>> /\ pc[w] = "finishing" /\ pc'[w] = "reading"
          /\ seen'[w] = LoadRow(seen[w], operations[job[w]])
          /\ \A v \in Workers \ {w} : pc'[v] = pc[v] /\ seen'[v] = seen[v]
      BY <1>4 DEF ReadOperation, Proceed, TypeOK, LocalsTypeOK
    <2>2. HoldsLease(w) /\ seen[w] \in Snapshot
      BY <2>1 DEF TimelyInv, WorkerOK, Working, TypeOK, LocalsTypeOK
    <2>3. seen'[w].status = "processing" /\ seen'[w].failure = operations[job[w]].failure
      BY <2>1, <2>2 DEF LoadRow, Snapshot, HoldsLease
    <2>4. seen'[w].leased
      <3>1. (operations[job[w]].lease # Null) = TRUE
        BY <2>2, NullAssumption DEF HoldsLease
      <3>2. seen'[w] = [seen[w] EXCEPT !.status = operations[job[w]].status,
                                      !.leased = TRUE,
                                      !.failure = operations[job[w]].failure]
        BY <2>1, <3>1 DEF LoadRow
      <3> QED
        BY <2>2, <3>2 DEF Snapshot
    <2> QED
      BY <2>1, <2>3, <2>4
      DEF TimelyInv, WorkerOK, HoldsLease, SnapshotCurrent, ClaimsFree, Engaged, Reading, Working,
          FailureMatchesHistory
  <1>5. ASSUME NEW w \in Workers, ReadAttempt(w) PROVE TimelyInv'
    <2>1. PICK n \in OpenAttempts(job[w]) :
            seen' = [seen EXCEPT ![w] = LoadAttempt(@, n, inputs[job[w]])]
      BY <1>5 DEF ReadAttempt
    <2>2. /\ UNCHANGED <<tables, job, own, age>> /\ pc[w] = "reading" /\ pc'[w] = "committing"
          /\ seen'[w] = LoadAttempt(seen[w], n, inputs[job[w]])
          /\ \A v \in Workers \ {w} : pc'[v] = pc[v] /\ seen'[v] = seen[v]
      BY <1>5, <2>1 DEF ReadAttempt, Proceed, TypeOK, LocalsTypeOK
    <2>3. seen[w] \in Snapshot /\ SnapshotCurrent(w) /\ ~inputs[job[w]].deleted
      BY <1>0, <2>2 DEF TimelyInv, WorkerOK, HoldsLease, Reading, Working, Engaged, TypeOK, LocalsTypeOK
    <2>4. /\ seen'[w].status = seen[w].status /\ seen'[w].leased = seen[w].leased
          /\ seen'[w].failure = seen[w].failure /\ seen'[w].inputLive
      BY <2>2, <2>3 DEF LoadAttempt, Snapshot
    <2>5. WorkerOK(w)'
      BY <2>2, <2>3, <2>4 DEF TimelyInv, WorkerOK, HoldsLease, SnapshotCurrent, Reading, Working
    <2>6. ASSUME NEW v \in Workers \ {w} PROVE WorkerOK(v)'
      BY <2>2, WorkerFrame DEF TimelyInv
    <2> QED
      BY <2>2, <2>5, <2>6 DEF TimelyInv, Engaged, Working, FailureMatchesHistory
  <1>6. ASSUME NEW w \in Workers, Commits(w) PROVE TimelyInv'
    <2>1. PICK op \in Ops : op = job[w]
      BY <1>6, WorkingJob DEF Commits, FinishWrites, Working
    <2>2. /\ pc'[w] \in {"idle", "deleting"} \union Down
          /\ \A v \in Workers \ {w} : /\ pc'[v] = pc[v] /\ job'[v] = job[v] /\ age'[v] = age[v]
                                      /\ seen'[v] = seen[v] /\ own'[v] = own[v]
          /\ \A o \in Ops \ {op} : /\ operations'[o] = operations[o] /\ attempts'[o] = attempts[o]
                                   /\ inputs'[o] = inputs[o]
      BY <1>6, <2>1 DEF Commits, FinishWrites, TypeOK, TablesTypeOK, LocalsTypeOK
    <2>3. /\ operations'[op].status = StatusAfter(outcome[w], seen[w].attempt)
          /\ outcome[w].kind = "failure" => operations'[op].failure = outcome[w].code
          /\ attempts'[op] = [attempts[op] EXCEPT ![Len(attempts[op])] = AttemptResult(outcome[w])]
          /\ Len(attempts[op]) \in DOMAIN attempts[op]
          /\ inputs'[op].deleted = (inputs[op].deleted \/ Ends(outcome[w], seen[w].attempt))
      BY <1>6, <2>1, TimelyCommit
    <2>4. \A v \in Workers \ {w} : pc[v] \in Engaged => job[v] \in Ops \ {op}
      BY <1>0, <1>6, <2>1 DEF TimelyInv, WorkerOK, Engaged, Commits, FinishWrites, Working
    <2>5. StatusAfter(outcome[w], seen[w].attempt) \in {"accepted", "processing"} => ~inputs'[op].deleted
      <3>1. ~inputs[op].deleted
        BY <1>6, <2>1 DEF TimelyInv, WorkerOK, HoldsLease, Commits, FinishWrites, Working
      <3> QED
        BY <2>3, <3>1 DEF Ends, Terminal
    <2>6. FailureMatchesHistory'
      <3>1. outcome[w] \in Outcome /\ attempts[op] \in Seq(AttemptOutcome)
        BY <1>6 DEF Commits, FinishWrites, TypeOK, TablesTypeOK, LocalsTypeOK, PhaseOK
      <3>2. Len(attempts'[op]) = Len(attempts[op])
        BY <2>3, <3>1
      <3>3. attempts'[op][Len(attempts'[op])] = AttemptResult(outcome[w])
        BY <2>3, <3>1, <3>2
      <3>4. outcome[w].kind = "success" <=> StatusAfter(outcome[w], seen[w].attempt) = "succeeded"
        BY <3>1 DEF StatusAfter, Outcome
      <3> QED
        <4>1. /\ operations'[op].status \in {"accepted", "failed"}
                   => operations'[op].failure = attempts'[op][Len(attempts'[op])]
              /\ operations'[op].status = "succeeded" => attempts'[op][Len(attempts'[op])] = "succeeded"
          BY <2>3, <3>1, <3>3, <3>4 DEF AttemptResult, Outcome
        <4> QED
          BY <2>2, <4>1 DEF TimelyInv, FailureMatchesHistory
    <2>7. ASSUME NEW v \in Workers \ {w} PROVE WorkerOK(v)'
      BY <2>2, <2>4, WorkerFrame DEF TimelyInv
    <2>8. WorkerOK(w)'
      BY <2>2 DEF WorkerOK, Working, Reading, Down
    <2>9. StatusAfter(outcome[w], seen[w].attempt) # "absent"
      BY DEF StatusAfter
    <2> QED
      BY <2>2, <2>3, <2>5, <2>6, <2>7, <2>8, <2>9 DEF TimelyInv, Engaged, Working, Down
  <1>7. ASSUME NEW w \in Workers, DeleteInput(w) PROVE TimelyInv'
    BY <1>7, TimelyKept DEF DeleteInput, Leave, Working, Reading, TypeOK, TablesTypeOK, LocalsTypeOK
  <1>8. ASSUME NEW w \in Workers, LocalStep(w) PROVE TimelyInv'
    BY <1>8, TimelyKept DEF LocalStep, Working, Reading, Down
  <1>9. CASE Tick
    <2>1. UNCHANGED <<attempts, pc, job, seen, own>> /\ \A w \in Workers : InTime(w)
      BY <1>9 DEF Tick
    <2>2. \A op \in Ops : /\ operations'[op].status = operations[op].status
                         /\ operations'[op].failure = operations[op].failure
                         /\ inputs'[op].deleted = inputs[op].deleted
      BY <1>9, TickFacts
    <2>3. \A op \in Ops : operations'[op].lease = Elapse(operations[op].lease)
      BY <1>9 DEF Tick, Older, Row, TypeOK, TablesTypeOK
    <2>4. ASSUME NEW w \in Workers, pc'[w] \in Working PROVE HoldsLease(w)'
      BY <1>0, <2>1, <2>2, <2>3, <2>4, NullAssumption
      DEF TimelyInv, WorkerOK, HoldsLease, InTime, Elapse, Engaged
    <2>5. ASSUME NEW w \in Workers, pc'[w] \in Reading PROVE SnapshotCurrent(w)'
      BY <1>0, <2>1, <2>2, <2>5 DEF TimelyInv, WorkerOK, SnapshotCurrent, Engaged, Reading, Working
    <2>6. ASSUME NEW w \in Workers, pc'[w] = "claiming" PROVE ClaimsFree(w)'
      <3>1. age'[w] < LeaseSeconds
        BY <1>9, <2>1, <2>6, ConfigAssumption
        DEF TimelyInv, WorkerOK, ClaimsFree, InTime, Tick, TypeOK, LocalsTypeOK
      <3>2. job[w] \in Ops /\ ClaimsFree(w)
        BY <1>0, <2>1, <2>6 DEF TimelyInv, WorkerOK, Engaged
      <3> QED
        BY <2>1, <2>2, <2>3, <3>1, <3>2 DEF ClaimsFree, Elapse
    <2>7. FailureMatchesHistory'
      BY <2>1, <2>2 DEF TimelyInv, WorkerOK, FailureMatchesHistory
    <2> QED
      BY <2>1, <2>2, <2>4, <2>5, <2>6, <2>7 DEF TimelyInv, WorkerOK
  <1>10. CASE UNCHANGED vars
    BY <1>10, TimelyKept DEF vars
  <1> QED
    BY <1>1, <1>2, <1>3, <1>4, <1>5, <1>6, <1>7, <1>8, <1>9, <1>10, NextCases

LEMMA TimelyInit == Init => TimelyInv
  BY NullAssumption
  DEF Init, TimelyInv, WorkerOK, FailureMatchesHistory, Engaged, Working, Reading, NewRow

(* TimelyInv with what it rests on.                                        *)
TimelyIInv == TypeOK /\ InputInv /\ Acknowledged /\ OwnInv /\ TimelyInv

LEMMA TimelyInvariant ==
    ASSUME ~MayOverrun, ~MayLoseAck
    PROVE  Spec => []TimelyIInv
  <1>1. Init => TimelyIInv
    BY TypeInit, InputInit, TimelyInit DEF Init, TimelyIInv, Acknowledged, OwnInv, Working
  <1>2. TimelyIInv /\ [Next]_vars => TimelyIInv'
    BY TypeStep, InputStep, AcksGrow, OwnStep, TimelyStep DEF TimelyIInv
  <1> QED
    BY <1>1, <1>2, PTL DEF Spec

(* The lease is a lock: two live workers are never in attempts of one      *)
(* operation.                                                              *)
THEOREM ExclusiveCorrect ==
    ASSUME ~MayOverrun, ~MayLoseAck PROVE Spec => []ExclusiveLease
  <1>1. TimelyIInv => ExclusiveLease
    BY DEF TimelyIInv, TimelyInv, ExclusiveLease, Engaged
  <1> QED
    BY <1>1, TimelyInvariant, PTL

(* An operation that may be attempted again keeps its original.            *)
THEOREM InputKeptCorrect ==
    ASSUME ~MayOverrun, ~MayLoseAck PROVE Spec => []InputKeptForRetry
  <1>1. TimelyIInv => InputKeptForRetry
    BY DEF TimelyIInv, InputInv, DirectoryOutlivesMark, TimelyInv, InputKeptForRetry
  <1> QED
    BY <1>1, TimelyInvariant, PTL

(* The failure code of an operation is that of its last attempt.           *)
THEOREM FailureCorrect ==
    ASSUME ~MayOverrun, ~MayLoseAck PROVE Spec => []FailureMatchesHistory
  <1>1. TimelyIInv => FailureMatchesHistory
    BY DEF TimelyIInv, TimelyInv
  <1> QED
    BY <1>1, TimelyInvariant, PTL

(* The rows a step writes.                                                 *)
LEMMA StatusSteps ==
    ASSUME TypeOK, OwnInv, TimelyInv, [Next]_vars
    PROVE  \/ \E op \in Ops : Submit(op)
           \/ \E w \in Workers : ClaimCommit(w) \/ Commits(w)
           \/ /\ \A op \in Ops : /\ operations'[op].status = operations[op].status
                                 /\ inputs'[op].deleted = inputs[op].deleted
              /\ UNCHANGED results
  <1>1. ASSUME NEW w \in Workers,
               \/ \E op \in Ops : ClaimSelect(w, op)
               \/ ReadOperation(w) \/ ReadAttempt(w) \/ LocalStep(w)
        PROVE  UNCHANGED tables
    BY <1>1 DEF ClaimSelect, ReadOperation, ReadAttempt, LocalStep
  <1>2. ASSUME NEW w \in Workers, DeleteInput(w)
        PROVE  /\ UNCHANGED <<operations, results>>
               /\ \A op \in Ops : inputs'[op].deleted = inputs[op].deleted
    BY <1>2 DEF DeleteInput, TypeOK, TablesTypeOK
  <1>3. Tick => UNCHANGED results
    BY DEF Tick
  <1> QED
    BY <1>1, <1>2, <1>3, TickFacts, NextCases DEF vars

(* An operation that ended never changes its status again.                 *)
THEOREM FinalCorrect ==
    ASSUME ~MayOverrun, ~MayLoseAck PROVE Spec => TerminalIsFinal
  <1>1. ASSUME TypeOK, OwnInv, TimelyInv, [Next]_vars, NEW op \in Ops,
               operations[op].status \in Terminal
        PROVE  operations'[op].status = operations[op].status
    <2>1. ASSUME NEW o \in Ops, Submit(o) PROVE operations'[op] = operations[op]
      BY <1>1, <2>1 DEF Submit, Terminal
    <2>2. ASSUME NEW w \in Workers, ClaimCommit(w) PROVE operations'[op] = operations[op]
      <3>1. job[w] # op
        BY <1>1, <2>2 DEF ClaimCommit, Proceed, TimelyInv, WorkerOK, ClaimsFree, Terminal
      <3> QED
        BY <2>2, <3>1 DEF ClaimCommit
    <2>3. ASSUME NEW w \in Workers, Commits(w) PROVE operations'[op] = operations[op]
      <3>1. job[w] # op
        BY <1>1, <2>3, TimelyCommit DEF Terminal
      <3> QED
        BY <2>3, <3>1 DEF Commits, FinishWrites
    <2> QED
      BY <1>1, <2>1, <2>2, <2>3, StatusSteps
  <1>2. TimelyIInv /\ [Next]_vars =>
          [\A op \in Ops : operations[op].status \in Terminal
               => operations'[op].status = operations[op].status]_vars
    BY <1>1 DEF TimelyIInv
  <1> QED
    BY <1>2, TimelyInvariant, PTL DEF Spec, TerminalIsFinal
-----------------------------------------------------------------------------
(* The refinement: a claim of an accepted operation is Begin, a second     *)
(* claim stutters, a commit is Succeed, Retry or Fail.                     *)
life == [op \in Ops |-> operations[op].status]
held == {op \in Ops : operations[op].status # "absent" /\ ~inputs[op].deleted}

(* What has to be shown of a step that changes one operation.              *)
LEMMA LifeOf ==
    ASSUME NEW op \in Ops, NEW new, operations'[op].status = new,
           \A o \in Ops \ {op} : operations'[o] = operations[o] /\ inputs'[o] = inputs[o]
    PROVE  /\ life' = [life EXCEPT ![op] = new]
           /\ new # "absent" /\ ~inputs'[op].deleted => held' = held \union {op}
           /\ inputs'[op].deleted => held' = held \ {op}
           /\ operations[op].status # "absent" /\ ~inputs[op].deleted => held = held \union {op}
           /\ operations[op].status # "absent" /\ inputs[op].deleted => held = held \ {op}
  BY DEF life, held

LEMMA SubmitSimulated ==
    ASSUME TypeOK, InputInv, NEW op \in Ops, Submit(op) PROVE Lifecycle!Submit(op)
  <1>1. PICK stamp \in Stamps : operations' = [operations EXCEPT ![op] = NewRow("accepted", stamp)]
    BY DEF Submit
  <1>2. /\ operations'[op].status = "accepted" /\ operations[op].status = "absent"
        /\ ~inputs'[op].deleted /\ UNCHANGED results
        /\ \A o \in Ops \ {op} : operations'[o] = operations[o] /\ inputs'[o] = inputs[o]
    BY <1>1 DEF Submit, NewRow, TypeOK, TablesTypeOK
  <1>3. life' = [life EXCEPT ![op] = "accepted"] /\ held' = held \union {op}
    BY <1>2, LifeOf
  <1> QED
    BY <1>2, <1>3 DEF Lifecycle!Submit, Lifecycle!Move, life, held

LEMMA ClaimSimulated ==
    ASSUME TypeOK, TimelyInv, NEW w \in Workers, ClaimCommit(w), NEW op \in Ops, job[w] = op
    PROVE  Lifecycle!Begin(op) \/ UNCHANGED <<life, results, held>>
  <1>2. /\ operations'[op] = ClaimedRow(operations[op], age[w]) /\ UNCHANGED <<inputs, results>>
        /\ \A o \in Ops \ {op} : operations'[o] = operations[o]
    BY DEF ClaimCommit, TypeOK, TablesTypeOK
  <1>3. operations'[op].status = "processing" /\ operations[op].status \in {"accepted", "processing"}
    BY <1>2
    DEF ClaimedRow, Row, ClaimCommit, Proceed, TimelyInv, WorkerOK, ClaimsFree, TypeOK, TablesTypeOK
  <1>4. life' = [life EXCEPT ![op] = "processing"] /\ held' = held
    <2>1. \A o \in Ops \ {op} : operations'[o] = operations[o] /\ inputs'[o] = inputs[o]
      BY <1>2
    <2>2. life' = [life EXCEPT ![op] = "processing"]
      BY <1>3, <2>1, LifeOf
    <2>3. \A o \in Ops : o \in held' <=> o \in held
      BY <1>2, <1>3, <2>1 DEF held
    <2> QED
      BY <2>2, <2>3 DEF held
  <1>5. CASE operations[op].status = "accepted"
    BY <1>2, <1>4, <1>5 DEF Lifecycle!Begin, Lifecycle!Move, life, held
  <1>6. CASE operations[op].status = "processing"
    BY <1>2, <1>4, <1>6 DEF life
  <1> QED
    BY <1>3, <1>5, <1>6

LEMMA FinishSimulated ==
    ASSUME TypeOK, OwnInv, TimelyInv, NEW w \in Workers, Commits(w), NEW op \in Ops, job[w] = op
    PROVE  Lifecycle!Succeed(op) \/ Lifecycle!Retry(op) \/ Lifecycle!Fail(op)
  <1> DEFINE new == StatusAfter(outcome[w], seen[w].attempt)
  <1>2. /\ operations[op].status = "processing" /\ operations'[op].status = new
        /\ inputs'[op].deleted = (inputs[op].deleted \/ Ends(outcome[w], seen[w].attempt))
    BY TimelyCommit
  <1>3. /\ \A o \in Ops \ {op} : operations'[o] = operations[o] /\ inputs'[o] = inputs[o]
        /\ results' = results \union (IF outcome[w].kind = "success" THEN {op} ELSE {})
        /\ outcome[w].kind = "success" => op \notin results
    BY DEF Commits, FinishWrites, DuplicateResult, TypeOK, TablesTypeOK
  <1>4. /\ life' = [life EXCEPT ![op] = new]
        /\ new # "absent" /\ ~inputs'[op].deleted => held' = held \union {op}
        /\ inputs'[op].deleted => held' = held \ {op}
        /\ ~inputs[op].deleted => held = held \union {op}
        /\ inputs[op].deleted => held = held \ {op}
    BY <1>2, <1>3, LifeOf
  <1>5. life[op] = "processing"
    BY <1>2 DEF life
  <1>6. CASE outcome[w].kind = "success"
    <2>1. new = "succeeded" /\ inputs'[op].deleted
      BY <1>2, <1>6 DEF StatusAfter, Ends, Terminal
    <2>2. held' = held \ {op}
      BY <1>4, <2>1
    <2> QED
      BY <1>3, <1>4, <1>5, <1>6, <2>1, <2>2 DEF Lifecycle!Succeed, Lifecycle!Move, life, held
  <1>7. CASE outcome[w].kind # "success" /\ new = "accepted"
    <2>1. inputs'[op].deleted = inputs[op].deleted
      BY <1>2, <1>7 DEF Ends, Terminal, TypeOK, TablesTypeOK
    <2>2. held' = held
      BY <1>4, <1>7, <2>1
    <2> QED
      BY <1>3, <1>4, <1>5, <1>7, <2>2 DEF Lifecycle!Retry, Lifecycle!Move, life, held
  <1>8. CASE outcome[w].kind # "success" /\ new # "accepted"
    <2>1. new = "failed" /\ inputs'[op].deleted
      BY <1>2, <1>8 DEF StatusAfter, Ends, Terminal
    <2>2. held' = held \ {op}
      BY <1>4, <2>1
    <2> QED
      BY <1>3, <1>4, <1>5, <1>8, <2>1, <2>2 DEF Lifecycle!Fail, Lifecycle!Move, life, held
  <1> QED
    BY <1>6, <1>7, <1>8

(* The worker implements the life of an operation that clients rely on.    *)
THEOREM LifecycleCorrect ==
    ASSUME ~MayOverrun, ~MayLoseAck PROVE Spec => ImplementsLifecycle
  <1>1. Init => Lifecycle!Init
    BY DEF Init, Lifecycle!Init, NewRow
  <1>2. ASSUME TypeOK, InputInv, OwnInv, TimelyInv, [Next]_vars
        PROVE  [Lifecycle!Next]_(Lifecycle!vars)
    <2>1. ASSUME NEW op \in Ops, Submit(op) PROVE Lifecycle!Next
      BY <1>2, <2>1, SubmitSimulated DEF Lifecycle!Next
    <2>2. ASSUME NEW w \in Workers, ClaimCommit(w) PROVE [Lifecycle!Next]_(Lifecycle!vars)
      <3>1. PICK op \in Ops : job[w] = op
        BY <1>2, <2>2, WorkingJob DEF ClaimCommit, Proceed
      <3>2. Lifecycle!Begin(op) \/ UNCHANGED <<life, results, held>>
        BY <1>2, <2>2, <3>1, ClaimSimulated
      <3>3. CASE Lifecycle!Begin(op)
        BY <3>3 DEF Lifecycle!Next
      <3>4. CASE UNCHANGED <<life, results, held>>
        BY <3>4 DEF Lifecycle!vars, life, held
      <3> QED
        BY <3>2, <3>3, <3>4
    <2>3. ASSUME NEW w \in Workers, Commits(w) PROVE Lifecycle!Next
      <3>1. PICK op \in Ops : job[w] = op
        BY <1>2, <2>3, WorkingJob DEF Commits, FinishWrites, Working
      <3>2. Lifecycle!Succeed(op) \/ Lifecycle!Retry(op) \/ Lifecycle!Fail(op)
        BY <1>2, <2>3, <3>1, FinishSimulated
      <3> QED
        BY <3>2 DEF Lifecycle!Next
    <2>4. ASSUME \A op \in Ops : /\ operations'[op].status = operations[op].status
                                /\ inputs'[op].deleted = inputs[op].deleted,
                 UNCHANGED results
          PROVE  UNCHANGED Lifecycle!vars
      BY <2>4 DEF Lifecycle!vars
    <2> QED
      BY <1>2, <2>1, <2>2, <2>3, <2>4, StatusSteps
  <1>3. TimelyIInv /\ [Next]_vars => [Lifecycle!Next]_(Lifecycle!vars)
    BY <1>2 DEF TimelyIInv
  <1> QED
    BY <1>1, <1>3, TimelyInvariant, PTL DEF Spec, ImplementsLifecycle, Lifecycle!Spec
(* What OperationLifecycle implies, and the workers with it: a result is   *)
(* there exactly when the operation succeeded (operation_results against   *)
(* the status), and the original is in use exactly until it ended.         *)
Accounts ==
    \A op \in Ops :
       /\ op \in results <=> operations[op].status = "succeeded"
       /\ op \in held <=> operations[op].status \in {"accepted", "processing"}

(* No _finish meets the unique key on operation_results.operation_id.      *)
NoFinishConflicts == \A w \in Workers : pc[w] = "committing" => ~DuplicateResult(w)

LEMMA AccountsInit == Lifecycle!Init => Accounts
  BY DEF Lifecycle!Init, Accounts, held

LEMMA MoveFacts ==
    ASSUME NEW op \in Ops, NEW from, NEW to, Lifecycle!Move(op, from, to)
    PROVE  /\ operations[op].status = from /\ operations'[op].status = to
           /\ \A o \in Ops \ {op} : operations'[o].status = operations[o].status
  <1>1. \A o \in Ops : life[o] = operations[o].status /\ life'[o] = operations'[o].status
    BY DEF life
  <1>2. life[op] = from /\ life' = [life EXCEPT ![op] = to] /\ DOMAIN life = Ops
    BY DEF life, Lifecycle!Move
  <1> QED
    BY <1>1, <1>2

LEMMA AccountsStep == Accounts /\ [Lifecycle!Next]_(Lifecycle!vars) => Accounts'
  <1> DEFINE Books(o) == /\ o \in results <=> operations[o].status = "succeeded"
                         /\ o \in held <=> operations[o].status \in {"accepted", "processing"}
             Kept(o) == /\ operations'[o].status = operations[o].status
                        /\ o \in results' <=> o \in results
                        /\ o \in held' <=> o \in held
  <1>1. /\ Accounts <=> \A o \in Ops : Books(o)
        /\ Accounts' <=> \A o \in Ops : Books(o)'
    BY DEF Accounts
  <1>2. ASSUME NEW op \in Ops, Accounts,
               \/ Lifecycle!Submit(op) \/ Lifecycle!Begin(op) \/ Lifecycle!Retry(op)
               \/ Lifecycle!Succeed(op) \/ Lifecycle!Fail(op)
        PROVE  Books(op)' /\ \A o \in Ops \ {op} : Kept(o)
    <2> USE DEF held
    <2>1. CASE Lifecycle!Submit(op)
      BY <1>1, <1>2, <2>1, MoveFacts DEF Lifecycle!Submit
    <2>2. CASE Lifecycle!Begin(op) \/ Lifecycle!Retry(op)
      BY <1>1, <1>2, <2>2, MoveFacts DEF Lifecycle!Begin, Lifecycle!Retry
    <2>3. CASE Lifecycle!Succeed(op)
      BY <1>1, <1>2, <2>3, MoveFacts DEF Lifecycle!Succeed
    <2>4. CASE Lifecycle!Fail(op)
      BY <1>1, <1>2, <2>4, MoveFacts DEF Lifecycle!Fail
    <2> QED
      BY <1>2, <2>1, <2>2, <2>3, <2>4
  <1>3. ASSUME UNCHANGED Lifecycle!vars, NEW o \in Ops PROVE Kept(o)
    <2>1. [p \in Ops |-> operations'[p].status][o] = [p \in Ops |-> operations[p].status][o]
      BY <1>3 DEF Lifecycle!vars
    <2> QED
      BY <1>3, <2>1 DEF Lifecycle!vars, held
  <1>4. \A o \in Ops : Books(o) /\ Kept(o) => Books(o)'
    OBVIOUS
  <1> QED
    BY <1>1, <1>2, <1>3, <1>4 DEF Lifecycle!Next

(* The two hold while attempts end within their leases and commits are     *)
(* acknowledged: inherited through the refinement of the lifecycle.        *)
THEOREM AccountsCorrect ==
    ASSUME ~MayOverrun, ~MayLoseAck PROVE Spec => [](Accounts /\ NoFinishConflicts)
  <1>1. Spec => []Accounts
    BY LifecycleCorrect, AccountsInit, AccountsStep, PTL DEF ImplementsLifecycle, Lifecycle!Spec
  <1>2. TimelyIInv /\ Accounts => NoFinishConflicts
    BY WorkingJob
    DEF TimelyIInv, TimelyInv, WorkerOK, HoldsLease, Accounts, NoFinishConflicts, DuplicateResult,
        Working
  <1> QED
    BY <1>1, <1>2, TimelyInvariant, PTL
-----------------------------------------------------------------------------
(* What a crash costs.  _finish wants exactly one open attempt, and the    *)
(* claim that recovers an operation opens one beside that of the process   *)
(* that died: from then on nobody can record an outcome.                   *)
Blocked(op) == \E m, n \in OpenAttempts(op) : m # n
ClosedAttempts(op) == DOMAIN attempts[op] \ OpenAttempts(op)

(* Whatever crashes, no attempt past max_attempts has an outcome, and no   *)
(* more than max_attempts usage events are written.  (The attempts made    *)
(* and the usage billed have no such bound: CrashSpendsBudget.)            *)
RecordedWithinBudget ==
    \A op \in Ops : usage[op] <= MaxAttempts /\ \A n \in ClosedAttempts(op) : n <= MaxAttempts

(* An operation in processing has its last attempt open, within the budget *)
(* and without a usage event unless blocked; any other has none open.      *)
AttemptsOf(op) ==
    IF operations[op].status = "processing"
    THEN /\ Len(attempts[op]) \in OpenAttempts(op)
         /\ ~Blocked(op) => Len(attempts[op]) <= MaxAttempts /\ usage[op] < Len(attempts[op])
    ELSE OpenAttempts(op) = {} /\ usage[op] <= Len(attempts[op])

BlockInv ==
    /\ RecordedWithinBudget
    /\ \A w \in Workers : pc[w] = "committing" => ~Blocked(job[w])
    /\ \A op \in Ops : AttemptsOf(op)
    /\ \A op \in Ops : operations[op].status = "accepted" => Len(attempts[op]) < MaxAttempts

(* A worker that stays at its commit, or that found one attempt open.      *)
CommitsFree ==
    \A w \in Workers : pc'[w] = "committing"
       => job'[w] = job[w] /\ (pc[w] = "committing" \/ ~Blocked(job[w]))

(* Steps that leave attempts, usage and status alone.                      *)
LEMMA BlockKept ==
    ASSUME BlockInv, UNCHANGED <<attempts, usage>>, CommitsFree,
           \A op \in Ops : operations'[op].status = operations[op].status
    PROVE  BlockInv'
  <1>1. \A op \in Ops : /\ OpenAttempts(op)' = OpenAttempts(op)
                        /\ ClosedAttempts(op)' = ClosedAttempts(op)
                        /\ Blocked(op)' <=> Blocked(op)
    BY DEF OpenAttempts, ClosedAttempts, Blocked
  <1>2. ASSUME NEW op \in Ops PROVE AttemptsOf(op)'
    <2>1. AttemptsOf(op)
      BY DEF BlockInv
    <2> QED
      BY <1>1, <2>1 DEF AttemptsOf
  <1>3. (\A w \in Workers : pc[w] = "committing" => ~Blocked(job[w]))'
    BY DEF CommitsFree, BlockInv, Blocked, OpenAttempts
  <1>4. RecordedWithinBudget'
    BY <1>1 DEF BlockInv, RecordedWithinBudget
  <1>5. (\A op \in Ops : operations[op].status = "accepted" => Len(attempts[op]) < MaxAttempts)'
    BY DEF BlockInv
  <1> QED
    BY <1>2, <1>3, <1>4, <1>5 DEF BlockInv

(* Steps that write the attempts of one operation.                         *)
LEMMA BlockOf ==
    ASSUME BlockInv, NEW op \in Ops, CommitsFree,
           \A o \in Ops \ {op} : /\ operations'[o].status = operations[o].status
                                 /\ attempts'[o] = attempts[o] /\ usage'[o] = usage[o],
           \A w \in Workers : pc'[w] = "committing" => job[w] \in Ops \ {op},
           usage'[op] <= MaxAttempts, \A n \in ClosedAttempts(op)' : n <= MaxAttempts,
           AttemptsOf(op)',
           operations'[op].status = "accepted" => Len(attempts'[op]) < MaxAttempts
    PROVE  BlockInv'
  <1>1. \A o \in Ops \ {op} : /\ OpenAttempts(o)' = OpenAttempts(o)
                              /\ ClosedAttempts(o)' = ClosedAttempts(o)
                              /\ Blocked(o)' <=> Blocked(o)
    BY DEF OpenAttempts, ClosedAttempts, Blocked
  <1>2. \A o \in Ops \ {op} : AttemptsOf(o)'
    BY <1>1 DEF AttemptsOf, BlockInv
  <1>3. \A w \in Workers : pc'[w] = "committing" => ~Blocked(job[w])' /\ job'[w] = job[w]
    BY <1>1 DEF CommitsFree, BlockInv
  <1>4. (\A w \in Workers : pc[w] = "committing" => ~Blocked(job[w]))'
    BY <1>3 DEF Blocked, OpenAttempts
  <1> QED
    BY <1>1, <1>2, <1>4 DEF BlockInv, RecordedWithinBudget

LEMMA BlockStep ==
    ASSUME ~MayOverrun, ~MayLoseAck, TimelyIInv, BlockInv, [Next]_vars
    PROVE  BlockInv'
  <1> USE DEF TimelyIInv
  <1>0. \A w \in Workers : pc[w] = "committing" => job[w] \in Ops
    BY WorkingJob DEF Working
  <1>1. ASSUME NEW op \in Ops, Submit(op) PROVE BlockInv'
    <2>1. PICK stamp \in Stamps : operations' = [operations EXCEPT ![op] = NewRow("accepted", stamp)]
      BY <1>1 DEF Submit
    <2>2. /\ operations[op].status = "absent" /\ operations'[op].status = "accepted"
          /\ \A o \in Ops \ {op} : operations'[o] = operations[o]
          /\ UNCHANGED <<attempts, usage, pc, job>>
      BY <1>1, <2>1 DEF Submit, NewRow, TypeOK, TablesTypeOK
    <2>3. attempts[op] = << >> /\ \A w \in Workers : job[w] # op
      BY <2>2, NullAssumption DEF TimelyInv, InputInv
    <2>4. AttemptsOf(op)'
      BY <2>2, <2>3 DEF BlockInv, AttemptsOf, OpenAttempts
    <2> QED
      BY <1>0, <2>2, <2>3, <2>4, BlockOf, ConfigAssumption
      DEF CommitsFree, BlockInv, RecordedWithinBudget, ClosedAttempts, OpenAttempts
  <1>2. ASSUME NEW w \in Workers, NEW op \in Ops, ClaimSelect(w, op) PROVE BlockInv'
    <2>1. CommitsFree
      BY <1>2 DEF CommitsFree, ClaimSelect, Proceed, TypeOK, LocalsTypeOK
    <2> QED
      BY <1>2, <2>1, BlockKept DEF ClaimSelect
  <1>3. ASSUME NEW w \in Workers, ClaimCommit(w) PROVE BlockInv'
    <2>1. PICK op \in Ops : op = job[w]
      BY <1>3, WorkingJob DEF ClaimCommit, Proceed
    <2>2. /\ operations'[op].status = "processing"
          /\ attempts'[op] = Append(attempts[op], "processing")
          /\ \A o \in Ops \ {op} : operations'[o] = operations[o] /\ attempts'[o] = attempts[o]
          /\ UNCHANGED <<usage, job>> /\ pc[w] = "claiming" /\ pc'[w] = "claimed"
          /\ \A v \in Workers \ {w} : pc'[v] = pc[v]
      BY <1>3, <2>1
      DEF ClaimCommit, ClaimedRow, Proceed, Row, TypeOK, TablesTypeOK, LocalsTypeOK
    <2>3. operations[op].status \in {"accepted", "processing"}
      BY <2>1, <2>2 DEF TimelyInv, WorkerOK, ClaimsFree
    <2>4. attempts[op] \in Seq(AttemptOutcome) /\ usage[op] \in Nat
      BY DEF TypeOK, TablesTypeOK
    <2>5. /\ OpenAttempts(op)' = OpenAttempts(op) \union {Len(attempts[op]) + 1}
          /\ Len(attempts'[op]) = Len(attempts[op]) + 1
          /\ ClosedAttempts(op)' = ClosedAttempts(op)
          /\ Len(attempts[op]) + 1 \notin OpenAttempts(op)
      BY <2>2, <2>4 DEF OpenAttempts, ClosedAttempts
    <2>6. ASSUME operations[op].status = "processing" PROVE AttemptsOf(op)'
      <3>1. Blocked(op)'
        BY <2>4, <2>5, <2>6 DEF BlockInv, AttemptsOf, Blocked
      <3> QED
        BY <2>2, <2>5, <3>1 DEF AttemptsOf
    <2>7. ASSUME operations[op].status = "accepted" PROVE AttemptsOf(op)'
      BY <2>2, <2>4, <2>5, <2>7, ConfigAssumption DEF BlockInv, AttemptsOf
    <2>8. AttemptsOf(op)'
      BY <2>3, <2>6, <2>7
    <2>9. \A v \in Workers : pc'[v] = "committing" => job[v] \in Ops \ {op} /\ pc[v] = "committing"
      BY <1>0, <2>1, <2>2 DEF TimelyInv, Engaged, Working
    <2> QED
      BY <2>2, <2>5, <2>8, <2>9, BlockOf DEF CommitsFree, BlockInv, RecordedWithinBudget
  <1>4. ASSUME NEW w \in Workers, ReadOperation(w) PROVE BlockInv'
    <2>1. CommitsFree
      BY <1>4 DEF CommitsFree, ReadOperation, Proceed, TypeOK, LocalsTypeOK
    <2> QED
      BY <1>4, <2>1, BlockKept DEF ReadOperation
  <1>5. ASSUME NEW w \in Workers, ReadAttempt(w) PROVE BlockInv'
    <2>1. CommitsFree
      BY <1>5 DEF CommitsFree, ReadAttempt, Proceed, Blocked, TypeOK, LocalsTypeOK
    <2> QED
      BY <1>5, <2>1, BlockKept DEF ReadAttempt
  <1>6. ASSUME NEW w \in Workers, Commits(w) PROVE BlockInv'
    <2>1. PICK op \in Ops : op = job[w]
      BY <1>6, WorkingJob DEF Commits, FinishWrites, Working
    <2>2. /\ pc[w] = "committing" /\ pc'[w] # "committing"
          /\ \A v \in Workers \ {w} : pc'[v] = pc[v] /\ job'[v] = job[v]
          /\ \A o \in Ops \ {op} : /\ operations'[o] = operations[o] /\ attempts'[o] = attempts[o]
                                   /\ usage'[o] = usage[o]
          /\ usage'[op] = usage[op] + UsageEvents(outcome[w])
      BY <1>6, <2>1 DEF Commits, FinishWrites, Down, TypeOK, TablesTypeOK, LocalsTypeOK
    <2>3. /\ operations[op].status = "processing"
          /\ operations'[op].status = StatusAfter(outcome[w], seen[w].attempt)
          /\ attempts'[op] = [attempts[op] EXCEPT ![Len(attempts[op])] = AttemptResult(outcome[w])]
          /\ Len(attempts[op]) \in DOMAIN attempts[op]
          /\ seen[w].attempt = Len(attempts[op])
      BY <1>6, <2>1, <2>2, TimelyCommit DEF OwnInv, TimelyInv, WorkerOK, HoldsLease, Working
    <2>4. AttemptResult(outcome[w]) # "processing"
      BY <2>2, CodeAssumption
      DEF AttemptResult, Outcome, FailureCode, TypeOK, LocalsTypeOK, PhaseOK
    <2>5. /\ OpenAttempts(op) = {Len(attempts[op])}
          /\ Len(attempts[op]) <= MaxAttempts /\ usage[op] < Len(attempts[op])
      <3>1. AttemptsOf(op) /\ ~Blocked(op)
        BY <2>1, <2>2 DEF BlockInv
      <3>2. Len(attempts[op]) \in OpenAttempts(op)
        BY <2>3, <3>1 DEF AttemptsOf
      <3> QED
        BY <2>3, <3>1, <3>2 DEF AttemptsOf, Blocked
    <2>6. attempts[op] \in Seq(AttemptOutcome) /\ usage[op] \in Nat
      BY DEF TypeOK, TablesTypeOK
    <2>7. Len(attempts'[op]) = Len(attempts[op]) /\ DOMAIN attempts'[op] = 1..Len(attempts[op])
      BY <2>3, <2>6
    <2>8. OpenAttempts(op)' = {}
      BY <2>3, <2>4, <2>5, <2>6, <2>7 DEF OpenAttempts
    <2>9. /\ usage'[op] <= Len(attempts'[op]) /\ usage'[op] <= MaxAttempts
          /\ \A n \in ClosedAttempts(op)' : n <= MaxAttempts
      BY <2>2, <2>5, <2>6, <2>7, ConfigAssumption DEF UsageEvents, ClosedAttempts
    <2>10. AttemptsOf(op)'
      BY <2>3, <2>8, <2>9 DEF AttemptsOf, StatusAfter
    <2>11. operations'[op].status = "accepted" => Len(attempts'[op]) < MaxAttempts
      BY <2>3, <2>7 DEF StatusAfter
    <2>12. \A v \in Workers : pc'[v] = "committing" => job[v] \in Ops \ {op}
      BY <1>0, <2>1, <2>2 DEF TimelyInv, Engaged, Working
    <2> QED
      BY <2>2, <2>9, <2>10, <2>11, <2>12, BlockOf DEF CommitsFree
  <1>7. ASSUME NEW w \in Workers, DeleteInput(w) PROVE BlockInv'
    <2>1. CommitsFree
      BY <1>7 DEF CommitsFree, DeleteInput, Leave, TypeOK, LocalsTypeOK
    <2> QED
      BY <1>7, <2>1, BlockKept DEF DeleteInput
  <1>8. ASSUME NEW w \in Workers, LocalStep(w) PROVE BlockInv'
    <2>1. CommitsFree
      BY <1>8 DEF CommitsFree, LocalStep, Down
    <2> QED
      BY <1>8, <2>1, BlockKept DEF LocalStep
  <1>9. CASE Tick
    BY <1>9, TickFacts, BlockKept DEF CommitsFree, Tick
  <1>10. CASE UNCHANGED vars
    BY <1>10, BlockKept DEF CommitsFree, vars
  <1> QED
    BY <1>1, <1>2, <1>3, <1>4, <1>5, <1>6, <1>7, <1>8, <1>9, <1>10, NextCases

LEMMA BlockInvariant ==
    ASSUME ~MayOverrun, ~MayLoseAck
    PROVE  Spec => [](TimelyIInv /\ BlockInv)
  <1>1. Init => BlockInv
    BY ConfigAssumption
    DEF Init, BlockInv, RecordedWithinBudget, ClosedAttempts, AttemptsOf, OpenAttempts, NewRow
  <1>2. TimelyIInv /\ BlockInv /\ [Next]_vars => BlockInv'
    BY BlockStep
  <1> QED
    BY <1>1, <1>2, TimelyInvariant, PTL DEF Spec

(* Whatever crashes, the outcomes and usage events recorded for an         *)
(* operation stay within max_attempts.                                     *)
THEOREM RecordedCorrect ==
    ASSUME ~MayOverrun, ~MayLoseAck PROVE Spec => []RecordedWithinBudget
  BY BlockInvariant, PTL DEF BlockInv

(* Only a claim and a commit touch the attempts, and only a claim adds one. *)
LEMMA AttemptsSteps ==
    ASSUME TypeOK, [Next]_vars
    PROVE  UNCHANGED attempts \/ \E w \in Workers : ClaimCommit(w) \/ Commits(w)
  <1>1. ASSUME NEW op \in Ops, Submit(op) PROVE UNCHANGED attempts
    BY <1>1 DEF Submit
  <1>2. ASSUME NEW w \in Workers,
               \/ \E op \in Ops : ClaimSelect(w, op)
               \/ ReadOperation(w) \/ ReadAttempt(w) \/ LocalStep(w) \/ DeleteInput(w)
        PROVE  UNCHANGED attempts
    BY <1>2 DEF ClaimSelect, ReadOperation, ReadAttempt, LocalStep, DeleteInput
  <1>3. Tick \/ UNCHANGED vars => UNCHANGED attempts
    BY DEF Tick, vars
  <1> QED
    BY <1>1, <1>2, <1>3, NextCases

LEMMA AttemptsGrow ==
    ASSUME TypeOK, OwnInv, [Next]_vars, NEW op \in Ops, Len(attempts'[op]) > Len(attempts[op])
    PROVE  \E w \in Workers : ClaimCommit(w) /\ job[w] = op
  <1>1. attempts[op] \in Seq(AttemptOutcome)
    BY DEF TypeOK, TablesTypeOK
  <1>2. ASSUME NEW w \in Workers, Commits(w) PROVE Len(attempts'[op]) = Len(attempts[op])
    <2>1. /\ job[w] \in Ops
          /\ attempts' = [attempts EXCEPT ![job[w]][seen[w].attempt] = AttemptResult(outcome[w])]
      BY <1>2, WorkingJob DEF Commits, FinishWrites, Working
    <2>2. attempts'[op] \in {attempts[op],
                            [attempts[op] EXCEPT ![seen[w].attempt] = AttemptResult(outcome[w])]}
      BY <2>1 DEF TypeOK, TablesTypeOK
    <2> QED
      BY <1>1, <2>2
  <1>3. ASSUME NEW w \in Workers, ClaimCommit(w), job[w] # op PROVE attempts'[op] = attempts[op]
    BY <1>3 DEF ClaimCommit, TypeOK, TablesTypeOK
  <1> QED
    BY <1>1, <1>2, <1>3, AttemptsSteps

(* A claim of an operation in processing, whose worker died, blocks it.    *)
RecoveryBlocks ==
    \A op \in Ops : operations[op].status = "processing" /\ Len(attempts'[op]) > Len(attempts[op])
                       => Blocked(op)'

(* No recovery goes well: every claim that takes an operation over leaves  *)
(* two attempts open ...                                                   *)
THEOREM RecoveryCorrect ==
    ASSUME ~MayOverrun, ~MayLoseAck PROVE Spec => [][RecoveryBlocks]_vars
  <1>1. ASSUME TimelyIInv, BlockInv, BlockInv', [Next]_vars,
               NEW op \in Ops, operations[op].status = "processing",
               Len(attempts'[op]) > Len(attempts[op])
        PROVE  Blocked(op)'
    <2>1. Len(attempts[op]) \in OpenAttempts(op) /\ Len(attempts[op]) \in Nat
      BY <1>1 DEF BlockInv, AttemptsOf, TimelyIInv, TypeOK, TablesTypeOK
    <2>2. PICK w \in Workers : ClaimCommit(w) /\ job[w] = op
      BY <1>1, AttemptsGrow DEF TimelyIInv
    <2>3. attempts[op] \in Seq(AttemptOutcome) /\ attempts'[op] = Append(attempts[op], "processing")
      BY <1>1, <2>2 DEF ClaimCommit, TimelyIInv, TypeOK, TablesTypeOK
    <2>4. Len(attempts[op]) \in OpenAttempts(op)' /\ Len(attempts[op]) + 1 \in OpenAttempts(op)'
      BY <2>1, <2>3 DEF OpenAttempts
    <2> QED
      BY <2>1, <2>4 DEF Blocked
  <1>2. TimelyIInv /\ BlockInv /\ BlockInv' /\ [Next]_vars => [RecoveryBlocks]_vars
    BY <1>1 DEF RecoveryBlocks
  <1> QED
    BY <1>2, BlockInvariant, PTL DEF Spec

(* ... and a blocked operation is in processing for good: no client ever   *)
(* sees it end (what CrashBlocksFinish finds, on every instance).          *)
THEOREM BlockedForever ==
    ASSUME ~MayOverrun, ~MayLoseAck, NEW op \in Ops
    PROVE  Spec => [](Blocked(op) => [](operations[op].status = "processing"))
  <1>1. ASSUME TimelyIInv, BlockInv, Blocked(op), [Next]_vars PROVE Blocked(op)'
    <2>1. ASSUME NEW w \in Workers, ClaimCommit(w)
          PROVE  OpenAttempts(op) \subseteq OpenAttempts(op)'
      <3>1. attempts[op] \in Seq(AttemptOutcome) /\ job[w] \in Ops
        BY <1>1, <2>1, WorkingJob DEF ClaimCommit, Proceed, TimelyIInv, TypeOK, TablesTypeOK
      <3>2. attempts'[op] \in {attempts[op], Append(attempts[op], "processing")}
        BY <1>1, <2>1, <3>1 DEF ClaimCommit, TimelyIInv, TypeOK, TablesTypeOK
      <3>3. \A n \in DOMAIN attempts[op] : n \in DOMAIN attempts'[op] /\ attempts'[op][n] = attempts[op][n]
        <4>1. DOMAIN attempts[op] = 1..Len(attempts[op]) /\ Len(attempts[op]) \in Nat
          BY <3>1
        <4>2. CASE attempts'[op] = Append(attempts[op], "processing")
          BY <3>1, <4>1, <4>2
        <4> QED
          BY <3>2, <4>2
      <3> QED
        BY <3>3 DEF OpenAttempts
    <2>2. ASSUME NEW w \in Workers, Commits(w) PROVE attempts'[op] = attempts[op]
      <3>1. job[w] # op
        BY <1>1, <2>2 DEF BlockInv, Commits, FinishWrites
      <3> QED
        BY <1>1, <2>2, <3>1 DEF Commits, FinishWrites, TimelyIInv, TypeOK, TablesTypeOK
    <2>3. OpenAttempts(op) \subseteq OpenAttempts(op)'
      BY <1>1, <2>1, <2>2, AttemptsSteps DEF OpenAttempts, TimelyIInv
    <2> QED
      BY <1>1, <2>3 DEF Blocked
  <1>2. TimelyIInv /\ BlockInv /\ Blocked(op) => operations[op].status = "processing"
    BY DEF BlockInv, AttemptsOf, Blocked
  <1>3. TimelyIInv /\ BlockInv /\ Blocked(op) /\ [Next]_vars => Blocked(op)'
    BY <1>1
  <1> QED
    BY <1>2, <1>3, BlockInvariant, PTL DEF Spec
-----------------------------------------------------------------------------
(* The strengthening: an operation in processing has a live worker, its    *)
(* last attempt is the one open, and a result comes with its success.      *)
Attended ==
    \A op \in Ops : operations[op].status = "processing"
                       => \E w \in Workers : pc[w] \in Working /\ job[w] = op

OneAttemptOpen ==
    \A op \in Ops :
       OpenAttempts(op) = IF operations[op].status = "processing" THEN {Len(attempts[op])} ELSE {}

HealthyInv ==
    /\ Attended
    /\ OneAttemptOpen
    /\ \A op \in Ops : op \in results => operations[op].status = "succeeded"
    /\ \A op \in Ops : operations[op].status = "accepted" => Len(attempts[op]) < MaxAttempts
    /\ AttemptsWithinBudget

(* A worker at work on an operation owns its one open attempt.             *)
LEMMA WorkingAlone ==
    ASSUME TimelyIInv, HealthyInv, NEW w \in Workers, pc[w] \in Working
    PROVE  /\ job[w] \in Ops
           /\ operations[job[w]].status = "processing"
           /\ own[w] = Len(attempts[job[w]])
           /\ OpenAttempts(job[w]) = {own[w]}
           /\ job[w] \notin results
  <1>1. job[w] \in Ops
    BY WorkingJob DEF TimelyIInv
  <1>2. HoldsLease(w)
    BY DEF TimelyIInv, TimelyInv, WorkerOK
  <1> QED
    BY <1>1, <1>2 DEF HoldsLease, HealthyInv, OneAttemptOpen

(* No worker gives an attempt up but by recording its outcome.             *)
Stays(w) ==
    /\ UNCHANGED <<tables, faults, job>>
    /\ pc'[w] \in Working <=> pc[w] \in Working
    /\ \A v \in Workers \ {w} : pc'[v] = pc[v]
Quits(w) ==
    /\ UNCHANGED <<operations, attempts, results, usage, faults>>
    /\ pc[w] \in Down \union {"deleting"} /\ pc'[w] = "idle"
    /\ \A v \in Workers \ {w} : pc'[v] = pc[v] /\ job'[v] = job[v]

LEMMA FaultsGrow == ASSUME TypeOK, [Next]_vars PROVE faults' = faults \/ faults' = faults + 1
  <1>1. ASSUME NEW w \in Workers, Crash(w) \/ DatabaseFails(w) \/ FinishUnacknowledged(w)
        PROVE  faults' = faults + 1
    BY <1>1 DEF Crash, DatabaseFails, FinishUnacknowledged, Fault
  <1>2. ASSUME NEW w \in Workers, Finish(w) \/ Execute(w) PROVE faults' = faults
    BY <1>2
    DEF Finish, ReadOperation, ReadAttempt, NoSingleAttempt, FinishCommit, FinishConflict,
        Execute, ExecuteReturns
  <1>3. ASSUME NEW w \in Workers, WorkerStep(w), ~Finish(w), ~Execute(w) PROVE faults' = faults
    BY <1>3
    DEF WorkerStep, ClaimSelect, ClaimCommit, CheckInput, LoadDocument, ExecuteRaises, DeleteInput,
        DeleteFails, Restart
  <1>4. ASSUME NEW op \in Ops, Submit(op) PROVE faults' = faults
    BY <1>4 DEF Submit
  <1>5. Tick \/ UNCHANGED vars => faults' = faults
    BY DEF Tick, vars
  <1> QED
    BY <1>1, <1>2, <1>3, <1>4, <1>5 DEF Next

LEMMA HealthyCases ==
    ASSUME faults = 0, faults' = 0, TimelyIInv, HealthyInv, Next
    PROVE  \/ \E op \in Ops : Submit(op)
           \/ Tick
           \/ \E w \in Workers :
                 \/ \E op \in Ops : ClaimSelect(w, op)
                 \/ ClaimCommit(w) \/ FinishCommit(w)
                 \/ Stays(w) \/ Quits(w)
  <1> USE DEF TimelyIInv
  <1>1. ASSUME NEW w \in Workers,
               CheckInput(w) \/ LoadDocument(w) \/ Execute(w) \/ ExecuteRaises(w)
               \/ ReadOperation(w) \/ ReadAttempt(w)
        PROVE  Stays(w)
    <2> USE DEF Stays, Working, Proceed, Handle, TypeOK, LocalsTypeOK
    <2>1. CASE CheckInput(w) \/ LoadDocument(w) \/ ExecuteRaises(w)
      BY <2>1 DEF CheckInput, LoadDocument, ExecuteRaises
    <2>2. CASE Execute(w)
      BY <2>2 DEF Execute, ExecuteReturns
    <2>3. CASE ReadOperation(w) \/ ReadAttempt(w)
      BY <2>3 DEF ReadOperation, ReadAttempt
    <2> QED
      BY <1>1, <2>1, <2>2, <2>3
  <1>2. ASSUME NEW w \in Workers, NoSingleAttempt(w) \/ FinishConflict(w) PROVE FALSE
    BY <1>2, WorkingAlone DEF NoSingleAttempt, FinishConflict, DuplicateResult, Working
  <1>3. ASSUME NEW w \in Workers, DeleteInput(w) \/ DeleteFails(w) \/ Restart(w) PROVE Quits(w)
    BY <1>3 DEF DeleteInput, DeleteFails, Restart, Leave, Quits, TypeOK, LocalsTypeOK
  <1>4. ASSUME NEW w \in Workers, Crash(w) \/ DatabaseFails(w) \/ FinishUnacknowledged(w)
        PROVE  FALSE
    BY <1>4 DEF Crash, DatabaseFails, FinishUnacknowledged, Fault
  <1> QED
    BY <1>1, <1>2, <1>3, <1>4 DEF Next, WorkerStep, Finish

LEMMA HealthyStep ==
    ASSUME ~MayOverrun, ~MayLoseAck, faults = 0, faults' = 0, TimelyIInv, HealthyInv, [Next]_vars
    PROVE  HealthyInv'
  <1> USE DEF TimelyIInv, HealthyInv, Attended, OneAttemptOpen, AttemptsWithinBudget
  <1>1. ASSUME NEW op \in Ops, Submit(op) PROVE HealthyInv'
    <2>1. PICK stamp \in Stamps : operations' = [operations EXCEPT ![op] = NewRow("accepted", stamp)]
      BY <1>1 DEF Submit
    <2>2. /\ operations[op].status = "absent" /\ operations'[op].status = "accepted"
          /\ \A o \in Ops \ {op} : operations'[o] = operations[o]
          /\ UNCHANGED <<attempts, results, pc, job, faults>>
      BY <1>1, <2>1 DEF Submit, NewRow, TypeOK, TablesTypeOK
    <2>3. Len(attempts[op]) < MaxAttempts
      BY <2>2, ConfigAssumption DEF TimelyInv
    <2>4. OneAttemptOpen'
      BY <2>2 DEF OpenAttempts
    <2>5. Attended'
      BY <2>2
    <2> QED
      BY <2>2, <2>3, <2>4, <2>5
  <1>2. ASSUME NEW w \in Workers, NEW op \in Ops, ClaimSelect(w, op) PROVE HealthyInv'
    <2>1. /\ UNCHANGED <<tables, faults>> /\ pc[w] = "idle"
          /\ \A v \in Workers \ {w} : pc'[v] = pc[v] /\ job'[v] = job[v]
      BY <1>2 DEF ClaimSelect, Proceed, TypeOK, LocalsTypeOK
    <2>2. Attended'
      BY <2>1 DEF Working
    <2> QED
      BY <2>1, <2>2 DEF OpenAttempts
  <1>3. ASSUME NEW w \in Workers, ClaimCommit(w) PROVE HealthyInv'
    <2>1. PICK op \in Ops : op = job[w]
      BY <1>3, WorkingJob DEF ClaimCommit, Proceed
    <2>2. /\ operations'[op].status = "processing"
          /\ attempts'[op] = Append(attempts[op], "processing")
          /\ \A o \in Ops \ {op} : operations'[o] = operations[o] /\ attempts'[o] = attempts[o]
          /\ UNCHANGED <<results, job, faults>> /\ pc[w] = "claiming" /\ pc'[w] = "claimed"
          /\ \A v \in Workers \ {w} : pc'[v] = pc[v]
      BY <1>3, <2>1
      DEF ClaimCommit, ClaimedRow, Proceed, Row, TypeOK, TablesTypeOK, LocalsTypeOK
    <2>3. operations[op].status = "accepted"
      BY <2>1, <2>2 DEF TimelyInv, WorkerOK, ClaimsFree, Engaged, Working
    <2>4. attempts[op] \in Seq(AttemptOutcome)
      BY DEF TypeOK, TablesTypeOK
    <2>5. OpenAttempts(op)' = {Len(attempts'[op])}
      BY <2>2, <2>3, <2>4 DEF OpenAttempts
    <2>6. OneAttemptOpen'
      BY <2>2, <2>5 DEF OpenAttempts
    <2>7. Len(attempts'[op]) <= MaxAttempts
      BY <2>2, <2>3, <2>4, ConfigAssumption
    <2>8. Attended'
      BY <2>1, <2>2 DEF Working
    <2> QED
      BY <2>2, <2>3, <2>6, <2>7, <2>8
  <1>4. ASSUME NEW w \in Workers, FinishCommit(w) PROVE HealthyInv'
    <2>1. Commits(w) /\ pc[w] \in Working
      BY <1>4, CommitCases DEF FinishCommit, FinishWrites, Working
    <2>2. PICK op \in Ops : op = job[w]
      BY <2>1, WorkingJob
    <2>3. /\ operations'[op].status = StatusAfter(outcome[w], seen[w].attempt)
          /\ attempts'[op] = [attempts[op] EXCEPT ![Len(attempts[op])] = AttemptResult(outcome[w])]
      BY <2>1, <2>2, TimelyCommit
    <2>4. /\ \A o \in Ops \ {op} : operations'[o] = operations[o] /\ attempts'[o] = attempts[o]
          /\ results' = results \union (IF outcome[w].kind = "success" THEN {op} ELSE {})
          /\ \A v \in Workers \ {w} : pc'[v] = pc[v] /\ job'[v] = job[v]
          /\ faults' = faults
      BY <1>4, <2>1, <2>2
      DEF Commits, FinishCommit, FinishWrites, TypeOK, TablesTypeOK
    <2>5. /\ seen[w].attempt = Len(attempts[op]) /\ OpenAttempts(op) = {Len(attempts[op])}
          /\ op \notin results
      BY <2>1, <2>2, WorkingAlone DEF OwnInv, Commits, FinishWrites
    <2>6. outcome[w] \in Outcome /\ attempts[op] \in Seq(AttemptOutcome)
      BY <2>1 DEF Commits, FinishWrites, PhaseOK, TypeOK, LocalsTypeOK, TablesTypeOK
    <2>7. Len(attempts'[op]) = Len(attempts[op])
      BY <2>3, <2>6
    <2>8. AttemptResult(outcome[w]) # "processing"
      BY <2>6, CodeAssumption DEF AttemptResult, Outcome
    <2>9. OpenAttempts(op)' = {}
      BY <2>3, <2>5, <2>6, <2>8 DEF OpenAttempts
    <2>10. \A o \in Ops \ {op} : OpenAttempts(o)' = OpenAttempts(o)
      BY <2>4 DEF OpenAttempts
    <2>11. /\ operations'[op].status # "processing"
           /\ operations'[op].status = "accepted" => Len(attempts'[op]) < MaxAttempts
           /\ outcome[w].kind = "success" => operations'[op].status = "succeeded"
      BY <2>3, <2>5, <2>7 DEF StatusAfter
    <2>12. \A o \in Ops : Len(attempts'[o]) <= MaxAttempts
      BY <2>4, <2>7
    <2>13. OneAttemptOpen'
      BY <2>4, <2>9, <2>10, <2>11
    <2>14. Attended'
      BY <2>2, <2>4, <2>11
    <2>15. \A o \in Ops : o \in results' => operations'[o].status = "succeeded"
      BY <2>4, <2>5, <2>11
    <2> QED
      BY <2>4, <2>11, <2>12, <2>13, <2>14, <2>15
  <1>5. ASSUME NEW w \in Workers, Stays(w) PROVE HealthyInv'
    BY <1>5 DEF Stays, OpenAttempts
  <1>6. ASSUME NEW w \in Workers, Quits(w) PROVE HealthyInv'
    BY <1>6 DEF Quits, OpenAttempts, Working, Down
  <1>7. CASE Tick
    <2>1. UNCHANGED <<attempts, results, pc, job, faults>>
      BY <1>7 DEF Tick
    <2>2. \A op \in Ops : operations'[op].status = operations[op].status
      BY <1>7, TickFacts
    <2> QED
      BY <2>1, <2>2 DEF OpenAttempts
  <1>8. CASE UNCHANGED vars
    BY <1>8 DEF vars, OpenAttempts
  <1> QED
    BY <1>1, <1>2, <1>3, <1>4, <1>5, <1>6, <1>7, <1>8, HealthyCases

LEMMA HealthyInvariant ==
    ASSUME ~MayOverrun, ~MayLoseAck
    PROVE  Spec => [](TimelyIInv /\ (faults = 0 => HealthyInv))
  <1>1. Init => HealthyInv
    BY ConfigAssumption
    DEF Init, HealthyInv, Attended, OneAttemptOpen, OpenAttempts, AttemptsWithinBudget, NewRow
  <1>2. TimelyIInv /\ (faults = 0 => HealthyInv) /\ [Next]_vars
        => (faults = 0 => HealthyInv)'
    BY HealthyStep, FaultsGrow DEF TimelyIInv, TypeOK, HistoryTypeOK
  <1> QED
    BY <1>1, <1>2, TimelyInvariant, PTL DEF Spec

(* Until a fault no operation is attempted more often than max_attempts.   *)
THEOREM BudgetCorrect ==
    ASSUME ~MayOverrun, ~MayLoseAck PROVE Spec => [](faults = 0 => AttemptsWithinBudget)
  <1>1. HealthyInv => AttemptsWithinBudget
    BY DEF HealthyInv
  <1> QED
    BY <1>1, HealthyInvariant, PTL

(* Until a fault _finish always finds the one attempt it is to close.      *)
THEOREM ClosableCorrect ==
    ASSUME ~MayOverrun, ~MayLoseAck PROVE Spec => [](faults = 0 => AttemptIsClosable)
  <1>1. TimelyIInv /\ HealthyInv => AttemptIsClosable
    BY WorkingAlone, FS_Singleton DEF AttemptIsClosable, Working
  <1> QED
    BY <1>1, HealthyInvariant, PTL
-----------------------------------------------------------------------------
(* An executor that reports usage with a success also gives the result:    *)
(* the worker drops the usage of one that does not.                        *)
Complete(out) == out.kind = "success" /\ out.usage => out.result

(* A step in which execute returns at most such an outcome.                *)
ReturnsComplete ==
    \A w \in Workers :
       Execute(w) => \E out \in ExecutorOutcomes : Complete(out) /\ ExecuteReturns(w, out)

(* The hands of UsageSteps, exactly.                                       *)
HandsKept ==
    /\ usage' = usage /\ billed' = billed
    /\ \A op \in Ops : InHand(op)' = InHand(op)
Filled(w) ==
    /\ HandFilled(w) /\ w \notin InHand(job[w])
    /\ \A op \in Ops : InHand(op)' = InHand(op) \union (IF op = job[w] THEN {w} ELSE {})
Recorded(w) ==
    /\ HandRecorded(w)
    /\ \A op \in Ops : InHand(op)' = InHand(op) \ {w}

LEMMA UsageExact ==
    ASSUME ReturnsComplete, faults = 0, faults' = 0, TimelyIInv, HealthyInv, [Next]_vars
    PROVE  HandsKept \/ \E w \in Workers : Filled(w) \/ Recorded(w)
  <1> USE DEF TimelyIInv
  <1>1. ASSUME NEW op \in Ops, Submit(op) PROVE HandsKept
    BY <1>1 DEF Submit, HandsKept, InHand
  <1>2. ASSUME NEW w \in Workers, NEW op \in Ops, ClaimSelect(w, op) PROVE HandsKept
    BY <1>2 DEF ClaimSelect, Proceed, HandsKept, InHand, TypeOK, LocalsTypeOK
  <1>3. ASSUME NEW w \in Workers, ClaimCommit(w) PROVE HandsKept
    BY <1>3 DEF ClaimCommit, Proceed, HandsKept, InHand, TypeOK, LocalsTypeOK
  <1>4. ASSUME NEW w \in Workers, CheckInput(w) \/ LoadDocument(w) \/ ExecuteRaises(w)
        PROVE  HandsKept
    <2>1. /\ pc[w] \in {"claimed", "loading", "executing"} /\ UNCHANGED <<job, usage, billed>>
          /\ pc'[w] \in {"loading", "executing"} \/ (pc'[w] = "finishing" /\ ~outcome'[w].usage)
          /\ \A v \in Workers \ {w} : pc'[v] = pc[v] /\ outcome'[v] = outcome[v]
      BY <1>4
      DEF CheckInput, LoadDocument, ExecuteRaises, Handle, Failure, Proceed, TypeOK, LocalsTypeOK
    <2> QED
      BY <2>1 DEF HandsKept, InHand
  <1>5. ASSUME NEW w \in Workers, NEW out \in ExecutorOutcomes, Complete(out), ExecuteReturns(w, out)
        PROVE  HandsKept \/ Filled(w)
    <2>1. /\ pc[w] = "executing" /\ pc'[w] = "finishing" /\ job[w] \in Ops /\ UNCHANGED <<job, usage>>
          /\ outcome'[w] = Checked(out)
          /\ \A v \in Workers \ {w} : pc'[v] = pc[v] /\ outcome'[v] = outcome[v]
      BY <1>5, WorkingJob DEF ExecuteReturns, Proceed, Working, TypeOK, LocalsTypeOK
    <2>2. Checked(out).usage = out.usage
      BY <1>5, OutcomeAssumption DEF Checked, Failure, Complete, Outcome
    <2>3. CASE out.usage
      <3>1. billed' = [billed EXCEPT ![job[w]] = @ + 1]
        BY <1>5, <2>3 DEF ExecuteReturns
      <3>2. w \notin InHand(job[w])
        BY <2>1 DEF InHand
      <3>3. \A op \in Ops : InHand(op)' = InHand(op) \union (IF op = job[w] THEN {w} ELSE {})
        BY <2>1, <2>2, <2>3 DEF InHand
      <3> QED
        BY <2>1, <3>1, <3>2, <3>3 DEF Filled, HandFilled
    <2>4. CASE ~out.usage
      <3>1. billed' = [billed EXCEPT ![job[w]] = @ + 0]
        BY <1>5, <2>4 DEF ExecuteReturns
      <3>2. billed' = billed
        BY <2>1, <3>1 DEF TypeOK, HistoryTypeOK
      <3>3. \A op \in Ops : InHand(op)' = InHand(op)
        BY <2>1, <2>2, <2>4 DEF InHand
      <3> QED
        BY <2>1, <3>2, <3>3 DEF HandsKept
    <2> QED
      BY <2>3, <2>4
  <1>6. ASSUME NEW w \in Workers, ReadOperation(w) \/ ReadAttempt(w) PROVE HandsKept
    BY <1>6 DEF ReadOperation, ReadAttempt, Proceed, HandsKept, InHand, TypeOK, LocalsTypeOK
  <1>7. ASSUME NEW w \in Workers, NoSingleAttempt(w) \/ FinishConflict(w) PROVE FALSE
    BY <1>7, WorkingAlone DEF NoSingleAttempt, FinishConflict, DuplicateResult, Working
  <1>8. ASSUME NEW w \in Workers, FinishCommit(w) PROVE HandsKept \/ Recorded(w)
    <2>1. /\ pc[w] = "committing" /\ job[w] \in Ops /\ billed' = billed
          /\ usage' = [usage EXCEPT ![job[w]] = @ + UsageEvents(outcome[w])]
          /\ pc'[w] \in {"idle", "deleting"}
          /\ \A v \in Workers \ {w} : /\ pc'[v] = pc[v] /\ job'[v] = job[v]
                                      /\ outcome'[v] = outcome[v]
      BY <1>8, WorkingJob
      DEF FinishCommit, FinishWrites, Leave, Proceed, Working, TypeOK, LocalsTypeOK
    <2>2. \A op \in Ops : InHand(op)' = InHand(op) \ {w}
      BY <2>1 DEF InHand
    <2>3. CASE outcome[w].usage
      BY <2>1, <2>2, <2>3 DEF Recorded, HandRecorded, InHand, UsageEvents
    <2>4. CASE ~outcome[w].usage
      <3>1. usage' = [usage EXCEPT ![job[w]] = @ + 0]
        BY <2>1, <2>4 DEF UsageEvents
      <3>2. usage' = usage
        BY <2>1, <3>1 DEF TypeOK, TablesTypeOK
      <3> QED
        BY <2>1, <2>2, <2>4, <3>2 DEF HandsKept, InHand
    <2> QED
      BY <2>3, <2>4
  <1>9. ASSUME NEW w \in Workers, DeleteInput(w) \/ DeleteFails(w) \/ Restart(w) PROVE HandsKept
    BY <1>9 DEF DeleteInput, DeleteFails, Restart, Leave, Down, HandsKept, InHand, TypeOK, LocalsTypeOK
  <1>10. ASSUME NEW w \in Workers, Crash(w) \/ DatabaseFails(w) \/ FinishUnacknowledged(w)
         PROVE  FALSE
    BY <1>10 DEF Crash, DatabaseFails, FinishUnacknowledged, Fault
  <1>11. Tick \/ UNCHANGED vars => HandsKept
    BY DEF Tick, vars, HandsKept, InHand
  <1>12. ASSUME NEW w \in Workers, Execute(w) PROVE HandsKept \/ Filled(w)
    BY <1>5, <1>12 DEF ReturnsComplete
  <1> QED
    BY <1>1, <1>2, <1>3, <1>4, <1>6, <1>7, <1>8, <1>9, <1>10, <1>11, <1>12
    DEF Next, WorkerStep, Finish

LEMMA UsageConservedStep ==
    ASSUME TypeOK, UsageConserved,
           HandsKept \/ \E w \in Workers : Filled(w) \/ Recorded(w)
    PROVE  UsageConserved'
  <1> SUFFICES ASSUME NEW op \in Ops PROVE usage'[op] + Cardinality(InHand(op)') = billed'[op]
    BY DEF UsageConserved
  <1>1. /\ usage[op] \in Nat /\ billed[op] \in Nat
        /\ usage[op] + Cardinality(InHand(op)) = billed[op]
    BY DEF UsageConserved, TypeOK, TablesTypeOK, HistoryTypeOK
  <1>2. CASE HandsKept
    BY <1>1, <1>2 DEF HandsKept
  <1>3. ASSUME NEW w \in Workers, Filled(w), op = job[w]
        PROVE  usage'[op] + Cardinality(InHand(op)') = billed'[op]
    <2>1. InHand(op)' = InHand(op) \union {w} /\ w \notin InHand(op)
      BY <1>3 DEF Filled
    <2>2. Cardinality(InHand(op)') = Cardinality(InHand(op)) + 1
      BY <2>1, InHandFinite, FS_AddElement
    <2>3. usage'[op] = usage[op] /\ billed'[op] = billed[op] + 1
      BY <1>3 DEF Filled, HandFilled, TypeOK, HistoryTypeOK
    <2> QED
      BY <1>1, <2>2, <2>3, InHandFinite
  <1>4. ASSUME NEW w \in Workers, Recorded(w), op = job[w]
        PROVE  usage'[op] + Cardinality(InHand(op)') = billed'[op]
    <2>1. InHand(op)' = InHand(op) \ {w} /\ w \in InHand(op)
      BY <1>4 DEF Recorded, HandRecorded
    <2>2. Cardinality(InHand(op)') = Cardinality(InHand(op)) - 1
      BY <2>1, InHandFinite, FS_RemoveElement
    <2>3. usage'[op] = usage[op] + 1 /\ billed'[op] = billed[op]
      BY <1>4 DEF Recorded, HandRecorded, TypeOK, TablesTypeOK
    <2> QED
      BY <1>1, <2>2, <2>3, InHandFinite
  <1>5. ASSUME NEW w \in Workers, Filled(w) \/ Recorded(w), op # job[w]
        PROVE  usage'[op] = usage[op] /\ billed'[op] = billed[op] /\ InHand(op)' = InHand(op)
    <2>1. usage'[op] = usage[op] /\ billed'[op] = billed[op]
      BY <1>5 DEF Filled, HandFilled, Recorded, HandRecorded, TypeOK, TablesTypeOK, HistoryTypeOK
    <2>2. InHand(op)' = InHand(op)
      BY <1>5 DEF Filled, Recorded, HandRecorded, InHand
    <2> QED
      BY <2>1, <2>2
  <1> QED
    BY <1>1, <1>2, <1>3, <1>4, <1>5

LEMMA UsageConservedInit == Init => UsageConserved
  <1> SUFFICES ASSUME Init, NEW op \in Ops PROVE usage[op] + Cardinality(InHand(op)) = billed[op]
    BY DEF UsageConserved
  <1>1. InHand(op) = {} /\ usage[op] = 0 /\ billed[op] = 0
    BY DEF Init, InHand
  <1> QED
    BY <1>1, FS_EmptySet

(* Until a fault all the usage that an executor reports is recorded.       *)
THEOREM UsageConservedCorrect ==
    ASSUME ~MayOverrun, ~MayLoseAck, \A out \in ExecutorOutcomes : Complete(out)
    PROVE  Spec => [](faults = 0 => UsageConserved)
  <1>1. Init => UsageConserved
    BY UsageConservedInit
  <1>2. /\ TimelyIInv /\ (faults = 0 => HealthyInv) /\ (faults = 0 => UsageConserved)
        /\ [Next]_vars
        => (faults = 0 => UsageConserved)'
    <2>1. ReturnsComplete
      BY DEF ReturnsComplete, Execute
    <2> QED
      BY <2>1, UsageExact, UsageConservedStep, FaultsGrow DEF TimelyIInv, TypeOK, HistoryTypeOK
  <1> QED
    BY <1>1, <1>2, HealthyInvariant, PTL DEF Spec
=============================================================================
