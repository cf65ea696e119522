------------------------ MODULE AnalysisExecutionProofs ------------------------
(* Theorems about the executor inside the workers, for all constants.      *)
EXTENDS AnalysisExecution, AnalysisWorkerTimelyProofs

USE DEF tables, locals, history, providerVars

LEMMA AnswersAreProviderOutcomes ==
    /\ \A words \in Errors : Raised(words) \in ProviderOutcomes
    /\ \A parses, reports \in BOOLEAN : Parsed(parses, reports) \in ProviderOutcomes
  <1>1. \A words \in Errors : ErrorCode(words) \in ErrorCodes
    BY DEF ErrorCode, ErrorCodes
  <1>2. \A parses, reports \in BOOLEAN : Parsed(parses, reports) \in ProviderOutcomes
    BY DEF Parsed, ProviderOutcomes, Failure
  <1> QED
    BY <1>1, <1>2 DEF Raised, ProviderOutcomes

(* The strengthening: a call holds no answer the provider could not have   *)
(* caused.                                                                 *)
CallInv ==
    /\ ExecutionTypeOK
    /\ \A w \in Workers : calls[w].answer \in ProviderOutcomes \union {Null}

LEMMA FreshType == Fresh \in [uploaded : BOOLEAN, answer : Outcome \union {Null}]
  BY DEF Fresh

LEMMA OutcomesKnown == ProviderOutcomes \subseteq Outcome /\ Null \notin ProviderOutcomes
  BY ExecutorAssumption, OutcomeAssumption, NullAssumption

LEMMA CallInit == ExecutionInit => CallInv
  BY FreshType DEF ExecutionInit, CallInv, ExecutionTypeOK, Fresh

(* While the worker stays in execute, its call may change.                 *)
LEMMA CallAnswered ==
    ASSUME TypeOK, CallInv, NEW w \in Workers, pc[w] = "executing", UNCHANGED <<vars, pdf>>,
           NEW call \in [uploaded : BOOLEAN, answer : ProviderOutcomes \union {Null}],
           calls' = [calls EXCEPT ![w] = call],
           remote' \in [Ops -> Nat], metered' \in [Ops -> Nat], lapses' \in Nat
    PROVE  CallInv'
  <1>1. calls' \in [Workers -> [uploaded : BOOLEAN, answer : Outcome \union {Null}]]
    BY OutcomesKnown DEF CallInv, ExecutionTypeOK
  <1>2. \A v \in Workers : calls'[v].answer \in ProviderOutcomes \union {Null}
    BY DEF CallInv, ExecutionTypeOK
  <1>3. \A v \in Workers : pc'[v] # "executing" => calls'[v] = Fresh
    BY DEF CallInv, ExecutionTypeOK, vars
  <1> QED
    BY <1>1, <1>2, <1>3 DEF CallInv, ExecutionTypeOK

(* Every upload under way is a file at the provider, and every other file  *)
(* is there because something failed.                                      *)
FilesInv ==
    \A op \in Ops :
       /\ Cardinality(Uploading(op)) <= remote[op]
       /\ remote[op] <= Cardinality(Uploading(op)) + lapses + faults

LEMMA UploadingFinite ==
    \A op \in Ops : IsFiniteSet(Uploading(op)) /\ Cardinality(Uploading(op)) \in Nat
  BY WorkersAssumption, FS_Subset, FS_CardinalityType DEF Uploading

LEMMA UploadIsThere ==
    ASSUME CallInv, FilesInv, NEW w \in Workers, job[w] \in Ops, calls[w].uploaded
    PROVE  remote[job[w]] >= 1
  <1>1. w \in Uploading(job[w])
    BY DEF Uploading
  <1>2. Cardinality(Uploading(job[w])) # 0
    BY <1>1, UploadingFinite, FS_EmptySet
  <1> QED
    BY <1>2, UploadingFinite DEF FilesInv, CallInv, ExecutionTypeOK

LEMMA CallStep == TypeOK /\ CallInv /\ FilesInv /\ [ExecutionNext]_executionVars => CallInv'
  <1> SUFFICES ASSUME TypeOK, CallInv, FilesInv, [ExecutionNext]_executionVars PROVE CallInv'
    OBVIOUS
  <1> DEFINE Held(w) == calls[w] \in [uploaded : BOOLEAN, answer : ProviderOutcomes \union {Null}]
  <1>0. \A w \in Workers : Held(w)
    BY DEF CallInv, ExecutionTypeOK
  <1>j. ASSUME NEW w \in Workers, pc[w] = "executing" PROVE job[w] \in Ops
    BY <1>j, WorkingJob DEF Working
  <1>1. ASSUME NEW w \in Workers, UploadReturns(w) PROVE CallInv'
    <2> DEFINE call == [calls[w] EXCEPT !.uploaded = TRUE]
    <2>1. /\ call \in [uploaded : BOOLEAN, answer : ProviderOutcomes \union {Null}]
          /\ calls' = [calls EXCEPT ![w] = call]
      BY <1>0, <1>1 DEF UploadReturns, CallInv, ExecutionTypeOK
    <2>2. remote' \in [Ops -> Nat] /\ metered' \in [Ops -> Nat] /\ lapses' \in Nat
      BY <1>1 DEF UploadReturns, CallInv, ExecutionTypeOK
    <2> QED
      BY <1>1, <2>1, <2>2, CallAnswered DEF UploadReturns, Asking
  <1>a. ASSUME NEW w \in Workers, NEW out \in ProviderOutcomes, Decide(w, out), pc[w] = "executing",
               UNCHANGED <<vars, pdf>>,
               remote' \in [Ops -> Nat], metered' \in [Ops -> Nat], lapses' \in Nat
        PROVE  CallInv'
    <2> DEFINE call == [calls[w] EXCEPT !.answer = out]
    <2>1. /\ call \in [uploaded : BOOLEAN, answer : ProviderOutcomes \union {Null}]
          /\ calls' = [calls EXCEPT ![w] = call]
      BY <1>0, <1>a DEF Decide, CallInv, ExecutionTypeOK
    <2> QED
      BY <1>a, <2>1, CallAnswered
  <1>2. ASSUME NEW w \in Workers, UploadRaises(w) PROVE CallInv'
    <2>1. PICK error \in Errors : Decide(w, Raised(error))
      BY <1>2 DEF UploadRaises
    <2>2. remote' \in [Ops -> Nat] /\ metered' \in [Ops -> Nat] /\ lapses' \in Nat
      BY <1>2 DEF UploadRaises, CallInv, ExecutionTypeOK
    <2> QED
      BY <1>2, <2>1, <2>2, <1>a, AnswersAreProviderOutcomes DEF UploadRaises, Asking
  <1>3. ASSUME NEW w \in Workers, ResponseReturns(w) PROVE CallInv'
    <2>1. PICK parses \in BOOLEAN, reports \in BOOLEAN :
             /\ Decide(w, Parsed(parses, reports))
             /\ metered' = [metered EXCEPT ![job[w]] = @ + (IF reports THEN 1 ELSE 0)]
      BY <1>3 DEF ResponseReturns
    <2>2. remote' \in [Ops -> Nat] /\ metered' \in [Ops -> Nat] /\ lapses' \in Nat
      BY <1>3, <1>j, <2>1 DEF ResponseReturns, Asking, CallInv, ExecutionTypeOK
    <2> QED
      BY <1>3, <2>1, <2>2, <1>a, AnswersAreProviderOutcomes DEF ResponseReturns, Asking
  <1>4. ASSUME NEW w \in Workers, ResponseRaises(w) PROVE CallInv'
    <2>1. PICK error \in Errors : Decide(w, Raised(error))
      BY <1>4 DEF ResponseRaises
    <2>2. remote' \in [Ops -> Nat] /\ metered' \in [Ops -> Nat] /\ lapses' \in Nat
      BY <1>4 DEF ResponseRaises, CallInv, ExecutionTypeOK
    <2> QED
      BY <1>4, <2>1, <2>2, <1>a, AnswersAreProviderOutcomes DEF ResponseRaises, Asking
  <1>5. ASSUME NEW w \in Workers, CleanUp(w) PROVE CallInv'
    <2> DEFINE call == [calls[w] EXCEPT !.uploaded = FALSE]
    <2>1. /\ call \in [uploaded : BOOLEAN, answer : ProviderOutcomes \union {Null}]
          /\ calls' = [calls EXCEPT ![w] = call]
      BY <1>0, <1>5 DEF CleanUp, CallInv, ExecutionTypeOK
    <2>2. remote[job[w]] >= 1 /\ job[w] \in Ops
      BY <1>5, <1>j, UploadIsThere DEF CleanUp
    <2>3. remote' \in [Ops -> Nat] /\ metered' \in [Ops -> Nat] /\ lapses' \in Nat
      BY <1>5, <2>2 DEF CleanUp, CallInv, ExecutionTypeOK
    <2> QED
      BY <1>5, <2>1, <2>3, CallAnswered DEF CleanUp
  <1>6. ASSUME NEW w \in Workers, Return(w) PROVE CallInv'
    <2>1. calls' = [calls EXCEPT ![w] = Fresh] /\ pc' = [pc EXCEPT ![w] = "finishing"]
      BY <1>6 DEF Return, ExecuteReturns, Proceed
    <2>2. /\ calls' \in [Workers -> [uploaded : BOOLEAN, answer : Outcome \union {Null}]]
          /\ \A v \in Workers : calls'[v].answer \in ProviderOutcomes \union {Null}
      BY <2>1, FreshType DEF CallInv, ExecutionTypeOK, Fresh
    <2>3. \A v \in Workers : pc'[v] # "executing" => calls'[v] = Fresh
      BY <2>1 DEF CallInv, ExecutionTypeOK, TypeOK, LocalsTypeOK
    <2> QED
      BY <1>6, <2>2, <2>3 DEF Return, CallInv, ExecutionTypeOK
  <1>7. ASSUME Beside PROVE CallInv'
    <2>1. calls' = [w \in Workers |-> IF pc'[w] = "executing" THEN calls[w] ELSE Fresh]
      BY <1>7 DEF Beside
    <2>2. /\ calls' \in [Workers -> [uploaded : BOOLEAN, answer : Outcome \union {Null}]]
          /\ \A v \in Workers : calls'[v].answer \in ProviderOutcomes \union {Null}
      BY <2>1, FreshType DEF CallInv, ExecutionTypeOK, Fresh
    <2>3. \A v \in Workers : pc'[v] # "executing" => calls'[v] = Fresh
      BY <2>1
    <2> QED
      BY <1>7, <2>2, <2>3 DEF Beside, CallInv, ExecutionTypeOK
  <1>8. CASE UNCHANGED executionVars
    BY <1>8 DEF executionVars, vars, CallInv, ExecutionTypeOK
  <1> QED
    BY <1>1, <1>2, <1>3, <1>4, <1>5, <1>6, <1>7, <1>8 DEF ExecutionNext, Call

(* A worker leaves execute early only when it is killed, and one kill is   *)
(* one fault.                                                              *)
KeepsCall(w) == pc[w] = "executing" => pc'[w] = "executing" /\ job'[w] = job[w]

LEMMA OnlyKilled ==
    ASSUME TypeOK, Next,
           \A w \in Workers : pc[w] = "executing" => pc'[w] \in {"executing"} \union Down
    PROVE  \/ faults' = faults /\ \A w \in Workers : KeepsCall(w)
           \/ /\ faults' = faults + 1
              /\ \E killed \in Workers :
                    pc'[killed] # "executing" /\ \A w \in Workers \ {killed} : KeepsCall(w)
  <1> USE DEF KeepsCall, TypeOK, LocalsTypeOK
  <1>l. ASSUME NEW w \in Workers, NEW where, Leave(w, where)
        PROVE  \A v \in Workers \ {w} : KeepsCall(v)
    BY <1>l DEF Leave
  <1>h. ASSUME NEW w \in Workers, NEW code, Handle(w, code), UNCHANGED job
        PROVE  \A v \in Workers \ {w} : KeepsCall(v)
    BY <1>h DEF Handle
  <1>r. ASSUME NEW w \in Workers, NEW code, Raise(w, code)
        PROVE  \A v \in Workers \ {w} : KeepsCall(v)
    BY <1>r, <1>l, <1>h DEF Raise
  <1>1. ASSUME NEW op \in Ops, Submit(op) PROVE faults' = faults /\ \A w \in Workers : KeepsCall(w)
    BY <1>1 DEF Submit
  <1>2. ASSUME NEW w \in Workers, WorkerStep(w)
        PROVE  faults' = faults /\ \A v \in Workers : KeepsCall(v)
    <2>1. ASSUME NEW op \in Ops, ClaimSelect(w, op)
          PROVE  faults' = faults /\ \A v \in Workers : KeepsCall(v)
      BY <2>1 DEF ClaimSelect, Proceed
    <2>2. CASE ClaimCommit(w)
      BY <2>2 DEF ClaimCommit, Proceed
    <2>3. CASE CheckInput(w)
      BY <2>3, <1>h DEF CheckInput, Proceed
    <2>4. CASE LoadDocument(w)
      BY <2>4, <1>h DEF LoadDocument, Proceed
    <2>5. CASE Execute(w)
      BY <2>5 DEF Execute, ExecuteReturns, Proceed, Down
    <2>6. CASE ExecuteRaises(w)
      BY <2>6, <1>h DEF ExecuteRaises, Handle, Down
    <2>7. CASE ReadOperation(w) \/ ReadAttempt(w)
      BY <2>7 DEF ReadOperation, ReadAttempt, Proceed
    <2>8. CASE NoSingleAttempt(w) \/ FinishConflict(w)
      BY <2>8, <1>r DEF NoSingleAttempt, FinishConflict
    <2>9. CASE FinishCommit(w)
      <3>1. pc[w] = "committing" /\ faults' = faults
        BY <2>9 DEF FinishCommit, FinishWrites
      <3>2. CASE Proceed(w, "committing", "deleting") /\ UNCHANGED job
        BY <3>1, <3>2 DEF Proceed
      <3>3. CASE Leave(w, "idle")
        BY <3>1, <3>3, <1>l
      <3> QED
        BY <2>9, <3>2, <3>3 DEF FinishCommit
    <2>10. CASE DeleteInput(w) \/ DeleteFails(w)
      BY <2>10, <1>l DEF DeleteInput, DeleteFails
    <2>11. CASE Restart(w)
      BY <2>11, <1>l DEF Restart, Down
    <2> QED
      BY <1>2, <2>1, <2>2, <2>3, <2>4, <2>5, <2>6, <2>7, <2>8, <2>9, <2>10, <2>11
      DEF WorkerStep, Finish
  <1>3. ASSUME NEW w \in Workers, Crash(w)
        PROVE  /\ faults' = faults + 1 /\ pc'[w] # "executing"
               /\ \A v \in Workers \ {w} : KeepsCall(v)
    BY <1>3, <1>l DEF Crash, Fault, Leave
  <1>4. ASSUME NEW w \in Workers, DatabaseFails(w)
        PROVE  /\ faults' = faults + 1 /\ pc'[w] # "executing"
               /\ \A v \in Workers \ {w} : KeepsCall(v)
    <2>1. faults' = faults + 1 /\ \A v \in Workers \ {w} : KeepsCall(v)
      BY <1>4, <1>l, <1>h, <1>r DEF DatabaseFails, Fault
    <2>2. pc'[w] # "executing"
      BY <1>4 DEF DatabaseFails, Raise, Leave, Handle
    <2> QED
      BY <2>1, <2>2
  <1>5. ASSUME NEW w \in Workers, FinishUnacknowledged(w)
        PROVE  /\ faults' = faults + 1 /\ pc'[w] # "executing"
               /\ \A v \in Workers \ {w} : KeepsCall(v)
    <2>1. faults' = faults + 1 /\ \A v \in Workers \ {w} : KeepsCall(v)
      BY <1>5, <1>r DEF FinishUnacknowledged, Fault
    <2>2. pc'[w] # "executing"
      BY <1>5 DEF FinishUnacknowledged, Raise, Leave, Handle
    <2> QED
      BY <2>1, <2>2
  <1>6. CASE Tick
    BY <1>6 DEF Tick
  <1> QED
    BY <1>1, <1>2, <1>3, <1>4, <1>5, <1>6 DEF Next

(* Files and uploads change together.                                      *)
LEMMA FilesKept ==
    ASSUME CallInv, FilesInv, faults \in Nat, UNCHANGED <<remote, lapses>>, faults' = faults,
           \A op \in Ops : Uploading(op)' = Uploading(op)
    PROVE  FilesInv'
  BY DEF FilesInv

LEMMA FilesInit == ExecutionInit => FilesInv
  <1> SUFFICES ASSUME ExecutionInit PROVE FilesInv
    OBVIOUS
  <1>1. \A op \in Ops : Uploading(op) = {}
    BY DEF ExecutionInit, Fresh, Uploading
  <1>2. \A op \in Ops : Cardinality(Uploading(op)) = 0
    BY <1>1, FS_EmptySet
  <1> QED
    BY <1>2 DEF ExecutionInit, Init, FilesInv

LEMMA FilesStep ==
    TypeOK /\ CallInv /\ FilesInv /\ [ExecutionNext]_executionVars => FilesInv'
  <1> SUFFICES ASSUME TypeOK, CallInv, FilesInv, [ExecutionNext]_executionVars PROVE FilesInv'
    OBVIOUS
  <1>0. faults \in Nat /\ lapses \in Nat /\ remote \in [Ops -> Nat]
    BY DEF TypeOK, HistoryTypeOK, CallInv, ExecutionTypeOK
  <1>1. ASSUME NEW w \in Workers, UploadReturns(w) PROVE FilesInv'
    <2>1. \A op \in Ops : /\ op = job[w] => /\ w \notin Uploading(op)
                                            /\ Uploading(op)' = Uploading(op) \union {w}
                          /\ op # job[w] => Uploading(op)' = Uploading(op)
      BY <1>1 DEF UploadReturns, Asking, Uploading, CallInv, ExecutionTypeOK, vars
    <2>2. \A op \in Ops : Cardinality(Uploading(op)) \in Nat
      BY UploadingFinite
    <2>3. ASSUME NEW op \in Ops, op = job[w]
          PROVE  Cardinality(Uploading(op))' = Cardinality(Uploading(op)) + 1
      BY <2>1, <2>3, UploadingFinite, FS_AddElement
    <2>4. ASSUME NEW op \in Ops, op # job[w]
          PROVE  Cardinality(Uploading(op))' = Cardinality(Uploading(op))
      BY <2>1, <2>4
    <2>5. \A op \in Ops : remote'[op] = IF op = job[w] THEN remote[op] + 1 ELSE remote[op]
      BY <1>0, <1>1 DEF UploadReturns
    <2>6. UNCHANGED <<lapses, faults>>
      BY <1>1 DEF UploadReturns, vars
    <2> QED
      BY <1>0, <2>2, <2>3, <2>4, <2>5, <2>6 DEF FilesInv
  <1>2. ASSUME NEW w \in Workers, UploadRaises(w) PROVE FilesInv'
    <2>1. \A op \in Ops : Uploading(op)' = Uploading(op) /\ Cardinality(Uploading(op)) \in Nat
      BY <1>2, UploadingFinite DEF UploadRaises, Decide, Uploading, CallInv, ExecutionTypeOK, vars
    <2> QED
      BY <1>0, <1>2, <2>1 DEF UploadRaises, FilesInv, vars
  <1>3. ASSUME NEW w \in Workers, ResponseReturns(w) \/ ResponseRaises(w) PROVE FilesInv'
    <2>1. \A op \in Ops : Uploading(op)' = Uploading(op)
      BY <1>3 DEF ResponseReturns, ResponseRaises, Decide, Uploading, CallInv, ExecutionTypeOK, vars
    <2> QED
      BY <1>0, <1>3, <2>1, FilesKept DEF ResponseReturns, ResponseRaises, vars
  <1>5. ASSUME NEW w \in Workers, CleanUp(w) PROVE FilesInv'
    <2>1. \A op \in Ops : /\ op = job[w] => /\ w \in Uploading(op)
                                            /\ Uploading(op)' = Uploading(op) \ {w}
                          /\ op # job[w] => Uploading(op)' = Uploading(op)
      BY <1>5 DEF CleanUp, Uploading, CallInv, ExecutionTypeOK, vars
    <2>2. \A op \in Ops : Cardinality(Uploading(op)) \in Nat
      BY UploadingFinite
    <2>3. ASSUME NEW op \in Ops, op = job[w]
          PROVE  Cardinality(Uploading(op))' = Cardinality(Uploading(op)) - 1
      BY <2>1, <2>3, UploadingFinite, FS_RemoveElement
    <2>4. ASSUME NEW op \in Ops, op # job[w]
          PROVE  Cardinality(Uploading(op))' = Cardinality(Uploading(op))
      BY <2>1, <2>4
    <2>5. faults' = faults
      BY <1>5 DEF CleanUp, vars
    <2>6. CASE remote' = [remote EXCEPT ![job[w]] = @ - 1] /\ UNCHANGED lapses
      BY <1>0, <2>2, <2>3, <2>4, <2>5, <2>6 DEF FilesInv
    <2>7. CASE lapses' = lapses + 1 /\ UNCHANGED remote
      BY <1>0, <2>2, <2>3, <2>4, <2>5, <2>7 DEF FilesInv
    <2> QED
      BY <1>5, <2>6, <2>7 DEF CleanUp
  <1>6. ASSUME NEW w \in Workers, Return(w) PROVE FilesInv'
    <2>1. \A op \in Ops : Uploading(op)' = Uploading(op)
      BY <1>6 DEF Return, ExecuteReturns, Uploading, Fresh, CallInv, ExecutionTypeOK
    <2> QED
      BY <1>0, <1>6, <2>1, FilesKept DEF Return, ExecuteReturns
  <1>7. ASSUME Beside PROVE FilesInv'
    <2>1. \A w \in Workers :
             /\ calls[w].uploaded => pc[w] = "executing"
             /\ pc'[w] = "executing" => calls'[w] = calls[w]
             /\ pc'[w] # "executing" => ~calls'[w].uploaded
      BY <1>7 DEF Beside, CallInv, ExecutionTypeOK, Fresh
    <2>2. ASSUME NEW w \in Workers, KeepsCall(w), NEW op \in Ops
          PROVE  w \in Uploading(op) <=> w \in Uploading(op)'
      BY <2>1, <2>2 DEF KeepsCall, Uploading
    <2>3. UNCHANGED <<remote, lapses>>
      BY <1>7 DEF Beside
    <2>4. CASE faults' = faults /\ \A w \in Workers : KeepsCall(w)
      <3>1. \A op \in Ops : Uploading(op)' = Uploading(op)
        BY <2>2, <2>4 DEF Uploading
      <3> QED
        BY <1>0, <2>3, <2>4, <3>1, FilesKept
    <2>5. ASSUME NEW killed \in Workers, faults' = faults + 1, pc'[killed] # "executing",
                 \A w \in Workers \ {killed} : KeepsCall(w)
          PROVE  FilesInv'
      <3>1. ASSUME NEW op \in Ops PROVE Uploading(op)' = Uploading(op) \ {killed}
        BY <2>1, <2>2, <2>5, <3>1 DEF Uploading
      <3>2. ASSUME NEW op \in Ops
            PROVE  Cardinality(Uploading(op))' \in {Cardinality(Uploading(op)), Cardinality(Uploading(op)) - 1}
        BY <3>1, <3>2, UploadingFinite, FS_RemoveElement
      <3> QED
        BY <1>0, <2>3, <2>5, <3>2, UploadingFinite DEF FilesInv
    <2> QED
      BY <1>7, <2>4, <2>5, OnlyKilled DEF Beside
  <1>8. CASE UNCHANGED executionVars
    BY <1>8 DEF executionVars, vars, FilesInv, Uploading
  <1> QED
    BY <1>1, <1>2, <1>3, <1>5, <1>6, <1>7, <1>8 DEF ExecutionNext, Call
-----------------------------------------------------------------------------
(* The executor gives the workers nothing they are not made for: all that  *)
(* is proved of AnalysisWorker holds with the executor in place.           *)
LEMMA ExecutionStep == CallInv /\ [ExecutionNext]_executionVars => [Next]_vars
  <1> SUFFICES ASSUME CallInv, [ExecutionNext]_executionVars PROVE [Next]_vars
    OBVIOUS
  <1>1. ASSUME NEW w \in Workers, Return(w) PROVE Next
    <2>1. calls[w].answer \in ExecutorOutcomes
      BY <1>1, ExecutorAssumption DEF Return, CallInv
    <2> QED
      BY <1>1, <2>1 DEF Return, Execute, WorkerStep, Next
  <1>2. ASSUME NEW w \in Workers,
               UploadReturns(w) \/ UploadRaises(w) \/ ResponseReturns(w) \/ ResponseRaises(w) \/ CleanUp(w)
        PROVE  UNCHANGED vars
    BY <1>2 DEF UploadReturns, UploadRaises, ResponseReturns, ResponseRaises, CleanUp
  <1> QED
    BY <1>1, <1>2 DEF ExecutionNext, Call, Beside, executionVars

(* What is held of the calls and of the provider's files, in every state.  *)
LEMMA ExecutionInvariant == ExecutionSpec => [](TypeOK /\ CallInv /\ FilesInv)
  <1>1. ExecutionInit => TypeOK /\ CallInv /\ FilesInv
    BY TypeInit, CallInit, FilesInit DEF ExecutionInit
  <1>2. TypeOK /\ CallInv /\ FilesInv /\ [ExecutionNext]_executionVars
           => TypeOK' /\ CallInv' /\ FilesInv'
    BY ExecutionStep, TypeStep, CallStep, FilesStep
  <1> QED
    BY <1>1, <1>2, PTL DEF ExecutionSpec

(* Calls, files and counters are always of their types, and a worker that  *)
(* does not execute holds no call.                                         *)
THEOREM ExecutionTypeCorrect == ExecutionSpec => []ExecutionTypeOK
  <1>1. CallInv => ExecutionTypeOK
    BY DEF CallInv
  <1> QED
    BY <1>1, ExecutionInvariant, PTL

(* The workers with the executor implement the workers of AnalysisWorker,  *)
(* whatever the provider answers and whatever fails.                       *)
THEOREM ExecutionCorrect == ExecutionSpec => ImplementsWorker
  <1>1. ExecutionInit => Init
    BY DEF ExecutionInit
  <1> QED
    BY <1>1, ExecutionStep, ExecutionInvariant, PTL DEF ExecutionSpec, ImplementsWorker, Spec

(* A file stays at the provider only while its call runs, but for those    *)
(* that a failed call of the provider or a killed worker left.             *)
THEOREM FilesReleasedCorrect == ExecutionSpec => []FilesReleased
  <1>1. FilesInv => FilesReleased
    BY DEF FilesInv, FilesReleased
  <1> QED
    BY <1>1, ExecutionInvariant, PTL
-----------------------------------------------------------------------------
(* What becomes of an attempt, with no other executor in the workers.      *)
Retried == Transient \union {"internal_error"}

LEMMA ProviderOutcome ==
    ASSUME NEW out \in ProviderOutcomes
    PROVE  \/ out.kind = "success" /\ out.retryable = FALSE /\ out.result = TRUE
           \/ out.kind = "failure" /\ out.retryable = FALSE
           \/ out.kind = "failure" /\ out.code \in ErrorCodes
              /\ out.retryable = (out.code \in Transient)
  <1>1. CASE out \in {Failure(code, code \in Transient) : code \in ErrorCodes}
    <2>1. PICK code \in ErrorCodes : out = Failure(code, code \in Transient)
      BY <1>1
    <2> QED
      BY <2>1 DEF Failure
  <1>2. CASE out \notin {Failure(code, code \in Transient) : code \in ErrorCodes}
    BY <1>2 DEF ProviderOutcomes
  <1> QED
    BY <1>1, <1>2

(* The worker counts on more outcomes than these: of the executor it gets  *)
(* no other, because what execute returns is the answer of its call.       *)
Answered ==
    \A w \in Workers : Execute(w) => \E out \in ProviderOutcomes : ExecuteReturns(w, out)

LEMMA ExecutionAnswers ==
    ASSUME TypeOK, CallInv, [ExecutionNext]_executionVars PROVE Answered
  <1> SUFFICES ASSUME NEW w \in Workers, Execute(w)
               PROVE  \E out \in ProviderOutcomes : ExecuteReturns(w, out)
    BY DEF Answered
  <1>1. pc[w] = "executing" /\ pc'[w] = "finishing"
    BY DEF Execute, ExecuteReturns, Proceed, TypeOK, LocalsTypeOK
  <1>2. pc' # pc /\ ~Beside
    BY <1>1 DEF Beside, Down
  <1>3. PICK v \in Workers : Return(v)
    BY <1>2
    DEF ExecutionNext, Call, UploadReturns, UploadRaises, ResponseReturns, ResponseRaises, CleanUp,
        executionVars, vars, locals
  <1>4. v = w
    BY <1>1, <1>3 DEF Return, ExecuteReturns, Proceed, TypeOK, LocalsTypeOK
  <1> QED
    BY <1>3, <1>4 DEF Return, CallInv

(* The strengthening: a retryable outcome is one that may be retried, and  *)
(* the last attempt of an operation tells why the next one is made.        *)
OutcomesRetriable ==
    \A w \in Workers : /\ pc[w] \in {"finishing", "reading", "committing"}
                       /\ outcome[w].retryable
                       => outcome[w].code \in Retried

LastAttempt(op) == attempts[op][Len(attempts[op])]
RetryInv ==
    /\ OnlyTransientIsRetried
    /\ \A op \in Ops :
          /\ operations[op].status = "processing" => LastAttempt(op) = "processing"
          /\ operations[op].status = "accepted" /\ attempts[op] # << >>
                => LastAttempt(op) \in Retried

LEMMA OutcomeStep ==
    ASSUME Answered, TypeOK, OutcomesRetriable, [Next]_vars
    PROVE  OutcomesRetriable'
  <1> USE DEF OutcomesRetriable, TypeOK, LocalsTypeOK
  <1>l. ASSUME NEW w \in Workers, NEW where \in {"idle"} \union Down, Leave(w, where)
        PROVE  OutcomesRetriable'
    BY <1>l DEF Leave, Down
  <1>h. ASSUME NEW w \in Workers, NEW code, Handle(w, code) PROVE OutcomesRetriable'
    BY <1>h DEF Handle, Failure, Retried
  <1>r. ASSUME NEW w \in Workers, NEW code, Raise(w, code) PROVE OutcomesRetriable'
    BY <1>r, <1>l, <1>h DEF Raise, Down
  <1>1. ASSUME NEW op \in Ops, Submit(op) PROVE OutcomesRetriable'
    BY <1>1 DEF Submit
  <1>2. ASSUME NEW w \in Workers, NEW op \in Ops, ClaimSelect(w, op) PROVE OutcomesRetriable'
    BY <1>2 DEF ClaimSelect, Proceed
  <1>3. ASSUME NEW w \in Workers, ClaimCommit(w) PROVE OutcomesRetriable'
    BY <1>3 DEF ClaimCommit, Proceed
  <1>4. ASSUME NEW w \in Workers, CheckInput(w) \/ LoadDocument(w) \/ ExecuteRaises(w)
        PROVE  OutcomesRetriable'
    BY <1>4, <1>h DEF CheckInput, LoadDocument, ExecuteRaises, Proceed
  <1>5. ASSUME NEW w \in Workers, Execute(w) PROVE OutcomesRetriable'
    <2>1. PICK out \in ProviderOutcomes : ExecuteReturns(w, out)
      BY <1>5 DEF Answered
    <2>2. Checked(out).retryable => Checked(out).code \in Retried
      BY ProviderOutcome DEF Checked, Failure, Retried
    <2> QED
      BY <2>1, <2>2 DEF ExecuteReturns, Proceed
  <1>6. ASSUME NEW w \in Workers, ReadOperation(w) \/ ReadAttempt(w) PROVE OutcomesRetriable'
    BY <1>6 DEF ReadOperation, ReadAttempt, Proceed
  <1>7. ASSUME NEW w \in Workers, NoSingleAttempt(w) \/ FinishConflict(w) \/ FinishUnacknowledged(w)
        PROVE  OutcomesRetriable'
    BY <1>7, <1>r DEF NoSingleAttempt, FinishConflict, FinishUnacknowledged
  <1>8. ASSUME NEW w \in Workers, FinishCommit(w) PROVE OutcomesRetriable'
    BY <1>8, <1>l DEF FinishCommit, Proceed
  <1>9. ASSUME NEW w \in Workers, DeleteInput(w) \/ DeleteFails(w) \/ Restart(w) \/ Crash(w)
        PROVE  OutcomesRetriable'
    BY <1>9, <1>l DEF DeleteInput, DeleteFails, Restart, Crash, Down
  <1>10. ASSUME NEW w \in Workers, DatabaseFails(w) PROVE OutcomesRetriable'
    BY <1>10, <1>l, <1>h, <1>r DEF DatabaseFails, Down
  <1>11. Tick \/ UNCHANGED vars => OutcomesRetriable'
    BY DEF Tick, vars
  <1> QED
    BY <1>1, <1>2, <1>3, <1>4, <1>5, <1>6, <1>7, <1>8, <1>9, <1>10, <1>11
    DEF Next, WorkerStep, Finish

LEMMA RetryKept ==
    ASSUME RetryInv, UNCHANGED attempts,
           \A op \in Ops : operations'[op].status = operations[op].status
    PROVE  RetryInv'
  BY DEF RetryInv, OnlyTransientIsRetried, LastAttempt

LEMMA RetryStep ==
    ASSUME ~MayLoseAck, TimelyIInv, OutcomesRetriable, RetryInv, [Next]_vars
    PROVE  RetryInv'
  <1> USE DEF TimelyIInv
  <1>0. \A op \in Ops : attempts[op] \in Seq(AttemptOutcome)
    BY DEF TypeOK, TablesTypeOK
  <1>1. ASSUME NEW op \in Ops, Submit(op) PROVE RetryInv'
    <2>1. PICK stamp \in Stamps : operations' = [operations EXCEPT ![op] = NewRow("accepted", stamp)]
      BY <1>1 DEF Submit
    <2>2. /\ operations'[op].status = "accepted" /\ attempts[op] = << >>
          /\ \A o \in Ops \ {op} : operations'[o] = operations[o]
          /\ UNCHANGED attempts
      BY <1>1, <2>1 DEF Submit, NewRow, TimelyInv, TypeOK, TablesTypeOK
    <2> QED
      BY <2>2 DEF RetryInv, OnlyTransientIsRetried, LastAttempt
  <1>2. ASSUME NEW w \in Workers, NEW op \in Ops, ClaimSelect(w, op) PROVE RetryInv'
    BY <1>2, RetryKept DEF ClaimSelect
  <1>3. ASSUME NEW w \in Workers, ClaimCommit(w) PROVE RetryInv'
    <2>1. PICK op \in Ops : op = job[w]
      BY <1>3, WorkingJob DEF ClaimCommit, Proceed
    <2>2. /\ operations'[op].status = "processing"
          /\ attempts'[op] = Append(attempts[op], "processing")
          /\ \A o \in Ops \ {op} : operations'[o] = operations[o] /\ attempts'[o] = attempts[o]
      BY <1>3, <2>1 DEF ClaimCommit, ClaimedRow, Proceed, Row, TypeOK, TablesTypeOK
    <2>3. operations[op].status \in {"accepted", "processing"}
      BY <1>3, <2>1 DEF ClaimCommit, Proceed, TimelyInv, WorkerOK, ClaimsFree
    <2>4. attempts[op] # << >> => LastAttempt(op) \in Retried \union {"processing"}
      BY <2>3 DEF RetryInv
    <2>5. LastAttempt(op)' = "processing" /\ Len(attempts'[op]) = Len(attempts[op]) + 1
      BY <1>0, <2>2 DEF LastAttempt
    <2>6. ASSUME NEW n \in 1..(Len(attempts'[op]) - 1)
          PROVE  attempts'[op][n] \in Retried \union {"processing"}
      <3>1. n \in 1..Len(attempts[op]) /\ attempts'[op][n] = attempts[op][n]
        BY <1>0, <2>2, <2>5
      <3>2. CASE n = Len(attempts[op])
        BY <1>0, <2>4, <3>1, <3>2 DEF LastAttempt
      <3>3. CASE n # Len(attempts[op])
        BY <1>0, <3>1, <3>3 DEF RetryInv, OnlyTransientIsRetried, Retried
      <3> QED
        BY <3>2, <3>3
    <2>7. OnlyTransientIsRetried'
      BY <2>2, <2>6 DEF RetryInv, OnlyTransientIsRetried, Retried
    <2> QED
      BY <2>2, <2>5, <2>7 DEF RetryInv, LastAttempt
  <1>4. ASSUME NEW w \in Workers, ReadOperation(w) \/ ReadAttempt(w) PROVE RetryInv'
    BY <1>4, RetryKept DEF ReadOperation, ReadAttempt
  <1>5. ASSUME NEW w \in Workers, Commits(w) PROVE RetryInv'
    <2>1. PICK op \in Ops : op = job[w]
      BY <1>5, WorkingJob DEF Commits, FinishWrites, Working
    <2>2. /\ operations'[op].status = StatusAfter(outcome[w], seen[w].attempt)
          /\ attempts'[op] = [attempts[op] EXCEPT ![Len(attempts[op])] = AttemptResult(outcome[w])]
          /\ Len(attempts[op]) \in DOMAIN attempts[op]
      BY <1>5, <2>1, TimelyCommit
    <2>3. \A o \in Ops \ {op} : operations'[o] = operations[o] /\ attempts'[o] = attempts[o]
      BY <1>5, <2>1 DEF Commits, FinishWrites, TypeOK, TablesTypeOK
    <2>4. /\ Len(attempts'[op]) = Len(attempts[op])
          /\ LastAttempt(op)' = AttemptResult(outcome[w])
          /\ \A n \in 1..(Len(attempts[op]) - 1) : attempts'[op][n] = attempts[op][n]
      BY <1>0, <2>2 DEF LastAttempt
    <2>5. /\ operations'[op].status # "processing"
          /\ operations'[op].status = "accepted"
               => outcome[w].kind = "failure" /\ outcome[w].retryable
      BY <2>2 DEF StatusAfter
    <2>6. operations'[op].status = "accepted" => LastAttempt(op)' \in Retried
      BY <1>5, <2>4, <2>5
      DEF Commits, FinishWrites, OutcomesRetriable, AttemptResult
    <2>7. OnlyTransientIsRetried'
      BY <2>3, <2>4 DEF RetryInv, OnlyTransientIsRetried
    <2> QED
      BY <2>3, <2>5, <2>6, <2>7 DEF RetryInv, LastAttempt
  <1>6. ASSUME NEW w \in Workers, DeleteInput(w) \/ LocalStep(w) PROVE RetryInv'
    BY <1>6, RetryKept DEF DeleteInput, LocalStep
  <1>7. CASE Tick
    BY <1>7, TickFacts, RetryKept DEF Tick
  <1>8. CASE UNCHANGED vars
    BY <1>8, RetryKept DEF vars
  <1> QED
    BY <1>1, <1>2, <1>3, <1>4, <1>5, <1>6, <1>7, <1>8, NextCases

(* Only a transient failure, an error of the worker itself or a crash is   *)
(* followed by another attempt.                                            *)
THEOREM RetryCorrect ==
    ASSUME ~MayOverrun, ~MayLoseAck PROVE ExecutionSpec => []OnlyTransientIsRetried
  <1>1. Init => OutcomesRetriable /\ RetryInv
    BY DEF Init, NewRow, OutcomesRetriable, RetryInv, OnlyTransientIsRetried
  <1>2. TimelyIInv /\ CallInv /\ OutcomesRetriable /\ RetryInv /\ [ExecutionNext]_executionVars
           => OutcomesRetriable' /\ RetryInv'
    BY ExecutionAnswers, ExecutionStep, OutcomeStep, RetryStep DEF TimelyIInv
  <1>3. RetryInv => OnlyTransientIsRetried
    BY DEF RetryInv
  <1>4. ExecutionSpec => []TimelyIInv
    BY TimelyInvariant, ExecutionCorrect, PTL DEF ImplementsWorker
  <1> QED
    BY <1>1, <1>2, <1>3, <1>4, ExecutionInvariant, PTL DEF ExecutionSpec, ExecutionInit
-----------------------------------------------------------------------------
(* Responses that carried usage: those whose execute has returned, which   *)
(* the worker counts as billed, and those that are still on their way.     *)
MeteredInv == \A op \in Ops : metered[op] = billed[op] + Cardinality(Answering(op))

LEMMA AnsweringFinite ==
    \A op \in Ops : IsFiniteSet(Answering(op)) /\ Cardinality(Answering(op)) \in Nat
  BY WorkersAssumption, FS_Subset, FS_CardinalityType DEF Answering

LEMMA MeteredKept ==
    ASSUME MeteredInv, UNCHANGED <<metered, billed>>,
           \A op \in Ops : Answering(op)' = Answering(op)
    PROVE  MeteredInv'
  BY DEF MeteredInv

(* Nothing but the return of execute is counted as billed.                 *)
LEMMA BilledKept ==
    ASSUME Next, \A w \in Workers : ~Execute(w)
    PROVE  billed' = billed
  <1>1. ASSUME NEW w \in Workers, Crash(w) \/ DatabaseFails(w) \/ FinishUnacknowledged(w)
        PROVE  billed' = billed
    BY <1>1 DEF Crash, DatabaseFails, FinishUnacknowledged, Fault
  <1>2. ASSUME NEW w \in Workers, Finish(w) PROVE billed' = billed
    BY <1>2 DEF Finish, ReadOperation, ReadAttempt, NoSingleAttempt, FinishCommit, FinishConflict
  <1>3. ASSUME NEW w \in Workers, WorkerStep(w), ~Finish(w) PROVE billed' = billed
    BY <1>3
    DEF WorkerStep, ClaimSelect, ClaimCommit, CheckInput, LoadDocument, ExecuteRaises, DeleteInput,
        DeleteFails, Restart
  <1>4. ASSUME NEW op \in Ops, Submit(op) PROVE billed' = billed
    BY <1>4 DEF Submit
  <1>5. Tick => billed' = billed
    BY DEF Tick
  <1> QED
    BY <1>1, <1>2, <1>3, <1>4, <1>5 DEF Next

LEMMA MeteredStep ==
    ASSUME faults = 0, faults' = 0, TypeOK, CallInv, MeteredInv, [ExecutionNext]_executionVars
    PROVE  MeteredInv'
  <1>0. metered \in [Ops -> Nat] /\ billed \in [Ops -> Nat]
    BY DEF TypeOK, HistoryTypeOK, CallInv, ExecutionTypeOK
  <1>1. ASSUME NEW w \in Workers, UploadReturns(w) \/ CleanUp(w) PROVE MeteredInv'
    <2>1. \A op \in Ops : Answering(op)' = Answering(op)
      BY <1>1 DEF UploadReturns, CleanUp, Answering, CallInv, ExecutionTypeOK, vars
    <2> QED
      BY <1>1, <2>1, MeteredKept DEF UploadReturns, CleanUp, vars
  <1>2. ASSUME NEW w \in Workers, UploadRaises(w) \/ ResponseRaises(w) PROVE MeteredInv'
    <2>1. PICK error \in Errors : Decide(w, Raised(error))
      BY <1>2 DEF UploadRaises, ResponseRaises
    <2>2. ~Raised(error).usage /\ calls[w].answer = Null /\ UNCHANGED <<vars, metered>>
      BY <1>2 DEF UploadRaises, ResponseRaises, Asking, Raised, Failure
    <2>3. \A op \in Ops : Answering(op)' = Answering(op)
      BY <2>1, <2>2 DEF Decide, Answering, CallInv, ExecutionTypeOK, vars
    <2> QED
      BY <2>2, <2>3, MeteredKept DEF vars
  <1>3. ASSUME NEW w \in Workers, ResponseReturns(w) PROVE MeteredInv'
    <2>1. PICK parses \in BOOLEAN, reports \in BOOLEAN :
             /\ Decide(w, Parsed(parses, reports))
             /\ metered' = [metered EXCEPT ![job[w]] = @ + (IF reports THEN 1 ELSE 0)]
      BY <1>3 DEF ResponseReturns
    <2>2. /\ calls[w].answer = Null /\ UNCHANGED vars
          /\ job[w] \in Ops
      BY <1>3, WorkingJob DEF ResponseReturns, Asking, Working
    <2>3. Parsed(parses, reports).usage = reports /\ Parsed(parses, reports) # Null
      BY AnswersAreProviderOutcomes, OutcomesKnown DEF Parsed, Failure
    <2>4. calls'[w].answer = Parsed(parses, reports) /\ \A v \in Workers \ {w} : calls'[v] = calls[v]
      BY <2>1 DEF Decide, CallInv, ExecutionTypeOK
    <2>5. CASE ~reports
      <3>1. \A op \in Ops : Answering(op)' = Answering(op)
        BY <2>2, <2>3, <2>4, <2>5 DEF Answering, vars
      <3>2. metered' = metered
        BY <1>0, <2>1, <2>2, <2>5
      <3> QED
        BY <2>2, <3>1, <3>2, MeteredKept DEF vars
    <2>6. CASE reports
      <3>1. \A op \in Ops : op # job[w] => Answering(op)' = Answering(op)
        BY <2>2, <2>4 DEF Answering, vars
      <3>2. Answering(job[w])' = Answering(job[w]) \union {w} /\ w \notin Answering(job[w])
        BY <2>2, <2>3, <2>4, <2>6 DEF Answering, vars
      <3>3. Cardinality(Answering(job[w])') = Cardinality(Answering(job[w])) + 1
        BY <2>2, <3>2, AnsweringFinite, FS_AddElement
      <3>4. metered' = [metered EXCEPT ![job[w]] = @ + 1] /\ UNCHANGED <<billed, job>>
        BY <2>1, <2>2, <2>6 DEF vars
      <3> QED
        BY <1>0, <2>2, <3>1, <3>3, <3>4, AnsweringFinite DEF MeteredInv
    <2> QED
      BY <2>5, <2>6
  <1>4. ASSUME NEW w \in Workers, Return(w) PROVE MeteredInv'
    <2>1. /\ job[w] \in Ops /\ calls[w].answer # Null /\ UNCHANGED <<job, metered>>
          /\ calls' = [calls EXCEPT ![w] = Fresh]
          /\ billed' = [billed EXCEPT ![job[w]] = @ + (IF calls[w].answer.usage THEN 1 ELSE 0)]
      BY <1>4, WorkingJob DEF Return, ExecuteReturns, Proceed, Working
    <2>2. \A op \in Ops : Answering(op)' = Answering(op) \ {w}
      BY <2>1 DEF Answering, Fresh, CallInv, ExecutionTypeOK
    <2>3. CASE ~calls[w].answer.usage
      <3>1. \A op \in Ops : Answering(op)' = Answering(op)
        BY <2>2, <2>3 DEF Answering
      <3>2. billed' = billed
        BY <1>0, <2>1, <2>3
      <3> QED
        BY <2>1, <3>1, <3>2, MeteredKept
    <2>4. CASE calls[w].answer.usage
      <3>1. w \in Answering(job[w]) /\ \A op \in Ops : op # job[w] => w \notin Answering(op)
        BY <2>1, <2>4 DEF Answering
      <3>2. Cardinality(Answering(job[w])') = Cardinality(Answering(job[w])) - 1
        BY <2>1, <2>2, <3>1, AnsweringFinite, FS_RemoveElement
      <3>3. \A op \in Ops : op # job[w] => Answering(op)' = Answering(op)
        BY <2>2, <3>1
      <3>4. billed' = [billed EXCEPT ![job[w]] = @ + 1]
        BY <2>1, <2>4
      <3> QED
        BY <1>0, <2>1, <3>2, <3>3, <3>4, AnsweringFinite DEF MeteredInv
    <2> QED
      BY <2>3, <2>4
  <1>5. ASSUME Beside PROVE MeteredInv'
    <2>1. \A w \in Workers : KeepsCall(w)
      BY <1>5, OnlyKilled DEF Beside
    <2>2. \A w \in Workers : ~Execute(w)
      BY <1>5 DEF Beside, Execute, ExecuteReturns, Proceed, Down, TypeOK, LocalsTypeOK
    <2>3. billed' = billed /\ metered' = metered
      BY <1>5, <2>2, BilledKept DEF Beside
    <2>4. \A w \in Workers :
             /\ pc[w] = "executing" => calls'[w] = calls[w] /\ job'[w] = job[w]
             /\ pc[w] # "executing" => calls[w].answer = Null /\ calls'[w].answer = Null
      BY <1>5, <2>1 DEF Beside, KeepsCall, CallInv, ExecutionTypeOK, Fresh
    <2>5. \A op \in Ops : Answering(op)' = Answering(op)
      BY <2>4 DEF Answering
    <2> QED
      BY <2>3, <2>5, MeteredKept
  <1>6. CASE UNCHANGED executionVars
    BY <1>6, MeteredKept DEF executionVars, vars, Answering
  <1> QED
    BY <1>1, <1>2, <1>3, <1>4, <1>5, <1>6 DEF ExecutionNext, Call

(* The usage of every response that arrived is on its way to its row or in *)
(* it, until a process is killed or a database call fails.                 *)
THEOREM UsageOfEveryResponseCorrect ==
    ASSUME ~MayOverrun, ~MayLoseAck PROVE ExecutionSpec => []UsageOfEveryResponse
  <1>1. /\ TypeOK /\ CallInv /\ TimelyIInv
        /\ (faults = 0 => HealthyInv) /\ (faults = 0 => UsageConserved)
        /\ [ExecutionNext]_executionVars
        => (faults = 0 => UsageConserved)'
    <2> SUFFICES ASSUME TypeOK, CallInv, TimelyIInv, faults = 0 => HealthyInv,
                        faults = 0 => UsageConserved, [ExecutionNext]_executionVars, faults' = 0
                 PROVE  UsageConserved'
      OBVIOUS
    <2>1. [Next]_vars
      BY ExecutionStep
    <2>2. faults = 0
      BY <2>1, FaultsGrow DEF TypeOK, HistoryTypeOK
    <2>3. \A out \in ProviderOutcomes : Complete(out)
      BY ProviderOutcome DEF Complete
    <2>4. ReturnsComplete
      BY <2>3, ExecutionAnswers, ExecutorAssumption DEF Answered, ReturnsComplete
    <2> QED
      BY <2>1, <2>2, <2>4, UsageExact, UsageConservedStep
  <1>2. ExecutionSpec => [](TimelyIInv /\ (faults = 0 => HealthyInv))
    BY HealthyInvariant, ExecutionCorrect DEF ImplementsWorker
  <1>3. ExecutionInit => UsageConserved
    BY UsageConservedInit DEF ExecutionInit
  <1>4. ExecutionInit => MeteredInv
    <2> SUFFICES ASSUME ExecutionInit, NEW op \in Ops
                 PROVE  metered[op] = billed[op] + Cardinality(Answering(op))
      BY DEF MeteredInv
    <2>1. Answering(op) = {}
      BY DEF ExecutionInit, Fresh, Answering
    <2> QED
      BY <2>1, FS_EmptySet DEF ExecutionInit, Init
  <1>5. TypeOK /\ CallInv /\ (faults = 0 => MeteredInv) /\ [ExecutionNext]_executionVars
           => (faults = 0 => MeteredInv)'
    BY MeteredStep, ExecutionStep, FaultsGrow DEF TypeOK, HistoryTypeOK
  <1>6. TypeOK /\ (faults = 0 => MeteredInv) /\ (faults = 0 => UsageConserved) => UsageOfEveryResponse
    BY AnsweringFinite, InHandFinite
    DEF MeteredInv, UsageConserved, UsageOfEveryResponse, TypeOK, TablesTypeOK, HistoryTypeOK
  <1> QED
    BY <1>1, <1>2, <1>3, <1>4, <1>5, <1>6, ExecutionInvariant, PTL DEF ExecutionSpec
=============================================================================
