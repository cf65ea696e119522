----------------------------- MODULE BackendProofs -----------------------------
(* Theorems about the composition, for all constants: what was proved of   *)
(* the executor and of the query each beside the workers holds of both.    *)
EXTENDS Backend, AnalysisExecutionProofs, OperationStatusProofs

LEMMA BackendExecutes == BackendSpec => ExecutionSpec
  <1>1. BackendInit => ExecutionInit
    BY DEF BackendInit
  <1>2. [BackendNext]_backendVars => [ExecutionNext]_executionVars
    BY DEF BackendNext, backendVars, executionVars, Poll, PollOperation, PollResult, PollLost
  <1> QED
    BY <1>1, <1>2, PTL DEF BackendSpec, ExecutionSpec

(* A step of the provider is no step of the workers, and any other is one  *)
(* of theirs: the query sees nothing else.                                 *)
LEMMA BackendPolls == BackendSpec => StatusSpec
  <1>1. BackendInit => StatusInit
    BY DEF BackendInit
  <1>2. CallInv /\ [BackendNext]_backendVars => [StatusNext]_statusVars
    <2> SUFFICES ASSUME CallInv, [BackendNext]_backendVars PROVE [StatusNext]_statusVars
      OBVIOUS
    <2>1. CASE ExecutionNext /\ UNCHANGED pollVars
      <3>1. [Next]_vars
        BY <2>1, ExecutionStep
      <3> QED
        BY <2>1, <3>1 DEF StatusNext, statusVars
    <2>2. CASE \E c \in Clients : Poll(c) /\ UNCHANGED providerVars
      BY <2>2 DEF StatusNext
    <2>3. CASE UNCHANGED backendVars
      BY <2>3 DEF backendVars, statusVars
    <2> QED
      BY <2>1, <2>2, <2>3 DEF BackendNext
  <1> QED
    BY <1>1, <1>2, BackendExecutes, ExecutionInvariant, PTL DEF BackendSpec, StatusSpec

(* The composition is both of its parts: neither the executor disturbs     *)
(* what a client is told, nor a client what the executor does.             *)
THEOREM BackendComposes == BackendSpec => ExecutionSpec /\ StatusSpec
  BY BackendExecutes, BackendPolls

(* Type correctness of the composition.                                    *)
THEOREM BackendTypeCorrect == BackendSpec => []BackendTypeOK
  BY BackendExecutes, BackendPolls, ExecutionTypeCorrect, StatusTypeCorrect, PTL DEF BackendTypeOK

(* While attempts end in time and commits are acknowledged, what a client  *)
(* is told of an end is final and true with the executor in place, too.    *)
THEOREM BackendTellsTheEnd ==
    ASSUME ~MayOverrun, ~MayLoseAck
    PROVE  BackendSpec => EndIsFinal /\ []FailureToldIsLast /\ []ResultIsNeverMissing
  BY BackendPolls, EndFinal, FailureTold, ResultPresent

(* Whatever the timing and whatever fails, the workers of the composition  *)
(* are those of AnalysisWorker: they keep results, inputs, attempts and    *)
(* usage straight and release the provider's files.                        *)
THEOREM BackendKeepsRecords ==
    BackendSpec => /\ ImplementsWorker
                   /\ []SucceededHasResult
                   /\ []TerminalReleasesInput
                   /\ []DirectoryOutlivesMark
                   /\ []UsageNotFabricated
                   /\ []OutcomeOnOwnAttempt
                   /\ []ResultOfOneAttempt
                   /\ []ProcessingIsReclaimable
                   /\ [][HistoryStays]_vars
                   /\ []FilesReleased
                   /\ []ResultIsNeverMissing
  <1>1. BackendSpec => Spec
    BY BackendExecutes, ExecutionCorrect DEF ImplementsWorker
  <1> QED
    BY <1>1, BackendExecutes, BackendPolls, ResultPresentCorrect, ReleaseCorrect, DirectoryCorrect,
       UsageCorrect, AttemptCorrect, ResultCorrect, ReclaimCorrect, HistoryCorrect,
       FilesReleasedCorrect, ResultPresent
    DEF ImplementsWorker

(* While attempts end in time and commits are acknowledged, the workers of *)
(* the composition lock by leases, end an operation once with a true       *)
(* account of it, retry only what is transient and record all usage.       *)
THEOREM BackendInTime ==
    ASSUME ~MayOverrun, ~MayLoseAck
    PROVE  BackendSpec => /\ []ExclusiveLease
                          /\ []FailureMatchesHistory
                          /\ []InputKeptForRetry
                          /\ []OnlyTransientIsRetried
                          /\ []UsageOfEveryResponse
                          /\ [](Accounts /\ NoFinishConflicts)
                          /\ TerminalIsFinal
                          /\ ImplementsLifecycle
  <1>1. BackendSpec => Spec
    BY BackendExecutes, ExecutionCorrect DEF ImplementsWorker
  <1> QED
    BY <1>1, BackendExecutes, ExclusiveCorrect, FailureCorrect, InputKeptCorrect, RetryCorrect,
       UsageOfEveryResponseCorrect, AccountsCorrect, FinalCorrect, LifecycleCorrect
=============================================================================
