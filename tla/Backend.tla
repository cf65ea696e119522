-------------------------------- MODULE Backend --------------------------------
(***************************************************************************)
(* The processes behind the intake together: the workers with the executor *)
(* inside each of them, and the clients that poll the API (services api    *)
(* and worker of compose.staging.yml).  They meet in the database only.    *)
(***************************************************************************)
EXTENDS AnalysisExecution, OperationStatus

backendVars == <<vars, providerVars, pollVars>>

BackendInit == ExecutionInit /\ StatusInit

BackendNext ==
    \/ ExecutionNext /\ UNCHANGED pollVars
    \/ \E c \in Clients : Poll(c) /\ UNCHANGED providerVars

BackendSpec == BackendInit /\ [][BackendNext]_backendVars
-----------------------------------------------------------------------------
(* A client is only ever told what the API can say, a failure only by its  *)
(* public category; and a worker outside execute holds no call.            *)
BackendTypeOK == StatusTypeOK /\ ExecutionTypeOK
=============================================================================
