-------------------------- MODULE OperationLifecycle --------------------------
(***************************************************************************)
(* What a client of the service relies on: the life of an operation as     *)
(* docs/OPERATIONS.md and operations/domain/operation.py describe it, with *)
(* no worker, lease or attempt in sight.  An operation is accepted with    *)
(* its original, is processed, possibly several times, and ends once: with *)
(* one result or with none, and without its original.                      *)
(***************************************************************************)
CONSTANT Ops

VARIABLES
    life,       \* status of each operation
    delivered,  \* operations with a result
    held        \* operations whose original is still in use

vars == <<life, delivered, held>>

Init ==
    /\ life = [op \in Ops |-> "absent"]
    /\ delivered = {}
    /\ held = {}

(* One transition of ALLOWED_TRANSITIONS.                                  *)
Move(op, from, to) == life[op] = from /\ life' = [life EXCEPT ![op] = to]

Submit(op) ==
    /\ Move(op, "absent", "accepted")
    /\ held' = held \union {op}
    /\ UNCHANGED delivered

Begin(op) ==
    /\ Move(op, "accepted", "processing")
    /\ UNCHANGED <<delivered, held>>

Retry(op) ==
    /\ Move(op, "processing", "accepted")
    /\ UNCHANGED <<delivered, held>>

Succeed(op) ==
    /\ Move(op, "processing", "succeeded")
    /\ op \notin delivered
    /\ delivered' = delivered \union {op}
    /\ held' = held \ {op}

Fail(op) ==
    /\ Move(op, "processing", "failed")
    /\ held' = held \ {op}
    /\ UNCHANGED delivered

Next == \E op \in Ops : Submit(op) \/ Begin(op) \/ Retry(op) \/ Succeed(op) \/ Fail(op)

Spec == Init /\ [][Next]_vars
=============================================================================
