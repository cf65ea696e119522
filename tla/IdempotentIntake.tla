--------------------------- MODULE IdempotentIntake ---------------------------
(***************************************************************************)
(* What docs/API_CONTRACT.md promises of POST with an Idempotency-Key: a   *)
(* key is bound at most once, to one operation and one input; whoever is   *)
(* told "accepted" is told of that operation, and only if the input is the *)
(* same; whoever is told "conflict" sent another input.  A request may     *)
(* also fail, or never be answered, whether or not it bound its key.       *)
(***************************************************************************)
CONSTANTS Requests, Keys, Prints, Null

VARIABLES
    bound,    \* what each key is bound to
    asked,    \* key and input of each request
    answers   \* answer to each request

vars == <<bound, asked, answers>>

Init ==
    /\ bound = [k \in Keys |-> Null]
    /\ asked = [r \in Requests |-> Null]
    /\ answers = [r \in Requests |-> Null]

Ask(r) ==
    /\ asked[r] = Null
    /\ \E k \in Keys, p \in Prints : asked' = [asked EXCEPT ![r] = [key |-> k, print |-> p]]
    /\ UNCHANGED <<bound, answers>>

(* The request's own operation takes the key.                              *)
Bind(r) ==
    /\ asked[r] # Null /\ answers[r] = Null
    /\ bound[asked[r].key] = Null
    /\ bound' = [bound EXCEPT ![asked[r].key] = [op |-> r, print |-> asked[r].print]]
    /\ UNCHANGED <<asked, answers>>

Answer(r, kind, op) ==
    /\ asked[r] # Null /\ answers[r] = Null
    /\ answers' = [answers EXCEPT ![r] = [kind |-> kind, op |-> op]]
    /\ UNCHANGED <<bound, asked>>

Accept(r) ==
    /\ asked[r] # Null /\ bound[asked[r].key] # Null
    /\ bound[asked[r].key].print = asked[r].print
    /\ Answer(r, "accepted", bound[asked[r].key].op)

Reject(r) ==
    /\ asked[r] # Null /\ bound[asked[r].key] # Null
    /\ bound[asked[r].key].print # asked[r].print
    /\ Answer(r, "conflict", Null)

Fail(r) == Answer(r, "unavailable", Null) \/ Answer(r, "error", Null)

Next == \E r \in Requests : Ask(r) \/ Bind(r) \/ Accept(r) \/ Reject(r) \/ Fail(r)

Spec == Init /\ [][Next]_vars
=============================================================================
