------------------------- MODULE MCAnalysisTransport --------------------------
(* Values for TLC: answers that vary in a field or two of the entries of   *)
(* three collections, and one with an error in every collection.           *)
EXTENDS AnalysisTransport

Euro == [length |-> 3, grows |-> FALSE]
Plain == [named |-> TRUE, date |-> "day", time |-> "null", source |-> "null",
          value |-> "number", currency |-> Euro, directed |-> TRUE]

Dated == {[Plain EXCEPT !.date = d] : d \in Dates}
Sourced == {[Plain EXCEPT !.date = "null", !.source = s] : s \in Sources}
Timed == {[Plain EXCEPT !.date = d, !.time = t] : d \in {"day", "other_text"}, t \in Times}
Paid == {[Plain EXCEPT !.value = v] : v \in Values}
        \union {[Plain EXCEPT !.currency = [length |-> n, grows |-> g]] :
                   n \in 2..4, g \in BOOLEAN}
        \union {[Plain EXCEPT !.value = "other_text", !.directed = FALSE,
                              !.date = "other_datetime"]}

One(items) == {<<item>> : item \in items}

Variants ==
    [document_date : {<<>>} \union One(Sourced \union {[Plain EXCEPT !.date = "other_text"]}),
     deadlines : One(Dated) \union {<<Plain, item>> : item \in Sourced},
     appointments : {<<>>} \union One(Timed),
     amounts : {<<>>} \union One(Paid),
     required_documents : {<<>>, << [Plain EXCEPT !.named = FALSE] >>},
     suggested_tasks : {<<>>, << [Plain EXCEPT !.date = "other_datetime"] >>}]

Usual == [c \in Collections |-> IF c = "deadlines" THEN <<Plain>> ELSE <<>>]
Crowded == [c \in Collections |->
               << [Plain EXCEPT !.date = "other_text", !.named = (c # "amounts")] >>]

MCFacts == {f \in Variants : Cardinality({c \in Collections : f[c] # Usual[c]}) <= 3}
           \union {Crowded}

Payload(status, explained, owner, version, facts) ==
    [status |-> status, explained |-> explained, client_document_id |-> owner,
     schema_version |-> version, facts |-> facts]

MCOutputs ==
    {[form |-> f, payload |-> Null] : f \in {"text", "list"}}
    \union {[form |-> "object", payload |-> Payload("complete", TRUE, Null, Null, f)] :
               f \in MCFacts}
    \union {[form |-> "object", payload |-> Payload(s, e, o, v, [c \in Collections |-> <<>>])] :
               s \in Statuses, e \in BOOLEAN, o \in {Null, "other"}, v \in {Null, "other"}}
=============================================================================
