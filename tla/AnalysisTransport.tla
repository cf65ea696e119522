--------------------------- MODULE AnalysisTransport ---------------------------
(***************************************************************************)
(* One answer of the model on its way to the client: _parse_transport_     *)
(* result normalises and validates it (ai/openai_provider.py, analysis/    *)
(* contracts.py), the worker stores the dump of the result or the          *)
(* diagnostic of the failure, and every reader validates the dump again.   *)
(*                                                                         *)
(* A value is the form that decides what becomes of it.  An error that the *)
(* validation reports has an entry in the diagnostic, which is modelled by *)
(* its length: any one, as a location may name a field that is not in the  *)
(* contract.  Fields that only their type, or a limit on their length,     *)
(* constrains are left out but for the currency.                           *)
(***************************************************************************)
EXTENDS Integers, SequencesExt, FiniteSetsExt

CONSTANTS
    Outputs,   \* what the model may answer
    Document,  \* client_document_id of the document that was sent
    EntryLengths,  \* how long an entry of a diagnostic may be
    Null

(* A number stands for the midnight that it is as a timestamp.             *)
Midnights == {"naive_midnight", "utc_midnight"}
LaxMidnights == {"offset_midnight", "midnight_number"}
Dates == {"null", "day", "other_datetime", "other_text"} \union Midnights \union LaxMidnights

(* "zoned_unread" has a timezone for pydantic (a small z, or a number of   *)
(* seconds) but none that time.fromisoformat reads.                        *)
Times == {"null", "offset_free", "zoned", "zoned_unread", "other_text"}
Sources == {"null", "blank", "text"}
Values == {"null", "number", "number_too_precise", "decimal_text", "other_text"}

(* A currency whose upper case is longer, as of a sharp s, grows.          *)
Currencies == [length : Nat, grows : BOOLEAN]

(* An entry of any of the collections; each reads the fields it has.       *)
Items == [named : BOOLEAN, date : Dates, time : Times, source : Sources,
          value : Values, currency : Currencies, directed : BOOLEAN]

(* The constrained fields of each model, in the order they are declared.   *)
Order == <<"document_date", "deadlines", "appointments", "amounts",
           "required_documents", "suggested_tasks">>
Collections == Range(Order)
Fields(collection) ==
    CASE collection = "document_date" -> <<"date">>
      [] collection = "appointments" -> <<"named", "date", "time">>
      [] collection = "amounts" -> <<"value", "currency", "named", "directed", "date">>
      [] OTHER -> <<"named", "date">>

Statuses == {"missing", "complete", "partial", "unavailable"}
Version == "analysis_result.v1"
Payloads == [status : Statuses, explained : BOOLEAN, client_document_id : {Null, "other", Document},
             schema_version : {Null, "other", Version}, facts : [Collections -> Seq(Items)]]

(* No JSON, JSON but no object, or an object.                              *)
ASSUME OutputsAssumption ==
    Outputs \subseteq [form : {"text", "list"}, payload : {Null}]
                      \union [form : {"object"}, payload : Payloads]
ASSUME NullAssumption == Null \notin {"date", "time", "zoned_time"}
ASSUME EntryLengthsAssumption == EntryLengths \subseteq Nat

VARIABLES
    output,      \* what the model answered
    stage,       \* "answered", "parsed", "rejected", "stored" or "failed"
    result,      \* AnalysisResult of the outcome
    entries,     \* lengths of the entries for the first six errors of a rejection
    diagnostic,  \* failure_diagnostic of the outcome, then retry_reason
    row,         \* the operation_results row
    expired,     \* it has expired
    told         \* the last answer of a reader

vars == <<output, stage, result, entries, diagnostic, row, expired, told>>

MaxDiagnosticLength == 128
Bound(length) == IF length > MaxDiagnosticLength THEN MaxDiagnosticLength ELSE length

Init ==
    /\ output \in Outputs
    /\ stage = "answered"
    /\ result = Null
    /\ entries = <<>>
    /\ diagnostic = Null
    /\ row = Null
    /\ expired = FALSE
    /\ told = [kind |-> "none", result |-> Null]

MapItems(facts, Op(_, _)) ==
    [c \in Collections |-> [n \in DOMAIN facts[c] |-> Op(c, facts[c][n])]]
-----------------------------------------------------------------------------
(* Sensitivity variant: a datetime of any hour loses its time.             *)
AnyDatetime(form) ==
    IF form \in Midnights \union {"other_datetime"} THEN "day" ELSE form

(* _normalize_date.                                                        *)
NormalDate(form) == IF form \in Midnights THEN "day" ELSE form

(* _normalize_time refuses an offset it reads: the answer is rejected.     *)
Refused(payload) == \E n \in DOMAIN payload.facts["appointments"] :
                       payload.facts["appointments"][n].time = "zoned"

NormalItem(c, item) == [item EXCEPT !.date = NormalDate(@)]

(* _normalize_transport_values, and the fields that the server owns.       *)
Normal(payload) ==
    [payload EXCEPT !.client_document_id = Document,
                    !.schema_version = Version,
                    !.facts = MapItems(@, NormalItem)]

(* The contract alone: dates and times are those of pydantic's lax mode.   *)
Valid(item, field) ==
    CASE field = "named" -> item.named
      [] field = "date" -> item.date \in {"null", "day"} \union Midnights \union LaxMidnights
      [] field = "time" -> item.time \in {"null", "offset_free", "zoned", "zoned_unread"}
      [] field = "value" -> item.value \in {"number", "decimal_text"}
      [] field = "currency" -> item.currency.length = 3
      [] field = "directed" -> item.directed

(* has_date_or_source_text, which runs once the fields are valid.          *)
Undated(c, item) ==
    c \in {"document_date", "deadlines"} /\ item.date = "null" /\ item.source # "text"

(* The places of the fields that fail, or 0 for the check after them.      *)
Wrong(c, item) ==
    LET invalid == {k \in DOMAIN Fields(c) : ~Valid(item, Fields(c)[k])}
    IN  IF invalid = {} /\ Undated(c, item) THEN {0} ELSE invalid

(* The entries of a payload, by collection and index.                      *)
Entries(payload) == UNION {{i} \X DOMAIN payload.facts[Order[i]] : i \in DOMAIN Order}
ItemAt(payload, e) == payload.facts[Order[e[1]]][e[2]]
Root == <<0, 0>>

(* AnalysisResult.model_validate: where its errors are, by entry and field.*)
Issues(payload) ==
    LET facts == UNION {{e} \X Wrong(Order[e[1]], ItemAt(payload, e)) : e \in Entries(payload)}
        fields == facts \union (IF payload.status = "missing" THEN {<<Root, 0>>} ELSE {})
    IN  IF fields = {} /\ payload.status = "complete" /\ ~payload.explained
        THEN {<<Root, 1>>}  \* require_explanation_for_usable_result
        ELSE fields

(* What model_validate makes of valid data, with uppercase_currency.       *)
Upper(currency) == [length |-> currency.length + (IF currency.grows THEN 1 ELSE 0),
                    grows |-> FALSE]
ModelItem(c, item) ==
    [item EXCEPT !.date = IF item.date = "null" THEN Null ELSE "date",
                 !.time = CASE @ = "null" -> Null
                            [] @ = "offset_free" -> "time"
                            [] OTHER -> "zoned_time",
                 !.value = IF c = "amounts" THEN "decimal" ELSE item.value,
                 !.currency = IF c = "amounts" THEN Upper(item.currency) ELSE item.currency]
Model(payload) == [payload EXCEPT !.facts = MapItems(@, ModelItem)]

(* model_dump(mode="json"): a Decimal becomes a text.                      *)
DumpItem(c, item) ==
    [item EXCEPT !.date = IF item.date = Null THEN "null" ELSE "day",
                 !.time = CASE @ = Null -> "null"
                            [] @ = "time" -> "offset_free"
                            [] OTHER -> "zoned",
                 !.value = IF c = "amounts" THEN "decimal_text" ELSE item.value]
Dump(model) == [model EXCEPT !.facts = MapItems(@, DumpItem)]
-----------------------------------------------------------------------------
Sum6(lengths, n) ==
    LET sum[k \in 0..6] == IF k = 0 THEN 0 ELSE sum[k - 1] + lengths[k]
    IN  sum[n]

(* Sensitivity variant: the separators are not counted.                    *)
CountedBare(lengths, n) == 3 + Sum6(lengths, n)

(* What the loop counts: "VE;", and each entry but the first with a        *)
(* semicolon.                                                              *)
Counted(lengths, n) ==
    3 + Sum6([k \in DOMAIN lengths |-> lengths[k] + (IF k > 1 THEN 1 ELSE 0)], n)

(* How many entries it has kept when it ends, or breaks at the first that  *)
(* is too long.                                                            *)
Kept(lengths) ==
    CHOOSE n \in 0..Len(lengths) :
        /\ \A m \in 1..n : Counted(lengths, m) <= MaxDiagnosticLength
        /\ n < Len(lengths) => Counted(lengths, n + 1) > MaxDiagnosticLength

(* The text that is then built of n entries: "VE", or "VE;" and the        *)
(* entries joined by n - 1 semicolons.                                     *)
Written(lengths, n) == IF n = 0 THEN 2 ELSE 3 + Sum6(lengths, n) + (n - 1)

(* _safe_validation_diagnostic.                                            *)
Diagnose(lengths) ==
    [entries |-> Kept(lengths), length |-> Bound(Written(lengths, Kept(lengths)))]
-----------------------------------------------------------------------------
Parses == output.form = "object" /\ ~Refused(output.payload)
Found == IF Parses THEN Issues(Normal(output.payload)) ELSE {}

(* errors()[:6]; an answer that is not validated has none.                 *)
Reported == IF Parses THEN Min({6, Cardinality(Found)}) ELSE 0

(* _parse_transport_result inside execute.                                 *)
Parse ==
    /\ stage = "answered"
    /\ IF Parses /\ Found = {}
       THEN /\ stage' = "parsed"
            /\ result' = Model(Normal(output.payload))
            /\ UNCHANGED <<entries, diagnostic>>
       ELSE /\ stage' = "rejected"
            /\ entries' \in [1..Reported -> EntryLengths]
            /\ diagnostic' = Diagnose(entries')
            /\ UNCHANGED result
    /\ UNCHANGED <<output, row, expired, told>>

(* The part of _finish that stores a result.                               *)
Store ==
    /\ stage = "parsed"
    /\ stage' = "stored"
    /\ row' = [payload |-> Dump(result), schema_version |-> result.schema_version]
    /\ UNCHANGED <<output, result, entries, diagnostic, expired, told>>

(* The part of _finish that records a failure.                             *)
Fail ==
    /\ stage = "rejected"
    /\ stage' = "failed"
    /\ diagnostic' = [diagnostic EXCEPT !.length = Bound(@)]
    /\ UNCHANGED <<output, result, entries, row, expired, told>>

Expire ==
    /\ stage = "stored" /\ ~expired
    /\ expired' = TRUE
    /\ UNCHANGED <<output, stage, result, entries, diagnostic, row, told>>

(* Sensitivity variant: what is stored is passed on as it is.              *)
DeliveryUnchecked ==
    IF expired THEN [kind |-> "expired", result |-> Null]
    ELSE [kind |-> "delivered", result |-> Model(row.payload)]

(* OperationStatusQuery.get of the succeeded operation; the repository's   *)
(* get decides alike, and raises or returns None instead.                  *)
Delivery ==
    IF expired THEN [kind |-> "expired", result |-> Null]
    ELSE IF Issues(row.payload) # {} \/ row.schema_version # row.payload.schema_version
    THEN [kind |-> "unavailable", result |-> Null]
    ELSE [kind |-> "delivered", result |-> Model(row.payload)]

Read ==
    /\ stage = "stored"
    /\ told' = Delivery
    /\ UNCHANGED <<output, stage, result, entries, diagnostic, row, expired>>

Next == Parse \/ Store \/ Fail \/ Expire \/ Read

Spec == Init /\ [][Next]_vars
-----------------------------------------------------------------------------
(* What the documentation (docs/AI_ARCHITECTURE.md:24-28) and the          *)
(* descriptions in the transport schema ask of an answer, if the forms in  *)
(* lax are let pass beside those they name.                                *)
AsDocumented(c, item, lax) ==
    /\ item.date \in {"null", "day"} \union Midnights \union lax
    /\ c # "document_date" => item.named
    /\ c \in {"document_date", "deadlines"} => item.date # "null" \/ item.source = "text"
    /\ c = "appointments" => item.time \in {"null", "offset_free"} \union lax
    /\ c = "amounts" => /\ item.value \in {"number"} \union lax
                        /\ item.currency.length = 3
                        /\ item.directed
Documented(payload, lax) ==
    /\ payload.status # "missing"
    /\ payload.status = "complete" => payload.explained
    /\ \A c \in Collections : \A n \in DOMAIN payload.facts[c] :
          AsDocumented(c, payload.facts[c][n], lax)

LaxForms == {"offset_midnight", "midnight_number", "zoned_unread", "decimal_text"}

(* No answer that is as documented is rejected, and an answer that is not  *)
(* is rejected (docs/AI_ARCHITECTURE.md:24-28, _normalize_date) unless it  *)
(* departs from the documentation in four forms only, which the contract   *)
(* reads and the code before it leaves alone: midnight with an offset, or  *)
(* as a number, for a date; a timezone that time.fromisoformat does not    *)
(* read; an amount as a text.  In particular no datetime of another hour   *)
(* loses its time.                                                         *)
AcceptedIsDocumentedOrLax ==
    stage # "answered" =>
       LET accepted == stage \in {"parsed", "stored"} IN
       /\ output.form = "object" /\ Documented(output.payload, {}) => accepted
       /\ accepted <=> output.form = "object" /\ Documented(output.payload, LaxForms)

(* A diagnostic fits its column and ends with a whole entry: what the loop *)
(* counts is what the join writes, so that neither the bound of the        *)
(* executor's nor the worker's cuts a text (_safe_validation_diagnostic,   *)
(* docs/AI_ARCHITECTURE.md:34); and the entry that the loop stopped at     *)
(* would not have fitted.                                                  *)
DiagnosticWhole ==
    stage \in {"rejected", "failed"} =>
       /\ diagnostic.length = Written(entries, diagnostic.entries)
       /\ diagnostic.length <= MaxDiagnosticLength
       /\ diagnostic.entries < Len(entries) =>
             Written(entries, diagnostic.entries + 1) > MaxDiagnosticLength

(* What a reader is delivered is what the model answered: of the document  *)
(* that was sent, every entry of every collection, a date where a date was *)
(* and none where none was; and no other result is stored but one whose    *)
(* currency grew in upper case, which is never delivered.                  *)
DeliveredIsAnswered ==
    /\ told.kind = "delivered" =>
          /\ told.result.client_document_id = Document
          /\ told.result.schema_version = Version
          /\ told.result = result
          /\ \A c \in Collections :
                LET sent == output.payload.facts[c]
                    read == told.result.facts[c]
                IN  /\ DOMAIN read = DOMAIN sent
                    /\ \A n \in DOMAIN sent :
                          /\ (read[n].date = Null) = (sent[n].date = "null")
                          /\ (read[n].time = Null) = (sent[n].time = "null")
                          /\ read[n].currency.length = sent[n].currency.length
    /\ told.kind = "unavailable" =>
          \E n \in DOMAIN output.payload.facts["amounts"] :
             output.payload.facts["amounts"][n].currency.grows
=============================================================================
