-------------------------------- MODULE Intake --------------------------------
(***************************************************************************)
(* POST /document-analyses (intake/api.py) before the service of module    *)
(* Submission: the checks of a multipart submission in the order they are  *)
(* made, the document made of it, and the fingerprint that stands for it.  *)
(* The answer to a refused submission is the code of its first failed      *)
(* check.                                                                  *)
(***************************************************************************)
EXTENDS Submission, SequencesExt, FiniteSetsExt

CONSTANTS
    Uploads,             \* submissions that clients send
    MaxFileBytes,
    MaxSubmissionBytes,  \* also MAX_CONTENT_LENGTH
    MaxImagePages,
    MaxRefused           \* bound: submissions that are refused

(* The headers, the text fields, the file parts, and page_indexes, where   *)
(* -1 is a text that is no number or a negative one.  A file is its        *)
(* content, which decides the size and the media type of its signature.    *)
Files == [content : {"blank", "a", "b"}, size : Nat, media : {"pdf", "jpeg", "png", "other"}]
UploadType ==
    [keyed : BOOLEAN, declared : BOOLEAN, body : Nat,
     client_document_id : {"doc", "other_doc", "invalid"},
     output_language : {"ar", "de", "invalid"}, output_style : {"standard", "simple", "invalid"},
     input_kind : {"pdf", "images", "invalid"},
     strays : Nat, files : Seq(Files), page_indexes : Seq(Int)]

(* How much of the files was read once the first n were.                   *)
Total(u, n) == MapThenSumSet(LAMBDA k : u.files[k].size, 1..n)

(* The files are parts of the body.                                        *)
ASSUME UploadAssumption ==
    /\ Uploads \subseteq UploadType /\ Null \notin Uploads
    /\ \A u \in Uploads : \A n \in DOMAIN u.files : Total(u, n) \in 0..u.body
ASSUME LimitAssumption == {MaxFileBytes, MaxSubmissionBytes, MaxImagePages} \subseteq Nat

VARIABLES
    sent,     \* what each request sent
    refusals  \* the code that a refused one was answered

intakeVars == <<vars, sent, refusals>>

(* SubmissionFields.                                                       *)
FieldsValid(u) ==
    /\ u.client_document_id # "invalid"
    /\ u.output_language # "invalid"
    /\ u.output_style = "standard" \/ (u.output_style = "simple" /\ u.output_language = "de")
    /\ u.input_kind # "invalid"

Pdf(u) == u.input_kind = "pdf"
Images(u) == u.input_kind = "images"
Pages(u) == 0..(Len(u.files) - 1)

(* Sensitivity variant: page indexes may be any that differ.               *)
Distinct(u) == IsInjective(u.page_indexes)

Contiguous(u) == Range(u.page_indexes) = Pages(u)

Check(fails, code) == [fails |-> fails, code |-> code]

SubmissionChecks(u) == <<
    Check(~u.keyed, "invalid_multipart"),
    Check(u.declared /\ u.body > MaxSubmissionBytes, "file_too_large"),
    Check(u.body > MaxSubmissionBytes, "http_error"),  \* Flask, when it reads the parts
    Check(u.files = <<>> /\ u.strays = 0, "invalid_multipart"),
    Check(~FieldsValid(u), "invalid_multipart"),
    Check(u.files = <<>>, "invalid_multipart"),
    Check(Pdf(u) /\ Len(u.files) # 1, "unsupported_input_kind"),
    Check(Images(u) /\ Len(u.files) > MaxImagePages, "too_many_pages"),
    Check(Images(u) /\ Len(u.page_indexes) # Len(u.files), "conflicting_page_order"),
    Check(Pdf(u) /\ u.page_indexes # <<>>, "conflicting_page_order"),
    Check(Images(u) /\ ~Contiguous(u), "conflicting_page_order")>>

FileChecks(u, n) ==
    LET file == u.files[n] IN <<
    Check(file.size = 0, "empty_file"),
    Check(file.size > MaxFileBytes, "file_too_large"),
    Check(Total(u, n) > MaxSubmissionBytes, "file_too_large"),
    Check(file.media \notin (IF Pdf(u) THEN {"pdf"} ELSE {"jpeg", "png"}), "unsupported_media")>>

Failed(checks) == {k \in DOMAIN checks : checks[k].fails}

(* submit_document_analysis and _validate_files pass the submission on.    *)
Admissible(u) ==
    /\ Failed(SubmissionChecks(u)) = {}
    /\ \A n \in DOMAIN u.files : Failed(FileChecks(u, n)) = {}

(* Of any other they raise the first failed check, file by file.           *)
Refusal(u) ==
    LET checks == IF Failed(SubmissionChecks(u)) # {} THEN SubmissionChecks(u)
                  ELSE FileChecks(u, Min({n \in DOMAIN u.files : Failed(FileChecks(u, n)) # {}}))
    IN  checks[Min(Failed(checks))].code

(* Sensitivity variant: a fingerprint of the files alone.                  *)
PrintOfFiles(u) ==
    [fields |-> <<u.client_document_id, u.input_kind, u.output_language, u.output_style>>,
     files |-> u.files, pages |-> <<>>]

(* _fingerprint: the files stand in the order of their parts.              *)
Fingerprint(u) ==
    [fields |-> <<u.client_document_id, u.input_kind, u.output_language, u.output_style>>,
     files |-> u.files, pages |-> u.page_indexes]

ASSUME PrintAssumption == \A u \in Uploads : Admissible(u) => Fingerprint(u) \in Prints
-----------------------------------------------------------------------------
IntakeInit ==
    /\ Init
    /\ sent = [r \in Requests |-> Null]
    /\ refusals = [r \in Requests |-> Null]

Refuse(r) ==
    /\ sent[r] = Null
    /\ Cardinality({s \in Requests : refusals[s] # Null}) < MaxRefused
    /\ \E u \in Uploads :
          /\ ~Admissible(u)
          /\ sent' = [sent EXCEPT ![r] = u]
          /\ refusals' = [refusals EXCEPT ![r] = Refusal(u)]
    /\ UNCHANGED vars

Admit(r) ==
    /\ sent[r] = Null
    /\ \E u \in Uploads, k \in Keys :
          /\ Admissible(u)
          /\ sent' = [sent EXCEPT ![r] = u]
          /\ Proceed(r, "new", "looking")
          /\ asked' = [asked EXCEPT ![r] = [key |-> k, print |-> Fingerprint(u)]]
    /\ UNCHANGED <<tables, directories, answers, faults, refusals>>

(* The service, the worker, the clock and the faults, once admitted.       *)
Serve ==
    /\ \/ \E r \in Requests :
             \/ LookupMisses(r) \/ Replay(r) \/ Conflict(r)
             \/ MakeDirectory(r) \/ WriteFiles(r) \/ StoreFails(r)
             \/ Commit(r) \/ Return(r) \/ CommitConflict(r)
             \/ Compensate(r) \/ CompensateFails(r)
             \/ Environment(r)
       \/ Tick
    /\ UNCHANGED <<sent, refusals>>

IntakeNext == (\E r \in Requests : Refuse(r) \/ Admit(r)) \/ Serve

IntakeSpec == IntakeInit /\ [][IntakeNext]_intakeVars
-----------------------------------------------------------------------------
(* What docs/API_CONTRACT.md asks of a submission (line 33).               *)
Valid(u) ==
    /\ u.keyed /\ u.body <= MaxSubmissionBytes
    /\ FieldsValid(u)
    /\ Images(u) =>
          /\ Len(u.files) \in 1..MaxImagePages
          /\ Len(u.page_indexes) = Len(u.files)
          /\ \A page \in Pages(u) : \E n \in DOMAIN u.page_indexes : u.page_indexes[n] = page
    /\ Pdf(u) => Len(u.files) = 1 /\ u.page_indexes = <<>>
    /\ \A n \in DOMAIN u.files :
          /\ u.files[n].size \in 1..MaxFileBytes
          /\ u.files[n].media \in (IF Pdf(u) THEN {"pdf"} ELSE {"jpeg", "png"})

(* The logical document: which file is which page of whose document.       *)
Document(u) ==
    [fields |-> <<u.client_document_id, u.input_kind, u.output_language, u.output_style>>,
     pages |-> IF Pdf(u) THEN {<<0, u.files[1]>>}
               ELSE {<<u.page_indexes[n], u.files[n]>> : n \in DOMAIN u.files}]

(* A submission reaches the service if and only if the contract allows it, *)
(* and then every page of it is one file, from zero on: no page is lost    *)
(* and none stands in the place of another when the executor sorts them.   *)
AdmittedIsValid ==
    \A r \in Requests : sent[r] # Null =>
       /\ asked[r] # Null <=> Valid(sent[r])
       /\ asked[r] # Null => {page[1] : page \in Document(sent[r]).pages} = Pages(sent[r])

(* A client is told of an operation on the very document it sent, and of a *)
(* conflict only if another request with the key sent another document, or *)
(* the same one with its parts in another order (_fingerprint keeps it).   *)
Parts(u) == <<u.files, u.page_indexes>>
AnswersFitDocuments ==
    \A r \in Requests : answers[r] # Null =>
       /\ answers[r].kind = "accepted" => Document(sent[answers[r].op]) = Document(sent[r])
       /\ answers[r].kind = "conflict" =>
             \E s \in Requests :
                /\ operations[s] # "absent" /\ asked[s].key = asked[r].key
                /\ Document(sent[s]) # Document(sent[r]) \/ Parts(sent[s]) # Parts(sent[r])
=============================================================================
