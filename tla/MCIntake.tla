------------------------------- MODULE MCIntake --------------------------------
(* Values for TLC: two pages in three arrangements, a PDF, and             *)
(* submissions that fail one check each.                                   *)
EXTENDS Intake

A == [content |-> "a", size |-> 1, media |-> "jpeg"]
B == [content |-> "b", size |-> 2, media |-> "png"]

Scan(files, indexes) ==
    [keyed |-> TRUE, declared |-> TRUE, body |-> 5, client_document_id |-> "doc",
     output_language |-> "de", output_style |-> "simple", input_kind |-> "images",
     strays |-> 0, files |-> files, page_indexes |-> indexes]
Pair == Scan(<<A, B>>, <<0, 1>>)
Paper == [Scan(<< [A EXCEPT !.media = "pdf"] >>, <<>>) EXCEPT !.input_kind = "pdf"]

MCAdmitted == {Pair, Scan(<<B, A>>, <<1, 0>>), Scan(<<A, B>>, <<1, 0>>), Paper}
MCRefused ==
    {Scan(<<A, B>>, indexes) : indexes \in {<<0, 2>>, <<0, 0>>, <<0>>, <<0, -1>>}}
    \union {Scan(<<A, file>>, <<0, 1>>) :
              file \in {[A EXCEPT !.size = 0], [A EXCEPT !.size = 4], [A EXCEPT !.media = "other"]}}
    \union {Scan(<<A, A, A>>, <<0, 1, 2>>), Scan(<<>>, <<>>), [Scan(<<>>, <<>>) EXCEPT !.strays = 1]}
    \union {[Pair EXCEPT !.input_kind = "pdf"], [Paper EXCEPT !.page_indexes = <<0>>],
            [Paper EXCEPT !.files = <<A>>], [Pair EXCEPT !.output_language = "ar"],
            [Pair EXCEPT !.keyed = FALSE]}
    \union {[Pair EXCEPT !.body = 6, !.declared = d] : d \in BOOLEAN}

MCUploads == MCAdmitted \union MCRefused
MCPrints == {Fingerprint(u) : u \in MCUploads}
=============================================================================
