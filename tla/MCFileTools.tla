----------------------------- MODULE MCFileTools -----------------------------
(***************************************************************************)
(* Short texts.  A page has at most two lines and three bytes; "e" stands  *)
(* for a character of two bytes, "q" for a typographic quote.              *)
(***************************************************************************)
EXTENDS FileTools

MCWidth == [c \in {"a", "b", " ", "LF", "CR", "BOM", "'"} |-> 1] @@ [c \in {"e", "q"} |-> 2]
MCPlain == [c \in DOMAIN MCWidth |-> IF c = "q" THEN "'" ELSE c]

ReadTexts == BoundedSeq({"a", "e", "LF"}, 5)

\* Every short Unix text; texts with blanks and quotes; with CR LF, mixed endings, and the mark.
Unixes == BoundedSeq({"a", "b", "LF"}, 4)
Fuzzies == BoundedSeq({"a", " ", "q", "LF"}, 3)
Windows == {<<"a", "CR", "LF", "b">>, <<"BOM", "a", "CR", "LF">>, <<"CR", "a", "CR", "LF", "b">>,
            <<"a", "LF", "b", "CR", "LF">>, <<"BOM", "a", "b">>}

MCTexts == [read |-> ReadTexts, bash |-> ReadTexts, edit |-> Unixes \cup Fuzzies \cup Windows,
            diff |-> {<<>>}]

Change(old, new) == [oldText |-> old, newText |-> new]

Edits ==
  {Change(old, new) : old \in {<<>>, <<"a">>, <<"b">>, <<"LF">>, <<"a", "a">>, <<"a", "LF">>, <<" ">>,
                               <<"'">>, <<"CR", "LF", "b">>},
                      new \in {<<>>, <<"b">>, <<"a", "CR", "LF">>}}

MCEditInputs ==
  {[edits |-> <<>>, own |-> None]}
  \cup {[edits |-> <<e>>, own |-> None] : e \in Edits}
  \cup {[edits |-> <<e>>, own |-> f] : e, f \in Edits}

\* Up to four parts; a run of unchanged lines has a change on either side.
Part == [kind : {"added", "removed", "same"}, lines : 1 .. 3]
MCDiffs ==
  {parts \in BoundedSeq(Part, 4) :
     \A i \in 2 .. Len(parts) : parts[i].kind # parts[i - 1].kind
                                /\ (parts[i].kind = "removed" => parts[i - 1].kind = "same")}
=============================================================================
