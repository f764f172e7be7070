------------------------------- MODULE EditDiff -------------------------------
(***************************************************************************)
(* How the edit tool applies its edits to a file: line endings and the     *)
(* byte-order mark are set aside, every old text is found, exactly or in a *)
(* normal form, must be unique, and is replaced; the outcome is told in    *)
(* numbered rows.                                                          *)
(*                                                                         *)
(* Every character has one plain character as its normal form; those that  *)
(* NFKC makes several of are left out.                                     *)
(***************************************************************************)
EXTENDS Integers, SequencesExt

CONSTANTS
  LF, CR, BOM,   \* characters with a meaning
  Blanks,        \* the characters trimEnd removes
  Plain,         \* characters to their plain form: quotes, dashes, spaces
  ContextLines   \* unchanged rows shown around a change

\* The places at which `part' begins in `text', from 0.
Occurrences(text, part) ==
  {i \in 0 .. Len(text) - Len(part) : SubSeq(text, i + 1, i + Len(part)) = part}

\* indexOf
IndexOf(text, part) == IF Occurrences(text, part) = {} THEN -1 ELSE Min(Occurrences(text, part))

DetectLineEnding(content) ==
  LET lf == IndexOf(content, <<LF>>)
      crlf == IndexOf(content, <<CR, LF>>)
  IN  IF lf # -1 /\ crlf # -1 /\ crlf < lf THEN <<CR, LF>> ELSE <<LF>>

\* Every CR LF is one LF, and so is every other CR.
NormalizeToLF(text) ==
  LET unix == FoldLeft(LAMBDA t, c : IF c = LF /\ t # <<>> /\ Last(t) = CR THEN Append(Front(t), LF)
                                                                         ELSE Append(t, c),
                       <<>>, text)
  IN  [n \in DOMAIN unix |-> IF unix[n] = CR THEN LF ELSE unix[n]]

RestoreLineEndings(text, ending) ==
  FlattenSeq([n \in DOMAIN text |-> IF text[n] = LF THEN ending ELSE <<text[n]>>])

\* Blanks at the end of a line go, the rest becomes plain.
NormalizeForFuzzyMatch(text) ==
  LET ends(n) == \E m \in n .. Len(text) + 1 : /\ m > Len(text) \/ text[m] = LF
                                               /\ \A k \in n .. m - 1 : text[k] \in Blanks
  IN  FlattenSeq([n \in DOMAIN text |-> IF text[n] \in Blanks /\ ends(n) THEN <<>>
                                                                        ELSE <<Plain[text[n]]>>])

FuzzyFindText(content, oldText) ==
  LET fuzzyOld == NormalizeForFuzzyMatch(oldText)
      exact == IndexOf(content, oldText)
      fuzzy == IndexOf(NormalizeForFuzzyMatch(content), fuzzyOld)
  IN  IF exact # -1 THEN [index |-> exact, length |-> Len(oldText), fuzzy |-> FALSE]
      ELSE IF fuzzy # -1 THEN [index |-> fuzzy, length |-> Len(fuzzyOld), fuzzy |-> TRUE]
      ELSE [index |-> -1, length |-> 0, fuzzy |-> FALSE]

StripBom(content) ==
  IF content # <<>> /\ Head(content) = BOM THEN [bom |-> <<BOM>>, text |-> Tail(content)]
                                           ELSE [bom |-> <<>>, text |-> content]

\* The parts `split' makes, less one: occurrences that overlap one already counted do not count, and
\* an empty part is found between any two characters.
CountOccurrences(content, oldText) ==
  LET text == NormalizeForFuzzyMatch(content)
      part == NormalizeForFuzzyMatch(oldText)
      from[i \in 0 .. Len(text)] ==
        LET later == {j \in Occurrences(text, part) : j >= i}
        IN  IF later = {} THEN 0 ELSE 1 + from[Min(later) + Len(part)]
  IN  IF part = <<>> THEN Len(text) - 1 ELSE from[0]
-----------------------------------------------------------------------------
Failure(error) == [ok |-> FALSE, error |-> error]

Splice(text, m) ==
  SubSeq(text, 1, m.index) \o m.newText \o SubSeq(text, m.index + m.length + 1, Len(text))

\* Mutant: the replacements are made from the front, at places that the ones before have moved.
SpliceAllMutant(text, matches) == FoldLeft(Splice, text, matches)

\* From the end of the text, so that the places before a replacement stay where they are.
SpliceAll(text, matches) == FoldLeft(Splice, text, Reverse(matches))

\* Mutant: the matches stay in the order of the call.
SortedMutant(matches) == matches

\* The matches in the order of the file; of two at the same place the earlier edit is first.
Sorted(matches) ==
  LET before(a, b) == \/ matches[a].index < matches[b].index
                      \/ matches[a].index = matches[b].index /\ a < b
      order == CHOOSE p \in Bijection(DOMAIN matches, DOMAIN matches) :
                 \A n, m \in DOMAIN matches : n < m => before(p[n], p[m])
  IN  [n \in DOMAIN matches |-> matches[order[n]]]

\* The matches, in the order of the file, are replaced, unless two of them overlap or nothing changes.
ReplaceMatches(base, matches) ==
  LET result == SpliceAll(base, matches)
  IN  IF \E n \in 2 .. Len(matches) :
           matches[n - 1].index + matches[n - 1].length > matches[n].index
      THEN Failure("overlap")
      ELSE IF result = base THEN Failure("no change")
      ELSE [ok |-> TRUE, base |-> base, new |-> result]

\* Mutant: a text that is found more than once is replaced at its first place.
ReplaceInMutant(base, edits) ==
  LET found == [n \in DOMAIN edits |-> FuzzyFindText(base, edits[n].oldText)]
  IN  IF \E n \in DOMAIN edits : found[n].index = -1
      THEN Failure("not found")
      ELSE ReplaceMatches(base, Sorted([n \in DOMAIN edits |->
             [index |-> found[n].index, length |-> found[n].length, newText |-> edits[n].newText]]))

\* The first edit whose text is not in the text, or more than once, fails the call.
ReplaceIn(base, edits) ==
  LET found == [n \in DOMAIN edits |-> FuzzyFindText(base, edits[n].oldText)]
      wrong == {n \in DOMAIN edits :
                  found[n].index = -1 \/ CountOccurrences(base, edits[n].oldText) > 1}
  IN  IF wrong # {}
      THEN Failure(IF found[Min(wrong)].index = -1 THEN "not found" ELSE "duplicate")
      ELSE ReplaceMatches(base, Sorted([n \in DOMAIN edits |->
             [index |-> found[n].index, length |-> found[n].length, newText |-> edits[n].newText]]))

\* Once an edit has only a fuzzy match, all of them apply to the normal form of the file.
ApplyEditsToNormalizedContent(content, edits) ==
  LET unix == [n \in DOMAIN edits |-> [oldText |-> NormalizeToLF(edits[n].oldText),
                                      newText |-> NormalizeToLF(edits[n].newText)]]
      fuzzy == \E n \in DOMAIN unix : FuzzyFindText(content, unix[n].oldText).fuzzy
  IN  IF \E n \in DOMAIN unix : unix[n].oldText = <<>> THEN Failure("empty oldText")
      ELSE ReplaceIn(IF fuzzy THEN NormalizeForFuzzyMatch(content) ELSE content, unix)
-----------------------------------------------------------------------------
(***************************************************************************)
(* The rows that tell the change.  A part is a run of lines that the diff  *)
(* package found added, removed or the same; a line is named by its part   *)
(* and its place in it, and a row shows a line with a number, or a gap.    *)
(***************************************************************************)
IsChange(part) == part.kind # "same"

Rows(mark, i, from, to, number) ==
  [n \in 1 .. to - from + 1 |-> [mark |-> mark, number |-> number + from + n - 2,
                                 line |-> <<i, from + n - 1>>]]

Gap(skipped) == IF skipped > 0 THEN <<[mark |-> "...", number |-> 0, line |-> <<0, 0>>]>> ELSE <<>>

\* Mutant: the lines after a gap have the numbers of the first lines.
SameRowsMutant(i, n, number, leading, trailing) ==
  LET first == IF leading THEN Min({n, ContextLines}) ELSE 0
      last == IF trailing THEN Min({n - first, ContextLines}) ELSE 0
  IN  Rows(" ", i, 1, first, number) \o Gap(n - first - last)
      \o Rows(" ", i, n - last + 1, n, number - (n - first - last))

\* Of n unchanged lines those next to a change are shown, ContextLines of them.
SameRows(i, n, number, leading, trailing) ==
  LET all == leading /\ trailing /\ n <= 2 * ContextLines
      first == IF all THEN n ELSE IF leading THEN Min({n, ContextLines}) ELSE 0
      last == IF all THEN 0 ELSE IF trailing THEN Min({n, ContextLines}) ELSE 0
  IN  IF ~leading /\ ~trailing THEN <<>>
      ELSE Rows(" ", i, 1, first, number) \o Gap(n - first - last)
           \o Rows(" ", i, n - last + 1, n, number)

DiffRows(parts) ==
  LET add(d, i) ==
        LET n == parts[i].lines
            kind == parts[i].kind
            leading == i > 1 /\ IsChange(parts[i - 1])
            trailing == i < Len(parts) /\ IsChange(parts[i + 1])
        IN  [rows |-> d.rows \o CASE kind = "added" -> Rows("+", i, 1, n, d.new)
                                  [] kind = "removed" -> Rows("-", i, 1, n, d.old)
                                  [] OTHER -> SameRows(i, n, d.old, leading, trailing),
             old |-> d.old + IF kind = "added" THEN 0 ELSE n,
             new |-> d.new + IF kind = "removed" THEN 0 ELSE n,
             first |-> IF d.first = 0 /\ IsChange(parts[i]) THEN d.new ELSE d.first]
      done == FoldLeftDomain(add, [rows |-> <<>>, old |-> 1, new |-> 1, first |-> 0], parts)
  IN  [rows |-> done.rows, first |-> done.first]
=============================================================================
