------------------------------ MODULE FileTools ------------------------------
(***************************************************************************)
(* The tools as the agent uses them on one text: it reads a file, page by  *)
(* page along the offsets the pages name, edits it, or runs a command that *)
(* prints it.  FileMutationQueue has the calls side by side; here is what  *)
(* one call does to the text.                                              *)
(***************************************************************************)
EXTENDS Truncation

CONSTANTS
  CR, BOM, Blanks, Plain, ContextLines,   \* see EditDiff
  Texts,      \* for each tool the texts it is called on
  Limits,     \* the numbers of lines asked for, 0 for none
  EditInputs, \* arguments of the edit tool
  Diffs,      \* what the diff package makes of a change
  None        \* no call yet

INSTANCE EditDiff

\* The characters with a meaning are different ones, and no other becomes a CR when it is made plain.
ASSUME CharsAssumption ==
  /\ {CR, BOM} \subseteq DOMAIN Width /\ CR # LF /\ BOM \notin {CR, LF}
  /\ Plain \in [DOMAIN Width -> DOMAIN Width]
  /\ \A c \in DOMAIN Width : Plain[c] = CR => c = CR

Changes == [oldText : Seq(DOMAIN Width), newText : Seq(DOMAIN Width)]
Outcomes ==
  [ok : {FALSE}, error : {"no edits", "empty oldText", "not found", "duplicate", "overlap", "no change"}]
  \cup [ok : {TRUE}, content : Seq(DOMAIN Width)]

ASSUME CallsAssumption ==
  /\ \A t \in DOMAIN Texts : Texts[t] \subseteq Seq(DOMAIN Width)
  /\ Limits \subseteq Nat
  \* a call is a record
  /\ None \notin [error : {"none"}, offset : Nat, limit : Nat,
                page : [status : {"more", "end", "too long", "beyond"},
                        lines : Seq(Seq(DOMAIN Width)), next : Nat]]
  /\ None \notin [error : {"aborted", "unreadable"}]
  /\ EditInputs \subseteq [edits : Seq(Changes), own : Changes \cup {None}]
  /\ None \notin [edits : Seq(Changes), outcome : Outcomes]

\* The diff package joins unchanged lines that follow one another.
DiffParts ==
  {parts \in Seq([kind : {"added", "removed", "same"}, lines : Nat \ {0}]) :
     \A i \in 2 .. Len(parts) : IsChange(parts[i - 1]) \/ IsChange(parts[i])}

ASSUME DiffsAssumption == ContextLines \in Nat /\ Diffs \subseteq DiffParts

VARIABLES
  tool,   \* the tool that is used
  text,   \* the file, or what the command prints
  call,   \* the arguments and the outcome of the call, or None
  before, \* the file before the call
  seen,   \* the lines that the pages read so far have shown
  first,  \* the first line asked for
  next    \* the offset to read on from: 0 before the first page and after the last

vars == <<tool, text, call, before, seen, first, next>>

Init ==
  /\ tool \in DOMAIN Texts
  /\ text \in Texts[tool]
  /\ call = None /\ before = text
  /\ seen = <<>> /\ first = 1 /\ next = 0
-----------------------------------------------------------------------------
(* read *)

\* The lines from start + 1 on, at most limit of them if it is not 0.
Selected(lines, start, limit) ==
  SubSeq(lines, start + 1, IF limit = 0 THEN Len(lines) ELSE Min({start + limit, Len(lines)}))

\* Mutant: the last line shown is named.
NextOffsetMutant(start, shown) == start + shown

\* The offset, from 1, of the line after those shown.
NextOffset(start, shown) == start + shown + 1

\* One page: what is shown and the offset that it tells the agent to read on from, 0 if it does not.
Page(offset, limit) ==
  LET lines == Split(text)
      start == Max({0, offset - 1})
      selected == Selected(lines, start, limit)
      cut == TruncateHead(Join(selected))
  IN  IF start >= Len(lines) THEN [status |-> "beyond", lines |-> <<>>, next |-> 0]
      ELSE IF cut.firstTooLong THEN [status |-> "too long", lines |-> <<>>, next |-> 0]
      ELSE IF cut.truncated
      THEN [status |-> "more", lines |-> Split(cut.content), next |-> NextOffset(start, cut.lines)]
      ELSE IF limit # 0 /\ start + Len(selected) < Len(lines)
      THEN [status |-> "more", lines |-> selected, next |-> NextOffset(start, Len(selected))]
      ELSE [status |-> "end", lines |-> selected, next |-> 0]

Show(offset, limit) ==
  LET page == Page(offset, limit)
  IN  /\ call' = [error |-> "none", offset |-> offset, limit |-> limit, page |-> page]
      /\ seen' = seen \o page.lines
      /\ next' = page.next
      /\ UNCHANGED <<tool, text, before>>

\* The first page, from any line: offset 0 stands for no offset.
Read(offset, limit) ==
  /\ tool = "read" /\ call = None
  /\ Show(offset, limit)
  /\ first' = Max({1, offset})

\* The agent goes on where the last page told it to.
ReadOn(limit) ==
  /\ tool = "read" /\ next # 0
  /\ Show(next, limit)
  /\ UNCHANGED first

\* The signal was aborted, before the file was read or while it was, or the file cannot be read; the
\* agent may ask for the same page again.
ReadFails(error) ==
  /\ tool = "read"
  /\ call' = [error |-> error]
  /\ UNCHANGED <<tool, text, before, seen, first, next>>
-----------------------------------------------------------------------------
(* edit *)

\* Arguments with oldText and newText of their own count as one more edit.
PrepareEditArguments(input) == IF input.own = None THEN input.edits ELSE Append(input.edits, input.own)

\* Mutant: the line endings stay as the edits were applied.
RestoredMutant(file, new) == file.bom \o new

\* The edited text with what was set aside.
Restored(file, new) == file.bom \o RestoreLineEndings(new, DetectLineEnding(file.text))

\* The outcome of a call is the content to write, or an error.
Outcome(file, applied) ==
  IF applied.ok THEN [ok |-> TRUE, content |-> Restored(file, applied.new)] ELSE applied

\* What a call makes of a file.
EditedFile(content, edits) ==
  LET file == StripBom(content)
  IN  IF edits = <<>> THEN Failure("no edits")
      ELSE Outcome(file, ApplyEditsToNormalizedContent(NormalizeToLF(file.text), edits))

Edit(input) ==
  /\ tool = "edit" /\ call = None
  /\ LET edits == PrepareEditArguments(input)
         outcome == EditedFile(text, edits)
     IN  /\ call' = [edits |-> edits, outcome |-> outcome]
         /\ text' = IF outcome.ok THEN outcome.content ELSE text
  /\ UNCHANGED <<tool, before, seen, first, next>>

\* The rows of an edit's result, of a diff that the package may have found.
TellChange(parts) ==
  /\ tool = "diff" /\ call = None
  /\ call' = [parts |-> parts, diff |-> DiffRows(parts)]
  /\ UNCHANGED <<tool, text, before, seen, first, next>>
-----------------------------------------------------------------------------
(* bash *)

\* The command ends with its output, an error if its exit code is not 0, or exec rejects: an abort is
\* blamed before the timer.  A reply that comes in spite of an abort is taken.
Bash(reply, aborted, timedOut) ==
  /\ tool = "bash" /\ call = None
  /\ LET cut == TruncateTail(text)
     IN  call' = IF reply = "rejected"
                 THEN [error |-> CASE aborted -> "aborted"
                                   [] timedOut /\ ~aborted -> "timed out"
                                   [] OTHER -> "rejected"]
                 ELSE [error |-> IF reply = "failed" THEN "exit code" ELSE "none",
                       shown |-> cut.content,
                       noOutput |-> cut.content = <<>>,
                       partial |-> cut.partial,
                       from |-> cut.totalLines - cut.lines + 1,
                       to |-> cut.totalLines]
  /\ UNCHANGED <<tool, text, before, seen, first, next>>

Next ==
  \/ \E limit \in Limits : \/ \E offset \in 0 .. Len(Split(text)) + 1 : Read(offset, limit)
                           \/ ReadOn(limit)
  \/ \E error \in {"aborted", "unreadable"} : ReadFails(error)
  \/ \E input \in EditInputs : Edit(input)
  \/ \E parts \in Diffs : TellChange(parts)
  \/ \E reply \in {"done", "failed", "rejected"}, aborted, timedOut \in BOOLEAN :
       Bash(reply, aborted, timedOut)

Spec == Init /\ [][Next]_vars
-----------------------------------------------------------------------------
(***************************************************************************)
(* Properties                                                              *)
(***************************************************************************)

Done(t) == tool = t /\ call # None

\* Reading on where each page says to shows the file from the first line asked for, without a line
\* twice or left out, to its end or to a line that is too long for any page, whatever calls failed
\* meanwhile; and each page has as many of the lines asked for as the limits let through.
PagesExact ==
  Done("read") /\ call.error = "none" =>
    LET lines == Split(text)
        reached == first + Len(seen)
        asked == Selected(lines, Max({0, call.offset - 1}), call.limit)
        shown == Len(call.page.lines)
    IN  /\ seen = SubSeq(lines, first, reached - 1)
        /\ CASE call.page.status = "more" -> next = reached
             [] call.page.status = "end" -> reached = Len(lines) + 1
             [] call.page.status = "too long" -> ByteLength(lines[reached]) > MaxBytes
             [] call.page.status = "beyond" -> first > Len(lines)
        /\ shown # 0 => shown = Max({n \in DOMAIN asked : Fits(Join(SubSeq(asked, 1, n)))})

\* Of a command's output the last lines are shown, as many as the limits let through, under their
\* right numbers; of a last line that alone is too long the longest end of whole characters.
TailMaximal ==
  Done("bash") /\ call.error \in {"none", "exit code"} =>
    LET lines == Split(text)
        lastLines(n) == Join(SubSeq(lines, Len(lines) - n + 1, Len(lines)))
        n == call.to - call.from + 1
        line == Last(lines)
    IN  /\ call.to = Len(lines)
        /\ IF call.partial
           THEN /\ ~Fits(line) /\ n = 1
                /\ call.shown = CHOOSE t \in Suffixes(line) : /\ Fits(t)
                                                              /\ \A u \in Suffixes(line) :
                                                                   Fits(u) => Len(u) <= Len(t)
           ELSE /\ call.shown = lastLines(n) /\ Fits(call.shown)
                /\ n = Len(lines) \/ ~Fits(lastLines(n + 1))

\* The byte-order mark that the file had, and what the file is after it.
Mark == StripBom(before).bom
Rest == SubSeq(text, Len(Mark) + 1, Len(text))

Original == NormalizeToLF(StripBom(before).text)

OldText(n) == NormalizeToLF(call.edits[n].oldText)

Edited == Done("edit") /\ call.outcome.ok

\* Every old text of the call is in the file as it is.
Exact == \A n \in DOMAIN call.edits : Occurrences(Original, OldText(n)) # {}

\* The text with each old text at its place at[n] replaced, all of them at once.
ReplacedAt(content, at) ==
  LET starts(i) == {n \in DOMAIN at : at[n] = i - 1}
      covered(i) == \E n \in DOMAIN at : i - 1 \in at[n] .. at[n] + Len(OldText(n)) - 1
      inserted(i) == IF starts(i) = {} THEN <<>>
                     ELSE NormalizeToLF(call.edits[CHOOSE n \in starts(i) : TRUE].newText)
  IN  FlattenSeq([i \in 1 .. Len(content) + 1 |->
        inserted(i) \o IF i <= Len(content) /\ ~covered(i) THEN <<content[i]>> ELSE <<>>])

\* "Each edit is matched against the original file, not incrementally": a call whose old texts are
\* all in the file replaces each at one of its places, no two of which overlap, and changes no other
\* line, whatever the new texts look like.
EditsSimultaneous ==
  Edited /\ Exact =>
    \E at \in [DOMAIN call.edits -> 0 .. Len(before)] :
      /\ \A n \in DOMAIN at : at[n] \in Occurrences(Original, OldText(n))
      /\ \A n, m \in DOMAIN at : n # m => \/ at[n] + Len(OldText(n)) <= at[m]
                                          \/ at[m] + Len(OldText(m)) <= at[n]
      /\ NormalizeToLF(Rest) = ReplacedAt(Original, at)

Blank(n) == NormalizeForFuzzyMatch(OldText(n)) = <<>>

\* "The text must be unique": no edit is made whose old text is at two places that do not overlap,
\* unless it is only blanks.
AmbiguousRefused ==
  Edited =>
    \A n \in DOMAIN call.edits :
      ~Blank(n) => \A i, j \in Occurrences(Original, OldText(n)) :
                     i < j => j < i + Len(OldText(n))

\* Every line of the content ends the same way.
Uniform(content) ==
  LET ending == DetectLineEnding(content)
  IN  RestoreLineEndings(NormalizeToLF(content), ending) = content

\* The byte-order mark stays, and every line ends as the first one did.
LineEndingsKept ==
  Edited =>
    /\ SubSeq(text, 1, Len(Mark)) = Mark
    /\ Uniform(Rest)
    /\ LF \in Range(Rest) => DetectLineEnding(Rest) = DetectLineEnding(StripBom(before).text)

\* The order in which the edits of a call are listed does not matter, unless an old text is only
\* blanks, which the normal form makes empty.
EditOrderIrrelevant ==
  Done("edit") /\ (\A n \in DOMAIN call.edits : ~Blank(n)) =>
    LET other == EditedFile(before, Reverse(call.edits))
    IN  /\ other.ok = call.outcome.ok
        /\ other.ok => other.content = call.outcome.content

\* The lines of the old or the new file that parts stand for.
LinesOf(parts, hidden) ==
  FlattenSeq([i \in DOMAIN parts |-> IF parts[i].kind = hidden THEN <<>>
                                     ELSE [n \in 1 .. parts[i].lines |-> <<i, n>>]])

\* A change is at most ContextLines away from the k-th line.
Near(parts, k) ==
  LET all == LinesOf(parts, "none")
  IN  \E m \in DOMAIN all : IsChange(parts[all[m][1]]) /\ m - k \in -ContextLines .. ContextLines

IsGap(rows, n) == n \in DOMAIN rows /\ rows[n].mark = "..."

\* Where the line of a row is; before the first row and after the last the ends of the files are.
Place(parts, rows, n) ==
  LET all == LinesOf(parts, "none")
  IN  CASE n = 0 -> 0
        [] n > Len(rows) -> Len(all) + 1
        [] OTHER -> CHOOSE k \in DOMAIN all : all[k] = rows[n].line

\* A line has its number in the file it is of; around a gap are lines, and others between them.
RowRight(parts, rows, n) ==
  LET r == rows[n]
  IN  \/ r.mark = "+" /\ LinesOf(parts, "removed")[r.number] = r.line
      \/ r.mark \in {"-", " "} /\ LinesOf(parts, "added")[r.number] = r.line
      \/ /\ r.mark = "..." /\ ~IsGap(rows, n - 1) /\ ~IsGap(rows, n + 1)
         /\ Place(parts, rows, n + 1) > Place(parts, rows, n - 1) + 1

\* The rows number the lines as the files do; a gap stands where lines are left out, nowhere else,
\* and the rows go on from line to line otherwise; they show every changed line and the unchanged ones
\* at most ContextLines away from a change.
RowsTrue ==
  Done("diff") =>
    LET parts == call.parts
        rows == call.diff.rows
        all == LinesOf(parts, "none")
    IN  /\ \A n \in DOMAIN rows : RowRight(parts, rows, n)
        /\ rows # <<>> => \A n \in 0 .. Len(rows) :
                            \/ IsGap(rows, n) \/ IsGap(rows, n + 1)
                            \/ Place(parts, rows, n + 1) = Place(parts, rows, n) + 1
        /\ {rows[n].line : n \in {m \in DOMAIN rows : ~IsGap(rows, m)}}
             = {all[k] : k \in {m \in DOMAIN all : Near(parts, m)}}
=============================================================================
