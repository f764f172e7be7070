------------------------------ MODULE Truncation ------------------------------
(***************************************************************************)
(* How the tools cut long texts: truncateHead keeps the first lines (read),*)
(* truncateTail the last ones (bash), each within a number of lines and a  *)
(* number of bytes.                                                        *)
(*                                                                         *)
(* A text is a sequence of characters; Width gives a character's length in *)
(* UTF-8.  A line is a text without LF, and a text of n LFs has n+1 lines. *)
(***************************************************************************)
EXTENDS Integers, SequencesExt

CONSTANTS
  LF,         \* the newline character
  Width,      \* characters to bytes in UTF-8
  MaxLines,   \* DEFAULT_MAX_LINES
  MaxBytes    \* DEFAULT_MAX_BYTES

ASSUME LimitsAssumption == MaxLines \in Nat \ {0} /\ MaxBytes \in Nat \ {0}
ASSUME WidthAssumption == /\ LF \in DOMAIN Width /\ Width[LF] = 1
                          /\ \A c \in DOMAIN Width : Width[c] \in Nat \ {0}

Split(text) ==
  FoldLeft(LAMBDA lines, c : IF c = LF THEN Append(lines, <<>>)
                                       ELSE [lines EXCEPT ![Len(lines)] = Append(@, c)],
           << <<>> >>, text)

Join(lines) ==
  FoldLeft(LAMBDA text, line : text \o <<LF>> \o line, Head(lines), Tail(lines))

ByteLength(text) == FoldLeft(LAMBDA n, c : n + Width[c], 0, text)

Whole(text) ==
  [content |-> text, truncated |-> FALSE, by |-> "none", totalLines |-> Len(Split(text)),
   lines |-> Len(Split(text)), partial |-> FALSE, firstTooLong |-> FALSE]

NothingTaken == [out |-> <<>>, bytes |-> 0, over |-> FALSE]

\* One more line for the output, unless the loop is over: the lines or the bytes would be too many.
Take(taken, line) ==
  LET bytes == ByteLength(line) + IF taken.out = <<>> THEN 0 ELSE 1
  IN  IF taken.over \/ Len(taken.out) >= MaxLines THEN taken
      ELSE IF taken.bytes + bytes > MaxBytes THEN [taken EXCEPT !.over = TRUE]
      ELSE [taken EXCEPT !.out = Append(@, line), !.bytes = @ + bytes]

Fits(text) == Len(Split(text)) <= MaxLines /\ ByteLength(text) <= MaxBytes

\* Which limit is named: the lines if there are as many as may be.
LimitHit(taken) == IF taken.over /\ Len(taken.out) < MaxLines THEN "bytes" ELSE "lines"

TruncateHead(text) ==
  LET lines == Split(text)
      taken == FoldLeft(Take, NothingTaken, lines)
  IN  IF Fits(text) THEN Whole(text)
      ELSE IF ByteLength(lines[1]) > MaxBytes
      THEN [content |-> <<>>, truncated |-> TRUE, by |-> "bytes", totalLines |-> Len(lines),
            lines |-> 0, partial |-> FALSE, firstTooLong |-> TRUE]
      ELSE [content |-> Join(taken.out), truncated |-> TRUE, by |-> LimitHit(taken),
            totalLines |-> Len(lines), lines |-> Len(taken.out), partial |-> FALSE,
            firstTooLong |-> FALSE]

\* The bytes of a text: each is the place of a character and a place in it, 1 for its first byte.
Buffer(text) == FlattenSeq([n \in DOMAIN text |-> [b \in 1 .. Width[text[n]] |-> <<n, b>>]])

\* Mutant: the byte at which the cut is made is skipped as well.
CharacterStartMutant(buf, n) == Min({k \in n + 1 .. Len(buf) : buf[k][2] = 1} \cup {Len(buf) + 1})

\* From byte n on, the first that begins a character.
CharacterStart(buf, n) == Min({k \in n .. Len(buf) : buf[k][2] = 1} \cup {Len(buf) + 1})

\* The last bytes, as far as they are whole characters.
TruncateStringToBytesFromEnd(text) ==
  LET buf == Buffer(text)
      start == CharacterStart(buf, Len(buf) - MaxBytes + 1)
  IN  IF Len(buf) <= MaxBytes THEN text
      ELSE IF start > Len(buf) THEN <<>>
      ELSE SubSeq(text, buf[start][1], Len(text))

TruncateTail(text) ==
  LET lines == Split(text)
      taken == FoldLeft(Take, NothingTaken, Reverse(lines))
      \* not even the last line fits
      cut == taken.over /\ taken.out = <<>>
      out == IF cut THEN <<TruncateStringToBytesFromEnd(Last(lines))>> ELSE Reverse(taken.out)
  IN  IF Fits(text) THEN Whole(text)
      ELSE [content |-> Join(out), truncated |-> TRUE, by |-> LimitHit([taken EXCEPT !.out = out]),
            totalLines |-> Len(lines), lines |-> Len(out), partial |-> cut, firstTooLong |-> FALSE]
=============================================================================
