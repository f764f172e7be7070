SPECIFICATION Spec
CONSTANTS
  None = None
  LF = "LF"
  CR = "CR"
  BOM = "BOM"
  Blanks = {" "}
  Width <- MCWidth
  Plain <- MCPlain
  MaxLines = 2
  MaxBytes = 3
  ContextLines = 1
  Texts <- MCTexts
  Limits = {0, 1, 3}
  EditInputs <- MCEditInputs
  Diffs <- MCDiffs
INVARIANT PagesExact TailMaximal EditsSimultaneous AmbiguousRefused LineEndingsKept EditOrderIrrelevant RowsTrue
\* A text is read to its end, or a call is made.
CHECK_DEADLOCK FALSE
