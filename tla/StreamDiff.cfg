SPECIFICATION Spec
CONSTANTS
  Texts = {"", "p", "q", "}"}
  Blank = ""
  Indents = {0, 1}
  Long = {"p"}
  Strict = {"}"}
  Brackets = {"}"}
  Reach = 1
  Similar <- MCSimilar
  MaxLines = 3
INVARIANTS OldLinesKept NewLinesKept NoChangeForSameLines
CHECK_DEADLOCK FALSE
