CONSTANTS
  Paths = {"console"}
  Texts <- MCTexts
  Returns = {0}
  BufSize = 2
  Chars = {10, 65}
  MaxText = 2
SPECIFICATION Spec
INVARIANT ConsoleOutputWhole
