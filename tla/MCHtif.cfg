CONSTANTS
  Paths = {"console", "proxy"}
  Texts <- MCTexts
  Returns = {0, 2}
  BufSize = 2
  Chars = {10, 65}
  MaxText = 5
SPECIFICATION FairSpec
INVARIANTS
  TypeOK
  OneAnswerPerWrite
  ProxyOutputWhole
  UntornConsoleWhole
PROPERTIES
  NoCommandOverwritten
  BufferHeldForHost
  Ends
