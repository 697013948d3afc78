\* One transcript: growth, half lines, crashes, unusable state, deletion, another file.
CONSTANTS
  Answers <- LateAnswer
  m1 = m1
  m2 = m2
  Closers = {"user"}
  PlaceholderMax = 1
  ClosedWindow = 1
  HeadBytes = 3
  NoCursor = NoCursor
  MaxLines <- TwoFiles
  MaxFaults = 1
SPECIFICATION Spec
INVARIANTS TypeOK NothingSkipped
PROPERTY EverythingIsSent
