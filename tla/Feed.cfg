SPECIFICATION FairSpec
CONSTANTS
  MaxLines = 4
  MaxEntries = 7
  MaxCopies = 2
  Window = 3
  Opening = 2
  Backlog = 2
  FirstNumber = 5
INVARIANT FeedTypeOK
INVARIANT WindowIsContiguous
INVARIANT NumbersMeetTheCounter
PROPERTY EveryBlockComesRound
