SPECIFICATION Spec
CONSTANTS
  Ids = {0, 1, 2}
  NNames = 2
  Entries <- MCEntries
  Streams <- MCStreams
  Header = 4
  Strays <- MCStrays
  Unit = 2
INVARIANTS
  SeqTypeOK
  NotMissed
  FoundHadTheName
  Reassembled
PROPERTIES
  SearchEnds
CHECK_DEADLOCK FALSE
