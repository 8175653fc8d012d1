SPECIFICATION FairSpec
CONSTANTS
  NumWorkers = 2
  Counts <- LongAndShort
  Half = 1
  Modes = {"run", "read"}
  NoBuffer = NoBuffer
INVARIANTS
  Conserved
  OneReaderPerStream
  EndMeansAll
  RethrowsTheCause
PROPERTIES
  ConsumerEnds
