SPECIFICATION FairSpec
CONSTANTS
  MaxParticles = 6
  ChunkSize = 2
  Tokens = 3
INVARIANTS
  Conserved
  SuccessMeansWritten
  NeverHalfThere
  OldOrNewExists
PROPERTIES
  KeptUnderException
  CloseReturns
