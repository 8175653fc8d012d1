SPECIFICATION Spec
CONSTANTS
  MaxParticles = 3
  ChunkSize = 2
  Tokens = 2
INVARIANTS
  NothingAfterTheEnd
