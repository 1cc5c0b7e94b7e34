CONSTANTS
  Writes = {w1, w2}
  Reads = {r1}
  CmdDepth = 4
SPECIFICATION FairSpec
INVARIANTS
  ReadyIsKept
  Alternates
PROPERTIES
  WritesAreAccepted
  ReadsAreAccepted
