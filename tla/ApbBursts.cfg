CONSTANTS
  AddrSpace = 128
  BlockSize = 16
  Slaves <- MCSlaves
  FirstBlock <- MCFirst
  LastBlock <- MCFirst
  LenWidth = 2
  Commands <- BurstCommands
  Strobes = {"all", "none"}
SPECIFICATION Spec
INVARIANTS
  TypeOK
  WritesInOrder
  ReadsAtAxiAddress
  BadBeatsFail
  NoPushOnFull
  ReadBeatsInOrder
  ReadIsComplete
  PopsOwnWordsOnly
