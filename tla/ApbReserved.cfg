CONSTANTS
  AddrSpace = 128
  BlockSize = 16
  Slaves <- MCSlaves
  FirstBlock <- MCFirst
  LastBlock <- MCFirst
  LenWidth = 2
  Commands <- ReservedCommands
  Strobes = {"all", "none", "some"}
SPECIFICATION Spec
INVARIANTS ReadsAtAxiAddress
