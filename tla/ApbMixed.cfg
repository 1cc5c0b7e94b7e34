CONSTANTS
  AddrSpace = 128
  BlockSize = 16
  Slaves <- MCSlaves
  FirstBlock <- MCFirst
  LastBlock <- MCFirst
  LenWidth = 2
  Commands <- MixedCommands
  Strobes = {"all", "none", "some"}
SPECIFICATION FairSpec
INVARIANTS
  ResponseTellsTheTruth
  ResponseNeverWaits
  PopsOwnWordsOnly
  ReadBeatsInOrder
  ReadIsComplete
PROPERTIES FollowsApb CommandFinishes
