CONSTANTS
  AddrSpace = 128
  BlockSize = 16
  Slaves <- MCSlaves
  FirstBlock <- MCFirst
  LastBlock <- MCFirst
  LenWidth = 2
  WriteBursts <- MixedWrites
  ReadCommands <- EdgeRead
  CmdDepth = 2
  WriteDepth = 2
  RespDepth = 1
  ReadDepth = 1
  MaxWrites = 2
  MaxReads = 1
SPECIFICATION PowerSpec
INVARIANTS
  ResponsesAnswerWrites
  BeatsAnswerReads
  NothingLeftOver
  AnswersFindRoom
  CountsAreTrue
  NoPxMeansIdle
