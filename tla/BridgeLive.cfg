CONSTANTS
  AddrSpace = 128
  BlockSize = 16
  Slaves <- MCSlaves
  FirstBlock <- MCFirst
  LastBlock <- MCFirst
  LenWidth = 2
  WriteBursts <- HalfWrite
  ReadCommands <- LastWordRead
  CmdDepth = 2
  WriteDepth = 1
  RespDepth = 1
  ReadDepth = 1
  MaxWrites = 1
  MaxReads = 1
SPECIFICATION FairSpec
PROPERTIES WritesAreAnswered ReadsAreAnswered
