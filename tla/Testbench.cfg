CONSTANTS
  AddrSpace = 131072
  BlockSize = 16
  Slaves <- MCSlaves
  FirstBlock <- MCFirst
  LastBlock <- MCFirst
  LenWidth = 2
  WriteBursts <- TestWrites
  ReadCommands <- TestReads
  CmdDepth = 2
  WriteDepth = 1
  RespDepth = 1
  ReadDepth = 1
  MaxWrites = 1
  MaxReads = 1
  MaxItems = 3
  NoItem = NoItem
SPECIFICATION TbFairSpec
INVARIANTS
  NoFalseAlarm
  EverythingIsChecked
  CheckersKeepUp
  HandleIsTheBurst
  AnswersAreMet
PROPERTIES ImplementsMemory SequencesFinish
