CONSTANTS
  AddrSpace = 131072
  BlockSize = 16
  Slaves <- MCSlaves
  FirstBlock <- MCFirst
  LastBlock <- MCFirst
  LenWidth = 1
  WriteBursts <- UnstrobedWrites
  ReadCommands <- OneRead
  CmdDepth = 2
  WriteDepth = 2
  RespDepth = 1
  ReadDepth = 1
  MaxWrites = 1
  MaxReads = 1
  MaxItems = 2
  NoItem = NoItem
SPECIFICATION TbFairSpec
PROPERTIES EverySequenceFinishes
