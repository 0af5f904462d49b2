INIT Init
NEXT Next
CHECK_DEADLOCK FALSE
CONSTANTS
  Radix = 4 Window = 16 LinkRadix = 8 LinkWindow = 64
  Unpatched = 60 Grain = 2 StubSize = 3
  WordCells = 2 CellValues = 16 ReturnAddress = 190 StackBase = 4 MemoryEnd = 8
  ChunkWords = 3 WidestAlign = 4 JumpWindow = 8
  FrameReach = 3 ReturnReach = 6 LeafReach = 5 ScoreWindow = 4 ScoreFloor = 2 ScoreSlack = 1
  RamEnd = 24 SeedSize = 2 PairReach = 4 EnumEnd = 4
  AnchorFloor = 2 SignatureFloor = 3 FixedFloor = 2 FidFloor = 2 HighFloor = 3 WholeFloor = 3
  SeedBytes = 2 MaxGap = 3 Header = 1
  Geometric = {4} Locals = {3} HubDegree = 2 LocalHubDegree = 1
  Broken = 9 Doubled = 6 Exactly = 100 KeepTop = 2
  PayloadSize = 2 Descriptor = 0 Programs = {"PSX.EXE", "GAME.EXE", "OPEN.EXE"} Magic = 99 AddressEnd = 16
  MaxEdits = 2
INVARIANTS
  ObjectsRelink NativeObjectsLinkAlike DataIsOwned OutputsAreWhole CodeIsExecution NamesAreEarned
  EvidenceAgrees InventoryIsAdmissible MachineIsConsole DomainsAreSound ComparisonsAreOfOnePair
