SPECIFICATION Spec
CONSTANTS
  ByteBits = 3
  SeptetBits = 2
  Command <- CommandDef
  LenBytes = 2
  AddrBytes = 2
  MaxPayload = 3
  MaxCount = 2
  Slots = 2
  SlotSize = 3
  SuccessText <- SuccessDef
  Full = 3
  Nibble = 1
  MinMatch = 2
  Size = 15
  HeaderLen = 2
  Attribute = 1
  Crc <- CrcOf
  Word = 32
  Base = 16
  RamLo = 4
  RamHi = 8
  TableGap = 3
  TableMargin = 1
  ShardGap = 3
  ShardSize = 2
  LocalityGap = 2
  Inputs <- MapInputs
  ByteInputs <- ByteInputsDef
INVARIANTS
  ResponseAccepted
  DamageNoticed
  RecordServable
  Decompressed
  CallsAgree
  ComponentsWhole
  StringsWhole
  TablesApart
  EveryFunctionShown
  LocalityInReach
CHECK_DEADLOCK FALSE
