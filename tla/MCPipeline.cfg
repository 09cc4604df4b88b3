SPECIFICATION Spec
CONSTANTS
  Word = 32
  Base = 16
  RamLo = 4
  RamHi = 8
  TableGap = 3
  TableMargin = 1
  ShardGap = 3
  ShardSize = 2
  LocalityGap = 2
  Func <- FuncDef
  Code <- CodeDef
  LibFiles <- LibFilesDef
  Contents <- ContentsDef
  Baseline <- BaselineDef
  Math <- MathDef
  NameOrder <- NameOrderDef
  Reviews = {"UI"}
  None = None
  Unreadable = Unreadable
  MaxEdits = 2
INVARIANTS
  PipelineTypeOK
  RunFollowsInputs
PROPERTIES
  ReviewKept
