SPECIFICATION Spec
CONSTANTS
  Names <- NamesDef
  HashOf <- HashDef
  Inputs <- GenericInputs
  Texts <- TextsDef
  Subs <- SubsDef
  LengthOf <- LengthDef
  GroupOf <- GroupDef
  MaxRetStr = 16
  MaxRegex = 4
  MaxCore = 8
  MaxFields = 7
  MaxPlugins = 2
  SizeMod = 1000
INVARIANT GenericsTried
CHECK_DEADLOCK FALSE
