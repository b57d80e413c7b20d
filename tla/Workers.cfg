SPECIFICATION Spec
CONSTANTS
  Names <- NamesDef
  HashOf <- HashDef
  Inputs <- InputsDef
  Texts <- TextsDef
  Subs <- SubsDef
  LengthOf <- LengthDef
  GroupOf <- GroupDef
  MaxRetStr = 16
  MaxRegex = 4
  MaxCore = 8
  MaxFields = 7
  MaxPlugins = 2
  SizeMod = 1000
INVARIANTS TypeOK ParsedRight RolesKept OneReader  FaultsHaveCauses FunctionsFound
           BestOfPacket FreshWithOneMaster
CHECK_DEADLOCK FALSE
