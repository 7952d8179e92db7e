SPECIFICATION OutputSpec
CONSTANTS
  MaxLen = 8
  MaxSuffix = 5
  MaxNames = 3
  MaxMentions = 3
  Digits <- MCDigits
  Legal <- MCLegal
  Uppercase = {"F", "V", "C", "S"}
  Keywords <- MCKeywords
  InternalPrefixes <- MCPrefixes
  InternalNames <- MCInternal
  Globals <- MCGlobals
  Hash <- MCHash
  Files <- MCFiles
  Locals <- MCLocals
  Bases <- MCBases
INVARIANTS
  LocalsDistinct
  LocalsLegal
  GlobalsLink
  DefinedBeforeUse
  SpecialsDeclared
  NeverRedefined
CHECK_DEADLOCK FALSE
