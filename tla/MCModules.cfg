CONSTANTS
  a = a
  b = b
  d = d
  NoModule = NoModule
  Names = {a, b, d}
  Files = {a, b}
  KeyOf <- OwnKeys
  Fates = {"good", "lex", "type"}
  MaxImports = 2
  MaxModules = 2
  MaxAliases = 1
  MaxDepth = 4
SPECIFICATION LoadSpec
INVARIANTS
  FoundModulesFinished
PROPERTIES
  MappingsStay
  EveryLoadReturns
CHECK_DEADLOCK FALSE
