CONSTANTS
  a = a
  b = b
  d = d
  NoModule = NoModule
  Names = {a, b}
  Files = {a, b}
  KeyOf <- OwnKeys
  Fates = {"good", "type"}
  MaxImports = 1
  MaxModules = 2
  MaxAliases = 1
  MaxDepth = 4
SPECIFICATION LoadSpec
PROPERTY LoadReturnsAHandle
CHECK_DEADLOCK FALSE
