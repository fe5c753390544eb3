CONSTANTS
  Families <- MCFamilies
  MaxTokens = 22
SPECIFICATION LoopSpec
INVARIANTS
  EveryCharOnce
  LevelsSpellTheLine
  LoaderLosesNothing
  LocationsTrue
PROPERTY LexingEnds
CHECK_DEADLOCK FALSE
