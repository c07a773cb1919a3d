SPECIFICATION CacheSpec
CONSTANTS
  VarintBase = 4
  Magic <- MCMagic
  Hash <- MCHash
  Processes = {p1, p2}
  SourceCount = 1
  Contents = {"pass", "act", "fork"}
  SizeOf <- MCSizeOf
  GrammarOf <- MCGrammarOf
  Setups <- MCSetups
  Tables <- MCTables
  Spoiled <- MCSpoiled
  Portions = {12}
  MaxEdits = 1
  MaxCalls = 2
  EditedTo <- MCEditedTo
INVARIANTS
  SavedIsFound
  StaleOnlyIfUnstamped
PROPERTY
  CacheIsACell
SYMMETRY Alike
CHECK_DEADLOCK FALSE
