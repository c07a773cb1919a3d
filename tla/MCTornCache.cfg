SPECIFICATION CacheSpec
CONSTANTS
  VarintBase = 4
  Magic <- MCMagic
  Hash <- MCHash
  Processes = {p1}
  SourceCount = 1
  Contents = {"pass"}
  SizeOf <- MCSizeOf
  GrammarOf <- MCGrammarOf
  Setups <- MCSetups
  Tables <- MCTables
  Spoiled <- MCSpoiled
  Portions = {1}
  MaxEdits = 0
  MaxCalls = 2
  EditedTo <- MCUnedited
INVARIANT
  TruncatedIsAMiss
CHECK_DEADLOCK FALSE
