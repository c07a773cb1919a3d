SPECIFICATION ModulesSpec
CONSTANTS
  Modules = {"a", "b", "c"}
  Entries = {"e", "f"}
  Names = {"A", "B", "C", "A2", "B2", "C2"}
  Programs <- MCPrograms
INVARIANTS
  NoWaitCycle
  CleanIsComplete
  CheckedAsLinked
PROPERTY ChecksEnd
CHECK_DEADLOCK FALSE
