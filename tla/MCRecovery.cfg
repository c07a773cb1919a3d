SPECIFICATION GlrForkSpec
CONSTANTS
  Terminals = {"a", "b", "c"}
  NonTerminals = {"S", "A", "B"}
  Grammars <- RecoveryGrammars
  Options <- Raw
  PassSlack = 0
  AlwaysTerminals = {}
  AlwaysSkip = {"a"}
  RedirectGuard = 4
  Lexemes = {"a", "b", "c"}
  CandidateOrder <- OneEach
  MaxInput = 3
  PrefixModes = {FALSE, TRUE}
  RecoverTerms = {"a", "b", "c"}
  StuckLimit = 2
  MaxWork = 10
  MaxRecoveries = 1
INVARIANTS
  StackHoldsTheInput
PROPERTIES
  CallsEnd
CHECK_DEADLOCK FALSE
