SPECIFICATION GlrForkSpec
CONSTANTS
  Terminals = {"a", "b", "c"}
  NonTerminals = {"S", "A", "B"}
  Grammars <- LongerGrammars
  Options <- Either
  PassSlack = 0
  AlwaysTerminals = {}
  AlwaysSkip = {}
  RedirectGuard = 4
  Lexemes = {"a", "b", "c"}
  CandidateOrder <- OneEach
  MaxInput = 2
  PrefixModes = {FALSE}
  RecoverTerms = {}
  StuckLimit = 0
  MaxWork = 60
  MaxRecoveries = 2
INVARIANTS
  EveryParseIsReturned
CHECK_DEADLOCK FALSE
