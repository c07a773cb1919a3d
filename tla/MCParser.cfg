SPECIFICATION GlrForkSpec
CONSTANTS
  Terminals = {"a", "b", "c"}
  NonTerminals = {"S", "A", "B"}
  Grammars <- ParserGrammars
  Options <- Either
  PassSlack = 0
  AlwaysTerminals = {}
  AlwaysSkip = {}
  RedirectGuard = 4
  Lexemes = {"a", "b", "c"}
  CandidateOrder <- OneEach
  MaxInput = 5
  PrefixModes = {FALSE, TRUE}
  RecoverTerms = {}
  StuckLimit = 0
  MaxWork = 60
  MaxRecoveries = 2
INVARIANTS
  AcceptsOnlySentences
  AcceptsEverySentence
  NeverCrashes
  TreesObeyPrecedence
  ReturnsTheParses
  DerivationsRunInStep
  ContextsStayApart
CHECK_DEADLOCK FALSE
