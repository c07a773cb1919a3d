SPECIFICATION UnitGotosSpec
CONSTANTS
  Terminals = {"a", "b", "c"}
  NonTerminals = {"S", "A", "B"}
  Grammars <- AllGrammars
  Options <- MCOptions
  PassSlack = 0
  AlwaysTerminals = {"c"}
  AlwaysSkip = {"b"}
  RedirectGuard = 4
INVARIANTS
  FirstClosedWhenBuilt
  AutomatonIsLR0
  LookaheadsAreLALR1
  ConflictsAreDecided
  RedirectsSkipOnlyRenames
  PassesSuffice
PROPERTIES
  MakeParserReturns
CHECK_DEADLOCK FALSE
