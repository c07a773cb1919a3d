SPECIFICATION PpSpec
CONSTANTS
  Width = 6
  NumberOf <- MCNumberOf
  ExpandBlock <- Expand
  Throws <- Fails
  Condition <- EvalIf
  MaxDepth = 2
  Markers = {"q"}
  Projects <- MCProjects
INVARIANTS
  FlagsAgree
  TextAsMeant
  LinesKept
CHECK_DEADLOCK FALSE
