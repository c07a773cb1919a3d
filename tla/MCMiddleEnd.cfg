SPECIFICATION Spec
CONSTANTS
  Programs <- MCPrograms
  Worlds <- MCWorlds
  MaxRounds = 8
INVARIANTS
  GraphHoldsTogether
  SameBehaviour
PROPERTIES
  RewritingShrinks
CHECK_DEADLOCK FALSE
