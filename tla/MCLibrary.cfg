CONSTANTS
    Patterns <- MCPatterns
    StackWords = 64
    MaxLookaheads = 16
    MaxCalls = 2
    LimbBits = 2
    Literals <- MCLiterals
    MaxMagnitude = 150
    MaxShift = 7
    MaxOperations = 3
SPECIFICATION Spec
INVARIANTS CallsAsMeant IntegersExact
PROPERTIES MethodsReturn
\* A program may end after any call, and a trap ends it.
CHECK_DEADLOCK FALSE
