SPECIFICATION ResumableSpec
CONSTANTS
  Compiled <- Compile
  NameOf <- MCNameOf
  Programs <- MCPrograms
  StatementsOf <- MCStatementsOf
  HostPromises = 2
  Sent = {0, 2}
  MaxCalls = 4
INVARIANTS
  PlainRunAsWritten
  JobsInOrder
  NothingLeftWaiting
PROPERTY
  CallsReturn
CHECK_DEADLOCK FALSE
