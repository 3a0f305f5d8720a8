SPECIFICATION Spec
CONSTANTS
  Buffer = 2
  MaxLogs = 5
INVARIANTS TypeOK EndsForAReason
PROPERTIES ImplementsWindow IterationEnds LeaksOnlyBeyondBuffer
CHECK_DEADLOCK FALSE
