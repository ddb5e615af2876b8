\* A header may arrive before its body.
SPECIFICATION Spec
CONSTANTS
  Head = 2
  Body = 2
  Count = 2
INVARIANTS
  MessagesIntact
CHECK_DEADLOCK FALSE
