SPECIFICATION Spec
CONSTANT MaxAttempts = 3
INVARIANTS RetriesJustified DeadlineAttributed
PROPERTIES ImplementsContract
CHECK_DEADLOCK FALSE
