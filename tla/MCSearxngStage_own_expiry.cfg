SPECIFICATION Spec
CONSTANT MaxAttempts = 3
INVARIANT OwnExpiryIsTimeout
CHECK_DEADLOCK FALSE
