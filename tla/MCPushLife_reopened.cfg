SPECIFICATION Spec
CONSTANTS
  Keep = 1
  MaxMessages = 3
  MaxFailures = 2
  LoginAttempts = 3
  GcmAttempts = 3
  Locks = TRUE
INVARIANT NotReopened
CHECK_DEADLOCK FALSE
