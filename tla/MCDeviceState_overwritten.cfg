SPECIFICATION Spec
CONSTANTS
  POLL = POLL
  s1 = s1
  s2 = s2
  Setters = {s1, s2}
  Tasks = {POLL, s1, s2}
  Attempts = 2
  MaxSessions = 2
  MaxInputs = 2
  MaxTimers = 2
PROPERTY PushStateKept
CHECK_DEADLOCK FALSE
