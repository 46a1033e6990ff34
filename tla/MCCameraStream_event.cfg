SPECIFICATION Spec
CONSTANTS
  s1 = s1
  s2 = s2
  p1 = p1
  Starters = {s1, s2}
  Others = {p1}
  NoSession = NoSession
  Events = {"doorbell", "other"}
  StartOn = {"doorbell"}
  MaxInputs = 4
  c1 = c1
  c2 = c2
  Tasks = {c1, c2}
  MaxPipes = 2
PROPERTY EventServed
CHECK_DEADLOCK FALSE
