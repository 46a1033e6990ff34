SPECIFICATION FairSpec
CONSTANTS
  home = home
  lock_task = lock_task
  camera_task = camera_task
  Stations = {home}
  Getters = {lock_task, camera_task}
  NoGetter = NoGetter
  wants <- MCWants
  MaxSessions = 3
INVARIANTS
  LiveIsInTable
  ShutdownDisconnects
  OneSessionUnlessEvicted
PROPERTY
  GettersReturn
