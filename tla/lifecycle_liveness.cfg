SPECIFICATION FairSpec
CONSTANTS
  Procs = {p1, p2}
  Sessions = {s1}
  Caps = {c1}
  Ops = {"session", "approve", "client", "register", "logout", "cleanup", "reap"}
  Faults = FALSE
PROPERTIES ExclusiveEventuallyAcquires ShutdownEventuallyDrains DeletedSessionEventuallyUnpinned
