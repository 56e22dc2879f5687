SPECIFICATION FairSpec
CONSTANTS
  Procs = {p1, p2}
  Sessions = {s1, s2}
  Caps = {c1}
  Ops = {"session", "login", "register", "revoke"}
  Faults = FALSE
PROPERTY ExclusiveEventuallyAcquires
