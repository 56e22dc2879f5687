SPECIFICATION Spec
CONSTANTS
  Procs = {p1, p2}
  Sessions = {s1, s2}
  Caps = {c1}
  Ops = {"session", "approve", "client", "login", "register", "reap"}
  Faults = TRUE
SYMMETRY Symmetry
INVARIANTS IndInv ExclusiveIsolation
PROPERTY DeletionSparesActiveUsers
