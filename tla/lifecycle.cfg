SPECIFICATION Spec
CONSTANTS
  Procs = {p1, p2}
  Sessions = {s1, s2}
  Caps = {c1}
  Ops = {"session", "approve", "revoke", "client", "login", "register", "logout", "cleanup", "reap"}
  Faults = FALSE
SYMMETRY Symmetry
INVARIANTS TypeOK NoOrphanPin OpenDatabaseIsNeeded ServedFromOpenDatabase LeaseAccounting RetiredKeyServesNothing
