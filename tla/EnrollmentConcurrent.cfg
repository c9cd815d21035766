SPECIFICATION Spec
CONSTANTS
  Requests = {r1, r2}
  Keys = {k1, k2}
  Contents = {c1, c2}
  Operations = {"create", "replace", "delete"}
  Faults = {"crash", "db", "io", "lost_ack"}
  None = None
SYMMETRY Interchangeable
INVARIANTS DeletedSampleHasNoFile
