SPECIFICATION HistorySpec
CONSTANTS
  Requests = {r1, r2}
  Keys = {k1, k2, k3}
  Contents = {c1, c2, c3}
  Operations = {"create", "replace"}
  Faults = {"crash", "db"}
  None = None
SYMMETRY Interchangeable
INVARIANTS ActiveSampleHasFile CleanWhenQuiet
PROPERTIES LifecycleForward
