SPECIFICATION Spec
CONSTANTS
  Requests = {r1, r2}
  Keys = {k1}
  Contents = {c1}
  Operations = {"create", "replace", "delete"}
  Faults = {}
  None = None
SYMMETRY Interchangeable
PROPERTIES OnlyPendingRowsDropped
