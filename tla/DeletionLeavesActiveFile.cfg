SPECIFICATION Spec
CONSTANTS
  Requests = {r1}
  Keys = {k1}
  Contents = {c1}
  Operations = {"create", "replace", "delete"}
  Faults = {"crash"}
  None = None
SYMMETRY Interchangeable
PROPERTIES DeletionClearsActiveZone
