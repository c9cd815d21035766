SPECIFICATION LiveSpec
CONSTANTS
  Requests = {r1}
  Keys = {k1, k2, k3}
  Contents = {c1, c2}
  Operations = {"create", "replace", "delete"}
  Faults = {"crash", "db", "io"}
  None = None
INVARIANTS TypeOK OtherDriftReported
PROPERTIES LifecycleForward DeletionDrains ImplementsRegister DeletionCompletes
