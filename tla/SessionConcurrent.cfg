SPECIFICATION Spec
CONSTANTS
  Requests = {r1, r2, r3}
  Tokens = {t1, t2, t3, t4}
  None = None
SYMMETRY Interchangeable
INVARIANTS TypeOK SessionsNeverMultiply
PROPERTIES ImplementsFamilies LineageKept
