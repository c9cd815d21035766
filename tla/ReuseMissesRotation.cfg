SPECIFICATION Spec
CONSTANTS
  Requests = {r1, r2}
  Tokens = {t1, t2, t3}
  None = None
SYMMETRY Interchangeable
PROPERTIES ReuseForcesLogin
