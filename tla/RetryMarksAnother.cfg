SPECIFICATION RecognitionSpec
CONSTANTS
  s1 = s1
  s2 = s2
  Requests = {r1, r2}
  Students = {s1, s2}
  Admins = {}
  Teachers = {teacher}
  Statuses = {"present", "absent"}
  Present = "present"
  Batches <- AbsentBatches
  MaxRows = 2
  PoolSize = 2
  Withdrawn = {"teacher", "student"}
  Attempts = {a1}
  None = None
SYMMETRY Interchangeable
INVARIANTS AttemptMarksOneStudent
