SPECIFICATION MachinesSpec
CONSTANTS
  Requests = {r1, r2}
  None = None
  Processors = {r1, r2}
  Samples <- TwoSamples
  Reasons = {"zero_faces"}
  Ceiling = 2
  NoReason = NoReason
  Students = {"s1", "s2"}
  Admins = {"admin"}
  Teachers = {"t1"}
  Statuses = {"present", "absent"}
  Batches <- ClassBatches
  MaxRows = 2
  PoolSize = 2
  Withdrawn = {"class"}
  Writers = {r1, r2}
  Classrooms = {"c1", "c2"}
  Subjects = {"sub"}
  Staff = {"t1"}
  Pupils = {"s1", "s2"}
  Null = Null
  Entries = {"e1", "e2"}
  Announcements = {"a1"}
  Slots <- SlotsOfDay
  Rolls = {1}
  EntryColumns = {"active", "classroom", "end"}
  Schools <- SmallSchools
  MaxRequests = 2
  Threads = {r1, r2}
  Sizes = {1, 2}
  DefaultSize = 0
  MaxTasks = 3
  Nobody = Nobody
  Calls = {r1, r2}
  MaxPairs = 3
  MaxLate = 1
  Faults = {"request_lost", "answer_lost", "reload"}
SYMMETRY Interchangeable
INVARIANTS SampleTypeOK StateJustified TablesConsistent
  InferenceIsolated OnlyMissedAnswersLookStolen
PROPERTIES RemovedGainsNoEmbedding UncontendedMarksStand UncontendedSavesCohere
CHECK_DEADLOCK FALSE
