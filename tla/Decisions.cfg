SPECIFICATION Spec
CONSTANTS
  Threshold = 2
  Margin = 1
  Nobody = Nobody
  NotFinite = NotFinite
  MaxDimension = 6
  Descriptor = 2
  Dimension = 2
  LandmarkCount = 5
  MaxPixels = 6
  MaxSide = 3
  MaxImageBytes = 2
  MaxProbeBytes = 3
  MaxFiles = 2
  MaxTotalBytes = 5
  MaxRatio = 2
  MaxManifestBytes = 2
  Classrooms = {"c1", "c2"}
  Subjects = {"s1"}
  Staff = {"t1", "t2"}
  Pupils = {"p1"}
  Null = Null
  Students = {1, 2, 3, 4}
  Rooms = {1, 2}
  Dates = {1, 2}
  MaxReportRows = 3
  MaxReportStudents = 3
  None = None
  MaxImportBytes = 2
  MaxImportRows = 2
  Columns = {"key", "code"}
  Inputs <- SmallInputs
  Rows <- TwoRows
  BulkFaults = {"db", "io", "lost_ack", "crash"}
  MaxDeletions = 1
INVARIANTS
  MatchIsSafe
  RatesDescribeMatcher
  DetectionsFitImage
  StoredEmbeddingsComparable
  AcceptedImageBounded
  AcceptedArchiveSound
  ListsMatchGets
  ScopesAgree
  StatisticsAgree
  ReportsAgree
  ImportsRepeatable
  ReportHolds
  FailureLeavesNothing
CHECK_DEADLOCK FALSE
