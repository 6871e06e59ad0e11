CONSTANTS
  None = None
  MaxRounds = 1
  MaxCalls = 2
  MaxTexts = 1
  Artifacts = {a1, a2}
  Limit = 1
  MaxRows = 3
  PageLoads = 4
  Memories = {m1}
  Names = {n1, n2}
  Sayings = {w1, w2}
  MaxVersion = 2
  MaxContexts = 2
  Datasources = {s1, s2}
  Owned = {s1}
  Searches = {"all", "revenue"}
  MaxPages = 2
  MaxLoads = 3
  MaxReads = 1
  Heights = {2, 4, 5, 6}
  Views = {2, 3}
  Slack = 1
  Paragraphs = 2
  Sizes = 2
  Versions = {1, 2}
  Smooth = 1
  MaxStep = 1
  Editors = {e1, e2}
  Columns = {c1, c2}
  Wordings = {t1}
  Calls = {q1, q2}
  MaxSchema = 3
  Files <- MCFiles
  Digit = "9"
  TableNames = {"sales", "long"}
  Long = "long"
  Params = 2
  SheetRows = 3
  Exact = 8
  Spacings = {1, 2, 4, 8}
  Widest = 15
SPECIFICATION AllSpec
INVARIANTS
  BlocksReplay
  PagesFollow
  PageIsOfDatasource
  KeepsPlace
  PlaysOut
  CommentsReviewed
  ShownAreCurrent
  UploadKeepsFile
PROPERTY WritesReviewed
CHECK_DEADLOCK FALSE
