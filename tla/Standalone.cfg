SPECIFICATION StandaloneSpec
CONSTANTS
  Part = {"openAccess", "cnki", "zotero", "empirical", "preflight",
          "context", "engine", "codex", "visit", "runLock"}
  Url <- Urls
  Key <- Keys
  Secure <- SecureUrls
  PdfNamed <- PdfUrls
  Answers <- AnswersOf
  MaxFiles = 3
  MaxRuns = 2
  Name = {f1, c1}
  PdfName = {f1}
  Paper = {d1, d2}
  MaxTime = 3
  MaxCopies = 2
  Record = {1, 2}
  Invalid = {}
  Destination <- Filing
  Collection <- Collections
  Retries = 2
  MaxItems = 3
  MaxEdits = 1
  MaxImports = 2
  Runner = {r1, r2}
  Model = {m1, m2}
  Unmatched = {m2}
  MaxVersion = 2
  MaxCalls = 3
  MaxRewrites = 1
  Unit = {u1, u2}
  MaxPeriod = 3
  MaxShape = 8
  PackTask = {1, 2, 3, 4}
  Packed = 4
  Artifact <- Artifacts
  Budget = 9
  MaxWrites = 1
  Job = {j1, j2}
  MaxScript = 2
  MaxOutput = 2
  Host = {h1, h2}
  MaxRound = 3
  MaxCall = 3
  t1 = t1
  t2 = t2
  t3 = t3
  Task = {t1, t2, t3}
  NoTask = NoTask
  TaskType <- Types
  AssignedAgent <- AgentOf
  Producer <- NoProducer
  Finals = {}
  MaxTotalTasks = 3
  List <- Triple
  AllDeps <- AllGraphs
  p1 = p1
  p2 = p2
  p3 = p3
  a = a
  b = b
  c = c
  Process = {p1, p2, p3}
  Owner = {a, b, c}
  OwnerOf <- Separate
  NoOwner = NoOwner
  Empty = Empty
INVARIANTS
  OpenPdfSurvives VerifiedFileIntact VerifiedIsWhole FiledMeansFiled OneItemPerRecord
  ReturnedIsRequested PassedIsStaggered PackIsExact  AnswerIsOwn VisitIsRight
PROPERTIES
  EditsSurvive BundleIsFinal ImplementsRunLock
CHECK_DEADLOCK FALSE
