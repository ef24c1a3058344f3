SPECIFICATION StoresSpec
CONSTANTS
  \* CacheFiles
  Procs = {p1, p2}
  Keys = {k1, k2}
  Values = {v1, v2}
  MaxEntries = 1
  MaxSets = 2
  MaxCrashes = 1
  NoFile = NoFile
  Torn = Torn
  \* Plan
  PlanCallers = {p1, p2}
  MaxSteps = 3
  NoPlan = NoPlan
  \* Recall
  Processes = {p1, p2}
  SessionIds = {s1, s2}
  Terms = {t1, t2}
  MaxDocs = 1
  MaxTerms = 1
  MaxLog = 1
  MaxStamps = 3
  \* CronExtension
  CronCallers = {p1, p2}
  TaskNames = {a, b}
  Configs = {v1}
  Missing = Missing
  Corrupt = Corrupt
  MaxCronEdits = 1
  \* SessionEvents
  Handlers = {h1, h2}
  Suggestions = {g1, g2, g3}
  Cooldown = 2
  MaxSeen = 1
  Window = 10
  Percent = 75
  Fills = {7, 8}
  MaxSessionTurns = 2
  \* Compaction
  Paths = {f, g}
  KeepRecent = 2
  ClearTurns = 2
  MaxContextFacts = 5
  PruneCount = 3
  SkipLLM = 6
  TurnResults <- SomeTurns
  TurnHandlers = {c1, c2}
  MaxTurns = 3
  MaxMessages = 6
SYMMETRY StoresSymmetry
INVARIANTS
  StoresTypeOK
  StoresAreWhole
  TurnsAreCounted
PROPERTIES
  NothingElseIsDropped
CHECK_DEADLOCK FALSE
