SPECIFICATION RepoSpec
CONSTANTS
  Files = {a, c}
  Tracked = {a, c}
  Unparsable <- MCUnparsable
  Builders = {b1, b2}
  MaxEdits = 1
  MaxMishaps = 1
  NoText = NoText
  NoFile = NoFile
  Corrupt = Corrupt
  RepoLists <- MCRepoLists
  RankedLists <- MCRankedLists
  Budgets = {0, 2, 30, 60}
  FileSets <- MCFileSets
  FileLists <- MCFileLists
  EntryLists <- MCEntryLists
  DeclLists <- MCDeclLists
  CountedLists <- MCCountedLists
  Caps = {1, 2, 3, 4}
  FilterKeys = {"lines", "imports", "path", "none"}
  LineLists <- MCLineLists
  \* AnswerCases
  Singular <- MCSingular
  MaxWords = 3
  MaxAnti = 2
  Unset = Unset
  Bad = Bad
  Day = 3
  Week = 2
  Nil = Nil
  Broken = Broken
  Unresolved = Unresolved
INVARIANTS
  RepoMapTypeOK
  MapIsHonest
  ViewsAreTrue
  AnswersAreTrue
PROPERTIES
  MapCatchesUp
CHECK_DEADLOCK FALSE
