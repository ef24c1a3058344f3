SPECIFICATION WorkSpec
CONSTANTS
  \* LoopScheduler
  Commands = {s1, s2}
  MaxStarts = 3
  MaxTicks = 2
  \* Subagent
  AbsTimeouts = {0, 3, 9}
  InactTimeouts = {0, 2}
  MaxPolls = 6
  \* Coordinator
  Replies <- MCReplies
  MaxTasks = {0, 1, 4, 6}
  Limit = 3
  \* Bulk
  BulkWorld <- MCBulkWorld
  ToolArgs <- MCToolArgs
  CommandArgs <- MCCommandArgs
  BulkConcurrency = 2
  \* McpManager
  Servers = {s1, s2, s3}
  Tools = {t1}
INVARIANTS
  WorkTypeOK
  EachIsToldOnce
  OneLoopTicks
PROPERTIES
  ResultsWin
  WorkEnds
CHECK_DEADLOCK FALSE
