SPECIFICATION FairSpec
CONSTANTS
    report = report
    agent = agent
    test = test
    Tasks = {report}
    Procs = {agent, test}
    Agent = agent
    Schedules <- AnySchedule
    Day = 2
    Week = 2
    MaxLines = 1
    MaxNow = 4
    MaxForced = 1
    MaxMishaps = 1
INVARIANTS
    TypeOK
    ExclusiveUnlessUnlinked
PROPERTIES
    RepeatsOnlyIfForgotten
    DueTasksAreStarted
CHECK_DEADLOCK FALSE
