\* Two instances, two faults or stops, a lease of 6 s renewed every 2 s with 1 s
\* for Redis (the proportions of the defaults); three jobs and two workers; one
\* scheduler with two jobs, two changes of them or of its leadership and one
\* failure, and two schedulers with two changes of who leads or runs, both over a
\* month end.
SPECIFICATION BackgroundSpec
CONSTANTS
    Instance = {i1, i2}
    LeaseTtl = 6
    Interval = 2
    Latency = 1
    BodyTime = 3
    MaxFaults = 2
    Nobody = nobody
    Job = {j1, j2, j3}
    Worker = {w1, w2}
    Client = {c1}
    MaxRetries = 2
    Nothing = nothing
    Scheduling = {i1, i2}
    ScheduledJob = {"daily", "often"}
    Cron <- CronOf
    HourLength = 2
    DayLength = 2
    MonthEnds <- DaysThatEndMonths
    Horizon = 5
    MaxFailures = 1
    MaxEdits = 2
CHECK_DEADLOCK FALSE
INVARIANTS BackgroundTypeOK OneLeaderUnlessLate NothingLost
PROPERTIES OnlyOwnersUnlock LeaderAgain FinishedStays EveryJobEnds OncePerMatchAndInstance DueIsSubmitted
