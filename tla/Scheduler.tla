------------------------------ MODULE Scheduler ------------------------------
(***************************************************************************)
(* The job scheduler (titan.jobs.scheduler): every instance keeps its own  *)
(* schedule in memory, the leader looks at it now and then and submits     *)
(* what is due to the job queue.  Time is counted in minutes; the lengths  *)
(* of an hour, a day and the months are parameters.                        *)
(***************************************************************************)
EXTENDS Integers, FiniteSets, FiniteSetsExt, Absence

CONSTANTS
    Scheduling,     \* the instances that run a scheduler
    ScheduledJob,
    Cron,           \* [ScheduledJob -> cron expression: sets of minutes, hours, days,
                    \*  months and weekdays]
    HourLength, DayLength,  \* 60 minutes, 24 hours
    MonthEnds,      \* the numbers of the days that end a month
    Horizon,        \* bound on the time, in minutes
    MaxFailures,      \* bound on failing submissions and crashes
    MaxEdits        \* bound on changes of the schedules and of the leader

VARIABLES
    now,
    jobs,       \* [Scheduling -> SUBSET ScheduledJob]: _jobs and _crons
    enabled,    \* [Scheduling -> SUBSET ScheduledJob]
    nextRun,    \* [Scheduling -> [ScheduledJob -> minute]]
    elected,     \* the instances whose LeaderElection says is_leader
    loop,         \* [Scheduling -> "off", "asleep" or "submitting"]
    check,      \* [Scheduling -> what _check_schedules has at hand]
    last,       \* [Scheduling -> [ScheduledJob -> the check that submitted it last]]
    unanswered, \* the instance and job pairs whose last submission was taken
                \* by the queue and reported as failed
    failures, edits

schedulerVars == <<now, jobs, enabled, nextRun, elected, loop, check, last, unanswered,
          failures, edits>>

-----------------------------------------------------------------------------
(* CronExpression.                                                         *)

Day(t) == t \div (HourLength * DayLength)
MonthsBefore(d) == {e \in MonthEnds : e < d}
DayOfMonth(d) == IF MonthsBefore(d) = {} THEN d + 1 ELSE d - Max(MonthsBefore(d))
Month(d) == Cardinality(MonthsBefore(d)) + 1

\* Cron counts weekdays from Sunday, Python from Monday; day 0 is a Monday.
ConvertWeekday(days) == {IF w = 0 THEN 6 ELSE w - 1 : w \in days}

Matches(c, t) ==
    /\ t % HourLength \in c.minute
    /\ (t \div HourLength) % DayLength \in c.hour
    /\ DayOfMonth(Day(t)) \in c.day_of_month
    /\ Month(Day(t)) \in c.month
    /\ Day(t) % 7 \in ConvertWeekday(c.day_of_week)

\* next_run goes on minute by minute.  replace(day=day + 1) raises ValueError
\* at the end of a month, so it never looks beyond the last minute of it, and a
\* month is shorter than the 525600 minutes of its loop.
LastMinute(t) ==
    (Min({e \in MonthEnds : e >= Day(t)}) + 1) * HourLength * DayLength - 1
Ahead(c, t) == {u \in t + 1 .. LastMinute(t) : Matches(c, u)}
Raises(c, t) == Ahead(c, t) = {}
NextRun(c, t) == Min(Ahead(c, t))

\* Months go on for as long as the time that is considered.
ASSUME SchedulerAssumption ==
    /\ HourLength \in Nat \ {0} /\ DayLength \in Nat \ {0} /\ MonthEnds \subseteq Nat
    /\ Horizon \in Nat /\ MaxFailures \in Nat /\ MaxEdits \in Nat
    /\ \A t \in 0 .. Horizon : \E e \in MonthEnds : e >= Day(t)
    /\ Nothing \notin Nat \cup ScheduledJob

-----------------------------------------------------------------------------
(* The schedule.                                                           *)

Edit == edits < MaxEdits /\ edits' = edits + 1

\* add_job, also of a name that is there; it raises when next_run does.
AddJob(i, j) ==
    /\ Edit
    /\ ~Raises(Cron[j], now)
    /\ jobs' = [jobs EXCEPT ![i] = @ \cup {j}]
    /\ enabled' = [enabled EXCEPT ![i] = @ \cup {j}]
    /\ nextRun' = [nextRun EXCEPT ![i][j] = NextRun(Cron[j], now)]
    /\ check' = [check EXCEPT ![i].held = @ /\ check[i].job # j]
    /\ UNCHANGED <<now, elected, loop, last, unanswered, failures>>

\* del _jobs[name]; `gone`: of an entry that the iteration has left behind.
RemoveJob(i, j) ==
    /\ Edit
    /\ j \in jobs[i]
    /\ jobs' = [jobs EXCEPT ![i] = @ \ {j}]
    /\ check' = [check EXCEPT ![i].held = @ /\ check[i].job # j,
                             ![i].gone = @ \/ (loop[i] = "submitting" /\ j \notin check[i].todo)]
    /\ UNCHANGED <<now, enabled, nextRun, elected, loop, last, unanswered, failures>>

EnableJob(i, j) ==
    /\ Edit
    /\ j \in jobs[i] \ enabled[i]
    /\ enabled' = [enabled EXCEPT ![i] = @ \cup {j}]
    /\ UNCHANGED <<now, jobs, nextRun, elected, loop, check, last, unanswered, failures>>

DisableJob(i, j) ==
    /\ Edit
    /\ j \in jobs[i] \cap enabled[i]
    /\ enabled' = [enabled EXCEPT ![i] = @ \ {j}]
    /\ UNCHANGED <<now, jobs, nextRun, elected, loop, check, last, unanswered, failures>>

-----------------------------------------------------------------------------
(* The loop.  It gives way only while it awaits queue.submit and sleep.    *)

NoCheck == [now |-> 0, job |-> Nothing, held |-> FALSE, todo |-> {}, size |-> 0, gone |-> FALSE]

\* Mutant of IsDue: only in the very minute.
IsDueNow(t, next) == t = next

IsDue(t, next) == t >= next

Due(i, t, js) == {j \in js \cap jobs[i] \cap enabled[i] : IsDue(t, nextRun[i][j])}

StartScheduler(i) ==
    /\ loop[i] = "off"
    /\ Edit
    /\ loop' = [loop EXCEPT ![i] = "asleep"]
    /\ UNCHANGED <<now, jobs, enabled, nextRun, elected, check, last, unanswered, failures>>

\* The sleep is over, the leader checks: with nothing due it sleeps on, else it
\* submits one that is due; the jobs before it in the dictionary were not due.
Check(i) ==
    /\ loop[i] = "asleep" /\ i \in elected
    /\ \E j \in Due(i, now, jobs[i]), passed \in SUBSET (jobs[i] \ Due(i, now, jobs[i])) :
          check' = [check EXCEPT ![i] = [now |-> now, job |-> j, held |-> TRUE,
                                         todo |-> jobs[i] \ (passed \cup {j}),
                                         size |-> Cardinality(jobs[i]), gone |-> FALSE]]
    /\ loop' = [loop EXCEPT ![i] = "submitting"]
    /\ UNCHANGED <<now, jobs, enabled, nextRun, elected, last, unanswered, failures, edits>>

\* The next entry of the dictionary that is due, schedules being n by now.  A
\* dictionary that has changed its size raises RuntimeError, which no one
\* catches: run() stops the scheduler.  So it does when the size is the same but
\* an entry went that was left behind: the one added for it is one too many,
\* unless the dictionary was compacted.
Continue(i, n) ==
    LET c == check[i]
        due == {j \in c.todo \cap jobs[i] \cap enabled[i] : IsDue(c.now, n[j])}
    IN \/ /\ Cardinality(jobs[i]) # c.size \/ c.gone
          /\ loop' = [loop EXCEPT ![i] = "off"]
          /\ elected' = elected \ {i}
          /\ check' = [check EXCEPT ![i] = NoCheck]
       \/ /\ Cardinality(jobs[i]) = c.size
          /\ due = {}
          /\ loop' = [loop EXCEPT ![i] = "asleep"]
          /\ check' = [check EXCEPT ![i] = NoCheck]
          /\ UNCHANGED elected
       \/ /\ Cardinality(jobs[i]) = c.size
          /\ \E j \in due, passed \in SUBSET (c.todo \ due) :
                check' = [check EXCEPT ![i].job = j, ![i].held = TRUE,
                                       ![i].todo = @ \ (passed \cup {j})]
          /\ UNCHANGED <<loop, elected>>

Submitted(i, j) == last' = [last EXCEPT ![i][j] = check[i].now]

\* Mutant of Reschedule: the time after the one that was due, not after now.
RescheduleNext(i, j) ==
    IF ~check[i].held \/ Raises(Cron[j], nextRun[i][j]) THEN nextRun[i]
    ELSE [nextRun[i] EXCEPT ![j] = NextRun(Cron[j], nextRun[i][j])]

\* job.next_run = cron.next_run(now): of an entry that was replaced or removed
\* meanwhile nobody sees it, and when it raises next_run stays as it is.
Reschedule(i, j) ==
    IF ~check[i].held \/ Raises(Cron[j], check[i].now) THEN nextRun[i]
    ELSE [nextRun[i] EXCEPT ![j] = NextRun(Cron[j], check[i].now)]

SubmitReturns(i) ==
    LET j == check[i].job IN
    /\ loop[i] = "submitting"
    /\ Submitted(i, j)
    /\ unanswered' = unanswered \ {<<i, j>>}
    /\ nextRun' = [nextRun EXCEPT ![i] = Reschedule(i, j)]
    /\ Continue(i, Reschedule(i, j))
    /\ UNCHANGED <<now, jobs, enabled, failures, edits>>

\* It raises, before or after the queue has taken the job: the same job is due
\* at the next check.
SubmitRaises(i) ==
    LET j == check[i].job IN
    /\ loop[i] = "submitting"
    /\ failures < MaxFailures /\ failures' = failures + 1
    /\ \/ Submitted(i, j) /\ unanswered' = unanswered \cup {<<i, j>>}
       \/ UNCHANGED <<last, unanswered>>
    /\ Continue(i, nextRun[i])
    /\ UNCHANGED <<now, jobs, enabled, nextRun, edits>>

\* Mutant of StopScheduler: leader.stop() is not called.
StopLeading(i) ==
    /\ loop[i] = "asleep"
    /\ Edit
    /\ loop' = [loop EXCEPT ![i] = "off"]
    /\ UNCHANGED <<now, jobs, enabled, nextRun, elected, check, last, unanswered, failures>>

\* stop: the loop ends after its sleep, so a stop while it submits is one later.
StopScheduler(i) ==
    /\ loop[i] = "asleep"
    /\ Edit
    /\ loop' = [loop EXCEPT ![i] = "off"]
    /\ elected' = elected \ {i}
    /\ UNCHANGED <<now, jobs, enabled, nextRun, check, last, unanswered, failures>>

SchedulerCrashes(i) ==
    /\ loop[i] # "off"
    /\ failures < MaxFailures /\ failures' = failures + 1
    /\ loop' = [loop EXCEPT ![i] = "off"]
    /\ jobs' = [jobs EXCEPT ![i] = {}]
    /\ enabled' = [enabled EXCEPT ![i] = {}]
    /\ elected' = elected \ {i}
    /\ check' = [check EXCEPT ![i] = NoCheck]
    /\ last' = [last EXCEPT ![i] = [j \in ScheduledJob |-> Nothing]]
    /\ unanswered' = {u \in unanswered : u[1] # i}
    /\ UNCHANGED <<now, nextRun, edits>>

-----------------------------------------------------------------------------
(* LeaderElection, and time.                                               *)

GainsLead(i) ==
    /\ Edit
    /\ loop[i] # "off" /\ elected = {}
    /\ elected' = {i}
    /\ UNCHANGED <<now, jobs, enabled, nextRun, loop, check, last, unanswered, failures>>

LosesLead(i) ==
    /\ Edit
    /\ i \in elected
    /\ elected' = elected \ {i}
    /\ UNCHANGED <<now, jobs, enabled, nextRun, loop, check, last, unanswered, failures>>

MinutePasses ==
    /\ now < Horizon
    /\ now' = now + 1
    /\ UNCHANGED <<jobs, enabled, nextRun, elected, loop, check, last, unanswered, failures, edits>>

-----------------------------------------------------------------------------
\* Every instance has set up the same schedule.
SchedulerInit ==
    /\ now = 0
    /\ jobs = [i \in Scheduling |-> {j \in ScheduledJob : ~Raises(Cron[j], 0)}]
    /\ enabled = jobs
    /\ nextRun = [i \in Scheduling |->
                    [j \in ScheduledJob |-> IF Raises(Cron[j], 0) THEN 0 ELSE NextRun(Cron[j], 0)]]
    /\ elected \in {{}} \cup {{i} : i \in Scheduling}
    /\ loop = [i \in Scheduling |-> "asleep"]
    /\ check = [i \in Scheduling |-> NoCheck]
    /\ last = [i \in Scheduling |-> [j \in ScheduledJob |-> Nothing]]
    /\ unanswered = {}
    /\ failures = 0 /\ edits = 0

SchedulerStep(i) == Check(i) \/ SubmitReturns(i)

SchedulerNext ==
    \/ \E i \in Scheduling :
          \/ \E j \in ScheduledJob : AddJob(i, j) \/ RemoveJob(i, j) \/ EnableJob(i, j) \/ DisableJob(i, j)
          \/ StartScheduler(i) \/ SchedulerStep(i) \/ SubmitRaises(i) \/ StopScheduler(i) \/ SchedulerCrashes(i)
          \/ GainsLead(i) \/ LosesLead(i)
    \/ MinutePasses

SchedulerSpec == SchedulerInit /\ [][SchedulerNext]_schedulerVars

\* Sleeps end and the queue answers.
SchedulerFairSpec == SchedulerSpec /\ \A i \in Scheduling : WF_schedulerVars(SchedulerStep(i))

-----------------------------------------------------------------------------
(* Properties.                                                             *)

Schedules == [Scheduling -> SUBSET ScheduledJob]

SchedulerTypeOK ==
    /\ now \in 0 .. Horizon
    /\ jobs \in Schedules /\ enabled \in Schedules
    /\ nextRun \in [Scheduling -> [ScheduledJob -> Nat]]
    /\ elected \subseteq {i \in Scheduling : loop[i] # "off"}
    /\ loop \in [Scheduling -> {"off", "asleep", "submitting"}]
    /\ \A i \in Scheduling : loop[i] = "submitting" => check[i].job \in ScheduledJob
    /\ last \in [Scheduling -> [ScheduledJob -> 0 .. Horizon \cup {Nothing}]]
    /\ unanswered \subseteq Scheduling \X ScheduledJob

\* Whatever is added, removed, replaced, enabled or disabled while a submission
\* is awaited, and whoever led in between, an instance submits a job again only
\* if the cron expression has matched since the check in which it submitted it
\* last itself, unless that submission was reported as failed, or next_run raised
\* at the end of the month.  Every instance keeps its own next_run and only the
\* leader's goes on, so that a new leader submits once more what the one before
\* has submitted: a match costs one submission per instance, not one.
SubmitsAgain(i, j) ==
    /\ loop[i] = "submitting" /\ check[i].job = j
    /\ last[i][j] # Nothing
    /\ SubmitReturns(i) \/ SubmitRaises(i)

MatchedSince(i, j) == \E u \in last[i][j] + 1 .. check[i].now : Matches(Cron[j], u)

OncePerMatchAndInstance ==
    [][\A i \in Scheduling, j \in ScheduledJob :
          SubmitsAgain(i, j)
          => \/ MatchedSince(i, j)
             \/ <<i, j>> \in unanswered
             \/ Raises(Cron[j], last[i][j])]_schedulerVars

Late(i, j) == i \in elected /\ j \in jobs[i] \cap enabled[i] /\ now >= nextRun[i][j]

\* What is due while an instance leads is submitted, whatever happens to the
\* rest of the schedule, unless the scheduler ends or loses its leadership, or
\* next_run raises at the end of the month.
DueIsSubmitted ==
    \A i \in Scheduling, j \in ScheduledJob :
        Late(i, j) ~> ~Late(i, j) \/ Raises(Cron[j], now)
=============================================================================
