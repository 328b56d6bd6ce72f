----------------------------- MODULE MCBackground -----------------------------
(* The parts that run in the background, one at a time: `part` is chosen at  *)
(* the start and the other parts stand still.                                *)
EXTENDS LeaderElection, JobQueue, Scheduler, TLC

VARIABLE part

\* Daily at 1:00, and at every minute of Mondays and Wednesdays.
Always == [minute |-> 0 .. 59, hour |-> 0 .. 23, day_of_month |-> 1 .. 31,
           month |-> 1 .. 12, day_of_week |-> 0 .. 6]
CronOf == [j \in ScheduledJob |->
              IF j = "daily" THEN [Always EXCEPT !.minute = {0}, !.hour = {1}]
                             ELSE [Always EXCEPT !.day_of_week = {1, 3}]]

\* Two minutes an hour, two hours a day, months of one or two days.
DaysThatEndMonths == {0, 2, 4}

\* The instance whose schedule changes.
First == CHOOSE i \in Scheduling : TRUE

leaderVars == <<lock, ttl, leader, pc, timer, late, faults>>
backgroundVars == <<part, leaderVars, queueVars, schedulerVars>>

BackgroundInit ==
    /\ Init /\ QueueInit /\ SchedulerInit
    /\ part \in {"leader", "queue", "schedule", "failover"}
    /\ part = "schedule" => elected \subseteq {First}
    /\ part \in {"leader", "queue"} => elected = {}

\* A step of a part; the others keep still.
OfLeader(A) == part = "leader" /\ A /\ UNCHANGED <<part, queueVars, schedulerVars>>
OfQueue(A) == part = "queue" /\ A /\ UNCHANGED <<part, leaderVars, schedulerVars>>
OfSchedule(p, A) == part = p /\ A /\ UNCHANGED <<part, leaderVars, queueVars>>

\* One instance, the others asleep; or all of them, which take the lead from each
\* other, lose it and stop, with a schedule that stands.
OneSchedule ==
    /\ elected' \subseteq {First}
    /\ \A i \in Scheduling \ {First} :
          /\ loop'[i] = loop[i] /\ nextRun'[i] = nextRun[i]
          /\ jobs'[i] = jobs[i] /\ enabled'[i] = enabled[i]
Failover ==
    /\ failures' = failures
    /\ edits' # edits => loop' # loop \/ elected' # elected

BackgroundNext ==
    \/ OfLeader(Next)
    \/ OfQueue(CalmNext)
    \/ OfSchedule("schedule", SchedulerNext /\ OneSchedule)
    \/ OfSchedule("failover", SchedulerNext /\ Failover)

\* The fairness of FairSpec, CalmSpec and SchedulerFairSpec, part by part.
BackgroundSpec ==
    /\ BackgroundInit /\ [][BackgroundNext]_backgroundVars
    /\ \A i \in Instance : WF_backgroundVars(OfLeader(Step(i)))
    /\ WF_backgroundVars(OfLeader(Tick))
    /\ \A w \in Worker : WF_backgroundVars(OfQueue(WorkerStep(w)))
    /\ \A c \in Client : WF_backgroundVars(OfQueue(SubmitPush(c)))
    /\ \A i \in Scheduling :
          WF_backgroundVars(OfSchedule("schedule", SchedulerStep(i))
                            \/ OfSchedule("failover", SchedulerStep(i)))

-----------------------------------------------------------------------------
\* The variables of every part keep their types, and only a running scheduler leads.
BackgroundTypeOK == TypeOK /\ QueueTypeOK /\ SchedulerTypeOK
=============================================================================
