------------------------------- MODULE JobQueue -------------------------------
(***************************************************************************)
(* The Redis job queue (titan.jobs.queue) with the workers that process    *)
(* its jobs (titan.jobs.worker) and the clients that submit and cancel     *)
(* them (titan.api.routers.jobs, the scheduler).                           *)
(*                                                                         *)
(* Every method is a sequence of Redis commands, each of them atomic and   *)
(* awaited; one step of the model is one command and the computation up to *)
(* the next.  Between two commands a coroutine keeps the job it has read   *)
(* (`copy`), which it writes back whole.                                   *)
(*                                                                         *)
(* A worker of the model is one coroutine of a worker process: it claims a *)
(* job in claim_jobs and goes on as the task _process_job.                 *)
(***************************************************************************)
EXTENDS Absence, Naturals, SequencesExt

CONSTANTS
    Job,            \* job identifiers (uuid4: never used twice)
    Worker,         \* the coroutines that claim and process jobs
    Client,         \* the coroutines that submit and cancel jobs
    MaxRetries      \* max_retries of every job

Status == {"pending", "running", "completed", "cancelled", "dead"}
Record == [status : Status, attempts : Nat]

ASSUME JobAssumption ==
    /\ MaxRetries \in Nat
    /\ Nothing \notin Job \cup Record

VARIABLES
    job,            \* titan:job:<id>, [Job -> Record or Nothing]
    pending,        \* titan:jobs:pending, the next job to claim is the last
    processing,     \* titan:jobs:processing
    dlq,            \* titan:jobs:dlq
    unused,         \* identifiers no submit has drawn
    worker,         \* [Worker -> Coroutine]
    client          \* [Client -> Coroutine]

queueVars == <<job, pending, processing, dlq, unused, worker, client>>

At(pc, j, copy) == [pc |-> pc, job |-> j, copy |-> copy]

Idle == At("idle", Nothing, Nothing)

WorkerPc == {"idle", "popped", "expired", "claiming", "running", "completing",
             "completed", "raised", "failing", "moving", "queueing"}
ClientPc == {"idle", "submitting", "cancelling", "removing", "marking"}

Coroutine(pcs) == [pc : pcs, job : Job \cup {Nothing}, copy : Record \cup {Nothing}]

-----------------------------------------------------------------------------
(* Redis commands.                                                         *)

Push(list, j) == <<j>> \o list

\* LREM <list> 1 <j>
Removed(list, j) == RemoveFirst(list, j)

Write(j, record) == job' = [job EXCEPT ![j] = record]

WorkerAt(w, pc) == worker[w].pc = pc

GoOn(w, pc, copy) ==
    worker' = [worker EXCEPT ![w] = At(pc, @.job, copy)]

Rest(w) == worker' = [worker EXCEPT ![w] = Idle]

-----------------------------------------------------------------------------
(* Submitting.                                                             *)

\* submit: SET of a new job ...
Submit(c) ==
    /\ client[c].pc = "idle"
    /\ \E j \in unused :
         /\ Write(j, [status |-> "pending", attempts |-> 0])
         /\ unused' = unused \ {j}
         /\ client' = [client EXCEPT ![c] = At("submitting", j, Nothing)]
    /\ UNCHANGED <<pending, processing, dlq, worker>>

\* ... and LPUSH.
SubmitPush(c) ==
    /\ client[c].pc = "submitting"
    /\ pending' = Push(pending, client[c].job)
    /\ client' = [client EXCEPT ![c] = Idle]
    /\ UNCHANGED <<job, processing, dlq, unused, worker>>

-----------------------------------------------------------------------------
(* Claiming: claim_jobs.                                                   *)

\* Mutant of Pop: LINDEX and LPUSH, the job stays in the pending list.
PopLeavingPending(w) ==
    /\ WorkerAt(w, "idle")
    /\ pending # << >>
    /\ processing' = Push(processing, Last(pending))
    /\ worker' = [worker EXCEPT ![w] = At("popped", Last(pending), Nothing)]
    /\ UNCHANGED <<job, pending, dlq, unused, client>>

\* BRPOPLPUSH
Pop(w) ==
    /\ WorkerAt(w, "idle")
    /\ pending # << >>
    /\ pending' = Front(pending)
    /\ processing' = Push(processing, Last(pending))
    /\ worker' = [worker EXCEPT ![w] = At("popped", Last(pending), Nothing)]
    /\ UNCHANGED <<job, dlq, unused, client>>

\* Mutant of ReadClaimed: the attempt is not counted.
ReadClaimedUncounted(w) ==
    /\ WorkerAt(w, "popped")
    /\ LET r == job[worker[w].job] IN
       IF r = Nothing
       THEN GoOn(w, "expired", Nothing)
       ELSE GoOn(w, "claiming", [r EXCEPT !.status = "running"])
    /\ UNCHANGED <<job, pending, processing, dlq, unused, client>>

\* GET; the status is not looked at.
ReadClaimed(w) ==
    /\ WorkerAt(w, "popped")
    /\ LET r == job[worker[w].job] IN
       IF r = Nothing
       THEN GoOn(w, "expired", Nothing)
       ELSE GoOn(w, "claiming", [status |-> "running", attempts |-> r.attempts + 1])
    /\ UNCHANGED <<job, pending, processing, dlq, unused, client>>

\* LREM of a job that has expired.
DropExpired(w) ==
    /\ WorkerAt(w, "expired")
    /\ processing' = Removed(processing, worker[w].job)
    /\ Rest(w)
    /\ UNCHANGED <<job, pending, dlq, unused, client>>

\* SET, and the job is handed to its handler.
StartJob(w) ==
    /\ WorkerAt(w, "claiming")
    /\ Write(worker[w].job, worker[w].copy)
    /\ GoOn(w, "running", worker[w].copy)
    /\ UNCHANGED <<pending, processing, dlq, unused, client>>

-----------------------------------------------------------------------------
(* Completing: complete_job, after the handler has returned.               *)

ReadToComplete(w) ==
    /\ WorkerAt(w, "running")
    /\ LET r == job[worker[w].job] IN
       IF r = Nothing
       THEN Rest(w)
       ELSE GoOn(w, "completing", [r EXCEPT !.status = "completed"])
    /\ UNCHANGED <<job, pending, processing, dlq, unused, client>>

WriteCompleted(w) ==
    /\ WorkerAt(w, "completing")
    /\ Write(worker[w].job, worker[w].copy)
    /\ GoOn(w, "completed", worker[w].copy)
    /\ UNCHANGED <<pending, processing, dlq, unused, client>>

LeaveProcessing(w) ==
    /\ WorkerAt(w, "completed")
    /\ processing' = Removed(processing, worker[w].job)
    /\ Rest(w)
    /\ UNCHANGED <<job, pending, dlq, unused, client>>

\* Redis has done the LREM, the answer is lost, and the exception reaches the
\* `except` of _process_job.
LeaveProcessingUnanswered(w) ==
    /\ WorkerAt(w, "completed")
    /\ processing' = Removed(processing, worker[w].job)
    /\ GoOn(w, "raised", worker[w].copy)
    /\ UNCHANGED <<job, pending, dlq, unused, client>>

-----------------------------------------------------------------------------
(* Failing: fail_job.                                                      *)

\* Mutant of Failed: a job without attempts left is `failed`, not `dead`.
FailedForGood(r, retry) ==
    [r EXCEPT !.status =
        IF retry /\ r.attempts < MaxRetries THEN "pending" ELSE "failed"]

\* Retried while attempts are left, else buried.
Failed(r, retry) ==
    [r EXCEPT !.status =
        IF retry /\ r.attempts < MaxRetries THEN "pending" ELSE "dead"]

ReadToFail(w, retry) ==
    LET r == job[worker[w].job] IN
    /\ IF r = Nothing THEN Rest(w) ELSE GoOn(w, "failing", Failed(r, retry))
    /\ UNCHANGED <<job, pending, processing, dlq, unused, client>>

\* The handler raised; or there is none for the task, which is no retry.
HandlerFails(w) ==
    /\ WorkerAt(w, "running")
    /\ \E retry \in BOOLEAN : ReadToFail(w, retry)

\* complete_job itself raised: the `except` is around it as well.
CompletionFails(w) ==
    /\ worker[w].pc \in {"completing", "completed", "raised"}
    /\ ReadToFail(w, TRUE)

\* Mutant of FailRemove: no LREM before the job is queued again.
FailWithoutRemove(w) ==
    /\ WorkerAt(w, "failing")
    /\ GoOn(w, "moving", worker[w].copy)
    /\ UNCHANGED <<job, pending, processing, dlq, unused, client>>

\* Mutant of FailRemove: LPUSH at once, before the SET.
FailRemoveQueueingFirst(w) ==
    /\ WorkerAt(w, "failing")
    /\ processing' = Removed(processing, worker[w].job)
    /\ pending' = Push(pending, worker[w].job)
    /\ GoOn(w, "moving", worker[w].copy)
    /\ UNCHANGED <<job, dlq, unused, client>>

FailRemove(w) ==
    /\ WorkerAt(w, "failing")
    /\ processing' = Removed(processing, worker[w].job)
    /\ GoOn(w, "moving", worker[w].copy)
    /\ UNCHANGED <<job, pending, dlq, unused, client>>

WriteFailed(w) ==
    /\ WorkerAt(w, "moving")
    /\ Write(worker[w].job, worker[w].copy)
    /\ GoOn(w, "queueing", worker[w].copy)
    /\ UNCHANGED <<pending, processing, dlq, unused, client>>

\* Mutant of Requeue: the LPUSH is forgotten.
RequeueNowhere(w) ==
    /\ WorkerAt(w, "queueing")
    /\ worker[w].copy.status = "pending"
    /\ Rest(w)
    /\ UNCHANGED <<job, pending, processing, dlq, unused, client>>

Requeue(w) ==
    /\ WorkerAt(w, "queueing")
    /\ worker[w].copy.status = "pending"
    /\ pending' = Push(pending, worker[w].job)
    /\ Rest(w)
    /\ UNCHANGED <<job, processing, dlq, unused, client>>

Bury(w) ==
    /\ WorkerAt(w, "queueing")
    /\ worker[w].copy.status = "dead"
    /\ dlq' = Push(dlq, worker[w].job)
    /\ Rest(w)
    /\ UNCHANGED <<job, pending, processing, unused, client>>

-----------------------------------------------------------------------------
(* Cancelling: cancel_job.                                                 *)

Cancel(c) ==
    /\ client[c].pc = "idle"
    /\ \E j \in Job :
         /\ job[j] # Nothing
         /\ job[j].status \in {"pending", "running"}
         /\ client' = [client EXCEPT ![c] =
                         At("cancelling", j, [job[j] EXCEPT !.status = "cancelled"])]
    /\ UNCHANGED <<job, pending, processing, dlq, unused, worker>>

CancelPending(c) ==
    /\ client[c].pc = "cancelling"
    /\ pending' = Removed(pending, client[c].job)
    /\ client' = [client EXCEPT ![c] = At("removing", @.job, @.copy)]
    /\ UNCHANGED <<job, processing, dlq, unused, worker>>

CancelProcessing(c) ==
    /\ client[c].pc = "removing"
    /\ processing' = Removed(processing, client[c].job)
    /\ client' = [client EXCEPT ![c] = At("marking", @.job, @.copy)]
    /\ UNCHANGED <<job, pending, dlq, unused, worker>>

WriteCancelled(c) ==
    /\ client[c].pc = "marking"
    /\ Write(client[c].job, client[c].copy)
    /\ client' = [client EXCEPT ![c] = Idle]
    /\ UNCHANGED <<pending, processing, dlq, unused, worker>>

-----------------------------------------------------------------------------
(* Faults.                                                                 *)

\* A killed process, or an exception that nobody handles: nothing takes a job
\* back from the processing list.
AbortWorker(w) ==
    /\ ~WorkerAt(w, "idle")
    /\ Rest(w)
    /\ UNCHANGED <<job, pending, processing, dlq, unused, client>>

AbortClient(c) ==
    /\ client[c].pc # "idle"
    /\ client' = [client EXCEPT ![c] = Idle]
    /\ UNCHANGED <<job, pending, processing, dlq, unused, worker>>

\* job_ttl, result_ttl
Expire(j) ==
    /\ job[j] # Nothing
    /\ Write(j, Nothing)
    /\ UNCHANGED <<pending, processing, dlq, unused, worker, client>>

-----------------------------------------------------------------------------
QueueInit ==
    /\ job = [j \in Job |-> Nothing]
    /\ pending = << >> /\ processing = << >> /\ dlq = << >>
    /\ unused = Job
    /\ worker = [w \in Worker |-> Idle]
    /\ client = [c \in Client |-> Idle]

Claim(w) == Pop(w) \/ ReadClaimed(w) \/ DropExpired(w) \/ StartJob(w)
Complete(w) == ReadToComplete(w) \/ WriteCompleted(w) \/ LeaveProcessing(w)
Fail(w) ==
    \/ HandlerFails(w) \/ FailRemove(w) \/ WriteFailed(w)
    \/ Requeue(w) \/ Bury(w)
WorkerStep(w) == Claim(w) \/ Complete(w) \/ Fail(w)

CancelJob(c) ==
    Cancel(c) \/ CancelPending(c) \/ CancelProcessing(c) \/ WriteCancelled(c)

CalmNext ==
    \/ \E w \in Worker : Claim(w) \/ Complete(w) \/ Fail(w)
    \/ \E c \in Client : Submit(c) \/ SubmitPush(c)

QueueFault ==
    \/ \E w \in Worker :
          LeaveProcessingUnanswered(w) \/ CompletionFails(w) \/ AbortWorker(w)
    \/ \E c \in Client : AbortClient(c)
    \/ \E j \in Job : Expire(j)

QueueNext == CalmNext \/ (\E c \in Client : CancelJob(c)) \/ QueueFault

QueueSpec == QueueInit /\ [][QueueNext]_queueVars

\* Nobody cancels, nothing crashes or expires; handlers end, and the loop of a
\* worker and a submit that has begun go on.  Nobody has to submit anything.
CalmSpec ==
    /\ QueueInit /\ [][CalmNext]_queueVars
    /\ \A w \in Worker : WF_queueVars(WorkerStep(w))
    /\ \A c \in Client : WF_queueVars(SubmitPush(c))

-----------------------------------------------------------------------------
(* Properties.                                                             *)

\* Every variable keeps its type (Redis keys and lists, coroutines).
QueueTypeOK ==
    /\ job \in [Job -> Record \cup {Nothing}]
    /\ pending \in Seq(Job) /\ processing \in Seq(Job) /\ dlq \in Seq(Job)
    /\ unused \in SUBSET Job
    /\ worker \in [Worker -> Coroutine(WorkerPc)]
    /\ client \in [Client -> Coroutine(ClientPc)]

Submitting == {client[c].job : c \in {x \in Client : client[x].pc = "submitting"}}

Pool == INSTANCE JobPool
    WITH new <- unused \cup Submitting, waiting <- ToSet(pending),
         holds <- [w \in Worker |-> worker[w].job]

\* Whatever is cancelled, retried, lost or expires, a job is in the hands of
\* one worker at a time and gets there from the pending list (claim_jobs:
\* "prevents duplicate processing").
ImplementsPool == Pool!Spec

Once(list) == \A i, k \in 1 .. Len(list) : list[i] = list[k] => i = k

\* A job stands at most once in the three lists together: list_jobs and
\* get_queue_stats count no job twice, and LREM ... 1 removes all there is.
InOneListOnce ==
    /\ Once(pending) /\ Once(processing) /\ Once(dlq)
    /\ ToSet(pending) \cap ToSet(processing) = {}
    /\ ToSet(pending) \cap ToSet(dlq) = {}
    /\ ToSet(processing) \cap ToSet(dlq) = {}

InHand(j) ==
    \/ \E w \in Worker : worker[w].job = j
    \/ \E c \in Client : client[c].job = j

Final == {"completed", "dead"}

\* Without faults and cancels an unfinished job is always somewhere a worker
\* finds it, in the pending list or in the hands of a coroutine, and a finished
\* one nowhere.
NothingLost ==
    \A j \in Job : job[j] # Nothing =>
        IF job[j].status \in Final
        THEN j \notin ToSet(pending)
        ELSE j \in ToSet(pending) \/ InHand(j)

\* Without faults and cancels a finished job stays as it is: a result is never
\* taken back by a retry, nor a dead job revived.
FinishedStays ==
    [][\A j \in Job :
          job[j] # Nothing /\ job[j].status \in Final => job'[j] = job[j]]_queueVars

\* Without faults and cancels every job that is submitted is completed or ends
\* in the dead letter queue: retries run out.
EveryJobEnds ==
    \A j \in Job : j \notin unused
                   ~> (job[j] # Nothing /\ job[j].status \in Final)
=============================================================================
