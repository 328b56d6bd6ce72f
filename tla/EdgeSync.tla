------------------------------ MODULE EdgeSync ------------------------------
(***************************************************************************)
(* An edge node (titan.federation.edge): changes are queued while the hub  *)
(* is away and pushed when it is there.  Each coroutine of the controller  *)
(* - the first link, reconnect loops, sync loops, syncs that are asked for *)
(* and those of high priority - is a member of EdgeTask.  The hub may take *)
(* or refuse any request.  What is pulled goes to stubs that do nothing,   *)
(* so a pull is the wait for its answers.  Changes are numbered as they    *)
(* come, which is their order in every list, so a list of changes is the   *)
(* set of their numbers.                                                   *)
(***************************************************************************)
EXTENDS Integers, Sequences, FiniteSets, FiniteSetsExt

CONSTANTS
    Change,         \* the kinds of changes: [pushable : BOOLEAN, priority].  One
                    \* without data, or of an entity type other than aas and
                    \* submodel, has no request to send
    EdgeTask,       \* bound on the tasks that exist at a time
    MaxQueued,      \* bound on the changes that are queued
    MaxOfflineQueue, RetryAttempts, AutoReconnect,
    MaxCalls        \* bound on sync_now, clear_pending and stop

ASSUME EdgeAssumption ==
    /\ MaxOfflineQueue \in Nat /\ RetryAttempts \in Nat /\ AutoReconnect \in BOOLEAN
    /\ 0 \notin EdgeTask /\ IsFiniteSet(EdgeTask)

VARIABLES
    link,           \* _connection_state
    started,
    changes,        \* sequence of all changes: [pushable, priority]
    waiting,        \* _pending_queue
    attempts,       \* sequence of their attempts
    task,           \* [EdgeTask -> where it is]
    syncTask, reconnectTask,    \* those that stop() cancels
    accepted,       \* the changes that the hub has taken
    calls

edgeVars == <<link, started, changes, waiting, attempts, task, syncTask, reconnectTask,
              accepted, calls>>

\* `copy` is the queue as the sync found it, `at` the change it is pushing.
NoTask == [pc |-> "none", loop |-> "none", copy |-> {}, at |-> 0, pushed |-> {}]
Asleep(loop) == [NoTask EXCEPT !.pc = "asleep", !.loop = loop]
Free == {t \in EdgeTask : task[t].pc = "none"}
Call == calls < MaxCalls /\ calls' = calls + 1

-----------------------------------------------------------------------------
(* The waiting queue.                                                      *)

LowPriority == {n \in waiting : changes[n].priority = "low"}

\* A full queue gives up its oldest change of low priority, or the new one.  A
\* change of high priority gets a sync of its own at once.
QueueChange(c) ==
    LET n == Len(changes) + 1
        full == Cardinality(waiting) >= MaxOfflineQueue
    IN /\ n <= MaxQueued
       /\ changes' = Append(changes, c)
       /\ attempts' = Append(attempts, 0)
       /\ \/ full /\ LowPriority = {} /\ UNCHANGED <<waiting, task>>
          \/ /\ full => LowPriority # {}
             /\ waiting' = (IF full THEN waiting \ {Min(LowPriority)} ELSE waiting) \cup {n}
             /\ IF link = "connected" /\ c.priority = "high"
                THEN \E t \in Free : task' = [task EXCEPT ![t].pc = "high"]
                ELSE UNCHANGED task
       /\ UNCHANGED <<link, started, syncTask, reconnectTask, accepted, calls>>

ClearPending ==
    /\ Call
    /\ waiting # {}
    /\ waiting' = {}
    /\ UNCHANGED <<link, started, changes, attempts, task, syncTask, reconnectTask, accepted>>

-----------------------------------------------------------------------------
(* _sync_to_hub.                                                           *)

\* Mutant of Remaining: what is left of the copy.
RemainingOfCopy(copy, pushed) == copy \ pushed

Remaining(copy, pushed) == waiting \ pushed

\* Mutant of Costs: an attempt without a request is free.
CostsNothing(n) == FALSE

Costs(n) == ~changes[n].pushable

\* The changes of the copy, after the one `past`, that a request is to be sent for;
\* what has no request to send costs an attempt on the way, what has none left is
\* passed.
ToSend(copy, past, counts) ==
    {n \in copy : n > past /\ changes[n].pushable /\ counts[n] < RetryAttempts}

SendNext(t, s, past, counts) ==
    LET ahead == ToSend(s.copy, past, counts)
        passed == {n \in s.copy : n > past /\ \A m \in ahead : n < m}
    IN /\ attempts' = [n \in DOMAIN counts |->
                          IF n \in passed /\ Costs(n) /\ counts[n] < RetryAttempts
                          THEN counts[n] + 1 ELSE counts[n]]
       /\ IF ahead # {}
          THEN /\ task' = [task EXCEPT ![t] = [s EXCEPT !.pc = "push", !.at = Min(ahead)]]
               /\ UNCHANGED waiting
          ELSE /\ task' = [task EXCEPT ![t] = [s EXCEPT !.pc = "pull"]]
               /\ waiting' = Remaining(s.copy, s.pushed)

BeginSync(t, loop) ==
    SendNext(t, [NoTask EXCEPT !.loop = loop, !.copy = waiting], 0, attempts)

\* The hub takes the change or refuses it; its answer may get lost.
PushAnswered(t) ==
    LET s == task[t]
        n == s.at
    IN /\ s.pc = "push"
       /\ \/ /\ accepted' = accepted \cup {n}
             /\ SendNext(t, [s EXCEPT !.pushed = @ \cup {n}], n, attempts)
          \/ /\ accepted' \in {accepted, accepted \cup {n}}
             /\ SendNext(t, s, n, [attempts EXCEPT ![n] = @ + 1])
       /\ UNCHANGED <<link, started, changes, syncTask, reconnectTask, calls>>

\* Both pulls are over.  A sync loop goes on while the node is connected.
PullsAnswered(t) ==
    /\ task[t].pc = "pull"
    /\ task' = [task EXCEPT ![t] =
                   IF @.loop = "sync" /\ link = "connected" THEN Asleep("sync") ELSE NoTask]
    /\ UNCHANGED <<link, started, changes, waiting, attempts, syncTask, reconnectTask,
                   accepted, calls>>

SyncLoopWakes(t) ==
    /\ task[t].pc = "asleep" /\ task[t].loop = "sync"
    /\ BeginSync(t, "sync")
    /\ UNCHANGED <<link, started, changes, syncTask, reconnectTask, accepted, calls>>

SyncHighPriority(t) ==
    /\ task[t].pc = "high"
    /\ \/ /\ \E n \in waiting : changes[n].priority = "high"
          /\ BeginSync(t, "none")
       \/ /\ \A n \in waiting : changes[n].priority # "high"
          /\ task' = [task EXCEPT ![t] = NoTask]
          /\ UNCHANGED <<waiting, attempts>>
    /\ UNCHANGED <<link, started, changes, syncTask, reconnectTask, accepted, calls>>

SyncNow(t) ==
    /\ Call
    /\ link = "connected" /\ t \in Free
    /\ BeginSync(t, "none")
    /\ UNCHANGED <<link, started, changes, syncTask, reconnectTask, accepted>>

-----------------------------------------------------------------------------
(* The connection.                                                         *)

Start(t) ==
    /\ ~started /\ t \in Free
    /\ started' = TRUE
    /\ link' = "connecting"
    /\ task' = [task EXCEPT ![t].pc = "connecting"]
    /\ UNCHANGED <<changes, waiting, attempts, syncTask, reconnectTask, accepted, calls>>

\* A reconnect loop tries even when another one has connected meanwhile.
ReconnectLoopWakes(t) ==
    /\ task[t].pc = "asleep" /\ task[t].loop = "reconnect"
    /\ link' = "connecting"
    /\ task' = [task EXCEPT ![t].pc = "connecting"]
    /\ UNCHANGED <<started, changes, waiting, attempts, syncTask, reconnectTask, accepted, calls>>

\* A sync loop starts; the coroutine that has connected ends, and its place in
\* EdgeTask goes to the loop.
ConnectSucceeds(t) ==
    /\ task[t].pc = "connecting"
    /\ link' = "connected"
    /\ task' = [task EXCEPT ![t] = Asleep("sync")]
    /\ syncTask' = t
    /\ reconnectTask' = IF reconnectTask = t THEN 0 ELSE reconnectTask
    /\ UNCHANGED <<started, changes, waiting, attempts, accepted, calls>>

\* Mutant of Reconnecting: the first failure starts no loop.
ReconnectingIfLoop(t) ==
    /\ task' = [task EXCEPT ![t] = IF @.loop = "reconnect" THEN Asleep("reconnect") ELSE NoTask]
    /\ UNCHANGED reconnectTask

\* A new reconnect loop starts.  The one that has tried goes on as well, so they
\* are one more after every failure, as long as there is room in EdgeTask.
Reconnecting(t) ==
    LET new == IF task[t].loop = "reconnect" THEN Free ELSE {t} IN
    \/ /\ new = {}
       /\ task' = [task EXCEPT ![t] = Asleep("reconnect")]
       /\ UNCHANGED reconnectTask
    \/ \E u \in new :
       /\ task' = [task EXCEPT ![t] = Asleep("reconnect"), ![u] = Asleep("reconnect")]
       /\ reconnectTask' = u

ConnectFails(t) ==
    /\ task[t].pc = "connecting"
    /\ link' = "disconnected"
    /\ IF AutoReconnect THEN Reconnecting(t)
       ELSE task' = [task EXCEPT ![t] = NoTask] /\ UNCHANGED reconnectTask
    /\ UNCHANGED <<started, changes, waiting, attempts, syncTask, accepted, calls>>

\* Cancels the loops that were started last, not those before them.
Stop ==
    /\ Call
    /\ started /\ started' = FALSE
    /\ task' = [t \in EdgeTask |-> IF t \in {syncTask, reconnectTask} THEN NoTask ELSE task[t]]
    /\ syncTask' = 0 /\ reconnectTask' = 0
    /\ UNCHANGED <<link, changes, waiting, attempts, accepted>>

-----------------------------------------------------------------------------
EdgeInit ==
    /\ link = "disconnected" /\ started = FALSE
    /\ changes = <<>> /\ waiting = {} /\ attempts = <<>>
    /\ task = [t \in EdgeTask |-> NoTask]
    /\ syncTask = 0 /\ reconnectTask = 0
    /\ accepted = {}
    /\ calls = 0

\* What a task does by itself once its request is answered.
TaskStep(t) ==
    SyncLoopWakes(t) \/ SyncHighPriority(t) \/ ReconnectLoopWakes(t) \/ PushAnswered(t)
    \/ PullsAnswered(t) \/ ConnectSucceeds(t) \/ ConnectFails(t)

EdgeNext ==
    \/ \E c \in Change : QueueChange(c)
    \/ ClearPending \/ Stop
    \/ \E t \in EdgeTask : Start(t) \/ SyncNow(t) \/ TaskStep(t)

EdgeSpec == EdgeInit /\ [][EdgeNext]_edgeVars

\* Sleeps end, requests are answered, and the hub does not stay away for ever.
EdgeFairSpec ==
    /\ EdgeSpec
    /\ \A t \in EdgeTask : WF_edgeVars(TaskStep(t)) /\ SF_edgeVars(ConnectSucceeds(t))

-----------------------------------------------------------------------------
(* Properties.                                                             *)

EdgeTypeOK ==
    /\ link \in {"connected", "disconnected", "connecting"}
    /\ changes \in Seq(Change) /\ Len(attempts) = Len(changes)
    /\ \A n \in DOMAIN attempts : attempts[n] \in 0 .. RetryAttempts + Cardinality(EdgeTask)
    /\ waiting \subseteq DOMAIN changes /\ Cardinality(waiting) <= MaxOfflineQueue
    /\ accepted \subseteq DOMAIN changes
    /\ {syncTask, reconnectTask} \subseteq EdgeTask \cup {0}
    /\ \A t \in EdgeTask :
          /\ task[t].pc \in {"none", "asleep", "high", "push", "pull", "connecting"}
          /\ task[t].loop \in {"none", "sync", "reconnect"}
          /\ task[t].pc = "push" => task[t].at \in task[t].copy
          /\ task[t].pushed \subseteq accepted

\* Syncs that overlap each other and changes that are queued meanwhile lose
\* nothing: a change leaves the queue when the hub has taken it, when it has low
\* priority and a full queue needs its place, or when the queue is cleared.
KeptUntilTaken ==
    [][\A n \in waiting \ waiting' :
          \/ n \in accepted'
          \/ ClearPending
          \/ changes[n].priority = "low" /\ Len(changes') > Len(changes)]_edgeVars

\* A change that is queued leaves the queue or has had all its attempts, however
\* often the connection is lost, unless the controller is stopped.
EveryChangeTried ==
    \A n \in 1 .. MaxQueued :
        (started /\ n \in waiting)
        ~> (~started \/ n \notin waiting \/ attempts[n] >= RetryAttempts)
=============================================================================
