----------------------------- MODULE FederationSync -----------------------------
(***************************************************************************)
(* Synchronization with peers (titan.federation.sync, peer, conflicts and  *)
(* the federation router).  Local changes are queued; sync_once pushes     *)
(* them to one healthy peer after the other and then compares the peer's   *)
(* documents with the local ones.  Changes are numbered in the order in    *)
(* which they are tracked, which is the order of their timestamps; a       *)
(* document's version and its ETag are the number of the change that wrote *)
(* it; a list of changes is the set of their numbers.                      *)
(***************************************************************************)
EXTENDS Absence, Integers, Sequences, FiniteSets, SequencesExt

CONSTANTS
    Peer, Entity, Sync,  \* peers, entities, and the runs of sync_once
    Pulled,         \* entity types in the order in which they are pulled
    TypeOf,         \* [Entity -> type]
    Delta,          \* delta_sync_enabled
    Hub,            \* hub_peer_id, or Nothing
    MaxSize,        \* of the change queue
    MaxChanges,     \* bound on the changes that are tracked
    MaxTriggers,    \* bound on the runs of sync_once
    MaxOutside      \* bound on what peers and operators do besides

ASSUME FederationAssumption ==
    /\ Delta \in BOOLEAN /\ Pulled \in Seq(STRING)
    /\ MaxSize \in Nat \ {0} /\ MaxChanges \in Nat
    /\ Nothing \notin Peer

VARIABLES
    tracked,    \* sequence of all changes ever tracked
    queue,      \* the pending changes: ChangeQueue._changes
    etags,      \* [Entity -> version or 0]: _etag_store
    status,     \* [Peer -> PeerStatus, "new" before and "gone" after]
    lastSync,   \* [Peer -> the last change when the last sync ended, or 0]
    mode,
    sync,       \* [Sync -> where this run of sync_once is]
    conflicts,  \* ConflictManager; conflicts that agree in all are one
    remote,     \* [Peer -> [Entity -> version, or 0 when absent]]
    taken,      \* pairs of a change and a peer that has processed it
    triggers, outside

federationVars == <<tracked, queue, etags, status, lastSync, mode, sync, conflicts, remote,
                    taken, triggers, outside>>

Operation == {"create", "update", "delete"}
Mode == {"push", "pull", "bidirectional"}
Strategy == {"last_write_wins", "local_preferred", "remote_preferred", "manual"}

Outside == outside < MaxOutside /\ outside' = outside + 1

Now == Len(tracked)
Versions(e) == {n \in 1 .. Now : tracked[n].entity = e}

\* The local store, as the local data provider sees it.
Local(e) ==
    LET n == CHOOSE m \in Versions(e) : \A k \in Versions(e) : k <= m
    IN IF Versions(e) = {} \/ tracked[n].operation = "delete" THEN 0 ELSE n

-----------------------------------------------------------------------------
(* The change queue.                                                       *)

\* self._changes[-self._max_size + 1:], which is all of them for a size of 1.
Newest(q, n) == {k \in q : n = 0 \/ Cardinality({m \in q : m >= k}) <= n}

AddChange(q, n) ==
    (IF Cardinality(q) >= MaxSize THEN Newest(q, MaxSize - 1) ELSE q) \cup {n}

GetPending(q, since) == {n \in q : ~Delta \/ n > since}

\* Mutant of MarkSynced: the changes that were tried.
MarkAllSynced(q, tried, ids) == q \ tried

MarkSynced(q, tried, ids) == q \ ids

\* A local write of entity e, with or without its ETag.
TrackChange(e, operation, tagged) ==
    /\ Now < MaxChanges
    /\ (operation = "create") = (Local(e) = 0)
    /\ tracked' = Append(tracked, [entity |-> e, operation |-> operation])
    /\ queue' = AddChange(queue, Now + 1)
    /\ etags' = IF tagged THEN [etags EXCEPT ![e] = Now + 1] ELSE etags
    /\ UNCHANGED <<status, lastSync, mode, sync, conflicts, remote, taken, triggers, outside>>

ClearPendingChanges ==
    /\ Outside
    /\ queue # {}
    /\ queue' = {}
    /\ UNCHANGED <<tracked, etags, status, lastSync, mode, sync, conflicts, remote, taken, triggers>>

-----------------------------------------------------------------------------
(* The peers.                                                              *)

Registered == {p \in Peer : status[p] \notin {"new", "gone"}}
ListHealthy == {p \in Peer : status[p] = "online"}

RegisterPeer(p) ==
    /\ Outside
    /\ status[p] = "new"
    /\ status' = [status EXCEPT ![p] = "unknown"]
    /\ UNCHANGED <<tracked, queue, etags, lastSync, mode, sync, conflicts, remote, taken, triggers>>

\* A sync that is at the peer, or has it on its list, goes on.
UnregisterPeer(p) ==
    /\ Outside
    /\ p \in Registered
    /\ status' = [status EXCEPT ![p] = "gone"]
    /\ UNCHANGED <<tracked, queue, etags, lastSync, mode, sync, conflicts, remote, taken, triggers>>

\* The health check of the loop, of the registration or of the operator: the
\* peer answers 200, answers anything else, or does not answer.
CheckHealth(p) ==
    /\ Outside
    /\ p \in Registered
    /\ \E s \in {"online", "degraded", "offline"} : status' = [status EXCEPT ![p] = s]
    /\ UNCHANGED <<tracked, queue, etags, lastSync, mode, sync, conflicts, remote, taken, triggers>>

\* Someone else writes on the peer.
PeerWrites(p, e) ==
    /\ Outside
    /\ p \in Registered /\ remote[p][e] # -1
    /\ remote' = [remote EXCEPT ![p][e] = -1]
    /\ UNCHANGED <<tracked, queue, etags, status, lastSync, mode, sync, conflicts, taken, triggers>>

GetSyncPeers == IF Hub = Nothing THEN ListHealthy ELSE ListHealthy \cap {Hub}

-----------------------------------------------------------------------------
(* sync_once.  It gives way only while it awaits the answer of a peer.     *)

NoRun == [pc |-> "idle", peer |-> Nothing, peers |-> {}, changes |-> {}, tried |-> {},
          synced |-> {}, page |-> 0, alone |-> TRUE]

Pushes(m) == m \in {"push", "bidirectional"}
Pulls(m) == m \in {"pull", "bidirectional"}

ToPush(q, p, m) == IF Pushes(m) THEN GetPending(q, lastSync[p]) ELSE {}

\* Mutant of Stamp: not after a change that the peer did not take.
StampComplete(peers, s) ==
    [p \in Peer |-> IF p \in peers /\ s.tried \subseteq s.synced THEN Now ELSE lastSync[p]]

\* peer.last_sync = now, whatever came of the pushes.
Stamp(peers, s) == [p \in Peer |-> IF p \in peers THEN Now ELSE lastSync[p]]

\* The run r, at s, goes on with the next of its peers that it has something to
\* ask of, the other runs being as in `runs`; `done` are the peers it has just
\* finished with.
NextPeer(runs, r, s, done, q, m) ==
    LET skipped == {p \in s.peers : ToPush(q, p, m) = {} /\ ~Pulls(m)}
    IN \/ /\ s.peers \subseteq skipped
          /\ sync' = [runs EXCEPT ![r] = NoRun]
          /\ lastSync' = Stamp(done \cup skipped, s)
       \/ \E p \in s.peers \ skipped, before \in SUBSET skipped :
          /\ sync' = [runs EXCEPT ![r] =
                [s EXCEPT !.pc = IF ToPush(q, p, m) = {} THEN "pull" ELSE "push",
                          !.peer = p, !.peers = @ \ (before \cup {p}),
                          !.changes = ToPush(q, p, m), !.tried = {}, !.synced = {},
                          !.page = 1]]
          /\ lastSync' = Stamp(done \cup before, s)

\* sync_once starts, with `mode` perhaps set by the request.  A run that meets
\* another one is no longer alone, and neither is the other.
TriggerSync(r, m) ==
    LET others == {o \in Sync : sync[o].pc # "idle"}
        runs == [o \in Sync |-> [sync[o] EXCEPT !.alone = @ /\ o \notin others]]
    IN /\ sync[r].pc = "idle"
       /\ triggers < MaxTriggers /\ triggers' = triggers + 1
       /\ mode' = m
       /\ NextPeer(runs, r, [NoRun EXCEPT !.peers = GetSyncPeers, !.alone = others = {}], {}, queue, m)
       /\ UNCHANGED <<tracked, queue, etags, status, conflicts, remote, taken, outside>>

\* What the peer makes of a change: POST creates what is not there, PUT replaces
\* what is, DELETE removes it.
Present(p, e) == remote[p][e] # 0

Applied(p, n) ==
    LET e == tracked[n].entity
    IN IF (tracked[n].operation = "create") = Present(p, e) THEN remote[p][e]
       ELSE IF tracked[n].operation = "delete" THEN 0 ELSE n

\* 201 and 409, 200 and 204, 204 and 404.
CountsAsSuccess(p, n) == tracked[n].operation = "update" => Present(p, tracked[n].entity)

\* The push of the first change ends.  `ok`: the peer has answered that all is
\* well.  After the last change those that went well leave the queue.
PushEnds(r, ok) ==
    LET s == sync[r]
        n == Min(s.changes)
        after == [s EXCEPT !.changes = @ \ {n}, !.tried = @ \cup {n},
                           !.synced = IF ok THEN @ \cup {n} ELSE @]
    IN IF s.changes # {n}
       THEN sync' = [sync EXCEPT ![r] = after] /\ UNCHANGED <<queue, lastSync>>
       ELSE /\ queue' = MarkSynced(queue, after.tried, after.synced)
            /\ IF Pulls(mode)
               THEN /\ sync' = [sync EXCEPT ![r] = [after EXCEPT !.pc = "pull"]]
                    /\ UNCHANGED lastSync
               ELSE NextPeer(sync, r, after, {s.peer}, queue', mode)

\* The peer takes the change; its answer may get lost.
PushTaken(r) ==
    LET s == sync[r] IN
    /\ s.pc = "push"
    /\ LET n == Min(s.changes) IN
       /\ remote' = [remote EXCEPT ![s.peer][tracked[n].entity] = Applied(s.peer, n)]
       /\ taken' = IF CountsAsSuccess(s.peer, n) THEN taken \cup {<<n, s.peer>>} ELSE taken
       /\ \E answered \in BOOLEAN : PushEnds(r, answered /\ CountsAsSuccess(s.peer, n))
    /\ UNCHANGED <<tracked, etags, status, mode, conflicts, triggers, outside>>

\* It does not reach the peer, or is refused.
PushFails(r) ==
    /\ sync[r].pc = "push"
    /\ PushEnds(r, FALSE)
    /\ UNCHANGED <<tracked, etags, status, mode, conflicts, remote, taken, triggers, outside>>

\* _check_and_handle_conflict.
HasConflict(p, e) == etags[e] # 0 /\ etags[e] # remote[p][e] /\ Local(e) # 0

ConflictWith(p, e) == [peer |-> p, entity |-> e, local |-> etags[e], remote |-> remote[p][e],
                       strategy |-> Nothing]

\* The next type, or the end of the peer.
PageEnds(r) ==
    LET s == sync[r] IN
    IF s.page < Len(Pulled)
    THEN sync' = [sync EXCEPT ![r].page = @ + 1] /\ UNCHANGED lastSync
    ELSE NextPeer(sync, r, s, {s.peer}, queue, mode)

\* The documents of one type, in one page: they are compared and left alone.
PullAnswered(r) ==
    LET p == sync[r].peer
        items == {e \in Entity : TypeOf[e] = Pulled[sync[r].page] /\ Present(p, e)}
    IN /\ sync[r].pc = "pull"
       /\ conflicts' = conflicts \cup {ConflictWith(p, e) : e \in {x \in items : HasConflict(p, x)}}
       /\ PageEnds(r)
       /\ UNCHANGED <<tracked, queue, etags, status, mode, remote, taken, triggers, outside>>

PullFails(r) ==
    /\ sync[r].pc = "pull"
    /\ PageEnds(r)
    /\ UNCHANGED <<tracked, queue, etags, status, mode, conflicts, remote, taken, triggers, outside>>

-----------------------------------------------------------------------------
(* Conflicts are resolved on paper: the chosen document goes nowhere.      *)

Unresolved(peers) == {c \in conflicts : c.strategy = Nothing /\ c.peer \in peers}
Resolve(c, strategy) ==
    IF strategy = "manual" THEN c ELSE [c EXCEPT !.strategy = strategy]

ResolveConflict(c, strategy) ==
    /\ Outside
    /\ c \in Unresolved(Peer) /\ strategy # "manual"
    /\ conflicts' = (conflicts \ {c}) \cup {Resolve(c, strategy)}
    /\ UNCHANGED <<tracked, queue, etags, status, lastSync, mode, sync, remote, taken, triggers>>

ResolveAll(peers, strategy) ==
    /\ Outside
    /\ Unresolved(peers) # {}
    /\ conflicts' = (conflicts \ Unresolved(peers))
                    \cup {Resolve(c, strategy) : c \in Unresolved(peers)}
    /\ UNCHANGED <<tracked, queue, etags, status, lastSync, mode, sync, remote, taken, triggers>>

ClearResolved ==
    /\ Outside
    /\ conflicts # Unresolved(Peer)
    /\ conflicts' = Unresolved(Peer)
    /\ UNCHANGED <<tracked, queue, etags, status, lastSync, mode, sync, remote, taken, triggers>>

-----------------------------------------------------------------------------
FederationInit ==
    /\ tracked = <<>> /\ queue = {}
    /\ etags = [e \in Entity |-> 0]
    /\ status \in [Peer -> {"new", "online"}]
    /\ lastSync = [p \in Peer |-> 0]
    /\ mode = "bidirectional"
    /\ sync = [r \in Sync |-> NoRun]
    /\ conflicts = {}
    /\ remote = [p \in Peer |-> [e \in Entity |-> 0]]
    /\ taken = {}
    /\ triggers = 0 /\ outside = 0

SyncStep(r) == PushTaken(r) \/ PushFails(r) \/ PullAnswered(r) \/ PullFails(r)

FederationNext ==
    \/ \E e \in Entity, operation \in Operation, tagged \in BOOLEAN :
          TrackChange(e, operation, tagged)
    \/ ClearPendingChanges
    \/ \E p \in Peer : RegisterPeer(p) \/ UnregisterPeer(p) \/ CheckHealth(p)
    \/ \E p \in Peer, e \in Entity : PeerWrites(p, e)
    \/ \E r \in Sync : SyncStep(r) \/ \E m \in Mode : TriggerSync(r, m)
    \/ \E c \in conflicts, strategy \in Strategy : ResolveConflict(c, strategy)
    \/ \E peers \in SUBSET Peer, strategy \in Strategy : ResolveAll(peers, strategy)
    \/ ClearResolved

FederationSpec == FederationInit /\ [][FederationNext]_federationVars

-----------------------------------------------------------------------------
(* Properties.                                                             *)

FederationTypeOK ==
    /\ queue \subseteq 1 .. Now /\ (MaxSize > 1 => Cardinality(queue) <= MaxSize)
    /\ etags \in [Entity -> 0 .. Now] /\ lastSync \in [Peer -> 0 .. Now]
    /\ remote \in [Peer -> [Entity -> -1 .. Now]]
    /\ taken \subseteq (1 .. Now) \X Peer
    /\ mode \in Mode
    /\ \A r \in Sync : LET s == sync[r] IN
          /\ s.pc \in {"idle", "push", "pull"}
          /\ s.pc = "push" => s.changes # {} /\ s.changes \subseteq 1 .. Now
          /\ s.pc # "idle" => s.peer \in Peer \ s.peers
          /\ s.synced \subseteq s.tried

\* A change leaves the queue only when a peer has taken it, when it is the
\* oldest of a full queue, or when the operator clears the queue: failed pushes,
\* lost answers, peers that come and go and runs that overlap never lose one.
LeavesUntaken(n) == n \in queue \ queue' /\ \A p \in Peer : <<n, p>> \notin taken'

NothingLeavesUntaken ==
    [][\A n \in 1 .. Now :
          LeavesUntaken(n)
          => \/ ClearPendingChanges
             \/ Now' > Now /\ Cardinality(queue) >= MaxSize /\ n = Min(queue)]_federationVars

\* With delta sync and one run at a time no push takes a peer back to an older
\* document than one it had from us, although pushes fail one by one.
TakenBack(r) ==
    LET n == Min(sync[r].changes) IN
    /\ sync[r].pc = "push" /\ remote' # remote
    /\ \E m \in n + 1 .. Now : /\ tracked[m].entity = tracked[n].entity
                               /\ <<m, sync[r].peer>> \in taken

PeersNeverGoBack ==
    [][Delta => \A r \in Sync : TakenBack(r) /\ PushTaken(r) => ~sync[r].alone]_federationVars

ChangesKept == NothingLeavesUntaken /\ PeersNeverGoBack

\* sync.py:46, "All peers sync with each other": a change that was pushed has
\* been pushed to every peer of the run.
EveryPeerTakes ==
    [][\A r \in Sync : queue' # queue /\ PushTaken(r)
          => \A n \in queue \ queue', p \in sync[r].peers : <<n, p>> \in taken']_federationVars
=============================================================================
