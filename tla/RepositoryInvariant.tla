------------------------- MODULE RepositoryInvariant -------------------------
(***************************************************************************)
(* The inductive invariant of Repository: what every request in flight     *)
(* knows, and owes, at each of its awaits.                                 *)
(***************************************************************************)
EXTENDS Repository

\* Document k has been read before the i-th of the remaining steps, or one of
\* the steps before it is going to read it, and gives up if there is none.
Available(r, k, i) ==
    \/ r.snap[k] # Absent
    \/ \E j \in 1 .. (i - 1) :
          r.todo[j].do \in {"lookup", "fetch"} /\ r.todo[j].key = k

\* The documents the decision of a handler, or its link step, works on.
Wanted(r) ==
    {k \in Key : k = r.shell \/ (k = r.key /\ r.family \in {"modify", "quiet_modify"})}

Writing(r) == r.family \notin {"idle", "read", "committed"}

\* Who acts on what; a link step has the shell it is going to change at hand.
WellAddressed(r) ==
    /\ Writing(r) => r.key \in Key
    /\ r.family \in {"attach", "detach", "put_for_shell", "delete_for_shell"}
       => r.key \in Submodel /\ r.shell \in Shell
    /\ \A i \in 1 .. Len(r.todo) :
          r.todo[i].do = "link"
          => /\ r.todo[i].key \in Submodel
             /\ r.shell \in Shell /\ r.snap[r.shell] # Absent
    /\ r.family = "idle" => r.todo = << >>

\* A cache fill has a document to fill in, a decision the documents it needs.
\* A probe may find nothing, so no later step relies on it.
WellRead(r) ==
    /\ \A i \in 1 .. Len(r.todo) :
          /\ r.todo[i].do \in {"fill", "value_set"} => Available(r, r.todo[i].key, i)
          /\ r.todo[i].do = "probe" => i = Len(r.todo) /\ r.todo[i].key \notin Wanted(r)
    /\ \A k \in Wanted(r) : Available(r, k, Len(r.todo) + 1)

\* What was read, and what is still to be cached or published, is in the
\* history h.
WellCommitted(r, h) ==
    /\ \A k \in Key : r.snap[k] # Absent => r.snap[k] \in h[k]
    /\ \A i \in 1 .. Len(r.todo) :
          /\ r.todo[i].do = "set" => r.todo[i].doc \in h[r.todo[i].key] \ {Absent}
          /\ r.todo[i].do \in PublishStep => r.todo[i].doc \in h[r.todo[i].key]

WellFormed(r, h) == WellAddressed(r) /\ WellRead(r) /\ WellCommitted(r, h)

\* The edit of a request that has not committed is in no document yet.
Unused(edit) == \A k \in Key : \A d \in Documents(k) : edit \notin d

WellNumbered ==
    /\ \A c \in Client : Writing(req[c])
                         => req[c].edit \in 1 .. started /\ Unused(req[c].edit)
    /\ \A c, o \in Client : c # o /\ Writing(req[c]) /\ Writing(req[o])
                            => req[c].edit # req[o].edit
    /\ \A k \in Key : \A d \in Documents(k) : d \cap Edit \subseteq 1 .. started

StoreCommitted ==
    /\ \A k \in Key : db[k] # Absent => db[k] \in history[k]
    /\ \A k \in Key : cache[k] # Absent => cache[k] \in history[k]

IInv ==
    /\ TypeOK
    /\ StoreCommitted
    /\ NothingUncommittedLeaks
    /\ \A c \in Client : WellFormed(req[c], history)
    /\ WellNumbered

-----------------------------------------------------------------------------
(* What a request that runs alone knows and owes.                          *)

QuietFamily == {"quiet_create", "quiet_modify", "quiet_delete"}

\* One of the steps r has left to do sets or drops the entry of k.
Owes(r, steps, k) ==
    \E i \in 1 .. Len(r.todo) : r.todo[i].do \in steps /\ r.todo[i].key = k

\* Until it commits, nothing is stale, and what it has read is what is there.
UpToDate(r) ==
    /\ Fresh
    /\ \A k \in Key : r.snap[k] \in {Absent, db[k]}
    /\ \A i \in 1 .. Len(r.todo) : r.todo[i].do \in ReadStep

\* Afterwards, what is stale is still to be set or dropped, and what is to be set
\* is what was committed.  A link comes when all of that is done.
Owing(r) ==
    /\ \A k \in Key : cache[k] \in {Absent, db[k]} \/ Owes(r, {"set", "evict"}, k)
    /\ \A m \in Submodel : values[m] \in {Absent, db[m]} \/ Owes(r, {"drop_values"}, m)
    /\ \A i \in 1 .. Len(r.todo) :
          /\ r.todo[i].do \notin ReadStep
          /\ r.todo[i].do = "set" => r.todo[i].doc = db[r.todo[i].key]
          /\ r.todo[i].do = "link" => i = Len(r.todo)

Settles(r) ==
    /\ r.family \notin QuietFamily
    /\ IF r.family = "committed" THEN Owing(r) ELSE UpToDate(r)

\* The only client.
AloneInv == \A c \in Client : Settles(req[c])
=============================================================================
