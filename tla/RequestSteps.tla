----------------------------- MODULE RequestSteps -----------------------------
(***************************************************************************)
(* The shared state of the document API and the steps that every HTTP      *)
(* handler of titan.api.routers is made of.                                *)
(*                                                                         *)
(* A handler is a coroutine: it runs from one `await` to the next, and     *)
(* other requests (of this process or of another replica) run in between.  *)
(* So a request is the list of awaits it still has to make (`todo`), with  *)
(* the documents it has read so far (`snap`); one step of the model is one *)
(* await on Redis or on PostgreSQL, together with the local computation    *)
(* that follows it.                                                        *)
(*                                                                         *)
(* A document is abstracted to the set of marks it carries: the serial     *)
(* numbers of the requests whose edits are part of it and the Submodels a  *)
(* shell references.  Equal documents have equal ETags (the ETag is a hash *)
(* of the canonical bytes); two bodies sent by two requests always differ. *)
(***************************************************************************)
EXTENDS Naturals, Sequences, FiniteSets

CONSTANTS
    Shell,          \* identifiers of Asset Administration Shells
    Submodel,       \* identifiers of Submodels
    Concept,        \* identifiers of ConceptDescriptions
    Client,         \* the concurrent requests, over all replicas
    MaxMutations,   \* bound on the mutating requests of a behaviour
    Absent,         \* no row in the table, no entry in the cache
    None            \* no shell in the path, no If-Match header
                    \* (both are sets in the .cfg files, as documents are, for
                    \* TLC to compare them with documents)

Key == Shell \cup Submodel \cup Concept
Edit == 1 .. MaxMutations
Mark == Edit \cup Submodel
Doc == SUBSET Mark
DocOrAbsent == Doc \cup {Absent}

ASSUME ConstantsAssumption ==
    /\ MaxMutations \in Nat \ {0}
    /\ Absent \notin Doc
    /\ None \notin Doc \cup Key
    /\ Shell \cap Submodel = {}
    /\ Shell \cap Concept = {}
    /\ Submodel \cap Concept = {}
    /\ Edit \cap Submodel = {}

VARIABLES
    db,         \* [Key -> DocOrAbsent]: the committed rows of the tables
    cache,      \* [Key -> DocOrAbsent]: the document and ETag pairs in Redis
    values,     \* [Submodel -> DocOrAbsent]: the element $value entry in Redis,
                \* as the document it was extracted from
    event,      \* the change event last published on the event bus
    history,    \* [Key -> documents ever committed; Absent once it was deleted]
    req,        \* [Client -> Request]: the requests in flight
    started     \* how many mutating requests were started

vars == <<db, cache, values, event, history, req, started>>

-----------------------------------------------------------------------------
(* Requests.                                                               *)

\* The handler families, the quiet ones writing without cache and events, and
\* the stretch after a commit, which is the same for all of them.
Family == {"idle", "read", "create", "put", "modify", "delete",
           "attach", "detach", "put_for_shell", "delete_for_shell",
           "quiet_create", "quiet_modify", "quiet_delete", "committed"}

\* How the new document is made of the one that was read.
Change == {"none", "replace", "add", "swap", "drop"}

ReadStep == {"value_get", "lookup", "fetch", "probe", "fill", "value_set"}
WriteStep == {"set", "evict", "drop_values", "link"}
PublishStep == {"created", "updated", "deleted"}

Effect == [do : ReadStep \cup WriteStep \cup PublishStep,
           key : Key, doc : DocOrAbsent]

NoEvent == [do |-> "created", key |-> None, doc |-> Absent]

Request == [family : Family,
            key    : Key \cup {None},
            shell  : Shell \cup {None},
            tag    : Doc \cup {None},
            change : Change,
            edit   : 0 .. MaxMutations,
            snap   : [Key -> DocOrAbsent],
            todo   : Seq(Effect)]

NothingRead == [k \in Key |-> Absent]

Idle == [family |-> "idle", key |-> None, shell |-> None, tag |-> None,
         change |-> "none", edit |-> 0, snap |-> NothingRead,
         todo |-> << >>]

Active(c) == req[c].family # "idle"
Mutating(family) == family \notin {"idle", "read"}

Await(step, k) == [do |-> step, key |-> k, doc |-> Absent]
AwaitWith(step, k, d) == [do |-> step, key |-> k, doc |-> d]

Sent(family, k, s, tag, change, edit, todo) ==
    [family |-> family, key |-> k, shell |-> s, tag |-> tag, change |-> change,
     edit |-> edit, snap |-> NothingRead, todo |-> todo]

\* A client sends a request.  Only the mutating ones are counted and bounded.
Begin(c, family, k, s, tag, change, todo) ==
    /\ req[c].family = "idle"
    /\ Mutating(family) => started < MaxMutations
    /\ started' = IF Mutating(family) THEN started + 1 ELSE started
    /\ req' = [req EXCEPT ![c] =
                 Sent(family, k, s, tag, change,
                      IF Mutating(family) THEN started + 1 ELSE 0, todo)]
    /\ UNCHANGED <<db, cache, values, event, history>>

-----------------------------------------------------------------------------
(* Going on.  A request is over when a read has nothing left to do, or a   *)
(* write has performed all that follows its commit.                        *)

AfterStep(r, rest, snap) ==
    IF rest = << >> /\ r.family \in {"read", "committed"}
    THEN Idle
    ELSE [r EXCEPT !.todo = rest, !.snap = snap]

GoOn(c, rest, snap) == req' = [req EXCEPT ![c] = AfterStep(@, rest, snap)]

Finish(c) == req' = [req EXCEPT ![c] = Idle]

Next1(c) == Head(req[c].todo)
Rest(c) == Tail(req[c].todo)
At(c, step) == Active(c) /\ req[c].todo # << >> /\ Next1(c).do = step

-----------------------------------------------------------------------------
(* Reading.                                                                *)

\* cache.get_element_value: a hit is the response.
ValueGet(c) ==
    /\ At(c, "value_get")
    /\ IF values[Next1(c).key] # Absent
       THEN Finish(c)
       ELSE GoOn(c, Rest(c), req[c].snap)
    /\ UNCHANGED <<db, cache, values, event, history, started>>

\* A shell-scoped handler looks at the Submodel only if the shell document it
\* has read references it (_ensure_submodel_reference), else it answers 404.
OutOfShell(r, k) ==
    /\ r.shell # None
    /\ k # r.shell
    /\ k \notin r.snap[r.shell]

\* cache.get_aas, get_submodel, get_concept_description: a hit is what the
\* handler goes on with, a miss adds the database read and the cache fill.
Lookup(c) ==
    /\ At(c, "lookup")
    /\ LET k == Next1(c).key IN
       \/ /\ OutOfShell(req[c], k)
          /\ Finish(c)
       \/ /\ ~OutOfShell(req[c], k)
          /\ cache[k] # Absent
          /\ GoOn(c, Rest(c), [req[c].snap EXCEPT ![k] = cache[k]])
       \/ /\ ~OutOfShell(req[c], k)
          /\ cache[k] = Absent
          /\ GoOn(c, <<Await("fetch", k), Await("fill", k)>> \o Rest(c),
                  req[c].snap)
    /\ UNCHANGED <<db, cache, values, event, history, started>>

\* repo.get_bytes_by_id, get_model_by_id, exists, and what the caller does with
\* "not there": fetch answers 404, probe goes on and remembers it.
ReadRow(c) ==
    /\ At(c, "fetch") \/ At(c, "probe")
    /\ LET k == Next1(c).key IN
       IF Next1(c).do = "fetch" /\ db[k] = Absent
       THEN Finish(c)
       ELSE GoOn(c, Rest(c), [req[c].snap EXCEPT ![k] = db[k]])
    /\ UNCHANGED <<db, cache, values, event, history, started>>

\* cache.set_* after a miss, with what the database read returned.
Fill(c) ==
    /\ At(c, "fill")
    /\ cache' = [cache EXCEPT ![Next1(c).key] = req[c].snap[Next1(c).key]]
    /\ GoOn(c, Rest(c), req[c].snap)
    /\ UNCHANGED <<db, values, event, history, started>>

\* cache.set_element_value with the value extracted from the document read.
ValueSet(c) ==
    /\ At(c, "value_set")
    /\ values' = [values EXCEPT ![Next1(c).key] = req[c].snap[Next1(c).key]]
    /\ GoOn(c, Rest(c), req[c].snap)
    /\ UNCHANGED <<db, cache, event, history, started>>

-----------------------------------------------------------------------------
(* After the commit: cache, element values, events.                        *)

\* cache.set_aas, set_submodel, set_concept_description.
SetCache(c) ==
    /\ At(c, "set")
    /\ cache' = [cache EXCEPT ![Next1(c).key] = Next1(c).doc]
    /\ GoOn(c, Rest(c), req[c].snap)
    /\ UNCHANGED <<db, values, event, history, started>>

\* Mutant of EvictCache: a "not there" marker is cached instead.
EvictCacheWithMarker(c) ==
    /\ At(c, "evict")
    /\ cache' = [cache EXCEPT ![Next1(c).key] = None]
    /\ GoOn(c, Rest(c), req[c].snap)
    /\ UNCHANGED <<db, values, event, history, started>>

\* cache.delete_aas, delete_submodel, delete_concept_description.
EvictCache(c) ==
    /\ At(c, "evict")
    /\ cache' = [cache EXCEPT ![Next1(c).key] = Absent]
    /\ GoOn(c, Rest(c), req[c].snap)
    /\ UNCHANGED <<db, values, event, history, started>>

\* cache.invalidate_submodel_elements: with one $value key per Submodel, the
\* SCAN and the DELETE of the key it found are one step.
DropValues(c) ==
    /\ At(c, "drop_values")
    /\ values' = [values EXCEPT ![Next1(c).key] = Absent]
    /\ GoOn(c, Rest(c), req[c].snap)
    /\ UNCHANGED <<db, cache, event, history, started>>

\* event_bus.publish through publish_aas_event, publish_submodel_event,
\* publish_concept_description_event and the *_deleted helpers.
Publish(c) ==
    /\ \E step \in PublishStep : At(c, step)
    /\ event' = Next1(c)
    /\ GoOn(c, Rest(c), req[c].snap)
    /\ UNCHANGED <<db, cache, values, history, started>>

-----------------------------------------------------------------------------
(* Commits.  A handler reads the row again in repo.update or repo.delete,  *)
(* changes it, flushes and commits; nothing it does in between is visible  *)
(* to others, and the row lock of the flush orders it with other writers,  *)
(* so the four are one step.  Nothing compares the row with the one that   *)
(* was read for the If-Match check.                                        *)

\* All reads are done and the decision is the handler's.
Ready(c, family) ==
    /\ req[c].family = family
    /\ req[c].todo = << >>

Committed(k, d) == history' = [history EXCEPT ![k] = @ \cup {d}]

Then(c, effects) ==
    req' = [req EXCEPT ![c] =
              IF effects = << >> THEN Idle
              ELSE [Idle EXCEPT !.family = "committed", !.todo = effects]]

\* put_submodel_by_id_for_shell goes on to the shell it has read.
ThenInShell(c, s, effects) ==
    req' = [req EXCEPT ![c] =
              [Idle EXCEPT !.family = "committed", !.todo = effects,
                           !.shell = s,
                           !.snap = [NothingRead EXCEPT ![s] = req[c].snap[s]]]]

WriteRow(k, d) ==
    /\ db' = [db EXCEPT ![k] = d]
    /\ Committed(k, d)
    /\ UNCHANGED <<cache, values, event, started>>

\* check_precondition on the document that was read.
PreconditionHolds(r) == r.tag = None \/ r.tag = r.snap[r.key]

\* A request body: the request's own mark and, in a shell, any references.
Bodies(r) ==
    IF r.key \in Shell THEN {{r.edit} \cup refs : refs \in SUBSET Submodel}
                       ELSE {{r.edit}}

\* What apply_submodel_value_patch, insert_element, replace_element,
\* delete_element and the field updates make of the document that was read;
\* none where the path does not resolve.
Changed(r) ==
    LET d == r.snap[r.key] IN
    CASE r.change = "add"  -> {d \cup {r.edit}}
      [] r.change = "swap" -> {(d \ {x}) \cup {r.edit} : x \in d \cap Edit}
      [] r.change = "drop" -> {d \ {x} : x \in d \cap Edit}
      [] OTHER             -> {}

\* Mutant of Announce: the element values of a Submodel are left in the cache.
AnnounceKeepingValues(step, k, d) ==
    <<AwaitWith("set", k, d), AwaitWith(step, k, d)>>

\* What follows the commit of a new document, and of a deletion.
Announce(step, k, d) ==
    IF k \in Submodel
    THEN <<AwaitWith("set", k, d), Await("drop_values", k), AwaitWith(step, k, d)>>
    ELSE <<AwaitWith("set", k, d), AwaitWith(step, k, d)>>

Retract(k) ==
    IF k \in Submodel
    THEN <<Await("evict", k), Await("drop_values", k), Await("deleted", k)>>
    ELSE <<Await("evict", k), Await("deleted", k)>>
=============================================================================
