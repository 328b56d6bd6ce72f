------------------------------- MODULE Registry -------------------------------
(***************************************************************************)
(* The registry and discovery API (titan.api.routers.registry, discovery   *)
(* and titan.persistence.registry): descriptors of shells and Submodels,   *)
(* each a row with the document and, in columns of their own, its          *)
(* identifier and what it is looked up by.  A handler is one transaction;  *)
(* what it has flushed is its own until it commits, and holds the row.     *)
(***************************************************************************)
EXTENDS Absence, Integers, Sequences, FiniteSets

CONSTANTS
    ShellRow, SubmodelRow,  \* the primary keys of the two tables
    Id,             \* identifiers
    Index,          \* global asset ids, or semantic ids; with NoIndex
    NoIndex,
    Nested,         \* descriptors inside of a shell's descriptor
    Caller,         \* requests in flight
    LookupLimit,    \* limit of the lookups
    MaxStarted      \* bound on the requests

ASSUME RegistryAssumption ==
    /\ ShellRow \cap SubmodelRow = {} /\ Nothing \notin ShellRow \cup SubmodelRow
    /\ NoIndex \in Index /\ MaxStarted \in Nat /\ LookupLimit \in Nat \ {0}

VARIABLES
    rows,           \* [primary key -> committed row, or Nothing]
    used,           \* the primary keys that were given away
    call,           \* [Caller -> the request in flight, or Nothing]
    begun

registryVars == <<rows, used, call, begun>>

Pk == ShellRow \cup SubmodelRow

\* The documents of clients; the nested descriptors come with handlers of their own.
\* Of their list a document has how many of them have each identifier.  A shell's
\* has its globalAssetId twice, on top (`index`) and in assetInformation (`info`);
\* nothing makes them agree.
Descriptor == [id : Id, index : Index, info : Index, nested : {[n \in Nested |-> 0]}]

\* A Submodel's has its semantic id once.
DescriptorOf(table) == {doc \in Descriptor : table = SubmodelRow => doc.info = NoIndex}

\* _normalize_asset_information, of a document with the top-level field left out,
\* as the dump leaves it out when it is null; a client may also send the null,
\* which stays, so that Descriptor has every pair.
Normalized(doc) == IF doc.index = NoIndex THEN [doc EXCEPT !.index = doc.info] ELSE doc

NestedIn(doc) == {n \in Nested : doc.nested[n] > 0}

\* row.identifier, row.global_asset_id or row.semantic_id, and row.doc.  `crossed`
\* (history): the last UPDATE found the row changed since its SELECT.
RowOf(doc) == [id |-> doc.id, index |-> doc.index, doc |-> doc, crossed |-> FALSE]
Same(row, other) == row.id = other.id /\ row.index = other.index /\ row.doc = other.doc

-----------------------------------------------------------------------------
(* The session of a request.                                               *)

Visible(c, pk) == IF pk \in DOMAIN c.mine THEN c.mine[pk] ELSE rows[pk]
Holders(pk) == {r \in Caller : call[r] # Nothing /\ pk \in DOMAIN call[r].mine}
Find(c, id) == {pk \in c.table : Visible(c, pk) # Nothing /\ Visible(c, pk).id = id}

\* The unique constraint: the rows of the table, other than pk, that have the identifier.
Taken(c, id, pk) ==
    {k \in c.table \ {pk} : Visible(c, k) # Nothing /\ Visible(c, k).id = id}
\* Somebody else has flushed a change to a row that has, or is to have, the identifier.
Contested(r, id) ==
    \E o \in Caller \ {r} : call[o] # Nothing /\ \E k \in DOMAIN call[o].mine \cap call[r].table :
        \/ call[o].mine[k] # Nothing /\ call[o].mine[k].id = id
        \/ rows[k] # Nothing /\ rows[k].id = id

CallGoes(r, c) == call' = [call EXCEPT ![r] = c] /\ UNCHANGED <<rows, used, begun>>
CallEnds(r) == CallGoes(r, Nothing)

Flushed(c, pk, row) == [k \in DOMAIN c.mine \cup {pk} |-> IF k = pk THEN row ELSE c.mine[k]]

\* The next document of a bulk request, or the commit.
Following(c) == IF c.todo = <<>> THEN [c EXCEPT !.pc = "commit"]
            ELSE [c EXCEPT !.pc = "exists", !.id = Head(c.todo).id, !.doc = Head(c.todo),
                          !.todo = Tail(c.todo)]

-----------------------------------------------------------------------------
(* What the handlers that edit a shell's descriptor do to the document.    *)

\* The nested descriptor is not there yet, or is there.
Applies(edit, doc) ==
    CASE edit.kind = "post" -> edit.new \notin NestedIn(doc)
      [] edit.kind \in {"put", "remove"} -> edit.old \in NestedIn(doc)
      [] edit.kind = "links" -> TRUE

\* A put replaces the first that has the identifier by its body and does not look
\* whether another nested descriptor has the body's; a removal is of all that have it.
Renested(edit, doc) ==
    CASE edit.kind = "post" -> [doc EXCEPT !.nested[edit.new] = @ + 1]
      [] edit.kind = "put" ->
             [doc EXCEPT !.nested = [doc.nested EXCEPT ![edit.old] = @ - 1, ![edit.new] = @ + 1]]
      [] edit.kind = "remove" -> [doc EXCEPT !.nested[edit.old] = 0]

\* The result is validated.  Asset links are set in both places, or in both there
\* are none: the key on top is there, so that nothing is copied.
Edited(edit, doc) ==
    IF edit.kind = "links" THEN [doc EXCEPT !.index = edit.new, !.info = edit.new]
    ELSE Normalized(Renested(edit, doc))

-----------------------------------------------------------------------------
(* The steps.                                                              *)

\* repo.exists, then create, or a conflict; a bulk request updates instead.
Exists(r) ==
    LET c == call[r] IN
    /\ c.pc = "exists"
    /\ \/ Find(c, c.id) = {} /\ CallGoes(r, [c EXCEPT !.pc = "insert"])
       \/ Find(c, c.id) # {} /\ c.bulk /\ CallGoes(r, [c EXCEPT !.pc = "select"])
       \/ Find(c, c.id) # {} /\ ~c.bulk /\ CallEnds(r)

\* repo.create.  It waits for those that have flushed the identifier, and fails
\* when it is there.
Insert(r) ==
    LET c == call[r] IN
    /\ c.pc = "insert"
    /\ ~Contested(r, c.doc.id)
    /\ \/ Taken(c, c.doc.id, Nothing) # {} /\ CallEnds(r)
       \/ /\ Taken(c, c.doc.id, Nothing) = {}
          /\ c.table \ used # {}
          /\ LET pk == CHOOSE k \in c.table \ used : TRUE IN
             /\ used' = used \cup {pk}
             /\ call' = [call EXCEPT ![r] = Following([c EXCEPT !.mine =
                                                      Flushed(c, pk, RowOf(c.doc))])]
             /\ UNCHANGED <<rows, begun>>

\* If-Match: the row has the ETag or it has not; without a row nothing is compared.
Match(r) ==
    LET c == call[r] IN
    /\ c.pc = "match"
    /\ \/ CallGoes(r, [c EXCEPT !.pc = "select"])
       \/ Find(c, c.id) # {} /\ CallEnds(r)

\* get_bytes_by_id of a handler that edits the document it finds.
LoadDoc(r) ==
    LET c == call[r] IN
    /\ c.pc = "load"
    /\ \/ Find(c, c.id) = {} /\ CallEnds(r)
       \/ \E pk \in Find(c, c.id) :
             LET doc == Visible(c, pk).doc IN
             \/ ~Applies(c.edit, doc) /\ CallEnds(r)
             \/ Applies(c.edit, doc)
                /\ CallGoes(r, [c EXCEPT !.pc = "select", !.doc = Edited(c.edit, doc)])

\* The SELECT of repo.update and repo.delete; `strict` handlers answer 404
\* without a row, the others commit.
Select(r) ==
    LET c == call[r] IN
    /\ c.pc = "select"
    /\ \/ Find(c, c.id) = {} /\ c.strict /\ CallEnds(r)
       \/ Find(c, c.id) = {} /\ ~c.strict /\ CallGoes(r, Following(c))
       \/ \E pk \in Find(c, c.id) :
             CallGoes(r, [c EXCEPT !.pc = IF c.doc = Nothing THEN "delete" ELSE "update",
                             !.pk = pk, !.snap = Visible(c, pk)])

\* Mutant of SetColumns: the columns beside the document are not set.
SetDocument(snap, new, current) ==
    [current EXCEPT !.doc = new.doc, !.crossed = ~Same(current, snap)]

\* The UPDATE sets the columns that differ from what the SELECT has read.
Written(snap, new, current) == IF new = snap THEN current ELSE new

SetColumns(snap, new, current) ==
    [id |-> Written(snap.id, new.id, current.id),
     index |-> Written(snap.index, new.index, current.index),
     doc |-> Written(snap.doc, new.doc, current.doc),
     crossed |-> ~Same(current, snap)]

\* Nothing is sent when nothing differs.  The UPDATE waits for the row and for
\* those that have flushed its identifier, and fails when the row is gone or
\* another one has the identifier.
Update(r) ==
    LET c == call[r]
        current == Visible(c, c.pk)
        row == SetColumns(c.snap, RowOf(c.doc), current)
        done == [c EXCEPT !.pk = Nothing, !.snap = Nothing]
    IN /\ c.pc = "update"
       /\ \/ Same(RowOf(c.doc), c.snap) /\ CallGoes(r, Following(done))
          \/ /\ ~Same(RowOf(c.doc), c.snap) /\ Holders(c.pk) \subseteq {r}
             /\ \/ current = Nothing /\ CallEnds(r)
                \/ /\ current # Nothing /\ ~Contested(r, row.id)
                   /\ \/ Taken(c, row.id, c.pk) # {} /\ CallEnds(r)
                      \/ /\ Taken(c, row.id, c.pk) = {}
                         /\ CallGoes(r, Following([done EXCEPT !.mine = Flushed(c, c.pk, row)]))

\* The DELETE of a row that is gone only warns.
Delete(r) ==
    LET c == call[r] IN
    /\ c.pc = "delete"
    /\ Holders(c.pk) \subseteq {r}
    /\ CallGoes(r, Following([c EXCEPT !.mine = Flushed(c, c.pk, Nothing),
                                       !.pk = Nothing, !.snap = Nothing]))

Commit(r) ==
    LET c == call[r] IN
    /\ c.pc = "commit"
    /\ rows' = [pk \in Pk |-> Visible(c, pk)]
    /\ call' = [call EXCEPT ![r] = Nothing]
    /\ UNCHANGED <<used, begun>>

\* The coroutine is dropped, a query raises, or PostgreSQL resolves a deadlock.
AbortCall(r) == call[r] # Nothing /\ CallEnds(r)

-----------------------------------------------------------------------------
(* The handlers, by the step they begin with.                              *)

BeginCall(r, c) ==
    /\ call[r] = Nothing /\ begun < MaxStarted
    /\ begun' = begun + 1
    /\ call' = [call EXCEPT ![r] = c]
    /\ UNCHANGED <<rows, used>>

Call(table, pc, id, doc) ==
    [table |-> table, pc |-> pc, id |-> id, doc |-> doc, bulk |-> FALSE, strict |-> TRUE,
     todo |-> <<>>, edit |-> Nothing, pk |-> Nothing, snap |-> Nothing,
     mine |-> [k \in {} |-> Nothing]]

PostDescriptor(r, table) ==
    \E doc \in DescriptorOf(table) : BeginCall(r, Call(table, "exists", doc.id, doc))

\* With If-Match or without.
PutDescriptorById(r, table) ==
    \E doc \in DescriptorOf(table), id \in Id, pc \in {"match", "select"} :
        BeginCall(r, Call(table, pc, id, doc))

DeleteDescriptorById(r, table) ==
    \E id \in Id : BeginCall(r, Call(table, "select", id, Nothing))

BulkCreateDescriptors(r, table) ==
    \E first, second \in DescriptorOf(table) :
        BeginCall(r, [Call(table, "exists", first.id, first) EXCEPT
                      !.bulk = TRUE, !.strict = FALSE, !.todo = <<second>>])

PostShellDescriptor(r) == PostDescriptor(r, ShellRow)
PutShellDescriptorById(r) == PutDescriptorById(r, ShellRow)
DeleteShellDescriptorById(r) == DeleteDescriptorById(r, ShellRow)
BulkCreateShellDescriptors(r) == BulkCreateDescriptors(r, ShellRow)
PostSubmodelDescriptor(r) == PostDescriptor(r, SubmodelRow)
PutSubmodelDescriptorById(r) == PutDescriptorById(r, SubmodelRow)
DeleteSubmodelDescriptorById(r) == DeleteDescriptorById(r, SubmodelRow)
BulkCreateSubmodelDescriptors(r) == BulkCreateDescriptors(r, SubmodelRow)

\* `strict`: a handler that answers 404 when repo.update finds no row any more;
\* the others do not look and commit.
Edits(r, kind, old, new, strict) ==
    \E id \in Id :
        BeginCall(r, [Call(ShellRow, "load", id, Nothing) EXCEPT
                      !.edit = [kind |-> kind, old |-> old, new |-> new], !.strict = strict])

PostNestedSubmodelDescriptor(r) ==
    \E n \in Nested : Edits(r, "post", Nothing, n, TRUE)
PutNestedSubmodelDescriptor(r) ==
    \E old, new \in Nested : Edits(r, "put", old, new, TRUE)
DeleteNestedSubmodelDescriptor(r) ==
    \E old \in Nested : Edits(r, "remove", old, Nothing, FALSE)
PostAssetLinksById(r) ==
    \E index \in Index : Edits(r, "links", Nothing, index, FALSE)
DeleteAssetLinksById(r) == Edits(r, "links", Nothing, NoIndex, FALSE)

-----------------------------------------------------------------------------
(* The reads: of committed rows, found by a column, what the document says. *)

Rows(table) == {rows[pk] : pk \in {k \in table : rows[k] # Nothing}}

GetDescriptorById(table, id) == {row.doc : row \in {x \in Rows(table) : x.id = id}}
GetShellDescriptorById(id) == GetDescriptorById(ShellRow, id)
GetSubmodelDescriptorById(id) == GetDescriptorById(SubmodelRow, id)

GetNestedSubmodelDescriptors(id) == UNION {NestedIn(doc) : doc \in GetShellDescriptorById(id)}

\* asset_info.get("globalAssetId") or doc.get("globalAssetId").
LinkOf(doc) == IF doc.info # NoIndex THEN doc.info ELSE doc.index
GetAssetLinksById(id) == {LinkOf(doc) : doc \in GetShellDescriptorById(id)} \ {NoIndex}

\* The sets of rows that a query by the column may answer: all that have it, or,
\* without an order, any LookupLimit of them.
FoundByIndex(table, index) ==
    LET having == {row \in Rows(table) : row.index = index} IN
    {found \in SUBSET having : IF Cardinality(having) <= LookupLimit
                              THEN found = having ELSE Cardinality(found) = LookupLimit}

LookupShells(index) == {{row.doc.id : row \in found} : found \in FoundByIndex(ShellRow, index)}
\* One query after the other, and all that they find.
SearchShellsByAssetLink(links) ==
    {UNION {answer[index] : index \in links} :
        answer \in {a \in [links -> SUBSET Id] :
                       \A index \in links : a[index] \in LookupShells(index)}}
GetAllSubmodelDescriptors(index) ==
    {{row.doc : row \in found} : found \in FoundByIndex(SubmodelRow, index)}
LookupSubmodels(index) == {{doc.id : doc \in docs} : docs \in GetAllSubmodelDescriptors(index)}

-----------------------------------------------------------------------------

RegistryInit ==
    /\ rows = [pk \in Pk |-> Nothing]
    /\ used = {}
    /\ call = [r \in Caller |-> Nothing]
    /\ begun = 0

RegistryHandler(r) ==
    \/ PostShellDescriptor(r) \/ PutShellDescriptorById(r) \/ DeleteShellDescriptorById(r)
    \/ BulkCreateShellDescriptors(r)
    \/ PostSubmodelDescriptor(r) \/ PutSubmodelDescriptorById(r)
    \/ DeleteSubmodelDescriptorById(r) \/ BulkCreateSubmodelDescriptors(r)
    \/ PostNestedSubmodelDescriptor(r) \/ PutNestedSubmodelDescriptor(r)
    \/ DeleteNestedSubmodelDescriptor(r)
    \/ PostAssetLinksById(r) \/ DeleteAssetLinksById(r)

SessionStep(r) ==
    \/ Exists(r) \/ Insert(r) \/ Match(r) \/ LoadDoc(r) \/ Select(r)
    \/ Update(r) \/ Delete(r) \/ Commit(r) \/ AbortCall(r)

RegistryNext == \E r \in Caller : RegistryHandler(r) \/ (call[r] # Nothing /\ SessionStep(r))

RegistrySpec == RegistryInit /\ [][RegistryNext]_registryVars

-----------------------------------------------------------------------------
(* Properties.                                                             *)

\* Rows and calls have their type, and the committed identifiers of a table differ.
RegistryTypeOK ==
    /\ used \subseteq Pk
    /\ begun \in 0..MaxStarted
    /\ \A pk \in Pk : rows[pk] # Nothing =>
          /\ pk \in used
          /\ rows[pk].id \in Id /\ rows[pk].index \in Index /\ rows[pk].crossed \in BOOLEAN
          /\ rows[pk].doc.id \in Id /\ rows[pk].doc.index \in Index /\ rows[pk].doc.info \in Index
          /\ rows[pk].doc.nested \in [Nested -> Nat]
    /\ \A table \in {ShellRow, SubmodelRow} : \A k, l \in table :
          k # l /\ rows[k] # Nothing /\ rows[l] # Nothing => rows[k].id # rows[l].id

\* The rows whose columns were last written by somebody who had seen the whole row.
Undisturbed(table) == {row \in Rows(table) : ~row.crossed}

\* Each is alone in being found by the identifier in its document, and a lookup
\* finds it by the index in its document, unless the limit is reached, and by no
\* other index.
FoundAsWritten(table) ==
    \A row \in Undisturbed(table) :
        /\ GetDescriptorById(table, row.doc.id) = {row.doc}
        /\ \A index \in Index \ {NoIndex} : \A found \in FoundByIndex(table, index) :
              /\ row \in found => row.doc.index = index
              /\ row.doc.index = index => row \in found \/ Cardinality(found) = LookupLimit

\* A shell's asset links find it, where its document does not name two assets, as
\* it may: the links then name the one of assetInformation, by which no lookup
\* finds it (discovery.py:317 against persistence/registry.py:106).
FoundByItsLinks ==
    \A row \in Undisturbed(ShellRow) :
        row.doc.info \in {NoIndex, row.doc.index} =>
            \A index \in GetAssetLinksById(row.doc.id) :
                Cardinality({x \in Rows(ShellRow) : x.index = index}) <= LookupLimit
                => \A answer \in SearchShellsByAssetLink({index}) : row.doc.id \in answer

\* Lookups, asset links and nested descriptors answer what the documents say
\* (discovery.py:76, "Search for AAS descriptors matching the provided asset
\* identifiers") for every row but those of one interleaving: an UPDATE carries
\* only the columns that differ from its SELECT, and another request has changed
\* the row in between.  Renaming, re-linking, bulk and aborted requests that
\* overlap in any other way leave every row found, and the next UPDATE that has
\* seen the row repairs it.
LookupsMatch ==
    /\ FoundAsWritten(ShellRow) /\ FoundAsWritten(SubmodelRow)
    /\ FoundByItsLinks
    /\ \A row \in Undisturbed(ShellRow) :
          GetNestedSubmodelDescriptors(row.doc.id) = NestedIn(row.doc)
=============================================================================
