----------------------------- MODULE Collections -----------------------------
(***************************************************************************)
(* The documents as a collection: requests that write several of them in   *)
(* one transaction (imports of a package or an environment, GraphQL's      *)
(* create_shells and delete_shells), and clients that list them page by    *)
(* page.  A page goes on after the created_at of the last row before it,   *)
(* and created_at is the start of the transaction that inserted the row.   *)
(* Of a document the model keeps which transaction wrote it last.          *)
(***************************************************************************)
EXTENDS Absence, Integers, Sequences, FiniteSets, SequencesExt, FiniteSetsExt

CONSTANTS
    Item,       \* identifiers of documents of one kind
    FreshItem,  \* of these, the ones that a renaming import makes up
    Writer,     \* transactions in flight
    Limit,      \* rows per page
    MaxItems,   \* bound on the documents of one request
    MaxClock    \* bound on the transactions ever started

ASSUME CollectionsAssumption ==
    /\ IsFiniteSet(Item) /\ FreshItem \subseteq Item
    /\ Limit \in Nat \ {0} /\ MaxItems \in Nat /\ MaxClock \in Nat
    /\ Nothing \notin Nat /\ Nothing \notin [created : Nat, written : Nat]

VARIABLES
    documents,  \* [Item -> committed row, or Nothing]
    batch,      \* [Writer -> the transaction in flight, or Nothing]
    clock,      \* starts of transactions; no two are the same
    listing     \* the client's walk over the pages, or Nothing

collectionVars == <<documents, batch, clock, listing>>

Present == {i \in Item : documents[i] # Nothing}

\* A row and the time it was made tell it from a later one with the same identifier.
RowListed(i) == [id |-> i, created |-> documents[i].created]
StoredRows == {RowListed(i) : i \in Present}

-----------------------------------------------------------------------------
(* Transactions of several documents.                                      *)

\* What each request does with an identifier, once it knows whether a document
\* is there: "keep" is an import with skip, error, merge or newer, or of an
\* environment, "blind" create_shells.
Resolution == {"keep", "overwrite", "rename", "blind", "delete"}

\* A transaction sees the committed rows and its own changes.
Sees(w, i) ==
    IF batch[w].effect[i] = "none" THEN i \in Present
    ELSE batch[w].effect[i] \in {"insert", "update"}

\* Another transaction holds the row's lock, or that of the identifier in the index.
Locked(w, i) ==
    \E o \in Writer \ {w} : batch[o] # Nothing /\ batch[o].effect[i] # "none"

Put(w, t) == batch' = [batch EXCEPT ![w] = t]

BeginBatch(w) ==
    /\ batch[w] = Nothing /\ clock < MaxClock
    /\ clock' = clock + 1
    /\ \E todo \in BoundedSeq(Item \ FreshItem, MaxItems), how \in Resolution :
          /\ todo # <<>>
          /\ Put(w, [start |-> clock + 1, todo |-> todo, how |-> how, write |-> Nothing,
                     effect |-> [i \in Item |-> "none"]])
    /\ UNCHANGED <<documents, listing>>

\* What to do with the next identifier, of which exists has said whether it is there.
WritesOf(how, i, there) ==
    IF how = "delete" THEN {[op |-> "delete", id |-> i]}
    ELSE IF how = "blind" \/ ~there THEN {[op |-> "insert", id |-> i]}
    ELSE CASE how = "overwrite" -> {[op |-> "update", id |-> i]}
           [] how = "rename" -> {[op |-> "insert", id |-> f] : f \in FreshItem}
           [] how = "keep" -> {Nothing}

\* The body of the loop up to the write.
CheckItem(w) ==
    LET t == batch[w] IN
    /\ t.write = Nothing /\ t.todo # <<>>
    /\ \E write \in WritesOf(t.how, Head(t.todo), Sees(w, Head(t.todo))) :
          Put(w, [t EXCEPT !.todo = Tail(@), !.write = write])
    /\ UNCHANGED <<documents, clock, listing>>

\* The row is there; an insert finds it in the index and fails.
InsertAnyway(w, i) == FALSE

InsertRefused(w, i) == Sees(w, i)

\* A flush that fails rolls the transaction back; the loop goes on, every other
\* document fails too, and so does the commit.
RollsBack(w) == Put(w, Nothing)

InsertItem(w) ==
    LET t == batch[w] IN
    /\ t.write # Nothing /\ t.write.op = "insert" /\ ~Locked(w, t.write.id)
    /\ \/ InsertRefused(w, t.write.id) /\ RollsBack(w)
       \/ ~InsertRefused(w, t.write.id)
          /\ Put(w, [t EXCEPT !.write = Nothing, !.effect[t.write.id] = "insert"])
    /\ UNCHANGED <<documents, clock, listing>>

\* update and delete return without a change when the row is gone.  A row that goes
\* between their SELECT and their flush makes that fail, as Fail does.
UpdateItem(w) ==
    LET t == batch[w] IN
    /\ t.write # Nothing /\ t.write.op = "update"
    /\ \/ ~Sees(w, t.write.id) /\ Put(w, [t EXCEPT !.write = Nothing])
       \/ /\ Sees(w, t.write.id) /\ ~Locked(w, t.write.id)
          /\ Put(w, [t EXCEPT !.write = Nothing,
                              !.effect[t.write.id] = IF @ = "insert" THEN @ ELSE "update"])
    /\ UNCHANGED <<documents, clock, listing>>

DeleteItem(w) ==
    LET t == batch[w] IN
    /\ t.write # Nothing /\ t.write.op = "delete"
    /\ \/ ~Sees(w, t.write.id) /\ Put(w, [t EXCEPT !.write = Nothing])
       \/ /\ Sees(w, t.write.id) /\ ~Locked(w, t.write.id)
          /\ Put(w, [t EXCEPT !.write = Nothing, !.effect[t.write.id] = "delete"])
    /\ UNCHANGED <<documents, clock, listing>>

\* A row keeps the time it was made at when it is updated.
CommittedRow(t, i) ==
    CASE t.effect[i] = "none" -> documents[i]
      [] t.effect[i] = "insert" -> [created |-> t.start, written |-> t.start]
      [] t.effect[i] = "update" -> [documents[i] EXCEPT !.written = t.start]
      [] t.effect[i] = "delete" -> Nothing

CommitBatch(w) ==
    LET t == batch[w] IN
    /\ t.write = Nothing /\ t.todo = <<>>
    /\ documents' = [i \in Item |-> CommittedRow(t, i)]
    /\ Put(w, Nothing)
    /\ UNCHANGED <<clock, listing>>

\* A statement fails (a deadlock, the connection), or the process dies.
Fail(w) == RollsBack(w) /\ UNCHANGED <<documents, clock, listing>>

-----------------------------------------------------------------------------
(* Listing, page by page.                                                  *)

\* The rows a page may consist of: the first ones of those made after the cursor;
\* rows made at the same time come in any order.
Pages(cursor) ==
    LET rest == {r \in StoredRows : r.created > cursor}
        first(page) == \A r \in page, s \in rest \ page : r.created <= s.created
    IN {page \in kSubset(Min({Limit, Cardinality(rest)}), rest) : first(page)}

LastTime(page) == Max({r.created : r \in page})

\* Where the next page starts, or Nothing after the last one.
CursorZeroCopy(page) ==
    IF page # {} /\ \E r \in StoredRows : r.created > LastTime(page)
    THEN LastTime(page) ELSE Nothing

\* list_models reads one row more than it returns; the mutant goes on after that one.
CursorOfExtraRow(page, cursor) ==
    LET more == {r \in StoredRows \ page : r.created > cursor} IN
    IF more # {} THEN Min({r.created : r \in more}) ELSE Nothing

CursorOfModels(page, cursor) ==
    IF \E r \in StoredRows \ page : r.created > cursor THEN LastTime(page) ELSE Nothing

\* GET of the lists (list_paged_zero_copy), GraphQL's shells and submodels and the
\* list of packages (list_models), and a GET with a filter or a projection, which
\* filters the first rows only and gives no cursor.
NextCursor(route, page, cursor) ==
    CASE route = "zero_copy" -> CursorZeroCopy(page)
      [] route = "models" -> CursorOfModels(page, cursor)
      [] route = "filtered" -> Nothing

GetFirstPage ==
    /\ listing = Nothing
    /\ \E route \in {"zero_copy", "models", "filtered"} : \E page \in Pages(0) :
          listing' = [route |-> route, cursor |-> NextCursor(route, page, 0), seen |-> page,
                      twice |-> FALSE, first |-> StoredRows]
    /\ UNCHANGED <<documents, batch, clock>>

GetNextPage ==
    /\ listing # Nothing /\ listing.cursor # Nothing
    /\ \E page \in Pages(listing.cursor) :
          listing' = [listing EXCEPT !.cursor = NextCursor(listing.route, page, @),
                                     !.seen = @ \cup page,
                                     !.twice = @ \/ page \cap listing.seen # {}]
    /\ UNCHANGED <<documents, batch, clock>>

-----------------------------------------------------------------------------

CollectionsInit ==
    /\ documents = [i \in Item |-> Nothing]
    /\ batch = [w \in Writer |-> Nothing]
    /\ clock = 0 /\ listing = Nothing

CollectionsNext ==
    \/ \E w \in Writer :
          \/ BeginBatch(w)
          \/ /\ batch[w] # Nothing
             /\ \/ CheckItem(w) \/ InsertItem(w) \/ UpdateItem(w) \/ DeleteItem(w)
                \/ CommitBatch(w) \/ Fail(w)
    \/ GetFirstPage \/ GetNextPage

CollectionsSpec == CollectionsInit /\ [][CollectionsNext]_collectionVars

-----------------------------------------------------------------------------
(* Properties.                                                             *)

\* Rows, transactions and the listing have their types.
CollectionsTypeOK ==
    /\ clock \in 0 .. MaxClock
    /\ \A i \in Present : {documents[i].created, documents[i].written} \subseteq 1 .. clock
    /\ \A w \in Writer : batch[w] # Nothing =>
          batch[w].start \in 1 .. clock /\ Len(batch[w].todo) <= MaxItems
    /\ listing # Nothing => listing.cursor \in {Nothing} \cup 1 .. clock

Finished == listing # Nothing /\ listing.cursor = Nothing

\* "Supports cursor-based pagination for consistent results across pages"
\* (submodel_repository.py:251): when the client has read all pages, it has seen
\* every row that was there from the first page to the last, once.
PagesComplete ==
    Finished => listing.first \cap StoredRows \subseteq listing.seen /\ ~listing.twice

\* Without a filter, that is so for every row that no other row of the first page's
\* time shares its created_at with, whatever is inserted, updated, deleted or
\* inserted anew, by several transactions at once, between the pages.
PagesCompleteUntied ==
    Finished /\ listing.route # "filtered" =>
        /\ \A r \in listing.first \cap StoredRows :
              (\A s \in listing.first \ {r} : s.created # r.created) => r \in listing.seen
        /\ ~listing.twice

\* A commit that is neither an overwriting import nor a deletion leaves every
\* document that is stored as it is, although an import only looks for it in an
\* earlier statement than the one that inserts it; and a document once stored is
\* never given another created_at, after which a page would show it again.
ImportsKeep ==
    [][\A i \in Present : documents'[i] # documents[i] =>
          /\ documents'[i] # Nothing => documents'[i].created = documents[i].created
          /\ \E w \in Writer : batch[w] # Nothing /\ batch'[w] = Nothing
                               /\ batch[w].how \in {"overwrite", "delete"}]_collectionVars
=============================================================================
