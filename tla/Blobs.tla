--------------------------------- MODULE Blobs ---------------------------------
(***************************************************************************)
(* Large contents of File and Blob elements (titan.storage): a write of a  *)
(* Submodel stores them as files, with a row of blob_assets each, and puts *)
(* references into the document; the files that the new document does not  *)
(* refer to are deleted from the storage before the transaction commits.   *)
(* The handlers read, navigate and change documents as Repository says;    *)
(* here they come with any document, old references included.              *)
(***************************************************************************)
EXTENDS Absence, Integers, Sequences, FiniteSets, FiniteSetsExt

CONSTANTS
    Owner,      \* the Submodels
    Handler,
    Places,     \* the elements are the places 1 .. Places, in the order of the traversal
    MaxBlobs,   \* bound on the files that are ever stored
    MaxRows,    \* bound on the rows that are ever created
    LargeContent

\* A row of blob_assets; and a write from its first statement to its commit.
AssetRow == [blob : Nat, owner : Nat, path : 1 .. Places]
BlobWrite ==
    [pc : {"create", "update", "updating", "updated", "delete", "deleting", "deleted"},
     submodel : Owner, id : Nat, doc : [1 .. Places -> {Nothing} \cup Nat],
     new : SUBSET Nat, gone : SUBSET AssetRow, moved : SUBSET AssetRow]

ASSUME BlobsAssumption ==
    /\ Places \in Nat /\ MaxBlobs \in Nat
    /\ LargeContent # Nothing /\ LargeContent \notin Nat
    /\ Nothing \notin Nat /\ Nothing \notin BlobWrite

VARIABLES
    row,        \* [Owner -> Nothing, or its id and its document], committed
    assets,     \* blob_assets, committed
    files,      \* the files in the storage
    stored,     \* the row that each file ever stored was stored for, by file
    rowsMade,   \* rows ever created
    write,      \* [Handler -> Nothing, or the write it has begun]
    torn        \* Submodels written by two handlers at a time, or by one that was
                \* rolled back after it had deleted files (history)

blobVars == <<row, assets, files, stored, rowsMade, write, torn>>

Place == 1 .. Places
Blob == 1 .. MaxBlobs

\* What an element comes with: a large content, a reference, or neither.
Input == {LargeContent, Nothing} \cup DOMAIN stored

References(doc) == {doc[p] : p \in Place} \ {Nothing}
Large(doc) == {p \in Place : doc[p] = LargeContent}

\* externalize_submodel_doc: large contents become files, in the order of the places.
FileFor(doc, p) == Len(stored) + Cardinality({q \in Large(doc) : q <= p})
Externalized(doc) == [p \in Place |-> IF p \in Large(doc) THEN FileFor(doc, p) ELSE doc[p]]
NewBlobs(doc) == {FileFor(doc, p) : p \in Large(doc)}

StoreFiles(doc, id) ==
    /\ Len(stored) + Cardinality(Large(doc)) <= MaxBlobs
    /\ stored' = stored \o [i \in 1 .. Cardinality(Large(doc)) |-> id]
    /\ files' = files \cup NewBlobs(doc)

\* result.referenced: of several elements that refer to a blob the last one counts.
PathOf(doc, b) == Max({p \in Place : doc[p] = b})
Asset(doc, id, b) == [blob |-> b, owner |-> id, path |-> PathOf(doc, b)]
AssetsOf(id) == {a \in assets : a.owner = id}

Busy(s) == \E h \in Handler : write[h] # Nothing /\ write[h].submodel = s
Tear(s) == torn' = IF Busy(s) THEN torn \cup {s} ELSE torn

-----------------------------------------------------------------------------
\* SubmodelRepository.create up to the flush; a document with references is refused
\* when its contents have been stored.
BeginCreate(h, s, doc) ==
    /\ write[h] = Nothing /\ rowsMade < MaxRows
    /\ rowsMade' = rowsMade + 1
    /\ StoreFiles(doc, rowsMade + 1)
    /\ IF References(doc) \subseteq {LargeContent}
       THEN /\ write' = [write EXCEPT ![h] =
                  [pc |-> "create", submodel |-> s, id |-> rowsMade + 1, doc |-> Externalized(doc),
                   new |-> NewBlobs(doc), gone |-> {}, moved |-> {}]]
            /\ Tear(s)
       ELSE UNCHANGED <<write, torn>>
    /\ UNCHANGED <<row, assets>>

\* The identifier is unique.
CommitNewRow(h) ==
    LET w == write[h] IN
    /\ w # Nothing /\ w.pc = "create" /\ row[w.submodel] = Nothing
    /\ row' = [row EXCEPT ![w.submodel] = [id |-> w.id, doc |-> w.doc]]
    /\ assets' = assets \cup {Asset(w.doc, w.id, b) : b \in w.new}
    /\ write' = [write EXCEPT ![h] = Nothing]
    /\ UNCHANGED <<files, stored, rowsMade, torn>>

\* update finds the row and externalizes the document.
BeginUpdate(h, s, doc) ==
    /\ write[h] = Nothing /\ row[s] # Nothing
    /\ StoreFiles(doc, row[s].id)
    /\ write' = [write EXCEPT ![h] =
           [pc |-> "update", submodel |-> s, id |-> row[s].id, doc |-> Externalized(doc),
            new |-> NewBlobs(doc), gone |-> {}, moved |-> {}]]
    /\ Tear(s)
    /\ UNCHANGED <<row, assets, rowsMade>>

BeginDelete(h, s) ==
    /\ write[h] = Nothing /\ row[s] # Nothing
    /\ write' = [write EXCEPT ![h] =
           [pc |-> "delete", submodel |-> s, id |-> row[s].id, doc |-> [p \in Place |-> Nothing],
            new |-> {}, gone |-> {}, moved |-> {}]]
    /\ Tear(s)
    /\ UNCHANGED <<row, assets, files, stored, rowsMade>>

\* Mutant of Known: a file that is there will do.
KnownToStorage(w) == References(w.doc) \ w.new \subseteq files

\* Every reference is to an asset of the row.
Known(w) == References(w.doc) \ w.new \subseteq {a.blob : a \in AssetsOf(w.id)}

\* Mutant of Unreferenced: an asset that has moved to another element as well.
UnreferencedWhereItWas(w) == {a \in AssetsOf(w.id) : w.doc[a.path] # a.blob}

Unreferenced(w) == {a \in AssetsOf(w.id) : a.blob \notin References(w.doc)}

\* _load_blob_assets, and what becomes of each asset.
LoadAssets(h) ==
    LET w == write[h] IN
    /\ w # Nothing /\ w.pc \in {"update", "delete"} /\ Known(w)
    /\ LET gone == Unreferenced(w)
           moved == {a \in AssetsOf(w.id) \ gone : PathOf(w.doc, a.blob) # a.path}
       IN write' = [write EXCEPT ![h] =
              [w EXCEPT !.pc = IF @ = "update" THEN "updating" ELSE "deleting",
                        !.gone = gone, !.moved = moved]]
    /\ UNCHANGED <<row, assets, files, stored, rowsMade, torn>>

\* "Unknown blob reference", or whatever else fails up to here: the contents stay.
Refused(h) ==
    /\ write[h] # Nothing /\ write[h].pc \in {"create", "update", "delete"}
    /\ write' = [write EXCEPT ![h] = Nothing]
    /\ UNCHANGED <<row, assets, files, stored, rowsMade, torn>>

\* storage.delete, of all of them but those for which it fails.
DeleteFiles(h) ==
    LET w == write[h] IN
    /\ w # Nothing /\ w.pc \in {"updating", "deleting"}
    /\ \E failed \in SUBSET w.gone : files' = files \ {a.blob : a \in w.gone \ failed}
    /\ write' = [write EXCEPT ![h].pc = IF @ = "updating" THEN "updated" ELSE "deleted"]
    /\ UNCHANGED <<row, assets, stored, rowsMade, torn>>

\* flush and commit: the row and the moved assets must still be there.
CommitUpdate(h) ==
    LET w == write[h]
        moved == {[a EXCEPT !.path = PathOf(w.doc, a.blob)] : a \in w.moved}
    IN /\ w # Nothing /\ w.pc = "updated"
       /\ row[w.submodel] # Nothing /\ row[w.submodel].id = w.id
       /\ {a.blob : a \in w.moved} \subseteq {a.blob : a \in assets}
       /\ row' = [row EXCEPT ![w.submodel].doc = w.doc]
       /\ assets' = {a \in assets : a.blob \notin {b.blob : b \in w.gone \cup w.moved}}
                    \cup moved \cup {Asset(w.doc, w.id, b) : b \in w.new}
       /\ write' = [write EXCEPT ![h] = Nothing]
       /\ UNCHANGED <<files, stored, rowsMade, torn>>

\* The rows of the assets stay.
CommitRemoval(h) ==
    LET w == write[h] IN
    /\ w # Nothing /\ w.pc = "deleted"
    /\ row' = [row EXCEPT ![w.submodel] =
           IF @ # Nothing /\ @.id = w.id THEN Nothing ELSE @]
    /\ write' = [write EXCEPT ![h] = Nothing]
    /\ UNCHANGED <<assets, files, stored, rowsMade, torn>>

\* StaleDataError, a lost connection, a crash: the files are gone.
RolledBack(h) ==
    LET w == write[h] IN
    /\ w # Nothing /\ w.pc \in {"updating", "updated", "deleting", "deleted"}
    /\ write' = [write EXCEPT ![h] = Nothing]
    /\ torn' = IF w.pc \in {"updated", "deleted"} /\ w.gone # {}
               THEN torn \cup {w.submodel} ELSE torn
    /\ UNCHANGED <<row, assets, files, stored, rowsMade>>

BlobsInit ==
    /\ row = [s \in Owner |-> Nothing]
    /\ assets = {} /\ files = {} /\ stored = <<>> /\ rowsMade = 0
    /\ write = [h \in Handler |-> Nothing]
    /\ torn = {}

BlobsNext ==
    \E h \in Handler :
        \/ \E s \in Owner, doc \in [Place -> Input] :
               BeginCreate(h, s, doc) \/ BeginUpdate(h, s, doc)
        \/ \E s \in Owner : BeginDelete(h, s)
        \/ CommitNewRow(h) \/ LoadAssets(h) \/ Refused(h) \/ DeleteFiles(h)
        \/ CommitUpdate(h) \/ CommitRemoval(h) \/ RolledBack(h)

BlobsSpec == BlobsInit /\ [][BlobsNext]_blobVars

-----------------------------------------------------------------------------
(* Properties.                                                             *)

BlobsTypeOK ==
    /\ stored \in Seq(1 .. rowsMade) /\ Len(stored) <= MaxBlobs
    /\ files \subseteq DOMAIN stored
    /\ \A a \in assets : a.blob \in DOMAIN stored /\ a.path \in Place /\ a.owner = stored[a.blob]
    /\ \A s \in Owner : row[s] # Nothing =>
           row[s].id \in 1 .. rowsMade /\ row[s].doc \in [Place -> {Nothing} \cup DOMAIN stored]

\* No document refers to a file that was stored for another row, whatever references
\* clients write and however the writes overlap: the file of one Submodel is never
\* deleted with another one.
OwnBlobs ==
    \A s \in Owner : row[s] # Nothing =>
        \A b \in References(row[s].doc) : stored[b] = row[s].id

\* And a document that is written by one handler at a time, none of them rolled back after
\* it has deleted files, has all its files, each with the asset that the download looks
\* for, and no asset that it does not refer to.
WholeUnlessTorn ==
    \A s \in Owner \ torn : row[s] # Nothing /\ ~Busy(s) =>
        /\ References(row[s].doc) \subseteq files
        /\ AssetsOf(row[s].id) =
               {Asset(row[s].doc, row[s].id, b) : b \in References(row[s].doc)}

AttachmentsWhole == OwnBlobs /\ WholeUnlessTorn
=============================================================================
