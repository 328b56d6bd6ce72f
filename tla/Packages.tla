------------------------------- MODULE Packages -------------------------------
(***************************************************************************)
(* The AASX file server (titan.api.routers.aasx, titan.packages.manager    *)
(* and differ): a package is a row that names a file of the blob storage,  *)
(* and the package whose next version it is.  The storage is not part of   *)
(* the transaction: a handler stores or deletes a file and then commits.   *)
(* The queries of one walk along the versions are one step.                *)
(***************************************************************************)
EXTENDS Absence, Integers, Sequences, FiniteSets, SequencesExt

CONSTANTS
    PackageHandler, \* requests in flight
    MaxPackages,    \* bound on the packages ever made
    MaxFiles,       \* bound on the files ever stored
    MaxCalls        \* bound on the requests

\* A row of aasx_packages; and a request from its first statement to its answer.
PackageRow == [file : Nat, version : Nat, previous : {Nothing} \cup Nat]
PackageRequest ==
    [kind : {"upload", "version", "update", "delete", "rollback"},
     pc : {"store", "current", "walk", "insert", "announce", "select", "remove", "overwrite",
           "delete"},
     id : {Nothing} \cup Nat, version : Nat, target : Nat, row : {Nothing} \cup PackageRow,
     file : {Nothing} \cup Nat, removed : BOOLEAN, new : {Nothing} \cup Nat]

ASSUME PackagesAssumption ==
    /\ MaxPackages \in Nat /\ MaxFiles \in Nat /\ MaxCalls \in Nat
    /\ Nothing \notin Nat \cup PackageRow \cup PackageRequest

VARIABLES
    package,        \* [package id -> committed row, or Nothing]; ids are given in order
    packageFiles,   \* the files in the blob storage; uris are given in order
    made, filed,
    request,        \* [PackageHandler -> the request in flight, or Nothing]
    announced,      \* the packages for which a version event was published
    called,
    shared,         \* files that a rollback gave to a second row (history)
    astray,         \* files that a request stored or deleted without a commit (history)
    together        \* two requests have been under way at once (history)

packageVars == <<package, packageFiles, made, filed, request, announced, called,
                 shared, astray, together>>

PackageId == 1 .. MaxPackages
Uri == 1 .. MaxFiles

HasRow(p) == package[p] # Nothing
Packages == {p \in PackageId : HasRow(p)}

\* The rows that a query by previous_version_id finds.
Successors(p) == {q \in Packages : package[q].previous = p}

-----------------------------------------------------------------------------
(* Walks along previous_version_id, which refers to an older row.          *)

Root[p \in PackageId] ==
    IF HasRow(p) /\ package[p].previous # Nothing THEN Root[package[p].previous] ELSE p

\* Mutant of Start: the list starts at the package that was asked for.
StartHere(p) == p

Start(p) == Root[p]

\* From p to the version after it, and so on, as long as there is exactly one.
Onward[p \in PackageId] ==
    IF Cardinality(Successors(p)) # 1 THEN <<p>>
    ELSE <<p>> \o Onward[CHOOSE q \in Successors(p) : TRUE]

ListVersions(p) == IF HasRow(p) THEN Onward[Start(p)] ELSE <<>>

\* scalar_one_or_none raises where two packages are the next version of one.
ListFails(p) == HasRow(p) /\ Successors(Last(ListVersions(p))) # {}

\* The package and the versions before it.
Earlier[p \in PackageId] ==
    {p} \cup IF HasRow(p) /\ package[p].previous # Nothing THEN Earlier[package[p].previous]
             ELSE {}

\* The row of a version, of those that a download or a comparison looks at.
GetVersion(p, version) == {q \in Earlier[p] : package[q].version = version}

-----------------------------------------------------------------------------
(* The steps of a request.                                                 *)

Proceeds(r, c) == request' = [request EXCEPT ![r] = c]

\* What a request leaves behind in the storage when it does not commit.
Stray(c) == ({c.file} \cup (IF c.removed THEN {c.row.file} ELSE {})) \ {Nothing}
Fails(r) == request' = [request EXCEPT ![r] = Nothing] /\ astray' = astray \cup Stray(request[r])

\* _store_package
StorePackage(r) ==
    LET c == request[r] IN
    /\ c.pc = "store" /\ filed < MaxFiles
    /\ filed' = filed + 1
    /\ packageFiles' = packageFiles \cup {filed + 1}
    /\ Proceeds(r, [c EXCEPT !.file = filed + 1,
                           !.pc = CASE c.kind = "upload" -> "insert"
                                    [] c.kind = "version" -> "current"
                                    [] c.kind = "update" -> "overwrite"])
    /\ UNCHANGED <<package, made, announced, called, shared, astray, together>>

\* create_version: the row that the new version follows; without it, a 400.
Current(r) ==
    LET c == request[r] IN
    /\ c.pc = "current"
    /\ \/ ~HasRow(c.id) /\ Fails(r)
       \/ /\ HasRow(c.id) /\ UNCHANGED astray
          /\ Proceeds(r, [c EXCEPT !.pc = "insert", !.version = package[c.id].version + 1])
    /\ UNCHANGED <<package, packageFiles, made, filed, announced, called, shared, together>>

\* rollback_to_version up to its INSERT: the file is that of the target.
Walk(r) ==
    LET c == request[r]
        target == {q \in Packages : q \in ToSet(ListVersions(c.id)) /\ package[q].version = c.target}
    IN /\ c.pc = "walk"
       /\ \/ (ListFails(c.id) \/ target = {}) /\ Fails(r)
          \/ /\ ~ListFails(c.id) /\ UNCHANGED astray
             /\ \E q \in target :
                   Proceeds(r, [c EXCEPT !.pc = "insert", !.row = package[q],
                                       !.version = package[c.id].version + 1])
       /\ UNCHANGED <<package, packageFiles, made, filed, announced, called, shared, together>>

\* The INSERT and its commit, and the event of a version.  The previous version
\* must exist when the row comes in.
InsertRow(r) ==
    LET c == request[r] IN
    /\ c.pc = "insert" /\ made < MaxPackages
    /\ \/ /\ c.id \notin {Nothing} \cup Packages /\ Fails(r)
          /\ UNCHANGED <<package, made, announced, shared>>
       \/ /\ c.id \in {Nothing} \cup Packages
          /\ made' = made + 1
          /\ package' = [package EXCEPT ![made + 1] =
                            [file |-> IF c.kind = "rollback" THEN c.row.file ELSE c.file,
                             version |-> c.version, previous |-> c.id]]
          /\ shared' = IF c.kind = "rollback" THEN shared \cup {c.row.file} ELSE shared
          /\ IF c.kind = "upload" THEN Proceeds(r, Nothing)
             ELSE Proceeds(r, [c EXCEPT !.pc = "announce", !.new = made + 1, !.file = Nothing])
          /\ UNCHANGED <<announced, astray>>
    /\ UNCHANGED <<packageFiles, filed, called, together>>

\* The answer is read from the row; a rollback also writes who asked for it, which
\* fails when the row is gone.
AnnounceVersion(r) ==
    LET c == request[r] IN
    /\ c.pc = "announce"
    /\ announced' = IF HasRow(c.new) THEN announced \cup {c.new} ELSE announced
    /\ Proceeds(r, Nothing)
    /\ UNCHANGED <<package, packageFiles, made, filed, called, shared, astray, together>>

\* The row that is to be overwritten or deleted.
SelectRow(r) ==
    LET c == request[r] IN
    /\ c.pc = "select"
    /\ Proceeds(r, IF HasRow(c.id) THEN [c EXCEPT !.pc = "remove", !.row = package[c.id]] ELSE Nothing)
    /\ UNCHANGED <<package, packageFiles, made, filed, announced, called, shared, astray, together>>

\* _delete_package_file; a file that is gone is no error.
RemoveFile(r) ==
    LET c == request[r] IN
    /\ c.pc = "remove"
    /\ packageFiles' = packageFiles \ {c.row.file}
    /\ Proceeds(r, [c EXCEPT !.removed = TRUE, !.pc = IF c.kind = "update" THEN "store" ELSE "delete"])
    /\ UNCHANGED <<package, made, filed, announced, called, shared, astray, together>>

\* Mutant of Overwritten: the row keeps the uri.
OverwrittenInPlace(row, file) == row

Overwritten(row, file) == [row EXCEPT !.file = file]

\* The UPDATE and its commit; it fails when the row is gone.
Overwrite(r) ==
    LET c == request[r] IN
    /\ c.pc = "overwrite"
    /\ \/ ~HasRow(c.id) /\ Fails(r) /\ UNCHANGED package
       \/ /\ HasRow(c.id)
          /\ package' = [package EXCEPT ![c.id] = Overwritten(@, c.file)]
          /\ Proceeds(r, Nothing)
          /\ UNCHANGED astray
    /\ UNCHANGED <<packageFiles, made, filed, announced, called, shared, together>>

\* Mutant of Orphaned: the reference stays.
KeepsPrevious(q, p) == package[q]

\* ON DELETE SET NULL
Orphaned(q, p) ==
    IF package[q].previous = p THEN [package[q] EXCEPT !.previous = Nothing] ELSE package[q]

\* The DELETE and its commit; a row that is gone already is no error.
DeleteRow(r) ==
    LET c == request[r] IN
    /\ c.pc = "delete"
    /\ package' = [q \in PackageId |-> IF q = c.id \/ ~HasRow(q) THEN Nothing ELSE Orphaned(q, c.id)]
    /\ Proceeds(r, Nothing)
    /\ UNCHANGED <<packageFiles, made, filed, announced, called, shared, astray, together>>

\* A query, the storage or the client fails, or the process dies; or the file that
\* was sent cannot be parsed.
RequestAborts(r) ==
    /\ request[r] # Nothing
    /\ Fails(r)
    /\ UNCHANGED <<package, packageFiles, made, filed, announced, called, shared, together>>

-----------------------------------------------------------------------------
(* The handlers.                                                           *)

Accept(r, c) ==
    /\ request[r] = Nothing /\ called < MaxCalls
    /\ called' = called + 1
    /\ together' = (together \/ \E o \in PackageHandler \ {r} : request[o] # Nothing)
    /\ Proceeds(r, c)
    /\ UNCHANGED <<package, packageFiles, made, filed, announced, shared, astray>>

NewRequest(kind, pc, id) ==
    [kind |-> kind, pc |-> pc, id |-> id, version |-> 1, target |-> 0, row |-> Nothing,
     file |-> Nothing, removed |-> FALSE, new |-> Nothing]

UploadPackage(r) == Accept(r, NewRequest("upload", "store", Nothing))

\* POST .../versions, and PUT with create_version.
CreatePackageVersion(r) == \E p \in 1 .. made : Accept(r, NewRequest("version", "store", p))

UpdatePackage(r) == \E p \in 1 .. made : Accept(r, NewRequest("update", "select", p))

DeletePackage(r) == \E p \in 1 .. made : Accept(r, NewRequest("delete", "select", p))

RollbackPackageVersion(r) ==
    \E p \in 1 .. made, v \in 1 .. MaxPackages :
        Accept(r, [NewRequest("rollback", "walk", p) EXCEPT !.target = v])

-----------------------------------------------------------------------------
(* The reads.                                                              *)

\* A package whose file can be read: its download, and the lists of what is in it.
DownloadPackage(p) == HasRow(p) /\ package[p].file \in packageFiles

\* The packages that a download of a listed version finds; without any, a 404.
GetPackageVersion(p, version) ==
    IF \E q \in ToSet(ListVersions(p)) : package[q].version = version
    THEN GetVersion(p, version) ELSE {}

\* A comparison needs both versions, and does not list them first.
ComparePackageVersions(p, v1, v2) == GetVersion(p, v1) \X GetVersion(p, v2)

-----------------------------------------------------------------------------

PackagesInit ==
    /\ package = [p \in PackageId |-> Nothing]
    /\ packageFiles = {} /\ made = 0 /\ filed = 0
    /\ request = [r \in PackageHandler |-> Nothing]
    /\ announced = {} /\ called = 0
    /\ shared = {} /\ astray = {} /\ together = FALSE

HandleRequest(r) ==
    \/ UploadPackage(r) \/ CreatePackageVersion(r) \/ UpdatePackage(r)
    \/ DeletePackage(r) \/ RollbackPackageVersion(r)

RequestStep(r) ==
    \/ StorePackage(r) \/ Current(r) \/ Walk(r) \/ InsertRow(r) \/ AnnounceVersion(r)
    \/ SelectRow(r) \/ RemoveFile(r) \/ Overwrite(r) \/ DeleteRow(r) \/ RequestAborts(r)

PackagesNext ==
    \E r \in PackageHandler : HandleRequest(r) \/ (request[r] # Nothing /\ RequestStep(r))

PackagesSpec == PackagesInit /\ [][PackagesNext]_packageVars

-----------------------------------------------------------------------------
(* Properties.                                                             *)

\* Rows and requests have their types, and a row refers to an older one that is there.
PackagesTypeOK ==
    /\ made \in 0..MaxPackages /\ filed \in 0..MaxFiles /\ called \in 0..MaxCalls
    /\ packageFiles \subseteq 1..filed /\ shared \cup astray \subseteq 1..filed
    /\ announced \subseteq 1..made
    /\ together \in BOOLEAN
    /\ \A p \in Packages :
          /\ p <= made
          /\ package[p].file \in 1..filed /\ package[p].version \in 1..p
          /\ package[p].previous # Nothing => package[p].previous \in Packages \cap 1..(p - 1)

\* Two packages are the next version of one, in the history of p.
Branched(p) == \E q \in Packages : Root[q] = Root[p] /\ Cardinality(Successors(q)) > 1

\* The history of a package (list_versions, get_package_version, compare) is, from
\* whatever package of it one asks, all packages that descend from one and the
\* same, each once, numbered without a gap; and each version up to the package's
\* own is found in it.  Versions may be made, rolled back, overwritten and deleted
\* by several requests at once, but no two may follow the same package.
HistoryComplete ==
    \A p \in Packages : ~Branched(p) =>
        LET history == ListVersions(p) IN
        /\ ~ListFails(p)
        /\ ToSet(history) = {q \in Packages : Root[q] = Root[p]} /\ IsInjective(history)
        /\ \A i \in 1 .. Len(history) - 1 :
              package[history[i + 1]].version = package[history[i]].version + 1
        /\ \A i \in 1 .. Len(history) : history[i] <= p =>
              LET version == package[history[i]].version IN
              /\ GetPackageVersion(p, version) = {history[i]}
              /\ ComparePackageVersions(p, version, package[p].version) = {<<history[i], p>>}

\* The storage and the rows go together when requests come one after the other: a
\* stored file is that of a row and a row's file is stored, but for files that a
\* failed request has left or deleted and those that a rollback has given to two
\* rows, of which the first to go takes the file away from the other.
FilesMatchRowsAlone ==
    ~together /\ (\A r \in PackageHandler : request[r] = Nothing) =>
        LET left == shared \cup astray IN
        /\ packageFiles \ left = {package[p].file : p \in Packages} \ left
        /\ \A p \in Packages : package[p].file \notin left => DownloadPackage(p)

\* The versions of a package are all found, and every row has its file.
PackagesHold == HistoryComplete /\ FilesMatchRowsAlone
=============================================================================
