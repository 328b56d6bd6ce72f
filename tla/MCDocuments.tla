----------------------------- MODULE MCDocuments -----------------------------
(* The documents, and what is kept beside them, one part at a time: the        *)
(* requests for documents in sequence, the registry's rows, the AASX packages  *)
(* and their files, the invocations of operations, imports and pages of a      *)
(* collection, and the blobs of a Submodel.  `part` is chosen at the start and *)
(* the other parts stand still.                                                *)
EXTENDS Repository, Operations, Registry, Collections, Blobs, Packages, TLC

VARIABLE part

\* Two elements, each an Operation in one version of the document or in both.
OperationOf(inputs, inouts) == [kind |-> "operation", inputs |-> inputs, inouts |-> inouts]
Other(kind) == [OperationOf({}, {}) EXCEPT !.kind = kind]
Versions == {[p1 |-> OperationOf({"x"}, {}), p2 |-> Other("invalid")],
             [p1 |-> OperationOf({"x"}, {"x"}), p2 |-> Other("other")]}

documentsVars == <<part, vars, operationVars, registryVars, packageVars, collectionVars, blobVars>>

\* The tables hold every document, and every shell references every Submodel: all
\* the handlers have something to work on from the first mutation on.
DocumentsInit ==
    /\ part \in {"requests", "registry", "packages", "operations", "pages", "blobs"}
    /\ RegistryInit /\ PackagesInit /\ CollectionsInit /\ BlobsInit
    /\ Init /\ db = [k \in Key |-> IF k \in Shell THEN Submodel ELSE {}]
    /\ OperationsInit
    /\ shell = TRUE /\ (part # "operations" => submodel = Nothing)

OfRequests(A) ==
    /\ part = "requests" /\ A
    /\ UNCHANGED <<part, registryVars, packageVars, operationVars, collectionVars, blobVars>>
OfRegistry(A) ==
    /\ part = "registry" /\ A
    /\ UNCHANGED <<part, vars, packageVars, operationVars, collectionVars, blobVars>>
OfPackages(A) ==
    /\ part = "packages" /\ A
    /\ UNCHANGED <<part, vars, registryVars, operationVars, collectionVars, blobVars>>
OfOperations(A) ==
    /\ part = "operations" /\ A
    /\ UNCHANGED <<part, vars, registryVars, packageVars, collectionVars, blobVars>>
OfPages(A) ==
    /\ part = "pages" /\ A
    /\ UNCHANGED <<part, vars, registryVars, packageVars, operationVars, blobVars>>
OfBlobs(A) ==
    /\ part = "blobs" /\ A
    /\ UNCHANGED <<part, vars, registryVars, packageVars, operationVars, collectionVars>>

\* The tables of the registry are apart, so that requests for one of them are
\* enough; the documents of a bulk request come without assetInformation.
Touched == {table \in {ShellRow, SubmodelRow} :
               \/ used' \cap table # {}
               \/ \E r \in Caller : call'[r] # Nothing /\ call'[r].table = table}
OneTable == Cardinality(Touched) <= 1
PlainBulks ==
    \A r \in Caller : call[r] = Nothing /\ call'[r] # Nothing /\ call'[r].bulk
        => call'[r].doc.info = NoIndex /\ call'[r].todo[1].info = NoIndex

DocumentsNext ==
    \/ OfRequests(CarefulNext)
    \/ OfRegistry(RegistryNext /\ OneTable /\ PlainBulks)
    \/ OfPackages(PackagesNext)
    \/ OfOperations(OperationsNext)
    \/ OfPages(CollectionsNext)
    \/ OfBlobs(BlobsNext)

DocumentsSpec == DocumentsInit /\ [][DocumentsNext]_documentsVars

\* The requests are interchangeable, and the identifiers.
Symmetric == Permutations(Caller) \cup Permutations(Id)

-----------------------------------------------------------------------------
\* The variables of every part keep their types.
DocumentsTypeOK ==
    /\ part = "requests" => TypeOK
    /\ part = "operations" => OperationsTypeOK
    /\ part = "registry" => RegistryTypeOK
    /\ part = "packages" => PackagesTypeOK
    /\ part = "pages" => CollectionsTypeOK
    /\ part = "blobs" => BlobsTypeOK
=============================================================================
