------------------------------ MODULE Repository ------------------------------
(***************************************************************************)
(* The handlers of the AAS, Submodel and ConceptDescription repositories,  *)
(* and of the GraphQL mutations and the MQTT subscriber, which write the   *)
(* same rows without touching the cache or the event bus.                  *)
(*                                                                         *)
(* A handler is the request it begins (below, one operator per handler),   *)
(* the reading steps of RequestSteps, one commit of its family, and the    *)
(* cache and event steps the commit leaves to do.                          *)
(***************************************************************************)
EXTENDS RequestSteps

-----------------------------------------------------------------------------
(* The commit of each family.                                              *)

\* POST: exists() was asked first; the unique constraint has the last word.
CreateAllowed(r) == r.snap[r.key] = Absent /\ db[r.key] = Absent

CommitCreate(c) ==
    LET r == req[c] IN
    /\ Ready(c, "create")
    /\ CreateAllowed(r)
    /\ \E d \in Bodies(r) :
         /\ WriteRow(r.key, d)
         /\ Then(c, <<AwaitWith("set", r.key, d), AwaitWith("created", r.key, d)>>)

\* PUT: If-Match is looked at only if the row was there; whether to insert or
\* to update is decided on what was read.
PutAllowed(r) ==
    IF r.snap[r.key] = Absent
    THEN db[r.key] = Absent
    ELSE PreconditionHolds(r) /\ db[r.key] # Absent

PutStep(r) == IF r.snap[r.key] = Absent THEN "created" ELSE "updated"

CommitPut(c) ==
    LET r == req[c] IN
    /\ Ready(c, "put")
    /\ PutAllowed(r)
    /\ \E d \in Bodies(r) :
         /\ WriteRow(r.key, d)
         /\ Then(c, Announce(PutStep(r), r.key, d))

\* PATCH, and the element and attachment handlers: the document that was read
\* (from the row or from the cache), changed, replaces whatever the row holds.
ModifyAllowed(r) ==
    PreconditionHolds(r) /\ Changed(r) # {} /\ db[r.key] # Absent

CommitModify(c) ==
    LET r == req[c] IN
    /\ Ready(c, "modify")
    /\ ModifyAllowed(r)
    /\ \E d \in Changed(r) :
         /\ WriteRow(r.key, d)
         /\ Then(c, Announce("updated", r.key, d))

DeleteAllowed(r) == db[r.key] # Absent

CommitDelete(c) ==
    LET r == req[c] IN
    /\ Ready(c, "delete")
    /\ DeleteAllowed(r)
    /\ WriteRow(r.key, Absent)
    /\ Then(c, Retract(r.key))

\* post_submodel_reference: the Submodel exists and is not yet referenced by
\* the shell document that was read, which then replaces the shell's row.
AttachAllowed(r) ==
    /\ r.snap[r.key] # Absent
    /\ r.key \notin r.snap[r.shell]
    /\ db[r.shell] # Absent

CommitAttach(c) ==
    LET r == req[c]
        d == r.snap[r.shell] \cup {r.key}
    IN /\ Ready(c, "attach")
       /\ AttachAllowed(r)
       /\ WriteRow(r.shell, d)
       /\ Then(c, Announce("updated", r.shell, d))

DetachAllowed(r) == r.key \in r.snap[r.shell] /\ db[r.shell] # Absent

CommitDetach(c) ==
    LET r == req[c]
        d == r.snap[r.shell] \ {r.key}
    IN /\ Ready(c, "detach")
       /\ DetachAllowed(r)
       /\ WriteRow(r.shell, d)
       /\ Then(c, Announce("updated", r.shell, d))

\* put_submodel_by_id_for_shell commits the Submodel, announces it, and only
\* then sees to the reference, in a second transaction (Link).
CommitPutForShell(c) ==
    LET r == req[c] IN
    /\ Ready(c, "put_for_shell")
    /\ PutAllowed(r)
    /\ \E d \in Bodies(r) :
         /\ WriteRow(r.key, d)
         /\ ThenInShell(c, r.shell, Append(Announce(PutStep(r), r.key, d),
                                            Await("link", r.key)))

\* The reference is added to the shell document read at the start.  A shell row
\* deleted meanwhile makes repo.update return None, which the handler unpacks.
Link(c) ==
    LET s == req[c].shell
        m == Next1(c).key
        d == req[c].snap[s] \cup {m}
    IN /\ At(c, "link")
       /\ \/ /\ m \in req[c].snap[s] \/ db[s] = Absent
             /\ Finish(c)
             /\ UNCHANGED <<db, history, cache, values, event, started>>
          \/ /\ m \notin req[c].snap[s] /\ db[s] # Absent
             /\ WriteRow(s, d)
             /\ Then(c, Announce("updated", s, d))

\* Mutant of DeleteForShellAllowed: nobody looks whether the rows are still there.
DeleteForShellAllowedOfNoRow(r) == r.key \in r.snap[r.shell]

\* delete_submodel_by_id_for_shell: both rows change in one transaction.
DeleteForShellAllowed(r) ==
    /\ r.key \in r.snap[r.shell]
    /\ db[r.key] # Absent
    /\ db[r.shell] # Absent

CommitDeleteForShell(c) ==
    LET r == req[c]
        d == r.snap[r.shell] \ {r.key}
    IN /\ Ready(c, "delete_for_shell")
       /\ DeleteForShellAllowed(r)
       /\ db' = [db EXCEPT ![r.key] = Absent, ![r.shell] = d]
       /\ history' = [history EXCEPT ![r.key] = @ \cup {Absent},
                                     ![r.shell] = @ \cup {d}]
       /\ Then(c, <<Await("evict", r.key), Await("drop_values", r.key),
                    AwaitWith("set", r.shell, d), Await("deleted", r.key),
                    AwaitWith("updated", r.shell, d)>>)
       /\ UNCHANGED <<cache, values, event, started>>

\* The writers that leave the cache and the event bus alone: GraphQL mutations
\* and the MQTT subscriber.  From then on the cache may be behind.
QuietAllowed(r) ==
    CASE r.family = "quiet_create" -> db[r.key] = Absent
      [] r.family = "quiet_modify" -> Changed(r) # {} /\ db[r.key] # Absent
      [] r.family = "quiet_delete" -> db[r.key] # Absent
      [] OTHER                     -> FALSE

QuietResult(r) ==
    CASE r.family = "quiet_create" -> {{r.edit}}
      [] r.family = "quiet_modify" -> Changed(r)
      [] OTHER                     -> {Absent}

CommitQuietly(c) ==
    LET r == req[c] IN
    /\ Ready(c, r.family)
    /\ QuietAllowed(r)
    /\ \E d \in QuietResult(r) : WriteRow(r.key, d)
    /\ Finish(c)

\* Every other outcome of the decision is an error response: 404, 409, 412, a
\* constraint violation, or the TypeError of unpacking None.  Nothing changes.
Allowed(r) ==
    \/ r.family = "create" /\ CreateAllowed(r)
    \/ r.family \in {"put", "put_for_shell"} /\ PutAllowed(r)
    \/ r.family = "modify" /\ ModifyAllowed(r)
    \/ r.family = "delete" /\ DeleteAllowed(r)
    \/ r.family = "attach" /\ AttachAllowed(r)
    \/ r.family = "detach" /\ DetachAllowed(r)
    \/ r.family = "delete_for_shell" /\ DeleteForShellAllowed(r)
    \/ QuietAllowed(r)

Refuse(c) ==
    /\ Active(c)
    /\ Ready(c, req[c].family)
    /\ ~Allowed(req[c])
    /\ Finish(c)
    /\ UNCHANGED <<db, cache, values, event, history, started>>

\* An exception of an await, a cancelled request or a killed process: the
\* remaining steps are not made; what is committed stays.
Abort(c) ==
    /\ Active(c)
    /\ Finish(c)
    /\ UNCHANGED <<db, cache, values, event, history, started>>

-----------------------------------------------------------------------------
(* Reading handlers.                                                       *)

\* The If-Match values a client can hold: ETags of documents once committed.
IfMatch(k) == {None} \cup (history[k] \ {Absent})

\* Each GET handler is the set of plans (awaits) it may follow; what it makes of
\* the document (metadata, values, references, paths, one element, an
\* attachment) is not told apart.

\* A GET by the cache; a modifier in the query string takes the slow path,
\* which skips the cache but fills it all the same.
Cached(k) == <<Await("lookup", k)>>
Uncached(k) == <<Await("fetch", k), Await("fill", k)>>

GetShellById(s) == {Cached(s), Uncached(s)}
GetShellMetadata(s) == {Cached(s)}
GetShellReference(s) == {Cached(s)}
GetAssetInformation(s) == {Cached(s)}
GetAssetInformationThumbnail(s) == {Cached(s)}
GetSubmodelReferences(s) == {Cached(s)}

GetSubmodelById(m) == {Cached(m), Uncached(m)}
GetSubmodelMetadata(m) == {Cached(m)}
GetSubmodelValue(m) == {Cached(m)}
GetSubmodelReference(m) == {Cached(m)}
GetSubmodelPath(m) == {Cached(m)}
GetSubmodelElements(m) == {Cached(m)}
GetAllSubmodelElementsMetadata(m) == {Cached(m)}
GetAllSubmodelElementsValue(m) == {Cached(m)}
GetAllSubmodelElementsReference(m) == {Cached(m)}
GetAllSubmodelElementsPath(m) == {Cached(m)}
GetSubmodelElementByPath(m) == {Cached(m)}
GetElementMetadata(m) == {Cached(m)}
GetElementReference(m) == {Cached(m)}
GetElementPath(m) == {Cached(m)}
GetElementAttachment(m) == {Cached(m)}
GetElementValue(m) ==
    {<<Await("value_get", m), Await("lookup", m), Await("value_set", m)>>}

GetConceptDescriptionById(d) == {Cached(d)}

\* Scoped to a shell: the shell, then the Submodel it has to reference.
LoadSubmodelForShell(s, m) == <<Await("lookup", s), Await("lookup", m)>>

GetSubmodelByIdForShell(s, m) == {LoadSubmodelForShell(s, m)}
GetSubmodelMetadataForShell(s, m) == {LoadSubmodelForShell(s, m)}
GetSubmodelValueForShell(s, m) == {LoadSubmodelForShell(s, m)}
GetSubmodelReferenceForShell(s, m) == {LoadSubmodelForShell(s, m)}
GetSubmodelPathForShell(s, m) == {LoadSubmodelForShell(s, m)}
GetSubmodelElementsForShell(s, m) == {LoadSubmodelForShell(s, m)}
GetAllSubmodelElementsMetadataForShell(s, m) == {LoadSubmodelForShell(s, m)}
GetAllSubmodelElementsValueForShell(s, m) == {LoadSubmodelForShell(s, m)}
GetAllSubmodelElementsReferenceForShell(s, m) == {LoadSubmodelForShell(s, m)}
GetAllSubmodelElementsPathForShell(s, m) == {LoadSubmodelForShell(s, m)}
GetSubmodelElementByPathForShell(s, m) == {LoadSubmodelForShell(s, m)}
GetSubmodelElementMetadataForShell(s, m) == {LoadSubmodelForShell(s, m)}
GetSubmodelElementValueForShell(s, m) == {LoadSubmodelForShell(s, m)}
GetSubmodelElementReferenceForShell(s, m) == {LoadSubmodelForShell(s, m)}
GetSubmodelElementPathForShell(s, m) == {LoadSubmodelForShell(s, m)}
GetElementAttachmentForShell(s, m) == {LoadSubmodelForShell(s, m)}

\* The Submodels a shell references, up to a limit, m being the first; without
\* any it is Cached(s), and one that is missing turns the listing into a 404.
Others(m) == UNION {[1 .. n -> Submodel \ {m}] : n \in 0 .. Cardinality(Submodel) - 1}
GetSubmodelsForShell(s, m) ==
    {LoadSubmodelForShell(s, m) \o [i \in DOMAIN l |-> Await("lookup", l[i])] :
        l \in {l \in Others(m) : \A i, j \in DOMAIN l : i # j => l[i] # l[j]}}

ShellReads(s) ==
    GetShellById(s) \cup GetShellMetadata(s) \cup GetShellReference(s)
    \cup GetAssetInformation(s) \cup GetAssetInformationThumbnail(s)
    \cup GetSubmodelReferences(s)

SubmodelReads(m) ==
    GetSubmodelById(m) \cup GetSubmodelMetadata(m) \cup GetSubmodelValue(m)
    \cup GetSubmodelReference(m) \cup GetSubmodelPath(m) \cup GetSubmodelElements(m)
    \cup GetAllSubmodelElementsMetadata(m) \cup GetAllSubmodelElementsValue(m)
    \cup GetAllSubmodelElementsReference(m) \cup GetAllSubmodelElementsPath(m)
    \cup GetSubmodelElementByPath(m) \cup GetElementMetadata(m)
    \cup GetElementReference(m) \cup GetElementPath(m)
    \cup GetElementAttachment(m) \cup GetElementValue(m)

ScopedReads(s, m) ==
    GetSubmodelByIdForShell(s, m) \cup GetSubmodelMetadataForShell(s, m)
    \cup GetSubmodelValueForShell(s, m) \cup GetSubmodelReferenceForShell(s, m)
    \cup GetSubmodelPathForShell(s, m) \cup GetSubmodelElementsForShell(s, m)
    \cup GetAllSubmodelElementsMetadataForShell(s, m)
    \cup GetAllSubmodelElementsValueForShell(s, m)
    \cup GetAllSubmodelElementsReferenceForShell(s, m)
    \cup GetAllSubmodelElementsPathForShell(s, m)
    \cup GetSubmodelElementByPathForShell(s, m)
    \cup GetSubmodelElementMetadataForShell(s, m)
    \cup GetSubmodelElementValueForShell(s, m)
    \cup GetSubmodelElementReferenceForShell(s, m)
    \cup GetSubmodelElementPathForShell(s, m) \cup GetElementAttachmentForShell(s, m)
    \cup GetSubmodelsForShell(s, m)

Read(c, k, s, plans) ==
    \E plan \in plans : Begin(c, "read", k, s, None, "none", plan)

-----------------------------------------------------------------------------
(* Creating, replacing and deleting handlers.                              *)

\* Mutant of PostOne: the event is published before the commit.
PostOnePublishingFirst(c, k) ==
    Begin(c, "create", k, None, None, "replace",
          <<Await("probe", k), AwaitWith("created", k, {started + 1})>>)

PostOne(c, k) ==
    Begin(c, "create", k, None, None, "replace", <<Await("probe", k)>>)

PutOne(c, k) ==
    \E tag \in IfMatch(k) :
        Begin(c, "put", k, None, tag, "replace", <<Await("probe", k)>>)

DeleteOne(c, k) == Begin(c, "delete", k, None, None, "none", << >>)

PostShell(c, s) == PostOne(c, s)
PutShellById(c, s) == PutOne(c, s)
DeleteShellById(c, s) == DeleteOne(c, s)

PostSubmodel(c, m) == PostOne(c, m)
PutSubmodelById(c, m) == PutOne(c, m)
DeleteSubmodelById(c, m) == DeleteOne(c, m)

PostConceptDescription(c, d) == PostOne(c, d)
PutConceptDescriptionById(c, d) == PutOne(c, d)
DeleteConceptDescriptionById(c, d) == DeleteOne(c, d)

\* The template is read first; the instance is a new Submodel.
InstantiateTemplate(c, template, m) ==
    Begin(c, "create", m, None, None, "replace",
          <<Await("fetch", template), Await("probe", m)>>)

-----------------------------------------------------------------------------
(* Handlers that change part of a document read from its row.              *)

Modify(c, k, tags, change) ==
    \E tag \in tags :
        Begin(c, "modify", k, None, tag, change, <<Await("fetch", k)>>)

PutAssetInformation(c, s) == Modify(c, s, IfMatch(s), "add")
PutThumbnail(c, s) == Modify(c, s, IfMatch(s), "add")
DeleteThumbnail(c, s) == Modify(c, s, IfMatch(s), "drop")

PatchSubmodelValue(c, m) == Modify(c, m, IfMatch(m), "add")
PatchSubmodelMetadata(c, m) == Modify(c, m, IfMatch(m), "add")
PutElementAttachment(c, m) == Modify(c, m, IfMatch(m), "add")
DeleteElementAttachment(c, m) == Modify(c, m, IfMatch(m), "drop")

\* The creating and the deleting element handlers take no If-Match.
PostSubmodelElement(c, m) == Modify(c, m, {None}, "add")
PostNestedSubmodelElement(c, m) == Modify(c, m, {None}, "add")
PutSubmodelElement(c, m) == Modify(c, m, IfMatch(m), "swap")
PatchElementValue(c, m) == Modify(c, m, IfMatch(m), "swap")
PatchSubmodelElement(c, m) == Modify(c, m, IfMatch(m), "swap")
DeleteSubmodelElement(c, m) == Modify(c, m, {None}, "drop")

-----------------------------------------------------------------------------
(* Handlers scoped to a shell.  They go on with what the cache holds.      *)

ModifyForShell(c, s, m, tags, change) ==
    \E tag \in tags :
        Begin(c, "modify", m, s, tag, change, LoadSubmodelForShell(s, m))

PatchSubmodelByIdForShell(c, s, m) == ModifyForShell(c, s, m, IfMatch(m), "add")
PatchSubmodelMetadataForShell(c, s, m) == ModifyForShell(c, s, m, IfMatch(m), "add")
PatchSubmodelValueForShell(c, s, m) == ModifyForShell(c, s, m, IfMatch(m), "add")
PutElementAttachmentForShell(c, s, m) == ModifyForShell(c, s, m, IfMatch(m), "add")
DeleteElementAttachmentForShell(c, s, m) == ModifyForShell(c, s, m, IfMatch(m), "drop")
PostSubmodelElementForShell(c, s, m) == ModifyForShell(c, s, m, {None}, "add")
PostNestedSubmodelElementForShell(c, s, m) == ModifyForShell(c, s, m, {None}, "add")
PutSubmodelElementForShell(c, s, m) == ModifyForShell(c, s, m, IfMatch(m), "swap")
PatchSubmodelElementValueForShell(c, s, m) == ModifyForShell(c, s, m, IfMatch(m), "swap")
PatchSubmodelElementForShell(c, s, m) == ModifyForShell(c, s, m, IfMatch(m), "swap")
DeleteSubmodelElementForShell(c, s, m) == ModifyForShell(c, s, m, {None}, "drop")

PostSubmodelReference(c, s, m) ==
    Begin(c, "attach", m, s, None, "none", <<Await("lookup", s), Await("probe", m)>>)

DeleteSubmodelReference(c, s, m) ==
    Begin(c, "detach", m, s, None, "none", <<Await("lookup", s)>>)

\* Mutant of PutSubmodelByIdForShell: the body is cached before the commit.
PutSubmodelByIdForShellCachingFirst(c, s, m) ==
    \E tag \in IfMatch(m) :
        Begin(c, "put_for_shell", m, s, tag, "replace",
              <<Await("lookup", s), Await("probe", m),
                AwaitWith("set", m, {started + 1})>>)

PutSubmodelByIdForShell(c, s, m) ==
    \E tag \in IfMatch(m) :
        Begin(c, "put_for_shell", m, s, tag, "replace",
              <<Await("lookup", s), Await("probe", m)>>)

DeleteSubmodelByIdForShell(c, s, m) ==
    Begin(c, "delete_for_shell", m, s, None, "none", <<Await("lookup", s)>>)

-----------------------------------------------------------------------------
(* Writers beside the HTTP API.                                            *)

QuietCreate(c, k) == Begin(c, "quiet_create", k, None, None, "replace", << >>)
QuietDelete(c, k) == Begin(c, "quiet_delete", k, None, None, "none", << >>)
QuietModify(c, k) ==
    Begin(c, "quiet_modify", k, None, None, "add", <<Await("fetch", k)>>)

CreateShellMutation(c, s) == QuietCreate(c, s)
UpdateShellMutation(c, s) == QuietModify(c, s)
DeleteShellMutation(c, s) == QuietDelete(c, s)
CreateSubmodelMutation(c, m) == QuietCreate(c, m)
UpdateSubmodelMutation(c, m) == QuietModify(c, m)
DeleteSubmodelMutation(c, m) == QuietDelete(c, m)
CreateConceptMutation(c, d) == QuietCreate(c, d)
UpdateConceptMutation(c, d) == QuietModify(c, d)
DeleteConceptMutation(c, d) == QuietDelete(c, d)
MqttUpdateElementValue(c, m) == QuietModify(c, m)

-----------------------------------------------------------------------------
(* The system.                                                             *)

\* SETEX: an entry disappears by itself, after 3600 s or 300 s.
Expire(k) ==
    /\ cache[k] # Absent
    /\ cache' = [cache EXCEPT ![k] = Absent]
    /\ UNCHANGED <<db, values, event, history, req, started>>

\* Mutant of ExpireValue: values are set without a time to live.
NeverExpireValue(m) == FALSE /\ UNCHANGED vars

ExpireValue(m) ==
    /\ values[m] # Absent
    /\ values' = [values EXCEPT ![m] = Absent]
    /\ UNCHANGED <<db, cache, event, history, req, started>>

\* What a table may hold at the start: a shell may reference any Submodels.
Stored(k) == IF k \in Shell THEN SUBSET Submodel ELSE {{}}

Init ==
    /\ db \in [Key -> {Absent} \cup SUBSET Submodel]
    /\ \A k \in Key : db[k] \in {Absent} \cup Stored(k)
    /\ cache = NothingRead
    /\ values = [m \in Submodel |-> Absent]
    /\ event = NoEvent
    /\ history = [k \in Key |-> {db[k]} \ {Absent}]
    /\ req = [c \in Client |-> Idle]
    /\ started = 0

ShellRequest(c, s) ==
    \/ Read(c, s, None, ShellReads(s))
    \/ PostShell(c, s) \/ PutShellById(c, s) \/ DeleteShellById(c, s)
    \/ PutAssetInformation(c, s) \/ PutThumbnail(c, s) \/ DeleteThumbnail(c, s)

SubmodelRequest(c, m) ==
    \/ Read(c, m, None, SubmodelReads(m))
    \/ PostSubmodel(c, m) \/ PutSubmodelById(c, m) \/ DeleteSubmodelById(c, m)
    \/ PatchSubmodelValue(c, m) \/ PatchSubmodelMetadata(c, m)
    \/ PutElementAttachment(c, m) \/ DeleteElementAttachment(c, m)
    \/ PostSubmodelElement(c, m) \/ PostNestedSubmodelElement(c, m)
    \/ PutSubmodelElement(c, m) \/ PatchElementValue(c, m)
    \/ PatchSubmodelElement(c, m) \/ DeleteSubmodelElement(c, m)
    \/ \E template \in Submodel \ {m} : InstantiateTemplate(c, template, m)

ConceptRequest(c, d) ==
    \/ Read(c, d, None, GetConceptDescriptionById(d)) \/ PostConceptDescription(c, d)
    \/ PutConceptDescriptionById(c, d) \/ DeleteConceptDescriptionById(c, d)

ScopedRequest(c, s, m) ==
    \/ Read(c, m, s, ScopedReads(s, m))
    \/ PostSubmodelReference(c, s, m) \/ DeleteSubmodelReference(c, s, m)
    \/ PutSubmodelByIdForShell(c, s, m) \/ DeleteSubmodelByIdForShell(c, s, m)
    \/ PatchSubmodelByIdForShell(c, s, m) \/ PatchSubmodelMetadataForShell(c, s, m)
    \/ PatchSubmodelValueForShell(c, s, m)
    \/ PutElementAttachmentForShell(c, s, m)
    \/ DeleteElementAttachmentForShell(c, s, m)
    \/ PostSubmodelElementForShell(c, s, m)
    \/ PostNestedSubmodelElementForShell(c, s, m)
    \/ PutSubmodelElementForShell(c, s, m)
    \/ PatchSubmodelElementValueForShell(c, s, m)
    \/ PatchSubmodelElementForShell(c, s, m)
    \/ DeleteSubmodelElementForShell(c, s, m)

HttpRequest(c) ==
    \/ \E s \in Shell : ShellRequest(c, s)
    \/ \E m \in Submodel : SubmodelRequest(c, m)
    \/ \E d \in Concept : ConceptRequest(c, d)
    \/ \E s \in Shell, m \in Submodel : ScopedRequest(c, s, m)

QuietRequest(c) ==
    \/ \E s \in Shell :
           \/ CreateShellMutation(c, s) \/ UpdateShellMutation(c, s)
           \/ DeleteShellMutation(c, s)
    \/ \E m \in Submodel :
           \/ CreateSubmodelMutation(c, m) \/ UpdateSubmodelMutation(c, m)
           \/ DeleteSubmodelMutation(c, m) \/ MqttUpdateElementValue(c, m)
    \/ \E d \in Concept :
           \/ CreateConceptMutation(c, d) \/ UpdateConceptMutation(c, d)
           \/ DeleteConceptMutation(c, d)

ReadOrPublish(c) ==
    \/ ValueGet(c) \/ Lookup(c) \/ ReadRow(c) \/ Fill(c) \/ ValueSet(c)
    \/ SetCache(c) \/ EvictCache(c) \/ DropValues(c) \/ Publish(c)

Decide(c) ==
    \/ CommitCreate(c) \/ CommitPut(c) \/ CommitModify(c) \/ CommitDelete(c)
    \/ CommitAttach(c) \/ CommitDetach(c)
    \/ CommitPutForShell(c) \/ Link(c) \/ CommitDeleteForShell(c)
    \/ CommitQuietly(c) \/ Refuse(c)

\* The steps a request takes by itself once it was sent.
Step(c) == ReadOrPublish(c) \/ Decide(c)

Expiry ==
    \/ \E k \in Key : Expire(k)
    \/ \E m \in Submodel : ExpireValue(m)

Next ==
    \/ \E c \in Client : HttpRequest(c) \/ QuietRequest(c) \/ Step(c) \/ Abort(c)
    \/ Expiry

Spec == Init /\ [][Next]_vars

\* All writes come through the HTTP API and none is cut short after its commit.
CarefulNext ==
    \/ \E c \in Client :
           \/ HttpRequest(c) \/ Step(c)
           \/ req[c].family # "committed" /\ Abort(c)
    \/ Expiry

CarefulSpec == Init /\ [][CarefulNext]_vars

\* The event loop resumes every coroutine whose await has completed, and Redis
\* expires every entry.  No fairness for clients: nobody has to send a request.
Fairness ==
    /\ \A c \in Client : WF_vars(Step(c))
    /\ \A k \in Key : WF_vars(Expire(k))
    /\ \A m \in Submodel : WF_vars(ExpireValue(m))

FairSpec == Spec /\ Fairness

-----------------------------------------------------------------------------
(* Properties.                                                             *)

\* Every variable keeps its type (database rows, Redis entries, coroutines).
TypeOK ==
    /\ db \in [Key -> DocOrAbsent]
    /\ cache \in [Key -> DocOrAbsent]
    /\ values \in [Submodel -> DocOrAbsent]
    /\ event \in Effect \cup {NoEvent}
    /\ history \in [Key -> SUBSET DocOrAbsent]
    /\ req \in [Client -> Request]
    /\ started \in 0 .. MaxMutations

Documents(k) == history[k] \ {Absent}

Store == INSTANCE DocumentStore
    WITH store <- db, past <- [k \in Key |-> Documents(k)], view <- cache

\* The handlers, whatever their order, keep the promises of DocumentStore: no
\* update writes back a deleted document, and Redis only ever serves a document
\* that was committed to PostgreSQL.
ImplementsStore == Store!Spec

\* An element $value in Redis was extracted from a committed document, and an
\* event carries a committed document (or reports a deletion that happened):
\* no cache fill, 304, subscriber or federation peer sees a rolled-back write.
NothingUncommittedLeaks ==
    /\ \A m \in Submodel : values[m] # Absent => values[m] \in Documents(m)
    /\ event # NoEvent => event.doc \in history[event.key]

Fresh ==
    /\ \A k \in Key : cache[k] \in {Absent, db[k]}
    /\ \A m \in Submodel : values[m] \in {Absent, db[m]}

\* With one client at a time (CarefulSpec, one Client), a cached document or
\* $value is the current one whenever no request is in flight: each handler
\* invalidates or refreshes all its commit has made stale, shells, Submodels
\* behind shells and element values alike, before it answers.
SequentialFresh == (\A c \in Client : ~Active(c)) => Fresh

\* Requests that race leave stale entries behind, for a while: once the writes
\* have stopped, expiry (cache.redis TTLs) makes the cache agree with the rows.
StalenessEnds == <>[]Fresh

\* What README.md:439-447 says of If-Match: the update happens only if the
\* resource has not changed.  The handlers compare the tag with the row they
\* read one await earlier, and the update compares nothing.
ConditionalWriteOnlyIfUnchanged ==
    [][\A c \in Client :
          /\ CommitPut(c) \/ CommitModify(c)
          /\ req[c].tag # None
          /\ db[req[c].key] # Absent
          => db[req[c].key] = req[c].tag]_vars
=============================================================================
