------------------------------ MODULE Operations ------------------------------
(***************************************************************************)
(* The invocation of Operation elements (titan.core.operation_executor and *)
(* the invoke handlers of the Submodel and shell routers): the arguments   *)
(* are checked against a document, an event is published, a row is written *)
(* and the client gets its id as a handle to ask with.  Synchronous and    *)
(* asynchronous invocations differ in the shape of the answer only.        *)
(***************************************************************************)
EXTENDS Absence, Integers, FiniteSets

CONSTANTS
    Path,           \* where Operation elements may be
    Argument,
    Document,       \* of the Submodel: [Path -> [kind, inputs, inouts]]
    Invoker,        \* requests in flight
    MaxInvocations, \* bound on the invocations
    MaxWrites       \* bound on what others write

\* Nothing is no document, row or request.
ASSUME OperationsAssumption ==
    /\ MaxInvocations \in Nat /\ MaxWrites \in Nat
    /\ Nothing \notin Document /\ Nothing \notin {"sent", "dead"}
    /\ Nothing \notin [pc : {"read", "publish", "create", "answer"}, scoped : BOOLEAN, path : Path,
                       inputs : SUBSET Argument, inouts : SUBSET Argument,
                       number : 0..MaxInvocations]
    /\ Nothing \notin [path : Path, inputs : SUBSET Argument, inouts : SUBSET Argument,
                       state : {"pending"}]

VARIABLES
    submodel,       \* the Submodel's committed row, or Nothing
    shell,          \* whether the shell's row refers to it, or Nothing
    copies,         \* what Redis has of both, or Nothing
    invocation,     \* sequence number -> committed row, or Nothing
    eventOf,        \* sequence number -> Nothing, "sent" or "dead"
    handle,         \* numbers that clients were given, with what they asked for
    asked,          \* [Invoker -> the request, or Nothing]
    numbered, writes,
    committed       \* the documents the row has ever had (history)

operationVars == <<submodel, shell, copies, invocation, eventOf, handle, asked,
                   numbered, writes, committed>>

Number == 1 .. MaxInvocations

\* The element may be absent, another one, or an Operation that cannot be parsed.
Declares(doc, path) == doc[path].kind = "operation"

-----------------------------------------------------------------------------
(* The documents, which the rest of the API writes and caches.             *)

Writes == writes < MaxWrites /\ writes' = writes + 1

SubmodelWritten ==
    /\ Writes
    /\ submodel' \in (Document \cup {Nothing}) \ {submodel}
    /\ committed' = committed \cup ({submodel'} \ {Nothing})
    /\ UNCHANGED <<shell, copies, invocation, eventOf, handle, asked, numbered>>

ShellWritten ==
    /\ Writes
    /\ shell' \in {TRUE, FALSE, Nothing} \ {shell}
    /\ UNCHANGED <<submodel, copies, invocation, eventOf, handle, asked, numbered, committed>>

\* An entry of the cache is refreshed or gone.
CopiesChange ==
    /\ Writes
    /\ copies' \in {[submodel |-> s, shell |-> h] : s \in {submodel, Nothing}, h \in {shell, Nothing}}
                      \ {copies}
    /\ UNCHANGED <<submodel, shell, invocation, eventOf, handle, asked, numbered, committed>>

-----------------------------------------------------------------------------
(* OperationExecutor.                                                      *)

\* Mutant of Validated: the in-out arguments are not looked at.
ValidatedInputs(declared, c) == c.inputs \subseteq declared.inputs

\* Every argument is declared; nothing asks for the arguments that are missing.
Validated(declared, c) ==
    c.inputs \subseteq declared.inputs /\ c.inouts \subseteq declared.inouts

Go(r, c) == asked' = [asked EXCEPT ![r] = c]
Ends(r) == Go(r, Nothing)

\* The element that the handler decides on is that of doc; a 404 or 400 without one.
Decides(r, doc) ==
    LET c == asked[r]
        valid == doc # Nothing /\ Declares(doc, c.path) /\ Validated(doc[c.path], c)
    IN Go(r, IF valid THEN [c EXCEPT !.pc = "publish"] ELSE Nothing)

\* _load_submodel_for_shell prefers the copies, and fills them: first the shell's,
\* then, when that refers to the Submodel, the Submodel's.
LoadForShell(r) ==
    LET c == asked[r]
        refers == IF copies.shell # Nothing THEN copies.shell ELSE shell
        doc == IF copies.submodel # Nothing THEN copies.submodel ELSE submodel
    IN /\ c.pc = "read" /\ c.scoped
       /\ IF refers = TRUE THEN Decides(r, doc) ELSE Ends(r)
       /\ copies' = [shell |-> refers, submodel |-> IF refers = TRUE THEN doc ELSE copies.submodel]
       /\ UNCHANGED <<submodel, shell, invocation, eventOf, handle, numbered, writes, committed>>

\* The handlers without a shell read the row.
Load(r) ==
    LET c == asked[r] IN
    /\ c.pc = "read" /\ ~c.scoped
    /\ Decides(r, submodel)
    /\ UNCHANGED <<submodel, shell, copies, invocation, eventOf, handle, numbered, writes, committed>>

\* The request of a user who has authenticated fails before the event, since a user
\* has no attribute `subject`; that of an anonymous one goes on.
PublishInvocation(r) ==
    LET c == asked[r] IN
    /\ c.pc = "publish"
    /\ \/ Ends(r) /\ UNCHANGED <<eventOf, numbered>>
       \/ /\ numbered < MaxInvocations
          /\ numbered' = numbered + 1
          /\ eventOf' = [eventOf EXCEPT ![numbered + 1] = "sent"]
          /\ Go(r, [c EXCEPT !.pc = "create", !.number = numbered + 1])
    /\ UNCHANGED <<submodel, shell, copies, invocation, handle, writes, committed>>

\* The row of an invocation: what it was asked, and how it stands.
Row(c) == [path |-> c.path, inputs |-> c.inputs, inouts |-> c.inouts, state |-> "pending"]

\* Mutant of Recorded: the row is flushed and not committed.
NotRecorded(c) == invocation

\* OperationInvocationRepository.create and the commit.
Recorded(c) == [invocation EXCEPT ![c.number] = Row(c)]

Create(r) ==
    LET c == asked[r] IN
    /\ c.pc = "create"
    /\ invocation' = Recorded(c)
    /\ Go(r, [c EXCEPT !.pc = "answer"])
    /\ UNCHANGED <<submodel, shell, copies, eventOf, handle, numbered, writes, committed>>

Answer(r) ==
    LET c == asked[r] IN
    /\ c.pc = "answer"
    /\ handle' = handle \cup {[number |-> c.number, path |-> c.path,
                               inputs |-> c.inputs, inouts |-> c.inouts]}
    /\ Ends(r)
    /\ UNCHANGED <<submodel, shell, copies, invocation, eventOf, numbered, writes, committed>>

\* A query or the event bus fails, or the process dies.
InvocationFails(r) ==
    /\ asked[r] # Nothing
    /\ Ends(r)
    /\ UNCHANGED <<submodel, shell, copies, invocation, eventOf, handle, numbered, writes, committed>>

\* The consumer of the Redis stream cannot build the event: its event_type is none
\* of EventType.  After the retries it is a dead letter.  (On the bus in memory no
\* handler takes it.)
Undeliverable(n) ==
    /\ eventOf[n] = "sent"
    /\ eventOf' = [eventOf EXCEPT ![n] = "dead"]
    /\ UNCHANGED <<submodel, shell, copies, invocation, handle, asked, numbered, writes, committed>>

-----------------------------------------------------------------------------
(* The handlers: full or value-only, whose maps become lists of arguments. *)

Invoke(r, scoped) ==
    /\ asked[r] = Nothing /\ numbered < MaxInvocations
    /\ \E path \in Path, inputs, inouts \in SUBSET Argument :
          Go(r, [pc |-> "read", scoped |-> scoped, path |-> path, inputs |-> inputs,
                 inouts |-> inouts, number |-> 0])
    /\ UNCHANGED <<submodel, shell, copies, invocation, eventOf, handle, numbered, writes, committed>>

InvokeOperation(r) == Invoke(r, FALSE)
InvokeOperationForShell(r) == Invoke(r, TRUE)

\* The row of a handle when asked for at a path; a 404 without.
GetOperationStatus(number, path) ==
    IF invocation[number] = Nothing THEN {} ELSE {row \in {invocation[number]} : row.path = path}

\* With a shell, its document must refer to the Submodel.
GetOperationStatusForShell(number, path, refers) ==
    IF refers = TRUE THEN GetOperationStatus(number, path) ELSE {}

-----------------------------------------------------------------------------

OperationsInit ==
    /\ submodel \in Document \cup {Nothing}
    /\ shell \in {TRUE, FALSE, Nothing}
    /\ copies = [submodel |-> Nothing, shell |-> Nothing]
    /\ invocation = [n \in Number |-> Nothing]
    /\ eventOf = [n \in Number |-> Nothing]
    /\ handle = {}
    /\ asked = [r \in Invoker |-> Nothing]
    /\ numbered = 0 /\ writes = 0
    /\ committed = {submodel} \ {Nothing}

InvokerStep(r) == LoadForShell(r) \/ Load(r) \/ PublishInvocation(r) \/ Create(r) \/ Answer(r)

OperationsNext ==
    \/ \E r \in Invoker : InvokeOperation(r) \/ InvokeOperationForShell(r)
    \/ \E r \in Invoker : asked[r] # Nothing /\ (InvokerStep(r) \/ InvocationFails(r))
    \/ \E n \in Number : Undeliverable(n)
    \/ SubmodelWritten \/ ShellWritten \/ CopiesChange

OperationsSpec == OperationsInit /\ [][OperationsNext]_operationVars

-----------------------------------------------------------------------------
(* Properties.                                                             *)

\* Events come before rows; rows and handles are of numbers that were given away.
OperationsTypeOK ==
    /\ submodel \in Document \cup {Nothing} /\ shell \in {TRUE, FALSE, Nothing}
    /\ copies.submodel \in committed \cup {Nothing} /\ copies.shell \in {TRUE, FALSE, Nothing}
    /\ numbered \in 0..MaxInvocations /\ writes \in 0..MaxWrites
    /\ \A n \in Number :
          /\ eventOf[n] \in {"sent", "dead"} <=> n <= numbered
          /\ invocation[n] # Nothing => n <= numbered
    /\ \A h \in handle : h.number \in 1..numbered

\* A handle that a client was given can be asked for by the path of its operation,
\* and by no other, through the shell or not, and tells of the arguments that were
\* sent, all of them declared by a document that was committed: whatever is written,
\* cached, deleted or fails between the steps of the request and afterwards.
HandlesHold ==
    \A h \in handle :
        LET found == GetOperationStatus(h.number, h.path) IN
        /\ \E row \in found : row.inputs = h.inputs /\ row.inouts = h.inouts
        /\ shell = TRUE => GetOperationStatusForShell(h.number, h.path, shell) = found
        /\ \A path \in Path \ {h.path} : GetOperationStatus(h.number, path) = {}
        /\ \E doc \in committed :
              /\ Declares(doc, h.path)
              /\ h.inputs \subseteq doc[h.path].inputs /\ h.inouts \subseteq doc[h.path].inouts
=============================================================================
