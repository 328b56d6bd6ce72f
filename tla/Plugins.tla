-------------------------------- MODULE Plugins --------------------------------
(***************************************************************************)
(* The plugin registry and loader (titan.plugins).  Tasks load and unload  *)
(* plugins under an asyncio lock that is held while on_load and on_unload  *)
(* are awaited; other tasks execute the hooks of one type without it, and  *)
(* every handler they await lets the registry change under the loop.       *)
(*                                                                         *)
(* A plugin has one handler of the type.  Every load is of a new object,   *)
(* as in PluginLoader.load_all, and nobody cancels the tasks.              *)
(***************************************************************************)
EXTENDS Integers, Sequences, FiniteSets, FiniteSetsExt, SequencesExt, Absence

CONSTANTS
    Plugin,     \* the plugin classes that exist
    Listed,     \* [Plugin -> all of them, those it depends on in the order in which it names them]
    Manager,    \* tasks that load and unload plugins
    Caller,     \* tasks that execute hooks
    HookPriority

VARIABLES
    depends,    \* [Plugin -> its dependencies]
    priority,   \* [Plugin -> the priority of its handler]
    loaded,     \* _plugins, in the order of the dictionary
    hooks,      \* _hooks[type]: the plugins whose handlers are registered
    manager,    \* [Manager -> what it does, what is left, and whose on_load it awaits]
    caller      \* [Caller -> where its execute_hooks is]

pluginVars == <<depends, priority, loaded, hooks, manager, caller>>

Loaded == ToSet(loaded)

\* The loop of execute_hooks runs over the list that the registry had when it began:
\* the registry's own one, or one that an unload has replaced since.
Live == <<"live">>

ASSUME PluginsAssumption ==
    /\ IsFiniteSet(Plugin) /\ HookPriority \subseteq Int
    /\ \A p \in Plugin : Listed[p] \in Seq(Plugin) /\ ToSet(Listed[p]) = Plugin
    /\ Nothing \notin Plugin /\ Live \notin Seq(Plugin)

Registrations(c) == IF caller[c].over = Live THEN hooks ELSE caller[c].over

LockFree == \A m \in Manager : manager[m].inside = Nothing
Resting(m) == manager[m].todo = <<>> /\ manager[m].inside = Nothing

-----------------------------------------------------------------------------
(* The loader.                                                             *)

\* Mutant of Due: a class does not ask for the classes it depends on.
DueAlone(order, s) ==
    IF s.path = <<>> THEN ToSet(order) \ s.visited ELSE {}

\* The classes of `order` that a visit still has to make: of its dependencies, or of all.
Due(order, s) ==
    IF s.path = <<>> THEN ToSet(order) \ s.visited
    ELSE (depends[Last(s.path)] \cap ToSet(order)) \ s.visited

FirstOf(list, due) == list[Min({i \in DOMAIN list : list[i] \in due})]

\* _sort_by_dependencies: depth first, a cycle is cut where it closes.  `path` are the
\* calls of visit under way.  load_all leaves out what is switched off when it comes to it.
Visit(order, off, s) ==
    CASE Due(order, s) # {} ->
            LET p == FirstOf(IF s.path = <<>> THEN order ELSE Listed[Last(s.path)], Due(order, s))
            IN [s EXCEPT !.path = Append(@, p), !.visited = @ \cup {p}]
      [] Due(order, s) = {} /\ s.path # <<>> ->
            [s EXCEPT !.path = Front(@),
                      !.result = IF Last(s.path) \in off THEN @ ELSE Append(@, Last(s.path))]
      [] OTHER -> s

\* Every class is entered and left once.
Visits(order, off) ==
    LET visit[n \in 0 .. 2 * Len(order)] ==
            IF n = 0 THEN [path |-> <<>>, visited |-> {}, result |-> <<>>]
            ELSE Visit(order, off, visit[n - 1])
    IN visit

ClassesToLoad(order, off) == Visits(order, off)[2 * Len(order)].result

\* discover: the classes of the entry points and of the directories that import, by
\* name, in the order in which they are found.
Discoverable == UNION {SetToSeqs(found) : found \in SUBSET Plugin}

\* load_all, of the classes that were discovered but for those that are switched off.
LoadAll(m) ==
    /\ Resting(m)
    /\ \E order \in Discoverable, off \in SUBSET Plugin :
           manager' = [manager EXCEPT ![m] =
               [doing |-> "load", inside |-> Nothing, wanted |-> ToSet(order) \ off,
                todo |-> ClassesToLoad(order, off)]]
    /\ UNCHANGED <<depends, priority, loaded, hooks, caller>>

\* load_plugin and unload_plugin, called for one.
LoadOrUnload(m) ==
    /\ Resting(m)
    /\ \E p \in Plugin, doing \in {"load", "unload"} :
           manager' = [manager EXCEPT ![m] =
               [doing |-> doing, inside |-> Nothing, wanted |-> {}, todo |-> <<p>>]]
    /\ UNCHANGED <<depends, priority, loaded, hooks, caller>>

\* unload_all, in the reverse order of what is loaded when it begins.
UnloadAll(m) ==
    /\ Resting(m)
    /\ manager' = [manager EXCEPT ![m] =
           [doing |-> "unload", inside |-> Nothing, wanted |-> {}, todo |-> Reverse(loaded)]]
    /\ UNCHANGED <<depends, priority, loaded, hooks, caller>>

\* What a task wanted to load is no promise once another one loads or unloads (ghost).
TakesLock(m, inside) ==
    manager' = [n \in Manager |->
        IF n = m THEN [manager[m] EXCEPT !.inside = inside, !.todo = Tail(@)]
        ELSE [manager[n] EXCEPT !.wanted = {}]]

\* Leaves the lock; what has raised is not wanted any more.
LeavesLock(m, failed) ==
    manager' = [manager EXCEPT ![m].inside = Nothing, ![m].wanted = @ \ failed]

-----------------------------------------------------------------------------
(* The registry.                                                           *)

\* The plugin that the task asks for next.
NextIs(m, p) == manager[m].todo # <<>> /\ Head(manager[m].todo) = p

MayLoad(p) == p \notin Loaded /\ depends[p] \subseteq Loaded

\* load_plugin up to on_load, which is awaited with the lock held.
BeginLoad(m) ==
    /\ manager[m].doing = "load" /\ LockFree
    /\ \E p \in Plugin : NextIs(m, p) /\ MayLoad(p) /\ TakesLock(m, p)
    /\ UNCHANGED <<depends, priority, loaded, hooks, caller>>

\* append and sort: the list keeps its identity, and equal priorities their order.
\* What was sorted before stands in the order of the priorities.
WithHandler(p) ==
    LET before == {i \in DOMAIN hooks : priority[hooks[i]] >= priority[p]}
    IN InsertAt(hooks, Cardinality(before) + 1, p)

OnLoadReturns(m) ==
    LET p == manager[m].inside IN
    /\ manager[m].doing = "load" /\ p # Nothing
    /\ hooks' = WithHandler(p)
    /\ loaded' = Append(loaded, p)
    /\ LeavesLock(m, {})
    /\ UNCHANGED <<depends, priority, caller>>

OnLoadRaises(m) ==
    /\ manager[m].doing = "load" /\ manager[m].inside # Nothing
    /\ LeavesLock(m, {manager[m].inside})
    /\ UNCHANGED <<depends, priority, loaded, hooks, caller>>

MayUnload(p) == p \in Loaded /\ \A q \in Loaded : p \notin depends[q]

\* The loops that run over a list that the registry gives up go on with it.
Kept == [c \in Caller |-> [caller[c] EXCEPT !.over = Registrations(c)]]

\* Mutant of Left: the registration is removed from the list itself.
LeftInPlace == caller

Left == Kept

\* unload_plugin up to on_unload: every list is replaced by one without the plugin.
BeginUnload(m) ==
    /\ manager[m].doing = "unload" /\ LockFree
    /\ \E p \in Plugin :
        /\ NextIs(m, p) /\ MayUnload(p) /\ TakesLock(m, p)
        /\ hooks' = RemoveFirst(hooks, p)
    /\ caller' = Left
    /\ UNCHANGED <<depends, priority, loaded>>

\* Whether it raises or not.
OnUnloadReturns(m) ==
    LET p == manager[m].inside IN
    /\ manager[m].doing = "unload" /\ p # Nothing
    /\ loaded' = RemoveFirst(loaded, p)
    /\ LeavesLock(m, {})
    /\ UNCHANGED <<depends, priority, hooks, caller>>

\* load_plugin and unload_plugin raise PluginError.
Rejected(m) ==
    /\ LockFree
    /\ \E p \in Plugin :
        NextIs(m, p) /\ ~(IF manager[m].doing = "load" THEN MayLoad(p) ELSE MayUnload(p))
    /\ manager' = [manager EXCEPT ![m].todo = Tail(@)]
    /\ UNCHANGED <<depends, priority, loaded, hooks, caller>>

\* execute_hooks, up to the first await.
ExecuteHooks(c) ==
    /\ caller[c].at = 0 /\ hooks # <<>>
    /\ caller' = [caller EXCEPT ![c] =
           [over |-> Live, at |-> 1, first |-> hooks, ran |-> {hooks[1]}, aborted |-> FALSE]]
    /\ UNCHANGED <<depends, priority, loaded, hooks, manager>>

\* A handler proceeds, modifies the data or raises: on to the next place in the list.
HandlerReturns(c) ==
    LET next == caller[c].at + 1
        over == Registrations(c)
    IN /\ caller[c].at > 0
       /\ caller' = [caller EXCEPT ![c] =
              IF next <= Len(over)
              THEN [caller[c] EXCEPT !.at = next, !.ran = caller[c].ran \cup {over[next]}]
              ELSE [caller[c] EXCEPT !.at = 0]]
       /\ UNCHANGED <<depends, priority, loaded, hooks, manager>>

HandlerAborts(c) ==
    /\ caller[c].at > 0
    /\ caller' = [caller EXCEPT ![c].at = 0, ![c].aborted = TRUE]
    /\ UNCHANGED <<depends, priority, loaded, hooks, manager>>

PluginsInit ==
    /\ depends \in [Plugin -> SUBSET Plugin]
    /\ priority \in [Plugin -> HookPriority]
    /\ loaded = <<>> /\ hooks = <<>>
    /\ manager = [m \in Manager |->
           [doing |-> "load", todo |-> <<>>, inside |-> Nothing, wanted |-> {}]]
    /\ caller = [c \in Caller |->
           [over |-> Live, at |-> 0, first |-> <<>>, ran |-> {}, aborted |-> FALSE]]

\* What a task does with the lock, or while it waits for it.
Lifecycle(m) ==
    \/ BeginLoad(m) \/ OnLoadReturns(m) \/ OnLoadRaises(m)
    \/ BeginUnload(m) \/ OnUnloadReturns(m) \/ Rejected(m)

Execution(c) == ExecuteHooks(c) \/ HandlerReturns(c) \/ HandlerAborts(c)

PluginsNext ==
    \/ \E m \in Manager : LoadAll(m) \/ LoadOrUnload(m) \/ UnloadAll(m) \/ Lifecycle(m)
    \/ \E c \in Caller : Execution(c)

PluginsSpec == PluginsInit /\ [][PluginsNext]_pluginVars

-----------------------------------------------------------------------------
(* Properties.                                                             *)

PluginsTypeOK ==
    /\ depends \in [Plugin -> SUBSET Plugin] /\ priority \in [Plugin -> HookPriority]
    /\ \A list \in {loaded, hooks} : list \in Seq(Plugin) /\ IsInjective(list)
    /\ \A m \in Manager :
        /\ manager[m].doing \in {"load", "unload"} /\ manager[m].todo \in Seq(Plugin)
        /\ manager[m].inside \in Plugin \cup {Nothing} /\ manager[m].wanted \subseteq Plugin
    /\ \A c \in Caller :
        /\ caller[c].at \in 0 .. Len(Registrations(c)) /\ caller[c].aborted \in BOOLEAN
        /\ caller[c].ran \subseteq Plugin /\ caller[c].first \in Seq(Plugin)

\* Whatever is loaded has its dependencies loaded, and its handler registered unless it
\* is being unloaded: whoever loads and unloads what, in whatever order.
LoadedInFull ==
    /\ \A p \in Loaded : depends[p] \subseteq Loaded
    /\ ToSet(hooks) = Loaded \ {manager[m].inside : m \in Manager}

\* And load_all, when nobody else loads or unloads, leaves out none that could be loaded:
\* in whatever order the classes were found, with whatever cycles, disabled classes and
\* raising on_loads.
DependenciesHold ==
    /\ LoadedInFull
    /\ \A m \in Manager : Resting(m) =>
           \A p \in manager[m].wanted : depends[p] \subseteq Loaded => p \in Loaded

\* Unless one aborts, execute_hooks skips no handler that was registered when it began,
\* though plugins come and go while it awaits them.  It may run one twice, one of a
\* plugin that is gone, and (of plugins loaded meanwhile) a higher priority after a
\* lower one.
NoneSkipped ==
    \A c \in Caller :
        caller[c].at = 0 /\ ~caller[c].aborted => ToSet(caller[c].first) \subseteq caller[c].ran

\* Both at once, of plugins that come and go while their hooks are executed.
PluginsHold == DependenciesHold /\ NoneSkipped
=============================================================================
