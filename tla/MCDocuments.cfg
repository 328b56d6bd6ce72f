\* One request at a time over a shell, two Submodels and a concept description, with
\* two mutations.  Two requests at a time: three over two rows of either of the registry's
\* tables, with lookups of one row; over
\* packages with up to three versions, files and rows; over two paths and two
\* versions of a Submodel, with two invocations and one write; over pages of two
\* rows and imports of two documents, with three transactions; over a Submodel
\* with two elements, two rows and two files.
SPECIFICATION DocumentsSpec
CONSTANTS
    Path = {"p1", "p2"}
    Argument = {"x"}
    Document <- Versions
    Invoker = {a1, a2}
    MaxInvocations = 2
    MaxWrites = 1
    Absent = {absent}
    None = {none}
    Caller = {a1, a2}
    Id = {i1, i2}
    Item = {i1, i2, fresh}
    FreshItem = {fresh}
    Writer = {a1, a2}
    Handler = {a1, a2}
    PackageHandler = {a1, a2}
    Shell = {s0}
    Submodel = {i1, i2}
    Concept = {d0}
    Client = {c1}
    MaxMutations = 2
    ShellRow = {s1, s2}
    SubmodelRow = {m1, m2}
    Index = {noindex, g}
    NoIndex = noindex
    Nested = {n}
    LookupLimit = 1
    MaxStarted = 3
    MaxPackages = 3
    MaxFiles = 3
    MaxCalls = 4
    Limit = 2
    MaxItems = 2
    MaxClock = 3
    Owner = {b0}
    Places = 2
    MaxBlobs = 2
    MaxRows = 2
    LargeContent = large
    Nothing = nothing
SYMMETRY Symmetric
CHECK_DEADLOCK FALSE
INVARIANTS DocumentsTypeOK SequentialFresh LookupsMatch PackagesHold HandlesHold PagesCompleteUntied AttachmentsWhole
PROPERTY ImportsKeep
