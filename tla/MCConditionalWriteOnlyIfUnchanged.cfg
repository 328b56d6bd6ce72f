SPECIFICATION Spec
CONSTANTS
    Shell = {}
    Submodel = {m1}
    Concept = {}
    Client = {c1, c2}
    MaxMutations = 2
    Absent = {absent}
    None = {none}
PROPERTY ConditionalWriteOnlyIfUnchanged
