\* A shell and a Submodel, two concurrent requests, two mutations.
SPECIFICATION PopulatedSpec
CONSTANTS
    Shell = {s1}
    Submodel = {m1}
    Concept = {}
    Client = {c1, c2}
    MaxMutations = 2
    Absent = {absent}
    None = {none}
SYMMETRY Symmetric
INVARIANT IInv
PROPERTY ImplementsStore
