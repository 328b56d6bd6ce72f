\* One request at a time over one key of each kind, and two concurrent ones on
\* the Submodel; two mutations, the GraphQL and MQTT writers and cut-short
\* handlers included, with fairness: no symmetry, since liveness is checked.
SPECIFICATION ScenarioSpec
CONSTANTS
    Shell = {s1}
    Submodel = {m1}
    Concept = {d1}
    Client = {c1, c2}
    MaxMutations = 2
    Absent = {absent}
    None = {none}
INVARIANT NothingUncommittedLeaks
PROPERTY StalenessEnds
