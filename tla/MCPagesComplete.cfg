\* Three identifiers and a fresh one, two transactions of up to two documents, pages
\* of one row.
SPECIFICATION CollectionsSpec
CONSTANTS
    Item = {a, b, c, f}
    FreshItem = {f}
    Writer = {w1, w2}
    Limit = 1
    MaxItems = 2
    MaxClock = 2
    Nothing = nothing
CHECK_DEADLOCK FALSE
INVARIANT PagesComplete
