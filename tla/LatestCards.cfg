CONSTANTS
    Sidecars = {"a"}
    Slots <- TotalAndModel
    Untimed <- OnlyTotal
    Length = 4
    Jitters = {0, 1}
    LastWindow = 2
SPECIFICATION Spec
INVARIANTS
    RowsFromSources
    OwnerIsFresh
    OnlyClosedWindows
    CurrentIsShown
