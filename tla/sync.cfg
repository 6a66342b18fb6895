SPECIFICATION Spec
CONSTANTS
    None = None
    zone = zone
    output = output
    gate = gate
    hidden = hidden
    Item = {zone, output, hidden}
    KindOf <- MCKindOf
    Excluded = {hidden}
    Status = {0, 1}
    Default = 0
    WireBound = 2
    Panels = {"orderly", "reordering"}
INVARIANTS
    ParkedIsUnknown
    StatusIsPanels
PROPERTIES
    PrunedOnlyIfGone
