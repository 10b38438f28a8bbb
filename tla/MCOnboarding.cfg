\* One account on either client, from the first digit of its number; two papers.
CONSTANTS
    p1 = p1
    p2 = p2
    Docs = {p1, p2}
    None = None
    MaxUploads = 3
    MaxOthers = 2
SPECIFICATION Spec
SYMMETRY Papers
INVARIANTS
    ActiveHasPapers
    ToldTheTruth
    WayOn
    OnlyUnapprovedGo
PROPERTY DecidedWhatWasShown
CHECK_DEADLOCK FALSE
