\* Two loads, batches of two of their four rows, a ministry that may refuse.
CONSTANTS
    Loads = {l1, l2}
    BatchSize = 2
    MinistryMayFail = TRUE
    MaxStops = 1
SPECIFICATION FairSpec
PROPERTIES
    KeepsPromise
    EventuallySettled
CHECK_DEADLOCK FALSE
