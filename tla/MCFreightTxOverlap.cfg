\* One load: whatever overlaps, deadlocks and retries included.
CONSTANTS
    DriverRate = 200
    CustomerRate = 200
    StopajRate = 100
    StopajAppliesToCorporate = FALSE
    RefundPercent = 100
    CancellationFee = 10
    d1 = d1
    c1 = c1
    Loads = {l1}
    Drivers = {d1, d2}
    Customers = {c1}
    Bids = {b1, b2}
    Listings = {}
    Offers = {}
    Payments = {p1, p2}
    Amounts = {1025}
    Owner <- MCOwner
    ListingDriver <- MCListingDriver
    Corporate <- MCCorporate
    None = None
    AllowCustomerCancelAfterAccept = FALSE
    AllowCancelAfterTripStart = FALSE
    Sessions = {s1, s2}
    Kinds <- TripKinds
    Overlaps <- AnyTripOverlap
    SameRowTwice = TRUE
    MaxRetryCount = 1
SPECIFICATION TxSpec
SYMMETRY Symmetry
INVARIANTS
    RefundPaidOnce
    NeverOverdrawn
CHECK_DEADLOCK FALSE
