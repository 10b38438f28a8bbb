\* One load: the compatible requests overlap and still act one after the other.
CONSTANTS
    DriverRate = 200
    CustomerRate = 200
    StopajRate = 100
    StopajAppliesToCorporate = FALSE
    RefundPercent = 100
    CancellationFee = 10
    d1 = d1
    c1 = c1
    Loads = {l1}
    Drivers = {d1}
    Customers = {c1}
    Bids = {b1}
    Listings = {i1}
    Offers = {o1}
    Payments = {p1, p2}
    Amounts = {1025, 2000}
    Owner <- MCOwner
    ListingDriver <- MCListingDriver
    Corporate <- MCCorporate
    None = None
    AllowCustomerCancelAfterAccept = FALSE
    AllowCancelAfterTripStart = FALSE
    Sessions = {s1, s2}
    Kinds <- AllKinds
    Overlaps <- Compatible
    SameRowTwice = TRUE
    MaxRetryCount = 1
SPECIFICATION TxSpec
SYMMETRY Symmetry
PROPERTY Atomic
CHECK_DEADLOCK FALSE
