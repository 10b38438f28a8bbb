\* One load, one bid: a release ahead of the delivery, a restart, the delivery.
CONSTANTS
    DriverRate = 200
    CustomerRate = 200
    StopajRate = 100
    StopajAppliesToCorporate = FALSE
    RefundPercent = 100
    CancellationFee = 10
    d1 = d1
    c1 = c1
    Loads = {l1}
    Drivers = {d1}
    Customers = {c1}
    Bids = {b1}
    Listings = {i1}
    Offers = {o1}
    Payments = {p1, p2}
    Amounts = {1025}
    Owner <- MCOwner
    ListingDriver <- MCListingDriver
    Corporate <- MCCorporate
    None = None
    AllowCustomerCancelAfterAccept = FALSE
    AllowCancelAfterTripStart = FALSE
SPECIFICATION Spec
INVARIANT PaidOnce
CHECK_DEADLOCK FALSE
