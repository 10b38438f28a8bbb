\* Two loads, two rival drivers, bids and an offer, both cancellation options on.
CONSTANTS
    DriverRate = 200
    CustomerRate = 200
    StopajRate = 100
    StopajAppliesToCorporate = FALSE
    RefundPercent = 100
    CancellationFee = 10
    d1 = d1
    c1 = c1
    Loads = {l1, l2}
    Drivers = {d1, d2}
    Customers = {c1}
    Bids = {b1, b2}
    Listings = {i1}
    Offers = {o1}
    Payments = {p1, p2}
    Amounts = {5, 1025}
    Owner <- MCOwner
    ListingDriver <- MCListingDriver
    Corporate <- MCCorporate
    None = None
    AllowCustomerCancelAfterAccept = TRUE
    AllowCancelAfterTripStart = TRUE
SPECIFICATION Spec
SYMMETRY Symmetry
INVARIANTS
    OneAgreement
    EscrowFollowsTrip
    BooksBalance
    BlockedCanBePaid
    RefundedOnce
PROPERTY ForwardOnly
CHECK_DEADLOCK FALSE
