\* One load, two drivers, two prices, the default cancellation options.
CONSTANTS
    DriverRate = 200
    CustomerRate = 200
    StopajRate = 100
    StopajAppliesToCorporate = FALSE
    RefundPercent = 100
    CancellationFee = 10
    d1 = d1
    c1 = c1
    admin = admin
    Loads = {l1}
    Drivers = {d1, d2}
    Customers = {c1}
    Bids = {b1}
    Listings = {i1}
    Offers = {o1}
    Payments = {p1}
    Amounts = {1000, 2000}
    Owner <- MCOwner
    ListingDriver <- MCListingDriver
    Corporate <- MCCorporate
    None = None
    Admin = admin
    EnforceGps = TRUE
    MaxPresses = 2
    MaxOthers = 1
    AllowCustomerCancelAfterAccept = FALSE
    AllowCancelAfterTripStart = FALSE
SPECIFICATION ScreenSpec
INVARIANTS
    ButtonsHonoured
    AsIfReopened
    ShownPriceAgreed
    TripGoesOn
PROPERTY PressedTwice
CHECK_DEADLOCK FALSE
