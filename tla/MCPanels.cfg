CONSTANTS
    Tickets = {o1, o2}
    Texts = {m1}
    Trips = {o1, o2}
    Rated = {o1, o2}
    Notes = {o1, o2}
    Chatters = {p1, p2}
    Marks = {p1, p2}
    Addresses = {o1, o2}
    Values = {p1, p2}
    Asks = {q1}
    Calls = {c1, c2, c3}
    Handlers = {c1, c2, c3}
    UserPages = {u1}
    DeskPages = {a1}
    Remounted = {u1}
    Askers = {p1, p2}
    SmsCounterLimit = 2
    OtpFailLimit = 2
    MaxUncounted = 1
    Lines = {1, 2}
    Runs = {1, 2}
    Scores = {2, 5}
    StarParts = 60
    NoOne = NoOne
    Nobody = Nobody
    Empty = Empty
    NoTrip = NoTrip
    NoLoad = NoLoad
    NoScore = NoScore
SPECIFICATION PanelsSpec
SYMMETRY Swaps
INVARIANTS
    WaitingIsListed
    WritesWhatItShows
    NothingMissed
    SharesOnlyTheTrip
    AverageOfRows
    BadgeRight
    BookInOrder
    TypedStays
    LimitsHold
CHECK_DEADLOCK FALSE
