\* One load written on the web or the phone, or edited, over two days.
CONSTANTS
    Ankara = Ankara
    Izmir = Izmir
    d1 = d1
    d2 = d2
    Known = {Ankara, Izmir}
    Capital = Ankara
    Misspelt = Misspelt
    Overlong = Overlong
    Districts = {d1, d2}
    Places <- MCPlaces
    Details <- MCDetails
    Prices = {100}
    None = None
    MaxNow = 2
    MaxChanges = 1
    MaxSaves = 2
SPECIFICATION Spec
INVARIANTS
    ServerAgrees
    PointOfPlace
    SuggestionIsCurrent
    UntouchedKept
    SavedOnce
CHECK_DEADLOCK FALSE
