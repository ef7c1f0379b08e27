CONSTANTS
    None = none
    s1 = s1
    p1 = p1
    p2 = p2
    Security = {s1}
    Position = {p1, p2}
    SecurityOf <- MCSecurityOf
    SideOf <- MCSideOf
    RateOf <- MatchedRateOf
    FileRow <- MCFileRow
    Quotes <- MCQuotes
    Calendars <- MCCalendars
    MayFail = {p1}
    MaxDay = 1
    MaxAge = 6
SPECIFICATION Spec
INVARIANT RepriceInDesksFavour
