CONSTANTS
    SlotsPerDay = 6
    Offsets <- AllZones
    MaxDays = 5
SPECIFICATION DaySpec
INVARIANTS
    DaysAreSealed
PROPERTY
    OncePerLocalDayWest
