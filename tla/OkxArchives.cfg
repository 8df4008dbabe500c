CONSTANTS
    Keys <- MCKeys
    Instruments <- MCInstruments
    FamilyOf <- MCFamilyOf
    Life <- MCLife
    LastDay = 4
    MonthDays = 2
    Ticks = 2
    Shift = 1
    Delay = 2
    MonthDelay = 3
    RefreshDays = 1
    Threshold = 8
    Earliest = 2
    Asks <- MCAsks
    StrayNames = {"A", "F"}
    StrayDays = {3}
    MaxStrays = 1
    MaxRequests = 3
    MaxFaults = 1

SPECIFICATION Spec

INVARIANT
    Accounted
    Materialized
