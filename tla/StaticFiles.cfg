\* Three threads serve and load three files that compete for two places in L1.
CONSTANTS
    page = page
    logo = logo
    icon = icon
    Threads = {a, b, c}
    Keys = {page, icon, logo}
    Slice <- OneSlice
    Capacity = 2
    MaxAverage = 2
    Stat <- History
    Start <- First
    Threshold = 3
    MaxCalls = 3
    Requests <- Asked
SYMMETRY Interchangeable
SPECIFICATION Spec
INVARIANTS LfuConsistent OneLoader BodyNotOlder 
