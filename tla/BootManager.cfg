SPECIFICATION ManagerSpec
CONSTANTS
    MaxBootEntries = 3
    LoadOption = {"linux", "shell"}
    Malformed = Malformed
    Control = {"BootNext"}
    ControlValue = {1}
    Absent = Absent
    BadLength = BadLength
    MaxOrder = 3
    Faults = {"refused", "lost"}
INVARIANT
    ListingIsExact
PROPERTIES
    AddKeepsOthers
    AddNeverDangles
    
    ReadersConverge
