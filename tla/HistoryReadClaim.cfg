SPECIFICATION Spec
CONSTANTS
    Macs = {m1, m2}
    Protocols = {lldp, cdp}
    Infos = {i1, i2}
    All = All
    MaxRecords = 2
    Slots = 2
    Free = Free
    NoHistory = NoHistory
    LoadFaults = TRUE
PROPERTIES
    SavedUntilCleared
