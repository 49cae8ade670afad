SPECIFICATION Spec
CONSTANTS
    Octets = 1
    DefaultIp = 2
    DefaultMac = 2
    Macs = {6}
    Leases <- MCLeases
    OldFiles <- MCOldFiles
    MaxChanges = 3
PROPERTIES
    RestoredTuple
    SavedIsRestored
    OverflowOnlyFrom56
