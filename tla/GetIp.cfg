SPECIFICATION FairSpec
CONSTANTS
    Servers = {sa, sb}
    MaxAttempts = 2
    Timeout = 1
    Saved = Saved
    None = None
INVARIANTS
    ReportedLease
    NetworkStateWhole
    ChipRestored
PROPERTIES
    BackReturns
