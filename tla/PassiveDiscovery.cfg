SPECIFICATION FairSpec
CONSTANTS
    Protocols = {lldp, cdp}
    All = All
    MaxSessions = 2
    NoFrame = NoFrame
INVARIANTS
    DbHeldInUse
    MulticastRestored
    NoSilentEnd
PROPERTIES
    LostInMergeOnly
    FinishReturns
