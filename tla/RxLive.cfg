\* Liveness: unbounded traffic, one worker slot.
CONSTANTS
    AutoReplies = {a1}
    Waiters = {w1}
    Pausers = {p1}
    Readers = {}
    MaxWorkers = 1
    MaxSlots = 2
    MaxQueue = 2
    fReply = fReply
    fOther = fOther
    fBad = fBad
    Frame <- MCFrame
    BadFrame <- MCBadFrame
    Match <- MCMatch
SPECIFICATION FairSpec
PROPERTIES QueueServed WaitReturns ShutdownCompletes
