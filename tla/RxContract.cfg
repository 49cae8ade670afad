\* The registry shared by two waits and full, two threads that pause at once and
\* one that reads the chip without a pause: the contract of rx_dispatch.h, beyond
\* the one worker of the application.
CONSTANTS
    AutoReplies = {a1}
    Waiters = {w1, w2}
    Pausers = {p1, p2}
    Readers = {r1}
    MaxWorkers = 2
    MaxSlots = 2
    MaxQueue = 2
    fReply = fReply
    fOther = fOther
    fBad = fBad
    Frame <- MCFrame
    BadFrame <- MCBadFrame
    Match <- MCMatch
SPECIFICATION Spec
SYMMETRY MCSymmetry
INVARIANTS CtxAlive RegistryInv AckedPauseExcludes ReplyNotMissed
