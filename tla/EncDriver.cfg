\* Two threads share a chip that app_alloc has started.
CONSTANTS
    Users = {d, w}
    Main = gui
    Restarts = FALSE
    Cells = 4
    FrameSizes = {1, 2}
    MaxRetry = 1
SPECIFICATION FairSpec
INVARIANTS NoStrayAccess UnreadIntact NothingLeaks
PROPERTIES ImplementsQueue MutexReleased
