\* A scene starts a disconnected chip while the dispatcher polls it.
CONSTANTS
    Users = {d}
    Main = gui
    Restarts = TRUE
    Cells = 4
    FrameSizes = {1}
    MaxRetry = 1
SPECIFICATION Spec
INVARIANT StartSetsUpBuffers
