SPECIFICATION Spec
CONSTANTS
    QueueLength = 2
    MaxStarts = 2
    Ip = 16
    BlockSize = 16
    Gateway = 19
    Targets = {17, 33}
    Bystander = 18
    Open <- MCOpen
    MaxTries = 2
    MaxPings = 1
    PortSpace = 3
    FirstPort = 2
    PortRange = 2
    ProbePorts = {1}
    PacketCount = 2
    MaxRetries = 2
    ProbeEvery = 1
    MaxPackets = 2
    MaxPositions = 2
INVARIANTS
    WorkerInItsScene
    MacIsNextHops
    ListedIsOpen
    ShownIsThisScan
    ResourcesHeld
    RecordsReadBack
PROPERTIES
    GuiIsFreed
