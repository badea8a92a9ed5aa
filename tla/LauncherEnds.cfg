SPECIFICATION FairSpec
CONSTANTS
    Projects <- AnyProject
    Faults <- AllFaults
    PortsKnown <- AnyPorts
    None = None
INVARIANTS
    NothingLeftRunning
    ResultIsTruthful
PROPERTIES
    DaemonOutlivesContainer
    RunEnds
CHECK_DEADLOCK FALSE
