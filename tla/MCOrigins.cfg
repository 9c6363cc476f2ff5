SPECIFICATION OriginSpec
CONSTANTS
    Hosts <- SomeHosts
    Ports <- SomePorts
CHECK_DEADLOCK FALSE
INVARIANTS OwnPagesAreAdmitted OnlyOwnPagesAreAdmitted SerializedOriginsStart
