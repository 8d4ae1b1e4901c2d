CONSTANTS
    Sizes <- MCSizes
    Capacity = 3
    PartialSend = FALSE
    MaxPackets = 3

SPECIFICATION FairSpec

INVARIANTS
    WireInOrder
    ReceivedInOrder

PROPERTIES
    ImplementsChannel
    AcceptedIsSent
    OfferedIsHandled

CHECK_DEADLOCK FALSE
