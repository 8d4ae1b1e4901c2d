CONSTANTS
    Packets <- MCPackets
    MaxBuffer = 10
    MaxExtra = 2

SPECIFICATION CodecSpec

INVARIANTS
    PackIsWire
    Framing
    UnpackIsLayout
    TablesAgree

CHECK_DEADLOCK FALSE
