SPECIFICATION Spec
CHECK_DEADLOCK FALSE
CONSTANTS
    AgentIds = {a1, a2, a3}
    PlayerIds = {p1, p2}
    ItemIds = {i1, i2}
    Me = p1
    MyAgent = a1
    NULL = NULL
INVARIANTS SpawnedAgree LinksAgree CountsPresent IdentityIsMine
