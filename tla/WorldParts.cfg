CONSTANTS
    NULL = NULL
    Players = {p1}
    Items = {i1}
    Gold = {5}
    MaxQueue = 1
    Npcs = {n1, n2}
    ItemIds = {1, 2}
    Buttons = {1, 2}
    Objects = {o1, o2}
    Values = {1, 2}
    MaxButtons = 1
\* A second account that the one member may have been invited by.
    GuildIds = {1, 2}
    Accounts = {alice, bob}
    Status = {1}
    Types = {1}
    MaxMembers = 1
\* A skill is used again while it is cast.
    Agents = {player, hero}
    Player = player
    Skills = {1}
    Positions = {1, 2}
    MaxRequests = 1
    MaxToggles = 1
    Messages = {m1, m2}
    MaxPieces = 2
    MaxTorn = 2
    People = {p1, p2, p3}
    Zones = {1, 2}
    PlayerStatus = {0, 1, 2}
    MaxFriends = 4
\* More entries than quests: some are of quests that a removal missed.
    QuestIds = {1, 2, 3}
    Places = {1}
    InitialSize = 2
    MaxQuests = 6

SPECIFICATION WorldSpec

 
PROPERTY CastEnds

\* A client whose assert fails ends.
CHECK_DEADLOCK FALSE
