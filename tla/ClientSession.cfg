CONSTANTS
    Names <- MCNames
    LongName = "long"
    Roster <- MCRoster
    WorldIds = {1, 2}
    Statuses = {1}
    MaxTrans = 5
    MaxQueue = 2

SPECIFICATION FairSpec

INVARIANTS
    TransactionsUnique
    RepliesExpected
    LiveConnectionHasWorld
    WorldIsTheTransfer
    PlayRequestedOnce
    PlaysTheWantedCharacter

PROPERTIES
    DisconnectCompletes
    LoginSettles

CHECK_DEADLOCK FALSE
