CONSTANTS
    chat = chat
    open = open
    a = a
    b = b
    c = c
    plugin = plugin
    Types = {chat, open}
    Entries = {a, b, c}
    Threads = {plugin}
    Main = Main
    NULL = NULL
    TypesOf <- AllTypes
    Registers <- OwnedRegisters
    Removes <- SelfRemoves

SPECIFICATION FairSpec

INVARIANTS
    LinksAgree
    WalkIsRegistered

PROPERTIES
    ImplementsBus
    BroadcastReturns
