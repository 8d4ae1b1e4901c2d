CONSTANTS
    chat = chat
    open = open
    a = a
    b = b
    c = c
    plugin = plugin
    Types = {chat, open}
    Entries = {a, b, c}
    Threads = {plugin}
    Main = Main
    NULL = NULL
    TypesOf <- SomeTypes
    Registers <- ThreadRegisters
    Removes <- RacingRemoves

SPECIFICATION Spec

INVARIANT LinksAgree

CHECK_DEADLOCK FALSE
