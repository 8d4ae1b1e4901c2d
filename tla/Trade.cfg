SPECIFICATION Spec
CONSTANTS
    Players = {p1, p2}
    Items = {i1}
    Gold = {5, 7}
    NULL = NULL
    MaxQueue = 2
\* A client whose assert fails ends.
CHECK_DEADLOCK FALSE
INVARIANTS ShownTradeIsOpen OfferIsShown
