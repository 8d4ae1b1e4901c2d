SPECIFICATION Spec
CONSTANTS
    PlayerIds = {p1, p2, p3}
    PartyIds = {q1, q2}
    HeroAgents = {h1, h2, h3}
    NULL = NULL
INVARIANTS RosterAgrees PartyOfAgrees
PROPERTY ImplementsRoster
