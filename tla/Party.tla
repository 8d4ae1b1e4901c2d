-------------------------------- MODULE Party --------------------------------
(***************************************************************************)
(* The parties of a world (code/client/party.c) and what plugins read of   *)
(* them (code/client/api.c).                                               *)
(*                                                                         *)
(* The game server decides who is in which party; `seats' and `escort' are *)
(* its lists (external).  It creates a party before it names it, announces *)
(* a player before it seats him, and takes him out of a party before it    *)
(* puts him into another one.  get_party_safe therefore finds the entry of *)
(* the table, which is one that HandlePartyCreate has cleared.             *)
(***************************************************************************)
EXTENDS Integers, SequencesExt

CONSTANTS
    PlayerIds, PartyIds, HeroAgents,  \* ids the server gives, never 0
    NULL                              \* the id 0

VARIABLES
    known,    \* the players with an entry in world->players
    party_id, \* party_id of each Player
    parties,  \* world->parties; of a PartyPlayer and a PartyHero what is ever read
    created,  \* the parties the server has created
    seats,    \* the server's players of a party
    escort    \* the server's heroes of a party

vars == <<known, party_id, parties, created, seats, escort>>

ASSUME PartyAssumption == NULL \notin PartyIds

Party ==
    [party_id : PartyIds \cup {NULL}, players : Seq(PlayerIds), heroes : Seq(HeroAgents),
     player_count : Int, defeated : BOOLEAN]

\* An entry of the table that was not used yet is all zeroes.
EmptyParty(id) ==
    [party_id |-> id, players |-> <<>>, heroes |-> <<>>, player_count |-> 0, defeated |-> FALSE]

TypeOK ==
    /\ known \subseteq PlayerIds
    /\ party_id \in [PlayerIds -> PartyIds \cup {NULL}]
    /\ parties \in [PartyIds -> Party]
    /\ \A q \in PartyIds : parties[q].party_id = IF q \in created THEN q ELSE NULL
    /\ created \subseteq PartyIds
    /\ seats \in [PartyIds -> Seq(PlayerIds)]
    /\ escort \in [PartyIds -> Seq(HeroAgents)]

\* init_world
Init ==
    /\ known = {}
    /\ party_id = [p \in PlayerIds |-> NULL]
    /\ parties = [q \in PartyIds |-> EmptyParty(NULL)]
    /\ created = {}
    /\ seats = [q \in PartyIds |-> <<>>]
    /\ escort = [q \in PartyIds |-> <<>>]

\* Mutant: array_remove, which puts the last element into the gap.
SwappedOut(s, n) ==
    IF n > Len(s) THEN s
    ELSE [i \in 1 .. Len(s) - 1 |-> IF i = n THEN s[Len(s)] ELSE s[i]]

\* array_remove_ordered, which is _array_remove_range_ordered (array.h:74): nothing
\* happens behind the end.  Its memmove also moves as many elements as are in front of
\* the gap from behind the list (array.c:176); here that memory is the array's.
RemovedAt(s, n) == IF n > Len(s) THEN s ELSE RemoveAt(s, n)

\* Where array_foreach stops: at the first of the hits, or behind the end.
FirstOf(hits, s) ==
    IF hits = {} THEN Len(s) + 1 ELSE CHOOSE i \in hits : \A j \in hits : i <= j

\* The search for a player of a party, and get_party_hero_agent.
PlayerIndex(q, p) ==
    LET s == parties[q].players IN FirstOf({i \in DOMAIN s : s[i] = p}, s)
HeroIndex(q, h) ==
    LET s == parties[q].heroes IN FirstOf({i \in DOMAIN s : s[i] = h}, s)

Seated(p) == \E q \in PartyIds : p \in ToSet(seats[q])

-----------------------------------------------------------------------------
(* The handlers.                                                           *)

\* agent.c: p has an entry in world->players from now on; one that it had is
\* used again and keeps its party_id.
HandleUpdatePlayerInfo(p) ==
    /\ known' = known \cup {p}
    /\ UNCHANGED <<party_id, parties, created, seats, escort>>

\* Mutant: an entry that is in use already is kept, with the heroes in it.
CreateOnce(q) ==
    /\ seats[q] = <<>>
    /\ created' = created \cup {q}
    /\ escort' = [escort EXCEPT ![q] = <<>>]
    /\ parties' = IF parties[q].party_id = q THEN parties
                  ELSE [parties EXCEPT ![q] = EmptyParty(q)]
    /\ UNCHANGED <<known, party_id, seats>>

\* The server uses the id of an empty party again; the entry is cleared.
HandlePartyCreate(q) ==
    /\ seats[q] = <<>>
    /\ created' = created \cup {q}
    /\ escort' = [escort EXCEPT ![q] = <<>>]
    /\ parties' = [parties EXCEPT ![q] = EmptyParty(q)]
    /\ UNCHANGED <<known, party_id, seats>>

HandlePartyPlayerAdd(q, p) ==
    /\ q \in created /\ ~Seated(p) /\ p \in known
    /\ seats' = [seats EXCEPT ![q] = Append(@, p)]
    /\ party_id' = [party_id EXCEPT ![p] = parties[q].party_id]
    /\ parties' = [parties EXCEPT
                      ![q].players = Append(@, p),
                      ![q].player_count = @ + 1]
    /\ UNCHANGED <<known, created, escort>>

\* Mutant: the player still names the party.
RemoveKeepsParty(q, p) ==
    /\ \E i \in DOMAIN seats[q] :
          seats[q][i] = p /\ seats' = [seats EXCEPT ![q] = RemoveAt(@, i)]
    /\ parties' = [parties EXCEPT
                      ![q].players = RemovedAt(@, PlayerIndex(q, p)),
                      ![q].player_count = @ - 1]
    /\ UNCHANGED <<known, party_id, created, escort>>

HandlePartyPlayerRemove(q, p) ==
    /\ \E i \in DOMAIN seats[q] :
          seats[q][i] = p /\ seats' = [seats EXCEPT ![q] = RemoveAt(@, i)]
    /\ party_id' = [party_id EXCEPT ![p] = NULL]
    /\ parties' = [parties EXCEPT
                      ![q].players = RemovedAt(@, PlayerIndex(q, p)),
                      ![q].player_count = @ - 1]
    /\ UNCHANGED <<known, created, escort>>

HandlePartyHeroAdd(q, h) ==
    /\ q \in created /\ h \notin ToSet(escort[q])
    /\ escort' = [escort EXCEPT ![q] = Append(@, h)]
    /\ parties' = [parties EXCEPT ![q].heroes = Append(@, h)]
    /\ UNCHANGED <<known, party_id, created, seats>>

\* A hero that is not there is only logged.
HandlePartyHeroRemove(q, h) ==
    /\ q \in created
    /\ \/ h \notin ToSet(escort[q]) /\ UNCHANGED escort
       \/ \E i \in DOMAIN escort[q] :
             escort[q][i] = h /\ escort' = [escort EXCEPT ![q] = RemoveAt(@, i)]
    /\ parties' = [parties EXCEPT
                      ![q].heroes = RemovedAt(@, HeroIndex(q, h))]
    /\ UNCHANGED <<known, party_id, created, seats>>

\* Of the party of the client's player.
HandlePartyDefeated(p) ==
    /\ p \in known /\ party_id[p] # NULL
    /\ parties' = [parties EXCEPT ![party_id[p]].defeated = TRUE]
    /\ UNCHANGED <<known, party_id, created, seats, escort>>

reset_world ==
    /\ known' = {}
    /\ party_id' = [p \in PlayerIds |-> NULL]
    /\ parties' = [q \in PartyIds |-> EmptyParty(NULL)]
    /\ created' = {}
    /\ seats' = [q \in PartyIds |-> <<>>]
    /\ escort' = [q \in PartyIds |-> <<>>]

Next ==
    \/ \E p \in PlayerIds : HandleUpdatePlayerInfo(p)
    \/ \E q \in PartyIds : HandlePartyCreate(q)
    \/ \E q \in PartyIds, p \in PlayerIds : HandlePartyPlayerAdd(q, p)
    \/ \E q \in PartyIds, p \in PlayerIds : HandlePartyPlayerRemove(q, p)
    \/ \E q \in PartyIds, h \in HeroAgents : HandlePartyHeroAdd(q, h)
    \/ \E q \in PartyIds, h \in HeroAgents : HandlePartyHeroRemove(q, h)
    \/ \E p \in PlayerIds : HandlePartyDefeated(p)
    \/ reset_world

Spec == Init /\ [][Next]_vars

-----------------------------------------------------------------------------
(* What plugins read.                                                      *)

\* GetPlayersOfParty, and the agents that the calls on the hero of an index address.
GetPlayersOfParty(q) == parties[q].players
HeroesOfParty(q) == parties[q].heroes

\* GetPartySize.
GetPartySize(q) == Len(parties[q].players) + Len(parties[q].heroes)

-----------------------------------------------------------------------------
(* Properties                                                              *)

\* Plugins read the rosters and the escorts that the server has, in the same
\* order (which makes the leader, and gives a hero its index), and player_count
\* and GetPartySize count them.
RosterAgrees ==
    \A q \in PartyIds :
        /\ GetPlayersOfParty(q) = seats[q]
        /\ HeroesOfParty(q) = escort[q]
        /\ parties[q].player_count = Len(seats[q])
        /\ GetPartySize(q) = Len(seats[q]) + Len(escort[q])

\* The two directions of the relation between players and parties, kept by
\* different handlers, agree: a player names the party whose list he is in, and
\* none when he is in no list.
PartyOfAgrees ==
    \A p \in PlayerIds, q \in PartyIds :
        party_id[p] = q <=> p \in ToSet(GetPlayersOfParty(q))

\* Every packet is one step of the rosters: whoever leaves, the others keep their
\* order and the next one leads.
Roster == INSTANCE PartyRoster
    WITH rosters <- [q \in PartyIds |-> GetPlayersOfParty(q)],
         heroes <- [q \in PartyIds |-> HeroesOfParty(q)]
ImplementsRoster == Roster!Spec
=============================================================================
