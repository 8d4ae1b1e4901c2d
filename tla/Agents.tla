------------------------------- MODULE Agents -------------------------------
(***************************************************************************)
(* The agents and the players of a world (code/client/agent.c, player.c):  *)
(* the tables by id, the links between an agent, its player and its item,  *)
(* and who the client itself is.                                           *)
(*                                                                         *)
(* The game server knows who is in the instance and which agents it has    *)
(* spawned; its packets tell the client (kind, spawned, present: external).*)
(***************************************************************************)
EXTENDS Integers, FiniteSets

CONSTANTS
    AgentIds, PlayerIds, ItemIds,  \* ids the server gives, never 0
    Me, MyAgent,                   \* the player of this client and its agent
    NULL                           \* the id 0, and the null pointer

Agent == [spawned : BOOLEAN, player_id : PlayerIds \cup {NULL},
          item_id : ItemIds \cup {NULL}, maybe_moving : BOOLEAN]
Player == [agent_id : AgentIds, unlocked : BOOLEAN]
Item == [agent_id : AgentIds \cup {NULL}]

Living(p) == [type |-> "player", id |-> p]
Dropped(i) == [type |-> "item", id |-> i]
Npc == [type |-> "npc", id |-> NULL]
Kinds == {Living(p) : p \in PlayerIds} \cup {Dropped(i) : i \in ItemIds} \cup {Npc}

ASSUME AgentsAssumption ==
    /\ Me \in PlayerIds /\ MyAgent \in AgentIds
    /\ NULL \notin AgentIds \cup PlayerIds \cup ItemIds
    /\ NULL \notin Agent /\ NULL \notin Player /\ NULL \notin Item /\ NULL \notin Kinds
    /\ IsFiniteSet(PlayerIds)

VARIABLES
    agents,           \* world->agents: an Agent, or NULL
    players,          \* world->players: a Player, or NULL
    items,            \* world->items: agent_id of the Item, or NULL when unknown
    player_agent_id, player_id, player_count,
    fault,            \* the function in which the process ended, or NULL
    kind,             \* what the server uses an agent id for, or NULL
    spawned,          \* the agents that the server has spawned
    present           \* the players in the instance

clientVars == <<agents, players, items, player_agent_id, player_id, player_count, fault>>
vars == <<clientVars, kind, spawned, present>>

NewAgent == [spawned |-> FALSE, player_id |-> NULL, item_id |-> NULL, maybe_moving |-> FALSE]

TypeOK ==
    /\ agents \in [AgentIds -> Agent \cup {NULL}]
    /\ players \in [PlayerIds -> Player \cup {NULL}]
    /\ items \in [ItemIds -> Item \cup {NULL}]
    /\ player_agent_id \in AgentIds \cup {NULL}
    /\ player_id \in PlayerIds \cup {NULL}
    /\ player_count \in Int
    /\ fault \in {NULL, "GameSrv_MoveToCoord", "GetPlayerPtr"}
    /\ kind \in [AgentIds -> Kinds \cup {NULL}]
    /\ spawned \subseteq AgentIds
    /\ present \subseteq PlayerIds

\* init_world
Init ==
    /\ agents = [a \in AgentIds |-> NULL]
    /\ players = [p \in PlayerIds |-> NULL]
    /\ items = [i \in ItemIds |-> NULL]
    /\ player_agent_id = NULL /\ player_id = NULL /\ player_count = 0
    /\ fault = NULL
    /\ kind = [a \in AgentIds |-> NULL]
    /\ spawned = {} /\ present = {}

Alive == fault = NULL

\* ensure_agent_exist, then array_at.
EnsuredAgent(a) == IF agents[a] = NULL THEN NewAgent ELSE agents[a]

-----------------------------------------------------------------------------
(* Players                                                                 *)

\* Mutant: a player that is known already is not counted.
CountedOnce(p) == player_count + (IF players[p] = NULL THEN 1 ELSE 0)

\* world->player_count after HandleUpdatePlayerInfo.
Counted(p) == player_count + 1

\* The Player after HandleUpdatePlayerInfo.
PlayerWith(p, a) ==
    [agent_id |-> a, unlocked |-> IF players[p] = NULL THEN FALSE ELSE players[p].unlocked]

\* The server announces p, who enters the instance, and the agent it will have.
HandleUpdatePlayerInfo(p, a) ==
    /\ Alive
    /\ p \notin present /\ kind[a] = NULL /\ (p = Me <=> a = MyAgent)
    /\ present' = present \cup {p}
    /\ kind' = [kind EXCEPT ![a] = Living(p)]
    /\ agents' = [agents EXCEPT ![a] = [EnsuredAgent(a) EXCEPT !.player_id = p]]
    /\ players' = [players EXCEPT ![p] = PlayerWith(p, a)]
    /\ player_count' = Counted(p)
    /\ UNCHANGED <<items, player_agent_id, player_id, fault, spawned>>

\* p, whose agent is despawned, leaves the instance: only the count changes.
HandleAgentDestroyPlayer(p) ==
    /\ Alive
    /\ p \in present \ {Me}
    /\ \A a \in spawned : kind[a] # Living(p)
    /\ present' = present \ {p}
    /\ kind' = [a \in AgentIds |-> IF kind[a] = Living(p) THEN NULL ELSE kind[a]]
    /\ player_count' = player_count - 1
    /\ UNCHANGED <<agents, players, items, player_agent_id, player_id, fault, spawned>>

\* player_is_created, when the agent of the client is known.  The code drops the
\* packet otherwise: a cinematic sets the player before any agent.
HandleAgentSetPlayer ==
    /\ Alive
    /\ LET me == agents[MyAgent] IN
       /\ player_agent_id' = IF me # NULL THEN MyAgent ELSE player_agent_id
       /\ player_id' = IF me # NULL /\ me.player_id # NULL THEN me.player_id ELSE player_id
    /\ UNCHANGED <<agents, players, items, player_count, fault, kind, spawned, present>>

\* Of other agents the value is not saved.
HandlePlayerUnlockedProfession(a) ==
    /\ Alive /\ kind[a] # NULL
    /\ players' = IF player_agent_id = a /\ player_id # NULL
                  THEN [players EXCEPT ![player_id].unlocked = TRUE]
                  ELSE players
    /\ UNCHANGED <<agents, items, player_agent_id, player_id, player_count, fault,
                   kind, spawned, present>>

-----------------------------------------------------------------------------
(* Agents and items                                                        *)

\* The agent after HandleAgentSpawned.
SpawnedAs(a, k) ==
    [EnsuredAgent(a) EXCEPT
        !.spawned = TRUE,
        !.player_id = IF k.type = "player" THEN k.id ELSE @,
        !.item_id = IF k.type = "item" THEN k.id ELSE @]

\* An item lies on the ground once.
HandleAgentSpawned(a, k) ==
    /\ Alive
    /\ a \notin spawned
    /\ kind[a] = k \/ (kind[a] = NULL /\ k.type # "player" /\ a # MyAgent)
    /\ k.type = "item" => \A b \in AgentIds : kind[b] # k
    /\ kind' = [kind EXCEPT ![a] = k]
    /\ spawned' = spawned \cup {a}
    /\ agents' = [agents EXCEPT ![a] = SpawnedAs(a, k)]
    /\ items' = IF k.type = "item" /\ items[k.id] # NULL
                THEN [items EXCEPT ![k.id].agent_id = a] ELSE items
    /\ UNCHANGED <<players, player_agent_id, player_id, player_count, fault, present>>

\* Mutant: the item is not told.
ItemsKeepTheirAgent(a) == items

\* The items after HandleAgentDespawned.
ItemsWithout(a) ==
    LET i == agents[a].item_id IN
    IF i # NULL /\ items[i] # NULL THEN [items EXCEPT ![i].agent_id = NULL] ELSE items

\* Mutant: the agent of an item that was picked up before is not removed.
DespawnReturnsEarly(a) ==
    /\ Alive
    /\ kind[a] # NULL
    /\ spawned' = spawned \ {a}
    /\ kind' = IF kind[a].type = "player" THEN kind ELSE [kind EXCEPT ![a] = NULL]
    /\ IF agents[a] = NULL \/ (agents[a].item_id # NULL /\ items[agents[a].item_id] = NULL)
       THEN UNCHANGED <<agents, items>>
       ELSE /\ items' = ItemsWithout(a)
            /\ agents' = [agents EXCEPT ![a] = NULL]
    /\ UNCHANGED <<players, player_agent_id, player_id, player_count, fault, present>>

\* A player out of sight stays in the instance and keeps its agent id.  The
\* server may despawn an agent twice (the code returns when it is unknown).
HandleAgentDespawned(a) ==
    /\ Alive
    /\ kind[a] # NULL
    /\ spawned' = spawned \ {a}
    /\ kind' = IF kind[a].type = "player" THEN kind ELSE [kind EXCEPT ![a] = NULL]
    /\ IF agents[a] = NULL THEN UNCHANGED <<agents, items>>
       ELSE /\ items' = ItemsWithout(a)
            /\ agents' = [agents EXCEPT ![a] = NULL]
    /\ UNCHANGED <<players, player_agent_id, player_id, player_count, fault, present>>

\* HandleAgentUpdateProfession, HandlePlayerUpdateProfession and
\* HandleAgentAttrUpdateInt create the agent that they do not find, one that was
\* despawned a moment ago included.
HandleAgentUpdate(a) ==
    /\ Alive
    /\ agents' = [agents EXCEPT ![a] = EnsuredAgent(a)]
    /\ UNCHANGED <<players, items, player_agent_id, player_id, player_count, fault,
                   kind, spawned, present>>

\* item.c: a new Item, and its removal.
HandleItemGeneralInfo(i) ==
    /\ Alive /\ items[i] = NULL
    /\ items' = [items EXCEPT ![i] = [agent_id |-> NULL]]
    /\ UNCHANGED <<agents, players, player_agent_id, player_id, player_count, fault,
                   kind, spawned, present>>

HandleItemRemove(i) ==
    /\ Alive /\ items[i] # NULL
    /\ items' = [items EXCEPT ![i] = NULL]
    /\ UNCHANGED <<agents, players, player_agent_id, player_id, player_count, fault,
                   kind, spawned, present>>

-----------------------------------------------------------------------------
(* Calls of plugins                                                        *)

\* GetAgentOfItem.
GetAgentOfItem(i) ==
    IF items[i] = NULL \/ items[i].agent_id = NULL THEN NULL
    ELSE IF agents[items[i].agent_id] = NULL THEN NULL ELSE items[i].agent_id

\* GetAgentOfPlayer, for an id that is not 0.
GetAgentOfPlayer(p) ==
    IF players[p] = NULL \/ agents[players[p].agent_id] = NULL THEN NULL
    ELSE players[p].agent_id

\* GetMyPlayerId, and every call that starts with GetPlayerPtr: the entry of
\* world->player_id is dereferenced, entry 0 (a null pointer) as well.
GetMyPlayerId ==
    /\ Alive
    /\ player_id = NULL
    /\ fault' = "GetPlayerPtr"
    /\ UNCHANGED <<agents, players, items, player_agent_id, player_id, player_count,
                   kind, spawned, present>>

\* The call is made in an instance, where MoveToCoord checks nothing else.
MoveToCoord ==
    /\ Alive
    /\ IF player_agent_id # NULL /\ agents[player_agent_id] # NULL
       THEN /\ agents' = [agents EXCEPT ![player_agent_id].maybe_moving = TRUE]
            /\ UNCHANGED fault
       ELSE fault' = "GameSrv_MoveToCoord" /\ UNCHANGED agents
    /\ UNCHANGED <<players, items, player_agent_id, player_id, player_count,
                   kind, spawned, present>>

\* Mutant: who the client is survives.
ResetKeepsPlayer ==
    /\ Alive
    /\ agents' = [a \in AgentIds |-> NULL]
    /\ players' = [p \in PlayerIds |-> NULL]
    /\ items' = [i \in ItemIds |-> NULL]
    /\ player_count' = 0
    /\ kind' = [a \in AgentIds |-> NULL]
    /\ spawned' = {} /\ present' = {}
    /\ UNCHANGED <<player_agent_id, player_id, fault>>

\* A transfer: reset_world, and another instance.
reset_world ==
    /\ Alive
    /\ agents' = [a \in AgentIds |-> NULL]
    /\ players' = [p \in PlayerIds |-> NULL]
    /\ items' = [i \in ItemIds |-> NULL]
    /\ player_agent_id' = NULL /\ player_id' = NULL /\ player_count' = 0
    /\ kind' = [a \in AgentIds |-> NULL]
    /\ spawned' = {} /\ present' = {}
    /\ UNCHANGED fault

Next ==
    \/ \E p \in PlayerIds, a \in AgentIds : HandleUpdatePlayerInfo(p, a)
    \/ \E p \in PlayerIds : HandleAgentDestroyPlayer(p)
    \/ HandleAgentSetPlayer
    \/ \E a \in AgentIds : HandlePlayerUnlockedProfession(a)
    \/ \E a \in AgentIds, k \in Kinds : HandleAgentSpawned(a, k)
    \/ \E a \in AgentIds : HandleAgentDespawned(a)
    \/ \E a \in AgentIds : HandleAgentUpdate(a)
    \/ \E i \in ItemIds : HandleItemGeneralInfo(i)
    \/ \E i \in ItemIds : HandleItemRemove(i)
    \/ GetMyPlayerId
    \/ MoveToCoord
    \/ reset_world

Spec == Init /\ [][Next]_vars

-----------------------------------------------------------------------------
(* Properties                                                              *)

\* The agents that the client shows as spawned are those the server has spawned,
\* each for what the server spawned it, whatever order of announcements, updates
\* and despawns led there: an agent that a late update has brought back, or that
\* was only announced, is not among them.
SpawnedAgree ==
    \A a \in AgentIds :
        /\ (agents[a] # NULL /\ agents[a].spawned) <=> a \in spawned
        /\ a \in spawned =>
              /\ kind[a].type = "player" => agents[a].player_id = kind[a].id
              /\ kind[a].type = "item" => agents[a].item_id = kind[a].id

\* GetAgentOfItem gives the agent as which the item lies on the ground, never one
\* that was despawned or whose id is used for something else by now.
AgentOfItem ==
    \A i \in ItemIds :
        GetAgentOfItem(i) # NULL =>
            /\ GetAgentOfItem(i) \in spawned
            /\ kind[GetAgentOfItem(i)] = Dropped(i)
            /\ agents[GetAgentOfItem(i)].item_id = i

\* GetAgentOfPlayer gives, for a player in the instance, the agent that the server
\* reserves for this player.
AgentOfPlayer ==
    \A p \in present :
        /\ players[p] # NULL
        /\ kind[players[p].agent_id] = Living(p)
        /\ GetAgentOfPlayer(p) # NULL => agents[GetAgentOfPlayer(p)].player_id \in {p, NULL}

\* Both: what the client keeps in two records of an agent and its item, or of an agent and
\* its player, and changes in different handlers, is one relation.
LinksAgree == AgentOfItem /\ AgentOfPlayer

\* player_count, which GetPlayers gives to size a buffer, is the number of players
\* in the instance.
CountsPresent == player_count = Cardinality(present)

\* GetPlayers lists an entry that is still there when its player has left, so that
\* a buffer of player_count entries may not hold everybody who is present.  Not
\* kept by the code (HandleAgentDestroyPlayer leaves the entry).
ListsPresent == {p \in PlayerIds : players[p] # NULL} = present

\* Who the client is: the player is Me, known and with the agent of the client;
\* unlocked professions are noted for nobody else.
IdentityIsMine ==
    /\ player_agent_id \in {NULL, MyAgent}
    /\ player_id # NULL =>
          /\ player_id = Me /\ players[player_id] # NULL
          /\ players[player_id].agent_id = player_agent_id
    /\ \A p \in PlayerIds \ {Me} : players[p] # NULL => ~players[p].unlocked

\* GameSrv_MoveToCoord asserts that the agent of the client exists.  Not kept: the
\* call only checks that the client is in an instance, and the agent comes later,
\* leaves in a cinematic, or was not there when the server said who the client is.
MoverExists == fault # "GameSrv_MoveToCoord"

\* GetPlayerPtr dereferences the entry of world->player_id.  Not kept while the
\* client does not know its player.
MyPlayerExists == fault # "GetPlayerPtr"
=============================================================================
