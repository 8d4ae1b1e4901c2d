---------------------------- MODULE AgentsProofs ----------------------------
(***************************************************************************)
(* Proofs about Agents, for any number of agents, players and items.       *)
(***************************************************************************)
EXTENDS Agents, FiniteSetTheorems, TLAPS

-----------------------------------------------------------------------------
(* The inductive invariant: each part is what a step of another actor      *)
(* takes for granted.                                                      *)

\* The server uses for something what it has spawned, and for nothing but the
\* player of the client the agent of the client.
KindsKnown ==
    /\ \A a \in spawned : kind[a] # NULL
    /\ kind[MyAgent] \in {NULL, Living(Me)}

\* An item that names an agent names the one as which it lies on the ground.
ItemsNamed ==
    \A i \in ItemIds : items[i] # NULL /\ items[i].agent_id # NULL =>
        LET a == items[i].agent_id IN
        /\ a \in spawned /\ kind[a] = Dropped(i)
        /\ agents[a] # NULL /\ agents[a].item_id = i

\* A player in the instance names the agent that the server reserves, and that agent
\* names nobody else.
PlayersNamed ==
    \A p \in present :
        /\ players[p] # NULL
        /\ kind[players[p].agent_id] = Living(p)
        /\ agents[players[p].agent_id] # NULL => agents[players[p].agent_id].player_id \in {p, NULL}

\* What HandleAgentSetPlayer copies from the agent of the client.
MeNamed ==
    /\ agents[MyAgent] # NULL => agents[MyAgent].player_id \in {Me, NULL}
    /\ players[Me] # NULL => players[Me].agent_id = MyAgent
    /\ kind[MyAgent] = Living(Me) => players[Me] # NULL
    /\ agents[MyAgent] # NULL /\ agents[MyAgent].player_id = Me => players[Me] # NULL
    /\ player_id # NULL => player_agent_id = MyAgent

IInv ==
    /\ TypeOK
    /\ SpawnedAgree
    /\ KindsKnown
    /\ ItemsNamed
    /\ PlayersNamed
    /\ MeNamed
    /\ IdentityIsMine
    /\ CountsPresent

\* The links that plugins follow are those that the records name.
LEMMA NamedLinksAgree == IInv => LinksAgree
  BY AgentsAssumption
  DEF IInv, TypeOK, ItemsNamed, PlayersNamed, LinksAgree, AgentOfItem, AgentOfPlayer,
      GetAgentOfItem, GetAgentOfPlayer, Item, Player

-----------------------------------------------------------------------------
(* Helpers                                                                 *)

\* An agent that is made sure to exist is a record that keeps what it was.
LEMMA EnsuredIsAgent ==
    ASSUME TypeOK, NEW a \in AgentIds
    PROVE  /\ EnsuredAgent(a) \in Agent
           /\ EnsuredAgent(a) # NULL
           /\ agents[a] # NULL => EnsuredAgent(a) = agents[a]
           /\ agents[a] = NULL => EnsuredAgent(a) = NewAgent
  <1>1. NewAgent \in Agent
    BY DEF NewAgent, Agent
  <1>2. NULL \notin Agent
    BY AgentsAssumption
  <1> QED
    BY <1>1, <1>2 DEF TypeOK, EnsuredAgent

\* The uses of an agent id are told apart by what they are and for whom.
LEMMA KindsDiffer ==
    ASSUME NEW p, NEW q, NEW i, NEW j
    PROVE  /\ Living(p) = Living(q) => p = q
           /\ Dropped(i) = Dropped(j) => i = j
           /\ Living(p) # Dropped(i)
           /\ Living(p).type = "player" /\ Living(p).id = p
           /\ Dropped(i).type = "item" /\ Dropped(i).id = i
           /\ Npc.type = "npc" /\ Npc # Living(p) /\ Npc # Dropped(i)
  <1>1. Living(p).type # Dropped(i).type /\ Npc.type # Living(p).type /\ Npc.type # Dropped(i).type
    BY DEF Living, Dropped, Npc
  <1>2. Living(p).id = p /\ Living(q).id = q /\ Dropped(i).id = i /\ Dropped(j).id = j
    BY DEF Living, Dropped
  <1> QED
    BY <1>1, <1>2 DEF Living, Dropped, Npc

\* A kind is a player's, an item's or nobody's, by its type.
LEMMA KindTypes ==
    ASSUME NEW k \in Kinds
    PROVE  /\ k # NULL
           /\ k.type = "player" => k.id \in PlayerIds /\ k = Living(k.id)
           /\ k.type = "item" => k.id \in ItemIds /\ k = Dropped(k.id)
           /\ k.type \notin {"player", "item"} => k = Npc
  BY AgentsAssumption DEF Kinds, Living, Dropped, Npc

-----------------------------------------------------------------------------
(* Types                                                                   *)

\* Every step keeps the types: a field is only written of a record that is there.
LEMMA TypeStep == IInv /\ [Next]_vars => TypeOK'
<1> SUFFICES ASSUME IInv, [Next]_vars PROVE TypeOK'
  OBVIOUS
<1> USE AgentsAssumption
<1>1. ASSUME NEW p \in PlayerIds, NEW a \in AgentIds, HandleUpdatePlayerInfo(p, a)
      PROVE  TypeOK'
  <2>1. [EnsuredAgent(a) EXCEPT !.player_id = p] \in Agent
    BY EnsuredIsAgent DEF IInv, Agent
  <2>2. PlayerWith(p, a) \in Player
    BY DEF IInv, TypeOK, PlayerWith, Player
  <2>3. Living(p) \in Kinds
    BY DEF Kinds
  <2> QED
    BY <1>1, <2>1, <2>2, <2>3 DEF IInv, TypeOK, HandleUpdatePlayerInfo, Counted
<1>2. ASSUME NEW p \in PlayerIds, HandleAgentDestroyPlayer(p)
      PROVE  TypeOK'
  BY <1>2 DEF IInv, TypeOK, HandleAgentDestroyPlayer
<1>3. ASSUME HandleAgentSetPlayer
      PROVE  TypeOK'
  BY <1>3, AgentsAssumption DEF IInv, TypeOK, HandleAgentSetPlayer, Agent
<1>4. ASSUME NEW a \in AgentIds, HandlePlayerUnlockedProfession(a)
      PROVE  TypeOK'
  <2>1. CASE player_id # NULL
    <3>1. [players[player_id] EXCEPT !.unlocked = TRUE] \in Player
      BY <2>1 DEF IInv, TypeOK, IdentityIsMine, Player
    <3> QED
      BY <1>4, <3>1 DEF IInv, TypeOK, HandlePlayerUnlockedProfession
  <2>2. CASE player_id = NULL
    BY <1>4, <2>2 DEF IInv, TypeOK, HandlePlayerUnlockedProfession
  <2> QED
    BY <2>1, <2>2
<1>5. ASSUME NEW a \in AgentIds, NEW k \in Kinds, HandleAgentSpawned(a, k)
      PROVE  TypeOK'
  <2>1. SpawnedAs(a, k) \in Agent
    BY EnsuredIsAgent, KindTypes DEF IInv, SpawnedAs, Agent
  <2>2. ASSUME k.type = "item", items[k.id] # NULL
        PROVE  [items[k.id] EXCEPT !.agent_id = a] \in Item
    BY <2>2, KindTypes DEF IInv, TypeOK, Item
  <2> QED
    BY <1>5, <2>1, <2>2 DEF IInv, TypeOK, HandleAgentSpawned
<1>6. ASSUME NEW a \in AgentIds, HandleAgentDespawned(a)
      PROVE  TypeOK'
  <2>1. agents[a] # NULL => ItemsWithout(a) \in [ItemIds -> Item \cup {NULL}]
    BY DEF IInv, TypeOK, ItemsWithout, Item, Agent
  <2> QED
    BY <1>6, <2>1 DEF IInv, TypeOK, HandleAgentDespawned
<1>7. ASSUME NEW a \in AgentIds, HandleAgentUpdate(a)
      PROVE  TypeOK'
  BY <1>7, EnsuredIsAgent DEF IInv, TypeOK, HandleAgentUpdate
<1>8. ASSUME NEW i \in ItemIds, HandleItemGeneralInfo(i)
      PROVE  TypeOK'
  <2>1. [agent_id |-> NULL] \in Item
    BY DEF Item
  <2> QED
    BY <1>8, <2>1 DEF IInv, TypeOK, HandleItemGeneralInfo
<1>9. ASSUME NEW i \in ItemIds, HandleItemRemove(i)
      PROVE  TypeOK'
  BY <1>9 DEF IInv, TypeOK, HandleItemRemove
<1>10. ASSUME GetMyPlayerId
      PROVE  TypeOK'
  BY <1>10 DEF IInv, TypeOK, GetMyPlayerId
<1>11. ASSUME MoveToCoord
      PROVE  TypeOK'
  <2> DEFINE me == player_agent_id
             moved == [agents[me] EXCEPT !.maybe_moving = TRUE]
  <2>0. TypeOK /\ UNCHANGED <<players, items, player_agent_id, player_id, player_count,
                             kind, spawned, present>>
    BY <1>11 DEF IInv, MoveToCoord
  <2>1. CASE me # NULL /\ agents[me] # NULL
    <3>1. moved \in Agent /\ me \in AgentIds
      <4>1. me \in AgentIds /\ agents[me] \in Agent
        BY <2>0, <2>1 DEF TypeOK
      <4> DEFINE agent == agents[me]
      <4>2. agent \in Agent
        BY <4>1
      <4> HIDE DEF agent
      <4>3. [agent EXCEPT !.maybe_moving = TRUE] \in Agent
        BY <4>2 DEF Agent
      <4> QED
        BY <4>1, <4>3 DEF agent
    <3>2. agents' = [agents EXCEPT ![me] = moved] /\ UNCHANGED fault
      BY <1>11, <2>1 DEF MoveToCoord
    <3> HIDE DEF me, moved
    <3> QED
      BY <2>0, <3>1, <3>2 DEF TypeOK
  <2>2. CASE ~(me # NULL /\ agents[me] # NULL)
    <3>1. UNCHANGED agents /\ fault' = "GameSrv_MoveToCoord"
      BY <1>11, <2>2 DEF MoveToCoord
    <3> QED
      BY <2>0, <3>1 DEF TypeOK
  <2> QED
    BY <2>1, <2>2
<1>12. ASSUME reset_world
      PROVE  TypeOK'
  BY <1>12 DEF IInv, TypeOK, reset_world
<1>13. CASE UNCHANGED vars
  BY <1>13 DEF IInv, TypeOK, vars, clientVars
<1> QED
  BY <1>1, <1>2, <1>3, <1>4, <1>5, <1>6, <1>7, <1>8, <1>9, <1>10, <1>11, <1>12, <1>13 DEF Next

-----------------------------------------------------------------------------
(* Agents, their kinds and their items                                     *)

\* What is shown as spawned stays what the server has spawned: an agent that is announced or
\* updated before or after is not shown, and a record is only given to an id that is free.
LEMMA SpawnedStep == IInv /\ [Next]_vars => SpawnedAgree'
<1> SUFFICES ASSUME IInv, [Next]_vars PROVE SpawnedAgree'
  OBVIOUS
<1> USE AgentsAssumption
<1>1. ASSUME NEW p \in PlayerIds, NEW a \in AgentIds, HandleUpdatePlayerInfo(p, a)
      PROVE  SpawnedAgree'
  <2>1. /\ agents' = [agents EXCEPT ![a] = [EnsuredAgent(a) EXCEPT !.player_id = p]]
        /\ a \notin spawned /\ spawned' = spawned
        /\ kind' = [kind EXCEPT ![a] = Living(p)]
    BY <1>1 DEF IInv, KindsKnown, HandleUpdatePlayerInfo
  <2>2. /\ agents'[a].spawned = FALSE
        /\ \A b \in AgentIds \ {a} : agents'[b] = agents[b] /\ kind'[b] = kind[b]
    BY <2>1, EnsuredIsAgent DEF IInv, TypeOK, SpawnedAgree, NewAgent, Agent
  <2> QED
    BY <2>1, <2>2 DEF IInv, SpawnedAgree
<1>2. ASSUME NEW p \in PlayerIds, HandleAgentDestroyPlayer(p)
      PROVE  SpawnedAgree'
  BY <1>2 DEF IInv, TypeOK, SpawnedAgree, HandleAgentDestroyPlayer
<1>3. ASSUME HandleAgentSetPlayer
      PROVE  SpawnedAgree'
  BY <1>3 DEF IInv, SpawnedAgree, HandleAgentSetPlayer
<1>4. ASSUME NEW a \in AgentIds, HandlePlayerUnlockedProfession(a)
      PROVE  SpawnedAgree'
  BY <1>4 DEF IInv, SpawnedAgree, HandlePlayerUnlockedProfession
<1>5. ASSUME NEW a \in AgentIds, NEW k \in Kinds, HandleAgentSpawned(a, k)
      PROVE  SpawnedAgree'
  <2>1. /\ agents' = [agents EXCEPT ![a] = SpawnedAs(a, k)]
        /\ kind' = [kind EXCEPT ![a] = k]
        /\ spawned' = spawned \cup {a}
    BY <1>5 DEF HandleAgentSpawned
  <2>2. /\ SpawnedAs(a, k) \in Agent /\ SpawnedAs(a, k).spawned
        /\ k.type = "player" => SpawnedAs(a, k).player_id = k.id
        /\ k.type = "item" => SpawnedAs(a, k).item_id = k.id
    BY EnsuredIsAgent, KindTypes DEF IInv, SpawnedAs, Agent
  <2> QED
    BY <2>1, <2>2 DEF IInv, TypeOK, SpawnedAgree
<1>6. ASSUME NEW a \in AgentIds, HandleAgentDespawned(a)
      PROVE  SpawnedAgree'
  <2>1. /\ spawned' = spawned \ {a}
        /\ \A b \in AgentIds \ {a} : kind'[b] = kind[b] /\ agents'[b] = agents[b]
        /\ agents'[a] = NULL
    BY <1>6 DEF IInv, TypeOK, HandleAgentDespawned
  <2> QED
    BY <2>1 DEF IInv, SpawnedAgree
<1>7. ASSUME NEW a \in AgentIds, HandleAgentUpdate(a)
      PROVE  SpawnedAgree'
  <2>1. /\ agents' = [agents EXCEPT ![a] = EnsuredAgent(a)]
        /\ spawned' = spawned /\ kind' = kind
    BY <1>7 DEF HandleAgentUpdate
  <2>2. ~NewAgent.spawned
    BY DEF NewAgent
  <2> QED
    BY <2>1, <2>2, EnsuredIsAgent DEF IInv, TypeOK, SpawnedAgree
<1>8. ASSUME NEW i \in ItemIds, HandleItemGeneralInfo(i)
      PROVE  SpawnedAgree'
  BY <1>8 DEF IInv, SpawnedAgree, HandleItemGeneralInfo
<1>9. ASSUME NEW i \in ItemIds, HandleItemRemove(i)
      PROVE  SpawnedAgree'
  BY <1>9 DEF IInv, SpawnedAgree, HandleItemRemove
<1>10. ASSUME GetMyPlayerId
      PROVE  SpawnedAgree'
  BY <1>10 DEF IInv, SpawnedAgree, GetMyPlayerId
<1>11. ASSUME MoveToCoord
      PROVE  SpawnedAgree'
  <2>1. CASE player_agent_id # NULL /\ agents[player_agent_id] # NULL
    <3>1. /\ player_agent_id \in AgentIds
          /\ agents' = [agents EXCEPT ![player_agent_id].maybe_moving = TRUE]
          /\ spawned' = spawned /\ kind' = kind
      BY <1>11, <2>1 DEF IInv, TypeOK, MoveToCoord
    <3>2. /\ agents'[player_agent_id] \in Agent
          /\ agents'[player_agent_id].spawned = agents[player_agent_id].spawned
          /\ agents'[player_agent_id].player_id = agents[player_agent_id].player_id
          /\ agents'[player_agent_id].item_id = agents[player_agent_id].item_id
      BY <2>1, <3>1 DEF IInv, TypeOK, Agent
    <3>3. agents'[player_agent_id] # NULL
      BY <3>2
    <3> QED
      BY <2>1, <3>1, <3>2, <3>3 DEF IInv, TypeOK, SpawnedAgree
  <2>2. CASE ~(player_agent_id # NULL /\ agents[player_agent_id] # NULL)
    BY <1>11, <2>2 DEF IInv, SpawnedAgree, MoveToCoord
  <2> QED
    BY <2>1, <2>2
<1>12. ASSUME reset_world
      PROVE  SpawnedAgree'
  BY <1>12 DEF IInv, SpawnedAgree, reset_world
<1>13. CASE UNCHANGED vars
  BY <1>13 DEF IInv, SpawnedAgree, vars, clientVars
<1> QED
  BY <1>1, <1>2, <1>3, <1>4, <1>5, <1>6, <1>7, <1>8, <1>9, <1>10, <1>11, <1>12, <1>13 DEF Next

\* The server only spawns for what an id is used, and uses the agent of the client for the client.
LEMMA KindsStep == IInv /\ [Next]_vars => KindsKnown'
<1> SUFFICES ASSUME IInv, [Next]_vars PROVE KindsKnown'
  OBVIOUS
<1> USE AgentsAssumption
<1>1. ASSUME NEW p \in PlayerIds, NEW a \in AgentIds, HandleUpdatePlayerInfo(p, a)
      PROVE  KindsKnown'
  <2>1. Living(p) # NULL
    BY AgentsAssumption DEF Kinds
  <2> QED
    BY <1>1, <2>1 DEF IInv, TypeOK, KindsKnown, HandleUpdatePlayerInfo
<1>2. ASSUME NEW p \in PlayerIds, HandleAgentDestroyPlayer(p)
      PROVE  KindsKnown'
  BY <1>2, KindsDiffer DEF IInv, TypeOK, KindsKnown, HandleAgentDestroyPlayer
<1>3. ASSUME HandleAgentSetPlayer
      PROVE  KindsKnown'
  BY <1>3 DEF IInv, KindsKnown, HandleAgentSetPlayer
<1>4. ASSUME NEW a \in AgentIds, HandlePlayerUnlockedProfession(a)
      PROVE  KindsKnown'
  BY <1>4 DEF IInv, KindsKnown, HandlePlayerUnlockedProfession
<1>5. ASSUME NEW a \in AgentIds, NEW k \in Kinds, HandleAgentSpawned(a, k)
      PROVE  KindsKnown'
  BY <1>5, KindTypes DEF IInv, TypeOK, KindsKnown, HandleAgentSpawned
<1>6. ASSUME NEW a \in AgentIds, HandleAgentDespawned(a)
      PROVE  KindsKnown'
  BY <1>6 DEF IInv, TypeOK, KindsKnown, HandleAgentDespawned
<1>7. ASSUME NEW a \in AgentIds, HandleAgentUpdate(a)
      PROVE  KindsKnown'
  BY <1>7 DEF IInv, KindsKnown, HandleAgentUpdate
<1>8. ASSUME NEW i \in ItemIds, HandleItemGeneralInfo(i)
      PROVE  KindsKnown'
  BY <1>8 DEF IInv, KindsKnown, HandleItemGeneralInfo
<1>9. ASSUME NEW i \in ItemIds, HandleItemRemove(i)
      PROVE  KindsKnown'
  BY <1>9 DEF IInv, KindsKnown, HandleItemRemove
<1>10. ASSUME GetMyPlayerId
      PROVE  KindsKnown'
  BY <1>10 DEF IInv, KindsKnown, GetMyPlayerId
<1>11. ASSUME MoveToCoord
      PROVE  KindsKnown'
  BY <1>11 DEF IInv, KindsKnown, MoveToCoord
<1>12. ASSUME reset_world
      PROVE  KindsKnown'
  BY <1>12 DEF IInv, KindsKnown, reset_world
<1>13. CASE UNCHANGED vars
  BY <1>13 DEF IInv, KindsKnown, vars, clientVars
<1> QED
  BY <1>1, <1>2, <1>3, <1>4, <1>5, <1>6, <1>7, <1>8, <1>9, <1>10, <1>11, <1>12, <1>13 DEF Next

\* An item keeps its agent exactly as long as it lies on the ground: the despawn of the agent
\* clears the name in the item that the record of the agent names.
LEMMA ItemsStep == IInv /\ [Next]_vars => ItemsNamed'
<1> SUFFICES ASSUME IInv, [Next]_vars PROVE ItemsNamed'
  OBVIOUS
<1> USE AgentsAssumption
<1>1. ASSUME NEW p \in PlayerIds, NEW a \in AgentIds, HandleUpdatePlayerInfo(p, a)
      PROVE  ItemsNamed'
  <2>1. /\ a \notin spawned /\ items' = items /\ spawned' = spawned
        /\ \A b \in AgentIds \ {a} : agents'[b] = agents[b] /\ kind'[b] = kind[b]
    BY <1>1 DEF IInv, TypeOK, KindsKnown, HandleUpdatePlayerInfo
  <2> QED
    BY <2>1 DEF IInv, TypeOK, ItemsNamed
<1>2. ASSUME NEW p \in PlayerIds, HandleAgentDestroyPlayer(p)
      PROVE  ItemsNamed'
  <2>1. /\ items' = items /\ agents' = agents /\ spawned' = spawned
        /\ \A b \in spawned : kind'[b] = kind[b]
    BY <1>2 DEF IInv, TypeOK, HandleAgentDestroyPlayer
  <2> QED
    BY <2>1 DEF IInv, ItemsNamed
<1>3. ASSUME HandleAgentSetPlayer
      PROVE  ItemsNamed'
  BY <1>3 DEF IInv, TypeOK, ItemsNamed, HandleAgentSetPlayer
<1>4. ASSUME NEW a \in AgentIds, HandlePlayerUnlockedProfession(a)
      PROVE  ItemsNamed'
  BY <1>4 DEF IInv, TypeOK, ItemsNamed, HandlePlayerUnlockedProfession
<1>5. ASSUME NEW a \in AgentIds, NEW k \in Kinds, HandleAgentSpawned(a, k)
      PROVE  ItemsNamed'
  <2>1. /\ a \notin spawned /\ spawned' = spawned \cup {a}
        /\ agents' = [agents EXCEPT ![a] = SpawnedAs(a, k)]
        /\ kind' = [kind EXCEPT ![a] = k]
    BY <1>5 DEF HandleAgentSpawned
  <2>2. SpawnedAs(a, k) \in Agent /\ (k.type = "item" => SpawnedAs(a, k).item_id = k.id)
    BY EnsuredIsAgent, KindTypes DEF IInv, SpawnedAs, Agent
  <2>3. SUFFICES ASSUME NEW i \in ItemIds, items'[i] # NULL, items'[i].agent_id # NULL
                 PROVE  LET b == items'[i].agent_id IN
                        /\ b \in spawned' /\ kind'[b] = Dropped(i)
                        /\ agents'[b] # NULL /\ agents'[b].item_id = i
    BY DEF ItemsNamed
  <2>4. CASE k.type = "item" /\ k.id = i
    <3>1. items'[i].agent_id = a
      BY <1>5, <2>3, <2>4 DEF IInv, TypeOK, HandleAgentSpawned, Item
    <3>2. k = Dropped(i)
      BY <2>4, KindTypes
    <3> QED
      BY <2>1, <2>2, <2>4, <3>1, <3>2 DEF IInv, TypeOK
  <2>5. CASE ~(k.type = "item" /\ k.id = i)
    <3>1. items'[i] = items[i]
      BY <1>5, <2>5 DEF IInv, TypeOK, HandleAgentSpawned
    <3>2. items[i].agent_id # a /\ items[i].agent_id \in AgentIds
      BY <2>1, <2>3, <3>1 DEF IInv, TypeOK, ItemsNamed, Item
    <3> QED
      BY <2>1, <2>3, <3>1, <3>2 DEF IInv, TypeOK, ItemsNamed
  <2> QED
    BY <2>4, <2>5
<1>6. ASSUME NEW a \in AgentIds, HandleAgentDespawned(a)
      PROVE  ItemsNamed'
  <2>1. /\ spawned' = spawned \ {a}
        /\ \A b \in AgentIds \ {a} : kind'[b] = kind[b] /\ agents'[b] = agents[b]
        /\ items' = IF agents[a] = NULL THEN items ELSE ItemsWithout(a)
    BY <1>6 DEF IInv, TypeOK, HandleAgentDespawned
  <2>2. ASSUME NEW i \in ItemIds, items'[i] # NULL, items'[i].agent_id # NULL
        PROVE  items'[i] = items[i] /\ items[i].agent_id # a
    <3>1. CASE items[i] # NULL /\ items[i].agent_id = a
      <4>1. agents[a] # NULL /\ agents[a].item_id = i
        BY <3>1 DEF IInv, ItemsNamed
      <4>2. items'[i].agent_id = NULL
        BY <2>1, <3>1, <4>1 DEF IInv, TypeOK, ItemsWithout, Item
      <4> QED
        BY <2>2, <4>2
    <3>2. CASE ~(items[i] # NULL /\ items[i].agent_id = a)
      <4>1. items'[i] = items[i] \/ items'[i] = [items[i] EXCEPT !.agent_id = NULL]
        BY <2>1 DEF IInv, TypeOK, ItemsWithout
      <4>2. items[i] # NULL => [items[i] EXCEPT !.agent_id = NULL].agent_id = NULL
        BY DEF IInv, TypeOK, Item
      <4>3. items[i] = NULL => items'[i] = NULL
        BY <2>1 DEF IInv, TypeOK, ItemsWithout
      <4> QED
        BY <2>2, <3>2, <4>1, <4>2, <4>3
    <3> QED
      BY <3>1, <3>2
  <2> QED
    BY <2>1, <2>2 DEF IInv, TypeOK, ItemsNamed, Item
<1>7. ASSUME NEW a \in AgentIds, HandleAgentUpdate(a)
      PROVE  ItemsNamed'
  <2>1. /\ agents' = [agents EXCEPT ![a] = EnsuredAgent(a)]
        /\ items' = items /\ spawned' = spawned /\ kind' = kind
    BY <1>7 DEF HandleAgentUpdate
  <2> QED
    BY <2>1, EnsuredIsAgent DEF IInv, TypeOK, ItemsNamed, Item
<1>8. ASSUME NEW i \in ItemIds, HandleItemGeneralInfo(i)
      PROVE  ItemsNamed'
  <2>1. [agent_id |-> NULL].agent_id = NULL
    OBVIOUS
  <2> QED
    BY <1>8, <2>1 DEF IInv, TypeOK, ItemsNamed, HandleItemGeneralInfo
<1>9. ASSUME NEW i \in ItemIds, HandleItemRemove(i)
      PROVE  ItemsNamed'
  BY <1>9 DEF IInv, TypeOK, ItemsNamed, HandleItemRemove
<1>10. ASSUME GetMyPlayerId
      PROVE  ItemsNamed'
  BY <1>10 DEF IInv, TypeOK, ItemsNamed, GetMyPlayerId
<1>11. ASSUME MoveToCoord
      PROVE  ItemsNamed'
  <2>1. CASE player_agent_id # NULL /\ agents[player_agent_id] # NULL
    <3>1. /\ player_agent_id \in AgentIds
          /\ agents' = [agents EXCEPT ![player_agent_id].maybe_moving = TRUE]
          /\ items' = items /\ spawned' = spawned /\ kind' = kind
      BY <1>11, <2>1 DEF IInv, TypeOK, MoveToCoord
    <3>2. /\ agents'[player_agent_id] \in Agent
          /\ agents'[player_agent_id].item_id = agents[player_agent_id].item_id
      BY <2>1, <3>1 DEF IInv, TypeOK, Agent
    <3>3. agents'[player_agent_id] # NULL
      BY <3>2
    <3> QED
      BY <2>1, <3>1, <3>2, <3>3 DEF IInv, TypeOK, ItemsNamed, Item
  <2>2. CASE ~(player_agent_id # NULL /\ agents[player_agent_id] # NULL)
    BY <1>11, <2>2 DEF IInv, ItemsNamed, MoveToCoord
  <2> QED
    BY <2>1, <2>2
<1>12. ASSUME reset_world
      PROVE  ItemsNamed'
  BY <1>12 DEF IInv, TypeOK, ItemsNamed, reset_world
<1>13. CASE UNCHANGED vars
  BY <1>13 DEF IInv, TypeOK, ItemsNamed, vars, clientVars
<1> QED
  BY <1>1, <1>2, <1>3, <1>4, <1>5, <1>6, <1>7, <1>8, <1>9, <1>10, <1>11, <1>12, <1>13 DEF Next

-----------------------------------------------------------------------------
(* Players, the identity of the client and the count                       *)

\* A player in the instance keeps his agent id, while that agent comes and goes.
LEMMA PlayersStep == IInv /\ [Next]_vars => PlayersNamed'
<1> SUFFICES ASSUME IInv, [Next]_vars PROVE PlayersNamed'
  OBVIOUS
<1> USE AgentsAssumption
<1>1. ASSUME NEW p \in PlayerIds, NEW a \in AgentIds, HandleUpdatePlayerInfo(p, a)
      PROVE  PlayersNamed'
  <2>1. PlayerWith(p, a) \in Player /\ PlayerWith(p, a).agent_id = a
        /\ (players[p] # NULL => PlayerWith(p, a).unlocked = players[p].unlocked)
        /\ (players[p] = NULL => ~PlayerWith(p, a).unlocked)
    BY DEF IInv, TypeOK, PlayerWith, Player
  <2>2. /\ players' = [players EXCEPT ![p] = PlayerWith(p, a)]
        /\ kind' = [kind EXCEPT ![a] = Living(p)]
        /\ agents' = [agents EXCEPT ![a] = [EnsuredAgent(a) EXCEPT !.player_id = p]]
        /\ present' = present \cup {p} /\ kind[a] = NULL /\ (p = Me <=> a = MyAgent)
        /\ player_id' = player_id /\ player_agent_id' = player_agent_id
    BY <1>1 DEF HandleUpdatePlayerInfo
  <2>3. agents'[a].player_id = p /\ agents'[a] \in Agent
    BY <2>2, EnsuredIsAgent DEF IInv, TypeOK, Agent
  <2>4. players'[p] = PlayerWith(p, a) /\ players'[p] # NULL
    BY <2>1, <2>2 DEF IInv, TypeOK
  <2>5. ASSUME NEW q \in present, q # p
        PROVE  /\ players'[q] = players[q] /\ players[q] # NULL
               /\ players[q].agent_id \in AgentIds \ {a}
               /\ kind'[players[q].agent_id] = kind[players[q].agent_id]
               /\ agents'[players[q].agent_id] = agents[players[q].agent_id]
    <3>1. players[q] # NULL /\ players[q] \in Player /\ kind[players[q].agent_id] = Living(q)
      BY <2>5 DEF IInv, TypeOK, PlayersNamed
    <3>2. Living(q) # NULL
      BY AgentsAssumption DEF IInv, TypeOK, Kinds
    <3> QED
      BY <2>2, <2>5, <3>1, <3>2 DEF IInv, TypeOK, Player
  <2>6. ASSUME NEW q \in present', q # p
        PROVE  /\ players'[q] # NULL
               /\ kind'[players'[q].agent_id] = Living(q)
               /\ agents'[players'[q].agent_id] # NULL
                     => agents'[players'[q].agent_id].player_id \in {q, NULL}
    BY <2>2, <2>5, <2>6 DEF IInv, PlayersNamed
  <2>7. players'[p].agent_id = a /\ kind'[a] = Living(p)
    BY <2>1, <2>2, <2>4 DEF IInv, TypeOK
  <2> QED
    BY <2>3, <2>4, <2>6, <2>7 DEF PlayersNamed
<1>2. ASSUME NEW p \in PlayerIds, HandleAgentDestroyPlayer(p)
      PROVE  PlayersNamed'
  <2>1. /\ players' = players /\ agents' = agents /\ present' = present \ {p}
        /\ kind' = [b \in AgentIds |-> IF kind[b] = Living(p) THEN NULL ELSE kind[b]]
    BY <1>2 DEF HandleAgentDestroyPlayer
  <2>2. ASSUME NEW q \in present \ {p}
        PROVE  kind'[players[q].agent_id] = Living(q)
    BY <2>1, KindsDiffer DEF IInv, TypeOK, PlayersNamed, Player
  <2> QED
    BY <2>1, <2>2 DEF IInv, PlayersNamed
<1>3. ASSUME HandleAgentSetPlayer
      PROVE  PlayersNamed'
  BY <1>3 DEF IInv, PlayersNamed, HandleAgentSetPlayer
<1>4. ASSUME NEW a \in AgentIds, HandlePlayerUnlockedProfession(a)
      PROVE  PlayersNamed'
  <2>1. /\ agents' = agents /\ present' = present /\ kind' = kind
        /\ player_id' = player_id /\ player_agent_id' = player_agent_id
        /\ \A p \in PlayerIds : players'[p] = players[p]
              \/ /\ p = Me /\ players[p] # NULL /\ players'[p] # NULL
                 /\ players'[p].agent_id = players[p].agent_id
    <3>1. CASE player_agent_id = a /\ player_id # NULL
      <4>1. /\ player_id = Me /\ players[Me] # NULL
            /\ players' = [players EXCEPT ![Me].unlocked = TRUE]
        BY <1>4, <3>1 DEF IInv, IdentityIsMine, HandlePlayerUnlockedProfession
      <4>2. players'[Me] \in Player /\ players'[Me].agent_id = players[Me].agent_id
        BY <4>1 DEF IInv, TypeOK, Player
      <4>3. players'[Me] # NULL
        BY <4>2
      <4> QED
        BY <1>4, <4>1, <4>2, <4>3 DEF IInv, TypeOK, HandlePlayerUnlockedProfession
    <3>2. CASE ~(player_agent_id = a /\ player_id # NULL)
      BY <1>4, <3>2 DEF HandlePlayerUnlockedProfession
    <3> QED
      BY <3>1, <3>2
  <2> QED
    BY <2>1 DEF IInv, TypeOK, PlayersNamed
<1>5. ASSUME NEW a \in AgentIds, NEW k \in Kinds, HandleAgentSpawned(a, k)
      PROVE  PlayersNamed'
  <2>1. /\ players' = players /\ present' = present
        /\ agents' = [agents EXCEPT ![a] = SpawnedAs(a, k)]
        /\ kind' = [kind EXCEPT ![a] = k]
        /\ kind[a] = k \/ kind[a] = NULL
    BY <1>5 DEF HandleAgentSpawned
  <2>2. k = Living(k.id) => SpawnedAs(a, k).player_id = k.id
    BY EnsuredIsAgent, KindsDiffer DEF IInv, SpawnedAs, Agent
  <2>3. SUFFICES ASSUME NEW q \in present
                 PROVE  /\ kind'[players[q].agent_id] = Living(q)
                        /\ agents'[players[q].agent_id] # NULL
                              => agents'[players[q].agent_id].player_id \in {q, NULL}
    BY <2>1 DEF IInv, PlayersNamed
  <2>4. players[q].agent_id \in AgentIds /\ kind[players[q].agent_id] = Living(q) /\ Living(q) # NULL
    BY DEF IInv, TypeOK, PlayersNamed, Player, Kinds
  <2>5. CASE players[q].agent_id = a
    <3>1. k = Living(q) /\ k.id = q
      BY <2>1, <2>4, <2>5, KindsDiffer
    <3> QED
      BY <2>1, <2>2, <2>5, <3>1 DEF IInv, TypeOK
  <2>6. CASE players[q].agent_id # a
    BY <2>1, <2>4, <2>6 DEF IInv, TypeOK, PlayersNamed
  <2> QED
    BY <2>5, <2>6
<1>6. ASSUME NEW a \in AgentIds, HandleAgentDespawned(a)
      PROVE  PlayersNamed'
  <2>1. /\ players' = players /\ present' = present /\ agents'[a] = NULL
        /\ \A b \in AgentIds \ {a} : agents'[b] = agents[b] /\ kind'[b] = kind[b]
        /\ kind'[a] = (IF kind[a].type = "player" THEN kind[a] ELSE NULL)
    BY <1>6 DEF IInv, TypeOK, HandleAgentDespawned
  <2>2. \A q \in present : kind[players[q].agent_id].type = "player"
    BY KindsDiffer DEF IInv, PlayersNamed
  <2> QED
    BY <2>1, <2>2 DEF IInv, TypeOK, PlayersNamed, Player
<1>7. ASSUME NEW a \in AgentIds, HandleAgentUpdate(a)
      PROVE  PlayersNamed'
  <2>1. /\ agents' = [agents EXCEPT ![a] = EnsuredAgent(a)]
        /\ players' = players /\ present' = present /\ kind' = kind
    BY <1>7 DEF HandleAgentUpdate
  <2>2. NewAgent.player_id = NULL
    BY DEF NewAgent
  <2> QED
    BY <2>1, <2>2, EnsuredIsAgent DEF IInv, TypeOK, PlayersNamed, Player
<1>8. ASSUME NEW i \in ItemIds, HandleItemGeneralInfo(i)
      PROVE  PlayersNamed'
  BY <1>8 DEF IInv, PlayersNamed, HandleItemGeneralInfo
<1>9. ASSUME NEW i \in ItemIds, HandleItemRemove(i)
      PROVE  PlayersNamed'
  BY <1>9 DEF IInv, PlayersNamed, HandleItemRemove
<1>10. ASSUME GetMyPlayerId
      PROVE  PlayersNamed'
  BY <1>10 DEF IInv, PlayersNamed, GetMyPlayerId
<1>11. ASSUME MoveToCoord
      PROVE  PlayersNamed'
  <2>1. CASE player_agent_id # NULL /\ agents[player_agent_id] # NULL
    <3>1. /\ player_agent_id \in AgentIds
          /\ agents' = [agents EXCEPT ![player_agent_id].maybe_moving = TRUE]
          /\ players' = players /\ present' = present /\ kind' = kind
          /\ player_id' = player_id /\ player_agent_id' = player_agent_id
      BY <1>11, <2>1 DEF IInv, TypeOK, MoveToCoord
    <3>2. /\ agents'[player_agent_id] \in Agent
          /\ agents'[player_agent_id].player_id = agents[player_agent_id].player_id
      BY <2>1, <3>1 DEF IInv, TypeOK, Agent
    <3>3. agents'[player_agent_id] # NULL
      BY <3>2
    <3> QED
      BY <2>1, <3>1, <3>2, <3>3 DEF IInv, TypeOK, PlayersNamed, Player
  <2>2. CASE ~(player_agent_id # NULL /\ agents[player_agent_id] # NULL)
    BY <1>11, <2>2 DEF IInv, TypeOK, PlayersNamed, Player, MoveToCoord
  <2> QED
    BY <2>1, <2>2
<1>12. ASSUME reset_world
      PROVE  PlayersNamed'
  BY <1>12 DEF IInv, PlayersNamed, reset_world
<1>13. CASE UNCHANGED vars
  BY <1>13 DEF IInv, PlayersNamed, vars, clientVars
<1> QED
  BY <1>1, <1>2, <1>3, <1>4, <1>5, <1>6, <1>7, <1>8, <1>9, <1>10, <1>11, <1>12, <1>13 DEF Next

\* The agent of the client only ever carries the player of the client, who is known from then on.
LEMMA MeStep == IInv /\ [Next]_vars => MeNamed'
<1> SUFFICES ASSUME IInv, [Next]_vars PROVE MeNamed'
  OBVIOUS
<1> USE AgentsAssumption
<1>1. ASSUME NEW p \in PlayerIds, NEW a \in AgentIds, HandleUpdatePlayerInfo(p, a)
      PROVE  MeNamed'
  <2>1. PlayerWith(p, a) \in Player /\ PlayerWith(p, a).agent_id = a
        /\ (players[p] # NULL => PlayerWith(p, a).unlocked = players[p].unlocked)
        /\ (players[p] = NULL => ~PlayerWith(p, a).unlocked)
    BY DEF IInv, TypeOK, PlayerWith, Player
  <2>2. /\ players' = [players EXCEPT ![p] = PlayerWith(p, a)]
        /\ kind' = [kind EXCEPT ![a] = Living(p)]
        /\ agents' = [agents EXCEPT ![a] = [EnsuredAgent(a) EXCEPT !.player_id = p]]
        /\ present' = present \cup {p} /\ kind[a] = NULL /\ (p = Me <=> a = MyAgent)
        /\ player_id' = player_id /\ player_agent_id' = player_agent_id
    BY <1>1 DEF HandleUpdatePlayerInfo
  <2>3. agents'[a].player_id = p /\ agents'[a] \in Agent
    BY <2>2, EnsuredIsAgent DEF IInv, TypeOK, Agent
  <2>4. players'[p] = PlayerWith(p, a) /\ players'[p] # NULL
    BY <2>1, <2>2 DEF IInv, TypeOK
  <2> QED
    BY <2>1, <2>2, <2>3, <2>4, KindsDiffer DEF IInv, TypeOK, MeNamed
<1>2. ASSUME NEW p \in PlayerIds, HandleAgentDestroyPlayer(p)
      PROVE  MeNamed'
  <2>1. kind'[MyAgent] = Living(Me) => kind[MyAgent] = Living(Me)
    BY <1>2 DEF IInv, TypeOK, Kinds, HandleAgentDestroyPlayer
  <2> QED
    BY <1>2, <2>1 DEF IInv, MeNamed, HandleAgentDestroyPlayer
<1>3. ASSUME HandleAgentSetPlayer
      PROVE  MeNamed'
  BY <1>3 DEF IInv, TypeOK, MeNamed, IdentityIsMine, HandleAgentSetPlayer, Agent
<1>4. ASSUME NEW a \in AgentIds, HandlePlayerUnlockedProfession(a)
      PROVE  MeNamed'
  <2>1. /\ agents' = agents /\ present' = present /\ kind' = kind
        /\ player_id' = player_id /\ player_agent_id' = player_agent_id
        /\ \A p \in PlayerIds : players'[p] = players[p]
              \/ /\ p = Me /\ players[p] # NULL /\ players'[p] # NULL
                 /\ players'[p].agent_id = players[p].agent_id
    <3>1. CASE player_agent_id = a /\ player_id # NULL
      <4>1. /\ player_id = Me /\ players[Me] # NULL
            /\ players' = [players EXCEPT ![Me].unlocked = TRUE]
        BY <1>4, <3>1 DEF IInv, IdentityIsMine, HandlePlayerUnlockedProfession
      <4>2. players'[Me] \in Player /\ players'[Me].agent_id = players[Me].agent_id
        BY <4>1 DEF IInv, TypeOK, Player
      <4>3. players'[Me] # NULL
        BY <4>2
      <4> QED
        BY <1>4, <4>1, <4>2, <4>3 DEF IInv, TypeOK, HandlePlayerUnlockedProfession
    <3>2. CASE ~(player_agent_id = a /\ player_id # NULL)
      BY <1>4, <3>2 DEF HandlePlayerUnlockedProfession
    <3> QED
      BY <3>1, <3>2
  <2> QED
    BY <2>1 DEF IInv, TypeOK, MeNamed
<1>5. ASSUME NEW a \in AgentIds, NEW k \in Kinds, HandleAgentSpawned(a, k)
      PROVE  MeNamed'
  <2>1. /\ players' = players /\ player_id' = player_id /\ player_agent_id' = player_agent_id
        /\ agents' = [agents EXCEPT ![a] = SpawnedAs(a, k)]
        /\ kind' = [kind EXCEPT ![a] = k]
        /\ a = MyAgent => kind[MyAgent] = k
    BY <1>5 DEF IInv, TypeOK, HandleAgentSpawned
  <2>2. CASE a = MyAgent
    <3>1. k = Living(Me) /\ k.type = "player" /\ k.id = Me
      BY <2>1, <2>2, KindTypes, KindsDiffer DEF IInv, KindsKnown
    <3>2. SpawnedAs(a, k).player_id = Me
      BY <3>1, EnsuredIsAgent DEF IInv, SpawnedAs, Agent
    <3> QED
      BY <2>1, <2>2, <3>1, <3>2 DEF IInv, TypeOK, MeNamed
  <2>3. CASE a # MyAgent
    BY <2>1, <2>3 DEF IInv, TypeOK, MeNamed
  <2> QED
    BY <2>2, <2>3
<1>6. ASSUME NEW a \in AgentIds, HandleAgentDespawned(a)
      PROVE  MeNamed'
  <2>1. /\ players' = players /\ player_id' = player_id /\ player_agent_id' = player_agent_id
        /\ \A b \in AgentIds : (agents'[b] = agents[b] \/ agents'[b] = NULL)
                                /\ (kind'[b] = kind[b] \/ kind'[b] = NULL)
    BY <1>6 DEF IInv, TypeOK, HandleAgentDespawned
  <2>2. Living(Me) # NULL
    BY DEF Kinds
  <2> QED
    BY <2>1, <2>2 DEF IInv, MeNamed
<1>7. ASSUME NEW a \in AgentIds, HandleAgentUpdate(a)
      PROVE  MeNamed'
  <2>1. /\ agents' = [agents EXCEPT ![a] = EnsuredAgent(a)] /\ players' = players /\ kind' = kind
        /\ player_id' = player_id /\ player_agent_id' = player_agent_id
    BY <1>7 DEF HandleAgentUpdate
  <2>2. NewAgent.player_id = NULL
    BY DEF NewAgent
  <2> QED
    BY <2>1, <2>2, EnsuredIsAgent DEF IInv, TypeOK, MeNamed
<1>8. ASSUME NEW i \in ItemIds, HandleItemGeneralInfo(i)
      PROVE  MeNamed'
  BY <1>8 DEF IInv, MeNamed, HandleItemGeneralInfo
<1>9. ASSUME NEW i \in ItemIds, HandleItemRemove(i)
      PROVE  MeNamed'
  BY <1>9 DEF IInv, MeNamed, HandleItemRemove
<1>10. ASSUME GetMyPlayerId
      PROVE  MeNamed'
  BY <1>10 DEF IInv, MeNamed, GetMyPlayerId
<1>11. ASSUME MoveToCoord
      PROVE  MeNamed'
  <2>1. CASE player_agent_id # NULL /\ agents[player_agent_id] # NULL
    <3>1. /\ player_agent_id \in AgentIds
          /\ agents' = [agents EXCEPT ![player_agent_id].maybe_moving = TRUE]
          /\ players' = players /\ present' = present /\ kind' = kind
          /\ player_id' = player_id /\ player_agent_id' = player_agent_id
      BY <1>11, <2>1 DEF IInv, TypeOK, MoveToCoord
    <3>2. /\ agents'[player_agent_id] \in Agent
          /\ agents'[player_agent_id].player_id = agents[player_agent_id].player_id
      BY <2>1, <3>1 DEF IInv, TypeOK, Agent
    <3>3. agents'[player_agent_id] # NULL
      BY <3>2
    <3> QED
      BY <2>1, <3>1, <3>2, <3>3 DEF IInv, TypeOK, MeNamed
  <2>2. CASE ~(player_agent_id # NULL /\ agents[player_agent_id] # NULL)
    BY <1>11, <2>2 DEF IInv, TypeOK, MeNamed, MoveToCoord
  <2> QED
    BY <2>1, <2>2
<1>12. ASSUME reset_world
      PROVE  MeNamed'
  <2>1. Living(Me) # NULL
    BY DEF Kinds
  <2> QED
    BY <1>12, <2>1 DEF MeNamed, reset_world
<1>13. CASE UNCHANGED vars
  BY <1>13 DEF IInv, MeNamed, vars, clientVars
<1> QED
  BY <1>1, <1>2, <1>3, <1>4, <1>5, <1>6, <1>7, <1>8, <1>9, <1>10, <1>11, <1>12, <1>13 DEF Next

\* Who the client is is copied from its agent, and what is noted of the client is noted of Me.
LEMMA IdentityStep == IInv /\ [Next]_vars => IdentityIsMine'
<1> SUFFICES ASSUME IInv, [Next]_vars PROVE IdentityIsMine'
  OBVIOUS
<1> USE AgentsAssumption
<1>1. ASSUME NEW p \in PlayerIds, NEW a \in AgentIds, HandleUpdatePlayerInfo(p, a)
      PROVE  IdentityIsMine'
  <2>1. PlayerWith(p, a) \in Player /\ PlayerWith(p, a).agent_id = a
        /\ (players[p] # NULL => PlayerWith(p, a).unlocked = players[p].unlocked)
        /\ (players[p] = NULL => ~PlayerWith(p, a).unlocked)
    BY DEF IInv, TypeOK, PlayerWith, Player
  <2>2. /\ players' = [players EXCEPT ![p] = PlayerWith(p, a)]
        /\ kind' = [kind EXCEPT ![a] = Living(p)]
        /\ agents' = [agents EXCEPT ![a] = [EnsuredAgent(a) EXCEPT !.player_id = p]]
        /\ present' = present \cup {p} /\ kind[a] = NULL /\ (p = Me <=> a = MyAgent)
        /\ player_id' = player_id /\ player_agent_id' = player_agent_id
    BY <1>1 DEF HandleUpdatePlayerInfo
  <2>3. agents'[a].player_id = p /\ agents'[a] \in Agent
    BY <2>2, EnsuredIsAgent DEF IInv, TypeOK, Agent
  <2>4. players'[p] = PlayerWith(p, a) /\ players'[p] # NULL
    BY <2>1, <2>2 DEF IInv, TypeOK
  <2> QED
    BY <2>1, <2>2, <2>4 DEF IInv, TypeOK, MeNamed, IdentityIsMine
<1>2. ASSUME NEW p \in PlayerIds, HandleAgentDestroyPlayer(p)
      PROVE  IdentityIsMine'
  BY <1>2 DEF IInv, IdentityIsMine, HandleAgentDestroyPlayer
<1>3. ASSUME HandleAgentSetPlayer
      PROVE  IdentityIsMine'
  <2>1. CASE agents[MyAgent] # NULL
    BY <1>3, <2>1 DEF IInv, TypeOK, MeNamed, IdentityIsMine, HandleAgentSetPlayer
  <2>2. CASE agents[MyAgent] = NULL
    BY <1>3, <2>2 DEF IInv, IdentityIsMine, HandleAgentSetPlayer
  <2> QED
    BY <2>1, <2>2
<1>4. ASSUME NEW a \in AgentIds, HandlePlayerUnlockedProfession(a)
      PROVE  IdentityIsMine'
  <2>1. /\ agents' = agents /\ present' = present /\ kind' = kind
        /\ player_id' = player_id /\ player_agent_id' = player_agent_id
        /\ \A p \in PlayerIds : players'[p] = players[p]
              \/ /\ p = Me /\ players[p] # NULL /\ players'[p] # NULL
                 /\ players'[p].agent_id = players[p].agent_id
    <3>1. CASE player_agent_id = a /\ player_id # NULL
      <4>1. /\ player_id = Me /\ players[Me] # NULL
            /\ players' = [players EXCEPT ![Me].unlocked = TRUE]
        BY <1>4, <3>1 DEF IInv, IdentityIsMine, HandlePlayerUnlockedProfession
      <4>2. players'[Me] \in Player /\ players'[Me].agent_id = players[Me].agent_id
        BY <4>1 DEF IInv, TypeOK, Player
      <4>3. players'[Me] # NULL
        BY <4>2
      <4> QED
        BY <1>4, <4>1, <4>2, <4>3 DEF IInv, TypeOK, HandlePlayerUnlockedProfession
    <3>2. CASE ~(player_agent_id = a /\ player_id # NULL)
      BY <1>4, <3>2 DEF HandlePlayerUnlockedProfession
    <3> QED
      BY <3>1, <3>2
  <2> QED
    BY <2>1 DEF IInv, TypeOK, IdentityIsMine
<1>5. ASSUME NEW a \in AgentIds, NEW k \in Kinds, HandleAgentSpawned(a, k)
      PROVE  IdentityIsMine'
  BY <1>5 DEF IInv, IdentityIsMine, HandleAgentSpawned
<1>6. ASSUME NEW a \in AgentIds, HandleAgentDespawned(a)
      PROVE  IdentityIsMine'
  BY <1>6 DEF IInv, IdentityIsMine, HandleAgentDespawned
<1>7. ASSUME NEW a \in AgentIds, HandleAgentUpdate(a)
      PROVE  IdentityIsMine'
  BY <1>7 DEF IInv, IdentityIsMine, HandleAgentUpdate
<1>8. ASSUME NEW i \in ItemIds, HandleItemGeneralInfo(i)
      PROVE  IdentityIsMine'
  BY <1>8 DEF IInv, IdentityIsMine, HandleItemGeneralInfo
<1>9. ASSUME NEW i \in ItemIds, HandleItemRemove(i)
      PROVE  IdentityIsMine'
  BY <1>9 DEF IInv, IdentityIsMine, HandleItemRemove
<1>10. ASSUME GetMyPlayerId
      PROVE  IdentityIsMine'
  BY <1>10 DEF IInv, IdentityIsMine, GetMyPlayerId
<1>11. ASSUME MoveToCoord
      PROVE  IdentityIsMine'
  BY <1>11 DEF IInv, IdentityIsMine, MoveToCoord
<1>12. ASSUME reset_world
      PROVE  IdentityIsMine'
  BY <1>12 DEF IInv, IdentityIsMine, reset_world
<1>13. CASE UNCHANGED vars
  BY <1>13 DEF IInv, IdentityIsMine, vars, clientVars
<1> QED
  BY <1>1, <1>2, <1>3, <1>4, <1>5, <1>6, <1>7, <1>8, <1>9, <1>10, <1>11, <1>12, <1>13 DEF Next

\* player_count follows the players in the instance: who is announced was not present, who
\* leaves was.
LEMMA CountStep == IInv /\ [Next]_vars => CountsPresent'
<1> SUFFICES ASSUME IInv, [Next]_vars PROVE CountsPresent'
  OBVIOUS
<1> USE AgentsAssumption
<1>1. ASSUME NEW p \in PlayerIds, NEW a \in AgentIds, HandleUpdatePlayerInfo(p, a)
      PROVE  CountsPresent'
  <2>1. IsFiniteSet(present) /\ p \notin present
    BY <1>1, FS_Subset DEF IInv, TypeOK, HandleUpdatePlayerInfo
  <2>2. Cardinality(present \cup {p}) = Cardinality(present) + 1
    BY <2>1, FS_AddElement
  <2> QED
    BY <1>1, <2>2 DEF IInv, CountsPresent, HandleUpdatePlayerInfo, Counted
<1>2. ASSUME NEW p \in PlayerIds, HandleAgentDestroyPlayer(p)
      PROVE  CountsPresent'
  <2>1. IsFiniteSet(present) /\ p \in present
    BY <1>2, FS_Subset DEF IInv, TypeOK, HandleAgentDestroyPlayer
  <2>2. Cardinality(present \ {p}) = Cardinality(present) - 1
    BY <2>1, FS_RemoveElement
  <2> QED
    BY <1>2, <2>2 DEF IInv, CountsPresent, HandleAgentDestroyPlayer
<1>3. ASSUME HandleAgentSetPlayer
      PROVE  CountsPresent'
  BY <1>3 DEF IInv, CountsPresent, HandleAgentSetPlayer
<1>4. ASSUME NEW a \in AgentIds, HandlePlayerUnlockedProfession(a)
      PROVE  CountsPresent'
  BY <1>4 DEF IInv, CountsPresent, HandlePlayerUnlockedProfession
<1>5. ASSUME NEW a \in AgentIds, NEW k \in Kinds, HandleAgentSpawned(a, k)
      PROVE  CountsPresent'
  BY <1>5 DEF IInv, CountsPresent, HandleAgentSpawned
<1>6. ASSUME NEW a \in AgentIds, HandleAgentDespawned(a)
      PROVE  CountsPresent'
  BY <1>6 DEF IInv, CountsPresent, HandleAgentDespawned
<1>7. ASSUME NEW a \in AgentIds, HandleAgentUpdate(a)
      PROVE  CountsPresent'
  BY <1>7 DEF IInv, CountsPresent, HandleAgentUpdate
<1>8. ASSUME NEW i \in ItemIds, HandleItemGeneralInfo(i)
      PROVE  CountsPresent'
  BY <1>8 DEF IInv, CountsPresent, HandleItemGeneralInfo
<1>9. ASSUME NEW i \in ItemIds, HandleItemRemove(i)
      PROVE  CountsPresent'
  BY <1>9 DEF IInv, CountsPresent, HandleItemRemove
<1>10. ASSUME GetMyPlayerId
      PROVE  CountsPresent'
  BY <1>10 DEF IInv, CountsPresent, GetMyPlayerId
<1>11. ASSUME MoveToCoord
      PROVE  CountsPresent'
  BY <1>11 DEF IInv, CountsPresent, MoveToCoord
<1>12. ASSUME reset_world
      PROVE  CountsPresent'
  BY <1>12, FS_EmptySet DEF CountsPresent, reset_world
<1>13. CASE UNCHANGED vars
  BY <1>13 DEF IInv, CountsPresent, vars, clientVars
<1> QED
  BY <1>1, <1>2, <1>3, <1>4, <1>5, <1>6, <1>7, <1>8, <1>9, <1>10, <1>11, <1>12, <1>13 DEF Next

-----------------------------------------------------------------------------
(* Theorems                                                                *)

\* A new world, or one that was reset, has nobody in it.
LEMMA InitInv == Init => IInv
  <1>1. Cardinality({}) = 0
    BY FS_EmptySet
  <1>2. Living(Me) # NULL
    BY AgentsAssumption DEF Kinds
  <1> QED
    BY AgentsAssumption, <1>1, <1>2
    DEF Init, IInv, TypeOK, SpawnedAgree, KindsKnown, ItemsNamed, PlayersNamed, MeNamed,
        IdentityIsMine, CountsPresent

\* Every handler and every call keeps the invariant.
LEMMA StepInv == IInv /\ [Next]_vars => IInv'
  BY TypeStep, SpawnedStep, KindsStep, ItemsStep, PlayersStep, MeStep, IdentityStep, CountStep
  DEF IInv

LEMMA Invariant == Spec => []IInv
  BY InitInv, StepInv, PTL DEF Spec

\* The tables hold records or nothing, and the ids in them are ids the server gives.
THEOREM TypeCorrect == Spec => []TypeOK
<1>1. IInv => TypeOK
  BY DEF IInv
<1> QED
  BY <1>1, Invariant, PTL

\* Whatever the order of announcements, spawns, late updates and despawns, the client shows
\* the agents that the server has spawned, for what it spawned them (HandleAgentSpawned,
\* HandleAgentDespawned, ensure_agent_exist).
THEOREM SpawnedAgrees == Spec => []SpawnedAgree
<1>1. IInv => SpawnedAgree
  BY DEF IInv
<1> QED
  BY <1>1, Invariant, PTL

\* GetAgentOfItem and GetAgentOfPlayer never give an agent that is another thing by now.
THEOREM LinksAreAgreed == Spec => []LinksAgree
  BY NamedLinksAgree, Invariant, PTL

\* player_count is the number of players in the instance.
THEOREM PresentAreCounted == Spec => []CountsPresent
<1>1. IInv => CountsPresent
  BY DEF IInv
<1> QED
  BY <1>1, Invariant, PTL

\* player_is_created only ever makes the client its own player.
THEOREM IdentityIsKept == Spec => []IdentityIsMine
<1>1. IInv => IdentityIsMine
  BY DEF IInv
<1> QED
  BY <1>1, Invariant, PTL
=============================================================================
