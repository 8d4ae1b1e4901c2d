----------------------------- MODULE WorldParts -----------------------------
(***************************************************************************)
(* The parts of the world that no handler and no call reads or writes       *)
(* together: what an NPC shows, the guild, the skill bars, the chat, the    *)
(* friends, the quest log and the trade window (whose module this one       *)
(* extends).  An interleaving of two of them has the states of each one     *)
(* and no others, so a behavior here is one of a single part, which `part'  *)
(* names from the beginning on.                                             *)
(***************************************************************************)
EXTENDS Trade

CONSTANTS
    Npcs, ItemIds, Buttons, Objects, Values, MaxButtons,           \* NpcWindows
    GuildIds, Accounts, Status, Types, MaxMembers,                 \* Guild
    Agents, Player, Skills, Positions, MaxRequests, MaxToggles,    \* Skillbars
    Messages, MaxPieces, MaxTorn,                                  \* Chat
    People, Zones, PlayerStatus, MaxFriends,                       \* Friends
    QuestIds, Places, InitialSize, MaxQuests                       \* QuestLog

\* NULL stands for a pointer that is NULL, and ids and statuses are unsigned, of which 0 is none.
ASSUME WorldAssumption ==
    /\ InitialSize \in Nat
    /\ MaxPieces \in Nat
    /\ NULL \notin [message : Messages, size : 0 .. MaxPieces, sent : 0 .. MaxPieces]
    /\ 0 \notin GuildIds /\ NULL \notin GuildIds \cup {0}
    /\ Positions \subseteq Nat \ {0} /\ 0 \notin Skills
    /\ Player \in Agents /\ NULL \notin Agents
    /\ NULL \notin [Positions -> [skill_id : Skills \cup {0}, casting : BOOLEAN,
                                  casting_confirmed : BOOLEAN, recharging : BOOLEAN,
                                  disable : BOOLEAN]]
    /\ PlayerStatus \subseteq Nat /\ NULL \notin People
    /\ Values \subseteq Nat /\ NULL \notin Objects \cup Npcs
    /\ NULL \notin [item_id : ItemIds, value : Values \cup {0}]
    /\ NULL \notin {"_array_push", "complete_guildmember_update", "assert(sb)",
                    "target->agent_id"}

VARIABLES
    part,
    items, heap, merchant_items, tmp_merchant_items, tmp_merchant_prices, merchant_agent_id,
    dialog, position, window, talk, answered, worth, far_quote,          \* NpcWindows
    guilds, player, guild_member_update, home, update,                   \* Guild
    bars, server, toggles, bitmap,                                       \* Skillbars
    subscribed, secured, str_builder, sending, torn, told,               \* Chat
    friends, friends_told,                                               \* Friends
    quests, given, lost_quest,                                           \* QuestLog
    ended                                         \* of Guild, Skillbars and Chat: the process

\* The server removes no item that stands in a window.
NW == INSTANCE NpcWindows WITH RemovesListed <- FALSE

GU == INSTANCE Guild WITH aborted <- ended

SB == INSTANCE Skillbars WITH aborted <- ended

CH == INSTANCE Chat WITH aborted <- ended

\* The server says who is a friend before anything else.
FR == INSTANCE Friends WITH InfoFirst <- TRUE, MaxEntries <- MaxFriends, told <- friends_told

QL == INSTANCE QuestLog WITH MaxEntries <- MaxQuests, aborted <- lost_quest

tradeVars == <<session, calling, deal, toServer, toClient, aborted>>
npcVars == <<items, heap, merchant_items, tmp_merchant_items, tmp_merchant_prices,
             merchant_agent_id, dialog, position, window, talk, answered, worth, far_quote>>
guildVars == <<guilds, player, guild_member_update, home, update>>
skillVars == <<bars, server, toggles, bitmap>>
chatVars == <<subscribed, secured, str_builder, sending, torn, told>>
friendVars == <<friends, friends_told>>
questVars == <<quests, given, lost_quest>>

worldVars == <<part, tradeVars, npcVars, guildVars, skillVars, chatVars, friendVars, questVars,
               ended>>

WorldInit ==
    /\ part \in {"trade", "npc", "guild", "skills", "chat", "friends", "quests"}
    /\ Init /\ NW!Init /\ GU!Init /\ SB!Init /\ CH!Init /\ FR!Init /\ QL!Init

OnlySkillbars(Step) ==
    /\ part = "skills" /\ Step
    /\ UNCHANGED <<part, tradeVars, npcVars, guildVars, chatVars, friendVars, questVars>>

WorldNext ==
    \/ /\ part = "trade" /\ Next
       /\ UNCHANGED <<part, npcVars, guildVars, skillVars, chatVars, friendVars, questVars, ended>>
    \/ /\ part = "npc" /\ NW!Next
       /\ UNCHANGED <<part, tradeVars, guildVars, skillVars, chatVars, friendVars, questVars, ended>>
    \/ /\ part = "guild" /\ GU!Next
       /\ UNCHANGED <<part, tradeVars, npcVars, skillVars, chatVars, friendVars, questVars>>
    \/ OnlySkillbars(SB!Next)
    \/ /\ part = "chat" /\ CH!Next
       /\ UNCHANGED <<part, tradeVars, npcVars, guildVars, skillVars, friendVars, questVars>>
    \/ /\ part = "friends" /\ FR!Next
       /\ UNCHANGED <<part, tradeVars, npcVars, guildVars, skillVars, chatVars, questVars, ended>>
    \/ /\ part = "quests" /\ QL!Next
       /\ UNCHANGED <<part, tradeVars, npcVars, guildVars, skillVars, chatVars, friendVars, ended>>

\* The fairness of Skillbars: the server ends every cast and answers every request.
WorldSpec ==
    /\ WorldInit /\ [][WorldNext]_worldVars
    /\ \A a \in Agents, s \in Skills : WF_worldVars(OnlySkillbars(SB!HandleSkillActivated(a, s)))

-----------------------------------------------------------------------------
(* Properties                                                              *)

\* What plugins read of a part is what the server has told of it, in however many packets
\* and however often it was cut off or told again: the window and the dialog of the NPC
\* (HandleMerchantReady, HandleDialogButton), the members of the player's guild and their
\* updates (HandleGuildPlayerRole, complete_guildmember_update), the skills and what a hero
\* may not use (HandleSkillbarUpdateSkill, HandleHeroSkillStatusBitmap), the message that
\* was ended (HandleChatMessageLocal), and the friends (get_or_create_friend).  Of a quest
\* only this is left: its id never points in front of it (HandleQuestRemove).
ReadIsTold ==
    /\ NW!MerchantItemsAreOfTheWindow /\ NW!PricesAreTheItems /\ NW!OpenDialogIsTheServers
    /\ GU!UpdateIsWhole /\ GU!RosterIsOfMyGuild
    /\ SB!ShownIsTheServers /\ SB!DisabledIsTheServers
    /\ CH!MessageIsWhole
    /\ FR!FriendsAreAsTold
    /\ QL!IdNotBeforeIndex

\* The loop of use_skill_wait ends: no skill is cast for ever (skillbar_done_cast).
CastEnds == SB!CastEnds
=============================================================================
