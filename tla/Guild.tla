------------------------------- MODULE Guild -------------------------------
(***************************************************************************)
(* Guilds (code/client/guild.c): the table of guilds, the guild of the     *)
(* client's player, its members, and the update of a member, which comes   *)
(* in two packets: what has changed is kept in world->guild_member_update, *)
(* and GAME_SMSG_GUILD_PLAYER_CHANGE_COMPLETE says whose it is.            *)
(*                                                                         *)
(* The game server (external) keeps `home', the guild of this player with  *)
(* the accounts it has told of, and `update', the one it is in the middle  *)
(* of.                                                                     *)
(*                                                                         *)
(* Left out: tags, names, factions, the time of the last login, invitations *)
(* (a log), and the name of a member's character.                          *)
(***************************************************************************)
EXTENDS Integers, SequencesExt

CONSTANTS
    GuildIds,      \* ids that are not 0
    Accounts,
    Status, Types, \* numbers; 0 is offline, and no type
    NULL,
    MaxMembers     \* bound on the members the server tells of, at most ARRAY_MIN_CAPACITY

ARRAY_MIN_CAPACITY == 8

VARIABLES
    guilds,      \* world->guilds, of which entry 0 is one: guild_id, members, capacity
    player,      \* guild_id of the client's player; NULL: not created
    guild_member_update,
    home, update,
    aborted      \* the function whose assert ended the process, or NULL

vars == <<guilds, player, guild_member_update, home, update, aborted>>

Indices == GuildIds \cup {0}
NoGuild == [guild_id |-> 0, members |-> <<>>, capacity |-> 0]
Complete == [what |-> "none", to |-> 0]
NoUpdate == [pending |-> FALSE, status |-> 0, member_type |-> 0]
Homeless == [guild_id |-> NULL, told |-> {}, inviters |-> {}]

Alive == aborted = NULL

\* init_world
Init ==
    /\ guilds = [g \in Indices |-> NoGuild]
    /\ player = NULL
    /\ guild_member_update = NoUpdate
    /\ home = Homeless /\ update = Complete
    /\ aborted = NULL

HandleUpdatePlayerInfo ==
    /\ Alive /\ player = NULL
    /\ player' = 0
    /\ UNCHANGED <<guilds, guild_member_update, home, update, aborted>>

-----------------------------------------------------------------------------
(* Guilds and members.                                                     *)

\* init_guild sets the capacity of the members to 0 and leaves their number.
HandleGuildGeneralInfo(g) ==
    /\ Alive /\ update = Complete
    /\ guilds' = [guilds EXCEPT ![g].guild_id = g, ![g].capacity = 0]
    /\ UNCHANGED <<player, guild_member_update, home, update, aborted>>

\* Mutant: the guild keeps the members it had.
RoleKeepsMembers(g) ==
    /\ Alive /\ player # NULL /\ update = Complete
    /\ player' = guilds[g].guild_id
    /\ home' = [guild_id |-> g, told |-> {}, inviters |-> {}]
    /\ UNCHANGED <<guilds, guild_member_update, update, aborted>>

\* The player gets the id of the entry, which is 0 before the guild is described.  The
\* server tells the role after it has announced the player (guild.c:141 logs the other
\* order, and the guild stays unknown).
HandleGuildPlayerRole(g) ==
    /\ Alive /\ player # NULL /\ update = Complete
    /\ guilds' = [guilds EXCEPT ![g].members = <<>>, ![g].capacity = 0]
    /\ player' = guilds[g].guild_id
    /\ home' = [guild_id |-> g, told |-> {}, inviters |-> {}]
    /\ UNCHANGED <<guild_member_update, update, aborted>>

\* get_player_guild_safe: a player without a guild finds the entry 0, whose id is 0.
MyIndex == player

PositionOf(account) ==
    LET hits == {n \in DOMAIN guilds[MyIndex].members : guilds[MyIndex].members[n].account_name = account}
    IN IF hits = {} THEN 0 ELSE CHOOSE n \in hits : \A m \in hits : n <= m

\* _array_push: capacity - size wraps around when size is the larger one, the memory seems
\* to suffice, and the assert after it fails.
CanPush(g) == Len(g.members) <= g.capacity

\* A member is looked up, and added, under the name of who has invited it.
HandleGuildPlayerInfo(account, invited_by, status, type) ==
    /\ Alive /\ home.guild_id # NULL /\ update = Complete
    /\ Cardinality(home.told) < MaxMembers /\ account \notin home.told
    /\ home' = [home EXCEPT !.told = @ \cup {account}, !.inviters = @ \cup {invited_by}]
    /\ UNCHANGED <<player, guild_member_update, update>>
    /\ LET member == [account_name |-> invited_by, status |-> status, member_type |-> type]
           n == PositionOf(invited_by)
       IN  IF n # 0
           THEN /\ guilds' = [guilds EXCEPT ![MyIndex].members[n] = member]
                /\ UNCHANGED aborted
           ELSE IF CanPush(guilds[MyIndex])
           THEN /\ guilds' = [guilds EXCEPT ![MyIndex].members = Append(@, member),
                                            ![MyIndex].capacity = ARRAY_MIN_CAPACITY]
                /\ UNCHANGED aborted
           ELSE aborted' = "_array_push" /\ UNCHANGED guilds

-----------------------------------------------------------------------------
(* The update of a member.                                                 *)

HandleGuildChangePlayerStatus(status) ==
    /\ Alive /\ home.told # {} /\ update = Complete
    /\ guild_member_update' = [guild_member_update EXCEPT !.status = status, !.pending = TRUE]
    /\ update' = [what |-> "status", to |-> status]
    /\ UNCHANGED <<guilds, player, home, aborted>>

HandleGuildChangePlayerType(type) ==
    /\ Alive /\ home.told # {} /\ update = Complete
    /\ guild_member_update' = [guild_member_update EXCEPT !.member_type = type, !.pending = TRUE]
    /\ update' = [what |-> "type", to |-> type]
    /\ UNCHANGED <<guilds, player, home, aborted>>

\* "Not used atm" (guild.c:212): nothing is kept, and the second packet comes none the less.
HandleGuildChangePlayerContext ==
    /\ Alive /\ home.told # {} /\ update = Complete
    /\ update' = [what |-> "context", to |-> 0]
    /\ UNCHANGED <<guilds, player, guild_member_update, home, aborted>>

\* complete_guildmember_update: what has not changed is 0, and both fields, which are
\* unsigned, pass for changed.
Updated(member) ==
    [member EXCEPT !.status = guild_member_update.status,
                   !.member_type = guild_member_update.member_type]

\* Mutant: the update is kept when no member has that name.
CompleteKeepsUnused(account) ==
    /\ Alive /\ update # Complete /\ account \in home.told
    /\ update' = Complete
    /\ UNCHANGED <<player, home>>
    /\ IF guild_member_update.pending
       THEN LET n == PositionOf(account)
            IN  /\ guilds' = IF n = 0 THEN guilds
                             ELSE [guilds EXCEPT ![MyIndex].members[n] = Updated(@)]
                /\ guild_member_update' = IF n = 0 THEN guild_member_update ELSE NoUpdate
                /\ UNCHANGED aborted
       ELSE /\ aborted' = "complete_guildmember_update"
            /\ UNCHANGED <<guilds, guild_member_update>>

HandleGuildPlayerChangeComplete(account) ==
    /\ Alive /\ update # Complete /\ account \in home.told
    /\ update' = Complete
    /\ UNCHANGED <<player, home>>
    /\ IF guild_member_update.pending
       THEN LET n == PositionOf(account)
            IN  /\ guilds' = IF n = 0 THEN guilds
                             ELSE [guilds EXCEPT ![MyIndex].members[n] = Updated(@)]
                /\ guild_member_update' = NoUpdate
                /\ UNCHANGED aborted
       ELSE /\ aborted' = "complete_guildmember_update"
            /\ UNCHANGED <<guilds, guild_member_update>>

ResetWorld ==
    /\ Alive
    /\ guilds' = [g \in Indices |-> NoGuild]
    /\ player' = NULL
    /\ guild_member_update' = NoUpdate
    /\ home' = Homeless /\ update' = Complete
    /\ UNCHANGED aborted

Next ==
    \/ HandleUpdatePlayerInfo
    \/ \E g \in GuildIds : HandleGuildGeneralInfo(g) \/ HandleGuildPlayerRole(g)
    \/ \E a, b \in Accounts, s \in Status, t \in Types : HandleGuildPlayerInfo(a, b, s, t)
    \/ \E s \in Status : HandleGuildChangePlayerStatus(s)
    \/ \E t \in Types : HandleGuildChangePlayerType(t)
    \/ HandleGuildChangePlayerContext
    \/ \E a \in Accounts : HandleGuildPlayerChangeComplete(a)
    \/ ResetWorld

Spec == Init /\ [][Next]_vars

-----------------------------------------------------------------------------
(* What plugins read.                                                      *)

GetMyGuildId == IF player = NULL THEN 0 ELSE player

GetGuildMembers == IF GetMyGuildId = 0 THEN <<>> ELSE guilds[GetMyGuildId].members

-----------------------------------------------------------------------------
(* Properties                                                              *)

\* Nothing of an update is left for the next one: outside of an update nothing is pending,
\* and inside of one exactly what its first packet said is, whoever it was about and
\* whether or not that member was found.
UpdateIsWhole ==
    Alive => guild_member_update =
        IF update.what \in {"none", "context"} THEN NoUpdate
        ELSE IF update.what = "status" THEN [NoUpdate EXCEPT !.pending = TRUE, !.status = update.to]
        ELSE [NoUpdate EXCEPT !.pending = TRUE, !.member_type = update.to]

\* The guild and the members a plugin reads are those of the guild the player is in now:
\* an entry that was the player's guild before, or is described again, brings back no
\* member.  The members go by the names of those who have invited them.
RosterIsOfMyGuild ==
    Alive /\ GetMyGuildId # 0 =>
        /\ GetMyGuildId = home.guild_id
        /\ {m.account_name : m \in ToSet(GetGuildMembers)} = home.inviters

\* guild.c:225 says of GAME_SMSG_GUILD_PLAYER_CHANGE_COMPLETE that it "Follows
\* GAME_SMSG_GUILD_PLAYER_CHANGE_CONTEXT or GAME_SMSG_GUILD_PLAYER_CHANGE_STATUS", and
\* guild.c:58 asserts that an update is pending.
CompletedIsPending == aborted # "complete_guildmember_update"

\* Not true of the code: the members are known by their accounts.  guild.c:277 reads
\* `invited_by' where the packet has account_name.
RosterIsOfAccounts ==
    Alive /\ GetMyGuildId # 0 => {m.account_name : m \in ToSet(GetGuildMembers)} = home.told

\* Not true of the code: a guild that is described again can get more members.
MembersFit == aborted # "_array_push"

\* Not true of the code: a promotion keeps a member's status.  Both fields of the update
\* are unsigned and reset to 0, so `gmu->status >= 0' and `gmu->member_type >= 0' are true.
PromotionKeepsStatus ==
    [][home' = home /\ update.what = "type" /\ update' = Complete =>
          \A n \in DOMAIN GetGuildMembers :
              GetGuildMembers'[n].status = GetGuildMembers[n].status]_vars
=============================================================================
