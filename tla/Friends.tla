------------------------------ MODULE Friends ------------------------------
(***************************************************************************)
(* The list of friends (code/client/friend.c), which the auth server tells *)
(* about in three packets: who is a friend, found by uuid or by name, who  *)
(* is online, found by uuid, and where, found by name.  Whichever comes    *)
(* first makes the entry.                                                  *)
(*                                                                         *)
(* The auth server (external) keeps `told', what it has last said of whom.  *)
(*                                                                         *)
(* Left out: the type of a friend, the event of a change, and names that    *)
(* are at once one friend's account and another one's character.            *)
(***************************************************************************)
EXTENDS Integers, SequencesExt

CONSTANTS
    People,         \* a friend's uuid, account, and character all go by this name
    Zones,          \* numbers that are not 0
    PlayerStatus,   \* 0 is offline
    InfoFirst,      \* BOOLEAN: the server says who is a friend before anything else
    MaxEntries,     \* bound on the list
    NULL

VARIABLES friends, told

vars == <<friends, told>>

\* init_friend, and the uuid of memory that is zeroed.
NewFriend == [uuid |-> NULL, account |-> NULL, name |-> NULL, status |-> 0, zone |-> 0]

Untold == [known |-> FALSE, online |-> FALSE, status |-> 0, zone |-> 0]

Init ==
    /\ friends = <<>>
    /\ told = [p \in People |-> Untold]

-----------------------------------------------------------------------------
(* Entries.                                                                *)

FirstOf(hits) == CHOOSE n \in hits : \A m \in hits : n <= m

\* get_friend: first by uuid, then by the character or the account.
get_friend(uuid, name) ==
    LET byUuid == {n \in DOMAIN friends : uuid # NULL /\ friends[n].uuid = uuid}
        byName == {n \in DOMAIN friends : name # NULL /\ name \in {friends[n].name, friends[n].account}}
    IN  IF byUuid # {} THEN FirstOf(byUuid)
        ELSE IF byName # {} THEN FirstOf(byName)
        ELSE 0

\* Mutant: the entry is only looked up by its name.
CreateUnlessNamed(uuid, name) ==
    IF get_friend(NULL, name) # 0
    THEN [at |-> get_friend(NULL, name), list |-> friends]
    ELSE [at |-> Len(friends) + 1, list |-> Append(friends, NewFriend)]

\* get_or_create_friend: the entry, and the list that has it.
get_or_create_friend(uuid, name) ==
    IF get_friend(uuid, name) # 0
    THEN [at |-> get_friend(uuid, name), list |-> friends]
    ELSE [at |-> Len(friends) + 1, list |-> Append(friends, NewFriend)]

Offline(friend) == [friend EXCEPT !.status = 0, !.name = NULL, !.zone = 0]

-----------------------------------------------------------------------------
(* Packets of the auth server.                                             *)

\* The status of the packet is not read: what resets the entry is its own.
HandleFriendUpdateInfo(p) ==
    LET found == get_or_create_friend(p, p)
        named == [found.list[found.at] EXCEPT !.uuid = p, !.account = p]
    IN  /\ Len(found.list) <= MaxEntries
        /\ friends' = [found.list EXCEPT ![found.at] =
                          IF named.status < 1 THEN Offline(named) ELSE named]
        /\ told' = [told EXCEPT ![p].known = TRUE]

\* Mutant: who goes offline keeps the zone.
StatusKeepsZone(p, status) ==
    LET found == get_or_create_friend(p, NULL)
    IN  /\ InfoFirst => told[p].known
        /\ Len(found.list) <= MaxEntries
        /\ friends' = [found.list EXCEPT ![found.at] =
                          IF status < 1 THEN [@ EXCEPT !.status = 0, !.name = NULL]
                          ELSE [@ EXCEPT !.status = status, !.name = p]]
        /\ told' = [told EXCEPT ![p] = [known |-> @.known, online |-> status # 0, status |-> status,
                                        zone |-> IF status = 0 THEN 0 ELSE @.zone]]

HandleFriendUpdateStatus(p, status) ==
    LET found == get_or_create_friend(p, NULL)
    IN  /\ InfoFirst => told[p].known
        /\ Len(found.list) <= MaxEntries
        /\ friends' = [found.list EXCEPT ![found.at] =
                          IF status < 1 THEN Offline(@)
                          ELSE [@ EXCEPT !.status = status, !.name = p]]
        /\ told' = [told EXCEPT ![p] = [known |-> @.known, online |-> status # 0, status |-> status,
                                        zone |-> IF status = 0 THEN 0 ELSE @.zone]]

\* The server says where somebody is who is online.
HandleFriendUpdateLocation(p, zone) ==
    LET found == get_or_create_friend(NULL, p)
    IN  /\ told[p].online
        /\ InfoFirst => told[p].known
        /\ Len(found.list) <= MaxEntries
        /\ friends' = [found.list EXCEPT ![found.at].zone = zone]
        /\ told' = [told EXCEPT ![p].zone = zone]

Next ==
    \E p \in People :
        \/ HandleFriendUpdateInfo(p)
        \/ \E s \in PlayerStatus : HandleFriendUpdateStatus(p, s)
        \/ \E z \in Zones : HandleFriendUpdateLocation(p, z)

Spec == Init /\ [][Next]_vars

-----------------------------------------------------------------------------
(* Properties                                                              *)

\* What GetFriends gives is what the server has last said of each friend: one entry,
\* with the status and the zone, however the packets about several friends mix.  With
\* InfoFirst FALSE it is not true of the code: a status that comes before the friend is
\* known makes an entry without a uuid, which no later packet finds again.
FriendsAreAsTold ==
    \A p \in People : told[p].known =>
        {[status |-> f.status, zone |-> f.zone, account |-> f.account]
            : f \in {g \in ToSet(friends) : p \in {g.uuid, g.account, g.name}}}
          = {[status |-> told[p].status, zone |-> told[p].zone, account |-> p]}
        /\ \A m, n \in DOMAIN friends : friends[m].uuid = p /\ friends[n].uuid = p => m = n
=============================================================================
