----------------------------- MODULE PartyProofs -----------------------------
(***************************************************************************)
(* Proofs about Party, for any number of players, parties and heroes.      *)
(***************************************************************************)
EXTENDS Party, SequenceTheorems, TLAPS

\* Nobody is twice in a list: the server seats who is not seated, and gives a hero once.
NobodyTwice ==
    \A q \in PartyIds :
        /\ \A i, j \in DOMAIN seats[q] : seats[q][i] = seats[q][j] => i = j
        /\ \A i, j \in DOMAIN escort[q] : escort[q][i] = escort[q][j] => i = j

IInv ==
    /\ TypeOK
    /\ NobodyTwice
    /\ RosterAgrees
    /\ PartyOfAgrees

-----------------------------------------------------------------------------
(* Lists                                                                   *)

NoDouble(s) == \A i, j \in DOMAIN s : s[i] = s[j] => i = j

\* Removing a position: those in front of it stay, those behind it move up by one.
LEMMA RemoveAtIs ==
    ASSUME NEW S, NEW s \in Seq(S), NEW i \in DOMAIN s
    PROVE  /\ RemoveAt(s, i) \in Seq(S)
           /\ Len(RemoveAt(s, i)) = Len(s) - 1
           /\ \A j \in 1 .. Len(s) - 1 : RemoveAt(s, i)[j] = IF j < i THEN s[j] ELSE s[j + 1]
<1> DEFINE n == Len(s)
           front == SubSeq(s, 1, i - 1)
           back == SubSeq(s, i + 1, n)
<1>1. n \in Nat /\ i \in 1 .. n
  OBVIOUS
<1>2. /\ front \in Seq(S) /\ Len(front) = i - 1
      /\ \A j \in 1 .. i - 1 : front[j] = s[j]
  BY <1>1
<1>3. /\ back \in Seq(S) /\ Len(back) = n - i
      /\ \A j \in 1 .. n - i : back[j] = s[i + j]
  BY <1>1
<1>4. RemoveAt(s, i) = front \o back
  BY DEF RemoveAt
<1> HIDE DEF front, back, n
<1>5. /\ front \o back \in Seq(S) /\ Len(front \o back) = n - 1
      /\ \A j \in 1 .. n - 1 :
            (front \o back)[j] = IF j <= i - 1 THEN front[j] ELSE back[j - (i - 1)]
  <2>1. i - 1 + (n - i) = n - 1
    BY <1>1
  <2> QED
    BY <1>2, <1>3, <2>1, ConcatProperties
<1>6. ASSUME NEW j \in 1 .. n - 1
      PROVE  (front \o back)[j] = IF j < i THEN s[j] ELSE s[j + 1]
  <2>1. CASE j < i
    BY <1>1, <1>2, <1>5, <2>1
  <2>2. CASE ~(j < i)
    <3>1. PICK k \in 1 .. n - i : k = j - (i - 1) /\ i + k = j + 1
      <4>1. j - (i - 1) \in 1 .. n - i /\ i + (j - (i - 1)) = j + 1
        BY <1>1, <2>2
      <4> QED
        BY <4>1
    <3>2. ~(j <= i - 1)
      BY <1>1, <2>2
    <3>3. (front \o back)[j] = back[k]
      BY <1>5, <3>1, <3>2
    <3> QED
      BY <1>3, <2>2, <3>1, <3>3
  <2> QED
    BY <2>1, <2>2
<1> QED
  BY <1>4, <1>5, <1>6 DEF n

\* Removing from, and appending to, a list without repetitions.
LEMMA RemoveFromSet ==
    ASSUME NEW S, NEW s \in Seq(S), NoDouble(s), NEW i \in DOMAIN s
    PROVE  NoDouble(RemoveAt(s, i)) /\ ToSet(RemoveAt(s, i)) = ToSet(s) \ {s[i]}
<1>1. PICK t \in Seq(S) :
        /\ t = RemoveAt(s, i)
        /\ Len(t) = Len(s) - 1
        /\ \A j \in 1 .. Len(s) - 1 : t[j] = IF j < i THEN s[j] ELSE s[j + 1]
  BY RemoveAtIs
<1>2. Len(s) \in Nat /\ DOMAIN s = 1 .. Len(s) /\ DOMAIN t = 1 .. Len(s) - 1
  BY <1>1
<1>3. \A j \in DOMAIN t : /\ (IF j < i THEN j ELSE j + 1) \in DOMAIN s
                          /\ (IF j < i THEN j ELSE j + 1) # i
                          /\ t[j] = s[IF j < i THEN j ELSE j + 1]
  BY <1>1, <1>2
<1>4. NoDouble(t)
  <2> SUFFICES ASSUME NEW j \in DOMAIN t, NEW k \in DOMAIN t, t[j] = t[k] PROVE j = k
    BY DEF NoDouble
  <2>1. (IF j < i THEN j ELSE j + 1) = (IF k < i THEN k ELSE k + 1)
    BY <1>3 DEF NoDouble
  <2> QED
    BY <1>2, <2>1
<1>5. ToSet(t) \subseteq ToSet(s) \ {s[i]}
  <2> SUFFICES ASSUME NEW j \in DOMAIN t PROVE t[j] \in ToSet(s) \ {s[i]}
    BY DEF ToSet
  <2> QED
    BY <1>3 DEF NoDouble, ToSet
<1>6. ToSet(s) \ {s[i]} \subseteq ToSet(t)
  <2> SUFFICES ASSUME NEW k \in DOMAIN s, s[k] # s[i] PROVE \E j \in DOMAIN t : t[j] = s[k]
    BY DEF ToSet
  <2>1. CASE k < i
    BY <1>1, <1>2, <2>1
  <2>2. CASE ~(k < i)
    <3>1. k - 1 \in DOMAIN t /\ ~(k - 1 < i) /\ (k - 1) + 1 = k
      BY <1>2, <2>2
    <3>2. t[k - 1] = s[k]
      BY <1>1, <1>2, <3>1
    <3> QED
      BY <3>1, <3>2
  <2> QED
    BY <2>1, <2>2
<1> QED
  BY <1>1, <1>4, <1>5, <1>6

LEMMA AppendToSet ==
    ASSUME NEW S, NEW s \in Seq(S), NoDouble(s), NEW x \in S, x \notin ToSet(s)
    PROVE  /\ Append(s, x) \in Seq(S) /\ Len(Append(s, x)) = Len(s) + 1
           /\ NoDouble(Append(s, x))
           /\ ToSet(Append(s, x)) = ToSet(s) \cup {x}
<1>1. PICK t \in Seq(S) :
        /\ t = Append(s, x)
        /\ Len(t) = Len(s) + 1
        /\ t[Len(s) + 1] = x
        /\ \A j \in 1 .. Len(s) : t[j] = s[j]
  <2>1. /\ Append(s, x) \in Seq(S)
        /\ Len(Append(s, x)) = Len(s) + 1
        /\ Append(s, x)[Len(s) + 1] = x
        /\ \A j \in 1 .. Len(s) : Append(s, x)[j] = s[j]
    BY AppendProperties
  <2> QED
    BY <2>1, Zenon
<1>2. /\ Len(s) \in Nat /\ DOMAIN s = 1 .. Len(s)
      /\ DOMAIN t = DOMAIN s \cup {Len(s) + 1}
      /\ Len(s) + 1 \notin DOMAIN s
  BY <1>1
<1>3. \A j \in DOMAIN s : s[j] # x
  BY DEF ToSet
<1>4. NoDouble(t)
  BY <1>1, <1>2, <1>3 DEF NoDouble
<1>5. ToSet(t) = ToSet(s) \cup {x}
  BY <1>1, <1>2 DEF ToSet
<1> QED
  BY <1>1, <1>4, <1>5

\* The search of a handler finds the only position, and array_remove_ordered removes it; what
\* is not in the list is not found, and nothing is removed.
Found(s, x) == FirstOf({i \in DOMAIN s : s[i] = x}, s)

LEMMA RemovedIs ==
    ASSUME NEW S, NEW s \in Seq(S), NoDouble(s), NEW x
    PROVE  /\ \A i \in DOMAIN s : s[i] = x => RemovedAt(s, Found(s, x)) = RemoveAt(s, i)
           /\ x \notin ToSet(s) => RemovedAt(s, Found(s, x)) = s
<1>1. Len(s) \in Nat /\ DOMAIN s = 1 .. Len(s)
  OBVIOUS
<1>2. ASSUME NEW i \in DOMAIN s, s[i] = x
      PROVE  RemovedAt(s, Found(s, x)) = RemoveAt(s, i)
  <2>1. {k \in DOMAIN s : s[k] = x} = {i}
    BY <1>2 DEF NoDouble
  <2>2. Found(s, x) = CHOOSE k \in {i} : \A j \in {i} : k <= j
    BY <2>1 DEF Found, FirstOf
  <2>3. \E k \in {i} : \A j \in {i} : k <= j
    BY <1>1
  <2>4. Found(s, x) \in {i}
    BY <2>2, <2>3, Zenon
  <2> QED
    BY <1>1, <2>4 DEF RemovedAt
<1>3. ASSUME x \notin ToSet(s)
      PROVE  RemovedAt(s, Found(s, x)) = s
  <2>1. {k \in DOMAIN s : s[k] = x} = {}
    BY <1>3 DEF ToSet
  <2>2. Found(s, x) = Len(s) + 1
    BY <2>1 DEF Found, FirstOf
  <2> QED
    BY <1>1, <2>2 DEF RemovedAt
<1> QED
  BY <1>2, <1>3

-----------------------------------------------------------------------------
(* The handlers                                                            *)

\* Another list of players with its count in an entry.
PlayersNow(q, players, count) ==
    [parties EXCEPT ![q] = [parties[q] EXCEPT !.players = players, !.player_count = count]]

LEMMA PlayersNowIs ==
    ASSUME TypeOK, NEW q \in PartyIds, NEW players \in Seq(PlayerIds), NEW count \in Int
    PROVE  LET now == PlayersNow(q, players, count) IN
           /\ now \in [PartyIds -> Party]
           /\ now[q].players = players /\ now[q].player_count = count
           /\ now[q].heroes = parties[q].heroes
           /\ now[q].party_id = parties[q].party_id
           /\ \A r \in PartyIds \ {q} : now[r] = parties[r]
<1> DEFINE entry == [parties[q] EXCEPT !.players = players, !.player_count = count]
<1>1. parties \in [PartyIds -> Party]
  BY DEF TypeOK
<1>2. /\ entry \in Party
      /\ entry.players = players /\ entry.player_count = count
      /\ entry.heroes = parties[q].heroes /\ entry.party_id = parties[q].party_id
  BY <1>1 DEF Party
<1>3. PlayersNow(q, players, count) = [parties EXCEPT ![q] = entry]
  BY DEF PlayersNow
<1> HIDE DEF entry
<1> QED
  BY <1>1, <1>2, <1>3

\* Another list of heroes.
HeroesNow(q, heroes) == [parties EXCEPT ![q] = [parties[q] EXCEPT !.heroes = heroes]]

LEMMA HeroesNowIs ==
    ASSUME TypeOK, NEW q \in PartyIds, NEW heroes \in Seq(HeroAgents)
    PROVE  LET now == HeroesNow(q, heroes) IN
           /\ now \in [PartyIds -> Party]
           /\ now[q].heroes = heroes
           /\ now[q].players = parties[q].players
           /\ now[q].player_count = parties[q].player_count
           /\ now[q].party_id = parties[q].party_id
           /\ \A r \in PartyIds \ {q} : now[r] = parties[r]
<1> DEFINE entry == [parties[q] EXCEPT !.heroes = heroes]
<1>1. parties \in [PartyIds -> Party]
  BY DEF TypeOK
<1>2. /\ entry \in Party
      /\ entry.heroes = heroes /\ entry.players = parties[q].players
      /\ entry.player_count = parties[q].player_count /\ entry.party_id = parties[q].party_id
  BY <1>1 DEF Party
<1>3. HeroesNow(q, heroes) = [parties EXCEPT ![q] = entry]
  BY DEF HeroesNow
<1> HIDE DEF entry
<1> QED
  BY <1>1, <1>2, <1>3

\* The entries show the server's lists, with their lengths.
Shown(ps, ss, es) ==
    \A q \in PartyIds :
        ps[q].players = ss[q] /\ ps[q].heroes = es[q] /\ ps[q].player_count = Len(ss[q])

LEMMA RosterIsShown == RosterAgrees <=> Shown(parties, seats, escort)
  BY DEF RosterAgrees, Shown, GetPlayersOfParty, HeroesOfParty, GetPartySize

LEMMA RosterIsShownNext == RosterAgrees' <=> Shown(parties', seats', escort')
  BY DEF RosterAgrees, Shown, GetPlayersOfParty, HeroesOfParty, GetPartySize

\* Whoever is seated names his party, and nobody else does.
LEMMA SeatedNameTheirs ==
    ASSUME IInv
    PROVE  \A p \in PlayerIds, q \in PartyIds : party_id[p] = q <=> p \in ToSet(seats[q])
  BY RosterIsShown DEF IInv, PartyOfAgrees, Shown, GetPlayersOfParty

\* Every packet keeps the lists, the counts and the parties of the players together.
LEMMA StepInv == IInv /\ [Next]_vars => IInv'
<1> SUFFICES ASSUME IInv, [Next]_vars PROVE IInv'
  OBVIOUS
<1> USE PartyAssumption
<1>1. TypeOK /\ Shown(parties, seats, escort)
  BY RosterIsShown DEF IInv
<1>2. \A q \in PartyIds :
         /\ seats[q] \in Seq(PlayerIds) /\ escort[q] \in Seq(HeroAgents)
         /\ NoDouble(seats[q]) /\ NoDouble(escort[q])
  BY DEF IInv, TypeOK, NobodyTwice, NoDouble
<1>3. ASSUME parties' \in [PartyIds -> Party],
             \A q \in PartyIds : parties'[q].party_id = IF q \in created' THEN q ELSE NULL,
             known' \subseteq PlayerIds, created' \subseteq PartyIds,
             party_id' \in [PlayerIds -> PartyIds \cup {NULL}],
             seats' \in [PartyIds -> Seq(PlayerIds)], escort' \in [PartyIds -> Seq(HeroAgents)],
             \A q \in PartyIds : NoDouble(seats'[q]) /\ NoDouble(escort'[q]),
             Shown(parties', seats', escort'),
             \A p \in PlayerIds, q \in PartyIds : party_id'[p] = q <=> p \in ToSet(seats'[q])
      PROVE  IInv'
  <2>1. TypeOK' /\ NobodyTwice'
    BY <1>3 DEF TypeOK, NobodyTwice, NoDouble
  <2>2. RosterAgrees'
    BY <1>3, RosterIsShownNext
  <2>3. PartyOfAgrees'
    BY <1>3 DEF PartyOfAgrees, Shown, GetPlayersOfParty
  <2> QED
    BY <2>1, <2>2, <2>3 DEF IInv
<1>4. ASSUME NEW p \in PlayerIds, HandleUpdatePlayerInfo(p)
      PROVE  IInv'
  BY <1>1, <1>2, <1>3, <1>4, SeatedNameTheirs DEF HandleUpdatePlayerInfo, TypeOK
<1>5. ASSUME NEW q \in PartyIds, HandlePartyCreate(q)
      PROVE  IInv'
  <2>1. /\ EmptyParty(q) \in Party /\ EmptyParty(q).party_id = q
        /\ EmptyParty(q).players = <<>> /\ EmptyParty(q).heroes = <<>>
        /\ EmptyParty(q).player_count = 0
    BY DEF EmptyParty, Party
  <2>2. /\ seats[q] = <<>>
        /\ created' = created \cup {q}
        /\ escort' = [escort EXCEPT ![q] = <<>>]
        /\ parties' = [parties EXCEPT ![q] = EmptyParty(q)]
        /\ UNCHANGED <<known, party_id, seats>>
    BY <1>5 DEF HandlePartyCreate
  <2>3. parties' \in [PartyIds -> Party] /\ parties'[q] = EmptyParty(q)
        /\ \A r \in PartyIds \ {q} : parties'[r] = parties[r]
    BY <1>1, <2>1, <2>2 DEF TypeOK
  <2>4. escort' \in [PartyIds -> Seq(HeroAgents)] /\ escort'[q] = <<>>
        /\ \A r \in PartyIds \ {q} : escort'[r] = escort[r]
    BY <1>1, <2>2 DEF TypeOK
  <2>5. NoDouble(<<>>)
    BY DEF NoDouble
  <2>6. \A r \in PartyIds : NoDouble(seats'[r]) /\ NoDouble(escort'[r])
    BY <1>2, <2>2, <2>4, <2>5
  <2>7. Shown(parties', seats', escort')
    BY <1>1, <2>1, <2>2, <2>3, <2>4 DEF Shown
  <2>8. \A r \in PartyIds : parties'[r].party_id = IF r \in created' THEN r ELSE NULL
    BY <1>1, <2>1, <2>2, <2>3 DEF TypeOK
  <2> QED
    BY <1>1, <1>3, <2>2, <2>3, <2>4, <2>6, <2>7, <2>8, SeatedNameTheirs DEF TypeOK
<1>6. ASSUME NEW q \in PartyIds, NEW p \in PlayerIds, HandlePartyPlayerAdd(q, p)
      PROVE  IInv'
  <2>1. q \in created /\ ~Seated(p) /\ p \in known /\ parties[q].party_id = q
    BY <1>1, <1>6 DEF HandlePartyPlayerAdd, TypeOK
  <2>2. PICK list \in Seq(PlayerIds) :
          /\ list = Append(seats[q], p)
          /\ Len(list) = Len(seats[q]) + 1
          /\ NoDouble(list)
          /\ ToSet(list) = ToSet(seats[q]) \cup {p}
    <3>1. p \notin ToSet(seats[q])
      BY <2>1 DEF Seated
    <3>2. /\ Append(seats[q], p) \in Seq(PlayerIds)
          /\ Len(Append(seats[q], p)) = Len(seats[q]) + 1
          /\ NoDouble(Append(seats[q], p))
          /\ ToSet(Append(seats[q], p)) = ToSet(seats[q]) \cup {p}
      BY <1>2, <3>1, AppendToSet
    <3> QED
      BY <3>2, Zenon
  <2>3. PICK count \in Int : count = parties[q].player_count + 1 /\ count = Len(list)
    BY <1>1, <1>2, <2>2 DEF TypeOK, Party, Shown
  <2>4. /\ seats' = [seats EXCEPT ![q] = list]
        /\ party_id' = [party_id EXCEPT ![p] = q]
        /\ parties' = PlayersNow(q, list, count)
        /\ UNCHANGED <<known, created, escort>>
    BY <1>1, <1>6, <2>1, <2>2, <2>3 DEF HandlePartyPlayerAdd, PlayersNow, Shown
  <2>5. /\ parties' \in [PartyIds -> Party]
        /\ parties'[q].players = list /\ parties'[q].player_count = count
        /\ parties'[q].heroes = parties[q].heroes
        /\ parties'[q].party_id = parties[q].party_id
        /\ \A r \in PartyIds \ {q} : parties'[r] = parties[r]
    <3>1. LET now == PlayersNow(q, list, count) IN
          /\ now \in [PartyIds -> Party]
          /\ now[q].players = list /\ now[q].player_count = count
          /\ now[q].heroes = parties[q].heroes
          /\ now[q].party_id = parties[q].party_id
          /\ \A r \in PartyIds \ {q} : now[r] = parties[r]
      BY ONLY <1>1, PlayersNowIs, q \in PartyIds, list \in Seq(PlayerIds), count \in Int
    <3> QED
      BY <3>1, <2>4, Zenon
  <2>6. /\ seats' \in [PartyIds -> Seq(PlayerIds)] /\ seats'[q] = list
        /\ \A r \in PartyIds \ {q} : seats'[r] = seats[r]
    BY <1>1, <2>2, <2>4 DEF TypeOK
  <2>7. Shown(parties', seats', escort')
    BY <1>1, <2>3, <2>4, <2>5, <2>6 DEF Shown
  <2>8. ASSUME NEW o \in PlayerIds, NEW r \in PartyIds
        PROVE  party_id'[o] = r <=> o \in ToSet(seats'[r])
    <3>1. p \notin ToSet(seats[r])
      BY <2>1 DEF Seated
    <3> QED
      BY <1>1, <2>2, <2>4, <2>6, <3>1, SeatedNameTheirs DEF TypeOK
  <2>9. \A r \in PartyIds : NoDouble(seats'[r]) /\ NoDouble(escort'[r])
    BY <1>2, <2>2, <2>4, <2>6
  <2>10. \A r \in PartyIds : parties'[r].party_id = IF r \in created' THEN r ELSE NULL
    BY <1>1, <2>4, <2>5 DEF TypeOK
  <2>11. party_id' \in [PlayerIds -> PartyIds \cup {NULL}]
    BY <1>1, <2>4 DEF TypeOK
  <2> QED
    BY <1>1, <1>3, <2>4, <2>5, <2>6, <2>7, <2>8, <2>9, <2>10, <2>11 DEF TypeOK
<1>7. ASSUME NEW q \in PartyIds, NEW p \in PlayerIds, HandlePartyPlayerRemove(q, p)
      PROVE  IInv'
  <2>1. PICK i \in DOMAIN seats[q] :
          seats[q][i] = p /\ seats' = [seats EXCEPT ![q] = RemoveAt(seats[q], i)]
    BY <1>7 DEF HandlePartyPlayerRemove
  <2>2. PICK list \in Seq(PlayerIds) :
          /\ list = RemoveAt(seats[q], i)
          /\ Len(list) = Len(seats[q]) - 1
          /\ NoDouble(list)
          /\ ToSet(list) = ToSet(seats[q]) \ {p}
    <3>1. /\ RemoveAt(seats[q], i) \in Seq(PlayerIds)
          /\ Len(RemoveAt(seats[q], i)) = Len(seats[q]) - 1
      BY <1>2, RemoveAtIs
    <3>2. /\ NoDouble(RemoveAt(seats[q], i))
          /\ ToSet(RemoveAt(seats[q], i)) = ToSet(seats[q]) \ {p}
      BY <1>2, <2>1, RemoveFromSet
    <3> QED
      BY <3>1, <3>2, Zenon
  <2>3. PICK count \in Int : count = parties[q].player_count - 1 /\ count = Len(list)
    <3>1. parties[q].player_count = Len(seats[q]) /\ Len(seats[q]) \in Nat
      BY <1>1, <1>2 DEF Shown
    <3>2. /\ parties[q].player_count - 1 \in Int
          /\ parties[q].player_count - 1 = Len(list)
      BY <2>2, <3>1
    <3> QED
      BY <3>2, Zenon
  <2>4. RemovedAt(parties[q].players, PlayerIndex(q, p)) = list
    <3>1. parties[q].players = seats[q]
      BY <1>1 DEF Shown
    <3>2. PlayerIndex(q, p) = Found(seats[q], p)
      BY <3>1 DEF PlayerIndex, Found
    <3>3. RemovedAt(seats[q], Found(seats[q], p)) = RemoveAt(seats[q], i)
      BY <1>2, <2>1, RemovedIs
    <3> QED
      BY <2>2, <3>1, <3>2, <3>3
  <2>5. /\ seats' = [seats EXCEPT ![q] = list]
        /\ party_id' = [party_id EXCEPT ![p] = NULL]
        /\ parties' = PlayersNow(q, list, count)
        /\ UNCHANGED <<known, created, escort>>
    BY <1>7, <2>1, <2>2, <2>3, <2>4 DEF HandlePartyPlayerRemove, PlayersNow
  <2>6. /\ parties' \in [PartyIds -> Party]
        /\ parties'[q].players = list /\ parties'[q].player_count = count
        /\ parties'[q].heroes = parties[q].heroes
        /\ parties'[q].party_id = parties[q].party_id
        /\ \A r \in PartyIds \ {q} : parties'[r] = parties[r]
    <3>1. LET now == PlayersNow(q, list, count) IN
          /\ now \in [PartyIds -> Party]
          /\ now[q].players = list /\ now[q].player_count = count
          /\ now[q].heroes = parties[q].heroes
          /\ now[q].party_id = parties[q].party_id
          /\ \A r \in PartyIds \ {q} : now[r] = parties[r]
      BY ONLY <1>1, PlayersNowIs, q \in PartyIds, list \in Seq(PlayerIds), count \in Int
    <3> QED
      BY <3>1, <2>5, Zenon
  <2>7. /\ seats' \in [PartyIds -> Seq(PlayerIds)] /\ seats'[q] = list
        /\ \A r \in PartyIds \ {q} : seats'[r] = seats[r]
    BY <1>1, <2>2, <2>5 DEF TypeOK
  <2>8. Shown(parties', seats', escort')
    BY <1>1, <2>3, <2>5, <2>6, <2>7 DEF Shown
  <2>9. ASSUME NEW o \in PlayerIds, NEW r \in PartyIds
        PROVE  party_id'[o] = r <=> o \in ToSet(seats'[r])
    <3>1. p \in ToSet(seats[r]) => r = q
      <4>1. p \in ToSet(seats[q])
        BY <2>1 DEF ToSet
      <4> QED
        BY <4>1, SeatedNameTheirs
    <3> QED
      BY <1>1, <2>2, <2>5, <2>7, <3>1, SeatedNameTheirs DEF TypeOK
  <2>10. \A r \in PartyIds : NoDouble(seats'[r]) /\ NoDouble(escort'[r])
    BY <1>2, <2>2, <2>5, <2>7
  <2>11. \A r \in PartyIds : parties'[r].party_id = IF r \in created' THEN r ELSE NULL
    BY <1>1, <2>5, <2>6 DEF TypeOK
  <2>12. party_id' \in [PlayerIds -> PartyIds \cup {NULL}]
    BY <1>1, <2>5 DEF TypeOK
  <2> QED
    BY <1>1, <1>3, <2>5, <2>6, <2>7, <2>8, <2>9, <2>10, <2>11, <2>12 DEF TypeOK
<1>8. ASSUME NEW q \in PartyIds, NEW list \in Seq(HeroAgents), NoDouble(list),
             escort' = [escort EXCEPT ![q] = list],
             parties' = HeroesNow(q, list),
             UNCHANGED <<known, party_id, created, seats>>
      PROVE  IInv'
  <2>1. /\ parties' \in [PartyIds -> Party]
        /\ parties'[q].heroes = list
        /\ parties'[q].players = parties[q].players
        /\ parties'[q].player_count = parties[q].player_count
        /\ parties'[q].party_id = parties[q].party_id
        /\ \A r \in PartyIds \ {q} : parties'[r] = parties[r]
    BY <1>1, <1>8, HeroesNowIs
  <2>2. /\ escort' \in [PartyIds -> Seq(HeroAgents)] /\ escort'[q] = list
        /\ \A r \in PartyIds \ {q} : escort'[r] = escort[r]
    BY <1>1, <1>8 DEF TypeOK
  <2>3. Shown(parties', seats', escort')
    BY <1>1, <1>8, <2>1, <2>2 DEF Shown
  <2>4. \A r \in PartyIds : NoDouble(seats'[r]) /\ NoDouble(escort'[r])
    BY <1>2, <1>8, <2>2
  <2>5. \A r \in PartyIds : parties'[r].party_id = IF r \in created' THEN r ELSE NULL
    BY <1>1, <1>8, <2>1 DEF TypeOK
  <2> QED
    BY <1>1, <1>3, <1>8, <2>1, <2>2, <2>3, <2>4, <2>5, SeatedNameTheirs DEF TypeOK
<1>9. ASSUME NEW q \in PartyIds, NEW h \in HeroAgents, HandlePartyHeroAdd(q, h)
      PROVE  IInv'
  <2>1. PICK list \in Seq(HeroAgents) : list = Append(escort[q], h) /\ NoDouble(list)
    <3>1. h \notin ToSet(escort[q])
      BY <1>9 DEF HandlePartyHeroAdd
    <3> QED
      BY <1>2, <3>1, AppendToSet
  <2>2. /\ escort' = [escort EXCEPT ![q] = list]
        /\ parties' = HeroesNow(q, list)
        /\ UNCHANGED <<known, party_id, created, seats>>
    BY <1>1, <1>9, <2>1 DEF HandlePartyHeroAdd, HeroesNow, Shown
  <2> QED
    BY <1>8, <2>1, <2>2
<1>10. ASSUME NEW q \in PartyIds, NEW h \in HeroAgents, HandlePartyHeroRemove(q, h)
       PROVE  IInv'
  <2>1. HeroIndex(q, h) = Found(escort[q], h) /\ parties[q].heroes = escort[q]
    BY <1>1 DEF HeroIndex, Found, Shown
  <2>2. PICK list \in Seq(HeroAgents) :
          /\ NoDouble(list)
          /\ list = RemovedAt(escort[q], Found(escort[q], h))
          /\ escort' = [escort EXCEPT ![q] = list]
    <3>1. CASE h \notin ToSet(escort[q]) /\ UNCHANGED escort
      <4>1. RemovedAt(escort[q], Found(escort[q], h)) = escort[q]
        BY <1>2, <3>1, RemovedIs
      <4>2. escort' = [escort EXCEPT ![q] = escort[q]]
        BY <1>1, <3>1 DEF TypeOK
      <4> QED
        BY <1>2, <4>1, <4>2
    <3>2. ASSUME NEW i \in DOMAIN escort[q], escort[q][i] = h,
                 escort' = [escort EXCEPT ![q] = RemoveAt(escort[q], i)]
          PROVE  \E list \in Seq(HeroAgents) :
                   /\ NoDouble(list)
                   /\ list = RemovedAt(escort[q], Found(escort[q], h))
                   /\ escort' = [escort EXCEPT ![q] = list]
      <4>1. RemovedAt(escort[q], Found(escort[q], h)) = RemoveAt(escort[q], i)
        BY <1>2, <3>2, RemovedIs
      <4>2. RemoveAt(escort[q], i) \in Seq(HeroAgents) /\ NoDouble(RemoveAt(escort[q], i))
        BY <1>2, RemoveAtIs, RemoveFromSet
      <4> QED
        BY <3>2, <4>1, <4>2
    <3> QED
      BY <1>10, <3>1, <3>2 DEF HandlePartyHeroRemove
  <2>3. /\ parties' = HeroesNow(q, list)
        /\ UNCHANGED <<known, party_id, created, seats>>
    BY <1>10, <2>1, <2>2 DEF HandlePartyHeroRemove, HeroesNow
  <2> QED
    BY <1>8, <2>2, <2>3
<1>11. ASSUME NEW p \in PlayerIds, HandlePartyDefeated(p)
       PROVE  IInv'
  <2>1. PICK q \in PartyIds : q = party_id[p]
    BY <1>1, <1>11 DEF HandlePartyDefeated, TypeOK
  <2>2. /\ parties' = [parties EXCEPT ![q] = [parties[q] EXCEPT !.defeated = TRUE]]
        /\ UNCHANGED <<known, party_id, created, seats, escort>>
    BY <1>11, <2>1 DEF HandlePartyDefeated
  <2>3. PICK entry \in Party :
          /\ entry = [parties[q] EXCEPT !.defeated = TRUE]
          /\ entry.players = parties[q].players /\ entry.heroes = parties[q].heroes
          /\ entry.player_count = parties[q].player_count
          /\ entry.party_id = parties[q].party_id
    <3>1. parties[q] \in Party
      BY <1>1 DEF TypeOK
    <3>2. /\ [parties[q] EXCEPT !.defeated = TRUE] \in Party
          /\ [parties[q] EXCEPT !.defeated = TRUE].players = parties[q].players
          /\ [parties[q] EXCEPT !.defeated = TRUE].heroes = parties[q].heroes
          /\ [parties[q] EXCEPT !.defeated = TRUE].player_count = parties[q].player_count
          /\ [parties[q] EXCEPT !.defeated = TRUE].party_id = parties[q].party_id
      BY <3>1 DEF Party
    <3> QED
      BY <3>2, Zenon
  <2>4. /\ parties' \in [PartyIds -> Party] /\ parties'[q] = entry
        /\ \A r \in PartyIds \ {q} : parties'[r] = parties[r]
    BY <1>1, <2>2, <2>3 DEF TypeOK
  <2>5. Shown(parties', seats', escort')
    BY <1>1, <2>2, <2>3, <2>4 DEF Shown
  <2>6. \A r \in PartyIds : parties'[r].party_id = IF r \in created' THEN r ELSE NULL
    BY <1>1, <2>2, <2>3, <2>4 DEF TypeOK
  <2> QED
    BY <1>1, <1>2, <1>3, <2>2, <2>4, <2>5, <2>6, SeatedNameTheirs DEF TypeOK
<1>12. CASE reset_world \/ Init'
  <2>1. /\ known' = {} /\ created' = {}
        /\ party_id' = [p \in PlayerIds |-> NULL]
        /\ parties' = [q \in PartyIds |-> EmptyParty(NULL)]
        /\ seats' = [q \in PartyIds |-> <<>>]
        /\ escort' = [q \in PartyIds |-> <<>>]
    BY <1>12 DEF reset_world, Init
  <2>2. /\ EmptyParty(NULL) \in Party /\ EmptyParty(NULL).party_id = NULL
        /\ EmptyParty(NULL).players = <<>> /\ EmptyParty(NULL).heroes = <<>>
        /\ EmptyParty(NULL).player_count = 0
    BY DEF EmptyParty, Party
  <2>3. NoDouble(<<>>) /\ ToSet(<<>>) = {}
    BY DEF NoDouble, ToSet
  <2>4. Shown(parties', seats', escort')
    BY <2>1, <2>2 DEF Shown
  <2> QED
    BY <1>3, <2>1, <2>2, <2>3, <2>4
<1>13. CASE UNCHANGED vars
  BY <1>1, <1>2, <1>3, <1>13, SeatedNameTheirs DEF vars, TypeOK
<1> QED
  BY <1>4, <1>5, <1>6, <1>7, <1>9, <1>10, <1>11, <1>12, <1>13 DEF Next

LEMMA InitInv == Init => IInv
<1> SUFFICES ASSUME Init PROVE IInv
  OBVIOUS
<1>1. /\ EmptyParty(NULL) \in Party /\ EmptyParty(NULL).party_id = NULL
      /\ EmptyParty(NULL).players = <<>> /\ EmptyParty(NULL).heroes = <<>>
      /\ EmptyParty(NULL).player_count = 0
  BY DEF EmptyParty, Party
<1>2. /\ known = {} /\ created = {}
      /\ party_id = [p \in PlayerIds |-> NULL]
      /\ parties = [q \in PartyIds |-> EmptyParty(NULL)]
      /\ seats = [q \in PartyIds |-> <<>>]
      /\ escort = [q \in PartyIds |-> <<>>]
  BY DEF Init
<1>3. TypeOK
  BY <1>1, <1>2 DEF TypeOK
<1>4. NobodyTwice
  BY <1>2 DEF NobodyTwice
<1>5. Shown(parties, seats, escort)
  BY <1>1, <1>2 DEF Shown
<1>6. ToSet(<<>>) = {}
  BY DEF ToSet
<1>7. PartyOfAgrees
  BY <1>1, <1>2, <1>6, PartyAssumption DEF PartyOfAgrees, GetPlayersOfParty
<1> QED
  BY <1>3, <1>4, <1>5, <1>7, RosterIsShown DEF IInv

LEMMA Invariant == Spec => []IInv
<1>1. Init => IInv
  BY InitInv
<1>2. IInv /\ [Next]_vars => IInv'
  BY StepInv
<1> QED
  BY <1>1, <1>2, PTL DEF Spec

-----------------------------------------------------------------------------
(* Theorems                                                                *)

\* The tables, the lists and the ids keep their types; the entry of a party names it
\* from HandlePartyCreate on.
THEOREM TypeCorrect == Spec => []TypeOK
<1>1. IInv => TypeOK
  BY DEF IInv
<1> QED
  BY <1>1, Invariant, PTL

\* HandlePartyPlayerAdd, HandlePartyPlayerRemove and the handlers of heroes keep the
\* rosters that plugins read those of the server, with their counts.
THEOREM RostersAgree == Spec => []RosterAgrees
<1>1. IInv => RosterAgrees
  BY DEF IInv
<1> QED
  BY <1>1, Invariant, PTL

\* A player's party_id and the lists of the parties agree after every packet.
THEOREM PartiesOfPlayersAgree == Spec => []PartyOfAgrees
<1>1. IInv => PartyOfAgrees
  BY DEF IInv
<1> QED
  BY <1>1, Invariant, PTL

-----------------------------------------------------------------------------
(* Refinement                                                              *)

\* What plugins read are functions of the server's lists.
LEMMA ShownLists ==
    ASSUME IInv
    PROVE  /\ [q \in PartyIds |-> GetPlayersOfParty(q)] = seats
           /\ [q \in PartyIds |-> HeroesOfParty(q)] = escort
<1>1. TypeOK /\ Shown(parties, seats, escort)
  BY RosterIsShown DEF IInv
<1> QED
  BY <1>1 DEF TypeOK, Shown, GetPlayersOfParty, HeroesOfParty

LEMMA ShownListsNext ==
    ASSUME IInv'
    PROVE  /\ [q \in PartyIds |-> GetPlayersOfParty(q)]' = seats'
           /\ [q \in PartyIds |-> HeroesOfParty(q)]' = escort'
<1>1. TypeOK' /\ Shown(parties', seats', escort')
  BY RosterIsShownNext DEF IInv
<1>2. /\ seats' = [q \in PartyIds |-> parties'[q].players]
      /\ escort' = [q \in PartyIds |-> parties'[q].heroes]
  BY <1>1 DEF TypeOK, Shown
<1> QED
  BY <1>2 DEF GetPlayersOfParty, HeroesOfParty

LEMMA RosterInit == Init => Roster!Init
<1> SUFFICES ASSUME Init PROVE Roster!Init
  OBVIOUS
<1>1. seats = [q \in PartyIds |-> <<>>] /\ escort = [q \in PartyIds |-> <<>>]
  BY DEF Init
<1> QED
  BY <1>1, InitInv, ShownLists DEF Roster!Init, Roster!NoPlayers

\* Every packet is one step of the rosters, or changes nothing of them.
LEMMA RosterStep == IInv /\ IInv' /\ [Next]_vars => [Roster!Next]_Roster!vars
<1> SUFFICES ASSUME IInv, IInv', [Next]_vars PROVE [Roster!Next]_Roster!vars
  OBVIOUS
<1>1. /\ [q \in PartyIds |-> GetPlayersOfParty(q)] = seats
      /\ [q \in PartyIds |-> HeroesOfParty(q)] = escort
      /\ [q \in PartyIds |-> GetPlayersOfParty(q)]' = seats'
      /\ [q \in PartyIds |-> HeroesOfParty(q)]' = escort'
  BY ShownLists, ShownListsNext
<1>2. UNCHANGED <<seats, escort>> => UNCHANGED Roster!vars
  BY <1>1 DEF Roster!vars
<1>3. ASSUME NEW p \in PlayerIds, HandleUpdatePlayerInfo(p)
      PROVE  UNCHANGED Roster!vars
  BY <1>2, <1>3 DEF HandleUpdatePlayerInfo
<1>4. ASSUME NEW q \in PartyIds, HandlePartyCreate(q)
      PROVE  Roster!Dissolve(q)
  BY <1>1, <1>4 DEF HandlePartyCreate, Roster!Dissolve
<1>5. ASSUME NEW q \in PartyIds, NEW p \in PlayerIds, HandlePartyPlayerAdd(q, p)
      PROVE  Roster!Join(p, q)
  <2>1. \A r \in PartyIds : p \notin ToSet(seats[r])
    BY <1>5 DEF HandlePartyPlayerAdd, Seated
  <2>2. \A r \in PartyIds : p \notin Roster!Members(r)
    BY <1>1, <2>1 DEF Roster!Members, ToSet, Roster!ToSet
  <2>3. seats' = [seats EXCEPT ![q] = Append(seats[q], p)] /\ UNCHANGED escort
    BY <1>5 DEF HandlePartyPlayerAdd
  <2> QED
    BY <1>1, <2>2, <2>3 DEF Roster!Join
<1>6. ASSUME NEW q \in PartyIds, NEW p \in PlayerIds, HandlePartyPlayerRemove(q, p)
      PROVE  Roster!Leave(p, q)
  BY <1>1, <1>6 DEF HandlePartyPlayerRemove, Roster!Leave, RemoveAt, Roster!RemoveAt
<1>7. ASSUME NEW q \in PartyIds, NEW h \in HeroAgents, HandlePartyHeroAdd(q, h)
      PROVE  Roster!HeroJoins(h, q)
  BY <1>1, <1>7 DEF HandlePartyHeroAdd, Roster!HeroJoins, ToSet, Roster!ToSet
<1>8. ASSUME NEW q \in PartyIds, NEW h \in HeroAgents, HandlePartyHeroRemove(q, h)
      PROVE  Roster!HeroLeaves(h, q) \/ UNCHANGED Roster!vars
  BY <1>1, <1>2, <1>8 DEF HandlePartyHeroRemove, Roster!HeroLeaves, RemoveAt, Roster!RemoveAt
<1>9. ASSUME NEW p \in PlayerIds, HandlePartyDefeated(p)
      PROVE  UNCHANGED Roster!vars
  BY <1>2, <1>9 DEF HandlePartyDefeated
<1>10. CASE reset_world
  BY <1>1, <1>10 DEF reset_world, Roster!Next, Roster!Leaving, Roster!NoPlayers
<1>11. CASE UNCHANGED vars
  BY <1>2, <1>11 DEF vars
<1> QED
  BY <1>3, <1>4, <1>5, <1>6, <1>7, <1>8, <1>9, <1>10, <1>11 DEF Next, Roster!Next

\* What plugins read of the parties behaves like rosters in the order of joining: each
\* handler of party.c is one of their steps, or hides behind them.
THEOREM PartiesAreRosters == Spec => ImplementsRoster
<1>1. Init => Roster!Init
  BY RosterInit
<1>2. IInv /\ IInv' /\ [Next]_vars => [Roster!Next]_Roster!vars
  BY RosterStep
<1> QED
  BY <1>1, <1>2, Invariant, PTL DEF Spec, ImplementsRoster, Roster!Spec
=============================================================================
