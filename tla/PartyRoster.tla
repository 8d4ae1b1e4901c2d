----------------------------- MODULE PartyRoster -----------------------------
(***************************************************************************)
(* What the parties of an outpost are for plugins: rosters in the order of *)
(* joining, whose first player leads.  Somebody who joins goes to the end  *)
(* of one roster and is in no other; when somebody leaves the others keep  *)
(* their order, so that the next player leads when the leader leaves.      *)
(***************************************************************************)
EXTENDS Naturals, SequencesExt

CONSTANTS PlayerIds, PartyIds, HeroAgents

VARIABLES
    rosters,  \* the players of each party
    heroes    \* the heroes of each party

vars == <<rosters, heroes>>

Members(q) == ToSet(rosters[q])
NoPlayers == [q \in PartyIds |-> <<>>]

Init == rosters = NoPlayers /\ heroes = NoPlayers

Join(p, q) ==
    /\ \A r \in PartyIds : p \notin Members(r)
    /\ rosters' = [rosters EXCEPT ![q] = Append(@, p)]
    /\ UNCHANGED heroes

Leave(p, q) ==
    /\ \E i \in DOMAIN rosters[q] :
          rosters[q][i] = p /\ rosters' = [rosters EXCEPT ![q] = RemoveAt(@, i)]
    /\ UNCHANGED heroes

HeroJoins(h, q) ==
    /\ h \notin ToSet(heroes[q])
    /\ heroes' = [heroes EXCEPT ![q] = Append(@, h)]
    /\ UNCHANGED rosters

HeroLeaves(h, q) ==
    /\ \E i \in DOMAIN heroes[q] :
          heroes[q][i] = h /\ heroes' = [heroes EXCEPT ![q] = RemoveAt(@, i)]
    /\ UNCHANGED rosters

\* A party that nobody is in starts again, or everything does (another map).
Dissolve(q) ==
    /\ rosters[q] = <<>>
    /\ heroes' = [heroes EXCEPT ![q] = <<>>]
    /\ UNCHANGED rosters

Leaving == rosters' = NoPlayers /\ heroes' = NoPlayers

Next ==
    \/ \E p \in PlayerIds, q \in PartyIds : Join(p, q) \/ Leave(p, q)
    \/ \E h \in HeroAgents, q \in PartyIds : HeroJoins(h, q) \/ HeroLeaves(h, q)
    \/ \E q \in PartyIds : Dissolve(q)
    \/ Leaving

Spec == Init /\ [][Next]_vars
=============================================================================
