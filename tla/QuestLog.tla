------------------------------- MODULE QuestLog -------------------------------
(***************************************************************************)
(* The quest log (code/client/quest.c) and what GetQuest and GetQuests     *)
(* read of it.                                                             *)
(*                                                                         *)
(* Every entry keeps the position at which it was added (Quest.id), and    *)
(* HandleQuestRemove removes by it.  array_remove fills the gap with the   *)
(* last entry, whose id stays what it was.  init_world makes 32 entries of *)
(* zeroes: InitialSize stands for that number.                             *)
(***************************************************************************)
EXTENDS Integers, SequencesExt

CONSTANTS
    QuestIds,     \* the quests the server gives, not 0
    Places,       \* where a marker can stand
    InitialSize,  \* a natural number
    MaxEntries    \* bound on the log: an entry that a removal misses stays

VARIABLES
    quests,  \* world->quests
    given,   \* the server's log: the quests that it gave and did not take back
    aborted  \* the client has followed the NULL that stands for a quest it does not have

vars == <<quests, given, aborted>>

Quest(id, q) == [id |-> id, quest_id |-> q, marker |-> 0]

Init ==
    /\ quests = [i \in 1 .. InitialSize |-> Quest(0, 0)]
    /\ given = {}
    /\ aborted = FALSE

\* find_quest_by_id: the first entry with that quest_id, as a position from 1, or 0.
find_quest_by_id(q) ==
    LET hits == {i \in DOMAIN quests : quests[i].quest_id = q}
    IN IF hits = {} THEN 0 ELSE CHOOSE i \in hits : \A j \in hits : i <= j

\* _array_remove: the last element moves into the gap.
array_remove(s, index) ==
    IF index >= Len(s) THEN s
    ELSE SubSeq([s EXCEPT ![index + 1] = s[Len(s)]], 1, Len(s) - 1)

\* Mutant: the id is the size less one, which is right only after array_add.
IdFromSize(q) ==
    /\ ~aborted /\ q \notin given
    /\ Len(quests) < MaxEntries
    /\ quests' = Append(quests, Quest(Len(quests) - 1, q))
    /\ given' = given \cup {q}
    /\ UNCHANGED aborted

HandleQuestGeneralInfo(q) ==
    /\ ~aborted /\ q \notin given
    /\ Len(quests) < MaxEntries
    /\ quests' = Append(quests, Quest(Len(quests), q))
    /\ given' = given \cup {q}
    /\ UNCHANGED aborted

\* The server moves markers of quests it has given only.
HandleQuestUpdateMarker(q, place) ==
    /\ ~aborted /\ q \in given
    /\ aborted' = (find_quest_by_id(q) = 0)
    /\ quests' = IF aborted' THEN quests
                 ELSE [quests EXCEPT ![find_quest_by_id(q)].marker = place]
    /\ UNCHANGED given

\* Quests are also removed that were never given ("this happens when e.g. entering
\* fow", quest.c:126).
HandleQuestRemove(q) ==
    /\ ~aborted
    /\ given' = given \ {q}
    /\ quests' = LET i == find_quest_by_id(q)
                 IN IF i = 0 THEN quests ELSE array_remove(quests, quests[i].id)
    /\ UNCHANGED aborted

Next ==
    \E q \in QuestIds :
        \/ HandleQuestGeneralInfo(q)
        \/ \E place \in Places : HandleQuestUpdateMarker(q, place)
        \/ HandleQuestRemove(q)

Spec == Init /\ [][Next]_vars

-----------------------------------------------------------------------------
(* Properties                                                              *)

\* quest.h:8 says of Quest.id: "This id is the index position."
QuestIdIsIndex ==
    \A i \in DOMAIN quests : quests[i].quest_id # 0 => quests[i].id = i - 1

\* Not true of the code, for the same reason: GetQuest and GetQuests show the quests
\* that the server has given.
ShowsGivenQuests ==
    {quests[i].quest_id : i \in DOMAIN quests} \ {0} = given

\* Not true of the code: a marker is only moved of a quest that is in the log.
MarkedIsInLog == ~aborted

\* What is left: an entry's id never points in front of it, so a removal may miss
\* the quest or remove a later one, and never an earlier one.
IdNotBeforeIndex ==
    \A i \in DOMAIN quests : quests[i].quest_id # 0 => quests[i].id >= i - 1
=============================================================================
