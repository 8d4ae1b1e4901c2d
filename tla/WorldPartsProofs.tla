-------------------------- MODULE WorldPartsProofs --------------------------
(***************************************************************************)
(* Proofs about the parts of the world.                                    *)
(***************************************************************************)
EXTENDS WorldParts, WellFoundedInduction, TLAPS

-----------------------------------------------------------------------------
(* The quest log                                                           *)

\* The log is a sequence of entries.
LogIsSequence == quests \in Seq([id : Nat, quest_id : QuestIds \cup {0}, marker : Places \cup {0}])

QuestInv == LogIsSequence /\ QL!IdNotBeforeIndex

\* The last entry moves to a position that is not behind the one its id names.
LEMMA RemovalKeepsIds ==
    ASSUME QuestInv, NEW index \in Nat, quests' = QL!array_remove(quests, index)
    PROVE  QuestInv'
<1> DEFINE n == Len(quests)
           gap == [quests EXCEPT ![index + 1] = quests[n]]
           E == [id : Nat, quest_id : QuestIds \cup {0}, marker : Places \cup {0}]
<1>1. quests \in Seq(E) /\ n \in Nat
  BY DEF QuestInv, LogIsSequence
<1>2. CASE index >= n
  BY <1>1, <1>2 DEF QuestInv, LogIsSequence, QL!IdNotBeforeIndex, QL!array_remove
<1>3. CASE index < n
  <2>1. n >= 1 /\ index + 1 \in 1 .. n /\ quests[n] \in E
    <3>1. n >= 1 /\ index + 1 \in 1 .. n /\ n \in 1 .. n
      BY <1>1, <1>3
    <3> HIDE DEF E
    <3>2. quests[n] \in E
      BY <1>1, <3>1
    <3> QED
      BY <3>1, <3>2
  <2>2. gap \in Seq(E) /\ Len(gap) = n
    BY <1>1, <2>1
  <2>3. \A i \in 1 .. n : gap[i] = IF i = index + 1 THEN quests[n] ELSE quests[i]
    BY <1>1, <2>1
  <2>4. quests' = SubSeq(gap, 1, n - 1)
    BY <1>3 DEF QL!array_remove
  <2> HIDE DEF gap, n, E
  <2>5. /\ quests' \in Seq(E) /\ Len(quests') = n - 1
        /\ \A i \in 1 .. n - 1 : quests'[i] = gap[i]
    BY <1>1, <2>1, <2>2, <2>4
  <2>6. ASSUME NEW i \in DOMAIN quests', quests'[i].quest_id # 0
        PROVE  quests'[i].id >= i - 1
    <3>1. i \in 1 .. n - 1 /\ i \in 1 .. n
      BY <1>1, <2>1, <2>5, <2>6
    <3>2. \A j \in 1 .. n : quests[j].quest_id # 0 => quests[j].id >= j - 1
      BY <1>1 DEF QuestInv, QL!IdNotBeforeIndex, n
    <3>3. \A j \in 1 .. n : quests[j].id \in Nat
      <4>1. \A j \in 1 .. n : quests[j] \in E
        BY <1>1 DEF n
      <4> QED
        BY <4>1 DEF E
    <3>4. CASE i = index + 1
      <4>1. quests'[i] = quests[n]
        BY <2>3, <2>5, <3>1, <3>4
      <4>2. quests[n].id >= n - 1
        BY <1>1, <2>1, <2>6, <3>2, <4>1
      <4> QED
        BY <1>1, <2>1, <3>1, <3>3, <4>1, <4>2
    <3>5. CASE i # index + 1
      BY <2>3, <2>5, <2>6, <3>1, <3>2, <3>5
    <3> QED
      BY <3>4, <3>5
  <2> QED
    BY <2>5, <2>6 DEF QuestInv, LogIsSequence, QL!IdNotBeforeIndex, E
<1> QED
  BY <1>1, <1>2, <1>3

\* A set of natural numbers that is not empty has a least element.
LEMMA LeastNumber ==
    ASSUME NEW T, T \subseteq Nat, T # {}
    PROVE  \E n \in T : \A m \in T : n <= m
<1>1. PICK n \in T : \A m \in T : ~(<<m, n>> \in OpToRel(<, Nat))
  BY NatLessThanWellFounded, WFMin, Zenon
<1>2. ASSUME NEW m \in T, m < n PROVE FALSE
  BY <1>1, <1>2 DEF OpToRel
<1> QED
  BY <1>2

\* A quest that is found is at a position of the log.
LEMMA FoundIsInLog ==
    ASSUME LogIsSequence, NEW q, QL!find_quest_by_id(q) # 0
    PROVE  QL!find_quest_by_id(q) \in DOMAIN quests
<1> DEFINE hits == {i \in DOMAIN quests : quests[i].quest_id = q}
<1>1. hits # {} /\ hits \subseteq Nat /\ hits \subseteq DOMAIN quests
  BY DEF QL!find_quest_by_id, LogIsSequence
<1>2. QL!find_quest_by_id(q) = CHOOSE i \in hits : \A j \in hits : i <= j
  BY <1>1 DEF QL!find_quest_by_id
<1> HIDE DEF hits
<1>3. \E i \in hits : \A j \in hits : i <= j
  BY <1>1, LeastNumber
<1>4. QL!find_quest_by_id(q) \in hits
  BY <1>2, <1>3, Zenon
<1> QED
  BY <1>1, <1>4

\* Every packet keeps the ids at or behind their positions.
LEMMA QuestStep ==
    ASSUME QuestInv, QL!Next
    PROVE  QuestInv'
<1> DEFINE E == [id : Nat, quest_id : QuestIds \cup {0}, marker : Places \cup {0}]
<1>1. quests \in Seq(E) /\ Len(quests) \in Nat /\ DOMAIN quests = 1 .. Len(quests)
  BY DEF QuestInv, LogIsSequence
<1>2. ASSUME NEW q \in QuestIds, QL!HandleQuestGeneralInfo(q) PROVE QuestInv'
  <2>1. PICK entry \in E : entry.id = Len(quests) /\ quests' = Append(quests, entry)
    <3>1. QL!Quest(Len(quests), q) \in E /\ QL!Quest(Len(quests), q).id = Len(quests)
      BY <1>1 DEF QL!Quest
    <3> QED
      BY <1>2, <3>1 DEF QL!HandleQuestGeneralInfo
  <2> HIDE DEF E
  <2>2. /\ quests' \in Seq(E)
        /\ DOMAIN quests' = 1 .. Len(quests) + 1
        /\ \A i \in 1 .. Len(quests) : quests'[i] = quests[i]
        /\ quests'[Len(quests) + 1] = entry
    BY <1>1, <2>1
  <2>3. ASSUME NEW i \in DOMAIN quests', quests'[i].quest_id # 0 PROVE quests'[i].id >= i - 1
    <3>1. CASE i = Len(quests) + 1
      BY <1>1, <2>1, <2>2, <3>1
    <3>2. CASE i # Len(quests) + 1
      <4>1. i \in 1 .. Len(quests)
        BY <1>1, <2>2, <3>2
      <4> QED
        BY <1>1, <2>2, <2>3, <4>1 DEF QuestInv, QL!IdNotBeforeIndex
    <3> QED
      BY <3>1, <3>2
  <2> QED
    BY <2>2, <2>3 DEF QuestInv, LogIsSequence, QL!IdNotBeforeIndex, E
<1>3. ASSUME NEW q \in QuestIds, NEW place \in Places, QL!HandleQuestUpdateMarker(q, place)
      PROVE  QuestInv'
  <2>1. CASE QL!find_quest_by_id(q) = 0
    BY <1>3, <2>1 DEF QL!HandleQuestUpdateMarker, QuestInv, LogIsSequence, QL!IdNotBeforeIndex
  <2>2. CASE QL!find_quest_by_id(q) # 0
    <3>1. PICK f \in 1 .. Len(quests) : f = QL!find_quest_by_id(q)
      BY <1>1, <2>2, FoundIsInLog DEF QuestInv
    <3>2. quests' = [quests EXCEPT ![f] = [quests[f] EXCEPT !.marker = place]]
      BY <1>3, <2>2, <3>1 DEF QL!HandleQuestUpdateMarker
    <3>3. quests[f] \in E
      <4> HIDE DEF E
      <4> QED
        BY <1>1
    <3>4. PICK entry \in E : /\ entry = [quests[f] EXCEPT !.marker = place]
                             /\ entry.id = quests[f].id
                             /\ entry.quest_id = quests[f].quest_id
      <4>1. /\ [quests[f] EXCEPT !.marker = place] \in E
            /\ [quests[f] EXCEPT !.marker = place].id = quests[f].id
            /\ [quests[f] EXCEPT !.marker = place].quest_id = quests[f].quest_id
        BY <3>3
      <4> QED
        BY <4>1
    <3> HIDE DEF E
    <3>5. /\ quests' \in Seq(E)
          /\ DOMAIN quests' = DOMAIN quests
          /\ \A i \in DOMAIN quests : quests'[i] = IF i = f THEN entry ELSE quests[i]
      BY <1>1, <3>2, <3>4
    <3> QED
      BY <3>4, <3>5 DEF QuestInv, LogIsSequence, QL!IdNotBeforeIndex, E
  <2> QED
    BY <2>1, <2>2
<1>4. ASSUME NEW q \in QuestIds, QL!HandleQuestRemove(q) PROVE QuestInv'
  <2>1. CASE QL!find_quest_by_id(q) = 0
    BY <1>4, <2>1 DEF QL!HandleQuestRemove, QuestInv, LogIsSequence, QL!IdNotBeforeIndex
  <2>2. CASE QL!find_quest_by_id(q) # 0
    <3>1. PICK f \in 1 .. Len(quests) : f = QL!find_quest_by_id(q)
      BY <1>1, <2>2, FoundIsInLog DEF QuestInv
    <3>2. quests[f].id \in Nat
      <4>1. quests[f] \in E
        <5> HIDE DEF E
        <5> QED
          BY <1>1
      <4> QED
        BY <4>1
    <3>3. quests' = QL!array_remove(quests, quests[f].id)
      BY <1>4, <2>2, <3>1 DEF QL!HandleQuestRemove
    <3> QED
      BY <3>2, <3>3, RemovalKeepsIds
  <2> QED
    BY <2>1, <2>2
<1> QED
  BY <1>2, <1>3, <1>4 DEF QL!Next

\* The comment "This id is the index position" (quest.h:8) is not kept, this is: the id of a
\* quest is its index or a later one, so HandleQuestRemove never removes an earlier entry
\* than the quest's.
THEOREM IdsAreNotBefore == WorldSpec => []QL!IdNotBeforeIndex
<1>1. WorldInit => QuestInv
  BY WorldAssumption DEF WorldInit, QL!Init, QL!Quest, QuestInv, LogIsSequence,
     QL!IdNotBeforeIndex
<1>2. QuestInv /\ [WorldNext]_worldVars => QuestInv'
  <2> SUFFICES ASSUME QuestInv, [WorldNext]_worldVars PROVE QuestInv'
    OBVIOUS
  <2>1. CASE UNCHANGED questVars
    BY <2>1 DEF questVars, QuestInv, LogIsSequence, QL!IdNotBeforeIndex
  <2> QED
    BY <2>1, QuestStep DEF WorldNext, worldVars, OnlySkillbars
<1>3. QuestInv => QL!IdNotBeforeIndex
  BY DEF QuestInv
<1> QED
  BY <1>1, <1>2, <1>3, PTL DEF WorldSpec

-----------------------------------------------------------------------------
(* The chat                                                                *)

\* What the server is in the middle of.
Sending == [message : Messages, size : 0 .. MaxPieces, sent : 0 .. MaxPieces]

\* The builder holds the torn pieces and then those that were sent of the message.
BuilderIsSent ==
    /\ str_builder \in Seq(Messages \X Nat) /\ torn \in Nat
    /\ sending \in Sending \cup {NULL}
    /\ sending = NULL => Len(str_builder) = torn
    /\ sending # NULL =>
          /\ sending.sent \in 1 .. sending.size
          /\ Len(str_builder) = torn + sending.sent
          /\ \A n \in 1 .. sending.sent : str_builder[torn + n] = <<sending.message, n>>

ChatInv == BuilderIsSent /\ CH!MessageIsWhole

\* What Append does, of any sequence.
LEMMA Appended ==
    ASSUME NEW E, NEW s \in Seq(E), NEW e \in E
    PROVE  /\ Append(s, e) \in Seq(E) /\ Len(Append(s, e)) = Len(s) + 1
           /\ Append(s, e)[Len(s) + 1] = e
           /\ \A i \in 1 .. Len(s) : Append(s, e)[i] = s[i]
  OBVIOUS

\* What is behind the torn pieces is the message when all of it was sent.
LEMMA EndIsMessage ==
    ASSUME BuilderIsSent, sending # NULL, sending.sent = sending.size
    PROVE  SubSeq(str_builder, torn + 1, Len(str_builder)) = CH!Pieces(sending.message, sending.size)
<1> DEFINE s == str_builder
           k == sending.size
<1>1. s \in Seq(Messages \X Nat) /\ torn \in Nat /\ k \in Nat /\ Len(s) = torn + k
  BY DEF BuilderIsSent, Sending
<1>2. \A n \in 1 .. k : s[torn + n] = <<sending.message, n>>
  BY DEF BuilderIsSent
<1>3. SubSeq(s, torn + 1, torn + k) = [n \in 1 .. k |-> s[torn + n]]
  <2>1. SubSeq(s, torn + 1, torn + k)
          = [n \in 1 .. ((torn + k) - (torn + 1) + 1) |-> s[n + (torn + 1) - 1]]
    BY <1>1
  <2>2. (torn + k) - (torn + 1) + 1 = k /\ \A n \in 1 .. k : n + (torn + 1) - 1 = torn + n
    BY <1>1
  <2> QED
    BY <2>1, <2>2
<1> QED
  BY <1>1, <1>2, <1>3 DEF CH!Pieces

\* A packet that ends a message tells it whole and clears the builder.
LEMMA EndKeepsInv ==
    ASSUME ChatInv, CH!Ended, NEW heard \in BOOLEAN, CH!Broadcast(heard),
           str_builder' = <<>>, torn' = 0, sending' = NULL
    PROVE  ChatInv'
<1>1. BuilderIsSent'
  BY DEF BuilderIsSent
<1>2. CH!MessageIsWhole'
  <2>1. CASE heard
    <3>1. told' = [sent |-> CH!Pieces(sending.message, sending.size), got |-> str_builder, torn |-> torn]
      BY <2>1 DEF CH!Broadcast
    <3>2. SubSeq(str_builder, torn + 1, Len(str_builder)) = CH!Pieces(sending.message, sending.size)
      BY EndIsMessage DEF ChatInv, CH!Ended
    <3> QED
      BY <3>1, <3>2 DEF CH!MessageIsWhole
  <2>2. CASE ~heard
    BY <2>2 DEF CH!Broadcast, ChatInv, CH!MessageIsWhole
  <2> QED
    BY <2>1, <2>2
<1> QED
  BY <1>1, <1>2 DEF ChatInv

\* The next piece continues the message, the first one begins it behind what is torn.
LEMMA PieceKeepsInv ==
    ASSUME ChatInv, CH!HandleChatMessageCore
    PROVE  ChatInv'
<1>1. CH!MessageIsWhole'
  BY DEF CH!HandleChatMessageCore, ChatInv, CH!MessageIsWhole
<1>2. /\ str_builder \in Seq(Messages \X Nat) /\ torn \in Nat /\ torn' = torn
      /\ str_builder' = Append(str_builder, <<sending'.message, sending'.sent>>)
  BY DEF CH!HandleChatMessageCore, ChatInv, BuilderIsSent
<1>3. CASE sending = NULL
  <2>1. PICK m \in Messages, size \in 1 .. MaxPieces :
           sending' = [message |-> m, size |-> size, sent |-> 1]
    BY <1>3 DEF CH!HandleChatMessageCore
  <2>2. /\ sending' \in Sending /\ sending' # NULL
        /\ sending'.sent = 1 /\ sending'.message = m /\ sending'.size = size
        /\ sending'.sent \in 1 .. sending'.size
    BY <2>1, WorldAssumption DEF Sending
  <2>3. Len(str_builder) = torn
    BY <1>3 DEF ChatInv, BuilderIsSent
  <2>4. /\ str_builder' \in Seq(Messages \X Nat) /\ Len(str_builder') = torn + 1
        /\ str_builder'[torn + 1] = <<m, 1>>
    BY <1>2, <2>2, <2>3
  <2> QED
    BY <1>1, <1>2, <2>2, <2>4 DEF ChatInv, BuilderIsSent
<1>4. CASE sending # NULL
  <2>1. /\ sending \in Sending /\ sending.sent \in 1 .. sending.size
        /\ Len(str_builder) = torn + sending.sent
        /\ \A n \in 1 .. sending.sent : str_builder[torn + n] = <<sending.message, n>>
    BY <1>4 DEF ChatInv, BuilderIsSent
  <2>2. sending.sent < sending.size /\ sending' = [sending EXCEPT !.sent = @ + 1]
    BY <1>4 DEF CH!HandleChatMessageCore
  <2>3. /\ sending' \in Sending /\ sending' # NULL
        /\ sending'.sent = sending.sent + 1 /\ sending'.message = sending.message
        /\ sending'.size = sending.size
        /\ sending'.sent \in 1 .. sending'.size
        /\ sending.sent \in Nat /\ sending.message \in Messages
    BY <2>1, <2>2, WorldAssumption DEF Sending
  <2>4. PICK piece \in Messages \X Nat : /\ piece = <<sending.message, sending'.sent>>
                                         /\ str_builder' = Append(str_builder, piece)
    <3>1. sending'.sent \in Nat
      BY <2>3
    <3> QED
      BY <1>2, <2>3, <3>1
  <2>5. /\ str_builder' \in Seq(Messages \X Nat) /\ Len(str_builder') = torn + sending'.sent
        /\ str_builder'[torn + sending'.sent] = piece
        /\ \A n \in 1 .. sending.sent : str_builder'[torn + n] = str_builder[torn + n]
    <3>1. /\ Append(str_builder, piece) \in Seq(Messages \X Nat)
          /\ Len(Append(str_builder, piece)) = Len(str_builder) + 1
          /\ Append(str_builder, piece)[Len(str_builder) + 1] = piece
          /\ \A i \in 1 .. Len(str_builder) : Append(str_builder, piece)[i] = str_builder[i]
      BY <1>2, Appended
    <3>2. torn \in Nat /\ sending.sent \in Nat /\ sending'.sent = sending.sent + 1
          /\ Len(str_builder) = torn + sending.sent
      BY <1>2, <2>1, <2>3
    <3>3. \A n \in 1 .. sending.sent : torn + n \in 1 .. Len(str_builder)
      BY <3>2
    <3>4. Len(str_builder) + 1 = torn + sending'.sent
      BY <3>2
    <3> QED
      BY <2>4, <3>1, <3>3, <3>4
  <2>6. \A n \in 1 .. sending'.sent : str_builder'[torn' + n] = <<sending'.message, n>>
    <3> SUFFICES ASSUME NEW n \in 1 .. sending'.sent
                 PROVE  str_builder'[torn + n] = <<sending.message, n>>
      BY <1>2, <2>3
    <3>1. CASE n = sending'.sent
      BY <2>4, <2>5, <3>1
    <3>2. CASE n # sending'.sent
      <4>1. n \in 1 .. sending.sent
        BY <2>3, <3>2
      <4> QED
        BY <2>1, <2>5, <4>1
    <3> QED
      BY <3>1, <3>2
  <2> QED
    BY <1>1, <1>2, <2>3, <2>5, <2>6 DEF ChatInv, BuilderIsSent
<1> QED
  BY <1>3, <1>4

\* A whisper is told as it is.
LEMMA WhisperIsWhole ==
    ASSUME NEW m
    PROVE  SubSeq(CH!Pieces(m, 1), 0 + 1, Len(CH!Pieces(m, 1))) = CH!Pieces(m, 1)
<1>1. CH!Pieces(m, 1) = [n \in 1 .. 1 |-> <<m, n>>] /\ Len(CH!Pieces(m, 1)) = 1
  BY DEF CH!Pieces
<1>2. SubSeq(CH!Pieces(m, 1), 1, 1) = [n \in 1 .. (1 - 1 + 1) |-> CH!Pieces(m, 1)[n + 1 - 1]]
  BY <1>1
<1> QED
  BY <1>1, <1>2

\* Every step keeps the builder and what was told.
LEMMA ChatStep ==
    ASSUME ChatInv, CH!Next
    PROVE  ChatInv'
<1>1. CASE CH!HandleChatMessageCore
  BY <1>1, PieceKeepsInv
<1>2. ASSUME NEW sender \in BOOLEAN, NEW channel \in BOOLEAN, CH!HandleChatMessageLocal(sender, channel)
      PROVE  ChatInv'
  <2>1. (subscribed /\ channel /\ sender) \in BOOLEAN
    OBVIOUS
  <2> QED
    BY <1>2, <2>1, EndKeepsInv DEF CH!HandleChatMessageLocal
<1>3. ASSUME NEW channel \in BOOLEAN,
             CH!HandleChatMessageGlobal(channel) \/ CH!HandleChatMessageServer(channel)
      PROVE  ChatInv'
  <2>1. (subscribed /\ channel) \in BOOLEAN
    OBVIOUS
  <2> QED
    BY <1>3, <2>1, EndKeepsInv DEF CH!HandleChatMessageGlobal, CH!HandleChatMessageServer
<1>4. ASSUME NEW m \in Messages, CH!HandleWhisperReceived(m) PROVE ChatInv'
  <2>1. BuilderIsSent'
    BY <1>4 DEF CH!HandleWhisperReceived, ChatInv, BuilderIsSent
  <2>2. \/ told' = told
        \/ told' = [sent |-> CH!Pieces(m, 1), got |-> CH!Pieces(m, 1), torn |-> 0]
    BY <1>4 DEF CH!HandleWhisperReceived
  <2>3. CH!MessageIsWhole'
    BY <2>2, WhisperIsWhole DEF ChatInv, CH!MessageIsWhole
  <2> QED
    BY <2>1, <2>3 DEF ChatInv
<1>5. CASE CH!GameConnectionEnds
  <2>1. Len(str_builder) \in Nat
    BY DEF ChatInv, BuilderIsSent
  <2> QED
    BY <1>5, <2>1 DEF CH!GameConnectionEnds, ChatInv, BuilderIsSent, CH!MessageIsWhole
<1>6. CASE CH!PluginSubscribes \/ CH!GameSrv_Connect
  BY <1>6 DEF CH!PluginSubscribes, CH!GameSrv_Connect, ChatInv, BuilderIsSent, CH!MessageIsWhole
<1> QED
  BY <1>1, <1>2, <1>3, <1>4, <1>5, <1>6 DEF CH!Next

\* For any messages, with any number of pieces: what the packet that ends a message gives
\* to plugins is that message, behind the pieces whose messages' ends were lost with the
\* connection.
THEOREM MessagesAreWhole == WorldSpec => []CH!MessageIsWhole
<1>1. WorldInit => ChatInv
  BY DEF WorldInit, CH!Init, ChatInv, BuilderIsSent, CH!MessageIsWhole
<1>2. ChatInv /\ [WorldNext]_worldVars => ChatInv'
  <2> SUFFICES ASSUME ChatInv, [WorldNext]_worldVars PROVE ChatInv'
    OBVIOUS
  <2>1. CASE UNCHANGED chatVars
    BY <2>1 DEF chatVars, ChatInv, BuilderIsSent, CH!MessageIsWhole
  <2> QED
    BY <2>1, ChatStep DEF WorldNext, worldVars, OnlySkillbars
<1>3. ChatInv => CH!MessageIsWhole
  BY DEF ChatInv
<1> QED
  BY <1>1, <1>2, <1>3, PTL DEF WorldSpec

-----------------------------------------------------------------------------
(* The trade window                                                        *)

\* The packets to the client.
FromServer ==
    Packets({"request", "acknowledge"}, Players \cup {NULL})
      \cup Packets({"item"}, Items) \cup Packets({"offer"}, Gold)
      \cup Packets({"accept", "change", "terminate"}, {NULL})

FromClient == Packets({"initiate", "acknowledge", "cancel"}, Players \cup {NULL})

TradeTypes ==
    /\ session \in [state : SUBSET Flags, trader : Players \cup {NULL}, request_pending : BOOLEAN,
                    gold : Gold \cup {0}, items : Seq(Items)]
    /\ deal \in [phase : {"idle", "asking", "asked", "open"}, partner : Players \cup {NULL},
                 gold : Gold \cup {0}, items : Seq(Items)]
    /\ toClient \in Seq(FromServer) /\ toServer \in Seq(FromClient)

\* What the client ought to show after packet p, if it ought to show w before.
After(w, p) ==
    IF p.kind \in {"request", "acknowledge"}
    THEN [opened |-> TRUE, trader |-> p.value, received |-> FALSE, gold |-> 0, items |-> <<>>]
    ELSE [opened |-> w.opened /\ p.kind # "terminate", trader |-> w.trader,
          received |-> w.received \/ p.kind = "offer",
          gold |-> IF p.kind = "offer" THEN p.value ELSE w.gold,
          items |-> IF p.kind = "item" THEN Append(w.items, p.value) ELSE w.items]

\* An open window s is w.  That it is not open says nothing: a TradeCancel may have closed it.
Shows(w, s) ==
    "Opened" \in s.state =>
        /\ w.opened /\ s.trader = w.trader /\ s.items = w.items
        /\ w.received => "Received" \in s.state /\ s.gold = w.gold

\* If w is open, then it is the trade d of the server, which may still wait for the client's
\* acknowledgement.
Agreed(w, d) ==
    w.opened =>
        /\ d.phase \in {"asked", "open"} /\ d.partner = w.trader /\ d.items = w.items
        /\ d.gold # 0 => w.received /\ d.gold = w.gold

\* The views v lead from what is shown, packet by packet, to the trade of the server.
Leads(v, s, packets, d) ==
    /\ Shows(v[1], s)
    /\ \A i \in 1 .. Len(packets) : v[i + 1] = After(v[i], packets[i])
    /\ Agreed(v[Len(packets) + 1], d)

\* A request that waits for its acknowledgement is on its way, or that is.
Asked ==
    deal.phase = "asked" =>
        \/ \E i \in 1 .. Len(toClient) : toClient[i] = Packet("request", deal.partner)
        \/ \E i \in 1 .. Len(toServer) : toServer[i] = Packet("acknowledge", deal.partner)

\* Nothing is offered before the trade is open.
NothingYet == deal.phase \in {"asking", "asked"} => deal.items = <<>> /\ deal.gold = 0

TradeInv ==
    ~aborted => TradeTypes /\ Asked /\ NothingYet /\ \E v : Leads(v, session, toClient, deal)

\* A packet is taken.
LEMMA Taken ==
    ASSUME NEW E, NEW s \in Seq(E), s # <<>>
    PROVE  /\ Len(s) \in Nat \ {0} /\ Head(s) = s[1] /\ s[1] \in E
           /\ Tail(s) \in Seq(E) /\ Len(Tail(s)) = Len(s) - 1
           /\ \A i \in 1 .. Len(s) - 1 : Tail(s)[i] = s[i + 1]
  OBVIOUS

\* The views go on behind the packet that is handled, if what is shown then is the next one.
LEMMA LeadsAfterHandling ==
    ASSUME TradeTypes, NEW v, Leads(v, session, toClient, deal), toClient # <<>>,
           toClient' = Tail(toClient), deal' = deal,
           NEW w, w = After(v[1], Head(toClient)), Shows(w, session')
    PROVE  \E u : Leads(u, session', toClient', deal')
<1> DEFINE n == Len(toClient)
           u == [i \in 1 .. n |-> v[i + 1]]
<1>1. /\ n \in Nat \ {0} /\ Head(toClient) = toClient[1] /\ Len(toClient') = n - 1
      /\ \A i \in 1 .. n - 1 : toClient'[i] = toClient[i + 1]
  BY Taken DEF TradeTypes
<1>2. \A i \in 1 .. n : v[i + 1] = After(v[i], toClient[i])
  BY DEF Leads
<1>3. u[1] = w
  <2>1. 1 \in 1 .. n /\ u[1] = v[1 + 1]
    BY <1>1
  <2> QED
    BY <1>1, <1>2, <2>1
<1>4. ASSUME NEW i \in 1 .. Len(toClient') PROVE u[i + 1] = After(u[i], toClient'[i])
  <2>1. i \in 1 .. n - 1 /\ i \in 1 .. n /\ i + 1 \in 1 .. n
    BY <1>1
  <2>2. u[i] = v[i + 1] /\ u[i + 1] = v[(i + 1) + 1] /\ toClient'[i] = toClient[i + 1]
    BY <1>1, <2>1
  <2>3. v[(i + 1) + 1] = After(v[i + 1], toClient[i + 1])
    BY <1>2, <2>1
  <2> QED
    BY <2>2, <2>3
<1>5. u[Len(toClient') + 1] = v[n + 1]
  BY <1>1
<1>6. Agreed(v[n + 1], deal')
  BY DEF Leads, Agreed
<1> HIDE DEF u
<1>7. Leads(u, session', toClient', deal')
  BY <1>3, <1>4, <1>5, <1>6 DEF Leads
<1> QED
  BY <1>7

\* One more view behind the packet that the server sends, if it is agreed then.
LEMMA LeadsAfterSending ==
    ASSUME TradeTypes, NEW v, Leads(v, session, toClient, deal), NEW p, toClient' = Append(toClient, p),
           session' = session,
           NEW w, w = After(v[Len(toClient) + 1], p), Agreed(w, deal')
    PROVE  \E u : Leads(u, session', toClient', deal')
<1> DEFINE n == Len(toClient)
           u == [i \in 1 .. n + 2 |-> IF i = n + 2 THEN w ELSE v[i]]
<1>1. /\ n \in Nat /\ Len(toClient') = n + 1 /\ toClient'[n + 1] = p
      /\ \A i \in 1 .. n : toClient'[i] = toClient[i]
  BY Appended DEF TradeTypes
<1>2. \A i \in 1 .. n : v[i + 1] = After(v[i], toClient[i])
  BY DEF Leads
<1>3. \A i \in 1 .. n + 1 : u[i] = v[i]
  BY <1>1
<1>4. u[n + 2] = w /\ n + 2 = (n + 1) + 1
  BY <1>1
<1> HIDE DEF u
<1>5. ASSUME NEW i \in 1 .. n + 1 PROVE u[i + 1] = After(u[i], toClient'[i])
  <2>1. CASE i = n + 1
    BY <1>1, <1>3, <1>4, <2>1
  <2>2. CASE i # n + 1
    <3>1. i \in 1 .. n /\ i + 1 \in 1 .. n + 1
      BY <1>1, <2>2
    <3> QED
      BY <1>1, <1>2, <1>3, <3>1
  <2> QED
    BY <2>1, <2>2
<1>6. Shows(u[1], session')
  <2>1. u[1] = v[1]
    BY <1>1, <1>3
  <2>2. Shows(v[1], session')
    BY DEF Leads, Shows
  <2> QED
    BY <2>1, <2>2
<1>7. Agreed(u[Len(toClient') + 1], deal')
  BY <1>1, <1>4
<1>8. Leads(u, session', toClient', deal')
  BY <1>1, <1>5, <1>6, <1>7 DEF Leads
<1> QED
  BY <1>8

\* Every packet that is handled shows what it ought to.
LEMMA HandledLeads ==
    ASSUME TradeTypes, NEW v, Leads(v, session, toClient, deal), Handle, ~aborted'
    PROVE  \E u : Leads(u, session', toClient', deal')
<1> DEFINE q == Head(toClient)
           w == After(v[1], q)
<1>1. /\ toClient # <<>> /\ toClient' = Tail(toClient) /\ deal' = deal
  BY DEF Handle, HandleTradeRequest, HandleTradeAcknowledge, HandleTradeTerminate,
     HandleTradeAddItem, HandleTradeReceiveOffer, HandleTradeAccept, HandleTradeChangeOffer,
     Receives
<1>2. Shows(v[1], session)
  BY DEF Leads
<1>3. CASE HandleTradeRequest \/ HandleTradeAcknowledge
  <2>1. /\ q.kind \in {"request", "acknowledge"}
        /\ \/ session' = OpenedWith(q.value)
           \/ session' = [OpenedWith(q.value) EXCEPT !.request_pending = FALSE]
    BY <1>3 DEF HandleTradeRequest, HandleTradeAcknowledge, Receives
  <2>2. session'.trader = q.value /\ session'.items = <<>>
    BY <2>1 DEF TradeTypes, OpenedWith
  <2>3. w.opened = TRUE /\ w.trader = q.value /\ w.received = FALSE /\ w.items = <<>>
    BY <2>1 DEF After
  <2> HIDE DEF w
  <2>4. Shows(w, session')
    BY <2>2, <2>3 DEF Shows
  <2> QED
    BY <1>1, <2>4, LeadsAfterHandling DEF w
<1>4. CASE HandleTradeTerminate
  <2>1. "Opened" \notin session'.state
    BY <1>4 DEF HandleTradeTerminate, TradeTypes
  <2>2. Shows(w, session')
    BY <2>1 DEF Shows
  <2> QED
    BY <1>1, <2>2, LeadsAfterHandling
<1>5. CASE HandleTradeAddItem
  <2>1. q.kind = "item" /\ session' = [session EXCEPT !.items = Append(@, q.value)]
    BY <1>5 DEF HandleTradeAddItem, Receives
  <2>2. /\ session'.items = Append(session.items, q.value) /\ session'.state = session.state
        /\ session'.trader = session.trader /\ session'.gold = session.gold
    BY <2>1 DEF TradeTypes
  <2>3. /\ (w.opened <=> v[1].opened) /\ w.trader = v[1].trader /\ (w.received <=> v[1].received)
        /\ w.gold = v[1].gold /\ w.items = Append(v[1].items, q.value)
    BY <2>1 DEF After
  <2> HIDE DEF w
  <2>4. Shows(w, session')
    BY <1>2, <2>2, <2>3 DEF Shows
  <2> QED
    BY <1>1, <2>4, LeadsAfterHandling DEF w
<1>6. CASE HandleTradeReceiveOffer
  <2>1. /\ q.kind = "offer"
        /\ session' = [session EXCEPT !.gold = q.value, !.state = @ \cup {"Received"}]
    BY <1>6 DEF HandleTradeReceiveOffer, Receives
  <2>2. /\ session'.items = session.items /\ session'.state = session.state \cup {"Received"}
        /\ session'.trader = session.trader /\ session'.gold = q.value
    BY <2>1 DEF TradeTypes
  <2>3. /\ (w.opened <=> v[1].opened) /\ w.trader = v[1].trader /\ w.gold = q.value
        /\ w.items = v[1].items
    BY <2>1 DEF After
  <2> HIDE DEF w
  <2>4. Shows(w, session')
    BY <1>2, <2>2, <2>3 DEF Shows
  <2> QED
    BY <1>1, <2>4, LeadsAfterHandling DEF w
<1>7. CASE HandleTradeAccept \/ HandleTradeChangeOffer
  <2>1. /\ q.kind \in {"accept", "change"}
        /\ \E f \in {{"Accepted"}, Flags \ {"Opened"}} :
              session' = [session EXCEPT !.state = @ \cup f]
    BY <1>7 DEF HandleTradeAccept, HandleTradeChangeOffer, Receives
  <2>2. /\ session'.items = session.items
        /\ "Opened" \in session'.state => "Opened" \in session.state
        /\ "Received" \in session.state => "Received" \in session'.state
        /\ session'.trader = session.trader /\ session'.gold = session.gold
    BY <2>1 DEF TradeTypes
  <2>3. /\ (w.opened <=> v[1].opened) /\ w.trader = v[1].trader /\ (w.received <=> v[1].received)
        /\ w.gold = v[1].gold /\ w.items = v[1].items
    BY <2>1 DEF After
  <2> HIDE DEF w
  <2>4. Shows(w, session')
    BY <1>2, <2>2, <2>3 DEF Shows
  <2> QED
    BY <1>1, <2>4, LeadsAfterHandling DEF w
<1> QED
  BY <1>3, <1>4, <1>5, <1>6, <1>7 DEF Handle

\* The packet a step of the server sends leads to its trade.
LEMMA SentLeads ==
    ASSUME TradeTypes, NothingYet, NEW v, Leads(v, session, toClient, deal), GameServer
    PROVE  \E u : Leads(u, session', toClient', deal')
<1>1. PICK w : w = v[Len(toClient) + 1]
  OBVIOUS
<1>2. Agreed(w, deal) /\ session' = session
  BY <1>1 DEF Leads, GameServer, ServerReceives, ServerSends, PartnerAsks, PartnerAgrees,
     PartnerEnds, PartnerAddsItem, PartnerOffers, PartnerChanges, PartnerAccepts
<1>3. ASSUME NEW k, NEW p, ToClient(k, p), Agreed(After(w, Packet(k, p)), deal')
      PROVE  \E u : Leads(u, session', toClient', deal')
  <2>1. toClient' = Append(toClient, Packet(k, p))
    BY <1>3 DEF ToClient
  <2> QED
    BY <1>1, <1>2, <1>3, <2>1, LeadsAfterSending
<1>4. ASSUME toClient' = toClient, Agreed(w, deal')
      PROVE  \E u : Leads(u, session', toClient', deal')
  BY <1>1, <1>2, <1>4 DEF Leads
<1>5. ASSUME NEW p \in Players, PartnerAsks(p)
      PROVE  Agreed(After(w, Packet("request", p)), deal') /\ ToClient("request", p)
  BY <1>5 DEF PartnerAsks, ServerSends, NoDeal, Agreed, After, Packet
<1>6. ASSUME PartnerAgrees
      PROVE  /\ Agreed(After(w, Packet("acknowledge", deal.partner)), deal')
             /\ ToClient("acknowledge", deal.partner)
  BY <1>6 DEF PartnerAgrees, ServerSends, Agreed, After, Packet, TradeTypes, NothingYet
<1>7. ASSUME NEW i \in Items, PartnerAddsItem(i)
      PROVE  Agreed(After(w, Packet("item", i)), deal') /\ ToClient("item", i)
  BY <1>2, <1>7 DEF PartnerAddsItem, ServerSends, Agreed, After, Packet, TradeTypes
<1>8. ASSUME NEW g \in Gold, PartnerOffers(g)
      PROVE  Agreed(After(w, Packet("offer", g)), deal') /\ ToClient("offer", g)
  BY <1>2, <1>8 DEF PartnerOffers, ServerSends, Agreed, After, Packet, TradeTypes
<1>9. ASSUME PartnerChanges
       PROVE  Agreed(After(w, Packet("change", NULL)), deal') /\ ToClient("change", NULL)
  BY <1>2, <1>9 DEF PartnerChanges, ServerSends, Agreed, After, Packet, TradeTypes
<1>10. ASSUME PartnerAccepts
       PROVE  Agreed(After(w, Packet("accept", NULL)), deal') /\ ToClient("accept", NULL)
  BY <1>2, <1>10 DEF PartnerAccepts, ServerSends, Agreed, After, Packet, TradeTypes
<1>11. ASSUME PartnerEnds
       PROVE  Agreed(After(w, Packet("terminate", NULL)), deal') /\ ToClient("terminate", NULL)
  BY <1>11 DEF PartnerEnds, ServerSends, Agreed, After, Packet
<1>12. CASE ServerReceives
  <2>1. CASE Head(toServer).kind = "cancel" /\ deal # NoDeal
    <3>1. ToClient("terminate", NULL) /\ Agreed(After(w, Packet("terminate", NULL)), deal')
      BY <1>12, <2>1 DEF ServerReceives, Agreed, After, Packet
    <3> QED
      BY <1>3, <3>1
  <2>2. CASE ~(Head(toServer).kind = "cancel" /\ deal # NoDeal)
    <3>1. toClient' = toClient /\ deal' = DealAfter(Head(toServer))
      BY <1>12, <2>2 DEF ServerReceives
    <3>2. Agreed(w, deal')
      BY <1>2, <2>2, <3>1 DEF DealAfter, Agreed, TradeTypes, NoDeal
    <3> QED
      BY <1>4, <3>1, <3>2
  <2> QED
    BY <2>1, <2>2
<1> QED
  BY <1>3, <1>5, <1>6, <1>7, <1>8, <1>9, <1>10, <1>11, <1>12 DEF GameServer

\* A call of a plugin closes the window or leaves what is shown as it is.
LEMMA CalledLeads ==
    ASSUME TradeTypes, NEW v, Leads(v, session, toClient, deal),
           (\E p \in Players : TradeInitiate(p)) \/ TradeCancel \/ CallWrites
    PROVE  Leads(v, session', toClient', deal')
<1>1. toClient' = toClient /\ deal' = deal
  BY DEF TradeInitiate, TradeCancel, Calls, CallWrites
<1>2. \/ session' = session
      \/ session' = [session EXCEPT !.request_pending = TRUE]
      \/ session' = [session EXCEPT !.state = {"Closed"}]
  BY DEF TradeInitiate, TradeCancel, Calls, CallWrites
<1>3. \/ "Opened" \notin session'.state
      \/ /\ session'.state = session.state /\ session'.trader = session.trader
         /\ session'.items = session.items /\ session'.gold = session.gold
  BY <1>2 DEF TradeTypes
<1>4. Shows(v[1], session')
  BY <1>3 DEF Shows, Leads
<1> QED
  BY <1>1, <1>4 DEF Leads

\* What is in a packet of the server.
LEMMA ServerPacket ==
    ASSUME NEW q \in FromServer
    PROVE  /\ q.kind \in {"request", "acknowledge"} => q.value \in Players \cup {NULL}
           /\ q.kind = "item" => q.value \in Items
           /\ q.kind = "offer" => q.value \in Gold
  BY DEF FromServer, Packets

\* The types are kept: the session,
LEMMA SessionKept ==
    ASSUME TradeTypes, Next, ~aborted'
    PROVE  session' \in [state : SUBSET Flags, trader : Players \cup {NULL},
                         request_pending : BOOLEAN, gold : Gold \cup {0}, items : Seq(Items)]
<1> DEFINE S == [state : SUBSET Flags, trader : Players \cup {NULL},
                 request_pending : BOOLEAN, gold : Gold \cup {0}, items : Seq(Items)]
           q == Head(toClient)
<1>1. session \in S
  BY DEF TradeTypes
<1>2. CASE session' = session
  BY <1>1, <1>2
<1>3. CASE CallWrites
  BY <1>1, <1>3 DEF CallWrites, Flags
<1>4. CASE Handle
  <2>1. toClient # <<>>
    BY <1>4 DEF Handle, HandleTradeRequest, HandleTradeAcknowledge, HandleTradeTerminate,
       HandleTradeAddItem, HandleTradeReceiveOffer, HandleTradeAccept, HandleTradeChangeOffer,
       Receives
  <2>2. q \in FromServer
    BY <2>1, Taken DEF TradeTypes
  <2>3. ASSUME NEW p \in Players \cup {NULL} PROVE OpenedWith(p) \in S
    <3>1. session.state \cup {"Opened"} \in SUBSET Flags /\ <<>> \in Seq(Items)
      BY <1>1 DEF Flags
    <3> QED
      BY <1>1, <3>1 DEF OpenedWith
  <2>4. ASSUME NEW f, f \in SUBSET Flags
        PROVE  [session EXCEPT !.state = @ \cup f] \in S
    BY <1>1, <2>4
  <2>5. CASE HandleTradeRequest
    <3>1. q.value \in Players \cup {NULL}
      BY <2>2, <2>5, ServerPacket DEF HandleTradeRequest, Receives
    <3> QED
      BY <2>3, <2>5, <3>1 DEF HandleTradeRequest
  <2>6. CASE HandleTradeAcknowledge
    <3>1. q.value \in Players \cup {NULL}
      BY <2>2, <2>6, ServerPacket DEF HandleTradeAcknowledge, Receives
    <3>2. OpenedWith(q.value) \in S
      BY <2>3, <3>1
    <3>3. session' = [OpenedWith(q.value) EXCEPT !.request_pending = FALSE]
      BY <2>6 DEF HandleTradeAcknowledge
    <3> QED
      BY <3>2, <3>3
  <2>7. CASE HandleTradeTerminate
    BY <1>1, <2>7 DEF HandleTradeTerminate, Flags
  <2>8. CASE HandleTradeAddItem
    <3>1. q.value \in Items
      BY <2>2, <2>8, ServerPacket DEF HandleTradeAddItem, Receives
    <3>2. session.items \in Seq(Items)
      BY <1>1
    <3>3. Append(session.items, q.value) \in Seq(Items)
      BY <3>1, <3>2
    <3>4. session' = [session EXCEPT !.items = Append(session.items, q.value)]
      BY <2>8 DEF HandleTradeAddItem
    <3> QED
      BY <1>1, <3>3, <3>4
  <2>9. CASE HandleTradeReceiveOffer
    <3>1. q.value \in Gold
      BY <2>2, <2>9, ServerPacket DEF HandleTradeReceiveOffer, Receives
    <3>2. session' = [session EXCEPT !.gold = q.value, !.state = @ \cup {"Received"}]
      BY <2>9 DEF HandleTradeReceiveOffer
    <3> QED
      BY <1>1, <3>1, <3>2 DEF Flags
  <2>10. CASE HandleTradeAccept \/ HandleTradeChangeOffer
    BY <2>4, <2>10 DEF HandleTradeAccept, HandleTradeChangeOffer, Flags
  <2> QED
    BY <1>4, <2>5, <2>6, <2>7, <2>8, <2>9, <2>10 DEF Handle
<1> QED
  BY <1>2, <1>3, <1>4 DEF Next, TradeInitiate, TradeCancel, Calls, GameServer, ServerReceives,
     ServerSends, PartnerAsks, PartnerAgrees, PartnerEnds, PartnerAddsItem, PartnerOffers,
     PartnerChanges, PartnerAccepts

\* the deal,
LEMMA DealKept ==
    ASSUME TradeTypes, Next
    PROVE  deal' \in [phase : {"idle", "asking", "asked", "open"}, partner : Players \cup {NULL},
                      gold : Gold \cup {0}, items : Seq(Items)]
<1> DEFINE D == [phase : {"idle", "asking", "asked", "open"}, partner : Players \cup {NULL},
                 gold : Gold \cup {0}, items : Seq(Items)]
<1>1. deal \in D
  BY DEF TradeTypes
<1>2. NoDeal \in D /\ NoDeal = [phase |-> "idle", partner |-> NULL, gold |-> 0, items |-> <<>>]
  BY DEF NoDeal
<1>3. CASE deal' = deal
  BY <1>1, <1>3
<1>4. CASE ServerReceives
  <2>1. Head(toServer) \in FromClient
    BY <1>4, Taken DEF ServerReceives, TradeTypes
  <2>2. Head(toServer).value \in Players \cup {NULL}
    BY <2>1 DEF FromClient, Packets
  <2> QED
    BY <1>1, <1>2, <1>4, <2>2 DEF ServerReceives, DealAfter
<1>5. ASSUME NEW i \in Items, PartnerAddsItem(i) PROVE deal' \in D
  <2>1. Append(deal.items, i) \in Seq(Items)
    BY <1>1, <1>5
  <2> QED
    BY <1>1, <1>5, <2>1 DEF PartnerAddsItem, ServerSends
<1>6. ASSUME NEW p \in Players, PartnerAsks(p) PROVE deal' \in D
  BY <1>2, <1>6 DEF PartnerAsks, ServerSends
<1>7. ASSUME NEW g \in Gold, PartnerOffers(g) PROVE deal' \in D
  BY <1>1, <1>7 DEF PartnerOffers, ServerSends
<1>8. CASE PartnerAgrees \/ PartnerEnds \/ PartnerChanges \/ PartnerAccepts
  BY <1>1, <1>2, <1>8 DEF PartnerAgrees, PartnerEnds, PartnerChanges, PartnerAccepts, ServerSends
<1> QED
  BY <1>3, <1>4, <1>5, <1>6, <1>7, <1>8 DEF Next, TradeInitiate, TradeCancel, Calls, CallWrites,
     GameServer, Handle, HandleTradeRequest, HandleTradeAcknowledge, HandleTradeTerminate,
     HandleTradeAddItem, HandleTradeReceiveOffer, HandleTradeAccept, HandleTradeChangeOffer,
     Receives

\* and what is under way.
LEMMA QueuesKept ==
    ASSUME TradeTypes, Next
    PROVE  toServer' \in Seq(FromClient) /\ toClient' \in Seq(FromServer)
<1>1. toServer \in Seq(FromClient) /\ toClient \in Seq(FromServer)
      /\ deal.partner \in Players \cup {NULL}
  BY DEF TradeTypes
<1>2. \A p \in Players \cup {NULL} :
         /\ Packet("initiate", p) \in FromClient /\ Packet("acknowledge", p) \in FromClient
         /\ Packet("request", p) \in FromServer /\ Packet("acknowledge", p) \in FromServer
  BY DEF Packet, Packets, FromClient, FromServer
<1>3. Packet("cancel", NULL) \in FromClient
  BY DEF Packet, Packets, FromClient
<1>4. /\ \A i \in Items : Packet("item", i) \in FromServer
      /\ \A g \in Gold : Packet("offer", g) \in FromServer
      /\ \A k \in {"accept", "change", "terminate"} : Packet(k, NULL) \in FromServer
  BY DEF Packet, Packets, FromServer
<1>5. ASSUME NEW k, NEW p, Packet(k, p) \in FromClient, ToServer(k, p)
      PROVE  toServer' \in Seq(FromClient)
  BY <1>1, <1>5 DEF ToServer
<1>6. ASSUME NEW k, NEW p, Packet(k, p) \in FromServer, ToClient(k, p)
      PROVE  toClient' \in Seq(FromServer)
  BY <1>1, <1>6 DEF ToClient
<1>7. CASE (\E p \in Players : TradeInitiate(p)) \/ TradeCancel \/ CallWrites
  BY <1>1, <1>2, <1>3, <1>5, <1>7 DEF TradeInitiate, TradeCancel, Calls, CallWrites
<1>8. CASE Handle
  <2>1. toClient # <<>> /\ toClient' = Tail(toClient)
    BY <1>8 DEF Handle, HandleTradeRequest, HandleTradeAcknowledge, HandleTradeTerminate,
       HandleTradeAddItem, HandleTradeReceiveOffer, HandleTradeAccept, HandleTradeChangeOffer,
       Receives
  <2>2. toClient' \in Seq(FromServer) /\ Head(toClient) \in FromServer
    BY <1>1, <2>1, Taken
  <2>3. CASE HandleTradeRequest
    <3>1. Head(toClient).value \in Players \cup {NULL}
      BY <2>2, <2>3, ServerPacket DEF HandleTradeRequest, Receives
    <3> QED
      BY <1>2, <1>5, <2>2, <2>3, <3>1 DEF HandleTradeRequest
  <2> QED
    BY <1>1, <1>8, <2>2, <2>3 DEF Handle, HandleTradeAcknowledge, HandleTradeTerminate,
       HandleTradeAddItem, HandleTradeReceiveOffer, HandleTradeAccept, HandleTradeChangeOffer
<1>9. CASE ServerReceives
  <2>1. toServer' \in Seq(FromClient)
    BY <1>1, <1>9, Taken DEF ServerReceives
  <2>2. toClient' = toClient \/ ToClient("terminate", NULL)
    BY <1>9 DEF ServerReceives
  <2> QED
    BY <1>1, <1>4, <1>6, <2>1, <2>2
<1>10. CASE GameServer /\ ~ServerReceives
  <2>1. toServer' = toServer
    BY <1>10 DEF GameServer, ServerSends, PartnerAsks, PartnerAgrees, PartnerEnds,
       PartnerAddsItem, PartnerOffers, PartnerChanges, PartnerAccepts
  <2>2. \/ \E p \in Players \cup {NULL} : ToClient("request", p) \/ ToClient("acknowledge", p)
        \/ \E i \in Items : ToClient("item", i)
        \/ \E g \in Gold : ToClient("offer", g)
        \/ \E k \in {"accept", "change", "terminate"} : ToClient(k, NULL)
    BY <1>1, <1>10 DEF GameServer, ServerSends, PartnerAsks, PartnerAgrees, PartnerEnds,
       PartnerAddsItem, PartnerOffers, PartnerChanges, PartnerAccepts
  <2> QED
    BY <1>1, <1>2, <1>4, <1>6, <2>1, <2>2
<1> QED
  BY <1>7, <1>8, <1>9, <1>10 DEF Next

\* Nothing is offered before the trade is open.
LEMMA NothingYetKept ==
    ASSUME TradeTypes, NothingYet, Next
    PROVE  NothingYet'
<1>1. CASE deal' = deal
  BY <1>1 DEF NothingYet
<1>2. CASE ServerReceives
  BY <1>2 DEF ServerReceives, DealAfter, NoDeal, NothingYet, TradeTypes
<1>3. CASE PartnerEnds
  BY <1>3 DEF PartnerEnds, ServerSends, NoDeal, NothingYet
<1>4. ASSUME NEW p \in Players, PartnerAsks(p) PROVE NothingYet'
  BY <1>4 DEF PartnerAsks, ServerSends, NoDeal, NothingYet
<1>5. ASSUME NEW k, NEW p, NEW d, ServerSends("open", k, p, d), d.phase = "open"
      PROVE  NothingYet'
  BY <1>5 DEF ServerSends, NothingYet
<1>6. ASSUME NEW i \in Items, PartnerAddsItem(i) PROVE NothingYet'
  <2>1. [deal EXCEPT !.items = Append(@, i)].phase = deal.phase /\ deal.phase = "open"
    BY <1>6 DEF TradeTypes, PartnerAddsItem, ServerSends
  <2> QED
    BY <1>5, <1>6, <2>1 DEF PartnerAddsItem
<1>7. ASSUME NEW g, PartnerOffers(g) \/ PartnerChanges PROVE NothingYet'
  <2>1. \A n : [deal EXCEPT !.gold = n].phase = deal.phase
    BY DEF TradeTypes
  <2>2. deal.phase = "open" /\ \E n : deal' = [deal EXCEPT !.gold = n]
    BY <1>7 DEF PartnerOffers, PartnerChanges, ServerSends
  <2>3. deal'.phase = "open"
    BY <2>1, <2>2
  <2> QED
    BY <2>3 DEF NothingYet
<1>8. CASE PartnerAgrees
  BY <1>8 DEF PartnerAgrees, ServerSends, NothingYet, TradeTypes
<1>9. CASE PartnerAccepts
  BY <1>1, <1>9 DEF PartnerAccepts, ServerSends
<1> QED
  BY <1>1, <1>2, <1>3, <1>4, <1>6, <1>7, <1>8, <1>9 DEF Next, GameServer,
     TradeInitiate, TradeCancel, Calls, CallWrites, Handle,
     HandleTradeRequest, HandleTradeAcknowledge, HandleTradeTerminate, HandleTradeAddItem,
     HandleTradeReceiveOffer, HandleTradeAccept, HandleTradeChangeOffer, Receives

\* A packet that waits is still there when others come, and when another one is taken.
LEMMA StaysBefore ==
    ASSUME NEW E, NEW s \in Seq(E), NEW t, NEW p, \E i \in 1 .. Len(s) : s[i] = p,
           \E e : t = Append(s, e)
    PROVE  \E i \in 1 .. Len(t) : t[i] = p
<1>1. PICK i \in 1 .. Len(s) : s[i] = p
  OBVIOUS
<1>2. PICK e : t = Append(s, e)
  OBVIOUS
<1>3. s \in Seq(E \cup {e})
  OBVIOUS
<1>4. Len(t) = Len(s) + 1 /\ Len(s) \in Nat /\ \A j \in 1 .. Len(s) : t[j] = s[j]
  BY <1>2, <1>3, Appended
<1>5. i \in 1 .. Len(t) /\ t[i] = p
  BY <1>1, <1>4
<1> QED
  BY <1>5

LEMMA StaysBehind ==
    ASSUME NEW E, NEW s \in Seq(E), NEW p, \E i \in 1 .. Len(s) : s[i] = p, s[1] # p
    PROVE  \E i \in 1 .. Len(Tail(s)) : Tail(s)[i] = p
<1>1. PICK i \in 1 .. Len(s) : s[i] = p
  OBVIOUS
<1>2. s # <<>>
  BY <1>1
<1>3. i # 1 /\ Len(s) \in Nat /\ Len(Tail(s)) = Len(s) - 1
      /\ \A j \in 1 .. Len(s) - 1 : Tail(s)[j] = s[j + 1]
  BY <1>1, <1>2, Taken
<1>4. i - 1 \in 1 .. Len(s) - 1 /\ i - 1 + 1 = i
  BY <1>1, <1>3
<1>5. i - 1 \in 1 .. Len(Tail(s)) /\ Tail(s)[i - 1] = p
  BY <1>1, <1>3, <1>4
<1> QED
  BY <1>5

\* A request that waits is answered, or over.
LEMMA AskedKept ==
    ASSUME TradeTypes, Asked, Next, TradeTypes'
    PROVE  Asked'
<1> DEFINE Waits(d, s) == \E i \in 1 .. Len(s) : s[i] = Packet("request", d.partner)
           Answered(d, s) == \E i \in 1 .. Len(s) : s[i] = Packet("acknowledge", d.partner)
<1>1. /\ toClient \in Seq(FromServer) /\ toServer \in Seq(FromClient)
      /\ toClient' \in Seq(FromServer) /\ toServer' \in Seq(FromClient)
  BY DEF TradeTypes
<1>2. SUFFICES ASSUME deal'.phase = "asked"
               PROVE  Waits(deal', toClient') \/ Answered(deal', toServer')
  BY DEF Asked
<1>3. deal.phase = "asked" => Waits(deal, toClient) \/ Answered(deal, toServer)
  BY DEF Asked
<1>4. ASSUME deal' = deal,
             \/ toClient' = toClient
             \/ \E e : toClient' = Append(toClient, e)
             \/ /\ toClient # <<>> /\ Head(toClient).kind # "request"
                /\ toClient' = Tail(toClient)
      PROVE  Waits(deal, toClient) => Waits(deal', toClient')
  <2> SUFFICES ASSUME Waits(deal, toClient) PROVE Waits(deal, toClient')
    BY <1>4
  <2>1. PICK p : p = Packet("request", deal.partner)
    OBVIOUS
  <2>2. Head(toClient).kind # "request" => Head(toClient) # p
    BY <2>1 DEF Packet
  <2>3. \E i \in 1 .. Len(toClient) : toClient[i] = p
    BY <2>1
  <2>4. \E i \in 1 .. Len(toClient') : toClient'[i] = p
    <3>1. CASE toClient' = toClient
      BY <2>3, <3>1
    <3>2. CASE \E e : toClient' = Append(toClient, e)
      BY <1>1, <2>3, <3>2, StaysBefore
    <3>3. CASE toClient # <<>> /\ Head(toClient) # p /\ toClient' = Tail(toClient)
      <4>1. toClient[1] # p
        BY <1>1, <3>3, Taken
      <4>2. \E i \in 1 .. Len(Tail(toClient)) : Tail(toClient)[i] = p
        BY <1>1, <2>3, <4>1, StaysBehind
      <4> QED
        BY <3>3, <4>2
    <3> QED
      BY <1>4, <2>2, <3>1, <3>2, <3>3
  <2> QED
    BY <2>1, <2>4
<1>5. ASSUME deal' = deal,
             \/ toServer' = toServer
             \/ \E e : toServer' = Append(toServer, e)
             \/ /\ toServer # <<>> /\ Head(toServer) # Packet("acknowledge", deal.partner)
                /\ toServer' = Tail(toServer)
      PROVE  Answered(deal, toServer) => Answered(deal', toServer')
  <2> SUFFICES ASSUME Answered(deal, toServer) PROVE Answered(deal, toServer')
    BY <1>5
  <2>1. PICK p : p = Packet("acknowledge", deal.partner)
    OBVIOUS
  <2>2. \E i \in 1 .. Len(toServer) : toServer[i] = p
    BY <2>1
  <2>3. \E i \in 1 .. Len(toServer') : toServer'[i] = p
    <3>1. CASE toServer' = toServer
      BY <2>2, <3>1
    <3>2. CASE \E e : toServer' = Append(toServer, e)
      BY <1>1, <2>2, <3>2, StaysBefore
    <3>3. CASE toServer # <<>> /\ Head(toServer) # p /\ toServer' = Tail(toServer)
      <4>1. toServer[1] # p
        BY <1>1, <3>3, Taken
      <4>2. \E i \in 1 .. Len(Tail(toServer)) : Tail(toServer)[i] = p
        BY <1>1, <2>2, <4>1, StaysBehind
      <4> QED
        BY <3>3, <4>2
    <3> QED
      BY <1>5, <2>1, <3>1, <3>2, <3>3
  <2> QED
    BY <2>1, <2>3
<1> HIDE DEF Waits, Answered
<1>6. CASE (\E p \in Players : TradeInitiate(p)) \/ TradeCancel \/ CallWrites
  <2>1. deal' = deal /\ toClient' = toClient
    BY <1>6 DEF TradeInitiate, TradeCancel, Calls, CallWrites
  <2>2. toServer' = toServer \/ \E e : toServer' = Append(toServer, e)
    BY <1>6 DEF TradeInitiate, TradeCancel, Calls, CallWrites, ToServer
  <2>3. deal.phase = "asked"
    BY <1>2, <2>1
  <2> QED
    BY <1>3, <1>4, <1>5, <2>1, <2>2, <2>3
<1>7. CASE HandleTradeRequest
  <2>1. /\ deal' = deal /\ toClient # <<>> /\ toClient' = Tail(toClient)
        /\ toServer' = Append(toServer, Packet("acknowledge", Head(toClient).value))
    BY <1>7 DEF HandleTradeRequest, Receives, ToServer
  <2>2. deal.phase = "asked"
    BY <1>2, <2>1
  <2>3. CASE Answered(deal, toServer)
    BY <1>5, <2>1, <2>3
  <2>4. CASE Waits(deal, toClient)
    <3>1. CASE Head(toClient) = Packet("request", deal.partner)
      <4>1. Head(toClient).value = deal'.partner
        BY <2>1, <3>1 DEF Packet
      <4>2. toServer' = Append(toServer, Packet("acknowledge", deal'.partner))
        BY <2>1, <4>1
      <4>3. /\ Len(toServer') = Len(toServer) + 1 /\ Len(toServer) \in Nat
            /\ toServer'[Len(toServer) + 1] = Packet("acknowledge", deal'.partner)
        BY <1>1, <4>2
      <4>4. \E i \in 1 .. Len(toServer') : toServer'[i] = Packet("acknowledge", deal'.partner)
        BY <4>3
      <4> QED
        BY <4>4 DEF Answered
    <3>2. CASE Head(toClient) # Packet("request", deal.partner)
      <4>1. PICK p : p = Packet("request", deal.partner)
        OBVIOUS
      <4>2. \E i \in 1 .. Len(toClient) : toClient[i] = p
        BY <2>4, <4>1 DEF Waits
      <4>3. toClient[1] # p
        BY <1>1, <2>1, <3>2, <4>1, Taken
      <4>4. \E i \in 1 .. Len(Tail(toClient)) : Tail(toClient)[i] = p
        BY <1>1, <4>2, <4>3, StaysBehind
      <4> QED
        BY <2>1, <4>1, <4>4 DEF Waits
    <3> QED
      BY <3>1, <3>2
  <2> QED
    BY <1>3, <2>2, <2>3, <2>4
<1>8. CASE Handle /\ ~HandleTradeRequest
  <2>1. /\ deal' = deal /\ toServer' = toServer /\ toClient # <<>>
        /\ Head(toClient).kind # "request" /\ toClient' = Tail(toClient)
    BY <1>8 DEF Handle, HandleTradeAcknowledge, HandleTradeTerminate, HandleTradeAddItem,
       HandleTradeReceiveOffer, HandleTradeAccept, HandleTradeChangeOffer, Receives
  <2>2. deal.phase = "asked"
    BY <1>2, <2>1
  <2> QED
    BY <1>3, <1>4, <1>5, <2>1, <2>2
<1>9. CASE ServerReceives
  <2> DEFINE q == Head(toServer)
  <2>1. /\ toServer # <<>> /\ toServer' = Tail(toServer) /\ deal' = DealAfter(q)
        /\ ~(q.kind = "cancel" /\ deal # NoDeal) => toClient' = toClient
    BY <1>9 DEF ServerReceives
  <2>2. q.kind # "cancel" /\ deal' = deal
    BY <1>2, <2>1 DEF DealAfter, NoDeal, TradeTypes
  <2>3. q # Packet("acknowledge", deal.partner)
    <3> SUFFICES ASSUME q = Packet("acknowledge", deal.partner) PROVE FALSE
      OBVIOUS
    <3>1. deal' = [deal EXCEPT !.phase = "open"]
      BY <1>2, <2>1, <2>2 DEF DealAfter, Packet
    <3> QED
      BY <1>2, <3>1 DEF TradeTypes
  <2>4. deal.phase = "asked"
    BY <1>2, <2>2
  <2> QED
    BY <1>3, <1>4, <1>5, <2>1, <2>2, <2>3, <2>4
<1>10. ASSUME NEW p \in Players, PartnerAsks(p)
       PROVE  Waits(deal', toClient')
  <2>1. deal'.partner = p /\ toClient' = Append(toClient, Packet("request", p))
    BY <1>10 DEF PartnerAsks, ServerSends, ToClient, NoDeal
  <2>2. /\ Len(toClient') = Len(toClient) + 1 /\ Len(toClient) \in Nat
        /\ toClient'[Len(toClient) + 1] = Packet("request", deal'.partner)
    BY <1>1, <2>1
  <2>3. \E i \in 1 .. Len(toClient') : toClient'[i] = Packet("request", deal'.partner)
    BY <2>2
  <2> QED
    BY <2>3 DEF Waits
<1>11. CASE PartnerEnds
  BY <1>2, <1>11 DEF PartnerEnds, ServerSends, NoDeal
<1>12. CASE PartnerAgrees
  BY <1>2, <1>12 DEF PartnerAgrees, ServerSends, TradeTypes
<1>13. ASSUME NEW i \in Items, PartnerAddsItem(i) PROVE FALSE
  BY <1>2, <1>13 DEF PartnerAddsItem, ServerSends, TradeTypes
<1>14. ASSUME NEW g \in Gold, PartnerOffers(g) PROVE FALSE
  BY <1>2, <1>14 DEF PartnerOffers, ServerSends, TradeTypes
<1>15. ~PartnerChanges /\ ~PartnerAccepts
  BY <1>2 DEF PartnerChanges, PartnerAccepts, ServerSends, TradeTypes
<1> QED
  BY <1>6, <1>7, <1>8, <1>9, <1>10, <1>11, <1>12, <1>13, <1>14, <1>15 DEF Next, GameServer

\* The trade of the server, what is under way and the window go on fitting together.
LEMMA TradeStep ==
    ASSUME TradeInv, Next
    PROVE  TradeInv'
<1> SUFFICES ASSUME ~aborted'
             PROVE  TradeTypes' /\ Asked' /\ NothingYet'
                    /\ \E v : Leads(v, session', toClient', deal')
  BY DEF TradeInv
<1>1. ~aborted
  BY DEF Next, TradeInitiate, TradeCancel, Calls, CallWrites, GameServer, ServerReceives,
     ServerSends, PartnerAsks, PartnerAgrees, PartnerEnds, PartnerAddsItem, PartnerOffers,
     PartnerChanges, PartnerAccepts, Handle, HandleTradeRequest, HandleTradeAcknowledge,
     HandleTradeTerminate, HandleTradeAddItem, HandleTradeReceiveOffer, HandleTradeAccept,
     HandleTradeChangeOffer, Receives
<1>2. TradeTypes /\ Asked /\ NothingYet
  BY <1>1 DEF TradeInv
<1>3. PICK v : Leads(v, session, toClient, deal)
  BY <1>1 DEF TradeInv
<1>4. TradeTypes'
  BY <1>2, SessionKept, DealKept, QueuesKept DEF TradeTypes
<1>5. \E u : Leads(u, session', toClient', deal')
  <2>1. CASE Handle
    BY <1>2, <1>3, <2>1, HandledLeads
  <2>2. CASE GameServer
    BY <1>2, <1>3, <2>2, SentLeads
  <2>3. CASE (\E p \in Players : TradeInitiate(p)) \/ TradeCancel \/ CallWrites
    BY <1>2, <1>3, <2>3, CalledLeads
  <2> QED
    BY <2>1, <2>2, <2>3 DEF Next
<1> QED
  BY <1>2, <1>4, <1>5, AskedKept, NothingYetKept

\* Whatever the calls of plugins, the handlers and the server do at the same time, and even
\* if a write of TradeCancel gets lost, the window fits the server's trade but for what is
\* under way.
THEOREM TradeInvariance == Spec => []TradeInv
<1>1. Init => TradeInv
  <2> SUFFICES ASSUME Init PROVE TradeTypes /\ Asked /\ NothingYet
                                 /\ \E v : Leads(v, session, toClient, deal)
    BY DEF TradeInv
  <2>1. /\ session = FreshSession /\ deal = NoDeal /\ toServer = <<>> /\ toClient = <<>>
    BY DEF Init
  <2>2. TradeTypes /\ Asked /\ NothingYet
    BY <2>1 DEF FreshSession, NoDeal, TradeTypes, Asked, NothingYet, Flags
  <2> DEFINE v == [i \in 1 .. 1 |-> [opened |-> FALSE]]
  <2>3. Len(toClient) = 0 /\ v[1].opened = FALSE
    BY <2>1
  <2>4. Leads(v, session, toClient, deal)
    BY <2>1, <2>3 DEF Leads, Shows, Agreed, FreshSession
  <2> QED
    BY <2>2, <2>4
<1>2. TradeInv /\ [Next]_vars => TradeInv'
  <2>1. CASE UNCHANGED vars
    BY <2>1 DEF vars, TradeInv, TradeTypes, Asked, NothingYet
  <2> QED
    BY <2>1, TradeStep
<1> QED
  BY <1>1, <1>2, PTL DEF Spec

\* When nothing is under way, an open window is a trade that the server has opened.
LEMMA QuietWindow ==
    ASSUME TradeInv, Quiet, GetTraderId # NULL
    PROVE  \E w : /\ "Opened" \in session.state /\ Shows(w, session) /\ Agreed(w, deal)
                  /\ w.opened /\ deal.phase = "open"
<1>1. "Opened" \in session.state
  BY DEF GetTraderId
<1>2. Len(toClient) = 0 /\ Len(toServer) = 0 /\ TradeTypes /\ Asked
  BY DEF Quiet, TradeInv
<1>3. PICK v : Leads(v, session, toClient, deal)
  BY DEF Quiet, TradeInv
<1>4. Shows(v[1], session) /\ Agreed(v[1], deal)
  BY <1>2, <1>3 DEF Leads
<1>5. v[1].opened /\ deal.phase \in {"asked", "open"}
  BY <1>1, <1>4 DEF Shows, Agreed
<1>6. deal.phase # "asked"
  BY <1>2 DEF Asked
<1> QED
  BY <1>1, <1>4, <1>5, <1>6

\* What GetTraderId and GetTradeItems return of an open window is the trade the server has.
THEOREM ShownIsOpen == Spec => []ShownTradeIsOpen
<1>1. TradeInv => ShownTradeIsOpen
  <2> SUFFICES ASSUME TradeInv, Quiet, GetTraderId # NULL
               PROVE  deal.phase = "open" /\ GetTraderId = deal.partner
                      /\ GetTradeItems = deal.items
    BY DEF ShownTradeIsOpen
  <2> QED
    BY QuietWindow DEF Shows, Agreed, GetTraderId, GetTradeItems
<1> QED
  BY <1>1, TradeInvariance, PTL

\* What GetTradeGold returns of an open window is the sum the partner offers.
THEOREM OfferShown == Spec => []OfferIsShown
<1>1. TradeInv => OfferIsShown
  <2> SUFFICES ASSUME TradeInv, Quiet, GetTraderId # NULL, deal.gold # 0
               PROVE  GetTradeGold = deal.gold
    BY DEF OfferIsShown
  <2> QED
    BY QuietWindow DEF Shows, Agreed, GetTradeGold
<1> QED
  BY <1>1, TradeInvariance, PTL

-----------------------------------------------------------------------------
(* The process                                                             *)

\* Nothing is done by a process that has ended.
LEMMA SkillsAreAlive == SB!Next => ended = NULL
  BY Zenon DEF SB!Next, SB!HandleSkillbarUpdate, SB!HandleSkillbarUpdateSkill, SB!UseSkill,
     SB!HeroUseSkill, SB!StartCast, SB!HandleSkillActivate, SB!HandleSkillActivated,
     SB!HandleSkillRecharge, SB!HandleSkillRecharged, SB!HeroEnableSkill, SB!HeroDisableSkill,
     SB!Toggle, SB!HandleHeroSkillStatus, SB!HandleHeroSkillStatusBitmap, SB!ResetWorld, SB!Alive

LEMMA ChatIsAlive == CH!Next => ended = NULL
  BY Zenon DEF CH!Next, CH!HandleChatMessageCore, CH!HandleChatMessageLocal, CH!Ended,
     CH!HandleChatMessageGlobal, CH!HandleChatMessageServer, CH!HandleWhisperReceived,
     CH!PluginSubscribes, CH!GameConnectionEnds, CH!GameSrv_Connect, CH!Alive

LEMMA GuildIsAlive == GU!Next => ended = NULL
  BY Zenon DEF GU!Next, GU!HandleUpdatePlayerInfo, GU!HandleGuildGeneralInfo,
     GU!HandleGuildPlayerRole, GU!HandleGuildPlayerInfo, GU!HandleGuildChangePlayerStatus,
     GU!HandleGuildChangePlayerType, GU!HandleGuildChangePlayerContext,
     GU!HandleGuildPlayerChangeComplete, GU!ResetWorld, GU!Alive

-----------------------------------------------------------------------------
(* The guild                                                               *)

Member == [account_name : Accounts, status : Status \cup {0}, member_type : Types \cup {0}]

Names(members) == {m.account_name : m \in ToSet(members)}

GuildTypes ==
    /\ guilds \in [GuildIds \cup {0} ->
                     [guild_id : GuildIds \cup {0}, members : Seq(Member), capacity : Nat]]
    /\ player \in GuildIds \cup {0, NULL}
    /\ home \in [guild_id : GuildIds \cup {NULL}, told : SUBSET Accounts, inviters : SUBSET Accounts]
    /\ update \in [what : {"none", "context"}, to : {0}] \cup [what : {"status"}, to : Status]
                  \cup [what : {"type"}, to : Types]

\* An entry is described by its own id, and the player's guild is home, unless it was not
\* described when the player got it.
GuildOfMine ==
    /\ \A g \in GuildIds \cup {0} : guilds[g].guild_id \in {0, g}
    /\ home.guild_id # NULL => player \in {0, home.guild_id}
    /\ home.guild_id = NULL => home.told = {}
    /\ player \in GuildIds =>
          player = home.guild_id /\ Names(guilds[player].members) = home.inviters

GuildInv == ended = NULL => GuildTypes /\ GuildOfMine /\ GU!UpdateIsWhole

\* The names after a member was added, and after one was replaced by one of the same name.
LEMMA NamesAppended ==
    ASSUME NEW s \in Seq(Member), NEW m \in Member
    PROVE  Append(s, m) \in Seq(Member) /\ Names(Append(s, m)) = Names(s) \cup {m.account_name}
<1>1. /\ Append(s, m) \in Seq(Member) /\ Len(Append(s, m)) = Len(s) + 1 /\ Len(s) \in Nat
      /\ Append(s, m)[Len(s) + 1] = m
      /\ \A i \in 1 .. Len(s) : Append(s, m)[i] = s[i]
  BY Appended
<1> DEFINE t == Append(s, m)
<1> HIDE DEF t
<1>2. /\ DOMAIN t = 1 .. Len(s) + 1 /\ DOMAIN s = 1 .. Len(s)
      /\ t[Len(s) + 1] = m /\ \A i \in 1 .. Len(s) : t[i] = s[i]
  BY <1>1 DEF t
<1>3. ToSet(t) = ToSet(s) \cup {m}
  BY <1>1, <1>2 DEF ToSet
<1> QED
  BY <1>1, <1>3 DEF Names, t

LEMMA NamesReplaced ==
    ASSUME NEW s \in Seq(Member), NEW n \in DOMAIN s, NEW m \in Member,
           m.account_name = s[n].account_name
    PROVE  [s EXCEPT ![n] = m] \in Seq(Member) /\ Names([s EXCEPT ![n] = m]) = Names(s)
<1> DEFINE t == [s EXCEPT ![n] = m]
<1>1. /\ t \in Seq(Member) /\ DOMAIN t = DOMAIN s /\ t[n] = m
      /\ \A i \in DOMAIN s : i # n => t[i] = s[i]
  OBVIOUS
<1> HIDE DEF t
<1>2. \A i \in DOMAIN s : t[i].account_name = s[i].account_name
  BY <1>1
<1>3. Names(t) = {t[i].account_name : i \in DOMAIN t}
      /\ Names(s) = {s[i].account_name : i \in DOMAIN s}
  BY DEF Names, ToSet
<1>4. Names(t) = Names(s)
  BY <1>1, <1>2, <1>3
<1> QED
  BY <1>1, <1>4 DEF t

\* A member that is found is one of the guild's, and has that name.
LEMMA MemberFound ==
    ASSUME GuildTypes, player # NULL, NEW a, GU!PositionOf(a) # 0
    PROVE  /\ GU!PositionOf(a) \in DOMAIN guilds[player].members
           /\ guilds[player].members[GU!PositionOf(a)].account_name = a
<1> DEFINE hits == {n \in DOMAIN guilds[player].members :
                       guilds[player].members[n].account_name = a}
<1>1. guilds[player].members \in Seq(Member)
  BY DEF GuildTypes
<1>2. hits # {} /\ hits \subseteq Nat
  BY <1>1 DEF GU!PositionOf, GU!MyIndex
<1>3. GU!PositionOf(a) = CHOOSE n \in hits : \A m \in hits : n <= m
  BY <1>2 DEF GU!PositionOf, GU!MyIndex
<1> HIDE DEF hits
<1>4. \E n \in hits : \A m \in hits : n <= m
  BY <1>2, LeastNumber
<1>5. GU!PositionOf(a) \in hits
  BY <1>3, <1>4, Zenon
<1> QED
  BY <1>5 DEF hits

\* Only the members of the player's entry change, and by the names of home.
LEMMA MembersChange ==
    ASSUME GuildTypes, GuildOfMine, player # NULL, NEW t \in Seq(Member), NEW c \in Nat,
           guilds' = [guilds EXCEPT ![player].members = t, ![player].capacity = c],
           player' = player, home'.guild_id = home.guild_id, home.guild_id # NULL,
           home' \in [guild_id : GuildIds \cup {NULL}, told : SUBSET Accounts,
                      inviters : SUBSET Accounts],
           Names(guilds[player].members) = home.inviters => Names(t) = home'.inviters
    PROVE  /\ guilds' \in [GuildIds \cup {0} ->
                             [guild_id : GuildIds \cup {0}, members : Seq(Member), capacity : Nat]]
           /\ GuildOfMine'
<1>1. player \in GuildIds \cup {0}
  BY DEF GuildTypes
<1>2. /\ guilds' \in [GuildIds \cup {0} ->
                        [guild_id : GuildIds \cup {0}, members : Seq(Member), capacity : Nat]]
      /\ \A g \in GuildIds \cup {0} : guilds'[g].guild_id = guilds[g].guild_id
      /\ guilds'[player].members = t
  BY <1>1 DEF GuildTypes
<1> QED
  BY <1>2 DEF GuildOfMine

\* Every packet keeps the guild.
LEMMA GuildStep ==
    ASSUME GuildInv, GU!Next
    PROVE  GuildInv'
<1> SUFFICES ASSUME ended' = NULL PROVE GuildTypes' /\ GuildOfMine' /\ GU!UpdateIsWhole'
  BY DEF GuildInv
<1>1. ended = NULL
  BY GuildIsAlive
<1>2. GuildTypes /\ GuildOfMine /\ GU!UpdateIsWhole
  BY <1>1 DEF GuildInv
<1>3. 0 \notin GuildIds /\ NULL \notin GuildIds \cup {0}
      /\ NULL \notin {"_array_push", "complete_guildmember_update"}
  BY WorldAssumption
<1>4. CASE GU!HandleUpdatePlayerInfo
  BY <1>2, <1>3, <1>4 DEF GU!HandleUpdatePlayerInfo, GuildTypes, GuildOfMine, GU!UpdateIsWhole,
     GU!Alive
<1>5. ASSUME NEW g \in GuildIds, GU!HandleGuildGeneralInfo(g)
      PROVE  GuildTypes' /\ GuildOfMine' /\ GU!UpdateIsWhole'
  <2>1. guilds' = [guilds EXCEPT ![g].guild_id = g, ![g].capacity = 0]
        /\ UNCHANGED <<player, guild_member_update, home, update, ended>>
    BY <1>5 DEF GU!HandleGuildGeneralInfo
  <2>2. /\ guilds' \in [GuildIds \cup {0} ->
                          [guild_id : GuildIds \cup {0}, members : Seq(Member), capacity : Nat]]
        /\ \A h \in GuildIds \cup {0} :
              /\ guilds'[h].members = guilds[h].members
              /\ guilds'[h].guild_id = IF h = g THEN g ELSE guilds[h].guild_id
    <3>1. PICK e : e = [[guilds[g] EXCEPT !.guild_id = g] EXCEPT !.capacity = 0]
      OBVIOUS
    <3>2. /\ e \in [guild_id : GuildIds \cup {0}, members : Seq(Member), capacity : Nat]
          /\ e.guild_id = g /\ e.members = guilds[g].members
      <4>1. PICK r : r = guilds[g]
        OBVIOUS
      <4>2. r \in [guild_id : GuildIds \cup {0}, members : Seq(Member), capacity : Nat]
        BY <1>2, <4>1 DEF GuildTypes
      <4>3. PICK d : d = [r EXCEPT !.guild_id = g]
        OBVIOUS
      <4>4. /\ d \in [guild_id : GuildIds \cup {0}, members : Seq(Member), capacity : Nat]
            /\ d.guild_id = g /\ d.members = r.members
        BY <4>2, <4>3
      <4>5. e = [d EXCEPT !.capacity = 0]
        BY <3>1, <4>1, <4>3
      <4> QED
        BY <4>1, <4>4, <4>5
    <3>3. guilds' = [guilds EXCEPT ![g] = e]
      BY <1>2, <2>1, <3>1 DEF GuildTypes
    <3>4. /\ guilds'[g] = e
          /\ \A h \in GuildIds \cup {0} : h # g => guilds'[h] = guilds[h]
      BY <1>2, <3>3 DEF GuildTypes
    <3>5. guilds' \in [GuildIds \cup {0} ->
                         [guild_id : GuildIds \cup {0}, members : Seq(Member), capacity : Nat]]
      BY <1>2, <3>2, <3>3 DEF GuildTypes
    <3> QED
      BY <3>2, <3>4, <3>5
  <2> QED
    BY <1>2, <1>3, <2>1, <2>2 DEF GuildTypes, GuildOfMine, GU!UpdateIsWhole, GU!Alive
<1>6. ASSUME NEW g \in GuildIds, GU!HandleGuildPlayerRole(g)
      PROVE  GuildTypes' /\ GuildOfMine' /\ GU!UpdateIsWhole'
  <2>1. /\ guilds' = [guilds EXCEPT ![g].members = <<>>, ![g].capacity = 0]
        /\ player' = guilds[g].guild_id
        /\ home' = [guild_id |-> g, told |-> {}, inviters |-> {}]
        /\ UNCHANGED <<guild_member_update, update, ended>>
    BY <1>6 DEF GU!HandleGuildPlayerRole
  <2>2. /\ guilds' \in [GuildIds \cup {0} ->
                          [guild_id : GuildIds \cup {0}, members : Seq(Member), capacity : Nat]]
        /\ guilds'[g].members = <<>>
        /\ \A h \in GuildIds \cup {0} : guilds'[h].guild_id = guilds[h].guild_id
    <3>1. PICK e : e = [[guilds[g] EXCEPT !.members = <<>>] EXCEPT !.capacity = 0]
      OBVIOUS
    <3>2. <<>> \in Seq(Member)
      OBVIOUS
    <3>3. /\ e \in [guild_id : GuildIds \cup {0}, members : Seq(Member), capacity : Nat]
          /\ e.guild_id = guilds[g].guild_id /\ e.members = <<>>
      <4>1. PICK r : r = guilds[g]
        OBVIOUS
      <4>2. r \in [guild_id : GuildIds \cup {0}, members : Seq(Member), capacity : Nat]
        BY <1>2, <4>1 DEF GuildTypes
      <4>3. PICK d : d = [r EXCEPT !.members = <<>>]
        OBVIOUS
      <4>4. /\ d \in [guild_id : GuildIds \cup {0}, members : Seq(Member), capacity : Nat]
            /\ d.guild_id = r.guild_id /\ d.members = <<>>
        BY <3>2, <4>2, <4>3
      <4>5. e = [d EXCEPT !.capacity = 0]
        BY <3>1, <4>1, <4>3
      <4> QED
        BY <4>1, <4>4, <4>5
    <3>4. guilds' = [guilds EXCEPT ![g] = e]
      BY <1>2, <2>1, <3>1 DEF GuildTypes
    <3>5. /\ guilds'[g] = e
          /\ \A h \in GuildIds \cup {0} : h # g => guilds'[h] = guilds[h]
      BY <1>2, <3>4 DEF GuildTypes
    <3>6. guilds' \in [GuildIds \cup {0} ->
                         [guild_id : GuildIds \cup {0}, members : Seq(Member), capacity : Nat]]
      BY <1>2, <3>3, <3>4 DEF GuildTypes
    <3> QED
      BY <3>3, <3>5, <3>6
  <2>3. Names(<<>>) = {}
    BY DEF Names, ToSet
  <2>4. player' \in {0, g}
    BY <1>2, <2>1 DEF GuildOfMine
  <2>5. GuildTypes'
    BY <1>2, <2>1, <2>2, <2>4 DEF GuildTypes
  <2>6. GuildOfMine'
    BY <1>2, <1>3, <2>1, <2>2, <2>3, <2>4 DEF GuildOfMine
  <2> QED
    BY <1>2, <2>1, <2>5, <2>6 DEF GU!UpdateIsWhole, GU!Alive
<1>7. ASSUME NEW a \in Accounts, NEW b \in Accounts, NEW s \in Status, NEW t \in Types,
             GU!HandleGuildPlayerInfo(a, b, s, t)
      PROVE  GuildTypes' /\ GuildOfMine' /\ GU!UpdateIsWhole'
  <2> DEFINE m == [account_name |-> b, status |-> s, member_type |-> t]
             old == guilds[player].members
  <2>1. /\ home.guild_id # NULL
        /\ home' = [home EXCEPT !.told = @ \cup {a}, !.inviters = @ \cup {b}]
        /\ UNCHANGED <<player, guild_member_update, update>>
    BY <1>7 DEF GU!HandleGuildPlayerInfo
  <2>2. player # NULL /\ player \in GuildIds \cup {0}
    BY <1>2, <1>3, <2>1 DEF GuildTypes, GuildOfMine
  <2>3. /\ home' \in [guild_id : GuildIds \cup {NULL}, told : SUBSET Accounts,
                      inviters : SUBSET Accounts]
        /\ home'.guild_id = home.guild_id /\ home'.inviters = home.inviters \cup {b}
    BY <1>2, <2>1 DEF GuildTypes
  <2>4. m \in Member /\ m.account_name = b /\ old \in Seq(Member)
        /\ guilds[player].capacity \in Nat
    BY <1>2, <2>2 DEF GuildTypes, Member
  <2>5. \E u \in Seq(Member), c \in Nat :
           /\ Names(u) = Names(old) \cup {b}
           /\ guilds' = [guilds EXCEPT ![player].members = u, ![player].capacity = c]
    <3>1. CASE GU!PositionOf(b) # 0
      <4> DEFINE n == GU!PositionOf(b)
      <4>1. n \in DOMAIN old /\ old[n].account_name = b
        BY <1>2, <2>2, <3>1, MemberFound
      <4>2. guilds' = [guilds EXCEPT ![player].members[n] = m]
        BY <1>7, <3>1 DEF GU!HandleGuildPlayerInfo, GU!MyIndex
      <4> HIDE DEF n, m
      <4> DEFINE u == [old EXCEPT ![n] = m]
      <4>3. u \in Seq(Member) /\ Names(u) = Names(old)
        BY <2>4, <4>1, NamesReplaced
      <4>4. b \in Names(old)
        BY <4>1 DEF Names, ToSet
      <4>5. guilds' = [guilds EXCEPT ![player].members = u,
                                     ![player].capacity = guilds[player].capacity]
        BY <1>2, <2>2, <4>2 DEF GuildTypes
      <4> HIDE DEF u
      <4>6. Names(u) = Names(old) \cup {b}
        BY <4>3, <4>4
      <4> QED
        BY <2>4, <4>3, <4>5, <4>6
    <3>2. CASE GU!PositionOf(b) = 0
      <4>1. guilds' = [guilds EXCEPT ![player].members = Append(old, m),
                                     ![player].capacity = GU!ARRAY_MIN_CAPACITY]
        BY <1>3, <1>7, <3>2 DEF GU!HandleGuildPlayerInfo, GU!MyIndex
      <4>2. Append(old, m) \in Seq(Member) /\ Names(Append(old, m)) = Names(old) \cup {b}
        BY <2>4, NamesAppended
      <4>3. GU!ARRAY_MIN_CAPACITY \in Nat
        BY DEF GU!ARRAY_MIN_CAPACITY
      <4> QED
        BY <4>1, <4>2, <4>3
    <3> QED
      BY <3>1, <3>2
  <2>6. PICK u \in Seq(Member), c \in Nat :
           /\ Names(u) = Names(old) \cup {b}
           /\ guilds' = [guilds EXCEPT ![player].members = u, ![player].capacity = c]
    BY <2>5
  <2>7. /\ guilds' \in [GuildIds \cup {0} ->
                          [guild_id : GuildIds \cup {0}, members : Seq(Member), capacity : Nat]]
        /\ GuildOfMine'
    BY <1>2, <2>1, <2>2, <2>3, <2>6, MembersChange
  <2>8. GuildTypes'
    BY <1>2, <2>1, <2>3, <2>7 DEF GuildTypes
  <2>9. GU!UpdateIsWhole'
    <3>1. guild_member_update = (IF update.what \in {"none", "context"} THEN GU!NoUpdate
             ELSE IF update.what = "status"
                  THEN [GU!NoUpdate EXCEPT !.pending = TRUE, !.status = update.to]
             ELSE [GU!NoUpdate EXCEPT !.pending = TRUE, !.member_type = update.to])
      BY <1>1, <1>2 DEF GU!UpdateIsWhole, GU!Alive
    <3> QED
      BY <2>1, <3>1 DEF GU!UpdateIsWhole, GU!NoUpdate
  <2> QED
    BY <2>7, <2>8, <2>9
<1>8. ASSUME NEW s \in Status, GU!HandleGuildChangePlayerStatus(s)
      PROVE  GuildTypes' /\ GuildOfMine' /\ GU!UpdateIsWhole'
  <2>1. guild_member_update = GU!NoUpdate
    BY <1>1, <1>2, <1>8 DEF GU!HandleGuildChangePlayerStatus, GU!UpdateIsWhole, GU!Alive, GU!Complete
  <2>2. /\ guild_member_update' = [guild_member_update EXCEPT !.status = s, !.pending = TRUE]
        /\ update' = [what |-> "status", to |-> s]
        /\ UNCHANGED <<guilds, player, home, ended>>
    BY <1>8 DEF GU!HandleGuildChangePlayerStatus
  <2>3. GU!UpdateIsWhole'
    BY <2>1, <2>2 DEF GU!UpdateIsWhole, GU!NoUpdate
  <2> QED
    BY <1>2, <2>2, <2>3 DEF GuildTypes, GuildOfMine
<1>9. ASSUME NEW t \in Types, GU!HandleGuildChangePlayerType(t)
      PROVE  GuildTypes' /\ GuildOfMine' /\ GU!UpdateIsWhole'
  <2>1. guild_member_update = GU!NoUpdate
    BY <1>1, <1>2, <1>9 DEF GU!HandleGuildChangePlayerType, GU!UpdateIsWhole, GU!Alive, GU!Complete
  <2>2. /\ guild_member_update' = [guild_member_update EXCEPT !.member_type = t, !.pending = TRUE]
        /\ update' = [what |-> "type", to |-> t]
        /\ UNCHANGED <<guilds, player, home, ended>>
    BY <1>9 DEF GU!HandleGuildChangePlayerType
  <2>3. GU!UpdateIsWhole'
    BY <2>1, <2>2 DEF GU!UpdateIsWhole, GU!NoUpdate
  <2> QED
    BY <1>2, <2>2, <2>3 DEF GuildTypes, GuildOfMine
<1>10. CASE GU!HandleGuildChangePlayerContext
  <2>1. guild_member_update = GU!NoUpdate
    BY <1>1, <1>2, <1>10 DEF GU!HandleGuildChangePlayerContext, GU!UpdateIsWhole, GU!Alive,
       GU!Complete
  <2>2. /\ update' = [what |-> "context", to |-> 0]
        /\ UNCHANGED <<guilds, player, guild_member_update, home, ended>>
    BY <1>10 DEF GU!HandleGuildChangePlayerContext
  <2> QED
    BY <1>2, <2>1, <2>2 DEF GuildTypes, GuildOfMine, GU!UpdateIsWhole
<1>11. ASSUME NEW a \in Accounts, GU!HandleGuildPlayerChangeComplete(a)
       PROVE  GuildTypes' /\ GuildOfMine' /\ GU!UpdateIsWhole'
  <2> DEFINE n == GU!PositionOf(a)
             old == guilds[player].members
  <2>1. /\ a \in home.told /\ update' = GU!Complete /\ guild_member_update' = GU!NoUpdate
        /\ guild_member_update.pending /\ UNCHANGED <<player, home>>
        /\ guilds' = IF n = 0 THEN guilds
                     ELSE [guilds EXCEPT ![player].members[n] = GU!Updated(@)]
    BY <1>3, <1>11 DEF GU!HandleGuildPlayerChangeComplete, GU!MyIndex
  <2>2. GU!UpdateIsWhole'
    BY <2>1 DEF GU!UpdateIsWhole, GU!Complete
  <2>3. CASE n = 0
    BY <1>2, <2>1, <2>2, <2>3 DEF GuildTypes, GuildOfMine, GU!Complete
  <2>4. CASE n # 0
    <3>1. /\ player # NULL /\ player \in GuildIds \cup {0}
          /\ home.guild_id # NULL
      BY <1>2, <1>3, <2>1, <2>4 DEF GuildTypes, GuildOfMine
    <3>2. n \in DOMAIN old /\ old \in Seq(Member)
      BY <1>2, <2>4, <3>1, MemberFound DEF GuildTypes
    <3>3. /\ guild_member_update.status \in Status \cup {0}
          /\ guild_member_update.member_type \in Types \cup {0}
      <4>1. guild_member_update = (IF update.what \in {"none", "context"} THEN GU!NoUpdate
               ELSE IF update.what = "status"
                    THEN [GU!NoUpdate EXCEPT !.pending = TRUE, !.status = update.to]
               ELSE [GU!NoUpdate EXCEPT !.pending = TRUE, !.member_type = update.to])
        BY <1>1, <1>2 DEF GU!UpdateIsWhole, GU!Alive
      <4>2. \/ update.what \in {"none", "context"}
            \/ update.what = "status" /\ update.to \in Status
            \/ update.what = "type" /\ update.to \in Types
        BY <1>2 DEF GuildTypes
      <4> QED
        BY <4>1, <4>2 DEF GU!NoUpdate
    <3>4. PICK m : m = GU!Updated(old[n])
      OBVIOUS
    <3>5. m \in Member /\ m.account_name = old[n].account_name
      <4>1. old[n] \in Member
        BY <3>2
      <4> QED
        BY <3>3, <3>4, <4>1 DEF GU!Updated, Member
    <3>6. guilds' = [guilds EXCEPT ![player].members[n] = m]
      BY <2>1, <2>4, <3>4
    <3> HIDE DEF n
    <3>7. PICK u : u = [old EXCEPT ![n] = m]
      OBVIOUS
    <3>8. u \in Seq(Member) /\ Names(u) = Names(old)
      BY <3>2, <3>5, <3>7, NamesReplaced
    <3>9. /\ guilds' = [guilds EXCEPT ![player].members = u,
                                      ![player].capacity = guilds[player].capacity]
          /\ guilds[player].capacity \in Nat
      BY <1>2, <3>1, <3>6, <3>7 DEF GuildTypes
    <3>10. /\ home'.guild_id = home.guild_id /\ home'.inviters = home.inviters
           /\ home' \in [guild_id : GuildIds \cup {NULL}, told : SUBSET Accounts,
                         inviters : SUBSET Accounts]
      BY <1>2, <2>1 DEF GuildTypes
    <3>11. /\ guilds' \in [GuildIds \cup {0} ->
                             [guild_id : GuildIds \cup {0}, members : Seq(Member), capacity : Nat]]
           /\ GuildOfMine'
      BY <1>2, <2>1, <3>1, <3>8, <3>9, <3>10, MembersChange
    <3> QED
      BY <1>2, <2>1, <2>2, <3>11 DEF GuildTypes, GU!Complete
  <2> QED
    BY <2>3, <2>4
<1>12. CASE GU!ResetWorld
  BY <1>3, <1>12 DEF GU!ResetWorld, GU!NoGuild, GU!NoUpdate, GU!Homeless, GU!Complete, GU!Indices,
     GuildTypes, GuildOfMine, GU!UpdateIsWhole
<1> QED
  BY <1>4, <1>5, <1>6, <1>7, <1>8, <1>9, <1>10, <1>11, <1>12 DEF GU!Next

\* For any guilds and accounts: of the update of a member nothing is left for the next one,
\* and the members a plugin reads are those of the guild the player is in now.
THEOREM GuildIsMine == WorldSpec => [](GU!UpdateIsWhole /\ GU!RosterIsOfMyGuild)
<1>1. WorldInit => GuildInv
  BY WorldAssumption DEF WorldInit, GU!Init, GU!NoGuild, GU!NoUpdate, GU!Homeless, GU!Complete,
     GU!Indices, GuildInv, GuildTypes, GuildOfMine, GU!UpdateIsWhole
<1>2. GuildInv /\ [WorldNext]_worldVars => GuildInv'
  <2> SUFFICES ASSUME GuildInv, [WorldNext]_worldVars PROVE GuildInv'
    OBVIOUS
  <2>1. CASE UNCHANGED guildVars /\ (ended' = NULL => ended = NULL)
    <3>1. UNCHANGED <<guilds, player, guild_member_update, home, update>>
      BY <2>1 DEF guildVars
    <3> QED
      BY <2>1, <3>1 DEF GuildInv, GuildTypes, GuildOfMine, GU!UpdateIsWhole, GU!Alive
  <2>2. CASE GU!Next
    BY <2>2, GuildStep
  <2>3. GU!Next \/ (UNCHANGED guildVars /\ (ended' = NULL => ended = NULL))
    BY SkillsAreAlive, ChatIsAlive, Zenon DEF WorldNext, worldVars, OnlySkillbars, guildVars
  <2> QED
    BY <2>1, <2>2, <2>3
<1>3. GuildInv => GU!UpdateIsWhole /\ GU!RosterIsOfMyGuild
  <2>1. GuildInv => GU!UpdateIsWhole
    BY DEF GuildInv, GU!UpdateIsWhole, GU!Alive
  <2>2. ASSUME GuildInv, GU!Alive, GU!GetMyGuildId # 0
        PROVE  /\ GU!GetMyGuildId = home.guild_id
               /\ {m.account_name : m \in GU!ToSet(GU!GetGuildMembers)} = home.inviters
    <3>1. GuildTypes /\ GuildOfMine
      BY <2>2 DEF GuildInv, GU!Alive
    <3>2. player \in GuildIds /\ GU!GetMyGuildId = player
      BY <2>2, <3>1 DEF GU!GetMyGuildId, GuildTypes
    <3>3. GU!GetGuildMembers = guilds[player].members
      BY <2>2, <3>2 DEF GU!GetGuildMembers
    <3> QED
      BY <3>1, <3>2, <3>3 DEF GuildOfMine, Names, ToSet, GU!ToSet
  <2>3. GuildInv => GU!RosterIsOfMyGuild
    <3> SUFFICES ASSUME GuildInv, GU!Alive, GU!GetMyGuildId # 0
                 PROVE  /\ GU!GetMyGuildId = home.guild_id
                        /\ {m.account_name : m \in GU!ToSet(GU!GetGuildMembers)} = home.inviters
      BY Zenon DEF GU!RosterIsOfMyGuild
    <3> QED
      BY <2>2
  <2> QED
    BY <2>1, <2>3
<1> QED
  BY <1>1, <1>2, <1>3, PTL DEF WorldSpec

-----------------------------------------------------------------------------
(* The friends                                                             *)

Entry == [uuid : People, account : People, name : People \cup {NULL},
          status : PlayerStatus \cup {0}, zone : Zones \cup {0}]

Told == [known : BOOLEAN, online : BOOLEAN, status : PlayerStatus \cup {0}, zone : Zones \cup {0}]

\* What was said of somebody: nothing before anything else, and no place of who is offline.
ToldInOrder(t) ==
    /\ t \in Told
    /\ ~t.known => t.status = 0 /\ t.zone = 0 /\ ~t.online
    /\ t.status = 0 => t.zone = 0
    /\ t.online => t.status # 0

\* The entry of a friend of whom t was said.
EntryAsTold(e, t) ==
    /\ e \in Entry /\ e.account = e.uuid /\ e.name \in {NULL, e.uuid}
    /\ t.known /\ e.status = t.status /\ e.zone = t.zone

\* Who is known has one entry, and it is as told.
ListAsTold(list, all) ==
    /\ list \in Seq(Entry) /\ all \in [People -> Told]
    /\ \A p \in People : ToldInOrder(all[p])
    /\ \A n \in DOMAIN list : EntryAsTold(list[n], all[list[n].uuid])
    /\ \A m, n \in DOMAIN list : list[m].uuid = list[n].uuid => m = n
    /\ \A p \in People : all[p].known => \E n \in DOMAIN list : list[n].uuid = p

FriendInv == ListAsTold(friends, friends_told)

\* A sequence is the function of its elements.
LEMMA SeqIsFunction ==
    ASSUME NEW E, NEW s \in Seq(E), NEW k, Len(s) = k
    PROVE  s = [m \in 1 .. k |-> s[m]]
<1>1. s \in [1 .. k -> E]
  OBVIOUS
<1> QED
  BY <1>1

\* A known friend's entry is updated.
LEMMA EntryUpdated ==
    ASSUME NEW list, NEW all, ListAsTold(list, all), NEW n \in DOMAIN list, NEW e, NEW t,
           EntryAsTold(e, t), ToldInOrder(t), e.uuid = list[n].uuid
    PROVE  ListAsTold([list EXCEPT ![n] = e], [all EXCEPT ![e.uuid] = t])
<1> DEFINE new == [list EXCEPT ![n] = e]
           said == [all EXCEPT ![e.uuid] = t]
<1>1. e \in Entry /\ e.uuid \in People /\ t \in Told
  BY DEF EntryAsTold, Entry, ToldInOrder
<1>2. /\ new \in Seq(Entry) /\ DOMAIN new = DOMAIN list /\ new[n] = e
      /\ \A m \in DOMAIN list : m # n => new[m] = list[m]
  BY <1>1 DEF ListAsTold
<1>3. /\ said \in [People -> Told] /\ said[e.uuid] = t
      /\ \A p \in People : p # e.uuid => said[p] = all[p]
  BY <1>1 DEF ListAsTold
<1> HIDE DEF new, said
<1>4. \A m \in DOMAIN list : new[m].uuid = list[m].uuid /\ list[m].uuid \in People
  BY <1>2 DEF ListAsTold, EntryAsTold, Entry
<1>5. \A m \in DOMAIN new : EntryAsTold(new[m], said[new[m].uuid])
  BY <1>2, <1>3, <1>4 DEF ListAsTold
<1>6. ListAsTold(new, said)
  BY <1>1, <1>2, <1>3, <1>4, <1>5 DEF ListAsTold
<1> QED
  BY <1>6 DEF new, said

\* Who was not known is added.
LEMMA EntryAdded ==
    ASSUME NEW list, NEW all, ListAsTold(list, all), NEW e, NEW t,
           EntryAsTold(e, t), ToldInOrder(t), ~all[e.uuid].known
    PROVE  ListAsTold(Append(list, e), [all EXCEPT ![e.uuid] = t])
<1> DEFINE new == Append(list, e)
           said == [all EXCEPT ![e.uuid] = t]
           k == Len(list) + 1
<1>1. e \in Entry /\ e.uuid \in People /\ t \in Told /\ t.known
  BY DEF EntryAsTold, Entry, ToldInOrder
<1>2. list \in Seq(Entry)
  BY DEF ListAsTold
<1>3. /\ new \in Seq(Entry) /\ DOMAIN new = 1 .. k /\ DOMAIN list = 1 .. Len(list)
      /\ new[k] = e /\ Len(list) \in Nat
      /\ \A m \in 1 .. Len(list) : new[m] = list[m]
  <2>1. /\ new \in Seq(Entry) /\ Len(new) = k /\ new[k] = e
        /\ \A m \in 1 .. Len(list) : new[m] = list[m]
    BY <1>1, <1>2, Appended
  <2> QED
    BY <1>2, <2>1
<1>4. /\ said \in [People -> Told] /\ said[e.uuid] = t
      /\ \A p \in People : p # e.uuid => said[p] = all[p]
  BY <1>1 DEF ListAsTold
<1> HIDE DEF new, said
<1>5. \A m \in DOMAIN new : m = k \/ m \in DOMAIN list
  BY <1>3
<1>6. \A m \in DOMAIN list : /\ list[m].uuid \in People /\ list[m].uuid # e.uuid
                             /\ new[m] = list[m] /\ m \in DOMAIN new /\ m # k
  <2>1. \A m \in DOMAIN list : EntryAsTold(list[m], all[list[m].uuid])
    BY DEF ListAsTold
  <2> QED
    BY <1>3, <2>1 DEF EntryAsTold, Entry
<1>7. k \in DOMAIN new
  BY <1>3
<1> HIDE DEF k
<1>8. \A m \in DOMAIN new : EntryAsTold(new[m], said[new[m].uuid])
  BY <1>3, <1>4, <1>5, <1>6 DEF ListAsTold
<1>9. \A m, n \in DOMAIN new : new[m].uuid = new[n].uuid => m = n
  BY <1>3, <1>5, <1>6 DEF ListAsTold
<1>10. \A p \in People : said[p].known => \E m \in DOMAIN new : new[m].uuid = p
  BY <1>3, <1>4, <1>6, <1>7 DEF ListAsTold
<1>11. \A p \in People : ToldInOrder(said[p])
  BY <1>4 DEF ListAsTold
<1>12. ListAsTold(new, said)
  BY <1>3, <1>4, <1>8, <1>9, <1>10, <1>11 DEF ListAsTold
<1> QED
  BY <1>12 DEF new, said

\* Whichever of uuid and name a friend is looked up by, it is its entry that is found.
LEMMA FriendFound ==
    ASSUME FriendInv, NEW p \in People, friends_told[p].known
    PROVE  \E n \in DOMAIN friends :
              /\ friends[n].uuid = p /\ n # 0
              /\ FR!get_friend(p, p) = n /\ FR!get_friend(p, NULL) = n /\ FR!get_friend(NULL, p) = n
<1>1. PICK n \in DOMAIN friends : friends[n].uuid = p
  BY DEF FriendInv, ListAsTold
<1>2. n # 0
  <2>1. friends \in Seq(Entry)
    BY DEF FriendInv, ListAsTold
  <2> QED
    BY <1>1, <2>1
<1>3. \A m \in DOMAIN friends : /\ friends[m].uuid = p <=> m = n
                                /\ p \in {friends[m].name, friends[m].account} <=> m = n
  BY <1>1, WorldAssumption DEF FriendInv, ListAsTold, EntryAsTold
<1>4. {m \in DOMAIN friends : p # NULL /\ friends[m].uuid = p} = {n}
      /\ {m \in DOMAIN friends : NULL # NULL /\ friends[m].uuid = NULL} = {}
      /\ {m \in DOMAIN friends : p # NULL /\ p \in {friends[m].name, friends[m].account}} = {n}
  BY <1>1, <1>3, WorldAssumption
<1>5. FR!FirstOf({n}) = n
  <2>1. n \in Nat
    BY <1>1 DEF FriendInv, ListAsTold
  <2> QED
    BY <2>1 DEF FR!FirstOf
<1>6. FR!get_friend(p, p) = n /\ FR!get_friend(p, NULL) = n /\ FR!get_friend(NULL, p) = n
  BY <1>4, <1>5, Zenon DEF FR!get_friend
<1> QED
  BY <1>1, <1>2, <1>6

\* Who is not known is not found.
LEMMA StrangerNotFound ==
    ASSUME FriendInv, NEW p \in People, ~friends_told[p].known
    PROVE  FR!get_friend(p, p) = 0
<1>1. \A m \in DOMAIN friends : friends[m].uuid # p /\ p \notin {friends[m].name, friends[m].account}
  BY WorldAssumption DEF FriendInv, ListAsTold, EntryAsTold
<1> QED
  BY <1>1 DEF FR!get_friend

\* Whatever the server says of somebody, the list stays as told.
LEMMA InfoStep ==
    ASSUME FriendInv, NEW p \in People, FR!HandleFriendUpdateInfo(p)
    PROVE  FriendInv'
<1> DEFINE found == FR!get_or_create_friend(p, p)
           named == [found.list[found.at] EXCEPT !.uuid = p, !.account = p]
<1>1. /\ friends' = [found.list EXCEPT ![found.at] =
                       IF named.status < 1 THEN FR!Offline(named) ELSE named]
      /\ friends_told' = [friends_told EXCEPT ![p].known = TRUE]
  BY DEF FR!HandleFriendUpdateInfo
<1>2. PICK t : t = [friends_told[p] EXCEPT !.known = TRUE]
  OBVIOUS
<1>3. friends_told' = [friends_told EXCEPT ![p] = t]
  BY <1>1, <1>2 DEF FriendInv, ListAsTold
<1>4. ToldInOrder(friends_told[p])
  BY DEF FriendInv, ListAsTold
<1>5. /\ ToldInOrder(t) /\ t.known
      /\ t.status = friends_told[p].status /\ t.zone = friends_told[p].zone
  BY <1>2, <1>4 DEF ToldInOrder, Told
<1>6. CASE friends_told[p].known
  <2>1. PICK n \in DOMAIN friends : friends[n].uuid = p /\ n # 0 /\ FR!get_friend(p, p) = n
    BY <1>6, FriendFound
  <2>2. found.list = friends /\ found.at = n
    BY <2>1 DEF FR!get_or_create_friend
  <2>3. EntryAsTold(friends[n], friends_told[p])
    BY <2>1 DEF FriendInv, ListAsTold
  <2>4. PICK o : o = friends[n]
    OBVIOUS
  <2>5. PICK e : e = IF named.status < 1 THEN FR!Offline(named) ELSE named
    OBVIOUS
  <2>6. EntryAsTold(e, t) /\ e.uuid = p
    <3>1. PICK x : x = named
      OBVIOUS
    <3>2. x = [o EXCEPT !.uuid = p, !.account = p]
      BY <2>2, <2>4, <3>1
    <3>3. EntryAsTold(x, t) /\ x.uuid = p
      BY <1>5, <2>1, <2>3, <2>4, <3>2 DEF EntryAsTold, Entry
    <3>4. e = IF x.status < 1 THEN FR!Offline(x) ELSE x
      BY <2>5, <3>1
    <3>5. CASE x.status < 1
      <4>1. x.status = 0 /\ t.status = 0 /\ t.zone = 0
        <5>1. x.status \in Nat
          <6>1. PlayerStatus \subseteq Nat
            BY WorldAssumption
          <6>2. x.status \in PlayerStatus \cup {0}
            BY <3>3 DEF EntryAsTold, Entry
          <6>3. 0 \in Nat
            OBVIOUS
          <6> HIDE DEF found, named
          <6> QED
            BY <6>1, <6>2, <6>3, Zenon
        <5>2. x.status = 0
          BY <3>5, <5>1
        <5> QED
          BY <1>5, <3>3, <5>2 DEF EntryAsTold, ToldInOrder
      <4>2. e = [x EXCEPT !.status = 0, !.name = NULL, !.zone = 0]
        BY <3>4, <3>5 DEF FR!Offline
      <4> QED
        BY <3>3, <4>1, <4>2 DEF EntryAsTold, Entry
    <3> QED
      BY <3>3, <3>4, <3>5
  <2>7. friends' = [friends EXCEPT ![n] = e]
    BY <1>1, <2>2, <2>5
  <2> QED
    BY <1>3, <1>5, <2>1, <2>6, <2>7, EntryUpdated DEF FriendInv
<1>7. CASE ~friends_told[p].known
  <2> DEFINE k == Len(friends) + 1
             fresh == Append(friends, FR!NewFriend)
  <2>1. found.list = fresh /\ found.at = k
    BY <1>7, StrangerNotFound DEF FR!get_or_create_friend
  <2>2. friends \in Seq(Entry)
    BY DEF FriendInv, ListAsTold
  <2>3. /\ fresh[k] = FR!NewFriend /\ DOMAIN fresh = 1 .. k /\ Len(friends) \in Nat
        /\ \A m \in 1 .. Len(friends) : fresh[m] = friends[m]
        /\ fresh = [m \in 1 .. k |-> fresh[m]]
    <3>1. PICK x : x = FR!NewFriend
      OBVIOUS
    <3>2. PICK E : E = Entry \cup {x}
      OBVIOUS
    <3>3. friends \in Seq(E) /\ x \in E
      BY <2>2, <3>2
    <3>4. /\ fresh \in Seq(E) /\ Len(fresh) = k /\ fresh[k] = x
          /\ \A m \in 1 .. Len(friends) : fresh[m] = friends[m]
      BY <3>1, <3>3, Appended
    <3>5. fresh = [m \in 1 .. k |-> fresh[m]]
      BY <3>4, SeqIsFunction
    <3> QED
      BY <2>2, <3>1, <3>4, <3>5
  <2>4. PICK x : x = named
    OBVIOUS
  <2>5. x = [uuid |-> p, account |-> p, name |-> NULL, status |-> 0, zone |-> 0]
    <3>1. x = [FR!NewFriend EXCEPT !.uuid = p, !.account = p]
      BY <2>1, <2>3, <2>4
    <3> QED
      BY <3>1 DEF FR!NewFriend
  <2>6. PICK e : e = FR!Offline(x)
    OBVIOUS
  <2>7. EntryAsTold(e, t) /\ e.uuid = p
    <3>1. x \in Entry /\ x.uuid = p /\ x.account = p /\ x.name = NULL
      BY <2>5 DEF Entry
    <3>2. e \in Entry /\ e.uuid = p /\ e.account = p /\ e.status = 0 /\ e.zone = 0 /\ e.name = NULL
      BY <2>6, <3>1 DEF FR!Offline, Entry
    <3> QED
      BY <1>4, <1>5, <1>7, <3>2 DEF EntryAsTold, ToldInOrder
  <2>8. friends' = [fresh EXCEPT ![k] = e]
    <3>1. x.status < 1
      <4> HIDE DEF found, named
      <4> QED
        BY <2>5
    <3>2. friends' = [fresh EXCEPT ![k] = IF x.status < 1 THEN FR!Offline(x) ELSE x]
      BY <1>1, <2>1, <2>4
    <3> QED
      BY <2>6, <3>1, <3>2
  <2>9. friends' = Append(friends, e)
    <3>1. friends' = [m \in 1 .. k |-> IF m = k THEN e ELSE fresh[m]]
      <4> HIDE DEF fresh, k
      <4> QED
        BY <2>3, <2>8
    <3>2. e \in Entry
      BY <2>7 DEF EntryAsTold
    <3>3. /\ Append(friends, e) = [m \in 1 .. k |-> Append(friends, e)[m]]
          /\ Append(friends, e)[k] = e
          /\ \A m \in 1 .. Len(friends) : Append(friends, e)[m] = friends[m]
      <4>1. /\ Append(friends, e) \in Seq(Entry) /\ Len(Append(friends, e)) = k
            /\ Append(friends, e)[k] = e
            /\ \A m \in 1 .. Len(friends) : Append(friends, e)[m] = friends[m]
        BY <2>2, <3>2, Appended
      <4>2. Append(friends, e) = [m \in 1 .. k |-> Append(friends, e)[m]]
        BY <4>1, SeqIsFunction
      <4> QED
        BY <4>1, <4>2
    <3>4. \A m \in 1 .. k : m = k \/ m \in 1 .. Len(friends)
      BY <2>3
    <3> HIDE DEF fresh, k
    <3>5. \A m \in 1 .. k : friends'[m] = Append(friends, e)[m]
      BY <2>3, <3>1, <3>3, <3>4
    <3>6. friends' = [m \in 1 .. k |-> friends'[m]]
      BY <3>1
    <3> QED
      BY <3>3, <3>5, <3>6
  <2> QED
    BY <1>3, <1>5, <1>7, <2>7, <2>9, EntryAdded DEF FriendInv
<1> QED
  BY <1>6, <1>7

LEMMA StatusStep ==
    ASSUME FriendInv, NEW p \in People, NEW s \in PlayerStatus, FR!HandleFriendUpdateStatus(p, s)
    PROVE  FriendInv'
<1> DEFINE found == FR!get_or_create_friend(p, NULL)
<1>1. /\ friends_told[p].known
      /\ friends' = [found.list EXCEPT ![found.at] =
                       IF s < 1 THEN FR!Offline(@) ELSE [@ EXCEPT !.status = s, !.name = p]]
      /\ friends_told' = [friends_told EXCEPT ![p] =
                            [known |-> @.known, online |-> s # 0, status |-> s,
                             zone |-> IF s = 0 THEN 0 ELSE @.zone]]
  BY DEF FR!HandleFriendUpdateStatus
<1>2. PICK t : t = [known |-> friends_told[p].known, online |-> s # 0, status |-> s,
                    zone |-> IF s = 0 THEN 0 ELSE friends_told[p].zone]
  OBVIOUS
<1>3. friends_told' = [friends_told EXCEPT ![p] = t]
  BY <1>1, <1>2 DEF FriendInv, ListAsTold
<1>4. ToldInOrder(friends_told[p])
  BY DEF FriendInv, ListAsTold
<1>5. ToldInOrder(t) /\ t.known /\ t.status = s
      /\ t.zone = IF s = 0 THEN 0 ELSE friends_told[p].zone
  BY <1>1, <1>2, <1>4 DEF ToldInOrder, Told
<1>6. PICK n \in DOMAIN friends : friends[n].uuid = p /\ n # 0 /\ FR!get_friend(p, NULL) = n
  BY <1>1, FriendFound
<1>7. found.list = friends /\ found.at = n
  BY <1>6 DEF FR!get_or_create_friend
<1>8. PICK o : o = friends[n]
  OBVIOUS
<1>9. EntryAsTold(o, friends_told[p]) /\ o.uuid = p
  BY <1>6, <1>8 DEF FriendInv, ListAsTold
<1>10. PICK e : e = IF s < 1 THEN FR!Offline(o) ELSE [o EXCEPT !.status = s, !.name = p]
  OBVIOUS
<1>11. s < 1 <=> s = 0
  BY WorldAssumption
<1>12. EntryAsTold(e, t) /\ e.uuid = p
  BY <1>5, <1>9, <1>10, <1>11 DEF EntryAsTold, Entry, FR!Offline
<1>13. friends' = [friends EXCEPT ![n] = e]
  BY <1>1, <1>7, <1>8, <1>10
<1> QED
  BY <1>3, <1>5, <1>6, <1>12, <1>13, EntryUpdated DEF FriendInv

LEMMA LocationStep ==
    ASSUME FriendInv, NEW p \in People, NEW z \in Zones, FR!HandleFriendUpdateLocation(p, z)
    PROVE  FriendInv'
<1> DEFINE found == FR!get_or_create_friend(NULL, p)
<1>1. /\ friends_told[p].known /\ friends_told[p].online
      /\ friends' = [found.list EXCEPT ![found.at].zone = z]
      /\ friends_told' = [friends_told EXCEPT ![p].zone = z]
  BY DEF FR!HandleFriendUpdateLocation
<1>2. PICK t : t = [friends_told[p] EXCEPT !.zone = z]
  OBVIOUS
<1>3. friends_told' = [friends_told EXCEPT ![p] = t]
  BY <1>1, <1>2 DEF FriendInv, ListAsTold
<1>4. ToldInOrder(friends_told[p])
  BY DEF FriendInv, ListAsTold
<1>5. ToldInOrder(t) /\ t.known /\ t.status = friends_told[p].status /\ t.zone = z
  BY <1>1, <1>2, <1>4 DEF ToldInOrder, Told
<1>6. PICK n \in DOMAIN friends : friends[n].uuid = p /\ n # 0 /\ FR!get_friend(NULL, p) = n
  BY <1>1, FriendFound
<1>7. found.list = friends /\ found.at = n
  BY <1>6 DEF FR!get_or_create_friend
<1>8. PICK o : o = friends[n]
  OBVIOUS
<1>9. EntryAsTold(o, friends_told[p]) /\ o.uuid = p
  BY <1>6, <1>8 DEF FriendInv, ListAsTold
<1>10. PICK e : e = [o EXCEPT !.zone = z]
  OBVIOUS
<1>11. EntryAsTold(e, t) /\ e.uuid = p
  BY <1>5, <1>9, <1>10 DEF EntryAsTold, Entry
<1>12. friends' = [friends EXCEPT ![n] = e]
  BY <1>1, <1>7, <1>8, <1>10
<1> QED
  BY <1>3, <1>5, <1>6, <1>11, <1>12, EntryUpdated DEF FriendInv

\* For any people and zones: a friend has one entry, with the status and the place that the
\* auth server has last told.
THEOREM FriendsAsTold == WorldSpec => []FR!FriendsAreAsTold
<1>1. WorldInit => FriendInv
  <2> SUFFICES ASSUME WorldInit PROVE FriendInv
    OBVIOUS
  <2>1. friends = <<>> /\ friends_told = [p \in People |-> FR!Untold]
    BY DEF WorldInit, FR!Init
  <2>2. <<>> \in Seq(Entry) /\ DOMAIN <<>> = {}
    OBVIOUS
  <2>3. \A p \in People : friends_told[p] = FR!Untold
    BY <2>1
  <2>4. ToldInOrder(FR!Untold) /\ ~FR!Untold.known /\ FR!Untold \in Told
    BY DEF ToldInOrder, FR!Untold, Told
  <2>5. friends_told \in [People -> Told]
    BY <2>1, <2>4
  <2> QED
    BY <2>1, <2>2, <2>3, <2>4, <2>5 DEF FriendInv, ListAsTold
<1>2. FriendInv /\ [WorldNext]_worldVars => FriendInv'
  <2> SUFFICES ASSUME FriendInv, [WorldNext]_worldVars PROVE FriendInv'
    OBVIOUS
  <2>1. CASE UNCHANGED friendVars
    BY <2>1 DEF friendVars, FriendInv
  <2>2. CASE FR!Next
    BY <2>2, InfoStep, StatusStep, LocationStep DEF FR!Next
  <2> QED
    BY <2>1, <2>2, Zenon DEF WorldNext, worldVars, OnlySkillbars
<1>3. FriendInv => FR!FriendsAreAsTold
  <2> SUFFICES ASSUME FriendInv, NEW p \in People, friends_told[p].known
               PROVE  /\ {[status |-> f.status, zone |-> f.zone, account |-> f.account]
                           : f \in {g \in FR!ToSet(friends) : p \in {g.uuid, g.account, g.name}}}
                         = {[status |-> friends_told[p].status, zone |-> friends_told[p].zone,
                             account |-> p]}
                      /\ \A m, n \in DOMAIN friends :
                            friends[m].uuid = p /\ friends[n].uuid = p => m = n
    BY Zenon DEF FR!FriendsAreAsTold
  <2>1. PICK n \in DOMAIN friends : friends[n].uuid = p
    BY DEF FriendInv, ListAsTold
  <2>2. PICK e : e = friends[n]
    OBVIOUS
  <2>3. EntryAsTold(e, friends_told[p])
    BY <2>1, <2>2 DEF FriendInv, ListAsTold
  <2>4. \A m \in DOMAIN friends :
           p \in {friends[m].uuid, friends[m].account, friends[m].name} <=> m = n
    BY <2>1, WorldAssumption DEF FriendInv, ListAsTold, EntryAsTold
  <2>5. {g \in FR!ToSet(friends) : p \in {g.uuid, g.account, g.name}} = {e}
    BY <2>1, <2>2, <2>4 DEF FR!ToSet
  <2>6. [status |-> e.status, zone |-> e.zone, account |-> e.account]
          = [status |-> friends_told[p].status, zone |-> friends_told[p].zone, account |-> p]
    BY <2>1, <2>2, <2>3 DEF EntryAsTold
  <2>7. \A m, k \in DOMAIN friends : friends[m].uuid = p /\ friends[k].uuid = p => m = k
    BY DEF FriendInv, ListAsTold
  <2> QED
    BY <2>5, <2>6, <2>7
<1> QED
  BY <1>1, <1>2, <1>3, PTL DEF WorldSpec

-----------------------------------------------------------------------------
(* The skill bars                                                          *)

SlotType == [skill_id : Skills \cup {0}, casting : BOOLEAN, casting_confirmed : BOOLEAN,
             recharging : BOOLEAN, disable : BOOLEAN]

Served == [requests : Nat, casting : BOOLEAN, recharging : BOOLEAN, disabled : BOOLEAN]

\* What a slot shows is said by what the server knows of its skill.
Backed(f, e) ==
    /\ f.casting => e.requests > 0 \/ e.casting
    /\ f.casting_confirmed => e.casting
    /\ f.recharging => e.recharging
    /\ f.disable => e.disabled

\* A bar has no skill twice, and an empty slot shows nothing.
BarAsServed(bar, known) ==
    /\ bar \in [Positions -> SlotType]
    /\ \A m, n \in Positions :
          bar[m].skill_id = bar[n].skill_id /\ bar[m].skill_id # 0 => m = n
    /\ \A n \in Positions :
          IF bar[n].skill_id = 0
          THEN ~bar[n].casting /\ ~bar[n].casting_confirmed /\ ~bar[n].recharging /\ ~bar[n].disable
          ELSE Backed(bar[n], known[bar[n].skill_id])

\* Nothing disabled is missing in the bar.
BarIsTold(bar, known) ==
    \A n \in Positions :
        bar[n].skill_id # 0 /\ known[bar[n].skill_id].disabled => bar[n].disable

\* The bars, what the server knows, the toggles on their way, and whose bitmap is to come.
SkillsAre(bs, sv, tg, bm) ==
    /\ bs \in [Agents -> {NULL} \cup [Positions -> SlotType]]
    /\ sv \in [Agents -> [Skills -> Served]]
    /\ tg \in Seq([hero : SB!Heroes, slot : Positions])
    /\ \A i \in DOMAIN tg : bs[tg[i].hero] # NULL
    /\ bm \in SB!Heroes \cup {NULL}
    /\ bm # NULL => bs[bm] # NULL
    /\ \A a \in Agents : bs[a] # NULL =>
          /\ BarAsServed(bs[a], sv[a])
          /\ a \in SB!Heroes /\ bm # a => BarIsTold(bs[a], sv[a])

SkillInv == ended = NULL => SkillsAre(bars, server, toggles, bitmap)

\* One agent's bar changes, and what the server knows of it.
LEMMA AgentChanges ==
    ASSUME NEW bs, NEW sv, NEW tg, NEW bm, SkillsAre(bs, sv, tg, bm),
           NEW a \in Agents, NEW b, NEW k \in [Skills -> Served],
           BarAsServed(b, k), NEW bn \in SB!Heroes \cup {NULL}, bn # NULL => bn = a \/ bn = bm,
           bm # a => bm = bn \/ bm = NULL,
           a \in SB!Heroes /\ bn # a => BarIsTold(b, k)
    PROVE  SkillsAre([bs EXCEPT ![a] = b], [sv EXCEPT ![a] = k], tg, bn)
<1> DEFINE bt == [bs EXCEPT ![a] = b]
           st == [sv EXCEPT ![a] = k]
<1>1. b \in [Positions -> SlotType] /\ b # NULL
  BY WorldAssumption DEF BarAsServed, SlotType
<1>2. /\ bt \in [Agents -> {NULL} \cup [Positions -> SlotType]]
      /\ bt[a] = b /\ \A h \in Agents : h # a => bt[h] = bs[h]
  BY <1>1 DEF SkillsAre
<1>3. /\ st \in [Agents -> [Skills -> Served]]
      /\ st[a] = k /\ \A h \in Agents : h # a => st[h] = sv[h]
  BY DEF SkillsAre
<1> HIDE DEF bt, st
<1>4. tg \in Seq([hero : SB!Heroes, slot : Positions])
  BY DEF SkillsAre
<1>5. \A i \in DOMAIN tg : tg[i].hero \in Agents
  <2>1. PICK R : R = [hero : SB!Heroes, slot : Positions]
    OBVIOUS
  <2>2. tg \in Seq(R)
    BY <1>4, <2>1
  <2>3. \A i \in DOMAIN tg : tg[i] \in R
    BY <2>2
  <2> QED
    BY <2>1, <2>3 DEF SB!Heroes
<1>6. \A i \in DOMAIN tg : bt[tg[i].hero] # NULL
  BY <1>1, <1>2, <1>5 DEF SkillsAre
<1>7. bn # NULL => bt[bn] # NULL
  BY <1>1, <1>2 DEF SkillsAre, SB!Heroes
<1>8. ASSUME NEW h \in Agents, bt[h] # NULL
      PROVE  BarAsServed(bt[h], st[h]) /\ (h \in SB!Heroes /\ bn # h => BarIsTold(bt[h], st[h]))
  <2>1. CASE h = a
    BY <1>2, <1>3, <2>1
  <2>2. CASE h # a
    <3>1. bt[h] = bs[h] /\ st[h] = sv[h]
      BY <1>2, <1>3, <2>2
    <3>2. bn # h => bm # h \/ h = NULL
      BY <2>2
    <3>3. h # NULL
      BY WorldAssumption
    <3> QED
      BY <1>8, <3>1, <3>2, <3>3 DEF SkillsAre
  <2> QED
    BY <2>1, <2>2
<1>9. SkillsAre(bt, st, tg, bn)
  BY <1>2, <1>3, <1>4, <1>6, <1>7, <1>8 DEF SkillsAre
<1> QED
  BY <1>9 DEF bt, st

\* Only what the server knows of an agent without a bar changes.
LEMMA BarlessChanges ==
    ASSUME NEW bs, NEW sv, NEW tg, NEW bm, SkillsAre(bs, sv, tg, bm),
           NEW a \in Agents, NEW k \in [Skills -> Served], bs[a] = NULL
    PROVE  SkillsAre(bs, [sv EXCEPT ![a] = k], tg, bm)
<1> DEFINE st == [sv EXCEPT ![a] = k]
<1>1. /\ st \in [Agents -> [Skills -> Served]]
      /\ st[a] = k /\ \A h \in Agents : h # a => st[h] = sv[h]
  BY DEF SkillsAre
<1> HIDE DEF st
<1>2. SkillsAre(bs, st, tg, bm)
  BY <1>1 DEF SkillsAre
<1> QED
  BY <1>2 DEF st

\* A skill is found where it is.
LEMMA SlotFound ==
    ASSUME NEW a \in Agents, NEW s \in Skills
    PROVE  /\ SB!SlotOf(a, s) # 0 =>
                 /\ bars[a] # NULL /\ SB!SlotOf(a, s) \in Positions
                 /\ bars[a][SB!SlotOf(a, s)].skill_id = s
           /\ SB!SlotOf(a, s) = 0 /\ bars[a] # NULL => \A n \in Positions : bars[a][n].skill_id # s
<1> DEFINE hits == IF bars[a] = NULL THEN {} ELSE {n \in Positions : bars[a][n].skill_id = s}
<1>1. SB!SlotOf(a, s) = IF hits = {} THEN 0 ELSE CHOOSE n \in hits : \A m \in hits : n <= m
  BY DEF SB!SlotOf
<1>2. hits \subseteq Positions /\ \A n \in hits : bars[a] # NULL /\ bars[a][n].skill_id = s
  OBVIOUS
<1>3. bars[a] # NULL => \A n \in Positions : bars[a][n].skill_id = s => n \in hits
  OBVIOUS
<1> HIDE DEF hits
<1>4. Positions \subseteq Nat /\ 0 \notin Positions
  BY WorldAssumption
<1>5. CASE hits # {}
  <2>1. \E n \in hits : \A m \in hits : n <= m
    BY <1>2, <1>4, <1>5, LeastNumber
  <2>2. SB!SlotOf(a, s) \in hits
    BY <1>1, <1>5, <2>1, Zenon
  <2> QED
    BY <1>2, <1>4, <2>2
<1>6. CASE hits = {}
  BY <1>1, <1>3, <1>6
<1> QED
  BY <1>5, <1>6

\* One skill of an agent changes, in its slot if it has one and in what the server knows.
LEMMA SkillChanges ==
    ASSUME SkillsAre(bars, server, toggles, bitmap), NEW a \in Agents, NEW s \in Skills,
           NEW e \in Served, e.disabled = server[a][s].disabled, NEW f,
           SB!ChangeSkill(a, s, f), server' = [server EXCEPT ![a][s] = e],
           UNCHANGED <<toggles, bitmap>>,
           SB!SlotOf(a, s) # 0 =>
               /\ f \in SlotType /\ f.skill_id = s /\ f.disable = SB!SkillOf(a, s).disable
               /\ Backed(f, e)
    PROVE  SkillsAre(bars', server', toggles', bitmap')
<1> SUFFICES SkillsAre(bars', server', toggles, bitmap)
  BY Zenon
<1>1. PICK k : k = [server[a] EXCEPT ![s] = e]
  OBVIOUS
<1>2. server' = [server EXCEPT ![a] = k]
  BY <1>1
<1>3. server[a] \in [Skills -> Served] /\ bitmap \in SB!Heroes \cup {NULL}
  BY DEF SkillsAre
<1>4. k \in [Skills -> Served] /\ k[s] = e /\ \A t \in Skills : t # s => k[t] = server[a][t]
  BY <1>1, <1>3
<1>5. CASE bars[a] = NULL
  <2>1. bars' = bars
    BY <1>5, SlotFound DEF SB!ChangeSkill
  <2> QED
    <3>1. SkillsAre(bars, [server EXCEPT ![a] = k], toggles, bitmap)
      BY <1>4, <1>5, BarlessChanges
    <3> QED
      BY <1>2, <2>1, <3>1, Zenon
<1>6. CASE bars[a] # NULL
  <2>1. /\ BarAsServed(bars[a], server[a])
        /\ a \in SB!Heroes /\ bitmap # a => BarIsTold(bars[a], server[a])
        /\ bars \in [Agents -> {NULL} \cup [Positions -> SlotType]]
    BY <1>6 DEF SkillsAre
  <2>2. PICK b : b = IF SB!SlotOf(a, s) = 0 THEN bars[a] ELSE [bars[a] EXCEPT ![SB!SlotOf(a, s)] = f]
    OBVIOUS
  <2>3. bars' = [bars EXCEPT ![a] = b]
    BY <2>1, <2>2 DEF SB!ChangeSkill
  <2>4. \A n \in Positions :
           /\ b[n] = (IF bars[a][n].skill_id = s THEN f ELSE bars[a][n])
           /\ bars[a][n].skill_id = s =>
                 /\ f \in SlotType /\ f.skill_id = s /\ f.disable = bars[a][n].disable
                 /\ Backed(f, e)
    <3>1. CASE SB!SlotOf(a, s) = 0
      BY <1>6, <2>2, <3>1, SlotFound
    <3>2. CASE SB!SlotOf(a, s) # 0
      <4>1. PICK p \in Positions : p = SB!SlotOf(a, s) /\ bars[a][p].skill_id = s
        BY <3>2, SlotFound
      <4>2. b = [bars[a] EXCEPT ![p] = f]
        BY <2>2, <3>2, <4>1
      <4>3. \A n \in Positions : bars[a][n].skill_id = s => n = p
        BY <2>1, <4>1, WorldAssumption DEF BarAsServed
      <4>4. bars[a] \in [Positions -> SlotType]
        BY <2>1 DEF BarAsServed
      <4> QED
        BY <3>2, <4>1, <4>2, <4>3, <4>4 DEF SB!SkillOf
    <3> QED
      BY <3>1, <3>2
  <2>5. b \in [Positions -> SlotType]
    <3>1. bars[a] \in [Positions -> SlotType]
      BY <2>1 DEF BarAsServed
    <3>2. CASE SB!SlotOf(a, s) = 0
      BY <2>2, <3>1, <3>2
    <3>3. CASE SB!SlotOf(a, s) # 0
      BY <2>2, <3>1, <3>3, SlotFound
    <3> QED
      BY <3>2, <3>3
  <2>6. \A n \in Positions : b[n].skill_id = bars[a][n].skill_id
                             /\ bars[a][n].skill_id \in Skills \cup {0}
    BY <2>1, <2>4 DEF BarAsServed, SlotType
  <2>7. s # 0
    BY WorldAssumption
  <2>8. BarAsServed(b, k)
    BY <1>4, <2>1, <2>4, <2>5, <2>6, <2>7 DEF BarAsServed
  <2>9. a \in SB!Heroes /\ bitmap # a => BarIsTold(b, k)
    BY <1>4, <2>1, <2>4, <2>6 DEF BarIsTold
  <2> QED
    <3>1. SkillsAre([bars EXCEPT ![a] = b], [server EXCEPT ![a] = k], toggles, bitmap)
      BY <1>3, <1>4, <2>8, <2>9, AgentChanges
    <3> QED
      BY <1>2, <2>3, <3>1, Zenon
<1> QED
  BY <1>5, <1>6

\* Every packet and every call keeps the bars.
LEMMA BarStep ==
    ASSUME SkillsAre(bars, server, toggles, bitmap), NEW a \in Agents,
           NEW ids \in [Positions -> Skills \cup {0}], SB!HandleSkillbarUpdate(a, ids)
    PROVE  SkillsAre(bars', server', toggles', bitmap')
<1>1. /\ SB!IsBar(ids) /\ bitmap \in {NULL, a}
      /\ bars' = [bars EXCEPT ![a] = [n \in Positions |-> SB!Slot(ids[n])]]
      /\ bitmap' = (IF a \in SB!Heroes THEN a ELSE bitmap)
      /\ server' = server /\ toggles' = toggles
  BY DEF SB!HandleSkillbarUpdate
<1>2. PICK b : b = [n \in Positions |-> SB!Slot(ids[n])]
  OBVIOUS
<1>3. \A n \in Positions : /\ b[n] = SB!Slot(ids[n]) /\ b[n] \in SlotType /\ b[n].skill_id = ids[n]
                           /\ ~b[n].casting /\ ~b[n].casting_confirmed
                           /\ ~b[n].recharging /\ ~b[n].disable
  BY <1>2 DEF SB!Slot, SlotType
<1>4. BarAsServed(b, server[a])
  <2>1. b \in [Positions -> SlotType]
    BY <1>2, <1>3
  <2> QED
    BY <1>1, <1>3, <2>1 DEF BarAsServed, SB!IsBar, Backed
<1>5. /\ server \in [Agents -> [Skills -> Served]] /\ server[a] \in [Skills -> Served]
      /\ bitmap \in SB!Heroes \cup {NULL}
  BY DEF SkillsAre
<1>6. PICK bn : bn = IF a \in SB!Heroes THEN a ELSE bitmap
  OBVIOUS
<1>7. /\ bn \in SB!Heroes \cup {NULL} /\ (bn # NULL => bn = a \/ bn = bitmap)
      /\ (bitmap # a => bitmap = bn \/ bitmap = NULL)
      /\ ~(a \in SB!Heroes /\ bn # a)
  BY <1>1, <1>5, <1>6
<1>8. SkillsAre([bars EXCEPT ![a] = b], [server EXCEPT ![a] = server[a]], toggles, bn)
  BY <1>4, <1>5, <1>7, AgentChanges
<1>9. [server EXCEPT ![a] = server[a]] = server
  BY <1>5
<1> QED
  BY <1>1, <1>2, <1>6, <1>8, <1>9, Zenon

LEMMA BarSkillStep ==
    ASSUME SkillsAre(bars, server, toggles, bitmap), NEW a \in Agents, NEW n \in Positions,
           NEW id \in Skills \cup {0}, SB!HandleSkillbarUpdateSkill(a, n, id)
    PROVE  SkillsAre(bars', server', toggles', bitmap')
<1>1. /\ bars[a] # NULL
      /\ SB!IsBar([m \in Positions |-> IF m = n THEN id ELSE bars[a][m].skill_id])
      /\ bars' = [bars EXCEPT ![a][n] = SB!Slot(id)]
      /\ server' = (IF id = 0 THEN server ELSE [server EXCEPT ![a][id].disabled = FALSE])
      /\ toggles' = toggles /\ bitmap' = bitmap
  BY DEF SB!HandleSkillbarUpdateSkill
<1>2. PICK o : o = bars[a]
  OBVIOUS
<1>3. /\ BarAsServed(o, server[a]) /\ (a \in SB!Heroes /\ bitmap # a => BarIsTold(o, server[a]))
      /\ bars \in [Agents -> {NULL} \cup [Positions -> SlotType]]
      /\ server \in [Agents -> [Skills -> Served]] /\ server[a] \in [Skills -> Served]
      /\ bitmap \in SB!Heroes \cup {NULL}
  BY <1>1, <1>2 DEF SkillsAre
<1>4. PICK f : f = SB!Slot(id)
  OBVIOUS
<1>5. /\ f \in SlotType /\ f.skill_id = id
      /\ ~f.casting /\ ~f.casting_confirmed /\ ~f.recharging /\ ~f.disable
  BY <1>4 DEF SB!Slot, SlotType
<1>6. PICK b : b = [o EXCEPT ![n] = f]
  OBVIOUS
<1>7. o \in [Positions -> SlotType]
  BY <1>3 DEF BarAsServed
<1>8. b \in [Positions -> SlotType] /\ b[n] = f /\ \A m \in Positions : m # n => b[m] = o[m]
  BY <1>5, <1>6, <1>7
<1>9. PICK k : k = IF id = 0 THEN server[a] ELSE [server[a] EXCEPT ![id].disabled = FALSE]
  OBVIOUS
<1>10. bars' = [bars EXCEPT ![a] = b]
  BY <1>1, <1>2, <1>4, <1>6
<1>11. server' = [server EXCEPT ![a] = k]
  BY <1>1, <1>3, <1>9
<1>12. /\ k \in [Skills -> Served] /\ \A t \in Skills : t # id => k[t] = server[a][t]
       /\ id # 0 => ~k[id].disabled
  <2>1. CASE id = 0
    BY <1>3, <1>9, <2>1
  <2>2. CASE id # 0
    <3>1. PICK e : e = [server[a][id] EXCEPT !.disabled = FALSE]
      OBVIOUS
    <3>2. id \in Skills /\ server[a][id] \in Served
      BY <1>3, <2>2
    <3>3. e \in Served /\ ~e.disabled
      BY <3>1, <3>2 DEF Served
    <3>4. k = [server[a] EXCEPT ![id] = e]
      BY <1>9, <2>2, <3>1
    <3> QED
      BY <1>3, <3>2, <3>3, <3>4
  <2> QED
    BY <2>1, <2>2
<1>13. \A l, m \in Positions : b[l].skill_id = b[m].skill_id /\ b[l].skill_id # 0 => l = m
  BY <1>1, <1>2, <1>5, <1>8 DEF SB!IsBar
<1>14. \A m \in Positions : m # n /\ b[m].skill_id # 0 =>
          /\ b[m] = o[m] /\ b[m].skill_id \in Skills /\ k[b[m].skill_id] = server[a][b[m].skill_id]
  <2> SUFFICES ASSUME NEW m \in Positions, m # n, b[m].skill_id # 0
               PROVE  /\ b[m] = o[m] /\ b[m].skill_id \in Skills
                      /\ k[b[m].skill_id] = server[a][b[m].skill_id]
    OBVIOUS
  <2>1. b[m] = o[m] /\ b[m] \in SlotType
    BY <1>7, <1>8
  <2>2. b[m].skill_id \in Skills
    BY <2>1 DEF SlotType
  <2>3. b[m].skill_id # id
    BY <1>5, <1>8, <1>13
  <2> QED
    BY <1>12, <2>1, <2>2, <2>3
<1>15. BarAsServed(b, k)
  <2>1. ASSUME NEW m \in Positions
        PROVE  IF b[m].skill_id = 0
               THEN ~b[m].casting /\ ~b[m].casting_confirmed /\ ~b[m].recharging /\ ~b[m].disable
               ELSE Backed(b[m], k[b[m].skill_id])
    <3>1. CASE m = n
      BY <1>5, <1>8, <3>1 DEF Backed
    <3>2. CASE m # n
      BY <1>3, <1>8, <1>14, <3>2 DEF BarAsServed
    <3> QED
      BY <3>1, <3>2
  <2> QED
    BY <1>8, <1>13, <2>1 DEF BarAsServed
<1>16. a \in SB!Heroes /\ bitmap # a => BarIsTold(b, k)
  <2> SUFFICES ASSUME a \in SB!Heroes, bitmap # a, NEW m \in Positions,
                      b[m].skill_id # 0, k[b[m].skill_id].disabled
               PROVE  b[m].disable
    BY DEF BarIsTold
  <2>1. m # n
    BY <1>5, <1>8, <1>12
  <2> QED
    BY <1>3, <1>14, <2>1 DEF BarIsTold
<1>17. SkillsAre([bars EXCEPT ![a] = b], [server EXCEPT ![a] = k], toggles, bitmap)
  BY <1>3, <1>12, <1>15, <1>16, AgentChanges
<1> QED
  BY <1>1, <1>10, <1>11, <1>17, Zenon

\* The server toggles what stands in the slot.
LEMMA ToggleStep ==
    ASSUME SkillsAre(bars, server, toggles, bitmap), SB!HandleHeroSkillStatus
    PROVE  SkillsAre(bars', server', toggles', bitmap')
<1>1. PICK R : R = [hero : SB!Heroes, slot : Positions]
  OBVIOUS
<1>2. toggles \in Seq(R) /\ toggles # <<>>
  BY <1>1 DEF SkillsAre, SB!HandleHeroSkillStatus
<1>3. PICK t : t = Head(toggles)
  OBVIOUS
<1>4. /\ t \in R /\ t = toggles[1] /\ 1 \in DOMAIN toggles
      /\ Tail(toggles) \in Seq(R)
      /\ \A i \in DOMAIN Tail(toggles) : i + 1 \in DOMAIN toggles /\ Tail(toggles)[i] = toggles[i + 1]
  <2>1. t \in R /\ t = toggles[1] /\ 1 \in DOMAIN toggles
    BY <1>2, <1>3
  <2>2. Tail(toggles) \in Seq(R)
    BY <1>2
  <2>3. \A i \in DOMAIN Tail(toggles) : i + 1 \in DOMAIN toggles /\ Tail(toggles)[i] = toggles[i + 1]
    BY <1>2
  <2> QED
    BY <2>1, <2>2, <2>3
<1>5. PICK a \in SB!Heroes, n \in Positions : a = t.hero /\ n = t.slot
  BY <1>1, <1>4
<1>6. a \in Agents /\ bars[a] # NULL
  BY <1>4, <1>5 DEF SkillsAre, SB!Heroes
<1>7. SkillsAre(bars, server, Tail(toggles), bitmap)
  <2>1. \A i \in DOMAIN Tail(toggles) : bars[Tail(toggles)[i].hero] # NULL
    BY <1>4 DEF SkillsAre
  <2> QED
    BY <1>1, <1>4, <2>1 DEF SkillsAre
<1>8. PICK o : o = bars[a]
  OBVIOUS
<1>9. /\ BarAsServed(o, server[a]) /\ (a \in SB!Heroes /\ bitmap # a => BarIsTold(o, server[a]))
      /\ bars \in [Agents -> {NULL} \cup [Positions -> SlotType]]
      /\ server \in [Agents -> [Skills -> Served]] /\ server[a] \in [Skills -> Served]
      /\ bitmap \in SB!Heroes \cup {NULL}
  BY <1>6, <1>8 DEF SkillsAre
<1>10. o \in [Positions -> SlotType]
  BY <1>9 DEF BarAsServed
<1>11. PICK id : id = o[n].skill_id
  OBVIOUS
<1>12. id \in Skills \cup {0}
  BY <1>10, <1>11 DEF SlotType
<1>13. /\ toggles' = Tail(toggles) /\ bitmap' = bitmap
       /\ IF id = 0 THEN bars' = bars /\ server' = server
          ELSE /\ server' = [server EXCEPT ![a][id].disabled = ~@]
               /\ bars' = [bars EXCEPT ![a][n].disable = server'[a][id].disabled]
  BY <1>3, <1>5, <1>8, <1>11 DEF SB!HandleHeroSkillStatus
<1>14. CASE id = 0
  BY <1>7, <1>13, <1>14, Zenon
<1>15. CASE id # 0
  <2>1. id \in Skills
    BY <1>12, <1>15
  <2>2. PICK e : e = [server[a][id] EXCEPT !.disabled = ~@]
    OBVIOUS
  <2>3. server[a][id] \in Served
    BY <1>9, <2>1
  <2>4. /\ e \in Served /\ e.requests = server[a][id].requests /\ e.casting = server[a][id].casting
        /\ e.recharging = server[a][id].recharging
    BY <2>2, <2>3 DEF Served
  <2>5. PICK k : k = [server[a] EXCEPT ![id] = e]
    OBVIOUS
  <2>6. k \in [Skills -> Served] /\ k[id] = e /\ \A s \in Skills : s # id => k[s] = server[a][s]
    BY <1>9, <2>1, <2>4, <2>5
  <2>7. server' = [server EXCEPT ![a] = k]
    BY <1>13, <1>15, <2>2, <2>5
  <2>8. server'[a][id].disabled = e.disabled
    BY <1>6, <1>9, <2>6, <2>7
  <2>9. PICK f : f = [o[n] EXCEPT !.disable = e.disabled]
    OBVIOUS
  <2>10. o[n] \in SlotType
    BY <1>10
  <2>11. /\ f \in SlotType /\ f.skill_id = id /\ f.casting = o[n].casting
         /\ f.casting_confirmed = o[n].casting_confirmed /\ f.recharging = o[n].recharging
         /\ f.disable = e.disabled
    BY <1>11, <2>4, <2>9, <2>10 DEF SlotType, Served
  <2>12. PICK b : b = [o EXCEPT ![n] = f]
    OBVIOUS
  <2>13. /\ b \in [Positions -> SlotType] /\ b[n] = f
         /\ \A m \in Positions : m # n => b[m] = o[m]
    BY <1>10, <2>11, <2>12
  <2>14. bars' = [bars EXCEPT ![a] = b]
    BY <1>8, <1>13, <1>15, <2>8, <2>9, <2>12
  <2>15. \A m \in Positions : b[m].skill_id = o[m].skill_id
    BY <1>11, <2>11, <2>13
  <2>16. \A m \in Positions : m # n /\ b[m].skill_id # 0 =>
            b[m] = o[m] /\ k[b[m].skill_id] = server[a][b[m].skill_id]
    <3> SUFFICES ASSUME NEW m \in Positions, m # n, b[m].skill_id # 0
                 PROVE  b[m] = o[m] /\ k[b[m].skill_id] = server[a][b[m].skill_id]
      OBVIOUS
    <3>1. b[m] = o[m] /\ b[m] \in SlotType
      BY <1>10, <2>13
    <3>2. b[m].skill_id \in Skills
      BY <3>1 DEF SlotType
    <3>3. b[m].skill_id # id
      BY <1>9, <1>11, <3>1 DEF BarAsServed
    <3> QED
      BY <2>6, <3>1, <3>2, <3>3
  <2>17. Backed(o[n], server[a][id])
    BY <1>9, <1>11, <1>15 DEF BarAsServed
  <2>18. Backed(f, e)
    BY <2>4, <2>11, <2>17 DEF Backed
  <2>19. BarAsServed(b, k)
    <3>1. ASSUME NEW m \in Positions
          PROVE  IF b[m].skill_id = 0
                 THEN ~b[m].casting /\ ~b[m].casting_confirmed /\ ~b[m].recharging /\ ~b[m].disable
                 ELSE Backed(b[m], k[b[m].skill_id])
      <4>1. CASE m = n
        BY <1>15, <2>6, <2>11, <2>13, <2>18, <4>1
      <4>2. CASE m # n
        BY <1>9, <2>13, <2>16, <4>2 DEF BarAsServed
      <4> QED
        BY <4>1, <4>2
    <3> QED
      BY <1>9, <2>13, <2>15, <3>1 DEF BarAsServed
  <2>20. a \in SB!Heroes /\ bitmap # a => BarIsTold(b, k)
    <3> SUFFICES ASSUME a \in SB!Heroes, bitmap # a, NEW m \in Positions,
                        b[m].skill_id # 0, k[b[m].skill_id].disabled
                 PROVE  b[m].disable
      BY DEF BarIsTold
    <3>1. CASE m = n
      BY <2>6, <2>11, <2>13, <3>1
    <3>2. CASE m # n
      BY <1>9, <2>16, <3>2 DEF BarIsTold
    <3> QED
      BY <3>1, <3>2
  <2>21. SkillsAre([bars EXCEPT ![a] = b], [server EXCEPT ![a] = k], Tail(toggles), bitmap)
    BY <1>6, <1>7, <1>9, <2>6, <2>19, <2>20, AgentChanges
  <2> QED
    BY <1>13, <2>7, <2>14, <2>21, Zenon
<1> QED
  BY <1>14, <1>15

\* What a hero may not use is set in its bar.
LEMMA BitmapStep ==
    ASSUME SkillsAre(bars, server, toggles, bitmap), SB!HandleHeroSkillStatusBitmap
    PROVE  SkillsAre(bars', server', toggles', bitmap')
<1>1. /\ bitmap # NULL /\ bitmap' = NULL /\ server' = server /\ toggles' = toggles
      /\ bars' = [bars EXCEPT ![bitmap] = [n \in Positions |->
                    IF SB!Disabled(bitmap, @[n].skill_id) THEN [@[n] EXCEPT !.disable = TRUE] ELSE @[n]]]
  BY DEF SB!HandleHeroSkillStatusBitmap
<1>2. PICK a \in SB!Heroes : a = bitmap /\ bars[a] # NULL /\ a \in Agents
  BY <1>1 DEF SkillsAre, SB!Heroes
<1>3. PICK o : o = bars[a]
  OBVIOUS
<1>4. /\ BarAsServed(o, server[a])
      /\ bars \in [Agents -> {NULL} \cup [Positions -> SlotType]]
      /\ server \in [Agents -> [Skills -> Served]] /\ server[a] \in [Skills -> Served]
  BY <1>2, <1>3 DEF SkillsAre
<1>5. PICK b : b = [n \in Positions |->
                      IF SB!Disabled(a, o[n].skill_id) THEN [o[n] EXCEPT !.disable = TRUE] ELSE o[n]]
  OBVIOUS
<1>6. bars' = [bars EXCEPT ![a] = b]
  BY <1>1, <1>2, <1>3, <1>5
<1>7. \A n \in Positions :
         /\ b[n] \in SlotType /\ b[n].skill_id = o[n].skill_id /\ b[n].casting = o[n].casting
         /\ b[n].casting_confirmed = o[n].casting_confirmed /\ b[n].recharging = o[n].recharging
         /\ b[n].disable <=> o[n].disable \/ SB!Disabled(a, o[n].skill_id)
  <2> SUFFICES ASSUME NEW n \in Positions
               PROVE  /\ b[n] \in SlotType /\ b[n].skill_id = o[n].skill_id
                      /\ b[n].casting = o[n].casting
                      /\ b[n].casting_confirmed = o[n].casting_confirmed
                      /\ b[n].recharging = o[n].recharging
                      /\ b[n].disable <=> o[n].disable \/ SB!Disabled(a, o[n].skill_id)
    OBVIOUS
  <2>1. PICK f : f = o[n]
    OBVIOUS
  <2>2. f \in SlotType
    BY <1>4, <2>1 DEF BarAsServed
  <2>3. PICK g : g = [f EXCEPT !.disable = TRUE]
    OBVIOUS
  <2>4. /\ g \in SlotType /\ g.skill_id = f.skill_id /\ g.casting = f.casting
        /\ g.casting_confirmed = f.casting_confirmed /\ g.recharging = f.recharging
        /\ g.disable = TRUE
    BY <2>2, <2>3 DEF SlotType
  <2>5. b[n] = IF SB!Disabled(a, f.skill_id) THEN g ELSE f
    BY <1>5, <2>1, <2>3
  <2> QED
    BY <2>1, <2>2, <2>4, <2>5
<1>8. b \in [Positions -> SlotType]
  BY <1>5, <1>7
<1>9. BarAsServed(b, server[a])
  <2>1. ASSUME NEW n \in Positions
        PROVE  IF b[n].skill_id = 0
               THEN ~b[n].casting /\ ~b[n].casting_confirmed /\ ~b[n].recharging /\ ~b[n].disable
               ELSE Backed(b[n], server[a][b[n].skill_id])
    BY <1>4, <1>7 DEF BarAsServed, Backed, SB!Disabled
  <2> QED
    BY <1>4, <1>7, <1>8, <2>1 DEF BarAsServed
<1>10. BarIsTold(b, server[a])
  BY <1>7 DEF BarIsTold, SB!Disabled
<1>11. SkillsAre([bars EXCEPT ![a] = b], [server EXCEPT ![a] = server[a]], toggles, NULL)
  <2>1. bitmap # a => bitmap = NULL
    BY <1>2
  <2> QED
    BY <1>2, <1>4, <1>9, <1>10, <2>1, AgentChanges
<1>12. [server EXCEPT ![a] = server[a]] = server
  BY <1>4
<1> QED
  BY <1>1, <1>6, <1>11, <1>12, Zenon

\* The slot of a skill, before it changes.
LEMMA SlotBefore ==
    ASSUME SkillsAre(bars, server, toggles, bitmap), NEW a \in Agents, NEW s \in Skills
    PROVE  /\ server[a][s] \in Served /\ server[a] \in [Skills -> Served]
           /\ SB!SlotOf(a, s) # 0 =>
                 /\ SB!SkillOf(a, s) \in SlotType /\ SB!SkillOf(a, s).skill_id = s
                 /\ Backed(SB!SkillOf(a, s), server[a][s])
<1>1. server[a][s] \in Served /\ server[a] \in [Skills -> Served]
  BY DEF SkillsAre
<1>2. ASSUME SB!SlotOf(a, s) # 0
      PROVE  /\ SB!SkillOf(a, s) \in SlotType /\ SB!SkillOf(a, s).skill_id = s
             /\ Backed(SB!SkillOf(a, s), server[a][s])
  <2>1. PICK n \in Positions : n = SB!SlotOf(a, s) /\ bars[a] # NULL /\ bars[a][n].skill_id = s
    BY <1>2, SlotFound
  <2>2. BarAsServed(bars[a], server[a])
    BY <2>1 DEF SkillsAre
  <2>3. bars[a][n] \in SlotType /\ Backed(bars[a][n], server[a][s])
    BY <2>1, <2>2, WorldAssumption DEF BarAsServed
  <2> QED
    BY <2>1, <2>3 DEF SB!SkillOf
<1> QED
  BY <1>1, <1>2

\* A cast is asked for, starts, and ends; a skill recharges.
LEMMA CastSteps ==
    ASSUME SkillsAre(bars, server, toggles, bitmap), NEW a \in Agents, NEW s \in Skills,
           \/ \E target \in BOOLEAN : SB!StartCast(a, s, target) /\ ended' = ended
           \/ SB!HandleSkillActivate(a, s) \/ SB!HandleSkillActivated(a, s)
           \/ SB!HandleSkillRecharge(a, s) \/ SB!HandleSkillRecharged(a, s)
    PROVE  SkillsAre(bars', server', toggles', bitmap')
<1> DEFINE o == SB!SkillOf(a, s)
           c == server[a][s]
<1>1. /\ c \in Served /\ server \in [Agents -> [Skills -> Served]]
      /\ SB!SlotOf(a, s) # 0 => o \in SlotType /\ o.skill_id = s /\ Backed(o, c)
  BY SlotBefore DEF SkillsAre
<1>2. \E f, e : /\ SB!ChangeSkill(a, s, f) /\ server' = [server EXCEPT ![a][s] = e]
                /\ UNCHANGED <<toggles, bitmap>>
                /\ e \in Served /\ e.disabled = c.disabled
                /\ SB!SlotOf(a, s) # 0 =>
                      f \in SlotType /\ f.skill_id = s /\ f.disable = o.disable /\ Backed(f, e)
  <2>1. CASE \E target \in BOOLEAN : SB!StartCast(a, s, target) /\ ended' = ended
    <3>1. /\ SB!ChangeSkill(a, s, [o EXCEPT !.casting = TRUE])
          /\ server' = [server EXCEPT ![a][s].requests = @ + 1]
          /\ UNCHANGED <<toggles, bitmap>>
      BY <2>1, WorldAssumption DEF SB!StartCast, SB!Alive
    <3>2. PICK f : f = [o EXCEPT !.casting = TRUE]
      OBVIOUS
    <3>3. PICK e : e = [c EXCEPT !.requests = @ + 1]
      OBVIOUS
    <3>4. server' = [server EXCEPT ![a][s] = e]
      BY <3>1, <3>3
    <3>5. e \in Served /\ e.disabled = c.disabled /\ e.requests > 0 /\ e.casting = c.casting
          /\ e.recharging = c.recharging
      BY <1>1, <3>3 DEF Served
    <3>6. ASSUME SB!SlotOf(a, s) # 0
          PROVE  f \in SlotType /\ f.skill_id = s /\ f.disable = o.disable /\ Backed(f, e)
      BY <1>1, <3>2, <3>5, <3>6 DEF SlotType, Backed
    <3> HIDE DEF c
    <3> QED
      BY <3>1, <3>2, <3>4, <3>5, <3>6
  <2>2. CASE SB!HandleSkillActivate(a, s)
    <3>1. /\ c.requests > 0 /\ SB!ChangeSkill(a, s, [o EXCEPT !.casting_confirmed = TRUE])
          /\ server' = [server EXCEPT ![a][s].requests = @ - 1, ![a][s].casting = TRUE]
          /\ UNCHANGED <<toggles, bitmap>>
      BY <2>2 DEF SB!HandleSkillActivate
    <3>2. PICK f : f = [o EXCEPT !.casting_confirmed = TRUE]
      OBVIOUS
    <3>3. PICK e : e = [[c EXCEPT !.requests = @ - 1] EXCEPT !.casting = TRUE]
      OBVIOUS
    <3>4. server' = [server EXCEPT ![a][s] = e]
      BY <1>1, <3>1, <3>3
    <3>5. e \in Served /\ e.disabled = c.disabled /\ e.casting /\ e.recharging = c.recharging
      <4>1. PICK d : d = [c EXCEPT !.requests = @ - 1]
        OBVIOUS
      <4>2. d \in Served /\ d.disabled = c.disabled /\ d.recharging = c.recharging
        <5>1. c.requests > 0
          BY <3>1
        <5>2. c.requests \in Nat
          BY <1>1 DEF Served
        <5> HIDE DEF c
        <5>3. c.requests - 1 \in Nat
          BY <5>1, <5>2
        <5> QED
          BY <1>1, <4>1, <5>3 DEF Served
      <4>3. e = [d EXCEPT !.casting = TRUE]
        BY <3>3, <4>1
      <4> HIDE DEF c
      <4> QED
        BY <4>2, <4>3 DEF Served
    <3>6. ASSUME SB!SlotOf(a, s) # 0
          PROVE  f \in SlotType /\ f.skill_id = s /\ f.disable = o.disable /\ Backed(f, e)
      BY <1>1, <3>2, <3>5, <3>6 DEF SlotType, Backed
    <3> HIDE DEF c
    <3> QED
      BY <3>1, <3>2, <3>4, <3>5, <3>6
  <2>3. CASE SB!HandleSkillActivated(a, s)
    <3>1. /\ \/ server' = [server EXCEPT ![a][s].casting = FALSE]
             \/ c.requests > 0 /\ server' = [server EXCEPT ![a][s].requests = @ - 1]
          /\ SB!ChangeSkill(a, s, SB!DoneCast(o))
          /\ UNCHANGED <<toggles, bitmap>>
      BY <2>3 DEF SB!HandleSkillActivated
    <3>2. PICK f : f = SB!DoneCast(o)
      OBVIOUS
    <3>3. \E e : /\ server' = [server EXCEPT ![a][s] = e] /\ e \in Served
                 /\ e.disabled = c.disabled /\ e.recharging = c.recharging
      <4>1. PICK d : d = [c EXCEPT !.casting = FALSE]
        OBVIOUS
      <4>2. PICK e : e = [c EXCEPT !.requests = @ - 1]
        OBVIOUS
      <4>3. d \in Served /\ d.disabled = c.disabled /\ d.recharging = c.recharging
        BY <1>1, <4>1 DEF Served
      <4>4. c.requests > 0 => e \in Served /\ e.disabled = c.disabled /\ e.recharging = c.recharging
        BY <1>1, <4>2 DEF Served
      <4>5. \/ server' = [server EXCEPT ![a][s] = d]
            \/ c.requests > 0 /\ server' = [server EXCEPT ![a][s] = e]
        BY <3>1, <4>1, <4>2
      <4> HIDE DEF c
      <4> QED
        BY <4>3, <4>4, <4>5
    <3>4. ASSUME NEW e, e.disabled = c.disabled, e.recharging = c.recharging,
                 SB!SlotOf(a, s) # 0
          PROVE  f \in SlotType /\ f.skill_id = s /\ f.disable = o.disable /\ Backed(f, e)
      <4>1. PICK m : m = o
        OBVIOUS
      <4>2. f = [[m EXCEPT !.casting = FALSE] EXCEPT !.casting_confirmed = FALSE]
        BY <3>2, <4>1 DEF SB!DoneCast
      <4>3. m \in SlotType
        BY <1>1, <3>4, <4>1
      <4>4. /\ f \in SlotType /\ f.skill_id = m.skill_id /\ f.disable = m.disable
            /\ f.recharging = m.recharging /\ ~f.casting /\ ~f.casting_confirmed
        BY <4>2, <4>3 DEF SlotType
      <4> QED
        BY <1>1, <3>4, <4>1, <4>4 DEF Backed
    <3> HIDE DEF c
    <3> QED
      BY <3>1, <3>2, <3>3, <3>4
  <2>4. CASE SB!HandleSkillRecharge(a, s)
    <3>1. /\ SB!ChangeSkill(a, s, [o EXCEPT !.recharging = TRUE])
          /\ server' = [server EXCEPT ![a][s].recharging = TRUE]
          /\ UNCHANGED <<toggles, bitmap>>
      BY <2>4 DEF SB!HandleSkillRecharge
    <3>2. PICK f : f = [o EXCEPT !.recharging = TRUE]
      OBVIOUS
    <3>3. PICK e : e = [c EXCEPT !.recharging = TRUE]
      OBVIOUS
    <3>4. server' = [server EXCEPT ![a][s] = e]
      BY <3>1, <3>3
    <3>5. e \in Served /\ e.disabled = c.disabled /\ e.requests = c.requests
          /\ e.casting = c.casting /\ e.recharging
      BY <1>1, <3>3 DEF Served
    <3>6. ASSUME SB!SlotOf(a, s) # 0
          PROVE  f \in SlotType /\ f.skill_id = s /\ f.disable = o.disable /\ Backed(f, e)
      BY <1>1, <3>2, <3>5, <3>6 DEF SlotType, Backed
    <3> HIDE DEF c
    <3> QED
      BY <3>1, <3>2, <3>4, <3>5, <3>6
  <2>5. CASE SB!HandleSkillRecharged(a, s)
    <3>1. /\ SB!ChangeSkill(a, s, [o EXCEPT !.recharging = FALSE])
          /\ server' = [server EXCEPT ![a][s].recharging = FALSE]
          /\ UNCHANGED <<toggles, bitmap>>
      BY <2>5 DEF SB!HandleSkillRecharged
    <3>2. PICK f : f = [o EXCEPT !.recharging = FALSE]
      OBVIOUS
    <3>3. PICK e : e = [c EXCEPT !.recharging = FALSE]
      OBVIOUS
    <3>4. server' = [server EXCEPT ![a][s] = e]
      BY <3>1, <3>3
    <3>5. e \in Served /\ e.disabled = c.disabled /\ e.requests = c.requests
          /\ e.casting = c.casting
      BY <1>1, <3>3 DEF Served
    <3>6. ASSUME SB!SlotOf(a, s) # 0
          PROVE  f \in SlotType /\ f.skill_id = s /\ f.disable = o.disable /\ Backed(f, e)
      BY <1>1, <3>2, <3>5, <3>6 DEF SlotType, Backed
    <3> HIDE DEF c
    <3> QED
      BY <3>1, <3>2, <3>4, <3>5, <3>6
  <2> QED
    BY <2>1, <2>2, <2>3, <2>4, <2>5
<1> HIDE DEF c
<1>3. PICK f, e : /\ SB!ChangeSkill(a, s, f) /\ server' = [server EXCEPT ![a][s] = e]
                  /\ UNCHANGED <<toggles, bitmap>>
                  /\ e \in Served /\ e.disabled = c.disabled
                  /\ SB!SlotOf(a, s) # 0 =>
                        f \in SlotType /\ f.skill_id = s /\ f.disable = o.disable /\ Backed(f, e)
  BY <1>2
<1> QED
  BY <1>3, SkillChanges DEF c

\* A call to toggle a skill is sent for a slot that is there.
LEMMA ToggleSent ==
    ASSUME SkillsAre(bars, server, toggles, bitmap), NEW a \in Agents, NEW s \in Skills,
           NEW disable \in BOOLEAN, SB!Toggle(a, s, disable)
    PROVE  SkillsAre(bars', server', toggles', bitmap')
<1>1. PICK R : R = [hero : SB!Heroes, slot : Positions]
  OBVIOUS
<1>2. PICK t : t = [hero |-> a, slot |-> SB!SlotOf(a, s)]
  OBVIOUS
<1>3. /\ a \in SB!Heroes /\ SB!SlotOf(a, s) # 0 /\ toggles' = Append(toggles, t)
      /\ UNCHANGED <<bars, server, bitmap>>
  BY <1>2 DEF SB!Toggle
<1>4. SB!SlotOf(a, s) \in Positions /\ bars[a] # NULL
  BY <1>3, SlotFound
<1>5. t \in R /\ t.hero = a
  BY <1>1, <1>2, <1>3, <1>4
<1>6. toggles \in Seq(R)
  BY <1>1 DEF SkillsAre
<1>7. /\ Append(toggles, t) \in Seq(R) /\ Len(Append(toggles, t)) = Len(toggles) + 1
      /\ Append(toggles, t)[Len(toggles) + 1] = t
      /\ \A i \in 1 .. Len(toggles) : Append(toggles, t)[i] = toggles[i]
  BY <1>5, <1>6, Appended
<1>8. \A i \in DOMAIN Append(toggles, t) : i = Len(toggles) + 1 \/ i \in 1 .. Len(toggles)
  BY <1>6, <1>7
<1>9. \A i \in 1 .. Len(toggles) : bars[toggles[i].hero] # NULL
  BY <1>6 DEF SkillsAre
<1>10. \A i \in DOMAIN Append(toggles, t) : bars[Append(toggles, t)[i].hero] # NULL
  BY <1>4, <1>5, <1>7, <1>8, <1>9
<1>11. SkillsAre(bars, server, Append(toggles, t), bitmap)
  BY <1>1, <1>7, <1>10 DEF SkillsAre
<1> QED
  BY <1>3, <1>11, Zenon

\* No bar, no toggle, and nothing the server was asked for.
LEMMA NoSkills ==
    SkillsAre([a \in Agents |-> NULL], [a \in Agents |-> [s \in Skills |-> SB!Idle]], <<>>, NULL)
<1> DEFINE bs == [a \in Agents |-> NULL]
           sv == [a \in Agents |-> [s \in Skills |-> SB!Idle]]
<1>1. SB!Idle \in Served
  BY DEF SB!Idle, Served
<1>2. [s \in Skills |-> SB!Idle] \in [Skills -> Served]
  BY <1>1
<1>3. bs \in [Agents -> {NULL} \cup [Positions -> SlotType]] /\ sv \in [Agents -> [Skills -> Served]]
      /\ \A a \in Agents : bs[a] = NULL
  BY <1>2
<1>4. <<>> \in Seq([hero : SB!Heroes, slot : Positions]) /\ DOMAIN <<>> = {}
  OBVIOUS
<1> HIDE DEF bs, sv
<1>5. SkillsAre(bs, sv, <<>>, NULL)
  BY <1>3, <1>4 DEF SkillsAre
<1> QED
  BY <1>5 DEF bs, sv

LEMMA SkillStep ==
    ASSUME SkillInv, SB!Next
    PROVE  SkillInv'
<1> SUFFICES ASSUME ended' = NULL PROVE SkillsAre(bars', server', toggles', bitmap')
  BY DEF SkillInv
<1>1. ended = NULL /\ SkillsAre(bars, server, toggles, bitmap)
  BY SkillsAreAlive DEF SkillInv
<1>2. ASSUME NEW a \in Agents, NEW ids \in [Positions -> Skills \cup {0}],
             SB!HandleSkillbarUpdate(a, ids)
      PROVE  SkillsAre(bars', server', toggles', bitmap')
  BY <1>1, <1>2, BarStep
<1>3. ASSUME NEW a \in Agents, NEW n \in Positions, NEW id \in Skills \cup {0},
             SB!HandleSkillbarUpdateSkill(a, n, id)
      PROVE  SkillsAre(bars', server', toggles', bitmap')
  BY <1>1, <1>3, BarSkillStep
<1>4. ASSUME NEW s \in Skills, NEW target \in BOOLEAN, SB!UseSkill(s, target)
      PROVE  SkillsAre(bars', server', toggles', bitmap')
  <2>1. Player \in Agents /\ SB!StartCast(Player, s, target)
    BY <1>4, WorldAssumption DEF SB!UseSkill
  <2> QED
    BY <1>1, <1>4, <2>1, CastSteps
<1>5. ASSUME NEW a \in Agents, NEW s \in Skills, NEW target \in BOOLEAN, SB!HeroUseSkill(a, s, target)
      PROVE  SkillsAre(bars', server', toggles', bitmap')
  BY <1>1, <1>5, CastSteps DEF SB!HeroUseSkill
<1>6. ASSUME NEW a \in Agents, NEW s \in Skills,
             \/ SB!HandleSkillActivate(a, s) \/ SB!HandleSkillActivated(a, s)
             \/ SB!HandleSkillRecharge(a, s) \/ SB!HandleSkillRecharged(a, s)
      PROVE  SkillsAre(bars', server', toggles', bitmap')
  BY <1>1, <1>6, CastSteps
<1>7. ASSUME NEW a \in Agents, NEW s \in Skills,
             SB!HeroEnableSkill(a, s) \/ SB!HeroDisableSkill(a, s)
      PROVE  SkillsAre(bars', server', toggles', bitmap')
  BY <1>1, <1>7, ToggleSent DEF SB!HeroEnableSkill, SB!HeroDisableSkill
<1>8. CASE SB!HandleHeroSkillStatus
  BY <1>1, <1>8, ToggleStep
<1>9. CASE SB!HandleHeroSkillStatusBitmap
  BY <1>1, <1>9, BitmapStep
<1>10. CASE SB!ResetWorld
  <2>1. /\ bars' = [a \in Agents |-> NULL]
        /\ server' = [a \in Agents |-> [s \in Skills |-> SB!Idle]]
        /\ toggles' = <<>> /\ bitmap' = NULL
    BY <1>10 DEF SB!ResetWorld
  <2> QED
    BY <2>1, NoSkills, Zenon
<1> QED
  BY <1>2, <1>3, <1>4, <1>5, <1>6, <1>7, <1>8, <1>9, <1>10, Zenon DEF SB!Next

\* For any bars and skills: what is shown as cast or recharging the server was asked for,
\* casts or lets recharge, and a hero's skills are disabled as the server says.
THEOREM SkillsAreShown == WorldSpec => [](SB!ShownIsTheServers /\ SB!DisabledIsTheServers)
<1>1. WorldInit => SkillInv
  BY NoSkills, Zenon DEF WorldInit, SB!Init, SkillInv
<1>2. SkillInv /\ [WorldNext]_worldVars => SkillInv'
  <2> SUFFICES ASSUME SkillInv, [WorldNext]_worldVars PROVE SkillInv'
    OBVIOUS
  <2>1. CASE UNCHANGED skillVars /\ (ended' = NULL => ended = NULL)
    <3>1. bars' = bars /\ server' = server /\ toggles' = toggles /\ bitmap' = bitmap
      BY <2>1 DEF skillVars
    <3> QED
      BY <2>1, <3>1, Zenon DEF SkillInv
  <2>2. CASE SB!Next
    BY <2>2, SkillStep
  <2>3. SB!Next \/ (UNCHANGED skillVars /\ (ended' = NULL => ended = NULL))
    <3>1. GU!Next => ended = NULL
      BY GuildIsAlive
    <3>2. CH!Next => ended = NULL
      BY ChatIsAlive
    <3> QED
      BY <3>1, <3>2, Zenon DEF WorldNext, worldVars, OnlySkillbars, skillVars
  <2> QED
    BY <2>1, <2>2, <2>3
<1>3. SkillInv => SB!ShownIsTheServers
  <2> SUFFICES ASSUME SkillInv, ended = NULL, NEW a \in Agents, NEW n \in Positions, bars[a] # NULL,
                      SB!IsCasting(a, n) \/ bars[a][n].recharging
               PROVE  LET id == bars[a][n].skill_id
                      IN  /\ id # 0
                          /\ bars[a][n].casting => server[a][id].requests > 0 \/ server[a][id].casting
                          /\ bars[a][n].casting_confirmed => server[a][id].casting
                          /\ bars[a][n].recharging => server[a][id].recharging
    BY Zenon DEF SB!ShownIsTheServers, SB!Alive
  <2>1. BarAsServed(bars[a], server[a])
    BY DEF SkillInv, SkillsAre
  <2> QED
    BY <2>1 DEF BarAsServed, Backed, SB!IsCasting
<1>4. SkillInv => SB!DisabledIsTheServers
  <2> SUFFICES ASSUME SkillInv, ended = NULL, NEW a \in SB!Heroes, bars[a] # NULL, bitmap # a,
                      NEW n \in Positions
               PROVE  bars[a][n].disable = SB!Disabled(a, bars[a][n].skill_id)
    BY Zenon DEF SB!DisabledIsTheServers, SB!Alive
  <2>1. a \in Agents
    BY DEF SB!Heroes
  <2>2. BarAsServed(bars[a], server[a]) /\ BarIsTold(bars[a], server[a])
        /\ server[a] \in [Skills -> Served]
    BY <2>1 DEF SkillInv, SkillsAre
  <2>3. bars[a][n] \in SlotType
    BY <2>2 DEF BarAsServed
  <2>4. bars[a][n].disable \in BOOLEAN /\ bars[a][n].skill_id \in Skills \cup {0}
    BY <2>3 DEF SlotType
  <2>5. bars[a][n].disable <=> SB!Disabled(a, bars[a][n].skill_id)
    BY <2>2 DEF BarAsServed, BarIsTold, Backed, SB!Disabled
  <2>6. bars[a][n].skill_id # 0 => server[a][bars[a][n].skill_id].disabled \in BOOLEAN
    BY <2>2, <2>4 DEF Served
  <2> QED
    BY <2>4, <2>5, <2>6 DEF SB!Disabled
<1> QED
  BY <1>1, <1>2, <1>3, <1>4, PTL DEF WorldSpec

-----------------------------------------------------------------------------
(* What an NPC shows                                                       *)

Item == [item_id : ItemIds, value : Values \cup {0}]

\* An item stands at one address, with its id and the value that was told of it.
ItemsAre(its, hp, wo) ==
    /\ its \in [ItemIds -> Objects \cup {NULL}]
    /\ hp \in [Objects -> {NULL} \cup Item]
    /\ wo \in [ItemIds -> Values \cup {0}]
    /\ \A i \in ItemIds : its[i] # NULL =>
          hp[its[i]] \in Item /\ hp[its[i]].item_id = i /\ hp[its[i]].value = wo[i]

\* The client collects the items and the prices of the server's window, and shows those of
\* the streams that have ended.
WindowIs(w, its, tmp, prices, shown, agent) ==
    /\ w \in [npc : Npcs \cup {NULL}, listed : Seq(ItemIds), prices : Seq(Values),
              ended : Nat, streams : Nat]
    /\ prices = w.prices
    /\ tmp \in Seq(Objects) /\ Len(tmp) = Len(w.listed)
    /\ \A n \in 1 .. Len(w.listed) : its[w.listed[n]] # NULL /\ tmp[n] = its[w.listed[n]]
    /\ \A m, n \in 1 .. Len(w.listed) : w.listed[m] = w.listed[n] => m = n
    /\ w.ended <= Len(w.listed)
    /\ shown \in Seq(Objects)
    /\ \A k \in DOMAIN shown : \E n \in 1 .. w.ended : shown[k] = its[w.listed[n]]
    /\ \A n \in 1 .. w.ended : \E k \in DOMAIN shown : shown[k] = its[w.listed[n]]
    /\ IF w.npc = NULL THEN w.listed = <<>> ELSE agent = w.npc

\* An open dialog is the server's, which an answer does not find open.
DialogIs(d, t, ans) ==
    /\ d \in [opened : BOOLEAN, interact_with : Npcs \cup {NULL}, buttons : Seq(Buttons)]
    /\ t \in [npc : Npcs \cup {NULL}, buttons : Seq(Buttons)]
    /\ d.opened => ~ans /\ d.interact_with = t.npc /\ d.buttons = t.buttons

ItemInv == ItemsAre(items, heap, worth)

WindowInv == WindowIs(window, items, tmp_merchant_items, tmp_merchant_prices, merchant_items,
                      merchant_agent_id)

DialogInv == DialogIs(dialog, talk, answered)

\* Nothing is shown before anything is listed.
LEMMA EmptyWindow ==
    ASSUME NEW its, NEW agent, NEW npc \in Npcs \cup {NULL}, npc # NULL => agent = npc
    PROVE  WindowIs([NW!NoWindow EXCEPT !.npc = npc], its, <<>>, <<>>, <<>>, agent)
<1>1. PICK w : w = [NW!NoWindow EXCEPT !.npc = npc]
  OBVIOUS
<1>2. w = [npc |-> npc, listed |-> <<>>, prices |-> <<>>, ended |-> 0, streams |-> 0]
  BY <1>1 DEF NW!NoWindow
<1>3. /\ w \in [npc : Npcs \cup {NULL}, listed : Seq(ItemIds), prices : Seq(Values),
                ended : Nat, streams : Nat]
      /\ w.npc = npc /\ w.listed = <<>> /\ w.prices = <<>> /\ w.ended = 0
  BY <1>2
<1>4. <<>> \in Seq(Objects) /\ Len(<<>>) = 0 /\ DOMAIN <<>> = {}
  OBVIOUS
<1>5. 1 .. 0 = {}
  OBVIOUS
<1>6. WindowIs(w, its, <<>>, <<>>, <<>>, agent)
  BY <1>3, <1>4, <1>5 DEF WindowIs
<1> QED
  BY <1>1, <1>6

LEMMA NoWindowIs ==
    ASSUME NEW its, NEW agent
    PROVE  WindowIs(NW!NoWindow, its, <<>>, <<>>, <<>>, agent)
<1>1. [NW!NoWindow EXCEPT !.npc = NULL] = NW!NoWindow
  BY DEF NW!NoWindow
<1>2. WindowIs([NW!NoWindow EXCEPT !.npc = NULL], its, <<>>, <<>>, <<>>, agent)
  BY EmptyWindow
<1> QED
  BY <1>1, <1>2, Zenon

\* A window does not see the items that it does not list.
LEMMA ItemsUnlisted ==
    ASSUME NEW w, NEW its, NEW new, NEW tmp, NEW prices, NEW shown, NEW agent,
           WindowIs(w, its, tmp, prices, shown, agent),
           \A n \in 1 .. Len(w.listed) : new[w.listed[n]] = its[w.listed[n]]
    PROVE  WindowIs(w, new, tmp, prices, shown, agent)
<1>1. \A n \in 1 .. w.ended : n \in 1 .. Len(w.listed)
  BY DEF WindowIs
<1>2. \A n \in 1 .. Len(w.listed) : new[w.listed[n]] # NULL /\ tmp[n] = new[w.listed[n]]
  BY DEF WindowIs
<1>3. \A k \in DOMAIN shown : \E n \in 1 .. w.ended : shown[k] = new[w.listed[n]]
  <2> SUFFICES ASSUME NEW k \in DOMAIN shown
               PROVE  \E n \in 1 .. w.ended : shown[k] = new[w.listed[n]]
    OBVIOUS
  <2>1. PICK n \in 1 .. w.ended : shown[k] = its[w.listed[n]]
    BY DEF WindowIs
  <2>2. new[w.listed[n]] = its[w.listed[n]]
    BY <1>1
  <2> QED
    BY <2>1, <2>2
<1>4. \A n \in 1 .. w.ended : \E k \in DOMAIN shown : shown[k] = new[w.listed[n]]
  <2> SUFFICES ASSUME NEW n \in 1 .. w.ended
               PROVE  \E k \in DOMAIN shown : shown[k] = new[w.listed[n]]
    OBVIOUS
  <2>1. PICK k \in DOMAIN shown : shown[k] = its[w.listed[n]]
    BY DEF WindowIs
  <2>2. new[w.listed[n]] = its[w.listed[n]]
    BY <1>1
  <2> QED
    BY <2>1, <2>2
<1> QED
  BY <1>2, <1>3, <1>4, Zenon DEF WindowIs

\* Items are announced and removed.
LEMMA ItemSteps ==
    ASSUME ItemInv, WindowInv, NEW i \in ItemIds,
           \/ \E o \in Objects, v \in Values : NW!HandleItemGeneralInfo(i, o, v)
           \/ NW!HandleItemRemove(i)
    PROVE  ItemInv' /\ WindowInv'
<1>1. /\ items \in [ItemIds -> Objects \cup {NULL}] /\ heap \in [Objects -> {NULL} \cup Item]
      /\ worth \in [ItemIds -> Values \cup {0}]
      /\ \A j \in ItemIds : items[j] # NULL =>
            heap[items[j]] \in Item /\ heap[items[j]].item_id = j /\ heap[items[j]].value = worth[j]
  BY DEF ItemInv, ItemsAre
<1>2. /\ window.listed \in Seq(ItemIds)
      /\ \A n \in 1 .. Len(window.listed) : items[window.listed[n]] # NULL
  BY DEF WindowInv, WindowIs
<1>3. \A n \in 1 .. Len(window.listed) : window.listed[n] \in ItemIds
  BY <1>2
<1>4. NULL \notin Item /\ NULL \notin Objects
  BY WorldAssumption DEF Item
<1>5. ASSUME NEW o \in Objects, NEW v \in Values, NW!HandleItemGeneralInfo(i, o, v)
      PROVE  ItemInv' /\ WindowInv'
  <2>1. /\ items[i] = NULL /\ heap[o] = NULL
        /\ items' = [items EXCEPT ![i] = o]
        /\ heap' = [heap EXCEPT ![o] = [item_id |-> i, value |-> v]]
        /\ worth' = [worth EXCEPT ![i] = v]
        /\ UNCHANGED <<window, tmp_merchant_items, tmp_merchant_prices, merchant_items,
                       merchant_agent_id>>
    BY <1>5 DEF NW!HandleItemGeneralInfo, NW!merchantVars
  <2>2. PICK r : r = [item_id |-> i, value |-> v]
    OBVIOUS
  <2>3. r \in Item /\ r.item_id = i /\ r.value = v
    BY <2>2 DEF Item
  <2>4. /\ items' \in [ItemIds -> Objects \cup {NULL}] /\ items'[i] = o
        /\ \A j \in ItemIds : j # i => items'[j] = items[j]
    BY <1>1, <2>1
  <2>5. /\ heap' \in [Objects -> {NULL} \cup Item] /\ heap'[o] = r
        /\ \A p \in Objects : p # o => heap'[p] = heap[p]
    BY <1>1, <2>1, <2>2, <2>3
  <2>6. /\ worth' \in [ItemIds -> Values \cup {0}] /\ worth'[i] = v
        /\ \A j \in ItemIds : j # i => worth'[j] = worth[j]
    BY <1>1, <2>1
  <2>7. \A j \in ItemIds : items[j] # NULL => items[j] \in Objects /\ items[j] # o
    BY <1>1, <1>4, <2>1
  <2>8. ItemsAre(items', heap', worth')
    <3>1. ASSUME NEW j \in ItemIds, items'[j] # NULL
          PROVE  /\ heap'[items'[j]] \in Item /\ heap'[items'[j]].item_id = j
                 /\ heap'[items'[j]].value = worth'[j]
      <4>1. CASE j = i
        BY <2>3, <2>4, <2>5, <2>6, <4>1
      <4>2. CASE j # i
        BY <1>1, <2>4, <2>5, <2>6, <2>7, <3>1, <4>2
      <4> QED
        BY <4>1, <4>2
    <3> QED
      BY <2>4, <2>5, <2>6, <3>1 DEF ItemsAre
  <2>9. \A n \in 1 .. Len(window.listed) : items'[window.listed[n]] = items[window.listed[n]]
    BY <1>2, <1>3, <2>1, <2>4
  <2>10. WindowIs(window, items', tmp_merchant_items, tmp_merchant_prices, merchant_items,
                  merchant_agent_id)
    BY <2>9, ItemsUnlisted DEF WindowInv
  <2>11. WindowInv'
    BY <2>1, <2>10, Zenon DEF WindowInv
  <2> QED
    BY <2>8, <2>11, Zenon DEF ItemInv
<1>6. CASE NW!HandleItemRemove(i)
  <2>1. /\ items[i] # NULL /\ i \notin NW!ToSet(window.listed)
        /\ items' = [items EXCEPT ![i] = NULL]
        /\ heap' = [heap EXCEPT ![items[i]] = NULL]
        /\ worth' = [worth EXCEPT ![i] = 0]
        /\ UNCHANGED <<window, tmp_merchant_items, tmp_merchant_prices, merchant_items,
                       merchant_agent_id>>
    BY <1>6 DEF NW!HandleItemRemove, NW!merchantVars
  <2>2. PICK o : o = items[i]
    OBVIOUS
  <2>3. o \in Objects
    BY <1>1, <2>1, <2>2
  <2>4. /\ items' \in [ItemIds -> Objects \cup {NULL}] /\ items'[i] = NULL
        /\ \A j \in ItemIds : j # i => items'[j] = items[j]
    BY <1>1, <2>1
  <2>5. /\ heap' \in [Objects -> {NULL} \cup Item]
        /\ \A p \in Objects : p # o => heap'[p] = heap[p]
    BY <1>1, <2>1, <2>2, <2>3
  <2>6. /\ worth' \in [ItemIds -> Values \cup {0}]
        /\ \A j \in ItemIds : j # i => worth'[j] = worth[j]
    BY <1>1, <2>1
  <2>7. \A j \in ItemIds : items[j] # NULL /\ j # i => items[j] \in Objects /\ items[j] # o
    BY <1>1, <2>1, <2>2
  <2>8. ItemsAre(items', heap', worth')
    <3>1. ASSUME NEW j \in ItemIds, items'[j] # NULL
          PROVE  /\ heap'[items'[j]] \in Item /\ heap'[items'[j]].item_id = j
                 /\ heap'[items'[j]].value = worth'[j]
      <4>1. j # i
        BY <2>4, <3>1
      <4> QED
        BY <1>1, <2>4, <2>5, <2>6, <2>7, <3>1, <4>1
    <3> QED
      BY <2>4, <2>5, <2>6, <3>1 DEF ItemsAre
  <2>9. \A n \in 1 .. Len(window.listed) : items'[window.listed[n]] = items[window.listed[n]]
    <3>1. \A n \in 1 .. Len(window.listed) : window.listed[n] # i
      BY <1>2, <2>1 DEF NW!ToSet
    <3> QED
      BY <1>3, <2>4, <3>1
  <2>10. WindowIs(window, items', tmp_merchant_items, tmp_merchant_prices, merchant_items,
                  merchant_agent_id)
    BY <2>9, ItemsUnlisted DEF WindowInv
  <2>11. WindowInv'
    BY <2>1, <2>10, Zenon DEF WindowInv
  <2> QED
    BY <2>8, <2>11, Zenon DEF ItemInv
<1> QED
  BY <1>5, <1>6

\* The server lists one more item.
LEMMA ItemListed ==
    ASSUME ItemInv, WindowInv, NEW i \in ItemIds, NW!HandleWindowAddItems(i)
    PROVE  WindowInv'
<1>1. /\ window.npc # NULL /\ items[i] # NULL /\ i \notin NW!ToSet(window.listed)
      /\ window' = [window EXCEPT !.listed = Append(@, i)]
      /\ tmp_merchant_items' = Append(tmp_merchant_items, items[i])
      /\ UNCHANGED <<items, tmp_merchant_prices, merchant_items, merchant_agent_id>>
  BY DEF NW!HandleWindowAddItems, NW!itemVars
<1>2. PICK l, o, k : l = window.listed /\ o = items[i] /\ k = Len(window.listed)
  OBVIOUS
<1>3. /\ window \in [npc : Npcs \cup {NULL}, listed : Seq(ItemIds), prices : Seq(Values),
                     ended : Nat, streams : Nat]
      /\ tmp_merchant_prices = window.prices
      /\ tmp_merchant_items \in Seq(Objects) /\ Len(tmp_merchant_items) = k
      /\ \A n \in 1 .. k : items[l[n]] # NULL /\ tmp_merchant_items[n] = items[l[n]]
      /\ \A m, n \in 1 .. k : l[m] = l[n] => m = n
      /\ window.ended <= k
      /\ merchant_items \in Seq(Objects)
      /\ \A j \in DOMAIN merchant_items : \E n \in 1 .. window.ended : merchant_items[j] = items[l[n]]
      /\ \A n \in 1 .. window.ended : \E j \in DOMAIN merchant_items : merchant_items[j] = items[l[n]]
      /\ merchant_agent_id = window.npc
  BY <1>1, <1>2 DEF WindowInv, WindowIs
<1>4. l \in Seq(ItemIds) /\ k \in Nat /\ Len(l) = k /\ window.ended \in Nat
  BY <1>2, <1>3
<1>5. o \in Objects
  BY <1>1, <1>2 DEF ItemInv, ItemsAre
<1>6. PICK new : new = Append(l, i)
  OBVIOUS
<1>7. new \in Seq(ItemIds) /\ Len(new) = k + 1 /\ new[k + 1] = i /\ \A n \in 1 .. k : new[n] = l[n]
  BY <1>4, <1>6, Appended
<1>8. PICK tmp : tmp = Append(tmp_merchant_items, o)
  OBVIOUS
<1>9. /\ tmp \in Seq(Objects) /\ Len(tmp) = k + 1 /\ tmp[k + 1] = o
      /\ \A n \in 1 .. k : tmp[n] = tmp_merchant_items[n]
  BY <1>3, <1>5, <1>8, Appended
<1>10. PICK w : w = [window EXCEPT !.listed = new]
  OBVIOUS
<1>11. /\ w \in [npc : Npcs \cup {NULL}, listed : Seq(ItemIds), prices : Seq(Values),
                 ended : Nat, streams : Nat]
       /\ w.listed = new /\ w.npc = window.npc /\ w.prices = window.prices /\ w.ended = window.ended
  BY <1>3, <1>7, <1>10
<1>12. \A n \in 1 .. k + 1 : n = k + 1 \/ n \in 1 .. k
  BY <1>4
<1>13. \A n \in 1 .. window.ended : n \in 1 .. k
  BY <1>3, <1>4
<1>14. \A n \in 1 .. k : l[n] # i
  BY <1>1, <1>2, <1>4 DEF NW!ToSet
<1>15. \A n \in 1 .. k + 1 : items[new[n]] # NULL /\ tmp[n] = items[new[n]]
  <2>1. items[new[k + 1]] # NULL /\ tmp[k + 1] = items[new[k + 1]]
    BY <1>1, <1>2, <1>7, <1>9
  <2>2. \A n \in 1 .. k : items[new[n]] # NULL /\ tmp[n] = items[new[n]]
    BY <1>3, <1>7, <1>9
  <2> QED
    BY <1>12, <2>1, <2>2, Zenon
<1>16. \A m, n \in 1 .. k + 1 : new[m] = new[n] => m = n
  <2>1. \A m, n \in 1 .. k : new[m] = new[n] => m = n
    BY <1>3, <1>7
  <2>2. \A n \in 1 .. k : new[n] # new[k + 1]
    BY <1>7, <1>14
  <2> QED
    BY <1>12, <2>1, <2>2, Zenon
<1>17. window.ended <= k + 1
  BY <1>3, <1>4
<1>18. \A n \in 1 .. window.ended : items[new[n]] = items[l[n]]
  BY <1>7, <1>13
<1>19. WindowIs(w, items, tmp, tmp_merchant_prices, merchant_items, merchant_agent_id)
  <2>1. ASSUME NEW j \in DOMAIN merchant_items
        PROVE  \E n \in 1 .. window.ended : merchant_items[j] = items[new[n]]
    <3>1. PICK n \in 1 .. window.ended : merchant_items[j] = items[l[n]]
      BY <1>3
    <3> QED
      BY <1>18, <3>1
  <2>2. \A n \in 1 .. window.ended : \E j \in DOMAIN merchant_items : merchant_items[j] = items[new[n]]
    BY <1>3, <1>18
  <2>3. /\ w.listed = new /\ Len(w.listed) = k + 1 /\ w.ended = window.ended
        /\ w.npc # NULL /\ merchant_agent_id = w.npc /\ tmp_merchant_prices = w.prices
        /\ Len(tmp) = Len(w.listed) /\ w.ended <= Len(w.listed)
    BY <1>1, <1>3, <1>7, <1>9, <1>11, <1>17
  <2>4. IF w.npc = NULL THEN w.listed = <<>> ELSE merchant_agent_id = w.npc
    BY <2>3
  <2> QED
    <3>1. \A n \in 1 .. Len(w.listed) : items[w.listed[n]] # NULL /\ tmp[n] = items[w.listed[n]]
      BY <1>15, <2>3
    <3>2. \A m, n \in 1 .. Len(w.listed) : w.listed[m] = w.listed[n] => m = n
      BY <1>16, <2>3
    <3>3. /\ \A j \in DOMAIN merchant_items :
                \E n \in 1 .. w.ended : merchant_items[j] = items[w.listed[n]]
          /\ \A n \in 1 .. w.ended :
                \E j \in DOMAIN merchant_items : merchant_items[j] = items[w.listed[n]]
      BY <2>1, <2>2, <2>3
    <3> QED
      BY <1>3, <1>9, <1>11, <2>3, <2>4, <3>1, <3>2, <3>3, Zenon DEF WindowIs
<1>20. window' = w /\ tmp_merchant_items' = tmp
  BY <1>1, <1>2, <1>6, <1>8, <1>10
<1> QED
  BY <1>1, <1>19, <1>20, Zenon DEF WindowInv

\* The server names one more price.
LEMMA PriceListed ==
    ASSUME WindowInv, NEW p \in Values, NW!HandleWindowAddPrices(p)
    PROVE  WindowInv'
<1>1. /\ window' = [window EXCEPT !.prices = Append(@, p)]
      /\ tmp_merchant_prices' = Append(tmp_merchant_prices, p)
      /\ UNCHANGED <<items, tmp_merchant_items, merchant_items, merchant_agent_id>>
  BY DEF NW!HandleWindowAddPrices, NW!itemVars
<1>2. /\ window \in [npc : Npcs \cup {NULL}, listed : Seq(ItemIds), prices : Seq(Values),
                     ended : Nat, streams : Nat]
      /\ tmp_merchant_prices = window.prices
  BY DEF WindowInv, WindowIs
<1>3. PICK new : new = Append(tmp_merchant_prices, p)
  OBVIOUS
<1>4. new \in Seq(Values)
  BY <1>2, <1>3, Appended
<1>5. PICK w : w = [window EXCEPT !.prices = new]
  OBVIOUS
<1>6. /\ w \in [npc : Npcs \cup {NULL}, listed : Seq(ItemIds), prices : Seq(Values),
                ended : Nat, streams : Nat]
      /\ w.listed = window.listed /\ w.npc = window.npc /\ w.prices = new /\ w.ended = window.ended
  BY <1>2, <1>4, <1>5
<1>7. WindowIs(w, items, tmp_merchant_items, new, merchant_items, merchant_agent_id)
  BY <1>6 DEF WindowInv, WindowIs
<1>8. window' = w /\ tmp_merchant_prices' = new
  BY <1>1, <1>2, <1>3, <1>5
<1> QED
  BY <1>1, <1>7, <1>8, Zenon DEF WindowInv

\* The larger one of two numbers is one of them.
LEMMA LargerIsOne ==
    ASSUME NEW x \in Values \cup {0}, NEW y \in Values \cup {0}
    PROVE  NW!Max({x, y}) \in Values \cup {0}
<1>1. x \in Nat /\ y \in Nat
  <2>1. Values \subseteq Nat /\ 0 \in Nat
    BY WorldAssumption
  <2> QED
    BY <2>1, Zenon
<1>2. \E m \in {x, y} : \A n \in {x, y} : m >= n
  BY <1>1
<1>3. NW!Max({x, y}) \in {x, y}
  BY <1>2, Zenon DEF NW!Max
<1> QED
  BY <1>3

LEMMA JoinedLength ==
    ASSUME NEW E, NEW s \in Seq(E), NEW t \in Seq(E)
    PROVE  Len(s \o t) = Len(s) + Len(t)
  OBVIOUS

\* The loop over the arrays: the client shows all that is listed, and raises values as the
\* server says.
LEMMA ReadyShows ==
    ASSUME ItemInv, WindowInv, NW!HandleMerchantReady, UNCHANGED <<items>>,
           NEW told_worth, NEW w,
           w.listed = window.listed, w.prices = window.prices, w.npc = window.npc,
           w \in [npc : Npcs \cup {NULL}, listed : Seq(ItemIds), prices : Seq(Values),
                  ended : Nat, streams : Nat],
           w.ended = Len(window.listed),
           DOMAIN window.prices \subseteq DOMAIN window.listed,
           told_worth = [i \in ItemIds |->
                           IF \E n \in DOMAIN window.prices : window.listed[n] = i
                           THEN NW!Max({worth[i], window.prices[CHOOSE m \in DOMAIN window.prices :
                                                                   window.listed[m] = i]})
                           ELSE worth[i]]
    PROVE  /\ ItemsAre(items, heap', told_worth)
           /\ WindowIs(w, items, tmp_merchant_items, tmp_merchant_prices, merchant_items',
                       merchant_agent_id)
<1>1. PICK l, k, tmp, prices : /\ l = window.listed /\ k = Len(window.listed)
                               /\ tmp = tmp_merchant_items /\ prices = window.prices
  OBVIOUS
<1>2. /\ window \in [npc : Npcs \cup {NULL}, listed : Seq(ItemIds), prices : Seq(Values),
                     ended : Nat, streams : Nat]
      /\ tmp_merchant_prices = prices
      /\ tmp \in Seq(Objects) /\ Len(tmp) = k
      /\ \A n \in 1 .. k : items[l[n]] # NULL /\ tmp[n] = items[l[n]]
      /\ \A m, n \in 1 .. k : l[m] = l[n] => m = n
      /\ window.ended <= k
      /\ merchant_items \in Seq(Objects)
      /\ \A j \in DOMAIN merchant_items : \E n \in 1 .. window.ended : merchant_items[j] = items[l[n]]
      /\ IF window.npc = NULL THEN l = <<>> ELSE merchant_agent_id = window.npc
  BY <1>1 DEF WindowInv, WindowIs
<1>3. /\ l \in Seq(ItemIds) /\ prices \in Seq(Values) /\ k \in Nat /\ window.ended \in Nat
      /\ Len(l) = k
  BY <1>1, <1>2
<1>4. /\ DOMAIN l = 1 .. k /\ DOMAIN tmp = 1 .. k /\ DOMAIN prices \subseteq 1 .. k
      /\ \A n \in 1 .. k : l[n] \in ItemIds /\ tmp[n] \in Objects
      /\ \A n \in DOMAIN prices : prices[n] \in Values
  BY <1>1, <1>2, <1>3
<1>5. /\ items \in [ItemIds -> Objects \cup {NULL}] /\ heap \in [Objects -> {NULL} \cup Item]
      /\ worth \in [ItemIds -> Values \cup {0}]
      /\ \A j \in ItemIds : items[j] # NULL =>
            heap[items[j]] \in Item /\ heap[items[j]].item_id = j /\ heap[items[j]].value = worth[j]
  BY DEF ItemInv, ItemsAre
<1>6. NULL \notin Item
  BY WorldAssumption DEF Item
<1>7. \A i, j \in ItemIds : items[i] # NULL /\ items[i] = items[j] => i = j
  BY <1>5
<1>8. ASSUME NEW n \in 1 .. k
      PROVE  /\ heap[tmp[n]] \in Item /\ heap[tmp[n]] # NULL
             /\ heap[tmp[n]].item_id = l[n] /\ heap[tmp[n]].value = worth[l[n]]
             /\ worth[l[n]] \in Values \cup {0}
  BY <1>2, <1>4, <1>5, <1>6, <1>8
<1>9. \A m, n \in 1 .. k : tmp[m] = tmp[n] => m = n
  <2> SUFFICES ASSUME NEW m \in 1 .. k, NEW n \in 1 .. k, tmp[m] = tmp[n] PROVE m = n
    OBVIOUS
  <2>1. items[l[m]] # NULL /\ items[l[m]] = items[l[n]] /\ l[m] \in ItemIds /\ l[n] \in ItemIds
    BY <1>2, <1>4
  <2>2. l[m] = l[n]
    BY <1>7, <2>1
  <2> QED
    BY <1>2, <2>2
<1> DEFINE Raised(n) == IF n \in DOMAIN prices THEN NW!Max({heap[tmp[n]].value, prices[n]})
                        ELSE heap[tmp[n]].value
<1>10. /\ merchant_items' = merchant_items \o tmp
       /\ heap' = [o \in Objects |->
                     IF \E n \in DOMAIN tmp : tmp[n] = o /\ heap[o] # NULL
                     THEN [heap[o] EXCEPT !.value = Raised(CHOOSE n \in DOMAIN tmp : tmp[n] = o)]
                     ELSE heap[o]]
  BY <1>1, <1>2 DEF NW!HandleMerchantReady
<1>11. ASSUME NEW n \in 1 .. k
       PROVE  /\ (CHOOSE m \in DOMAIN tmp : tmp[m] = tmp[n]) = n
              /\ n \in DOMAIN prices =>
                    (CHOOSE m \in DOMAIN prices : l[m] = l[n]) = n
              /\ n \notin DOMAIN prices => ~ \E m \in DOMAIN prices : l[m] = l[n]
  <2>1. (CHOOSE m \in DOMAIN tmp : tmp[m] = tmp[n]) = n
    BY <1>4, <1>9, <1>11
  <2>2. n \in DOMAIN prices => (CHOOSE m \in DOMAIN prices : l[m] = l[n]) = n
    BY <1>2, <1>4, <1>11
  <2>3. n \notin DOMAIN prices => ~ \E m \in DOMAIN prices : l[m] = l[n]
    BY <1>2, <1>4, <1>11
  <2> QED
    BY <2>1, <2>2, <2>3
<1>12. \A n \in DOMAIN tmp : Raised(n) \in Values \cup {0}
  <2> SUFFICES ASSUME NEW n \in 1 .. k PROVE Raised(n) \in Values \cup {0}
    BY <1>4
  <2>1. heap[tmp[n]].value \in Values \cup {0}
    BY <1>8
  <2>2. n \in DOMAIN prices => prices[n] \in Values \cup {0}
    BY <1>4
  <2> QED
    BY <2>1, <2>2, LargerIsOne
<1>13. ASSUME NEW n \in 1 .. k
       PROVE  /\ heap'[tmp[n]] \in Item /\ heap'[tmp[n]].item_id = l[n]
              /\ heap'[tmp[n]].value = told_worth[l[n]]
  <2>1. heap'[tmp[n]] = [heap[tmp[n]] EXCEPT !.value = Raised(n)]
    <3> HIDE DEF Raised
    <3> QED
      BY <1>4, <1>8, <1>10, <1>11, <1>13
  <2>2. PICK x, v : x = heap[tmp[n]] /\ v = Raised(n)
    OBVIOUS
  <2>3. x \in Item /\ x.item_id = l[n] /\ v \in Values \cup {0}
    BY <1>4, <1>8, <1>12, <1>13, <2>2
  <2>4. PICK y : y = [x EXCEPT !.value = v]
    OBVIOUS
  <2>5. y \in Item /\ y.item_id = l[n] /\ y.value = v
    BY <2>3, <2>4 DEF Item
  <2>6. told_worth[l[n]] = v
    <3>1. l[n] \in ItemIds /\ heap[tmp[n]].value = worth[l[n]]
      BY <1>4, <1>8, <1>13
    <3>2. CASE n \in DOMAIN prices
      <4>0. told_worth[l[n]] = IF \E m \in DOMAIN prices : l[m] = l[n]
                               THEN NW!Max({worth[l[n]],
                                            prices[CHOOSE m \in DOMAIN prices : l[m] = l[n]]})
                               ELSE worth[l[n]]
        BY <1>1, <3>1
      <4>1. told_worth[l[n]] = NW!Max({worth[l[n]], prices[n]})
        BY <1>11, <1>13, <3>2, <4>0, Zenon
      <4> QED
        BY <2>2, <3>1, <3>2, <4>1
    <3>3. CASE n \notin DOMAIN prices
      <4>1. told_worth[l[n]] = worth[l[n]]
        BY <1>1, <1>11, <1>13, <3>1, <3>3
      <4> QED
        BY <2>2, <3>1, <3>3, <4>1
    <3> QED
      BY <3>2, <3>3
  <2>7. heap'[tmp[n]] = y
    BY <2>1, <2>2, <2>4
  <2> QED
    BY <2>5, <2>6, <2>7
<1>14. \A o \in Objects : (\A n \in 1 .. k : tmp[n] # o) => heap'[o] = heap[o]
  <2> HIDE DEF Raised
  <2> QED
    BY <1>4, <1>10
<1> HIDE DEF Raised
<1>15. ItemsAre(items, heap', told_worth)
  <2>1. heap' \in [Objects -> {NULL} \cup Item]
    <3>1. \A o \in Objects : heap'[o] \in {NULL} \cup Item
      <4> SUFFICES ASSUME NEW o \in Objects PROVE heap'[o] \in {NULL} \cup Item
        OBVIOUS
      <4>1. CASE \E n \in 1 .. k : tmp[n] = o
        BY <1>13, <4>1
      <4>2. CASE ~ \E n \in 1 .. k : tmp[n] = o
        BY <1>5, <1>14, <4>2
      <4> QED
        BY <4>1, <4>2
    <3>2. heap' = [o \in Objects |-> heap'[o]]
      BY <1>10
    <3> QED
      BY <3>1, <3>2
  <2>2. ASSUME NEW j \in ItemIds
        PROVE  /\ told_worth[j] \in Values \cup {0}
               /\ items[j] # NULL =>
                     /\ heap'[items[j]] \in Item /\ heap'[items[j]].item_id = j
                     /\ heap'[items[j]].value = told_worth[j]
    <3>1. CASE \E n \in 1 .. k : l[n] = j
      <4>1. PICK n \in 1 .. k : l[n] = j
        BY <3>1
      <4>2. heap'[tmp[n]] \in Item /\ heap'[tmp[n]].item_id = j /\ heap'[tmp[n]].value = told_worth[j]
        BY <1>13, <4>1
      <4>3. told_worth[j] \in Values \cup {0}
        BY <4>2 DEF Item
      <4> QED
        BY <1>2, <4>1, <4>2, <4>3
    <3>2. CASE ~ \E n \in 1 .. k : l[n] = j
      <4>1. told_worth[j] = worth[j]
        BY <1>1, <1>4, <3>2
      <4>2. ASSUME items[j] # NULL
            PROVE  heap'[items[j]] = heap[items[j]]
        <5>1. items[j] \in Objects
          BY <1>5, <4>2
        <5>2. \A n \in 1 .. k : tmp[n] # items[j]
          BY <1>2, <1>4, <1>7, <3>2, <4>2
        <5> QED
          BY <1>14, <5>1, <5>2
      <4> QED
        BY <1>5, <4>1, <4>2
    <3> QED
      BY <3>1, <3>2
  <2>3. told_worth \in [ItemIds -> Values \cup {0}]
    <3>1. told_worth = [j \in ItemIds |-> told_worth[j]]
      OBVIOUS
    <3> QED
      BY <2>2, <3>1
  <2> QED
    BY <1>5, <2>1, <2>2, <2>3 DEF ItemsAre
<1>16. /\ merchant_items' \in Seq(Objects)
       /\ \A j \in DOMAIN merchant_items' : \E n \in 1 .. k : merchant_items'[j] = items[l[n]]
       /\ \A n \in 1 .. k : \E j \in DOMAIN merchant_items' : merchant_items'[j] = items[l[n]]
  <2>1. PICK both, h : both = merchant_items \o tmp /\ h = Len(merchant_items)
    OBVIOUS
  <2>2. /\ both \in Seq(Objects) /\ h \in Nat
        /\ DOMAIN both = 1 .. h + k /\ DOMAIN merchant_items = 1 .. h
        /\ \A j \in 1 .. h : both[j] = merchant_items[j]
        /\ \A n \in 1 .. k : both[h + n] = tmp[n]
    <3>1. both \in Seq(Objects)
      BY <1>2, <2>1
    <3>2. h \in Nat /\ DOMAIN merchant_items = 1 .. h
      BY <1>2, <2>1
    <3>3. Len(both) = h + k
      <4>1. Len(merchant_items \o tmp) = Len(merchant_items) + Len(tmp)
        <5>1. merchant_items \in Seq(Objects) /\ tmp \in Seq(Objects)
          BY <1>2
        <5> QED
          BY <5>1, JoinedLength, Zenon
      <4> QED
        BY <1>2, <2>1, <4>1
    <3>4. DOMAIN both = 1 .. h + k
      BY <3>1, <3>3
    <3>5. \A j \in 1 .. h : both[j] = merchant_items[j]
      BY <1>2, <2>1
    <3>6. \A n \in 1 .. k : both[h + n] = tmp[n]
      BY <1>2, <1>3, <2>1
    <3> QED
      BY <3>1, <3>2, <3>4, <3>5, <3>6
  <2>3. \A j \in 1 .. h + k : j \in 1 .. h \/ \E n \in 1 .. k : j = h + n
    <3>1. ASSUME NEW j \in 1 .. h + k, j \notin 1 .. h PROVE j - h \in 1 .. k /\ j = h + (j - h)
      BY <1>3, <2>2, <3>1
    <3> QED
      BY <3>1
  <2>4. \A n \in 1 .. k : h + n \in 1 .. h + k
    BY <1>3, <2>2
  <2>5. \A n \in 1 .. window.ended : n \in 1 .. k
    BY <1>2, <1>3
  <2>6. ASSUME NEW j \in 1 .. h
        PROVE  \E n \in 1 .. k : both[j] = items[l[n]]
    <3>1. PICK n \in 1 .. window.ended : merchant_items[j] = items[l[n]]
      BY <1>2, <2>2
    <3> QED
      BY <2>2, <2>5, <3>1
  <2>7. \A n \in 1 .. k : both[h + n] = items[l[n]]
    BY <1>2, <2>2
  <2>8. \A j \in DOMAIN both : \E n \in 1 .. k : both[j] = items[l[n]]
    <3> SUFFICES ASSUME NEW j \in DOMAIN both PROVE \E n \in 1 .. k : both[j] = items[l[n]]
      OBVIOUS
    <3>1. j \in 1 .. h \/ \E n \in 1 .. k : j = h + n
      BY <2>2, <2>3
    <3> QED
      BY <2>6, <2>7, <3>1
  <2>9. \A n \in 1 .. k : \E j \in DOMAIN both : both[j] = items[l[n]]
    BY <2>2, <2>4, <2>7, Zenon
  <2> QED
    BY <1>10, <2>1, <2>2, <2>8, <2>9, Zenon
<1>17. WindowIs(w, items, tmp, prices, merchant_items', merchant_agent_id)
  <2>1. /\ w.listed = l /\ Len(w.listed) = k /\ w.prices = prices /\ w.ended = k
        /\ w.ended <= Len(w.listed)
    BY <1>1, <1>3
  <2>2. IF w.npc = NULL THEN w.listed = <<>> ELSE merchant_agent_id = w.npc
    BY <1>2, <2>1
  <2> QED
    BY <1>2, <1>16, <2>1, <2>2, Zenon DEF WindowIs
<1> QED
  BY <1>1, <1>2, <1>15, <1>17, Zenon

\* A stream ends: the values rise as the server has told.
LEMMA StreamEnds ==
    ASSUME ItemInv, WindowInv, NW!HandleWindowItemStreamEnd \/ NW!HandleWindowMerchant
    PROVE  ItemInv' /\ WindowInv'
<1>1. /\ NW!HandleMerchantReady
      /\ UNCHANGED <<items, tmp_merchant_items, tmp_merchant_prices, merchant_agent_id>>
  BY DEF NW!HandleWindowItemStreamEnd, NW!HandleWindowMerchant
<1>2. /\ window \in [npc : Npcs \cup {NULL}, listed : Seq(ItemIds), prices : Seq(Values),
                     ended : Nat, streams : Nat]
  BY DEF WindowInv, WindowIs
<1>3. Len(window.listed) \in Nat /\ window.streams + 1 \in Nat
  BY <1>2
<1>4. PICK wo : wo = [i \in ItemIds |->
                        IF \E n \in DOMAIN window.prices : window.listed[n] = i
                        THEN NW!Max({worth[i], window.prices[CHOOSE m \in DOMAIN window.prices :
                                                                window.listed[m] = i]})
                        ELSE worth[i]]
  OBVIOUS
<1>5. PICK w : w = [[window EXCEPT !.ended = Len(window.listed)] EXCEPT !.streams = window'.streams]
  OBVIOUS
<1>6. /\ window'.streams \in Nat /\ window' = w /\ worth' = wo
      /\ DOMAIN window.prices \subseteq DOMAIN window.listed
  <2>1. CASE NW!HandleWindowItemStreamEnd
    <3>1. window' = [[window EXCEPT !.ended = Len(window.listed)] EXCEPT !.streams = @ + 1]
      BY <2>1 DEF NW!HandleWindowItemStreamEnd, NW!Told
    <3>2. window'.streams = window.streams + 1
      <4>1. PICK d : d = [window EXCEPT !.ended = Len(window.listed)]
        OBVIOUS
      <4>2. d \in [npc : Npcs \cup {NULL}, listed : Seq(ItemIds), prices : Seq(Values),
                   ended : Nat, streams : Nat] /\ d.streams = window.streams
        BY <1>2, <1>3, <4>1
      <4>3. window' = [d EXCEPT !.streams = d.streams + 1]
        BY <3>1, <4>1
      <4> QED
        BY <4>2, <4>3
    <3>3. worth' = wo
      BY <1>4, <2>1 DEF NW!HandleWindowItemStreamEnd, NW!Told
    <3>4. DOMAIN window.prices = DOMAIN window.listed
      BY <1>2, <2>1 DEF NW!HandleWindowItemStreamEnd
    <3> QED
      BY <1>2, <1>3, <1>5, <3>1, <3>2, <3>3, <3>4
  <2>2. CASE NW!HandleWindowMerchant
    <3>1. /\ window' = [[window EXCEPT !.ended = Len(window.listed)] EXCEPT !.streams = 2]
          /\ worth' = worth /\ window.prices = <<>>
      BY <2>2 DEF NW!HandleWindowMerchant
    <3>2. window'.streams = 2
      <4>1. PICK d : d = [window EXCEPT !.ended = Len(window.listed)]
        OBVIOUS
      <4>2. d \in [npc : Npcs \cup {NULL}, listed : Seq(ItemIds), prices : Seq(Values),
                   ended : Nat, streams : Nat]
        BY <1>2, <1>3, <4>1
      <4>3. window' = [d EXCEPT !.streams = 2]
        BY <3>1, <4>1
      <4> QED
        BY <4>2, <4>3
    <3>3. DOMAIN window.prices = {}
      BY <3>1
    <3>4. worth \in [ItemIds -> Values \cup {0}]
      BY DEF ItemInv, ItemsAre
    <3>5. wo = [i \in ItemIds |-> worth[i]]
      BY <1>4, <3>3
    <3>6. wo = worth
      BY <3>4, <3>5
    <3> QED
      BY <1>5, <3>1, <3>2, <3>3, <3>6
  <2> QED
    BY <2>1, <2>2
<1>7. /\ w \in [npc : Npcs \cup {NULL}, listed : Seq(ItemIds), prices : Seq(Values),
                ended : Nat, streams : Nat]
      /\ w.listed = window.listed /\ w.prices = window.prices /\ w.npc = window.npc
      /\ w.ended = Len(window.listed)
  <2>1. PICK d, n : d = [window EXCEPT !.ended = Len(window.listed)] /\ n = window'.streams
    OBVIOUS
  <2>2. /\ d \in [npc : Npcs \cup {NULL}, listed : Seq(ItemIds), prices : Seq(Values),
                  ended : Nat, streams : Nat]
        /\ d.listed = window.listed /\ d.prices = window.prices /\ d.npc = window.npc
        /\ d.ended = Len(window.listed)
    BY <1>2, <1>3, <2>1
  <2>3. w = [d EXCEPT !.streams = n] /\ n \in Nat
    BY <1>5, <1>6, <2>1
  <2> QED
    BY <2>2, <2>3
<1>8. /\ ItemsAre(items, heap', wo)
      /\ WindowIs(w, items, tmp_merchant_items, tmp_merchant_prices, merchant_items',
                  merchant_agent_id)
  BY <1>1, <1>4, <1>6, <1>7, ReadyShows
<1> QED
  BY <1>1, <1>6, <1>8, Zenon DEF ItemInv, WindowInv

\* Nobody has an item, and nothing is worth anything.
LEMMA NoItems ==
    ItemsAre([i \in ItemIds |-> NULL], [o \in Objects |-> NULL], [i \in ItemIds |-> 0])
  BY DEF ItemsAre

LEMMA NoDialog ==
    ASSUME NEW t, t \in [npc : Npcs \cup {NULL}, buttons : Seq(Buttons)], NEW ans
    PROVE  DialogIs(NW!ClosedDialog, t, ans)
<1>1. NW!ClosedDialog = [opened |-> FALSE, interact_with |-> NULL, buttons |-> <<>>]
  BY DEF NW!ClosedDialog
<1>2. <<>> \in Seq(Buttons)
  OBVIOUS
<1>3. /\ NW!ClosedDialog \in [opened : BOOLEAN, interact_with : Npcs \cup {NULL},
                              buttons : Seq(Buttons)]
      /\ ~NW!ClosedDialog.opened
  BY <1>1, <1>2
<1> QED
  BY <1>3 DEF DialogIs

LEMMA NoTalkIs == NW!NoTalk \in [npc : Npcs \cup {NULL}, buttons : Seq(Buttons)]
<1>1. <<>> \in Seq(Buttons)
  OBVIOUS
<1> QED
  BY <1>1 DEF NW!NoTalk

\* The dialog is told, answered and closed.
LEMMA DialogSteps ==
    ASSUME DialogInv,
           \/ \E npc \in Npcs : NW!HandleDialogSender(npc)
           \/ \E b \in Buttons : NW!HandleDialogButton(b)
           \/ \E to \in Npcs \cup {NULL} : NW!PlayerMoves(to)
           \/ NW!AnswerArrives \/ NW!GameSrv_SendDialog \/ NW!ResetWorld
    PROVE  DialogInv'
<1>1. /\ dialog \in [opened : BOOLEAN, interact_with : Npcs \cup {NULL}, buttons : Seq(Buttons)]
      /\ talk \in [npc : Npcs \cup {NULL}, buttons : Seq(Buttons)]
      /\ dialog.opened => ~answered /\ dialog.interact_with = talk.npc /\ dialog.buttons = talk.buttons
  BY DEF DialogInv, DialogIs
<1>2. ASSUME NEW npc \in Npcs, NW!HandleDialogSender(npc) PROVE DialogInv'
  <2>1. /\ dialog' = [opened |-> TRUE, interact_with |-> npc, buttons |-> <<>>]
        /\ talk' = [npc |-> npc, buttons |-> <<>>] /\ answered' = FALSE
    BY <1>2 DEF NW!HandleDialogSender
  <2>2. <<>> \in Seq(Buttons)
    OBVIOUS
  <2>3. DialogIs(dialog', talk', answered')
    BY <2>1, <2>2 DEF DialogIs
  <2> QED
    BY <2>3, Zenon DEF DialogInv
<1>3. ASSUME NEW b \in Buttons, NW!HandleDialogButton(b) PROVE DialogInv'
  <2>1. /\ talk' = [talk EXCEPT !.buttons = Append(talk.buttons, b)]
        /\ dialog' = [dialog EXCEPT !.buttons = Append(dialog.buttons, b)]
        /\ answered' = answered
    BY <1>3 DEF NW!HandleDialogButton
  <2>2. PICK x, y : x = Append(talk.buttons, b) /\ y = Append(dialog.buttons, b)
    OBVIOUS
  <2>3. x \in Seq(Buttons) /\ y \in Seq(Buttons)
    BY <1>1, <2>2, Appended
  <2>4. dialog.opened => x = y
    BY <1>1, <2>2
  <2>5. talk' = [talk EXCEPT !.buttons = x] /\ dialog' = [dialog EXCEPT !.buttons = y]
    BY <2>1, <2>2
  <2>6. DialogIs(dialog', talk', answered')
    BY <1>1, <2>1, <2>3, <2>4, <2>5 DEF DialogIs
  <2> QED
    BY <2>6, Zenon DEF DialogInv
<1>4. ASSUME NEW to, NW!PlayerMoves(to) PROVE DialogInv'
  <2>1. dialog' = NW!ClosedDialog /\ talk' = NW!NoTalk
    BY <1>4 DEF NW!PlayerMoves
  <2>2. DialogIs(NW!ClosedDialog, NW!NoTalk, answered')
    BY NoDialog, NoTalkIs
  <2> QED
    BY <2>1, <2>2, Zenon DEF DialogInv
<1>5. CASE NW!AnswerArrives
  <2>1. talk' = NW!NoTalk /\ dialog' = dialog /\ answered
    BY <1>5 DEF NW!AnswerArrives
  <2>2. DialogIs(dialog, NW!NoTalk, answered')
    BY <1>1, <2>1, NoTalkIs DEF DialogIs
  <2> QED
    BY <2>1, <2>2, Zenon DEF DialogInv
<1>6. CASE NW!GameSrv_SendDialog
  <2>1. dialog' = NW!ClosedDialog /\ talk' = talk
    BY <1>6 DEF NW!GameSrv_SendDialog
  <2>2. DialogIs(NW!ClosedDialog, talk, answered')
    BY <1>1, NoDialog
  <2> QED
    BY <2>1, <2>2, Zenon DEF DialogInv
<1>7. CASE NW!ResetWorld
  <2>1. dialog' = NW!ClosedDialog /\ talk' = NW!NoTalk
    BY <1>7 DEF NW!ResetWorld
  <2>2. DialogIs(NW!ClosedDialog, NW!NoTalk, answered')
    BY NoDialog, NoTalkIs
  <2> QED
    BY <2>1, <2>2, Zenon DEF DialogInv
<1> QED
  BY <1>2, <1>3, <1>4, <1>5, <1>6, <1>7

\* What does not touch the items and the window leaves them as they are.
LEMMA WindowKept ==
    ASSUME ItemInv, WindowInv,
           UNCHANGED <<items, heap, worth, window, tmp_merchant_items, tmp_merchant_prices,
                       merchant_items, merchant_agent_id>>
    PROVE  ItemInv' /\ WindowInv'
  BY Zenon DEF ItemInv, WindowInv

LEMMA DialogKept ==
    ASSUME DialogInv, UNCHANGED <<dialog, talk, answered>>
    PROVE  DialogInv'
  BY Zenon DEF DialogInv

NpcInv == ItemInv /\ WindowInv /\ DialogInv

LEMMA NpcStep ==
    ASSUME NpcInv, NW!Next
    PROVE  NpcInv'
<1>1. ItemInv /\ WindowInv /\ DialogInv
  BY DEF NpcInv
<1>2. ASSUME NEW i \in ItemIds,
             \/ \E o \in Objects, v \in Values : NW!HandleItemGeneralInfo(i, o, v)
             \/ NW!HandleItemRemove(i)
      PROVE  NpcInv'
  <2>1. UNCHANGED <<dialog, talk, answered>>
    BY <1>2 DEF NW!HandleItemGeneralInfo, NW!HandleItemRemove, NW!talkVars
  <2> QED
    BY <1>1, <1>2, <2>1, ItemSteps, DialogKept DEF NpcInv
<1>3. ASSUME NEW i \in ItemIds, NW!HandleWindowAddItems(i) PROVE NpcInv'
  <2>1. UNCHANGED <<dialog, talk, answered>> /\ UNCHANGED <<items, heap, worth>>
    BY <1>3 DEF NW!HandleWindowAddItems, NW!talkVars, NW!itemVars
  <2>2. ItemInv'
    BY <1>1, <2>1, Zenon DEF ItemInv
  <2> QED
    BY <1>1, <1>3, <2>1, <2>2, ItemListed, DialogKept DEF NpcInv
<1>4. ASSUME NEW p \in Values, NW!HandleWindowAddPrices(p) PROVE NpcInv'
  <2>1. UNCHANGED <<dialog, talk, answered>> /\ UNCHANGED <<items, heap, worth>>
    BY <1>4 DEF NW!HandleWindowAddPrices, NW!talkVars, NW!itemVars
  <2>2. ItemInv'
    BY <1>1, <2>1, Zenon DEF ItemInv
  <2> QED
    BY <1>1, <1>4, <2>1, <2>2, PriceListed, DialogKept DEF NpcInv
<1>5. CASE NW!HandleWindowItemStreamEnd \/ NW!HandleWindowMerchant
  <2>1. UNCHANGED <<dialog, talk, answered>>
    BY <1>5 DEF NW!HandleWindowItemStreamEnd, NW!HandleWindowMerchant, NW!talkVars
  <2> QED
    BY <1>1, <1>5, <2>1, StreamEnds, DialogKept DEF NpcInv
<1>6. ASSUME NEW npc \in Npcs, NW!HandleWindowOwner(npc) PROVE NpcInv'
  <2>1. /\ merchant_items' = <<>> /\ tmp_merchant_items' = <<>> /\ tmp_merchant_prices' = <<>>
        /\ merchant_agent_id' = npc /\ window' = [NW!NoWindow EXCEPT !.npc = npc]
        /\ UNCHANGED <<dialog, talk, answered>> /\ UNCHANGED <<items, heap, worth>>
    BY <1>6 DEF NW!HandleWindowOwner, NW!talkVars, NW!itemVars
  <2>2. ItemInv'
    BY <1>1, <2>1, Zenon DEF ItemInv
  <2>3. WindowIs([NW!NoWindow EXCEPT !.npc = npc], items, <<>>, <<>>, <<>>, npc)
    BY EmptyWindow
  <2>4. WindowInv'
    BY <2>1, <2>3, Zenon DEF WindowInv
  <2> QED
    BY <1>1, <2>1, <2>2, <2>4, DialogKept DEF NpcInv
<1>7. ASSUME NEW npc \in Npcs, NW!HandleDialogSender(npc) PROVE NpcInv'
  <2>1. /\ merchant_items' = <<>> /\ tmp_merchant_items' = <<>> /\ tmp_merchant_prices' = <<>>
        /\ merchant_agent_id' = merchant_agent_id /\ window' = NW!NoWindow
        /\ UNCHANGED <<items, heap, worth>>
    BY <1>7 DEF NW!HandleDialogSender, NW!itemVars
  <2>2. ItemInv'
    BY <1>1, <2>1, Zenon DEF ItemInv
  <2>3. WindowIs(NW!NoWindow, items, <<>>, <<>>, <<>>, merchant_agent_id)
    BY NoWindowIs
  <2>4. WindowInv'
    BY <2>1, <2>3, Zenon DEF WindowInv
  <2> QED
    BY <1>1, <1>7, <2>2, <2>4, DialogSteps DEF NpcInv
<1>8. CASE \/ \E b \in Buttons : NW!HandleDialogButton(b)
           \/ \E to \in Npcs \cup {NULL} : NW!PlayerMoves(to)
           \/ NW!AnswerArrives \/ NW!GameSrv_SendDialog
  <2>1. UNCHANGED <<items, heap, worth, window, tmp_merchant_items, tmp_merchant_prices,
                    merchant_items, merchant_agent_id>>
    BY <1>8 DEF NW!HandleDialogButton, NW!PlayerMoves, NW!AnswerArrives, NW!GameSrv_SendDialog,
       NW!itemVars, NW!merchantVars
  <2> QED
    BY <1>1, <1>8, <2>1, WindowKept, DialogSteps DEF NpcInv
<1>9. ASSUME NEW i \in ItemIds, NW!RequestItemQuote(i) PROVE NpcInv'
  <2>1. UNCHANGED <<items, heap, worth, window, tmp_merchant_items, tmp_merchant_prices,
                    merchant_items, merchant_agent_id>> /\ UNCHANGED <<dialog, talk, answered>>
    BY <1>9 DEF NW!RequestItemQuote, NW!clientVars
  <2> QED
    BY <1>1, <2>1, WindowKept, DialogKept DEF NpcInv
<1>10. CASE NW!ResetWorld
  <2>1. /\ items' = [i \in ItemIds |-> NULL] /\ heap' = [o \in Objects |-> NULL]
        /\ worth' = [i \in ItemIds |-> 0]
        /\ merchant_items' = <<>> /\ tmp_merchant_items' = <<>> /\ tmp_merchant_prices' = <<>>
        /\ merchant_agent_id' = NULL /\ window' = NW!NoWindow
    BY <1>10 DEF NW!ResetWorld
  <2>2. ItemInv'
    BY <2>1, NoItems, Zenon DEF ItemInv
  <2>3. WindowIs(NW!NoWindow, items', <<>>, <<>>, <<>>, NULL)
    BY NoWindowIs
  <2>4. WindowInv'
    BY <2>1, <2>3, Zenon DEF WindowInv
  <2> QED
    BY <1>1, <1>10, <2>2, <2>4, DialogSteps DEF NpcInv
<1> QED
  BY <1>2, <1>3, <1>4, <1>5, <1>6, <1>7, <1>8, <1>9, <1>10, Zenon DEF NW!Next

\* What a plugin reads of the items that are shown.
LEMMA ShownItems ==
    ASSUME ItemInv, WindowInv
    PROVE  /\ NW!GetMerchantItems = NW!ToSet(SubSeq(window.listed, 1, window.ended))
           /\ NW!GetMerchantItems # {} => merchant_agent_id = window.npc
<1>1. PICK l, k, e : l = window.listed /\ k = Len(window.listed) /\ e = window.ended
  OBVIOUS
<1>2. /\ window \in [npc : Npcs \cup {NULL}, listed : Seq(ItemIds), prices : Seq(Values),
                     ended : Nat, streams : Nat]
      /\ \A n \in 1 .. k : items[l[n]] # NULL
      /\ e <= k
      /\ \A j \in DOMAIN merchant_items : \E n \in 1 .. e : merchant_items[j] = items[l[n]]
      /\ \A n \in 1 .. e : \E j \in DOMAIN merchant_items : merchant_items[j] = items[l[n]]
      /\ IF window.npc = NULL THEN l = <<>> ELSE merchant_agent_id = window.npc
  BY <1>1 DEF WindowInv, WindowIs
<1>3. l \in Seq(ItemIds) /\ k \in Nat /\ e \in Nat /\ Len(l) = k
  BY <1>1, <1>2
<1>4. \A n \in 1 .. e : n \in 1 .. k /\ l[n] \in ItemIds
  BY <1>2, <1>3
<1>5. NULL \notin Item
  BY WorldAssumption DEF Item
<1>6. \A n \in 1 .. e : heap[items[l[n]]] # NULL /\ heap[items[l[n]]].item_id = l[n]
  BY <1>2, <1>4, <1>5 DEF ItemInv, ItemsAre
<1>7. NW!GetMerchantItems = {NW!Shown[j] : j \in DOMAIN merchant_items}
  BY DEF NW!GetMerchantItems, NW!ToSet, NW!Shown
<1>8. \A j \in DOMAIN merchant_items :
         NW!Shown[j] = IF heap[merchant_items[j]] = NULL THEN NULL ELSE heap[merchant_items[j]].item_id
  BY DEF NW!Shown
<1>9. ASSUME NEW j \in DOMAIN merchant_items PROVE \E n \in 1 .. e : NW!Shown[j] = l[n]
  <2>1. PICK n \in 1 .. e : merchant_items[j] = items[l[n]]
    BY <1>2
  <2> QED
    BY <1>6, <1>8, <2>1
<1>10. ASSUME NEW n \in 1 .. e PROVE \E j \in DOMAIN merchant_items : NW!Shown[j] = l[n]
  <2>1. PICK j \in DOMAIN merchant_items : merchant_items[j] = items[l[n]]
    BY <1>2
  <2> QED
    BY <1>6, <1>8, <2>1
<1>11. NW!GetMerchantItems = {l[n] : n \in 1 .. e}
  BY <1>7, <1>9, <1>10
<1>12. NW!ToSet(SubSeq(l, 1, e)) = {l[n] : n \in 1 .. e}
  <2>1. Len(SubSeq(l, 1, e)) = e /\ DOMAIN SubSeq(l, 1, e) = 1 .. e
    BY <1>2, <1>3
  <2>2. \A n \in 1 .. e : SubSeq(l, 1, e)[n] = l[n]
    BY <1>2, <1>3
  <2> QED
    BY <2>1, <2>2 DEF NW!ToSet
<1>13. ASSUME NW!GetMerchantItems # {} PROVE merchant_agent_id = window.npc
  <2>1. 1 .. e # {}
    BY <1>11, <1>13
  <2>2. k # 0
    BY <1>2, <1>3, <2>1
  <2>3. l # <<>>
    BY <1>3, <2>2
  <2> QED
    BY <1>2, <2>3
<1> QED
  BY <1>1, <1>11, <1>12, <1>13

\* For any items and NPCs: the items a plugin gets are those of the server's window, each
\* with the value the server has told of it, and an open dialog is the server's.
THEOREM NpcShowsTheServers ==
    WorldSpec => [](/\ NW!MerchantItemsAreOfTheWindow /\ NW!PricesAreTheItems
                    /\ NW!OpenDialogIsTheServers)
<1>1. WorldInit => NpcInv
  <2> SUFFICES ASSUME WorldInit PROVE NpcInv
    OBVIOUS
  <2>1. /\ items = [i \in ItemIds |-> NULL] /\ heap = [o \in Objects |-> NULL]
        /\ worth = [i \in ItemIds |-> 0]
        /\ merchant_items = <<>> /\ tmp_merchant_items = <<>> /\ tmp_merchant_prices = <<>>
        /\ merchant_agent_id = NULL /\ window = NW!NoWindow
        /\ dialog = NW!ClosedDialog /\ talk = NW!NoTalk
    BY DEF WorldInit, NW!Init
  <2>2. ItemInv
    BY <2>1, NoItems, Zenon DEF ItemInv
  <2>3. WindowIs(NW!NoWindow, items, <<>>, <<>>, <<>>, NULL)
    BY NoWindowIs
  <2>4. WindowInv
    BY <2>1, <2>3, Zenon DEF WindowInv
  <2>5. DialogIs(NW!ClosedDialog, NW!NoTalk, answered)
    BY NoDialog, NoTalkIs
  <2>6. DialogInv
    BY <2>1, <2>5, Zenon DEF DialogInv
  <2> QED
    BY <2>2, <2>4, <2>6 DEF NpcInv
<1>2. NpcInv /\ [WorldNext]_worldVars => NpcInv'
  <2> SUFFICES ASSUME NpcInv, [WorldNext]_worldVars PROVE NpcInv'
    OBVIOUS
  <2>1. CASE UNCHANGED npcVars
    <3>1. UNCHANGED <<items, heap, worth, window, tmp_merchant_items, tmp_merchant_prices,
                      merchant_items, merchant_agent_id>> /\ UNCHANGED <<dialog, talk, answered>>
      BY <2>1 DEF npcVars
    <3> QED
      BY <3>1, WindowKept, DialogKept DEF NpcInv
  <2>2. CASE NW!Next
    BY <2>2, NpcStep
  <2> QED
    BY <2>1, <2>2, Zenon DEF WorldNext, worldVars, OnlySkillbars
<1>3. NpcInv => NW!MerchantItemsAreOfTheWindow
  BY ShownItems, Zenon DEF NpcInv, NW!MerchantItemsAreOfTheWindow
<1>4. NpcInv => NW!PricesAreTheItems
  BY DEF NpcInv, ItemInv, ItemsAre, NW!PricesAreTheItems
<1>5. NpcInv => NW!OpenDialogIsTheServers
  BY DEF NpcInv, DialogInv, DialogIs, NW!OpenDialogIsTheServers
<1> QED
  BY <1>1, <1>2, <1>3, <1>4, <1>5, PTL DEF WorldSpec

-----------------------------------------------------------------------------
(* All of it                                                               *)

\* For any of them: what plugins read of each part of the world is what the server has told.
THEOREM AllIsTold == WorldSpec => []ReadIsTold
<1>1. WorldSpec => []QL!IdNotBeforeIndex
  BY IdsAreNotBefore
<1>2. WorldSpec => []CH!MessageIsWhole
  BY MessagesAreWhole
<1>3. WorldSpec => [](GU!UpdateIsWhole /\ GU!RosterIsOfMyGuild)
  BY GuildIsMine
<1>4. WorldSpec => []FR!FriendsAreAsTold
  BY FriendsAsTold
<1>5. WorldSpec => [](SB!ShownIsTheServers /\ SB!DisabledIsTheServers)
  BY SkillsAreShown
<1>6. WorldSpec => [](/\ NW!MerchantItemsAreOfTheWindow /\ NW!PricesAreTheItems
                      /\ NW!OpenDialogIsTheServers)
  BY NpcShowsTheServers
<1>7. /\ NW!MerchantItemsAreOfTheWindow /\ NW!PricesAreTheItems /\ NW!OpenDialogIsTheServers
      /\ GU!UpdateIsWhole /\ GU!RosterIsOfMyGuild
      /\ SB!ShownIsTheServers /\ SB!DisabledIsTheServers
      /\ CH!MessageIsWhole
      /\ FR!FriendsAreAsTold
      /\ QL!IdNotBeforeIndex
      => ReadIsTold
  BY Zenon DEF ReadIsTold
<1> QED
  BY <1>1, <1>2, <1>3, <1>4, <1>5, <1>6, <1>7, PTL
=============================================================================
