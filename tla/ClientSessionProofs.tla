------------------------ MODULE ClientSessionProofs ------------------------
(***************************************************************************)
(* Safety of the session, for every roster, every set of names and worlds  *)
(* and every bound.  TypeOK and TransactionsUnique are inductive; the rest  *)
(* is proved together as SessionInv, which says besides the properties     *)
(* themselves in which states a request, a packet, a socket or a world may *)
(* be found; the character that is played adds RosterInv and CharacterInv. *)
(***************************************************************************)
EXTENDS ClientSession, SequenceTheorems, TLAPS

-----------------------------------------------------------------------------
(* The inductive invariant                                                 *)

\* The session information is the first packet and opens the login.
SessionInfoFirst ==
    \A i \in 1 .. Len(from_auth) :
        from_auth[i].kind = "SESSION_INFO" => i = 1 /\ state = "AwaitSessionInfo"

\* A socket being connected belongs to no login.
ConnectAfterLogin == pc = "connect" => state \notin LoginStates /\ game_srv.fd

\* Packets of a game server come through an open socket.
GameThroughSocket ==
    /\ from_game # <<>> => game_srv.fd /\ pc # "connect"
    /\ game_peer \notin {"none", "gone"} => game_srv.fd /\ pc # "connect"

\* A transfer has a destination.
TransferHasWorld ==
    state \in {"AwaitGameServerDisconnect", "AwaitGameServerTransfer"} =>
        server_transfer # 0

\* The state in which the client waits for each reply.
AwaitedIn(type) ==
    CASE type = "AccountLogin"     -> {"AwaitAccountConnection"}
      [] type = "SendHardwareInfo" -> {"AwaitHardwareInfoReply"}
      [] type = "ChangeCharacter"  -> {"AwaitChangeCharacter"}
      [] type = "PlayCharacter"    -> AwaitStates \ LoginStates
      [] OTHER                     -> AwaitStates

RequestsAwaited == \A r \in requests : state \in AwaitedIn(r.type)

\* Two requests of one type are both redirects.
OneOfAType ==
    \A r, s \in requests : r.type = s.type /\ r.type # "None" => r = s

-----------------------------------------------------------------------------
(* Types                                                                   *)

\* What the packets the servers send are made of.
LEMMA PacketTypes ==
    /\ SessionInfo \in AuthPacket
    /\ \A n \in Names : CharacterInfo(n) \in AuthPacket /\ AccountInfo(n) \in AuthPacket
    /\ \A t \in Nat : \A c \in {0, 1} : RequestResponse(t, c) \in AuthPacket
    /\ \A w \in WorldIds : GameServerInfo(w) \in AuthPacket
    /\ \A w \in WorldIds : GameTransferInfo(w) \in GamePacket
    /\ \A k \in PlainKinds : Plain(k) \in GamePacket
  BY DEF SessionInfo, CharacterInfo, AccountInfo, RequestResponse, GameServerInfo,
         GameTransferInfo, Plain, AuthPacket, GamePacket, PlainKinds

\* The payload of a received packet, by its kind.
LEMMA PacketFields ==
    /\ \A p \in AuthPacket :
         /\ p.kind \in {"CHARACTER_INFO", "ACCOUNT_INFO"} => p.name \in Names
         /\ p.kind = "REQUEST_RESPONSE" => p.trans_id \in Nat /\ p.code \in {0, 1}
         /\ p.kind = "GAME_SERVER_INFO" => p.world_id \in WorldIds
    /\ \A p \in GamePacket : p.kind = "TRANSFER" => p.world_id \in WorldIds
  BY DEF AuthPacket, GamePacket, PlainKinds

\* Taking the head off a queue.
LEMMA QueueTail ==
    ASSUME NEW S, NEW q \in Seq(S), q # <<>>
    PROVE  /\ Head(q) \in S
           /\ Head(q) = q[1]
           /\ Len(q) \in Nat \ {0}
           /\ Tail(q) \in Seq(S)
           /\ Len(Tail(q)) = Len(q) - 1
           /\ \A i \in 1 .. Len(Tail(q)) : Tail(q)[i] = q[i + 1]
  BY HeadTailProperties, EmptySeq, LenProperties

\* The two queues of the client.
LEMMA ClientQueues ==
    ASSUME TypeOK
    PROVE  /\ from_auth # <<>> => Tail(from_auth) \in Seq(AuthPacket)
           /\ from_game # <<>> => Tail(from_game) \in Seq(GamePacket)
  BY QueueTail DEF TypeOK

\* Queues end to end: every element comes from one of the two.
LEMMA QueueConcat ==
    ASSUME NEW S, NEW p \in Seq(S), NEW q \in Seq(S)
    PROVE  /\ p \o q \in Seq(S)
           /\ Len(p) \in Nat /\ Len(q) \in Nat
           /\ \A i \in 1 .. Len(p \o q) :
                 \/ i \in 1 .. Len(p) /\ (p \o q)[i] = p[i]
                 \/ i - Len(p) \in 1 .. Len(q) /\ (p \o q)[i] = q[i - Len(p)]
  <1>1. Len(p) \in Nat /\ Len(q) \in Nat
    OBVIOUS
  <1>2. /\ p \o q \in Seq(S)
        /\ Len(p \o q) = Len(p) + Len(q)
        /\ \A i \in 1 .. Len(p) + Len(q) :
              (p \o q)[i] = IF i <= Len(p) THEN p[i] ELSE q[i - Len(p)]
    BY ConcatProperties, Zenon
  <1>. QED
    BY <1>1, <1>2

\* The initial state has the types.
LEMMA TypeInit == Init => TypeOK
  <1> SUFFICES ASSUME Init PROVE TypeOK
    OBVIOUS
  <1>1. /\ <<SessionInfo>> \in Seq(AuthPacket)
        /\ <<>> \in Seq(GamePacket)
        /\ <<>> \in Seq(Names)
    BY PacketTypes
  <1>2. game_srv \in GameConnection
    BY DEF Init, GameConnection
  <1>3. state \in AwaitStates /\ game_peer \in GamePeers
    BY DEF Init, AwaitStates, GamePeers
  <1>4. halted \in Checks
    BY DEF Init, Checks
  <1>5. options \in [newauth : BOOLEAN, charname : Names \cup {LongName},
                     online_status : Statuses]
    BY DEF Init
  <1>6. requests \subseteq AsyncRequest /\ at_auth \subseteq AuthQuestion
    BY DEF Init
  <1>. QED
    BY <1>1, <1>2, <1>3, <1>4, <1>5, <1>6 DEF Init, TypeOK

\* What the requests to the auth server keep.
LEMMA RequestTypes ==
    ASSUME TypeOK, NEW rest, rest \subseteq AsyncRequest, NEW type \in AsyncTypes,
           NEW what \in {"LOGIN", "RESPONSE", "CHANGE", "INSTANCE"}
    PROVE  /\ IssueNextTransaction(rest, type) =>
                  requests' \subseteq AsyncRequest /\ next_transaction_id' \in Nat
           /\ AskAuth(what) => at_auth' \subseteq AuthQuestion /\ auth_srv' \in BOOLEAN
           /\ RequestInstance(rest, type) =>
                  /\ requests' \subseteq AsyncRequest /\ next_transaction_id' \in Nat
                  /\ at_auth' \subseteq AuthQuestion /\ auth_srv' \in BOOLEAN
                  /\ state' \in AwaitStates
  <1>1. IssueNextTransaction(rest, type) =>
            requests' \subseteq AsyncRequest /\ next_transaction_id' \in Nat
    BY DEF TypeOK, IssueNextTransaction, AsyncRequest
  <1>2. ASSUME NEW w \in {"LOGIN", "RESPONSE", "CHANGE", "INSTANCE"}, AskAuth(w)
        PROVE  at_auth' \subseteq AuthQuestion /\ auth_srv' \in BOOLEAN
    BY <1>2 DEF TypeOK, AskAuth, AuthQuestion
  <1>. QED
    BY <1>1, <1>2 DEF RequestInstance, AwaitStates

\* What start_loading_new_zone keeps.
LEMMA LoadingTypes ==
    ASSUME TypeOK, NEW w \in WorldIds, NEW conn \in GameConnection,
           StartLoadingNewZone(w, conn)
    PROVE  /\ state' \in AwaitStates
           /\ game_srv' \in GameConnection
           /\ game_peer' \in GamePeers
           /\ from_game' \in Seq(GamePacket)
           /\ world' \in WorldIds \cup {0}
           /\ server_transfer' \in WorldIds \cup {0}
  <1>1. state' \in AwaitStates
    BY DEF StartLoadingNewZone, AwaitStates
  <1>2. game_srv' \in GameConnection
    BY DEF StartLoadingNewZone, TypeOK, gameVars
  <1>3. game_peer' \in GamePeers
    BY DEF StartLoadingNewZone, TypeOK, GamePeers, gameVars
  <1>4. from_game' \in Seq(GamePacket)
    <2>1. <<>> \in Seq(GamePacket)
      OBVIOUS
    <2>. QED
      BY <2>1 DEF StartLoadingNewZone, TypeOK, gameVars
  <1>. QED
    BY <1>1, <1>2, <1>3, <1>4 DEF StartLoadingNewZone

\* An abort changes nothing but halted and pc.
LEMMA AbortTypes ==
    ASSUME TypeOK, NEW f \in Checks, Abort(f)
    PROVE  TypeOK'
  BY DEF TypeOK, Abort, clientVars, requestVars, charVars, worldVars, gameVars,
         authVars

\* What the replies to the requests of the login keep.
LEMMA ReplyTypes ==
    ASSUME TypeOK, HandleRequestResponse
    PROVE  TypeOK'
  <1> DEFINE reply == Head(from_auth)
             found == {r \in requests : r.trans_id = reply.trans_id}
             rest  == requests \ found
  <1> USE DEF clientVars, requestVars, charVars, worldVars, gameVars, authVars
  <1>1. /\ reply.code \in {0, 1}
        /\ Tail(from_auth) \in Seq(AuthPacket)
        /\ rest \subseteq AsyncRequest
        /\ rest \subseteq requests
    BY QueueTail, PacketFields DEF HandleRequestResponse, AuthPacketIs, TypeOK
  <1> HIDE DEF found, rest
  <1>2. ASSUME ContinueAccountLogin(rest, reply.code)
        PROVE  TypeOK'
    <2>1. CASE Abort("ContinueAccountLogin")
      BY <2>1, AbortTypes DEF Checks
    <2>2. IssueNextTransaction(rest, "SendHardwareInfo") =>
              requests' \subseteq AsyncRequest /\ next_transaction_id' \in Nat
      BY <1>1, RequestTypes DEF AsyncTypes
    <2>3. AskServerResponse => at_auth' \subseteq AuthQuestion /\ auth_srv' \in BOOLEAN
      BY <1>1, RequestTypes DEF AskServerResponse, AsyncTypes
    <2>. QED
      BY <1>1, <1>2, <2>1, <2>2, <2>3 DEF ContinueAccountLogin, TypeOK, AwaitStates
  <1>3. ASSUME ContinueSendHardwareInfo(rest)
        PROVE  TypeOK'
    <2>1. CASE Abort("ContinueSendHardwareInfo")
      BY <2>1, AbortTypes DEF Checks
    <2>. QED
      BY <1>1, <1>3, <2>1 DEF ContinueSendHardwareInfo, TypeOK, AwaitStates
  <1>4. ASSUME ContinueChangeCharacter(rest, reply.code)
        PROVE  TypeOK'
    <2>1. CASE Abort("ContinueChangeCharacter") \/ Abort("pending_character_idx")
      BY <2>1, AbortTypes DEF Checks
    <2>2. RequestInstance(rest, "PlayCharacter") =>
              /\ requests' \subseteq AsyncRequest /\ next_transaction_id' \in Nat
              /\ at_auth' \subseteq AuthQuestion /\ auth_srv' \in BOOLEAN
              /\ state' \in AwaitStates
      BY <1>1, RequestTypes DEF AsyncTypes
    <2>3. CASE TakePendingCharacter /\ PlayCurrent(rest, 0)
      <3>1. /\ current_character_idx' \in Nat /\ pending_character_idx' \in Nat
            /\ player_status' \in Statuses \cup {0}
        BY <2>3 DEF TakePendingCharacter, PlayCurrent, TypeOK
      <3>. QED
        BY <1>1, <1>4, <2>1, <2>2, <2>3, <3>1
           DEF ContinueChangeCharacter, PlayCurrent, TypeOK
    <2>4. CASE ~(TakePendingCharacter /\ PlayCurrent(rest, 0))
      BY <1>1, <1>4, <2>1, <2>4 DEF ContinueChangeCharacter, TypeOK
    <2>. QED
      BY <2>3, <2>4
  <1>5. ASSUME ContinuePlayCharacter(rest, reply.code)
        PROVE  TypeOK'
    <2>1. CASE Abort("ContinuePlayCharacter")
      BY <2>1, AbortTypes DEF Checks
    <2>2. RequestInstance(rest, "PlayCharacter") =>
              /\ requests' \subseteq AsyncRequest /\ next_transaction_id' \in Nat
              /\ at_auth' \subseteq AuthQuestion /\ auth_srv' \in BOOLEAN
              /\ state' \in AwaitStates
      BY <1>1, RequestTypes DEF AsyncTypes
    <2>. QED
      BY <1>1, <1>5, <2>1, <2>2 DEF ContinuePlayCharacter, TypeOK
  <1>. QED
    BY <1>1, <1>2, <1>3, <1>4, <1>5 DEF HandleRequestResponse, TypeOK, found, rest

\* What the auth server appends to its queue.
LEMMA AnswerTypes ==
    ASSUME TypeOK, AuthServer
    PROVE  /\ from_auth' \in Seq(AuthPacket) /\ at_auth' \subseteq AuthQuestion
           /\ UNCHANGED <<options, pc, halted, state, clientVars, requestVars,
                          charVars, worldVars, gameVars, auth_srv>>
           /\ \E packets \in Seq(AuthPacket) :
                 /\ from_auth' = from_auth \o packets
                 /\ \A i \in 1 .. Len(packets) : packets[i].kind # "SESSION_INFO"
  <1>1. PICK q \in at_auth : AnswerLogin(q) \/ AnswerRequest(q) \/ AnswerInstance(q)
    BY DEF AuthServer
  <1>2. q.trans_id \in Nat
    BY DEF TypeOK, AuthQuestion
  <1>3. ASSUME NEW packets \in Seq(AuthPacket), Answers(q, packets),
               \A i \in 1 .. Len(packets) : packets[i].kind # "SESSION_INFO"
        PROVE  /\ from_auth' \in Seq(AuthPacket) /\ at_auth' \subseteq AuthQuestion
               /\ UNCHANGED <<options, pc, halted, state, clientVars, requestVars,
                              charVars, worldVars, gameVars, auth_srv>>
               /\ \E ps \in Seq(AuthPacket) :
                     /\ from_auth' = from_auth \o ps
                     /\ \A i \in 1 .. Len(ps) : ps[i].kind # "SESSION_INFO"
    <2>1. /\ from_auth' = from_auth \o packets
          /\ from_auth \o packets \in Seq(AuthPacket)
      BY <1>3, ConcatProperties DEF Answers, TypeOK
    <2>. QED
      BY <1>3, <2>1 DEF Answers, TypeOK
  <1>4. ASSUME NEW p \in AuthPacket, p.kind # "SESSION_INFO"
        PROVE  /\ <<p>> \in Seq(AuthPacket)
               /\ \A i \in 1 .. Len(<<p>>) : <<p>>[i].kind # "SESSION_INFO"
    BY <1>4
  <1>5. \A c \in {0, 1} :
           /\ RequestResponse(q.trans_id, c) \in AuthPacket
           /\ RequestResponse(q.trans_id, c).kind # "SESSION_INFO"
    BY <1>2, PacketTypes DEF RequestResponse
  <1>6. ASSUME NEW last \in Names
        PROVE  LET ps == RosterPackets \o <<AccountInfo(last),
                                            RequestResponse(q.trans_id, 0)>>
               IN  /\ ps \in Seq(AuthPacket)
                   /\ \A i \in 1 .. Len(ps) : ps[i].kind # "SESSION_INFO"
    <2> DEFINE end == <<AccountInfo(last), RequestResponse(q.trans_id, 0)>>
    <2>1. /\ RosterPackets \in Seq(AuthPacket)
          /\ \A i \in 1 .. Len(RosterPackets) : RosterPackets[i].kind # "SESSION_INFO"
      <3>1. /\ Len(Roster) \in Nat /\ DOMAIN Roster = 1 .. Len(Roster)
            /\ \A i \in 1 .. Len(Roster) : Roster[i] \in Names
        BY SessionAssumption
      <3>2. RosterPackets = [i \in 1 .. Len(Roster) |-> CharacterInfo(Roster[i])]
        BY <3>1 DEF RosterPackets
      <3>3. \A i \in 1 .. Len(Roster) :
               /\ CharacterInfo(Roster[i]) \in AuthPacket
               /\ CharacterInfo(Roster[i]).kind # "SESSION_INFO"
        BY <3>1, PacketTypes DEF CharacterInfo
      <3>. HIDE DEF RosterPackets
      <3>4. RosterPackets \in Seq(AuthPacket) /\ Len(RosterPackets) = Len(Roster)
        BY <3>1, <3>2, <3>3, IsASeq
      <3>. QED
        BY <3>2, <3>3, <3>4
    <2>2. /\ end \in Seq(AuthPacket) /\ Len(end) = 2
          /\ end[1].kind # "SESSION_INFO" /\ end[2].kind # "SESSION_INFO"
      BY <1>5, PacketTypes DEF AccountInfo
    <2>. HIDE DEF RosterPackets, end
    <2>3. /\ RosterPackets \o end \in Seq(AuthPacket)
          /\ \A i \in 1 .. Len(RosterPackets \o end) :
                (RosterPackets \o end)[i].kind # "SESSION_INFO"
      <3>1. \A i \in 1 .. Len(end) : end[i].kind # "SESSION_INFO"
        BY <2>2
      <3>2. RosterPackets \o end \in Seq(AuthPacket)
        BY <2>1, <2>2, QueueConcat
      <3>3. \A i \in 1 .. Len(RosterPackets \o end) :
               \/ /\ i \in 1 .. Len(RosterPackets)
                  /\ (RosterPackets \o end)[i] = RosterPackets[i]
               \/ /\ i - Len(RosterPackets) \in 1 .. Len(end)
                  /\ (RosterPackets \o end)[i] = end[i - Len(RosterPackets)]
        BY <2>1, <2>2, QueueConcat
      <3>. QED
        BY <2>1, <3>1, <3>2, <3>3, Zenon
    <2>. QED
      BY <2>3 DEF end
  <1>7. \A w \in WorldIds : /\ GameServerInfo(w) \in AuthPacket
                            /\ GameServerInfo(w).kind # "SESSION_INFO"
    BY PacketTypes DEF GameServerInfo
  <1>8. CASE AnswerLogin(q)
    BY <1>3, <1>4, <1>5, <1>6, <1>8 DEF AnswerLogin
  <1>9. CASE AnswerRequest(q)
    BY <1>3, <1>4, <1>5, <1>9 DEF AnswerRequest
  <1>10. CASE AnswerInstance(q)
    BY <1>3, <1>4, <1>5, <1>7, <1>10 DEF AnswerInstance
  <1>. QED
    BY <1>1, <1>8, <1>9, <1>10

\* Every step keeps the types.
LEMMA TypeStep == TypeOK /\ [Next]_vars => TypeOK'
  <1> SUFFICES ASSUME TypeOK, [Next]_vars
               PROVE  TypeOK'
    OBVIOUS
  <1> USE DEF clientVars, requestVars, charVars, worldVars, gameVars, authVars
  <1>1. CASE AccountLogin
    <2>1. IssueNextTransaction(requests, "AccountLogin") =>
              requests' \subseteq AsyncRequest /\ next_transaction_id' \in Nat
      BY RequestTypes DEF TypeOK, AsyncTypes
    <2>2. AskAuth("LOGIN") => at_auth' \subseteq AuthQuestion /\ auth_srv' \in BOOLEAN
      BY RequestTypes DEF TypeOK, AsyncTypes
    <2>. QED
      BY <1>1, <2>1, <2>2 DEF AccountLogin, TypeOK, AwaitStates
  <1>2. CASE PlayCharacter
    <2>1. CASE Abort("main_loop")
      BY <2>1, AbortTypes DEF Checks
    <2>2. IssueNextTransaction(requests, "ChangeCharacter") =>
              requests' \subseteq AsyncRequest /\ next_transaction_id' \in Nat
      BY RequestTypes DEF TypeOK, AsyncTypes
    <2>3. AskAuth("CHANGE") => at_auth' \subseteq AuthQuestion /\ auth_srv' \in BOOLEAN
      BY RequestTypes DEF TypeOK, AsyncTypes
    <2>4. RequestInstance(requests, "PlayCharacter") =>
              /\ requests' \subseteq AsyncRequest /\ next_transaction_id' \in Nat
              /\ at_auth' \subseteq AuthQuestion /\ auth_srv' \in BOOLEAN
              /\ state' \in AwaitStates
      BY RequestTypes DEF TypeOK, AsyncTypes
    <2>5. \A i \in ChangeTargets(options.charname) : i - 1 \in Nat
      BY DEF ChangeTargets, TypeOK
    <2>6. options.online_status \in Statuses
      BY DEF TypeOK
    <2>. QED
      BY <1>2, <2>1, <2>2, <2>3, <2>4, <2>5, <2>6
         DEF PlayCharacter, PlayCurrent, TypeOK, AwaitStates
  <1>3. CASE LeaveGameServer \/ TransferGameServer
    <2>1. CASE Abort("TransferGameServer")
      BY <2>1, AbortTypes DEF Checks
    <2>2. CASE BeginTransfer /\ ingame' \in BOOLEAN /\ loading' \in BOOLEAN
      BY <2>2 DEF BeginTransfer, TypeOK, AwaitStates, GameConnection
    <2>. QED
      BY <1>3, <2>1, <2>2 DEF LeaveGameServer, TransferGameServer, TypeOK
  <1>4. CASE NothingAsync \/ AuthUpdate \/ GameUpdate
    BY <1>4 DEF NothingAsync, AuthUpdate, GameUpdate, Goto, TypeOK
  <1>5. CASE GameSrv_Connected
    BY <1>5 DEF GameSrv_Connected, TypeOK, GameConnection, GamePeers
  <1>6. CASE GameSrv_ConnectFailed
    BY <1>6 DEF GameSrv_ConnectFailed, TypeOK, GameConnection, AwaitStates
  <1>7. CASE GameClosed
    <2>1. ClosedConnection(game_srv) \in GameConnection
      BY DEF ClosedConnection, TypeOK, GameConnection
    <2>2. <<>> \in Seq(GamePacket) /\ "none" \in GamePeers
      BY DEF GamePeers
    <2>. QED
      BY <1>7, <2>1, <2>2 DEF GameClosed, TypeOK
  <1>8. CASE ClientFrameUpdate
    <2>1. CASE Abort("GameSrv_PingRequest") \/ Abort("SendPacket")
      BY <2>1, AbortTypes DEF Checks
    <2>. QED
      BY <1>8, <2>1 DEF ClientFrameUpdate, Goto, TypeOK, GameConnection
  <1>9. CASE AuthLost
    <2>1. <<>> \in Seq(AuthPacket) /\ {} \subseteq AuthQuestion
      OBVIOUS
    <2>. QED
      BY <1>9, <2>1 DEF AuthLost, TypeOK
  <1>10. CASE HandleSessionInfo
    BY <1>10, ClientQueues DEF HandleSessionInfo, AuthPacketIs, TypeOK, AwaitStates
  <1>11. CASE HandleCharacterInfo
    <2>1. Head(from_auth).name \in Names /\ Tail(from_auth) \in Seq(AuthPacket)
      BY <1>11, QueueTail, PacketFields DEF HandleCharacterInfo, AuthPacketIs, TypeOK
    <2>. QED
      BY <1>11, <2>1 DEF HandleCharacterInfo, TypeOK
  <1>12. CASE HandleAccountInfo
    <2>1. Tail(from_auth) \in Seq(AuthPacket)
      BY <1>12, QueueTail DEF HandleAccountInfo, AuthPacketIs, TypeOK
    <2>2. \A i \in DOMAIN characters : i - 1 \in Nat
      BY DEF TypeOK
    <2>. QED
      BY <1>12, <2>1, <2>2 DEF HandleAccountInfo, TypeOK
  <1>13. CASE HandleRequestResponse
    BY <1>13, ReplyTypes
  <1>14. CASE HandleGameServerInfo
    <2>1. CASE Abort("HandleGameServerInfo") \/ Abort("GameSrv_Disconnect")
      BY <2>1, AbortTypes DEF Checks
    <2>2. Head(from_auth).world_id \in WorldIds /\ Tail(from_auth) \in Seq(AuthPacket)
      BY <1>14, QueueTail, PacketFields DEF HandleGameServerInfo, AuthPacketIs, TypeOK
    <2>3. NetConn_Shutdown(game_srv) \in GameConnection
      BY DEF TypeOK, NetConn_Shutdown, GameConnection
    <2>. QED
      BY <1>14, <2>1, <2>2, <2>3, LoadingTypes DEF HandleGameServerInfo, TypeOK
  <1>15. CASE HandleInstanceLoadInfo \/ HandleReadyForMapSpawn
              \/ HandleInstanceLoadSpawnPoint
    <2>1. CASE Abort("get_world_or_abort") \/ Abort("HandleReadyForMapSpawn")
      BY <2>1, AbortTypes DEF Checks
    <2>2. ASSUME NEW from, NEW to \in GamePeers, from_game # <<>>,
                 AnswerGame(from, to)
          PROVE  TypeOK'
      BY <2>2, ClientQueues DEF AnswerGame, TypeOK
    <2>. QED
      BY <1>15, <2>1, <2>2
         DEF HandleInstanceLoadInfo, HandleReadyForMapSpawn,
             HandleInstanceLoadSpawnPoint, GamePacketIs, GamePeers
  <1>16. CASE HandleInstanceLoaded \/ HandleInstanceLoadFinish
    BY <1>16, ClientQueues
       DEF HandleInstanceLoaded, HandleInstanceLoadFinish, GamePacketIs, TypeOK
  <1>17. CASE HandleWorldPacket
    <2>1. CASE Abort("get_world_or_abort")
      BY <2>1, AbortTypes DEF Checks
    <2>. QED
      BY <1>17, <2>1, ClientQueues DEF HandleWorldPacket, GamePacketIs, TypeOK
  <1>18. CASE HandleGameTransferInfo
    <2>1. CASE Abort("HandleGameTransferInfo")
      BY <2>1, AbortTypes DEF Checks
    <2>2. Head(from_game).world_id \in WorldIds
      BY <1>18, QueueTail, PacketFields DEF HandleGameTransferInfo, GamePacketIs, TypeOK
    <2>3. ClosedConnection(NetConn_Shutdown(game_srv)) \in GameConnection
      BY DEF TypeOK, ClosedConnection, NetConn_Shutdown, GameConnection
    <2>. QED
      BY <1>18, <2>1, <2>2, <2>3, LoadingTypes DEF HandleGameTransferInfo, TypeOK
  <1>19. CASE HandleInstanceRedirect \/ PluginRedirects
    <2>1. RequestInstance(requests, "None") =>
              /\ requests' \subseteq AsyncRequest /\ next_transaction_id' \in Nat
              /\ at_auth' \subseteq AuthQuestion /\ auth_srv' \in BOOLEAN
              /\ state' \in AwaitStates
      BY RequestTypes DEF TypeOK, AsyncTypes
    <2>2. from_game' \in Seq(GamePacket)
      BY <1>19, ClientQueues
         DEF HandleInstanceRedirect, PluginRedirects, GamePacketIs, TypeOK
    <2>. QED
      BY <1>19, <2>1, <2>2
         DEF HandleInstanceRedirect, PluginRedirects, RedirectMap, TypeOK
  <1>20. CASE Travel \/ ReturnToOutpost
    BY <1>20, AbortTypes DEF Travel, ReturnToOutpost, Checks
  <1>21. CASE AuthServer
    BY <1>21, AnswerTypes DEF TypeOK
  <1>22. CASE GameServer
    <2>1. ASSUME NEW packets \in Seq(GamePacket), NEW next \in GamePeers,
                 GameSends(packets, next)
          PROVE  TypeOK'
      <3>1. from_game \o packets \in Seq(GamePacket)
        BY QueueConcat DEF TypeOK
      <3>. QED
        BY <2>1, <3>1 DEF GameSends, TypeOK
    <2>2. \A k \in PlainKinds : <<Plain(k)>> \in Seq(GamePacket)
      BY PacketTypes
    <2>3. <<Plain("INSTANCE_LOADED"), Plain("LOAD_FINISH")>> \in Seq(GamePacket)
      BY PacketTypes DEF PlainKinds
    <2>4. \A w \in WorldIds : <<GameTransferInfo(w)>> \in Seq(GamePacket)
      BY PacketTypes
    <2>. QED
      BY <1>22, <2>1, <2>2, <2>3, <2>4 DEF GameServer, GamePeers, PlainKinds
  <1>23. CASE UNCHANGED vars
    BY <1>23 DEF vars, TypeOK
  <1>. QED
    BY <1>1, <1>2, <1>3, <1>4, <1>5, <1>6, <1>7, <1>8, <1>9, <1>10, <1>11, <1>12,
       <1>13, <1>14, <1>15, <1>16, <1>17, <1>18, <1>19, <1>20, <1>21, <1>22, <1>23
       DEF Next, FrameStep, AuthDispatch, GameDispatch, PluginThread

\* Every variable of the session keeps its type, whatever the servers send and
\* the plugin threads call: the states of AwaitState, the ids of the
\* transactions, the two connections.
THEOREM TypeCorrect == Spec => []TypeOK
  BY TypeInit, TypeStep, PTL DEF Spec

-----------------------------------------------------------------------------
(* Transactions                                                            *)

\* client->requests only loses entries, or gets one with a new id.
LEMMA RequestChanges ==
    ASSUME TypeOK, [Next]_vars
    PROVE  \/ requests' \subseteq requests /\ UNCHANGED next_transaction_id
           \/ \E rest \in SUBSET requests : \E type \in AsyncTypes :
                 IssueNextTransaction(rest, type)
  <1> USE DEF clientVars, requestVars, charVars, worldVars, gameVars, authVars
  <1>1. CASE AccountLogin \/ PlayCharacter
    BY <1>1 DEF AccountLogin, PlayCharacter, PlayCurrent, RequestInstance, Abort,
                AsyncTypes
  <1>2. CASE HandleRequestResponse
    BY <1>2 DEF HandleRequestResponse, ContinueAccountLogin, ContinueSendHardwareInfo,
                ContinueChangeCharacter, ContinuePlayCharacter, PlayCurrent,
                RequestInstance, Abort, AsyncTypes
  <1>3. CASE HandleInstanceRedirect \/ PluginRedirects
    BY <1>3 DEF HandleInstanceRedirect, PluginRedirects, RedirectMap,
                RequestInstance, AsyncTypes
  <1>4. CASE \/ LeaveGameServer \/ TransferGameServer \/ NothingAsync
             \/ GameSrv_Connected \/ GameSrv_ConnectFailed \/ AuthUpdate
             \/ GameUpdate \/ GameClosed \/ ClientFrameUpdate \/ AuthLost
    BY <1>4 DEF LeaveGameServer, TransferGameServer, BeginTransfer, NothingAsync,
                GameSrv_Connected, GameSrv_ConnectFailed, AuthUpdate, GameUpdate,
                GameClosed, ClientFrameUpdate, AuthLost, Goto, Abort
  <1>5. CASE \/ HandleSessionInfo \/ HandleCharacterInfo \/ HandleAccountInfo
             \/ HandleGameServerInfo
    BY <1>5 DEF HandleSessionInfo, HandleCharacterInfo, HandleAccountInfo,
                HandleGameServerInfo, Abort
  <1>6. CASE \/ HandleInstanceLoadInfo \/ HandleReadyForMapSpawn
             \/ HandleInstanceLoadSpawnPoint \/ HandleInstanceLoaded
             \/ HandleInstanceLoadFinish \/ HandleWorldPacket
             \/ HandleGameTransferInfo
    BY <1>6 DEF HandleInstanceLoadInfo, HandleReadyForMapSpawn,
                HandleInstanceLoadSpawnPoint, HandleInstanceLoaded,
                HandleInstanceLoadFinish, HandleWorldPacket,
                HandleGameTransferInfo, AnswerGame, Abort
  <1>7. CASE Travel \/ ReturnToOutpost \/ AuthServer \/ GameServer \/ UNCHANGED vars
    BY <1>7 DEF Travel, ReturnToOutpost, AuthServer, AnswerLogin, AnswerRequest,
                AnswerInstance, Answers, GameServer, GameSends, Abort, vars
  <1>. QED
    BY <1>1, <1>2, <1>3, <1>4, <1>5, <1>6, <1>7
       DEF Next, FrameStep, AuthDispatch, GameDispatch, PluginThread

\* Every step keeps the transactions unique.
LEMMA TransactionStep ==
    ASSUME TypeOK, TransactionsUnique, [Next]_vars
    PROVE  TransactionsUnique'
  <1>1. CASE requests' \subseteq requests /\ UNCHANGED next_transaction_id
    BY <1>1 DEF TransactionsUnique
  <1>2. ASSUME NEW rest \in SUBSET requests, NEW type \in AsyncTypes,
               IssueNextTransaction(rest, type)
        PROVE  TransactionsUnique'
    BY <1>2 DEF TransactionsUnique, IssueNextTransaction, TypeOK, AsyncRequest
  <1>. QED
    BY <1>1, <1>2, RequestChanges

\* No two requests that wait for a reply have one transaction id, so that a
\* reply continues the request it answers: issue_next_transaction,
\* HandleRequestResponse.
THEOREM TransactionsAreUnique == Spec => []TransactionsUnique
  <1>1. Init => TransactionsUnique
    BY DEF Init, TransactionsUnique
  <1>2. TypeOK /\ TransactionsUnique /\ [Next]_vars => TransactionsUnique'
    BY TransactionStep
  <1>. QED
    BY <1>1, <1>2, TypeCorrect, PTL DEF Spec

-----------------------------------------------------------------------------
(* The login and the game                                                  *)

\* Once the first packet is handled no session information is left.
LEMMA NoSessionInfoInTail ==
    ASSUME TypeOK, SessionInfoFirst, from_auth # <<>>
    PROVE  \A i \in 1 .. Len(Tail(from_auth)) :
               Tail(from_auth)[i].kind # "SESSION_INFO"
  <1>1. /\ Len(from_auth) \in Nat
        /\ Len(Tail(from_auth)) = Len(from_auth) - 1
        /\ \A i \in 1 .. Len(Tail(from_auth)) : Tail(from_auth)[i] = from_auth[i + 1]
    BY QueueTail DEF TypeOK
  <1>. QED
    BY <1>1 DEF SessionInfoFirst

\* What holds of the state, the packets, the sockets and the world.
SessionInv ==
    /\ SessionInfoFirst
    /\ LoginBeforeGame
    /\ ConnectAfterLogin
    /\ GameThroughSocket
    /\ TransferHasWorld
    /\ LiveConnectionHasWorld
    /\ RequestsAwaited
    /\ OneOfAType
    /\ RepliesExpected

\* An abort other than those of RepliesExpected changes none of it.
LEMMA AbortKeeps ==
    ASSUME SessionInv, NEW f, Abort(f),
           f \notin {"ContinueAccountLogin", "ContinueSendHardwareInfo",
                     "ContinueChangeCharacter", "main_loop"}
    PROVE  SessionInv'
  BY DEF SessionInv, SessionInfoFirst, LoginBeforeGame, ConnectAfterLogin,
         GameThroughSocket, TransferHasWorld, LiveConnectionHasWorld,
         RequestsAwaited, OneOfAType, RepliesExpected, Abort, clientVars,
         requestVars, charVars, worldVars, gameVars, authVars

\* Leaving the game server for another one, or for the first one.
LEMMA LeaveKeeps ==
    ASSUME TypeOK, SessionInv, NEW w \in WorldIds, NEW conn,
           StartLoadingNewZone(w, conn),
           state \notin LoginStates, pc # "connect", pc' # "connect",
           \/ ~conn.fd
           \/ conn.shut,
           \/ UNCHANGED from_auth
           \/ \A i \in 1 .. Len(from_auth') : from_auth'[i].kind # "SESSION_INFO",
           UNCHANGED <<halted, ingame, requests>>
    PROVE  SessionInv'
  <1>1. state' \notin LoginStates
    BY DEF StartLoadingNewZone, LoginStates
  <1>2. w # 0
    BY SessionAssumption
  <1>. QED
    BY <1>1, <1>2
       DEF StartLoadingNewZone, SessionInv, SessionInfoFirst, LoginBeforeGame,
           ConnectAfterLogin, GameThroughSocket, TransferHasWorld,
           LiveConnectionHasWorld, RequestsAwaited, OneOfAType, RepliesExpected,
           LoginStates, AwaitStates, AwaitedIn, NetConn_IsShutdown, gameVars

\* A reply that leaves redirects alone in client->requests, and perhaps the
\* request that follows it.
LEMMA ReplyKeeps ==
    ASSUME TypeOK, SessionInv, state \in LoginStates, pc = "auth_dispatch",
           \A i \in 1 .. Len(from_auth') : from_auth'[i].kind # "SESSION_INFO",
           UNCHANGED <<pc, halted, ingame, worldVars, gameVars>>,
           state' \notin {"AwaitGameServerDisconnect", "AwaitGameServerTransfer"},
           NEW rest, \A r \in rest : r.type = "None",
           \/ requests' = rest
           \/ \E t, type : /\ requests' = rest \cup {[trans_id |-> t, type |-> type]}
                           /\ state' \in AwaitedIn(type),
           state' \in AwaitStates
    PROVE  SessionInv'
  <1>1. ~game_srv.fd /\ world = 0 /\ ~ingame
    BY DEF SessionInv, LoginBeforeGame
  <1>2. RequestsAwaited'
    BY DEF RequestsAwaited, AwaitedIn
  <1>3. OneOfAType'
    BY DEF OneOfAType
  <1>. QED
    BY <1>1, <1>2, <1>3
       DEF SessionInv, SessionInfoFirst, LoginBeforeGame, ConnectAfterLogin,
           GameThroughSocket, TransferHasWorld, LiveConnectionHasWorld,
           RepliesExpected, worldVars, gameVars

\* Every step keeps SessionInv.
LEMMA SessionStep ==
    ASSUME TypeOK, TypeOK', TransactionsUnique, SessionInv, [Next]_vars
    PROVE  SessionInv'
  <1> USE DEF clientVars, requestVars, charVars, worldVars, gameVars, authVars
  <1> USE DEF SessionInv, SessionInfoFirst, LoginBeforeGame, ConnectAfterLogin,
              GameThroughSocket, TransferHasWorld, LiveConnectionHasWorld,
              RequestsAwaited, OneOfAType, RepliesExpected, LoginStates,
              AwaitStates, AwaitedIn
  <1>1. CASE AccountLogin
    BY <1>1 DEF AccountLogin, IssueNextTransaction, AskAuth, TypeOK
  <1>2. CASE PlayCharacter
    BY <1>2 DEF PlayCharacter, PlayCurrent, RequestInstance, IssueNextTransaction,
                AskAuth, Abort, NetConn_IsShutdown
  <1>3. CASE LeaveGameServer \/ TransferGameServer
    <2>1. CASE Abort("TransferGameServer")
      BY <2>1, AbortKeeps
    <2>2. CASE ~game_srv.fd /\ BeginTransfer /\ state \notin LoginStates
               /\ server_transfer # 0
      <3>1. game_srv'.fd /\ ~game_srv'.secured /\ game_srv'.shut = game_srv.shut
        BY <2>2 DEF BeginTransfer, TypeOK, GameConnection
      <3>. QED
        BY <2>2, <3>1 DEF BeginTransfer
    <2>. QED
      BY <1>3, <2>1, <2>2 DEF LeaveGameServer, TransferGameServer, NetConn_IsShutdown
  <1>4. CASE NothingAsync \/ AuthUpdate \/ GameUpdate
    BY <1>4 DEF NothingAsync, AuthUpdate, GameUpdate, Goto
  <1>5. CASE GameSrv_Connected
    BY <1>5 DEF GameSrv_Connected, TypeOK, GameConnection
  <1>6. CASE GameSrv_ConnectFailed
    BY <1>6 DEF GameSrv_ConnectFailed, TypeOK, GameConnection
  <1>7. CASE GameClosed
    BY <1>7 DEF GameClosed, ClosedConnection, TypeOK, GameConnection
  <1>8. CASE ClientFrameUpdate
    BY <1>8, AbortKeeps DEF ClientFrameUpdate, Goto, TypeOK, GameConnection
  <1>9. CASE AuthLost
    BY <1>9 DEF AuthLost
  <1>10. CASE HandleSessionInfo
    BY <1>10, NoSessionInfoInTail DEF HandleSessionInfo, AuthPacketIs, TypeOK
  <1>11. CASE HandleCharacterInfo \/ HandleAccountInfo
    BY <1>11, NoSessionInfoInTail
       DEF HandleCharacterInfo, HandleAccountInfo, AuthPacketIs
  <1>12. CASE HandleRequestResponse
    <2> DEFINE reply == Head(from_auth)
               found == {r \in requests : r.trans_id = reply.trans_id}
               rest  == requests \ found
    <2>1. /\ pc = "auth_dispatch"
          /\ \A i \in 1 .. Len(Tail(from_auth)) :
                Tail(from_auth)[i].kind # "SESSION_INFO"
      BY <1>12, NoSessionInfoInTail DEF HandleRequestResponse, AuthPacketIs
    <2>2. rest \subseteq requests
      OBVIOUS
    <2>3. ASSUME NEW r \in found, r.type = "AccountLogin",
                 ContinueAccountLogin(rest, reply.code)
          PROVE  SessionInv'
      <3>1. r \notin rest /\ r \in requests /\ state = "AwaitAccountConnection"
        BY <2>3
      <3>. HIDE DEF found, rest
      <3>2. \A s \in rest : s.type = "None"
        BY <2>2, <2>3, <3>1 DEF TypeOK, AsyncRequest, AsyncTypes
      <3>3. /\ from_auth' = Tail(from_auth)
            /\ UNCHANGED <<pc, halted, ingame, worldVars, gameVars>>
            /\ \/ state' = "AwaitNothing" /\ requests' = rest
               \/ /\ state' = "AwaitHardwareInfoReply"
                  /\ \E t : requests' = rest \cup
                                {[trans_id |-> t, type |-> "SendHardwareInfo"]}
        BY <2>3, <3>1 DEF ContinueAccountLogin, IssueNextTransaction
      <3>4. \/ requests' = rest
            \/ \E t, type :
                  /\ requests' = rest \cup {[trans_id |-> t, type |-> type]}
                  /\ state' \in AwaitedIn(type)
        <4>1. CASE state' = "AwaitNothing"
          BY <3>3, <4>1
        <4>2. ASSUME NEW t, state' = "AwaitHardwareInfoReply",
                     requests' = rest \cup {[trans_id |-> t, type |-> "SendHardwareInfo"]}
              PROVE  \E u, type :
                        /\ requests' = rest \cup {[trans_id |-> u, type |-> type]}
                        /\ state' \in AwaitedIn(type)
          <5>1. state' \in AwaitedIn("SendHardwareInfo")
            BY <4>2
          <5>. QED
            BY <4>2, <5>1
        <4>. QED
          BY <3>3, <4>1, <4>2
      <3>5. /\ state \in LoginStates /\ state' \in AwaitStates
            /\ state' \notin {"AwaitGameServerDisconnect", "AwaitGameServerTransfer"}
            /\ \A i \in 1 .. Len(from_auth') : from_auth'[i].kind # "SESSION_INFO"
        BY <2>1, <3>1, <3>3
      <3>. QED
        BY <2>1, <3>2, <3>3, <3>4, <3>5, ReplyKeeps
    <2>4. ASSUME NEW r \in found, r.type = "SendHardwareInfo",
                 ContinueSendHardwareInfo(rest)
          PROVE  SessionInv'
      <3>1. r \notin rest /\ r \in requests /\ state = "AwaitHardwareInfoReply"
        BY <2>4
      <3>. HIDE DEF found, rest
      <3>2. \A s \in rest : s.type = "None"
        BY <2>2, <2>4, <3>1 DEF TypeOK, AsyncRequest, AsyncTypes
      <3>. QED
        BY <2>1, <2>4, <3>1, <3>2, ReplyKeeps DEF ContinueSendHardwareInfo
    <2>5. ASSUME NEW r \in found, r.type = "ChangeCharacter",
                 ContinueChangeCharacter(rest, reply.code)
          PROVE  SessionInv'
      <3>1. r \notin rest /\ r \in requests /\ state = "AwaitChangeCharacter"
        BY <2>5
      <3>. HIDE DEF found, rest
      <3>2. \A s \in rest : s.type = "None"
        BY <2>2, <2>5, <3>1 DEF TypeOK, AsyncRequest, AsyncTypes
      <3>3. CASE Abort("pending_character_idx")
        BY <3>3, AbortKeeps
      <3>4. CASE ~Abort("pending_character_idx")
        <4>1. /\ from_auth' = Tail(from_auth)
              /\ UNCHANGED <<pc, halted, ingame, worldVars, gameVars>>
              /\ \/ UNCHANGED state /\ requests' = rest
                 \/ /\ state' = "AwaitGameServerInfo"
                    /\ \E t : requests' = rest \cup
                                  {[trans_id |-> t, type |-> "PlayCharacter"]}
          BY <2>5, <3>1, <3>4
             DEF ContinueChangeCharacter, PlayCurrent, RequestInstance,
                 IssueNextTransaction
        <4>2. \/ requests' = rest
              \/ \E t, type :
                    /\ requests' = rest \cup {[trans_id |-> t, type |-> type]}
                    /\ state' \in AwaitedIn(type)
          <5>1. ASSUME NEW t, state' = "AwaitGameServerInfo",
                       requests' = rest \cup {[trans_id |-> t, type |-> "PlayCharacter"]}
                PROVE  \E u, type :
                          /\ requests' = rest \cup {[trans_id |-> u, type |-> type]}
                          /\ state' \in AwaitedIn(type)
            <6>1. state' \in AwaitedIn("PlayCharacter")
              BY <5>1
            <6>. QED
              BY <5>1, <6>1
          <5>. QED
            BY <4>1, <5>1
        <4>3. /\ state \in LoginStates /\ state' \in AwaitStates
              /\ state' \notin {"AwaitGameServerDisconnect", "AwaitGameServerTransfer"}
              /\ \A i \in 1 .. Len(from_auth') : from_auth'[i].kind # "SESSION_INFO"
          BY <2>1, <3>1, <4>1
        <4>. QED
          BY <2>1, <3>2, <4>1, <4>2, <4>3, ReplyKeeps
      <3>. QED
        BY <3>3, <3>4
    <2>6. ASSUME NEW r \in found, r.type = "PlayCharacter",
                 ContinuePlayCharacter(rest, reply.code)
          PROVE  SessionInv'
      <3>1. Abort("ContinuePlayCharacter")
        BY <2>6 DEF ContinuePlayCharacter
      <3>. QED
        BY <3>1, AbortKeeps
    <2>7. CASE /\ requests' = rest
               /\ from_auth' = Tail(from_auth)
               /\ UNCHANGED <<options, pc, halted, state, clientVars,
                              next_transaction_id, charVars, worldVars, gameVars,
                              auth_srv, at_auth>>
      BY <2>1, <2>2, <2>7
    <2>. QED
      BY <1>12, <2>3, <2>4, <2>5, <2>6, <2>7 DEF HandleRequestResponse
  <1>13. CASE HandleGameServerInfo
    <2>1. /\ pc = "auth_dispatch"
          /\ \A i \in 1 .. Len(Tail(from_auth)) :
                Tail(from_auth)[i].kind # "SESSION_INFO"
          /\ Head(from_auth).world_id \in WorldIds
      BY <1>13, NoSessionInfoInTail, QueueTail, PacketFields
         DEF HandleGameServerInfo, AuthPacketIs, TypeOK
    <2>2. CASE Abort("HandleGameServerInfo") \/ Abort("GameSrv_Disconnect")
      BY <2>2, AbortKeeps
    <2>3. CASE /\ state = "AwaitGameServerInfo"
               /\ StartLoadingNewZone(Head(from_auth).world_id,
                                      NetConn_Shutdown(game_srv))
               /\ from_auth' = Tail(from_auth)
               /\ UNCHANGED <<options, pc, halted, clientVars, requestVars,
                              charVars, auth_srv, at_auth>>
      <3>1. NetConn_Shutdown(game_srv).shut /\ NetConn_Shutdown(game_srv).fd = game_srv.fd
        BY DEF NetConn_Shutdown, TypeOK, GameConnection
      <3>. QED
        BY <2>1, <2>3, <3>1, LeaveKeeps
    <2>. QED
      BY <1>13, <2>2, <2>3 DEF HandleGameServerInfo
  <1>14. CASE \/ HandleInstanceLoadInfo \/ HandleReadyForMapSpawn
              \/ HandleInstanceLoadSpawnPoint \/ HandleWorldPacket
    BY <1>14, AbortKeeps
       DEF HandleInstanceLoadInfo, HandleReadyForMapSpawn,
           HandleInstanceLoadSpawnPoint, HandleWorldPacket, AnswerGame, GamePacketIs
  <1>15. CASE HandleInstanceLoaded \/ HandleInstanceLoadFinish
    BY <1>15 DEF HandleInstanceLoaded, HandleInstanceLoadFinish, GamePacketIs
  <1>16. CASE HandleGameTransferInfo
    <2>1. /\ pc = "game_dispatch" /\ game_srv.fd
          /\ Head(from_game).world_id \in WorldIds
      BY <1>16, QueueTail, PacketFields DEF HandleGameTransferInfo, GamePacketIs, TypeOK
    <2>2. CASE Abort("HandleGameTransferInfo")
      BY <2>2, AbortKeeps
    <2>3. CASE /\ StartLoadingNewZone(Head(from_game).world_id,
                                      ClosedConnection(NetConn_Shutdown(game_srv)))
               /\ pc' = "frame"
               /\ UNCHANGED <<options, halted, clientVars, requestVars, charVars,
                              authVars>>
      <3>1. ~ClosedConnection(NetConn_Shutdown(game_srv)).fd
        BY DEF ClosedConnection, NetConn_Shutdown, TypeOK, GameConnection
      <3>. QED
        BY <2>1, <2>3, <3>1, LeaveKeeps
    <2>. QED
      BY <1>16, <2>2, <2>3 DEF HandleGameTransferInfo
  <1>17. CASE HandleInstanceRedirect \/ PluginRedirects
    BY <1>17 DEF HandleInstanceRedirect, PluginRedirects, RedirectMap, RequestInstance,
           IssueNextTransaction, AskAuth, GamePacketIs, GetIsIngame
  <1>18. CASE Travel \/ ReturnToOutpost
    BY <1>18, AbortKeeps DEF Travel, ReturnToOutpost
  <1>19. CASE AuthServer
    <2>1. PICK packets \in Seq(AuthPacket) :
             /\ from_auth' = from_auth \o packets
             /\ \A i \in 1 .. Len(packets) : packets[i].kind # "SESSION_INFO"
      BY <1>19, AnswerTypes
    <2>2. \A i \in 1 .. Len(from_auth') :
             \/ i \in 1 .. Len(from_auth) /\ from_auth'[i] = from_auth[i]
             \/ from_auth'[i].kind # "SESSION_INFO"
      BY <2>1, QueueConcat DEF TypeOK
    <2>. QED
      BY <1>19, <2>2, AnswerTypes
  <1>20. CASE GameServer
    BY <1>20 DEF GameServer, GameSends
  <1>21. CASE UNCHANGED vars
    BY <1>21 DEF vars
  <1>. QED
    BY <1>1, <1>2, <1>3, <1>4, <1>5, <1>6, <1>7, <1>8, <1>9, <1>10, <1>11, <1>12,
       <1>13, <1>14, <1>15, <1>16, <1>17, <1>18, <1>19, <1>20, <1>21
       DEF Next, FrameStep, AuthDispatch, GameDispatch, PluginThread

\* The properties of the login and of the connections: replies come in the
\* state that waits for them, a login and a game never mix, a live game
\* connection has a world and keys, an instance is asked for once.
LEMMA SessionCorrect == Spec => []SessionInv
  <1>1. Init => SessionInv
    <2> SUFFICES ASSUME Init PROVE SessionInv
      OBVIOUS
    <2>1. Len(from_auth) = 1 /\ from_auth[1].kind = "SESSION_INFO"
      BY DEF Init, SessionInfo
    <2>. QED
      BY <2>1 DEF Init, SessionInv, SessionInfoFirst, LoginBeforeGame,
              ConnectAfterLogin, GameThroughSocket, TransferHasWorld,
              LiveConnectionHasWorld, RequestsAwaited, OneOfAType, RepliesExpected
  <1>2. /\ TypeOK /\ TypeOK' /\ TransactionsUnique /\ SessionInv
        /\ [Next]_vars
        => SessionInv'
    BY SessionStep
  <1>. QED
    BY <1>1, <1>2, TypeCorrect, TransactionsAreUnique, PTL DEF Spec

\* The asserts on client->state in the Continue functions, and the one of
\* main_loop on the game connection, never fail.
THEOREM RepliesAreExpected == Spec => []RepliesExpected
  <1>1. SessionInv => RepliesExpected
    BY DEF SessionInv
  <1>. QED
    BY <1>1, SessionCorrect, PTL

\* Until an instance is requested there is no game server, no world and no
\* game: the AwaitState of the login.
THEOREM LoginComesBeforeGame == Spec => []LoginBeforeGame
  <1>1. SessionInv => LoginBeforeGame
    BY DEF SessionInv
  <1>. QED
    BY <1>1, SessionCorrect, PTL

\* get_world_or_abort and assert(secured) hold in the handlers of a game
\* server that has not been left.
THEOREM LiveConnectionsHaveWorlds == Spec => []LiveConnectionHasWorld
  <1>1. SessionInv => LiveConnectionHasWorld
    BY DEF SessionInv
  <1>. QED
    BY <1>1, SessionCorrect, PTL

\* PlayCharacter asks for an instance once, whatever the replies.
THEOREM PlayIsRequestedOnce == Spec => []PlayRequestedOnce
  <1>1. SessionInv => PlayRequestedOnce
    BY DEF SessionInv, OneOfAType, PlayRequestedOnce
  <1>. QED
    BY <1>1, SessionCorrect, PTL

-----------------------------------------------------------------------------
(* The world                                                               *)

\* Every step keeps the world and the transfer together.
LEMMA WorldStep ==
    ASSUME WorldIsTheTransfer, [Next]_vars
    PROVE  WorldIsTheTransfer'
  <1> USE DEF WorldIsTheTransfer, clientVars, requestVars, charVars, worldVars,
              gameVars, authVars
  <1>1. CASE AccountLogin \/ PlayCharacter
    BY <1>1 DEF AccountLogin, PlayCharacter, Abort
  <1>2. CASE HandleRequestResponse
    BY <1>2 DEF HandleRequestResponse, ContinueAccountLogin, ContinueSendHardwareInfo,
                ContinueChangeCharacter, ContinuePlayCharacter, Abort
  <1>3. CASE HandleInstanceRedirect \/ PluginRedirects
    BY <1>3 DEF HandleInstanceRedirect, PluginRedirects, RedirectMap
  <1>4. CASE LeaveGameServer \/ TransferGameServer
    BY <1>4 DEF LeaveGameServer, TransferGameServer, BeginTransfer, Abort
  <1>5. CASE HandleGameServerInfo \/ HandleGameTransferInfo
    BY <1>5 DEF HandleGameServerInfo, HandleGameTransferInfo, StartLoadingNewZone, Abort
  <1>6. CASE \/ NothingAsync \/ GameSrv_Connected \/ GameSrv_ConnectFailed
             \/ AuthUpdate \/ GameUpdate \/ GameClosed \/ ClientFrameUpdate
             \/ AuthLost
    BY <1>6 DEF NothingAsync, GameSrv_Connected, GameSrv_ConnectFailed, AuthUpdate,
                GameUpdate, GameClosed, ClientFrameUpdate, AuthLost, Goto, Abort
  <1>7. CASE HandleSessionInfo \/ HandleCharacterInfo \/ HandleAccountInfo
    BY <1>7 DEF HandleSessionInfo, HandleCharacterInfo, HandleAccountInfo
  <1>8. CASE \/ HandleInstanceLoadInfo \/ HandleReadyForMapSpawn
             \/ HandleInstanceLoadSpawnPoint \/ HandleInstanceLoaded
             \/ HandleInstanceLoadFinish \/ HandleWorldPacket
    BY <1>8 DEF HandleInstanceLoadInfo, HandleReadyForMapSpawn,
                HandleInstanceLoadSpawnPoint, HandleInstanceLoaded,
                HandleInstanceLoadFinish, HandleWorldPacket, AnswerGame, Abort
  <1>9. CASE Travel \/ ReturnToOutpost \/ AuthServer \/ GameServer \/ UNCHANGED vars
    BY <1>9 DEF Travel, ReturnToOutpost, AuthServer, AnswerLogin, AnswerRequest,
                AnswerInstance, Answers, GameServer, GameSends, Abort, vars
  <1>. QED
    BY <1>1, <1>2, <1>3, <1>4, <1>5, <1>6, <1>7, <1>8, <1>9
       DEF Next, FrameStep, AuthDispatch, GameDispatch, PluginThread

\* The world the handlers and the API see is the one of the last transfer:
\* start_loading_new_zone and TransferGameServer.
THEOREM WorldsAreTransfers == Spec => []WorldIsTheTransfer
  <1>1. Init => WorldIsTheTransfer
    BY DEF Init, WorldIsTheTransfer
  <1>2. WorldIsTheTransfer /\ [Next]_vars => WorldIsTheTransfer'
    BY WorldStep
  <1>. QED
    BY <1>1, <1>2, PTL DEF Spec

-----------------------------------------------------------------------------
(* The character that is played                                            *)

RosterKinds == {"CHARACTER_INFO", "ACCOUNT_INFO"}

\* The packets of a queue that describe characters come before every reply.
RosterBeforeReply(q) ==
    \A i, j \in 1 .. Len(q) :
        q[i].kind \in RosterKinds /\ q[j].kind = "REQUEST_RESPONSE" => i < j

NoReply(q)  == \A j \in 1 .. Len(q) : q[j].kind # "REQUEST_RESPONSE"
NoRoster(q) == \A i \in 1 .. Len(q) : q[i].kind \notin RosterKinds

\* The characters arrive while the answer to the login is awaited, which is the only
\* thing asked until then.
RosterInv ==
    /\ NoRoster(from_auth) \/ state = "AwaitAccountConnection"
    /\ RosterBeforeReply(from_auth)
    /\ \A q \in at_auth : q.ask = "LOGIN" =>
           state = "AwaitAccountConnection" /\ at_auth = {q} /\ NoReply(from_auth)
    /\ state \in {"AwaitSessionInfo", "AwaitAccountConnect"} =>
           at_auth = {} /\ NoReply(from_auth)

\* The indexes name characters, the one to change to being the wanted one.
CharacterInv ==
    /\ characters # <<>> => current_character_idx < Len(characters)
    /\ characters = <<>> => current_character_idx = 0
    /\ state = "AwaitChangeCharacter" =>
           /\ pending_character_idx < Len(characters)
           /\ characters[pending_character_idx + 1] = options.charname
    /\ PlaysTheWantedCharacter

\* What an answer of the auth server is made of.
LEMMA AnswerShape ==
    ASSUME TypeOK, AuthServer
    PROVE  \E q \in at_auth : \E packets \in Seq(AuthPacket) :
              /\ from_auth' = from_auth \o packets /\ at_auth' = at_auth \ {q}
              /\ q.ask # "LOGIN" => NoRoster(packets)
              /\ RosterBeforeReply(packets)
              /\ UNCHANGED <<options, state, requests, charVars>>
<1>1. PICK q \in at_auth : AnswerLogin(q) \/ AnswerRequest(q) \/ AnswerInstance(q)
  BY DEF AuthServer
<1>2. q.trans_id \in Nat
  BY DEF TypeOK, AuthQuestion
<1>3. ASSUME NEW p \in AuthPacket, p.kind \notin RosterKinds
      PROVE  <<p>> \in Seq(AuthPacket) /\ NoRoster(<<p>>) /\ RosterBeforeReply(<<p>>)
  BY <1>3 DEF NoRoster, RosterBeforeReply
<1>4. \A c \in {0, 1} : /\ RequestResponse(q.trans_id, c) \in AuthPacket
                       /\ RequestResponse(q.trans_id, c).kind \notin RosterKinds
  BY <1>2, PacketTypes DEF RequestResponse, RosterKinds
<1>5. \A w \in WorldIds : /\ GameServerInfo(w) \in AuthPacket
                         /\ GameServerInfo(w).kind \notin RosterKinds
  BY PacketTypes DEF GameServerInfo, RosterKinds
<1>6. ASSUME NEW last \in Names
      PROVE  LET ps == RosterPackets \o <<AccountInfo(last), RequestResponse(q.trans_id, 0)>>
             IN  ps \in Seq(AuthPacket) /\ RosterBeforeReply(ps)
  <2> DEFINE end == <<AccountInfo(last), RequestResponse(q.trans_id, 0)>>
  <2>1. RosterPackets \in Seq(AuthPacket) /\ NoReply(RosterPackets)
    <3>1. /\ Len(Roster) \in Nat /\ DOMAIN Roster = 1 .. Len(Roster)
          /\ \A i \in 1 .. Len(Roster) : Roster[i] \in Names
      BY SessionAssumption
    <3>2. RosterPackets = [i \in 1 .. Len(Roster) |-> CharacterInfo(Roster[i])]
      BY <3>1 DEF RosterPackets
    <3>3. \A i \in 1 .. Len(Roster) :
             /\ CharacterInfo(Roster[i]) \in AuthPacket
             /\ CharacterInfo(Roster[i]).kind # "REQUEST_RESPONSE"
      BY <3>1, PacketTypes DEF CharacterInfo
    <3>. HIDE DEF RosterPackets
    <3>4. RosterPackets \in Seq(AuthPacket) /\ Len(RosterPackets) = Len(Roster)
      BY <3>1, <3>2, <3>3, IsASeq
    <3>. QED
      BY <3>2, <3>3, <3>4 DEF NoReply
  <2>2. /\ end \in Seq(AuthPacket) /\ Len(end) = 2
        /\ end[1].kind # "REQUEST_RESPONSE" /\ end[2].kind \notin RosterKinds
    BY <1>4, PacketTypes DEF AccountInfo
  <2>. HIDE DEF RosterPackets, end
  <2>3. /\ RosterPackets \o end \in Seq(AuthPacket)
        /\ Len(RosterPackets) \in Nat /\ Len(RosterPackets \o end) = Len(RosterPackets) + 2
        /\ \A i \in 1 .. Len(RosterPackets) : (RosterPackets \o end)[i] = RosterPackets[i]
        /\ (RosterPackets \o end)[Len(RosterPackets) + 1] = end[1]
        /\ (RosterPackets \o end)[Len(RosterPackets) + 2] = end[2]
    <3>1. /\ RosterPackets \o end \in Seq(AuthPacket)
          /\ Len(RosterPackets \o end) = Len(RosterPackets) + Len(end)
          /\ \A i \in 1 .. Len(RosterPackets) + Len(end) : (RosterPackets \o end)[i] =
                IF i <= Len(RosterPackets) THEN RosterPackets[i]
                ELSE end[i - Len(RosterPackets)]
      BY <2>1, <2>2, ConcatProperties
    <3>. QED
      BY <2>1, <2>2, <3>1
  <2> DEFINE ps == RosterPackets \o end
  <2>. HIDE DEF ps
  <2>4. ASSUME NEW j \in 1 .. Len(ps), ps[j].kind = "REQUEST_RESPONSE"
        PROVE  j = Len(ps)
    <3>1. j \in 1 .. Len(RosterPackets) \/ j = Len(RosterPackets) + 1
          \/ j = Len(RosterPackets) + 2
      BY <2>3 DEF ps
    <3>. QED
      BY <2>1, <2>2, <2>3, <2>4, <3>1 DEF ps, NoReply
  <2>5. ps[Len(ps)].kind \notin RosterKinds
    BY <2>2, <2>3 DEF ps
  <2>6. RosterBeforeReply(ps)
    <3>1. Len(ps) \in Nat
      BY <2>3 DEF ps
    <3>. QED
      BY <2>4, <2>5, <3>1 DEF RosterBeforeReply
  <2>. QED
    BY <2>3, <2>6 DEF ps, end
<1>7. CASE AnswerLogin(q)
  BY <1>3, <1>4, <1>6, <1>7 DEF AnswerLogin, Answers, charVars, requestVars
<1>8. CASE AnswerRequest(q)
  BY <1>3, <1>4, <1>8 DEF AnswerRequest, Answers, charVars, requestVars
<1>9. CASE AnswerInstance(q)
  BY <1>3, <1>4, <1>5, <1>9 DEF AnswerInstance, Answers, charVars, requestVars
<1>. QED
  BY <1>1, <1>7, <1>8, <1>9

\* A packet is handled: what was true of the queue is true of the rest, and behind a
\* reply no more characters come.
LEMMA QueueRest ==
    ASSUME TypeOK, from_auth # <<>>, RosterBeforeReply(from_auth)
    PROVE  /\ RosterBeforeReply(Tail(from_auth))
           /\ NoRoster(from_auth) => NoRoster(Tail(from_auth))
           /\ NoReply(from_auth) => NoReply(Tail(from_auth))
           /\ Head(from_auth).kind \in RosterKinds => ~NoRoster(from_auth)
           /\ Head(from_auth).kind = "REQUEST_RESPONSE" =>
                  NoRoster(Tail(from_auth)) /\ ~NoReply(from_auth)
<1>1. /\ Head(from_auth) = from_auth[1] /\ Len(from_auth) \in Nat \ {0}
      /\ Len(Tail(from_auth)) = Len(from_auth) - 1
      /\ \A i \in 1 .. Len(Tail(from_auth)) : Tail(from_auth)[i] = from_auth[i + 1]
  BY QueueTail DEF TypeOK
<1>2. \A i \in 1 .. Len(Tail(from_auth)) :
         i + 1 \in 1 .. Len(from_auth) /\ ~(i + 1 < 1) /\ 1 \in 1 .. Len(from_auth)
  BY <1>1
<1>3. RosterBeforeReply(Tail(from_auth))
  <2>1. \A i, j \in 1 .. Len(Tail(from_auth)) : i + 1 < j + 1 => i < j
    BY <1>1
  <2>. QED
    BY <1>1, <1>2, <2>1 DEF RosterBeforeReply
<1>. QED
  BY <1>1, <1>2, <1>3 DEF RosterBeforeReply, NoRoster, NoReply

\* Every step keeps RosterInv.
LEMMA RosterStep ==
    ASSUME TypeOK, SessionInv, RosterInv, [Next]_vars
    PROVE  RosterInv'
  <1> USE DEF clientVars, requestVars, charVars, worldVars, gameVars, authVars
  <1>a. ASSUME NEW f, Abort(f) PROVE RosterInv'
    BY <1>a DEF Abort, RosterInv
  <1>b. ASSUME UNCHANGED <<state, from_auth, at_auth>> PROVE RosterInv'
    BY <1>b DEF RosterInv
  \* A question after the login: the login has been answered.
  <1>c. ASSUME state \notin {"AwaitSessionInfo", "AwaitAccountConnect", "AwaitAccountConnection"},
               state' \notin {"AwaitSessionInfo", "AwaitAccountConnect"},
               UNCHANGED from_auth,
               NEW what \in {"RESPONSE", "CHANGE", "INSTANCE"}, AskAuth(what)
        PROVE  RosterInv'
    BY <1>c DEF RosterInv, AskAuth
  <1>d. ASSUME state \notin {"AwaitSessionInfo", "AwaitAccountConnect", "AwaitAccountConnection"},
               state' \notin {"AwaitSessionInfo", "AwaitAccountConnect"},
               from_auth' = from_auth \/ (from_auth # <<>> /\ from_auth' = Tail(from_auth)),
               UNCHANGED at_auth
        PROVE  RosterInv'
    BY <1>d, QueueRest DEF RosterInv
  <1>1. CASE AccountLogin
    <2>1. /\ state = "AwaitAccountConnect" /\ state' = "AwaitAccountConnection"
          /\ UNCHANGED from_auth
          /\ AskAuth("LOGIN") \/ UNCHANGED at_auth
      BY <1>1 DEF AccountLogin
    <2>. QED
      BY <2>1 DEF RosterInv, AskAuth
  <1>2. CASE PlayCharacter
    <2>1. \/ Abort("main_loop")
          \/ /\ state = "AwaitPlayCharacter" /\ UNCHANGED from_auth
             /\ state' \in {"AwaitChangeCharacter", "AwaitGameServerInfo"}
             /\ AskAuth("CHANGE") \/ AskAuth("INSTANCE")
      BY <1>2 DEF PlayCharacter, PlayCurrent, RequestInstance
    <2>. QED
      BY <1>a, <1>c, <2>1
  <1>3. CASE HandleInstanceRedirect \/ PluginRedirects
    <2>1. /\ AskAuth("INSTANCE") /\ UNCHANGED from_auth /\ state' = "AwaitGameServerInfo"
          /\ from_game # <<>> \/ ingame
      BY <1>3 DEF HandleInstanceRedirect, PluginRedirects, RedirectMap, RequestInstance,
                  GamePacketIs, GetIsIngame
    <2>2. state \notin LoginStates
      BY <2>1 DEF SessionInv, LoginBeforeGame, GameThroughSocket
    <2>. QED
      BY <1>c, <2>1, <2>2 DEF LoginStates
  <1>4. CASE LeaveGameServer \/ TransferGameServer
    <2>1. \/ Abort("TransferGameServer")
          \/ /\ state \in {"AwaitGameServerDisconnect", "AwaitGameServerTransfer"}
             /\ state' = "AwaitGameServerTransfer" /\ UNCHANGED <<from_auth, at_auth>>
      BY <1>4 DEF LeaveGameServer, TransferGameServer, BeginTransfer
    <2>. QED
      BY <1>a, <1>d, <2>1
  <1>5. CASE GameSrv_ConnectFailed
    <2>1. state \notin LoginStates /\ state' = "AwaitNothing" /\ UNCHANGED <<from_auth, at_auth>>
      BY <1>5 DEF GameSrv_ConnectFailed, SessionInv, ConnectAfterLogin
    <2>. QED
      BY <1>d, <2>1 DEF LoginStates
  <1>6. CASE \/ NothingAsync \/ GameSrv_Connected \/ AuthUpdate \/ GameUpdate \/ GameClosed
             \/ ClientFrameUpdate
    BY <1>6, <1>a, <1>b DEF NothingAsync, GameSrv_Connected, AuthUpdate, GameUpdate,
       GameClosed, ClientFrameUpdate, Goto
  <1>7. CASE AuthLost
    <2>1. from_auth' = <<>> /\ at_auth' = {} /\ UNCHANGED state
      BY <1>7 DEF AuthLost
    <2>. QED
      BY <2>1 DEF RosterInv, NoRoster, NoReply, RosterBeforeReply
  <1>8. CASE HandleSessionInfo
    <2>1. /\ from_auth # <<>> /\ from_auth' = Tail(from_auth) /\ UNCHANGED at_auth
          /\ Head(from_auth).kind = "SESSION_INFO" /\ state' = "AwaitAccountConnect"
      BY <1>8 DEF HandleSessionInfo, AuthPacketIs
    <2>2. state = "AwaitSessionInfo"
      <3>1. Len(from_auth) \in Nat \ {0} /\ Head(from_auth) = from_auth[1]
        BY <2>1, QueueTail DEF TypeOK
      <3>. QED
        BY <2>1, <3>1 DEF SessionInv, SessionInfoFirst
    <2>. QED
      BY <2>1, <2>2, QueueRest DEF RosterInv
  <1>9. CASE HandleCharacterInfo \/ HandleAccountInfo
    <2>1. /\ from_auth # <<>> /\ from_auth' = Tail(from_auth) /\ UNCHANGED <<state, at_auth>>
      BY <1>9 DEF HandleCharacterInfo, HandleAccountInfo, AuthPacketIs
    <2>. QED
      BY <2>1, QueueRest DEF RosterInv
  <1>10. CASE HandleRequestResponse
    <2>1. from_auth # <<>> /\ Head(from_auth).kind = "REQUEST_RESPONSE"
      BY <1>10 DEF HandleRequestResponse, AuthPacketIs
    <2>2. \/ \E f : Abort(f)
          \/ /\ from_auth' = Tail(from_auth)
             /\ state' = state
                \/ state' \in {"AwaitNothing", "AwaitHardwareInfoReply", "AwaitPlayCharacter",
                               "AwaitGameServerInfo"}
             /\ UNCHANGED at_auth \/ AskAuth("RESPONSE") \/ AskAuth("INSTANCE")
      BY <1>10 DEF HandleRequestResponse, ContinueAccountLogin, ContinueSendHardwareInfo,
         ContinueChangeCharacter, ContinuePlayCharacter, PlayCurrent, RequestInstance,
         AskServerResponse
    <2>3. /\ NoRoster(Tail(from_auth)) /\ ~NoReply(from_auth)
          /\ RosterBeforeReply(Tail(from_auth))
      BY <2>1, QueueRest DEF RosterInv
    <2>4. /\ \A q \in at_auth : q.ask # "LOGIN"
          /\ state \notin {"AwaitSessionInfo", "AwaitAccountConnect"}
      BY <2>3 DEF RosterInv
    <2>5. ASSUME ~\E f : Abort(f) PROVE \A q \in at_auth' : q.ask # "LOGIN"
      BY <2>2, <2>4, <2>5 DEF AskAuth
    <2>. QED
      BY <1>a, <2>2, <2>3, <2>4, <2>5 DEF RosterInv
  <1>11. CASE HandleGameServerInfo
    <2>1. \/ \E f : Abort(f)
          \/ /\ from_auth # <<>> /\ from_auth' = Tail(from_auth) /\ UNCHANGED at_auth
             /\ state = "AwaitGameServerInfo"
             /\ state' \in {"AwaitGameServerDisconnect", "AwaitGameServerTransfer"}
      BY <1>11 DEF HandleGameServerInfo, StartLoadingNewZone, AuthPacketIs
    <2>. QED
      BY <1>a, <1>d, <2>1
  <1>12. CASE \/ HandleInstanceLoadInfo \/ HandleReadyForMapSpawn
              \/ HandleInstanceLoadSpawnPoint \/ HandleInstanceLoaded
              \/ HandleInstanceLoadFinish \/ HandleWorldPacket
    BY <1>12, <1>a, <1>b DEF HandleInstanceLoadInfo, HandleReadyForMapSpawn,
       HandleInstanceLoadSpawnPoint, HandleInstanceLoaded, HandleInstanceLoadFinish,
       HandleWorldPacket, AnswerGame
  <1>13. CASE HandleGameTransferInfo
    <2>1. \/ Abort("HandleGameTransferInfo")
          \/ /\ state' \in {"AwaitGameServerDisconnect", "AwaitGameServerTransfer"}
             /\ UNCHANGED <<from_auth, at_auth>>
      BY <1>13 DEF HandleGameTransferInfo, StartLoadingNewZone
    <2>2. state \notin LoginStates
      BY <1>13 DEF HandleGameTransferInfo, GamePacketIs, SessionInv, LoginBeforeGame,
         GameThroughSocket
    <2>. QED
      BY <1>a, <1>d, <2>1, <2>2 DEF LoginStates
  <1>14. CASE Travel \/ ReturnToOutpost \/ GameServer \/ UNCHANGED vars
    BY <1>14, <1>a, <1>b DEF Travel, ReturnToOutpost, GameServer, GameSends, vars
  <1>15. CASE AuthServer
    <2>1. PICK q \in at_auth, packets \in Seq(AuthPacket) :
             /\ from_auth' = from_auth \o packets /\ at_auth' = at_auth \ {q}
             /\ q.ask # "LOGIN" => NoRoster(packets)
             /\ RosterBeforeReply(packets)
             /\ UNCHANGED state
      BY <1>15, AnswerShape
    <2>2. /\ Len(from_auth) \in Nat /\ Len(packets) \in Nat
          /\ \A i \in 1 .. Len(from_auth') :
                \/ i \in 1 .. Len(from_auth) /\ from_auth'[i] = from_auth[i]
                \/ i - Len(from_auth) \in 1 .. Len(packets)
                   /\ from_auth'[i] = packets[i - Len(from_auth)]
      BY <2>1, QueueConcat DEF TypeOK
    <2>3. \A p \in at_auth' : p.ask # "LOGIN"
      BY <2>1 DEF RosterInv
    <2>4. state \notin {"AwaitSessionInfo", "AwaitAccountConnect"}
      BY <2>1 DEF RosterInv
    <2>5. NoRoster(from_auth') \/ state' = "AwaitAccountConnection"
      <3>1. CASE q.ask = "LOGIN"
        BY <2>1, <3>1 DEF RosterInv
      <3>2. CASE q.ask # "LOGIN" /\ NoRoster(from_auth)
        BY <2>1, <2>2, <3>2 DEF NoRoster
      <3>3. CASE ~NoRoster(from_auth)
        BY <2>1, <3>3 DEF RosterInv
      <3>. QED
        BY <3>1, <3>2, <3>3
    <2>6. ASSUME NEW i \in 1 .. Len(from_auth'), NEW j \in 1 .. Len(from_auth'),
                 from_auth'[i].kind \in RosterKinds, from_auth'[j].kind = "REQUEST_RESPONSE"
          PROVE  i < j
      <3>1. CASE i \in 1 .. Len(from_auth) /\ from_auth'[i] = from_auth[i]
                 /\ j \in 1 .. Len(from_auth) /\ from_auth'[j] = from_auth[j]
        BY <2>6, <3>1 DEF RosterInv, RosterBeforeReply
      <3>2. CASE i \in 1 .. Len(from_auth) /\ j - Len(from_auth) \in 1 .. Len(packets)
        BY <2>2, <3>2
      <3>3. CASE i - Len(from_auth) \in 1 .. Len(packets)
                 /\ from_auth'[i] = packets[i - Len(from_auth)]
        <4>1. q.ask = "LOGIN"
          BY <2>1, <2>6, <3>3 DEF NoRoster
        <4>2. NoReply(from_auth)
          BY <2>1, <4>1 DEF RosterInv
        <4>3. j - Len(from_auth) \in 1 .. Len(packets)
              /\ from_auth'[j] = packets[j - Len(from_auth)]
          BY <2>2, <2>6, <4>2 DEF NoReply
        <4>4. i - Len(from_auth) < j - Len(from_auth)
          BY <2>1, <2>6, <3>3, <4>3 DEF RosterBeforeReply
        <4>. QED
          BY <2>2, <4>4
      <3>. QED
        BY <2>2, <3>1, <3>2, <3>3
    <2>. QED
      BY <2>1, <2>3, <2>4, <2>5, <2>6 DEF RosterInv, RosterBeforeReply
  <1>. QED
    BY <1>1, <1>2, <1>3, <1>4, <1>5, <1>6, <1>7, <1>8, <1>9, <1>10, <1>11, <1>12,
       <1>13, <1>14, <1>15 DEF Next, FrameStep, AuthDispatch, GameDispatch, PluginThread

\* Every step keeps CharacterInv.
LEMMA CharacterStep ==
    ASSUME TypeOK, SessionInv, RosterInv, CharacterInv, [Next]_vars
    PROVE  CharacterInv'
  <1> USE DEF clientVars, requestVars, charVars, worldVars, gameVars, authVars
  \* The characters stay, and no instance is asked for.
  <1>a. ASSUME UNCHANGED <<options, charVars>>,
               state' = state \/ state' # "AwaitChangeCharacter",
               \A r \in requests' : r.type = "PlayCharacter" => r \in requests
        PROVE  CharacterInv'
    BY <1>a DEF CharacterInv, PlaysTheWantedCharacter
  <1>b. ASSUME NEW f, Abort(f) PROVE CharacterInv'
    BY <1>a, <1>b DEF Abort
  \* An instance is asked for with the wanted character current.
  <1>c. ASSUME UNCHANGED <<options, characters>>,
               state' # "AwaitChangeCharacter",
               characters # <<>> => current_character_idx' < Len(characters),
               characters = <<>> => current_character_idx' = 0,
               (\E i \in DOMAIN characters : characters[i] = options.charname)
                   => characters[current_character_idx' + 1] = options.charname
        PROVE  CharacterInv'
    BY <1>c DEF CharacterInv, PlaysTheWantedCharacter
  <1>d. /\ characters \in Seq(Names) /\ Len(characters) \in Nat
        /\ current_character_idx \in Nat /\ pending_character_idx \in Nat
    BY DEF TypeOK
  <1>1. CASE AccountLogin
    <2>1. /\ state' = "AwaitAccountConnection" /\ UNCHANGED <<options, charVars>>
          /\ \A r \in requests' : r.type = "PlayCharacter" => r \in requests
      BY <1>1 DEF AccountLogin, IssueNextTransaction
    <2>. QED
      BY <1>a, <2>1
  <1>2. CASE PlayCharacter
    <2>1. CASE Abort("main_loop")
      BY <1>b, <2>1
    <2>2. ASSUME NEW i \in ChangeTargets(options.charname),
                 pending_character_idx' = i - 1, state' = "AwaitChangeCharacter",
                 IssueNextTransaction(requests, "ChangeCharacter"),
                 UNCHANGED <<options, characters, current_character_idx>>,
                 state = "AwaitPlayCharacter"
          PROVE  CharacterInv'
      <3>1. i \in 1 .. Len(characters) /\ characters[i] = options.charname
            /\ (i - 1) + 1 = i /\ i - 1 < Len(characters)
        BY <1>d DEF ChangeTargets
      <3>2. \A r \in requests' : r.type # "PlayCharacter"
        <4>1. \A r \in requests : r.type # "PlayCharacter"
          BY <2>2 DEF SessionInv, RequestsAwaited, AwaitedIn, LoginStates
        <4>. QED
          BY <2>2, <4>1 DEF IssueNextTransaction
      <3>. QED
        BY <2>2, <3>1, <3>2 DEF CharacterInv, PlaysTheWantedCharacter
    <2>3. CASE /\ ChangeTargets(options.charname) = {}
               /\ state' = "AwaitGameServerInfo"
               /\ UNCHANGED <<options, charVars>>
      <3>1. ASSUME NEW i \in DOMAIN characters, characters[i] = options.charname
            PROVE  characters[current_character_idx + 1] = options.charname
        <4>1. characters # <<>>
          BY <1>d
        <4>. QED
          BY <2>3, <3>1, <4>1 DEF ChangeTargets, CharacterInv
      <3>. QED
        BY <1>c, <2>3, <3>1 DEF CharacterInv
    <2>. QED
      BY <1>2, <2>1, <2>2, <2>3 DEF PlayCharacter, PlayCurrent, RequestInstance
  <1>3. CASE HandleInstanceRedirect \/ PluginRedirects
    <2>1. /\ state' = "AwaitGameServerInfo" /\ UNCHANGED <<options, charVars>>
          /\ \A r \in requests' : r.type = "PlayCharacter" => r \in requests
      BY <1>3 DEF HandleInstanceRedirect, PluginRedirects, RedirectMap, RequestInstance,
                  IssueNextTransaction
    <2>. QED
      BY <1>a, <2>1
  <1>4. CASE HandleSessionInfo
    BY <1>4, <1>a DEF HandleSessionInfo
  <1>5. CASE HandleCharacterInfo \/ HandleAccountInfo
    <2>1. from_auth # <<>> /\ Head(from_auth).kind \in RosterKinds
          /\ UNCHANGED <<options, state, requests>>
      BY <1>5 DEF HandleCharacterInfo, HandleAccountInfo, AuthPacketIs, RosterKinds
    <2>2. state = "AwaitAccountConnection"
      BY <2>1, QueueRest DEF RosterInv
    <2>3. \A r \in requests' : r.type # "PlayCharacter"
      BY <2>1, <2>2 DEF SessionInv, RequestsAwaited, AwaitedIn, LoginStates
    <2>4. /\ characters' # <<>> => current_character_idx' < Len(characters')
          /\ characters' = <<>> => current_character_idx' = 0
      <3>1. CASE HandleCharacterInfo
        <4>1. Head(from_auth).name \in Names
          BY <3>1, QueueTail, PacketFields DEF HandleCharacterInfo, AuthPacketIs, TypeOK
        <4>2. /\ characters' = Append(characters, Head(from_auth).name)
              /\ current_character_idx' = current_character_idx
          BY <3>1 DEF HandleCharacterInfo
        <4>3. Len(characters') = Len(characters) + 1 /\ characters' # <<>>
          BY <1>d, <4>1, <4>2
        <4>. QED
          BY <1>d, <4>2, <4>3 DEF CharacterInv
      <3>2. CASE HandleAccountInfo
        <4>1. /\ characters' = characters
              /\ \/ current_character_idx' = current_character_idx
                 \/ \E i \in DOMAIN characters : current_character_idx' = i - 1
          BY <3>2 DEF HandleAccountInfo
        <4>. QED
          BY <1>d, <4>1 DEF CharacterInv
      <3>. QED
        BY <1>5, <3>1, <3>2
    <2>. QED
      BY <2>1, <2>2, <2>3, <2>4 DEF CharacterInv, PlaysTheWantedCharacter
  <1>6. CASE HandleRequestResponse
    <2> DEFINE reply == Head(from_auth)
               found == {r \in requests : r.trans_id = reply.trans_id}
               rest  == requests \ found
    <2>1. rest \subseteq requests
      OBVIOUS
    <2>2. ASSUME ContinueAccountLogin(rest, reply.code) \/ ContinueSendHardwareInfo(rest)
          PROVE  CharacterInv'
      <3> HIDE DEF rest, reply
      <3>1. \/ \E f : Abort(f)
            \/ /\ state' \in {"AwaitNothing", "AwaitHardwareInfoReply", "AwaitPlayCharacter"}
               /\ UNCHANGED <<options, charVars>>
               /\ \A r \in requests' : r.type = "PlayCharacter" => r \in requests
        BY <2>1, <2>2 DEF ContinueAccountLogin, ContinueSendHardwareInfo,
           IssueNextTransaction
      <3>. QED
        BY <1>a, <1>b, <3>1
    <2>3. ASSUME ContinueChangeCharacter(rest, reply.code)
          PROVE  CharacterInv'
      <3> HIDE DEF rest, reply
      <3>1. \/ \E f : Abort(f)
            \/ /\ UNCHANGED <<options, state, charVars>> /\ requests' = rest
            \/ /\ state = "AwaitChangeCharacter" /\ state' = "AwaitGameServerInfo"
               /\ UNCHANGED <<options, characters>>
               /\ current_character_idx' = pending_character_idx
        BY <2>3 DEF ContinueChangeCharacter, TakePendingCharacter, PlayCurrent,
           RequestInstance
      <3>2. CASE /\ state = "AwaitChangeCharacter" /\ state' = "AwaitGameServerInfo"
                 /\ UNCHANGED <<options, characters>>
                 /\ current_character_idx' = pending_character_idx
        <4>1. /\ pending_character_idx < Len(characters)
              /\ characters[pending_character_idx + 1] = options.charname
          BY <3>2 DEF CharacterInv
        <4>2. characters # <<>>
          BY <1>d, <4>1
        <4>. QED
          BY <1>c, <3>2, <4>1, <4>2
      <3>. QED
        BY <1>a, <1>b, <2>1, <3>1, <3>2
    <2>4. ASSUME NEW r \in found, r.type = "PlayCharacter",
                 ContinuePlayCharacter(rest, reply.code)
          PROVE  CharacterInv'
      <3>1. state \notin LoginStates
        BY <2>4 DEF SessionInv, RequestsAwaited, AwaitedIn
      <3>2. Abort("ContinuePlayCharacter")
        BY <2>4, <3>1 DEF ContinuePlayCharacter, LoginStates
      <3>. QED
        BY <1>b, <3>2
    <2>5. CASE requests' = rest /\ UNCHANGED <<options, state, charVars>>
      BY <1>a, <2>1, <2>5
    <2>. QED
      BY <1>6, <2>2, <2>3, <2>4, <2>5 DEF HandleRequestResponse
  <1>7. CASE \/ LeaveGameServer \/ TransferGameServer \/ NothingAsync
             \/ GameSrv_Connected \/ GameSrv_ConnectFailed \/ AuthUpdate
             \/ GameUpdate \/ GameClosed \/ ClientFrameUpdate \/ AuthLost
    <2>1. \/ \E f : Abort(f)
          \/ /\ UNCHANGED <<options, charVars, requests>>
             /\ state' = state \/ state' # "AwaitChangeCharacter"
      BY <1>7 DEF LeaveGameServer, TransferGameServer, BeginTransfer, NothingAsync,
         GameSrv_Connected, GameSrv_ConnectFailed, AuthUpdate, GameUpdate, GameClosed,
         ClientFrameUpdate, AuthLost, Goto
    <2>. QED
      BY <1>a, <1>b, <2>1
  <1>8. CASE HandleGameServerInfo \/ HandleGameTransferInfo
    <2>1. \/ \E f : Abort(f)
          \/ /\ UNCHANGED <<options, charVars, requests>>
             /\ state' # "AwaitChangeCharacter"
      BY <1>8 DEF HandleGameServerInfo, HandleGameTransferInfo, StartLoadingNewZone
    <2>. QED
      BY <1>a, <1>b, <2>1
  <1>9. CASE \/ HandleInstanceLoadInfo \/ HandleReadyForMapSpawn
             \/ HandleInstanceLoadSpawnPoint \/ HandleInstanceLoaded
             \/ HandleInstanceLoadFinish \/ HandleWorldPacket
    <2>1. \/ \E f : Abort(f)
          \/ UNCHANGED <<options, charVars, requests, state>>
      BY <1>9 DEF HandleInstanceLoadInfo, HandleReadyForMapSpawn,
         HandleInstanceLoadSpawnPoint, HandleInstanceLoaded, HandleInstanceLoadFinish,
         HandleWorldPacket, AnswerGame
    <2>. QED
      BY <1>a, <1>b, <2>1
  <1>10. CASE Travel \/ ReturnToOutpost \/ AuthServer \/ GameServer \/ UNCHANGED vars
    <2>1. \/ \E f : Abort(f)
          \/ UNCHANGED <<options, charVars, requests, state>>
      BY <1>10, AnswerShape DEF Travel, ReturnToOutpost, GameServer, GameSends, vars
    <2>. QED
      BY <1>a, <1>b, <2>1
  <1>. QED
    BY <1>1, <1>2, <1>3, <1>4, <1>5, <1>6, <1>7, <1>8, <1>9, <1>10
       DEF Next, FrameStep, AuthDispatch, GameDispatch, PluginThread

\* The instance is requested for the character of the options, if the account has
\* it, over a change of character or not: PlayCharacter, ContinueChangeCharacter.
THEOREM WantedCharacterIsPlayed == Spec => []PlaysTheWantedCharacter
  <1>1. Init => RosterInv /\ CharacterInv
    <2> SUFFICES ASSUME Init PROVE RosterInv /\ CharacterInv
      OBVIOUS
    <2>1. Len(from_auth) = 1 /\ from_auth[1].kind = "SESSION_INFO"
      BY DEF Init, SessionInfo
    <2>2. RosterInv
      BY <2>1 DEF Init, RosterInv, NoRoster, NoReply, RosterBeforeReply, RosterKinds
    <2>3. CharacterInv
      BY DEF Init, CharacterInv, PlaysTheWantedCharacter
    <2>. QED
      BY <2>2, <2>3
  <1>2. TypeOK /\ SessionInv /\ RosterInv /\ CharacterInv /\ [Next]_vars
        => (RosterInv /\ CharacterInv)'
    BY RosterStep, CharacterStep
  <1>3. CharacterInv => PlaysTheWantedCharacter
    BY DEF CharacterInv
  <1>. QED
    BY <1>1, <1>2, <1>3, TypeCorrect, SessionCorrect, PTL DEF Spec

=============================================================================
