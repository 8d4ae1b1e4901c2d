--------------------------- MODULE ClientSession ---------------------------
(***************************************************************************)
(* The session of one GwClient: login on the auth server, choice of the    *)
(* character, request of a game instance, connection to game servers and   *)
(* transfers between them.  The main thread runs main_loop(); one frame is *)
(* the cycle                                                               *)
(*     "async" -> ("connect" ->) "auth" -> "game" -> "frame" -> "async"    *)
(* where "async" is the block of conditions on client->state, "connect"    *)
(* the blocking GameSrv_Connect inside TransferGameServer, "auth" and      *)
(* "game" the two NetConn_Update calls (each dispatches any number of      *)
(* received packets) and "frame" client_frame_update.  Plugin threads call *)
(* the API between any two of these steps.                                 *)
(*                                                                         *)
(* The build is the default one: assert() and abort() end the process, and *)
(* halted names the function whose check failed ("no" while it runs).        *)
(* Requests sent on a live connection reach the server; the two servers    *)
(* are external and do only what the handlers of the client expect.        *)
(***************************************************************************)
EXTENDS Naturals, Sequences

CONSTANTS
    Names,      \* names a character may have
    LongName,   \* a -character option longer than the 20 units of the packet
    Roster,     \* the characters of the account, in the order they are sent
    WorldIds,   \* ids of game instances, never 0
    Statuses,   \* values of the -status option
    MaxTrans,   \* bound: last transaction id a behaviour issues
    MaxQueue    \* bound: packets in flight from the game server

ASSUME SessionAssumption ==
    /\ Roster \in Seq(Names) /\ Roster # <<>>
    /\ LongName \notin Names
    /\ WorldIds \subseteq Nat \ {0}
    /\ Statuses \subseteq Nat
    /\ MaxTrans \in Nat /\ MaxQueue \in Nat

VARIABLES
    options,                 \* command line: newauth, charname, online_status
    pc,                      \* where the main thread is in its frame
    halted,                  \* "no" or the function whose assert fired
    state,                   \* client->state
    ingame, loading,         \* client->ingame, client->loading
    requests,                \* client->requests
    next_transaction_id,
    player_status,
    characters,              \* names received so far, index 0 is position 1
    current_character_idx, pending_character_idx,
    world,                   \* client->world.hash, 0 when there is no world
    server_transfer,         \* client->server_transfer.world_id
    auth_srv,                \* the auth socket is open
    game_srv,                \* the game Connection
    at_auth,                 \* requests the auth server has yet to answer
    from_auth,               \* packets in flight from the auth server
    game_peer,               \* how far the game server is with this client
    from_game                \* packets in flight from the game server

clientVars  == <<ingame, loading, player_status>>
requestVars == <<requests, next_transaction_id>>
charVars    == <<characters, current_character_idx, pending_character_idx>>
worldVars   == <<world, server_transfer>>
gameVars    == <<game_srv, game_peer, from_game>>
authVars    == <<auth_srv, at_auth, from_auth>>
vars == <<options, pc, halted, state, clientVars, requestVars, charVars,
          worldVars, gameVars, authVars>>

-----------------------------------------------------------------------------
AwaitStates ==
    {"AwaitNothing", "AwaitAuthServer", "AwaitSessionInfo",
     "AwaitAccountConnect", "AwaitAccountConnection",
     "AwaitHardwareInfoReply", "AwaitPlayCharacter", "AwaitChangeCharacter",
     "AwaitGameServerInfo", "AwaitGameServerDisconnect",
     "AwaitGameServerTransfer"}

AsyncTypes == {"None", "AccountLogin", "PlayCharacter", "SendHardwareInfo",
               "ChangeCharacter"}

AsyncRequest == [trans_id : Nat, type : AsyncTypes]

LoginStates ==
    {"AwaitSessionInfo", "AwaitAccountConnect", "AwaitAccountConnection",
     "AwaitHardwareInfoReply", "AwaitPlayCharacter", "AwaitChangeCharacter"}

\* What the client asks of the auth server.
AuthQuestion == [trans_id : Nat,
                 ask : {"LOGIN", "RESPONSE", "CHANGE", "INSTANCE"}]

\* What the auth server sends.
SessionInfo           == [kind |-> "SESSION_INFO"]
CharacterInfo(n)      == [kind |-> "CHARACTER_INFO", name |-> n]
AccountInfo(n)        == [kind |-> "ACCOUNT_INFO", name |-> n]
RequestResponse(t, c) == [kind |-> "REQUEST_RESPONSE", trans_id |-> t, code |-> c]
GameServerInfo(w)     == [kind |-> "GAME_SERVER_INFO", world_id |-> w]

AuthPacket ==
    [kind : {"SESSION_INFO"}]
    \cup [kind : {"CHARACTER_INFO", "ACCOUNT_INFO"}, name : Names]
    \cup [kind : {"REQUEST_RESPONSE"}, trans_id : Nat, code : {0, 1}]
    \cup [kind : {"GAME_SERVER_INFO"}, world_id : WorldIds]

\* What the game server sends; WORLD_PACKET stands for every packet whose
\* handler starts with get_world_or_abort and leaves the session alone.
GameTransferInfo(w) == [kind |-> "TRANSFER", world_id |-> w]
Plain(k)            == [kind |-> k]
PlainKinds == {"INSTANCE_LOAD_INFO", "READY_FOR_MAP_SPAWN", "SPAWN_POINT",
               "INSTANCE_LOADED", "LOAD_FINISH", "REDIRECT", "WORLD_PACKET"}
GamePacket == [kind : PlainKinds]
              \cup [kind : {"TRANSFER"}, world_id : WorldIds]

\* The fields of a Connection the session depends on: a socket is open, the
\* keys are exchanged, NETCONN_SHUTDOWN is set, the in/out buffers have their
\* capacity, last_tick_time is not 0.
GameConnection == [fd : BOOLEAN, secured : BOOLEAN, shut : BOOLEAN,
                   buffers : BOOLEAN, tick : BOOLEAN]

GamePeers == {"none", "greeting", "await_items", "items", "await_spawn",
              "spawn", "await_players", "players", "playing", "gone"}

\* The functions whose assert or abort ends the process, "no" while it runs.
Checks == {"no", "main_loop", "TransferGameServer", "ContinueAccountLogin",
           "ContinueSendHardwareInfo", "ContinueChangeCharacter",
           "pending_character_idx", "ContinuePlayCharacter",
           "HandleGameServerInfo", "GameSrv_Disconnect", "get_world_or_abort",
           "HandleReadyForMapSpawn", "HandleGameTransferInfo",
           "GameSrv_PingRequest", "SendPacket", "GameSrv_Travel",
           "GameSrv_ReturnToOutpost"}

NetConn_IsShutdown == ~game_srv.fd

Running == pc # "halted"

\* An assert or abort in function f ends the process.  A check that fails in
\* some run is a disjunct; one that no run makes fail is an IF.
Abort(f) ==
    /\ halted' = f
    /\ pc' = "halted"
    /\ UNCHANGED <<options, state, clientVars, requestVars, charVars,
                   worldVars, gameVars, authVars>>

-----------------------------------------------------------------------------
(* Requests to the auth server                                             *)

\* Mutant: the counter is left behind.
IssueSameTransaction(rest, type) ==
    /\ UNCHANGED next_transaction_id
    /\ requests' = rest \cup {[trans_id |-> next_transaction_id + 1, type |-> type]}

\* issue_next_transaction, once the requests in rest are what is left.
IssueNextTransaction(rest, type) ==
    /\ next_transaction_id' = next_transaction_id + 1
    /\ requests' = rest \cup {[trans_id |-> next_transaction_id + 1, type |-> type]}

\* The request carries the id just issued; a dead socket loses it.
AskAuth(what) ==
    /\ at_auth' = IF auth_srv
                  THEN at_auth \cup {[trans_id |-> next_transaction_id + 1, ask |-> what]}
                  ELSE at_auth
    /\ UNCHANGED auth_srv

\* Mutant: the question is never sent.
ForgetServerResponse == UNCHANGED <<auth_srv, at_auth>>

\* AuthSrv_AskServerResponse.
AskServerResponse == AskAuth("RESPONSE")

\* Mutant: the state still allows to play.
RequestInstanceAndStay(rest, type) ==
    /\ IssueNextTransaction(rest, type)
    /\ UNCHANGED state
    /\ AskAuth("INSTANCE")

\* issue_next_transaction followed by AuthSrv_RequestInstance.
RequestInstance(rest, type) ==
    /\ IssueNextTransaction(rest, type)
    /\ state' = "AwaitGameServerInfo"
    /\ AskAuth("INSTANCE")

\* PlayCharacter when no change of character is needed: the status is sent,
\* then ContinuePlayCharacter(client, 0) asks for an instance.
PlayCurrent(rest, status) ==
    /\ player_status' = status
    /\ RequestInstance(rest, "PlayCharacter")

\* ChangeCharacter(name): positions of the wanted character, when it is
\* another one than the current character.
ChangeTargets(name) ==
    IF current_character_idx < Len(characters)
       /\ characters[current_character_idx + 1] # name
    THEN {i \in DOMAIN characters : characters[i] = name}
    ELSE {}

\* AccountLogin and PortalAccountConnect.
AccountLogin ==
    /\ pc = "async"
    /\ state = "AwaitAccountConnect"
    /\ state' = "AwaitAccountConnection"
    /\ \/ /\ options.newauth
          /\ IssueNextTransaction(requests, "AccountLogin")
          /\ IF options.charname = LongName
             THEN UNCHANGED <<auth_srv, at_auth>>
             ELSE AskAuth("LOGIN")
       \/ /\ ~options.newauth
          /\ UNCHANGED <<requestVars, auth_srv, at_auth>>
    /\ pc' = "auth_recv"
    /\ UNCHANGED <<options, halted, clientVars, charVars, worldVars, gameVars,
                   from_auth>>

\* PlayCharacter called by main_loop with the name and status of the options.
PlayCharacter ==
    /\ pc = "async"
    /\ state = "AwaitPlayCharacter"
    /\ IF ~NetConn_IsShutdown
       THEN Abort("main_loop")
       ELSE /\ \/ \E i \in ChangeTargets(options.charname) :
                   /\ \A j \in ChangeTargets(options.charname) : i <= j
                   /\ player_status' = options.online_status
                   /\ pending_character_idx' = i - 1
                   /\ state' = "AwaitChangeCharacter"
                   /\ IssueNextTransaction(requests, "ChangeCharacter")
                   /\ AskAuth("CHANGE")
               \/ /\ ChangeTargets(options.charname) = {}
                  /\ PlayCurrent(requests, options.online_status)
                  /\ UNCHANGED pending_character_idx
            /\ pc' = "auth_recv"
            /\ UNCHANGED <<options, halted, ingame, loading, characters,
                           current_character_idx, worldVars, gameVars, from_auth>>

-----------------------------------------------------------------------------
(* Game server connection                                                  *)

\* Mutant: the descriptor survives.
KeepDescriptor(c) == [c EXCEPT !.secured = FALSE, !.shut = FALSE, !.tick = FALSE]

\* The end of NetConn_Update when NETCONN_SHUTDOWN is set.
ClosedConnection(c) ==
    [c EXCEPT !.fd = FALSE, !.secured = FALSE, !.shut = FALSE, !.tick = FALSE]

\* NetConn_Shutdown: the buffers are freed, the flag is set, fd is kept.
NetConn_Shutdown(c) == [c EXCEPT !.shut = TRUE, !.buffers = FALSE]

\* Mutant: the world is dropped and the game server is not left.
ForgetGameServer(w, conn) ==
    /\ state' = "AwaitGameServerTransfer"
    /\ UNCHANGED gameVars
    /\ world' = 0
    /\ server_transfer' = w

\* Mutant: the old world is kept.
KeepOldWorld(w, conn) ==
    /\ IF NetConn_IsShutdown
       THEN /\ state' = "AwaitGameServerTransfer"
            /\ UNCHANGED gameVars
       ELSE /\ state' = "AwaitGameServerDisconnect"
            /\ game_srv' = conn
            /\ game_peer' = "gone"
            /\ from_game' = <<>>
    /\ UNCHANGED world
    /\ server_transfer' = w

\* start_loading_new_zone: leave the current game server, if any, drop the
\* world and remember where to go.  conn is the connection it leaves behind.
StartLoadingNewZone(w, conn) ==
    /\ IF NetConn_IsShutdown
       THEN /\ state' = "AwaitGameServerTransfer"
            /\ UNCHANGED gameVars
       ELSE /\ state' = "AwaitGameServerDisconnect"
            /\ game_srv' = conn
            /\ game_peer' = "gone"
            /\ from_game' = <<>>
    /\ world' = 0
    /\ server_transfer' = w

\* The checks GameSrv_Disconnect and its SendPacket make on a live connection.
DisconnectFails ==
    ~NetConn_IsShutdown /\ (~game_srv.secured \/ ~game_srv.buffers)

\* TransferGameServer up to GameSrv_Connect: the world exists from here on,
\* the socket is created, the keys are not yet exchanged.
BeginTransfer ==
    /\ world = 0
    /\ world' = server_transfer
    /\ state' = "AwaitGameServerTransfer"
    /\ game_srv' = [game_srv EXCEPT !.fd = TRUE, !.secured = FALSE]
    /\ pc' = "connect"
    /\ UNCHANGED <<options, halted, player_status, requestVars, charVars,
                   server_transfer, game_peer, from_game, authVars>>

\* main_loop: the old game server is gone, connect to the next one.
LeaveGameServer ==
    /\ pc = "async"
    /\ state = "AwaitGameServerDisconnect"
    /\ NetConn_IsShutdown
    /\ ingame' = FALSE /\ loading' = TRUE
    /\ BeginTransfer

TransferGameServer ==
    /\ pc = "async"
    /\ state = "AwaitGameServerTransfer"
    /\ NetConn_IsShutdown
    /\ \/ world # 0 /\ Abort("TransferGameServer")
       \/ BeginTransfer /\ UNCHANGED <<ingame, loading>>

GameSrv_Connected ==
    /\ pc = "connect"
    /\ game_srv' = [game_srv EXCEPT !.secured = TRUE]
    /\ game_peer' = "greeting"
    /\ pc' = "auth_recv"
    /\ UNCHANGED <<options, halted, state, clientVars, requestVars, charVars,
                   worldVars, from_game, authVars>>

\* Mutant: back to the character selection with the socket open.
GameSrv_ConnectRetries ==
    /\ pc = "connect"
    /\ state' = "AwaitPlayCharacter"
    /\ pc' = "auth_recv"
    /\ UNCHANGED <<options, halted, clientVars, requestVars, charVars,
                   worldVars, gameVars, authVars>>

\* GameSrv_Connect fails: NetConn_Reset frees the buffers, free_world keeps
\* the hash.
GameSrv_ConnectFailed ==
    /\ pc = "connect"
    /\ game_srv' = [game_srv EXCEPT !.fd = FALSE, !.buffers = FALSE]
    /\ state' = "AwaitNothing"
    /\ pc' = "auth_recv"
    /\ UNCHANGED <<options, halted, clientVars, requestVars, charVars,
                   worldVars, game_peer, from_game, authVars>>

-----------------------------------------------------------------------------
(* Packets of the auth server                                              *)

AuthPacketIs(kind) ==
    /\ pc = "auth_dispatch"
    /\ from_auth # <<>>
    /\ Head(from_auth).kind = kind

HandleSessionInfo ==
    /\ AuthPacketIs("SESSION_INFO")
    /\ from_auth' = Tail(from_auth)
    /\ state' = "AwaitAccountConnect"
    /\ UNCHANGED <<options, pc, halted, clientVars, requestVars, charVars,
                   worldVars, gameVars, auth_srv, at_auth>>

HandleCharacterInfo ==
    /\ AuthPacketIs("CHARACTER_INFO")
    /\ from_auth' = Tail(from_auth)
    /\ characters' = Append(characters, Head(from_auth).name)
    /\ UNCHANGED <<options, pc, halted, state, clientVars, requestVars,
                   current_character_idx, pending_character_idx, worldVars,
                   gameVars, auth_srv, at_auth>>

HandleAccountInfo ==
    /\ AuthPacketIs("ACCOUNT_INFO")
    /\ from_auth' = Tail(from_auth)
    /\ \/ \E i \in DOMAIN characters :
            /\ characters[i] = Head(from_auth).name
            /\ \A j \in 1 .. i - 1 : characters[j] # Head(from_auth).name
            /\ current_character_idx' = i - 1
       \/ /\ \A i \in DOMAIN characters : characters[i] # Head(from_auth).name
          /\ UNCHANGED current_character_idx
    /\ UNCHANGED <<options, pc, halted, state, clientVars, requestVars,
                   characters, pending_character_idx, worldVars, gameVars,
                   auth_srv, at_auth>>

\* The Continue functions: the reply carries code, rest is what remains of
\* client->requests once the matching entry is removed.
ContinueAccountLogin(rest, code) ==
    IF state # "AwaitAccountConnection"
    THEN Abort("ContinueAccountLogin")
    ELSE
       /\ from_auth' = Tail(from_auth)
       /\ \/ /\ code # 0
             /\ state' = "AwaitNothing"
             /\ requests' = rest
             /\ UNCHANGED <<next_transaction_id, auth_srv, at_auth>>
          \/ /\ code = 0
             /\ state' = "AwaitHardwareInfoReply"
             /\ IssueNextTransaction(rest, "SendHardwareInfo")
             /\ AskServerResponse
       /\ UNCHANGED <<options, pc, halted, clientVars, charVars, worldVars,
                      gameVars>>

ContinueSendHardwareInfo(rest) ==
    IF state # "AwaitHardwareInfoReply"
    THEN Abort("ContinueSendHardwareInfo")
    ELSE
       /\ from_auth' = Tail(from_auth)
       /\ state' = "AwaitPlayCharacter"
       /\ requests' = rest
       /\ UNCHANGED <<options, pc, halted, clientVars, next_transaction_id,
                      charVars, worldVars, gameVars, auth_srv, at_auth>>

\* Mutant: the index is reset before it is taken.
TakeResetCharacter ==
    /\ pending_character_idx' = 0
    /\ current_character_idx' = pending_character_idx'

TakePendingCharacter ==
    /\ current_character_idx' = pending_character_idx
    /\ pending_character_idx' = 0

\* An error leaves the state and pending_character_idx as they are.
ContinueChangeCharacter(rest, code) ==
    IF state # "AwaitChangeCharacter"
    THEN Abort("ContinueChangeCharacter")
    ELSE
    \/ pending_character_idx = 0 /\ Abort("pending_character_idx")
    \/ /\ pending_character_idx # 0
       /\ from_auth' = Tail(from_auth)
       /\ \/ /\ code # 0
             /\ requests' = rest
             /\ UNCHANGED <<state, next_transaction_id, player_status,
                            charVars, auth_srv, at_auth>>
          \/ /\ code = 0
             /\ TakePendingCharacter
             /\ PlayCurrent(rest, 0)
             /\ UNCHANGED characters
       /\ UNCHANGED <<options, pc, halted, ingame, loading, worldVars, gameVars>>

ContinuePlayCharacter(rest, code) ==
    IF state # "AwaitChangeCharacter"
    THEN Abort("ContinuePlayCharacter")
    ELSE
       /\ from_auth' = Tail(from_auth)
       /\ \/ /\ code # 0
             /\ requests' = rest
             /\ UNCHANGED <<state, next_transaction_id, auth_srv, at_auth>>
          \/ code = 0 /\ RequestInstance(rest, "PlayCharacter")
       /\ UNCHANGED <<options, pc, halted, clientVars, charVars, worldVars,
                      gameVars>>

\* The request is looked up by trans_id (ids are unique, TransactionsUnique)
\* and removed before it is continued; no request counts as type None.
HandleRequestResponse ==
    /\ AuthPacketIs("REQUEST_RESPONSE")
    /\ LET reply == Head(from_auth)
           found == {r \in requests : r.trans_id = reply.trans_id}
           rest  == requests \ found
           Answered(type) == \E r \in found : r.type = type
       IN
       \/ Answered("AccountLogin") /\ ContinueAccountLogin(rest, reply.code)
       \/ Answered("SendHardwareInfo") /\ ContinueSendHardwareInfo(rest)
       \/ Answered("ChangeCharacter") /\ ContinueChangeCharacter(rest, reply.code)
       \/ Answered("PlayCharacter") /\ ContinuePlayCharacter(rest, reply.code)
       \/ /\ \A r \in found : r.type = "None"
          /\ requests' = rest
          /\ from_auth' = Tail(from_auth)
          /\ UNCHANGED <<options, pc, halted, state, clientVars,
                         next_transaction_id, charVars, worldVars, gameVars,
                         auth_srv, at_auth>>

HandleGameServerInfo ==
    /\ AuthPacketIs("GAME_SERVER_INFO")
    /\ \/ state # "AwaitGameServerInfo" /\ Abort("HandleGameServerInfo")
       \/ /\ state = "AwaitGameServerInfo"
          /\ IF DisconnectFails
             THEN Abort("GameSrv_Disconnect")
             ELSE /\ StartLoadingNewZone(Head(from_auth).world_id,
                                         NetConn_Shutdown(game_srv))
                  /\ from_auth' = Tail(from_auth)
                  /\ UNCHANGED <<options, pc, halted, clientVars, requestVars,
                                 charVars, auth_srv, at_auth>>

-----------------------------------------------------------------------------
(* Packets of the game server                                              *)

GamePacketIs(kind) ==
    /\ pc = "game_dispatch"
    /\ from_game # <<>>
    /\ Head(from_game).kind = kind

\* A handler that answers the server with one packet of the loading dialogue.
AnswerGame(from, to) ==
    /\ from_game' = Tail(from_game)
    /\ game_peer' = IF game_peer = from THEN to ELSE game_peer
    /\ UNCHANGED <<options, pc, halted, state, clientVars, requestVars,
                   charVars, worldVars, game_srv, authVars>>

HandleInstanceLoadInfo ==
    /\ GamePacketIs("INSTANCE_LOAD_INFO")
    /\ IF world = 0
       THEN Abort("get_world_or_abort")
       ELSE AnswerGame("await_items", "items")

HandleReadyForMapSpawn ==
    /\ GamePacketIs("READY_FOR_MAP_SPAWN")
    /\ IF ingame
       THEN Abort("HandleReadyForMapSpawn")
       ELSE AnswerGame("await_spawn", "spawn")

HandleInstanceLoadSpawnPoint ==
    /\ GamePacketIs("SPAWN_POINT")
    /\ AnswerGame("await_players", "players")

HandleInstanceLoaded ==
    /\ GamePacketIs("INSTANCE_LOADED")
    /\ from_game' = Tail(from_game)
    /\ ingame' = TRUE
    /\ UNCHANGED <<options, pc, halted, state, loading, player_status,
                   requestVars, charVars, worldVars, game_srv, game_peer,
                   authVars>>

HandleInstanceLoadFinish ==
    /\ GamePacketIs("LOAD_FINISH")
    /\ from_game' = Tail(from_game)
    /\ loading' = FALSE
    /\ UNCHANGED <<options, pc, halted, state, ingame, player_status,
                   requestVars, charVars, worldVars, game_srv, game_peer,
                   authVars>>

\* Any handler that only touches the world.
HandleWorldPacket ==
    /\ GamePacketIs("WORLD_PACKET")
    /\ IF world = 0
       THEN Abort("get_world_or_abort")
       ELSE /\ from_game' = Tail(from_game)
            /\ UNCHANGED <<options, pc, halted, state, clientVars, requestVars,
                           charVars, worldVars, game_srv, game_peer, authVars>>

\* The connection is left from its own dispatch loop: the rest of
\* NetConn_Update closes it in the same call.
HandleGameTransferInfo ==
    /\ GamePacketIs("TRANSFER")
    /\ IF world = 0 \/ DisconnectFails
       THEN Abort("HandleGameTransferInfo")
       ELSE /\ StartLoadingNewZone(Head(from_game).world_id,
                                   ClosedConnection(NetConn_Shutdown(game_srv)))
            /\ pc' = "frame"
            /\ UNCHANGED <<options, halted, clientVars, requestVars, charVars,
                           authVars>>

\* The API function RedirectMap; client->connected is true from init_client on.
RedirectMap ==
    /\ RequestInstance(requests, "None")
    /\ UNCHANGED <<options, pc, halted, clientVars, charVars, worldVars,
                   game_srv, game_peer, from_auth>>

HandleInstanceRedirect ==
    /\ GamePacketIs("REDIRECT")
    /\ from_game' = Tail(from_game)
    /\ RedirectMap

-----------------------------------------------------------------------------
(* The frame of the main thread                                            *)

\* None of the conditions of main_loop holds.
NothingAsync ==
    /\ pc = "async"
    /\ \/ state \notin {"AwaitAccountConnect", "AwaitPlayCharacter",
                        "AwaitGameServerDisconnect", "AwaitGameServerTransfer"}
       \/ /\ state \in {"AwaitGameServerDisconnect", "AwaitGameServerTransfer"}
          /\ ~NetConn_IsShutdown
    /\ pc' = "auth_recv"
    /\ UNCHANGED <<options, halted, state, clientVars, requestVars, charVars,
                   worldVars, gameVars, authVars>>

Goto(from, to) ==
    /\ pc = from
    /\ pc' = to
    /\ UNCHANGED <<options, halted, state, clientVars, requestVars, charVars,
                   worldVars, gameVars, authVars>>

\* NetConn_Update(&client->auth_srv): nothing to do, a read, or an error.
AuthUpdate ==
    \/ ~auth_srv /\ Goto("auth_recv", "game_recv")
    \/ auth_srv /\ Goto("auth_recv", "auth_dispatch")
    \/ Goto("auth_dispatch", "game_recv")

AuthLost ==
    /\ pc = "auth_recv"
    /\ auth_srv
    /\ auth_srv' = FALSE
    /\ at_auth' = {}
    /\ from_auth' = <<>>
    /\ ingame' = FALSE
    /\ pc' = "game_recv"
    /\ UNCHANGED <<options, halted, state, loading, player_status, requestVars,
                   charVars, worldVars, gameVars>>

\* NetConn_Update(&client->game_srv); without capacity recv() reads nothing.
GameUpdate ==
    \/ /\ \/ ~game_srv.fd
          \/ ~game_srv.buffers /\ ~game_srv.shut
       /\ Goto("game_recv", "frame")
    \/ game_srv.fd /\ game_srv.buffers /\ ~game_srv.shut
       /\ Goto("game_recv", "game_dispatch")
    \/ Goto("game_dispatch", "frame")

\* recv() fails: the connection was lost, or NetConn_Shutdown has closed the
\* socket earlier in this frame.
GameClosed ==
    /\ pc = "game_recv"
    /\ game_srv.fd
    /\ game_srv' = ClosedConnection(game_srv)
    /\ ingame' = FALSE
    /\ game_peer' = "none"
    /\ from_game' = <<>>
    /\ pc' = "frame"
    /\ UNCHANGED <<options, halted, state, loading, player_status, requestVars,
                   charVars, worldVars, authVars>>

\* client_frame_update: the heartbeat is due when last_tick_time is 0 or five
\* seconds have passed.
ClientFrameUpdate ==
    /\ pc = "frame"
    /\ \/ ingame /\ world = 0 /\ Abort("GameSrv_PingRequest")
       \/ /\ ingame /\ world # 0
          /\ IF ~game_srv.buffers
             THEN Abort("SendPacket")
             ELSE /\ game_srv' = [game_srv EXCEPT !.tick = TRUE]
                  /\ pc' = "async"
                  /\ UNCHANGED <<options, halted, state, clientVars,
                                 requestVars, charVars, worldVars, game_peer,
                                 from_game, authVars>>
       \/ (~ingame \/ game_srv.tick) /\ Goto("frame", "async")

-----------------------------------------------------------------------------
(* Plugin threads.  They poll GetIsIngame before they ask for another map. *)

GetIsIngame == ingame /\ ~loading

PluginRedirects ==
    /\ Running
    /\ GetIsIngame
    /\ next_transaction_id < MaxTrans
    /\ RedirectMap
    /\ UNCHANGED from_game

\* Travel only asks the game server, which may transfer the client; what the
\* session sees of the call is its checks.
Travel ==
    /\ Running
    /\ world # 0
    /\ \/ ~game_srv.secured /\ Abort("GameSrv_Travel")
       \/ game_srv.secured /\ ~game_srv.buffers /\ Abort("SendPacket")

ReturnToOutpost ==
    /\ Running
    /\ ingame
    /\ ~game_srv.secured
    /\ Abort("GameSrv_ReturnToOutpost")

-----------------------------------------------------------------------------
(* The servers (external)                                                  *)

Answers(q, packets) ==
    /\ at_auth' = at_auth \ {q}
    /\ from_auth' = from_auth \o packets
    /\ UNCHANGED <<options, pc, halted, state, clientVars, requestVars,
                   charVars, worldVars, gameVars, auth_srv>>

RosterPackets == [i \in DOMAIN Roster |-> CharacterInfo(Roster[i])]

\* A login is refused, or answered with the characters, the one played last
\* and a success.
AnswerLogin(q) ==
    /\ q.ask = "LOGIN"
    /\ \/ Answers(q, <<RequestResponse(q.trans_id, 1)>>)
       \/ \E last \in Names :
            Answers(q, RosterPackets \o <<AccountInfo(last),
                                          RequestResponse(q.trans_id, 0)>>)

AnswerRequest(q) ==
    /\ q.ask \in {"RESPONSE", "CHANGE"}
    /\ \E code \in {0, 1} : Answers(q, <<RequestResponse(q.trans_id, code)>>)

\* An instance request is refused or answered with a game server.
AnswerInstance(q) ==
    /\ q.ask = "INSTANCE"
    /\ \/ Answers(q, <<RequestResponse(q.trans_id, 1)>>)
       \/ \E w \in WorldIds : Answers(q, <<GameServerInfo(w)>>)

AuthServer ==
    /\ Running
    /\ \E q \in at_auth : AnswerLogin(q) \/ AnswerRequest(q) \/ AnswerInstance(q)

GameSends(packets, next) ==
    /\ Running
    /\ Len(from_game) + Len(packets) <= MaxQueue
    /\ from_game' = from_game \o packets
    /\ game_peer' = next
    /\ UNCHANGED <<options, pc, halted, state, clientVars, requestVars,
                   charVars, worldVars, game_srv, authVars>>

\* The loading dialogue, then the instance.
GameServer ==
    \/ game_peer = "greeting"
       /\ GameSends(<<Plain("INSTANCE_LOAD_INFO")>>, "await_items")
    \/ game_peer = "items"
       /\ GameSends(<<Plain("READY_FOR_MAP_SPAWN")>>, "await_spawn")
    \/ game_peer = "spawn"
       /\ GameSends(<<Plain("SPAWN_POINT")>>, "await_players")
    \/ game_peer = "players"
       /\ GameSends(<<Plain("INSTANCE_LOADED"), Plain("LOAD_FINISH")>>, "playing")
    \/ game_peer = "playing"
       /\ GameSends(<<Plain("WORLD_PACKET")>>, "playing")
    \/ /\ game_peer = "playing"
       /\ next_transaction_id < MaxTrans
       /\ GameSends(<<Plain("REDIRECT")>>, "playing")
    \/ /\ game_peer = "playing"
       /\ \E w \in WorldIds : GameSends(<<GameTransferInfo(w)>>, "gone")

-----------------------------------------------------------------------------
\* init_client, then init_auth_connection has succeeded.
Init ==
    /\ options \in [newauth : BOOLEAN, charname : Names \cup {LongName},
                    online_status : Statuses]
    /\ pc = "async" /\ halted = "no"
    /\ state = "AwaitSessionInfo"
    /\ ingame = FALSE /\ loading = TRUE
    /\ requests = {} /\ next_transaction_id = 1
    /\ player_status = 0
    /\ characters = <<>>
    /\ current_character_idx = 0 /\ pending_character_idx = 0
    /\ world = 0 /\ server_transfer = 0
    /\ auth_srv = TRUE
    /\ game_srv = [fd |-> FALSE, secured |-> FALSE, shut |-> FALSE,
                   buffers |-> TRUE, tick |-> FALSE]
    /\ at_auth = {} /\ from_auth = <<SessionInfo>>
    /\ game_peer = "none" /\ from_game = <<>>

AuthDispatch ==
    \/ HandleSessionInfo
    \/ HandleCharacterInfo
    \/ HandleAccountInfo
    \/ HandleRequestResponse
    \/ HandleGameServerInfo

GameDispatch ==
    \/ HandleInstanceLoadInfo
    \/ HandleReadyForMapSpawn
    \/ HandleInstanceLoadSpawnPoint
    \/ HandleInstanceLoaded
    \/ HandleInstanceLoadFinish
    \/ HandleWorldPacket
    \/ HandleGameTransferInfo
    \/ HandleInstanceRedirect

\* The steps after which a frame goes on.
FrameStep ==
    \/ AccountLogin
    \/ PlayCharacter
    \/ LeaveGameServer
    \/ TransferGameServer
    \/ NothingAsync
    \/ GameSrv_Connected
    \/ GameSrv_ConnectFailed
    \/ AuthUpdate
    \/ GameUpdate
    \/ GameClosed
    \/ ClientFrameUpdate

PluginThread == PluginRedirects \/ Travel \/ ReturnToOutpost

Next ==
    \/ FrameStep
    \/ AuthLost
    \/ AuthDispatch
    \/ GameDispatch
    \/ PluginThread
    \/ AuthServer
    \/ GameServer

Spec == Init /\ [][Next]_vars

\* The main loop never stops, every read is dispatched sooner or later, and
\* the servers answer.
Fairness ==
    /\ WF_vars(FrameStep)
    /\ SF_vars(AuthDispatch)
    /\ WF_vars(AuthServer)

FairSpec == Spec /\ Fairness

-----------------------------------------------------------------------------
(* Properties                                                              *)

\* The domains of the variables of the session.
TypeOK ==
    /\ options \in [newauth : BOOLEAN, charname : Names \cup {LongName},
                     online_status : Statuses]
    /\ pc \in {"async", "connect", "auth_recv", "auth_dispatch", "game_recv",
               "game_dispatch", "frame", "halted"}
    /\ halted \in Checks
    /\ state \in AwaitStates
    /\ ingame \in BOOLEAN /\ loading \in BOOLEAN
    /\ requests \subseteq AsyncRequest
    /\ next_transaction_id \in Nat
    /\ player_status \in Statuses \cup {0}
    /\ characters \in Seq(Names)
    /\ current_character_idx \in Nat /\ pending_character_idx \in Nat
    /\ world \in WorldIds \cup {0} /\ server_transfer \in WorldIds \cup {0}
    /\ auth_srv \in BOOLEAN
    /\ game_srv \in GameConnection
    /\ at_auth \subseteq AuthQuestion
    /\ from_auth \in Seq(AuthPacket)
    /\ game_peer \in GamePeers
    /\ from_game \in Seq(GamePacket)

\* client->requests never holds two requests with one trans_id, and no id is
\* ahead of the counter: HandleRequestResponse continues the request the
\* server has answered and no other.
TransactionsUnique ==
    /\ \A r \in requests : r.trans_id <= next_transaction_id
    /\ \A r, s \in requests : r.trans_id = s.trans_id => r = s

\* The replies of the login and of the change of character come in the state
\* that waits for them, and main_loop plays a character only when no game
\* server is connected: the asserts of ContinueAccountLogin,
\* ContinueSendHardwareInfo, main_loop and, for the state,
\* ContinueChangeCharacter hold.
RepliesExpected ==
    halted \notin {"ContinueAccountLogin", "ContinueSendHardwareInfo",
                   "ContinueChangeCharacter", "main_loop"}

\* Until an instance is requested there is no game server and no world: the
\* states of the login and the states of a game do not mix.
LoginBeforeGame ==
    state \in LoginStates => ~game_srv.fd /\ world = 0 /\ ~ingame

\* The handlers of a game server that has not been left find a world and
\* exchanged keys: their get_world_or_abort and assert(secured) hold.
LiveConnectionHasWorld ==
    game_srv.fd /\ ~game_srv.shut =>
        /\ world # 0
        /\ pc \notin {"connect", "halted"} => game_srv.secured

\* The world, when there is one, is the one of the last transfer order: the
\* world of the game server that was left is never shown for the new one.
WorldIsTheTransfer == world # 0 => world = server_transfer

\* The client asks to play at most once.
PlayRequestedOnce ==
    \A r, s \in requests :
        r.type = "PlayCharacter" /\ s.type = "PlayCharacter" => r = s

\* The character that is current when the instance is requested is the one
\* the options name, if the account has it.
PlaysTheWantedCharacter ==
    /\ \E r \in requests : r.type = "PlayCharacter"
    /\ \E i \in DOMAIN characters : characters[i] = options.charname
    => characters[current_character_idx + 1] = options.charname

\* A game server that is being left is left: main_loop goes on to the next.
DisconnectCompletes ==
    state = "AwaitGameServerDisconnect" ~>
        (state # "AwaitGameServerDisconnect" \/ ~Running)

\* A login that is sent comes to an end: every request of the login is
\* answered, continued and followed by the next one, unless the connection
\* is lost.
LoginSettles ==
    options.newauth /\ options.charname # LongName
    /\ state \in {"AwaitSessionInfo", "AwaitAccountConnect",
                  "AwaitAccountConnection", "AwaitHardwareInfoReply"}
    ~> \/ state \in {"AwaitNothing", "AwaitPlayCharacter"}
       \/ ~auth_srv
       \/ ~Running

-----------------------------------------------------------------------------
(* What the source says of itself and the code does not keep.              *)

\* client.h:76: in AwaitGameServerTransfer "we can now proceed to the
\* connection", and TransferGameServer asserts that no world is left.
TransferProceeds == halted # "TransferGameServer"

\* The assert of ContinuePlayCharacter, which answers a play request.
PlayReplyExpected == halted # "ContinuePlayCharacter"

\* The assert of ContinueChangeCharacter that a change is pending.
ChangeReplyHasPending == halted # "pending_character_idx"

\* The assert of HandleGameServerInfo that an instance was asked for.
GameServerInfoExpected == halted # "HandleGameServerInfo"

\* get_world_or_abort in the heartbeat, sent only when client->ingame.
HeartbeatHasWorld == halted # "GameSrv_PingRequest"

\* GameSrv_Travel and GameSrv_ReturnToOutpost assert the game server is secured.
TravelIsSecured == halted \notin {"GameSrv_Travel", "GameSrv_ReturnToOutpost"}

\* network.h:108 of NetConn_IsShutdown: "Return true if the network is ready to
\* be used for an other connection"; a connection needs its buffers.
ShutdownIsReusable == NetConn_IsShutdown => game_srv.buffers

\* client.h:52 of AwaitAccountConnection: "We sent a request to connect, wait
\* for the answer".
ConnectRequestSent ==
    state = "AwaitAccountConnection" /\ auth_srv =>
        \/ \E q \in at_auth : q.ask = "LOGIN"
        \/ \E i \in DOMAIN from_auth : from_auth[i].kind = "REQUEST_RESPONSE"

\* client.h:63 of AwaitChangeCharacter: "If we need to change character, we have
\* to wait for the request to succeed".
ChangeIsAwaited ==
    state = "AwaitChangeCharacter" /\ Running =>
        \E r \in requests : r.type = "ChangeCharacter"

\* command.c:23 of -status: "Sets the login online status".
LoginStatusIsTheOption ==
    (\E r \in requests : r.type = "PlayCharacter") =>
        player_status = options.online_status

=============================================================================
