# A verification of Headquarter

Headquarter is a client of the game Guild Wars without a display: it logs in on
an auth server, picks a character, asks for a game instance, connects to game
servers and is moved between them, and offers what it sees to plugins through a
C API. This directory holds TLA+ models of its core, the TLC runs that check
them and TLAPS proofs about them. `PROJECT.json` lists the components, the runs,
the mutants (small mistakes each property is shown to catch), the source lines
every definition stands for, the findings, the hazards and the theorems.

## 1. Inventory

| Part | State it keeps | Operations | Speaks with |
|---|---|---|---|
| Portal (`code/portal`) | TLS-SRP connection, STS requests, login dialogue | handshake, records, request and reply | portal server; runs before the client starts |
| Session (`client.c`, `main.c`, `auth.c`, `instance.c`, part of `game.c`) | `client->state` (an `AwaitState`), `ingame`, `loading`, outstanding `requests`, `next_transaction_id`, characters and the indices of the current and the pending one, `world.hash`, `server_transfer` | the packet handlers of the login and of the transfers, the `Continue...` functions, `main_loop` | auth server and game server (packets), plugins (API calls from their threads) |
| Connection (`network.c`) | descriptor, `flags`, `secured`, `in`/`out` buffers, ciphers, `last_tick_time` | connect and key exchange, `SendPacket`, `NetConn_Send`, `NetConn_Recv`, dispatch, shutdown, reset | the sockets; handlers it calls back |
| Codec (`network.c`, `packets.c`) | the tables of messages | pack, unpack | the connection |
| Events (`event.c`) | one list of callbacks per event | register, unregister, broadcast | plugins, whose callbacks may register and unregister |
| World (`world.c`, `item.c`, `agent.c`, `player.c`, `party.c`, `trade.c`, `quest.c`, `dialog.c`, `guild.c`, `skill.c`, ...) | items and bags, agents and players, parties, a trade, quests, the windows of NPCs, guilds, skill bars; all of it is thrown away when the client changes maps | one handler per packet, one lookup or request per API call | game server, plugins |
| Social (`chat.c`, `friend.c`) | the pieces of a message, the list of friends; both outlive a change of maps | one handler per packet | game server, auth server, plugins |
| Timers (`timer.c`), arrays (`array.c`), plugins (`plugins.c`) | | | see section 14 |

Threads: the main thread runs `main_loop`, which in every frame acts on
`client->state`, updates the auth connection, then the game connection (each
update sends, receives and dispatches), then the heartbeats, then the timers.
Every plugin runs in a thread of its own and calls the API, which takes
`client->mutex` (a recursive mutex). Of the main thread only `client_frame_update`
(the heartbeats, `client.c:367-384`) and one handler (`HandleMerchantReady`,
`item.c:400-410`) take it: every other handler, and `main_loop` itself, changes the session
and the world without it, so an API call may come between any two steps of a frame.

What is hard here: the login and the transfers are one state machine spread
over five files and driven by two servers, a frame loop and other threads; its
steps are guarded by `assert`, which the default builds keep; connections are
lost, connects fail, requests are refused; callbacks change the lists that are
being walked; buffers are at their limit; the same fact about the world (where an
item is, who is in a party, which agent a player has) is kept in two or three places
by different handlers, and ids are used again; the sizes of 700 messages are written
down three times.

What makes each part correct:

* portal: the handshake succeeds only with a server that knows the password and saw the
  same messages; a reply belongs to its request whatever the fragmentation; the login is
  the one the server granted;
* session: a reply continues the request it answers and finds the state that
  waits for it; the login comes before the game; a connected game server has
  exchanged keys and a world, the one of the last transfer; one play request at
  a time; the wanted character is the one that plays; a login ends; a server
  that is being left is left;
* connection: bytes are packets again on the other side, none is lost,
  duplicated or reordered while the connection lives; a closed connection can
  be opened again;
* codec: a packet is its wire form and comes back whole, in buffers that hold it;
* events: every callback registered before a broadcast and not
  removed is called once; no removed callback is called;
* world: what plugins read is what the server has; an item is in one slot and a slot
  holds one item, counters agree with lists, links are mutual, nothing is lost when
  the map changes.

## 2. Modules and plan

| Module | What it is | Proofs |
|---|---|---|
| `ClientSession` | the session, main loop and calls of plugins (3) | `ClientSessionProofs` |
| `NetConn`, `PacketChannel` | a connection, and the channel it implements (4) | `NetConnProofs` |
| `PacketCodec`, `PacketTables`, `MessageDispatch` | pack and unpack, the tables, which handler gets what (5) | `NetConnProofs` |
| `EventManager`, `EventBus` | the callback lists, and the bus they implement (6) | `EventManagerProofs` |
| `Inventory` | items and bags (7) | `InventoryProofs` |
| `Agents` | agents, players, dropped items, the identity of the client (8) | `AgentsProofs` |
| `Party`, `PartyRoster` | parties, and the rosters they implement (9) | `PartyProofs` |
| `Trade`, `QuestLog` | the trade window; the quest log (10) | `WorldPartsProofs` |
| `NpcWindows`, `Guild`, `Skillbars` | windows of NPCs; the guild's roster; skill bars (11) | `WorldPartsProofs` |
| `Chat`, `Friends` | messages in pieces; the list of friends (12) | `WorldPartsProofs` |
| `WorldParts` | the composition of `Trade`, `NpcWindows`, `Guild`, `Skillbars`, `Chat`, `Friends` and `QuestLog` (12) | `WorldPartsProofs` |
| `TlsSrp`, `PortalLogin` | the handshake and records; the login dialogue over them (13) | `PortalProofs` |

`PortalLogin` composes `TlsSrp` with the STS dialogue. `MCPacketCodec` composes the codec with
the tables. The modules of the world share no state; each has the handlers that touch its own.
`MC...` modules give constants and, for `Inventory`, symmetry. `WorldParts` checks seven of these modules in one
run, one of them in each behavior.

Next, in this order: the unlocked
transaction counter shared by the main thread and plugins; the overlap of `NetConn_Shutdown` with
`SendPacket`.

## 3. ClientSession

`ClientSession.tla` models `GwClient` and the frame of `main_loop`.

| Model | Code |
|---|---|
| `pc` | the place of the main thread in its frame: `async` (the conditions on `client->state`), `connect` (inside the blocking `GameSrv_Connect`), `auth_recv`/`auth_dispatch`, `game_recv`/`game_dispatch` (the two `NetConn_Update`), `frame` (`client_frame_update`), `halted` (an assert ended the process) |
| `state`, `ingame`, `loading`, `requests`, `next_transaction_id`, `player_status`, `characters`, `current_character_idx`, `pending_character_idx` | the fields of `GwClient` |
| `world`, `server_transfer` | `client->world.hash` (0 when there is none) and the destination of the transfer |
| `auth_srv`, `game_srv` | what the session depends on in the two `Connection`s: the descriptor is open, the keys are exchanged, `NETCONN_SHUTDOWN`, the buffers have their capacity, `last_tick_time` |
| `at_auth`, `from_auth`, `game_peer`, `from_game` | the servers (external): requests not yet answered, packets in flight, how far the loading dialogue is |
| `halted` | the function whose `assert` or `abort` ended the process |

The actions are the handlers and functions of the code, by name. A handler runs
as one step of the main thread. Each plugin call is a step of its own that may come
anywhere in the frame; plugins ask `GetIsIngame` before `RedirectMap`, as the ones
of the repository do. A check of the code that some behaviour makes fail is a
disjunct (`Abort(f)`); one that none makes fail is an IF, and a property says so.

The build is the default one (assertions compiled in, `_array_reset` frees the
data). Data is abstracted: a character is its name, a world its id, every packet whose
handler starts with `get_world_or_abort` and leaves the session alone is
`WORLD_PACKET`. The servers do what the handlers expect: the auth server answers
each request once, by success or refusal, in any order; the game server follows the
loading dialogue, then sends world packets, redirects and one transfer, and
nothing after the transfer.

### Runs

* `session` (`ClientSession.cfg`): three names, two characters, two worlds, up
  to 5 transactions and 2 packets in flight from the game server. A full login with
  a change of character uses four transactions, so the fifth is a redirect; two
  worlds tell an old one from a new one; the name `eve` is on no account and the
  long name does not fit its packet. Invariants `TransactionsUnique`,
  `RepliesExpected`, `LiveConnectionHasWorld`, `WorldIsTheTransfer`, `PlayRequestedOnce`,
  `PlaysTheWantedCharacter`; liveness `DisconnectCompletes` (a game server that is
  being left is left) and `LoginSettles` (a login comes to an end) under `FairSpec`.

Deadlock is not checked: the process ends when an assert fails, and with the
bounds reached and nothing in flight the frame still turns.

Fairness: `WF(FrameStep)`, since the main loop runs for ever (the blocking
connect is assumed to return); `SF(AuthDispatch)`, since a received packet
is dispatched at one of the updates of the auth connection that keep
coming; `WF(AuthServer)`, an assumption on the auth server. Plugins, the game
server and lost connections have no fairness.

### Proofs

`ClientSessionProofs.tla` proves for every roster, every set of names and worlds and
every bound: `TypeCorrect`, `TransactionsAreUnique`, `RepliesAreExpected`,
`LoginComesBeforeGame`, `LiveConnectionsHaveWorlds`, `PlayIsRequestedOnce`,
`WorldsAreTransfers`, `WantedCharacterIsPlayed`. The only assumption is `SessionAssumption` (the roster is not
empty, world ids are positive).

`TypeOK` and `TransactionsUnique` are inductive. The others rest on `SessionInv`,
which adds what the properties leave unsaid: the session info is the first packet
and is only in flight in `AwaitSessionInfo` (`SessionInfoFirst`; without it a second
one could throw a game back into the login); a request of each type is outstanding
only in the states that wait for it (`RequestsAwaited`) and is alone of its type
(`OneOfAType`); a socket being connected belongs to no login (`ConnectAfterLogin`);
packets of a game server come through an open, connected socket
(`GameThroughSocket`); and a transfer has a destination (`TransferHasWorld`).
`WorldIsTheTransfer` is inductive next to the types and `SessionInv`.
`PlaysTheWantedCharacter` needs two more: `RosterInv`, that the characters come while the answer to the
login is awaited, before any reply and from a single question, so that none arrives after the
choice; and `CharacterInv`, that the indexes name characters and the pending one is the wanted
one as long as the change is awaited.

`LoginBeforeGame` is proved and not checked by a run: it holds for every instance. Only
the liveness properties are model-checked only (liveness under fairness is out of the prover's reach).

## 4. NetConn

`NetConn.tla` models one `Connection` of `network.c`. A buffer is a sequence of units of
`sizeof(Header)` bytes; a unit knows its packet, whether it is the last of it and the
positions of the key stream it has been xored with, so encrypting twice is seen.

| Model | Code |
|---|---|
| `pc` | the place of the main thread in `NetConn_Update`: `recv`, `dispatch`, `end`, or in the blocking `connect` |
| `conn.fd`, `.shut`, `.secured` | the descriptor (`closed` is 0 or `INVALID_SOCKET`, `stale` is closed with the handle kept), `NETCONN_SHUTDOWN`, `secured` |
| `conn.buffers`, `.out`, `.in` | whether `array_reset` has freed the two arrays, and what they hold; `Room` is capacity minus size |
| `conn.formats` | a connect has set the formats that `SendPacket` reads |
| `conn.encrypted` | the position in the key stream |
| `conn.fault` | the assert, or the `memmove` into freed memory, that ended the process |
| `conn.accepted`, `.wire`, `.dropped`, `handled`, `offered` | history: packets `SendPacket` took, units `send()` took, packets dispatched and sent by the server |
| `left` | `data` and `size` of the dispatch loop |

`SendPacket`, `NetConn_Send`, `NetConn_Shutdown` and `GameSrv_Disconnect` are operators that
give the set of connections they may end with, because they call each other; the
actions are the calls of the main thread, `Send` of the other threads (`SendPacket` holds
`conn->mutex`, so it is one step) and the server. A handler does nothing,
answers, or disconnects. A failed connect resets the connection; the code registers the
handlers once, so they are gone too, but without a buffer nothing is dispatched.

`PacketChannel.tla` is what the connection promises: packets are delivered in the order
they were accepted, and handled in the order they were offered, each once.

Run `net_conn` (`NetConn.cfg`): a buffer of 3 units, packets of 1 and of 3 units,
up to 3 packets of each side in a connection; a packet as large as the buffer, a packet
that does not fit the rest of it, and one that does are all there, and three packets
are enough for one handled, one half received and one in flight. Invariants
`WireInOrder`, `ReceivedInOrder`; refinement `ImplementsChannel`; liveness
`AcceptedIsSent`, `OfferedIsHandled`. Fairness: `WF(MainThread)`, since the main loop
updates the connection in every frame and the connect is assumed to return;
`SF(NetConn_Recv)`, since data that has arrived is read by one of the updates that keep
coming. Other threads and the server have no fairness.

`NetConnProofs.tla` proves for packets and buffers of any size and any number of packets: the
types and that the buffers stay within their memory (`TypeCorrect`); that the handlers get the
packets of the server once each and in order (`PacketsArriveInOrder`); that no whole packet waits
between two updates (`WholePacketsAreDispatched`, not in a run); and, if `PartialSend` is FALSE, that the server reads in
clear what was accepted, in order (`PacketsAreSentInOrder`). "In order" alone is not inductive: it
does not say where a stream ends, so that one more packet might not follow on. `Chain` adds it: the units
are the whole packets from the next one to handle to the last one offered (`StreamInv`), or from the
first one sent to the last one accepted (`WireInv`). `WireInv` also places the key stream at the next unit
to send and keeps what waits in `out` in clear, which a partial send breaks; `FlagsInv` ties the
descriptor, the shutdown flag and the keys to each other and to the place of the main thread,
so that nothing is in flight without keys. Each function of `network.c` has a lemma (`NetConn_SendKeeps`,
`SendPacketKeeps`, `NetConn_ShutdownKeeps`, `GameSrv_DisconnectKeeps`) which the actions of
several threads share.

`ConnectionIsChannel` is the refinement: `~PartialSend => (Spec => ImplementsChannel)`. Its invariant
`ChannelInv` adds that nothing is ahead of its count: no unit sent or waiting is of a packet behind
the last accepted (`SentInv`), nothing received or in flight is behind the last offered
(`OfferedInv`). Since the wire is in order, the ends of packets in it are those of packets 1, 2, ... n
(`PacketIsCount`, `NthEnd`), so `Delivered` is the first n numbers with n at most `accepted`
(`DeliveredIs`). `Grows` says that a step of a thread takes back nothing that was sent; `Closed` alone empties
the wire, which is the channel's `Close`. Liveness is only model-checked.

`PartialSend` says whether `send()` may take a part of the buffer. It is FALSE in `net_conn`:
after a partial send nothing the server gets can be read (`EncryptedOnce`, section 15).

Left out: the handshake's numbers and the files of Diffie-Hellman parameters, DNS,
`latency`, a descriptor number reused by another thread between the two `closesocket` calls,
overlap of `NetConn_Shutdown` (which takes no lock) with `SendPacket`.

Deadlock is not checked: the process may end in a fault, and with the bounds reached a
closed connection may stay closed.

## 5. PacketCodec, PacketTables and MessageDispatch

`PacketCodec.tla` models `pack` and `unpack`. One cell stands for one element and for
one count. The wire and memory forms of a packet are defined by `Wire` and `Layout`
on the value; `Pack` and `Unpack` follow the code: prefix, checks against what
is writable and readable, elements, and the call of itself on the fields behind a
nested field, which cannot nest again. A loop of the code is a function on the number of
rounds it has made (`PackLoop`, `PackStructs`, `UnpackLoop`, `UnpackStructs`), and a round is an operator
(`PackField`, `PackStruct`, ...). `PackPacket` packs into every room from 0 to `MaxBuffer`, `ReceiveCell` brings a
packet cell by cell together with cells of the next one, `UnpackPacket` is tried after any of
them, as `NetConn_DispatchPackets` does. The packets are the constant `Packets`: formats and what
their fields hold, any that `IsPacket` accepts (no field holds more than its `param`, strings end at
the first 0, one nested field at most).

`PacketTables.tla` holds the four tables of `packets.c`: the fields of every message and the
size that the table gives for it, with `get_element_size` and `get_prefix_size`.

Run `packet_codec` (`PacketCodec.cfg`, module `MCPacketCodec`): the formats are the *forms* of
all messages of the tables (neighbouring fields of one kind count as one, an array,
string or nested field has room for two elements); two values of elements; room for up to
10 cells. `PackIsWire` (pack writes the wire form, with the first nested struct in the place of each, if that
fits, and fails if not), `Framing` (unpack succeeds exactly when the packet is complete,
and reads it and no more), `UnpackIsLayout`; and of the messages behind a form `TablesAgree`: `SizesAgree` (the size of
the table is the one of the fields: what is cleared, written and asserted is the same) and
`FitsBuffers` (no message but the two of `Oversized` is larger than the buffer it goes through).
Two nested structs with an array or a string are left out of `UnpackIsLayout`, and the first struct in the
place of each is not what the caller of `pack` means: the code is wrong there (section 15). Counts above the
declared size, which fail an assert, are not sent by the modelled server; `TablesAssumption` says
that the tables have no array, string or nested field without room. Deadlock is not
checked: a packet that was packed, or received and unpacked, is done.

The second half of `NetConnProofs.tla` proves the three, and `CodecTypeOK`, for any packets, any room and
whatever is behind the packet (`PackWritesTheWire`, `UnpackFrames`, `UnpackRestores`, `CodecTypeCorrect`). The
invariant `CodecInv` is plain: what was returned is what `Pack` and `Unpack` return for the cells in hand, and
those are the first cells of the stream. The work is in the two operators, each with one lemma for a
field, for the fields of a struct, for the nested structs and for the packet. A loop is reasoned about one
round at a time (`PackLoopIs`, `UnpackLoopIs`, ...: that the functions obey their definition), and by induction over
the rounds (`Rounds`, from the least number at which a set of numbers ends). Both operators return one of two things: a
failure, or the one result that the wire form leads to, and which of them depends on one number, the room
(`PackedSo`) or the cells received (`UnpackedSo`). That is what holds after every round, of a loop
that goes on after a failure as well. `Arrives` says that what was received is, as far as it goes, the wire
form: a count is read correctly before the elements that it counts have come. Of the memory, `Filled` describes
a struct whose first cells are filled in and whose rest is still zero; `FilledBy`, a step from one to another,
composes along the fields (`FilledByBoth`), and along nested structs if each is as long on the wire
as in memory (`StructsApart`), which is the condition of `UnpackIsLayout`. The null behind a string is written
into the part that is still zero (`PutNull`).

`TablesAgree` is a calculation over the tables themselves and stays with TLC.

`MessageDispatch.tla` says which handler is registered for which message, and the number and
size it asserts at its start. Run `handler_asserts`: some handlers cannot survive their own
message (section 15).

## 6. EventManager

`EventManager.tla` models `event.c`, the two list operations and the two API calls.

| Model | Code |
|---|---|
| `next`, `prev` | the links of `struct list`: heads have the name of their event, cleared links are `NULL` |
| `registered` | `entry->registered` |
| `call` | for each thread, a `RegisterEvent` or `UnRegisterEvent` that has looked at the entry and not yet changed the list: the look comes before the lock |
| `broadcasting`, `it`, `running` | the list `broadcast_event` walks, its iterator, the entry whose callback runs |
| `halted` | the assert of `events_rem_entry`, or the iterator gone astray |

The mutex is held for a list operation only and `broadcast_event` does not take
it; it reads one link per step, so that a list operation may be a single step. The build is the
default one, whose asserts also clear the links of a removed entry. `TypesOf`,
`Registers` and `Removes` say how the API is used; `Owned` (no entry is registered by two
threads) and `OnlyThemselves` (plugin threads do not unregister, a callback unregisters at
most itself) are the conditions the properties need.

`EventBus.tla` is what a broadcast promises: who was subscribed when it began and still is at its
turn is called once, nobody else is. `ImplementsBus` maps the lists to sets: the
subscribers are the entries between the head and the head, `due` those from `it` on.

* `events` (`EventManager.cfg`): two events, two callbacks of the main thread that register
  for either, again from inside a callback, and a plugin thread that registers its
  own. Three entries make a list with a first, a middle and a last.
  `LinksAgree`, `WalkIsRegistered`, `ImplementsBus`, `BroadcastReturns`. Fairness: weak for
  the steps of the walk and for a call the main thread has begun, strong for the
  return of a callback: callbacks return after some calls.
* `events_threads` (`EventManagerThread.cfg`): the plugin thread also unregisters, its own
  entry and one that unregisters itself. `LinksAgree` still holds, up to the assert or the
  walk astray that may end the process; deadlock is therefore not checked.

`EventManagerProofs.tla` proves, for any events, entries and threads:

* `TypeCorrect`.
* `ListsHoldTogether`: `Owned => (Spec => []LinksAgree)`. `LinksAgree` is not inductive alone: a
  `RegisterEvent` that has looked at its entry must still find it unregistered, which is
  `PendingAdds` and follows from `Owned`. `InsertKeepsLinks` and `RemoveKeepsLinks` are the
  two list operations.
* `WalkStaysInList`: `Owned /\ OnlyThemselves => (Spec => []WalkIsRegistered)`. The invariant says
  that every node can be given the event of its list and a rank that grows along
  the list (`Ordered`; a new head gets a rank below the old one), so no entry leads to itself; that the
  iterator is in the list that is walked (`InList`) and past the running
  callback, which is all that can be unregistered (`PastRunning`).

* `ListsAreBus`: `Owned /\ OnlyThemselves => (Spec => ImplementsBus)`. What a node leads to (`Rest`) is what
  is in every set that holds the node and is closed under the links of entries, so that a proof
  gives a closed set where it would follow the links. `InsertReaches` and
  `RemoveReaches` say what an insertion and a removal do to every walk: the entry is added to
  its own list, or taken from it and from the walk under way, and no other walk
  changes. `BusInv` adds to the invariant of `WalkStaysInList` that a registered entry is
  reached from the head of an event (`AllReached`), without which an unregistration might be one of
  nobody, and that there is no iterator without a broadcast.

Only model-checked, being liveness: `BroadcastReturns`.

## 7. Inventory

| Model | Code |
|---|---|
| `items` | `world->items`, by item id; `NULL` where there is none |
| `heap` | the allocated `Item`s (`Objects` are addresses): `item_id`, `bag`, `slot` |
| `bags`, `Probe` | the hash table `world->bags`: entry by index, and for each bag the ways of repeated hashing |
| `inventory` | the pointers of `world->inventory` to the bags |
| `place` | the server's view (external): unknown, announced but in no bag, or a slot |
| `fault` | the assert of `remove_item_from_bag` that ended the process |

One action per packet: `HandleItemGeneralInfo` (allocates; a known id keeps its entry),
`HandleItemRemove`, `HandleInventoryItemLocation`, `HandleItemChangeLocation`, `HandleInventoryCreateBag`, and
`ResetWorld`, which frees everything when the map changes. What plugins read are `GetItem`, `GetItemLocation`,
`GetBagItems`. `Overwrites` says whether the server may put an item in a slot that another one
still holds, which `item.c:279` says it sometimes does.

Run `inventory`: three items, three addresses (symmetric), two bags of two slots whose ways in
a table of three entries start at the same place and cross. Three items are more than a bag
holds; three addresses let an id come back elsewhere. `BagsAreFound`, `MirrorsServer`, `NothingLeaks`, with
`Overwrites` FALSE; with TRUE the first and the last still hold, and `RemovedIsInSlot` does not.

`InventoryProofs.tla`, for any number of everything and any ways that reach each entry of the
table (`InventoryAssumption`): the invariant `TableInv` says that each bag is on its way behind
entries of other bags only (`WaysLeadToBags`: entries are never emptied), that entries and inventory point to
each other (`EntriesAreOwned`), and that the table holds what was announced under its own id
(`ItemsAreHeld`). `CreatedBagsAreFound` and `ItemsAreFreed` follow without any condition.
`MirrorInv` adds, when nothing is overwritten, that slots and items point to each other (`SlotsAgree`), that
items are where the server put them (`PlacesAgree`) and that `item_count` counts (`CountsAgree`);
`PluginsSeeTheServer` and `RemovalsNeverFail` follow. `MirrorsServer` is not inductive: it speaks of
what is found through the table, and so needs `TableInv`, and of positions in two directions.

## 8. Agents

| Model | Code |
|---|---|
| `agents` | `world->agents`: of an `Agent` its type, `item_id` or `player_id`, whether it is spawned |
| `players`, `player_count` | `world->players` and its counter |
| `items` | `Item.agent_id` of `world->items` |
| `player_id`, `player_agent_id` | who the client is |
| `kind`, `spawned`, `present` | the server's view (external): what an agent id stands for now, what it has spawned, who is in the instance |
| `fault` | a call of a plugin that dereferenced what is not there |

Packets of the server come in its order, but a player may be announced before or after his agent, an
update may come for an agent that is gone (it creates the agent again), ids are used again for
something else, and the identity of the client may be told at any time. `SpawnedAgree`: an
agent that is spawned is what the server spawned. `LinksAgree`: links between agents and
dropped items, and agents and players, are mutual and right. `CountsPresent`: `player_count` is the number of
players in the instance. `IdentityIsMine`: the identity is that of this client.

Run `agents`: three agent ids, two players, two items: a player, an item and a creature at
once, or one id in three roles after each other; one of the players is the client.
Deadlock is not checked: a call of a plugin may end the process.

`AgentsProofs.tla` proves all four, and the types, for any ids. The invariant adds what an
agent id is for (`KindsKnown`), that the record of an item or player names the agent the server has for it
(`ItemsNamed`, `PlayersNamed`), and the same for the client (`MeNamed`).

## 9. Party

`Party.tla` has `party_id` of each player, the table of parties (`players`, `heroes`, `player_count`), and
the lists of the server (`seats`, `escort`). Actions: `HandlePartyCreate` (clears the entry, also of an id
used before), the additions and removals of players and heroes, `HandlePartyDefeated`,
`HandleUpdatePlayerInfo`, `reset_world`. Removal is `array_remove_ordered`: `RemovedAt`. `PartyRoster.tla` is
what a party promises: lists in the order of joining, nobody twice, whose first one leads.

Run `party`: three players and three heroes, two parties: someone in front, in the middle and
at the end, in either party, and an id created again after use. `RosterAgrees`,
`PartyOfAgrees`, and the refinement `ImplementsRoster`.

`PartyProofs.tla` proves all three for any players, parties and heroes. What the two invariants
leave unsaid is `NobodyTwice`: the search of a removal finds the position that the server means
only if there is one (`RemovedIs`). With `RosterAgrees`, what plugins read are the server's
lists (`ShownLists`), and `RosterStep` maps each packet to a step of `PartyRoster`.

## 10. Trade and QuestLog

`Trade.tla`: `session` is `world->trade_session` with its four flags; `calling` is a call of a plugin that has
sent its packet and not yet changed the session; `deal` is the server's trade; two queues
lie between. A flag written by `TradeCancel` may be lost against a handler of the main thread (a data
race on `session->state`). Run `trade`: two other players, one item, two sums, two packets
in flight each way: a request of one and a trade with the other can cross. `ShownTradeIsOpen`
and `OfferIsShown`: when everything has arrived, a shown window is the server's trade, with
this partner's items and sum. Deadlock is not checked: an assert may fail (`AcknowledgedWasRequested`).

`WorldPartsProofs.tla` proves both for any players, items and sums and for queues of any length. They speak of empty
queues only; the invariant (`TradeInv`) of the others: there are views, one for each place between two packets to the
client, that lead from what the window shows (`Shows`) to the server's trade (`Agreed`), each being the one before
it changed by the packet between them (`After`, `Leads`). That the window is closed says nothing of the first view, because a
`TradeCancel` may have closed it; that the last view is closed says nothing of the trade. `Asked` adds
that a request the server waits for is still on its way there or back, without which a late acknowledgement could open
another trade. `HandledLeads`, `SentLeads` and `CalledLeads` take a packet off, put one behind and change the session by
a call; the race on the flags needs nothing more, since no outcome of it shows a window that was closed.

`QuestLog.tla`: the quests and their removal. An entry's id is not its position, as `quest.h:8` has it
(`QuestIdIsIndex`, section 15). `WorldPartsProofs.tla` proves what is left of it, `IdNotBeforeIndex`: an id never names a
place in front of its quest, so that a removal hits the quest, a later one or none. It is one of the parts of
run `world_parts` (section 12): three quests, two of the entries of zeroes, and room for an entry that a
removal missed; the code's 32 such entries only push the others back.

## 11. NpcWindows, Guild and Skillbars

`NpcWindows.tla`: `dialog.c`, and the part of `item.c` that fills `tmp_merchant_items`, `tmp_merchant_prices` and
`merchant_items`. The server (external) keeps the window and the dialog it shows; a window comes in pieces
(owner, items, prices, end of a stream, merchant), and a trader's in two streams. A plugin
closes a dialog by answering it, the player closes it by walking away, and another window or
dialog replaces it. `MerchantItemsAreOfTheWindow`,
`PricesAreTheItems` (an item has its own price, though the arrays are paired by position) and
`OpenDialogIsTheServers`. Assumed: items are announced before they are listed, a listed item is not
removed (with `RemovesListed` it may be, and `ListedItemsExist` fails), the server ignores an answer to an earlier
dialog.

`NpcWindows` is proved for any items, NPCs and lengths, with four facts that the properties leave out. `ItemsAre`: each
item stands at an address of its own with its id and the value told of it, so that finding one by its address is finding it
by id. `WindowIs`: the two temporary arrays are the server's lists position by position, no item is listed twice, and
what is shown are the items of the streams that have ended and nothing else. `DialogIs`: an answered dialog is not open, so that the
buttons which come after the answer are in a closed one.

`Guild.tla`: `guilds` is `world->guilds`, `player` the guild of the client's player,
`guild_member_update` what the first of the two packets of an update has left for the second; `home` and
`update` are the server's (external). `UpdateIsWhole`: nothing of an update is left for the next one.
`RosterIsOfMyGuild`: the members are those of the guild the player is in now.
The proof needs `GuildOfMine`: an entry is described under its own id or not at all, and the player's guild is
`home`, unless it was described only later; then it is 0 and no roster is shown. The names of its members
are those of `home.inviters`.

`Skillbars.tla`: `bars` is `world->skillbars`; `server` (external) has, for each skill, the requests not answered
and whether it is cast, recharges or is disabled; `toggles` are on their way to it. A bar's packet and
its handler are one step. `ShownIsTheServers` and `DisabledIsTheServers`: a slot shows nothing of another skill, and
what a hero may not use is what the server says.
In the proof (`SkillsAre`) no bar has a skill twice, each flag of a slot is backed by what the
server knows of its skill (`Backed`), and the converse for `disable` (`BarIsTold`) is true of a hero unless its bitmap is
still to come: a new bar clears the flags, and the bitmap behind it says them again.
`CastEnds`, under `WF(HandleSkillActivated)` for each agent and skill, an
assumption: the server ends every cast and answers every request with the one packet that
`opcodes.h:265` names both `SKILL_CANCEL` and `SKILL_ACTIVATED`. `SKILL_INTERUPTED` has no handler: a cast that ends
in it alone would last for ever. `CastEnds` is liveness and stays model-checked.

## 12. Chat, Friends, and the parts together

`Chat.tla`: `str_builder` collects the pieces of a message and belongs to the client, not to the world. `sending` is the
message the server (external) is in the middle of, `torn` how many pieces in the builder are of messages whose end
was lost with the connection. A plugin subscribes and unsubscribes anywhere, and senders and channels may not
exist: `MessageIsWhole`. `WorldPartsProofs.tla` proves it for messages of any length. It is not inductive; `BuilderIsSent`
adds what the builder holds in the middle of a message: the torn pieces and then the ones sent.

`Friends.tla`: `friends` is `client->friends`, found by uuid in one packet and by name in another; `told` is what the auth server
(external) has last said. `FriendsAreAsTold`: one entry for each friend, with the last status and zone, under `InfoFirst`,
the assumption that the server says who is a friend before anything else about them.
Proved with `ListAsTold`, which adds that an account is a uuid in this use and a name is that of its own entry or none (so
that the search by name finds the entry of the uuid), that who is known has an entry, and what has not been said of whom
(`ToldInOrder`).

`WorldParts.tla` puts `Trade` (EXTENDS: its properties are the ones that run `trade` checks), `NpcWindows`, `Guild`, `Skillbars`,
`Chat`, `Friends` and `QuestLog` (INSTANCE) side by side. No
handler and no call of one of them reads or writes the state of another, so that a state of their interleaving is a tuple of
states of theirs: `part` picks one at the beginning and the others stay as they are, and what holds of each
behavior of one part holds of all of them together. They do share the process: an assert that fails ends
it (`ended`; a trade has its own `aborted`).

Run `world_parts`: `ReadIsTold`, the conjunction of the invariants of the other six parts (each conjunct has its mutant),
and `CastEnds`. Deadlock is not checked: an assert may end the process. The bounds: two NPCs and two items, so
that windows cut each other off and items change places in the arrays; two guilds, which are described in any order and
again, and two accounts, one of which may have invited the other; the player and a hero with two slots and a skill that
moves between them, comes back, and is used again while it is cast; messages of one or two pieces with up to two torn
ones; three people and an entry more than people.

`AllIsTold` proves `ReadIsTold`, the property of the run, for every value of the constants, from one invariant for
each part. `WorldAssumption` is what it takes: `NULL` is none of the ids, addresses and records it stands beside, the id 0 is
no guild and no skill, a position is not 0, the player is one of the agents, and values and statuses are numbers.
No bound on the lists, queues or requests is used.

## 13. TlsSrp and PortalLogin

`TlsSrp.tla` models `ssl.c` with symbolic cryptography: a secret is the record of what it was
derived from. `state` is `ssl->state`, `read` the buffer that pieces of records fill, `checksum` the messages
summed, `next_read_id` and `next_write_id` the numbers of the records. The server (external) may choose any of the three
cipher suites or hashes, refuse with an alert, or finish without having checked the client. `PortalLogin.tla` is `portal_login`
over it: the STS dialogue in clear, the handshake, the login, the second factor, the list of
accounts and the token, with replies that come in one record or two, an error status, a malformed
content, and a server that closes.

Run `portal`: a record in three pieces, two of them the header (so that it is cut inside the header,
behind it and nowhere), a right and a wrong password. `Agreement` (a handshake that succeeds was with a server that has the
password and saw the same), `SidesInStep` (transcripts and record numbers never part), `LoginIsGranted`,
and the liveness `LoginReturns`. Fairness: `WF(Client)`, the only thread, which blocks only in
`recv`, and `WF(Server)`, an assumption: the server answers until it closes the connection. What
happens after it closes is left out of the property: the end of the stream passes for a success
in `recv_to_buffer` and the loops around it never end.

`PortalProofs.tla` proves the three invariants for any accounts and passwords, records of any number of pieces and
streams of any length; `LoginReturns` is model-checked only. `PortalAssumption` says that somebody types the account's password, that a header is
within its record, and that the model's `NULL` is none of the results and contents it stands beside. None of the three
is inductive: what is on its way is missing. `IInv` gives each record of either side a number (`Number`,
`OutNumber`) and says that the pieces read and still to come are exactly the whole records from the one the client waits
for to the last one sent (`Chain`, in `StreamInv`), and likewise the other way (`Queue`, in `QueueInv`). What
is left over of the reply in clear (`Residue`) is the exception: the client then never gets past its first message. The transcripts
agree as far as both go (`SumsInv`); the counters and numbers of summed messages are those of the place
of each side (`ClientInv`, `ServerInv`); only a server in `requests` ends a handshake (`HandshakenInv`, which gives
`Agreement`); `portal_login` goes on behind it (`PlaceInv`); and the token is on its way only after the second
factor, and its request is behind the one of the login (`GrantInv`). A `Chain` is followed from one record
to the next by the lemmas `FirstRecord`, `RestOfChain`, `ChainReply`; the steps are split by side, and each
part of the invariant has a lemma for each (`ClientStream`, `ServerStream`, ...).

## 14. What is not modelled

See "components" in `PROJECT.json`. In short:

* Timers: nothing in the repository adds one. Arrays: their users model what they do to a list
  (`RemovedAt`, `array_remove`); capacity and the `memmove` of `array.c:176`, which moves elements from behind
  the list, are left out.
* Of the world: quantities, gold, weapon sets, salvage, factions, attributes, effects and titles. Their
  handlers copy the fields of one packet into one record, and no step depends on another's; they
  appear in `MessageDispatch` only. Neither is what plugins send and forget (chat, purchases, templates of bars).
* Addresses: `world->skillbars` may move while a plugin holds the address of a bar.
* Movement between packets (`world_update`) is floating point.
* Pure formatting (logs, command line, strings), ciphers, containers, the platform wrappers, the
  example plugins, the vendored library. `AccountLogout`, `GameSrv_LogoutToCharselect`, `sts_ping` and
  `portal_login_dummy` have no caller.
* Only model-checked: liveness, which is out of the prover's reach, and `TablesAgree`, a calculation over the
  tables as they are. Every other invariant and action property that a run checks is a theorem.

## 15. Where code and documentation disagree

With a run:

| Run | What it shows |
|---|---|
| `handler_asserts` | handlers of messages that the server may send assert another number, or another size, than the message has (`trade.c:61`, `skill.c:100`, `skill.c:117`, `party.c:219`) |

Stated in the modules, in the last section of each, and not kept by the code either; they
have no run of their own (give one as the INVARIANT of the configuration to see it violated):

| Module | Definition | What is not kept |
|---|---|---|
| `ClientSession` | `TransferProceeds` | the state stays `AwaitGameServerTransfer` after the transfer; losing the game server re-enters `TransferGameServer`, whose assert fails |
| | `ChangeReplyHasPending` | changing to the character at index 0 fails an assert |
| | `HeartbeatHasWorld` | a transfer in game aborts in the heartbeat of the same frame |
| | `PlayReplyExpected` | a play request answered by `REQUEST_RESPONSE` fails the assert of `ContinuePlayCharacter` |
| | `GameServerInfoExpected` | two instance requests in flight fail the assert of `HandleGameServerInfo` |
| | `TravelIsSecured` | a plugin that travels during the key exchange fails an assert |
| | `ShutdownIsReusable` | a closed connection has no buffers and cannot be used again |
| | `ConnectRequestSent` | the client waits for the answer to a login it did not send |
| | `LoginStatusIsTheOption` | after a change of character the status is 0, not the option |
| | `ChangeIsAwaited` | a refused change of character leaves the client waiting for nothing |
| `NetConn` | `ReceivedStaysReadable` | a handler that leaves the game server frees the buffer that is being dispatched |
| | `EncryptedOnce` | after a partial `send()` the rest of the buffer is encrypted again (with `PartialSend` TRUE) |
| | `FlushMakesRoom`, `FlushIsSecured` | `SendPacket` on a buffer that is freed, or full on a connection without keys, fails an assert |
| | `NoDispatchAfterClose` | the loop stops on `NETCONN_REMOVE`, which nothing sets |
| | `FlushedWhenShort` | a packet that would fit an empty buffer is dropped, not flushed for |
| | `ReadyIsEmpty` | packets sent on a closed connection wait for the next server |
| `PacketCodec` | `LastCharacterIsNull` | a string that fills its field has no null |
| | `NestedStructsArePacked` | `pack` moves on by `field.size`, which no table gives: the first nested struct is sent again |
| | `NestedStructsApart` | `unpack` places nested structs by their size on the wire |
| `EventManager` | `RemovedIsLinked` | two callers unregister one entry: the check comes before the lock |
| | `OnlyItsEvent` | an entry moved to another event during a broadcast takes the walk into that list |
| `Inventory` | `RemovedIsInSlot` | with `Overwrites`, an item that was written over fails the assert of its removal |
| `Agents` | `MoverExists`, `MyPlayerExists` | `MoveToCoord` and `GetPlayerPtr` take for granted that the client's agent and player are known |
| | `ListsPresent` | players who left are still listed, so that a buffer of `player_count` entries may miss some who are present |
| `Trade` | `AcknowledgedWasRequested` | an acknowledged trade may not have been requested by this client any more |
| | `OpenTradeIsShown` | a `TradeCancel` that writes late closes a window that was opened since |
| `QuestLog` | `QuestIdIsIndex` | `array_remove` moves the last quest into the gap; its id still names the place it has left |
| | `ShowsGivenQuests`, `MarkedIsInLog` | after that the wrong quest is removed, or none |
| `NpcWindows` | `QuoteIsNear` | `RequestItemQuote` takes the client's own position for the merchant's (`api.c:1017`), and never finds it too far |
| | `ListedItemsExist` | with `RemovesListed`, an item that is sold is freed while the window still lists it |
| `Guild` | `CompletedIsPending` | the update of a member's context leaves nothing pending, and its second packet fails the assert `guild.c:58` |
| | `RosterIsOfAccounts` | members go by the name of who has invited them |
| | `MembersFit` | a guild that is described again can get no more members |
| | `PromotionKeepsStatus` | a promotion sets the member offline |
| `Skillbars` | `UseSkillReturns` | a skill of the bar used without a target reads the agent that is not there (`skill.h:94`) |
| | `ToggledOnce` | a skill disabled twice in a row is enabled again |
| `Chat` | `WhisperFindsGameServer` | a whisper that comes between two game servers fails the assert `chat.c:251` |
| | `MessageIsAlone` | the pieces of a message torn by a change of servers are told with the next one |
| `Friends` | `FriendsAreAsTold` | with `InfoFirst` FALSE, a status that comes first makes an entry that nothing finds |
| `PortalLogin` | `WaitsForWholeReply` | a header whose bytes end with a line passes for complete, and the rest of the reply for the handshake |
