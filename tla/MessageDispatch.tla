--------------------------- MODULE MessageDispatch ---------------------------
(***************************************************************************)
(* Which handler gets which message, and what it takes for granted.  A     *)
(* handler casts the PacketBuffer to a struct of its own; it asserts the   *)
(* number of the message, and that the size of the struct is psize, which  *)
(* NetConn_DispatchPackets takes from MsgFormat.unpack_size.               *)
(*                                                                         *)
(* Handler(name, header, asserted, size) is a handler registered for       *)
(* message header that asserts the number asserted and a struct of size    *)
(* bytes; Unchecked is one without asserts.  Numbers are those of          *)
(* opcodes.h, the size is sizeof the struct in the handler.                *)
(***************************************************************************)
EXTENDS PacketTables

Handler(name, header, asserted, size) ==
    [name |-> name, header |-> header, asserted |-> {asserted}, size |-> {size}]
Unchecked(name, header) ==
    [name |-> name, header |-> header, asserted |-> {}, size |-> {}]

AuthHandlers == {
  Handler("HandleRequestResponse", 3, 3, 10), Handler("HandleServerReponse", 38, 38, 10),
  Handler("HandleSessionInfo", 1, 1, 10), Handler("HandleAccountInfo", 17, 17, 275),
  Handler("HandleCharacterInfo", 7, 7, 134), Handler("HandleGameServerInfo", 9, 9, 42),
  Handler("HandleAccountSettings", 22, 22, 2058), Handler("HandleFriendUpdateInfo", 10, 10, 66),
  Handler("HandleFriendUpdateStatus", 11, 11, 102), Handler("HandleFriendStreamEnd", 20, 20, 10),
  Handler("HandleFriendUpdateLocation", 32, 32, 50), Handler("HandleWhisperReceived", 12, 12, 558) }

InstanceHandlers == {
  Handler("HandlePingRequest", 12, 12, 2), Handler("HandlePingReply", 13, 13, 6),
  Handler("HandleInstanceShowWin", 378, 378, 2), Handler("HandleInstanceLoadHead", 379, 379, 6),
  Handler("HandleInstanceCountdownStop", 381, 381, 2), Handler("HandleInstanceCountdown", 383, 383, 255),
  Handler("HandleInstanceLoadPlayerName", 380, 380, 42), Handler("HandleInstanceLoadSpawnPoint", 404, 404, 26),
  Handler("HandleInstanceLoadInfo", 408, 408, 15), Handler("HandleGameTransferInfo", 420, 420, 38),
  Unchecked("HandleReadyForMapSpawn", 426), Handler("HandleCantEnterOutpost", 443, 443, 3),
  Handler("HandleInstanceTravelTimer", 442, 442, 249), Handler("HandleInstanceLoadFinish", 397, 397, 2),
  Handler("HandleInstanceLoaded", 241, 241, 6), Handler("HandleFriendListMessage", 14, 14, 1034),
  Handler("HandleInstanceRedirect", 400, 400, 4), Handler("HandleGoldCharacterAdd", 319, 319, 8),
  Handler("HandleGoldStorageAdd", 320, 320, 8), Handler("HandleGoldCharacterRemove", 334, 334, 8),
  Handler("HandleGoldStorageRemove", 335, 335, 8) }

ItemHandlers == {
  Handler("HandleInventoryItemQuantity", 312, 312, 10), Handler("HandleInventoryItemLocation", 317, 317, 11),
  Handler("HandleInventoryCreateBag", 318, 318, 13), Handler("HandleItemStreamCreate", 323, 323, 5),
  Handler("HandleItemStreamDestroy", 324, 324, 4), Handler("HandleItemWeaponSet", 326, 326, 13),
  Handler("HandleUpdateActiveWeaponSet", 327, 327, 5), Handler("HandleItemGeneralInfo", 352, 352, 421),
  Handler("HandleItemChangeLocation", 330, 330, 11), Handler("HandleItemRemove", 332, 332, 8),
  Handler("HandleItemPriceQuote", 246, 246, 10), Handler("HandleWindowMerchant", 194, 194, 7),
  Handler("HandleWindowItemStreamEnd", 133, 133, 3), Handler("HandleWindowOwner", 195, 195, 6),
  Handler("HandleWindowAddItems", 131, 131, 70), Handler("HandleWindowAddPrices", 248, 248, 70),
  Handler("HandleSalvageSessionStart", 354, 354, 24), Handler("HandleSalvageSessionCancel", 355, 355, 2),
  Handler("HandleSalvageSessionDone", 356, 356, 2), Handler("HandleSalvageSessionSuccess", 357, 357, 2),
  Handler("HandleSalvageSessionItemKept", 358, 358, 3) }

AgentHandlers == {
  Handler("HandleAgentMovementTick", 30, 30, 6), Handler("HandleAgentInstanceTimer", 31, 31, 6),
  Handler("HandleAgentSpawned", 32, 32, 99), Handler("HandleAgentDespawned", 33, 33, 6),
  Handler("HandleAgentSetPlayer", 34, 34, 10), Handler("HandleAgentUpdateDirection", 37, 37, 15),
  Handler("HandleAgentUpdateSpeedBase", 39, 39, 10), Handler("HandleAgentStopMoving", 40, 40, 6),
  Handler("HandleAgentMoveToPoint", 41, 41, 18), Handler("HandleAgentUpdateSpeedModifier", 43, 43, 11),
  Handler("HandleAgentUpdatePosition", 44, 44, 16), Handler("HandleAgentUpdateRotation", 46, 46, 14),
  Handler("HandleAgentUpdateDestination", 42, 42, 22), Handler("HandleUpdatePlayerInfo", 88, 88, 87),
  Handler("HandleAgentDestroyPlayer", 89, 89, 6), Handler("HandleAgentCreateNPC", 169, 169, 14),
  Handler("HandleAgentPingeg", 52, 52, 8), Handler("HandleAgentUpdateEffects", 240, 240, 10),
  Handler("HandleNPCUpdateProperties", 85, 85, 44), Handler("HandleNPCUpdateModel", 86, 86, 42),
  Handler("HandlePlayerUnlockedProfession", 181, 181, 10),
  Handler("HandlePlayerUpdateProfession", 182, 182, 9), Handler("HandleAgentUpdateNpcName", 154, 154, 70),
  Handler("HandleAgentAttrUpdateInt", 158, 158, 14), Handler("HandleAgentAttrUpdateIntTarget", 159, 159, 18),
  Handler("HandleAgentAttrUpdateFloat", 161, 161, 14),
  Handler("HandleAgentAttrUpdateFloatTarget", 162, 162, 18),
  Handler("HandleAgentUpdateProfession", 165, 165, 8), Handler("HandleCinematicStart", 255, 255, 3),
  Handler("HandleCinematicData", 259, 259, 1030), Handler("HandleCinematicDataEnd", 258, 258, 2),
  Handler("HandleCinematicEnd", 260, 260, 2) }

TradeChatHandlers == {
  Handler("HandleTradeRequest", 0, 0, 6), Handler("HandleTradeTerminate", 1, 1, 3),
  Handler("HandleTradeOfferedCount", 8, 8, 7), Handler("HandleTradeReceiveOffer", 3, 3, 6),
  Handler("HandleTradeAddItem", 4, 4, 7), Handler("HandleTradeAcknowledge", 5, 5, 6),
  Handler("HandleTradeAccept", 6, 6, 2), Handler("HandleTradeChangeOffer", 2, 2, 7),
  Handler("HandleChatMessageCore", 92, 92, 246), Handler("HandleChatMessageLocal", 96, 96, 5),
  Handler("HandleChatMessageGlobal", 95, 95, 79), Handler("HandleChatMessageServer", 93, 93, 5),
  Handler("HandlePlayerUpdateFactions", 232, 232, 62), Handler("HandlePlayerFactionMaxKurzick", 233, 233, 6),
  Handler("HandlePlayerFactionMaxLuxon", 234, 234, 6), Handler("HandlePlayerFactionMaxBalthazar", 235, 235, 6),
  Handler("HandlePlayerFactionMaxImperial", 236, 236, 6), Handler("HandlePlayerFactionUpdate", 237, 237, 10),
  Handler("HandlePlayerUnlockedAreas", 147, 147, 662) }

SkillQuestHandlers == {
  Handler("HandleSkillbarUpdateSkill", 216, 216, 13), Handler("HandleSkillbarUpdate", 217, 217, 79),
  Handler("HandleSkillAddToWindowsData", 223, 223, 2), Handler("HandleSkillAddToWindowsEnd", 224, 224, 2),
  Handler("HandleSkillActivated", 226, 226, 12), Handler("HandleSkillActivate", 227, 227, 12),
  Handler("HandleSkillRecharge", 228, 228, 16), Handler("HandleSkillRecharged", 229, 229, 12),
  Handler("HandleHeroBehavior", 97, 97, 10), Handler("HandleHeroSkillStatus", 99, 99, 8),
  Handler("HandleHeroSkillStatusBitmap", 100, 100, 7), Handler("HandleAgentUpdateAttributes", 58, 58, 202),
  Handler("HandleQuestDescription", 75, 75, 518), Handler("HandleQuestGeneralInfo", 79, 79, 60),
  Handler("HandleQuestUpdateMarker", 80, 80, 18), Handler("HandleQuestRemove", 81, 81, 6),
  Handler("HandleTitleRankData", 242, 242, 30), Handler("HandleTitleRankDisplay", 243, 243, 8),
  Handler("HandleTitleTrackInfo", 245, 245, 70), Handler("HandleMissionAddGoal", 184, 184, 262),
  Handler("HandleMissionAddObjective", 186, 186, 266), Handler("HandleDialogButton", 125, 125, 267),
  Handler("HandleDialogBody", 127, 127, 246), Handler("HandleDialogSender", 128, 128, 6) }

GuildEffectHandlers == {
  Handler("HandleGuildPlayerRole", 279, 279, 21), Handler("HandleGuildPlayerInfo", 294, 294, 267),
  Handler("HandleGuildGeneralInfo", 288, 288, 124), Handler("HandleGuildChangeFaction", 289, 289, 9),
  Handler("HandleGuildInviteReceived", 290, 290, 143),
  Handler("HandleGuildPlayerChangeComplete", 297, 297, 42),
  Handler("HandleGuildChangePlayerContext", 298, 298, 134),
  Handler("HandleGuildChangePlayerType", 300, 300, 3), Handler("HandleGuildChangePlayerStatus", 299, 299, 10),
  Handler("HandleEffectUpkeepAdded", 62, 62, 20), Handler("HandleEffectUpkeepRemoved", 63, 63, 10),
  Handler("HandleEffectUpkeepApplied", 64, 64, 20), Handler("HandleEffectApplied", 65, 65, 20),
  Handler("HandleEffectRenewed", 66, 66, 18), Handler("HandleEffectRemoved", 67, 67, 10) }

PartyHandlers == {
  Handler("HandlePartySetDifficulty", 445, 445, 3), Handler("HandlePartyHeroAdd", 449, 449, 10),
  Handler("HandlePartyHeroRemove", 450, 450, 8), Handler("HandlePartyInviteAdd", 451, 451, 4),
  Handler("HandlePartyJoinRequest", 452, 452, 4), Handler("HandlePartyInviteCancel", 453, 450, 4),
  Handler("HandlePartyRequestCancel", 454, 454, 4), Handler("HandlePartyYouAreLeader", 457, 457, 3),
  Handler("HandlePartyPlayerAdd", 458, 458, 7), Handler("HandlePartyPlayerRemove", 463, 463, 6),
  Handler("HandlePartyPlayerReady", 464, 464, 7), Handler("HandlePartyCreate", 465, 465, 4),
  Handler("HandlePartyMemberStreamEnd", 466, 466, 4), Handler("HandlePartyDefeated", 471, 471, 2),
  Handler("HandlePartySearchRequestJoin", 474, 474, 6), Handler("HandlePartySearchRequestDone", 475, 475, 6),
  Handler("HandlePartySearchAdvertisement", 476, 476, 122), Handler("HandlePartySearchSeek", 477, 477, 4),
  Handler("HandlePartySearchRemove", 478, 478, 4), Handler("HandlePartySearchSize", 479, 479, 6),
  Handler("HandlePartySearchType", 480, 480, 6) }

-----------------------------------------------------------------------------
VARIABLES
    secured,  \* "auth" or "game", the connection whose packets are dispatched
    running,  \* FALSE when an assert has ended the process
    handled   \* the name of the handler that ran last

vars == <<secured, running, handled>>

Formats(conn) == IF conn = "auth" THEN AuthServerFields ELSE GameServerFields
Sizes(conn) == IF conn = "auth" THEN AuthServerSizes ELSE GameServerSizes

Handlers(conn) ==
    IF conn = "auth" THEN AuthHandlers
    ELSE UNION {InstanceHandlers, ItemHandlers, AgentHandlers, TradeChatHandlers,
                SkillQuestHandlers, GuildEffectHandlers, PartyHandlers}

Init == secured \in {"auth", "game"} /\ running = TRUE /\ handled = "none"

\* The asserts at the start of a handler: a set is empty when there is no assert.
Accepts(handler, header, psize) ==
    handler.asserted \subseteq {header} /\ handler.size \subseteq {psize}

\* NetConn_DispatchPackets for one whole packet: the handler that stands at the number
\* of the packet, if there is one, is called with the size from the format.
Dispatch(i) ==
    /\ running
    /\ \E h \in {g \in Handlers(secured) : g.header = i - 1} :
          /\ running' = Accepts(h, i - 1, Sizes(secured)[i])
          /\ handled' = h.name
    /\ UNCHANGED secured

Next == \E i \in DOMAIN Formats(secured) : Dispatch(i)

Spec == Init /\ [][Next]_vars

-----------------------------------------------------------------------------
(* What the source says of itself and the code does not keep.              *)

\* trade.c:61, skill.c:100, skill.c:117 and party.c:219, among the asserts of every
\* handler, for example "assert(sizeof(OfferedCount) == psize)": no message that the
\* server may send ends the process in an assert of its handler.
HandlerAsserts == running
=============================================================================
