-------------------------------- MODULE Trade --------------------------------
(***************************************************************************)
(* The trade window (code/client/trade.c and the calls of api.c on it).    *)
(*                                                                         *)
(* Handlers run in the main thread and take no lock.  A call runs in the   *)
(* thread of a plugin: it appends its packet and only then changes the     *)
(* session, and the main thread may handle any packet in between           *)
(* (`calling').  `session->state |= ...' of a handler that meets the write *)
(* of TradeCancel is a data race in which that write can be lost.          *)
(*                                                                         *)
(* The game server (external) lets one of the two players ask, opens the   *)
(* trade when the other one agrees, ignores what does not fit and tells    *)
(* both when it is over.  Its packets and the client's arrive in order.    *)
(*                                                                         *)
(* Left out: player_gold and player_items, which nothing reads, and the    *)
(* client's own offer, whose packets change nothing here.                  *)
(***************************************************************************)
EXTENDS Integers, SequencesExt

CONSTANTS
    Players,   \* who may trade with the client's player, ids that are not 0
    Items,     \* what they put into the window
    Gold,      \* the sums they offer, not 0
    NULL,      \* no player: the id 0
    MaxQueue   \* bound on the packets under way in a direction

TradeItemsMax == 6                \* the assert of HandleTradeAddItem, less what it lets through
Flags == {"Closed", "Opened", "Received", "Accepted"}   \* TradeState

VARIABLES
    session,   \* world->trade_session
    calling,   \* the call that has sent its packet and not written yet
    deal,      \* the server's trade of this player
    toServer, toClient,
    aborted    \* an assert of the client has failed

vars == <<session, calling, deal, toServer, toClient, aborted>>

Packets(kinds, values) == [kind : kinds, value : values]
Packet(k, v) == [kind |-> k, value |-> v]

FreshSession ==
    [state |-> {}, trader |-> NULL, request_pending |-> FALSE, gold |-> 0, items |-> <<>>]

NoDeal == [phase |-> "idle", partner |-> NULL, gold |-> 0, items |-> <<>>]

TypeOK ==
    /\ session.state \subseteq Flags
    /\ session.trader \in Players \cup {NULL}
    /\ session.request_pending \in BOOLEAN
    /\ session.gold \in Gold \cup {0}
    /\ session.items \in Seq(Items)
    /\ calling \in {"none", "initiate", "cancel"}
    /\ deal.phase \in {"idle", "asking", "asked", "open"}
    /\ deal.phase = "idle" <=> deal = NoDeal
    /\ toServer \in Seq(Packets({"initiate", "acknowledge", "cancel"}, Players \cup {NULL}))
    /\ toClient \in Seq(Packets({"request", "acknowledge"}, Players)
                        \cup Packets({"item"}, Items) \cup Packets({"offer"}, Gold)
                        \cup Packets({"accept", "change", "terminate"}, {NULL}))
    /\ aborted \in BOOLEAN

\* init_world
Init ==
    /\ session = FreshSession
    /\ calling = "none"
    /\ deal = NoDeal
    /\ toServer = <<>> /\ toClient = <<>>
    /\ aborted = FALSE

ToServer(k, v) == Len(toServer) < MaxQueue /\ toServer' = Append(toServer, Packet(k, v))
ToClient(k, v) == Len(toClient) < MaxQueue /\ toClient' = Append(toClient, Packet(k, v))

-----------------------------------------------------------------------------
(* Calls of plugins.                                                       *)

Calls(c, k, v) ==
    /\ calling = "none" /\ ~aborted
    /\ ToServer(k, v)
    /\ calling' = c
    /\ UNCHANGED <<session, deal, toClient, aborted>>

\* GameSrv_TradeInitiate and GameSrv_TradeCancel up to the return of SendPacket.
TradeInitiate(p) == Calls("initiate", "initiate", p)
TradeCancel == Calls("cancel", "cancel", NULL)

\* The assignment that ends them.
CallWrites ==
    /\ calling # "none" /\ ~aborted
    /\ session' = IF calling = "initiate" THEN [session EXCEPT !.request_pending = TRUE]
                  ELSE [session EXCEPT !.state = {"Closed"}]
    /\ calling' = "none"
    /\ UNCHANGED <<deal, toServer, toClient, aborted>>

-----------------------------------------------------------------------------
(* The handlers of the main thread.                                        *)

Receives(k) ==
    /\ ~aborted /\ toClient # <<>> /\ Head(toClient).kind = k
    /\ toClient' = Tail(toClient)
    /\ UNCHANGED deal

\* state |= ...: the assignment of a TradeCancel under way may get lost.
CancelMayGetLost ==
    \/ UNCHANGED calling
    \/ calling = "cancel" /\ calling' = "none"

\* Mutant: what the last trader put into the window stays.
OpenedWithLeftovers(p) ==
    [session EXCEPT !.trader = p, !.state = @ \cup {"Opened"}]

\* What opens the window in HandleTradeAcknowledge and GameSrv_TradeAcknowledge.
OpenedWith(p) ==
    [session EXCEPT !.trader = p, !.state = @ \cup {"Opened"}, !.items = <<>>]

\* Every request is acknowledged at once, and the window opens with it.
HandleTradeRequest ==
    /\ Receives("request")
    /\ ToServer("acknowledge", Head(toClient).value)
    /\ session' = OpenedWith(Head(toClient).value)
    /\ CancelMayGetLost
    /\ UNCHANGED aborted

\* assert(session->request_pending)
HandleTradeAcknowledge ==
    /\ Receives("acknowledge")
    /\ UNCHANGED toServer
    /\ aborted' = ~session.request_pending
    /\ IF session.request_pending
       THEN /\ session' = [OpenedWith(Head(toClient).value) EXCEPT !.request_pending = FALSE]
            /\ CancelMayGetLost
       ELSE UNCHANGED <<session, calling>>

HandleTradeTerminate ==
    /\ Receives("terminate")
    /\ session' = [session EXCEPT !.state = {"Closed"}]
    /\ UNCHANGED <<calling, toServer, aborted>>

HandleTradeAddItem ==
    /\ Receives("item")
    /\ aborted' = (Len(session.items) > TradeItemsMax)
    /\ session' = IF Len(session.items) > TradeItemsMax THEN session
                  ELSE [session EXCEPT !.items = Append(@, Head(toClient).value)]
    /\ UNCHANGED <<calling, toServer>>

\* Mutant: the sum is noted and the offer is not.
OfferUnmarked ==
    /\ Receives("offer")
    /\ session' = [session EXCEPT !.gold = Head(toClient).value]
    /\ UNCHANGED <<calling, toServer, aborted>>

HandleTradeReceiveOffer ==
    /\ Receives("offer")
    /\ session' = [session EXCEPT !.gold = Head(toClient).value, !.state = @ \cup {"Received"}]
    /\ CancelMayGetLost
    /\ UNCHANGED <<toServer, aborted>>

HandleTradeAccept ==
    /\ Receives("accept")
    /\ session' = [session EXCEPT !.state = @ \cup {"Accepted"}]
    /\ CancelMayGetLost
    /\ UNCHANGED <<toServer, aborted>>

\* state |= ~TradeState_Opened: every flag but Opened is set.
HandleTradeChangeOffer ==
    /\ Receives("change")
    /\ session' = [session EXCEPT !.state = @ \cup (Flags \ {"Opened"})]
    /\ CancelMayGetLost
    /\ UNCHANGED <<toServer, aborted>>

-----------------------------------------------------------------------------
(* The game server and the other players.                                  *)

\* What becomes of the deal when a packet of the client arrives.
DealAfter(packet) ==
    IF packet.kind = "initiate" /\ deal.phase = "idle"
        THEN [NoDeal EXCEPT !.phase = "asking", !.partner = packet.value]
    ELSE IF packet.kind = "acknowledge" /\ deal.phase = "asked" /\ deal.partner = packet.value
        THEN [deal EXCEPT !.phase = "open"]
    ELSE IF packet.kind = "cancel" THEN NoDeal
    ELSE deal

ServerReceives ==
    /\ ~aborted /\ toServer # <<>>
    /\ toServer' = Tail(toServer)
    /\ deal' = DealAfter(Head(toServer))
    /\ IF Head(toServer).kind = "cancel" /\ deal # NoDeal
       THEN ToClient("terminate", NULL)
       ELSE UNCHANGED toClient
    /\ UNCHANGED <<session, calling, aborted>>

ServerSends(phase, k, v, next) ==
    /\ deal.phase = phase /\ ~aborted
    /\ ToClient(k, v)
    /\ deal' = next
    /\ UNCHANGED <<session, calling, toServer, aborted>>

PartnerAsks(p) == ServerSends("idle", "request", p, [NoDeal EXCEPT !.phase = "asked", !.partner = p])
PartnerAgrees == ServerSends("asking", "acknowledge", deal.partner, [deal EXCEPT !.phase = "open"])
PartnerEnds == \E f \in {"asking", "asked", "open"} : ServerSends(f, "terminate", NULL, NoDeal)
PartnerAddsItem(i) ==
    /\ i \notin ToSet(deal.items)
    /\ ServerSends("open", "item", i, [deal EXCEPT !.items = Append(@, i)])
PartnerOffers(g) == deal.gold = 0 /\ ServerSends("open", "offer", g, [deal EXCEPT !.gold = g])
PartnerChanges == deal.gold # 0 /\ ServerSends("open", "change", NULL, [deal EXCEPT !.gold = 0])
PartnerAccepts == deal.gold # 0 /\ ServerSends("open", "accept", NULL, deal)

Handle ==
    \/ HandleTradeRequest \/ HandleTradeAcknowledge \/ HandleTradeTerminate
    \/ HandleTradeAddItem \/ HandleTradeReceiveOffer \/ HandleTradeAccept
    \/ HandleTradeChangeOffer

GameServer ==
    \/ ServerReceives
    \/ \E p \in Players : PartnerAsks(p)
    \/ PartnerAgrees \/ PartnerEnds \/ PartnerChanges \/ PartnerAccepts
    \/ \E i \in Items : PartnerAddsItem(i)
    \/ \E g \in Gold : PartnerOffers(g)

Next ==
    \/ \E p \in Players : TradeInitiate(p)
    \/ TradeCancel \/ CallWrites
    \/ Handle
    \/ GameServer

Spec == Init /\ [][Next]_vars

-----------------------------------------------------------------------------
(* What plugins read.                                                      *)

GetTraderId == IF "Opened" \in session.state THEN session.trader ELSE NULL
GetTradeItems == IF "Opened" \in session.state THEN session.items ELSE <<>>
GetTradeGold == IF "Received" \in session.state THEN session.gold ELSE 0

-----------------------------------------------------------------------------
(* Properties                                                              *)

\* Nothing is under way, and no call is between its packet and its assignment.
Quiet == toServer = <<>> /\ toClient = <<>> /\ calling = "none" /\ ~aborted

\* When everything has arrived, a plugin that reads an open window reads the trade
\* the server has: its partner and the items that partner put there, and none of
\* an earlier trade, whatever was cancelled, refused or asked at the same time and
\* whichever write of a call was lost.
ShownTradeIsOpen ==
    Quiet /\ GetTraderId # NULL =>
        /\ deal.phase = "open"
        /\ GetTraderId = deal.partner
        /\ GetTradeItems = deal.items

\* The sum that GetTradeGold returns for an open window is one that this partner
\* has offered: it is the last one unless he is changing it, and a sum that stands
\* is shown.
OfferIsShown ==
    Quiet /\ GetTraderId # NULL /\ deal.gold # 0 => GetTradeGold = deal.gold

\* trade.c:137-139 asserts that an acknowledged trade was requested by this client:
\* "We cannot enqueue more than 1 request, so it is fine to assume there is no
\* request pending."
AcknowledgedWasRequested == ~aborted

\* Not true of the code: a trade that the server has opened is shown.  A TradeCancel
\* that writes late closes a window which HandleTradeRequest has opened since.
OpenTradeIsShown == Quiet /\ deal.phase = "open" => GetTraderId = deal.partner
=============================================================================
