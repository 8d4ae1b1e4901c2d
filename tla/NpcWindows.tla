----------------------------- MODULE NpcWindows -----------------------------
(***************************************************************************)
(* What an NPC shows the client: the dialog with its buttons               *)
(* (code/client/dialog.c) and the window of a merchant or a trader         *)
(* (code/client/item.c), with the calls of api.c on them.                  *)
(*                                                                         *)
(* A window comes in pieces: its owner, items, prices, the end of a stream *)
(* (a trader has two: what it sells and what it buys).  The pieces are     *)
(* collected in the tmp_ arrays and copied to merchant_items when a stream *)
(* is complete.  The game server (external) keeps `window' and `talk'.     *)
(*                                                                         *)
(* Left out: the body of a dialog, world->interact_with (nothing reads it) *)
(* and the answers to quotes, which are events only.                       *)
(***************************************************************************)
EXTENDS Integers, SequencesExt, FiniteSetsExt

CONSTANTS
    Npcs, ItemIds, Buttons,
    Objects,        \* addresses that calloc can return for an Item
    Values,         \* what an item is worth when it is announced, and prices
    NULL,
    RemovesListed,  \* the server may remove an item that stands in the window
    MaxButtons      \* bound on the buttons of a dialog

VARIABLES
    items, heap,           \* world->items and the Items they point to
    merchant_items, tmp_merchant_items, tmp_merchant_prices, merchant_agent_id,
    dialog,                \* world->dialog: opened, interact_with, buttons
    position,              \* the NPC the player stands at, or NULL
    window,                \* the server's window: npc, listed, prices, ended (items in ended streams)
    talk,                  \* the server's dialog: npc, buttons
    answered,              \* an answer to the dialog is on its way to the server
    worth,                 \* the highest value the server has told of an item
    far_quote              \* a quote was requested from a merchant the player has left

clientVars == <<items, heap, merchant_items, tmp_merchant_items, tmp_merchant_prices,
                merchant_agent_id, dialog>>
merchantVars == <<merchant_items, tmp_merchant_items, tmp_merchant_prices, merchant_agent_id>>
itemVars == <<items, heap, worth>>
talkVars == <<dialog, talk, answered>>
vars == <<clientVars, position, window, talk, answered, worth, far_quote>>

ClosedDialog == [opened |-> FALSE, interact_with |-> NULL, buttons |-> <<>>]
NoWindow == [npc |-> NULL, listed |-> <<>>, prices |-> <<>>, ended |-> 0, streams |-> 0]
NoTalk == [npc |-> NULL, buttons |-> <<>>]

TypeOK ==
    /\ items \in [ItemIds -> Objects \cup {NULL}]
    /\ \A o \in Objects : heap[o] = NULL \/ heap[o] \in [item_id : ItemIds, value : Values]
    /\ merchant_items \in Seq(Objects) /\ tmp_merchant_items \in Seq(Objects)
    /\ tmp_merchant_prices \in Seq(Values)
    /\ merchant_agent_id \in Npcs \cup {NULL} /\ position \in Npcs \cup {NULL}
    /\ dialog.opened \in BOOLEAN /\ dialog.interact_with \in Npcs \cup {NULL}
    /\ dialog.buttons \in Seq(Buttons) /\ Len(dialog.buttons) <= 2 * MaxButtons

\* init_world
Init ==
    /\ items = [i \in ItemIds |-> NULL]
    /\ heap = [o \in Objects |-> NULL]
    /\ merchant_items = <<>> /\ tmp_merchant_items = <<>> /\ tmp_merchant_prices = <<>>
    /\ merchant_agent_id = NULL
    /\ dialog = ClosedDialog
    /\ position = NULL
    /\ window = NoWindow /\ talk = NoTalk /\ answered = FALSE
    /\ worth = [i \in ItemIds |-> 0]
    /\ far_quote = FALSE

-----------------------------------------------------------------------------
(* Items.                                                                  *)

HandleItemGeneralInfo(i, o, v) ==
    /\ items[i] = NULL /\ heap[o] = NULL
    /\ items' = [items EXCEPT ![i] = o]
    /\ heap' = [heap EXCEPT ![o] = [item_id |-> i, value |-> v]]
    /\ worth' = [worth EXCEPT ![i] = v]
    /\ UNCHANGED <<merchantVars, talkVars, position, window, far_quote>>

\* The lists of the windows keep their pointers.
HandleItemRemove(i) ==
    /\ items[i] # NULL
    /\ RemovesListed \/ i \notin ToSet(window.listed)
    /\ items' = [items EXCEPT ![i] = NULL]
    /\ heap' = [heap EXCEPT ![items[i]] = NULL]
    /\ worth' = [worth EXCEPT ![i] = 0]
    /\ UNCHANGED <<merchantVars, talkVars, position, window, far_quote>>

-----------------------------------------------------------------------------
(* The window of a merchant.                                               *)

\* Mutant: the prices of the last window stay.
OwnerKeepsPrices(npc) ==
    /\ position = npc
    /\ merchant_items' = <<>> /\ tmp_merchant_items' = <<>>
    /\ merchant_agent_id' = npc
    /\ window' = [NoWindow EXCEPT !.npc = npc]
    /\ UNCHANGED <<itemVars, talkVars, tmp_merchant_prices, position, far_quote>>

\* A player opens the window of an NPC at which it stands.
HandleWindowOwner(npc) ==
    /\ position = npc
    /\ merchant_items' = <<>> /\ tmp_merchant_items' = <<>> /\ tmp_merchant_prices' = <<>>
    /\ merchant_agent_id' = npc
    /\ window' = [NoWindow EXCEPT !.npc = npc]
    /\ UNCHANGED <<itemVars, talkVars, position, far_quote>>

\* The server announces an item before it lists it, and lists it once in a window.  One
\* packet stands for one item: nothing reads the array between two of them.
HandleWindowAddItems(i) ==
    /\ window.npc # NULL /\ window.streams < 2
    /\ items[i] # NULL /\ i \notin ToSet(window.listed)
    /\ Len(window.prices) = window.ended
    /\ window' = [window EXCEPT !.listed = Append(@, i)]
    /\ tmp_merchant_items' = Append(tmp_merchant_items, items[i])
    /\ UNCHANGED <<itemVars, talkVars, merchant_items, tmp_merchant_prices, merchant_agent_id,
                   position, far_quote>>

HandleWindowAddPrices(p) ==
    /\ Len(window.prices) < Len(window.listed)
    /\ window' = [window EXCEPT !.prices = Append(@, p)]
    /\ tmp_merchant_prices' = Append(tmp_merchant_prices, p)
    /\ UNCHANGED <<itemVars, talkVars, merchant_items, tmp_merchant_items, merchant_agent_id,
                   position, far_quote>>

\* The loop of HandleMerchantReady.  The value of an item only rises ("GW Bug: last sale
\* price can be LOWER than the default item value!").  The items are different ones.
HandleMerchantReady ==
    LET Raised(n) == IF n \in DOMAIN tmp_merchant_prices
                     THEN Max({heap[tmp_merchant_items[n]].value, tmp_merchant_prices[n]})
                     ELSE heap[tmp_merchant_items[n]].value
    IN  /\ merchant_items' = merchant_items \o tmp_merchant_items
        /\ heap' = [o \in Objects |->
                      IF \E n \in DOMAIN tmp_merchant_items : tmp_merchant_items[n] = o /\ heap[o] # NULL
                      THEN [heap[o] EXCEPT !.value =
                               Raised(CHOOSE n \in DOMAIN tmp_merchant_items : tmp_merchant_items[n] = o)]
                      ELSE heap[o]]

\* What the server has told of the items when a stream ends.
Told ==
    /\ window' = [window EXCEPT !.ended = Len(window.listed), !.streams = @ + 1]
    /\ worth' = [i \in ItemIds |->
                   IF \E n \in DOMAIN window.prices : window.listed[n] = i
                   THEN LET n == CHOOSE m \in DOMAIN window.prices : window.listed[m] = i
                        IN Max({worth[i], window.prices[n]})
                   ELSE worth[i]]

\* A trader's stream has a price for every item.
HandleWindowItemStreamEnd ==
    /\ window.npc # NULL /\ window.streams < 2
    /\ Len(window.listed) > window.ended /\ Len(window.prices) = Len(window.listed)
    /\ Told /\ HandleMerchantReady
    /\ UNCHANGED <<talkVars, items, tmp_merchant_items, tmp_merchant_prices, merchant_agent_id,
                   position, far_quote>>

\* "Special case for merchant; only receives list of buyable items": one stream, no prices.
HandleWindowMerchant ==
    /\ window.npc # NULL /\ window.streams = 0
    /\ window.listed # <<>> /\ window.prices = <<>>
    /\ window' = [window EXCEPT !.ended = Len(window.listed), !.streams = 2]
    /\ HandleMerchantReady
    /\ UNCHANGED <<talkVars, items, worth, tmp_merchant_items, tmp_merchant_prices,
                   merchant_agent_id, position, far_quote>>

-----------------------------------------------------------------------------
(* The dialog.                                                             *)

\* Mutant: the merchant window of the last NPC stays.
SenderKeepsMerchant(npc) ==
    /\ position = npc
    /\ dialog' = [opened |-> TRUE, interact_with |-> npc, buttons |-> <<>>]
    /\ talk' = [npc |-> npc, buttons |-> <<>>] /\ window' = NoWindow /\ answered' = FALSE
    /\ UNCHANGED <<itemVars, merchantVars, position, far_quote>>

\* Mutant: the buttons of the last dialog stay.
SenderKeepsButtons(npc) ==
    /\ position = npc
    /\ dialog' = [dialog EXCEPT !.opened = TRUE, !.interact_with = npc]
    /\ merchant_items' = <<>> /\ tmp_merchant_items' = <<>> /\ tmp_merchant_prices' = <<>>
    /\ talk' = [npc |-> npc, buttons |-> <<>>] /\ window' = NoWindow /\ answered' = FALSE
    /\ UNCHANGED <<itemVars, merchant_agent_id, position, far_quote>>

\* A dialog takes the place of the window.  The server ignores an answer to an earlier one.
HandleDialogSender(npc) ==
    /\ position = npc
    /\ dialog' = [opened |-> TRUE, interact_with |-> npc, buttons |-> <<>>]
    /\ merchant_items' = <<>> /\ tmp_merchant_items' = <<>> /\ tmp_merchant_prices' = <<>>
    /\ talk' = [npc |-> npc, buttons |-> <<>>] /\ window' = NoWindow /\ answered' = FALSE
    /\ UNCHANGED <<itemVars, merchant_agent_id, position, far_quote>>

\* Also added to a dialog that a plugin has just closed.
HandleDialogButton(b) ==
    /\ talk.npc # NULL /\ Len(talk.buttons) < MaxButtons /\ b \notin ToSet(talk.buttons)
    /\ Len(dialog.buttons) < 2 * MaxButtons
    /\ talk' = [talk EXCEPT !.buttons = Append(@, b)]
    /\ dialog' = [dialog EXCEPT !.buttons = Append(@, b)]
    /\ UNCHANGED <<itemVars, merchantVars, position, window, answered, far_quote>>

\* HandleAgentMoveToPoint, HandleAgentUpdateDestination of the client's agent: the server
\* takes the player away from the NPC (to NULL) or to one.  free_dialog_info
PlayerMoves(to) ==
    /\ to # position
    /\ position' = to
    /\ dialog' = ClosedDialog
    /\ talk' = NoTalk
    /\ UNCHANGED <<itemVars, merchantVars, window, answered, far_quote>>

\* The server gets the answer of a plugin and drops its dialog.
AnswerArrives ==
    /\ answered /\ answered' = FALSE
    /\ talk' = NoTalk
    /\ UNCHANGED <<itemVars, merchantVars, dialog, position, window, far_quote>>

-----------------------------------------------------------------------------
(* Calls of plugins.  They hold client->mutex, which HandleMerchantReady takes too.  *)

\* SendDialog: neither an open dialog nor a button with that id is needed.
GameSrv_SendDialog ==
    /\ ~answered /\ answered' = TRUE
    /\ dialog' = ClosedDialog
    /\ UNCHANGED <<itemVars, merchantVars, talk, position, window, far_quote>>

Shown == [n \in DOMAIN merchant_items |->
            IF heap[merchant_items[n]] = NULL THEN NULL ELSE heap[merchant_items[n]].item_id]

\* GetMerchantItems
GetMerchantItems == ToSet(Shown)

\* The distance is the one from the player to itself (api.c:1014, 1017).
RequestItemQuote(i) ==
    /\ i \in GetMerchantItems /\ merchant_agent_id # NULL
    /\ far_quote' = (far_quote \/ position # merchant_agent_id)
    /\ UNCHANGED <<clientVars, position, window, talk, answered, worth>>

-----------------------------------------------------------------------------
\* reset_world
ResetWorld ==
    /\ items' = [i \in ItemIds |-> NULL]
    /\ heap' = [o \in Objects |-> NULL]
    /\ merchant_items' = <<>> /\ tmp_merchant_items' = <<>> /\ tmp_merchant_prices' = <<>>
    /\ merchant_agent_id' = NULL
    /\ dialog' = ClosedDialog
    /\ position' = NULL
    /\ window' = NoWindow /\ talk' = NoTalk /\ answered' = FALSE
    /\ worth' = [i \in ItemIds |-> 0]
    /\ UNCHANGED far_quote

Next ==
    \/ \E i \in ItemIds :
          \/ \E o \in Objects, v \in Values : HandleItemGeneralInfo(i, o, v)
          \/ HandleItemRemove(i)
          \/ HandleWindowAddItems(i)
          \/ RequestItemQuote(i)
    \/ \E p \in Values : HandleWindowAddPrices(p)
    \/ HandleWindowItemStreamEnd \/ HandleWindowMerchant
    \/ \E npc \in Npcs : HandleWindowOwner(npc) \/ HandleDialogSender(npc)
    \/ \E b \in Buttons : HandleDialogButton(b)
    \/ \E to \in Npcs \cup {NULL} : PlayerMoves(to)
    \/ AnswerArrives \/ GameSrv_SendDialog
    \/ ResetWorld

Spec == Init /\ [][Next]_vars

-----------------------------------------------------------------------------
(* Properties                                                              *)

\* dialog.c:101: "if we don't do this, merchant items will still be for a previous NPC".
\* The items a plugin gets from GetMerchantItems are those of the streams that the server
\* has completed in the window it has open, whichever windows and dialogs came before and
\* wherever an earlier one was cut off.
MerchantItemsAreOfTheWindow ==
    /\ GetMerchantItems = ToSet(SubSeq(window.listed, 1, window.ended))
    /\ GetMerchantItems # {} => merchant_agent_id = window.npc

\* Prices are paired with items by their position in two arrays that grow through several
\* packets and two streams: every item has the highest value the server has told of it,
\* and none has the price of another.
PricesAreTheItems ==
    \A i \in ItemIds : items[i] # NULL => heap[items[i]].value = worth[i]

\* An open dialog is the one the server has, with its buttons and no others, though
\* plugins close dialogs while buttons are arriving.
OpenDialogIsTheServers ==
    dialog.opened => dialog.interact_with = talk.npc /\ dialog.buttons = talk.buttons

\* api.c:1022 leaves RequestItemQuote when the player is "Too far from merchant".
QuoteIsNear == ~far_quote

\* Not true of the code with RemovesListed: an item that is sold is freed and still
\* stands in merchant_items, which plugins follow.
ListedItemsExist == NULL \notin GetMerchantItems
=============================================================================
