-------------------------------- MODULE Chat --------------------------------
(***************************************************************************)
(* Chat (code/client/chat.c).  The text of a message comes in pieces, one  *)
(* packet each, which are collected in client->chat.str_builder; a packet   *)
(* with the sender and the channel ends it.  The builder belongs to the     *)
(* client and not to the world, so it outlives a change of the game server. *)
(* Whispers are whole, and come from the auth server.                       *)
(*                                                                         *)
(* The game server (external) keeps `sending', the message it is in the     *)
(* middle of.  A piece is the pair of a message and the number of the piece. *)
(*                                                                         *)
(* Left out: the text of a piece, names and tags, and what plugins send     *)
(* (one packet, refused when it is too long).                               *)
(***************************************************************************)
EXTENDS Integers, SequencesExt

CONSTANTS
    Messages,
    MaxPieces,      \* bound on the pieces of a message
    MaxTorn,        \* bound on the pieces whose messages' ends are lost, when one more is lost
    NULL

VARIABLES
    subscribed,     \* is_event_subscribed(EventType_ChatMessage)
    secured,        \* client->game_srv.secured
    str_builder,
    sending,
    torn,           \* the pieces in the builder that are of messages whose end is lost
    told,           \* the last event: the message it ends, and what plugins have been given
    aborted         \* the handler whose assert ended the process, or NULL

vars == <<subscribed, secured, str_builder, sending, torn, told, aborted>>

Alive == aborted = NULL

\* init_chat, and the first game server is connected.
Init ==
    /\ subscribed = FALSE
    /\ secured = TRUE
    /\ str_builder = <<>>
    /\ sending = NULL
    /\ torn = 0
    /\ told = NULL
    /\ aborted = NULL

Pieces(message, size) == [n \in 1 .. size |-> <<message, n>>]

-----------------------------------------------------------------------------
(* Messages of the game server.                                            *)

\* The next piece of the message, or the first one of another.
HandleChatMessageCore ==
    /\ Alive /\ secured
    /\ \/ /\ sending = NULL
          /\ \E m \in Messages, size \in 1 .. MaxPieces :
                sending' = [message |-> m, size |-> size, sent |-> 1]
       \/ /\ sending # NULL /\ sending.sent < sending.size
          /\ sending' = [sending EXCEPT !.sent = @ + 1]
    /\ str_builder' = Append(str_builder, <<sending'.message, sending'.sent>>)
    /\ UNCHANGED <<subscribed, secured, torn, told, aborted>>

Ended == Alive /\ secured /\ sending # NULL /\ sending.sent = sending.size

\* broadcast_event, or one of the early exits before it.
Broadcast(heard) ==
    told' = IF heard THEN [sent |-> Pieces(sending.message, sending.size),
                           got |-> str_builder, torn |-> torn]
            ELSE told

\* Mutant: without a subscriber, the handler just returns.
LocalReturnsEarly(player, channel) ==
    /\ Ended
    /\ Broadcast(subscribed /\ channel /\ player)
    /\ str_builder' = IF subscribed THEN <<>> ELSE str_builder
    /\ torn' = 0 /\ sending' = NULL
    /\ UNCHANGED <<subscribed, secured, aborted>>

\* Nothing is told of a channel that is too big, nor of a sender that has left; every exit
\* clears the builder.
HandleChatMessageLocal(player, channel) ==
    /\ Ended
    /\ Broadcast(subscribed /\ channel /\ player)
    /\ str_builder' = <<>> /\ torn' = 0
    /\ sending' = NULL
    /\ UNCHANGED <<subscribed, secured, aborted>>

HandleChatMessageGlobal(channel) ==
    /\ Ended
    /\ Broadcast(subscribed /\ channel)
    /\ str_builder' = <<>> /\ torn' = 0
    /\ sending' = NULL
    /\ UNCHANGED <<subscribed, secured, aborted>>

HandleChatMessageServer(channel) ==
    /\ Ended
    /\ Broadcast(subscribed /\ channel)
    /\ str_builder' = <<>> /\ torn' = 0
    /\ sending' = NULL
    /\ UNCHANGED <<subscribed, secured, aborted>>

-----------------------------------------------------------------------------
(* Whispers of the auth server, plugins, and the connection.               *)

HandleWhisperReceived(message) ==
    /\ Alive
    /\ IF secured
       THEN /\ told' = IF subscribed THEN [sent |-> Pieces(message, 1),
                                           got |-> Pieces(message, 1), torn |-> 0]
                       ELSE told
            /\ UNCHANGED aborted
       ELSE aborted' = "HandleWhisperReceived" /\ UNCHANGED told
    /\ UNCHANGED <<subscribed, secured, str_builder, sending, torn>>

\* RegisterEvent, UnRegisterEvent: a plugin may do either in the middle of a message.
PluginSubscribes ==
    /\ Alive
    /\ subscribed' = ~subscribed
    /\ UNCHANGED <<secured, str_builder, sending, torn, told, aborted>>

\* The connection is lost, or shut down for another game server: NetConn_Update.
GameConnectionEnds ==
    /\ Alive /\ secured
    /\ sending # NULL => torn < MaxTorn
    /\ secured' = FALSE
    /\ sending' = NULL
    /\ torn' = Len(str_builder)
    /\ UNCHANGED <<subscribed, str_builder, told, aborted>>

GameSrv_Connect ==
    /\ Alive /\ ~secured
    /\ secured' = TRUE
    /\ UNCHANGED <<subscribed, str_builder, sending, torn, told, aborted>>

Next ==
    \/ HandleChatMessageCore
    \/ \E player, channel \in BOOLEAN : HandleChatMessageLocal(player, channel)
    \/ \E channel \in BOOLEAN : HandleChatMessageGlobal(channel) \/ HandleChatMessageServer(channel)
    \/ \E m \in Messages : HandleWhisperReceived(m)
    \/ PluginSubscribes
    \/ GameConnectionEnds
    \/ GameSrv_Connect

Spec == Init /\ [][Next]_vars

-----------------------------------------------------------------------------
(* Properties                                                              *)

\* A plugin is told exactly the message that the server has ended: nothing is missing of
\* it, whoever subscribes in the middle of it, and nothing is left of an earlier one that
\* nobody was told of.  When the connection ended in the middle of a message, its pieces
\* come before the next one, and before no other.
MessageIsWhole ==
    told # NULL => SubSeq(told.got, told.torn + 1, Len(told.got)) = told.sent

\* Not true of the code: a message that is torn by the end of the connection is not told
\* with the next one.  Nothing clears the builder when the game server changes.
MessageIsAlone == told # NULL => told.got = told.sent

\* chat.c:251 asserts that the game server's connection is secured when a whisper comes.
\* Whispers come from the auth server, whose connection stays while the game server changes.
WhisperFindsGameServer == aborted # "HandleWhisperReceived"
=============================================================================
