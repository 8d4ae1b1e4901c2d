---------------------------- MODULE PortalLogin ----------------------------
(***************************************************************************)
(* portal_login (code/portal/login.c): the STS dialogue (sts.c) that opens *)
(* the connection, the handshake of TlsSrp, and the requests under it that *)
(* end in a user id and a game token.  The program does this before it     *)
(* starts the client, in its only thread.                                  *)
(*                                                                         *)
(* A reply is lines of two pieces each: a line is whole when its second    *)
(* piece, with the line ending, has come.                                  *)
(***************************************************************************)
EXTENDS TlsSrp

ASSUME PortalAssumption ==
    /\ Account \in Typed
    /\ NULL \notin {"HMAC", "BAD_INPUT_DATA", "UNSUPPORTED_PROTOCOL", "UNEXPECTED_MESSAGE"}
    /\ NULL \notin {"UserId", "Token", "Totp", "Email", "SMS"}
    /\ HeaderUnits \in 1 .. RecordUnits /\ RecordUnits \in Nat

VARIABLES
    step,           \* the function that portal_login is in
    waiting,        \* the request of the step is sent
    seq_number,     \* sts.seq_number
    response,       \* what has come of the reply
    user_id, token, \* whether they have been parsed
    factor,         \* the server's second factor: none, demanded or passed
    closed          \* the server has closed the connection

portalVars == <<step, waiting, seq_number, response, user_id, token, factor, closed>>
vars == <<tlsVars, portalVars>>

TwoFactor == {"Totp", "Email", "SMS"}
Requests == {"auth_login_finish", "auth2f_upgrade_totp", "auth_list_game_accounts",
             "auth_request_game_token"}
Steps == Requests \cup {"sts_connection_connect", "sts_connection_start_tls",
                        "ssl_sts_connection_handshake", "done", "failed"}
Returned == step \in {"done", "failed"}

TypeOK ==
    /\ step \in Steps /\ waiting \in BOOLEAN
    /\ seq_number \in 0 .. Cardinality(Requests) + 1
    /\ next_write_id \in 0 .. Cardinality(Requests) + 1 /\ next_read_id \in Nat
    /\ \A s \in {read, response, toClient} : \A i \in DOMAIN s :
          s[i].part \in 1 .. RecordUnits /\ (s[i].of.type = "LINE" => s[i].part <= 2)
    /\ user_id \in BOOLEAN /\ token \in BOOLEAN
    /\ factor \in {"none", "demanded", "passed"} /\ closed \in BOOLEAN

Init ==
    /\ TlsInit
    /\ step = "sts_connection_connect" /\ waiting = FALSE
    /\ seq_number = 0 /\ response = <<>>
    /\ user_id = FALSE /\ token = FALSE
    /\ factor = "none" /\ closed = FALSE

-----------------------------------------------------------------------------
(* Replies.                                                                *)

\* The two pieces of a line, or of a content.
Line(kind, val) == [i \in 1 .. 2 |-> [of |-> [type |-> "LINE", kind |-> kind, val |-> val],
                                      part |-> i]]

\* The server's reply; l: counts the pieces of the content.
ReplyText(status, number, content) ==
    Line("status", status) \o Line("s", number)
        \o Line("l", IF content = NULL THEN 0 ELSE 2) \o Line("", 0)
        \o IF content = NULL THEN <<>> ELSE Line("content", content)

\* The value of the first line of a kind.
ValueOf(text, kind, default) ==
    IF \E i \in DOMAIN text : text[i].of.kind = kind
    THEN text[CHOOSE i \in DOMAIN text : text[i].of.kind = kind].of.val
    ELSE default

\* The header ends with the empty line; when the bytes end with a line, the loop over
\* the lines ends as well and the header passes for complete (length is 0).
sts_parse_reply(text) ==
    LET whole(i) == text[i].part = 2 /\ text[i].of.kind # "content"
        empty == {i \in DOMAIN text : whole(i) /\ text[i].of.kind = ""}
        head == IF empty = {} THEN text
                ELSE SubSeq(text, 1, CHOOSE i \in empty : \A j \in empty : i <= j)
        content == SubSeq(text, Len(head) + 1, Len(text))
        ret == IF ~ \E i \in DOMAIN text : whole(i) THEN "INCOMPLETE_HEADER"
               ELSE IF text[1].of.kind # "status" THEN "UNSUPPORTED_PROTOCOL"
               ELSE IF ~whole(Len(head)) THEN "INCOMPLETE_HEADER"
               ELSE IF Len(content) < ValueOf(head, "l", 0) THEN "INCOMPLETE_CONTENT"
               ELSE "SUCCESS"
    IN  [ret |-> ret,
         status_code |-> ValueOf(head, "status", 0),
         sequence_number |-> ValueOf(head, "s", 0),
         content |-> ValueOf(content, "content", NULL)]

Incomplete(reply) == reply.ret \in {"INCOMPLETE_HEADER", "INCOMPLETE_CONTENT"}

-----------------------------------------------------------------------------
(* The dialogue in clear (sts.c).                                          *)

\* sts_connection_connect: the server does not answer this request.
sts_connection_connect ==
    /\ step = "sts_connection_connect"
    /\ step' = "sts_connection_start_tls"
    /\ UNCHANGED <<tlsVars, waiting, seq_number, response, user_id, token, factor, closed>>

StartTlsRequest ==
    /\ step = "sts_connection_start_tls" /\ ~waiting
    /\ seq_number' = seq_number + 1
    /\ Send(<<Plain("STS", seq_number')>>)
    /\ waiting' = TRUE
    /\ UNCHANGED <<clientVars, toClient, serverVars, step, response, user_id, token, factor, closed>>

\* Some bytes come and all that has come is parsed; what follows in the buffer of a reply
\* that is complete is dropped with it.
StartTlsReply ==
    /\ step = "sts_connection_start_tls" /\ waiting
    /\ \E n \in 1 .. Len(toClient) :
          LET text == response \o SubSeq(toClient, 1, n)
              reply == sts_parse_reply(text)
          IN  /\ toClient' = SubSeq(toClient, n + 1, Len(toClient))
              /\ IF Incomplete(reply)
                 THEN response' = text /\ UNCHANGED <<step, waiting>>
                 ELSE /\ response' = <<>> /\ waiting' = FALSE
                      /\ step' = IF reply.ret = "SUCCESS" /\ reply.status_code = 400
                                 THEN "ssl_sts_connection_handshake" ELSE "failed"
    /\ UNCHANGED <<clientVars, toServer, serverVars, seq_number, user_id, token, factor, closed>>

-----------------------------------------------------------------------------
(* The handshake and the requests under it.                                *)

PortalHandshake ==
    /\ step = "ssl_sts_connection_handshake" /\ Handshake
    /\ step' = IF failure' # NULL THEN "failed"
               ELSE IF Handshaken' THEN "auth_login_finish" ELSE step
    /\ UNCHANGED <<waiting, seq_number, response, user_id, token, factor, closed>>

\* ssl_sts_connection_send of a request with the next number; `code' is the one of the
\* second factor.
SendRequest(code) ==
    /\ seq_number' = seq_number + 1
    /\ Send(<<Protected("APPLICATION_DATA",
                        [hs |-> step, body |-> [number |-> seq_number', code |-> code]],
                        master, next_write_id)>>)
    /\ next_write_id' = next_write_id + 1
    /\ waiting' = TRUE /\ response' = <<>>
    /\ UNCHANGED <<password, state, failure, read, checksum, which, master, next_read_id,
                   toClient, serverVars, step, user_id, token, factor, closed>>

Request ==
    /\ step \in Requests \ {"auth2f_upgrade_totp"} /\ ~waiting
    /\ SendRequest(NULL)

\* The code of the second factor: computed, right or wrong, or given by the user.
Upgrade ==
    /\ step = "auth2f_upgrade_totp" /\ ~waiting
    /\ \E code \in {"right", "wrong"} : SendRequest(code)

\* totp or read_user_code fails.
NoCode ==
    /\ step = "auth2f_upgrade_totp" /\ ~waiting
    /\ step' = "failed"
    /\ UNCHANGED <<tlsVars, waiting, seq_number, response, user_id, token, factor, closed>>

\* Mutant: a reply without a user id is as good as one with it.
IdUnchecked(reply) ==
    CASE step = "auth_login_finish" /\ reply.content \in TwoFactor -> "auth2f_upgrade_totp"
      [] step \in {"auth_login_finish", "auth2f_upgrade_totp"} -> "auth_list_game_accounts"
      [] step = "auth_list_game_accounts" -> "auth_request_game_token"
      [] step = "auth_request_game_token" /\ reply.content = "Token" -> "done"
      [] OTHER -> "failed"

\* Where portal_login goes after a reply that recv_sts_response took.
Following(reply) ==
    CASE step = "auth_login_finish" /\ reply.content = "UserId" -> "auth_list_game_accounts"
      [] step = "auth_login_finish" /\ reply.content \in TwoFactor -> "auth2f_upgrade_totp"
      [] step = "auth2f_upgrade_totp" /\ reply.content = "UserId" -> "auth_list_game_accounts"
      [] step = "auth_list_game_accounts" -> "auth_request_game_token"
      [] step = "auth_request_game_token" /\ reply.content = "Token" -> "done"
      [] OTHER -> "failed"

\* recv_sts_response for one more record, and the function that waits for it.
RecvResponse ==
    /\ step \in Requests /\ waiting /\ parse_tls12_handshake = "OK"
    /\ IF ~Authentic
       THEN failure' = "HMAC" /\ step' = "failed"
            /\ UNCHANGED <<read, response, next_read_id, user_id, token, waiting>>
       ELSE LET text == response \o TheRecord.msg
                reply == sts_parse_reply(text)
                taken == /\ reply.ret = "SUCCESS" /\ reply.status_code = 200
                         /\ reply.sequence_number = seq_number
                next == IF taken THEN Following(reply) ELSE "failed"
            IN  /\ read' = Unread /\ next_read_id' = next_read_id + 1 /\ UNCHANGED failure
                /\ response' = text
                /\ IF Incomplete(reply)
                   THEN UNCHANGED <<step, waiting, user_id, token>>
                   ELSE /\ step' = next /\ waiting' = FALSE
                        /\ user_id' = (user_id \/ (taken /\ reply.content = "UserId"))
                        /\ token' = (token \/ next = "done")
    /\ UNCHANGED <<password, state, checksum, which, master, next_write_id, toServer, toClient,
                   serverVars, seq_number, factor, closed>>

RecvMore ==
    /\ step \in Requests /\ waiting
    /\ RecvToBuffer \/ ParseFails
    /\ step' = IF failure' # NULL THEN "failed" ELSE step
    /\ UNCHANGED <<waiting, seq_number, response, user_id, token, factor, closed>>

Client ==
    \/ sts_connection_connect \/ StartTlsRequest \/ StartTlsReply
    \/ PortalHandshake
    \/ Request \/ Upgrade \/ NoCode \/ RecvMore \/ RecvResponse

-----------------------------------------------------------------------------
(* The server (external).                                                  *)

ServerStartsTls ==
    /\ toServer # <<>> /\ Head(toServer).type = "STS"
    /\ \E status \in {400, 500} :
          toClient' = toClient \o ReplyText(status, Head(toServer).msg, NULL)
    /\ toServer' = Tail(toServer)
    /\ UNCHANGED <<clientVars, serverVars, portalVars>>

\* What the server may answer to a request: a status and a content.
Answers(request) ==
    {<<401, NULL>>} \cup
    (CASE request.hs = "auth_login_finish" -> {200} \X ({"UserId", "Malformed"} \cup TwoFactor)
      [] request.hs = "auth2f_upgrade_totp" /\ request.body.code = "right" ->
            {<<200, "UserId">>, <<200, "Malformed">>}
      [] request.hs = "auth_list_game_accounts" -> {<<200, "Row">>}
      [] request.hs = "auth_request_game_token" /\ factor # "demanded" ->
            {<<200, "Token">>, <<200, "Malformed">>}
      [] OTHER -> {})

\* The reply in one record, or cut into two.
Records(text) ==
    {<<text>>} \cup {<<SubSeq(text, 1, n), SubSeq(text, n + 1, Len(text))>> : n \in 1 .. Len(text) - 1}

ServerAnswers ==
    /\ server = "requests" /\ toServer # <<>>
    /\ LET request == Head(toServer).msg
       IN  \E answer \in Answers(request) :
             \E texts \in Records(ReplyText(answer[1], request.body.number, answer[2])) :
                /\ Reply([i \in DOMAIN texts |->
                             Protected("APPLICATION_DATA", texts[i], serverMaster,
                                       serverWriteId + i - 1)])
                /\ serverWriteId' = serverWriteId + Len(texts)
                /\ factor' = IF answer[2] \in TwoFactor THEN "demanded"
                             ELSE IF request.hs = "auth2f_upgrade_totp" /\ answer[1] = 200
                             THEN "passed" ELSE factor
    /\ ServerTakes(Head(toServer))
    /\ serverReadId' = serverReadId + 1 /\ toServer' = Tail(toServer)
    /\ UNCHANGED <<clientVars, server, serverSum, serverMaster, step, waiting, seq_number,
                   response, user_id, token, closed>>

Server ==
    /\ ~closed
    /\ ServerStartsTls \/ ServerAnswers \/ (ServerHandshake /\ UNCHANGED portalVars)

ServerCloses ==
    /\ ~closed /\ closed' = TRUE
    /\ UNCHANGED <<tlsVars, step, waiting, seq_number, response, user_id, token, factor>>

Next == Client \/ Server \/ ServerCloses

\* The only thread runs on, the user answers, the server answers until it closes.
Spec == Init /\ [][Next]_vars /\ WF_vars(Client) /\ WF_vars(Server)

-----------------------------------------------------------------------------
(* Properties.                                                             *)

\* portal_login succeeds with what this server gave to this user: the password was the
\* account's, the second factor was passed if it was demanded, and both ids have been read.
LoginIsGranted ==
    step = "done" =>
        /\ password = Account /\ master = serverMaster
        /\ factor # "demanded"
        /\ user_id /\ token

\* portal_login returns, unless the server closes the connection: then the end of
\* the stream passes for a success in recv_to_buffer, and the loops around it never end.
LoginReturns == <>(Returned \/ closed)

\* "We wait till we receive all the header and all the content." (sts.c:348): the bytes
\* of the reply are gone when the handshake begins.
WaitsForWholeReply ==
    step = "ssl_sts_connection_handshake" =>
        \A i \in DOMAIN toClient : toClient[i].of.type # "LINE"
=============================================================================
