------------------------------- MODULE TlsSrp -------------------------------
(***************************************************************************)
(* The TLS 1.2 SRP connection of the portal (code/portal/ssl.c): the       *)
(* handshake, the records that protect what follows, and the read buffer   *)
(* that the byte stream fills piece by piece.                              *)
(*                                                                         *)
(* Cryptography is symbolic: a key or a digest is the record of what it is *)
(* computed from, so that two are equal when their inputs are.  The server *)
(* (external) puts one handshake message in a record, as the code expects. *)
(***************************************************************************)
EXTENDS Naturals, Sequences, SequencesExt

CONSTANTS
    Account,     \* the password the server has for the account
    Typed,       \* the passwords the user may give
    RecordUnits, \* pieces of a record that the stream can cut
    HeaderUnits, \* those that hold the header of 5 bytes
    NULL

Suites == {"AES_256", "AES_128", "LEGACY_PASSWORD"}

VARIABLES
    password,       \* what init_srp hashed, in both ways
    state,          \* ssl->state
    failure,        \* why the handshake or a recv failed, or NULL
    read,           \* ssl->read
    checksum,       \* ssl->checksum: the messages it has been updated with
    which,          \* ssl->which_hash_verifier
    master,         \* ssl->master_secret
    next_read_id, next_write_id,
    toServer,       \* records on their way to the server
    toClient,       \* pieces on their way to the client
    server,         \* what the server does next
    serverSum, serverMaster, serverReadId, serverWriteId

clientVars == <<password, state, failure, read, checksum, which, master,
                next_read_id, next_write_id>>
serverVars == <<server, serverSum, serverMaster, serverReadId, serverWriteId>>
tlsVars == <<clientVars, toServer, toClient, serverVars>>

-----------------------------------------------------------------------------
(* Messages, records and pieces of records.                                *)

Message(hs, body) == [hs |-> hs, body |-> body]
Plain(type, msg) == [type |-> type, msg |-> msg, key |-> NULL, id |-> 0]
Protected(type, msg, key, id) == [type |-> type, msg |-> msg, key |-> key, id |-> id]
Pieces(record) == [i \in 1 .. RecordUnits |-> [of |-> record, part |-> i]]

\* tls_prf_sha256 over the master secret, a label and the checksum.
Finished(label, key, sum) == Message("finished", [label |-> label, key |-> key, sum |-> sum])

Awaiting == failure = NULL
AwaitsServer ==
    state \in {"AWAIT_SERVER_HELLO", "AWAIT_SERVER_KEY_EXCHANGE", "AWAIT_SERVER_HELLO_DONE",
               "AWAIT_SERVER_CHANGE_CIPHER_SPEC", "AWAIT_SERVER_ENC_HANDSHAKE"}

-----------------------------------------------------------------------------
(* The client.                                                             *)

TlsInit ==
    /\ password \in Typed
    /\ state = "AWAIT_CLIENT_HELLO" /\ failure = NULL
    /\ read = <<>> /\ checksum = <<>> /\ which = NULL /\ master = NULL
    /\ next_read_id = 0 /\ next_write_id = 0
    /\ toServer = <<>> /\ toClient = <<>>
    /\ server = "hello" /\ serverSum = <<>> /\ serverMaster = NULL
    /\ serverReadId = 0 /\ serverWriteId = 0

\* The record type that the state waits for.
Awaited ==
    CASE state = "AWAIT_SERVER_CHANGE_CIPHER_SPEC" -> "CHANGE_CIPHER_SPEC"
      [] state = "AWAIT_CLIENT_FINISHED" -> "APPLICATION_DATA"
      [] OTHER -> "HANDSHAKE"

\* The result for the record at the front of the read buffer; nothing is taken
\* before the whole record is there.
parse_tls12_handshake ==
    IF Len(read) < HeaderUnits THEN "CONTINUE_PROCESSING"
    ELSE IF read[1].of.type = "LINE" THEN "UNSUPPORTED_PROTOCOL"
    ELSE IF Len(read) < RecordUnits THEN "CONTINUE_PROCESSING"
    ELSE IF read[1].of.type # Awaited THEN "UNEXPECTED_MESSAGE"
    ELSE "OK"

TheRecord == read[1].of
Unread == SubSeq(read, RecordUnits + 1, Len(read))

\* recv_to_buffer when data is there.  At the end of the stream recv returns 0, which
\* is a success that adds nothing: the callers repeat it (no step here).
RecvToBuffer ==
    /\ Awaiting /\ parse_tls12_handshake = "CONTINUE_PROCESSING"
    /\ \E n \in 1 .. Len(toClient) :
          /\ read' = read \o SubSeq(toClient, 1, n)
          /\ toClient' = SubSeq(toClient, n + 1, Len(toClient))
    /\ UNCHANGED <<password, state, failure, checksum, which, master, next_read_id,
                   next_write_id, toServer, serverVars>>

Send(records) == toServer' = toServer \o records

\* send_client_step(ssl_srp_write_client_hello)
ssl_srp_write_client_hello ==
    LET hello == Message("client_hello", Suites)
    IN  /\ Awaiting /\ state = "AWAIT_CLIENT_HELLO"
        /\ checksum' = Append(checksum, hello)
        /\ Send(<<Plain("HANDSHAKE", hello)>>)
        /\ state' = "AWAIT_SERVER_HELLO"
        /\ UNCHANGED <<password, failure, read, which, master, next_read_id, next_write_id,
                       toClient, serverVars>>

\* Mutant: the message is summed while the record is not yet complete, and again later.
SumsEarly(expected, next, accepts) ==
    /\ Awaiting /\ state = expected /\ parse_tls12_handshake = "OK"
    /\ checksum' = IF Len(read) = RecordUnits
                   THEN checksum \o <<TheRecord.msg, TheRecord.msg>>
                   ELSE Append(checksum, TheRecord.msg)
    /\ IF accepts
       THEN state' = next /\ read' = Unread /\ UNCHANGED failure
       ELSE failure' = "BAD_INPUT_DATA" /\ UNCHANGED <<state, read>>
    /\ UNCHANGED <<password, master, next_read_id, next_write_id, toServer, toClient, serverVars>>

\* A handshake message of the server: it enters the checksum, then is looked at.
ServerStep(expected, next, accepts) ==
    /\ Awaiting /\ state = expected /\ parse_tls12_handshake = "OK"
    /\ checksum' = Append(checksum, TheRecord.msg)
    /\ IF accepts
       THEN state' = next /\ read' = Unread /\ UNCHANGED failure
       ELSE failure' = "BAD_INPUT_DATA" /\ UNCHANGED <<state, read>>
    /\ UNCHANGED <<password, master, next_read_id, next_write_id, toServer, toClient, serverVars>>

\* The hash of the password that goes with a suite; AES_128 is offered and refused.
HashOf(suite) == IF suite = "AES_256" THEN "static_verifier_hash" ELSE "static_legacy_hash"

ssl_srp_process_server_hello ==
    LET hello == TheRecord.msg
        accepts == hello.hs = "server_hello" /\ hello.body \in {"AES_256", "LEGACY_PASSWORD"}
    IN  /\ ServerStep("AWAIT_SERVER_HELLO", "AWAIT_SERVER_KEY_EXCHANGE", accepts)
        /\ which' = IF accepts THEN HashOf(hello.body) ELSE which

ssl_srp_process_server_key_exchange ==
    /\ ServerStep("AWAIT_SERVER_KEY_EXCHANGE", "AWAIT_SERVER_HELLO_DONE",
                  TheRecord.msg.hs = "server_key_exchange")
    /\ UNCHANGED which

ssl_srp_process_server_done ==
    /\ ServerStep("AWAIT_SERVER_HELLO_DONE", "AWAIT_CLIENT_KEY_EXCHANGE",
                  TheRecord.msg.hs = "server_done")
    /\ UNCHANGED which

ssl_srp_write_client_key_exchange ==
    LET public == Message("client_key_exchange", NULL)
    IN  /\ Awaiting /\ state = "AWAIT_CLIENT_KEY_EXCHANGE"
        /\ checksum' = Append(checksum, public)
        /\ Send(<<Plain("HANDSHAKE", public)>>)
        /\ state' = "AWAIT_CLIENT_CHANGE_CIPHER_SPEC"
        /\ UNCHANGED <<password, failure, read, which, master, next_read_id, next_write_id,
                       toClient, serverVars>>

ssl_srp_write_change_cipher_spec ==
    /\ Awaiting /\ state = "AWAIT_CLIENT_CHANGE_CIPHER_SPEC"
    /\ Send(<<Plain("CHANGE_CIPHER_SPEC", NULL)>>)
    /\ state' = "AWAIT_CLIENT_HANDSHAKE"
    /\ UNCHANGED <<password, failure, read, checksum, which, master, next_read_id,
                   next_write_id, toClient, serverVars>>

\* The secret that SRP gives for the hash of the password that the suite calls for.
premaster_secret == [hash |-> which, password |-> password]

\* ssl_sts_connection_setup_ciphers, ssl_srp_write_finished, send_internal: the digest
\* in the message is over the messages before it, then the message is summed as well.
ClientFinished ==
    LET secret == premaster_secret
        finished == Finished("client finished", secret, checksum)
    IN  /\ Awaiting /\ state = "AWAIT_CLIENT_HANDSHAKE"
        /\ master' = secret
        /\ checksum' = Append(checksum, finished)
        /\ Send(<<Protected("HANDSHAKE", finished, secret, next_write_id)>>)
        /\ next_write_id' = next_write_id + 1
        /\ state' = "AWAIT_SERVER_CHANGE_CIPHER_SPEC"
        /\ UNCHANGED <<password, failure, read, which, next_read_id, toClient, serverVars>>

ssl_srp_process_change_cipher_spec ==
    /\ Awaiting /\ state = "AWAIT_SERVER_CHANGE_CIPHER_SPEC" /\ parse_tls12_handshake = "OK"
    /\ read' = Unread
    /\ state' = "AWAIT_SERVER_ENC_HANDSHAKE"
    /\ UNCHANGED <<password, failure, checksum, which, master, next_read_id, next_write_id,
                   toServer, toClient, serverVars>>

\* ssl_sts_connection_recv_internal has a whole record: it decrypts under the key
\* and the number of the record, or the HMAC does not match.
Authentic == TheRecord.key = master /\ TheRecord.id = next_read_id

\* Mutant: whatever the server's digest is.
FinishedUnchecked ==
    /\ Awaiting /\ state = "AWAIT_SERVER_ENC_HANDSHAKE" /\ parse_tls12_handshake = "OK"
    /\ next_read_id' = next_read_id + 1
    /\ read' = <<>> /\ state' = "AWAIT_CLIENT_FINISHED"
    /\ UNCHANGED <<password, failure, checksum, which, master, next_write_id, toServer,
                   toClient, serverVars>>

\* The last step; ssl_sts_connection_handshake then clears the read buffer.
ssl_srp_process_encrypted_handshake ==
    /\ Awaiting /\ state = "AWAIT_SERVER_ENC_HANDSHAKE" /\ parse_tls12_handshake = "OK"
    /\ next_read_id' = next_read_id + 1
    /\ IF Authentic /\ TheRecord.msg = Finished("server finished", master, checksum)
       THEN read' = <<>> /\ state' = "AWAIT_CLIENT_FINISHED" /\ UNCHANGED failure
       ELSE /\ failure' = IF Authentic THEN "BAD_INPUT_DATA" ELSE "HMAC"
            /\ UNCHANGED <<read, state>>
    /\ UNCHANGED <<password, checksum, which, master, next_write_id, toServer, toClient,
                   serverVars>>

\* Mutant: an alert is shown and nothing else.
ShowsAlert ==
    /\ Awaiting
    /\ parse_tls12_handshake = "UNSUPPORTED_PROTOCOL"
    /\ failure' = parse_tls12_handshake
    /\ UNCHANGED <<password, state, read, checksum, which, master, next_read_id,
                   next_write_id, toServer, toClient, serverVars>>

\* A record that is not what a waiting client parses.
ParseFails ==
    /\ Awaiting
    /\ parse_tls12_handshake \in {"UNSUPPORTED_PROTOCOL", "UNEXPECTED_MESSAGE"}
    /\ failure' = parse_tls12_handshake
    /\ UNCHANGED <<password, state, read, checksum, which, master, next_read_id,
                   next_write_id, toServer, toClient, serverVars>>

Handshaken == state = "AWAIT_CLIENT_FINISHED"

\* ssl_sts_connection_handshake
Handshake ==
    \/ ssl_srp_write_client_hello
    \/ ssl_srp_process_server_hello
    \/ ssl_srp_process_server_key_exchange
    \/ ssl_srp_process_server_done
    \/ ssl_srp_write_client_key_exchange
    \/ ssl_srp_write_change_cipher_spec
    \/ ClientFinished
    \/ ssl_srp_process_change_cipher_spec
    \/ ssl_srp_process_encrypted_handshake
    \/ AwaitsServer /\ (RecvToBuffer \/ ParseFails)

-----------------------------------------------------------------------------
(* The server (external).                                                  *)

Reply(records) == toClient' = toClient \o FlattenSeq([i \in DOMAIN records |-> Pieces(records[i])])

ServerHello ==
    /\ server = "hello" /\ toServer # <<>> /\ Head(toServer).type = "HANDSHAKE"
    /\ \E suite \in Suites :
          LET flight == <<Message("server_hello", suite),
                          Message("server_key_exchange", NULL), Message("server_done", NULL)>>
          IN  /\ Reply([i \in 1 .. 3 |-> Plain("HANDSHAKE", flight[i])])
              /\ serverSum' = <<Head(toServer).msg>> \o flight
              /\ serverMaster' = [hash |-> IF suite = "AES_256" THEN "static_verifier_hash"
                                                                ELSE "static_legacy_hash",
                                  password |-> Account]
    /\ server' = "key_exchange" /\ toServer' = Tail(toServer)
    /\ UNCHANGED <<clientVars, serverReadId, serverWriteId>>

ServerKeyExchange ==
    /\ server = "key_exchange" /\ toServer # <<>>
    /\ serverSum' = Append(serverSum, Head(toServer).msg)
    /\ server' = "change_cipher_spec" /\ toServer' = Tail(toServer)
    /\ UNCHANGED <<clientVars, toClient, serverMaster, serverReadId, serverWriteId>>

ServerChangeCipherSpec ==
    /\ server = "change_cipher_spec" /\ toServer # <<>>
    /\ server' = "finished" /\ toServer' = Tail(toServer)
    /\ UNCHANGED <<clientVars, toClient, serverSum, serverMaster, serverReadId, serverWriteId>>

ServerTakes(record) == record.key = serverMaster /\ record.id = serverReadId

\* Also a server that does not check the client goes on with its own key.
ServerFinished(unchecked) ==
    /\ server = "finished" /\ toServer # <<>>
    /\ LET sum == Append(serverSum, Head(toServer).msg)
           verified == /\ ServerTakes(Head(toServer))
                       /\ Head(toServer).msg = Finished("client finished", serverMaster, serverSum)
       IN  IF verified \/ unchecked
           THEN /\ Reply(<<Plain("CHANGE_CIPHER_SPEC", NULL),
                           Protected("HANDSHAKE", Finished("server finished", serverMaster, sum),
                                     serverMaster, serverWriteId)>>)
                /\ serverSum' = sum /\ server' = "requests"
                /\ serverReadId' = serverReadId + 1 /\ serverWriteId' = serverWriteId + 1
           ELSE /\ Reply(<<Plain("ALERT", NULL)>>)
                /\ server' = "refused" /\ UNCHANGED <<serverSum, serverReadId, serverWriteId>>
    /\ toServer' = Tail(toServer)
    /\ UNCHANGED <<clientVars, serverMaster>>

\* The server may refuse at any time before it has finished.
ServerAlert ==
    /\ server \in {"key_exchange", "change_cipher_spec", "finished"}
    /\ Reply(<<Plain("ALERT", NULL)>>)
    /\ server' = "refused"
    /\ UNCHANGED <<clientVars, toServer, serverSum, serverMaster, serverReadId, serverWriteId>>

ServerHandshake ==
    \/ ServerHello \/ ServerKeyExchange \/ ServerChangeCipherSpec \/ ServerAlert
    \/ \E unchecked \in BOOLEAN : ServerFinished(unchecked)

-----------------------------------------------------------------------------
(* Properties of the handshake.                                            *)

\* A handshake that succeeded was with a server that has the password and has seen the
\* same messages, even if that server did not check the client.
Agreement ==
    Handshaken => password = Account /\ master = serverMaster /\ checksum = serverSum

\* However the stream is cut, each message of the server is summed once and in order
\* (the comment on the checksum in parse_tls12_handshake): of the two transcripts one
\* continues the other.
TranscriptsAgree == IsPrefix(serverSum, checksum) \/ IsPrefix(checksum, serverSum)

\* The numbers of the records, which enter each HMAC, stay in step through the handshake
\* and the requests: between equal keys no record of the server is refused for its HMAC.
NumbersInStep == failure = "HMAC" => master # serverMaster

\* Both: what the two sides count and sum on their own stays the same.
SidesInStep == TranscriptsAgree /\ NumbersInStep
=============================================================================
