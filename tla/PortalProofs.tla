----------------------------- MODULE PortalProofs -----------------------------
(***************************************************************************)
(* Proofs about PortalLogin and the handshake of TlsSrp in it, for any     *)
(* passwords and any way the stream is cut.                                *)
(***************************************************************************)
EXTENDS PortalLogin, SequenceTheorems, WellFoundedInduction, TLAPS

-----------------------------------------------------------------------------
(* The stream to the client and the queue to the server.                   *)

IsSeq(s) == s \in Seq(ToSet(s))

\* All that the server has sent and the client has not taken.
Stream == read \o toClient

\* What is left of the reply in clear: the client never gets behind it.
Residue == Stream # <<>> /\ Stream[1].of.type = "LINE"

\* The place of a record among those of the server.
Number(r) ==
    IF r.type = "APPLICATION_DATA" THEN 5 + r.id
    ELSE IF r.type # "HANDSHAKE" THEN 4
    ELSE IF r.msg.hs = "server_hello" THEN 1
    ELSE IF r.msg.hs = "server_key_exchange" THEN 2
    ELSE IF r.msg.hs = "server_done" THEN 3
    ELSE 5

\* The pieces s are the whole records a, a + 1, ..., m - 1.
Chain(s, a, m) ==
    /\ s = <<>> => a = m
    /\ s # <<>> => /\ s[1].part = 1 /\ Number(s[1].of) = a
                   /\ s[Len(s)].part = RecordUnits /\ Number(s[Len(s)].of) + 1 = m
    /\ \A i \in 1 .. Len(s) - 1 :
          IF s[i].part = RecordUnits
          THEN s[i + 1].part = 1 /\ Number(s[i + 1].of) = Number(s[i].of) + 1
          ELSE s[i + 1].of = s[i].of /\ s[i + 1].part = s[i].part + 1

\* The place of a record among those of the client; 0 is the request in clear.
OutNumber(r) ==
    IF r.type = "APPLICATION_DATA" THEN 4 + r.id
    ELSE IF r.type = "STS" THEN 0
    ELSE IF r.type = "CHANGE_CIPHER_SPEC" THEN 3
    ELSE IF r.msg.hs = "client_hello" THEN 1
    ELSE IF r.msg.hs = "client_key_exchange" THEN 2
    ELSE 4

\* The records a, a + 1, ..., m - 1.
Queue(s, a, m) ==
    /\ s = <<>> => a = m
    /\ s # <<>> => OutNumber(s[1]) = a /\ OutNumber(s[Len(s)]) + 1 = m
    /\ \A i \in 1 .. Len(s) - 1 : OutNumber(s[i + 1]) = OutNumber(s[i]) + 1

-----------------------------------------------------------------------------
(* Where each side is                                                      *)

\* The client waits for this record, has summed so many messages and writes this record.
NextIn ==
    IF state \in {"AWAIT_CLIENT_HELLO", "AWAIT_SERVER_HELLO"} THEN 1
    ELSE IF state = "AWAIT_SERVER_KEY_EXCHANGE" THEN 2
    ELSE IF state = "AWAIT_SERVER_HELLO_DONE" THEN 3
    ELSE IF state = "AWAIT_SERVER_ENC_HANDSHAKE" THEN 5
    ELSE IF state = "AWAIT_CLIENT_FINISHED" THEN 5 + next_read_id
    ELSE 4

Summed ==
    IF state = "AWAIT_CLIENT_HELLO" THEN 0
    ELSE IF state = "AWAIT_SERVER_HELLO" THEN 1
    ELSE IF state = "AWAIT_SERVER_KEY_EXCHANGE" THEN 2
    ELSE IF state = "AWAIT_SERVER_HELLO_DONE" THEN 3
    ELSE IF state = "AWAIT_CLIENT_KEY_EXCHANGE" THEN 4
    ELSE IF state \in {"AWAIT_CLIENT_CHANGE_CIPHER_SPEC", "AWAIT_CLIENT_HANDSHAKE"} THEN 5
    ELSE 6

HasFinished ==
    state \in {"AWAIT_SERVER_CHANGE_CIPHER_SPEC", "AWAIT_SERVER_ENC_HANDSHAKE",
               "AWAIT_CLIENT_FINISHED"}

NextOut ==
    IF HasFinished THEN 4 + next_write_id
    ELSE IF state = "AWAIT_CLIENT_HANDSHAKE" THEN 4
    ELSE IF state = "AWAIT_CLIENT_CHANGE_CIPHER_SPEC" THEN 3
    ELSE IF state = "AWAIT_CLIENT_HELLO" THEN 1
    ELSE 2

\* The server writes this record, has summed so many messages and waits for this record.
ServerNextOut ==
    IF server = "hello" THEN 1
    ELSE IF server = "requests" THEN 5 + serverWriteId
    ELSE IF server = "refused" THEN 5
    ELSE 4

ServerNextIn ==
    IF server = "hello" THEN 1
    ELSE IF server = "key_exchange" THEN 2
    ELSE IF server = "change_cipher_spec" THEN 3
    ELSE IF server = "finished" THEN 4
    ELSE 4 + serverReadId

States ==
    {"AWAIT_CLIENT_HELLO", "AWAIT_SERVER_HELLO", "AWAIT_SERVER_KEY_EXCHANGE",
     "AWAIT_SERVER_HELLO_DONE", "AWAIT_CLIENT_KEY_EXCHANGE",
     "AWAIT_CLIENT_CHANGE_CIPHER_SPEC", "AWAIT_CLIENT_HANDSHAKE",
     "AWAIT_SERVER_CHANGE_CIPHER_SPEC", "AWAIT_SERVER_ENC_HANDSHAKE",
     "AWAIT_CLIENT_FINISHED"}

ServerStates ==
    {"hello", "key_exchange", "change_cipher_spec", "finished", "requests", "refused"}

-----------------------------------------------------------------------------
(* The inductive invariant                                                 *)

\* What comes and goes are sequences.
SeqInv ==
    /\ IsSeq(read) /\ IsSeq(toClient) /\ IsSeq(toServer)
    /\ IsSeq(checksum) /\ IsSeq(serverSum) /\ IsSeq(response)

\* The counters of both sides, by where each is.
ClientInv ==
    /\ state \in States
    /\ next_read_id \in Nat /\ next_write_id \in Nat
    /\ ~HasFinished => next_write_id = 0
    /\ HasFinished => /\ master = premaster_secret
                      /\ next_write_id # 0
                      /\ ~Handshaken => next_write_id = 1
    /\ ~Handshaken /\ failure = NULL => next_read_id = 0
    /\ Handshaken => next_read_id # 0
    /\ Len(checksum) \in {Summed, Summed + 1}
    /\ failure = NULL \/ Handshaken => Len(checksum) = Summed

\* The same for the server, which knows the account's password.
ServerInv ==
    /\ server \in ServerStates
    /\ serverReadId \in Nat /\ serverWriteId \in Nat
    /\ server # "requests" => serverReadId = 0 /\ serverWriteId = 0
    /\ server = "requests" => /\ serverReadId # 0 /\ serverWriteId # 0
                              /\ serverReadId = 1 => serverWriteId = 1
                              /\ Len(serverSum) = 6
    /\ server = "hello" => serverSum = <<>>
    /\ server = "key_exchange" => Len(serverSum) = 4
    /\ server \in {"change_cipher_spec", "finished"} => Len(serverSum) = 5
    /\ server = "refused" => Len(serverSum) \in {4, 5}
    /\ server # "hello" => /\ serverMaster.password = Account
                           /\ serverSum[2].hs = "server_hello"
                           /\ serverSum[3].hs = "server_key_exchange"
                           /\ serverSum[4].hs = "server_done"

\* What a record of the server can be.
IsSent(r) ==
    \/ r.type = "LINE" /\ r.kind # "content"
    \/ server # "hello" /\ \E n \in 2 .. 4 : r = Plain("HANDSHAKE", serverSum[n])
    \/ server = "refused" /\ r = Plain("ALERT", NULL)
    \/ /\ server = "requests"
       /\ \/ r = Plain("CHANGE_CIPHER_SPEC", NULL)
          \/ r = Protected("HANDSHAKE", Finished("server finished", serverMaster, serverSum),
                           serverMaster, 0)
          \/ /\ r.type = "APPLICATION_DATA" /\ r.key = serverMaster
             /\ r.id \in Nat \ {0} /\ IsSeq(r.msg)

\* Nothing of the stream is missing, twice or out of order.
StreamInv ==
    /\ \A i \in DOMAIN Stream : IsSent(Stream[i].of)
    /\ server = "hello" => \A i \in DOMAIN Stream : Stream[i].of.type = "LINE"
    /\ server = "hello" => state \in {"AWAIT_CLIENT_HELLO", "AWAIT_SERVER_HELLO"}
    /\ state = "AWAIT_CLIENT_HELLO" => server = "hello" /\ checksum = <<>>
    /\ Residue => state \in {"AWAIT_CLIENT_HELLO", "AWAIT_SERVER_HELLO"}
    /\ ~Residue => /\ Chain(Stream, NextIn, ServerNextOut)
                   /\ \A i \in DOMAIN Stream : Stream[i].of.type # "LINE"

\* What a record of the client can be.
IsWritten(r) ==
    \/ r.type = "STS" /\ server = "hello"
    \/ /\ r.type = "HANDSHAKE" /\ r.msg.hs = "client_hello"
       /\ Len(checksum) >= 1 /\ r.msg = checksum[1]
    \/ /\ r.type = "HANDSHAKE" /\ r.msg.hs = "client_key_exchange"
       /\ Len(checksum) >= 5 /\ r.msg = checksum[5]
    \/ r.type = "CHANGE_CIPHER_SPEC"
    \/ /\ r.type = "HANDSHAKE" /\ r.msg.hs = "finished" /\ r.id = 0
       /\ Len(checksum) >= 6 /\ r.msg = checksum[6]
    \/ r.type = "APPLICATION_DATA" /\ r.id \in Nat \ {0}

\* The same for what the client writes, unless the server has refused.
QueueInv ==
    /\ \A i \in DOMAIN toServer : IsWritten(toServer[i])
    /\ \/ server = "refused"
       \/ Queue(toServer, ServerNextIn, NextOut)
       \/ server = "hello" /\ Queue(toServer, 0, NextOut) /\ toServer # <<>>

\* The two transcripts agree as far as both go, and neither side is ahead with a message
\* of the other.
SumsInv ==
    /\ \A i \in DOMAIN checksum \cap DOMAIN serverSum : checksum[i] = serverSum[i]
    /\ server = "hello" => Len(checksum) <= 1
    /\ Len(serverSum) >= 5 => Len(checksum) >= 5
    /\ Len(serverSum) >= 6 => Len(checksum) >= 6

\* The end of the handshake.
HandshakenInv ==
    /\ Handshaken => /\ master = serverMaster /\ checksum = serverSum
                     /\ server = "requests"
    /\ failure = "HMAC" => server # "hello"
    /\ NumbersInStep

\* What portal_login may rely on of TLS, and TLS of portal_login.
PlaceInv ==
    /\ step \in Steps
    /\ step \in {"sts_connection_connect", "sts_connection_start_tls"} =>
          state = "AWAIT_CLIENT_HELLO" /\ read = <<>> /\ failure = NULL
    /\ step = "sts_connection_connect" \/ (step = "sts_connection_start_tls" /\ ~waiting) =>
          toServer = <<>> /\ ~waiting
    /\ step = "ssl_sts_connection_handshake" => failure = NULL /\ ~Handshaken
    /\ step \in Requests \cup {"done"} => failure = NULL /\ Handshaken

-----------------------------------------------------------------------------
(* Second factor and token                                                 *)

HasToken(text) ==
    \E i \in DOMAIN text : text[i].of.kind = "content" /\ text[i].of.val = "Token"

\* The server has given the token.
TokenSent ==
    \/ HasToken(response)
    \/ \E i \in DOMAIN Stream :
          Stream[i].of.type = "APPLICATION_DATA" /\ HasToken(Stream[i].of.msg)

Requested(r, name) == r.type = "APPLICATION_DATA" /\ r.msg.hs = name

\* The second factor comes before the token, and what is parsed before what follows.
GrantInv ==
    /\ TokenSent \/ step = "done" =>
          /\ factor # "demanded"
          /\ step \in {"auth_request_game_token", "done", "failed"}
          /\ \A i \in DOMAIN toServer : ~Requested(toServer[i], "auth_login_finish")
    /\ \A i \in DOMAIN toServer : Requested(toServer[i], "auth_request_game_token") =>
          /\ step \in {"auth_request_game_token", "done", "failed"}
          /\ \A j \in DOMAIN toServer :
                Requested(toServer[j], "auth_login_finish") => j < i
    /\ step \in {"auth_list_game_accounts", "auth_request_game_token", "done"} => user_id
    /\ step = "done" => token

TlsInv == SeqInv /\ ClientInv /\ ServerInv /\ StreamInv /\ QueueInv /\ SumsInv /\ HandshakenInv

IInv == TlsInv /\ PlaceInv /\ GrantInv
-----------------------------------------------------------------------------
(* Sequences                                                               *)

\* A sequence is a function on 1 .. Len.
LEMMA SeqIs ==
    ASSUME NEW s, IsSeq(s)
    PROVE  Len(s) \in Nat /\ DOMAIN s = 1 .. Len(s) /\ (s = <<>> <=> Len(s) = 0)
  BY DEF IsSeq

\* Every sequence is one of its own elements.
LEMMA SeqIn ==
    ASSUME NEW S, NEW s \in Seq(S)
    PROVE  IsSeq(s)
<1>1. Len(s) \in Nat /\ DOMAIN s = 1 .. Len(s) /\ s \in [1 .. Len(s) -> S]
  BY LenProperties
<1>2. s \in [1 .. Len(s) -> ToSet(s)]
  BY <1>1 DEF ToSet
<1> QED
  BY <1>1, <1>2, SeqDef DEF IsSeq

\* What Append does in Seq(E), and then for any sequence.
LEMMA Appended ==
    ASSUME NEW E, NEW s \in Seq(E), NEW e \in E
    PROVE  /\ Append(s, e) \in Seq(E) /\ Len(Append(s, e)) = Len(s) + 1
           /\ Append(s, e)[Len(s) + 1] = e
           /\ \A i \in 1 .. Len(s) : Append(s, e)[i] = s[i]
  OBVIOUS

LEMMA AppendIs ==
    ASSUME NEW s, IsSeq(s), NEW x
    PROVE  /\ IsSeq(Append(s, x)) /\ Len(Append(s, x)) = Len(s) + 1
           /\ Append(s, x)[Len(s) + 1] = x
           /\ \A i \in 1 .. Len(s) : Append(s, x)[i] = s[i]
<1> DEFINE S == ToSet(s) \cup {x}
<1>1. s \in Seq(ToSet(s)) /\ ToSet(s) \subseteq S
  BY DEF IsSeq
<1>2. s \in Seq(S) /\ x \in S
  BY <1>1, SeqMonotonic
<1> HIDE DEF S
<1>3. /\ Append(s, x) \in Seq(S) /\ Len(Append(s, x)) = Len(s) + 1
      /\ Append(s, x)[Len(s) + 1] = x
      /\ \A i \in 1 .. Len(s) : Append(s, x)[i] = s[i]
  BY <1>2, Appended
<1>4. IsSeq(Append(s, x))
  BY <1>3, SeqIn
<1> QED
  BY <1>3, <1>4

\* What a concatenation, a subsequence and a tail are, element by element.
LEMMA ConcatIs ==
    ASSUME NEW s, NEW t, IsSeq(s), IsSeq(t)
    PROVE  /\ IsSeq(s \o t) /\ Len(s \o t) = Len(s) + Len(t)
           /\ \A i \in 1 .. Len(s) : (s \o t)[i] = s[i]
           /\ \A i \in 1 .. Len(t) : (s \o t)[Len(s) + i] = t[i]
           /\ \A i \in 1 .. Len(s) + Len(t) :
                 (s \o t)[i] = IF i <= Len(s) THEN s[i] ELSE t[i - Len(s)]
<1> DEFINE S == ToSet(s) \cup ToSet(t)
<1>1. s \in Seq(S) /\ t \in Seq(S)
  BY SeqMonotonic DEF IsSeq
<1> HIDE DEF S
<1>2. /\ s \o t \in Seq(S) /\ Len(s \o t) = Len(s) + Len(t)
      /\ \A i \in 1 .. Len(s) + Len(t) :
            (s \o t)[i] = IF i <= Len(s) THEN s[i] ELSE t[i - Len(s)]
  BY <1>1, ConcatProperties
<1>3. Len(s) \in Nat /\ Len(t) \in Nat
  BY <1>1
<1>4. IsSeq(s \o t)
  BY <1>2, SeqIn
<1>5. ASSUME NEW i \in 1 .. Len(s) PROVE (s \o t)[i] = s[i]
  BY <1>2, <1>3
<1>6. ASSUME NEW i \in 1 .. Len(t) PROVE (s \o t)[Len(s) + i] = t[i]
  <2>1. /\ Len(s) + i \in 1 .. Len(s) + Len(t) /\ ~(Len(s) + i <= Len(s))
        /\ Len(s) + i - Len(s) = i
    BY <1>3
  <2> QED
    BY <1>2, <2>1
<1> QED
  BY <1>2, <1>4, <1>5, <1>6

LEMMA SubSeqIs ==
    ASSUME NEW s, IsSeq(s), NEW a \in Nat \ {0}, NEW b \in Nat, b <= Len(s)
    PROVE  /\ IsSeq(SubSeq(s, a, b))
           /\ Len(SubSeq(s, a, b)) = IF a <= b THEN b - a + 1 ELSE 0
           /\ \A i \in 1 .. Len(SubSeq(s, a, b)) : SubSeq(s, a, b)[i] = s[a + i - 1]
<1>1. Len(s) \in Nat /\ DOMAIN s = 1 .. Len(s)
  BY SeqIs
<1>2. \A i \in a .. b : s[i] \in ToSet(s)
  BY <1>1 DEF ToSet
<1>3. /\ SubSeq(s, a, b) \in Seq(ToSet(s))
      /\ Len(SubSeq(s, a, b)) = IF a <= b THEN b - a + 1 ELSE 0
      /\ \A i \in 1 .. b - a + 1 : SubSeq(s, a, b)[i] = s[a + i - 1]
  BY <1>2, SubSeqProperties
<1>4. \A i \in 1 .. Len(SubSeq(s, a, b)) : i \in 1 .. b - a + 1
  BY <1>3
<1> QED
  BY <1>3, <1>4, SeqIn

LEMMA TailIs ==
    ASSUME NEW s, IsSeq(s), s # <<>>
    PROVE  /\ Head(s) = s[1] /\ IsSeq(Tail(s)) /\ Len(Tail(s)) = Len(s) - 1
           /\ \A i \in 1 .. Len(s) - 1 : Tail(s)[i] = s[i + 1]
<1>1. s \in Seq(ToSet(s))
  BY DEF IsSeq
<1>2. Tail(s) \in Seq(ToSet(s)) /\ Len(Tail(s)) = Len(s) - 1
      /\ \A i \in 1 .. Len(Tail(s)) : Tail(s)[i] = s[i + 1]
  BY <1>1, HeadTailProperties
<1>3. IsSeq(Tail(s))
  BY <1>2, SeqIn
<1>4. Head(s) = s[1]
  BY <1>1
<1> QED
  BY <1>2, <1>3, <1>4

\* Two sequences with the same elements are the same.
LEMMA SameSeq ==
    ASSUME NEW s, NEW t, IsSeq(s), IsSeq(t), Len(s) = Len(t), \A i \in 1 .. Len(s) : s[i] = t[i]
    PROVE  s = t
<1> DEFINE S == ToSet(s) \cup ToSet(t)
<1>1. s \in Seq(S) /\ t \in Seq(S)
  BY SeqMonotonic DEF IsSeq
<1> HIDE DEF S
<1> QED
  BY <1>1, SeqEqual, Zenon

\* The empty sequence and those of one element.
LEMMA NoSeq == IsSeq(<<>>) /\ Len(<<>>) = 0
<1>1. <<>> \in Seq({}) /\ Len(<<>>) = 0
  OBVIOUS
<1> QED
  BY <1>1, SeqIn

LEMMA OneSeq ==
    ASSUME NEW x
    PROVE  IsSeq(<<x>>) /\ Len(<<x>>) = 1 /\ <<x>>[1] = x
<1>1. <<x>> \in Seq({x})
  OBVIOUS
<1> QED
  BY <1>1, SeqIn

\* A sequence given by its elements.
LEMMA GivenSeq ==
    ASSUME NEW n \in Nat, NEW f, f = [i \in 1 .. n |-> f[i]]
    PROVE  IsSeq(f) /\ Len(f) = n
<1>1. f \in [1 .. n -> ToSet(f)]
  BY DEF ToSet
<1>2. f \in Seq(ToSet(f))
  BY <1>1, SeqDef
<1>3. Len(f) = n
  BY <1>1, <1>2
<1> QED
  BY <1>2, <1>3 DEF IsSeq

-----------------------------------------------------------------------------
(* Records in the stream                                                   *)

\* A set of natural numbers that is not empty has a least element.
LEMMA LeastNumber ==
    ASSUME NEW T, T \subseteq Nat, T # {}
    PROVE  \E n \in T : \A m \in T : n <= m
<1>1. PICK n \in T : \A m \in T : ~(<<m, n>> \in OpToRel(<, Nat))
  BY NatLessThanWellFounded, WFMin, Zenon
<1>2. ASSUME NEW m \in T, m < n PROVE FALSE
  BY <1>1, <1>2 DEF OpToRel
<1> QED
  BY <1>2

\* A record has at least one unit, and its header is within it.
LEMMA Units == RecordUnits \in Nat /\ RecordUnits >= 1 /\ HeaderUnits \in 1 .. RecordUnits
  BY PortalAssumption

\* The pieces of a record, in order.
LEMMA PiecesAre ==
    ASSUME NEW r
    PROVE  /\ IsSeq(Pieces(r)) /\ Len(Pieces(r)) = RecordUnits
           /\ \A i \in 1 .. RecordUnits : Pieces(r)[i].of = r /\ Pieces(r)[i].part = i
<1>1. Pieces(r) = [i \in 1 .. RecordUnits |-> Pieces(r)[i]]
  BY DEF Pieces
<1>2. \A i \in 1 .. RecordUnits : Pieces(r)[i].of = r /\ Pieces(r)[i].part = i
  BY DEF Pieces
<1> QED
  BY <1>1, <1>2, GivenSeq, Units

\* The places of the records in a chain are numbers from a on.
LEMMA ChainNumbers ==
    ASSUME NEW s, IsSeq(s), NEW a \in Nat, NEW m, Chain(s, a, m)
    PROVE  \A i \in 1 .. Len(s) : Number(s[i].of) \in Nat /\ Number(s[i].of) >= a
<1> DEFINE N(i) == Number(s[i].of)
           bad == {i \in 1 .. Len(s) : ~(N(i) \in Nat /\ N(i) >= a)}
<1>1. Len(s) \in Nat
  BY SeqIs
<1>2. \A i \in 1 .. Len(s) - 1 : N(i + 1) = N(i) + 1 \/ N(i + 1) = N(i)
  BY DEF Chain
<1>3. Len(s) >= 1 => N(1) = a
  BY <1>1, SeqIs DEF Chain
<1> HIDE DEF N
<1> SUFFICES ASSUME bad # {} PROVE FALSE
  BY DEF N
<1>4. PICK n \in bad : \A i \in bad : n <= i
  <2>1. bad \subseteq Nat
    BY <1>1
  <2> HIDE DEF bad
  <2> QED
    BY <2>1, LeastNumber
<1>5. n # 1
  BY <1>3, <1>4, <1>1
<1>6. n - 1 \in 1 .. Len(s) /\ n - 1 \in 1 .. Len(s) - 1 /\ n - 1 \notin bad /\ (n - 1) + 1 = n
  BY <1>1, <1>4, <1>5
<1>7. N(n - 1) \in Nat /\ N(n - 1) >= a
  BY <1>6
<1>8. N(n) = N(n - 1) + 1 \/ N(n) = N(n - 1)
  BY <1>2, <1>6
<1> QED
  BY <1>4, <1>7, <1>8

\* A chain begins with all the pieces of its first record.
LEMMA FirstRecord ==
    ASSUME NEW s, IsSeq(s), s # <<>>, NEW a, NEW m, Chain(s, a, m)
    PROVE  /\ Len(s) >= RecordUnits
           /\ \A i \in 1 .. RecordUnits : s[i].of = s[1].of /\ s[i].part = i
<1> DEFINE P(i) == i <= Len(s) /\ s[i].of = s[1].of /\ s[i].part = i
           bad == {i \in 1 .. RecordUnits : ~P(i)}
<1>1. Len(s) \in Nat /\ Len(s) >= 1 /\ RecordUnits \in Nat /\ RecordUnits >= 1
  BY SeqIs, Units
<1>2. P(1) /\ s[Len(s)].part = RecordUnits
  BY <1>1 DEF Chain
<1>3. ASSUME NEW i \in 1 .. RecordUnits - 1, P(i) PROVE P(i + 1)
  <2>1. i # Len(s)
    BY <1>1, <1>2, <1>3
  <2>2. i \in 1 .. Len(s) - 1
    BY <1>1, <1>3, <2>1
  <2> QED
    BY <1>1, <1>3, <2>2 DEF Chain
<1> SUFFICES ASSUME bad # {} PROVE FALSE
  <2>1. \A i \in 1 .. RecordUnits : P(i)
    OBVIOUS
  <2>2. RecordUnits \in 1 .. RecordUnits
    BY <1>1
  <2> QED
    BY <2>1, <2>2
<1> HIDE DEF P
<1>4. PICK n \in bad : \A i \in bad : n <= i
  <2>1. bad \subseteq Nat
    BY <1>1
  <2> HIDE DEF bad
  <2> QED
    BY <2>1, LeastNumber
<1>5. n # 1
  BY <1>2, <1>4
<1>6. n - 1 \in 1 .. RecordUnits - 1 /\ n - 1 \notin bad /\ (n - 1) + 1 = n
      /\ n - 1 \in 1 .. RecordUnits
  BY <1>1, <1>4, <1>5
<1> QED
  BY <1>3, <1>4, <1>6

\* What is behind the first record.
LEMMA RestOfChain ==
    ASSUME NEW s, IsSeq(s), s # <<>>, NEW a \in Nat, NEW m, Chain(s, a, m)
    PROVE  /\ IsSeq(SubSeq(s, RecordUnits + 1, Len(s)))
           /\ Len(SubSeq(s, RecordUnits + 1, Len(s))) = Len(s) - RecordUnits
           /\ \A i \in 1 .. Len(s) - RecordUnits :
                 SubSeq(s, RecordUnits + 1, Len(s))[i] = s[RecordUnits + i]
           /\ Chain(SubSeq(s, RecordUnits + 1, Len(s)), a + 1, m)
<1> DEFINE t == SubSeq(s, RecordUnits + 1, Len(s))
           u == RecordUnits
           k == Len(s)
<1>1. k \in Nat /\ u \in Nat /\ u >= 1 /\ k >= u /\ k >= 1
  BY SeqIs, Units, FirstRecord
<1>2. \A i \in 1 .. u : s[i].of = s[1].of /\ s[i].part = i
  BY FirstRecord
<1>3. IsSeq(t) /\ Len(t) = k - u
  <2>1. u + 1 \in Nat \ {0} /\ k <= Len(s)
    BY <1>1
  <2>2. IsSeq(t) /\ Len(t) = IF u + 1 <= k THEN k - (u + 1) + 1 ELSE 0
    BY <1>1, <2>1, SubSeqIs
  <2> HIDE DEF t
  <2> QED
    BY <1>1, <2>2
<1>4. \A i \in 1 .. k - u : t[i] = s[u + i]
  <2>1. u + 1 \in Nat \ {0} /\ k <= Len(s)
    BY <1>1
  <2>2. \A i \in 1 .. Len(t) : t[i] = s[u + 1 + i - 1]
    BY <1>1, <2>1, SubSeqIs
  <2> HIDE DEF t
  <2>3. \A i \in 1 .. k - u : i \in 1 .. Len(t) /\ u + 1 + i - 1 = u + i
    BY <1>1, <1>3
  <2> QED
    BY <2>2, <2>3
<1> HIDE DEF t
<1>5. s[u].part = u /\ Number(s[u].of) = a
  BY <1>1, <1>2 DEF Chain
<1>6. s[k].part = u /\ Number(s[k].of) + 1 = m
  BY <1>1 DEF Chain
<1>7. t = <<>> => a + 1 = m
  <2> SUFFICES ASSUME t = <<>> PROVE a + 1 = m
    OBVIOUS
  <2>1. k = u
    BY <1>1, <1>3
  <2> QED
    BY <1>5, <1>6, <2>1
<1>8. t # <<>> => /\ t[1].part = 1 /\ Number(t[1].of) = a + 1
                  /\ t[Len(t)].part = u /\ Number(t[Len(t)].of) + 1 = m
  <2> SUFFICES ASSUME t # <<>>
               PROVE  /\ t[1].part = 1 /\ Number(t[1].of) = a + 1
                      /\ t[Len(t)].part = u /\ Number(t[Len(t)].of) + 1 = m
    OBVIOUS
  <2>1. Len(t) # 0
    BY <1>3, SeqIs
  <2>2. u \in 1 .. k - 1 /\ 1 \in 1 .. k - u /\ k - u \in 1 .. k - u /\ u + (k - u) = k
    BY <1>1, <1>3, <2>1
  <2>3. t[1] = s[u + 1] /\ t[Len(t)] = s[k]
    BY <1>3, <1>4, <2>2
  <2>4. s[u + 1].part = 1 /\ Number(s[u + 1].of) = Number(s[u].of) + 1
    BY <1>5, <2>2 DEF Chain
  <2> QED
    BY <1>5, <1>6, <2>3, <2>4
<1>9. ASSUME NEW i \in 1 .. Len(t) - 1
      PROVE  IF t[i].part = u
             THEN t[i + 1].part = 1 /\ Number(t[i + 1].of) = Number(t[i].of) + 1
             ELSE t[i + 1].of = t[i].of /\ t[i + 1].part = t[i].part + 1
  <2>1. i \in 1 .. k - u /\ i + 1 \in 1 .. k - u /\ u + i \in 1 .. k - 1 /\ u + (i + 1) = (u + i) + 1
    BY <1>1, <1>3
  <2>2. t[i] = s[u + i] /\ t[i + 1] = s[(u + i) + 1]
    BY <1>4, <2>1
  <2> QED
    BY <2>1, <2>2 DEF Chain
<1>10. Chain(t, a + 1, m)
  BY <1>7, <1>8, <1>9 DEF Chain
<1> QED
  BY <1>3, <1>4, <1>10 DEF t

\* A chain of one record is its pieces.
LEMMA OneRecord ==
    ASSUME NEW s, IsSeq(s), NEW a \in Nat, Chain(s, a, a + 1)
    PROVE  Len(s) = RecordUnits
<1> DEFINE t == SubSeq(s, RecordUnits + 1, Len(s))
<1>1. s # <<>>
  BY DEF Chain
<1>2. IsSeq(t) /\ Len(t) = Len(s) - RecordUnits /\ Chain(t, a + 1, a + 1)
  BY <1>1, RestOfChain
<1>3. Len(s) \in Nat /\ RecordUnits \in Nat
  BY SeqIs, Units
<1> HIDE DEF t
<1>4. t = <<>>
  <2> SUFFICES ASSUME t # <<>> PROVE FALSE
    OBVIOUS
  <2>1. Len(t) \in Nat /\ Len(t) # 0
    BY <1>2, SeqIs
  <2>2. Number(t[Len(t)].of) + 1 = a + 1
    BY <1>2 DEF Chain
  <2>3. Number(t[Len(t)].of) \in Nat /\ Number(t[Len(t)].of) >= a + 1
    BY <1>2, <2>1, ChainNumbers
  <2> QED
    BY <2>2, <2>3
<1>5. Len(t) = 0
  BY <1>4, NoSeq
<1> QED
  BY <1>2, <1>3, <1>5

\* The server sends one more record.
LEMMA ChainReply ==
    ASSUME NEW s, IsSeq(s), NEW a, NEW m \in Nat, Chain(s, a, m), NEW r, Number(r) = m
    PROVE  Chain(s \o Pieces(r), a, m + 1)
<1> DEFINE p == Pieces(r)
           t == s \o p
           u == RecordUnits
           k == Len(s)
<1>1. k \in Nat /\ u \in Nat /\ u >= 1 /\ (s = <<>> <=> k = 0)
  BY SeqIs, Units
<1>2. IsSeq(p) /\ Len(p) = u /\ \A i \in 1 .. u : p[i].of = r /\ p[i].part = i
  BY PiecesAre
<1> HIDE DEF p
<1>3. /\ IsSeq(t) /\ Len(t) = k + u
      /\ \A i \in 1 .. k : t[i] = s[i]
      /\ \A i \in 1 .. u : t[k + i] = p[i]
  BY <1>2, ConcatIs
<1> HIDE DEF t
<1>4. \A i \in k + 1 .. k + u : t[i].of = r /\ t[i].part = i - k
  <2> SUFFICES ASSUME NEW i \in k + 1 .. k + u PROVE t[i].of = r /\ t[i].part = i - k
    OBVIOUS
  <2>1. i - k \in 1 .. u /\ k + (i - k) = i
    BY <1>1
  <2> QED
    BY <1>2, <1>3, <2>1
<1>5. t # <<>>
  BY <1>1, <1>3, SeqIs
<1>6. t[Len(t)].part = u /\ Number(t[Len(t)].of) + 1 = m + 1
  <2>1. k + u \in k + 1 .. k + u /\ (k + u) - k = u
    BY <1>1
  <2> QED
    BY <1>3, <1>4, <2>1
<1>7. t[1].part = 1 /\ Number(t[1].of) = a
  <2>1. CASE k = 0
    <3>1. 1 \in k + 1 .. k + u /\ 1 - k = 1 /\ a = m
      BY <1>1, <2>1 DEF Chain
    <3> QED
      BY <1>4, <3>1
  <2>2. CASE k # 0
    <3>1. 1 \in 1 .. k
      BY <1>1, <2>2
    <3> QED
      BY <1>1, <1>3, <2>2, <3>1 DEF Chain
  <2> QED
    BY <2>1, <2>2
<1>8. ASSUME NEW i \in 1 .. Len(t) - 1
      PROVE  IF t[i].part = u
             THEN t[i + 1].part = 1 /\ Number(t[i + 1].of) = Number(t[i].of) + 1
             ELSE t[i + 1].of = t[i].of /\ t[i + 1].part = t[i].part + 1
  <2>1. CASE i < k
    <3>1. i \in 1 .. k - 1 /\ t[i] = s[i] /\ t[i + 1] = s[i + 1]
      BY <1>1, <1>3, <2>1
    <3> QED
      BY <3>1 DEF Chain
  <2>2. CASE i = k
    <3>1. t[i] = s[k] /\ s[k].part = u /\ Number(s[k].of) + 1 = m
      BY <1>1, <1>3, <2>2 DEF Chain
    <3>2. i + 1 \in k + 1 .. k + u /\ (i + 1) - k = 1
      BY <1>1, <2>2
    <3>3. t[i + 1].part = 1 /\ Number(t[i + 1].of) = m
      BY <1>4, <3>2
    <3> QED
      BY <3>1, <3>3
  <2>3. CASE i > k
    <3>1. /\ i \in k + 1 .. k + u /\ i + 1 \in k + 1 .. k + u
          /\ i - k # u /\ (i + 1) - k = (i - k) + 1
      BY <1>1, <1>3, <2>3
    <3> QED
      BY <1>4, <3>1
  <2> QED
    BY <1>1, <2>1, <2>2, <2>3
<1> QED
  BY <1>5, <1>6, <1>7, <1>8 DEF Chain, t, p

-----------------------------------------------------------------------------
(* Requests in the queue                                                   *)

\* The client writes one more record.
LEMMA QueueAppend ==
    ASSUME NEW s, IsSeq(s), NEW a, NEW m, Queue(s, a, m), NEW r, OutNumber(r) = m
    PROVE  Queue(Append(s, r), a, m + 1)
<1> DEFINE t == Append(s, r)
           k == Len(s)
<1>1. k \in Nat /\ (s = <<>> <=> k = 0)
  BY SeqIs
<1>2. IsSeq(t) /\ Len(t) = k + 1 /\ t[k + 1] = r /\ \A i \in 1 .. k : t[i] = s[i]
  BY AppendIs
<1> HIDE DEF t
<1>3. t # <<>>
  BY <1>1, <1>2, SeqIs
<1>4. OutNumber(t[1]) = a /\ OutNumber(t[Len(t)]) + 1 = m + 1
  <2>1. CASE k = 0
    BY <1>1, <1>2, <2>1 DEF Queue
  <2>2. CASE k # 0
    <3>1. 1 \in 1 .. k
      BY <1>1, <2>2
    <3> QED
      BY <1>1, <1>2, <2>2, <3>1 DEF Queue
  <2> QED
    BY <2>1, <2>2
<1>5. ASSUME NEW i \in 1 .. Len(t) - 1 PROVE OutNumber(t[i + 1]) = OutNumber(t[i]) + 1
  <2>1. CASE i < k
    <3>1. i \in 1 .. k - 1 /\ t[i] = s[i] /\ t[i + 1] = s[i + 1]
      BY <1>1, <1>2, <2>1
    <3> QED
      BY <3>1 DEF Queue
  <2>2. CASE i = k
    <3>1. t[i] = s[k] /\ t[i + 1] = r /\ OutNumber(s[k]) + 1 = m
      BY <1>1, <1>2, <2>2 DEF Queue
    <3> QED
      BY <3>1
  <2> QED
    BY <1>1, <1>2, <2>1, <2>2
<1> QED
  BY <1>3, <1>4, <1>5 DEF Queue, t

\* The server takes the first record.
LEMMA QueueTail ==
    ASSUME NEW s, IsSeq(s), s # <<>>, NEW a, NEW m, Queue(s, a, m)
    PROVE  OutNumber(Head(s)) = a /\ Queue(Tail(s), a + 1, m)
<1> DEFINE t == Tail(s)
           k == Len(s)
<1>1. k \in Nat /\ k # 0 /\ k >= 1
  BY SeqIs
<1>2. Head(s) = s[1] /\ IsSeq(t) /\ Len(t) = k - 1 /\ \A i \in 1 .. k - 1 : t[i] = s[i + 1]
  BY TailIs
<1> HIDE DEF t
<1>3. OutNumber(s[1]) = a /\ OutNumber(s[k]) + 1 = m
  BY DEF Queue
<1>4. t = <<>> => a + 1 = m
  <2>1. t = <<>> => k = 1
    BY <1>1, <1>2, SeqIs
  <2> QED
    BY <1>3, <2>1
<1>5. t # <<>> => OutNumber(t[1]) = a + 1 /\ OutNumber(t[Len(t)]) + 1 = m
  <2> SUFFICES ASSUME t # <<>>
               PROVE  OutNumber(t[1]) = a + 1 /\ OutNumber(t[Len(t)]) + 1 = m
    OBVIOUS
  <2>1. k - 1 # 0
    BY <1>2, SeqIs
  <2>2. 1 \in 1 .. k - 1 /\ k - 1 \in 1 .. k - 1 /\ (k - 1) + 1 = k
    <3> HIDE DEF k
    <3> QED
      BY <1>1, <2>1
  <2>3. t[1] = s[1 + 1] /\ t[Len(t)] = s[k]
    BY <1>2, <2>2
  <2>4. OutNumber(s[1 + 1]) = OutNumber(s[1]) + 1
    BY <2>2 DEF Queue
  <2> QED
    BY <1>3, <2>3, <2>4
<1>6. ASSUME NEW i \in 1 .. Len(t) - 1 PROVE OutNumber(t[i + 1]) = OutNumber(t[i]) + 1
  <2>1. i \in 1 .. k - 1 /\ i + 1 \in 1 .. k - 1
    BY <1>1, <1>2
  <2> QED
    BY <1>2, <2>1 DEF Queue
<1> QED
  BY <1>2, <1>3, <1>4, <1>5, <1>6 DEF Queue, t

\* The numbers of a queue go up.
LEMMA QueueNumbers ==
    ASSUME NEW s, IsSeq(s), NEW a \in Nat, NEW m, Queue(s, a, m)
    PROVE  \A i \in 1 .. Len(s) : OutNumber(s[i]) \in Nat /\ OutNumber(s[i]) >= a
<1> DEFINE N(i) == OutNumber(s[i])
           bad == {i \in 1 .. Len(s) : ~(N(i) \in Nat /\ N(i) >= a)}
<1>1. Len(s) \in Nat /\ (s = <<>> <=> Len(s) = 0)
  BY SeqIs
<1>2. \A i \in 1 .. Len(s) - 1 : N(i + 1) = N(i) + 1
  BY DEF Queue
<1>3. Len(s) >= 1 => N(1) = a
  BY <1>1 DEF Queue
<1> HIDE DEF N
<1> SUFFICES ASSUME bad # {} PROVE FALSE
  BY DEF N
<1>4. PICK n \in bad : \A i \in bad : n <= i
  <2>1. bad \subseteq Nat
    BY <1>1
  <2> HIDE DEF bad
  <2> QED
    BY <2>1, LeastNumber
<1>5. n # 1
  BY <1>1, <1>3, <1>4
<1>6. n - 1 \in 1 .. Len(s) /\ n - 1 \in 1 .. Len(s) - 1 /\ n - 1 \notin bad /\ (n - 1) + 1 = n
  BY <1>1, <1>4, <1>5
<1>7. N(n - 1) \in Nat /\ N(n - 1) >= a
  BY <1>6
<1>8. N(n) = N(n - 1) + 1
  BY <1>2, <1>6
<1> QED
  BY <1>4, <1>7, <1>8

\* A queue does not end in front of where it begins.
LEMMA QueueUpTo ==
    ASSUME NEW s, IsSeq(s), NEW a \in Nat, NEW m, Queue(s, a, m)
    PROVE  a <= m
<1>1. Len(s) \in Nat /\ (s = <<>> <=> Len(s) = 0)
  BY SeqIs
<1>2. CASE Len(s) = 0
  BY <1>1, <1>2 DEF Queue
<1>3. CASE Len(s) # 0
  <2>1. Len(s) \in 1 .. Len(s)
    BY <1>1, <1>3
  <2>2. OutNumber(s[Len(s)]) \in Nat /\ OutNumber(s[Len(s)]) >= a
    BY <2>1, QueueNumbers
  <2>3. OutNumber(s[Len(s)]) + 1 = m
    BY <1>1, <1>3 DEF Queue
  <2> QED
    BY <2>2, <2>3
<1> QED
  BY <1>2, <1>3

-----------------------------------------------------------------------------
(* Replies of the server                                                   *)

\* What FlattenSeq gives for up to three sequences: the function it recurs on is this one.
LEMMA FlattenIs ==
    ASSUME NEW s, NEW n \in 1 .. 3, Len(s) = n
    PROVE  FlattenSeq(s) = IF n = 1 THEN s[1]
                           ELSE IF n = 2 THEN s[1] \o s[2]
                           ELSE (s[1] \o s[2]) \o s[3]
<1> DEFINE g == [i \in 1 .. n |-> IF i = 1 THEN s[1]
                                  ELSE IF i = 2 THEN s[1] \o s[2]
                                  ELSE (s[1] \o s[2]) \o s[3]]
           Is(f) == f = [i \in 1 .. Len(s) |-> IF i = 1 THEN s[i] ELSE f[i - 1] \o s[i]]
           h == CHOOSE f : Is(f)
<1>1. FlattenSeq(s) = h[n]
  <2>1. FlattenSeq(s) = h[Len(s)]
    BY Len(s) # 0, Zenon DEF FlattenSeq
  <2> QED
    BY <2>1
<1>2. Is(g)
  <2> DEFINE e == [i \in 1 .. n |-> IF i = 1 THEN s[i] ELSE g[i - 1] \o s[i]]
  <2>1. ASSUME NEW i \in 1 .. n PROVE g[i] = e[i]
    <3>1. CASE i = 1
      BY <3>1
    <3>2. CASE i = 2
      <4>1. i - 1 = 1 /\ 1 \in 1 .. n /\ i # 1
        BY <3>2
      <4> QED
        BY <3>2, <4>1
    <3>3. CASE i = 3
      <4>1. i - 1 = 2 /\ 2 \in 1 .. n /\ i # 1 /\ i # 2
        BY <3>3
      <4> QED
        BY <3>3, <4>1
    <3> QED
      BY <3>1, <3>2, <3>3
  <2> QED
    BY <2>1
<1>3. Is(h)
  <2> HIDE DEF Is, g
  <2> QED
    BY <1>2, Zenon
<1> HIDE DEF h
<1>4. \A i \in 1 .. n : h[i] = IF i = 1 THEN s[i] ELSE h[i - 1] \o s[i]
  <2> DEFINE e(i) == IF i = 1 THEN s[i] ELSE h[i - 1] \o s[i]
  <2>1. h = [i \in 1 .. n |-> e(i)]
    BY <1>3
  <2> HIDE DEF e
  <2>2. \A i \in 1 .. n : h[i] = e(i)
    BY <2>1
  <2> QED
    BY <2>2 DEF e
<1> HIDE DEF g, Is
<1>5. h[1] = s[1]
  BY <1>4
<1>6. n >= 2 => h[2] = h[1] \o s[2]
  <2>1. n >= 2 => 2 \in 1 .. n /\ 2 # 1 /\ 2 - 1 = 1
    OBVIOUS
  <2> QED
    BY <1>4, <2>1
<1>7. n = 3 => h[3] = h[2] \o s[3]
  <2>1. n = 3 => 3 \in 1 .. n /\ 3 # 1 /\ 3 - 1 = 2
    OBVIOUS
  <2> QED
    BY <1>4, <2>1
<1>8. CASE n = 1
  BY <1>1, <1>5, <1>8
<1>9. CASE n = 2
  BY <1>1, <1>5, <1>6, <1>9
<1>10. CASE n = 3
  <2>1. n >= 2 /\ n # 1 /\ n # 2
    BY <1>10
  <2>2. h[3] = (s[1] \o s[2]) \o s[3]
    BY <1>5, <1>6, <1>7, <1>10, <2>1, Zenon
  <2> QED
    BY <1>1, <1>10, <2>1, <2>2, Zenon
<1>11. n = 1 \/ n = 2 \/ n = 3
  OBVIOUS
<1> QED
  BY <1>8, <1>9, <1>10, <1>11, Zenon

\* Concatenation is associative.
LEMMA ConcatAssoc ==
    ASSUME NEW s, NEW t, NEW u, IsSeq(s), IsSeq(t), IsSeq(u)
    PROVE  s \o (t \o u) = (s \o t) \o u
<1> DEFINE S == ToSet(s) \cup ToSet(t) \cup ToSet(u)
<1>1. s \in Seq(S) /\ t \in Seq(S) /\ u \in Seq(S)
  BY SeqMonotonic DEF IsSeq
<1> HIDE DEF S
<1> QED
  BY <1>1, ConcatAssociative

\* One more record behind a stream.
LEMMA OneReply ==
    ASSUME NEW s, IsSeq(s), NEW r
    PROVE  /\ IsSeq(s \o Pieces(r)) /\ s \o Pieces(r) # <<>>
           /\ Len(s \o Pieces(r)) = Len(s) + RecordUnits
           /\ \A i \in 1 .. Len(s) : (s \o Pieces(r))[i] = s[i]
           /\ \A i \in 1 .. Len(s) + RecordUnits : i > Len(s) => (s \o Pieces(r))[i].of = r
<1> DEFINE t == s \o Pieces(r)
<1>1. Len(s) \in Nat /\ RecordUnits \in Nat /\ RecordUnits >= 1
  BY SeqIs, Units
<1>2. /\ IsSeq(Pieces(r)) /\ Len(Pieces(r)) = RecordUnits
      /\ \A i \in 1 .. RecordUnits : Pieces(r)[i].of = r
  BY PiecesAre
<1>3. /\ IsSeq(t) /\ Len(t) = Len(s) + RecordUnits
      /\ \A i \in 1 .. Len(s) : t[i] = s[i]
      /\ \A i \in 1 .. RecordUnits : t[Len(s) + i] = Pieces(r)[i]
  BY <1>2, ConcatIs
<1> HIDE DEF t
<1>4. t # <<>>
  BY <1>1, <1>3, SeqIs
<1>5. ASSUME NEW i \in 1 .. Len(s) + RecordUnits, i > Len(s) PROVE t[i].of = r
  <2>1. i - Len(s) \in 1 .. RecordUnits /\ Len(s) + (i - Len(s)) = i
    BY <1>1, <1>5
  <2> QED
    BY <1>2, <1>3, <2>1
<1> QED
  BY <1>3, <1>4, <1>5 DEF t

\* What up to three records of a reply do to the stream.
LEMMA ReplyIs ==
    ASSUME IsSeq(read), IsSeq(toClient), NEW rs, NEW n \in 1 .. 3, DOMAIN rs = 1 .. n,
           Reply(rs), read' = read
    PROVE  /\ IsSeq(toClient') /\ IsSeq(Stream') /\ Stream' # <<>>
           /\ Len(Stream') > Len(Stream)
           /\ \A i \in 1 .. Len(Stream) : Stream'[i] = Stream[i]
           /\ \A i \in 1 .. Len(Stream') : i > Len(Stream) => \E j \in 1 .. n : Stream'[i].of = rs[j]
           /\ \A a : \A m \in Nat :
                 Chain(Stream, a, m) /\ (\A j \in 1 .. n : Number(rs[j]) = m + j - 1) =>
                    Chain(Stream', a, m + n)
<1> DEFINE p == [i \in DOMAIN rs |-> Pieces(rs[i])]
           c1 == toClient \o Pieces(rs[1])
           c2 == c1 \o Pieces(rs[2])
           c3 == c2 \o Pieces(rs[3])
           s1 == Stream \o Pieces(rs[1])
           s2 == s1 \o Pieces(rs[2])
           s3 == s2 \o Pieces(rs[3])
<1>1. IsSeq(p) /\ Len(p) = n /\ \A i \in 1 .. n : p[i] = Pieces(rs[i])
  <2>1. p = [i \in 1 .. n |-> p[i]] /\ \A i \in 1 .. n : p[i] = Pieces(rs[i])
    OBVIOUS
  <2> HIDE DEF p
  <2> QED
    BY <2>1, GivenSeq
<1>2. IsSeq(Pieces(rs[1])) /\ IsSeq(Pieces(rs[2])) /\ IsSeq(Pieces(rs[3]))
  BY PiecesAre
<1>3. toClient' = toClient \o FlattenSeq(p)
  BY DEF Reply
<1> HIDE DEF p
<1>4. FlattenSeq(p) = IF n = 1 THEN p[1] ELSE IF n = 2 THEN p[1] \o p[2] ELSE (p[1] \o p[2]) \o p[3]
  BY <1>1, FlattenIs
<1>5. IsSeq(c1) /\ IsSeq(c2) /\ IsSeq(c3) /\ IsSeq(Stream)
  BY <1>2, ConcatIs DEF Stream
<1>6. IsSeq(Pieces(rs[1]) \o Pieces(rs[2]))
  BY <1>2, ConcatIs
<1>7. toClient' = IF n = 1 THEN c1 ELSE IF n = 2 THEN c2 ELSE c3
  <2>1. CASE n = 1
    <3>1. p[1] = Pieces(rs[1])
      BY <1>1, <2>1
    <3> QED
      BY <1>3, <1>4, <2>1, <3>1
  <2>2. CASE n = 2
    <3>1. p[1] = Pieces(rs[1]) /\ p[2] = Pieces(rs[2])
      BY <1>1, <2>2
    <3>2. toClient' = toClient \o (Pieces(rs[1]) \o Pieces(rs[2]))
      BY <1>3, <1>4, <2>2, <3>1
    <3>3. toClient' = c2
      BY <1>2, <3>2, ConcatAssoc
    <3> QED
      BY <2>2, <3>3
  <2>3. CASE n = 3
    <3>1. p[1] = Pieces(rs[1]) /\ p[2] = Pieces(rs[2]) /\ p[3] = Pieces(rs[3])
      BY <1>1, <2>3
    <3>2. toClient' = toClient \o ((Pieces(rs[1]) \o Pieces(rs[2])) \o Pieces(rs[3]))
      BY <1>3, <1>4, <2>3, <3>1
    <3>3. toClient' = (toClient \o (Pieces(rs[1]) \o Pieces(rs[2]))) \o Pieces(rs[3])
      BY <1>2, <1>6, <3>2, ConcatAssoc
    <3>4. toClient' = c3
      BY <1>2, <3>3, ConcatAssoc
    <3> QED
      BY <2>3, <3>4
  <2>4. n = 1 \/ n = 2 \/ n = 3
    OBVIOUS
  <2> QED
    BY <2>1, <2>2, <2>3, <2>4, Zenon
<1>8. read \o c1 = s1 /\ read \o c2 = s2 /\ read \o c3 = s3
  <2>1. read \o c1 = s1
    BY <1>2, ConcatAssoc DEF Stream
  <2>2. read \o c2 = (read \o c1) \o Pieces(rs[2])
    <3>1. IsSeq(c1)
      BY <1>5
    <3> HIDE DEF c1
    <3> QED
      BY <1>2, <3>1, ConcatAssoc
  <2>3. read \o c3 = (read \o c2) \o Pieces(rs[3])
    <3>1. IsSeq(c2)
      BY <1>5
    <3> HIDE DEF c2
    <3> QED
      BY <1>2, <3>1, ConcatAssoc
  <2> HIDE DEF c1, c2, c3
  <2> QED
    BY <2>1, <2>2, <2>3
<1>9. Stream' = IF n = 1 THEN s1 ELSE IF n = 2 THEN s2 ELSE s3
  <2>1. Stream' = read \o toClient'
    BY DEF Stream
  <2> HIDE DEF c1, c2, c3, s1, s2, s3
  <2> QED
    BY <1>7, <1>8, <2>1
<1>10. /\ IsSeq(s1) /\ s1 # <<>> /\ Len(s1) = Len(Stream) + RecordUnits
       /\ \A i \in 1 .. Len(Stream) : s1[i] = Stream[i]
       /\ \A i \in 1 .. Len(Stream) + RecordUnits : i > Len(Stream) => s1[i].of = rs[1]
  BY <1>5, OneReply
<1>11. /\ IsSeq(s2) /\ s2 # <<>> /\ Len(s2) = Len(s1) + RecordUnits
       /\ \A i \in 1 .. Len(s1) : s2[i] = s1[i]
       /\ \A i \in 1 .. Len(s1) + RecordUnits : i > Len(s1) => s2[i].of = rs[2]
  <2>1. IsSeq(s1)
    BY <1>10
  <2> HIDE DEF s1
  <2> QED
    BY <2>1, OneReply
<1>12. /\ IsSeq(s3) /\ s3 # <<>> /\ Len(s3) = Len(s2) + RecordUnits
       /\ \A i \in 1 .. Len(s2) : s3[i] = s2[i]
       /\ \A i \in 1 .. Len(s2) + RecordUnits : i > Len(s2) => s3[i].of = rs[3]
  <2>1. IsSeq(s2)
    BY <1>11
  <2> HIDE DEF s2
  <2> QED
    BY <2>1, OneReply
<1>13. ASSUME NEW a, NEW m \in Nat, Chain(Stream, a, m),
              \A j \in 1 .. n : Number(rs[j]) = m + j - 1
       PROVE  Chain(Stream', a, m + n)
  <2>1. Chain(s1, a, m + 1)
    <3>1. Number(rs[1]) = m
      BY <1>13
    <3> QED
      BY <1>5, <1>13, <3>1, ChainReply
  <2>2. n >= 2 => Chain(s2, a, m + 2)
    <3> SUFFICES ASSUME n >= 2 PROVE Chain(s2, a, m + 2)
      OBVIOUS
    <3>1. Number(rs[2]) = m + 1 /\ m + 1 \in Nat /\ m + 1 + 1 = m + 2
      <4>1. 2 \in 1 .. n /\ m + 2 - 1 = m + 1
        OBVIOUS
      <4> QED
        BY <1>13, <4>1
    <3> HIDE DEF s1
    <3> QED
      BY <1>10, <2>1, <3>1, ChainReply
  <2>3. n = 3 => Chain(s3, a, m + 3)
    <3> SUFFICES ASSUME n = 3 PROVE Chain(s3, a, m + 3)
      OBVIOUS
    <3>1. Number(rs[3]) = m + 2 /\ m + 2 \in Nat /\ m + 2 + 1 = m + 3
      <4>1. 3 \in 1 .. n /\ m + 3 - 1 = m + 2
        OBVIOUS
      <4> QED
        BY <1>13, <4>1
    <3> HIDE DEF s2
    <3> QED
      BY <1>11, <2>2, <3>1, ChainReply
  <2> HIDE DEF s1, s2, s3
  <2>4. CASE n = 1
    BY <1>9, <2>1, <2>4
  <2>5. CASE n = 2
    BY <1>9, <2>2, <2>5
  <2>6. CASE n = 3
    BY <1>9, <2>3, <2>6
  <2> QED
    BY <2>4, <2>5, <2>6
<1>14. IsSeq(toClient')
  <2> HIDE DEF c1, c2, c3
  <2> QED
    BY <1>5, <1>7
<1> DEFINE k == Len(Stream)
<1>15. k \in Nat /\ RecordUnits \in Nat /\ RecordUnits >= 1
  BY <1>5, SeqIs, Units
<1> HIDE DEF s1, s2, s3, k
<1>16. /\ IsSeq(Stream') /\ Stream' # <<>> /\ Len(Stream') > k
       /\ \A i \in 1 .. k : Stream'[i] = Stream[i]
       /\ \A i \in 1 .. Len(Stream') : i > k => \E j \in 1 .. n : Stream'[i].of = rs[j]
  <2>1. Len(s1) = k + RecordUnits /\ \A i \in 1 .. k : s1[i] = Stream[i]
    BY <1>10 DEF k
  <2>2. \A i \in 1 .. Len(s1) : i > k => s1[i].of = rs[1]
    BY <1>10 DEF k
  <2>3. Len(s2) > k /\ \A i \in 1 .. k : s2[i] = Stream[i]
    BY <1>11, <1>15, <2>1
  <2>4. \A i \in 1 .. Len(s2) : i > k => s2[i].of = rs[1] \/ s2[i].of = rs[2]
    <3> SUFFICES ASSUME NEW i \in 1 .. Len(s2), i > k
                 PROVE  s2[i].of = rs[1] \/ s2[i].of = rs[2]
      OBVIOUS
    <3>1. CASE i <= Len(s1)
      <4>1. i \in 1 .. Len(s1)
        BY <1>11, <1>15, <2>1, <3>1
      <4> QED
        BY <1>11, <2>2, <4>1
    <3>2. CASE i > Len(s1)
      BY <1>11, <3>2
    <3> QED
      BY <1>11, <1>15, <2>1, <3>1, <3>2
  <2>5. Len(s3) > k /\ \A i \in 1 .. k : s3[i] = Stream[i]
    BY <1>11, <1>12, <1>15, <2>1, <2>3
  <2>6. \A i \in 1 .. Len(s3) : i > k => s3[i].of = rs[1] \/ s3[i].of = rs[2] \/ s3[i].of = rs[3]
    <3> SUFFICES ASSUME NEW i \in 1 .. Len(s3), i > k
                 PROVE  s3[i].of = rs[1] \/ s3[i].of = rs[2] \/ s3[i].of = rs[3]
      OBVIOUS
    <3>1. CASE i <= Len(s2)
      <4>1. i \in 1 .. Len(s2)
        BY <1>11, <1>12, <1>15, <2>1, <3>1
      <4> QED
        BY <1>12, <2>4, <4>1
    <3>2. CASE i > Len(s2)
      BY <1>12, <3>2
    <3> QED
      BY <1>11, <1>12, <1>15, <2>1, <3>1, <3>2
  <2>7. CASE n = 1
    <3>1. Stream' = s1 /\ 1 \in 1 .. n
      BY <1>9, <2>7
    <3> QED
      BY <1>10, <1>15, <2>1, <2>2, <3>1
  <2>8. CASE n = 2
    <3>1. Stream' = s2 /\ 1 \in 1 .. n /\ 2 \in 1 .. n
      BY <1>9, <2>8
    <3> QED
      BY <1>11, <2>3, <2>4, <3>1
  <2>9. CASE n = 3
    <3>1. Stream' = s3 /\ 1 \in 1 .. n /\ 2 \in 1 .. n /\ 3 \in 1 .. n
      BY <1>9, <2>9
    <3> QED
      BY <1>12, <2>5, <2>6, <3>1
  <2> QED
    BY <2>7, <2>8, <2>9
<1> QED
  BY <1>13, <1>14, <1>16 DEF k

-----------------------------------------------------------------------------
(* What the client takes from the stream                                   *)

\* A sequence cut in two.
LEMMA CutIs ==
    ASSUME NEW s, IsSeq(s), NEW n \in 0 .. Len(s)
    PROVE  /\ IsSeq(SubSeq(s, 1, n)) /\ IsSeq(SubSeq(s, n + 1, Len(s)))
           /\ SubSeq(s, 1, n) \o SubSeq(s, n + 1, Len(s)) = s
           /\ Len(SubSeq(s, 1, n)) = n /\ Len(SubSeq(s, n + 1, Len(s))) = Len(s) - n
           /\ \A i \in 1 .. n : SubSeq(s, 1, n)[i] = s[i]
           /\ \A i \in 1 .. Len(s) - n : SubSeq(s, n + 1, Len(s))[i] = s[n + i]
<1> DEFINE a == SubSeq(s, 1, n)
           b == SubSeq(s, n + 1, Len(s))
<1>1. Len(s) \in Nat /\ n \in Nat /\ n <= Len(s) /\ n + 1 \in Nat \ {0} /\ 1 \in Nat \ {0}
  BY SeqIs
<1>2. IsSeq(a) /\ Len(a) = n /\ \A i \in 1 .. n : a[i] = s[i]
  <2>1. /\ IsSeq(a) /\ Len(a) = IF 1 <= n THEN n - 1 + 1 ELSE 0
        /\ \A i \in 1 .. Len(a) : a[i] = s[1 + i - 1]
    BY <1>1, SubSeqIs
  <2> HIDE DEF a
  <2>2. Len(a) = n
    BY <1>1, <2>1
  <2>3. \A i \in 1 .. n : 1 + i - 1 = i
    OBVIOUS
  <2> QED
    BY <2>1, <2>2, <2>3
<1>3. IsSeq(b) /\ Len(b) = Len(s) - n /\ \A i \in 1 .. Len(s) - n : b[i] = s[n + i]
  <2>1. /\ IsSeq(b) /\ Len(b) = IF n + 1 <= Len(s) THEN Len(s) - (n + 1) + 1 ELSE 0
        /\ \A i \in 1 .. Len(b) : b[i] = s[n + 1 + i - 1]
    BY <1>1, SubSeqIs
  <2> HIDE DEF b
  <2>2. Len(b) = Len(s) - n
    BY <1>1, <2>1
  <2>3. \A i \in 1 .. Len(s) - n : n + 1 + i - 1 = n + i
    BY <1>1
  <2> QED
    BY <2>1, <2>2, <2>3
<1> HIDE DEF a, b
<1>4. /\ IsSeq(a \o b) /\ Len(a \o b) = n + (Len(s) - n)
      /\ \A i \in 1 .. n : (a \o b)[i] = a[i]
      /\ \A i \in 1 .. Len(s) - n : (a \o b)[n + i] = b[i]
  <2>1. IsSeq(a) /\ IsSeq(b) /\ Len(a) = n /\ Len(b) = Len(s) - n
    BY <1>2, <1>3
  <2>2. /\ IsSeq(a \o b) /\ Len(a \o b) = Len(a) + Len(b)
        /\ \A i \in 1 .. Len(a) : (a \o b)[i] = a[i]
        /\ \A i \in 1 .. Len(b) : (a \o b)[Len(a) + i] = b[i]
    BY <2>1, ConcatIs, Zenon
  <2> QED
    BY <2>1, <2>2, Zenon
<1>5. ASSUME NEW i \in 1 .. Len(s) PROVE (a \o b)[i] = s[i]
  <2>1. CASE i <= n
    BY <1>1, <1>2, <1>4, <2>1
  <2>2. CASE i > n
    <3>1. i - n \in 1 .. Len(s) - n /\ n + (i - n) = i
      BY <1>1, <2>2
    <3> QED
      BY <1>3, <1>4, <3>1
  <2>3. i <= n \/ i > n
    BY <1>1
  <2> QED
    BY <2>1, <2>2, <2>3, Zenon
<1>6. Len(a \o b) = Len(s)
  BY <1>1, <1>4
<1>7. a \o b = s
  BY <1>4, <1>5, <1>6, SameSeq
<1> QED
  BY <1>2, <1>3, <1>7 DEF a, b

\* recv_to_buffer moves pieces and changes nothing of the stream.
LEMMA Received ==
    ASSUME IsSeq(read), IsSeq(toClient), RecvToBuffer
    PROVE  Stream' = Stream /\ IsSeq(read') /\ IsSeq(toClient')
<1>1. PICK n \in 1 .. Len(toClient) :
         /\ read' = read \o SubSeq(toClient, 1, n)
         /\ toClient' = SubSeq(toClient, n + 1, Len(toClient))
  BY DEF RecvToBuffer
<1> DEFINE a == SubSeq(toClient, 1, n)
           b == SubSeq(toClient, n + 1, Len(toClient))
<1>2. n \in 0 .. Len(toClient)
  OBVIOUS
<1>3. IsSeq(a) /\ IsSeq(b) /\ a \o b = toClient
  BY <1>2, CutIs
<1>4. read' = read \o a /\ toClient' = b
  BY <1>1
<1> HIDE DEF a, b
<1>5. IsSeq(read \o a)
  BY <1>3, ConcatIs
<1>6. (read \o a) \o b = read \o toClient
  <2>1. read \o (a \o b) = (read \o a) \o b
    <3>1. IsSeq(a) /\ IsSeq(b)
      BY <1>3
    <3> QED
      BY <3>1, ConcatAssoc
  <2> QED
    BY <1>3, <2>1, Zenon
<1> QED
  BY <1>3, <1>4, <1>5, <1>6 DEF Stream

\* The client always waits for some record.
LEMMA NextInIs ==
    ASSUME ClientInv
    PROVE  NextIn \in Nat /\ NextIn >= 1
  BY DEF ClientInv, NextIn

\* A record that the client parses is the one that it waits for, and the first of the stream.
LEMMA Taken ==
    ASSUME SeqInv, ClientInv, StreamInv, parse_tls12_handshake = "OK"
    PROVE  /\ Chain(Stream, NextIn, ServerNextOut) /\ ~Residue
           /\ 1 \in DOMAIN Stream /\ TheRecord = Stream[1].of
           /\ Number(TheRecord) = NextIn /\ TheRecord.type = Awaited
           /\ TheRecord.type # "LINE" /\ IsSent(TheRecord) /\ server # "hello"
           /\ IsSeq(Unread) /\ IsSeq(Stream)
           /\ Unread \o toClient = SubSeq(Stream, RecordUnits + 1, Len(Stream))
           /\ Chain(Unread \o toClient, NextIn + 1, ServerNextOut)
           /\ \A i \in DOMAIN (Unread \o toClient) :
                 \E j \in DOMAIN Stream : (Unread \o toClient)[i] = Stream[j]
<1> DEFINE u == RecordUnits
           k == Len(read)
<1>1. IsSeq(read) /\ IsSeq(toClient)
  BY DEF SeqInv
<1>2. k \in Nat /\ Len(toClient) \in Nat /\ u \in Nat /\ u >= 1
  BY <1>1, SeqIs, Units
<1>3. k >= u /\ read[1].of.type # "LINE" /\ read[1].of.type = Awaited
  <2>1. ~(k < u) /\ read[1].of.type # "LINE" /\ read[1].of.type = Awaited
    BY DEF parse_tls12_handshake
  <2> QED
    BY <1>2, <2>1
<1>4. /\ IsSeq(Stream) /\ Len(Stream) = k + Len(toClient)
      /\ \A i \in 1 .. k : Stream[i] = read[i]
      /\ \A i \in 1 .. Len(toClient) : Stream[k + i] = toClient[i]
  BY <1>1, ConcatIs DEF Stream
<1>5. 1 \in 1 .. k /\ 1 \in DOMAIN Stream /\ Stream[1] = read[1]
  BY <1>2, <1>3, <1>4, SeqIs
<1>6. Stream # <<>> /\ DOMAIN Stream = 1 .. Len(Stream)
  BY <1>2, <1>4, <1>5, SeqIs
<1>7. ~Residue
  BY <1>3, <1>5 DEF Residue
<1>8. Chain(Stream, NextIn, ServerNextOut)
  BY <1>7 DEF StreamInv
<1>9. Number(TheRecord) = NextIn /\ TheRecord = Stream[1].of
  BY <1>5, <1>6, <1>8 DEF Chain, TheRecord
<1>10. IsSent(TheRecord) /\ server # "hello"
  BY <1>3, <1>5 DEF StreamInv, TheRecord
<1>11. /\ IsSeq(Unread) /\ Len(Unread) = k - u
       /\ \A i \in 1 .. k - u : Unread[i] = read[u + i]
  <2>1. u \in 0 .. Len(read)
    BY <1>2, <1>3
  <2> QED
    BY <1>1, <2>1, CutIs DEF Unread
<1> DEFINE s == Unread \o toClient
           t == SubSeq(Stream, u + 1, Len(Stream))
<1>12. /\ IsSeq(t) /\ Len(t) = Len(Stream) - u /\ Chain(t, NextIn + 1, ServerNextOut)
       /\ \A i \in 1 .. Len(Stream) - u : t[i] = Stream[u + i]
  BY <1>4, <1>6, <1>8, NextInIs, RestOfChain
<1>13. /\ IsSeq(s) /\ Len(s) = (k - u) + Len(toClient)
       /\ \A i \in 1 .. k - u : s[i] = Unread[i]
       /\ \A i \in 1 .. Len(toClient) : s[(k - u) + i] = toClient[i]
  BY <1>1, <1>11, ConcatIs
<1> HIDE DEF s, t, k, u
<1>14. Len(s) = Len(t)
  BY <1>2, <1>4, <1>12, <1>13
<1>15. ASSUME NEW i \in 1 .. Len(s)
       PROVE  s[i] = Stream[u + i] /\ u + i \in DOMAIN Stream
  <2>1. u + i \in 1 .. Len(Stream)
    BY <1>2, <1>3, <1>4, <1>13
  <2>2. CASE i <= k - u
    <3>1. i \in 1 .. k - u /\ u + i \in 1 .. k
      BY <1>2, <1>3, <1>13, <2>2
    <3> QED
      BY <1>4, <1>6, <1>11, <1>13, <2>1, <3>1
  <2>3. CASE i > k - u
    <3>1. /\ i - (k - u) \in 1 .. Len(toClient) /\ (k - u) + (i - (k - u)) = i
          /\ k + (i - (k - u)) = u + i
      BY <1>2, <1>3, <1>13, <2>3
    <3>2. s[i] = toClient[i - (k - u)] /\ Stream[u + i] = toClient[i - (k - u)]
      BY <1>4, <1>13, <3>1
    <3> QED
      BY <1>6, <2>1, <3>2
  <2> QED
    BY <1>2, <1>3, <1>13, <2>2, <2>3
<1>16. \A i \in 1 .. Len(s) : s[i] = t[i]
  <2>1. Len(s) = Len(Stream) - u
    BY <1>12, <1>14
  <2> QED
    BY <1>12, <1>15, <2>1
<1>17. s = t
  BY <1>12, <1>13, <1>14, <1>16, SameSeq
<1>18. \A i \in DOMAIN s : \E j \in DOMAIN Stream : s[i] = Stream[j]
  <2>1. DOMAIN s = 1 .. Len(s)
    BY <1>13, SeqIs
  <2> QED
    BY <1>15, <2>1
<1>19. TheRecord.type = Awaited /\ TheRecord.type # "LINE"
  BY <1>3 DEF TheRecord
<1>20. s = SubSeq(Stream, RecordUnits + 1, Len(Stream)) /\ Chain(s, NextIn + 1, ServerNextOut)
  BY <1>12, <1>17 DEF t, u
<1> QED
  BY <1>4, <1>5, <1>7, <1>8, <1>9, <1>10, <1>11, <1>18, <1>19, <1>20 DEF s

\* A rest that is the whole stream of a client that has one record to come.
LEMMA LastTaken ==
    ASSUME SeqInv, ClientInv, StreamInv, parse_tls12_handshake = "OK",
           ServerNextOut = NextIn + 1
    PROVE  toClient = <<>> /\ Unread = <<>>
<1>1. Chain(Stream, NextIn, NextIn + 1) /\ IsSeq(Stream)
  BY Taken
<1>2. Len(Stream) = RecordUnits
  BY <1>1, NextInIs, OneRecord
<1>3. Len(Stream) = Len(read) + Len(toClient)
  BY ConcatIs DEF SeqInv, Stream
<1>4. Len(read) \in Nat /\ Len(toClient) \in Nat /\ RecordUnits \in Nat
  BY SeqIs, Units DEF SeqInv
<1>5. Len(read) >= RecordUnits
  BY <1>4 DEF parse_tls12_handshake
<1>6. Len(toClient) = 0 /\ Len(read) = RecordUnits
  BY <1>2, <1>3, <1>4, <1>5
<1>7. IsSeq(Unread) /\ Len(Unread) = 0
  <2>1. RecordUnits \in 0 .. Len(read) /\ IsSeq(read)
    BY <1>4, <1>5 DEF SeqInv
  <2>2. IsSeq(Unread) /\ Len(Unread) = Len(read) - RecordUnits
    BY <2>1, CutIs DEF Unread
  <2> QED
    BY <1>4, <1>6, <2>2
<1> QED
  BY <1>6, <1>7, SeqIs DEF SeqInv

-----------------------------------------------------------------------------
(* What the steps of each side leave alone                                 *)

\* NULL is none of the values it stands beside.
LEMMA NotNull ==
    /\ NULL # "HMAC" /\ NULL # "BAD_INPUT_DATA" /\ NULL # "UNSUPPORTED_PROTOCOL"
    /\ NULL # "UNEXPECTED_MESSAGE" /\ NULL # "Token" /\ NULL # "UserId"
    /\ NULL # "Totp" /\ NULL # "Email" /\ NULL # "SMS"
  BY PortalAssumption

\* To concatenate one element is to append it.
LEMMA PutIs ==
    ASSUME NEW s, IsSeq(s), NEW one, IsSeq(one), Len(one) = 1
    PROVE  s \o one = Append(s, one[1])
<1> DEFINE c == s \o one
           d == Append(s, one[1])
<1>1. IsSeq(c) /\ Len(c) = Len(s) + Len(one)
  BY ConcatIs
<1>2. \A i \in 1 .. Len(s) : c[i] = s[i]
  BY ConcatIs
<1>3. \A i \in 1 .. Len(one) : c[Len(s) + i] = one[i]
  BY ConcatIs
<1>4. /\ IsSeq(d) /\ Len(d) = Len(s) + 1 /\ d[Len(s) + 1] = one[1]
      /\ \A i \in 1 .. Len(s) : d[i] = s[i]
  BY AppendIs
<1>5. Len(s) \in Nat
  BY SeqIs
<1> HIDE DEF c, d
<1>6. \A i \in 1 .. Len(c) : c[i] = d[i]
  <2> SUFFICES ASSUME NEW i \in 1 .. Len(c) PROVE c[i] = d[i]
    OBVIOUS
  <2>1. i \in 1 .. Len(s) \/ i = Len(s) + 1
    BY <1>1, <1>5
  <2>2. c[Len(s) + 1] = one[1]
    BY <1>3
  <2> QED
    BY <1>2, <1>4, <2>1, <2>2
<1>7. Len(c) = Len(d)
  BY <1>1, <1>4
<1> QED
  BY <1>1, <1>4, <1>6, <1>7, SameSeq DEF c, d

\* Send of one record.
LEMMA SendIs ==
    ASSUME IsSeq(toServer), NEW r, Send(<<r>>)
    PROVE  toServer' = Append(toServer, r) /\ IsSeq(toServer')
<1>1. IsSeq(<<r>>) /\ Len(<<r>>) = 1 /\ <<r>>[1] = r
  BY OneSeq
<1>2. toServer \o <<r>> = Append(toServer, <<r>>[1])
  BY <1>1, PutIs
<1>3. IsSeq(Append(toServer, r))
  BY AppendIs
<1> QED
  BY <1>1, <1>2, <1>3 DEF Send

\* A request under TLS.
Asks == step \in Requests /\ ~waiting /\ \E code : SendRequest(code)

\* The three messages of the server that are only summed and looked at.
ServerMessage ==
    \/ ssl_srp_process_server_hello
    \/ ssl_srp_process_server_key_exchange
    \/ ssl_srp_process_server_done

\* The steps of the client by what they do to the connection.
LEMMA ClientCases ==
    ASSUME Client
    PROVE  \/ UNCHANGED tlsVars /\ response' = response
           \/ StartTlsRequest \/ StartTlsReply \/ Asks \/ RecvResponse
           \/ /\ response' = response
              /\ \/ RecvToBuffer \/ ParseFails
                 \/ /\ step = "ssl_sts_connection_handshake"
                    /\ \/ ssl_srp_write_client_hello \/ ServerMessage
                       \/ ssl_srp_write_client_key_exchange
                       \/ ssl_srp_write_change_cipher_spec \/ ClientFinished
                       \/ ssl_srp_process_change_cipher_spec
                       \/ ssl_srp_process_encrypted_handshake
  BY DEF Client, sts_connection_connect, NoCode, Request, Upgrade, Asks, RecvMore,
         PortalHandshake, Handshake, ServerMessage, Requests

\* A step of the client leaves the server alone, and one of the server the client.
LEMMA ClientKeeps ==
    ASSUME Client
    PROVE  UNCHANGED <<serverVars, factor, closed>>
<1>1. ASSUME Handshake PROVE UNCHANGED serverVars
  BY <1>1 DEF Handshake, ssl_srp_write_client_hello, ssl_srp_process_server_hello,
     ssl_srp_process_server_key_exchange, ssl_srp_process_server_done, ServerStep,
     ssl_srp_write_client_key_exchange, ssl_srp_write_change_cipher_spec, ClientFinished,
     ssl_srp_process_change_cipher_spec, ssl_srp_process_encrypted_handshake,
     RecvToBuffer, ParseFails
<1>2. ASSUME PortalHandshake PROVE UNCHANGED <<serverVars, factor, closed>>
  BY <1>1, <1>2 DEF PortalHandshake
<1> QED
  BY <1>2 DEF Client, sts_connection_connect, StartTlsRequest, StartTlsReply,
     Request, Upgrade, SendRequest, NoCode, RecvMore, RecvToBuffer, ParseFails, RecvResponse,
     tlsVars

LEMMA ServerKeeps ==
    ASSUME Server \/ ServerCloses
    PROVE  UNCHANGED <<clientVars, step, waiting, seq_number, response, user_id, token>>
  BY DEF Server, ServerCloses, ServerStartsTls, ServerAnswers, ServerHandshake, ServerHello,
     ServerKeyExchange, ServerChangeCipherSpec, ServerAlert, ServerFinished, portalVars, tlsVars

\* The client sums the message of the server that it was waiting for.
LEMMA ServerMessageIs ==
    ASSUME ServerMessage, ClientInv
    PROVE  /\ state \in {"AWAIT_SERVER_HELLO", "AWAIT_SERVER_KEY_EXCHANGE",
                         "AWAIT_SERVER_HELLO_DONE"}
           /\ failure = NULL /\ parse_tls12_handshake = "OK"
           /\ checksum' = Append(checksum, TheRecord.msg)
           /\ UNCHANGED <<password, master, next_read_id, next_write_id, toServer, toClient>>
           /\ \/ /\ read' = Unread /\ failure' = NULL /\ NextIn' = NextIn + 1
                 /\ Summed' = Summed + 1 /\ state' \in States /\ ~HasFinished' /\ ~HasFinished
                 /\ state' \notin {"AWAIT_CLIENT_HELLO", "AWAIT_SERVER_HELLO"}
                 /\ ~Handshaken' /\ NextOut' = NextOut /\ NextIn = Summed
              \/ /\ read' = read /\ failure' = "BAD_INPUT_DATA" /\ state' = state
                 /\ NextIn = Summed
<1>1. CASE ssl_srp_process_server_hello
  BY <1>1 DEF ssl_srp_process_server_hello, ServerStep, Awaiting, NextIn, Summed, HasFinished,
     Handshaken, NextOut, States
<1>2. CASE ssl_srp_process_server_key_exchange
  BY <1>2 DEF ssl_srp_process_server_key_exchange, ServerStep, Awaiting, NextIn, Summed, HasFinished,
     Handshaken, NextOut, States
<1>3. CASE ssl_srp_process_server_done
  BY <1>3 DEF ssl_srp_process_server_done, ServerStep, Awaiting, NextIn, Summed, HasFinished,
     Handshaken, NextOut, States
<1> QED
  BY <1>1, <1>2, <1>3 DEF ServerMessage

\* What is in a record, in clear and under the keys.
LEMMA PlainHas ==
    ASSUME NEW type, NEW msg
    PROVE  /\ Plain(type, msg).type = type /\ Plain(type, msg).msg = msg
           /\ Plain(type, msg).key = NULL /\ Plain(type, msg).id = 0
  BY DEF Plain

LEMMA ProtectedHas ==
    ASSUME NEW type, NEW msg, NEW key, NEW id
    PROVE  /\ Protected(type, msg, key, id).type = type /\ Protected(type, msg, key, id).msg = msg
           /\ Protected(type, msg, key, id).key = key /\ Protected(type, msg, key, id).id = id
  BY DEF Protected

\* What the server can have sent, by the type of the record.
LEMMA SentIs ==
    ASSUME NEW r, IsSent(r)
    PROVE  /\ r.type = "APPLICATION_DATA" =>
                 /\ server = "requests" /\ r.key = serverMaster
                 /\ r.id \in Nat \ {0} /\ IsSeq(r.msg)
           /\ r.type = "HANDSHAKE" =>
                 \/ server # "hello" /\ \E n \in 2 .. 4 : r.msg = serverSum[n]
                 \/ /\ server = "requests" /\ r.key = serverMaster /\ r.id = 0
                    /\ r.msg = Finished("server finished", serverMaster, serverSum)
           /\ r.type = "LINE" => r.kind # "content"
<1>1. CASE r.type = "LINE" /\ r.kind # "content"
  BY <1>1
<1>2. CASE server # "hello" /\ \E n \in 2 .. 4 : r = Plain("HANDSHAKE", serverSum[n])
  <2>1. PICK n \in 2 .. 4 : r = Plain("HANDSHAKE", serverSum[n])
    BY <1>2
  <2>2. r.type = "HANDSHAKE" /\ r.msg = serverSum[n]
    BY <2>1, PlainHas
  <2> QED
    BY <1>2, <2>2
<1>3. CASE server = "refused" /\ r = Plain("ALERT", NULL)
  BY <1>3, PlainHas
<1>4. CASE r = Plain("CHANGE_CIPHER_SPEC", NULL)
  <2>1. r.type = "CHANGE_CIPHER_SPEC"
    BY <1>4, PlainHas
  <2> QED
    BY <2>1
<1>5. CASE server = "requests" /\
           r = Protected("HANDSHAKE", Finished("server finished", serverMaster, serverSum),
                         serverMaster, 0)
  <2>1. /\ r.type = "HANDSHAKE" /\ r.key = serverMaster /\ r.id = 0
        /\ r.msg = Finished("server finished", serverMaster, serverSum)
    <3> DEFINE m == Finished("server finished", serverMaster, serverSum)
    <3>1. r = Protected("HANDSHAKE", m, serverMaster, 0)
      BY <1>5
    <3> HIDE DEF m
    <3>2. r.type = "HANDSHAKE" /\ r.key = serverMaster /\ r.id = 0 /\ r.msg = m
      BY <3>1, ProtectedHas
    <3> QED
      BY <3>2 DEF m
  <2> QED
    BY <1>5, <2>1
<1>6. CASE /\ server = "requests"
           /\ r.type = "APPLICATION_DATA" /\ r.key = serverMaster
           /\ r.id \in Nat \ {0} /\ IsSeq(r.msg)
  BY <1>6
<1> QED
  BY <1>1, <1>2, <1>3, <1>4, <1>5, <1>6, Zenon DEF IsSent

-----------------------------------------------------------------------------
(* The lines of a reply                                                    *)

\* Pieces of lines, and of no content but c.
Lines(s, c) ==
    /\ IsSeq(s)
    /\ \A i \in 1 .. Len(s) :
          /\ s[i].of.type = "LINE"
          /\ s[i].of.kind = "content" => c # NULL /\ s[i].of.val = c

\* A line, two texts and a whole reply have no content but the one given.
LEMMA LineIs ==
    ASSUME NEW kind, NEW val, NEW c, kind = "content" => c # NULL /\ val = c
    PROVE  Lines(Line(kind, val), c) /\ Line(kind, val) # <<>>
<1> DEFINE t == Line(kind, val)
<1>1. t = [i \in 1 .. 2 |-> t[i]]
  BY DEF Line
<1>2. \A i \in 1 .. 2 : t[i].of = [type |-> "LINE", kind |-> kind, val |-> val]
  BY DEF Line
<1> HIDE DEF t
<1>3. IsSeq(t) /\ Len(t) = 2
  BY <1>1, GivenSeq
<1>4. t # <<>>
  BY <1>3, SeqIs
<1> QED
  BY <1>2, <1>3, <1>4 DEF Lines, t

LEMMA LinesConcat ==
    ASSUME NEW s, NEW t, NEW c, Lines(s, c), Lines(t, c)
    PROVE  Lines(s \o t, c) /\ (s # <<>> => s \o t # <<>>)
<1> DEFINE u == s \o t
<1>1. IsSeq(s) /\ IsSeq(t)
  BY DEF Lines
<1>2. Len(s) \in Nat /\ Len(t) \in Nat
  BY <1>1, SeqIs
<1>3. IsSeq(u) /\ Len(u) = Len(s) + Len(t)
  BY <1>1, ConcatIs
<1>4. \A i \in 1 .. Len(s) + Len(t) : u[i] = IF i <= Len(s) THEN s[i] ELSE t[i - Len(s)]
  BY <1>1, ConcatIs
<1> HIDE DEF u
<1>5. ASSUME NEW i \in 1 .. Len(u)
      PROVE  u[i].of.type = "LINE" /\ (u[i].of.kind = "content" => c # NULL /\ u[i].of.val = c)
  <2>1. CASE i <= Len(s)
    BY <1>2, <1>3, <1>4, <2>1 DEF Lines
  <2>2. CASE ~(i <= Len(s))
    <3>1. i - Len(s) \in 1 .. Len(t)
      BY <1>2, <1>3, <2>2
    <3> QED
      BY <1>3, <1>4, <2>2, <3>1 DEF Lines
  <2> QED
    BY <2>1, <2>2
<1>6. s # <<>> => u # <<>>
  BY <1>1, <1>2, <1>3, SeqIs
<1> QED
  BY <1>3, <1>5, <1>6 DEF Lines, u

LEMMA ReplyTextIs ==
    ASSUME NEW status, NEW number, NEW content
    PROVE  Lines(ReplyText(status, number, content), content)
           /\ ReplyText(status, number, content) # <<>>
<1> DEFINE a == Line("status", status)
           b == Line("s", number)
           c == Line("l", IF content = NULL THEN 0 ELSE 2)
           d == Line("", 0)
           e == IF content = NULL THEN <<>> ELSE Line("content", content)
<1>1. Lines(a, content) /\ Lines(b, content) /\ Lines(c, content) /\ Lines(d, content)
      /\ a # <<>>
  BY LineIs
<1>2. Lines(e, content)
  <2>1. CASE content = NULL
    BY <2>1, NoSeq DEF Lines
  <2>2. CASE content # NULL
    BY <2>2, LineIs
  <2> QED
    BY <2>1, <2>2
<1> HIDE DEF a, b, c, d, e
<1>3. Lines(a \o b, content) /\ a \o b # <<>>
  BY <1>1, LinesConcat
<1>4. Lines((a \o b) \o c, content) /\ (a \o b) \o c # <<>>
  BY <1>1, <1>3, LinesConcat
<1>5. Lines(((a \o b) \o c) \o d, content) /\ ((a \o b) \o c) \o d # <<>>
  BY <1>1, <1>4, LinesConcat
<1>6. Lines((((a \o b) \o c) \o d) \o e, content) /\ (((a \o b) \o c) \o d) \o e # <<>>
  BY <1>2, <1>5, LinesConcat
<1>7. ReplyText(status, number, content) = (((a \o b) \o c) \o d) \o e
  BY DEF ReplyText, a, b, c, d, e
<1> QED
  BY <1>6, <1>7

\* The one or two texts that a reply is sent in, each a part of it.
LEMMA RecordsAre ==
    ASSUME NEW text, NEW c, Lines(text, c), NEW texts \in Records(text)
    PROVE  \E n \in 1 .. 2 :
              /\ DOMAIN texts = 1 .. n /\ Len(texts) = n
              /\ \A j \in 1 .. n : Lines(texts[j], c)
<1>1. IsSeq(text)
  BY DEF Lines
<1>2. CASE texts = <<text>>
  <2>1. DOMAIN texts = 1 .. 1 /\ Len(texts) = 1 /\ texts[1] = text
    BY <1>2
  <2> QED
    BY <2>1
<1>3. ASSUME NEW n \in 1 .. Len(text) - 1,
             texts = <<SubSeq(text, 1, n), SubSeq(text, n + 1, Len(text))>>
      PROVE  /\ DOMAIN texts = 1 .. 2 /\ Len(texts) = 2
             /\ \A j \in 1 .. 2 : Lines(texts[j], c)
  <2> DEFINE a == SubSeq(text, 1, n)
             b == SubSeq(text, n + 1, Len(text))
  <2>1. Len(text) \in Nat /\ n \in 0 .. Len(text)
    BY <1>1, SeqIs
  <2>2. IsSeq(a) /\ Len(a) = n /\ \A i \in 1 .. n : a[i] = text[i]
    BY <1>1, <2>1, CutIs
  <2>3. IsSeq(b) /\ Len(b) = Len(text) - n /\ \A i \in 1 .. Len(text) - n : b[i] = text[n + i]
    BY <1>1, <2>1, CutIs
  <2> HIDE DEF a, b
  <2>4. Lines(a, c)
    BY <2>1, <2>2 DEF Lines
  <2>5. Lines(b, c)
    <3>1. \A i \in 1 .. Len(text) - n : n + i \in 1 .. Len(text)
      BY <2>1
    <3> QED
      BY <2>3, <3>1 DEF Lines
  <2>6. texts = <<a, b>>
    BY <1>3 DEF a, b
  <2>7. DOMAIN texts = 1 .. 2 /\ Len(texts) = 2 /\ texts[1] = a /\ texts[2] = b
    BY <2>6
  <2> QED
    BY <2>4, <2>5, <2>7
<1> QED
  BY <1>2, <1>3 DEF Records

-----------------------------------------------------------------------------
(* The steps: sequences and counters                                       *)

\* SeqInv is kept.
LEMMA ClientSeq ==
    ASSUME IInv, Client
    PROVE  SeqInv'
<1>1. SeqInv /\ ClientInv /\ StreamInv /\ PlaceInv
  BY DEF IInv, TlsInv
<1>2. UNCHANGED serverSum
  BY ClientKeeps DEF serverVars
<1>3. IsSeq(read) /\ IsSeq(toClient) /\ IsSeq(toServer) /\ IsSeq(checksum)
      /\ IsSeq(serverSum) /\ IsSeq(response)
  BY <1>1 DEF SeqInv
<1>4. CASE UNCHANGED tlsVars /\ response' = response
  BY <1>3, <1>4 DEF SeqInv, tlsVars, clientVars, serverVars
<1>5. CASE StartTlsRequest
  BY <1>2, <1>3, <1>5, SendIs DEF StartTlsRequest, SeqInv, clientVars
<1>6. CASE StartTlsReply
  <2>1. PICK n \in 1 .. Len(toClient) :
           /\ toClient' = SubSeq(toClient, n + 1, Len(toClient))
           /\ response' \in {response \o SubSeq(toClient, 1, n), <<>>}
    BY <1>6, Zenon DEF StartTlsReply
  <2>2. n \in 0 .. Len(toClient)
    BY <1>3, SeqIs
  <2>3. IsSeq(SubSeq(toClient, 1, n)) /\ IsSeq(SubSeq(toClient, n + 1, Len(toClient)))
    BY <1>3, <2>2, CutIs
  <2>4. IsSeq(response \o SubSeq(toClient, 1, n)) /\ IsSeq(<<>>)
    BY <1>3, <2>3, ConcatIs, NoSeq
  <2>5. IsSeq(toClient') /\ IsSeq(response')
    BY <2>1, <2>3, <2>4
  <2> QED
    BY <1>2, <1>3, <1>6, <2>5 DEF StartTlsReply, SeqInv, clientVars
<1>7. CASE Asks
  BY <1>2, <1>3, <1>7, SendIs, NoSeq DEF Asks, SendRequest, SeqInv
<1>8. CASE RecvResponse
  <2>1. step \in Requests /\ parse_tls12_handshake = "OK"
    BY <1>8 DEF RecvResponse
  <2>2. Awaited = "APPLICATION_DATA"
    BY <1>1, <2>1 DEF PlaceInv, Handshaken, Awaited
  <2>3. IsSeq(Unread) /\ TheRecord.type = "APPLICATION_DATA" /\ IsSent(TheRecord)
    BY <1>1, <2>1, <2>2, Taken
  <2>4. IsSeq(TheRecord.msg)
    BY <2>3, SentIs
  <2>5. IsSeq(response \o TheRecord.msg)
    BY <1>3, <2>4, ConcatIs
  <2>6. UNCHANGED <<checksum, toServer, toClient>>
        /\ \/ UNCHANGED <<read, response>>
           \/ read' = Unread /\ response' = response \o TheRecord.msg
    BY <1>8 DEF RecvResponse
  <2> QED
    BY <1>2, <1>3, <2>3, <2>5, <2>6 DEF SeqInv
<1>10. CASE response' = response /\ RecvToBuffer
  BY <1>2, <1>3, <1>10, Received DEF RecvToBuffer, SeqInv
<1>11. CASE response' = response /\ ParseFails
  BY <1>2, <1>3, <1>11 DEF ParseFails, SeqInv
<1>12. CASE response' = response /\ ServerMessage
  <2>1. checksum' = Append(checksum, TheRecord.msg) /\ (read' = Unread \/ read' = read)
        /\ UNCHANGED <<toServer, toClient>>
    BY <1>1, <1>12, ServerMessageIs
  <2>2. IsSeq(Unread) /\ IsSeq(Append(checksum, TheRecord.msg))
    BY <1>1, <1>3, <1>12, ServerMessageIs, Taken, AppendIs
  <2> QED
    BY <1>2, <1>3, <1>12, <2>1, <2>2 DEF SeqInv
<1>13. CASE response' = response /\ ssl_srp_write_client_hello
  BY <1>2, <1>3, <1>13, SendIs, AppendIs DEF ssl_srp_write_client_hello, SeqInv
<1>14. CASE response' = response /\ ssl_srp_write_client_key_exchange
  BY <1>2, <1>3, <1>14, SendIs, AppendIs DEF ssl_srp_write_client_key_exchange, SeqInv
<1>15. CASE response' = response /\ ssl_srp_write_change_cipher_spec
  BY <1>2, <1>3, <1>15, SendIs DEF ssl_srp_write_change_cipher_spec, SeqInv
<1>16. CASE response' = response /\ ClientFinished
  BY <1>2, <1>3, <1>16, SendIs, AppendIs DEF ClientFinished, SeqInv
<1>17. CASE response' = response /\ ssl_srp_process_change_cipher_spec
  BY <1>1, <1>2, <1>3, <1>17, Taken DEF ssl_srp_process_change_cipher_spec, SeqInv
<1>18. CASE response' = response /\ ssl_srp_process_encrypted_handshake
  BY <1>2, <1>3, <1>18, NoSeq DEF ssl_srp_process_encrypted_handshake, SeqInv
<1> QED
  BY ClientCases, <1>4, <1>5, <1>6, <1>7, <1>8, <1>10, <1>11, <1>12, <1>13, <1>14, <1>15,
     <1>16, <1>17, <1>18, Zenon

LEMMA ServerSeq ==
    ASSUME IInv, Server \/ ServerCloses
    PROVE  SeqInv'
<1>1. IsSeq(read) /\ IsSeq(toClient) /\ IsSeq(toServer) /\ IsSeq(checksum)
      /\ IsSeq(serverSum) /\ IsSeq(response)
  BY DEF IInv, TlsInv, SeqInv
<1>2. UNCHANGED <<read, checksum, response>>
  BY ServerKeeps DEF clientVars
<1>3. IsSeq(toServer')
  <2>1. toServer' = toServer \/ (toServer # <<>> /\ toServer' = Tail(toServer))
    BY DEF Server, ServerCloses, ServerStartsTls, ServerAnswers, ServerHandshake, ServerHello,
       ServerKeyExchange, ServerChangeCipherSpec, ServerAlert, ServerFinished, tlsVars
  <2> QED
    BY <1>1, <2>1, TailIs
<1>4. IsSeq(serverSum')
  <2>1. CASE ServerHello
    <3>1. PICK suite \in Suites :
             serverSum' = <<Head(toServer).msg>>
                             \o <<Message("server_hello", suite),
                                  Message("server_key_exchange", NULL),
                                  Message("server_done", NULL)>>
      BY <2>1 DEF ServerHello
    <3> DEFINE m == Head(toServer).msg
               a == Message("server_hello", suite)
               b == Message("server_key_exchange", NULL)
               c == Message("server_done", NULL)
    <3> HIDE DEF m, a, b, c
    <3>2. <<m>> \o <<a, b, c>> \in Seq({m, a, b, c})
      OBVIOUS
    <3> QED
      BY <3>1, <3>2, SeqIn DEF m, a, b, c
  <2>2. \/ ServerHello \/ serverSum' = serverSum
        \/ serverSum' = Append(serverSum, Head(toServer).msg)
    BY Zenon DEF Server, ServerCloses, ServerStartsTls, ServerAnswers, ServerHandshake,
       ServerKeyExchange, ServerChangeCipherSpec, ServerAlert, ServerFinished, serverVars, tlsVars
  <2>3. CASE serverSum' = Append(serverSum, Head(toServer).msg)
    BY <1>1, <2>3, AppendIs
  <2> QED
    BY <1>1, <2>1, <2>2, <2>3
<1>5. IsSeq(toClient')
  <2>1. CASE ServerStartsTls
    <3>1. PICK status \in {400, 500} :
             toClient' = toClient \o ReplyText(status, Head(toServer).msg, NULL)
      BY <2>1 DEF ServerStartsTls
    <3>2. IsSeq(ReplyText(status, Head(toServer).msg, NULL))
      BY ReplyTextIs DEF Lines
    <3> QED
      BY <1>1, <3>1, <3>2, ConcatIs
  <2>2. CASE ServerAnswers
    <3>1. PICK answer \in Answers(Head(toServer).msg) :
             \E texts \in Records(ReplyText(answer[1], Head(toServer).msg.body.number, answer[2])) :
                Reply([i \in DOMAIN texts |->
                          Protected("APPLICATION_DATA", texts[i], serverMaster,
                                    serverWriteId + i - 1)])
      BY <2>2 DEF ServerAnswers
    <3>2. PICK texts \in Records(ReplyText(answer[1], Head(toServer).msg.body.number, answer[2])) :
             Reply([i \in DOMAIN texts |->
                       Protected("APPLICATION_DATA", texts[i], serverMaster,
                                 serverWriteId + i - 1)])
      BY <3>1
    <3> DEFINE rs == [i \in DOMAIN texts |->
                         Protected("APPLICATION_DATA", texts[i], serverMaster,
                                   serverWriteId + i - 1)]
    <3>3. PICK n \in 1 .. 2 : DOMAIN texts = 1 .. n
      BY <3>2, ReplyTextIs, RecordsAre
    <3>4. DOMAIN rs = 1 .. n /\ Reply(rs) /\ n \in 1 .. 3
      BY <3>2, <3>3
    <3> HIDE DEF rs
    <3> QED
      BY <1>1, <1>2, <3>4, ReplyIs
  <2>3. CASE ServerHello
    <3>1. PICK flight : Reply([i \in 1 .. 3 |-> Plain("HANDSHAKE", flight[i])])
      BY <2>3 DEF ServerHello
    <3> DEFINE rs == [i \in 1 .. 3 |-> Plain("HANDSHAKE", flight[i])]
    <3>2. DOMAIN rs = 1 .. 3 /\ Reply(rs) /\ 3 \in 1 .. 3
      BY <3>1
    <3> HIDE DEF rs
    <3> QED
      BY <1>1, <1>2, <3>2, ReplyIs
  <2>4. ASSUME NEW a, NEW b, Reply(<<a, b>>) PROVE IsSeq(toClient')
    <3>1. DOMAIN <<a, b>> = 1 .. 2 /\ 2 \in 1 .. 3
      OBVIOUS
    <3> QED
      BY <1>1, <1>2, <2>4, <3>1, ReplyIs
  <2>5. ASSUME NEW a, Reply(<<a>>) PROVE IsSeq(toClient')
    <3>1. DOMAIN <<a>> = 1 .. 1 /\ 1 \in 1 .. 3
      OBVIOUS
    <3> QED
      BY <1>1, <1>2, <2>5, <3>1, ReplyIs
  <2>6. CASE \E unchecked \in BOOLEAN : ServerFinished(unchecked)
    <3>1. \E a, b : Reply(<<a, b>>) \/ Reply(<<a>>)
      BY <2>6, Zenon DEF ServerFinished
    <3> QED
      BY <2>4, <2>5, <3>1
  <2>7. CASE ServerAlert
    BY <2>5, <2>7 DEF ServerAlert
  <2>8. CASE toClient' = toClient
    BY <1>1, <2>8
  <2> QED
    BY <2>1, <2>2, <2>3, <2>6, <2>7, <2>8
       DEF Server, ServerCloses, ServerHandshake, ServerKeyExchange, ServerChangeCipherSpec, tlsVars
<1> QED
  BY <1>1, <1>2, <1>3, <1>4, <1>5 DEF SeqInv

\* Each side counts its records and sums its messages where it is.
LEMMA ClientCounts ==
    ASSUME IInv, Client
    PROVE  ClientInv'
<1>1. SeqInv /\ ClientInv /\ StreamInv /\ PlaceInv
  BY DEF IInv, TlsInv
<1>2. IsSeq(checksum) /\ Len(checksum) \in Nat
  BY <1>1, SeqIs DEF SeqInv
<1>3. ASSUME NEW x PROVE Len(Append(checksum, x)) = Len(checksum) + 1
  BY <1>2, AppendIs
<1> USE DEF ClientInv, HasFinished, Handshaken, Summed, States, premaster_secret
<1>4. CASE UNCHANGED tlsVars \/ StartTlsRequest \/ StartTlsReply
  BY <1>1, <1>4 DEF StartTlsRequest, StartTlsReply, tlsVars, clientVars
<1>5. CASE Asks
  <2>1. Handshaken
    BY <1>1, <1>5 DEF Asks, PlaceInv
  <2> QED
    BY <1>1, <1>5, <2>1 DEF Asks, SendRequest
<1>6. CASE RecvResponse
  <2>1. /\ Handshaken /\ UNCHANGED <<password, state, checksum, which, master, next_write_id>>
        /\ next_read_id' \in {next_read_id, next_read_id + 1}
    BY <1>1, <1>6 DEF RecvResponse, PlaceInv
  <2> QED
    BY <1>1, <2>1
<1>7. CASE RecvToBuffer
  BY <1>1, <1>7 DEF RecvToBuffer
<1>8. CASE ParseFails
  BY <1>1, <1>8, NotNull DEF ParseFails, Awaiting
<1>9. CASE ServerMessage
  <2>1. /\ ~HasFinished /\ ~Handshaken /\ failure = NULL
        /\ checksum' = Append(checksum, TheRecord.msg)
        /\ UNCHANGED <<next_read_id, next_write_id>>
    BY <1>1, <1>9, ServerMessageIs
  <2>2. Len(checksum') = Summed + 1 /\ next_read_id' = 0 /\ next_write_id' = 0
    <3>1. Len(checksum) = Summed /\ next_read_id = 0 /\ next_write_id = 0
      BY <1>1, <2>1
    <3>2. Len(checksum') = Len(checksum) + 1
      BY <1>3, <2>1
    <3> QED
      BY <2>1, <3>1, <3>2
  <2>3. CASE /\ Summed' = Summed + 1 /\ state' \in States /\ ~HasFinished' /\ ~Handshaken'
    <3> HIDE DEF HasFinished, Handshaken, Summed, States
    <3> QED
      BY <2>2, <2>3
  <2>4. CASE failure' = "BAD_INPUT_DATA" /\ state' = state
    <3>1. Summed' = Summed /\ (HasFinished' <=> HasFinished) /\ (Handshaken' <=> Handshaken)
      BY <2>4
    <3>2. state' \in States
      BY <1>1, <2>4
    <3> HIDE DEF HasFinished, Handshaken, Summed, States
    <3> QED
      BY <2>1, <2>2, <2>4, <3>1, <3>2, NotNull
  <2> QED
    BY <1>1, <1>9, <2>3, <2>4, ServerMessageIs
<1>10. CASE ssl_srp_write_client_hello
  BY <1>1, <1>2, <1>3, <1>10 DEF ssl_srp_write_client_hello, Awaiting
<1>11. CASE ssl_srp_write_client_key_exchange
  <2>1. /\ failure = NULL /\ state = "AWAIT_CLIENT_KEY_EXCHANGE"
        /\ state' = "AWAIT_CLIENT_CHANGE_CIPHER_SPEC"
        /\ UNCHANGED <<failure, next_read_id, next_write_id>>
    BY <1>11 DEF ssl_srp_write_client_key_exchange, Awaiting
  <2>2. Len(checksum') = Len(checksum) + 1
    BY <1>3, <1>11 DEF ssl_srp_write_client_key_exchange
  <2>3. Len(checksum) = 4 /\ next_read_id = 0 /\ next_write_id = 0
    BY <1>1, <2>1
  <2> QED
    BY <2>1, <2>2, <2>3
<1>12. CASE ssl_srp_write_change_cipher_spec
  BY <1>1, <1>2, <1>12 DEF ssl_srp_write_change_cipher_spec, Awaiting
<1>13. CASE ClientFinished
  <2>1. /\ failure = NULL /\ state = "AWAIT_CLIENT_HANDSHAKE"
        /\ state' = "AWAIT_SERVER_CHANGE_CIPHER_SPEC" /\ master' = premaster_secret
        /\ next_write_id' = next_write_id + 1
        /\ UNCHANGED <<password, which, failure, next_read_id>>
    BY <1>13 DEF ClientFinished, Awaiting
  <2>2. Len(checksum') = Len(checksum) + 1
    BY <1>3, <1>13 DEF ClientFinished
  <2>3. Len(checksum) = 5 /\ next_read_id = 0 /\ next_write_id = 0
    BY <1>1, <2>1
  <2>4. premaster_secret' = premaster_secret
    BY <2>1
  <2> HIDE DEF premaster_secret
  <2> QED
    BY <2>1, <2>2, <2>3, <2>4
<1>14. CASE ssl_srp_process_change_cipher_spec
  BY <1>1, <1>2, <1>14 DEF ssl_srp_process_change_cipher_spec, Awaiting
<1>15. CASE ssl_srp_process_encrypted_handshake
  <2>1. /\ failure = NULL /\ state = "AWAIT_SERVER_ENC_HANDSHAKE"
        /\ next_read_id' = next_read_id + 1
        /\ UNCHANGED <<password, which, master, checksum, next_write_id>>
        /\ \/ state' = "AWAIT_CLIENT_FINISHED" /\ failure' = failure
           \/ state' = state /\ failure' \in {"BAD_INPUT_DATA", "HMAC"}
    BY <1>15, Zenon DEF ssl_srp_process_encrypted_handshake, Awaiting
  <2>2. /\ Len(checksum) = 6 /\ next_read_id = 0 /\ next_write_id = 1
        /\ master = premaster_secret
    BY <1>1, <2>1
  <2>3. premaster_secret' = premaster_secret
    BY <2>1
  <2> HIDE DEF premaster_secret
  <2> QED
    BY <2>1, <2>2, <2>3, NotNull
<1> QED
  BY ClientCases, <1>4, <1>5, <1>6, <1>7, <1>8, <1>9, <1>10, <1>11, <1>12, <1>13, <1>14, <1>15,
     Zenon

LEMMA ServerCounts ==
    ASSUME IInv, Server
    PROVE  ServerInv'
<1>1. SeqInv /\ ServerInv
  BY DEF IInv, TlsInv
<1>2. IsSeq(serverSum) /\ Len(serverSum) \in Nat
  BY <1>1, SeqIs DEF SeqInv
<1>3. ASSUME NEW x
      PROVE  /\ Len(Append(serverSum, x)) = Len(serverSum) + 1
             /\ \A i \in 1 .. Len(serverSum) : Append(serverSum, x)[i] = serverSum[i]
  BY <1>2, AppendIs
<1> USE DEF ServerInv, ServerStates
<1>4. CASE ServerStartsTls
  BY <1>1, <1>4 DEF ServerStartsTls, serverVars
<1>5. CASE ServerAnswers
  <2>1. PICK answer \in Answers(Head(toServer).msg) :
           \E texts \in Records(ReplyText(answer[1], Head(toServer).msg.body.number, answer[2])) :
              serverWriteId' = serverWriteId + Len(texts)
    BY <1>5 DEF ServerAnswers
  <2>2. PICK texts \in Records(ReplyText(answer[1], Head(toServer).msg.body.number, answer[2])) :
              serverWriteId' = serverWriteId + Len(texts)
    BY <2>1
  <2>3. Len(texts) \in 1 .. 2
    BY <2>2, ReplyTextIs, RecordsAre
  <2>4. server = "requests" /\ serverReadId' = serverReadId + 1
        /\ UNCHANGED <<server, serverSum, serverMaster>>
    BY <1>5 DEF ServerAnswers
  <2>5. serverReadId \in Nat \ {0} /\ serverWriteId \in Nat \ {0}
    BY <1>1, <2>4
  <2>6. serverReadId' \in Nat /\ serverReadId' # 0 /\ serverReadId' # 1
    BY <2>4, <2>5
  <2>7. serverWriteId' \in Nat /\ serverWriteId' # 0
    BY <2>2, <2>3, <2>5
  <2> QED
    BY <1>1, <2>4, <2>6, <2>7
<1>6. CASE ServerHello
  <2>1. PICK suite \in Suites :
           /\ serverSum' = <<Head(toServer).msg>>
                              \o <<Message("server_hello", suite),
                                   Message("server_key_exchange", NULL),
                                   Message("server_done", NULL)>>
           /\ serverMaster' = [hash |-> IF suite = "AES_256" THEN "static_verifier_hash"
                                                             ELSE "static_legacy_hash",
                               password |-> Account]
    BY <1>6 DEF ServerHello
  <2> DEFINE m == Head(toServer).msg
             a == Message("server_hello", suite)
             b == Message("server_key_exchange", NULL)
             c == Message("server_done", NULL)
  <2>2. a.hs = "server_hello" /\ b.hs = "server_key_exchange" /\ c.hs = "server_done"
    BY DEF Message
  <2>3. serverMaster'.password = Account
    BY <2>1
  <2>4. serverSum' = <<m>> \o <<a, b, c>>
    BY <2>1
  <2>5. UNCHANGED <<serverReadId, serverWriteId>> /\ server = "hello" /\ server' = "key_exchange"
    BY <1>6 DEF ServerHello
  <2> HIDE DEF m, a, b, c
  <2>6. /\ Len(serverSum') = 4 /\ serverSum'[2] = a /\ serverSum'[3] = b /\ serverSum'[4] = c
    BY <2>4
  <2> QED
    BY <1>1, <2>2, <2>3, <2>5, <2>6
<1>7. CASE ServerKeyExchange
  <2>1. /\ server = "key_exchange" /\ server' = "change_cipher_spec"
        /\ UNCHANGED <<serverMaster, serverReadId, serverWriteId>>
        /\ serverSum' = Append(serverSum, Head(toServer).msg)
    BY <1>7 DEF ServerKeyExchange
  <2>2. Len(serverSum) = 4
    BY <1>1, <2>1
  <2>3. /\ Len(serverSum') = 5 /\ serverSum'[2] = serverSum[2]
        /\ serverSum'[3] = serverSum[3] /\ serverSum'[4] = serverSum[4]
    BY <1>3, <2>1, <2>2
  <2> QED
    BY <1>1, <2>1, <2>3
<1>8. CASE ServerChangeCipherSpec
  BY <1>1, <1>2, <1>3, <1>8 DEF ServerChangeCipherSpec
<1>9. CASE ServerAlert
  BY <1>1, <1>2, <1>9 DEF ServerAlert
<1>10. CASE \E unchecked \in BOOLEAN : ServerFinished(unchecked)
  <2>1. /\ server = "finished" /\ serverMaster' = serverMaster
        /\ \/ /\ serverSum' = Append(serverSum, Head(toServer).msg) /\ server' = "requests"
              /\ serverReadId' = serverReadId + 1 /\ serverWriteId' = serverWriteId + 1
           \/ /\ server' = "refused" /\ UNCHANGED <<serverSum, serverReadId, serverWriteId>>
    BY <1>10, Zenon DEF ServerFinished
  <2>2. Len(serverSum) = 5
    BY <1>1, <2>1
  <2>3. CASE serverSum' = Append(serverSum, Head(toServer).msg) /\ server' = "requests"
             /\ serverReadId' = serverReadId + 1 /\ serverWriteId' = serverWriteId + 1
    <3>1. /\ Len(serverSum') = 6 /\ serverSum'[2] = serverSum[2]
          /\ serverSum'[3] = serverSum[3] /\ serverSum'[4] = serverSum[4]
      BY <1>3, <2>2, <2>3
    <3> QED
      BY <1>1, <2>1, <2>3, <3>1
  <2>4. CASE server' = "refused" /\ UNCHANGED <<serverSum, serverReadId, serverWriteId>>
    BY <1>1, <2>1, <2>2, <2>4
  <2> QED
    BY <2>1, <2>3, <2>4
<1> QED
  BY <1>4, <1>5, <1>6, <1>7, <1>8, <1>9, <1>10 DEF Server, ServerHandshake

-----------------------------------------------------------------------------
(* The steps: the stream to the client                                     *)

\* The stream stays, and the client waits for the same record.
LEMMA SameStream ==
    ASSUME StreamInv, Stream' = Stream, UNCHANGED serverVars, NextIn' = NextIn,
           \/ state' = state /\ checksum' = checksum
           \/ state' = state /\ state # "AWAIT_CLIENT_HELLO"
           \/ /\ state' # "AWAIT_CLIENT_HELLO"
              /\ (server = "hello" \/ Residue) => state' = "AWAIT_SERVER_HELLO"
    PROVE  StreamInv'
<1>1. UNCHANGED <<server, serverSum, serverMaster, serverWriteId>>
  BY DEF serverVars
<1>2. ServerNextOut' = ServerNextOut /\ Residue' = Residue
  BY <1>1 DEF ServerNextOut, Residue
<1>3. (\A i \in DOMAIN Stream : IsSent(Stream[i].of))'
  BY <1>1 DEF StreamInv, IsSent
<1>4. (~Residue => /\ Chain(Stream, NextIn, ServerNextOut)
                   /\ \A i \in DOMAIN Stream : Stream[i].of.type # "LINE")'
  BY <1>2 DEF StreamInv
<1> QED
  BY <1>1, <1>2, <1>3, <1>4 DEF StreamInv

\* The client takes the record that it waits for.
LEMMA TakenStream ==
    ASSUME SeqInv, ClientInv, StreamInv, parse_tls12_handshake = "OK", UNCHANGED serverVars,
           Stream' = Unread \o toClient, NextIn' = NextIn + 1,
           state' \notin {"AWAIT_CLIENT_HELLO", "AWAIT_SERVER_HELLO"}
    PROVE  StreamInv'
<1>1. UNCHANGED <<server, serverSum, serverMaster, serverWriteId>>
  BY DEF serverVars
<1>2. ServerNextOut' = ServerNextOut
  BY <1>1 DEF ServerNextOut
<1>3. /\ ~Residue /\ server # "hello"
      /\ Chain(Unread \o toClient, NextIn + 1, ServerNextOut)
      /\ \A i \in DOMAIN Stream' : \E j \in DOMAIN Stream : Stream'[i] = Stream[j]
  BY Taken
<1>4. ASSUME NEW i \in DOMAIN Stream'
      PROVE  IsSent(Stream[i].of)' /\ Stream'[i].of.type # "LINE"
  <2>1. PICK j \in DOMAIN Stream : Stream'[i] = Stream[j]
    BY <1>3
  <2>2. IsSent(Stream[j].of) /\ Stream[j].of.type # "LINE"
    BY <1>3 DEF StreamInv
  <2> QED
    BY <1>1, <2>1, <2>2 DEF IsSent
<1>5. ~Residue'
  <2>1. SUFFICES ASSUME Stream' # <<>> PROVE Stream'[1].of.type # "LINE"
    BY DEF Residue
  <2>2. IsSeq(Stream')
    <3>1. IsSeq(Unread) /\ IsSeq(toClient)
      BY Taken DEF SeqInv
    <3> QED
      BY <3>1, ConcatIs
  <2>3. 1 \in DOMAIN Stream'
    BY <2>1, <2>2, SeqIs
  <2> QED
    BY <1>4, <2>3
<1>6. Chain(Stream, NextIn, ServerNextOut)'
  BY <1>2, <1>3
<1> QED
  BY <1>1, <1>3, <1>4, <1>5, <1>6 DEF StreamInv

\* Whatever the client does, the stream is the records from the one it waits for on.
LEMMA ClientStream ==
    ASSUME IInv, Client
    PROVE  StreamInv'
<1>1. SeqInv /\ ClientInv /\ StreamInv /\ PlaceInv /\ ServerInv /\ QueueInv
  BY DEF IInv, TlsInv
<1>2. UNCHANGED serverVars
  BY ClientKeeps
<1>3. CASE UNCHANGED tlsVars \/ StartTlsRequest
  <2>1. UNCHANGED <<read, toClient, state, checksum, next_read_id>>
    BY <1>3 DEF StartTlsRequest, tlsVars, clientVars
  <2> QED
    BY <1>1, <1>2, <2>1, SameStream DEF Stream, NextIn
<1>4. CASE StartTlsReply
  <2>1. /\ state = "AWAIT_CLIENT_HELLO" /\ read = <<>> /\ server = "hello"
        /\ checksum = <<>>
    BY <1>1, <1>4 DEF StartTlsReply, PlaceInv, StreamInv
  <2>2. UNCHANGED <<read, state, checksum, server, serverSum, serverMaster>>
    BY <1>2, <1>4 DEF StartTlsReply, clientVars, serverVars
  <2>3. PICK n \in 1 .. Len(toClient) : toClient' = SubSeq(toClient, n + 1, Len(toClient))
    BY <1>4 DEF StartTlsReply
  <2>4. IsSeq(toClient) /\ Len(toClient) \in Nat /\ n \in 0 .. Len(toClient)
    BY <1>1, <2>3, SeqIs DEF SeqInv
  <2>5. /\ IsSeq(toClient') /\ Len(toClient') = Len(toClient) - n
        /\ \A i \in 1 .. Len(toClient) - n : toClient'[i] = toClient[n + i]
    BY <2>3, <2>4, CutIs
  <2>6. ASSUME NEW s, IsSeq(s) PROVE <<>> \o s = s
    BY <2>6 DEF IsSeq
  <2>7. Stream = toClient /\ Stream' = toClient'
    BY <2>1, <2>2, <2>4, <2>5, <2>6 DEF Stream
  <2>8. ASSUME NEW i \in DOMAIN Stream'
        PROVE  IsSent(Stream[i].of)' /\ Stream'[i].of.type = "LINE"
    <3>1. i \in 1 .. Len(toClient) - n
      BY <2>5, <2>7, SeqIs
    <3>2. n + i \in DOMAIN Stream /\ Stream'[i] = Stream[n + i]
      <4>1. n + i \in 1 .. Len(toClient)
        BY <2>4, <3>1
      <4> QED
        BY <2>4, <2>5, <2>7, <3>1, <4>1, SeqIs
    <3>3. IsSent(Stream[n + i].of) /\ Stream[n + i].of.type = "LINE"
      BY <1>1, <2>1, <3>2 DEF StreamInv
    <3> QED
      BY <2>2, <3>2, <3>3 DEF IsSent
  <2>9. ~Residue' => Stream' = <<>>
    <3>1. Stream' # <<>> => 1 \in DOMAIN Stream'
      BY <2>5, <2>7, SeqIs
    <3> QED
      BY <2>8, <3>1 DEF Residue
  <2>10. NextIn' = 1 /\ ServerNextOut' = 1
    BY <2>1, <2>2 DEF NextIn, ServerNextOut
  <2>11. Chain(<<>>, 1, 1)
    BY DEF Chain
  <2>12. (~Residue => /\ Chain(Stream, NextIn, ServerNextOut)
                      /\ \A i \in DOMAIN Stream : Stream[i].of.type # "LINE")'
    BY <2>9, <2>10, <2>11
  <2> QED
    BY <2>1, <2>2, <2>8, <2>12 DEF StreamInv
<1>5. CASE Asks
  <2>1. UNCHANGED <<read, toClient, state, checksum, next_read_id>>
    BY <1>5 DEF Asks, SendRequest
  <2> QED
    BY <1>1, <1>2, <2>1, SameStream DEF Stream, NextIn
<1>6. CASE RecvToBuffer
  <2>1. UNCHANGED <<state, checksum, next_read_id>> /\ Stream' = Stream
    BY <1>1, <1>6, Received DEF RecvToBuffer, SeqInv
  <2> QED
    BY <1>1, <1>2, <2>1, SameStream DEF NextIn
<1>7. CASE ParseFails
  <2>1. UNCHANGED <<read, toClient, state, checksum, next_read_id>>
    BY <1>7 DEF ParseFails
  <2> QED
    BY <1>1, <1>2, <2>1, SameStream DEF Stream, NextIn
<1>8. CASE RecvResponse
  <2>1. /\ parse_tls12_handshake = "OK" /\ UNCHANGED <<toClient, state, checksum>>
        /\ \/ UNCHANGED <<read, next_read_id>>
           \/ read' = Unread /\ next_read_id' = next_read_id + 1
    BY <1>8 DEF RecvResponse
  <2>2. state = "AWAIT_CLIENT_FINISHED"
    BY <1>1, <1>8 DEF RecvResponse, PlaceInv, Handshaken
  <2>3. CASE UNCHANGED <<read, next_read_id>>
    BY <1>1, <1>2, <2>1, <2>3, SameStream DEF Stream, NextIn
  <2>4. CASE read' = Unread /\ next_read_id' = next_read_id + 1
    <3>1. Stream' = Unread \o toClient
      BY <2>1, <2>4 DEF Stream
    <3>2. NextIn' = NextIn + 1
      BY <1>1, <2>1, <2>2, <2>4 DEF NextIn, ClientInv
    <3> QED
      BY <1>1, <1>2, <2>1, <2>2, <3>1, <3>2, TakenStream
  <2> QED
    BY <2>1, <2>3, <2>4
<1>9. CASE ServerMessage
  <2>1. parse_tls12_handshake = "OK" /\ UNCHANGED <<toClient, next_read_id>>
        /\ state # "AWAIT_CLIENT_HELLO"
    BY <1>1, <1>9, ServerMessageIs
  <2>2. CASE /\ read' = Unread /\ NextIn' = NextIn + 1
             /\ state' \notin {"AWAIT_CLIENT_HELLO", "AWAIT_SERVER_HELLO"}
    <3>1. Stream' = Unread \o toClient
      BY <2>1, <2>2 DEF Stream
    <3> QED
      BY <1>1, <1>2, <2>1, <2>2, <3>1, TakenStream
  <2>3. CASE read' = read /\ state' = state
    BY <1>1, <1>2, <2>1, <2>3, SameStream DEF Stream, NextIn
  <2> QED
    BY <1>1, <1>9, <2>2, <2>3, ServerMessageIs
<1>10. CASE \/ ssl_srp_write_client_hello \/ ssl_srp_write_client_key_exchange
            \/ ssl_srp_write_change_cipher_spec \/ ClientFinished
  <2>1. /\ UNCHANGED <<read, toClient, next_read_id>> /\ state' # "AWAIT_CLIENT_HELLO"
        /\ \/ state = "AWAIT_CLIENT_HELLO" /\ state' = "AWAIT_SERVER_HELLO"
           \/ /\ state \in {"AWAIT_CLIENT_KEY_EXCHANGE", "AWAIT_CLIENT_CHANGE_CIPHER_SPEC",
                            "AWAIT_CLIENT_HANDSHAKE"}
              /\ state' \in {"AWAIT_CLIENT_CHANGE_CIPHER_SPEC", "AWAIT_CLIENT_HANDSHAKE",
                             "AWAIT_SERVER_CHANGE_CIPHER_SPEC"}
    BY <1>10 DEF ssl_srp_write_client_hello, ssl_srp_write_client_key_exchange,
       ssl_srp_write_change_cipher_spec, ClientFinished
  <2>2. NextIn' = NextIn
    BY <2>1 DEF NextIn
  <2>3. (server = "hello" \/ Residue) => state' = "AWAIT_SERVER_HELLO"
    BY <1>1, <2>1 DEF StreamInv
  <2>4. Stream' = Stream
    BY <2>1 DEF Stream
  <2> QED
    BY <1>1, <1>2, <2>1, <2>2, <2>3, <2>4, SameStream
<1>11. CASE ssl_srp_process_change_cipher_spec
  <2>1. /\ parse_tls12_handshake = "OK" /\ read' = Unread /\ UNCHANGED toClient
        /\ state = "AWAIT_SERVER_CHANGE_CIPHER_SPEC" /\ state' = "AWAIT_SERVER_ENC_HANDSHAKE"
    BY <1>11 DEF ssl_srp_process_change_cipher_spec
  <2>2. NextIn' = NextIn + 1 /\ Stream' = Unread \o toClient
    BY <2>1 DEF NextIn, Stream
  <2> QED
    BY <1>1, <1>2, <2>1, <2>2, TakenStream
<1>12. CASE ssl_srp_process_encrypted_handshake
  <2>1. /\ parse_tls12_handshake = "OK" /\ UNCHANGED <<toClient, checksum>>
        /\ state = "AWAIT_SERVER_ENC_HANDSHAKE" /\ failure = NULL
        /\ next_read_id' = next_read_id + 1
        /\ \/ read' = <<>> /\ state' = "AWAIT_CLIENT_FINISHED"
           \/ read' = read /\ state' = state
    BY <1>12, Zenon DEF ssl_srp_process_encrypted_handshake, Awaiting
  <2>2. next_read_id = 0 /\ NextIn = 5
    BY <1>1, <2>1 DEF ClientInv, NextIn, Handshaken
  <2>3. CASE read' = <<>> /\ state' = "AWAIT_CLIENT_FINISHED"
    <3>1. NextIn' = NextIn + 1
      BY <2>1, <2>2, <2>3 DEF NextIn
    <3>2. toClient = <<>> /\ Unread = <<>>
      <4>1. ServerNextOut = 6
        <5>1. TheRecord.type = "HANDSHAKE" /\ Number(TheRecord) = 5 /\ IsSent(TheRecord)
          BY <1>1, <2>1, <2>2, Taken DEF Awaited
        <5>2. server = "requests"
          <6>1. ASSUME NEW k \in 2 .. 4, server # "hello", TheRecord.msg = serverSum[k] PROVE FALSE
            BY <1>1, <5>1, <6>1 DEF Number, ServerInv
          <6> QED
            BY <5>1, <6>1, SentIs
        <5>3. HasFinished /\ ~Handshaken /\ next_write_id = 1
          BY <1>1, <2>1 DEF HasFinished, Handshaken, ClientInv
        <5>4. Queue(toServer, 4 + serverReadId, 5)
          BY <1>1, <5>2, <5>3 DEF QueueInv, ServerNextIn, NextOut
        <5>5. serverReadId = 1
          <6>1. serverReadId \in Nat \ {0}
            BY <1>1, <5>2 DEF ServerInv
          <6>2. 4 + serverReadId <= 5
            BY <1>1, <5>4, <6>1, QueueUpTo DEF SeqInv
          <6> QED
            BY <6>1, <6>2
        <5> QED
          BY <1>1, <5>2, <5>5 DEF ServerInv, ServerNextOut
      <4>2. ServerNextOut = NextIn + 1
        BY <2>2, <4>1
      <4> QED
        BY <1>1, <2>1, <4>2, LastTaken
    <3>3. Stream' = Unread \o toClient
      BY <2>1, <2>3, <3>2 DEF Stream
    <3> QED
      BY <1>1, <1>2, <2>1, <2>3, <3>1, <3>3, TakenStream
  <2>4. CASE read' = read /\ state' = state
    BY <1>1, <1>2, <2>1, <2>4, SameStream DEF Stream, NextIn
  <2> QED
    BY <2>1, <2>3, <2>4
<1> QED
  BY ClientCases, <1>3, <1>4, <1>5, <1>6, <1>7, <1>8, <1>9, <1>10, <1>11, <1>12, Zenon

\* The server sends the records rs.
LEMMA RepliedStream ==
    ASSUME IInv, UNCHANGED clientVars, server # "hello" \/ state # "AWAIT_CLIENT_HELLO",
           NEW rs, NEW n \in 1 .. 3, DOMAIN rs = 1 .. n, Reply(rs), server' # "hello",
           ServerNextOut' = ServerNextOut + n,
           \A j \in 1 .. n : IsSent(rs[j])' /\ rs[j].type # "LINE"
                             /\ Number(rs[j]) = ServerNextOut + j - 1,
           \A r : IsSent(r) /\ (\E i \in DOMAIN Stream : r = Stream[i].of) => IsSent(r)'
    PROVE  StreamInv'
<1>1. SeqInv /\ ServerInv /\ StreamInv
  BY DEF IInv, TlsInv
<1>2. UNCHANGED <<read, state, checksum, next_read_id>>
  BY DEF clientVars
<1>3. ServerNextOut \in Nat /\ state # "AWAIT_CLIENT_HELLO"
  BY <1>1 DEF ServerNextOut, ServerInv, StreamInv
<1>4. /\ IsSeq(Stream') /\ Stream' # <<>>
      /\ Len(Stream') > Len(Stream)
      /\ \A i \in 1 .. Len(Stream) : Stream'[i] = Stream[i]
      /\ \A i \in 1 .. Len(Stream') : i > Len(Stream) => \E j \in 1 .. n : Stream'[i].of = rs[j]
      /\ \A a : \A m \in Nat :
            Chain(Stream, a, m) /\ (\A j \in 1 .. n : Number(rs[j]) = m + j - 1) =>
               Chain(Stream', a, m + n)
  BY <1>1, <1>2, ReplyIs DEF SeqInv
<1>5. IsSeq(Stream)
  BY <1>1, ConcatIs DEF SeqInv, Stream
<1>6. Len(Stream) \in Nat /\ Len(Stream') \in Nat /\ DOMAIN Stream = 1 .. Len(Stream)
      /\ DOMAIN Stream' = 1 .. Len(Stream')
  BY <1>4, <1>5, SeqIs
<1>7. ASSUME NEW i \in DOMAIN Stream'
      PROVE  /\ IsSent(Stream[i].of)'
             /\ ~Residue => Stream'[i].of.type # "LINE"
  <2>1. CASE i <= Len(Stream)
    <3>1. i \in DOMAIN Stream /\ Stream'[i] = Stream[i]
      BY <1>4, <1>6, <2>1
    <3>2. PICK r : r = Stream[i].of
      OBVIOUS
    <3>3. IsSent(r) /\ (~Residue => r.type # "LINE")
      BY <1>1, <3>1, <3>2 DEF StreamInv
    <3>4. IsSent(r)'
      BY <3>1, <3>2, <3>3
    <3> QED
      BY <3>1, <3>2, <3>3, <3>4 DEF IsSent
  <2>2. CASE i > Len(Stream)
    <3>1. PICK j \in 1 .. n : Stream'[i].of = rs[j]
      BY <1>4, <1>6, <2>2
    <3>2. IsSent(rs[j])' /\ rs[j].type # "LINE"
      OBVIOUS
    <3> QED
      BY <3>1, <3>2 DEF IsSent
  <2>3. i <= Len(Stream) \/ i > Len(Stream)
    BY <1>6
  <2> QED
    BY <2>1, <2>2, <2>3, Zenon
<1>8. Residue => Residue'
  <2> SUFFICES ASSUME Residue PROVE Residue'
    OBVIOUS
  <2>1. 1 \in 1 .. Len(Stream)
    BY <1>5, <1>6, SeqIs DEF Residue
  <2> QED
    BY <1>4, <2>1 DEF Residue
<1>9. ~Residue' => Chain(Stream, NextIn, ServerNextOut)'
  <2> SUFFICES ASSUME ~Residue PROVE Chain(Stream, NextIn, ServerNextOut)'
    BY <1>8
  <2>1. Chain(Stream, NextIn, ServerNextOut)
    BY <1>1 DEF StreamInv
  <2>2. Chain(Stream', NextIn, ServerNextOut + n)
    BY <1>3, <1>4, <2>1
  <2>3. NextIn' = NextIn
    BY <1>2 DEF NextIn
  <2> QED
    BY <2>2, <2>3
<1>10. Residue' => state' \in {"AWAIT_CLIENT_HELLO", "AWAIT_SERVER_HELLO"}
  <2>1. CASE Residue
    BY <1>1, <1>2, <2>1 DEF StreamInv
  <2>2. CASE ~Residue
    <3>1. 1 \in DOMAIN Stream'
      BY <1>4, <1>6, SeqIs
    <3> QED
      BY <1>7, <2>2, <3>1 DEF Residue
  <2> QED
    BY <2>1, <2>2
<1> QED
  BY <1>2, <1>3, <1>7, <1>8, <1>9, <1>10 DEF StreamInv

\* What the server can have sent, it can have sent later.
LEMMA SentStays ==
    ASSUME ServerInv, NEW r, IsSent(r),
           \/ UNCHANGED <<server, serverMaster>> /\ serverSum' = serverSum
           \/ /\ server # "requests" /\ server # "refused" /\ server # "hello" /\ server' # "hello"
              /\ \A n \in 2 .. 4 : serverSum'[n] = serverSum[n]
           \/ server = "hello" /\ r.type = "LINE"
    PROVE  IsSent(r)'
<1>1. CASE UNCHANGED <<server, serverMaster>> /\ serverSum' = serverSum
  BY <1>1 DEF IsSent
<1>2. CASE /\ server # "requests" /\ server # "refused" /\ server # "hello" /\ server' # "hello"
           /\ \A n \in 2 .. 4 : serverSum'[n] = serverSum[n]
  <2>1. CASE r.type = "LINE" /\ r.kind # "content"
    BY <2>1 DEF IsSent
  <2>2. CASE \E n \in 2 .. 4 : r = Plain("HANDSHAKE", serverSum[n])
    <3>1. \E n \in 2 .. 4 : r = Plain("HANDSHAKE", serverSum'[n])
      BY <1>2, <2>2
    <3> QED
      BY <1>2, <3>1 DEF IsSent
  <2> QED
    BY <1>2, <2>1, <2>2, Zenon DEF IsSent
<1>3. CASE server = "hello" /\ r.type = "LINE"
  <2>1. r.kind # "content"
    BY <1>3, SentIs
  <2> QED
    BY <1>3, <2>1 DEF IsSent
<1> QED
  BY <1>1, <1>2, <1>3

\* What the client can have written, by its place.
LEMMA WrittenIs ==
    ASSUME NEW r, IsWritten(r)
    PROVE  /\ OutNumber(r) = 0 \/ OutNumber(r) \in Nat
           /\ OutNumber(r) = 0 => r.type = "STS" /\ server = "hello"
           /\ OutNumber(r) = 1 => Len(checksum) >= 1 /\ r.msg = checksum[1]
           /\ OutNumber(r) = 2 => Len(checksum) >= 5 /\ r.msg = checksum[5]
           /\ OutNumber(r) = 4 => Len(checksum) >= 6 /\ r.msg = checksum[6]
           /\ OutNumber(r) >= 5 => r.type = "APPLICATION_DATA"
           /\ r.type = "HANDSHAKE" => OutNumber(r) \in {1, 2, 4} /\ Len(checksum) >= 1
           /\ r.type = "STS" => OutNumber(r) = 0
  BY DEF IsWritten, OutNumber

\* The record that the server takes.
LEMMA NextTaken ==
    ASSUME IInv, toServer # <<>>, server # "refused"
    PROVE  /\ IsWritten(Head(toServer))
           /\ \/ /\ OutNumber(Head(toServer)) = ServerNextIn
                 /\ Queue(Tail(toServer), ServerNextIn + 1, NextOut)
              \/ /\ server = "hello" /\ OutNumber(Head(toServer)) = 0
                 /\ Queue(Tail(toServer), ServerNextIn, NextOut)
           /\ IsSeq(Tail(toServer))
           /\ \A i \in DOMAIN Tail(toServer) :
                 i + 1 \in DOMAIN toServer /\ Tail(toServer)[i] = toServer[i + 1]
           /\ 1 \in DOMAIN toServer /\ Head(toServer) = toServer[1]
<1>1. IsSeq(toServer) /\ QueueInv
  BY DEF IInv, TlsInv, SeqInv
<1>2. Head(toServer) = toServer[1] /\ IsSeq(Tail(toServer)) /\ Len(Tail(toServer)) = Len(toServer) - 1
      /\ \A i \in 1 .. Len(toServer) - 1 : Tail(toServer)[i] = toServer[i + 1]
  BY <1>1, TailIs
<1>3. Len(toServer) \in Nat /\ Len(toServer) # 0 /\ DOMAIN toServer = 1 .. Len(toServer)
  BY <1>1, SeqIs
<1>4. 1 \in DOMAIN toServer
  BY <1>3
<1>5. IsWritten(Head(toServer))
  BY <1>1, <1>2, <1>4 DEF QueueInv
<1>6. ASSUME NEW i \in DOMAIN Tail(toServer)
      PROVE  i + 1 \in DOMAIN toServer /\ Tail(toServer)[i] = toServer[i + 1]
  <2>1. i \in 1 .. Len(toServer) - 1
    BY <1>2, SeqIs
  <2>2. i + 1 \in 1 .. Len(toServer)
    BY <1>3, <2>1
  <2> QED
    BY <1>2, <1>3, <2>1, <2>2
<1>7. CASE Queue(toServer, ServerNextIn, NextOut)
  BY <1>1, <1>2, <1>4, <1>5, <1>6, <1>7, QueueTail
<1>8. CASE server = "hello" /\ Queue(toServer, 0, NextOut)
  <2>1. OutNumber(Head(toServer)) = 0 /\ Queue(Tail(toServer), 0 + 1, NextOut)
    BY <1>1, <1>8, QueueTail
  <2>2. ServerNextIn = 0 + 1
    BY <1>8 DEF ServerNextIn
  <2> QED
    BY <1>2, <1>4, <1>5, <1>6, <1>8, <2>1, <2>2
<1> QED
  BY <1>1, <1>7, <1>8 DEF QueueInv

\* Whatever the server does, the stream goes on with the next of its records.
LEMMA ServerStream ==
    ASSUME IInv, Server
    PROVE  StreamInv'
<1>1. SeqInv /\ ClientInv /\ StreamInv /\ ServerInv /\ QueueInv
  BY DEF IInv, TlsInv
<1>2. UNCHANGED clientVars
  BY ServerKeeps
<1>3. UNCHANGED <<read, state, checksum, next_read_id>>
  BY <1>2 DEF clientVars
<1>4. server # "hello" => ServerNextOut \in Nat /\ state # "AWAIT_CLIENT_HELLO"
  BY <1>1 DEF ServerNextOut, ServerInv, StreamInv
<1>5. CASE ServerStartsTls
  <2>1. UNCHANGED serverVars /\ toServer # <<>> /\ Head(toServer).type = "STS"
    BY <1>5 DEF ServerStartsTls
  <2>2. PICK status \in {400, 500} :
           toClient' = toClient \o ReplyText(status, Head(toServer).msg, NULL)
    BY <1>5 DEF ServerStartsTls
  <2> DEFINE text == ReplyText(status, Head(toServer).msg, NULL)
  <2>3. IsSeq(text) /\ text # <<>>
        /\ \A i \in 1 .. Len(text) : text[i].of.type = "LINE" /\ text[i].of.kind # "content"
    BY ReplyTextIs DEF Lines
  <2>4. server = "hello"
    <3>1. 1 \in DOMAIN toServer /\ Head(toServer) = toServer[1]
      BY <1>1, <2>1, TailIs, SeqIs DEF SeqInv
    <3>2. IsWritten(Head(toServer))
      BY <1>1, <3>1 DEF QueueInv
    <3> QED
      BY <2>1, <3>2, WrittenIs
  <2>5. toClient' = toClient \o text
    BY <2>2
  <2> HIDE DEF text
  <2>6. UNCHANGED <<server, serverSum, serverMaster>>
    BY <2>1 DEF serverVars
  <2>7. IsSeq(read) /\ IsSeq(toClient) /\ IsSeq(Stream)
    BY <1>1, ConcatIs DEF SeqInv, Stream
  <2>8. Stream' = Stream \o text
    <3>1. read \o (toClient \o text) = (read \o toClient) \o text
      BY <2>3, <2>7, ConcatAssoc
    <3> QED
      BY <1>3, <2>5, <3>1 DEF Stream
  <2>9. Lines(Stream', NULL) /\ Stream' # <<>>
    <3>1. Lines(text, NULL)
      BY <2>3 DEF Lines
    <3>2. Lines(Stream, NULL)
      <4>1. ASSUME NEW i \in 1 .. Len(Stream)
            PROVE  Stream[i].of.type = "LINE" /\ Stream[i].of.kind # "content"
        <5>1. i \in DOMAIN Stream
          BY <2>7, SeqIs
        <5>2. IsSent(Stream[i].of) /\ Stream[i].of.type = "LINE"
          BY <1>1, <2>4, <5>1 DEF StreamInv
        <5> QED
          BY <5>2, SentIs
      <4> QED
        BY <2>7, <4>1 DEF Lines
    <3>3. Len(text) # 0 /\ Len(text) \in Nat /\ Len(Stream) \in Nat
          /\ Len(Stream') = Len(Stream) + Len(text)
      BY <2>3, <2>7, <2>8, SeqIs, ConcatIs
    <3>4. Stream' # <<>>
      BY <3>3, NoSeq
    <3> QED
      BY <2>8, <3>1, <3>2, <3>4, LinesConcat
  <2>10. ASSUME NEW i \in DOMAIN Stream'
         PROVE  Stream'[i].of.type = "LINE" /\ Stream'[i].of.kind # "content"
    <3>1. i \in 1 .. Len(Stream')
      BY <2>9, SeqIs DEF Lines
    <3> QED
      BY <2>9, <3>1 DEF Lines
  <2>11. Residue'
    <3>1. 1 \in DOMAIN Stream'
      BY <2>9, SeqIs DEF Lines
    <3> QED
      BY <2>9, <2>10, <3>1 DEF Residue
  <2> QED
    BY <1>1, <1>3, <2>4, <2>6, <2>10, <2>11 DEF StreamInv, IsSent
<1>6. CASE ServerAnswers
  <2>1. /\ server = "requests" /\ UNCHANGED <<server, serverSum, serverMaster>>
        /\ \E answer \in Answers(Head(toServer).msg) :
              \E texts \in Records(ReplyText(answer[1], Head(toServer).msg.body.number, answer[2])) :
                 /\ Reply([i \in DOMAIN texts |->
                              Protected("APPLICATION_DATA", texts[i], serverMaster,
                                        serverWriteId + i - 1)])
                 /\ serverWriteId' = serverWriteId + Len(texts)
    BY <1>6 DEF ServerAnswers
  <2>2. PICK answer \in Answers(Head(toServer).msg) :
           \E texts \in Records(ReplyText(answer[1], Head(toServer).msg.body.number, answer[2])) :
                 /\ Reply([i \in DOMAIN texts |->
                              Protected("APPLICATION_DATA", texts[i], serverMaster,
                                        serverWriteId + i - 1)])
                 /\ serverWriteId' = serverWriteId + Len(texts)
    BY <2>1
  <2>3. PICK texts \in Records(ReplyText(answer[1], Head(toServer).msg.body.number, answer[2])) :
                 /\ Reply([i \in DOMAIN texts |->
                              Protected("APPLICATION_DATA", texts[i], serverMaster,
                                        serverWriteId + i - 1)])
                 /\ serverWriteId' = serverWriteId + Len(texts)
    BY <2>2
  <2>4. PICK n \in 1 .. 2 : /\ DOMAIN texts = 1 .. n /\ Len(texts) = n
                            /\ \A j \in 1 .. n : Lines(texts[j], answer[2])
    BY <2>3, ReplyTextIs, RecordsAre
  <2>5. PICK rs : rs = [i \in DOMAIN texts |-> Protected("APPLICATION_DATA", texts[i], serverMaster,
                                                         serverWriteId + i - 1)]
    OBVIOUS
  <2>6. DOMAIN rs = 1 .. n /\ Reply(rs) /\ n \in 1 .. 3
    BY <2>3, <2>4, <2>5
  <2>7. serverWriteId \in Nat \ {0}
    BY <1>1, <2>1 DEF ServerInv
  <2>8. ServerNextOut = 5 + serverWriteId /\ ServerNextOut' = ServerNextOut + n
    BY <2>1, <2>3, <2>4, <2>7 DEF ServerNextOut
  <2>9. ASSUME NEW j \in 1 .. n
        PROVE  /\ IsSent(rs[j])' /\ rs[j].type # "LINE"
               /\ Number(rs[j]) = ServerNextOut + j - 1
    <3>1. rs[j] = Protected("APPLICATION_DATA", texts[j], serverMaster, serverWriteId + j - 1)
      BY <2>4, <2>5
    <3>2. /\ rs[j].type = "APPLICATION_DATA" /\ rs[j].key = serverMaster /\ rs[j].msg = texts[j]
          /\ rs[j].id = serverWriteId + j - 1
      BY <3>1, ProtectedHas
    <3>3. rs[j].id \in Nat \ {0}
      BY <2>7, <3>2
    <3>4. IsSeq(rs[j].msg)
      BY <2>4, <3>2 DEF Lines
    <3>5. Number(rs[j]) = ServerNextOut + j - 1
      BY <2>7, <2>8, <3>2 DEF Number
    <3> QED
      BY <2>1, <3>2, <3>3, <3>4, <3>5 DEF IsSent
  <2>10. \A r : IsSent(r) => IsSent(r)'
    BY <1>1, <2>1, SentStays
  <2> QED
    BY <1>2, <2>1, <2>6, <2>8, <2>9, <2>10, RepliedStream
<1>7. CASE ServerHello
  <2>1. PICK suite \in Suites :
           LET flight == <<Message("server_hello", suite),
                           Message("server_key_exchange", NULL), Message("server_done", NULL)>>
           IN  /\ Reply([i \in 1 .. 3 |-> Plain("HANDSHAKE", flight[i])])
               /\ serverSum' = <<Head(toServer).msg>> \o flight
    BY <1>7 DEF ServerHello
  <2>2. server = "hello" /\ toServer # <<>> /\ Head(toServer).type = "HANDSHAKE"
        /\ server' = "key_exchange"
    BY <1>7 DEF ServerHello
  <2>3. state # "AWAIT_CLIENT_HELLO"
    <3>1. Len(checksum) >= 1
      BY <2>2, NextTaken, WrittenIs
    <3> QED
      BY <1>1, <3>1, NoSeq DEF StreamInv
  <2> DEFINE m == Head(toServer).msg
             a == Message("server_hello", suite)
             b == Message("server_key_exchange", NULL)
             c == Message("server_done", NULL)
  <2>4. PICK rs : rs = [i \in 1 .. 3 |-> Plain("HANDSHAKE", <<a, b, c>>[i])]
    OBVIOUS
  <2>5. serverSum' = <<m>> \o <<a, b, c>>
    BY <2>1
  <2>6. Reply(rs) /\ DOMAIN rs = 1 .. 3 /\ 3 \in 1 .. 3
    BY <2>1, <2>4
  <2>7. a.hs = "server_hello" /\ b.hs = "server_key_exchange" /\ c.hs = "server_done"
    BY DEF Message
  <2> HIDE DEF m, a, b, c
  <2>8. serverSum'[2] = a /\ serverSum'[3] = b /\ serverSum'[4] = c
    BY <2>5
  <2>9. rs[1] = Plain("HANDSHAKE", serverSum'[2]) /\ rs[2] = Plain("HANDSHAKE", serverSum'[3])
        /\ rs[3] = Plain("HANDSHAKE", serverSum'[4])
    BY <2>4, <2>8
  <2>10. ServerNextOut = 1 /\ ServerNextOut' = 1 + 3
    BY <2>2 DEF ServerNextOut
  <2>11. ASSUME NEW j \in 1 .. 3
         PROVE  /\ IsSent(rs[j])' /\ rs[j].type # "LINE"
                /\ Number(rs[j]) = ServerNextOut + j - 1
    <3>1. j + 1 \in 2 .. 4 /\ rs[j] = Plain("HANDSHAKE", serverSum'[j + 1])
      BY <2>9
    <3>2. IsSent(rs[j])'
      BY <2>2, <3>1 DEF IsSent
    <3>3. rs[j].type = "HANDSHAKE" /\ rs[j].msg = serverSum'[j + 1]
      BY <3>1, PlainHas
    <3>4. Number(rs[j]) = j
      BY <2>7, <2>8, <3>3 DEF Number
    <3> QED
      BY <2>10, <3>2, <3>3, <3>4
  <2>12. ASSUME NEW r, IsSent(r), NEW i \in DOMAIN Stream, r = Stream[i].of PROVE IsSent(r)'
    <3>1. r.type = "LINE"
      BY <1>1, <2>2, <2>12 DEF StreamInv
    <3> QED
      BY <1>1, <2>2, <2>12, <3>1, SentStays
  <2> QED
    BY <1>1, <1>2, <2>2, <2>3, <2>6, <2>10, <2>11, <2>12, RepliedStream
<1>8. CASE ServerKeyExchange \/ ServerChangeCipherSpec
  <2>1. /\ UNCHANGED <<toClient, serverMaster>>
        /\ \/ /\ server = "key_exchange" /\ server' = "change_cipher_spec"
              /\ serverSum' = Append(serverSum, Head(toServer).msg)
           \/ /\ server = "change_cipher_spec" /\ server' = "finished" /\ serverSum' = serverSum
    BY <1>8 DEF ServerKeyExchange, ServerChangeCipherSpec
  <2>2. \A n \in 2 .. 4 : serverSum'[n] = serverSum[n]
    <3>1. IsSeq(serverSum) /\ Len(serverSum) \in {4, 5}
      BY <1>1, <2>1 DEF SeqInv, ServerInv
    <3> QED
      BY <2>1, <3>1, AppendIs
  <2>3. Stream' = Stream /\ NextIn' = NextIn /\ ServerNextOut' = ServerNextOut
        /\ Residue' = Residue
    BY <1>3, <2>1 DEF Stream, NextIn, ServerNextOut, Residue
  <2>4. ASSUME NEW i \in DOMAIN Stream' PROVE IsSent(Stream[i].of)'
    <3>1. PICK r : r = Stream[i].of
      OBVIOUS
    <3>2. IsSent(r)
      BY <1>1, <2>3, <3>1 DEF StreamInv
    <3>3. IsSent(r)'
      BY <1>1, <2>1, <2>2, <3>2, SentStays
    <3> QED
      BY <2>3, <3>1, <3>3 DEF IsSent
  <2>5. (~Residue => /\ Chain(Stream, NextIn, ServerNextOut)
                     /\ \A i \in DOMAIN Stream : Stream[i].of.type # "LINE")'
    BY <1>1, <2>3 DEF StreamInv
  <2> QED
    BY <1>1, <1>3, <2>1, <2>3, <2>4, <2>5 DEF StreamInv
<1>9. CASE (ServerAlert \/ \E unchecked \in BOOLEAN : ServerFinished(unchecked))
           /\ server' = "refused"
  <2>1. /\ server \in {"key_exchange", "change_cipher_spec", "finished"}
        /\ UNCHANGED <<serverSum, serverMaster>> /\ Reply(<<Plain("ALERT", NULL)>>)
    BY <1>9, Zenon DEF ServerAlert, ServerFinished
  <2>2. PICK rs : rs = <<Plain("ALERT", NULL)>>
    OBVIOUS
  <2>3. DOMAIN rs = 1 .. 1 /\ 1 \in 1 .. 3 /\ rs[1] = Plain("ALERT", NULL)
    BY <2>2
  <2>4. ServerNextOut = 4 /\ ServerNextOut' = 4 + 1
    BY <1>9, <2>1 DEF ServerNextOut
  <2>5. rs[1].type = "ALERT" /\ IsSent(rs[1])'
    BY <1>9, <2>3, PlainHas DEF IsSent
  <2>6. Number(rs[1]) = 4
    BY <2>5 DEF Number
  <2>7. \A r : IsSent(r) => IsSent(r)'
    BY <1>1, <1>9, <2>1, SentStays
  <2>8. \A j \in 1 .. 1 : /\ IsSent(rs[j])' /\ rs[j].type # "LINE"
                          /\ Number(rs[j]) = ServerNextOut + j - 1
    BY <2>4, <2>5, <2>6
  <2> QED
    BY <1>2, <1>9, <2>1, <2>2, <2>3, <2>4, <2>7, <2>8, RepliedStream
<1>10. CASE (\E unchecked \in BOOLEAN : ServerFinished(unchecked)) /\ server' # "refused"
  <2> DEFINE sum == Append(serverSum, Head(toServer).msg)
             fin == Finished("server finished", serverMaster, sum)
  <2>1. /\ server = "finished" /\ server' = "requests" /\ serverMaster' = serverMaster
        /\ Reply(<<Plain("CHANGE_CIPHER_SPEC", NULL),
                   Protected("HANDSHAKE", fin, serverMaster, serverWriteId)>>)
        /\ serverSum' = sum /\ serverWriteId' = serverWriteId + 1
    BY <1>10, Zenon DEF ServerFinished
  <2>2. serverWriteId = 0
    BY <1>1, <2>1 DEF ServerInv
  <2>4. PICK f : f = fin
    OBVIOUS
  <2>5. f = Finished("server finished", serverMaster', serverSum') /\ f.hs = "finished"
    BY <2>1, <2>4 DEF Finished, Message
  <2>6. Reply(<<Plain("CHANGE_CIPHER_SPEC", NULL), Protected("HANDSHAKE", f, serverMaster, 0)>>)
    BY <2>1, <2>2, <2>4
  <2>7. PICK rs : rs = <<Plain("CHANGE_CIPHER_SPEC", NULL),
                         Protected("HANDSHAKE", f, serverMaster, 0)>>
    OBVIOUS
  <2>8. DOMAIN rs = 1 .. 2 /\ 2 \in 1 .. 3 /\ rs[1] = Plain("CHANGE_CIPHER_SPEC", NULL)
        /\ rs[2] = Protected("HANDSHAKE", f, serverMaster, 0)
    BY <2>7
  <2> HIDE DEF fin
  <2>9. ServerNextOut = 4 /\ ServerNextOut' = 4 + 2
    BY <2>1, <2>2 DEF ServerNextOut
  <2>10. rs[1].type = "CHANGE_CIPHER_SPEC" /\ IsSent(rs[1])'
    BY <2>1, <2>8, PlainHas DEF IsSent
  <2>11. rs[2].type = "HANDSHAKE" /\ rs[2].msg = f
    BY <2>8, ProtectedHas
  <2>12. IsSent(rs[2])'
    BY <2>1, <2>5, <2>8 DEF IsSent
  <2>13. Number(rs[1]) = 4 /\ Number(rs[2]) = 5
    BY <2>5, <2>10, <2>11 DEF Number
  <2>14. \A n \in 2 .. 4 : serverSum'[n] = serverSum[n]
    <3>1. IsSeq(serverSum) /\ Len(serverSum) = 5
      BY <1>1, <2>1 DEF SeqInv, ServerInv
    <3> QED
      BY <2>1, <3>1, AppendIs
  <2>15. \A r : IsSent(r) => IsSent(r)'
    BY <1>1, <2>1, <2>14, SentStays
  <2>16. \A j \in 1 .. 2 : /\ IsSent(rs[j])' /\ rs[j].type # "LINE"
                           /\ Number(rs[j]) = ServerNextOut + j - 1
    BY <2>9, <2>10, <2>11, <2>12, <2>13
  <2> QED
    BY <1>2, <2>1, <2>6, <2>7, <2>8, <2>9, <2>15, <2>16, RepliedStream
<1>11. ASSUME ServerAlert PROVE server' = "refused"
  BY <1>11 DEF ServerAlert
<1> QED
  BY <1>5, <1>6, <1>7, <1>8, <1>9, <1>10, <1>11, Zenon DEF Server, ServerHandshake

-----------------------------------------------------------------------------
(* The steps: the queue to the server                                      *)

\* What the client has written, it has written later.
LEMMA WrittenStays ==
    ASSUME NEW r, IsWritten(r), server' = server \/ r.type # "STS", IsSeq(checksum),
           checksum' = checksum \/ \E x : checksum' = Append(checksum, x)
    PROVE  IsWritten(r)'
<1>1. Len(checksum) \in Nat
  BY SeqIs
<1>2. Len(checksum') >= Len(checksum) /\ Len(checksum') \in Nat
      /\ \A i \in 1 .. Len(checksum) : checksum'[i] = checksum[i]
  BY <1>1, AppendIs
<1>3. \A n \in {1, 5, 6} : Len(checksum) >= n => Len(checksum') >= n /\ checksum'[n] = checksum[n]
  BY <1>1, <1>2
<1> QED
  BY <1>3 DEF IsWritten

\* The client writes nothing.
LEMMA SameQueue ==
    ASSUME IInv, UNCHANGED <<toServer, serverVars>>, NextOut' = NextOut,
           checksum' = checksum \/ \E x : checksum' = Append(checksum, x)
    PROVE  QueueInv'
<1>1. QueueInv /\ IsSeq(checksum)
  BY DEF IInv, TlsInv, SeqInv
<1>2. UNCHANGED <<server, serverReadId>>
  BY DEF serverVars
<1>3. ServerNextIn' = ServerNextIn
  BY <1>2 DEF ServerNextIn
<1>4. ASSUME NEW i \in DOMAIN toServer' PROVE IsWritten(toServer[i])'
  <2>1. PICK r : r = toServer[i]
    OBVIOUS
  <2>2. IsWritten(r)
    BY <1>1, <2>1 DEF QueueInv
  <2>3. IsWritten(r)'
    BY <1>1, <1>2, <2>2, WrittenStays
  <2> QED
    BY <2>1, <2>3 DEF IsWritten
<1> QED
  BY <1>1, <1>2, <1>3, <1>4 DEF QueueInv

\* The client writes one more record.
LEMMA MoreQueue ==
    ASSUME IInv, UNCHANGED serverVars, NEW r, Send(<<r>>), IsWritten(r)',
           checksum' = checksum \/ \E x : checksum' = Append(checksum, x),
           \/ OutNumber(r) = NextOut /\ NextOut' = NextOut + 1
           \/ OutNumber(r) = 0 /\ toServer = <<>> /\ server = "hello" /\ NextOut' = 1
    PROVE  QueueInv'
<1>1. QueueInv /\ IsSeq(checksum) /\ IsSeq(toServer)
  BY DEF IInv, TlsInv, SeqInv
<1>2. UNCHANGED <<server, serverReadId>>
  BY DEF serverVars
<1>3. ServerNextIn' = ServerNextIn
  BY <1>2 DEF ServerNextIn
<1>4. toServer' = Append(toServer, r) /\ IsSeq(toServer')
  BY <1>1, SendIs
<1>5. /\ Len(toServer') = Len(toServer) + 1 /\ toServer'[Len(toServer) + 1] = r
      /\ \A i \in 1 .. Len(toServer) : toServer'[i] = toServer[i]
  BY <1>1, <1>4, AppendIs
<1>6. Len(toServer) \in Nat /\ DOMAIN toServer = 1 .. Len(toServer)
      /\ DOMAIN toServer' = 1 .. Len(toServer) + 1 /\ toServer' # <<>>
  BY <1>1, <1>4, <1>5, SeqIs
<1>7. ASSUME NEW i \in DOMAIN toServer' PROVE IsWritten(toServer[i])'
  <2>1. CASE i \in DOMAIN toServer
    <3>1. PICK q : q = toServer[i]
      OBVIOUS
    <3>2. IsWritten(q)
      BY <1>1, <2>1, <3>1 DEF QueueInv
    <3>3. IsWritten(q)'
      BY <1>1, <1>2, <3>2, WrittenStays
    <3>4. toServer'[i] = q
      BY <1>5, <1>6, <2>1, <3>1
    <3> QED
      BY <3>3, <3>4 DEF IsWritten
  <2>2. CASE i = Len(toServer) + 1
    BY <1>5, <2>2 DEF IsWritten
  <2> QED
    BY <1>6, <2>1, <2>2
<1>8. CASE OutNumber(r) = NextOut /\ NextOut' = NextOut + 1
  <2>1. \A a : Queue(toServer, a, NextOut) => Queue(toServer', a, NextOut + 1)
    BY <1>1, <1>4, <1>8, QueueAppend
  <2> QED
    BY <1>1, <1>2, <1>3, <1>6, <1>7, <1>8, <2>1 DEF QueueInv
<1>9. CASE OutNumber(r) = 0 /\ toServer = <<>> /\ server = "hello" /\ NextOut' = 1
  <2>1. Queue(toServer, 0, 0)
    BY <1>9 DEF Queue
  <2>2. Queue(toServer', 0, 0 + 1)
    BY <1>1, <1>4, <1>9, <2>1, QueueAppend
  <2> QED
    BY <1>2, <1>6, <1>7, <1>9, <2>2 DEF QueueInv
<1> QED
  BY <1>8, <1>9

\* The queue goes on with the client's next record.
LEMMA ClientQueue ==
    ASSUME IInv, Client
    PROVE  QueueInv'
<1>1. SeqInv /\ ClientInv /\ StreamInv /\ PlaceInv
  BY DEF IInv, TlsInv
<1>2. UNCHANGED serverVars
  BY ClientKeeps
<1>4. IsSeq(checksum) /\ Len(checksum) \in Nat
  BY <1>1, SeqIs DEF SeqInv
<1>5. ASSUME NEW x
      PROVE  /\ Len(Append(checksum, x)) = Len(checksum) + 1
             /\ Append(checksum, x)[Len(checksum) + 1] = x
  BY <1>4, AppendIs
<1>6. CASE UNCHANGED tlsVars \/ StartTlsReply \/ RecvResponse \/ RecvToBuffer \/ ParseFails
  <2>1. UNCHANGED <<toServer, checksum, state, next_write_id>>
    BY <1>6 DEF StartTlsReply, RecvResponse, RecvToBuffer, ParseFails, tlsVars, clientVars
  <2> QED
    BY <1>2, <2>1, SameQueue DEF NextOut, HasFinished
<1>7. CASE ServerMessage
  <2>1. UNCHANGED <<toServer, next_write_id>> /\ checksum' = Append(checksum, TheRecord.msg)
        /\ (NextOut' = NextOut \/ state' = state)
    BY <1>1, <1>7, ServerMessageIs
  <2>2. NextOut' = NextOut
    BY <2>1 DEF NextOut, HasFinished
  <2>3. \E x : checksum' = Append(checksum, x)
    BY <2>1
  <2> QED
    BY <1>2, <2>1, <2>2, <2>3, SameQueue
<1>8. CASE ssl_srp_process_change_cipher_spec \/ ssl_srp_process_encrypted_handshake
  <2>1. /\ UNCHANGED <<toServer, checksum, next_write_id>>
        /\ HasFinished /\ HasFinished'
    BY <1>8, Zenon DEF ssl_srp_process_change_cipher_spec, ssl_srp_process_encrypted_handshake,
       HasFinished
  <2>2. NextOut' = NextOut
    BY <2>1 DEF NextOut
  <2> QED
    BY <1>2, <2>1, <2>2, SameQueue
<1>9. CASE StartTlsRequest
  <2>1. /\ UNCHANGED <<state, checksum, next_write_id>>
        /\ Send(<<Plain("STS", seq_number')>>)
    BY <1>9 DEF StartTlsRequest, clientVars
  <2>2. state = "AWAIT_CLIENT_HELLO" /\ toServer = <<>> /\ server = "hello"
    BY <1>1, <1>9 DEF StartTlsRequest, PlaceInv, StreamInv
  <2>3. PICK r : r = Plain("STS", seq_number')
    OBVIOUS
  <2>4. r.type = "STS" /\ Send(<<r>>)
    BY <2>1, <2>3, PlainHas
  <2>5. IsWritten(r)' /\ OutNumber(r) = 0
    BY <1>2, <2>2, <2>4 DEF IsWritten, OutNumber, serverVars
  <2>6. NextOut' = 1
    BY <2>1, <2>2 DEF NextOut, HasFinished
  <2> QED
    BY <1>2, <2>1, <2>2, <2>4, <2>5, <2>6, MoreQueue
<1>10. CASE Asks
  <2>1. UNCHANGED <<state, checksum>> /\ next_write_id' = next_write_id + 1
    BY <1>10 DEF Asks, SendRequest
  <2>2. PICK code : Send(<<Protected("APPLICATION_DATA",
                        [hs |-> step, body |-> [number |-> seq_number', code |-> code]],
                        master, next_write_id)>>)
    BY <1>10 DEF Asks, SendRequest
  <2>3. PICK m : m = [hs |-> step, body |-> [number |-> seq_number', code |-> code]]
    OBVIOUS
  <2>4. PICK r : r = Protected("APPLICATION_DATA", m, master, next_write_id)
    OBVIOUS
  <2>5. Send(<<r>>)
    BY <2>2, <2>3, <2>4
  <2>6. r.type = "APPLICATION_DATA" /\ r.id = next_write_id
    BY <2>4, ProtectedHas
  <2>7. HasFinished /\ next_write_id \in Nat \ {0}
    BY <1>1, <1>10 DEF Asks, PlaceInv, Handshaken, HasFinished, ClientInv
  <2>8. IsWritten(r)' /\ OutNumber(r) = NextOut /\ NextOut' = NextOut + 1
    <3>1. HasFinished'
      BY <2>1, <2>7 DEF HasFinished
    <3>2. IsWritten(r)'
      BY <2>6, <2>7 DEF IsWritten
    <3> QED
      BY <2>1, <2>6, <2>7, <3>1, <3>2 DEF OutNumber, NextOut
  <2> QED
    BY <1>2, <2>1, <2>5, <2>8, MoreQueue
<1>11. CASE ssl_srp_write_client_hello
  <2>1. PICK m : m = Message("client_hello", Suites)
    OBVIOUS
  <2>2. /\ failure = NULL /\ state = "AWAIT_CLIENT_HELLO" /\ state' = "AWAIT_SERVER_HELLO"
        /\ checksum' = Append(checksum, m) /\ Send(<<Plain("HANDSHAKE", m)>>)
    BY <1>11, <2>1 DEF ssl_srp_write_client_hello, Awaiting
  <2>3. PICK r : r = Plain("HANDSHAKE", m)
    OBVIOUS
  <2>4. r.type = "HANDSHAKE" /\ r.msg = m /\ Send(<<r>>) /\ m.hs = "client_hello"
    BY <2>1, <2>2, <2>3, PlainHas DEF Message
  <2>5. Len(checksum) = 0
    BY <1>1, <2>2 DEF ClientInv, Summed
  <2>6. Len(checksum') = 1 /\ checksum'[1] = m
    BY <1>5, <2>2, <2>5
  <2>7. IsWritten(r)' /\ OutNumber(r) = 1
    BY <2>4, <2>6 DEF IsWritten, OutNumber
  <2>8. NextOut = 1 /\ NextOut' = 1 + 1
    BY <2>2 DEF NextOut, HasFinished
  <2> QED
    BY <1>2, <2>2, <2>4, <2>7, <2>8, MoreQueue
<1>12. CASE ssl_srp_write_client_key_exchange
  <2>1. PICK m : m = Message("client_key_exchange", NULL)
    OBVIOUS
  <2>2. /\ failure = NULL /\ state = "AWAIT_CLIENT_KEY_EXCHANGE"
        /\ state' = "AWAIT_CLIENT_CHANGE_CIPHER_SPEC"
        /\ checksum' = Append(checksum, m) /\ Send(<<Plain("HANDSHAKE", m)>>)
    BY <1>12, <2>1 DEF ssl_srp_write_client_key_exchange, Awaiting
  <2>3. PICK r : r = Plain("HANDSHAKE", m)
    OBVIOUS
  <2>4. r.type = "HANDSHAKE" /\ r.msg = m /\ Send(<<r>>) /\ m.hs = "client_key_exchange"
    BY <2>1, <2>2, <2>3, PlainHas DEF Message
  <2>5. Len(checksum) = 4
    BY <1>1, <2>2 DEF ClientInv, Summed
  <2>6. Len(checksum') = 5 /\ checksum'[5] = m
    BY <1>5, <2>2, <2>5
  <2>7. IsWritten(r)' /\ OutNumber(r) = 2
    BY <2>4, <2>6 DEF IsWritten, OutNumber
  <2>8. NextOut = 2 /\ NextOut' = 2 + 1
    BY <2>2 DEF NextOut, HasFinished
  <2> QED
    BY <1>2, <2>2, <2>4, <2>7, <2>8, MoreQueue
<1>13. CASE ssl_srp_write_change_cipher_spec
  <2>1. /\ state = "AWAIT_CLIENT_CHANGE_CIPHER_SPEC" /\ state' = "AWAIT_CLIENT_HANDSHAKE"
        /\ checksum' = checksum /\ Send(<<Plain("CHANGE_CIPHER_SPEC", NULL)>>)
    BY <1>13 DEF ssl_srp_write_change_cipher_spec
  <2>2. PICK r : r = Plain("CHANGE_CIPHER_SPEC", NULL)
    OBVIOUS
  <2>3. r.type = "CHANGE_CIPHER_SPEC" /\ Send(<<r>>)
    BY <2>1, <2>2, PlainHas
  <2>4. IsWritten(r)' /\ OutNumber(r) = 3
    BY <2>3 DEF IsWritten, OutNumber
  <2>5. NextOut = 3 /\ NextOut' = 3 + 1
    BY <2>1 DEF NextOut, HasFinished
  <2> QED
    BY <1>2, <2>1, <2>3, <2>4, <2>5, MoreQueue
<1>14. CASE ClientFinished
  <2>1. PICK m : m = Finished("client finished", premaster_secret, checksum)
    OBVIOUS
  <2>2. /\ failure = NULL /\ state = "AWAIT_CLIENT_HANDSHAKE"
        /\ state' = "AWAIT_SERVER_CHANGE_CIPHER_SPEC" /\ next_write_id' = next_write_id + 1
        /\ checksum' = Append(checksum, m)
        /\ Send(<<Protected("HANDSHAKE", m, premaster_secret, next_write_id)>>)
    BY <1>14, <2>1, Zenon DEF ClientFinished, Awaiting
  <2>3. PICK r : r = Protected("HANDSHAKE", m, premaster_secret, next_write_id)
    OBVIOUS
  <2>4. m.hs = "finished"
    BY <2>1 DEF Finished, Message
  <2>5. r.type = "HANDSHAKE" /\ r.msg = m /\ r.id = next_write_id
    BY <2>3, ProtectedHas
  <2>6. Send(<<r>>)
    BY <2>2, <2>3
  <2>7. Len(checksum) = 5 /\ next_write_id = 0
    BY <1>1, <2>2 DEF ClientInv, Summed, HasFinished
  <2>8. Len(checksum') = 6 /\ checksum'[6] = m
    BY <1>5, <2>2, <2>7
  <2>9. IsWritten(r)' /\ OutNumber(r) = 4
    BY <2>4, <2>5, <2>7, <2>8 DEF IsWritten, OutNumber
  <2>10. NextOut = 4 /\ NextOut' = 4 + 1
    BY <2>2, <2>7 DEF NextOut, HasFinished
  <2>11. \E x : checksum' = Append(checksum, x)
    BY <2>2
  <2> QED
    BY <1>2, <2>6, <2>9, <2>10, <2>11, MoreQueue
<1> QED
  BY ClientCases, <1>6, <1>7, <1>8, <1>9, <1>10, <1>11, <1>12, <1>13, <1>14, Zenon

\* The server takes the queue from the front.
LEMMA ServerQueue ==
    ASSUME IInv, Server
    PROVE  QueueInv'
<1>1. SeqInv /\ ClientInv /\ StreamInv /\ ServerInv /\ QueueInv
  BY DEF IInv, TlsInv
<1>2. UNCHANGED <<checksum, state, next_write_id>>
  BY ServerKeeps DEF clientVars
<1>3. NextOut' = NextOut /\ IsSeq(toServer) /\ IsSeq(checksum)
  BY <1>1, <1>2 DEF NextOut, HasFinished, SeqInv
<1>4. ASSUME toServer # <<>>, toServer' = Tail(toServer), server # "refused",
             \A i \in DOMAIN Tail(toServer) : server' = server \/ Tail(toServer)[i].type # "STS"
      PROVE  \A i \in DOMAIN toServer' : IsWritten(toServer[i])'
  <2> SUFFICES ASSUME NEW i \in DOMAIN toServer' PROVE IsWritten(toServer[i])'
    OBVIOUS
  <2>1. PICK r : r = Tail(toServer)[i]
    OBVIOUS
  <2>2. IsWritten(r)
    BY <1>1, <1>4, <2>1, NextTaken DEF QueueInv
  <2>3. IsWritten(r)'
    BY <1>2, <1>3, <1>4, <2>1, <2>2, WrittenStays
  <2> QED
    BY <1>4, <2>1, <2>3 DEF IsWritten
<1>5. CASE ServerStartsTls
  <2>1. UNCHANGED <<server, serverReadId>> /\ toServer # <<>> /\ Head(toServer).type = "STS"
        /\ toServer' = Tail(toServer)
    BY <1>5 DEF ServerStartsTls, serverVars
  <2>2. server = "hello"
    <3>1. 1 \in DOMAIN toServer /\ Head(toServer) = toServer[1]
      BY <1>1, <2>1, TailIs, SeqIs DEF SeqInv
    <3>2. IsWritten(Head(toServer))
      BY <1>1, <3>1 DEF QueueInv
    <3> QED
      BY <2>1, <3>2, WrittenIs
  <2>3. OutNumber(Head(toServer)) = 0
    BY <2>1, <2>2, NextTaken, WrittenIs
  <2>4. ServerNextIn = 1 /\ ServerNextIn' = 1
    BY <2>1, <2>2 DEF ServerNextIn
  <2>5. Queue(Tail(toServer), 1, NextOut)
    BY <2>1, <2>2, <2>3, <2>4, NextTaken
  <2> QED
    BY <1>3, <1>4, <2>1, <2>2, <2>4, <2>5 DEF QueueInv
<1>6. CASE ServerAnswers
  <2>1. server = "requests" /\ server' = server /\ serverReadId' = serverReadId + 1
        /\ toServer # <<>> /\ toServer' = Tail(toServer)
    BY <1>6 DEF ServerAnswers
  <2>2. ServerNextIn' = ServerNextIn + 1
    BY <1>1, <2>1 DEF ServerNextIn, ServerInv
  <2>3. Queue(Tail(toServer), ServerNextIn + 1, NextOut)
    BY <2>1, NextTaken
  <2> QED
    BY <1>3, <1>4, <2>1, <2>2, <2>3 DEF QueueInv
<1>7. CASE ServerHello
  <2>1. server = "hello" /\ server' = "key_exchange" /\ toServer # <<>>
        /\ Head(toServer).type = "HANDSHAKE" /\ toServer' = Tail(toServer)
    BY <1>7 DEF ServerHello
  <2>2. OutNumber(Head(toServer)) # 0
    BY <2>1, NextTaken, WrittenIs
  <2>3. ServerNextIn = 1 /\ ServerNextIn' = 2
    BY <2>1 DEF ServerNextIn
  <2>4. Queue(Tail(toServer), 2, NextOut) /\ IsSeq(Tail(toServer))
    BY <2>1, <2>2, <2>3, NextTaken
  <2>5. ASSUME NEW i \in DOMAIN Tail(toServer) PROVE Tail(toServer)[i].type # "STS"
    <3>1. i \in 1 .. Len(Tail(toServer))
      BY <2>4, SeqIs
    <3>2. OutNumber(Tail(toServer)[i]) \in Nat /\ OutNumber(Tail(toServer)[i]) >= 2
      BY <2>4, <3>1, QueueNumbers
    <3>3. OutNumber(Tail(toServer)[i]) # 0
      BY <3>2
    <3>4. IsWritten(Tail(toServer)[i])
      BY <1>1, <2>1, NextTaken DEF QueueInv
    <3> QED
      BY <3>3, <3>4, WrittenIs
  <2> QED
    BY <1>3, <1>4, <2>1, <2>3, <2>4, <2>5 DEF QueueInv
<1>8. CASE ServerKeyExchange \/ ServerChangeCipherSpec
           \/ (\E unchecked \in BOOLEAN : ServerFinished(unchecked))
  <2>1. /\ toServer # <<>> /\ toServer' = Tail(toServer)
        /\ \/ server = "key_exchange" /\ server' = "change_cipher_spec"
           \/ server = "change_cipher_spec" /\ server' = "finished"
           \/ /\ server = "finished" /\ server' = "requests"
              /\ serverReadId' = serverReadId + 1
           \/ server = "finished" /\ server' = "refused"
    BY <1>8, Zenon DEF ServerKeyExchange, ServerChangeCipherSpec, ServerFinished
  <2>2. server' = "refused" \/ ServerNextIn' = ServerNextIn + 1
    BY <1>1, <2>1 DEF ServerNextIn, ServerInv
  <2>3. Queue(Tail(toServer), ServerNextIn + 1, NextOut) /\ IsSeq(Tail(toServer))
    BY <2>1, NextTaken
  <2>4. ASSUME NEW i \in DOMAIN Tail(toServer) PROVE Tail(toServer)[i].type # "STS"
    <3>1. IsWritten(Tail(toServer)[i])
      BY <1>1, <2>1, NextTaken DEF QueueInv
    <3>2. Tail(toServer)[i].type = "STS" => server = "hello"
      BY <3>1, WrittenIs
    <3> QED
      BY <2>1, <3>2
  <2> QED
    BY <1>3, <1>4, <2>1, <2>2, <2>3, <2>4 DEF QueueInv
<1>9. CASE ServerAlert
  <2>1. /\ server # "hello" /\ server' = "refused" /\ toServer' = toServer
    BY <1>9 DEF ServerAlert
  <2>2. ASSUME NEW i \in DOMAIN toServer' PROVE IsWritten(toServer[i])'
    <3>1. PICK r : r = toServer[i]
      OBVIOUS
    <3>2. IsWritten(r)
      BY <1>1, <2>1, <3>1 DEF QueueInv
    <3>3. r.type # "STS"
      BY <2>1, <3>2, WrittenIs
    <3>4. IsWritten(r)'
      BY <1>2, <1>3, <3>2, <3>3, WrittenStays
    <3> QED
      BY <2>1, <3>1, <3>4 DEF IsWritten
  <2> QED
    BY <2>1, <2>2 DEF QueueInv
<1> QED
  BY <1>5, <1>6, <1>7, <1>8, <1>9, Zenon DEF Server, ServerHandshake

-----------------------------------------------------------------------------
(* The steps: transcripts and keys                                         *)

\* The client sums one more message, which the server has summed as well or not yet.
LEMMA ClientSums ==
    ASSUME SumsInv, IsSeq(checksum), IsSeq(serverSum), UNCHANGED serverVars,
           NEW x, checksum' = Append(checksum, x),
           Len(checksum) + 1 \in DOMAIN serverSum => x = serverSum[Len(checksum) + 1],
           server # "hello" \/ checksum = <<>>
    PROVE  SumsInv'
<1>1. serverSum' = serverSum /\ server' = server
  BY DEF serverVars
<1>2. Len(checksum) \in Nat /\ DOMAIN checksum = 1 .. Len(checksum)
  BY SeqIs
<1>3. /\ IsSeq(checksum') /\ Len(checksum') = Len(checksum) + 1 /\ checksum'[Len(checksum) + 1] = x
      /\ \A i \in 1 .. Len(checksum) : checksum'[i] = checksum[i]
  BY AppendIs
<1>4. DOMAIN checksum' = 1 .. Len(checksum) + 1
  BY <1>3, SeqIs
<1>5. ASSUME NEW i \in DOMAIN checksum', i \in DOMAIN serverSum PROVE checksum'[i] = serverSum[i]
  <2>1. CASE i \in DOMAIN checksum
    BY <1>2, <1>3, <1>5, <2>1 DEF SumsInv
  <2>2. CASE i = Len(checksum) + 1
    BY <1>3, <1>5, <2>2
  <2> QED
    BY <1>2, <1>4, <2>1, <2>2
<1>6. server = "hello" => Len(checksum') <= 1
  BY <1>3, NoSeq
<1>7. \A n \in {5, 6} : Len(checksum) >= n => Len(checksum') >= n
  BY <1>2, <1>3
<1> QED
  BY <1>1, <1>5, <1>6, <1>7 DEF SumsInv

\* The client sums a message of the server behind the same ones.
LEMMA ClientTranscript ==
    ASSUME IInv, Client
    PROVE  SumsInv'
<1>1. SeqInv /\ ClientInv /\ StreamInv /\ PlaceInv /\ ServerInv /\ SumsInv
  BY DEF IInv, TlsInv
<1>2. UNCHANGED serverVars
  BY ClientKeeps
<1>3. /\ IsSeq(checksum) /\ IsSeq(serverSum)
      /\ Len(checksum) \in Nat /\ Len(serverSum) \in Nat /\ DOMAIN serverSum = 1 .. Len(serverSum)
  BY <1>1, SeqIs DEF SeqInv
<1>4. CASE checksum' = checksum
  BY <1>1, <1>2, <1>4 DEF SumsInv, serverVars
<1>5. CASE ServerMessage
  <2>1. /\ state \in {"AWAIT_SERVER_HELLO", "AWAIT_SERVER_KEY_EXCHANGE", "AWAIT_SERVER_HELLO_DONE"}
        /\ failure = NULL /\ parse_tls12_handshake = "OK"
        /\ checksum' = Append(checksum, TheRecord.msg) /\ NextIn = Summed
    BY <1>1, <1>5, ServerMessageIs
  <2>2. Len(checksum) = NextIn /\ NextIn \in 1 .. 3
    BY <1>1, <2>1 DEF ClientInv, Summed, NextIn
  <2>3. /\ Number(TheRecord) = NextIn /\ TheRecord.type = "HANDSHAKE"
        /\ IsSent(TheRecord) /\ server # "hello"
    BY <1>1, <2>1, Taken DEF Awaited
  <2>4. TheRecord.msg = serverSum[Len(checksum) + 1]
    <3>1. CASE TheRecord.msg = Finished("server finished", serverMaster, serverSum)
      <4>1. PICK f : f = Finished("server finished", serverMaster, serverSum)
        OBVIOUS
      <4>2. f.hs = "finished"
        BY <4>1 DEF Finished, Message
      <4>3. TheRecord.msg = f
        BY <3>1, <4>1
      <4> QED
        BY <2>2, <2>3, <4>2, <4>3 DEF Number
    <3>2. ASSUME NEW n \in 2 .. 4, TheRecord.msg = serverSum[n]
          PROVE  n = Len(checksum) + 1
      BY <1>1, <2>2, <2>3, <3>2 DEF Number, ServerInv
    <3> QED
      BY <2>3, <3>1, <3>2, SentIs
  <2> QED
    BY <1>1, <1>2, <1>3, <2>1, <2>3, <2>4, ClientSums
<1>6. CASE ssl_srp_write_client_hello
  <2>1. state = "AWAIT_CLIENT_HELLO" /\ checksum' = Append(checksum, Message("client_hello", Suites))
    BY <1>6 DEF ssl_srp_write_client_hello
  <2>2. server = "hello" /\ checksum = <<>> /\ serverSum = <<>>
    BY <1>1, <2>1 DEF StreamInv, ServerInv
  <2>3. DOMAIN serverSum = {}
    BY <2>2
  <2> QED
    BY <1>1, <1>2, <1>3, <2>1, <2>2, <2>3, ClientSums
<1>7. CASE ssl_srp_write_client_key_exchange
  <2>1. /\ state = "AWAIT_CLIENT_KEY_EXCHANGE" /\ failure = NULL
        /\ checksum' = Append(checksum, Message("client_key_exchange", NULL))
    BY <1>7 DEF ssl_srp_write_client_key_exchange, Awaiting
  <2>2. Len(checksum) = 4 /\ server # "hello"
    BY <1>1, <2>1 DEF ClientInv, Summed, StreamInv
  <2>3. Len(checksum) + 1 \notin DOMAIN serverSum
    BY <1>1, <1>3, <2>2 DEF SumsInv
  <2> QED
    BY <1>1, <1>2, <1>3, <2>1, <2>2, <2>3, ClientSums
<1>8. CASE ClientFinished
  <2>1. PICK m : m = Finished("client finished", premaster_secret, checksum)
    OBVIOUS
  <2>2. /\ state = "AWAIT_CLIENT_HANDSHAKE" /\ failure = NULL /\ checksum' = Append(checksum, m)
    BY <1>8, <2>1, Zenon DEF ClientFinished, Awaiting
  <2>3. Len(checksum) = 5 /\ server # "hello"
    BY <1>1, <2>2 DEF ClientInv, Summed, StreamInv
  <2>4. Len(checksum) + 1 \notin DOMAIN serverSum
    BY <1>1, <1>3, <2>3 DEF SumsInv
  <2> QED
    BY <1>1, <1>2, <1>3, <2>2, <2>3, <2>4, ClientSums
<1>9. ASSUME \/ UNCHANGED tlsVars \/ StartTlsRequest \/ StartTlsReply \/ Asks \/ RecvResponse
             \/ RecvToBuffer \/ ParseFails \/ ssl_srp_write_change_cipher_spec
             \/ ssl_srp_process_change_cipher_spec \/ ssl_srp_process_encrypted_handshake
      PROVE  checksum' = checksum
  BY <1>9 DEF tlsVars, clientVars, StartTlsRequest, StartTlsReply, Asks, SendRequest, RecvResponse,
     RecvToBuffer, ParseFails, ssl_srp_write_change_cipher_spec,
     ssl_srp_process_change_cipher_spec, ssl_srp_process_encrypted_handshake
<1> QED
  BY ClientCases, <1>4, <1>5, <1>6, <1>7, <1>8, <1>9, Zenon

\* The server sums a message of the client behind the same ones.
LEMMA ServerTranscript ==
    ASSUME IInv, Server
    PROVE  SumsInv'
<1>1. SeqInv /\ ClientInv /\ ServerInv /\ StreamInv /\ SumsInv
  BY DEF IInv, TlsInv
<1>2. checksum' = checksum
  BY ServerKeeps DEF clientVars
<1>3. /\ IsSeq(checksum) /\ IsSeq(serverSum)
      /\ Len(checksum) \in Nat /\ DOMAIN checksum = 1 .. Len(checksum)
      /\ Len(serverSum) \in Nat /\ DOMAIN serverSum = 1 .. Len(serverSum)
  BY <1>1, SeqIs DEF SeqInv
<1>4. CASE (server' # "hello" /\ serverSum' = serverSum) \/ UNCHANGED <<server, serverSum>>
  BY <1>1, <1>2, <1>4 DEF SumsInv
<1>5. CASE ServerHello
  <2>1. PICK suite \in Suites :
           serverSum' = <<Head(toServer).msg>>
                              \o <<Message("server_hello", suite),
                                   Message("server_key_exchange", NULL),
                                   Message("server_done", NULL)>>
    BY <1>5 DEF ServerHello
  <2>2. server = "hello" /\ server' = "key_exchange" /\ toServer # <<>>
        /\ Head(toServer).type = "HANDSHAKE"
    BY <1>5 DEF ServerHello
  <2> DEFINE m == Head(toServer).msg
             a == Message("server_hello", suite)
             b == Message("server_key_exchange", NULL)
             c == Message("server_done", NULL)
  <2>3. m = checksum[1]
    <3>1. IsWritten(Head(toServer)) /\ OutNumber(Head(toServer)) \in {0, 1}
      BY <2>2, NextTaken DEF ServerNextIn
    <3>2. OutNumber(Head(toServer)) = 1
      BY <2>2, <3>1, WrittenIs
    <3> QED
      BY <3>1, <3>2, WrittenIs
  <2> HIDE DEF m, a, b, c
  <2>4. serverSum' = <<m>> \o <<a, b, c>>
    BY <2>1 DEF m, a, b, c
  <2>5. serverSum'[1] = m /\ Len(serverSum') = 4
    BY <2>4
  <2>6. Len(checksum) <= 1
    BY <1>1, <2>2 DEF SumsInv
  <2>7. \A i \in DOMAIN checksum : i = 1
    BY <1>3, <2>6
  <2> QED
    BY <1>2, <2>2, <2>3, <2>5, <2>7 DEF SumsInv
<1>6. ASSUME NEW n \in {5, 6}, Len(serverSum) = n - 1, server # "hello", server' # "hello",
             serverSum' = Append(serverSum, Head(toServer).msg),
             Len(checksum) >= n, Head(toServer).msg = checksum[n]
      PROVE  SumsInv'
  <2>1. /\ IsSeq(serverSum') /\ Len(serverSum') = n /\ serverSum'[n] = checksum[n]
        /\ \A i \in 1 .. Len(serverSum) : serverSum'[i] = serverSum[i]
    BY <1>3, <1>6, AppendIs
  <2>2. ASSUME NEW i \in DOMAIN checksum, i \in DOMAIN serverSum' PROVE checksum[i] = serverSum'[i]
    <3>1. i \in 1 .. n
      BY <2>1, <2>2, SeqIs
    <3>2. CASE i = n
      BY <2>1, <3>2
    <3>3. CASE i # n
      <4>1. i \in 1 .. Len(serverSum)
        BY <1>6, <3>1, <3>3
      <4> QED
        BY <1>1, <1>3, <2>1, <4>1 DEF SumsInv
    <3> QED
      BY <3>2, <3>3
  <2>3. Len(checksum) >= 5 /\ (n = 6 => Len(checksum) >= 6)
    BY <1>3, <1>6
  <2>4. ~(5 >= 6)
    OBVIOUS
  <2> QED
    BY <1>2, <1>6, <2>1, <2>2, <2>3, <2>4 DEF SumsInv
<1>7. CASE ServerKeyExchange
  <2>1. /\ server = "key_exchange" /\ server' = "change_cipher_spec" /\ toServer # <<>>
        /\ serverSum' = Append(serverSum, Head(toServer).msg)
    BY <1>7 DEF ServerKeyExchange
  <2>2. IsWritten(Head(toServer)) /\ OutNumber(Head(toServer)) = 2
    BY <2>1, NextTaken DEF ServerNextIn
  <2>3. Len(serverSum) = 5 - 1
    BY <1>1, <2>1 DEF ServerInv
  <2> QED
    BY <1>6, <2>1, <2>2, <2>3, WrittenIs
<1>8. CASE \E unchecked \in BOOLEAN : ServerFinished(unchecked)
  <2>1. /\ server = "finished" /\ toServer # <<>>
        /\ \/ server' = "requests" /\ serverSum' = Append(serverSum, Head(toServer).msg)
           \/ server' = "refused" /\ serverSum' = serverSum
    BY <1>8, Zenon DEF ServerFinished
  <2>2. IsWritten(Head(toServer)) /\ OutNumber(Head(toServer)) = 4
    BY <2>1, NextTaken DEF ServerNextIn
  <2>3. Len(serverSum) = 6 - 1
    BY <1>1, <2>1 DEF ServerInv
  <2> QED
    BY <1>4, <1>6, <2>1, <2>2, <2>3, WrittenIs
<1>9. ASSUME ServerStartsTls \/ ServerAnswers \/ ServerChangeCipherSpec \/ ServerAlert
      PROVE  (server' # "hello" /\ serverSum' = serverSum) \/ UNCHANGED <<server, serverSum>>
  BY <1>9 DEF ServerStartsTls, ServerAnswers, ServerChangeCipherSpec, ServerAlert, serverVars
<1> QED
  BY <1>4, <1>5, <1>7, <1>8, <1>9, Zenon DEF Server, ServerHandshake

\* The handshake succeeds for the client after the server's, with its key and transcript.
LEMMA ClientKeys ==
    ASSUME IInv, Client
    PROVE  HandshakenInv'
<1>1. SeqInv /\ ClientInv /\ StreamInv /\ PlaceInv /\ ServerInv /\ HandshakenInv
  BY DEF IInv, TlsInv
<1>2. UNCHANGED <<server, serverSum, serverMaster>>
  BY ClientKeeps DEF serverVars
<1>3. CASE UNCHANGED <<state, master, checksum, failure>>
  BY <1>1, <1>2, <1>3 DEF HandshakenInv, Handshaken, NumbersInStep
<1>4. CASE RecvResponse
  <2>1. step \in Requests /\ parse_tls12_handshake = "OK" /\ UNCHANGED <<state, master, checksum>>
        /\ (Authentic => failure' = failure)
    BY <1>4 DEF RecvResponse
  <2>2. Handshaken /\ state = "AWAIT_CLIENT_FINISHED" /\ next_read_id \in Nat
    BY <1>1, <2>1 DEF PlaceInv, Handshaken, ClientInv
  <2>3. /\ TheRecord.type = "APPLICATION_DATA" /\ Number(TheRecord) = 5 + next_read_id
        /\ IsSent(TheRecord)
    BY <1>1, <2>1, <2>2, Taken DEF Awaited, NextIn
  <2>4. TheRecord.key = serverMaster /\ TheRecord.id \in Nat
    BY <2>3, SentIs
  <2>5. TheRecord.id = next_read_id
    BY <2>2, <2>3, <2>4 DEF Number
  <2>6. master = serverMaster
    BY <1>1, <2>2 DEF HandshakenInv
  <2>7. Authentic
    BY <2>4, <2>5, <2>6 DEF Authentic
  <2> QED
    BY <1>3, <2>1, <2>7
<1>5. CASE ParseFails
  <2>1. failure' \in {"UNSUPPORTED_PROTOCOL", "UNEXPECTED_MESSAGE"}
        /\ UNCHANGED <<state, master, checksum>>
    BY <1>5 DEF ParseFails
  <2> QED
    BY <1>1, <1>2, <2>1 DEF HandshakenInv, Handshaken, NumbersInStep
<1>6. CASE ServerMessage
  <2>1. /\ ~Handshaken /\ ~Handshaken' /\ failure' # "HMAC"
    BY <1>1, <1>6, ServerMessageIs, NotNull DEF Handshaken
  <2> QED
    BY <2>1 DEF HandshakenInv, NumbersInStep
<1>7. CASE \/ ssl_srp_write_client_hello \/ ssl_srp_write_client_key_exchange
           \/ ssl_srp_write_change_cipher_spec \/ ClientFinished
           \/ ssl_srp_process_change_cipher_spec
  <2>1. failure = NULL /\ failure' = failure /\ ~Handshaken'
    BY <1>7, Zenon DEF ssl_srp_write_client_hello, ssl_srp_write_client_key_exchange,
       ssl_srp_write_change_cipher_spec, ClientFinished, ssl_srp_process_change_cipher_spec,
       Awaiting, Handshaken
  <2> QED
    BY <2>1, NotNull DEF HandshakenInv, NumbersInStep
<1>8. CASE ssl_srp_process_encrypted_handshake
  <2>1. PICK f : f = Finished("server finished", master, checksum)
    OBVIOUS
  <2>2. /\ state = "AWAIT_SERVER_ENC_HANDSHAKE" /\ failure = NULL /\ parse_tls12_handshake = "OK"
        /\ UNCHANGED <<master, checksum>>
        /\ \/ Authentic /\ TheRecord.msg = f /\ failure' = failure
           \/ ~Handshaken' /\ failure' = "BAD_INPUT_DATA"
           \/ ~Handshaken' /\ failure' = "HMAC" /\ ~Authentic
    BY <1>8, <2>1 DEF ssl_srp_process_encrypted_handshake, Awaiting, Handshaken
  <2>3. next_read_id = 0 /\ NextIn = 5
    BY <1>1, <2>2 DEF ClientInv, NextIn, Handshaken
  <2>4. TheRecord.type = "HANDSHAKE" /\ Number(TheRecord) = 5 /\ IsSent(TheRecord)
    BY <1>1, <2>2, <2>3, Taken DEF Awaited
  <2>5. PICK g : g = Finished("server finished", serverMaster, serverSum)
    OBVIOUS
  <2>6. server = "requests" /\ TheRecord.msg = g /\ TheRecord.key = serverMaster /\ TheRecord.id = 0
    <3>1. ASSUME NEW k \in 2 .. 4, server # "hello", TheRecord.msg = serverSum[k] PROVE FALSE
      BY <1>1, <2>4, <3>1 DEF Number, ServerInv
    <3> QED
      BY <2>4, <2>5, <3>1, SentIs
  <2>7. CASE Authentic /\ TheRecord.msg = f /\ failure' = failure
    <3>1. f = g
      BY <2>6, <2>7
    <3>2. /\ f.body.key = master /\ f.body.sum = checksum
          /\ g.body.key = serverMaster /\ g.body.sum = serverSum
      BY <2>1, <2>5 DEF Finished, Message
    <3>3. master = serverMaster /\ checksum = serverSum
      BY <3>1, <3>2
    <3> QED
      BY <1>2, <2>2, <2>6, <2>7, <3>3, NotNull DEF HandshakenInv, NumbersInStep
  <2>8. CASE ~Handshaken' /\ failure' = "BAD_INPUT_DATA"
    BY <2>8 DEF HandshakenInv, NumbersInStep
  <2>9. CASE ~Handshaken' /\ failure' = "HMAC" /\ ~Authentic
    <3>1. master # serverMaster
      BY <2>3, <2>6, <2>9 DEF Authentic
    <3> QED
      BY <1>2, <2>2, <2>6, <2>9, <3>1 DEF HandshakenInv, NumbersInStep
  <2> QED
    BY <2>2, <2>7, <2>8, <2>9
<1>9. ASSUME UNCHANGED tlsVars \/ StartTlsRequest \/ StartTlsReply \/ Asks \/ RecvToBuffer
      PROVE  UNCHANGED <<state, master, checksum, failure>>
  BY <1>9 DEF tlsVars, clientVars, StartTlsRequest, StartTlsReply, Asks, SendRequest, RecvToBuffer
<1> QED
  BY ClientCases, <1>3, <1>4, <1>5, <1>6, <1>7, <1>8, <1>9, Zenon

\* The server does nothing that parts the two sides after the handshake.
LEMMA ServerKeys ==
    ASSUME IInv, Server
    PROVE  HandshakenInv'
<1>1. HandshakenInv /\ StreamInv
  BY DEF IInv, TlsInv
<1>2. UNCHANGED <<state, master, checksum, failure>>
  BY ServerKeeps DEF clientVars
<1>3. CASE UNCHANGED <<server, serverSum, serverMaster>>
  BY <1>1, <1>2, <1>3 DEF HandshakenInv, Handshaken, NumbersInStep
<1>4. CASE ServerHello
  <2>1. server = "hello"
    BY <1>4 DEF ServerHello
  <2>2. ~Handshaken' /\ failure' # "HMAC"
    BY <1>1, <1>2, <2>1 DEF HandshakenInv, StreamInv, Handshaken
  <2> QED
    BY <2>2 DEF HandshakenInv, NumbersInStep
<1>5. CASE server # "requests" /\ server' # "hello" /\ serverMaster' = serverMaster
  BY <1>1, <1>2, <1>5 DEF HandshakenInv, Handshaken, NumbersInStep
<1>6. ASSUME ServerStartsTls \/ ServerAnswers PROVE UNCHANGED <<server, serverSum, serverMaster>>
  BY <1>6 DEF ServerStartsTls, ServerAnswers, serverVars
<1>7. ASSUME ServerKeyExchange \/ ServerChangeCipherSpec \/ ServerAlert
             \/ \E unchecked \in BOOLEAN : ServerFinished(unchecked)
      PROVE  server # "requests" /\ server' # "hello" /\ serverMaster' = serverMaster
  BY <1>7, Zenon DEF ServerKeyExchange, ServerChangeCipherSpec, ServerAlert, ServerFinished
<1> QED
  BY <1>3, <1>4, <1>5, <1>6, <1>7, Zenon DEF Server, ServerHandshake

-----------------------------------------------------------------------------
(* The steps: where portal_login is                                        *)

\* portal_login goes on only after the handshake.
LEMMA ClientPlace ==
    ASSUME IInv, Client
    PROVE  PlaceInv'
<1>1. PlaceInv /\ ClientInv
  BY DEF IInv, TlsInv
<1> USE DEF PlaceInv, Requests, Steps
<1>2. CASE sts_connection_connect \/ NoCode
  BY <1>1, <1>2 DEF sts_connection_connect, NoCode, tlsVars, clientVars, Handshaken
<1>3. CASE StartTlsRequest
  BY <1>1, <1>3 DEF StartTlsRequest, clientVars, Handshaken
<1>4. CASE StartTlsReply
  <2>1. /\ step = "sts_connection_start_tls" /\ waiting /\ UNCHANGED <<state, read, failure, toServer>>
        /\ \/ UNCHANGED <<step, waiting>>
           \/ step' \in {"ssl_sts_connection_handshake", "failed"}
    BY <1>4, Zenon DEF StartTlsReply, clientVars
  <2> QED
    BY <1>1, <2>1 DEF Handshaken
<1>5. CASE PortalHandshake
  <2>1. /\ step = "ssl_sts_connection_handshake"
        /\ step' = IF failure' # NULL THEN "failed"
                   ELSE IF Handshaken' THEN "auth_login_finish" ELSE step
    BY <1>5 DEF PortalHandshake
  <2> QED
    BY <1>1, <2>1
<1>6. CASE Request \/ Upgrade
  <2>1. step \in Requests /\ UNCHANGED <<step, state, failure>>
    BY <1>6 DEF Request, Upgrade, SendRequest
  <2> QED
    BY <1>1, <2>1 DEF Handshaken
<1>7. CASE RecvMore
  <2>1. step \in Requests /\ state' = state /\ step' = IF failure' # NULL THEN "failed" ELSE step
    BY <1>7 DEF RecvMore, RecvToBuffer, ParseFails
  <2> QED
    BY <1>1, <2>1 DEF Handshaken
<1>8. CASE RecvResponse
  <2>1. /\ step \in Requests /\ state' = state
        /\ \/ step' = "failed"
           \/ failure' = failure /\ step' \in Requests \cup {"done", "failed"}
    <3>1. ASSUME NEW reply PROVE Following(reply) \in Requests \cup {"done", "failed"}
      BY DEF Following
    <3>2. \/ step' = "failed"
          \/ failure' = failure /\ (step' = step \/ \E reply : step' = Following(reply))
      BY <1>8 DEF RecvResponse
    <3> QED
      BY <1>8, <3>1, <3>2 DEF RecvResponse
  <2> QED
    BY <1>1, <2>1 DEF Handshaken
<1> QED
  BY <1>2, <1>3, <1>4, <1>5, <1>6, <1>7, <1>8, Zenon DEF Client

\* The server does not move portal_login.
LEMMA ServerPlace ==
    ASSUME IInv, Server
    PROVE  PlaceInv'
<1>1. PlaceInv /\ QueueInv /\ StreamInv
  BY DEF IInv, TlsInv
<1>2. UNCHANGED <<step, waiting, state, read, failure>>
  BY ServerKeeps DEF clientVars
<1>3. toServer # <<>> \/ toServer' = toServer
  BY DEF Server, ServerStartsTls, ServerAnswers, ServerHandshake, ServerHello,
     ServerKeyExchange, ServerChangeCipherSpec, ServerAlert, ServerFinished
<1> QED
  BY <1>1, <1>2, <1>3 DEF PlaceInv, Handshaken

-----------------------------------------------------------------------------
(* The steps: second factor and token                                      *)

\* A reply whose content is the token has it in its text.
LEMMA TokenRead ==
    ASSUME NEW text, IsSeq(text), sts_parse_reply(text).content = "Token"
    PROVE  HasToken(text)
<1> DEFINE whole(i) == text[i].part = 2 /\ text[i].of.kind # "content"
           empty == {i \in DOMAIN text : whole(i) /\ text[i].of.kind = ""}
           first == CHOOSE i \in empty : \A j \in empty : i <= j
           head == IF empty = {} THEN text ELSE SubSeq(text, 1, first)
           content == SubSeq(text, Len(head) + 1, Len(text))
<1>1. sts_parse_reply(text).content = ValueOf(content, "content", NULL)
  BY DEF sts_parse_reply
<1>2. Len(text) \in Nat /\ DOMAIN text = 1 .. Len(text)
  BY SeqIs
<1>3. empty \subseteq 1 .. Len(text)
  BY <1>2
<1> HIDE DEF empty
<1>4. empty # {} => first \in 1 .. Len(text)
  <2> SUFFICES ASSUME empty # {} PROVE first \in 1 .. Len(text)
    OBVIOUS
  <2>1. \A i \in empty : i \in Nat
    BY <1>3
  <2>2. \E i \in empty : \A j \in empty : i <= j
    BY <2>1, LeastNumber
  <2>3. first \in empty
    BY <2>2
  <2> HIDE DEF first
  <2> QED
    BY <1>3, <2>3
<1> HIDE DEF first
<1>5. Len(head) \in 0 .. Len(text)
  <2>1. CASE empty = {}
    <3>1. head = text
      BY <2>1
    <3> HIDE DEF head
    <3> QED
      BY <1>2, <3>1
  <2>2. CASE empty # {}
    <3>1. first \in 0 .. Len(text)
      BY <1>2, <1>4, <2>2
    <3>2. Len(SubSeq(text, 1, first)) = first
      BY <3>1, CutIs
    <3>3. head = SubSeq(text, 1, first)
      BY <2>2
    <3> HIDE DEF head
    <3> QED
      BY <3>1, <3>2, <3>3
  <2> QED
    BY <2>1, <2>2
<1> HIDE DEF head
<1>6. IsSeq(content) /\ Len(content) = Len(text) - Len(head)
      /\ \A i \in 1 .. Len(text) - Len(head) : content[i] = text[Len(head) + i]
  BY <1>5, CutIs
<1> HIDE DEF content
<1>7. PICK i \in DOMAIN content : content[i].of.kind = "content" /\ content[i].of.val = "Token"
  <2> DEFINE Is(i) == content[i].of.kind = "content"
             c == CHOOSE i \in DOMAIN content : Is(i)
  <2>1. ValueOf(content, "content", NULL) = IF \E i \in DOMAIN content : Is(i) THEN content[c].of.val
                                            ELSE NULL
    BY DEF ValueOf
  <2>2. ValueOf(content, "content", NULL) = "Token"
    BY <1>1
  <2> HIDE DEF Is
  <2>3. \E i \in DOMAIN content : Is(i)
    BY <2>1, <2>2, NotNull
  <2>4. c \in DOMAIN content /\ Is(c)
    BY <2>3
  <2> HIDE DEF c
  <2>5. content[c].of.val = "Token"
    BY <2>1, <2>2, <2>3
  <2> QED
    BY <2>4, <2>5 DEF Is
<1>8. i \in 1 .. Len(text) - Len(head)
  BY <1>6, SeqIs
<1>9. Len(head) + i \in DOMAIN text /\ content[i] = text[Len(head) + i]
  BY <1>2, <1>5, <1>6, <1>8
<1> QED
  BY <1>7, <1>9 DEF HasToken

\* A token in two texts put together is in one of them.
LEMMA TokenIn ==
    ASSUME NEW s, NEW t, IsSeq(s), IsSeq(t), HasToken(s \o t)
    PROVE  HasToken(s) \/ HasToken(t)
<1>1. PICK i \in DOMAIN (s \o t) : (s \o t)[i].of.kind = "content" /\ (s \o t)[i].of.val = "Token"
  BY DEF HasToken
<1>2. /\ IsSeq(s \o t) /\ Len(s \o t) = Len(s) + Len(t)
      /\ \A j \in 1 .. Len(s) + Len(t) : (s \o t)[j] = IF j <= Len(s) THEN s[j] ELSE t[j - Len(s)]
  BY ConcatIs
<1>3. Len(s) \in Nat /\ Len(t) \in Nat /\ DOMAIN s = 1 .. Len(s) /\ DOMAIN t = 1 .. Len(t)
  BY SeqIs
<1>4. i \in 1 .. Len(s) + Len(t)
  BY <1>2, SeqIs
<1>5. (s \o t)[i] = IF i <= Len(s) THEN s[i] ELSE t[i - Len(s)]
  BY <1>2, <1>4
<1>6. CASE i <= Len(s)
  <2>1. i \in DOMAIN s /\ (s \o t)[i] = s[i]
    BY <1>3, <1>4, <1>5, <1>6
  <2> QED
    BY <1>1, <2>1 DEF HasToken
<1>7. CASE ~(i <= Len(s))
  <2>1. i - Len(s) \in DOMAIN t /\ (s \o t)[i] = t[i - Len(s)]
    BY <1>3, <1>4, <1>5, <1>7
  <2> QED
    BY <1>1, <2>1 DEF HasToken
<1> QED
  BY <1>6, <1>7

\* A text with a token has it as its content.
LEMMA LinesToken ==
    ASSUME NEW s, NEW c, Lines(s, c), HasToken(s)
    PROVE  c = "Token"
<1>1. PICK i \in DOMAIN s : s[i].of.kind = "content" /\ s[i].of.val = "Token"
  BY DEF HasToken
<1>2. i \in 1 .. Len(s)
  BY SeqIs DEF Lines
<1> QED
  BY <1>1, <1>2 DEF Lines

\* The client only takes from the stream.
LEMMA ClientTakes ==
    ASSUME IInv, Client
    PROVE  \A i \in DOMAIN Stream' : \E j \in DOMAIN Stream : Stream'[i] = Stream[j]
<1>1. SeqInv /\ ClientInv /\ StreamInv /\ PlaceInv
  BY DEF IInv, TlsInv
<1>2. /\ IsSeq(read) /\ IsSeq(toClient) /\ IsSeq(Stream) /\ Len(Stream) = Len(read) + Len(toClient)
      /\ \A i \in 1 .. Len(toClient) : Stream[Len(read) + i] = toClient[i]
  BY <1>1, ConcatIs DEF SeqInv, Stream
<1>3. /\ Len(read) \in Nat /\ Len(toClient) \in Nat
      /\ DOMAIN Stream = 1 .. Len(Stream) /\ DOMAIN toClient = 1 .. Len(toClient)
  BY <1>2, SeqIs
<1>4. \A i \in DOMAIN toClient : \E j \in DOMAIN Stream : toClient[i] = Stream[j]
  <2> SUFFICES ASSUME NEW i \in DOMAIN toClient PROVE \E j \in DOMAIN Stream : toClient[i] = Stream[j]
    OBVIOUS
  <2>1. Len(read) + i \in DOMAIN Stream
    BY <1>2, <1>3
  <2> QED
    BY <1>2, <1>3, <2>1
<1>5. ASSUME NEW s, IsSeq(s) PROVE <<>> \o s = s
  BY <1>5 DEF IsSeq
<1>6. CASE Stream' = Stream
  BY <1>6
<1>7. CASE Stream' = Unread \o toClient /\ parse_tls12_handshake = "OK"
  BY <1>1, <1>7, Taken
<1>8. CASE Stream' = <<>> \o toClient
  BY <1>2, <1>4, <1>5, <1>8
<1>9. CASE StartTlsReply
  <2>1. read = <<>> /\ read' = read
    BY <1>1, <1>9 DEF StartTlsReply, PlaceInv, clientVars
  <2>2. PICK n \in 1 .. Len(toClient) : toClient' = SubSeq(toClient, n + 1, Len(toClient))
    BY <1>9 DEF StartTlsReply
  <2>3. n \in 0 .. Len(toClient)
    BY <1>3
  <2>4. /\ IsSeq(toClient') /\ Len(toClient') = Len(toClient) - n
        /\ \A i \in 1 .. Len(toClient) - n : toClient'[i] = toClient[n + i]
    BY <1>2, <2>2, <2>3, CutIs
  <2>5. Stream' = toClient'
    BY <1>5, <2>1, <2>4 DEF Stream
  <2> SUFFICES ASSUME NEW i \in DOMAIN Stream' PROVE \E j \in DOMAIN Stream : Stream'[i] = Stream[j]
    OBVIOUS
  <2>6. i \in 1 .. Len(toClient) - n
    BY <2>4, <2>5, SeqIs
  <2>7. n + i \in 1 .. Len(toClient)
    BY <1>3, <2>2, <2>6
  <2>8. n + i \in DOMAIN toClient /\ Stream'[i] = toClient[n + i]
    BY <1>3, <2>4, <2>5, <2>6, <2>7
  <2> QED
    BY <1>4, <2>8
<1>10. CASE RecvToBuffer
  BY <1>2, <1>10, Received
<1>11. CASE ServerMessage
  <2>1. parse_tls12_handshake = "OK" /\ toClient' = toClient /\ (read' = Unread \/ read' = read)
    BY <1>1, <1>11, ServerMessageIs
  <2> QED
    BY <1>6, <1>7, <2>1 DEF Stream
<1>12. ASSUME RecvResponse \/ ssl_srp_process_change_cipher_spec
       PROVE  Stream' = Stream \/ (Stream' = Unread \o toClient /\ parse_tls12_handshake = "OK")
  BY <1>12 DEF RecvResponse, ssl_srp_process_change_cipher_spec, Stream
<1>13. ASSUME ssl_srp_process_encrypted_handshake
       PROVE  Stream' = Stream \/ Stream' = <<>> \o toClient
  <2>1. (read' = <<>> \/ read' = read) /\ toClient' = toClient
    BY <1>13, Zenon DEF ssl_srp_process_encrypted_handshake
  <2> QED
    BY <2>1 DEF Stream
<1>14. ASSUME \/ UNCHANGED tlsVars \/ StartTlsRequest \/ Asks \/ ParseFails
              \/ ssl_srp_write_client_hello \/ ssl_srp_write_client_key_exchange
              \/ ssl_srp_write_change_cipher_spec \/ ClientFinished
       PROVE  Stream' = Stream
  BY <1>14 DEF tlsVars, clientVars, StartTlsRequest, Asks, SendRequest, ParseFails,
     ssl_srp_write_client_hello, ssl_srp_write_client_key_exchange,
     ssl_srp_write_change_cipher_spec, ClientFinished, Stream
<1> QED
  BY ClientCases, <1>6, <1>7, <1>8, <1>9, <1>10, <1>11, <1>12, <1>13, <1>14, Zenon

\* A step that gives no token and makes no request.
LEMMA SameGrant ==
    ASSUME GrantInv, TokenSent' => TokenSent, UNCHANGED <<factor, toServer>>,
           step \in {"auth_request_game_token", "done", "failed"} =>
              step' \in {"auth_request_game_token", "done", "failed"},
           step' = "done" => TokenSent,
           step' \in {"auth_list_game_accounts", "auth_request_game_token", "done"} => user_id',
           step' = "done" => token'
    PROVE  GrantInv'
  BY DEF GrantInv

\* The steps after which the token may be asked for.
Late == {"auth_request_game_token", "done", "failed"}

\* A step that makes a request, or sends another record, and gives no token.
LEMMA MoreGrant ==
    ASSUME GrantInv, TokenSent' => TokenSent, UNCHANGED factor,
           IsSeq(toServer), NEW r, toServer' = Append(toServer, r),
           step \in Late => step' \in Late,
           Requested(r, "auth_login_finish") => step \notin Late,
           Requested(r, "auth_request_game_token") => step' \in Late,
           step' = "done" => step = "done",
           step' \in {"auth_list_game_accounts", "auth_request_game_token", "done"} => user_id',
           step' = "done" => token'
    PROVE  GrantInv'
<1>1. /\ IsSeq(toServer') /\ Len(toServer') = Len(toServer) + 1
      /\ toServer'[Len(toServer) + 1] = r
      /\ \A i \in 1 .. Len(toServer) : toServer'[i] = toServer[i]
  BY AppendIs
<1>2. /\ Len(toServer) \in Nat /\ DOMAIN toServer = 1 .. Len(toServer)
      /\ DOMAIN toServer' = 1 .. Len(toServer) + 1
  BY <1>1, SeqIs
<1>3. ASSUME TokenSent' \/ step' = "done"
      PROVE  /\ factor' # "demanded" /\ step' \in Late
             /\ \A i \in DOMAIN toServer' : ~Requested(toServer'[i], "auth_login_finish")
  <2>1. TokenSent \/ step = "done"
    BY <1>3
  <2>2. /\ factor # "demanded" /\ step \in Late
        /\ \A i \in DOMAIN toServer : ~Requested(toServer[i], "auth_login_finish")
    BY <2>1 DEF GrantInv, Late
  <2>3. ASSUME NEW i \in DOMAIN toServer' PROVE ~Requested(toServer'[i], "auth_login_finish")
    <3>1. i \in DOMAIN toServer \/ i = Len(toServer) + 1
      BY <1>2, <2>3
    <3> QED
      BY <1>1, <1>2, <2>2, <3>1
  <2> QED
    BY <2>2, <2>3
<1>4. ASSUME NEW i \in DOMAIN toServer', Requested(toServer'[i], "auth_request_game_token")
      PROVE  /\ step' \in Late
             /\ \A j \in DOMAIN toServer' : Requested(toServer'[j], "auth_login_finish") => j < i
  <2>1. CASE i \in DOMAIN toServer
    <3>1. Requested(toServer[i], "auth_request_game_token")
      BY <1>1, <1>2, <1>4, <2>1
    <3>2. /\ step \in Late
          /\ \A j \in DOMAIN toServer : Requested(toServer[j], "auth_login_finish") => j < i
      BY <2>1, <3>1 DEF GrantInv, Late
    <3>3. ASSUME NEW j \in DOMAIN toServer', Requested(toServer'[j], "auth_login_finish")
          PROVE  j < i
      <4>1. j \in DOMAIN toServer \/ j = Len(toServer) + 1
        BY <1>2, <3>3
      <4>2. j # Len(toServer) + 1
        BY <1>1, <3>2, <3>3
      <4>3. Requested(toServer[j], "auth_login_finish")
        BY <1>1, <1>2, <3>3, <4>1, <4>2
      <4> QED
        BY <3>2, <4>1, <4>2, <4>3
    <3> QED
      BY <3>2, <3>3
  <2>2. CASE i \notin DOMAIN toServer
    <3>1. i = Len(toServer) + 1 /\ toServer'[i] = r
      BY <1>1, <1>2, <1>4, <2>2
    <3>2. step' \in Late /\ ~Requested(r, "auth_login_finish")
      BY <1>4, <3>1 DEF Requested
    <3>3. ASSUME NEW j \in DOMAIN toServer', Requested(toServer'[j], "auth_login_finish")
          PROVE  j < i
      <4>1. j # i
        BY <3>1, <3>2, <3>3
      <4> QED
        BY <1>2, <3>1, <3>3, <4>1
    <3> QED
      BY <3>2, <3>3
  <2> QED
    BY <2>1, <2>2
<1> QED
  BY <1>3, <1>4 DEF GrantInv, Late

\* What the client receives holds no token that was not on its way.
LEMMA ClientToken ==
    ASSUME IInv, Client, HasToken(response') => TokenSent
    PROVE  TokenSent' => TokenSent
<1> SUFFICES ASSUME NEW i \in DOMAIN Stream', Stream'[i].of.type = "APPLICATION_DATA",
                    HasToken(Stream'[i].of.msg)
             PROVE  TokenSent
  BY DEF TokenSent, HasToken
<1>1. PICK j \in DOMAIN Stream : Stream'[i] = Stream[j]
  BY ClientTakes
<1> QED
  BY <1>1 DEF TokenSent

\* Where a reply sends portal_login.
LEMMA FollowingIs ==
    ASSUME NEW reply
    PROVE  /\ Following(reply) = "done" => /\ step = "auth_request_game_token"
                                           /\ reply.content = "Token"
           /\ Following(reply) = "auth_list_game_accounts" => reply.content = "UserId"
           /\ Following(reply) = "auth_request_game_token" => step = "auth_list_game_accounts"
           /\ step = "auth_request_game_token" => Following(reply) \in {"done", "failed"}
  BY DEF Following

\* recv_sts_response for one more record.
LEMMA ResponseGrant ==
    ASSUME IInv, RecvResponse
    PROVE  GrantInv'
<1>1. SeqInv /\ ClientInv /\ StreamInv /\ PlaceInv /\ GrantInv
  BY DEF IInv, TlsInv
<1>2. step \in Requests /\ parse_tls12_handshake = "OK"
  BY DEF RecvResponse
<1>3. Handshaken
  BY <1>1, <1>2 DEF PlaceInv
<1>4. /\ 1 \in DOMAIN Stream /\ TheRecord = Stream[1].of /\ IsSent(TheRecord)
      /\ TheRecord.type = Awaited
  BY <1>1, <1>2, Taken
<1>5. TheRecord.type = "APPLICATION_DATA"
  BY <1>3, <1>4 DEF Awaited, Handshaken
<1>6. IsSeq(TheRecord.msg) /\ IsSeq(response)
  BY <1>1, <1>4, <1>5, SentIs DEF SeqInv
<1> DEFINE text == response \o TheRecord.msg
<1>7. IsSeq(text)
  BY <1>6, ConcatIs
<1>8. HasToken(text) => TokenSent
  <2>1. HasToken(text) => HasToken(response) \/ HasToken(TheRecord.msg)
    BY <1>6, TokenIn
  <2> QED
    BY <1>4, <1>5, <2>1 DEF TokenSent
<1>9. sts_parse_reply(text).content = "Token" => TokenSent
  BY <1>7, <1>8, TokenRead
<1>10. UNCHANGED <<factor, toServer>>
  BY DEF RecvResponse
<1>11. HasToken(response') => TokenSent
  <2>1. response' = response \/ response' = text
    BY Zenon DEF RecvResponse
  <2> QED
    BY <1>8, <2>1 DEF TokenSent
<1>12. TokenSent' => TokenSent
  BY <1>11, ClientToken DEF Client
<1>13. CASE ~Authentic
  <2>1. step' = "failed"
    BY <1>13 DEF RecvResponse
  <2> QED
    BY <1>1, <1>10, <1>12, <2>1, SameGrant
<1>14. CASE Authentic /\ Incomplete(sts_parse_reply(text))
  <2>1. UNCHANGED <<step, user_id, token>>
    BY <1>14 DEF RecvResponse
  <2>2. step # "done"
    BY <1>2 DEF Requests
  <2> QED
    BY <1>1, <1>10, <1>12, <2>1, <2>2, SameGrant DEF GrantInv
<1>15. CASE Authentic /\ ~Incomplete(sts_parse_reply(text))
  <2> DEFINE reply == sts_parse_reply(text)
             taken == /\ reply.ret = "SUCCESS" /\ reply.status_code = 200
                      /\ reply.sequence_number = seq_number
             next == IF taken THEN Following(reply) ELSE "failed"
  <2>1. /\ step' = next
        /\ user_id' = (user_id \/ (taken /\ reply.content = "UserId"))
        /\ token' = (token \/ next = "done")
    BY <1>15 DEF RecvResponse
  <2> HIDE DEF reply, taken
  <2>2. next = "failed" \/ (taken /\ next = Following(reply))
    OBVIOUS
  <2> HIDE DEF next
  <2>3. next = "done" => step = "auth_request_game_token" /\ reply.content = "Token"
    BY <2>2, FollowingIs
  <2>4. next = "auth_list_game_accounts" => taken /\ reply.content = "UserId"
    BY <2>2, FollowingIs
  <2>5. next = "auth_request_game_token" => step = "auth_list_game_accounts"
    BY <2>2, FollowingIs
  <2>6. step \in Late => next \in Late
    BY <1>2, <2>2, FollowingIs DEF Requests, Late
  <2>7. next = "done" => TokenSent
    BY <1>9, <2>3 DEF reply
  <2>8. step \in {"auth_list_game_accounts", "auth_request_game_token"} => user_id
    BY <1>1 DEF GrantInv
  <2>9. step' \in {"auth_list_game_accounts", "auth_request_game_token", "done"} => user_id'
    BY <2>1, <2>3, <2>4, <2>5, <2>8, Zenon
  <2>10. step' = "done" => token'
    BY <2>1, Zenon
  <2> QED
    BY <1>1, <1>10, <1>12, <2>1, <2>6, <2>7, <2>9, <2>10, SameGrant DEF Late
<1> QED
  BY <1>13, <1>14, <1>15

\* Every step of the client keeps the order of second factor and token.
LEMMA ClientGrant ==
    ASSUME IInv, Client
    PROVE  GrantInv'
<1>1. SeqInv /\ ClientInv /\ StreamInv /\ PlaceInv /\ GrantInv
  BY DEF IInv, TlsInv
<1>2. IsSeq(toServer) /\ IsSeq(response)
  BY <1>1 DEF SeqInv
<1>3. HasToken(response) => TokenSent
  BY DEF TokenSent
<1>5. CASE sts_connection_connect
  <2>1. /\ step = "sts_connection_connect" /\ step' = "sts_connection_start_tls"
        /\ UNCHANGED <<tlsVars, response, factor, user_id, token>>
    BY <1>5 DEF sts_connection_connect
  <2>2. TokenSent' => TokenSent
    BY <1>3, <2>1, ClientToken
  <2> QED
    BY <1>1, <2>1, <2>2, SameGrant DEF tlsVars
<1>6. CASE NoCode
  <2>1. /\ step' = "failed"
        /\ UNCHANGED <<tlsVars, response, factor, user_id, token>>
    BY <1>6 DEF NoCode
  <2>2. TokenSent' => TokenSent
    BY <1>3, <2>1, ClientToken
  <2> QED
    BY <1>1, <2>1, <2>2, SameGrant DEF tlsVars
<1>7. CASE StartTlsRequest
  <2>1. /\ step = "sts_connection_start_tls" /\ Send(<<Plain("STS", seq_number')>>)
        /\ UNCHANGED <<step, response, factor, user_id, token>>
    BY <1>7 DEF StartTlsRequest
  <2>2. TokenSent' => TokenSent
    BY <1>3, <2>1, ClientToken
  <2>3. PICK r : r = Plain("STS", seq_number')
    OBVIOUS
  <2>4. toServer' = Append(toServer, r) /\ r.type = "STS"
    BY <1>2, <2>1, <2>3, SendIs, PlainHas
  <2> QED
    BY <1>1, <1>2, <2>1, <2>2, <2>4, MoreGrant DEF Late, Requested
<1>8. CASE StartTlsReply
  <2>1. PICK n \in 1 .. Len(toClient) :
          LET text == response \o SubSeq(toClient, 1, n)
              reply == sts_parse_reply(text)
          IN  /\ toClient' = SubSeq(toClient, n + 1, Len(toClient))
              /\ IF Incomplete(reply)
                 THEN response' = text /\ UNCHANGED <<step, waiting>>
                 ELSE /\ response' = <<>> /\ waiting' = FALSE
                      /\ step' = IF reply.ret = "SUCCESS" /\ reply.status_code = 400
                                 THEN "ssl_sts_connection_handshake" ELSE "failed"
    BY <1>8 DEF StartTlsReply
  <2> DEFINE piece == SubSeq(toClient, 1, n)
  <2>2. /\ step = "sts_connection_start_tls"
        /\ UNCHANGED <<toServer, factor, user_id, token>>
    BY <1>8 DEF StartTlsReply
  <2>3. step' \in {"sts_connection_start_tls", "ssl_sts_connection_handshake", "failed"}
        /\ (response' = response \o piece \/ response' = <<>>)
    BY <2>1, <2>2
  <2>4. /\ IsSeq(toClient) /\ Len(toClient) \in Nat /\ IsSeq(read) /\ Len(read) \in Nat
        /\ IsSeq(Stream) /\ Len(Stream) = Len(read) + Len(toClient)
        /\ DOMAIN Stream = 1 .. Len(Stream)
        /\ \A i \in 1 .. Len(toClient) : Stream[Len(read) + i] = toClient[i]
    BY <1>1, ConcatIs, SeqIs DEF SeqInv, Stream
  <2>5. n \in 0 .. Len(toClient)
    BY <2>4
  <2>6. IsSeq(piece) /\ Len(piece) = n /\ \A i \in 1 .. n : piece[i] = toClient[i]
    BY <2>4, <2>5, CutIs
  <2> HIDE DEF piece
  <2>7. ~HasToken(piece)
    <3> SUFFICES ASSUME NEW i \in DOMAIN piece PROVE piece[i].of.kind # "content"
      BY DEF HasToken
    <3>1. i \in 1 .. Len(toClient) /\ piece[i] = toClient[i]
      BY <2>4, <2>5, <2>6, SeqIs
    <3>2. Len(read) + i \in DOMAIN Stream /\ Stream[Len(read) + i] = piece[i]
      BY <2>4, <3>1
    <3>3. state = "AWAIT_CLIENT_HELLO" /\ server = "hello"
      BY <1>1, <2>2 DEF PlaceInv, StreamInv
    <3>4. IsSent(piece[i].of) /\ piece[i].of.type = "LINE"
      BY <1>1, <3>2, <3>3 DEF StreamInv
    <3> QED
      BY <3>4, SentIs
  <2>8. HasToken(response') => TokenSent
    <3>1. HasToken(response \o piece) => HasToken(response) \/ HasToken(piece)
      BY <1>2, <2>6, TokenIn
    <3>2. ~HasToken(<<>>)
      BY DEF HasToken
    <3> QED
      BY <1>3, <2>3, <2>7, <3>1, <3>2
  <2>9. TokenSent' => TokenSent
    BY <2>8, ClientToken
  <2> QED
    BY <1>1, <2>2, <2>3, <2>9, SameGrant
<1>9. CASE PortalHandshake
  <2>1. /\ step = "ssl_sts_connection_handshake"
        /\ step' \in {"failed", "auth_login_finish", "ssl_sts_connection_handshake"}
        /\ UNCHANGED <<response, factor, user_id, token>>
    BY <1>9 DEF PortalHandshake
  <2>2. TokenSent' => TokenSent
    BY <1>3, <2>1, ClientToken
  <2>3. CASE UNCHANGED toServer
    BY <1>1, <2>1, <2>2, <2>3, SameGrant
  <2>4. ASSUME NEW r, Send(<<r>>), r.type # "APPLICATION_DATA"
        PROVE  GrantInv'
    <3>1. toServer' = Append(toServer, r)
      BY <1>2, <2>4, SendIs
    <3> QED
      BY <1>1, <1>2, <2>1, <2>2, <2>4, <3>1, MoreGrant DEF Late, Requested
  <2>5. \/ UNCHANGED toServer
        \/ \E msg : Send(<<Plain("HANDSHAKE", msg)>>)
        \/ Send(<<Plain("CHANGE_CIPHER_SPEC", NULL)>>)
        \/ \E msg, key, id : Send(<<Protected("HANDSHAKE", msg, key, id)>>)
    <3>1. Handshake
      BY <1>9 DEF PortalHandshake
    <3>2. CASE ssl_srp_write_client_hello
      BY <3>2 DEF ssl_srp_write_client_hello
    <3>3. CASE ssl_srp_write_client_key_exchange
      BY <3>3 DEF ssl_srp_write_client_key_exchange
    <3>4. CASE ssl_srp_write_change_cipher_spec
      BY <3>4 DEF ssl_srp_write_change_cipher_spec
    <3>5. CASE ClientFinished
      BY <3>5 DEF ClientFinished
    <3>6. CASE \/ ssl_srp_process_server_hello \/ ssl_srp_process_server_key_exchange
               \/ ssl_srp_process_server_done
      BY <3>6 DEF ssl_srp_process_server_hello, ssl_srp_process_server_key_exchange,
         ssl_srp_process_server_done, ServerStep
    <3>7. CASE \/ ssl_srp_process_change_cipher_spec \/ ssl_srp_process_encrypted_handshake
               \/ RecvToBuffer \/ ParseFails
      BY <3>7 DEF ssl_srp_process_change_cipher_spec, ssl_srp_process_encrypted_handshake,
         RecvToBuffer, ParseFails
    <3> QED
      BY <3>1, <3>2, <3>3, <3>4, <3>5, <3>6, <3>7, Zenon DEF Handshake
  <2>6. ASSUME NEW msg, Send(<<Plain("HANDSHAKE", msg)>>) PROVE GrantInv'
    <3>1. PICK r : r = Plain("HANDSHAKE", msg)
      OBVIOUS
    <3>2. r.type # "APPLICATION_DATA" /\ Send(<<r>>)
      BY <2>6, <3>1, PlainHas
    <3> QED
      BY <2>4, <3>2
  <2>7. ASSUME Send(<<Plain("CHANGE_CIPHER_SPEC", NULL)>>) PROVE GrantInv'
    <3>1. PICK r : r = Plain("CHANGE_CIPHER_SPEC", NULL)
      OBVIOUS
    <3>2. r.type # "APPLICATION_DATA" /\ Send(<<r>>)
      BY <2>7, <3>1, PlainHas
    <3> QED
      BY <2>4, <3>2
  <2>8. ASSUME NEW msg, NEW key, NEW id, Send(<<Protected("HANDSHAKE", msg, key, id)>>)
        PROVE  GrantInv'
    <3>1. PICK r : r = Protected("HANDSHAKE", msg, key, id)
      OBVIOUS
    <3>2. r.type # "APPLICATION_DATA" /\ Send(<<r>>)
      BY <2>8, <3>1, ProtectedHas
    <3> QED
      BY <2>4, <3>2
  <2> QED
    BY <2>3, <2>5, <2>6, <2>7, <2>8, Zenon
<1>10. CASE Request \/ Upgrade
  <2>1. /\ step \in Requests /\ \E code : SendRequest(code)
    BY <1>10, Zenon DEF Request, Upgrade, Requests
  <2>2. PICK code : SendRequest(code)
    BY <2>1
  <2>3. PICK msg : msg = [hs |-> step, body |-> [number |-> seq_number', code |-> code]]
    OBVIOUS
  <2>4. PICK r : r = Protected("APPLICATION_DATA", msg, master, next_write_id)
    OBVIOUS
  <2>5. r.msg = msg /\ msg.hs = step
    BY <2>3, <2>4, ProtectedHas
  <2>6. Send(<<r>>) /\ response' = <<>> /\ UNCHANGED <<step, factor, user_id, token>>
    BY <2>2, <2>3, <2>4 DEF SendRequest
  <2>7. toServer' = Append(toServer, r)
    BY <1>2, <2>6, SendIs
  <2>8. ~HasToken(response')
    BY <2>6 DEF HasToken
  <2>9. TokenSent' => TokenSent
    BY <2>8, ClientToken
  <2>10. Requested(r, "auth_login_finish") => step = "auth_login_finish"
    BY <2>5 DEF Requested
  <2>11. Requested(r, "auth_request_game_token") => step = "auth_request_game_token"
    BY <2>5 DEF Requested
  <2>12. step # "done" /\ (step = "auth_list_game_accounts" \/ step = "auth_request_game_token" => user_id)
    BY <1>1, <2>1 DEF GrantInv, Requests
  <2> QED
    BY <1>1, <1>2, <2>6, <2>7, <2>9, <2>10, <2>11, <2>12, MoreGrant DEF Late
<1>11. CASE RecvMore
  <2>1. /\ step \in Requests /\ step' \in {"failed", step}
        /\ UNCHANGED <<response, factor, user_id, token, toServer>>
    BY <1>11 DEF RecvMore, RecvToBuffer, ParseFails
  <2>2. TokenSent' => TokenSent
    BY <1>3, <2>1, ClientToken
  <2>3. step # "done" /\ (step = "auth_list_game_accounts" \/ step = "auth_request_game_token" => user_id)
    BY <1>1, <2>1 DEF GrantInv, Requests
  <2> QED
    BY <1>1, <2>1, <2>2, <2>3, SameGrant
<1> QED
  BY <1>5, <1>6, <1>7, <1>8, <1>9, <1>10, <1>11, ResponseGrant DEF Client

\* The server takes a record and gives no token but to the request for it.
LEMMA TakesGrant ==
    ASSUME GrantInv, IsSeq(toServer), UNCHANGED <<step, user_id, token>>,
           toServer' = toServer \/ (toServer # <<>> /\ toServer' = Tail(toServer)),
           TokenSent' => \/ TokenSent
                         \/ /\ toServer # <<>> /\ factor # "demanded"
                            /\ Requested(Head(toServer), "auth_request_game_token"),
           factor' = "demanded" => \/ factor = "demanded"
                                   \/ /\ toServer # <<>> /\ toServer' # toServer
                                      /\ Requested(Head(toServer), "auth_login_finish")
    PROVE  GrantInv'
<1>1. Len(toServer) \in Nat /\ DOMAIN toServer = 1 .. Len(toServer)
      /\ (toServer # <<>> => 1 \in DOMAIN toServer)
  BY SeqIs
<1>2. toServer # <<>> => Head(toServer) = toServer[1]
  BY TailIs
<1>3. PICK k \in {0, 1} : /\ toServer' = toServer => k = 0
                          /\ k <= Len(toServer)
                          /\ IsSeq(toServer') /\ Len(toServer') = Len(toServer) - k
                          /\ \A i \in 1 .. Len(toServer) - k : toServer'[i] = toServer[i + k]
  <2>1. CASE toServer' = toServer
    <3>1. Len(toServer') = Len(toServer) - 0
          /\ \A i \in 1 .. Len(toServer) - 0 : toServer'[i] = toServer[i + 0]
      BY <1>1, <2>1
    <3> QED
      BY <1>1, <2>1, <3>1
  <2>2. CASE toServer # <<>> /\ toServer' = Tail(toServer) /\ toServer' # toServer
    <3>1. IsSeq(toServer') /\ Len(toServer') = Len(toServer) - 1
          /\ \A i \in 1 .. Len(toServer) - 1 : toServer'[i] = toServer[i + 1]
      BY <2>2, TailIs
    <3>2. 1 \in 1 .. Len(toServer)
      BY <1>1, <2>2
    <3>3. 1 <= Len(toServer) /\ 1 \in {0, 1}
      BY <1>1, <3>2
    <3> WITNESS 1 \in {0, 1}
    <3> QED
      BY <2>2, <3>1, <3>3
  <2> QED
    BY <2>1, <2>2
<1>4. \A i \in DOMAIN toServer' : i + k \in DOMAIN toServer /\ toServer'[i] = toServer[i + k]
  <2>1. DOMAIN toServer' = 1 .. Len(toServer) - k
    BY <1>3, SeqIs
  <2>2. \A i \in 1 .. Len(toServer) - k : i + k \in 1 .. Len(toServer)
    BY <1>1, <1>3
  <2> QED
    BY <1>1, <1>3, <2>1, <2>2
<1>5. TokenSent' \/ step = "done" =>
         \/ TokenSent \/ step = "done"
         \/ /\ toServer # <<>> /\ factor # "demanded"
            /\ Requested(toServer[1], "auth_request_game_token")
  BY <1>2
<1>6. ASSUME TokenSent' \/ step = "done"
      PROVE  /\ factor # "demanded" /\ step \in Late
             /\ \A i \in DOMAIN toServer : ~Requested(toServer[i], "auth_login_finish")
  <2>1. CASE TokenSent \/ step = "done"
    BY <2>1 DEF GrantInv, Late
  <2>2. CASE /\ toServer # <<>> /\ factor # "demanded"
             /\ Requested(toServer[1], "auth_request_game_token")
    <3>1. /\ step \in Late
          /\ \A j \in DOMAIN toServer : Requested(toServer[j], "auth_login_finish") => j < 1
      BY <1>1, <2>2 DEF GrantInv, Late
    <3> QED
      BY <1>1, <2>2, <3>1
  <2> QED
    BY <1>5, <1>6, <2>1, <2>2
<1>7. TokenSent' \/ step' = "done" =>
         /\ factor' # "demanded" /\ step' \in Late
         /\ \A i \in DOMAIN toServer' : ~Requested(toServer'[i], "auth_login_finish")
  BY <1>1, <1>2, <1>4, <1>6
<1>8. ASSUME NEW i \in DOMAIN toServer', Requested(toServer'[i], "auth_request_game_token")
      PROVE  /\ step' \in Late
             /\ \A j \in DOMAIN toServer' : Requested(toServer'[j], "auth_login_finish") => j < i
  <2>1. i + k \in DOMAIN toServer /\ Requested(toServer[i + k], "auth_request_game_token")
    BY <1>4, <1>8
  <2>2. /\ step \in Late
        /\ \A j \in DOMAIN toServer : Requested(toServer[j], "auth_login_finish") => j < i + k
    BY <2>1 DEF GrantInv, Late
  <2>3. ASSUME NEW j \in DOMAIN toServer', Requested(toServer'[j], "auth_login_finish")
        PROVE  j < i
    <3>1. j + k < i + k
      BY <1>4, <2>2, <2>3
    <3>2. i \in Nat /\ j \in Nat
      BY <1>3, SeqIs
    <3> QED
      BY <3>1, <3>2
  <2> QED
    BY <2>2, <2>3
<1> QED
  BY <1>7, <1>8 DEF GrantInv, Late

\* What the server may answer: a token only to the request for it, once the factor is passed.
LEMMA AnswersAre ==
    ASSUME NEW request, NEW answer \in Answers(request)
    PROVE  /\ answer[2] = "Token" => /\ request.hs = "auth_request_game_token"
                                     /\ factor # "demanded"
           /\ answer[2] \in TwoFactor => request.hs = "auth_login_finish"
<1>1. answer[2] = NULL \/ answer[2] \in {"UserId", "Malformed", "Row", "Token"} \cup TwoFactor
  BY DEF Answers
<1>2. answer[2] \in TwoFactor => request.hs = "auth_login_finish"
  BY NotNull DEF Answers, TwoFactor
<1>3. answer[2] = "Token" => request.hs = "auth_request_game_token" /\ factor # "demanded"
  BY NotNull DEF Answers, TwoFactor
<1> QED
  BY <1>2, <1>3

\* Every step of the server keeps the order of second factor and token.
LEMMA ServerGrant ==
    ASSUME IInv, Server
    PROVE  GrantInv'
<1>1. SeqInv /\ ClientInv /\ StreamInv /\ ServerInv /\ QueueInv /\ GrantInv
  BY DEF IInv, TlsInv
<1>2. UNCHANGED <<read, step, response, user_id, token>>
  BY ServerKeeps DEF clientVars
<1>3. StreamInv'
  BY ServerStream
<1>4. IsSeq(toServer) /\ IsSeq(read) /\ IsSeq(toClient)
  BY <1>1 DEF SeqInv
<1>5. CASE server' # "requests"
  <2>1. ASSUME NEW i \in DOMAIN Stream' PROVE Stream'[i].of.type # "APPLICATION_DATA"
    <3>1. PICK r : r = Stream'[i].of
      OBVIOUS
    <3>2. IsSent(r)'
      BY <1>3, <3>1 DEF StreamInv
    <3>3. \/ r.type = "LINE"
          \/ \E n : r = Plain("HANDSHAKE", serverSum'[n])
          \/ r = Plain("ALERT", NULL)
      BY <1>5, <3>2, Zenon DEF IsSent
    <3>4. ASSUME NEW type, NEW msg, r = Plain(type, msg) PROVE r.type = type
      BY <3>4, PlainHas
    <3>5. r.type \in {"LINE", "HANDSHAKE", "ALERT"}
      BY <3>3, <3>4
    <3> QED
      BY <3>1, <3>5
  <2>2. TokenSent' => TokenSent
    BY <1>2, <2>1 DEF TokenSent, HasToken
  <2>3. server # "requests"
    BY <1>5 DEF Server, ServerStartsTls, ServerAnswers, ServerHandshake, ServerHello,
       ServerKeyExchange, ServerChangeCipherSpec, ServerAlert, ServerFinished, serverVars
  <2>4. factor' = factor
        /\ (toServer' = toServer \/ (toServer # <<>> /\ toServer' = Tail(toServer)))
    <3>1. CASE ServerStartsTls
      BY <3>1 DEF ServerStartsTls, portalVars
    <3>2. CASE ServerHandshake /\ UNCHANGED portalVars
      BY <3>2 DEF ServerHandshake, ServerHello, ServerKeyExchange, ServerChangeCipherSpec,
         ServerAlert, ServerFinished, portalVars
    <3> QED
      BY <2>3, <3>1, <3>2 DEF Server, ServerAnswers
  <2> QED
    BY <1>1, <1>2, <1>4, <2>2, <2>4, TakesGrant
<1>6. CASE ServerAnswers
  <2>1. /\ server = "requests" /\ toServer # <<>> /\ toServer' = Tail(toServer)
        /\ \E answer \in Answers(Head(toServer).msg) :
              \E texts \in Records(ReplyText(answer[1], Head(toServer).msg.body.number, answer[2])) :
                 /\ Reply([i \in DOMAIN texts |->
                              Protected("APPLICATION_DATA", texts[i], serverMaster,
                                        serverWriteId + i - 1)])
                 /\ serverWriteId' = serverWriteId + Len(texts)
                 /\ factor' = IF answer[2] \in TwoFactor THEN "demanded"
                              ELSE IF Head(toServer).msg.hs = "auth2f_upgrade_totp" /\ answer[1] = 200
                              THEN "passed" ELSE factor
    BY <1>6 DEF ServerAnswers
  <2>2. PICK answer \in Answers(Head(toServer).msg) :
           \E texts \in Records(ReplyText(answer[1], Head(toServer).msg.body.number, answer[2])) :
                 /\ Reply([i \in DOMAIN texts |->
                              Protected("APPLICATION_DATA", texts[i], serverMaster,
                                        serverWriteId + i - 1)])
                 /\ serverWriteId' = serverWriteId + Len(texts)
                 /\ factor' = IF answer[2] \in TwoFactor THEN "demanded"
                              ELSE IF Head(toServer).msg.hs = "auth2f_upgrade_totp" /\ answer[1] = 200
                              THEN "passed" ELSE factor
    BY <2>1
  <2>3. PICK texts \in Records(ReplyText(answer[1], Head(toServer).msg.body.number, answer[2])) :
           Reply([i \in DOMAIN texts |->
                    Protected("APPLICATION_DATA", texts[i], serverMaster, serverWriteId + i - 1)])
    BY <2>2
  <2>4. PICK n \in 1 .. 2 : /\ DOMAIN texts = 1 .. n /\ Len(texts) = n
                            /\ \A j \in 1 .. n : Lines(texts[j], answer[2])
    BY <2>3, ReplyTextIs, RecordsAre
  <2>5. PICK rs : rs = [i \in DOMAIN texts |-> Protected("APPLICATION_DATA", texts[i], serverMaster,
                                                         serverWriteId + i - 1)]
    OBVIOUS
  <2>6. DOMAIN rs = 1 .. n /\ Reply(rs) /\ n \in 1 .. 3
    BY <2>3, <2>4, <2>5
  <2>7. \A j \in 1 .. n : rs[j].msg = texts[j]
    BY <2>4, <2>5, ProtectedHas
  <2>8. /\ IsSeq(Stream') /\ \A i \in 1 .. Len(Stream) : Stream'[i] = Stream[i]
        /\ \A i \in 1 .. Len(Stream') : i > Len(Stream) => \E j \in 1 .. n : Stream'[i].of = rs[j]
    BY <1>2, <1>4, <2>6, ReplyIs
  <2>9. TokenSent' => TokenSent \/ answer[2] = "Token"
    <3> SUFFICES ASSUME NEW i \in DOMAIN Stream', Stream'[i].of.type = "APPLICATION_DATA",
                        HasToken(Stream'[i].of.msg)
                 PROVE  TokenSent \/ answer[2] = "Token"
      BY <1>2 DEF TokenSent, HasToken
    <3>1. IsSeq(Stream) /\ i \in 1 .. Len(Stream') /\ Len(Stream) \in Nat /\ i \in Nat
          /\ DOMAIN Stream = 1 .. Len(Stream)
      BY <1>4, <2>8, ConcatIs, SeqIs DEF Stream
    <3>2. CASE i > Len(Stream)
      <4>1. PICK j \in 1 .. n : Stream'[i].of = rs[j]
        BY <2>8, <3>1, <3>2
      <4>2. HasToken(texts[j])
        BY <2>7, <4>1
      <4> QED
        BY <2>4, <4>2, LinesToken
    <3>3. CASE ~(i > Len(Stream))
      <4>1. i \in DOMAIN Stream /\ Stream'[i] = Stream[i]
        BY <2>8, <3>1, <3>3
      <4> QED
        BY <4>1 DEF TokenSent
    <3> QED
      BY <3>2, <3>3
  <2>10. Head(toServer).type = "APPLICATION_DATA"
    <3>1. IsWritten(Head(toServer)) /\ OutNumber(Head(toServer)) = ServerNextIn
      BY <2>1, NextTaken
    <3>2. ServerNextIn >= 5
      BY <1>1, <2>1 DEF ServerInv, ServerNextIn
    <3> QED
      BY <3>1, <3>2, WrittenIs
  <2>11. /\ answer[2] = "Token" => /\ Requested(Head(toServer), "auth_request_game_token")
                                   /\ factor # "demanded"
         /\ answer[2] \in TwoFactor => Requested(Head(toServer), "auth_login_finish")
    BY <2>10, AnswersAre DEF Requested
  <2>12. factor' = "demanded" => factor = "demanded" \/ answer[2] \in TwoFactor
    BY <2>2
  <2>13. toServer' # toServer
    <3>1. Len(Tail(toServer)) = Len(toServer) - 1 /\ Len(toServer) \in Nat
      BY <1>4, <2>1, TailIs, SeqIs
    <3>2. toServer' = Tail(toServer)
      BY <2>1
    <3> QED
      BY <3>1, <3>2
  <2> QED
    BY <1>1, <1>2, <1>4, <2>1, <2>9, <2>11, <2>12, <2>13, TakesGrant
<1>7. CASE ServerHandshake /\ UNCHANGED portalVars /\ server' = "requests"
  <2>1. PICK unchecked \in BOOLEAN : ServerFinished(unchecked)
    BY <1>1, <1>7 DEF ServerHandshake, ServerHello, ServerKeyExchange, ServerChangeCipherSpec,
       ServerAlert
  <2> DEFINE sum == Append(serverSum, Head(toServer).msg)
             fin == Finished("server finished", serverMaster, sum)
  <2>2. /\ toServer # <<>> /\ toServer' = Tail(toServer)
        /\ Reply(<<Plain("CHANGE_CIPHER_SPEC", NULL),
                   Protected("HANDSHAKE", fin, serverMaster, serverWriteId)>>)
    BY <1>7, <2>1 DEF ServerFinished
  <2>3. PICK rs : rs = <<Plain("CHANGE_CIPHER_SPEC", NULL),
                         Protected("HANDSHAKE", fin, serverMaster, serverWriteId)>>
    OBVIOUS
  <2> HIDE DEF fin
  <2>4. DOMAIN rs = 1 .. 2 /\ 2 \in 1 .. 3 /\ rs[1] = Plain("CHANGE_CIPHER_SPEC", NULL)
        /\ rs[2] = Protected("HANDSHAKE", fin, serverMaster, serverWriteId) /\ Reply(rs)
    BY <2>2, <2>3
  <2>5. \A j \in 1 .. 2 : rs[j].type # "APPLICATION_DATA"
    <3>1. rs[1].type = "CHANGE_CIPHER_SPEC"
      BY <2>4, PlainHas
    <3>2. rs[2].type = "HANDSHAKE"
      BY <2>4, ProtectedHas
    <3> QED
      BY <3>1, <3>2
  <2>6. /\ IsSeq(Stream') /\ \A i \in 1 .. Len(Stream) : Stream'[i] = Stream[i]
        /\ \A i \in 1 .. Len(Stream') : i > Len(Stream) => \E j \in 1 .. 2 : Stream'[i].of = rs[j]
    BY <1>2, <1>4, <2>4, ReplyIs
  <2>7. TokenSent' => TokenSent
    <3> SUFFICES ASSUME NEW i \in DOMAIN Stream', Stream'[i].of.type = "APPLICATION_DATA",
                        HasToken(Stream'[i].of.msg)
                 PROVE  TokenSent
      BY <1>2 DEF TokenSent, HasToken
    <3>1. IsSeq(Stream) /\ i \in 1 .. Len(Stream') /\ Len(Stream) \in Nat /\ i \in Nat
          /\ DOMAIN Stream = 1 .. Len(Stream)
      BY <1>4, <2>6, ConcatIs, SeqIs DEF Stream
    <3>2. ~(i > Len(Stream))
      BY <2>5, <2>6, <3>1
    <3>3. i \in DOMAIN Stream /\ Stream'[i] = Stream[i]
      BY <2>6, <3>1, <3>2
    <3> QED
      BY <3>3 DEF TokenSent
  <2>8. factor' = factor
    BY <1>7 DEF portalVars
  <2> QED
    BY <1>1, <1>2, <1>4, <2>2, <2>7, <2>8, TakesGrant
<1>8. CASE ServerStartsTls
  <2>1. IsWritten(Head(toServer)) /\ Head(toServer).type = "STS" /\ server' = server
    <3>1. toServer # <<>> /\ Head(toServer).type = "STS" /\ server' = server
      BY <1>8 DEF ServerStartsTls, serverVars
    <3>2. 1 \in DOMAIN toServer /\ Head(toServer) = toServer[1]
      BY <1>4, <3>1, TailIs, SeqIs
    <3> QED
      BY <1>1, <3>1, <3>2 DEF QueueInv
  <2>2. server' # "requests"
    BY <2>1, WrittenIs
  <2> QED
    BY <1>5, <2>2
<1> QED
  BY <1>5, <1>6, <1>7, <1>8, Zenon DEF Server

-----------------------------------------------------------------------------
(* The theorems                                                            *)

\* The invariant holds at the beginning.
LEMMA InitInv == Init => IInv
<1> SUFFICES ASSUME Init PROVE IInv
  OBVIOUS
<1>1. /\ state = "AWAIT_CLIENT_HELLO" /\ failure = NULL
      /\ read = <<>> /\ checksum = <<>> /\ next_read_id = 0 /\ next_write_id = 0
      /\ toServer = <<>> /\ toClient = <<>>
      /\ server = "hello" /\ serverSum = <<>> /\ serverReadId = 0 /\ serverWriteId = 0
      /\ step = "sts_connection_connect" /\ waiting = FALSE /\ response = <<>>
  BY DEF Init, TlsInit
<1>2. IsSeq(<<>>) /\ Len(<<>>) = 0 /\ DOMAIN <<>> = {}
  BY NoSeq, SeqIs
<1>3. Stream = <<>> /\ Len(Stream) = 0 /\ DOMAIN Stream = {}
  BY <1>1, <1>2 DEF Stream, IsSeq
<1>4. ~Handshaken /\ ~HasFinished /\ NextIn = 1 /\ Summed = 0 /\ NextOut = 1
      /\ ServerNextIn = 1 /\ ServerNextOut = 1 /\ ~Residue
  BY <1>1, <1>3 DEF Handshaken, HasFinished, NextIn, Summed, NextOut, ServerNextIn,
     ServerNextOut, Residue
<1>5. SeqInv
  BY <1>1, <1>2 DEF SeqInv
<1>6. ClientInv
  BY <1>1, <1>2, <1>4 DEF ClientInv, States
<1>7. ServerInv
  BY <1>1 DEF ServerInv, ServerStates
<1>8. StreamInv
  <2>1. Chain(Stream, 1, 1)
    BY <1>3 DEF Chain
  <2> QED
    BY <1>1, <1>3, <1>4, <2>1 DEF StreamInv
<1>9. QueueInv
  <2>1. Queue(toServer, 1, 1)
    BY <1>1, <1>2 DEF Queue
  <2> QED
    BY <1>1, <1>2, <1>4, <2>1 DEF QueueInv
<1>10. SumsInv
  BY <1>1, <1>2 DEF SumsInv
<1>11. HandshakenInv
  BY <1>1, <1>4, NotNull DEF HandshakenInv, NumbersInStep
<1>12. PlaceInv
  BY <1>1 DEF PlaceInv, Steps, Requests
<1>13. GrantInv
  <2>1. ~TokenSent
    BY <1>1, <1>2, <1>3 DEF TokenSent, HasToken
  <2> QED
    BY <1>1, <1>2, <2>1 DEF GrantInv
<1> QED
  BY <1>5, <1>6, <1>7, <1>8, <1>9, <1>10, <1>11, <1>12, <1>13 DEF IInv, TlsInv

\* The invariant is about everything but seq_number and closed.
LEMMA SameInv ==
    ASSUME IInv, UNCHANGED <<tlsVars, step, waiting, response, user_id, token, factor>>
    PROVE  IInv'
<1>1. UNCHANGED <<clientVars, serverVars, toServer, toClient>>
  BY DEF tlsVars
<1>2. Stream' = Stream
  BY <1>1 DEF clientVars, Stream
<1>3. SeqInv'
  BY <1>1 DEF IInv, TlsInv, SeqInv, clientVars, serverVars
<1>4. ClientInv'
  BY <1>1 DEF IInv, TlsInv, ClientInv, HasFinished, Handshaken, Summed, premaster_secret,
     clientVars
<1>5. ServerInv'
  BY <1>1 DEF IInv, TlsInv, ServerInv, serverVars
<1>6. StreamInv'
  <2>1. NextIn' = NextIn
    BY <1>1 DEF NextIn, clientVars
  <2> QED
    BY <1>1, <1>2, <2>1, SameStream DEF IInv, TlsInv, clientVars
<1>7. QueueInv'
  <2>1. NextOut' = NextOut
    BY <1>1 DEF NextOut, HasFinished, clientVars
  <2> QED
    BY <1>1, <2>1, SameQueue DEF clientVars
<1>8. SumsInv'
  BY <1>1 DEF IInv, TlsInv, SumsInv, clientVars, serverVars
<1>9. HandshakenInv'
  BY <1>1 DEF IInv, TlsInv, HandshakenInv, Handshaken, NumbersInStep, clientVars, serverVars
<1>10. PlaceInv'
  BY <1>1 DEF IInv, PlaceInv, Handshaken, clientVars
<1>11. GrantInv'
  <2>1. TokenSent' = TokenSent
    BY <1>2 DEF TokenSent
  <2> QED
    BY <1>1, <2>1 DEF IInv, GrantInv
<1> QED
  BY <1>3, <1>4, <1>5, <1>6, <1>7, <1>8, <1>9, <1>10, <1>11 DEF IInv, TlsInv

\* The parts of the invariant together, for each side.
LEMMA ClientInvStep ==
    ASSUME IInv, Client
    PROVE  IInv'
<1>1. UNCHANGED <<server, serverSum, serverMaster, serverReadId, serverWriteId>>
  BY ClientKeeps DEF serverVars
<1>2. ServerInv'
  BY <1>1 DEF IInv, TlsInv, ServerInv
<1> QED
  BY <1>2, ClientSeq, ClientCounts, ClientStream, ClientQueue, ClientTranscript, ClientKeys,
     ClientPlace, ClientGrant DEF IInv, TlsInv

LEMMA ServerInvStep ==
    ASSUME IInv, Server
    PROVE  IInv'
<1>1. UNCHANGED <<password, state, failure, checksum, which, master, next_read_id, next_write_id>>
  BY ServerKeeps DEF clientVars
<1>2. ClientInv'
  BY <1>1 DEF IInv, TlsInv, ClientInv, HasFinished, Handshaken, Summed, premaster_secret
<1> QED
  BY <1>2, ServerSeq, ServerCounts, ServerStream, ServerQueue, ServerTranscript, ServerKeys,
     ServerPlace, ServerGrant DEF IInv, TlsInv

\* Portal login and TLS: where each side is, what is on its way and what both have summed
\* always fit together.
THEOREM Invariance == Spec => []IInv
<1>1. ASSUME IInv, [Next]_vars PROVE IInv'
  <2>1. CASE ServerCloses
    BY <1>1, <2>1, SameInv DEF ServerCloses
  <2>2. CASE UNCHANGED vars
    BY <1>1, <2>2, SameInv DEF vars, portalVars
  <2> QED
    BY <1>1, <2>1, <2>2, ClientInvStep, ServerInvStep DEF Next
<1> QED
  BY InitInv, <1>1, PTL DEF Spec

\* ssl_sts_connection_handshake returns success only with a server that has the account's
\* password and has summed the same messages.
THEOREM AgreementHolds == Spec => []Agreement
<1>1. IInv => Agreement
  <2> SUFFICES ASSUME IInv, Handshaken
               PROVE  password = Account /\ master = serverMaster /\ checksum = serverSum
    BY DEF Agreement
  <2>1. ClientInv /\ ServerInv /\ HandshakenInv
    BY DEF IInv, TlsInv
  <2>2. master = serverMaster /\ checksum = serverSum /\ server = "requests"
    BY <2>1 DEF HandshakenInv
  <2>3. master.password = password
    BY <2>1 DEF ClientInv, HasFinished, Handshaken, premaster_secret
  <2> QED
    BY <2>1, <2>2, <2>3 DEF ServerInv
<1> QED
  BY <1>1, Invariance, PTL

\* However the bytes of a flight are cut, parse_tls12_handshake sums each message once, and
\* the record numbers that enter the HMACs never come apart.
THEOREM InStep == Spec => []SidesInStep
<1>1. IInv => SidesInStep
  <2> SUFFICES ASSUME IInv PROVE SidesInStep
    OBVIOUS
  <2>1. IsSeq(checksum) /\ IsSeq(serverSum) /\ SumsInv /\ NumbersInStep
    BY DEF IInv, TlsInv, SeqInv, HandshakenInv
  <2>2. Len(checksum) \in Nat /\ Len(serverSum) \in Nat
        /\ DOMAIN checksum = 1 .. Len(checksum) /\ DOMAIN serverSum = 1 .. Len(serverSum)
    BY <2>1, SeqIs
  <2>3. \A i \in 1 .. Len(checksum) : i <= Len(serverSum) => checksum[i] = serverSum[i]
    BY <2>1, <2>2 DEF SumsInv
  <2>4. ASSUME NEW s, NEW t, IsSeq(s), IsSeq(t), Len(s) <= Len(t),
               \A i \in 1 .. Len(s) : s[i] = t[i]
        PROVE  IsPrefix(s, t)
    <3>1. Len(s) \in 0 .. Len(s) /\ Len(s) \in 0 .. Len(t) /\ Len(s) \in Nat
      BY <2>4, SeqIs
    <3> DEFINE a == SubSeq(s, 1, Len(s))
               b == SubSeq(t, 1, Len(s))
    <3>2. /\ IsSeq(a) /\ IsSeq(b) /\ Len(a) = Len(s) /\ Len(b) = Len(s)
          /\ \A i \in 1 .. Len(s) : a[i] = s[i]
          /\ \A i \in 1 .. Len(s) : b[i] = t[i]
      BY <2>4, <3>1, CutIs
    <3> HIDE DEF a, b
    <3>3. a = b
      BY <2>4, <3>2, SameSeq
    <3> QED
      BY <2>4, <3>3 DEF IsPrefix, a, b
  <2>5. CASE Len(checksum) <= Len(serverSum)
    <3>1. \A i \in 1 .. Len(checksum) : checksum[i] = serverSum[i]
      BY <2>2, <2>3, <2>5
    <3> QED
      BY <2>1, <2>4, <2>5, <3>1 DEF SidesInStep, TranscriptsAgree
  <2>6. CASE Len(serverSum) <= Len(checksum)
    <3>1. \A i \in 1 .. Len(serverSum) : serverSum[i] = checksum[i]
      BY <2>2, <2>3, <2>6
    <3> QED
      BY <2>1, <2>4, <2>6, <3>1 DEF SidesInStep, TranscriptsAgree
  <2> QED
    BY <2>2, <2>5, <2>6
<1> QED
  BY <1>1, Invariance, PTL

\* portal_login returns a token only after the account's password was used, the second factor,
\* if the server demanded one, was passed, and both ids were read from replies of that server.
THEOREM Granted == Spec => []LoginIsGranted
<1>1. IInv /\ Agreement => LoginIsGranted
  <2> SUFFICES ASSUME IInv, Agreement, step = "done"
               PROVE  /\ password = Account /\ master = serverMaster
                      /\ factor # "demanded" /\ user_id /\ token
    BY DEF LoginIsGranted
  <2>1. Handshaken
    BY DEF IInv, PlaceInv
  <2> QED
    BY <2>1 DEF Agreement, IInv, GrantInv
<1> QED
  BY <1>1, Invariance, AgreementHolds, PTL
=============================================================================
