------------------------------ MODULE NetConn ------------------------------
(***************************************************************************)
(* One Connection of network.c: the out and in buffers, the arc4 stream,   *)
(* SendPacket, NetConn_Update (send, receive, dispatch, close), shutdown   *)
(* and reset, and the connect that follows a close.  The main thread       *)
(*   "idle" -> "recv" -> "dispatch" -> "end" -> "idle"                     *)
(* runs NetConn_Update, or "idle" -> "connect" -> "idle" a connect; other  *)
(* threads call SendPacket, which conn->mutex makes atomic, at any time.   *)
(*                                                                         *)
(* A buffer is a sequence of units of sizeof(Header) bytes.  A unit knows  *)
(* the packet it belongs to, whether it is its last, and which positions   *)
(* of the key stream it has been xored with: encrypting twice with         *)
(* different positions is no encryption the server can undo.               *)
(***************************************************************************)
EXTENDS Naturals, Sequences, FiniteSets

CONSTANTS
    Sizes,       \* sizes a packet may have, in units
    Capacity,    \* what init_connection reserves for each buffer
    PartialSend, \* whether send() may take a part of the buffer only
    MaxPackets   \* bound: packets of either side in one connection

ASSUME NetConnAssumption ==
    /\ Capacity \in Nat \ {0}
    /\ Sizes \subseteq 1 .. Capacity
    /\ PartialSend \in BOOLEAN
    /\ MaxPackets \in Nat

VARIABLES
    pc,       \* where the main thread is in NetConn_Update
    conn,     \* the Connection, and what became of its packets
    left,     \* data and size in NetConn_DispatchPackets: not yet dispatched
    net,      \* units of the server in flight
    offered,  \* number of packets the server has sent
    handled   \* packets dispatched, and the flags when they were

vars == <<pc, conn, left, net, offered, handled>>

-----------------------------------------------------------------------------
Unit == [packet : Nat, last : BOOLEAN, keys : SUBSET Nat]

\* The units of packet n, in clear.
Units(n, size) ==
    [i \in 1 .. size |-> [packet |-> n, last |-> i = size, keys |-> {}]]

\* fd is "closed" (0 or INVALID_SOCKET), "open", or "stale": closed with the
\* handle kept.  accepted, wire and dropped record what SendPacket took, what
\* send() took and whether a packet that fits an empty buffer was dropped.
Connections ==
    [fd : {"closed", "open", "stale"}, shut : BOOLEAN, secured : BOOLEAN,
     buffers : BOOLEAN, formats : BOOLEAN, out : Seq(Unit), in : Seq(Unit),
     encrypted : Nat, accepted : Nat, wire : Seq(Unit), dropped : BOOLEAN,
     fault : {"no", "NetConn_Send", "SendPacket", "memmove"}]

Running == conn.fault = "no"

NetConn_IsShutdown(c) == c.fd = "closed"

\* Units free in a buffer.
Room(c, buffer) == (IF c.buffers THEN Capacity ELSE 0) - Len(buffer)

-----------------------------------------------------------------------------
(* The functions of network.c: the connections each may leave behind.      *)

NetConn_HardShutdown(c) == [c EXCEPT !.fd = "stale", !.shut = TRUE]

\* Mutant: the buffer waits for another call.
SendNothing(c) == {c}

\* Mutant: the units that were sent stay in the buffer.
KeepSent(c, units, n) == [c EXCEPT !.wire = @ \o SubSeq(units, 1, n), !.out = units]

\* send() has taken n units.
Taken(c, units, n) ==
    [c EXCEPT !.wire = @ \o SubSeq(units, 1, n),
              !.out = SubSeq(units, n + 1, Len(units))]

\* The whole of out is encrypted in place, then given to send(), which takes
\* all or some of it, or fails (always, once the socket is closed).
NetConn_Send(c) ==
    IF ~c.secured THEN {[c EXCEPT !.fault = "NetConn_Send"]}
    ELSE IF c.out = <<>> THEN {c}
    ELSE LET size  == Len(c.out)
             units == [i \in 1 .. size |->
                          LET k == c.encrypted + i IN
                          [c.out[i] EXCEPT !.keys = (@ \ {k}) \cup ({k} \ @)]]
             d     == [c EXCEPT !.encrypted = @ + size]
         IN  {NetConn_HardShutdown([d EXCEPT !.out = units])}
             \cup {Taken(d, units, n) :
                      n \in IF c.fd = "stale" THEN {}
                            ELSE IF PartialSend THEN 1 .. size ELSE {size}}

\* NetMsg_Pack at the end of out, or nothing when it does not fit.
Packed(c, size) ==
    IF c.fault # "no" THEN c
    ELSE IF Room(c, c.out) < 1 THEN [c EXCEPT !.fault = "SendPacket"]
    ELSE IF Room(c, c.out) < size THEN [c EXCEPT !.dropped = TRUE]
    ELSE [c EXCEPT !.out = @ \o Units(c.accepted + 1, size), !.accepted = @ + 1]

\* The buffer is flushed first when not even a header fits.
SendPacket(c, size) ==
    {Packed(d, size) : d \in IF Room(c, c.out) < 1 THEN NetConn_Send(c) ELSE {c}}

NetConn_Shutdown(c) ==
    {IF d.fault # "no" THEN d
     ELSE NetConn_HardShutdown([d EXCEPT !.out = <<>>, !.in = <<>>, !.buffers = FALSE]) :
        d \in NetConn_Send(c)}

\* GameSrv_Disconnect: a last packet, then the shutdown.
GameSrv_Disconnect(c) ==
    UNION {IF d.fault # "no" THEN {d} ELSE NetConn_Shutdown(d) : d \in SendPacket(c, 1)}

\* The handlers go as well, but without in nothing is dispatched again.
NetConn_Reset(c) ==
    [c EXCEPT !.fd = "closed", !.out = <<>>, !.in = <<>>, !.buffers = FALSE,
              !.accepted = 0, !.wire = <<>>]

\* Mutant: out is not cleared.
KeepOut(c) ==
    [c EXCEPT !.fd = "closed", !.shut = FALSE, !.secured = FALSE, !.in = <<>>,
              !.accepted = 0, !.wire = <<>>]

\* The end of NetConn_Update when NETCONN_SHUTDOWN is set.
Closed(c) ==
    [c EXCEPT !.fd = "closed", !.shut = FALSE, !.secured = FALSE, !.out = <<>>,
              !.in = <<>>, !.accepted = 0, !.wire = <<>>]

-----------------------------------------------------------------------------
(* The main thread                                                         *)

Goto(from, to) == pc = from /\ pc' = to

\* AuthSrv_Connect and GameSrv_Connect: the socket, then the key exchange,
\* which sets up the ciphers.
Connect ==
    /\ Running
    /\ NetConn_IsShutdown(conn)
    /\ Goto("idle", "connect")
    /\ conn' = [conn EXCEPT !.fd = "open", !.secured = FALSE, !.formats = TRUE]
    /\ UNCHANGED <<left, net, offered, handled>>

Connected ==
    /\ Running
    /\ Goto("connect", "idle")
    /\ conn' = [conn EXCEPT !.secured = TRUE, !.encrypted = 0]
    /\ UNCHANGED <<left, net, offered, handled>>

ConnectFailed ==
    /\ Running
    /\ Goto("connect", "idle")
    /\ conn' = NetConn_Reset(conn)
    /\ UNCHANGED <<left, net, offered, handled>>

NetConn_Update ==
    /\ Running
    /\ ~NetConn_IsShutdown(conn)
    /\ Goto("idle", "recv")
    /\ conn' \in NetConn_Send(conn)
    /\ UNCHANGED <<left, net, offered, handled>>

\* Mutant: recv() never fills in.
RecvTooFew(n) ==
    /\ n < Room(conn, conn.in)
    /\ conn' = [conn EXCEPT !.in = @ \o SubSeq(net, 1, n)]
    /\ net' = SubSeq(net, n + 1, Len(net))

\* recv() gives n units, at most what in has room for.
Receive(n) ==
    /\ n <= Room(conn, conn.in)
    /\ conn' = [conn EXCEPT !.in = @ \o SubSeq(net, 1, n)]
    /\ net' = SubSeq(net, n + 1, Len(net))

NetConn_Recv ==
    /\ Running
    /\ conn.fd = "open"
    /\ Goto("recv", "dispatch")
    /\ \E n \in 1 .. Len(net) : Receive(n)
    /\ left' = conn'.in
    /\ UNCHANGED <<offered, handled>>

\* Nothing has arrived, or in has no room, or the server has closed.
NetConn_RecvNothing ==
    /\ Running
    /\ conn.fd = "open"
    /\ Goto("recv", "end")
    /\ UNCHANGED <<conn, left, net, offered, handled>>

NetConn_RecvFails ==
    /\ Running
    /\ Goto("recv", "end")
    /\ conn' = NetConn_HardShutdown(conn)
    /\ UNCHANGED <<left, net, offered, handled>>

\* NetMsg_Unpack finds a whole packet of n units at the start of left.
Unpacks(n) == left[n].last /\ \A i \in 1 .. n - 1 : ~left[i].last

\* What a handler does to the connection: nothing, an answer, or, when the
\* server sends the client elsewhere, its disconnect.
Handler ==
    \/ UNCHANGED conn
    \/ conn.accepted < MaxPackets /\ \E size \in Sizes : conn' \in SendPacket(conn, size)
    \/ conn.secured /\ conn' \in GameSrv_Disconnect(conn)

\* One turn of the loop of NetConn_DispatchPackets.  Once a handler has freed
\* in, left points into freed memory: it may still hold the packet.
Dispatch ==
    /\ Running
    /\ Goto("dispatch", "dispatch")
    /\ \E n \in 1 .. Len(left) :
         /\ Unpacks(n)
         /\ handled' = Append(handled, [packet |-> left[1].packet, shut |-> conn.shut])
         /\ left' = SubSeq(left, n + 1, Len(left))
    /\ Handler
    /\ UNCHANGED <<net, offered>>

\* Mutant: the rest is not moved to the front.
DispatchForgets ==
    /\ Running
    /\ Goto("dispatch", "end")
    /\ \A n \in 1 .. Len(left) : ~Unpacks(n)
    /\ conn' = [conn EXCEPT !.in = SubSeq(@, 1, Len(left))]
    /\ UNCHANGED <<left, net, offered, handled>>

\* No whole packet is left: the rest moves to the front of in, which has no
\* memory when a handler has freed it.
DispatchEnd ==
    /\ Running
    /\ Goto("dispatch", "end")
    /\ \A n \in 1 .. Len(left) : ~Unpacks(n)
    /\ conn' = IF left # <<>> /\ ~conn.buffers
               THEN [conn EXCEPT !.fault = "memmove"]
               ELSE [conn EXCEPT !.in = left]
    /\ UNCHANGED <<left, net, offered, handled>>

\* What is left in flight is lost with the connection.
UpdateEnd ==
    /\ Running
    /\ Goto("end", "idle")
    /\ left' = <<>>
    /\ IF conn.shut
       THEN conn' = Closed(conn) /\ net' = <<>> /\ offered' = 0 /\ handled' = <<>>
       ELSE UNCHANGED <<conn, net, offered, handled>>

\* The session leaves the game server outside of its dispatch.
Disconnect ==
    /\ Running
    /\ pc = "idle" /\ ~NetConn_IsShutdown(conn)
    /\ conn' \in GameSrv_Disconnect(conn)
    /\ UNCHANGED <<pc, left, net, offered, handled>>

-----------------------------------------------------------------------------
(* Other threads and the server (external)                                 *)

\* Another thread sends.  It waits for the first connect, which gives the client
\* a world; nothing keeps it from sending once the connection is closed.
Send ==
    /\ Running
    /\ conn.formats
    /\ conn.accepted < MaxPackets
    /\ \E size \in Sizes : conn' \in SendPacket(conn, size)
    /\ UNCHANGED <<pc, left, net, offered, handled>>

ServerSends ==
    /\ Running
    /\ conn.fd = "open" /\ conn.secured
    /\ offered < MaxPackets
    /\ offered' = offered + 1
    /\ \E size \in Sizes : net' = net \o Units(offered + 1, size)
    /\ UNCHANGED <<pc, conn, left, handled>>

-----------------------------------------------------------------------------
\* init_connection, and the handlers registered.
Init ==
    /\ pc = "idle"
    /\ conn = [fd |-> "closed", shut |-> FALSE, secured |-> FALSE,
               buffers |-> TRUE, formats |-> FALSE,
               out |-> <<>>, in |-> <<>>,
               encrypted |-> 0, accepted |-> 0, wire |-> <<>>,
               dropped |-> FALSE, fault |-> "no"]
    /\ left = <<>> /\ net = <<>> /\ offered = 0 /\ handled = <<>>

\* The steps of an update that has begun, and the connect.
MainThread ==
    \/ Connected
    \/ ConnectFailed
    \/ NetConn_Update
    \/ NetConn_RecvNothing
    \/ NetConn_RecvFails
    \/ Dispatch
    \/ DispatchEnd
    \/ UpdateEnd

Next ==
    \/ Connect
    \/ MainThread
    \/ NetConn_Recv
    \/ Disconnect
    \/ Send
    \/ ServerSends

Spec == Init /\ [][Next]_vars

\* main_loop updates the connection in every frame, and what arrives is read.
FairSpec == Spec /\ WF_vars(MainThread) /\ SF_vars(NetConn_Recv)

-----------------------------------------------------------------------------
(* Properties                                                              *)

\* The domains of the variables; neither buffer outgrows its memory.
TypeOK ==
    /\ pc \in {"idle", "connect", "recv", "dispatch", "end"}
    /\ conn \in Connections
    /\ Room(conn, conn.out) >= 0 /\ Room(conn, conn.in) >= 0
    /\ left \in Seq(Unit) /\ net \in Seq(Unit)
    /\ offered \in Nat
    /\ handled \in Seq([packet : Nat, shut : BOOLEAN])

\* Units of whole packets, without a gap or a repetition, starting with packet n.
InOrder(units, n) ==
    /\ units # <<>> => units[1].packet = n
    /\ \A i \in 1 .. Len(units) - 1 :
         units[i + 1].packet = IF units[i].last THEN units[i].packet + 1
                               ELSE units[i].packet

\* What send() took and what is still in the buffer are the packets SendPacket
\* accepted, and the server, which undoes position i of the key stream on the
\* i-th unit it gets, reads each of them in clear.
WireInOrder ==
    /\ InOrder(conn.wire \o conn.out, 1)
    /\ \A i \in 1 .. Len(conn.wire) : conn.wire[i].keys = {i}

\* What has been received and not dispatched.
Undispatched == IF pc = "dispatch" THEN left ELSE conn.in

\* Handlers are called once with each packet of the server, in order, whatever
\* the pieces recv() gives: NetConn_DispatchPackets and its memmove lose nothing.
ReceivedInOrder ==
    /\ \A i \in 1 .. Len(handled) : handled[i].packet = i
    /\ ~conn.shut => InOrder(Undispatched \o net, Len(handled) + 1)

\* Between two updates no whole packet waits in the buffer: an update that
\* receives a packet dispatches it.
NothingLeftBehind ==
    pc = "idle" => \A i \in 1 .. Len(conn.in) : ~conn.in[i].last

\* The places of units that end a packet, and the n-th of them.
Ends(units) == {i \in DOMAIN units : units[i].last}

EndOf(units, n) ==
    CHOOSE i \in Ends(units) : Cardinality({j \in Ends(units) : j < i}) = n - 1

\* The packets the server can read: those that have come to their end.
Delivered ==
    [n \in 1 .. Cardinality(Ends(conn.wire)) |-> conn.wire[EndOf(conn.wire, n)].packet]

Channel == INSTANCE PacketChannel WITH
    accepted <- conn.accepted, delivered <- Delivered, offered <- offered,
    handled <- [i \in 1 .. Len(handled) |-> handled[i].packet]

\* The connection implements the channel.
ImplementsChannel == Channel!Spec

\* A packet that SendPacket accepts on an open connection is sent, or the
\* connection is closed: no packet stays in out for ever.
AcceptedIsSent ==
    \A n \in 1 .. MaxPackets :
        conn.accepted >= n ~>
            (Len(Delivered) >= n \/ conn.fd # "open" \/ ~Running)

\* A packet of the server is handled, or the connection is closed, as long as
\* the connection has its buffers.
OfferedIsHandled ==
    \A n \in 1 .. MaxPackets :
        offered >= n ~>
            (Len(handled) >= n \/ conn.fd # "open" \/ ~conn.buffers \/ ~Running)

-----------------------------------------------------------------------------
(* What the source says of itself and the code does not keep.              *)

\* The assert of SendPacket that a header fits once the buffer was flushed.
FlushMakesRoom == conn.fault # "SendPacket"

\* The assert of NetConn_Send that the keys are exchanged.
FlushIsSecured == conn.fault # "NetConn_Send"

\* network.h:102 of NetConn_Shutdown: "the data that were already received can
\* be readed": the buffer being dispatched still has its memory.
ReceivedStaysReadable == pc = "dispatch" /\ left # <<>> => conn.buffers

\* network.c:809: "We don't want to dispatch packet if we close the connection".
NoDispatchAfterClose == \A i \in 1 .. Len(handled) : ~handled[i].shut

\* The message of SendPacket, "Send buffer not big enough, flush socket stream":
\* a packet that fits an empty buffer is not dropped.
FlushedWhenShort == ~conn.dropped

\* network.h:108 of NetConn_IsShutdown: "ready to be used for an other
\* connection": nothing of the last one is left to be sent on the next.
ReadyIsEmpty == NetConn_IsShutdown(conn) => conn.out = <<>>

\* main.c:68: the update "will send the data out": every unit the server gets
\* is encrypted once, with its own position.
EncryptedOnce == \A i \in 1 .. Len(conn.wire) : conn.wire[i].keys = {i}

=============================================================================
