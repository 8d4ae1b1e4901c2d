---------------------------- MODULE NetConnProofs ----------------------------
(***************************************************************************)
(* Proofs about the two parts of network.c: NetConn, for any sizes of      *)
(* packets and buffers and any number of packets; and PacketCodec, for any *)
(* packets, what they hold and the room there is.                          *)
(***************************************************************************)
EXTENDS NetConn, PacketCodec, SequenceTheorems, FiniteSetTheorems, WellFoundedInduction,
        TLAPS

-----------------------------------------------------------------------------
(* The inductive invariant                                                 *)

\* A connection with its flags in order: the shutdown flag and the stale handle come and
\* go together, and after the key exchange only.
ConnOK(c) ==
    /\ c \in Connections
    /\ Room(c, c.out) >= 0 /\ Room(c, c.in) >= 0
    /\ c.shut <=> c.fd = "stale"
    /\ c.fd = "stale" => c.secured
    /\ c.fd = "closed" => ~c.secured

FlagsInv ==
    /\ pc \in {"idle", "connect", "recv", "dispatch", "end"}
    /\ ConnOK(conn)
    /\ conn.secured <=> conn.fd # "closed" /\ pc # "connect"
    /\ pc # "idle" => conn.fd # "closed"
    /\ pc = "connect" => conn.fd = "open"

\* The units s are the whole packets a, a + 1, ..., m - 1.
Chain(s, a, m) ==
    /\ InOrder(s, a)
    /\ s = <<>> => m = a
    /\ s # <<>> => s[Len(s)].last /\ s[Len(s)].packet + 1 = m

\* What was received and what is in flight are the packets from the next one to handle
\* to the last one the server has sent.
StreamInv ==
    /\ left \in Seq(Unit) /\ net \in Seq(Unit) /\ offered \in Nat
    /\ handled \in Seq([packet : Nat, shut : BOOLEAN])
    /\ ~conn.secured => net = <<>> /\ conn.in = <<>> /\ handled = <<>> /\ offered = 0
    /\ \A i \in 1 .. Len(handled) : handled[i].packet = i
    /\ pc = "dispatch" => InOrder(left, Len(handled) + 1)
    /\ pc = "dispatch" /\ left # <<>> => conn.buffers \/ conn.shut
    /\ pc = "dispatch" => Len(left) <= Capacity
    /\ ~conn.shut => Chain(Undispatched \o net, Len(handled) + 1, offered + 1)

\* Outside of the dispatch loop no packet that arrived whole waits; only a crash in the
\* memmove of its end leaves one.
WaitingInv ==
    pc # "dispatch" /\ (pc = "end" => Running) =>
        \A i \in 1 .. Len(conn.in) : ~conn.in[i].last

\* What was sent and what waits in out are the packets that were accepted; the key stream
\* stands where the next unit needs it, and what waits is not yet encrypted.
WireInv(c) ==
    /\ ~c.secured => c.wire = <<>>
    /\ c.fd = "open" /\ c.secured => c.encrypted = Len(c.wire)
    /\ c.fd # "stale" => \A i \in 1 .. Len(c.out) : c.out[i].keys = {}
    /\ \A i \in 1 .. Len(c.wire) : c.wire[i].keys = {i}
    /\ c.buffers => Chain(c.wire \o c.out, 1, c.accepted + 1)
    /\ ~c.buffers => c.out = <<>> /\ InOrder(c.wire, 1)

-----------------------------------------------------------------------------
(* Units                                                                   *)

\* A set of natural numbers that is not empty has a least element.
LEMMA LeastNumber ==
    ASSUME NEW T, T \subseteq Nat, T # {}
    PROVE  \E n \in T : \A m \in T : n <= m
<1>1. PICK n \in T : \A m \in T : ~(<<m, n>> \in OpToRel(<, Nat))
  BY NatLessThanWellFounded, WFMin, Zenon
<1>2. ASSUME NEW m \in T, m < n PROVE FALSE
  BY <1>1, <1>2 DEF OpToRel
<1> QED
  BY <1>2

LEMMA UnitsAssociative ==
    \A r, s, t \in Seq(Unit) : (r \o s) \o t = r \o (s \o t)
  BY ConcatAssociative

LEMMA UnitsAre ==
    ASSUME NEW m \in Nat, NEW size \in Nat \ {0}
    PROVE  /\ Units(m, size) \in Seq(Unit) /\ Len(Units(m, size)) = size
           /\ \A i \in 1 .. size : /\ Units(m, size)[i].packet = m
                                   /\ Units(m, size)[i].keys = {}
                                   /\ Units(m, size)[i].last <=> i = size
<1> DEFINE unit(i) == [packet |-> m, last |-> i = size, keys |-> {}]
           f == [i \in 1 .. size |-> unit(i)]
<1>1. \A i \in 1 .. size : /\ unit(i) \in Unit
                          /\ unit(i).packet = m /\ unit(i).keys = {}
                          /\ (unit(i).last <=> i = size)
  BY DEF Unit
<1>2. Units(m, size) = f
  BY DEF Units
<1> HIDE DEF unit
<1>3. f \in Seq(Unit) /\ Len(f) = size
  BY <1>1, IsASeq
<1>4. \A i \in 1 .. size : f[i] = unit(i)
  OBVIOUS
<1> HIDE DEF f
<1> QED
  BY <1>1, <1>2, <1>3, <1>4

LEMMA InOrderPrefix ==
    ASSUME NEW s \in Seq(Unit), NEW t \in Seq(Unit), NEW a, InOrder(s \o t, a)
    PROVE  InOrder(s, a)
<1> DEFINE u == s \o t
<1>1. /\ u \in Seq(Unit) /\ Len(u) = Len(s) + Len(t)
      /\ \A i \in 1 .. Len(s) : u[i] = s[i]
  BY ConcatProperties
<1> HIDE DEF u
<1>2. Len(s) \in Nat /\ Len(t) \in Nat /\ InOrder(u, a)
  BY DEF u
<1>3. s # <<>> => s[1].packet = a
  BY <1>1, <1>2 DEF InOrder
<1>4. ASSUME NEW i \in 1 .. Len(s) - 1
      PROVE  s[i + 1].packet = IF s[i].last THEN s[i].packet + 1 ELSE s[i].packet
  <2>1. i \in 1 .. Len(s) /\ i + 1 \in 1 .. Len(s) /\ i \in 1 .. Len(u) - 1
    BY <1>1, <1>2
  <2> QED
    BY <1>1, <1>2, <2>1 DEF InOrder
<1> QED
  BY <1>3, <1>4 DEF InOrder

\* SendPacket, and the server: one more packet at the end.
LEMMA ChainAppend ==
    ASSUME NEW s \in Seq(Unit), NEW a, NEW m \in Nat, NEW size \in Nat \ {0}, Chain(s, a, m)
    PROVE  /\ s \o Units(m, size) \in Seq(Unit)
           /\ Chain(s \o Units(m, size), a, m + 1)
<1>1. PICK t \in Seq(Unit) :
        /\ t = Units(m, size) /\ Len(t) = size
        /\ \A i \in 1 .. size : t[i].packet = m /\ (t[i].last <=> i = size)
  BY UnitsAre
<1>2. PICK u \in Seq(Unit) :
        /\ u = s \o t /\ Len(u) = Len(s) + size
        /\ \A i \in 1 .. Len(s) + size : u[i] = IF i <= Len(s) THEN s[i] ELSE t[i - Len(s)]
  <2>1. /\ s \o t \in Seq(Unit) /\ Len(s \o t) = Len(s) + Len(t)
        /\ \A i \in 1 .. Len(s) + Len(t) :
              (s \o t)[i] = IF i <= Len(s) THEN s[i] ELSE t[i - Len(s)]
    BY ConcatProperties
  <2> QED
    BY <1>1, <2>1
<1>3. Len(s) \in Nat /\ Len(u) \in Nat /\ u # <<>>
  BY <1>2
<1>4. ASSUME NEW i \in 1 .. Len(u), i > Len(s)
      PROVE  u[i].packet = m /\ (u[i].last <=> i = Len(u))
  <2>1. i - Len(s) \in 1 .. size /\ (i - Len(s) = size <=> i = Len(u)) /\ ~(i <= Len(s))
    BY <1>2, <1>3, <1>4
  <2>2. u[i] = t[i - Len(s)]
    BY <1>2, <1>3, <2>1
  <2> QED
    BY <1>1, <2>1, <2>2
<1>5. u[1].packet = a
  <2>1. CASE s = <<>>
    BY <1>2, <1>3, <1>4, <2>1 DEF Chain
  <2>2. CASE s # <<>>
    BY <1>2, <1>3, <2>2 DEF Chain, InOrder
  <2> QED
    BY <2>1, <2>2
<1>6. ASSUME NEW i \in 1 .. Len(u) - 1
      PROVE  u[i + 1].packet = IF u[i].last THEN u[i].packet + 1 ELSE u[i].packet
  <2>1. CASE i < Len(s)
    <3>1. i \in 1 .. Len(s) - 1 /\ u[i] = s[i] /\ u[i + 1] = s[i + 1]
      BY <1>2, <1>3, <2>1
    <3> QED
      BY <3>1 DEF Chain, InOrder
  <2>2. CASE i = Len(s)
    <3>1. u[i] = s[Len(s)] /\ s # <<>>
      BY <1>2, <1>3, <2>2
    <3>2. u[i + 1].packet = m
      BY <1>2, <1>3, <1>4, <2>2
    <3> QED
      BY <3>1, <3>2 DEF Chain
  <2>3. CASE i > Len(s)
    <3>1. u[i].packet = m /\ ~u[i].last
      BY <1>3, <1>4, <2>3
    <3>2. u[i + 1].packet = m
      BY <1>3, <1>4, <2>3
    <3> QED
      BY <3>1, <3>2
  <2> QED
    BY <1>3, <2>1, <2>2, <2>3
<1>7. u[Len(u)].last /\ u[Len(u)].packet + 1 = m + 1
  BY <1>1, <1>2, <1>3, <1>4
<1> QED
  BY <1>1, <1>2, <1>3, <1>5, <1>6, <1>7 DEF Chain, InOrder

\* The first packet ends at its last unit; behind it comes the next one.
LEMMA FirstPacket ==
    ASSUME NEW s \in Seq(Unit), NEW a \in Nat, InOrder(s, a),
           NEW n \in 1 .. Len(s), s[n].last, \A i \in 1 .. n - 1 : ~s[i].last
    PROVE  /\ s[1].packet = a /\ s[n].packet = a
           /\ SubSeq(s, n + 1, Len(s)) \in Seq(Unit)
           /\ Len(SubSeq(s, n + 1, Len(s))) = Len(s) - n
           /\ \A i \in 1 .. Len(s) - n : SubSeq(s, n + 1, Len(s))[i] = s[n + i]
           /\ InOrder(SubSeq(s, n + 1, Len(s)), a + 1)
<1>1. Len(s) \in Nat /\ n \in Nat /\ s # <<>>
  OBVIOUS
<1>2. s[1].packet = a
  BY <1>1 DEF InOrder
<1>3. s[n].packet = a
  <2> DEFINE wrong == {i \in 1 .. n : s[i].packet # a}
  <2> SUFFICES ASSUME wrong # {} PROVE FALSE
    BY <1>1
  <2>1. PICK i \in wrong : \A j \in wrong : i <= j
    <3>1. wrong \subseteq Nat
      BY <1>1
    <3> HIDE DEF wrong
    <3> QED
      BY <3>1, LeastNumber
  <2>2. i # 1
    BY <1>2
  <2>3. i - 1 \in 1 .. n /\ i - 1 \in 1 .. n - 1 /\ i - 1 \in 1 .. Len(s) - 1 /\ (i - 1) + 1 = i
        /\ ~(i <= i - 1)
    BY <1>1, <2>2
  <2>4. s[i - 1].packet = a
    BY <2>1, <2>3
  <2>5. s[i].packet = s[i - 1].packet
    BY <2>3 DEF InOrder
  <2> QED
    BY <2>4, <2>5
<1>4. PICK t \in Seq(Unit) :
        /\ t = SubSeq(s, n + 1, Len(s)) /\ Len(t) = Len(s) - n
        /\ \A i \in 1 .. Len(s) - n : t[i] = s[n + i]
  <2>1. \A i \in n + 1 .. Len(s) : s[i] \in Unit
    BY <1>1
  <2>2. /\ SubSeq(s, n + 1, Len(s)) \in Seq(Unit)
        /\ Len(SubSeq(s, n + 1, Len(s))) =
              IF n + 1 <= Len(s) THEN Len(s) - (n + 1) + 1 ELSE 0
        /\ \A i \in 1 .. Len(s) - (n + 1) + 1 :
              SubSeq(s, n + 1, Len(s))[i] = s[n + 1 + i - 1]
    BY <1>1, <2>1, SubSeqProperties
  <2> DEFINE rest == SubSeq(s, n + 1, Len(s))
  <2> HIDE DEF rest
  <2>3. rest \in Seq(Unit) /\ Len(rest) = Len(s) - n
    BY <1>1, <2>2 DEF rest
  <2>4. ASSUME NEW i \in 1 .. Len(s) - n PROVE rest[i] = s[n + i]
    <3>1. i \in 1 .. Len(s) - (n + 1) + 1 /\ n + 1 + i - 1 = n + i
      BY <1>1
    <3> QED
      BY <2>2, <3>1 DEF rest
  <2> QED
    BY <2>3, <2>4 DEF rest
<1>5. t # <<>> => t[1].packet = a + 1
  <2> SUFFICES ASSUME t # <<>> PROVE t[1].packet = a + 1
    OBVIOUS
  <2>1. n \in 1 .. Len(s) - 1 /\ t[1] = s[n + 1]
    BY <1>1, <1>4
  <2> QED
    BY <1>3, <2>1 DEF InOrder
<1>6. ASSUME NEW i \in 1 .. Len(t) - 1
      PROVE  t[i + 1].packet = IF t[i].last THEN t[i].packet + 1 ELSE t[i].packet
  <2>1. /\ n + i \in 1 .. Len(s) - 1 /\ n + (i + 1) = (n + i) + 1
        /\ t[i] = s[n + i] /\ t[i + 1] = s[n + (i + 1)]
    BY <1>1, <1>4
  <2> QED
    BY <2>1 DEF InOrder
<1> QED
  BY <1>2, <1>3, <1>4, <1>5, <1>6 DEF InOrder

\* Units with the same packets in another encryption.
LEMMA ChainOfSame ==
    ASSUME NEW s \in Seq(Unit), NEW t \in Seq(Unit), NEW a, NEW m, Chain(s, a, m),
           Len(t) = Len(s),
           \A i \in 1 .. Len(s) : t[i].packet = s[i].packet /\ (t[i].last <=> s[i].last)
    PROVE  Chain(t, a, m)
<1>1. Len(s) \in Nat /\ (t = <<>> <=> s = <<>>)
  OBVIOUS
<1>2. t # <<>> => /\ t[1].packet = a
                  /\ t[Len(t)].last /\ t[Len(t)].packet + 1 = m
  BY <1>1 DEF Chain, InOrder
<1>3. ASSUME NEW i \in 1 .. Len(t) - 1
      PROVE  t[i + 1].packet = IF t[i].last THEN t[i].packet + 1 ELSE t[i].packet
  <2>1. i \in 1 .. Len(s) /\ i + 1 \in 1 .. Len(s) /\ i \in 1 .. Len(s) - 1
    BY <1>1
  <2> QED
    BY <2>1 DEF Chain, InOrder
<1> QED
  BY <1>1, <1>2, <1>3 DEF Chain, InOrder

\* One turn of the dispatch loop: what is behind the first packet, with what follows.
LEMMA ChainRest ==
    ASSUME NEW s \in Seq(Unit), NEW t \in Seq(Unit), NEW a \in Nat, NEW m,
           Chain(s \o t, a, m),
           NEW n \in 1 .. Len(s), s[n].last, \A i \in 1 .. n - 1 : ~s[i].last
    PROVE  Chain(SubSeq(s, n + 1, Len(s)) \o t, a + 1, m)
<1>1. PICK u \in Seq(Unit) :
        /\ u = s \o t /\ Len(u) = Len(s) + Len(t)
        /\ \A i \in 1 .. Len(s) + Len(t) : u[i] = IF i <= Len(s) THEN s[i] ELSE t[i - Len(s)]
  <2>1. /\ s \o t \in Seq(Unit) /\ Len(s \o t) = Len(s) + Len(t)
        /\ \A i \in 1 .. Len(s) + Len(t) :
              (s \o t)[i] = IF i <= Len(s) THEN s[i] ELSE t[i - Len(s)]
    BY ConcatProperties
  <2> QED
    BY <2>1, Zenon
<1>2. Len(s) \in Nat /\ Len(t) \in Nat /\ n \in 1 .. Len(u) /\ n \in Nat
  BY <1>1
<1>3. u[n].last /\ \A i \in 1 .. n - 1 : ~u[i].last
  <2>1. \A i \in 1 .. n : i \in 1 .. Len(s) + Len(t) /\ i <= Len(s)
    BY <1>2
  <2>2. \A i \in 1 .. n : u[i] = s[i]
    BY <1>1, <2>1
  <2>3. \A i \in 1 .. n - 1 : i \in 1 .. n
    BY <1>2
  <2>4. n \in 1 .. n
    BY <1>2
  <2> QED
    BY <2>2, <2>3, <2>4
<1>4. InOrder(u, a)
  BY <1>1 DEF Chain
<1>5. PICK v \in Seq(Unit) :
        /\ v = SubSeq(u, n + 1, Len(u)) /\ Len(v) = Len(u) - n /\ InOrder(v, a + 1)
        /\ \A i \in 1 .. Len(u) - n : v[i] = u[n + i]
        /\ u[n].packet = a
  <2>1. /\ u[n].packet = a
        /\ SubSeq(u, n + 1, Len(u)) \in Seq(Unit)
        /\ Len(SubSeq(u, n + 1, Len(u))) = Len(u) - n
        /\ \A i \in 1 .. Len(u) - n : SubSeq(u, n + 1, Len(u))[i] = u[n + i]
        /\ InOrder(SubSeq(u, n + 1, Len(u)), a + 1)
    BY ONLY u \in Seq(Unit), a \in Nat, <1>2, <1>3, <1>4, FirstPacket
  <2> QED
    BY <2>1, Zenon
<1>6. SubSeq(s, n + 1, Len(s)) \o t = v
  <2>1. SubSeq(s, n + 1, Len(s)) \in Seq(Unit) /\ Len(SubSeq(s, n + 1, Len(s))) = Len(s) - n
        /\ \A i \in 1 .. Len(s) - n : SubSeq(s, n + 1, Len(s))[i] = s[n + i]
    BY <1>2, InOrderPrefix, FirstPacket DEF Chain
  <2>2. PICK w \in Seq(Unit) :
          /\ w = SubSeq(s, n + 1, Len(s)) /\ Len(w) = Len(s) - n
          /\ \A i \in 1 .. Len(s) - n : w[i] = s[n + i]
    BY <2>1, Zenon
  <2>3. /\ w \o t \in Seq(Unit) /\ Len(w \o t) = Len(w) + Len(t)
        /\ \A i \in 1 .. Len(w) + Len(t) : (w \o t)[i] = IF i <= Len(w) THEN w[i] ELSE t[i - Len(w)]
    BY ConcatProperties
  <2>4. Len(w \o t) = Len(v) /\ Len(v) = Len(w) + Len(t) /\ Len(w) \in Nat
        /\ Len(u) - n = Len(v)
    BY ONLY <1>1, <1>2, <1>5, <2>2, <2>3
  <2>5. ASSUME NEW i \in 1 .. Len(v) PROVE (w \o t)[i] = v[i]
    <3>1. i \in 1 .. Len(w) + Len(t) /\ n + i \in 1 .. Len(s) + Len(t)
          /\ i \in 1 .. Len(u) - n
      BY ONLY <1>1, <1>2, <2>2, <2>4, i \in 1 .. Len(v)
    <3> DEFINE k == Len(s)
               l == Len(w)
    <3>2. l = k - n /\ k \in Nat /\ n \in Nat /\ i \in Nat \ {0}
      <4>1. k \in Nat /\ n \in Nat
        BY ONLY <1>2
      <4>2. l = k - n
        BY ONLY <2>2
      <4>3. i \in Nat \ {0}
        BY ONLY <1>2, <2>4, i \in 1 .. Len(v)
      <4> QED
        BY ONLY <4>1, <4>2, <4>3
    <3> HIDE DEF k, l
    <3>3. (i <= l <=> n + i <= k) /\ i - l = n + i - k /\ (i <= l => i \in 1 .. k - n)
      BY ONLY <3>2
    <3>4. v[i] = IF n + i <= Len(s) THEN s[n + i] ELSE t[n + i - Len(s)]
      BY <1>1, <1>5, <3>1
    <3>5. (w \o t)[i] = IF i <= Len(w) THEN w[i] ELSE t[i - Len(w)]
      BY <2>3, <3>1
    <3> QED
      BY <2>2, <3>3, <3>4, <3>5 DEF k, l
  <2> QED
    <3>1. w \o t = v
      BY <2>3, <2>4, <2>5, SeqEqual
    <3> QED
      BY <2>2, <3>1
<1>7. v # <<>> => v[Len(v)] = u[Len(u)]
  <2> SUFFICES ASSUME v # <<>> PROVE v[Len(v)] = u[Len(u)]
    OBVIOUS
  <2>1. Len(v) \in 1 .. Len(u) - n /\ n + Len(v) = Len(u)
    BY <1>1, <1>2, <1>5
  <2>2. v[Len(v)] = u[n + Len(v)]
    BY <1>5, <2>1
  <2> QED
    BY <2>1, <2>2
<1>8. u # <<>> /\ u[Len(u)].last /\ u[Len(u)].packet + 1 = m
  BY <1>1, <1>2 DEF Chain
<1>9. v = <<>> => m = a + 1
  <2> SUFFICES ASSUME v = <<>> PROVE m = a + 1
    OBVIOUS
  <2>1. n = Len(u)
    BY <1>1, <1>2, <1>5
  <2> QED
    BY <1>5, <1>8, <2>1
<1> QED
  BY <1>5, <1>6, <1>7, <1>8, <1>9 DEF Chain

-----------------------------------------------------------------------------
(* The functions of network.c                                              *)

\* What no function does to a connection: the flags stay in order, the shutdown flag
\* is not taken back, what was received is kept or given up as a whole, and while the flag
\* is not set only out is touched.
Kept(c, d) ==
    /\ ConnOK(d)
    /\ d.secured = c.secured
    /\ c.shut => d.shut
    /\ d.in = c.in \/ d.in = <<>>
    /\ d.shut \/ (d.fd = c.fd /\ d.buffers = c.buffers /\ d.in = c.in)

LEMMA KeptAgain ==
    ASSUME NEW c, NEW d, NEW e, Kept(c, d), Kept(d, e)
    PROVE  Kept(c, e)
  BY DEF Kept

LEMMA Faulty ==
    ASSUME NEW c, ConnOK(c), NEW f \in {"NetConn_Send", "SendPacket", "memmove"}
    PROVE  LET d == [c EXCEPT !.fault = f] IN
           /\ Kept(c, d)
           /\ WireInv(c) => WireInv(d)
<1> DEFINE d == [c EXCEPT !.fault = f]
<1>1. /\ d \in Connections
      /\ d.fd = c.fd /\ d.shut = c.shut /\ d.secured = c.secured /\ d.buffers = c.buffers
      /\ d.out = c.out /\ d.in = c.in /\ d.encrypted = c.encrypted
      /\ d.accepted = c.accepted /\ d.wire = c.wire
  BY DEF ConnOK, Connections
<1> HIDE DEF d
<1>2. Kept(c, d)
  BY <1>1 DEF Kept, ConnOK, Room
<1>3. WireInv(c) => WireInv(d)
  BY <1>1, Zenon DEF WireInv
<1> QED
  BY <1>2, <1>3 DEF d

LEMMA HardShut ==
    ASSUME NEW c \in Connections, Room(c, c.out) >= 0, Room(c, c.in) >= 0, c.secured
    PROVE  LET d == NetConn_HardShutdown(c) IN
           /\ ConnOK(d) /\ d.shut /\ d.fd = "stale" /\ d.secured
           /\ d.buffers = c.buffers /\ d.out = c.out /\ d.in = c.in
           /\ d.accepted = c.accepted /\ d.wire = c.wire
<1> DEFINE d == NetConn_HardShutdown(c)
<1>1. /\ d \in Connections
      /\ d.fd = "stale" /\ d.shut /\ d.secured = c.secured /\ d.buffers = c.buffers
      /\ d.out = c.out /\ d.in = c.in /\ d.accepted = c.accepted /\ d.wire = c.wire
  BY DEF NetConn_HardShutdown, Connections
<1> HIDE DEF d
<1>2. ConnOK(d)
  BY <1>1 DEF ConnOK, Room
<1> QED
  BY <1>1, <1>2 DEF d

\* The units at the end in another encryption.
LEMMA ChainOfSameEnd ==
    ASSUME NEW s \in Seq(Unit), NEW t \in Seq(Unit), NEW u \in Seq(Unit), NEW a, NEW m,
           Chain(s \o t, a, m), Len(u) = Len(t),
           \A i \in 1 .. Len(t) : u[i].packet = t[i].packet /\ (u[i].last <=> t[i].last)
    PROVE  Chain(s \o u, a, m)
<1>1. /\ s \o t \in Seq(Unit) /\ Len(s \o t) = Len(s) + Len(t)
      /\ \A i \in 1 .. Len(s) + Len(t) :
            (s \o t)[i] = IF i <= Len(s) THEN s[i] ELSE t[i - Len(s)]
  BY ConcatProperties
<1>2. /\ s \o u \in Seq(Unit) /\ Len(s \o u) = Len(s) + Len(u)
      /\ \A i \in 1 .. Len(s) + Len(u) :
            (s \o u)[i] = IF i <= Len(s) THEN s[i] ELSE u[i - Len(s)]
  BY ConcatProperties
<1>3. Len(s) \in Nat /\ Len(t) \in Nat
  OBVIOUS
<1>4. ASSUME NEW i \in 1 .. Len(s) + Len(t)
      PROVE  /\ (s \o u)[i].packet = (s \o t)[i].packet
             /\ (s \o u)[i].last <=> (s \o t)[i].last
  <2>1. CASE i <= Len(s)
    BY <1>1, <1>2, <2>1
  <2>2. CASE ~(i <= Len(s))
    <3>1. i - Len(s) \in 1 .. Len(t)
      BY <1>3, <2>2
    <3>2. (s \o u)[i] = u[i - Len(s)] /\ (s \o t)[i] = t[i - Len(s)]
      BY <1>1, <1>2, <2>2
    <3> QED
      BY <3>1, <3>2
  <2> QED
    BY <2>1, <2>2
<1> QED
  BY <1>1, <1>2, <1>4, ChainOfSame

\* What NetConn_Send makes of out: the same units, each xored with its position.
Encrypted(c) ==
    [i \in 1 .. Len(c.out) |->
        LET k == c.encrypted + i IN [c.out[i] EXCEPT !.keys = (@ \ {k}) \cup ({k} \ @)]]

LEMMA EncryptedIs ==
    ASSUME NEW c \in Connections
    PROVE  /\ Encrypted(c) \in Seq(Unit) /\ Len(Encrypted(c)) = Len(c.out)
           /\ \A i \in 1 .. Len(c.out) :
                 /\ Encrypted(c)[i].packet = c.out[i].packet
                 /\ Encrypted(c)[i].last <=> c.out[i].last
                 /\ c.out[i].keys = {} => Encrypted(c)[i].keys = {c.encrypted + i}
<1> DEFINE keys(i) == (c.out[i].keys \ {c.encrypted + i}) \cup ({c.encrypted + i} \ c.out[i].keys)
           unit(i) == [c.out[i] EXCEPT !.keys = keys(i)]
<1>1. c.out \in Seq(Unit) /\ c.encrypted \in Nat /\ Len(c.out) \in Nat
  BY DEF Connections
<1>2. ASSUME NEW i \in 1 .. Len(c.out)
      PROVE  /\ unit(i) \in Unit
             /\ unit(i).packet = c.out[i].packet /\ unit(i).last = c.out[i].last
             /\ unit(i).keys = keys(i)
             /\ c.out[i].keys = {} => keys(i) = {c.encrypted + i}
  <2>1. c.out[i] \in Unit /\ c.encrypted + i \in Nat
    BY <1>1
  <2>2. keys(i) \in SUBSET Nat
    BY <2>1 DEF Unit
  <2>3. c.out[i].keys = {} => keys(i) = {c.encrypted + i}
    OBVIOUS
  <2> HIDE DEF keys
  <2> QED
    BY <2>1, <2>2, <2>3 DEF Unit
<1> DEFINE f == [i \in 1 .. Len(c.out) |-> unit(i)]
<1>3. Encrypted(c) = f
  BY DEF Encrypted
<1> HIDE DEF unit, keys
<1>4. f \in Seq(Unit) /\ Len(f) = Len(c.out)
  BY <1>1, <1>2, IsASeq
<1>5. \A i \in 1 .. Len(c.out) : f[i] = unit(i)
  OBVIOUS
<1> HIDE DEF f
<1> QED
  BY <1>2, <1>3, <1>4, <1>5

\* What is flushed is sent, all of it or, with PartialSend, its first n units.
Sent(c, n) == Taken([c EXCEPT !.encrypted = @ + Len(c.out)], Encrypted(c), n)
NotSent(c) ==
    NetConn_HardShutdown([[c EXCEPT !.encrypted = @ + Len(c.out)] EXCEPT !.out = Encrypted(c)])

LEMMA NetConn_SendIs ==
    ASSUME NEW c, ConnOK(c), NEW d \in NetConn_Send(c)
    PROVE  \/ ~c.secured /\ d = [c EXCEPT !.fault = "NetConn_Send"]
           \/ c.secured /\ c.out = <<>> /\ d = c
           \/ c.secured /\ c.out # <<>> /\ d = NotSent(c)
           \/ /\ c.secured /\ c.out # <<>> /\ c.fd # "stale"
              /\ \E n \in 1 .. Len(c.out) :
                    (PartialSend \/ n = Len(c.out)) /\ d = Sent(c, n)
<1>1. CASE ~c.secured
  BY <1>1 DEF NetConn_Send
<1>2. CASE c.secured /\ c.out = <<>>
  BY <1>2 DEF NetConn_Send
<1>3. CASE c.secured /\ c.out # <<>>
  <2>1. d \in {NotSent(c)} \cup
              {Sent(c, n) : n \in IF c.fd = "stale" THEN {}
                                  ELSE IF PartialSend THEN 1 .. Len(c.out) ELSE {Len(c.out)}}
    BY <1>3 DEF NetConn_Send, NotSent, Sent, Encrypted
  <2>2. CASE d = NotSent(c)
    BY <1>3, <2>2
  <2>3. ASSUME NEW n \in IF c.fd = "stale" THEN {}
                         ELSE IF PartialSend THEN 1 .. Len(c.out) ELSE {Len(c.out)},
               d = Sent(c, n)
        PROVE  /\ c.fd # "stale" /\ n \in 1 .. Len(c.out)
               /\ (PartialSend \/ n = Len(c.out)) /\ d = Sent(c, n)
    <3>1. c.out \in Seq(Unit)
      BY DEF ConnOK, Connections
    <3>2. Len(c.out) \in 1 .. Len(c.out)
      BY <1>3, <3>1
    <3>3. CASE c.fd = "stale"
      BY <2>3, <3>3
    <3>4. CASE c.fd # "stale" /\ PartialSend
      BY <2>3, <3>4
    <3>5. CASE c.fd # "stale" /\ ~PartialSend
      BY <2>3, <3>2, <3>5
    <3> QED
      BY <3>3, <3>4, <3>5
  <2> QED
    BY <1>3, <2>1, <2>2, <2>3
<1> QED
  BY <1>1, <1>2, <1>3

LEMMA SentIs ==
    ASSUME NEW c, ConnOK(c), NEW n \in 1 .. Len(c.out)
    PROVE  LET d == Sent(c, n) IN
           /\ d \in Connections
           /\ d.fd = c.fd /\ d.shut = c.shut /\ d.secured = c.secured
           /\ d.buffers = c.buffers /\ d.in = c.in /\ d.accepted = c.accepted
           /\ d.encrypted = c.encrypted + Len(c.out)
           /\ d.wire = c.wire \o SubSeq(Encrypted(c), 1, n)
           /\ d.out = SubSeq(Encrypted(c), n + 1, Len(c.out))
           /\ Room(d, d.out) >= 0 /\ Room(d, d.in) >= 0
<1> DEFINE units == Encrypted(c)
           size == Len(c.out)
           sent == SubSeq(units, 1, n)
           rest == SubSeq(units, n + 1, size)
           count == c.encrypted + size
           wire == c.wire \o sent
           d == [[[c EXCEPT !.encrypted = count] EXCEPT !.wire = wire] EXCEPT !.out = rest]
<1>1. c \in Connections /\ c.out \in Seq(Unit) /\ c.encrypted \in Nat /\ c.wire \in Seq(Unit)
      /\ size \in Nat /\ n \in 1 .. size
  BY DEF ConnOK, Connections
<1>2. units \in Seq(Unit) /\ Len(units) = size
  BY <1>1, EncryptedIs
<1> HIDE DEF units, size
<1>3. sent \in Seq(Unit)
  BY <1>1, <1>2
<1>4. rest \in Seq(Unit) /\ Len(rest) = size - n
  BY <1>1, <1>2
<1>5. count \in Nat
  BY <1>1
<1>6. wire \in Seq(Unit)
  BY <1>1, <1>3
<1> HIDE DEF sent, rest, count, wire
<1>7. /\ d \in Connections
      /\ d.fd = c.fd /\ d.shut = c.shut /\ d.secured = c.secured
      /\ d.buffers = c.buffers /\ d.in = c.in /\ d.accepted = c.accepted
      /\ d.encrypted = count /\ d.wire = wire /\ d.out = rest
  BY <1>1, <1>4, <1>5, <1>6 DEF Connections
<1>8. Sent(c, n) = d
  BY <1>1, <1>2 DEF Sent, Taken, count, wire, sent, rest, units, size
<1> HIDE DEF d
<1>9. Room(d, d.out) >= 0 /\ Room(d, d.in) >= 0
  <2>1. Room(c, c.out) >= 0 /\ Room(c, c.in) >= 0
    BY DEF ConnOK
  <2>2. Len(d.out) <= Len(c.out) /\ Len(d.out) \in Int /\ Len(c.out) \in Int
    BY <1>1, <1>4, <1>7 DEF size
  <2> QED
    BY <1>7, <2>1, <2>2, NetConnAssumption DEF Room
<1> QED
  BY <1>7, <1>8, <1>9 DEF count, wire, sent, rest, units, size

LEMMA NotSentIs ==
    ASSUME NEW c, ConnOK(c), c.secured
    PROVE  LET d == NotSent(c) IN
           /\ ConnOK(d) /\ d.shut /\ d.fd = "stale" /\ d.secured
           /\ d.buffers = c.buffers /\ d.in = c.in /\ d.accepted = c.accepted
           /\ d.wire = c.wire /\ d.out = Encrypted(c)
<1> DEFINE units == Encrypted(c)
           size == Len(c.out)
           count == c.encrypted + size
           e == [[c EXCEPT !.encrypted = count] EXCEPT !.out = units]
<1>1. c \in Connections /\ c.out \in Seq(Unit) /\ c.encrypted \in Nat /\ size \in Nat
  BY DEF ConnOK, Connections
<1>2. units \in Seq(Unit) /\ Len(units) = size
  BY <1>1, EncryptedIs
<1>3. count \in Nat
  BY <1>1
<1> HIDE DEF units, count
<1>4. /\ e \in Connections
      /\ e.secured = c.secured /\ e.buffers = c.buffers /\ e.in = c.in
      /\ e.accepted = c.accepted /\ e.wire = c.wire /\ e.out = units
  BY <1>1, <1>2, <1>3 DEF Connections
<1>5. NotSent(c) = NetConn_HardShutdown(e)
  BY <1>1 DEF NotSent, count, units
<1> HIDE DEF e
<1>6. Room(e, e.out) >= 0 /\ Room(e, e.in) >= 0
  BY <1>1, <1>2, <1>4 DEF ConnOK, Room
<1> QED
  BY <1>4, <1>5, <1>6, HardShut DEF units

\* NetConn_Send breaks no flag and loses nothing; when send() takes all it is given, the
\* key stream stays in step with the units sent.
LEMMA NetConn_SendKeeps ==
    ASSUME NEW c, ConnOK(c), NEW d \in NetConn_Send(c)
    PROVE  /\ Kept(c, d)
           /\ WireInv(c) /\ ~PartialSend => WireInv(d)
<1>0. /\ c \in Connections /\ c.out \in Seq(Unit) /\ c.wire \in Seq(Unit) /\ c.encrypted \in Nat
      /\ c.fd \in {"closed", "open", "stale"}
  BY DEF ConnOK, Connections
<1>u. PICK u \in Seq(Unit) :
        /\ u = Encrypted(c) /\ Len(u) = Len(c.out)
        /\ \A i \in 1 .. Len(c.out) :
              /\ u[i].packet = c.out[i].packet
              /\ u[i].last <=> c.out[i].last
              /\ c.out[i].keys = {} => u[i].keys = {c.encrypted + i}
  <2>1. /\ Encrypted(c) \in Seq(Unit) /\ Len(Encrypted(c)) = Len(c.out)
        /\ \A i \in 1 .. Len(c.out) :
              /\ Encrypted(c)[i].packet = c.out[i].packet
              /\ Encrypted(c)[i].last <=> c.out[i].last
              /\ c.out[i].keys = {} => Encrypted(c)[i].keys = {c.encrypted + i}
    BY <1>0, EncryptedIs
  <2> QED
    BY <2>1, Zenon
<1>1. CASE d = [c EXCEPT !.fault = "NetConn_Send"]
  BY <1>1, Faulty
<1>2. CASE d = c
  BY <1>2 DEF Kept
<1>3. CASE c.secured /\ c.out # <<>> /\ d = NotSent(c)
  <2>1. /\ ConnOK(d) /\ d.shut /\ d.fd = "stale" /\ d.secured
        /\ d.buffers = c.buffers /\ d.in = c.in /\ d.accepted = c.accepted
        /\ d.wire = c.wire /\ d.out = u
    BY <1>u, <1>3, NotSentIs
  <2>2. Kept(c, d)
    BY <1>3, <2>1 DEF Kept
  <2>3. ASSUME WireInv(c) PROVE WireInv(d)
    <3>1. c.buffers => Chain(c.wire \o u, 1, c.accepted + 1)
      BY <1>0, <1>u, <2>3, ChainOfSameEnd DEF WireInv
    <3>2. c.buffers
      BY <1>3, <2>3 DEF WireInv
    <3> QED
      BY <2>1, <2>3, <3>1, <3>2 DEF WireInv
  <2> QED
    BY <2>2, <2>3
<1>4. ASSUME c.secured, c.out # <<>>, c.fd # "stale", NEW n \in 1 .. Len(c.out),
             PartialSend \/ n = Len(c.out), d = Sent(c, n)
      PROVE  /\ Kept(c, d)
             /\ WireInv(c) /\ ~PartialSend => WireInv(d)
  <2>1. /\ d \in Connections
        /\ d.fd = c.fd /\ d.shut = c.shut /\ d.secured = c.secured
        /\ d.buffers = c.buffers /\ d.in = c.in /\ d.accepted = c.accepted
        /\ d.encrypted = c.encrypted + Len(c.out)
        /\ d.wire = c.wire \o SubSeq(u, 1, n)
        /\ d.out = SubSeq(u, n + 1, Len(u))
        /\ Room(d, d.out) >= 0 /\ Room(d, d.in) >= 0
    BY <1>u, <1>4, SentIs
  <2>2. Kept(c, d)
    BY <2>1 DEF Kept, ConnOK
  <2>3. ASSUME WireInv(c), ~PartialSend PROVE WireInv(d)
    <3>1. n = Len(u)
      BY <1>u, <1>4, <2>3
    <3>2. d.wire = c.wire \o u /\ d.out = <<>>
      <4>1. SubSeq(u, 1, Len(u)) = u
        BY SubSeqFull
      <4>2. SubSeq(u, Len(u) + 1, Len(u)) = <<>>
        BY SubSeqEmpty
      <4> QED
        BY <2>1, <3>1, <4>1, <4>2
    <3>3. c.buffers /\ c.fd = "open" /\ c.encrypted = Len(c.wire)
      <4>1. c.fd = "open"
        BY <1>0, <1>4 DEF ConnOK
      <4>2. c.buffers
        BY <1>4, <2>3 DEF WireInv
      <4> QED
        BY <1>4, <2>3, <4>1, <4>2 DEF WireInv
    <3>4. /\ c.wire \o u \in Seq(Unit) /\ Len(c.wire \o u) = Len(c.wire) + Len(u)
          /\ \A i \in 1 .. Len(c.wire) + Len(u) :
                (c.wire \o u)[i] = IF i <= Len(c.wire) THEN c.wire[i] ELSE u[i - Len(c.wire)]
      BY <1>0, ConcatProperties
    <3>5. d.wire \o d.out = c.wire \o u
      BY <3>2, <3>4, ConcatEmptySeq
    <3>6. Chain(d.wire \o d.out, 1, d.accepted + 1)
      <4>1. Chain(c.wire \o c.out, 1, c.accepted + 1)
        BY <2>3, <3>3 DEF WireInv
      <4>2. Chain(c.wire \o u, 1, c.accepted + 1)
        BY <1>0, <1>u, <4>1, ChainOfSameEnd
      <4> QED
        BY <2>1, <3>5, <4>2
    <3>7. ASSUME NEW i \in 1 .. Len(d.wire) PROVE d.wire[i].keys = {i}
      <4>1. i \in 1 .. Len(c.wire) + Len(u) /\ Len(c.wire) \in Nat /\ Len(u) \in Nat
        BY <1>0, <3>2, <3>4
      <4>2. CASE i <= Len(c.wire)
        BY <2>3, <3>2, <3>4, <4>1, <4>2 DEF WireInv
      <4>3. CASE ~(i <= Len(c.wire))
        <5>1. i - Len(c.wire) \in 1 .. Len(u) /\ Len(c.wire) + (i - Len(c.wire)) = i
          BY <4>1, <4>3
        <5>2. d.wire[i] = u[i - Len(c.wire)]
          BY <3>2, <3>4, <4>1, <4>3
        <5>3. c.out[i - Len(c.wire)].keys = {}
          BY <1>u, <1>4, <2>3, <5>1 DEF WireInv
        <5>4. u[i - Len(c.wire)].keys = {c.encrypted + (i - Len(c.wire))}
          BY <1>u, <5>1, <5>3
        <5> QED
          BY <3>3, <5>1, <5>2, <5>4
      <4> QED
        BY <4>2, <4>3
    <3>8. d.encrypted = Len(d.wire)
      BY <1>u, <2>1, <3>2, <3>3, <3>4
    <3>9. \A i \in 1 .. Len(d.out) : d.out[i].keys = {}
      BY <3>2
    <3> QED
      BY <1>4, <2>1, <3>3, <3>6, <3>7, <3>8, <3>9 DEF WireInv
  <2> QED
    BY <2>2, <2>3
<1> QED
  BY <1>1, <1>2, <1>3, <1>4, NetConn_SendIs

LEMMA PackedKeeps ==
    ASSUME NEW c, ConnOK(c), NEW size \in Nat \ {0}
    PROVE  /\ Kept(c, Packed(c, size))
           /\ WireInv(c) => WireInv(Packed(c, size))
<1>0. /\ c \in Connections /\ c.out \in Seq(Unit) /\ c.wire \in Seq(Unit)
      /\ c.accepted \in Nat /\ size \in Nat \ {0}
  BY NetConnAssumption DEF ConnOK, Connections
<1>1. CASE c.fault # "no"
  BY <1>1 DEF Packed, Kept
<1>2. CASE c.fault = "no" /\ Room(c, c.out) < 1
  BY <1>2, Faulty DEF Packed
<1>3. CASE c.fault = "no" /\ ~(Room(c, c.out) < 1) /\ Room(c, c.out) < size
  <2> DEFINE d == [c EXCEPT !.dropped = TRUE]
  <2>1. /\ d \in Connections
        /\ d.fd = c.fd /\ d.shut = c.shut /\ d.secured = c.secured /\ d.buffers = c.buffers
        /\ d.out = c.out /\ d.in = c.in /\ d.encrypted = c.encrypted
        /\ d.accepted = c.accepted /\ d.wire = c.wire
    BY <1>0 DEF Connections
  <2>2. Packed(c, size) = d
    BY <1>3 DEF Packed
  <2> HIDE DEF d
  <2>3. Kept(c, d)
    BY <2>1 DEF Kept, ConnOK, Room
  <2>4. WireInv(c) => WireInv(d)
    BY <2>1, Zenon DEF WireInv
  <2> QED
    BY <2>2, <2>3, <2>4
<1>4. CASE c.fault = "no" /\ ~(Room(c, c.out) < 1) /\ ~(Room(c, c.out) < size)
  <2> DEFINE count == c.accepted + 1
  <2>0. count \in Nat
    BY <1>0
  <2>u. PICK u \in Seq(Unit) : u = Units(count, size) /\ Len(u) = size
                               /\ \A i \in 1 .. size : u[i].keys = {}
    <3> HIDE DEF count
    <3> DEFINE u == Units(count, size)
    <3>1. /\ u \in Seq(Unit) /\ Len(u) = size
          /\ \A i \in 1 .. size : u[i].keys = {}
      BY <1>0, <2>0, UnitsAre
    <3>2. u = Units(count, size)
      OBVIOUS
    <3> HIDE DEF u
    <3> QED
      BY <3>1, <3>2
  <2> DEFINE out == c.out \o u
             d == [[c EXCEPT !.out = out] EXCEPT !.accepted = count]
  <2>1. Packed(c, size) = d
    BY <1>0, <1>4, <2>u DEF Packed
  <2>2. /\ out \in Seq(Unit) /\ Len(out) = Len(c.out) + size
        /\ \A i \in 1 .. Len(c.out) + size :
              out[i] = IF i <= Len(c.out) THEN c.out[i] ELSE u[i - Len(c.out)]
    <3>1. /\ c.out \o u \in Seq(Unit) /\ Len(c.out \o u) = Len(c.out) + Len(u)
          /\ \A i \in 1 .. Len(c.out) + Len(u) :
                (c.out \o u)[i] = IF i <= Len(c.out) THEN c.out[i] ELSE u[i - Len(c.out)]
      BY <1>0, ConcatProperties
    <3> QED
      BY <2>u, <3>1
  <2> HIDE DEF out, count
  <2>3. /\ d \in Connections
        /\ d.fd = c.fd /\ d.shut = c.shut /\ d.secured = c.secured /\ d.buffers = c.buffers
        /\ d.out = out /\ d.in = c.in /\ d.encrypted = c.encrypted
        /\ d.accepted = count /\ d.wire = c.wire
    BY <1>0, <2>0, <2>2 DEF Connections
  <2> HIDE DEF d
  <2>4. Kept(c, d)
    <3>1. Room(d, d.out) = Room(c, c.out) - size
      <4>1. /\ Len(d.out) = Len(c.out) + size /\ d.buffers = c.buffers
            /\ Len(c.out) \in Int /\ size \in Int /\ Capacity \in Int
        BY <1>0, <2>2, <2>3, NetConnAssumption
      <4> QED
        BY <4>1 DEF Room
    <3>2. Room(c, c.out) \in Int
      BY <1>0, NetConnAssumption DEF Room
    <3>3. Room(d, d.out) >= 0
      BY <1>0, <1>4, <3>1, <3>2
    <3>4. Room(d, d.in) = Room(c, c.in)
      BY <2>3 DEF Room
    <3> QED
      BY <2>3, <3>3, <3>4 DEF Kept, ConnOK
  <2>5. ASSUME WireInv(c) PROVE WireInv(d)
    <3>1. c.buffers
      BY <1>0, <1>4, <2>5 DEF WireInv, Room
    <3>2. c.wire \o c.out \in Seq(Unit) /\ Chain(c.wire \o c.out, 1, count)
      BY <1>0, <2>5, <3>1, ConcatProperties DEF WireInv, count
    <3>3. Chain((c.wire \o c.out) \o u, 1, count + 1)
      <4>1. Chain((c.wire \o c.out) \o Units(count, size), 1, count + 1)
        BY <1>0, <2>0, <3>2, ChainAppend
      <4> QED
        BY <2>u, <4>1
    <3>4. (c.wire \o c.out) \o u = c.wire \o out
      BY <1>0, UnitsAssociative DEF out
    <3>5. c.fd # "stale" => \A i \in 1 .. Len(out) : out[i].keys = {}
      <4> SUFFICES ASSUME c.fd # "stale", NEW i \in 1 .. Len(out) PROVE out[i].keys = {}
        OBVIOUS
      <4>1. i \in 1 .. Len(c.out) + size /\ Len(c.out) \in Nat
        BY <1>0, <2>2
      <4>2. CASE i <= Len(c.out)
        BY <2>2, <2>5, <4>1, <4>2 DEF WireInv
      <4>3. CASE ~(i <= Len(c.out))
        <5>1. i - Len(c.out) \in 1 .. size
          BY <1>0, <4>1, <4>3
        <5> QED
          BY <2>u, <2>2, <4>1, <4>3, <5>1
      <4> QED
        BY <4>2, <4>3
    <3> QED
      BY <2>3, <2>5, <3>1, <3>3, <3>4, <3>5 DEF WireInv
  <2> QED
    BY <2>1, <2>4, <2>5
<1> QED
  BY <1>1, <1>2, <1>3, <1>4

\* SendPacket: one more packet in out, or a flush before it.
LEMMA SendPacketKeeps ==
    ASSUME NEW c, ConnOK(c), NEW size \in Nat \ {0}, NEW d \in SendPacket(c, size)
    PROVE  /\ Kept(c, d)
           /\ WireInv(c) /\ ~PartialSend => WireInv(d)
<1>1. PICK e \in IF Room(c, c.out) < 1 THEN NetConn_Send(c) ELSE {c} : d = Packed(e, size)
  BY DEF SendPacket
<1>2. Kept(c, e) /\ (WireInv(c) /\ ~PartialSend => WireInv(e))
  <2>1. CASE e = c
    BY <2>1 DEF Kept
  <2>2. CASE e \in NetConn_Send(c)
    BY <2>2, NetConn_SendKeeps
  <2> QED
    BY <1>1, <2>1, <2>2
<1>3. ConnOK(e)
  BY <1>2 DEF Kept
<1>4. Kept(e, d) /\ (WireInv(e) => WireInv(d))
  BY <1>1, <1>3, PackedKeeps
<1> QED
  BY <1>2, <1>4, KeptAgain

\* NetConn_Shutdown: a flush, then the buffers go and the handle is stale.
LEMMA NetConn_ShutdownKeeps ==
    ASSUME NEW c, ConnOK(c), NEW d \in NetConn_Shutdown(c)
    PROVE  /\ Kept(c, d)
           /\ WireInv(c) /\ ~PartialSend => WireInv(d)
<1>1. PICK e \in NetConn_Send(c) :
        d = IF e.fault # "no" THEN e
            ELSE NetConn_HardShutdown([e EXCEPT !.out = <<>>, !.in = <<>>, !.buffers = FALSE])
  BY DEF NetConn_Shutdown
<1>2. Kept(c, e) /\ (WireInv(c) /\ ~PartialSend => WireInv(e))
  BY NetConn_SendKeeps
<1>3. CASE e.fault # "no"
  BY <1>1, <1>2, <1>3
<1>4. CASE e.fault = "no"
  <2> DEFINE f == [e EXCEPT !.out = <<>>, !.in = <<>>, !.buffers = FALSE]
  <2>1. c.secured
    <3>1. SUFFICES ASSUME ~c.secured PROVE FALSE
      OBVIOUS
    <3>2. e = [c EXCEPT !.fault = "NetConn_Send"]
      BY <3>1 DEF NetConn_Send
    <3>3. e.fault = "NetConn_Send"
      BY <3>2 DEF ConnOK, Connections
    <3> QED
      BY <1>4, <3>3
  <2>2. /\ e \in Connections /\ e.secured /\ e.wire \in Seq(Unit) /\ e.out \in Seq(Unit)
    BY <1>2, <2>1 DEF Kept, ConnOK, Connections
  <2>3. /\ f \in Connections /\ f.secured /\ f.wire = e.wire
        /\ f.out = <<>> /\ f.in = <<>> /\ f.buffers = FALSE
    <3> DEFINE none == <<>>
    <3>1. none \in Seq(Unit)
      OBVIOUS
    <3>2. f = [[[e EXCEPT !.out = none] EXCEPT !.in = none] EXCEPT !.buffers = FALSE]
      OBVIOUS
    <3> HIDE DEF none, f
    <3>3. /\ f \in Connections /\ f.secured = e.secured /\ f.wire = e.wire
          /\ f.out = none /\ f.in = none /\ f.buffers = FALSE
      BY <2>2, <3>1, <3>2 DEF Connections
    <3> QED
      BY <2>2, <3>3 DEF none
  <2>4. d = NetConn_HardShutdown(f)
    BY <1>1, <1>4
  <2> HIDE DEF f
  <2>5. Room(f, f.out) >= 0 /\ Room(f, f.in) >= 0
    BY <2>3 DEF Room
  <2>6. /\ ConnOK(d) /\ d.shut /\ d.fd = "stale" /\ d.secured
        /\ ~d.buffers /\ d.out = <<>> /\ d.in = <<>> /\ d.wire = e.wire
    BY <2>3, <2>4, <2>5, HardShut
  <2>7. Kept(c, d)
    BY <2>1, <2>6 DEF Kept, ConnOK, Connections
  <2>8. ASSUME WireInv(e) PROVE WireInv(d)
    <3>1. InOrder(e.wire, 1)
      BY <2>2, <2>8, InOrderPrefix DEF WireInv, Chain
    <3> QED
      BY <2>2, <2>6, <2>8, <3>1 DEF WireInv
  <2> QED
    BY <1>2, <2>7, <2>8
<1> QED
  BY <1>3, <1>4

\* GameSrv_Disconnect sends a packet of one unit; such packets need no larger buffer.
LEMMA GameSrv_DisconnectKeeps ==
    ASSUME NEW c, ConnOK(c), NEW d \in GameSrv_Disconnect(c)
    PROVE  /\ Kept(c, d)
           /\ WireInv(c) /\ ~PartialSend => WireInv(d)
<1>1. PICK e \in SendPacket(c, 1) : d \in IF e.fault # "no" THEN {e} ELSE NetConn_Shutdown(e)
  BY DEF GameSrv_Disconnect
<1>2. Kept(c, e) /\ (WireInv(c) /\ ~PartialSend => WireInv(e))
  BY SendPacketKeeps
<1>3. CASE d = e
  BY <1>2, <1>3
<1>4. CASE d \in NetConn_Shutdown(e)
  BY <1>2, <1>4, NetConn_ShutdownKeeps, KeptAgain DEF Kept
<1> QED
  BY <1>1, <1>3, <1>4

LEMMA InIs ==
    ASSUME NEW c, ConnOK(c), NEW s \in Seq(Unit), Room(c, s) >= 0
    PROVE  LET d == [c EXCEPT !.in = s] IN
           /\ ConnOK(d) /\ d.in = s
           /\ d.fd = c.fd /\ d.shut = c.shut /\ d.secured = c.secured /\ d.buffers = c.buffers
           /\ WireInv(c) => WireInv(d)
<1> DEFINE d == [c EXCEPT !.in = s]
<1>1. /\ d \in Connections
      /\ d.fd = c.fd /\ d.shut = c.shut /\ d.secured = c.secured /\ d.buffers = c.buffers
      /\ d.out = c.out /\ d.in = s /\ d.encrypted = c.encrypted
      /\ d.accepted = c.accepted /\ d.wire = c.wire
  BY DEF ConnOK, Connections
<1> HIDE DEF d
<1>2. ConnOK(d)
  BY <1>1 DEF ConnOK, Room
<1>3. WireInv(c) => WireInv(d)
  BY <1>1, Zenon DEF WireInv
<1> QED
  BY <1>1, <1>2, <1>3 DEF d

\* A connection without packets.
LEMMA NoPackets ==
    ASSUME NEW d, d.out = <<>>, d.wire = <<>>, d.accepted = 0, d.fd # "open"
    PROVE  WireInv(d) /\ Chain(<<>>, 1, 1)
<1> DEFINE none == <<>>
<1>1. none \in Seq(Unit) /\ Len(none) = 0 /\ none \o none = none
  OBVIOUS
<1>2. InOrder(none, 1) /\ Chain(none, 1, 1)
  BY <1>1 DEF InOrder, Chain
<1>3. d.out = none /\ d.wire = none /\ d.accepted + 1 = 1
  OBVIOUS
<1> HIDE DEF none
<1>4. WireInv(d)
  BY <1>1, <1>2, <1>3 DEF WireInv
<1> QED
  BY <1>2, <1>4 DEF none

LEMMA ResetIs ==
    ASSUME NEW c, ConnOK(c), ~c.secured, ~c.shut
    PROVE  LET d == NetConn_Reset(c) IN
           /\ ConnOK(d) /\ d.fd = "closed" /\ ~d.secured /\ ~d.shut /\ d.in = <<>>
           /\ WireInv(d)
<1> DEFINE d == NetConn_Reset(c)
           none == <<>>
<1>1. none \in Seq(Unit) /\ Len(none) = 0
  OBVIOUS
<1>2. d = [c EXCEPT !.fd = "closed", !.out = none, !.in = none, !.buffers = FALSE,
                    !.accepted = 0, !.wire = none]
  BY DEF NetConn_Reset
<1> HIDE DEF d, none
<1>3. /\ d \in Connections
      /\ d.fd = "closed" /\ ~d.secured /\ ~d.shut /\ d.in = none /\ d.buffers = FALSE
      /\ d.out = none /\ d.wire = none /\ d.accepted = 0
  BY <1>1, <1>2 DEF ConnOK, Connections
<1>4. ConnOK(d)
  BY <1>1, <1>3 DEF ConnOK, Room
<1>5. WireInv(d)
  BY <1>3, NoPackets DEF none
<1> QED
  BY <1>3, <1>4, <1>5 DEF d, none

LEMMA ClosedIs ==
    ASSUME NEW c, ConnOK(c)
    PROVE  LET d == Closed(c) IN
           /\ ConnOK(d) /\ d.fd = "closed" /\ ~d.secured /\ ~d.shut /\ d.in = <<>>
           /\ WireInv(d)
<1> DEFINE d == Closed(c)
           none == <<>>
<1>1. none \in Seq(Unit) /\ Len(none) = 0
  OBVIOUS
<1>2. d = [c EXCEPT !.fd = "closed", !.shut = FALSE, !.secured = FALSE, !.out = none,
                    !.in = none, !.accepted = 0, !.wire = none]
  BY DEF Closed
<1> HIDE DEF d, none
<1>3. /\ d \in Connections
      /\ d.fd = "closed" /\ ~d.secured /\ ~d.shut /\ d.in = none
      /\ d.out = none /\ d.wire = none /\ d.accepted = 0
  BY <1>1, <1>2 DEF ConnOK, Connections
<1>4. ConnOK(d)
  BY <1>1, <1>3, NetConnAssumption DEF ConnOK, Room
<1>5. WireInv(d)
  BY <1>3, NoPackets DEF none
<1> QED
  BY <1>3, <1>4, <1>5 DEF d, none

\* The socket of a connect, and the end of its key exchange.
LEMMA ConnectIs ==
    ASSUME NEW c, ConnOK(c), c.fd = "closed"
    PROVE  LET d == [c EXCEPT !.fd = "open", !.secured = FALSE, !.formats = TRUE] IN
           /\ ConnOK(d) /\ d.fd = "open" /\ ~d.secured /\ ~d.shut /\ d.in = c.in
           /\ WireInv(c) => WireInv(d)
<1> DEFINE d == [c EXCEPT !.fd = "open", !.secured = FALSE, !.formats = TRUE]
<1>1. /\ d \in Connections
      /\ d.fd = "open" /\ d.shut = c.shut /\ d.secured = FALSE /\ d.buffers = c.buffers
      /\ d.out = c.out /\ d.in = c.in /\ d.encrypted = c.encrypted
      /\ d.accepted = c.accepted /\ d.wire = c.wire
  BY DEF ConnOK, Connections
<1> HIDE DEF d
<1>2. ~c.secured /\ ~c.shut /\ c.shut \in BOOLEAN /\ d.shut \in BOOLEAN
  BY <1>1 DEF ConnOK, Connections
<1>3. ConnOK(d)
  BY <1>1, <1>2 DEF ConnOK, Room
<1>4. WireInv(c) => WireInv(d)
  BY <1>1, <1>2 DEF WireInv
<1> QED
  BY <1>1, <1>2, <1>3, <1>4 DEF d

LEMMA ConnectedIs ==
    ASSUME NEW c, ConnOK(c), c.fd = "open", ~c.secured
    PROVE  LET d == [c EXCEPT !.secured = TRUE, !.encrypted = 0] IN
           /\ ConnOK(d) /\ d.fd = "open" /\ d.secured /\ ~d.shut /\ d.in = c.in
           /\ WireInv(c) => WireInv(d)
<1> DEFINE d == [c EXCEPT !.secured = TRUE, !.encrypted = 0]
<1>1. /\ d \in Connections
      /\ d.fd = c.fd /\ d.shut = c.shut /\ d.secured = TRUE /\ d.buffers = c.buffers
      /\ d.out = c.out /\ d.in = c.in /\ d.encrypted = 0
      /\ d.accepted = c.accepted /\ d.wire = c.wire
  BY DEF ConnOK, Connections
<1> HIDE DEF d
<1>2. ~c.shut
  BY DEF ConnOK
<1>3. ConnOK(d)
  BY <1>1, <1>2 DEF ConnOK, Room
<1>4. ASSUME WireInv(c) PROVE WireInv(d)
  <2>1. d.wire = <<>> /\ d.encrypted = Len(d.wire)
    BY <1>1, <1>4 DEF WireInv
  <2>2. d.fd # "stale" => \A i \in 1 .. Len(d.out) : d.out[i].keys = {}
    BY <1>1, <1>4 DEF WireInv
  <2> QED
    BY <1>1, <1>4, <2>1, <2>2 DEF WireInv
<1> QED
  BY <1>1, <1>2, <1>3, <1>4 DEF d

-----------------------------------------------------------------------------
(* Each action keeps the three invariants                                  *)

\* Another thread's SendPacket, a handler, the disconnect and the flush of an update.
LEMMA FlagsKept ==
    ASSUME FlagsInv, Kept(conn, conn'),
           pc' = pc \/ (pc = "idle" /\ pc' = "recv" /\ conn.fd # "closed")
    PROVE  FlagsInv'
  BY DEF FlagsInv, Kept, ConnOK

LEMMA HandlerKeeps ==
    ASSUME ConnOK(conn), Handler
    PROVE  /\ Kept(conn, conn')
           /\ WireInv(conn) /\ ~PartialSend => WireInv(conn')
<1>1. CASE UNCHANGED conn
  BY <1>1 DEF Kept
<1>2. ASSUME NEW size \in Sizes, conn' \in SendPacket(conn, size)
      PROVE  /\ Kept(conn, conn')
             /\ WireInv(conn) /\ ~PartialSend => WireInv(conn')
  <2>1. size \in Nat \ {0}
    BY NetConnAssumption
  <2> QED
    BY <1>2, <2>1, SendPacketKeeps
<1>3. CASE conn' \in GameSrv_Disconnect(conn)
  BY <1>3, GameSrv_DisconnectKeeps
<1> QED
  BY <1>1, <1>2, <1>3 DEF Handler

\* What DispatchEnd leaves in the buffer fits.
LEMMA DispatchEndKeeps ==
    ASSUME FlagsInv, StreamInv, DispatchEnd
    PROVE  /\ Kept(conn, conn') \/ (ConnOK(conn') /\ conn'.in = left)
           /\ conn'.fd = conn.fd /\ conn'.shut = conn.shut
           /\ conn'.secured = conn.secured /\ conn'.buffers = conn.buffers
           /\ conn'.in = left \/ (left # <<>> /\ ~conn.buffers /\ conn'.fault = "memmove")
           /\ WireInv(conn) => WireInv(conn')
<1>1. ConnOK(conn) /\ left \in Seq(Unit) /\ Len(left) <= Capacity
  BY DEF FlagsInv, StreamInv, DispatchEnd, Goto
<1>2. CASE left # <<>> /\ ~conn.buffers
  <2>1. conn' = [conn EXCEPT !.fault = "memmove"]
    BY <1>2 DEF DispatchEnd
  <2>2. /\ conn'.fd = conn.fd /\ conn'.shut = conn.shut
        /\ conn'.secured = conn.secured /\ conn'.buffers = conn.buffers
        /\ conn'.fault = "memmove"
    BY <1>1, <2>1 DEF ConnOK, Connections
  <2> QED
    BY <1>1, <1>2, <2>1, <2>2, Faulty
<1>3. CASE ~(left # <<>> /\ ~conn.buffers)
  <2>1. conn' = [conn EXCEPT !.in = left]
    BY <1>3 DEF DispatchEnd
  <2>2. Room(conn, left) >= 0
    <3>1. CASE left = <<>>
      BY <3>1, NetConnAssumption DEF Room
    <3>2. CASE left # <<>>
      BY <1>1, <1>3, <3>2, NetConnAssumption DEF Room
    <3> QED
      BY <3>1, <3>2
  <2> QED
    BY <1>1, <2>1, <2>2, InIs
<1> QED
  BY <1>2, <1>3

LEMMA ReceiveKeeps ==
    ASSUME FlagsInv, StreamInv, NEW n \in 1 .. Len(net), Receive(n)
    PROVE  /\ ConnOK(conn')
           /\ conn'.in \in Seq(Unit) /\ net' \in Seq(Unit)
           /\ conn.buffers /\ Len(conn'.in) <= Capacity
           /\ conn'.in \o net' = conn.in \o net
           /\ conn'.fd = conn.fd /\ conn'.shut = conn.shut
           /\ conn'.secured = conn.secured /\ conn'.buffers = conn.buffers
           /\ WireInv(conn) => WireInv(conn')
<1> DEFINE got == SubSeq(net, 1, n)
           rest == SubSeq(net, n + 1, Len(net))
           in == conn.in \o got
<1>1. /\ ConnOK(conn) /\ conn.in \in Seq(Unit) /\ net \in Seq(Unit)
      /\ Len(conn.in) \in Nat /\ Len(net) \in Nat /\ n \in Nat \ {0}
  BY DEF FlagsInv, StreamInv, ConnOK, Connections
<1>2. got \in Seq(Unit) /\ Len(got) = n
  BY <1>1
<1>3. rest \in Seq(Unit)
  BY <1>1
<1>4. got \o rest = net
  <2>1. 1 \in 1 .. Len(net) + 1 /\ n \in 1 - 1 .. Len(net) /\ Len(net) \in n .. Len(net)
    BY <1>1
  <2>2. got \o rest = SubSeq(net, 1, Len(net))
    BY <1>1, <2>1, ConcatAdjacentSubSeq
  <2> QED
    BY <1>1, <2>2, SubSeqFull
<1>5. conn' = [conn EXCEPT !.in = in] /\ net' = rest /\ n <= Room(conn, conn.in)
  BY DEF Receive
<1> HIDE DEF got, rest
<1>6. in \in Seq(Unit) /\ Len(in) = Len(conn.in) + n
  BY <1>1, <1>2, ConcatProperties
<1>7. in \o rest = conn.in \o net
  BY <1>1, <1>2, <1>3, <1>4, UnitsAssociative
<1> HIDE DEF in
<1>8. conn.buffers /\ Len(in) <= Capacity /\ Room(conn, in) >= 0
  BY <1>1, <1>5, <1>6, NetConnAssumption DEF Room
<1> QED
  BY <1>1, <1>3, <1>5, <1>6, <1>7, <1>8, InIs

LEMMA FlagsStep ==
    ASSUME FlagsInv, StreamInv, [Next]_vars
    PROVE  FlagsInv'
<1>0. ConnOK(conn) /\ conn \in Connections
  BY DEF FlagsInv, ConnOK
<1>1. CASE Connect
  BY <1>0, <1>1, ConnectIs DEF Connect, Goto, NetConn_IsShutdown, FlagsInv
<1>2. CASE Connected
  BY <1>0, <1>2, ConnectedIs DEF Connected, Goto, FlagsInv
<1>3. CASE ConnectFailed
  BY <1>0, <1>3, ResetIs DEF ConnectFailed, Goto, FlagsInv, ConnOK
<1>4. CASE NetConn_Update
  BY <1>0, <1>4, NetConn_SendKeeps, FlagsKept DEF NetConn_Update, Goto, NetConn_IsShutdown
<1>5. CASE NetConn_Recv
  BY <1>5, ReceiveKeeps DEF NetConn_Recv, Goto, FlagsInv
<1>6. CASE NetConn_RecvNothing
  BY <1>6 DEF NetConn_RecvNothing, Goto, FlagsInv
<1>7. CASE NetConn_RecvFails
  <2>1. conn.secured
    BY <1>7 DEF NetConn_RecvFails, Goto, FlagsInv
  <2>2. LET d == NetConn_HardShutdown(conn) IN ConnOK(d) /\ d.fd = "stale" /\ d.secured
    BY <1>0, <2>1, HardShut DEF ConnOK
  <2> QED
    BY <1>7, <2>2 DEF NetConn_RecvFails, Goto, FlagsInv
<1>8. CASE Dispatch
  BY <1>0, <1>8, HandlerKeeps, FlagsKept DEF Dispatch, Goto
<1>9. CASE DispatchEnd
  BY <1>9, DispatchEndKeeps DEF DispatchEnd, Goto, FlagsInv, Kept
<1>10. CASE UpdateEnd
  <2>1. CASE conn.shut
    BY <1>0, <1>10, <2>1, ClosedIs DEF UpdateEnd, Goto, FlagsInv
  <2>2. CASE ~conn.shut
    BY <1>10, <2>2 DEF UpdateEnd, Goto, FlagsInv
  <2> QED
    BY <2>1, <2>2
<1>11. CASE Disconnect
  BY <1>0, <1>11, GameSrv_DisconnectKeeps, FlagsKept DEF Disconnect
<1>12. CASE Send
  <2>1. PICK size \in Sizes : conn' \in SendPacket(conn, size)
    BY <1>12 DEF Send
  <2>2. size \in Nat \ {0}
    BY NetConnAssumption
  <2> QED
    BY <1>0, <1>12, <2>1, <2>2, SendPacketKeeps, FlagsKept DEF Send
<1>13. CASE ServerSends
  BY <1>13 DEF ServerSends, FlagsInv
<1>14. CASE UNCHANGED vars
  BY <1>14 DEF vars, FlagsInv
<1> QED
  BY <1>1, <1>2, <1>3, <1>4, <1>5, <1>6, <1>7, <1>8, <1>9, <1>10, <1>11, <1>12, <1>13,
     <1>14 DEF Next, MainThread

LEMMA WireStep ==
    ASSUME FlagsInv, StreamInv, WireInv(conn), ~PartialSend, [Next]_vars
    PROVE  WireInv(conn')
<1>0. ConnOK(conn) /\ conn \in Connections
  BY DEF FlagsInv, ConnOK
<1>1. CASE Connect
  BY <1>0, <1>1, ConnectIs DEF Connect, NetConn_IsShutdown
<1>2. CASE Connected
  BY <1>0, <1>2, ConnectedIs DEF Connected, Goto, FlagsInv
<1>3. CASE ConnectFailed
  BY <1>0, <1>3, ResetIs DEF ConnectFailed, Goto, FlagsInv, ConnOK
<1>4. CASE NetConn_Update
  BY <1>0, <1>4, NetConn_SendKeeps DEF NetConn_Update
<1>5. CASE NetConn_Recv
  BY <1>5, ReceiveKeeps DEF NetConn_Recv
<1>6. CASE NetConn_RecvFails
  <2>1. conn.secured
    BY <1>6 DEF NetConn_RecvFails, Goto, FlagsInv
  <2>2. /\ conn'.fd = "stale" /\ conn'.secured /\ conn'.buffers = conn.buffers
        /\ conn'.out = conn.out /\ conn'.wire = conn.wire /\ conn'.accepted = conn.accepted
    BY <1>0, <1>6, <2>1, HardShut DEF NetConn_RecvFails, ConnOK
  <2> QED
    BY <2>2 DEF WireInv
<1>7. CASE Dispatch
  BY <1>0, <1>7, HandlerKeeps DEF Dispatch
<1>8. CASE DispatchEnd
  BY <1>8, DispatchEndKeeps
<1>9. CASE UpdateEnd
  BY <1>0, <1>9, ClosedIs DEF UpdateEnd
<1>10. CASE Disconnect
  BY <1>0, <1>10, GameSrv_DisconnectKeeps DEF Disconnect
<1>11. CASE Send
  <2>1. PICK size \in Sizes : conn' \in SendPacket(conn, size)
    BY <1>11 DEF Send
  <2>2. size \in Nat \ {0}
    BY NetConnAssumption
  <2> QED
    BY <1>0, <2>1, <2>2, SendPacketKeeps
<1>12. CASE UNCHANGED conn
  BY <1>12
<1> QED
  BY <1>1, <1>2, <1>3, <1>4, <1>5, <1>6, <1>7, <1>8, <1>9, <1>10, <1>11, <1>12
     DEF Next, MainThread, NetConn_RecvNothing, ServerSends, vars

\* What leaves the streams and the main thread alone, or begins an update.
LEMMA StreamKept ==
    ASSUME FlagsInv, StreamInv, Kept(conn, conn'),
           UNCHANGED <<left, net, offered, handled>>,
           pc' = pc \/ (pc = "idle" /\ pc' = "recv")
    PROVE  StreamInv'
<1>1. ~conn'.shut => conn'.in = conn.in /\ conn'.buffers = conn.buffers
  BY DEF Kept
<1>2. ~conn'.secured => conn'.in = conn.in /\ ~conn.secured
  BY DEF Kept, ConnOK
<1>3. ~conn'.shut => Undispatched' = Undispatched /\ ~conn.shut
  BY <1>1 DEF Undispatched, Kept
<1> QED
  BY <1>1, <1>2, <1>3 DEF StreamInv, Kept

\* The handlers take the packets of a chain one by one.
LEMMA DispatchStep ==
    ASSUME FlagsInv, StreamInv, Dispatch
    PROVE  StreamInv'
<1> DEFINE a == Len(handled) + 1
<1>0. /\ ConnOK(conn) /\ pc = "dispatch" /\ pc' = "dispatch" /\ net' = net
      /\ offered' = offered /\ conn.secured
      /\ left \in Seq(Unit) /\ net \in Seq(Unit) /\ offered \in Nat
      /\ handled \in Seq([packet : Nat, shut : BOOLEAN])
      /\ InOrder(left, a) /\ Len(left) <= Capacity /\ a \in Nat \ {0}
      /\ conn.shut \in BOOLEAN
  BY DEF Dispatch, Goto, FlagsInv, StreamInv, ConnOK, Connections
<1>1. PICK n \in 1 .. Len(left) :
        /\ Unpacks(n)
        /\ handled' = Append(handled, [packet |-> left[1].packet, shut |-> conn.shut])
        /\ left' = SubSeq(left, n + 1, Len(left))
  BY DEF Dispatch
<1>2. left[n].last /\ \A i \in 1 .. n - 1 : ~left[i].last
  BY <1>1 DEF Unpacks
<1>3. /\ left[1].packet = a
      /\ left' \in Seq(Unit) /\ Len(left') = Len(left) - n /\ InOrder(left', a + 1)
  <2>1. /\ left[1].packet = a
        /\ SubSeq(left, n + 1, Len(left)) \in Seq(Unit)
        /\ Len(SubSeq(left, n + 1, Len(left))) = Len(left) - n
        /\ InOrder(SubSeq(left, n + 1, Len(left)), a + 1)
    BY <1>0, <1>2, FirstPacket
  <2> QED
    BY <1>1, <2>1
<1>4. /\ handled' \in Seq([packet : Nat, shut : BOOLEAN])
      /\ Len(handled') = a /\ Len(handled') \in Nat
      /\ \A i \in 1 .. Len(handled') : handled'[i].packet = i
  <2> DEFINE e == [packet |-> left[1].packet, shut |-> conn.shut]
  <2>1. e \in [packet : Nat, shut : BOOLEAN] /\ e.packet = a
    BY <1>0, <1>3
  <2>2. handled' = Append(handled, e)
    BY <1>1
  <2> HIDE DEF e
  <2>3. /\ handled' \in Seq([packet : Nat, shut : BOOLEAN]) /\ Len(handled') = a
        /\ handled'[a] = e /\ \A i \in 1 .. Len(handled) : handled'[i] = handled[i]
    BY <1>0, <2>1, <2>2
  <2>4. ASSUME NEW i \in 1 .. a PROVE handled'[i].packet = i
    <3>1. CASE i = a
      BY <2>1, <2>3, <3>1
    <3>2. CASE i # a
      <4>1. i \in 1 .. Len(handled)
        BY <1>0, <3>2
      <4> QED
        BY <2>3, <4>1 DEF StreamInv
    <3> QED
      BY <3>1, <3>2
  <2> QED
    BY <1>0, <2>3, <2>4
<1>5. Kept(conn, conn')
  BY <1>0, HandlerKeeps DEF Dispatch
<1>6. left' # <<>> => conn'.buffers \/ conn'.shut
  BY <1>0, <1>1, <1>5 DEF StreamInv, Kept
<1>7. Len(left') <= Capacity
  BY <1>0, <1>3, NetConnAssumption
<1>8. ASSUME ~conn'.shut PROVE Chain(Undispatched' \o net', Len(handled') + 1, offered' + 1)
  <2>1. ~conn.shut
    BY <1>5, <1>8 DEF Kept
  <2>2. Chain(left \o net, a, offered + 1)
    BY <1>0, <2>1 DEF StreamInv, Undispatched
  <2>3. Chain(SubSeq(left, n + 1, Len(left)) \o net, a + 1, offered + 1)
    BY <1>0, <1>2, <2>2, ChainRest
  <2>4. Undispatched' = SubSeq(left, n + 1, Len(left))
    BY <1>0, <1>1 DEF Undispatched
  <2> QED
    BY <1>0, <1>4, <2>3, <2>4
<1>9. conn'.secured
  BY <1>0, <1>5 DEF Kept
<1> QED
  BY <1>0, <1>3, <1>4, <1>6, <1>7, <1>8, <1>9 DEF StreamInv

LEMMA StreamStep ==
    ASSUME FlagsInv, StreamInv, [Next]_vars
    PROVE  StreamInv'
<1>0. ConnOK(conn) /\ conn \in Connections
  BY DEF FlagsInv, ConnOK
<1>1. CASE Connect
  BY <1>0, <1>1, ConnectIs
     DEF Connect, Goto, NetConn_IsShutdown, FlagsInv, StreamInv, Undispatched, ConnOK
<1>2. CASE Connected
  BY <1>0, <1>2, ConnectedIs DEF Connected, Goto, FlagsInv, StreamInv, Undispatched, ConnOK
<1>3. CASE ConnectFailed
  <2>1. conn'.in = <<>> /\ ~conn'.secured
    BY <1>0, <1>3, ResetIs DEF ConnectFailed, Goto, FlagsInv, ConnOK
  <2>2. ~conn.secured /\ pc' = "idle" /\ UNCHANGED <<left, net, offered, handled>>
        /\ pc = "connect" /\ ~conn.shut
    BY <1>0, <1>3 DEF ConnectFailed, Goto, FlagsInv, ConnOK
  <2>3. Undispatched' = Undispatched
    BY <2>1, <2>2 DEF Undispatched, StreamInv
  <2> QED
    BY <2>1, <2>2, <2>3 DEF StreamInv
<1>4. CASE NetConn_Update
  BY <1>0, <1>4, NetConn_SendKeeps, StreamKept DEF NetConn_Update, Goto
<1>5. CASE NetConn_Recv
  <2>1. PICK n \in 1 .. Len(net) : Receive(n)
    BY <1>5 DEF NetConn_Recv
  <2>2. /\ conn'.in \in Seq(Unit) /\ net' \in Seq(Unit)
        /\ conn'.buffers /\ Len(conn'.in) <= Capacity
        /\ conn'.in \o net' = conn.in \o net
        /\ conn'.shut = conn.shut /\ conn'.secured = conn.secured
    BY <2>1, ReceiveKeeps
  <2>3. /\ pc = "recv" /\ pc' = "dispatch" /\ left' = conn'.in /\ conn.secured /\ ~conn.shut
        /\ UNCHANGED <<offered, handled>>
    BY <1>0, <1>5 DEF NetConn_Recv, Goto, FlagsInv, ConnOK
  <2>4. Chain(left' \o net', Len(handled) + 1, offered + 1)
    BY <2>2, <2>3 DEF StreamInv, Undispatched
  <2>5. InOrder(left', Len(handled) + 1)
    BY <2>2, <2>3, <2>4, InOrderPrefix DEF Chain
  <2>6. Undispatched' = left'
    BY <2>3 DEF Undispatched
  <2> QED
    BY <2>2, <2>3, <2>4, <2>5, <2>6 DEF StreamInv
<1>6. CASE NetConn_RecvNothing
  BY <1>6 DEF NetConn_RecvNothing, Goto, StreamInv, Undispatched
<1>7. CASE NetConn_RecvFails
  <2>1. conn.secured /\ pc' = "end" /\ UNCHANGED <<left, net, offered, handled>>
    BY <1>7 DEF NetConn_RecvFails, Goto, FlagsInv
  <2>2. conn'.shut /\ conn'.secured
    BY <1>0, <1>7, <2>1, HardShut DEF NetConn_RecvFails, ConnOK
  <2> QED
    BY <2>1, <2>2 DEF StreamInv
<1>8. CASE Dispatch
  BY <1>8, DispatchStep
<1>9. CASE DispatchEnd
  <2>1. /\ conn'.shut = conn.shut /\ conn'.secured = conn.secured
        /\ conn'.in = left \/ (left # <<>> /\ ~conn.buffers)
    BY <1>9, DispatchEndKeeps
  <2>2. /\ pc = "dispatch" /\ pc' = "end" /\ conn.secured
        /\ UNCHANGED <<left, net, offered, handled>>
    BY <1>9 DEF DispatchEnd, Goto, FlagsInv
  <2>3. ~conn'.shut => Undispatched' = Undispatched
    BY <2>1, <2>2 DEF StreamInv, Undispatched
  <2> QED
    BY <2>1, <2>2, <2>3 DEF StreamInv
<1>10. CASE UpdateEnd
  <2>0. pc = "end" /\ pc' = "idle" /\ left' = <<>> /\ left' \in Seq(Unit)
    BY <1>10 DEF UpdateEnd, Goto
  <2>1. CASE conn.shut
    <3>1. conn' = Closed(conn) /\ net' = <<>> /\ offered' = 0 /\ handled' = <<>>
      BY <1>10, <2>1 DEF UpdateEnd
    <3>2. conn'.in = <<>>
      BY <1>0, <3>1, ClosedIs
    <3>3. Chain(<<>>, 1, 1)
      BY DEF Chain, InOrder
    <3>4. Undispatched' \o net' = <<>> /\ Len(handled') + 1 = 1 /\ offered' + 1 = 1
      BY <2>0, <3>1, <3>2 DEF Undispatched
    <3>5. \A i \in 1 .. Len(handled') : handled'[i].packet = i
      BY <3>1
    <3> QED
      BY <2>0, <3>1, <3>2, <3>3, <3>4, <3>5 DEF StreamInv
  <2>2. CASE ~conn.shut
    BY <1>10, <2>0, <2>2 DEF UpdateEnd, StreamInv, Undispatched
  <2> QED
    BY <2>1, <2>2
<1>11. CASE Disconnect
  BY <1>0, <1>11, GameSrv_DisconnectKeeps, StreamKept DEF Disconnect
<1>12. CASE Send
  <2>1. PICK size \in Sizes : conn' \in SendPacket(conn, size)
    BY <1>12 DEF Send
  <2>2. size \in Nat \ {0}
    BY NetConnAssumption
  <2> QED
    BY <1>0, <1>12, <2>1, <2>2, SendPacketKeeps, StreamKept DEF Send
<1>13. CASE ServerSends
  <2>1. /\ offered' = offered + 1 /\ conn.secured /\ ~conn.shut
        /\ UNCHANGED <<pc, conn, left, handled>>
    BY <1>0, <1>13 DEF ServerSends, ConnOK
  <2>2. PICK size \in Sizes : net' = net \o Units(offered + 1, size)
    BY <1>13 DEF ServerSends
  <2>3. size \in Nat \ {0} /\ offered + 1 \in Nat /\ net \in Seq(Unit) /\ offered \in Nat
    BY NetConnAssumption DEF StreamInv
  <2>4. Units(offered + 1, size) \in Seq(Unit)
    BY <2>3, UnitsAre
  <2>5. net' \in Seq(Unit)
    BY <2>2, <2>3, <2>4, ConcatProperties
  <2>6. Undispatched \in Seq(Unit) /\ Undispatched' = Undispatched
    BY <1>0, <2>1 DEF StreamInv, Undispatched, Connections
  <2>7. Undispatched \o net \in Seq(Unit)
    BY <2>3, <2>6, ConcatProperties
  <2>8. Chain((Undispatched \o net) \o Units(offered + 1, size), Len(handled) + 1, offered + 2)
    <3>1. Chain(Undispatched \o net, Len(handled) + 1, offered + 1)
      BY <2>1 DEF StreamInv
    <3>2. (offered + 1) + 1 = offered + 2
      BY <2>3
    <3> QED
      BY <2>3, <2>7, <3>1, <3>2, ChainAppend
  <2>9. Chain(Undispatched' \o net', Len(handled') + 1, offered' + 1)
    <3>1. (Undispatched \o net) \o Units(offered + 1, size) = Undispatched' \o net'
      BY <2>2, <2>3, <2>4, <2>6, UnitsAssociative
    <3>2. offered' + 1 = offered + 2
      BY <2>1, <2>3
    <3> QED
      BY <2>1, <2>8, <3>1, <3>2
  <2> QED
    BY <2>1, <2>3, <2>5, <2>9 DEF StreamInv
<1>14. CASE UNCHANGED vars
  BY <1>14 DEF vars, StreamInv, Undispatched
<1> QED
  BY <1>1, <1>2, <1>3, <1>4, <1>5, <1>6, <1>7, <1>8, <1>9, <1>10, <1>11, <1>12, <1>13,
     <1>14 DEF Next, MainThread

LEMMA WaitingKept ==
    ASSUME WaitingInv, Kept(conn, conn'), Running,
           pc' = pc \/ (pc = "idle" /\ pc' = "recv")
    PROVE  WaitingInv'
  BY DEF WaitingInv, Kept, Running

\* When the loop ends, no unit of left is the last one of its packet: the first such
\* unit would end a packet that unpacks.
LEMMA NoPacketLeft ==
    ASSUME left \in Seq(Unit), \A n \in 1 .. Len(left) : ~Unpacks(n)
    PROVE  \A n \in 1 .. Len(left) : ~left[n].last
<1> DEFINE ends == {i \in 1 .. Len(left) : left[i].last}
<1> SUFFICES ASSUME ends # {} PROVE FALSE
  OBVIOUS
<1>1. PICK n \in ends : \A i \in ends : n <= i
  <2>1. ends \subseteq Nat
    OBVIOUS
  <2> HIDE DEF ends
  <2> QED
    BY <2>1, LeastNumber
<1>2. ASSUME NEW i \in 1 .. n - 1 PROVE ~left[i].last
  <2>1. n \in 1 .. Len(left) /\ Len(left) \in Nat /\ n \in Nat
    BY <1>1
  <2>2. i \in 1 .. Len(left) /\ ~(n <= i)
    BY <2>1
  <2> QED
    BY <1>1, <2>2
<1> QED
  BY <1>1, <1>2 DEF Unpacks

LEMMA WaitingStep ==
    ASSUME FlagsInv, StreamInv, WaitingInv, [Next]_vars
    PROVE  WaitingInv'
<1>0. ConnOK(conn) /\ conn \in Connections
  BY DEF FlagsInv, ConnOK
<1>1. CASE Connect
  BY <1>0, <1>1, ConnectIs DEF Connect, Goto, NetConn_IsShutdown, WaitingInv
<1>2. CASE Connected
  BY <1>0, <1>2, ConnectedIs DEF Connected, Goto, FlagsInv, WaitingInv
<1>3. CASE ConnectFailed
  BY <1>0, <1>3, ResetIs DEF ConnectFailed, Goto, FlagsInv, ConnOK, WaitingInv
<1>4. CASE NetConn_Update
  BY <1>0, <1>4, NetConn_SendKeeps, WaitingKept DEF NetConn_Update, Goto
<1>5. CASE NetConn_Recv
  BY <1>5 DEF NetConn_Recv, Goto, WaitingInv
<1>6. CASE NetConn_RecvNothing
  BY <1>6 DEF NetConn_RecvNothing, Goto, WaitingInv
<1>7. CASE NetConn_RecvFails
  <2>1. conn.secured
    BY <1>7 DEF NetConn_RecvFails, Goto, FlagsInv
  <2>2. conn'.in = conn.in
    BY <1>0, <1>7, <2>1, HardShut DEF NetConn_RecvFails, ConnOK
  <2> QED
    BY <1>7, <2>2 DEF NetConn_RecvFails, Goto, WaitingInv
<1>8. CASE Dispatch
  BY <1>8 DEF Dispatch, Goto, WaitingInv
<1>9. CASE DispatchEnd
  <2>1. conn'.in = left \/ conn'.fault = "memmove"
    BY <1>9, DispatchEndKeeps
  <2>2. \A n \in 1 .. Len(left) : ~left[n].last
    BY <1>9, NoPacketLeft DEF DispatchEnd, StreamInv
  <2> QED
    BY <1>9, <2>1, <2>2 DEF DispatchEnd, Goto, WaitingInv, Running
<1>10. CASE UpdateEnd
  <2>1. CASE conn.shut
    <3>1. conn' = Closed(conn)
      BY <1>10, <2>1 DEF UpdateEnd
    <3>2. conn'.in = <<>>
      BY <1>0, <3>1, ClosedIs
    <3> QED
      BY <3>2 DEF WaitingInv
  <2>2. CASE ~conn.shut
    BY <1>10, <2>2 DEF UpdateEnd, Goto, WaitingInv
  <2> QED
    BY <2>1, <2>2
<1>11. CASE Disconnect
  BY <1>0, <1>11, GameSrv_DisconnectKeeps, WaitingKept DEF Disconnect
<1>12. CASE Send
  <2>1. PICK size \in Sizes : conn' \in SendPacket(conn, size)
    BY <1>12 DEF Send
  <2>2. size \in Nat \ {0}
    BY NetConnAssumption
  <2> QED
    BY <1>0, <1>12, <2>1, <2>2, SendPacketKeeps, WaitingKept DEF Send
<1>13. CASE ServerSends
  BY <1>13 DEF ServerSends, WaitingInv, Running
<1>14. CASE UNCHANGED vars
  BY <1>14 DEF vars, WaitingInv, Running
<1> QED
  BY <1>1, <1>2, <1>3, <1>4, <1>5, <1>6, <1>7, <1>8, <1>9, <1>10, <1>11, <1>12, <1>13,
     <1>14 DEF Next, MainThread

-----------------------------------------------------------------------------
(* The theorems                                                            *)

LEMMA InitInv ==
    ASSUME Init
    PROVE  FlagsInv /\ StreamInv /\ WaitingInv /\ WireInv(conn)
<1> DEFINE none == <<>>
<1>1. none \in Seq(Unit) /\ Len(none) = 0 /\ none \o none = none
  OBVIOUS
<1>2. /\ pc = "idle" /\ left = none /\ net = none /\ offered = 0 /\ handled = <<>>
      /\ conn.fd = "closed" /\ ~conn.shut /\ ~conn.secured /\ conn.buffers = TRUE
      /\ conn.out = none /\ conn.in = none /\ conn.wire = none /\ conn.accepted = 0
  BY DEF Init
<1>3. conn \in Connections
  BY <1>1 DEF Init, Connections
<1>4. WireInv(conn) /\ Chain(none, 1, 1)
  BY <1>2, NoPackets
<1> HIDE DEF none
<1>5. FlagsInv
  BY <1>1, <1>2, <1>3, NetConnAssumption DEF FlagsInv, ConnOK, Room
<1>6. StreamInv
  <2>1. Undispatched \o net = none /\ Len(handled) + 1 = 1 /\ offered + 1 = 1
    BY <1>1, <1>2 DEF Undispatched
  <2>2. handled \in Seq([packet : Nat, shut : BOOLEAN]) /\ Len(handled) = 0
    BY <1>2
  <2> QED
    BY <1>1, <1>2, <1>4, <2>1, <2>2 DEF StreamInv, none
<1>7. WaitingInv
  BY <1>1, <1>2 DEF WaitingInv
<1> QED
  BY <1>4, <1>5, <1>6, <1>7

LEMMA Invariants == Spec => [](FlagsInv /\ StreamInv /\ WaitingInv)
<1>1. Init => FlagsInv /\ StreamInv /\ WaitingInv
  BY InitInv
<1>2. (FlagsInv /\ StreamInv /\ WaitingInv) /\ [Next]_vars
        => (FlagsInv /\ StreamInv /\ WaitingInv)'
  BY FlagsStep, StreamStep, WaitingStep
<1> QED
  BY <1>1, <1>2, PTL DEF Spec

\* The buffers never outgrow their memory, and the variables stay in their domains,
\* whatever the order of sends, receives, dispatches, closes and connects.
THEOREM TypeCorrect == Spec => []TypeOK
<1>1. FlagsInv /\ StreamInv => TypeOK
  BY DEF FlagsInv, StreamInv, ConnOK, TypeOK
<1> QED
  BY <1>1, Invariants, PTL

\* NetConn_DispatchPackets hands the packets of the server to the handlers once each and
\* in order, for any pieces recv() gives and any closing in between.
THEOREM PacketsArriveInOrder == Spec => []ReceivedInOrder
<1>1. FlagsInv /\ StreamInv => ReceivedInOrder
  BY DEF StreamInv, ReceivedInOrder, Chain
<1> QED
  BY <1>1, Invariants, PTL

\* NetConn_DispatchPackets leaves nothing it could have dispatched: between two updates
\* the buffer holds at most the beginning of a packet.
THEOREM WholePacketsAreDispatched == Spec => []NothingLeftBehind
<1>1. WaitingInv => NothingLeftBehind
  BY DEF WaitingInv, NothingLeftBehind
<1> QED
  BY <1>1, Invariants, PTL

\* As long as send() takes the whole buffer, the server reads in clear the packets that
\* SendPacket accepted, in order, whichever threads send and whatever the closings.
THEOREM PacketsAreSentInOrder == ~PartialSend => (Spec => []WireInOrder)
<1> SUFFICES ASSUME ~PartialSend PROVE Spec => []WireInOrder
  OBVIOUS
<1> DEFINE Inv == FlagsInv /\ StreamInv /\ WireInv(conn)
<1>1. Init => Inv
  BY InitInv
<1>2. Inv /\ [Next]_vars => Inv'
  BY FlagsStep, StreamStep, WireStep
<1>3. Inv => WireInOrder
  <2> SUFFICES ASSUME FlagsInv, WireInv(conn) PROVE WireInOrder
    OBVIOUS
  <2>1. InOrder(conn.wire \o conn.out, 1)
    <3>1. conn.wire \in Seq(Unit)
      BY DEF FlagsInv, ConnOK, Connections
    <3>2. ~conn.buffers => conn.wire \o conn.out = conn.wire
      BY <3>1, ConcatEmptySeq DEF WireInv
    <3> QED
      BY <3>2 DEF WireInv, Chain
  <2> QED
    BY <2>1 DEF WireInv, WireInOrder
<1> HIDE DEF Inv
<1> QED
  BY <1>1, <1>2, <1>3, PTL DEF Spec

-----------------------------------------------------------------------------
(* The channel                                                             *)

\* The ends of packets before place i.
Ended(s, i) == {j \in Ends(s) : j < i}

\* One place further there is one more end if a packet ends at the place.
LEMMA EndedNext ==
    ASSUME NEW s \in Seq(Unit), NEW i \in 1 .. Len(s)
    PROVE  /\ Ended(s, 1) = {}
           /\ Ended(s, i + 1) = IF s[i].last THEN Ended(s, i) \cup {i} ELSE Ended(s, i)
           /\ Ended(s, Len(s) + 1) = Ends(s)
<1>1. DOMAIN s = 1 .. Len(s) /\ Len(s) \in Nat
  OBVIOUS
<1> QED
  BY <1>1 DEF Ended, Ends

\* The ends are finitely many.
LEMMA EndedFinite ==
    ASSUME NEW s \in Seq(Unit), NEW i
    PROVE  IsFiniteSet(Ended(s, i)) /\ Cardinality(Ended(s, i)) \in Nat
<1>1. DOMAIN s = 1 .. Len(s) /\ Len(s) \in Nat
  OBVIOUS
<1>2. Ended(s, i) \in SUBSET (1 .. Len(s))
  BY <1>1 DEF Ended, Ends
<1>3. IsFiniteSet(1 .. Len(s))
  BY <1>1, FS_Interval
<1>4. IsFiniteSet(Ended(s, i))
  BY <1>2, <1>3, FS_Subset
<1> QED
  BY <1>4, FS_CardinalityType

\* EndedNext, counted.
LEMMA CountNext ==
    ASSUME NEW s \in Seq(Unit), NEW i \in 1 .. Len(s)
    PROVE  /\ Cardinality(Ended(s, 1)) = 0
           /\ Cardinality(Ended(s, i + 1)) =
                 IF s[i].last THEN Cardinality(Ended(s, i)) + 1 ELSE Cardinality(Ended(s, i))
<1>1. i \notin Ended(s, i)
  BY DEF Ended
<1>2. IsFiniteSet(Ended(s, i))
  BY EndedFinite
<1>3. Cardinality(Ended(s, i) \cup {i}) = Cardinality(Ended(s, i)) + 1
  BY <1>1, <1>2, FS_AddElement
<1> QED
  BY <1>3, EndedNext, FS_EmptySet

\* A unit belongs to the packet behind those that have ended before it.
LEMMA PacketIsCount ==
    ASSUME NEW s \in Seq(Unit), InOrder(s, 1)
    PROVE  \A i \in 1 .. Len(s) : s[i].packet = Cardinality(Ended(s, i)) + 1
<1> DEFINE wrong == {i \in 1 .. Len(s) : s[i].packet # Cardinality(Ended(s, i)) + 1}
<1> SUFFICES ASSUME wrong # {} PROVE FALSE
  OBVIOUS
<1>0. Len(s) \in Nat /\ s # <<>>
  OBVIOUS
<1>1. PICK i \in wrong : \A j \in wrong : i <= j
  <2>1. wrong \subseteq Nat
    BY <1>0
  <2> HIDE DEF wrong
  <2> QED
    BY <2>1, LeastNumber
<1>2. i # 1
  BY <1>0, CountNext DEF InOrder
<1>3. /\ i - 1 \in 1 .. Len(s) /\ i - 1 \in 1 .. Len(s) - 1 /\ (i - 1) + 1 = i
      /\ ~(i <= i - 1)
  BY <1>0, <1>2
<1>4. s[i - 1].packet = Cardinality(Ended(s, i - 1)) + 1
  BY <1>1, <1>3
<1>5. s[i].packet = IF s[i - 1].last THEN s[i - 1].packet + 1 ELSE s[i - 1].packet
  BY <1>3 DEF InOrder
<1>6. Cardinality(Ended(s, i)) =
         IF s[i - 1].last THEN Cardinality(Ended(s, i - 1)) + 1 ELSE Cardinality(Ended(s, i - 1))
  BY <1>3, CountNext
<1>7. s[i].packet = Cardinality(Ended(s, i)) + 1
  BY <1>4, <1>5, <1>6
<1> QED
  BY <1>7

\* There is an n-th end, up to their number.
LEMMA NthEnd ==
    ASSUME NEW s \in Seq(Unit), NEW n \in 1 .. Cardinality(Ends(s))
    PROVE  EndOf(s, n) \in Ends(s) /\ Cardinality(Ended(s, EndOf(s, n))) = n - 1
<1> DEFINE behind == {i \in 1 .. Len(s) + 1 : n <= Cardinality(Ended(s, i))}
<1>0. Len(s) \in Nat /\ DOMAIN s = 1 .. Len(s) /\ Cardinality(Ends(s)) \in Nat /\ n \in Nat \ {0}
  <2>1. Ends(s) = Ended(s, Len(s) + 1)
    BY DEF Ended, Ends
  <2> QED
    BY <2>1, EndedFinite
<1>1. Len(s) + 1 \in behind
  <2>1. Ends(s) = Ended(s, Len(s) + 1)
    BY DEF Ended, Ends
  <2> QED
    BY <1>0, <2>1
<1>2. PICK i \in behind : \A j \in behind : i <= j
  <2>1. behind \subseteq Nat /\ behind # {}
    BY <1>0, <1>1
  <2> HIDE DEF behind
  <2> QED
    BY <2>1, LeastNumber
<1>3. i # 1
  <2>1. Ended(s, 1) = {}
    BY <1>0 DEF Ended, Ends
  <2>2. Cardinality(Ended(s, 1)) = 0
    BY <2>1, FS_EmptySet
  <2>3. n <= Cardinality(Ended(s, i))
    BY <1>2
  <2> QED
    BY <1>0, <2>2, <2>3
<1>4. /\ i - 1 \in 1 .. Len(s) /\ i - 1 \in 1 .. Len(s) + 1 /\ (i - 1) + 1 = i
      /\ ~(i <= i - 1)
  BY <1>0, <1>2, <1>3
<1>5. ~(n <= Cardinality(Ended(s, i - 1)))
  BY <1>2, <1>4
<1>6. Cardinality(Ended(s, i)) =
         IF s[i - 1].last THEN Cardinality(Ended(s, i - 1)) + 1 ELSE Cardinality(Ended(s, i - 1))
  BY <1>4, CountNext
<1>7. Cardinality(Ended(s, i - 1)) \in Nat /\ n <= Cardinality(Ended(s, i))
  BY <1>2, EndedFinite
<1>8. s[i - 1].last /\ Cardinality(Ended(s, i - 1)) = n - 1
  BY <1>0, <1>5, <1>6, <1>7
<1>9. i - 1 \in Ends(s)
  BY <1>0, <1>4, <1>8 DEF Ends
<1>10. \E k \in Ends(s) : Cardinality(Ended(s, k)) = n - 1
  BY <1>8, <1>9
<1> QED
  BY <1>10 DEF EndOf, Ended

\* The packets read are the first ones, as many as have ended, and more units end more.
LEMMA DeliveredIs ==
    ASSUME NEW w \in Seq(Unit), InOrder(w, 1)
    PROVE  /\ Cardinality(Ends(w)) \in Nat
           /\ [n \in 1 .. Cardinality(Ends(w)) |-> w[EndOf(w, n)].packet]
                = Channel!First(Cardinality(Ends(w)))
<1>1. Cardinality(Ends(w)) \in Nat
  <2>1. Ends(w) = Ended(w, Len(w) + 1)
    BY DEF Ended, Ends
  <2> QED
    BY <2>1, EndedFinite
<1>2. ASSUME NEW n \in 1 .. Cardinality(Ends(w)) PROVE w[EndOf(w, n)].packet = n
  <2>1. EndOf(w, n) \in 1 .. Len(w)
    BY NthEnd DEF Ends
  <2>2. w[EndOf(w, n)].packet = Cardinality(Ended(w, EndOf(w, n))) + 1
    BY <2>1, PacketIsCount
  <2>3. Cardinality(Ended(w, EndOf(w, n))) = n - 1
    BY NthEnd
  <2> QED
    BY <1>1, <2>2, <2>3
<1> QED
  BY <1>1, <1>2 DEF Channel!First

\* No unit is of a packet behind the m-th.
UpTo(units, m) == \A i \in 1 .. Len(units) : units[i].packet <= m

\* Units in order that are of no packet behind the m-th end at most m packets.
LEMMA EndsUpTo ==
    ASSUME NEW w \in Seq(Unit), InOrder(w, 1), NEW m \in Nat, UpTo(w, m)
    PROVE  Cardinality(Ends(w)) <= m
<1> DEFINE n == Cardinality(Ends(w))
<1>1. n \in Nat
  BY DeliveredIs
<1>2. CASE n = 0
  BY <1>2
<1>3. CASE n # 0
  <2>1. n \in 1 .. n
    BY <1>1, <1>3
  <2>2. EndOf(w, n) \in 1 .. Len(w) /\ Cardinality(Ended(w, EndOf(w, n))) = n - 1
    BY <2>1, NthEnd DEF Ends
  <2>3. w[EndOf(w, n)].packet = Cardinality(Ended(w, EndOf(w, n))) + 1
    BY <2>2, PacketIsCount
  <2>4. w[EndOf(w, n)].packet = n
    BY <1>1, <2>2, <2>3
  <2> QED
    BY <2>2, <2>4 DEF UpTo
<1> QED
  BY <1>2, <1>3

\* Appended units take no end away.
LEMMA EndsGrow ==
    ASSUME NEW w \in Seq(Unit), NEW t \in Seq(Unit)
    PROVE  Cardinality(Ends(w)) <= Cardinality(Ends(w \o t))
<1> DEFINE u == w \o t
<1>1. u \in Seq(Unit) /\ Len(u) = Len(w) + Len(t) /\ \A i \in 1 .. Len(w) : u[i] = w[i]
  BY ConcatProperties
<1> HIDE DEF u
<1>2. Ends(w) \in SUBSET Ends(u)
  BY <1>1 DEF Ends
<1>3. IsFiniteSet(Ends(u))
  <2>1. Ends(u) = Ended(u, Len(u) + 1)
    BY <1>1 DEF Ended, Ends
  <2> QED
    BY <1>1, <2>1, EndedFinite
<1>4. Cardinality(Ends(w)) <= Cardinality(Ends(u))
  BY <1>2, <1>3, FS_Subset
<1> QED
  BY <1>4 DEF u

\* UpTo of a concatenation is UpTo of both parts.
LEMMA UpToBoth ==
    ASSUME NEW s \in Seq(Unit), NEW t \in Seq(Unit), NEW m
    PROVE  UpTo(s \o t, m) <=> UpTo(s, m) /\ UpTo(t, m)
<1>1. /\ Len(s \o t) = Len(s) + Len(t) /\ Len(s) \in Nat /\ Len(t) \in Nat
      /\ \A i \in 1 .. Len(s) : (s \o t)[i] = s[i]
      /\ \A i \in 1 .. Len(t) : (s \o t)[Len(s) + i] = t[i]
  BY ConcatProperties
<1>2. ASSUME UpTo(s \o t, m) PROVE UpTo(s, m) /\ UpTo(t, m)
  <2>1. \A i \in 1 .. Len(s) : i \in 1 .. Len(s \o t)
    BY <1>1
  <2>2. \A i \in 1 .. Len(t) : Len(s) + i \in 1 .. Len(s \o t)
    BY <1>1
  <2> QED
    BY <1>1, <1>2, <2>1, <2>2 DEF UpTo
<1>3. ASSUME UpTo(s, m), UpTo(t, m), NEW i \in 1 .. Len(s \o t) PROVE (s \o t)[i].packet <= m
  <2>1. CASE i <= Len(s)
    <3>1. i \in 1 .. Len(s)
      BY <1>1, <2>1
    <3> QED
      BY <1>1, <1>3, <3>1 DEF UpTo
  <2>2. CASE ~(i <= Len(s))
    <3>1. i - Len(s) \in 1 .. Len(t) /\ Len(s) + (i - Len(s)) = i
      BY <1>1, <2>2
    <3>2. (s \o t)[Len(s) + (i - Len(s))] = t[i - Len(s)]
      BY <1>1, <3>1
    <3> QED
      BY <1>3, <3>1, <3>2 DEF UpTo
  <2> QED
    BY <2>1, <2>2
<1> QED
  BY <1>2, <1>3 DEF UpTo

\* UpTo is kept by a larger bound.
LEMMA UpToNext ==
    ASSUME NEW s \in Seq(Unit), NEW m \in Nat, UpTo(s, m)
    PROVE  UpTo(s, m + 1)
<1>1. \A i \in 1 .. Len(s) : s[i] \in Unit
  OBVIOUS
<1>2. \A i \in 1 .. Len(s) : s[i].packet \in Nat
  BY <1>1 DEF Unit
<1> QED
  BY <1>2 DEF UpTo

\* The two parts of a sequence that is cut.
LEMMA UpToParts ==
    ASSUME NEW s \in Seq(Unit), NEW n \in 0 .. Len(s), NEW m
    PROVE  /\ SubSeq(s, 1, n) \in Seq(Unit) /\ SubSeq(s, n + 1, Len(s)) \in Seq(Unit)
           /\ UpTo(s, m) => UpTo(SubSeq(s, 1, n), m) /\ UpTo(SubSeq(s, n + 1, Len(s)), m)
<1>1. Len(s) \in Nat
  OBVIOUS
<1>2. SubSeq(s, 1, n) \in Seq(Unit) /\ SubSeq(s, n + 1, Len(s)) \in Seq(Unit)
  BY <1>1
<1>3. SubSeq(s, 1, n) \o SubSeq(s, n + 1, Len(s)) = s
  <2>1. 1 \in 1 .. Len(s) + 1 /\ n \in 1 - 1 .. Len(s) /\ Len(s) \in n .. Len(s)
    BY <1>1
  <2>2. SubSeq(s, 1, n) \o SubSeq(s, n + 1, Len(s)) = SubSeq(s, 1, Len(s))
    BY <1>1, <2>1, ConcatAdjacentSubSeq
  <2> QED
    BY <2>2, SubSeqFull
<1> DEFINE r == SubSeq(s, 1, n)
           t == SubSeq(s, n + 1, Len(s))
<1>4. r \in Seq(Unit) /\ t \in Seq(Unit) /\ r \o t = s
  BY <1>2, <1>3
<1> HIDE DEF r, t
<1>5. UpTo(r \o t, m) <=> UpTo(r, m) /\ UpTo(t, m)
  BY <1>4, UpToBoth
<1>6. UpTo(s, m) => UpTo(r, m) /\ UpTo(t, m)
  BY <1>4, <1>5
<1> QED
  BY <1>4, <1>6 DEF r, t

\* What was sent and what waits are packets that were accepted.
SentInv(c) == UpTo(c.wire, c.accepted) /\ UpTo(c.out, c.accepted)

\* What no function takes back: units that were sent.
Grows(c, d) ==
    /\ \E t \in Seq(Unit) : d.wire = c.wire \o t
    /\ SentInv(c) => SentInv(d)

\* Grows is transitive.
LEMMA GrowsAgain ==
    ASSUME NEW c, NEW d, NEW e, c.wire \in Seq(Unit), Grows(c, d), Grows(d, e)
    PROVE  Grows(c, e)
<1>1. PICK t \in Seq(Unit) : d.wire = c.wire \o t
  BY DEF Grows
<1>2. PICK u \in Seq(Unit) : e.wire = d.wire \o u
  BY DEF Grows
<1>3. t \o u \in Seq(Unit)
  BY ConcatProperties
<1>4. (c.wire \o t) \o u = c.wire \o (t \o u)
  BY UnitsAssociative
<1>5. e.wire = c.wire \o (t \o u)
  BY <1>1, <1>2, <1>4
<1> QED
  BY <1>3, <1>5 DEF Grows

\* What changes neither the wire nor what waits and what is accepted grows.
LEMMA GrowsNot ==
    ASSUME NEW c, NEW d, c.wire \in Seq(Unit), d.wire = c.wire, d.out = c.out,
           d.accepted = c.accepted
    PROVE  Grows(c, d)
<1> DEFINE none == <<>>
<1>1. none \in Seq(Unit) /\ c.wire \o none = c.wire
  BY ConcatEmptySeq
<1> HIDE DEF none
<1>2. \E t \in Seq(Unit) : d.wire = c.wire \o t
  BY <1>1
<1> QED
  BY <1>2 DEF Grows, SentInv

\* NetConn_Send moves what waits to the wire, or leaves both.
LEMMA NetConn_SendGrows ==
    ASSUME NEW c, ConnOK(c), NEW d \in NetConn_Send(c)
    PROVE  d.accepted = c.accepted /\ Grows(c, d)
<1>0. /\ c \in Connections /\ c.out \in Seq(Unit) /\ c.wire \in Seq(Unit)
      /\ c.accepted \in Nat /\ Len(c.out) \in Nat
  BY DEF ConnOK, Connections
<1>u. PICK u \in Seq(Unit) :
        /\ u = Encrypted(c) /\ Len(u) = Len(c.out)
        /\ \A i \in 1 .. Len(c.out) : u[i].packet = c.out[i].packet
  <2>1. /\ Encrypted(c) \in Seq(Unit) /\ Len(Encrypted(c)) = Len(c.out)
        /\ \A i \in 1 .. Len(c.out) : Encrypted(c)[i].packet = c.out[i].packet
    BY <1>0, EncryptedIs
  <2> QED
    BY <2>1, Zenon
<1>v. UpTo(c.out, c.accepted) => UpTo(u, c.accepted)
  BY <1>u DEF UpTo
<1>1. CASE d = [c EXCEPT !.fault = "NetConn_Send"]
  <2>1. d.wire = c.wire /\ d.out = c.out /\ d.accepted = c.accepted
    BY <1>0, <1>1 DEF Connections
  <2> QED
    BY <1>0, <2>1, GrowsNot
<1>2. CASE d = c
  BY <1>0, <1>2, GrowsNot
<1>3. CASE c.secured /\ d = NotSent(c)
  <2>1. d.accepted = c.accepted /\ d.wire = c.wire /\ d.out = u
    BY <1>u, <1>3, NotSentIs
  <2> DEFINE none == <<>>
  <2>2. none \in Seq(Unit) /\ c.wire \o none = c.wire
    BY <1>0, ConcatEmptySeq
  <2> HIDE DEF none
  <2>3. \E t \in Seq(Unit) : d.wire = c.wire \o t
    BY <2>1, <2>2
  <2> QED
    BY <1>v, <2>1, <2>3 DEF Grows, SentInv
<1>4. ASSUME NEW n \in 1 .. Len(c.out), d = Sent(c, n)
      PROVE  d.accepted = c.accepted /\ Grows(c, d)
  <2>1. /\ d.accepted = c.accepted
        /\ d.wire = c.wire \o SubSeq(u, 1, n) /\ d.out = SubSeq(u, n + 1, Len(u))
    BY <1>u, <1>4, SentIs
  <2>2. n \in 0 .. Len(u)
    BY <1>0, <1>u
  <2> DEFINE r == SubSeq(u, 1, n)
             t == SubSeq(u, n + 1, Len(u))
  <2>3. /\ r \in Seq(Unit) /\ t \in Seq(Unit)
        /\ UpTo(u, c.accepted) => UpTo(r, c.accepted) /\ UpTo(t, c.accepted)
    BY <2>2, UpToParts
  <2>4. d.wire = c.wire \o r /\ d.out = t
    BY <2>1
  <2> HIDE DEF r, t
  <2>5. ASSUME SentInv(c) PROVE SentInv(d)
    <3>1. UpTo(c.wire, c.accepted) /\ UpTo(r, c.accepted) /\ UpTo(t, c.accepted)
      BY <1>v, <2>3, <2>5 DEF SentInv
    <3>2. UpTo(c.wire \o r, c.accepted)
      BY <1>0, <2>3, <3>1, UpToBoth
    <3> QED
      BY <2>1, <2>4, <3>1, <3>2 DEF SentInv
  <2> QED
    BY <2>1, <2>3, <2>4, <2>5 DEF Grows
<1> QED
  BY <1>1, <1>2, <1>3, <1>4, NetConn_SendIs

\* A packet that enters the buffer is the next accepted one.
LEMMA PackedGrows ==
    ASSUME NEW c, ConnOK(c), NEW size \in Nat \ {0}
    PROVE  /\ Packed(c, size).accepted \in {c.accepted, c.accepted + 1}
           /\ Grows(c, Packed(c, size))
<1> DEFINE d == Packed(c, size)
<1>0. /\ c \in Connections /\ c.out \in Seq(Unit) /\ c.wire \in Seq(Unit) /\ c.accepted \in Nat
  BY DEF ConnOK, Connections
<1>1. CASE /\ d.wire = c.wire /\ d.out = c.out /\ d.accepted = c.accepted
  BY <1>0, <1>1, GrowsNot
<1>2. CASE d = c
  BY <1>1, <1>2
<1>3. CASE d = [c EXCEPT !.fault = "SendPacket"]
  <2> HIDE DEF d
  <2>1. d.wire = c.wire /\ d.out = c.out /\ d.accepted = c.accepted
    BY <1>0, <1>3 DEF Connections
  <2> QED
    BY <1>1, <2>1
<1>4. CASE d = [c EXCEPT !.dropped = TRUE]
  <2> HIDE DEF d
  <2>1. d.wire = c.wire /\ d.out = c.out /\ d.accepted = c.accepted
    BY <1>0, <1>4 DEF Connections
  <2> QED
    BY <1>1, <2>1
<1>5. CASE d = [c EXCEPT !.out = @ \o Units(c.accepted + 1, size), !.accepted = @ + 1]
  <2> HIDE DEF d
  <2> DEFINE count == c.accepted + 1
  <2>1. count \in Nat
    BY <1>0
  <2>2. PICK u \in Seq(Unit) : u = Units(count, size) /\ Len(u) = size
                               /\ \A i \in 1 .. size : u[i].packet = count
    BY <2>1, UnitsAre
  <2> DEFINE none == <<>>
             out == c.out \o u
  <2>3. d.wire = c.wire /\ d.out = out /\ d.accepted = count
    BY <1>0, <1>5, <2>2 DEF Connections
  <2>4. none \in Seq(Unit) /\ c.wire \o none = c.wire
    BY <1>0, ConcatEmptySeq
  <2>5. UpTo(u, count)
    BY <2>1, <2>2 DEF UpTo
  <2>6. ASSUME NEW s \in Seq(Unit), UpTo(s, c.accepted) PROVE UpTo(s, count)
    BY <1>0, <2>6, UpToNext
  <2>7. UpTo(c.out, count) => UpTo(out, count)
    BY <1>0, <2>5, UpToBoth
  <2> HIDE DEF none, out
  <2>8. SentInv(c) => SentInv(d)
    BY <1>0, <2>3, <2>6, <2>7 DEF SentInv
  <2>9. Grows(c, d)
    BY <2>3, <2>4, <2>8 DEF Grows
  <2> QED
    BY <2>3, <2>9 DEF d
<1> QED
  BY <1>2, <1>3, <1>4, <1>5 DEF Packed

\* SendPacket makes room first and then packs.
LEMMA SendPacketGrows ==
    ASSUME NEW c, ConnOK(c), NEW size \in Nat \ {0}, NEW d \in SendPacket(c, size)
    PROVE  d.accepted \in {c.accepted, c.accepted + 1} /\ Grows(c, d)
<1>0. c.wire \in Seq(Unit)
  BY DEF ConnOK, Connections
<1>1. PICK e \in IF Room(c, c.out) < 1 THEN NetConn_Send(c) ELSE {c} : d = Packed(e, size)
  BY DEF SendPacket
<1>2. ConnOK(e) /\ e.accepted = c.accepted /\ Grows(c, e)
  <2>1. CASE e = c
    BY <1>0, <2>1, GrowsNot
  <2>2. CASE e \in NetConn_Send(c)
    BY <2>2, NetConn_SendKeeps, NetConn_SendGrows DEF Kept
  <2> QED
    BY <1>1, <2>1, <2>2
<1>3. d.accepted \in {e.accepted, e.accepted + 1} /\ Grows(e, d)
  BY <1>1, <1>2, PackedGrows
<1> QED
  BY <1>0, <1>2, <1>3, GrowsAgain

\* NetConn_Shutdown sends what waits, then drops the buffers but not the wire.
LEMMA NetConn_ShutdownGrows ==
    ASSUME NEW c, ConnOK(c), NEW d \in NetConn_Shutdown(c)
    PROVE  d.accepted = c.accepted /\ Grows(c, d)
<1>0. c.wire \in Seq(Unit)
  BY DEF ConnOK, Connections
<1>1. PICK e \in NetConn_Send(c) :
        d = IF e.fault # "no" THEN e
            ELSE NetConn_HardShutdown([e EXCEPT !.out = <<>>, !.in = <<>>, !.buffers = FALSE])
  BY DEF NetConn_Shutdown
<1>2. ConnOK(e) /\ e.accepted = c.accepted /\ Grows(c, e)
  BY NetConn_SendKeeps, NetConn_SendGrows DEF Kept
<1>3. CASE e.fault # "no"
  BY <1>1, <1>2, <1>3
<1>4. CASE e.fault = "no"
  <2> DEFINE none == <<>>
             f == [[[e EXCEPT !.out = none] EXCEPT !.in = none] EXCEPT !.buffers = FALSE]
  <2>1. d = NetConn_HardShutdown(f)
    BY <1>1, <1>4
  <2>2. none \in Seq(Unit) /\ Len(none) = 0 /\ e.wire \in Seq(Unit) /\ e.wire \o none = e.wire
    BY <1>2, ConcatEmptySeq DEF ConnOK, Connections
  <2> HIDE DEF none
  <2>3. f.wire = e.wire /\ f.out = none /\ f.accepted = e.accepted /\ f \in Connections
    BY <1>2, <2>2 DEF ConnOK, Connections
  <2> HIDE DEF f
  <2>4. d.wire = e.wire /\ d.out = none /\ d.accepted = e.accepted
    BY <2>1, <2>3 DEF NetConn_HardShutdown, Connections
  <2>5. UpTo(none, d.accepted)
    BY <2>2 DEF UpTo
  <2>6. Grows(e, d)
    BY <2>2, <2>4, <2>5 DEF Grows, SentInv
  <2> QED
    BY <1>0, <1>2, <2>4, <2>6, GrowsAgain
<1> QED
  BY <1>3, <1>4

\* GameSrv_Disconnect sends its packet and shuts down.
LEMMA GameSrv_DisconnectGrows ==
    ASSUME NEW c, ConnOK(c), NEW d \in GameSrv_Disconnect(c)
    PROVE  d.accepted \in {c.accepted, c.accepted + 1} /\ Grows(c, d)
<1>0. c.wire \in Seq(Unit)
  BY DEF ConnOK, Connections
<1>1. PICK e \in SendPacket(c, 1) : d \in IF e.fault # "no" THEN {e} ELSE NetConn_Shutdown(e)
  BY DEF GameSrv_Disconnect
<1>2. ConnOK(e) /\ e.accepted \in {c.accepted, c.accepted + 1} /\ Grows(c, e)
  BY SendPacketKeeps, SendPacketGrows DEF Kept
<1>3. CASE d = e
  BY <1>2, <1>3
<1>4. CASE d \in NetConn_Shutdown(e)
  BY <1>0, <1>2, <1>4, NetConn_ShutdownGrows, GrowsAgain
<1> QED
  BY <1>1, <1>3, <1>4

\* What was received and what is in flight are packets that the server has sent.
OfferedInv == UpTo(left, offered) /\ UpTo(net, offered) /\ UpTo(conn.in, offered)

\* OfferedInv looks at nothing but what comes in.
LEMMA OfferedKept ==
    ASSUME OfferedInv, conn'.in = conn.in \/ conn'.in = left \/ conn'.in = <<>>,
           UNCHANGED <<left, net, offered>>
    PROVE  OfferedInv'
<1>1. UpTo(<<>>, offered)
  BY DEF UpTo
<1> QED
  BY <1>1 DEF OfferedInv

\* OfferedInv is inductive.
LEMMA OfferedStep ==
    ASSUME FlagsInv, StreamInv, OfferedInv, [Next]_vars
    PROVE  OfferedInv'
<1>0. /\ ConnOK(conn) /\ conn \in Connections /\ conn.in \in Seq(Unit)
      /\ left \in Seq(Unit) /\ net \in Seq(Unit) /\ offered \in Nat
  BY DEF FlagsInv, StreamInv, ConnOK, Connections
<1>1. CASE Connect
  BY <1>0, <1>1, ConnectIs, OfferedKept DEF Connect, NetConn_IsShutdown
<1>2. CASE Connected
  BY <1>0, <1>2, ConnectedIs, OfferedKept DEF Connected, Goto, FlagsInv
<1>3. CASE ConnectFailed
  BY <1>0, <1>3, ResetIs, OfferedKept DEF ConnectFailed, Goto, FlagsInv, ConnOK
<1>4. CASE NetConn_Update
  BY <1>0, <1>4, NetConn_SendKeeps, OfferedKept DEF NetConn_Update, Kept
<1>5. CASE NetConn_Recv
  <2>1. PICK n \in 1 .. Len(net) : Receive(n)
    BY <1>5 DEF NetConn_Recv
  <2>2. conn'.in \in Seq(Unit) /\ net' \in Seq(Unit) /\ conn'.in \o net' = conn.in \o net
    BY <2>1, ReceiveKeeps
  <2>3. left' = conn'.in /\ offered' = offered
    BY <1>5 DEF NetConn_Recv
  <2>4. UpTo(conn.in \o net, offered)
    BY <1>0, UpToBoth DEF OfferedInv
  <2>5. UpTo(conn'.in, offered) /\ UpTo(net', offered)
    BY <2>2, <2>4, UpToBoth
  <2> QED
    BY <2>3, <2>5 DEF OfferedInv
<1>6. CASE NetConn_RecvFails
  <2>1. conn.secured
    BY <1>6 DEF NetConn_RecvFails, Goto, FlagsInv
  <2>2. conn'.in = conn.in
    BY <1>0, <1>6, <2>1, HardShut DEF NetConn_RecvFails, ConnOK
  <2> QED
    BY <1>6, <2>2, OfferedKept DEF NetConn_RecvFails
<1>7. CASE Dispatch
  <2>1. Kept(conn, conn')
    BY <1>0, <1>7, HandlerKeeps DEF Dispatch
  <2>2. PICK n \in 1 .. Len(left) : left' = SubSeq(left, n + 1, Len(left))
    BY <1>7 DEF Dispatch
  <2>3. n \in 0 .. Len(left)
    BY <1>0
  <2>4. UpTo(left', offered)
    BY <1>0, <2>2, <2>3, UpToParts DEF OfferedInv
  <2>5. UpTo(<<>>, offered)
    BY DEF UpTo
  <2> QED
    BY <1>7, <2>1, <2>4, <2>5 DEF Dispatch, Kept, OfferedInv
<1>8. CASE DispatchEnd
  <2>1. conn'.in = conn.in \/ conn'.in = left \/ conn'.in = <<>>
    BY <1>8, DispatchEndKeeps DEF Kept
  <2> QED
    BY <1>8, <2>1, OfferedKept DEF DispatchEnd
<1>9. CASE UpdateEnd
  <2>0. \A m : UpTo(<<>>, m)
    BY DEF UpTo
  <2>1. CASE conn.shut
    <3>1. conn' = Closed(conn) /\ net' = <<>> /\ left' = <<>>
      BY <1>9, <2>1 DEF UpdateEnd
    <3>2. conn'.in = <<>>
      BY <1>0, <3>1, ClosedIs
    <3> QED
      BY <2>0, <3>1, <3>2 DEF OfferedInv
  <2>2. CASE ~conn.shut
    BY <1>9, <2>0, <2>2 DEF UpdateEnd, OfferedInv
  <2> QED
    BY <2>1, <2>2
<1>10. CASE Disconnect
  BY <1>0, <1>10, GameSrv_DisconnectKeeps, OfferedKept DEF Disconnect, Kept
<1>11. CASE Send
  <2>1. PICK size \in Sizes : conn' \in SendPacket(conn, size)
    BY <1>11 DEF Send
  <2>2. size \in Nat \ {0}
    BY NetConnAssumption
  <2> QED
    BY <1>0, <1>11, <2>1, <2>2, SendPacketKeeps, OfferedKept DEF Send, Kept
<1>12. CASE ServerSends
  <2>1. offered' = offered + 1 /\ UNCHANGED <<conn, left>>
    BY <1>12 DEF ServerSends
  <2>2. PICK size \in Sizes : net' = net \o Units(offered + 1, size)
    BY <1>12 DEF ServerSends
  <2>3. size \in Nat \ {0} /\ offered + 1 \in Nat
    BY <1>0, NetConnAssumption
  <2>4. PICK u \in Seq(Unit) : u = Units(offered + 1, size) /\ Len(u) = size
                               /\ \A i \in 1 .. size : u[i].packet = offered + 1
    BY <2>3, UnitsAre
  <2>5. UpTo(u, offered + 1)
    BY <2>3, <2>4 DEF UpTo
  <2>6. UpTo(net \o u, offered + 1)
    BY <1>0, <2>5, UpToNext, UpToBoth DEF OfferedInv
  <2>7. UpTo(left, offered + 1) /\ UpTo(conn.in, offered + 1)
    BY <1>0, UpToNext DEF OfferedInv
  <2> QED
    BY <2>1, <2>2, <2>4, <2>6, <2>7 DEF OfferedInv
<1>13. CASE UNCHANGED <<conn, left, net, offered>>
  BY <1>13, OfferedKept
<1> QED
  BY <1>1, <1>2, <1>3, <1>4, <1>5, <1>6, <1>7, <1>8, <1>9, <1>10, <1>11, <1>12, <1>13
     DEF Next, MainThread, NetConn_RecvNothing, vars

\* The wire is the front of a chain in order, and so in order itself.
LEMMA WireInOrderIs ==
    ASSUME NEW c, ConnOK(c), WireInv(c)
    PROVE  c.wire \in Seq(Unit) /\ InOrder(c.wire, 1)
<1>1. c.wire \in Seq(Unit) /\ c.out \in Seq(Unit)
  BY DEF ConnOK, Connections
<1> QED
  BY <1>1, InOrderPrefix DEF WireInv, Chain

\* What the client sends reaches the server behind what it had.
LEMMA OutgoingStep ==
    ASSUME ConnOK(conn), ConnOK(conn'), WireInv(conn), WireInv(conn'),
           SentInv(conn), Grows(conn, conn'),
           conn'.accepted \in {conn.accepted, conn.accepted + 1}
    PROVE  Channel!Outgoing /\ SentInv(conn')
<1>1. PICK t \in Seq(Unit) : conn'.wire = conn.wire \o t
  BY DEF Grows
<1>2. SentInv(conn')
  BY DEF Grows
<1>3. /\ conn.wire \in Seq(Unit) /\ InOrder(conn.wire, 1)
      /\ conn'.wire \in Seq(Unit) /\ InOrder(conn'.wire, 1)
      /\ conn'.accepted \in Nat
  BY WireInOrderIs DEF ConnOK, Connections
<1> DEFINE n == Cardinality(Ends(conn'.wire))
           m == Cardinality(Ends(conn.wire))
<1>4. /\ Delivered' = Channel!First(n) /\ Delivered = Channel!First(m)
      /\ n \in Nat /\ m \in Nat
  BY <1>3, DeliveredIs DEF Delivered
<1>5. m <= n
  BY <1>1, <1>3, EndsGrow
<1>6. n <= conn'.accepted
  BY <1>2, <1>3, EndsUpTo DEF SentInv
<1> HIDE DEF n, m
<1>7. Len(Delivered) = m
  BY <1>4 DEF Channel!First
<1>8. n \in Len(Delivered) .. conn'.accepted
  BY <1>3, <1>4, <1>5, <1>6, <1>7
<1> QED
  BY <1>2, <1>4, <1>8 DEF Channel!Outgoing

\* Nothing sent and nothing on its way.
LEMMA ChannelClosed ==
    ASSUME conn'.accepted = 0, conn'.wire = <<>>, conn'.out = <<>>,
           offered' = 0, handled' = <<>>
    PROVE  Channel!Close /\ SentInv(conn')
<1>1. Ends(<<>>) = {}
  BY DEF Ends
<1>2. Cardinality(Ends(conn'.wire)) = 0
  BY <1>1, FS_EmptySet
<1>3. Delivered' = <<>>
  BY <1>2 DEF Delivered
<1>4. [i \in 1 .. Len(handled') |-> handled'[i].packet] = <<>>
  OBVIOUS
<1>5. SentInv(conn')
  BY DEF SentInv, UpTo
<1> QED
  BY <1>3, <1>4, <1>5 DEF Channel!Close

\* The inductive invariant of the refinement.
ChannelInv == FlagsInv /\ StreamInv /\ WireInv(conn) /\ SentInv(conn) /\ OfferedInv

\* Each step is one of the channel or changes nothing of it, and keeps SentInv.
LEMMA ChannelStep ==
    ASSUME ChannelInv, ConnOK(conn'), WireInv(conn'), [Next]_vars
    PROVE  [Channel!Next]_(Channel!vars) /\ SentInv(conn')
<1>0. /\ ConnOK(conn) /\ conn \in Connections /\ WireInv(conn) /\ SentInv(conn)
      /\ conn.wire \in Seq(Unit) /\ FlagsInv /\ StreamInv /\ OfferedInv
  BY DEF ChannelInv, FlagsInv, ConnOK, Connections
<1>1. ASSUME conn'.wire = conn.wire, conn'.accepted = conn.accepted, conn'.out = conn.out,
             UNCHANGED <<offered, handled>>
      PROVE  UNCHANGED Channel!vars /\ SentInv(conn')
  BY <1>0, <1>1 DEF Channel!vars, Delivered, SentInv
<1>2. ASSUME Grows(conn, conn'), conn'.accepted \in {conn.accepted, conn.accepted + 1},
             UNCHANGED <<offered, handled>>
      PROVE  Channel!Next /\ SentInv(conn')
  BY <1>0, <1>2, OutgoingStep DEF Channel!Next
<1>3. CASE Connect
  <2>1. conn'.wire = conn.wire /\ conn'.accepted = conn.accepted /\ conn'.out = conn.out
    BY <1>0, <1>3 DEF Connect, Connections
  <2> QED
    BY <1>1, <1>3, <2>1 DEF Connect
<1>4. CASE Connected
  <2>1. conn'.wire = conn.wire /\ conn'.accepted = conn.accepted /\ conn'.out = conn.out
    BY <1>0, <1>4 DEF Connected, Connections
  <2> QED
    BY <1>1, <1>4, <2>1 DEF Connected
<1>5. CASE ConnectFailed
  <2>1. conn'.accepted = 0 /\ conn'.wire = <<>> /\ conn'.out = <<>>
    BY <1>0, <1>5 DEF ConnectFailed, NetConn_Reset, Connections
  <2>2. offered' = 0 /\ handled' = <<>>
    BY <1>0, <1>5 DEF ConnectFailed, Goto, FlagsInv, StreamInv
  <2> QED
    BY <2>1, <2>2, ChannelClosed DEF Channel!Next
<1>6. CASE NetConn_Update
  BY <1>0, <1>2, <1>6, NetConn_SendGrows DEF NetConn_Update
<1>7. CASE NetConn_Recv
  <2>1. conn'.wire = conn.wire /\ conn'.accepted = conn.accepted /\ conn'.out = conn.out
    BY <1>0, <1>7 DEF NetConn_Recv, Receive, Connections
  <2> QED
    BY <1>1, <1>7, <2>1 DEF NetConn_Recv
<1>8. CASE NetConn_RecvFails
  <2>1. conn'.wire = conn.wire /\ conn'.accepted = conn.accepted /\ conn'.out = conn.out
    BY <1>0, <1>8 DEF NetConn_RecvFails, NetConn_HardShutdown, Connections
  <2> QED
    BY <1>1, <1>8, <2>1 DEF NetConn_RecvFails
<1>9. CASE Dispatch
  <2>1. Grows(conn, conn') /\ conn'.accepted \in {conn.accepted, conn.accepted + 1}
    <3>1. CASE UNCHANGED conn
      BY <1>0, <3>1, GrowsNot
    <3>2. ASSUME NEW size \in Sizes, conn' \in SendPacket(conn, size)
          PROVE  Grows(conn, conn') /\ conn'.accepted \in {conn.accepted, conn.accepted + 1}
      BY <1>0, <3>2, NetConnAssumption, SendPacketGrows
    <3>3. CASE conn' \in GameSrv_Disconnect(conn)
      BY <1>0, <3>3, GameSrv_DisconnectGrows
    <3> QED
      BY <1>9, <3>1, <3>2, <3>3 DEF Dispatch, Handler
  <2>2. Channel!Outgoing /\ SentInv(conn')
    BY <1>0, <2>1, OutgoingStep
  <2> DEFINE a == Len(handled) + 1
  <2>3. PICK n \in 1 .. Len(left) :
          handled' = Append(handled, [packet |-> left[1].packet, shut |-> conn.shut])
    BY <1>9 DEF Dispatch
  <2>4. /\ left \in Seq(Unit) /\ handled \in Seq([packet : Nat, shut : BOOLEAN])
        /\ left # <<>> /\ left[1].packet = a /\ offered \in Nat /\ left[1].packet <= offered
        /\ conn.shut \in BOOLEAN /\ a \in Nat /\ Len(handled) \in Nat
    <3>1. left \in Seq(Unit) /\ 1 \in 1 .. Len(left) /\ left # <<>>
      BY <1>0, <2>3 DEF StreamInv
    <3>2. left[1].packet = a
      BY <1>0, <1>9, <3>1 DEF StreamInv, InOrder, Dispatch, Goto
    <3>3. left[1].packet <= offered
      BY <1>0, <3>1 DEF OfferedInv, UpTo
    <3> QED
      BY <1>0, <3>1, <3>2, <3>3 DEF StreamInv, Connections
  <2>5. Len(handled') = a /\ \A i \in 1 .. a : handled'[i].packet = i
    <3> DEFINE e == [packet |-> left[1].packet, shut |-> conn.shut]
    <3>1. e \in [packet : Nat, shut : BOOLEAN] /\ e.packet = a
      BY <2>4
    <3> HIDE DEF e
    <3>2. /\ Len(handled') = a /\ handled'[a] = e
          /\ \A i \in 1 .. Len(handled) : handled'[i] = handled[i]
      BY <2>3, <2>4, <3>1 DEF e
    <3>3. ASSUME NEW i \in 1 .. a PROVE handled'[i].packet = i
      <4>1. CASE i = a
        BY <3>1, <3>2, <4>1
      <4>2. CASE i # a
        <5>1. i \in 1 .. Len(handled)
          BY <2>4, <4>2
        <5> QED
          BY <1>0, <3>2, <5>1 DEF StreamInv
      <4> QED
        BY <4>1, <4>2
    <3> QED
      BY <3>2, <3>3
  <2> DEFINE f == [i \in 1 .. Len(handled) |-> handled[i].packet]
             g == [i \in 1 .. Len(handled') |-> handled'[i].packet]
  <2>6. Len(f) = Len(handled)
    BY <2>4
  <2>7. g = Channel!First(a)
    BY <2>5 DEF Channel!First
  <2>8. offered' = offered
    BY <1>9 DEF Dispatch
  <2>9. Channel!Handle
    <3> SUFFICES Len(f) < offered /\ g = Channel!First(Len(f) + 1) /\ offered' = offered
      BY DEF Channel!Handle
    <3> HIDE DEF f, g
    <3>1. Len(f) < offered
      BY <2>4, <2>6
    <3>2. Len(f) + 1 = a
      BY <2>6
    <3> QED
      BY <2>7, <2>8, <3>1, <3>2
  <2> QED
    BY <2>2, <2>9 DEF Channel!Next
<1>10. CASE DispatchEnd
  <2>1. conn'.wire = conn.wire /\ conn'.accepted = conn.accepted /\ conn'.out = conn.out
    BY <1>0, <1>10 DEF DispatchEnd, Connections
  <2> QED
    BY <1>1, <1>10, <2>1 DEF DispatchEnd
<1>11. CASE UpdateEnd
  <2>1. CASE conn.shut
    <3>1. conn' = Closed(conn) /\ offered' = 0 /\ handled' = <<>>
      BY <1>11, <2>1 DEF UpdateEnd
    <3>2. conn'.accepted = 0 /\ conn'.wire = <<>> /\ conn'.out = <<>>
      BY <1>0, <3>1 DEF Closed, Connections
    <3> QED
      BY <3>1, <3>2, ChannelClosed DEF Channel!Next
  <2>2. CASE ~conn.shut
    BY <1>1, <1>11, <2>2 DEF UpdateEnd
  <2> QED
    BY <2>1, <2>2
<1>12. CASE Disconnect
  BY <1>0, <1>2, <1>12, GameSrv_DisconnectGrows DEF Disconnect
<1>13. CASE Send
  <2>1. PICK size \in Sizes : conn' \in SendPacket(conn, size)
    BY <1>13 DEF Send
  <2>2. size \in Nat \ {0}
    BY NetConnAssumption
  <2> QED
    BY <1>0, <1>2, <1>13, <2>1, <2>2, SendPacketGrows DEF Send
<1>14. CASE ServerSends
  <2>1. /\ offered' = offered + 1 /\ conn' = conn /\ handled' = handled
    BY <1>14 DEF ServerSends
  <2>2. Channel!Offer
    BY <2>1 DEF Channel!Offer, Delivered
  <2> QED
    BY <1>0, <2>1, <2>2 DEF Channel!Next
<1>15. CASE UNCHANGED <<conn, offered, handled>>
  BY <1>1, <1>15
<1> QED
  BY <1>3, <1>4, <1>5, <1>6, <1>7, <1>8, <1>9, <1>10, <1>11, <1>12, <1>13, <1>14, <1>15
     DEF Next, MainThread, NetConn_RecvNothing, vars

\* As long as send() takes the whole buffer, a connection is the channel its users need, for
\* any sizes of packets and buffers: every step of it is one of the channel or changes
\* nothing of it.
THEOREM ConnectionIsChannel == ~PartialSend => (Spec => ImplementsChannel)
<1> SUFFICES ASSUME ~PartialSend PROVE Spec => ImplementsChannel
  OBVIOUS
<1>1. Init => ChannelInv /\ Channel!Init
  <2> SUFFICES ASSUME Init PROVE ChannelInv /\ Channel!Init
    OBVIOUS
  <2>1. FlagsInv /\ StreamInv /\ WireInv(conn)
    BY InitInv
  <2>2. /\ left = <<>> /\ net = <<>> /\ offered = 0 /\ handled = <<>>
        /\ conn.out = <<>> /\ conn.in = <<>> /\ conn.wire = <<>> /\ conn.accepted = 0
    BY DEF Init
  <2>3. \A m : UpTo(<<>>, m)
    BY DEF UpTo
  <2>4. SentInv(conn) /\ OfferedInv
    BY <2>2, <2>3 DEF SentInv, OfferedInv
  <2>5. Delivered = <<>>
    <3>1. Ends(<<>>) = {}
      BY DEF Ends
    <3>2. Cardinality(Ends(conn.wire)) = 0
      BY <2>2, <3>1, FS_EmptySet
    <3> QED
      BY <3>2 DEF Delivered
  <2>6. [i \in 1 .. Len(handled) |-> handled[i].packet] = <<>>
    BY <2>2
  <2> QED
    BY <2>1, <2>2, <2>4, <2>5, <2>6 DEF ChannelInv, Channel!Init
<1>2. ChannelInv /\ [Next]_vars => ChannelInv' /\ [Channel!Next]_(Channel!vars)
  <2> SUFFICES ASSUME ChannelInv, [Next]_vars
               PROVE  ChannelInv' /\ [Channel!Next]_(Channel!vars)
    OBVIOUS
  <2>1. FlagsInv' /\ StreamInv' /\ WireInv(conn)' /\ OfferedInv'
    BY FlagsStep, StreamStep, WireStep, OfferedStep DEF ChannelInv
  <2>2. ConnOK(conn')
    BY <2>1 DEF FlagsInv
  <2>3. [Channel!Next]_(Channel!vars) /\ SentInv(conn')
    BY <2>1, <2>2, ChannelStep
  <2> QED
    BY <2>1, <2>3 DEF ChannelInv
<1> QED
  BY <1>1, <1>2, PTL DEF Spec, ImplementsChannel, Channel!Spec

-----------------------------------------------------------------------------
(* The codec: loops, one round at a time                                    *)

\* Induction over the rounds of a loop.
LEMMA Rounds ==
    ASSUME NEW n \in Nat, NEW S, 0 \in S, \A i \in 0 .. n - 1 : i \in S => i + 1 \in S
    PROVE  \A i \in 0 .. n : i \in S
<1> DEFINE T == {i \in 0 .. n : i \notin S}
<1>1. SUFFICES ASSUME T # {} PROVE FALSE
  OBVIOUS
<1>2. T \subseteq Nat
  OBVIOUS
<1>3. PICK m \in T : \A k \in T : m <= k
  BY <1>1, <1>2, LeastNumber
<1>4. m # 0 /\ m \in 0 .. n
  BY <1>3
<1>5. m - 1 \in 0 .. n - 1 /\ m - 1 \in 0 .. n /\ ~(m <= m - 1) /\ (m - 1) + 1 = m
  BY <1>4
<1>6. m - 1 \in S
  BY <1>3, <1>5
<1> QED
  BY <1>3, <1>5, <1>6

\* Joined, one sequence at a time.
LEMMA JoinedIs ==
    ASSUME NEW s, Len(s) \in Nat
    PROVE  /\ Joined(s)[0] = <<>>
           /\ \A i \in 1 .. Len(s) : Joined(s)[i] = Joined(s)[i - 1] \o s[i]
<1> DEFINE none == <<>>
           more(p, i) == p \o s[i]
<1> DEFINE Rule(g, m) ==
             g = [i \in 0 .. m |-> IF i = 0 THEN none ELSE more(g[i - 1], i)]
           S == {m \in 0 .. Len(s) : \E g : Rule(g, m)}
<1> HIDE DEF none, more
<1>1. 0 \in S
  <2>1. Rule([i \in 0 .. 0 |-> none], 0)
    OBVIOUS
  <2> HIDE DEF Rule
  <2> QED
    BY <2>1
<1>2. ASSUME NEW m \in 0 .. Len(s) - 1, m \in S PROVE m + 1 \in S
  <2>1. PICK g : Rule(g, m)
    BY <1>2
  <2> DEFINE h == [i \in 0 .. m + 1 |-> IF i = m + 1 THEN more(g[m], m + 1) ELSE g[i]]
  <2>2. ASSUME NEW i \in 0 .. m + 1
        PROVE  h[i] = IF i = 0 THEN none ELSE more(h[i - 1], i)
    <3>1. CASE i = m + 1
      BY <3>1
    <3>2. CASE i # m + 1
      <4>1. i \in 0 .. m /\ (i # 0 => i - 1 \in 0 .. m)
        BY <3>2
      <4>2. g[i] = IF i = 0 THEN none ELSE more(g[i - 1], i)
        BY <2>1, <4>1
      <4> QED
        BY <3>2, <4>1, <4>2
    <3> QED
      BY <3>1, <3>2
  <2>3. Rule(h, m + 1) /\ m + 1 \in 0 .. Len(s)
    BY <2>2
  <2> HIDE DEF Rule, h
  <2> QED
    BY <2>3
<1>3. \E g : Rule(g, Len(s))
  <2>1. \A m \in 0 .. Len(s) : m \in S
    <3> HIDE DEF S, Rule
    <3> QED
      BY <1>1, <1>2, Rounds
  <2>2. Len(s) \in S
    <3> HIDE DEF S
    <3> QED
      BY <2>1
  <2> HIDE DEF Rule
  <2> QED
    BY <2>2
<1>4. Rule(Joined(s), Len(s))
  BY <1>3, Zenon DEF Joined, none, more
<1>5. /\ Joined(s)[0] = none
      /\ \A i \in 1 .. Len(s) : Joined(s)[i] = more(Joined(s)[i - 1], i)
  BY <1>4
<1> QED
  BY <1>5 DEF none, more

\* The rounds of pack, one at a time.
LEMMA PackLoopIs ==
    ASSUME NEW data, NEW space, NEW fields, Len(fields) \in Nat
    PROVE  /\ PackLoop(data, space, fields)[0] = PackStart
           /\ \A i \in 1 .. Len(fields) :
                 PackLoop(data, space, fields)[i]
                 = PackField(data, space, fields[i], PackLoop(data, space, fields)[i - 1])
<1> DEFINE Rule(g, m) ==
             g = [i \in 0 .. m |-> IF i = 0 THEN PackStart
                                   ELSE PackField(data, space, fields[i], g[i - 1])]
           S == {m \in 0 .. Len(fields) : \E g : Rule(g, m)}
<1>1. 0 \in S
  <2>1. Rule([i \in 0 .. 0 |-> PackStart], 0)
    OBVIOUS
  <2> HIDE DEF Rule
  <2> QED
    BY <2>1
<1>2. ASSUME NEW m \in 0 .. Len(fields) - 1, m \in S PROVE m + 1 \in S
  <2>1. PICK g : Rule(g, m)
    BY <1>2
  <2> DEFINE h == [i \in 0 .. m + 1 |-> IF i = m + 1
                                        THEN PackField(data, space, fields[m + 1], g[m])
                                        ELSE g[i]]
  <2>2. ASSUME NEW i \in 0 .. m + 1
        PROVE  h[i] = IF i = 0 THEN PackStart ELSE PackField(data, space, fields[i], h[i - 1])
    <3>1. CASE i = m + 1
      BY <3>1
    <3>2. CASE i # m + 1
      <4>1. i \in 0 .. m /\ (i # 0 => i - 1 \in 0 .. m)
        BY <3>2
      <4>2. g[i] = IF i = 0 THEN PackStart ELSE PackField(data, space, fields[i], g[i - 1])
        BY <2>1, <4>1
      <4> QED
        BY <3>2, <4>1, <4>2
    <3> QED
      BY <3>1, <3>2
  <2>3. Rule(h, m + 1) /\ m + 1 \in 0 .. Len(fields)
    BY <2>2
  <2> HIDE DEF Rule, h
  <2> QED
    BY <2>3
<1>3. \E g : Rule(g, Len(fields))
  <2>1. \A m \in 0 .. Len(fields) : m \in S
    <3> HIDE DEF S, Rule
    <3> QED
      BY <1>1, <1>2, Rounds
  <2>2. Len(fields) \in S
    <3> HIDE DEF S
    <3> QED
      BY <2>1
  <2> HIDE DEF Rule
  <2> QED
    BY <2>2
<1>4. Rule(PackLoop(data, space, fields), Len(fields))
  BY <1>3, Zenon DEF PackLoop
<1> QED
  BY <1>4

\* The nested structs that pack writes, one at a time.
LEMMA PackStructsIs ==
    ASSUME NEW data, NEW space, NEW fields, NEW count \in Nat, NEW start
    PROVE  /\ PackStructs(data, space, fields, count, start)[0] = start
           /\ \A i \in 1 .. count :
                 PackStructs(data, space, fields, count, start)[i]
                 = PackStruct(data, space, fields,
                              PackStructs(data, space, fields, count, start)[i - 1])
<1> DEFINE Rule(g, m) ==
             g = [i \in 0 .. m |-> IF i = 0 THEN start
                                   ELSE PackStruct(data, space, fields, g[i - 1])]
           S == {m \in 0 .. count : \E g : Rule(g, m)}
<1>1. 0 \in S
  <2>1. Rule([i \in 0 .. 0 |-> start], 0)
    OBVIOUS
  <2> HIDE DEF Rule
  <2> QED
    BY <2>1
<1>2. ASSUME NEW m \in 0 .. count - 1, m \in S PROVE m + 1 \in S
  <2>1. PICK g : Rule(g, m)
    BY <1>2
  <2> DEFINE h == [i \in 0 .. m + 1 |-> IF i = m + 1 THEN PackStruct(data, space, fields, g[m])
                                        ELSE g[i]]
  <2>2. ASSUME NEW i \in 0 .. m + 1
        PROVE  h[i] = IF i = 0 THEN start ELSE PackStruct(data, space, fields, h[i - 1])
    <3>1. CASE i = m + 1
      BY <3>1
    <3>2. CASE i # m + 1
      <4>1. i \in 0 .. m /\ (i # 0 => i - 1 \in 0 .. m)
        BY <3>2
      <4>2. g[i] = IF i = 0 THEN start ELSE PackStruct(data, space, fields, g[i - 1])
        BY <2>1, <4>1
      <4> QED
        BY <3>2, <4>1, <4>2
    <3> QED
      BY <3>1, <3>2
  <2>3. Rule(h, m + 1) /\ m + 1 \in 0 .. count
    BY <2>2
  <2> HIDE DEF Rule, h
  <2> QED
    BY <2>3
<1>3. \E g : Rule(g, count)
  <2>1. \A m \in 0 .. count : m \in S
    <3> HIDE DEF S, Rule
    <3> QED
      BY <1>1, <1>2, Rounds
  <2>2. count \in S
    <3> HIDE DEF S
    <3> QED
      BY <2>1
  <2> HIDE DEF Rule
  <2> QED
    BY <2>2
<1>4. Rule(PackStructs(data, space, fields, count, start), count)
  BY <1>3, Zenon DEF PackStructs
<1> QED
  BY <1>4

\* The rounds of unpack, one at a time.
LEMMA UnpackLoopIs ==
    ASSUME NEW data, NEW mem, NEW at, NEW fields, Len(fields) \in Nat
    PROVE  /\ UnpackLoop(data, mem, at, fields)[0] = UnpackStart(mem, at)
           /\ \A i \in 1 .. Len(fields) :
                 UnpackLoop(data, mem, at, fields)[i]
                 = UnpackField(data, fields[i], UnpackLoop(data, mem, at, fields)[i - 1])
<1> DEFINE Rule(g, m) ==
             g = [i \in 0 .. m |-> IF i = 0 THEN UnpackStart(mem, at)
                                   ELSE UnpackField(data, fields[i], g[i - 1])]
           S == {m \in 0 .. Len(fields) : \E g : Rule(g, m)}
<1>1. 0 \in S
  <2>1. Rule([i \in 0 .. 0 |-> UnpackStart(mem, at)], 0)
    OBVIOUS
  <2> HIDE DEF Rule
  <2> QED
    BY <2>1
<1>2. ASSUME NEW m \in 0 .. Len(fields) - 1, m \in S PROVE m + 1 \in S
  <2>1. PICK g : Rule(g, m)
    BY <1>2
  <2> DEFINE h == [i \in 0 .. m + 1 |-> IF i = m + 1 THEN UnpackField(data, fields[m + 1], g[m])
                                        ELSE g[i]]
  <2>2. ASSUME NEW i \in 0 .. m + 1
        PROVE  h[i] = IF i = 0 THEN UnpackStart(mem, at) ELSE UnpackField(data, fields[i], h[i - 1])
    <3>1. CASE i = m + 1
      BY <3>1
    <3>2. CASE i # m + 1
      <4>1. i \in 0 .. m /\ (i # 0 => i - 1 \in 0 .. m)
        BY <3>2
      <4>2. g[i] = IF i = 0 THEN UnpackStart(mem, at) ELSE UnpackField(data, fields[i], g[i - 1])
        BY <2>1, <4>1
      <4> QED
        BY <3>2, <4>1, <4>2
    <3> QED
      BY <3>1, <3>2
  <2>3. Rule(h, m + 1) /\ m + 1 \in 0 .. Len(fields)
    BY <2>2
  <2> HIDE DEF Rule, h
  <2> QED
    BY <2>3
<1>3. \E g : Rule(g, Len(fields))
  <2>1. \A m \in 0 .. Len(fields) : m \in S
    <3> HIDE DEF S, Rule
    <3> QED
      BY <1>1, <1>2, Rounds
  <2>2. Len(fields) \in S
    <3> HIDE DEF S
    <3> QED
      BY <2>1
  <2> HIDE DEF Rule
  <2> QED
    BY <2>2
<1>4. Rule(UnpackLoop(data, mem, at, fields), Len(fields))
  BY <1>3, Zenon DEF UnpackLoop
<1> QED
  BY <1>4

\* The nested structs that unpack reads, one at a time.
LEMMA UnpackStructsIs ==
    ASSUME NEW data, NEW fields, NEW count \in Nat, NEW start
    PROVE  /\ UnpackStructs(data, fields, count, start)[0] = start
           /\ \A i \in 1 .. count :
                 UnpackStructs(data, fields, count, start)[i]
                 = UnpackStruct(data, fields, UnpackStructs(data, fields, count, start)[i - 1])
<1> DEFINE Rule(g, m) ==
             g = [i \in 0 .. m |-> IF i = 0 THEN start ELSE UnpackStruct(data, fields, g[i - 1])]
           S == {m \in 0 .. count : \E g : Rule(g, m)}
<1>1. 0 \in S
  <2>1. Rule([i \in 0 .. 0 |-> start], 0)
    OBVIOUS
  <2> HIDE DEF Rule
  <2> QED
    BY <2>1
<1>2. ASSUME NEW m \in 0 .. count - 1, m \in S PROVE m + 1 \in S
  <2>1. PICK g : Rule(g, m)
    BY <1>2
  <2> DEFINE h == [i \in 0 .. m + 1 |-> IF i = m + 1 THEN UnpackStruct(data, fields, g[m])
                                        ELSE g[i]]
  <2>2. ASSUME NEW i \in 0 .. m + 1
        PROVE  h[i] = IF i = 0 THEN start ELSE UnpackStruct(data, fields, h[i - 1])
    <3>1. CASE i = m + 1
      BY <3>1
    <3>2. CASE i # m + 1
      <4>1. i \in 0 .. m /\ (i # 0 => i - 1 \in 0 .. m)
        BY <3>2
      <4>2. g[i] = IF i = 0 THEN start ELSE UnpackStruct(data, fields, g[i - 1])
        BY <2>1, <4>1
      <4> QED
        BY <3>2, <4>1, <4>2
    <3> QED
      BY <3>1, <3>2
  <2>3. Rule(h, m + 1) /\ m + 1 \in 0 .. count
    BY <2>2
  <2> HIDE DEF Rule, h
  <2> QED
    BY <2>3
<1>3. \E g : Rule(g, count)
  <2>1. \A m \in 0 .. count : m \in S
    <3> HIDE DEF S, Rule
    <3> QED
      BY <1>1, <1>2, Rounds
  <2>2. count \in S
    <3> HIDE DEF S
    <3> QED
      BY <2>1
  <2> HIDE DEF Rule
  <2> QED
    BY <2>2
<1>4. Rule(UnpackStructs(data, fields, count, start), count)
  BY <1>3, Zenon DEF UnpackStructs
<1> QED
  BY <1>4

-----------------------------------------------------------------------------
(* The codec: cells                                                         *)

\* The contents of a buffer.
Cells == Seq(Nat)

\* A function on 1 .. n is a sequence.
LEMMA FunctionIsSeq ==
    ASSUME NEW S, NEW n \in Nat, NEW f \in [1 .. n -> S]
    PROVE  f \in Seq(S) /\ Len(f) = n /\ DOMAIN f = 1 .. n
<1>1. f \in UNION {[1 .. m -> S] : m \in Nat}
  OBVIOUS
<1>2. f \in Seq(S)
  BY <1>1, SeqDef, Zenon
<1>3. DOMAIN f = 1 .. Len(f) /\ Len(f) \in Nat /\ DOMAIN f = 1 .. n
  BY <1>2, LenProperties
<1>4. Len(f) = n
  BY <1>3
<1> QED
  BY <1>2, <1>3, <1>4

\* Zeros are cells.
LEMMA ZerosAre ==
    ASSUME NEW n \in Nat
    PROVE  /\ Zeros(n) \in Cells /\ Len(Zeros(n)) = n
           /\ \A i \in 1 .. n : Zeros(n)[i] = 0
<1>1. Zeros(n) \in [1 .. n -> Nat] /\ \A i \in 1 .. n : Zeros(n)[i] = 0
  BY DEF Zeros
<1> QED
  BY <1>1, FunctionIsSeq DEF Cells

\* Cells behind cells.
LEMMA Behind ==
    ASSUME NEW a \in Cells, NEW b \in Cells
    PROVE  /\ a \o b \in Cells
           /\ Len(a \o b) = Len(a) + Len(b)
           /\ Len(a) \in Nat /\ Len(b) \in Nat
           /\ \A i \in 1 .. Len(a) : (a \o b)[i] = a[i]
           /\ \A i \in 1 .. Len(b) : (a \o b)[Len(a) + i] = b[i]
<1>1. Len(a) \in Nat /\ Len(b) \in Nat
  BY LenProperties DEF Cells
<1>2. /\ a \o b \in Cells
      /\ Len(a \o b) = Len(a) + Len(b)
      /\ \A i \in 1 .. Len(a) + Len(b) :
            (a \o b)[i] = IF i <= Len(a) THEN a[i] ELSE b[i - Len(a)]
  BY ConcatProperties DEF Cells
<1>3. ASSUME NEW i \in 1 .. Len(b) PROVE (a \o b)[Len(a) + i] = b[i]
  <2>1. Len(a) + i \in 1 .. Len(a) + Len(b) /\ ~(Len(a) + i <= Len(a)) /\ (Len(a) + i) - Len(a) = i
    BY <1>1
  <2> HIDE DEF Cells
  <2> QED
    BY <1>2, <2>1
<1>4. ASSUME NEW i \in 1 .. Len(a) PROVE (a \o b)[i] = a[i]
  <2>1. i \in 1 .. Len(a) + Len(b) /\ i <= Len(a)
    BY <1>1
  <2> QED
    BY <1>2, <2>1
<1> QED
  BY <1>1, <1>2, <1>3, <1>4

\* Cells behind cells behind cells.
LEMMA Associative ==
    ASSUME NEW a \in Cells, NEW b \in Cells, NEW c \in Cells
    PROVE  (a \o b) \o c = a \o (b \o c)
BY ConcatAssociative DEF Cells

\* What is behind the first cells.
LEMMA FromIs ==
    ASSUME NEW a \in Cells, NEW b \in Cells
    PROVE  From(a \o b, Len(a)) = b
<1> DEFINE c == a \o b
           d == From(c, Len(a))
<1>1. /\ c \in Cells /\ Len(c) = Len(a) + Len(b) /\ Len(a) \in Nat /\ Len(b) \in Nat
      /\ \A i \in 1 .. Len(b) : c[Len(a) + i] = b[i]
  BY Behind
<1> HIDE DEF c
<1>2. \A i \in Len(a) + 1 .. Len(c) : c[i] \in Nat
  BY <1>1, ElementOfSeq DEF Cells
<1>3. /\ d \in Seq(Nat)
      /\ Len(d) = IF Len(a) + 1 <= Len(c) THEN Len(c) - (Len(a) + 1) + 1 ELSE 0
      /\ \A i \in 1 .. Len(c) - (Len(a) + 1) + 1 : d[i] = c[(Len(a) + 1) + i - 1]
  BY <1>1, <1>2, SubSeqProperties DEF From
<1>4. Len(d) = Len(b)
  BY <1>1, <1>3
<1>5. ASSUME NEW i \in 1 .. Len(d) PROVE d[i] = b[i]
  <2>1. /\ i \in 1 .. Len(c) - (Len(a) + 1) + 1 /\ i \in 1 .. Len(b)
        /\ (Len(a) + 1) + i - 1 = Len(a) + i
    BY <1>1, <1>4
  <2> QED
    BY <2>1, <1>1, <1>3
<1>6. d = b
  BY <1>3, <1>4, <1>5, SeqEqual DEF Cells
<1> QED
  BY <1>6 DEF c

\* The first cells of some.
LEMMA CellsOf ==
    ASSUME NEW c \in Cells, NEW m \in Nat, NEW n \in Nat, m + n <= Len(c)
    PROVE  /\ SubSeq(c, m + 1, m + n) \in Cells
           /\ Len(SubSeq(c, m + 1, m + n)) = n
           /\ \A i \in 1 .. n : SubSeq(c, m + 1, m + n)[i] = c[m + i]
<1>1. \A i \in m + 1 .. m + n : c[i] \in Nat
  BY ElementOfSeq, LenProperties DEF Cells
<1> DEFINE d == SubSeq(c, m + 1, m + n)
<1>2. /\ d \in Seq(Nat)
      /\ Len(d) = IF m + 1 <= m + n THEN (m + n) - (m + 1) + 1 ELSE 0
      /\ \A i \in 1 .. (m + n) - (m + 1) + 1 : d[i] = c[(m + 1) + i - 1]
  BY <1>1, SubSeqProperties
<1> HIDE DEF d
<1>3. Len(d) = n
  BY <1>2
<1>4. ASSUME NEW i \in 1 .. n PROVE d[i] = c[m + i]
  <2>1. i \in 1 .. (m + n) - (m + 1) + 1 /\ (m + 1) + i - 1 = m + i
    OBVIOUS
  <2> QED
    BY <2>1, <1>2
<1> QED
  BY <1>2, <1>3, <1>4 DEF d, Cells

\* The first cells are cells.
LEMMA FirstCells ==
    ASSUME NEW c \in Cells, NEW n \in Nat, n <= Len(c)
    PROVE  /\ SubSeq(c, 1, n) \in Cells
           /\ Len(SubSeq(c, 1, n)) = n
           /\ \A i \in 1 .. n : SubSeq(c, 1, n)[i] = c[i]
<1>1. 0 + 1 = 1 /\ 0 + n = n /\ \A i \in 1 .. n : 0 + i = i
  OBVIOUS
<1>2. /\ SubSeq(c, 0 + 1, 0 + n) \in Cells
      /\ Len(SubSeq(c, 0 + 1, 0 + n)) = n
      /\ \A i \in 1 .. n : SubSeq(c, 0 + 1, 0 + n)[i] = c[0 + i]
  <2>1. 0 \in Nat /\ 0 + n <= Len(c)
    OBVIOUS
  <2> QED
    BY <2>1, CellsOf, Zenon
<1> QED
  BY <1>1, <1>2, Zenon

\* Equal cells.
LEMMA SameCells ==
    ASSUME NEW a \in Cells, NEW b \in Cells, Len(a) = Len(b),
           \A i \in 1 .. Len(a) : a[i] = b[i]
    PROVE  a = b
BY SeqEqual DEF Cells

\* What is joined is cells, and grows.
LEMMA JoinedAre ==
    ASSUME NEW s \in Seq(Cells)
    PROVE  /\ Len(s) \in Nat
           /\ \A i \in 1 .. Len(s) : s[i] \in Cells
           /\ \A i \in 0 .. Len(s) : Joined(s)[i] \in Cells
           /\ Join(s) \in Cells
<1>1. Len(s) \in Nat /\ \A i \in 1 .. Len(s) : s[i] \in Cells
  BY LenProperties, ElementOfSeq
<1> DEFINE S == {i \in 0 .. Len(s) : Joined(s)[i] \in Cells}
<1>2. 0 \in S
  <2>1. Joined(s)[0] = <<>> /\ <<>> \in Cells
    BY <1>1, JoinedIs, EmptySeq DEF Cells
  <2> QED
    BY <2>1, <1>1
<1>3. ASSUME NEW i \in 0 .. Len(s) - 1, i \in S PROVE i + 1 \in S
  <2>1. i + 1 \in 1 .. Len(s) /\ i + 1 \in 0 .. Len(s) /\ (i + 1) - 1 = i
    BY <1>1
  <2>2. Joined(s)[i + 1] = Joined(s)[i] \o s[i + 1]
    BY <1>1, <2>1, JoinedIs
  <2>3. Joined(s)[i] \o s[i + 1] \in Cells
    BY <1>1, <1>3, <2>1, Behind
  <2> QED
    BY <2>1, <2>2, <2>3
<1>4. \A i \in 0 .. Len(s) : i \in S
  <2> HIDE DEF S
  <2> QED
    BY <1>1, <1>2, <1>3, Rounds
<1> QED
  BY <1>1, <1>4 DEF Join

\* The cells behind the first rounds.
LEMMA JoinedThen ==
    ASSUME NEW s \in Seq(Cells), NEW i \in 0 .. Len(s)
    PROVE  \E t \in Cells : Join(s) = Joined(s)[i] \o t
<1> DEFINE n == Len(s)
           S == {k \in 0 .. n : \E t \in Cells : Join(s) = Joined(s)[n - k] \o t}
<1>1. n \in Nat /\ Join(s) \in Cells /\ \A j \in 0 .. n : Joined(s)[j] \in Cells
  BY JoinedAre
<1>2. 0 \in S
  <2>1. <<>> \in Cells /\ Join(s) \o <<>> = Join(s)
    BY <1>1, ConcatEmptySeq, EmptySeq DEF Cells
  <2>2. n - 0 = n /\ 0 \in 0 .. n
    BY <1>1
  <2>3. Join(s) = Joined(s)[n - 0] \o <<>>
    BY <2>1, <2>2 DEF Join
  <2> QED
    BY <2>1, <2>2, <2>3
<1>3. ASSUME NEW k \in 0 .. n - 1, k \in S PROVE k + 1 \in S
  <2>1. PICK t \in Cells : Join(s) = Joined(s)[n - k] \o t
    BY <1>3
  <2>2. n - k \in 1 .. n /\ (n - k) - 1 = n - (k + 1) /\ n - (k + 1) \in 0 .. n /\ k + 1 \in 0 .. n
    BY <1>1
  <2>3. Joined(s)[n - k] = Joined(s)[n - (k + 1)] \o s[n - k] /\ s[n - k] \in Cells
    BY <1>1, <2>2, JoinedIs, JoinedAre
  <2>4. (Joined(s)[n - (k + 1)] \o s[n - k]) \o t = Joined(s)[n - (k + 1)] \o (s[n - k] \o t)
    BY <1>1, <2>2, <2>3, Associative
  <2>5. s[n - k] \o t \in Cells
    BY <2>3, Behind
  <2>6. \E u \in Cells : Join(s) = Joined(s)[n - (k + 1)] \o u
    BY <2>1, <2>3, <2>4, <2>5
  <2> QED
    BY <2>2, <2>6
<1>4. \A k \in 0 .. n : k \in S
  <2> HIDE DEF S
  <2> QED
    BY <1>1, <1>2, <1>3, Rounds
<1>5. n - i \in 0 .. n /\ n - (n - i) = i
  BY <1>1
<1>6. n - i \in S
  <2> HIDE DEF S, n
  <2> QED
    BY <1>4, <1>5
<1> QED
  BY <1>5, <1>6

\* A round of what is joined, in the middle of all.
LEMMA JoinedStep ==
    ASSUME NEW s \in Seq(Cells), NEW i \in 1 .. Len(s)
    PROVE  /\ i - 1 \in 0 .. Len(s) /\ i \in 0 .. Len(s) /\ Len(s) \in Nat
           /\ s[i] \in Cells /\ Joined(s)[i - 1] \in Cells /\ Joined(s)[i] \in Cells
           /\ Joined(s)[i] = Joined(s)[i - 1] \o s[i]
           /\ Len(Joined(s)[i]) = Len(Joined(s)[i - 1]) + Len(s[i])
           /\ Len(Joined(s)[i - 1]) \in Nat /\ Len(s[i]) \in Nat
           /\ Len(Joined(s)[i]) <= Len(Join(s))
           /\ \E t \in Cells : Join(s) = Joined(s)[i - 1] \o (s[i] \o t)
<1>1. /\ Len(s) \in Nat /\ s[i] \in Cells /\ \A j \in 0 .. Len(s) : Joined(s)[j] \in Cells
      /\ Join(s) \in Cells
  BY JoinedAre
<1>2. i - 1 \in 0 .. Len(s) /\ i \in 0 .. Len(s)
  BY <1>1
<1>3. Joined(s)[i] = Joined(s)[i - 1] \o s[i]
  BY <1>1, JoinedIs
<1>4. /\ Len(Joined(s)[i]) = Len(Joined(s)[i - 1]) + Len(s[i])
      /\ Len(Joined(s)[i - 1]) \in Nat /\ Len(s[i]) \in Nat
  BY <1>1, <1>2, <1>3, Behind
<1>5. PICK t \in Cells : Join(s) = Joined(s)[i] \o t
  BY <1>2, JoinedThen
<1>6. (Joined(s)[i - 1] \o s[i]) \o t = Joined(s)[i - 1] \o (s[i] \o t)
  BY <1>1, <1>2, Associative
<1>7. Len(Joined(s)[i]) <= Len(Join(s))
  <2>1. Len(Join(s)) = Len(Joined(s)[i]) + Len(t) /\ Len(Joined(s)[i]) \in Nat /\ Len(t) \in Nat
    BY <1>1, <1>2, <1>5, Behind
  <2> QED
    BY <2>1
<1>8. \E u \in Cells : Join(s) = Joined(s)[i - 1] \o (s[i] \o u)
  BY <1>3, <1>5, <1>6
<1> QED
  BY <1>1, <1>2, <1>3, <1>4, <1>7, <1>8

-----------------------------------------------------------------------------
(* The codec: fields                                                        *)

\* A field that is not nested and what it holds.
IsField(f, x) == f \in MsgField /\ (f.type = "FIXED" \/ f.param > 0) /\ Holds(f, x)

\* One cell.
LEMMA OneCell ==
    ASSUME NEW n \in Nat
    PROVE  <<n>> \in Cells /\ Len(<<n>>) = 1 /\ <<n>>[1] = n
BY DEF Cells

\* The three kinds of field.
LEMMA Kinds ==
    ASSUME NEW f, NEW x, IsField(f, x)
    PROVE  /\ f.param \in Nat /\ x \in Cells /\ Len(x) \in Nat
           /\ \/ /\ f.type = "FIXED" /\ Len(x) = 1
                 /\ PrefixSize(f) = 0 /\ SizeCells(f) = 0 /\ FieldSize(f) = 1
                 /\ FieldLayout(f, x) = x /\ FieldWire(f, x) = x
                 /\ StaticCount(f, Len(x)) = 1
              \/ /\ f.type = "STRING" /\ Len(x) <= f.param /\ f.param > 0
                 /\ \A i \in 1 .. Len(x) : x[i] # 0
                 /\ PrefixSize(f) = 1 /\ SizeCells(f) = 0 /\ FieldSize(f) = f.param
                 /\ FieldLayout(f, x) = x \o Zeros(f.param - Len(x))
                 /\ FieldWire(f, x) = <<Len(x)>> \o x
                 /\ StaticCount(f, Len(x)) = f.param
              \/ /\ f.type = "ARRAY" /\ Len(x) <= f.param /\ f.param > 0
                 /\ PrefixSize(f) = 1 /\ SizeCells(f) = 1 /\ FieldSize(f) = 1 + f.param
                 /\ FieldLayout(f, x) = (<<Len(x)>> \o x) \o Zeros(f.param - Len(x))
                 /\ FieldWire(f, x) = <<Len(x)>> \o x
                 /\ StaticCount(f, Len(x)) = f.param
<1>1. /\ f.param \in Nat /\ f.type \in {"FIXED", "STRING", "ARRAY", "NESTED"}
      /\ f.type = "FIXED" \/ f.param > 0
  BY DEF IsField, MsgField
<1>2. x \in Cells /\ f.type # "NESTED"
  BY <1>1 DEF IsField, Holds, Cells
<1>3. Len(x) \in Nat /\ DOMAIN x = 1 .. Len(x)
  BY <1>2, LenProperties DEF Cells
<1>4. CASE f.type = "FIXED"
  <2>1. Len(x) = 1
    BY <1>4 DEF IsField, Holds
  <2> QED
    BY <1>1, <1>2, <1>3, <1>4, <2>1
       DEF PrefixSize, SizeCells, FieldSize, FieldLayout, FieldWire, StaticCount
<1>5. CASE f.type = "STRING"
  <2>1. Len(x) <= f.param /\ \A i \in 1 .. Len(x) : x[i] # 0
    BY <1>3, <1>5 DEF IsField, Holds
  <2> QED
    BY <1>1, <1>2, <1>3, <1>5, <2>1
       DEF PrefixSize, SizeCells, FieldSize, FieldLayout, FieldWire, StaticCount
<1>6. CASE f.type = "ARRAY"
  <2>1. Len(x) <= f.param
    BY <1>6 DEF IsField, Holds
  <2> QED
    BY <1>1, <1>2, <1>3, <1>6, <2>1
       DEF PrefixSize, SizeCells, FieldSize, FieldLayout, FieldWire, StaticCount
<1> QED
  BY <1>1, <1>2, <1>4, <1>5, <1>6

\* The cells of a field on the wire.
LEMMA FieldWireIs ==
    ASSUME NEW f, NEW x, IsField(f, x)
    PROVE  /\ FieldWire(f, x) \in Cells
           /\ PrefixSize(f) \in {0, 1} /\ Len(x) \in Nat
           /\ Len(FieldWire(f, x)) = PrefixSize(f) + Len(x)
           /\ PrefixSize(f) = 1 => FieldWire(f, x)[1] = Len(x)
           /\ PrefixSize(f) = 0 => Len(x) = 1
           /\ \A i \in 1 .. Len(x) : FieldWire(f, x)[PrefixSize(f) + i] = x[i]
<1>1. Len(x) \in Nat /\ x \in Cells
  BY Kinds
<1>2. /\ PrefixSize(f) \in {0, 1}
      /\ PrefixSize(f) = 0 => Len(x) = 1
      /\ FieldWire(f, x) = IF PrefixSize(f) = 0 THEN x ELSE <<Len(x)>> \o x
  BY Kinds
<1>3. CASE PrefixSize(f) = 0
  BY <1>1, <1>2, <1>3
<1>4. CASE PrefixSize(f) = 1
  <2> DEFINE w == <<Len(x)>> \o x
             c == <<Len(x)>>
  <2>0. c \in Cells /\ Len(c) = 1 /\ c[1] = Len(x)
    BY <1>1, OneCell
  <2> HIDE DEF c
  <2>1. /\ w \in Cells /\ Len(w) = 1 + Len(x) /\ w[1] = Len(x)
        /\ \A i \in 1 .. Len(x) : w[1 + i] = x[i]
    <3>1. w = c \o x
      BY DEF c
    <3>2. /\ w \in Cells /\ Len(w) = 1 + Len(x)
          /\ \A i \in 1 .. 1 : w[i] = c[i]
          /\ \A i \in 1 .. Len(x) : w[1 + i] = x[i]
      <4> HIDE DEF w
      <4>1. /\ w \in Cells /\ Len(w) = Len(c) + Len(x)
            /\ \A i \in 1 .. Len(c) : w[i] = c[i]
            /\ \A i \in 1 .. Len(x) : w[Len(c) + i] = x[i]
        BY <1>1, <2>0, <3>1, Behind
      <4> QED
        BY <2>0, <4>1
    <3> QED
      BY <1>1, <2>0, <3>2
  <2>2. FieldWire(f, x) = w
    BY <1>2, <1>4
  <2> HIDE DEF w
  <2> QED
    BY <1>1, <1>2, <1>4, <2>1, <2>2
<1> QED
  BY <1>2, <1>3, <1>4

\* The cells of a field in memory: the size of an array, the elements, and zeros.
LEMMA FieldLayoutIs ==
    ASSUME NEW f, NEW x, IsField(f, x)
    PROVE  /\ FieldLayout(f, x) \in Cells
           /\ SizeCells(f) \in {0, 1} /\ Len(x) \in Nat /\ StaticCount(f, Len(x)) \in Nat
           /\ Len(x) <= StaticCount(f, Len(x))
           /\ FieldSize(f) = SizeCells(f) + StaticCount(f, Len(x))
           /\ Len(FieldLayout(f, x)) = FieldSize(f)
           /\ SizeCells(f) = 1 => FieldLayout(f, x)[1] = Len(x)
           /\ \A i \in 1 .. Len(x) : FieldLayout(f, x)[SizeCells(f) + i] = x[i]
           /\ \A i \in Len(x) + 1 .. StaticCount(f, Len(x)) :
                 FieldLayout(f, x)[SizeCells(f) + i] = 0
<1> DEFINE n == Len(x)
           p == f.param
           c == <<n>>
           z == Zeros(p - n)
<1>1. n \in Nat /\ x \in Cells /\ p \in Nat /\ c \in Cells /\ Len(c) = 1 /\ c[1] = n
  BY Kinds, OneCell
<1>2. CASE f.type = "FIXED"
  <2>1. /\ FieldLayout(f, x) = x /\ n = 1 /\ SizeCells(f) = 0 /\ FieldSize(f) = 1
        /\ StaticCount(f, Len(x)) = 1
    BY <1>2, Kinds
  <2> QED
    BY <1>1, <2>1
<1>3. CASE f.type = "STRING"
  <2>1. /\ SizeCells(f) = 0 /\ FieldSize(f) = p /\ StaticCount(f, Len(x)) = p /\ n <= p
        /\ FieldLayout(f, x) = x \o z
    BY <1>3, Kinds
  <2>2. p - n \in Nat
    BY <1>1, <2>1
  <2>3. z \in Cells /\ Len(z) = p - n /\ \A i \in 1 .. p - n : z[i] = 0
    BY <2>2, ZerosAre
  <2> HIDE DEF z, n, p, c
  <2> DEFINE l == x \o z
  <2>6. FieldLayout(f, x) = l /\ n + (p - n) = p /\ l = x \o z
    BY <1>1, <2>1
  <2> HIDE DEF l
  <2>4. /\ l \in Cells /\ Len(l) = n + (p - n)
        /\ \A i \in 1 .. n : l[i] = x[i]
        /\ \A i \in 1 .. p - n : l[n + i] = z[i]
    <3>0. x \in Cells /\ z \in Cells /\ l = x \o z
      BY <1>1, <2>3, <2>6
    <3>1. /\ l \in Cells /\ Len(l) = Len(x) + Len(z)
          /\ \A i \in 1 .. Len(x) : l[i] = x[i]
          /\ \A i \in 1 .. Len(z) : l[Len(x) + i] = z[i]
      BY <3>0, Behind
    <3>2. Len(x) = n /\ Len(z) = p - n
      BY <2>3 DEF n
    <3> QED
      BY <3>1, <3>2, Zenon
  <2>5. ASSUME NEW i \in n + 1 .. p PROVE l[i] = 0
    <3>1. i - n \in 1 .. p - n /\ n + (i - n) = i
      BY <1>1, <2>1
    <3> QED
      BY <2>3, <2>4, <3>1
  <2> QED
    BY <1>1, <2>1, <2>4, <2>5, <2>6 DEF n
<1>4. CASE f.type = "ARRAY"
  <2>1. /\ SizeCells(f) = 1 /\ FieldSize(f) = 1 + p /\ StaticCount(f, Len(x)) = p /\ n <= p
        /\ FieldLayout(f, x) = (c \o x) \o z
    BY <1>4, Kinds
  <2>2. p - n \in Nat
    BY <1>1, <2>1
  <2>3. z \in Cells /\ Len(z) = p - n /\ \A i \in 1 .. p - n : z[i] = 0
    BY <2>2, ZerosAre
  <2> HIDE DEF z, n, p, c
  <2> DEFINE d == c \o x
             l == d \o z
  <2>4. /\ d \in Cells /\ Len(d) = 1 + n /\ d[1] = n
        /\ \A i \in 1 .. n : d[1 + i] = x[i]
    <3>1. /\ d \in Cells /\ Len(d) = Len(c) + Len(x)
          /\ \A i \in 1 .. Len(c) : d[i] = c[i]
          /\ \A i \in 1 .. Len(x) : d[Len(c) + i] = x[i]
      BY <1>1, Behind
    <3> HIDE DEF d
    <3> QED
      BY <1>1, <3>1 DEF n
  <2>5. FieldLayout(f, x) = l /\ (1 + n) + (p - n) = 1 + p /\ l = d \o z
    BY <1>1, <2>1
  <2> HIDE DEF d, l
  <2>6. /\ l \in Cells /\ Len(l) = (1 + n) + (p - n)
        /\ \A i \in 1 .. 1 + n : l[i] = d[i]
        /\ \A i \in 1 .. p - n : l[(1 + n) + i] = z[i]
    <3>0. d \in Cells /\ z \in Cells /\ l = d \o z
      BY <2>3, <2>4, <2>5
    <3>1. /\ l \in Cells /\ Len(l) = Len(d) + Len(z)
          /\ \A i \in 1 .. Len(d) : l[i] = d[i]
          /\ \A i \in 1 .. Len(z) : l[Len(d) + i] = z[i]
      BY <3>0, Behind
    <3>2. Len(d) = 1 + n /\ Len(z) = p - n
      BY <2>3, <2>4
    <3> QED
      BY <3>1, <3>2, Zenon
  <2>7. ASSUME NEW i \in n + 1 .. p PROVE l[1 + i] = 0
    <3>1. i - n \in 1 .. p - n /\ (1 + n) + (i - n) = 1 + i
      BY <1>1, <2>1
    <3> QED
      BY <2>3, <2>6, <3>1
  <2>8. ASSUME NEW i \in 1 .. n PROVE l[1 + i] = x[i]
    <3>1. 1 + i \in 1 .. 1 + n
      BY <1>1
    <3> QED
      BY <2>4, <2>6, <3>1
  <2>9. l[1] = n
    BY <1>1, <2>4, <2>6
  <2> QED
    BY <1>1, <2>1, <2>5, <2>6, <2>7, <2>8, <2>9 DEF n
<1> QED
  BY <1>2, <1>3, <1>4, Kinds

\* pack counts the elements of a field, and finds them.
LEMMA PackedCountIs ==
    ASSUME NEW f, NEW x, IsField(f, x), NEW t \in Cells, NEW at,
           at = FieldLayout(f, x) \o t
    PROVE  /\ PackedCount(f, at) = Len(x)
           /\ SubSeq(at, SizeCells(f) + 1, SizeCells(f) + Len(x)) = x
<1> DEFINE n == Len(x)
           l == FieldLayout(f, x)
           z == SizeCells(f)
           m == StaticCount(f, Len(x))
<1>1. /\ l \in Cells /\ z \in {0, 1} /\ n \in Nat /\ m \in Nat /\ n <= m
      /\ Len(l) = z + m
      /\ z = 1 => l[1] = n
      /\ \A i \in 1 .. n : l[z + i] = x[i]
      /\ \A i \in n + 1 .. m : l[z + i] = 0
  BY FieldLayoutIs
<1>2. x \in Cells /\ f.param \in Nat
  BY Kinds
<1>3. /\ f.type = "FIXED" => n = 1
      /\ f.type = "STRING" => z = 0 /\ m = f.param /\ \A i \in 1 .. n : x[i] # 0
      /\ f.type = "ARRAY" => z = 1
      /\ f.type \in {"FIXED", "STRING", "ARRAY"}
  BY Kinds
<1>4. at = l \o t
  OBVIOUS
<1> HIDE DEF n, l, z, m
<1>5. /\ at \in Cells /\ Len(at) = (z + m) + Len(t) /\ Len(t) \in Nat
      /\ \A i \in 1 .. z + m : at[i] = l[i]
  <2>0. l \in Cells /\ t \in Cells
    BY <1>1
  <2>1. /\ at \in Cells /\ Len(at) = Len(l) + Len(t) /\ Len(t) \in Nat
        /\ \A i \in 1 .. Len(l) : at[i] = l[i]
    BY <1>4, <2>0, Behind
  <2>2. Len(l) = z + m
    BY <1>1
  <2> QED
    BY <2>1, <2>2, Zenon
<1>6. SubSeq(at, z + 1, z + n) = x
  <2>1. z \in Nat /\ z + n <= Len(at)
    BY <1>1, <1>5
  <2>2. /\ SubSeq(at, z + 1, z + n) \in Cells
        /\ Len(SubSeq(at, z + 1, z + n)) = n
        /\ \A i \in 1 .. n : SubSeq(at, z + 1, z + n)[i] = at[z + i]
    BY <1>1, <1>5, <2>1, CellsOf
  <2>3. ASSUME NEW i \in 1 .. n PROVE at[z + i] = x[i]
    <3>1. z + i \in 1 .. z + m
      BY <1>1
    <3> QED
      BY <1>1, <1>5, <3>1
  <2> QED
    BY <1>2, <2>2, <2>3, SameCells DEF n
<1>7. PackedCount(f, at) = n
  <2>1. CASE f.type = "FIXED"
    BY <1>3, <2>1 DEF PackedCount
  <2>2. CASE f.type = "ARRAY"
    <3>1. at[1] = n
      BY <1>1, <1>3, <1>5, <2>2
    <3> QED
      BY <2>2, <3>1 DEF PackedCount
  <2>3. CASE f.type = "STRING"
    <3> DEFINE s == SubSeq(at, 1, f.param)
    <3>1. z = 0 /\ m = f.param
      BY <1>3, <2>3
    <3>2. /\ s \in Cells /\ Len(s) = m
          /\ \A i \in 1 .. m : s[i] = at[i]
      <4>1. m <= Len(at)
        BY <1>1, <1>5, <3>1
      <4>2. /\ SubSeq(at, 1, m) \in Cells
            /\ Len(SubSeq(at, 1, m)) = m
            /\ \A i \in 1 .. m : SubSeq(at, 1, m)[i] = at[i]
        BY <1>1, <1>5, <4>1, FirstCells
      <4> QED
        BY <3>1, <4>2
    <3>3. ASSUME NEW i \in 1 .. n PROVE s[i] # 0
      <4>1. i \in 1 .. m /\ i \in 1 .. z + m /\ z + i = i
        BY <1>1, <3>1
      <4>2. s[i] = at[i] /\ at[i] = l[i] /\ l[i] = x[i]
        BY <1>1, <1>5, <3>2, <4>1
      <4>3. x[i] # 0
        BY <1>3, <2>3
      <4> QED
        BY <4>2, <4>3
    <3>4. ASSUME NEW i \in n + 1 .. m PROVE s[i] = 0
      <4>1. i \in 1 .. m /\ i \in 1 .. z + m /\ z + i = i
        BY <1>1, <3>1
      <4> QED
        BY <1>1, <1>5, <3>2, <4>1
    <3>5. DOMAIN s = 1 .. m
      BY <3>2, LenProperties DEF Cells
    <3>6. PackedCount(f, at) = StringLength(s)
      BY <2>3 DEF PackedCount
    <3> HIDE DEF s
    <3>7. CASE n = m
      <4>1. ~\E i \in DOMAIN s : s[i] = 0
        BY <3>3, <3>5, <3>7
      <4> QED
        BY <3>2, <3>6, <3>7, <4>1 DEF StringLength
    <3>8. CASE n < m
      <4> DEFINE P(i) == s[i] = 0 /\ \A j \in 1 .. i - 1 : s[j] # 0
      <4>1. n + 1 \in 1 .. m /\ n + 1 \in n + 1 .. m /\ (n + 1) - 1 = n
        BY <1>1, <3>8
      <4>2. n + 1 \in DOMAIN s /\ P(n + 1)
        BY <3>3, <3>4, <3>5, <4>1
      <4>3. ASSUME NEW i \in DOMAIN s, P(i) PROVE i = n + 1
        <5>1. i \in 1 .. m
          BY <3>5
        <5>2. ~(i <= n)
          BY <3>3, <4>3, <5>1
        <5>3. ~(n + 1 <= i - 1)
          BY <1>1, <3>4, <4>1, <4>3, <5>1
        <5> QED
          BY <1>1, <5>1, <5>2, <5>3
      <4>4. (CHOOSE i \in DOMAIN s : P(i)) = n + 1
        <5> HIDE DEF P
        <5> QED
          BY <4>2, <4>3
      <4>5. StringLength(s) = (n + 1) - 1
        BY <4>2, <4>4 DEF StringLength
      <4> QED
        BY <3>6, <4>1, <4>5
    <3> QED
      BY <1>1, <3>7, <3>8
  <2> QED
    BY <1>3, <2>1, <2>2, <2>3
<1> QED
  BY <1>6, <1>7 DEF n, z

-----------------------------------------------------------------------------
(* The codec: structs                                                       *)

\* The fields of a struct without a nested one, and what they hold.
AreFields(fields, values) ==
    /\ fields \in Seq(MsgField)
    /\ \A i \in 1 .. Len(fields) : IsField(fields[i], values[i])

\* The two forms of each field.
Layouts(fields, values) == [i \in DOMAIN fields |-> FieldLayout(fields[i], values[i])]
Wires(fields, values) == [i \in DOMAIN fields |-> FieldWire(fields[i], values[i])]

\* What pack returns when the wire form is what it had to write.
PackedSo(space, read, wire) ==
    IF Len(wire) <= space THEN [ok |-> TRUE, read |-> read, wire |-> wire] ELSE Failed

\* The two forms of a struct are the forms of its fields, one behind the other.
LEMMA StructIs ==
    ASSUME NEW fields, NEW values, AreFields(fields, values)
    PROVE  /\ Len(fields) \in Nat
           /\ Layouts(fields, values) \in Seq(Cells) /\ Wires(fields, values) \in Seq(Cells)
           /\ Len(Layouts(fields, values)) = Len(fields)
           /\ Len(Wires(fields, values)) = Len(fields)
           /\ \A i \in 1 .. Len(fields) :
                 /\ Layouts(fields, values)[i] = FieldLayout(fields[i], values[i])
                 /\ Wires(fields, values)[i] = FieldWire(fields[i], values[i])
           /\ StructLayout(fields, values) = Join(Layouts(fields, values))
           /\ StructWire(fields, values) = Join(Wires(fields, values))
           /\ StructLayout(fields, values) \in Cells
           /\ StructWire(fields, values) \in Cells
<1> DEFINE l == Layouts(fields, values)
           w == Wires(fields, values)
           n == Len(fields)
<1>1. n \in Nat /\ DOMAIN fields = 1 .. n
  BY LenProperties DEF AreFields
<1>2. ASSUME NEW i \in 1 .. n
      PROVE  /\ FieldLayout(fields[i], values[i]) \in Cells
             /\ FieldWire(fields[i], values[i]) \in Cells
  BY FieldLayoutIs, FieldWireIs DEF AreFields
<1>3. /\ l \in [1 .. n -> Cells]
      /\ \A i \in 1 .. n : l[i] = FieldLayout(fields[i], values[i])
  BY <1>1, <1>2 DEF Layouts
<1>4. /\ w \in [1 .. n -> Cells]
      /\ \A i \in 1 .. n : w[i] = FieldWire(fields[i], values[i])
  BY <1>1, <1>2 DEF Wires
<1>5. StructLayout(fields, values) = Join(l) /\ StructWire(fields, values) = Join(w)
  BY DEF StructLayout, StructWire, Layouts, Wires
<1> HIDE DEF l, w
<1>6. l \in Seq(Cells) /\ Len(l) = n
  BY <1>1, <1>3, FunctionIsSeq
<1>7. w \in Seq(Cells) /\ Len(w) = n
  BY <1>1, <1>4, FunctionIsSeq
<1>8. Join(l) \in Cells /\ Join(w) \in Cells
  BY <1>6, <1>7, JoinedAre
<1> QED
  BY <1>1, <1>3, <1>4, <1>5, <1>6, <1>7, <1>8 DEF l, w

\* A round of pack writes the wire form of its field, if that fits.
LEMMA PackFieldIs ==
    ASSUME NEW f, NEW x, IsField(f, x), NEW t \in Cells, NEW data, NEW read \in Nat,
           From(data, read) = FieldLayout(f, x) \o t,
           NEW space \in Nat, NEW wire \in Cells
    PROVE  PackField(data, space, f, PackedSo(space, read, wire))
           = PackedSo(space, read + FieldSize(f), wire \o FieldWire(f, x))
<1> DEFINE n == Len(x)
           p == PrefixSize(f)
           w == FieldWire(f, x)
           done == PackedSo(space, read, wire)
           next == PackField(data, space, f, done)
           head == IF p = 1 THEN <<n>> ELSE <<>>
<1>1. w \in Cells /\ p \in {0, 1} /\ n \in Nat /\ Len(w) = p + n
  BY FieldWireIs
<1>2. /\ FieldSize(f) = SizeCells(f) + StaticCount(f, n)
      /\ SizeCells(f) \in Nat /\ StaticCount(f, n) \in Nat
  BY FieldLayoutIs
<1>3. PackedCount(f, From(data, read)) = n
      /\ SubSeq(From(data, read), SizeCells(f) + 1, SizeCells(f) + n) = x
  BY PackedCountIs
<1>4. (wire \o head) \o x = wire \o w
  <2>1. x \in Cells /\ <<n>> \in Cells
    BY <1>1, Kinds, OneCell
  <2>2. CASE p = 0
    <3>1. FieldWire(f, x) = x
      BY <2>2 DEF FieldWire, PrefixSize
    <3>2. wire \o <<>> = wire
      BY ConcatEmptySeq DEF Cells
    <3> QED
      BY <2>2, <3>1, <3>2
  <2>3. CASE p = 1
    <3>1. w = <<n>> \o x /\ head = <<n>>
      BY <2>3, Kinds
    <3>2. \A c \in Cells : (wire \o c) \o x = wire \o (c \o x)
      BY <2>1, Associative
    <3> QED
      BY <2>1, <3>1, <3>2
  <2> QED
    BY <1>1, <2>2, <2>3
<1>5. Len(wire) \in Nat /\ wire \o w \in Cells
  BY <1>1, Behind
<1>6. Len(wire \o w) = Len(wire) + (p + n)
  <2>1. w \in Cells
    BY <1>1
  <2>2. Len(wire \o w) = Len(wire) + Len(w)
    BY <2>1, Behind
  <2> QED
    BY <1>1, <2>2, Zenon
<1>7. CASE ~(Len(wire) <= space)
  <2>1. done = Failed /\ ~(Len(wire \o w) <= space)
    BY <1>1, <1>5, <1>6, <1>7 DEF PackedSo
  <2>2. ~done.ok
    BY <2>1 DEF Failed
  <2>3. next = Failed
    BY <2>2 DEF PackField
  <2> QED
    BY <2>1, <2>3 DEF PackedSo
<1>8. CASE Len(wire) <= space
  <2>1. done = [ok |-> TRUE, read |-> read, wire |-> wire]
    BY <1>8 DEF PackedSo
  <2>2. done.ok /\ done.read = read /\ done.wire = wire
    BY <2>1
  <2> HIDE DEF done
  <2> DEFINE good == [ok   |-> TRUE,
                      read |-> read + SizeCells(f) + StaticCount(f, n),
                      wire |-> (wire \o head) \o x]
  <2>3. next = IF ~Fits(f, n, space - Len(wire)) THEN Failed ELSE good
    BY <1>3, <2>2, Zenon DEF PackField
  <2>4. Fits(f, n, space - Len(wire)) <=> Len(wire \o w) <= space
    BY <1>1, <1>5, <1>6 DEF Fits
  <2>5. read + SizeCells(f) + StaticCount(f, n) = read + FieldSize(f)
    BY <1>2
  <2>6. good = [ok |-> TRUE, read |-> read + FieldSize(f), wire |-> wire \o w]
    BY <1>4, <2>5
  <2> HIDE DEF good, next
  <2>7. next = PackedSo(space, read + FieldSize(f), wire \o w)
    BY <2>3, <2>4, <2>6 DEF PackedSo
  <2> QED
    BY <2>7 DEF next, done
<1> QED
  BY <1>7, <1>8

\* pack writes the wire form of a struct without a nested one, if that fits.
LEMMA PackFieldsIs ==
    ASSUME NEW fields, NEW values, AreFields(fields, values), NEW t \in Cells,
           NEW space \in Nat
    PROVE  PackFields(StructLayout(fields, values) \o t, space, fields)
           = PackedSo(space, Len(StructLayout(fields, values)), StructWire(fields, values))
<1> DEFINE data == StructLayout(fields, values) \o t
           l == Layouts(fields, values)
           w == Wires(fields, values)
           n == Len(fields)
           So(i) == PackedSo(space, Len(Joined(l)[i]), Joined(w)[i])
           S == {i \in 0 .. n : PackLoop(data, space, fields)[i] = So(i)}
<1>1. /\ n \in Nat /\ l \in Seq(Cells) /\ Len(l) = n /\ w \in Seq(Cells) /\ Len(w) = n
      /\ \A i \in 1 .. n : /\ l[i] = FieldLayout(fields[i], values[i])
                           /\ w[i] = FieldWire(fields[i], values[i])
      /\ StructLayout(fields, values) = Join(l) /\ StructWire(fields, values) = Join(w)
  BY StructIs
<1> HIDE DEF l, w, data
<1>2. 0 \in S
  <2>1. Joined(l)[0] = <<>> /\ Joined(w)[0] = <<>>
    BY <1>1, JoinedIs
  <2>2. PackedSo(space, 0, <<>>) = PackStart
    BY DEF PackedSo, PackStart
  <2>3. So(0) = PackStart
    BY <2>1, <2>2
  <2>4. PackLoop(data, space, fields)[0] = PackStart
    BY <1>1, PackLoopIs
  <2> QED
    BY <1>1, <2>3, <2>4
<1>3. ASSUME NEW i \in 0 .. n - 1, i \in S PROVE i + 1 \in S
  <2> DEFINE k == i + 1
             f == fields[k]
             x == values[k]
  <2>1. k \in 1 .. n /\ k \in 0 .. n /\ k - 1 = i
    BY <1>1
  <2>2. IsField(f, x)
    BY <2>1 DEF AreFields
  <2>3. l[k] = FieldLayout(f, x) /\ w[k] = FieldWire(f, x)
    BY <1>1, <2>1
  <2>4. PackLoop(data, space, fields)[k] = PackField(data, space, f, So(i))
    BY <1>1, <1>3, <2>1, PackLoopIs
  <2> HIDE DEF k
  <2>5. /\ Joined(l)[i] \in Cells /\ l[k] \in Cells
        /\ Len(Joined(l)[k]) = Len(Joined(l)[i]) + Len(l[k]) /\ Len(Joined(l)[i]) \in Nat
        /\ \E u \in Cells : Join(l) = Joined(l)[i] \o (l[k] \o u)
    BY <1>1, <2>1, JoinedStep
  <2>6. Joined(w)[k] = Joined(w)[i] \o w[k] /\ Joined(w)[i] \in Cells
    BY <1>1, <2>1, JoinedStep
  <2>7. PICK u \in Cells : Join(l) = Joined(l)[i] \o (l[k] \o u)
    BY <2>5
  <2>8. From(data, Len(Joined(l)[i])) = l[k] \o (u \o t) /\ u \o t \in Cells
    <3>1. u \o t \in Cells /\ l[k] \o u \in Cells /\ l[k] \o (u \o t) \in Cells
      BY <2>5, Behind
    <3>2. (l[k] \o u) \o t = l[k] \o (u \o t)
      BY <2>5, Associative
    <3>3. (Joined(l)[i] \o (l[k] \o u)) \o t = Joined(l)[i] \o ((l[k] \o u) \o t)
      BY <2>5, <3>1, Associative
    <3>4. data = Joined(l)[i] \o (l[k] \o (u \o t))
      BY <1>1, <2>7, <3>2, <3>3 DEF data
    <3> QED
      BY <2>5, <3>1, <3>4, FromIs
  <2>9. Len(l[k]) = FieldSize(f)
    BY <2>2, <2>3, FieldLayoutIs
  <2>10. PackField(data, space, f, So(i))
         = PackedSo(space, Len(Joined(l)[i]) + FieldSize(f), Joined(w)[i] \o FieldWire(f, x))
    <3>1. From(data, Len(Joined(l)[i])) = FieldLayout(f, x) \o (u \o t)
      BY <2>3, <2>8
    <3>2. Joined(w)[i] \in Cells /\ Len(Joined(l)[i]) \in Nat /\ u \o t \in Cells
      BY <2>5, <2>6, <2>8
    <3> DEFINE read == Len(Joined(l)[i])
               wire == Joined(w)[i]
               rest == u \o t
    <3>3. read \in Nat /\ wire \in Cells /\ rest \in Cells
      BY <3>2
    <3>4. From(data, read) = FieldLayout(f, x) \o rest
      BY <3>1
    <3> HIDE DEF f, x, read, wire, rest
    <3>5. PackField(data, space, f, PackedSo(space, read, wire))
          = PackedSo(space, read + FieldSize(f), wire \o FieldWire(f, x))
      BY <2>2, <3>3, <3>4, PackFieldIs
    <3> QED
      BY <3>5 DEF read, wire
  <2>11. PackField(data, space, f, So(i)) = So(k)
    BY <2>3, <2>5, <2>6, <2>9, <2>10
  <2>12. PackLoop(data, space, fields)[k] = So(k)
    BY <2>4, <2>11
  <2> HIDE DEF So
  <2> QED
    BY <2>1, <2>12 DEF k
<1>4. \A i \in 0 .. n : i \in S
  <2> HIDE DEF S
  <2> QED
    BY <1>1, <1>2, <1>3, Rounds
<1>5. PackLoop(data, space, fields)[n] = So(n)
  <2> HIDE DEF So
  <2> QED
    BY <1>1, <1>4
<1> QED
  BY <1>1, <1>5 DEF PackFields, Join, data

\* The nested field is a place in the format, or the one behind it.
LEMMA NestIs ==
    ASSUME NEW fields \in Seq(MsgField)
    PROVE  Nest(fields) \in 1 .. Len(fields) + 1 /\ Len(fields) \in Nat
<1> DEFINE n == Len(fields)
           T == {i \in 1 .. n + 1 : i \in DOMAIN fields => fields[i].type = "NESTED"}
           P(i) == /\ i \in DOMAIN fields => fields[i].type = "NESTED"
                   /\ \A j \in 1 .. i - 1 : fields[j].type # "NESTED"
<1>1. n \in Nat /\ DOMAIN fields = 1 .. n
  BY LenProperties
<1> HIDE DEF n
<1>2. n + 1 \in T /\ T \subseteq Nat
  BY <1>1
<1>3. PICK m \in T : \A k \in T : m <= k
  <2> HIDE DEF T
  <2> QED
    BY <1>2, LeastNumber
<1>4. m \in 1 .. n + 1 /\ P(m)
  <2>1. m \in 1 .. n + 1 /\ (m \in DOMAIN fields => fields[m].type = "NESTED")
    BY <1>3
  <2>2. ASSUME NEW j \in 1 .. m - 1 PROVE fields[j].type # "NESTED"
    <3>1. j \in 1 .. n + 1 /\ j \in DOMAIN fields /\ ~(m <= j)
      BY <1>1, <2>1
    <3> QED
      BY <1>3, <3>1
  <2> QED
    BY <2>1, <2>2
<1>5. Nest(fields) = CHOOSE i \in 1 .. n + 1 : P(i)
  BY DEF Nest, n
<1>6. Nest(fields) \in 1 .. n + 1
  <2> HIDE DEF P
  <2> QED
    BY <1>4, <1>5
<1> QED
  BY <1>1, <1>6 DEF n

\* The fields of a packet and of its nested structs.
LEMMA PacketIs ==
    ASSUME NEW p, IsPacket(p)
    PROVE  /\ AreFields(Plain(p.format), p.value)
           /\ IsNested(p.format) =>
                /\ Nested(p.format) # <<>>
                /\ p.format[Nest(p.format)].param \in Nat
                /\ Len(p.structs) <= p.format[Nest(p.format)].param
                /\ \A j \in 1 .. Len(p.structs) : AreFields(Nested(p.format), p.structs[j])
                /\ Nested(p.format) \in Seq(MsgField)
           /\ ~IsNested(p.format) => p.structs = <<>>
           /\ Len(p.structs) \in Nat /\ DOMAIN p.structs = 1 .. Len(p.structs)
<1> DEFINE fields == p.format
           n == Len(fields)
           m == Nest(fields)
           plain == Plain(fields)
           nested == Nested(fields)
<1>1. fields \in Seq(MsgField)
  BY DEF IsPacket
<1>2. /\ \A i \in DOMAIN fields : fields[i].type = "FIXED" \/ fields[i].param > 0
      /\ AllHold(plain, p.value)
      /\ p.structs \in Seq(Seq(Seq(Nat)))
      /\ IsNested(fields) =>
            /\ Len(p.structs) <= fields[m].param
            /\ nested # <<>>
            /\ \A j \in DOMAIN p.structs : AllHold(nested, p.structs[j])
      /\ ~IsNested(fields) => p.structs = <<>>
  BY DEF IsPacket
<1> HIDE DEF fields
<1>3. n \in Nat /\ DOMAIN fields = 1 .. n /\ m \in 1 .. n + 1
  BY <1>1, LenProperties, NestIs
<1>4. \A i \in 1 .. n : fields[i] \in MsgField /\ (fields[i].type = "FIXED" \/ fields[i].param > 0)
  BY <1>1, <1>2, <1>3, ElementOfSeq
<1>5. Len(p.structs) \in Nat /\ DOMAIN p.structs = 1 .. Len(p.structs)
  BY <1>2, LenProperties
<1> HIDE DEF n, m
<1>6. ASSUME NEW a \in 1 .. n + 1, NEW b \in 0 .. n,
             NEW part, part = SubSeq(fields, a, b), NEW values, AllHold(part, values)
      PROVE  AreFields(part, values)
  <2>1. \A i \in a .. b : fields[i] \in MsgField
    BY <1>3, <1>4
  <2>2. /\ part \in Seq(MsgField)
        /\ Len(part) = IF a <= b THEN b - a + 1 ELSE 0
        /\ \A i \in 1 .. b - a + 1 : part[i] = fields[a + i - 1]
    BY <1>3, <1>6, <2>1, SubSeqProperties
  <2>3. DOMAIN part = 1 .. Len(part)
    BY <2>2, LenProperties
  <2>4. ASSUME NEW i \in 1 .. Len(part) PROVE IsField(part[i], values[i])
    <3>1. i \in 1 .. b - a + 1 /\ a + i - 1 \in 1 .. n
      BY <1>3, <2>2
    <3>2. part[i] \in MsgField /\ (part[i].type = "FIXED" \/ part[i].param > 0)
      BY <1>4, <2>2, <3>1
    <3>3. Holds(part[i], values[i])
      BY <1>6, <2>3 DEF AllHold
    <3> QED
      BY <3>2, <3>3 DEF IsField
  <2> QED
    BY <2>2, <2>4 DEF AreFields
<1>7. AreFields(plain, p.value)
  <2>1. plain = SubSeq(fields, 1, m - 1) /\ 1 \in 1 .. n + 1 /\ m - 1 \in 0 .. n
    BY <1>3 DEF Plain, m
  <2> HIDE DEF plain
  <2> QED
    BY <1>2, <1>6, <2>1 DEF plain
<1>8. ASSUME IsNested(fields) PROVE m \in 1 .. n /\ fields[m].param \in Nat
  <2>1. m \in 1 .. n
    BY <1>3, <1>8 DEF IsNested, m
  <2> QED
    BY <1>4, <2>1 DEF MsgField
<1>9. ASSUME IsNested(fields)
      PROVE  /\ \A j \in 1 .. Len(p.structs) : AreFields(nested, p.structs[j])
             /\ nested \in Seq(MsgField)
  <2>1. nested = SubSeq(fields, m + 1, n) /\ m + 1 \in 1 .. n + 1 /\ n \in 0 .. n
    BY <1>3, <1>8, <1>9 DEF Nested, m, n
  <2>2. \A i \in m + 1 .. n : fields[i] \in MsgField
    BY <1>3, <1>4
  <2>3. nested \in Seq(MsgField)
    BY <1>3, <2>1, <2>2, SubSeqProperties
  <2> HIDE DEF nested
  <2> QED
    BY <1>2, <1>5, <1>6, <1>9, <2>1, <2>3 DEF nested
<1> QED
  BY <1>2, <1>5, <1>7, <1>8, <1>9 DEF fields, m

\* A struct with nothing in it is as wide as any other.
LEMMA BlankIs ==
    ASSUME NEW fields \in Seq(MsgField)
    PROVE  Blank(fields) \in Cells /\ Len(Blank(fields)) \in Nat
<1> DEFINE b == [i \in DOMAIN fields |-> Zeros(FieldSize(fields[i]))]
           n == Len(fields)
<1>1. n \in Nat /\ DOMAIN fields = 1 .. n
  BY LenProperties
<1>2. ASSUME NEW i \in 1 .. n PROVE Zeros(FieldSize(fields[i])) \in Cells
  <2>1. fields[i] \in MsgField
    BY <1>2, ElementOfSeq
  <2>2. fields[i].param \in Nat
    BY <2>1 DEF MsgField
  <2>3. FieldSize(fields[i]) \in Nat
    BY <2>2 DEF FieldSize
  <2> QED
    BY <2>3, ZerosAre
<1>3. b \in [1 .. n -> Cells]
  BY <1>1, <1>2
<1>4. b \in Seq(Cells)
  BY <1>1, <1>3, FunctionIsSeq
<1>5. Join(b) \in Cells
  BY <1>4, JoinedAre
<1> QED
  BY <1>5, LenProperties DEF Blank, Cells

-----------------------------------------------------------------------------
(* The codec: what pack writes                                              *)

\* For a nested struct pack writes the struct at the place it reads, and stays there.
LEMMA PackStructIs ==
    ASSUME NEW fields, NEW values, AreFields(fields, values), NEW t \in Cells,
           NEW data, NEW read \in Nat,
           From(data, read) = StructLayout(fields, values) \o t,
           NEW space \in Nat, NEW wire \in Cells
    PROVE  PackStruct(data, space, fields, PackedSo(space, read, wire))
           = PackedSo(space, read, wire \o StructWire(fields, values))
<1> DEFINE l == StructLayout(fields, values)
           w == StructWire(fields, values)
           done == PackedSo(space, read, wire)
           next == PackStruct(data, space, fields, done)
<1>1. w \in Cells
  BY StructIs
<1>2. Len(wire) \in Nat /\ Len(w) \in Nat /\ Len(wire \o w) = Len(wire) + Len(w)
  BY <1>1, Behind
<1>3. CASE ~(Len(wire) <= space)
  <2>1. done = Failed /\ ~(Len(wire \o w) <= space)
    BY <1>2, <1>3 DEF PackedSo
  <2>2. ~done.ok
    BY <2>1 DEF Failed
  <2>3. next = Failed
    BY <2>2 DEF PackStruct
  <2> QED
    BY <2>1, <2>3 DEF PackedSo
<1>4. CASE Len(wire) <= space
  <2>1. done = [ok |-> TRUE, read |-> read, wire |-> wire]
    BY <1>4 DEF PackedSo
  <2>2. done.ok /\ done.read = read /\ done.wire = wire
    BY <2>1
  <2>3. space - Len(wire) \in Nat
    BY <1>2, <1>4
  <2>4. PackFields(l \o t, space - Len(wire), fields) = PackedSo(space - Len(wire), Len(l), w)
    BY <2>3, PackFieldsIs
  <2> DEFINE inner == PackFields(From(data, read), space - Len(wire), fields)
             out == [ok |-> TRUE, read |-> read + NestedSize, wire |-> wire \o inner.wire]
  <2>5. inner = PackedSo(space - Len(wire), Len(l), w)
    BY <2>4
  <2>6. next = IF ~inner.ok THEN Failed ELSE out
    <3> HIDE DEF done
    <3> QED
      BY <2>2, Zenon DEF PackStruct
  <2>7. CASE Len(w) <= space - Len(wire)
    <3>1. inner = [ok |-> TRUE, read |-> Len(l), wire |-> w]
      BY <2>5, <2>7 DEF PackedSo
    <3>2. inner.ok /\ inner.wire = w
      BY <3>1
    <3>3. read + NestedSize = read
      BY DEF NestedSize
    <3>4. next = [ok |-> TRUE, read |-> read, wire |-> wire \o w]
      BY <2>6, <3>2, <3>3
    <3>5. Len(wire \o w) <= space
      BY <1>2, <2>7
    <3> QED
      BY <3>4, <3>5 DEF PackedSo
  <2>8. CASE ~(Len(w) <= space - Len(wire))
    <3>1. inner = Failed
      BY <2>5, <2>8 DEF PackedSo
    <3>2. ~inner.ok
      BY <3>1 DEF Failed
    <3>3. ~(Len(wire \o w) <= space)
      BY <1>2, <2>8
    <3> QED
      BY <2>6, <3>2, <3>3 DEF PackedSo
  <2> QED
    BY <2>7, <2>8
<1> QED
  BY <1>3, <1>4

\* At its place pack finds a struct, of which these are the wire forms.
FirstIs(data, read, fields, wires) ==
    \A j \in 1 .. Len(wires) : \E values : \E t \in Cells :
       /\ AreFields(fields, values)
       /\ From(data, read) = StructLayout(fields, values) \o t
       /\ wires[j] = StructWire(fields, values)

\* For a nested field pack writes the first struct again and again.
LEMMA PackStructsAre ==
    ASSUME NEW fields, NEW wires \in Seq(Cells),
           NEW data, NEW read \in Nat, NEW space \in Nat, NEW wire \in Cells,
           FirstIs(data, read, fields, wires)
    PROVE  PackStructs(data, space, fields, Len(wires), PackedSo(space, read, wire))[Len(wires)]
           = PackedSo(space, read, wire \o Join(wires))
<1> DEFINE count == Len(wires)
           start == PackedSo(space, read, wire)
           loop == PackStructs(data, space, fields, count, start)
           So(j) == PackedSo(space, read, wire \o Joined(wires)[j])
           S == {j \in 0 .. count : loop[j] = So(j)}
<1>0. count \in Nat
  BY LenProperties
<1> HIDE DEF count
<1>1. 0 \in S
  <2>1. Joined(wires)[0] = <<>>
    BY <1>0, JoinedIs DEF count
  <2>2. wire \o <<>> = wire
    BY ConcatEmptySeq DEF Cells
  <2>3. So(0) = start
    BY <2>1, <2>2
  <2>4. loop[0] = start
    <3>1. \A r : PackStructs(data, space, fields, count, r)[0] = r
      BY <1>0, PackStructsIs
    <3> QED
      BY <3>1, Zenon
  <2> QED
    BY <1>0, <2>3, <2>4
<1>2. ASSUME NEW j \in 0 .. count - 1, j \in S PROVE j + 1 \in S
  <2> DEFINE k == j + 1
  <2>1. k \in 1 .. count /\ k \in 0 .. count /\ k - 1 = j
    BY <1>0
  <2>2. loop[k] = PackStruct(data, space, fields, So(j))
    <3>1. loop[k] = PackStruct(data, space, fields, loop[k - 1])
      <4>1. k \in 1 .. count
        BY <2>1
      <4> HIDE DEF k, start
      <4> QED
        BY <1>0, <4>1, PackStructsIs
    <3> QED
      BY <1>2, <2>1, <3>1
  <2> HIDE DEF k
  <2>3. /\ Joined(wires)[k] = Joined(wires)[j] \o wires[k]
        /\ Joined(wires)[j] \in Cells /\ wires[k] \in Cells
    BY <2>1, JoinedStep DEF count
  <2>4. PICK values : \E t \in Cells :
              /\ AreFields(fields, values)
              /\ From(data, read) = StructLayout(fields, values) \o t
              /\ wires[k] = StructWire(fields, values)
    BY <2>1 DEF count, FirstIs
  <2> DEFINE sofar == wire \o Joined(wires)[j]
  <2>5. sofar \in Cells /\ sofar \o wires[k] = wire \o Joined(wires)[k]
    <3>1. sofar \in Cells
      BY <2>3, Behind
    <3>2. (wire \o Joined(wires)[j]) \o wires[k] = wire \o (Joined(wires)[j] \o wires[k])
      <4>1. Joined(wires)[j] \in Cells /\ wires[k] \in Cells
        BY <2>3
      <4> QED
        BY <4>1, Associative
    <3> QED
      BY <2>3, <3>1, <3>2
  <2> HIDE DEF sofar
  <2>6. PackStruct(data, space, fields, PackedSo(space, read, sofar))
        = PackedSo(space, read, sofar \o StructWire(fields, values))
    <3>1. AreFields(fields, values) /\ sofar \in Cells
      BY <2>4, <2>5
    <3>2. \E t \in Cells : From(data, read) = StructLayout(fields, values) \o t
      BY <2>4
    <3> QED
      BY <3>1, <3>2, PackStructIs
  <2>7. So(j) = PackedSo(space, read, sofar)
    BY DEF sofar
  <2>8. loop[k] = So(k)
    BY <2>2, <2>4, <2>5, <2>6, <2>7
  <2> HIDE DEF So, loop
  <2> QED
    BY <2>1, <2>8 DEF k
<1>3. \A j \in 0 .. count : j \in S
  <2> HIDE DEF S
  <2> QED
    BY <1>0, <1>1, <1>2, Rounds
<1>4. loop[count] = So(count)
  <2> HIDE DEF So, loop
  <2> QED
    BY <1>0, <1>3
<1> QED
  BY <1>4 DEF Join, count

\* pack writes the packet, with the first struct in the place of each, if that fits.
LEMMA PackIs ==
    ASSUME NEW p, IsPacket(p), NEW space \in Nat
    PROVE  \E read :
              Pack(Layout(p.format, p.value, p.structs), space, p.format)
              = PackedSo(space, read,
                         Wire(p.format, p.value, [j \in DOMAIN p.structs |-> p.structs[1]]))
<1> DEFINE fields == p.format
           plain == Plain(fields)
           nested == Nested(fields)
           n == Len(p.structs)
           same == [j \in DOMAIN p.structs |-> p.structs[1]]
           data == Layout(fields, p.value, p.structs)
           l0 == StructLayout(plain, p.value)
           w0 == StructWire(plain, p.value)
           done == PackFields(data, space, plain)
<1>1. AreFields(plain, p.value) /\ n \in Nat /\ DOMAIN p.structs = 1 .. n
  BY PacketIs
<1> HIDE DEF plain, nested
<1>2. l0 \in Cells /\ w0 \in Cells
  BY <1>1, StructIs
<1>3. CASE ~IsNested(fields)
  <2>1. data = l0 \o <<>> /\ Wire(fields, p.value, same) = w0 \o <<>>
    BY <1>3 DEF Layout, Wire, plain
  <2>2. <<>> \in Cells /\ w0 \o <<>> = w0
    BY <1>2, EmptySeq, ConcatEmptySeq DEF Cells
  <2>3. PackFields(l0 \o <<>>, space, plain) = PackedSo(space, Len(l0), w0)
    BY <1>1, <2>2, PackFieldsIs
  <2>4. Pack(data, space, fields) = done
    BY <1>3 DEF Pack, plain
  <2> QED
    BY <2>1, <2>2, <2>3, <2>4
<1>4. CASE IsNested(fields)
  <2> DEFINE layouts == [j \in DOMAIN p.structs |-> StructLayout(nested, p.structs[j])]
             wires == [j \in DOMAIN p.structs |-> StructWire(nested, p.structs[1])]
             c == <<n>>
             z == Zeros((fields[Nest(fields)].param - n) * Len(Blank(nested)))
             t == (c \o Join(layouts)) \o z
  <2>1. \A j \in 1 .. n : AreFields(nested, p.structs[j])
    BY <1>4, PacketIs DEF nested
  <2>2. data = l0 \o t
    BY <1>4 DEF Layout, plain, nested
  <2>3. Wire(fields, p.value, same) = w0 \o (c \o Join(wires))
    <3>1. DOMAIN same = DOMAIN p.structs /\ \A j \in DOMAIN p.structs : same[j] = p.structs[1]
      OBVIOUS
    <3>2. [j \in DOMAIN same |-> StructWire(nested, same[j])] = wires
      BY <3>1
    <3>3. Len(same) = n
      <4>1. same \in [1 .. n -> {p.structs[1]}]
        BY <1>1
      <4> HIDE DEF same, n
      <4> QED
        BY <1>1, <4>1, FunctionIsSeq
    <3> HIDE DEF same, n
    <3> QED
      BY <1>4, <3>2, <3>3 DEF Wire, plain, nested
  <2>4. layouts \in Seq(Cells) /\ Len(layouts) = n
        /\ \A j \in 1 .. n : layouts[j] = StructLayout(nested, p.structs[j])
    <3>1. layouts \in [1 .. n -> Cells]
      BY <1>1, <2>1, StructIs
    <3> QED
      BY <1>1, <3>1, FunctionIsSeq
  <2>5. wires \in Seq(Cells) /\ Len(wires) = n
        /\ \A j \in 1 .. n : wires[j] = StructWire(nested, p.structs[1])
    <3>1. ASSUME NEW j \in 1 .. n PROVE StructWire(nested, p.structs[1]) \in Cells
      <4>1. 1 \in 1 .. n
        BY <1>1
      <4> QED
        BY <2>1, <4>1, StructIs
    <3>2. wires \in [1 .. n -> Cells]
      BY <1>1, <3>1
    <3> QED
      BY <1>1, <3>2, FunctionIsSeq
  <2> HIDE DEF layouts, wires, n, fields
  <2>6. z \in Cells /\ c \in Cells /\ Len(c) = 1 /\ c[1] = n
    <3>1. fields[Nest(fields)].param \in Nat /\ n <= fields[Nest(fields)].param
      BY <1>4, PacketIs DEF fields, n
    <3>2. Len(Blank(nested)) \in Nat
      BY <1>4, PacketIs, BlankIs DEF fields, nested
    <3>3. (fields[Nest(fields)].param - n) * Len(Blank(nested)) \in Nat
      <4>1. fields[Nest(fields)].param - n \in Nat
        BY <1>1, <3>1
      <4> QED
        BY <3>2, <4>1
    <3> QED
      BY <1>1, <3>3, ZerosAre, OneCell
  <2>7. t \in Cells /\ c \o Join(layouts) \in Cells /\ Join(layouts) \in Cells
        /\ Join(layouts) \o z \in Cells
    BY <2>4, <2>6, JoinedAre, Behind
  <2>8. t = c \o (Join(layouts) \o z)
    BY <2>6, <2>7, Associative
  <2> HIDE DEF c, z, t, l0, w0, data
  <2>9. done = PackedSo(space, Len(l0), w0)
    BY <1>1, <2>2, <2>7, PackFieldsIs DEF l0, w0
  <2>10. From(data, Len(l0)) = t /\ t[1] = n
    <3>1. From(l0 \o t, Len(l0)) = t
      BY <1>2, <2>7, FromIs
    <3>2. \A i \in 1 .. Len(c) : (c \o (Join(layouts) \o z))[i] = c[i]
      BY <2>6, <2>7, Behind
    <3>3. t[1] = c[1]
      BY <2>6, <2>8, <3>2
    <3> QED
      BY <2>2, <2>6, <3>1, <3>3
  <2>11. Len(w0) \in Nat /\ Len(l0) \in Nat
    BY <1>2, LenProperties DEF Cells
  <2> DEFINE w1 == w0 \o c
             final == Wire(fields, p.value, same)
  <2>12. w1 \in Cells /\ Len(w1) = Len(w0) + 1 /\ Join(wires) \in Cells
         /\ final = w1 \o Join(wires) /\ Len(w1) <= Len(final) /\ Append(w0, n) = w1
    <3>1. Join(wires) \in Cells
      BY <2>5, JoinedAre
    <3>2. w1 \in Cells /\ Len(w1) = Len(w0) + Len(c)
      BY <1>2, <2>6, Behind
    <3>3. Len(w1) = Len(w0) + 1
      BY <2>6, <3>2
    <3>4. final = w1 \o Join(wires)
      BY <1>2, <2>3, <2>6, <3>1, Associative
    <3>5. Append(w0, n) = w1
      BY <1>1, <1>2, AppendIsConcat DEF Cells, c
    <3> HIDE DEF w1, final
    <3>6. Len(w1 \o Join(wires)) = Len(w1) + Len(Join(wires)) /\ Len(Join(wires)) \in Nat
          /\ Len(w1) \in Nat
      BY <3>1, <3>2, Behind
    <3>7. Len(w1) <= Len(final)
      BY <3>4, <3>6
    <3> QED
      BY <3>1, <3>2, <3>3, <3>4, <3>5, <3>7
  <2>15. SUFFICES \E read : Pack(data, space, fields) = PackedSo(space, read, final)
    BY DEF data, fields
  <2> HIDE DEF w1
  <2>13. CASE ~(Len(w0) <= space)
    <3>1. done = Failed /\ ~done.ok
      BY <2>9, <2>13 DEF PackedSo, Failed
    <3>2. Pack(data, space, fields) = Failed
      BY <3>1 DEF Pack, plain
    <3>3. ~(Len(final) <= space)
      <4>1. Len(final) \in Nat
        BY <2>12, Behind, LenProperties DEF Cells
      <4> HIDE DEF final
      <4> QED
        BY <2>11, <2>12, <2>13, <4>1
    <3>4. PackedSo(space, 0, final) = Failed
      BY <3>3 DEF PackedSo
    <3> QED
      BY <3>2, <3>4
  <2>14. CASE Len(w0) <= space
    <3>1. done = [ok |-> TRUE, read |-> Len(l0), wire |-> w0]
      BY <2>9, <2>14 DEF PackedSo
    <3>2. done.ok /\ done.read = Len(l0) /\ done.wire = w0
      BY <3>1
    <3> DEFINE start == [ok |-> TRUE, read |-> Len(l0) + 1, wire |-> w1]
               loop == PackStructs(data, space, nested, n, start)
    <3>3. Pack(data, space, fields) = IF space - Len(w0) < 1 THEN Failed ELSE loop[n]
      <4> HIDE DEF done
      <4>1. From(data, done.read)[1] = n
        BY <2>10, <3>2
      <4>2. [ok |-> TRUE, read |-> done.read + 1, wire |-> Append(done.wire, n)] = start
        BY <2>12, <3>2
      <4> HIDE DEF start
      <4> QED
        BY <1>4, <2>10, <3>2, <4>1, <4>2, Zenon DEF Pack, done, plain, nested
    <3>4. CASE space - Len(w0) < 1
      <4>1. Pack(data, space, fields) = Failed
        BY <3>3, <3>4
      <4>2. ~(Len(final) <= space)
        <5>1. Len(final) \in Nat
          BY <2>12, Behind, LenProperties DEF Cells
        <5> HIDE DEF final
        <5> QED
          BY <2>11, <2>12, <3>4, <5>1
      <4>3. PackedSo(space, 0, final) = Failed
        BY <4>2 DEF PackedSo
      <4> QED
        BY <4>1, <4>3
    <3>5. CASE ~(space - Len(w0) < 1)
      <4>1. Pack(data, space, fields) = loop[n]
        BY <3>3, <3>5
      <4>2. start = PackedSo(space, Len(l0) + 1, w1)
        <5>1. Len(w1) <= space
          BY <2>11, <2>12, <3>5
        <5> QED
          BY <5>1 DEF PackedSo
      <4>3. From(data, Len(l0) + 1) = Join(layouts) \o z
        <5>1. data = (l0 \o c) \o (Join(layouts) \o z)
          BY <1>2, <2>2, <2>6, <2>7, <2>8, Associative
        <5>2. l0 \o c \in Cells /\ Len(l0 \o c) = Len(l0) + Len(c)
          BY <1>2, <2>6, Behind
        <5>3. From((l0 \o c) \o (Join(layouts) \o z), Len(l0 \o c)) = Join(layouts) \o z
          BY <2>7, <5>2, FromIs
        <5> QED
          BY <2>6, <5>1, <5>2, <5>3
      <4>4. ASSUME NEW j \in 1 .. n
            PROVE  \E values : \E u \in Cells :
                      /\ AreFields(nested, values)
                      /\ From(data, Len(l0) + 1) = StructLayout(nested, values) \o u
                      /\ wires[j] = StructWire(nested, values)
        <5>1. 1 \in 1 .. n /\ 1 - 1 = 0
          BY <1>1 DEF n
        <5>2. PICK u \in Cells : Join(layouts) = Joined(layouts)[0] \o (layouts[1] \o u)
          BY <2>4, <5>1, JoinedStep
        <5>3. Joined(layouts)[0] = <<>> /\ layouts[1] \in Cells
          BY <2>4, <5>1, JoinedIs, JoinedAre
        <5>4. <<>> \o (layouts[1] \o u) = layouts[1] \o u /\ u \o z \in Cells
          BY <2>6, <5>3, Behind, ConcatEmptySeq DEF Cells
        <5>5. (layouts[1] \o u) \o z = layouts[1] \o (u \o z)
          BY <2>6, <5>3, Associative
        <5>6. From(data, Len(l0) + 1) = StructLayout(nested, p.structs[1]) \o (u \o z)
          BY <2>4, <4>3, <5>1, <5>2, <5>3, <5>4, <5>5
        <5> QED
          BY <2>1, <2>5, <5>1, <5>4, <5>6 DEF n
      <4>5. loop[n] = PackedSo(space, Len(l0) + 1, w1 \o Join(wires))
        <5> DEFINE read == Len(l0) + 1
        <5>1. read \in Nat /\ n \in Nat
          BY <1>1, <2>11 DEF n
        <5>2. FirstIs(data, read, nested, wires)
          BY <2>5, <4>4 DEF FirstIs
        <5> HIDE DEF start, read
        <5>3. wires \in Seq(Cells) /\ w1 \in Cells
          BY <2>5, <2>12
        <5>4. PackStructs(data, space, nested, Len(wires), PackedSo(space, read, w1))[Len(wires)]
              = PackedSo(space, read, w1 \o Join(wires))
          BY <5>1, <5>2, <5>3, PackStructsAre
        <5> QED
          BY <2>5, <4>2, <5>4 DEF read
      <4> HIDE DEF final, loop
      <4>6. Pack(data, space, fields) = PackedSo(space, Len(l0) + 1, final)
        BY <2>12, <4>1, <4>5
      <4> QED
        BY <4>6
    <3> QED
      BY <3>4, <3>5
  <2> QED
    BY <2>13, <2>14
<1> QED
  BY <1>3, <1>4 DEF fields

-----------------------------------------------------------------------------
(* The codec: what unpack reads                                             *)

\* What was received behind the first cells is the beginning of w.
Arrives(data, read, w) == \A j \in 1 .. Len(w) : read + j <= Len(data) => data[read + j] = w[j]

\* What unpack returns when it has to read the first cells.
UnpackedSo(data, read, written, mem) ==
    IF read <= Len(data)
    THEN [ok |-> TRUE, read |-> read, written |-> written, mem |-> mem]
    ELSE Failed

\* What is behind the cells that were read.
LEMMA FromAre ==
    ASSUME NEW data \in Cells, NEW read \in Nat, read <= Len(data)
    PROVE  /\ From(data, read) \in Cells /\ Len(data) \in Nat
           /\ Len(From(data, read)) = Len(data) - read
           /\ \A j \in 1 .. Len(data) - read : From(data, read)[j] = data[read + j]
<1> DEFINE n == Len(data) - read
<1>1. Len(data) \in Nat
  BY LenProperties DEF Cells
<1>2. n \in Nat /\ read + n = Len(data)
  BY <1>1
<1>3. From(data, read) = SubSeq(data, read + 1, read + n)
  BY <1>2 DEF From
<1> HIDE DEF n
<1>4. read + n <= Len(data)
  BY <1>1, <1>2
<1>5. /\ SubSeq(data, read + 1, read + n) \in Cells
      /\ Len(SubSeq(data, read + 1, read + n)) = n
      /\ \A i \in 1 .. n : SubSeq(data, read + 1, read + n)[i] = data[read + i]
  BY <1>2, <1>4, CellsOf
<1>6. /\ From(data, read) \in Cells
      /\ Len(From(data, read)) = n
      /\ \A i \in 1 .. n : From(data, read)[i] = data[read + i]
  BY <1>3, <1>5
<1> QED
  BY <1>1, <1>6 DEF n

\* The parts of what arrives.
LEMMA ArrivesPart ==
    ASSUME NEW data \in Cells, NEW read \in Nat, NEW a \in Cells, NEW b \in Cells,
           Arrives(data, read, a \o b)
    PROVE  Arrives(data, read, a) /\ Arrives(data, read + Len(a), b)
<1>1. /\ Len(a \o b) = Len(a) + Len(b) /\ Len(a) \in Nat /\ Len(b) \in Nat
      /\ \A i \in 1 .. Len(a) : (a \o b)[i] = a[i]
      /\ \A i \in 1 .. Len(b) : (a \o b)[Len(a) + i] = b[i]
  BY Behind
<1>2. \A j \in 1 .. Len(a) + Len(b) : read + j <= Len(data) => data[read + j] = (a \o b)[j]
  BY <1>1 DEF Arrives
<1>3. ASSUME NEW j \in 1 .. Len(a), read + j <= Len(data) PROVE data[read + j] = a[j]
  <2>1. j \in 1 .. Len(a) + Len(b)
    BY <1>1
  <2> QED
    BY <1>1, <1>2, <1>3, <2>1
<1>4. ASSUME NEW j \in 1 .. Len(b), (read + Len(a)) + j <= Len(data)
      PROVE  data[(read + Len(a)) + j] = b[j]
  <2>1. Len(a) + j \in 1 .. Len(a) + Len(b) /\ (read + Len(a)) + j = read + (Len(a) + j)
    BY <1>1
  <2> QED
    BY <1>1, <1>2, <1>4, <2>1
<1> QED
  BY <1>3, <1>4 DEF Arrives

\* A round of unpack reads the wire form of its field, if that has arrived.
LEMMA UnpackFieldIs ==
    ASSUME NEW f, NEW x, IsField(f, x), NEW data \in Cells, NEW read \in Nat,
           Arrives(data, read, FieldWire(f, x)), NEW written \in Nat, NEW mem
    PROVE  UnpackField(data, f, UnpackedSo(data, read, written, mem))
           = UnpackedSo(data, read + Len(FieldWire(f, x)), written + FieldSize(f),
                        PutField(mem, written, f, x))
<1> DEFINE n == Len(x)
           p == PrefixSize(f)
           w == FieldWire(f, x)
           done == UnpackedSo(data, read, written, mem)
           next == UnpackField(data, f, done)
           at == From(data, read)
           count == IF p = 1 THEN at[1] ELSE 1
           put == PutField(mem, written, f, x)
           out == [ok      |-> TRUE,
                   read    |-> read + p + count,
                   written |-> written + SizeCells(f) + StaticCount(f, count),
                   mem     |-> PutField(mem, written, f, SubSeq(at, p + 1, p + count))]
<1>1. /\ w \in Cells /\ p \in {0, 1} /\ n \in Nat /\ Len(w) = p + n
      /\ p = 1 => w[1] = n
      /\ p = 0 => n = 1
      /\ \A i \in 1 .. n : w[p + i] = x[i]
  BY FieldWireIs
<1>2. /\ FieldSize(f) = SizeCells(f) + StaticCount(f, n)
      /\ SizeCells(f) \in Nat /\ StaticCount(f, n) \in Nat
  BY FieldLayoutIs
<1>3. x \in Cells /\ Len(data) \in Nat
  BY Kinds, LenProperties DEF Cells
<1>4. CASE ~(read <= Len(data))
  <2>1. done = Failed /\ ~(read + Len(w) <= Len(data))
    BY <1>1, <1>3, <1>4 DEF UnpackedSo
  <2>2. ~done.ok
    BY <2>1 DEF Failed
  <2>3. next = Failed
    BY <2>2 DEF UnpackField
  <2> QED
    BY <2>1, <2>3 DEF UnpackedSo
<1>5. CASE read <= Len(data)
  <2>1. done = [ok |-> TRUE, read |-> read, written |-> written, mem |-> mem]
    BY <1>5 DEF UnpackedSo
  <2>2. done.ok /\ done.read = read /\ done.written = written /\ done.mem = mem
    BY <2>1
  <2>3. /\ at \in Cells /\ Len(at) = Len(data) - read
        /\ \A j \in 1 .. Len(data) - read : at[j] = data[read + j]
    BY <1>5, FromAre
  <2> HIDE DEF n, p, w, at
  <2>4. \A j \in 1 .. p + n : j <= Len(data) - read => at[j] = w[j]
    <3>1. \A j \in 1 .. p + n : read + j <= Len(data) => data[read + j] = w[j]
      BY <1>1 DEF Arrives, w
    <3>2. ASSUME NEW j \in 1 .. p + n, j <= Len(data) - read PROVE at[j] = w[j]
      <4>1. j \in 1 .. Len(data) - read /\ read + j <= Len(data)
        BY <1>1, <1>3, <3>2
      <4> QED
        BY <2>3, <3>1, <4>1
    <3> QED
      BY <3>2
  <2>5. next = IF ~Enough(at, p) \/ ~Enough(at, p + count) THEN Failed ELSE out
    <3> HIDE DEF done
    <3> QED
      BY <2>2, Zenon DEF UnpackField, at, p
  <2>6. Enough(at, p) => count = n
    <3>1. CASE p = 0
      BY <1>1, <3>1
    <3>2. CASE p = 1
      <4>1. 1 \in 1 .. p + n
        BY <1>1, <3>2
      <4> QED
        BY <1>1, <1>3, <2>3, <2>4, <3>2, <4>1 DEF Enough
    <3> QED
      BY <1>1, <3>1, <3>2
  <2> HIDE DEF next, done, count, out
  <2>7. CASE ~(p + n <= Len(data) - read)
    <3>1. next = Failed
      BY <1>1, <1>3, <2>3, <2>5, <2>6, <2>7 DEF Enough
    <3>2. ~(read + Len(w) <= Len(data))
      BY <1>1, <1>3, <2>7
    <3> QED
      BY <3>1, <3>2 DEF UnpackedSo, next, done, w
  <2>8. CASE p + n <= Len(data) - read
    <3>1. Enough(at, p) /\ Enough(at, p + n) /\ count = n
      BY <1>1, <1>3, <2>3, <2>6, <2>8 DEF Enough
    <3>2. next = out
      BY <2>5, <3>1
    <3>3. SubSeq(at, p + 1, p + n) = x
      <4>1. p \in Nat /\ p + n <= Len(at)
        BY <1>1, <2>3, <2>8
      <4>2. /\ SubSeq(at, p + 1, p + n) \in Cells
            /\ Len(SubSeq(at, p + 1, p + n)) = n
            /\ \A i \in 1 .. n : SubSeq(at, p + 1, p + n)[i] = at[p + i]
        BY <1>1, <2>3, <4>1, CellsOf
      <4>3. ASSUME NEW i \in 1 .. n PROVE at[p + i] = x[i]
        <5>1. p + i \in 1 .. p + n /\ p + i <= Len(data) - read
          BY <1>1, <1>3, <2>8
        <5> QED
          BY <1>1, <2>4, <5>1
      <4> QED
        BY <1>3, <4>2, <4>3, SameCells DEF n
    <3>4. /\ read + p + n = read + Len(w)
          /\ written + SizeCells(f) + StaticCount(f, n) = written + FieldSize(f)
      BY <1>1, <1>2
    <3>5. out = [ok      |-> TRUE,
                 read    |-> read + Len(w),
                 written |-> written + FieldSize(f),
                 mem     |-> put]
      BY <3>1, <3>3, <3>4 DEF out
    <3>6. read + Len(w) <= Len(data)
      BY <1>1, <1>3, <2>8
    <3> HIDE DEF put
    <3>7. next = UnpackedSo(data, read + Len(w), written + FieldSize(f), put)
      BY <3>2, <3>5, <3>6 DEF UnpackedSo
    <3> QED
      BY <3>7 DEF next, done, w, put
  <2> QED
    BY <2>7, <2>8
<1> QED
  BY <1>4, <1>5

-----------------------------------------------------------------------------
(* The codec: what unpack leaves in memory                                  *)

\* Memory with n cells, of which the first ones are filled.
Filled(cells, n) == [i \in 1 .. n |-> IF i <= Len(cells) THEN cells[i] ELSE 0]

\* Memory with n cells.
IsMemory(mem, n) == mem = [i \in 1 .. n |-> mem[i]]

\* memcpy inside of the memory.
LEMMA PutIs ==
    ASSUME NEW n \in Nat, NEW mem, IsMemory(mem, n),
           NEW at \in Nat, NEW cells \in Cells, at + Len(cells) <= n
    PROVE  Put(mem, at, cells)
           = [i \in 1 .. n |->
                IF i \in at + 1 .. at + Len(cells) THEN cells[i - at] ELSE mem[i]]
<1>1. Len(cells) \in Nat /\ DOMAIN mem = 1 .. n
  BY LenProperties DEF Cells, IsMemory
<1>2. DOMAIN mem \cup (at + 1 .. at + Len(cells)) = 1 .. n
  BY <1>1
<1> QED
  BY <1>2, Zenon DEF Put

\* Memory is filled from its start.
LEMMA PutFilled ==
    ASSUME NEW n \in Nat, NEW a \in Cells, NEW c \in Cells, Len(a) + Len(c) <= n
    PROVE  Put(Filled(a, n), Len(a), c) = Filled(a \o c, n)
<1> DEFINE mem == Filled(a, n)
           b == a \o c
           k == Len(a)
           m == Len(c)
<1>1. /\ Len(b) = k + m /\ k \in Nat /\ m \in Nat
      /\ \A i \in 1 .. k : b[i] = a[i]
      /\ \A i \in 1 .. m : b[k + i] = c[i]
  BY Behind
<1>2. IsMemory(mem, n) /\ \A i \in 1 .. n : mem[i] = IF i <= k THEN a[i] ELSE 0
  BY DEF Filled, IsMemory
<1> HIDE DEF mem, b
<1>3. Put(mem, k, c)
      = [i \in 1 .. n |-> IF i \in k + 1 .. k + m THEN c[i - k] ELSE mem[i]]
  <2>1. k \in Nat
    BY <1>1
  <2> QED
    BY <1>2, <2>1, PutIs
<1> HIDE DEF k, m
<1>4. ASSUME NEW i \in 1 .. n
      PROVE  (IF i \in k + 1 .. k + m THEN c[i - k] ELSE mem[i])
             = (IF i <= Len(b) THEN b[i] ELSE 0)
  <2>1. CASE i <= k
    <3>1. i \in 1 .. k /\ i \notin k + 1 .. k + m /\ i <= k + m
      BY <1>1, <2>1
    <3> QED
      BY <1>1, <1>2, <2>1, <3>1
  <2>2. CASE i > k /\ i <= k + m
    <3>1. i - k \in 1 .. m /\ k + (i - k) = i /\ i \in k + 1 .. k + m
      BY <1>1, <2>2
    <3>2. b[i] = c[i - k]
      BY <1>1, <3>1
    <3> QED
      BY <1>1, <2>2, <3>1, <3>2
  <2>3. CASE i > k + m
    <3>1. i \notin k + 1 .. k + m /\ ~(i <= k) /\ ~(i <= k + m)
      BY <1>1, <2>3
    <3> QED
      BY <1>1, <1>2, <3>1
  <2> QED
    BY <1>1, <2>1, <2>2, <2>3
<1>5. Put(mem, k, c) = Filled(b, n)
  BY <1>3, <1>4 DEF Filled
<1> QED
  BY <1>5 DEF mem, b, k

\* The memory was zero.
LEMMA FilledZeros ==
    ASSUME NEW n \in Nat, NEW a \in Cells, NEW m \in Nat
    PROVE  Filled(a \o Zeros(m), n) = Filled(a, n)
<1> DEFINE z == Zeros(m)
           b == a \o z
<1>1. z \in Cells /\ Len(z) = m /\ \A i \in 1 .. m : z[i] = 0
  BY ZerosAre
<1> HIDE DEF z
<1>2. /\ Len(b) = Len(a) + Len(z) /\ Len(a) \in Nat /\ Len(z) \in Nat
      /\ \A i \in 1 .. Len(a) : b[i] = a[i]
      /\ \A i \in 1 .. Len(z) : b[Len(a) + i] = z[i]
  <2>1. z \in Cells
    BY <1>1
  <2> QED
    BY <2>1, Behind
<1> HIDE DEF b
<1>3. ASSUME NEW i \in 1 .. n
      PROVE  (IF i <= Len(b) THEN b[i] ELSE 0) = (IF i <= Len(a) THEN a[i] ELSE 0)
  <2>1. CASE i <= Len(a)
    <3>1. i \in 1 .. Len(a) /\ i <= Len(b)
      BY <1>2, <2>1
    <3> QED
      BY <1>2, <2>1, <3>1
  <2>2. CASE i > Len(a) /\ i <= Len(b)
    <3>1. i - Len(a) \in 1 .. Len(z) /\ i - Len(a) \in 1 .. m /\ Len(a) + (i - Len(a)) = i
      BY <1>1, <1>2, <2>2
    <3>2. b[i] = z[i - Len(a)] /\ z[i - Len(a)] = 0
      BY <1>1, <1>2, <3>1
    <3> QED
      BY <1>2, <2>2, <3>2
  <2>3. CASE i > Len(b)
    <3>1. ~(i <= Len(a)) /\ ~(i <= Len(b))
      BY <1>1, <1>2, <2>3
    <3> QED
      BY <3>1
  <2> QED
    BY <1>1, <1>2, <2>1, <2>2, <2>3
<1> QED
  BY <1>3 DEF Filled, b, z

\* The null behind a string is there before it is written.
LEMMA PutNull ==
    ASSUME NEW n \in Nat, NEW a \in Cells, NEW k \in Nat, Len(a) <= k, k < n
    PROVE  Put(Filled(a, n), k, <<0>>) = Filled(a, n)
<1> DEFINE mem == Filled(a, n)
           c == <<0>>
<1>1. /\ IsMemory(mem, n) /\ Len(a) \in Nat
      /\ \A i \in 1 .. n : mem[i] = IF i <= Len(a) THEN a[i] ELSE 0
  BY LenProperties DEF Filled, Cells, IsMemory
<1>2. c \in Cells /\ Len(c) = 1 /\ c[1] = 0
  BY OneCell
<1> HIDE DEF mem, c
<1>3. Put(mem, k, c)
      = [i \in 1 .. n |-> IF i \in k + 1 .. k + Len(c) THEN c[i - k] ELSE mem[i]]
  <2>1. c \in Cells /\ k + Len(c) <= n
    BY <1>2
  <2> QED
    BY <1>1, <2>1, PutIs
<1>4. ASSUME NEW i \in 1 .. n
      PROVE  (IF i \in k + 1 .. k + Len(c) THEN c[i - k] ELSE mem[i]) = mem[i]
  <2>1. CASE i = k + 1
    <3>1. i - k = 1 /\ ~(i <= Len(a)) /\ i \in k + 1 .. k + Len(c)
      BY <1>1, <1>2, <2>1
    <3> QED
      BY <1>1, <1>2, <3>1
  <2>2. CASE i # k + 1
    <3>1. i \notin k + 1 .. k + Len(c)
      BY <1>2, <2>2
    <3> QED
      BY <3>1
  <2> QED
    BY <2>1, <2>2
<1>5. Put(mem, k, c) = [i \in 1 .. n |-> mem[i]]
  BY <1>3, <1>4
<1>6. Put(mem, k, c) = mem
  BY <1>1, <1>5 DEF IsMemory
<1> QED
  BY <1>6 DEF mem, c

\* A round of unpack fills the memory with its field.
LEMMA PutFieldIs ==
    ASSUME NEW f, NEW x, IsField(f, x), NEW n \in Nat, NEW a \in Cells,
           Len(a) + FieldSize(f) <= n
    PROVE  PutField(Filled(a, n), Len(a), f, x) = Filled(a \o FieldLayout(f, x), n)
<1> DEFINE mem == Filled(a, n)
           p == f.param
           z == Zeros(p - Len(x))
<1>1. p \in Nat /\ x \in Cells /\ Len(x) \in Nat /\ Len(a) \in Nat
  BY Kinds, LenProperties DEF Cells
<1>2. CASE f.type = "FIXED"
  <2>1. FieldLayout(f, x) = x /\ Len(x) = 1 /\ FieldSize(f) = 1
    BY <1>2, Kinds
  <2>2. PutField(mem, Len(a), f, x) = Put(mem, Len(a), x)
    BY <1>2 DEF PutField
  <2>3. Len(a) + Len(x) <= n
    BY <2>1
  <2>4. Put(mem, Len(a), x) = Filled(a \o x, n)
    BY <1>1, <2>3, PutFilled
  <2> QED
    BY <2>1, <2>2, <2>4
<1>3. CASE f.type = "STRING"
  <2>1. /\ FieldLayout(f, x) = x \o z /\ Len(x) <= p /\ FieldSize(f) = p /\ p > 0
    BY <1>3, Kinds
  <2>2. p - Len(x) \in Nat
    BY <1>1, <2>1
  <2>3. z \in Cells
    BY <2>2, ZerosAre
  <2> DEFINE k == Len(a) + (IF Len(x) < p - 1 THEN Len(x) ELSE p - 1)
  <2>4. k \in Nat /\ Len(a) <= k /\ k < n
    BY <1>1, <2>1
  <2>5. PutField(mem, Len(a), f, x) = Put(Put(mem, k, <<0>>), Len(a), x)
    BY <1>3 DEF PutField
  <2> HIDE DEF k
  <2>6. Put(mem, k, <<0>>) = mem
    BY <2>4, PutNull
  <2>7. Put(mem, Len(a), x) = Filled(a \o x, n)
    <3>1. Len(a) + Len(x) <= n
      BY <1>1, <2>1
    <3> QED
      BY <1>1, <3>1, PutFilled
  <2>8. a \o x \in Cells /\ a \o (x \o z) = (a \o x) \o z
    <3>1. x \in Cells /\ z \in Cells
      BY <1>1, <2>3
    <3> HIDE DEF z
    <3>2. a \o x \in Cells
      BY <3>1, Behind
    <3>3. a \o (x \o z) = (a \o x) \o z
      BY <3>1, Associative
    <3> QED
      BY <3>2, <3>3
  <2>9. Filled((a \o x) \o z, n) = Filled(a \o x, n)
    <3>1. \A e \in Cells : Filled(e \o z, n) = Filled(e, n)
      BY <2>2, FilledZeros
    <3> HIDE DEF z
    <3> QED
      BY <2>8, <3>1
  <2> HIDE DEF mem, z
  <2> QED
    BY <2>1, <2>5, <2>6, <2>7, <2>8, <2>9 DEF mem
<1>4. CASE f.type = "ARRAY"
  <2> DEFINE c == <<Len(x)>>
             d == c \o x
  <2>1. /\ FieldLayout(f, x) = d \o z /\ Len(x) <= p /\ FieldSize(f) = 1 + p
    BY <1>4, Kinds
  <2>2. p - Len(x) \in Nat
    BY <1>1, <2>1
  <2>3. z \in Cells /\ c \in Cells /\ Len(c) = 1
    BY <1>1, <2>2, ZerosAre, OneCell
  <2>4. PutField(mem, Len(a), f, x) = Put(mem, Len(a), d)
    BY <1>4 DEF PutField
  <2> HIDE DEF c
  <2>5. d \in Cells /\ Len(d) = Len(c) + Len(x)
    BY <1>1, <2>3, Behind
  <2> HIDE DEF d
  <2>6. Put(mem, Len(a), d) = Filled(a \o d, n)
    <3>1. Len(a) + Len(d) <= n
      BY <1>1, <2>1, <2>3, <2>5
    <3>2. d \in Cells
      BY <2>5
    <3> QED
      BY <3>1, <3>2, PutFilled
  <2>7. a \o d \in Cells /\ a \o (d \o z) = (a \o d) \o z
    <3>1. d \in Cells /\ z \in Cells
      BY <2>3, <2>5
    <3> HIDE DEF z
    <3>2. a \o d \in Cells
      BY <3>1, Behind
    <3>3. a \o (d \o z) = (a \o d) \o z
      BY <3>1, Associative
    <3> QED
      BY <3>2, <3>3
  <2>8. Filled((a \o d) \o z, n) = Filled(a \o d, n)
    <3>1. \A e \in Cells : Filled(e \o z, n) = Filled(e, n)
      BY <2>2, FilledZeros
    <3> HIDE DEF z
    <3> QED
      BY <2>7, <3>1
  <2> HIDE DEF mem, z
  <2> QED
    BY <2>1, <2>4, <2>6, <2>7, <2>8 DEF mem
<1> QED
  BY <1>2, <1>3, <1>4, Kinds

\* If mem was filled as far as at, then m is filled with these cells behind it.
FilledBy(mem, at, cells, m) ==
    \A c \in Cells : \A n \in Nat :
        mem = Filled(c, n) /\ at = Len(c) /\ at + Len(cells) <= n => m = Filled(c \o cells, n)

\* Nothing is written.
LEMMA FilledByNone ==
    ASSUME NEW mem, NEW at
    PROVE  FilledBy(mem, at, <<>>, mem)
<1>1. \A c \in Cells : c \o <<>> = c
  BY ConcatEmptySeq DEF Cells
<1> QED
  BY <1>1 DEF FilledBy

\* A round of unpack.
LEMMA FilledByField ==
    ASSUME NEW f, NEW x, IsField(f, x), NEW at, NEW mem
    PROVE  FilledBy(mem, at, FieldLayout(f, x), PutField(mem, at, f, x))
<1>1. Len(FieldLayout(f, x)) = FieldSize(f)
  BY FieldLayoutIs
<1>2. SUFFICES ASSUME NEW c \in Cells, NEW n \in Nat, mem = Filled(c, n), at = Len(c),
                      at + Len(FieldLayout(f, x)) <= n
               PROVE  PutField(mem, at, f, x) = Filled(c \o FieldLayout(f, x), n)
  BY DEF FilledBy
<1>3. Len(c) + FieldSize(f) <= n
  BY <1>1, <1>2
<1>4. PutField(Filled(c, n), Len(c), f, x) = Filled(c \o FieldLayout(f, x), n)
  BY <1>3, PutFieldIs
<1> QED
  BY <1>2, <1>4

\* One after the other.
LEMMA FilledByBoth ==
    ASSUME NEW a \in Cells, NEW b \in Cells, NEW at \in Nat, NEW mem, NEW m, NEW k,
           FilledBy(mem, at, a, m), FilledBy(m, at + Len(a), b, k)
    PROVE  FilledBy(mem, at, a \o b, k)
<1>1. SUFFICES ASSUME NEW c \in Cells, NEW n \in Nat, mem = Filled(c, n), at = Len(c),
                      at + Len(a \o b) <= n
               PROVE  k = Filled(c \o (a \o b), n)
  BY DEF FilledBy
<1>2. /\ Len(a \o b) = Len(a) + Len(b) /\ Len(a) \in Nat /\ Len(b) \in Nat
      /\ c \o a \in Cells /\ Len(c \o a) = Len(c) + Len(a)
  BY Behind
<1>3. at + Len(a) <= n /\ (at + Len(a)) + Len(b) <= n
  BY <1>1, <1>2
<1>4. m = Filled(c \o a, n)
  BY <1>1, <1>3 DEF FilledBy
<1>5. k = Filled((c \o a) \o b, n)
  <2>1. at + Len(a) = Len(c \o a)
    BY <1>1, <1>2
  <2> QED
    BY <1>2, <1>3, <1>4, <2>1 DEF FilledBy
<1>6. (c \o a) \o b = c \o (a \o b)
  BY Associative
<1> QED
  BY <1>5, <1>6

\* unpack reads the wire form of a struct without a nested one, if that has arrived.
LEMMA UnpackFieldsAre ==
    ASSUME NEW fields, NEW values, AreFields(fields, values), NEW data \in Cells,
           Arrives(data, 0, StructWire(fields, values)), NEW at \in Nat, NEW mem
    PROVE  \E m :
              /\ UnpackFields(data, mem, at, fields)
                 = UnpackedSo(data, Len(StructWire(fields, values)),
                              at + Len(StructLayout(fields, values)), m)
              /\ FilledBy(mem, at, StructLayout(fields, values), m)
<1> DEFINE l == Layouts(fields, values)
           w == Wires(fields, values)
           n == Len(fields)
           loop == UnpackLoop(data, mem, at, fields)
           So(i, m) == UnpackedSo(data, Len(Joined(w)[i]), at + Len(Joined(l)[i]), m)
           Inv(i) == \E m : loop[i] = So(i, m) /\ FilledBy(mem, at, Joined(l)[i], m)
           S == {i \in 0 .. n : Inv(i)}
<1>1. /\ n \in Nat /\ l \in Seq(Cells) /\ Len(l) = n /\ w \in Seq(Cells) /\ Len(w) = n
      /\ \A i \in 1 .. n : /\ l[i] = FieldLayout(fields[i], values[i])
                           /\ w[i] = FieldWire(fields[i], values[i])
      /\ StructLayout(fields, values) = Join(l) /\ StructWire(fields, values) = Join(w)
  BY StructIs
<1> HIDE DEF l, w
<1>2. 0 \in S
  <2>1. Joined(l)[0] = <<>> /\ Joined(w)[0] = <<>>
    BY <1>1, JoinedIs
  <2>2. UnpackedSo(data, 0, at + 0, mem) = UnpackStart(mem, at)
    <3>1. 0 <= Len(data) /\ at + 0 = at
      BY LenProperties DEF Cells
    <3> QED
      BY <3>1 DEF UnpackedSo, UnpackStart
  <2>3. So(0, mem) = UnpackStart(mem, at)
    BY <2>1, <2>2
  <2>4. loop[0] = UnpackStart(mem, at)
    BY <1>1, UnpackLoopIs
  <2>5. FilledBy(mem, at, Joined(l)[0], mem)
    BY <2>1, FilledByNone
  <2> HIDE DEF So, loop
  <2> QED
    BY <1>1, <2>3, <2>4, <2>5
<1>3. ASSUME NEW i \in 0 .. n - 1, i \in S PROVE i + 1 \in S
  <2> DEFINE k == i + 1
             f == fields[k]
             x == values[k]
             a == Joined(l)[i]
             b == Joined(w)[i]
             fl == FieldLayout(f, x)
             fw == FieldWire(f, x)
  <2>1. k \in 1 .. n /\ k \in 0 .. n /\ k - 1 = i
    BY <1>1
  <2>2. IsField(f, x)
    BY <2>1 DEF AreFields
  <2>3. l[k] = fl /\ w[k] = fw
    BY <1>1, <2>1
  <2>4. PICK m : loop[i] = So(i, m) /\ FilledBy(mem, at, a, m)
    BY <1>3
  <2>5. loop[k] = UnpackField(data, f, loop[i])
    <3> HIDE DEF k
    <3>1. loop[k] = UnpackField(data, f, loop[k - 1])
      BY <1>1, <2>1, UnpackLoopIs
    <3> QED
      BY <2>1, <3>1
  <2> HIDE DEF k
  <2>6. /\ a \in Cells /\ l[k] \in Cells /\ Len(a) \in Nat
        /\ Joined(l)[k] = a \o l[k]
        /\ Len(Joined(l)[k]) = Len(a) + Len(l[k])
    BY <1>1, <2>1, JoinedStep
  <2>7. /\ b \in Cells /\ w[k] \in Cells /\ Len(b) \in Nat
        /\ Joined(w)[k] = b \o w[k]
        /\ Len(Joined(w)[k]) = Len(b) + Len(w[k])
        /\ \E u \in Cells : Join(w) = b \o (w[k] \o u)
    BY <1>1, <2>1, JoinedStep
  <2> HIDE DEF f, x, a, b, fl, fw, loop
  <2>8. Arrives(data, Len(b), fw)
    <3>1. PICK u \in Cells : Join(w) = b \o (fw \o u)
      BY <2>3, <2>7
    <3>2. fw \in Cells /\ fw \o u \in Cells
      BY <2>3, <2>7, Behind
    <3>3. Arrives(data, 0, b \o (fw \o u))
      BY <1>1, <3>1
    <3>4. Arrives(data, 0 + Len(b), fw \o u)
      BY <2>7, <3>2, <3>3, ArrivesPart
    <3>5. 0 + Len(b) = Len(b) /\ Len(b) \in Nat
      BY <2>7
    <3> QED
      BY <3>2, <3>4, <3>5, ArrivesPart
  <2> DEFINE put == PutField(m, at + Len(a), f, x)
  <2>9. UnpackField(data, f, UnpackedSo(data, Len(b), at + Len(a), m))
        = UnpackedSo(data, Len(b) + Len(fw), (at + Len(a)) + FieldSize(f), put)
    <3>1. at + Len(a) \in Nat /\ Len(b) \in Nat
      BY <2>6, <2>7
    <3> QED
      BY <2>2, <2>8, <3>1, UnpackFieldIs DEF fw
  <2>10. Len(fl) = FieldSize(f) /\ FieldSize(f) \in Nat
    <3>1. Len(fl) = FieldSize(f)
      BY <2>2, FieldLayoutIs DEF fl
    <3>2. Len(fl) \in Nat
      BY <2>3, <2>6, LenProperties DEF Cells
    <3> QED
      BY <3>1, <3>2
  <2>11. /\ Len(Joined(w)[k]) = Len(b) + Len(fw)
         /\ at + Len(Joined(l)[k]) = (at + Len(a)) + FieldSize(f)
    BY <2>3, <2>6, <2>7, <2>10
  <2>12. loop[k] = So(k, put)
    <3>1. So(i, m) = UnpackedSo(data, Len(b), at + Len(a), m)
      BY DEF a, b
    <3> HIDE DEF put
    <3> QED
      BY <2>4, <2>5, <2>9, <2>11, <3>1
  <2>13. FilledBy(mem, at, Joined(l)[k], put)
    <3>1. FilledBy(m, at + Len(a), fl, put)
      BY <2>2, FilledByField DEF fl
    <3>2. a \in Cells /\ fl \in Cells /\ Joined(l)[k] = a \o fl
      BY <2>3, <2>6
    <3> HIDE DEF put
    <3> QED
      BY <2>4, <3>1, <3>2, FilledByBoth
  <2> HIDE DEF put, So
  <2> QED
    BY <2>1, <2>12, <2>13 DEF k
<1>4. \A i \in 0 .. n : i \in S
  <2> HIDE DEF S
  <2> QED
    BY <1>1, <1>2, <1>3, Rounds
<1>5. Inv(n)
  <2> HIDE DEF Inv
  <2> QED
    BY <1>1, <1>4
<1>6. Joined(l)[n] = StructLayout(fields, values) /\ Joined(w)[n] = StructWire(fields, values)
  BY <1>1 DEF Join
<1> QED
  BY <1>5, <1>6 DEF UnpackFields

\* What is behind the cells that were read arrives there.
LEMMA ArrivesFrom ==
    ASSUME NEW data \in Cells, NEW read \in Nat, read <= Len(data), NEW w \in Cells,
           Arrives(data, read, w)
    PROVE  From(data, read) \in Cells /\ Arrives(From(data, read), 0, w)
<1> DEFINE d == From(data, read)
<1>1. /\ d \in Cells /\ Len(data) \in Nat /\ Len(d) = Len(data) - read
      /\ \A j \in 1 .. Len(data) - read : d[j] = data[read + j]
  BY FromAre
<1>2. Len(w) \in Nat
  BY LenProperties DEF Cells
<1> HIDE DEF d
<1>3. ASSUME NEW j \in 1 .. Len(w), 0 + j <= Len(d) PROVE d[0 + j] = w[j]
  <2>1. j \in 1 .. Len(data) - read /\ read + j <= Len(data) /\ 0 + j = j
    BY <1>1, <1>2, <1>3
  <2>2. data[read + j] = w[j]
    BY <2>1 DEF Arrives
  <2> QED
    BY <1>1, <2>1, <2>2
<1>4. d \in Cells /\ Arrives(d, 0, w)
  BY <1>1, <1>3 DEF Arrives
<1> QED
  BY <1>4 DEF d

\* For a nested struct unpack reads its wire form, and goes on in memory by what it read.
LEMMA UnpackStructIs ==
    ASSUME NEW fields, NEW values, AreFields(fields, values), NEW data \in Cells,
           NEW read \in Nat, Arrives(data, read, StructWire(fields, values)),
           NEW written \in Nat, NEW mem
    PROVE  \E m :
              /\ UnpackStruct(data, fields, UnpackedSo(data, read, written, mem))
                 = UnpackedSo(data, read + Len(StructWire(fields, values)),
                              written + Len(StructWire(fields, values)), m)
              /\ read <= Len(data) => FilledBy(mem, written, StructLayout(fields, values), m)
<1> DEFINE l == StructLayout(fields, values)
           w == StructWire(fields, values)
           done == UnpackedSo(data, read, written, mem)
           next == UnpackStruct(data, fields, done)
           d == From(data, read)
           inner == UnpackFields(d, mem, written, fields)
           out == [ok      |-> TRUE,
                   read    |-> read + inner.read,
                   written |-> written + inner.read,
                   mem     |-> inner.mem]
<1>1. w \in Cells /\ Len(w) \in Nat /\ Len(data) \in Nat
  BY StructIs, LenProperties DEF Cells
<1> HIDE DEF w, l
<1>2. CASE ~(read <= Len(data))
  <2>1. done = Failed /\ ~(read + Len(w) <= Len(data))
    BY <1>1, <1>2 DEF UnpackedSo
  <2>2. ~done.ok
    BY <2>1 DEF Failed
  <2>3. next = Failed
    BY <2>2 DEF UnpackStruct
  <2>4. next = UnpackedSo(data, read + Len(w), written + Len(w), mem)
    BY <2>1, <2>3 DEF UnpackedSo
  <2> HIDE DEF next
  <2> QED
    BY <1>2, <2>4 DEF w, l, next
<1>3. CASE read <= Len(data)
  <2>1. done = [ok |-> TRUE, read |-> read, written |-> written, mem |-> mem]
    BY <1>3 DEF UnpackedSo
  <2>2. done.ok /\ done.read = read /\ done.written = written /\ done.mem = mem
    BY <2>1
  <2>3. d \in Cells /\ Arrives(d, 0, w)
    BY <1>1, <1>3, ArrivesFrom DEF w
  <2>4. Len(d) = Len(data) - read
    BY <1>3, FromAre
  <2> HIDE DEF d
  <2>5. PICK m : /\ inner = UnpackedSo(d, Len(w), written + Len(l), m)
                 /\ FilledBy(mem, written, l, m)
    BY <2>3, UnpackFieldsAre DEF w, l
  <2>6. next = IF ~inner.ok THEN Failed ELSE out
    <3> HIDE DEF done
    <3> QED
      BY <2>2, Zenon DEF UnpackStruct, d
  <2> HIDE DEF next, inner
  <2>7. CASE Len(w) <= Len(d)
    <3>1. inner = [ok |-> TRUE, read |-> Len(w), written |-> written + Len(l), mem |-> m]
      BY <2>5, <2>7 DEF UnpackedSo
    <3>2. inner.ok /\ inner.read = Len(w) /\ inner.mem = m
      BY <3>1
    <3>3. read + Len(w) <= Len(data)
      BY <1>1, <2>4, <2>7
    <3>4. next = UnpackedSo(data, read + Len(w), written + Len(w), m)
      BY <2>6, <3>2, <3>3 DEF UnpackedSo
    <3> QED
      BY <2>5, <3>4 DEF next, w, l
  <2>8. CASE ~(Len(w) <= Len(d))
    <3>1. inner = Failed
      BY <2>5, <2>8 DEF UnpackedSo
    <3>2. ~inner.ok
      BY <3>1 DEF Failed
    <3>3. ~(read + Len(w) <= Len(data))
      BY <1>1, <2>4, <2>8
    <3>4. next = UnpackedSo(data, read + Len(w), written + Len(w), m)
      BY <2>6, <3>2, <3>3 DEF UnpackedSo
    <3> QED
      BY <2>5, <3>4 DEF next, w, l
  <2> QED
    BY <2>7, <2>8
<1> QED
  BY <1>2, <1>3

\* The wire forms and the forms in memory of some structs.
StructsAre(fields, wires, layouts) ==
    /\ wires \in Seq(Cells) /\ layouts \in Seq(Cells) /\ Len(wires) = Len(layouts)
    /\ \A j \in 1 .. Len(wires) : \E values :
          /\ AreFields(fields, values)
          /\ wires[j] = StructWire(fields, values)
          /\ layouts[j] = StructLayout(fields, values)

\* What unpack makes of the nested structs when it reads them all.  They are filled in
\* when each is as long on the wire as in memory, or there is but one.
StructsUnpacked(data, wires, layouts, read, written, mem, r) ==
    \E m :
       /\ r = UnpackedSo(data, read + Len(Join(wires)), written + Len(Join(wires)), m)
       /\ read + Len(Join(wires)) <= Len(data) /\ (Len(wires) <= 1 \/ wires = layouts)
          => FilledBy(mem, written, Join(layouts), m)

\* unpack reads the nested structs.
LEMMA UnpackStructsAre ==
    ASSUME NEW fields, NEW wires, NEW layouts, StructsAre(fields, wires, layouts),
           NEW data \in Cells, NEW read \in Nat, Arrives(data, read, Join(wires)),
           NEW written \in Nat, NEW mem
    PROVE  StructsUnpacked(data, wires, layouts, read, written, mem,
               UnpackStructs(data, fields, Len(wires),
                             UnpackedSo(data, read, written, mem))[Len(wires)])
<1> DEFINE count == Len(wires)
           start == UnpackedSo(data, read, written, mem)
           loop == UnpackStructs(data, fields, count, start)
           w(j) == Joined(wires)[j]
           l(j) == Joined(layouts)[j]
           Alike == count <= 1 \/ wires = layouts
           So(j, m) == UnpackedSo(data, read + Len(w(j)), written + Len(w(j)), m)
           Inv(j) == \E m : /\ loop[j] = So(j, m)
                            /\ read + Len(w(j)) <= Len(data) /\ Alike
                               => FilledBy(mem, written, l(j), m)
           S == {j \in 0 .. count : Inv(j)}
<1>1. /\ wires \in Seq(Cells) /\ layouts \in Seq(Cells)
      /\ count \in Nat /\ Len(layouts) = count
      /\ \A j \in 1 .. count : \E values :
            /\ AreFields(fields, values)
            /\ wires[j] = StructWire(fields, values)
            /\ layouts[j] = StructLayout(fields, values)
  BY LenProperties DEF StructsAre
<1>2. Len(wires) = count
  OBVIOUS
<1> HIDE DEF count
<1>3. 0 \in S
  <2>1. w(0) = <<>> /\ l(0) = <<>>
    BY <1>1, <1>2, JoinedIs
  <2>2. Len(w(0)) = 0 /\ read + 0 = read /\ written + 0 = written
    BY <2>1
  <2>3. So(0, mem) = start
    BY <2>2
  <2>4. \A r : UnpackStructs(data, fields, count, r)[0] = r
    BY <1>1, UnpackStructsIs
  <2>5. loop[0] = start
    BY <2>4, Zenon
  <2>6. FilledBy(mem, written, l(0), mem)
    BY <2>1, FilledByNone
  <2>7. Inv(0)
    <3> HIDE DEF So, loop, l, w, start
    <3> QED
      BY <2>3, <2>5, <2>6
  <2> HIDE DEF Inv
  <2> QED
    BY <1>1, <2>7
<1>4. ASSUME NEW j \in 0 .. count - 1, j \in S PROVE j + 1 \in S
  <2> DEFINE k == j + 1
  <2>1. k \in 1 .. count /\ k \in 0 .. count /\ k - 1 = j
    BY <1>1
  <2>2. PICK m : /\ loop[j] = So(j, m)
                 /\ read + Len(w(j)) <= Len(data) /\ Alike => FilledBy(mem, written, l(j), m)
    BY <1>4
  <2>3. loop[k] = UnpackStruct(data, fields, loop[j])
    <3> HIDE DEF k
    <3>1. \A r : UnpackStructs(data, fields, count, r)[k]
                 = UnpackStruct(data, fields, UnpackStructs(data, fields, count, r)[k - 1])
      <4>1. k \in 1 .. count
        BY <2>1
      <4> QED
        BY <1>1, <4>1, UnpackStructsIs
    <3> QED
      BY <2>1, <3>1
  <2> HIDE DEF k
  <2>4. /\ w(j) \in Cells /\ wires[k] \in Cells /\ w(k) = w(j) \o wires[k]
        /\ Len(w(k)) = Len(w(j)) + Len(wires[k])
        /\ Len(w(j)) \in Nat /\ Len(wires[k]) \in Nat
        /\ \E u \in Cells : Join(wires) = w(j) \o (wires[k] \o u)
    BY <1>1, <1>2, <2>1, JoinedStep
  <2>5. l(j) \in Cells /\ layouts[k] \in Cells /\ l(k) = l(j) \o layouts[k]
    BY <1>1, <2>1, JoinedStep
  <2>6. PICK values : /\ AreFields(fields, values)
                      /\ wires[k] = StructWire(fields, values)
                      /\ layouts[k] = StructLayout(fields, values)
    BY <1>1, <2>1
  <2>7. Len(data) \in Nat
    BY LenProperties DEF Cells
  <2> DEFINE a == read + Len(w(j))
             b == written + Len(w(j))
             sw == StructWire(fields, values)
             sl == StructLayout(fields, values)
  <2>8. a \in Nat /\ b \in Nat
    BY <2>4
  <2>9. Arrives(data, a, sw)
    <3>1. PICK u \in Cells : Join(wires) = w(j) \o (sw \o u)
      BY <2>4, <2>6
    <3>2. sw \in Cells /\ sw \o u \in Cells /\ w(j) \in Cells
      BY <2>4, <2>6, Behind
    <3> HIDE DEF w, sw
    <3>3. Arrives(data, read, w(j) \o (sw \o u))
      BY <3>1
    <3>4. Arrives(data, read + Len(w(j)), sw \o u)
      BY <3>2, <3>3, ArrivesPart
    <3> QED
      BY <2>8, <3>2, <3>4, ArrivesPart
  <2>10. So(j, m) = UnpackedSo(data, a, b, m)
    OBVIOUS
  <2> HIDE DEF So, loop, a, b
  <2>11. PICK next :
            /\ UnpackStruct(data, fields, UnpackedSo(data, a, b, m))
               = UnpackedSo(data, a + Len(sw), b + Len(sw), next)
            /\ a <= Len(data) => FilledBy(m, b, sl, next)
    BY <2>6, <2>8, <2>9, UnpackStructIs
  <2> HIDE DEF sw, sl
  <2>12. Len(w(k)) = Len(w(j)) + Len(sw) /\ Len(sw) \in Nat /\ Len(w(j)) \in Nat
    BY <2>4, <2>6 DEF sw
  <2>13. read + Len(w(k)) = a + Len(sw) /\ written + Len(w(k)) = b + Len(sw)
    BY <2>12 DEF a, b
  <2>14. loop[k] = So(k, next)
    BY <2>2, <2>3, <2>10, <2>11, <2>13 DEF So
  <2>15. ASSUME read + Len(w(k)) <= Len(data), Alike
         PROVE  FilledBy(mem, written, l(k), next)
    <3>1. a <= Len(data)
      BY <2>7, <2>8, <2>12, <2>13, <2>15
    <3>2. FilledBy(mem, written, l(j), m) /\ FilledBy(m, b, sl, next)
      BY <2>2, <2>11, <2>15, <3>1 DEF a
    <3>3. Len(w(j)) = Len(l(j))
      <4>1. CASE wires = layouts
        BY <4>1
      <4>2. CASE count <= 1
        <5>1. j = 0
          BY <1>1, <2>1, <4>2
        <5>2. Joined(wires)[0] = <<>> /\ Joined(layouts)[0] = <<>>
          BY <1>1, <1>2, JoinedIs
        <5> QED
          BY <5>1, <5>2
      <4> QED
        BY <2>15, <4>1, <4>2
    <3>4. l(k) = l(j) \o sl /\ l(j) \in Cells /\ sl \in Cells
      BY <2>5, <2>6 DEF sl
    <3> HIDE DEF l, w
    <3>5. FilledBy(m, written + Len(l(j)), sl, next)
      BY <3>2, <3>3 DEF b
    <3> QED
      BY <3>2, <3>4, <3>5, FilledByBoth
  <2>16. Inv(k)
    <3> HIDE DEF l, w, Alike
    <3> QED
      BY <2>14, <2>15
  <2> HIDE DEF Inv
  <2> QED
    BY <2>1, <2>16 DEF k
<1>5. \A j \in 0 .. count : j \in S
  <2> HIDE DEF S
  <2> QED
    BY <1>1, <1>3, <1>4, Rounds
<1>6. Inv(count)
  <2> HIDE DEF Inv
  <2> QED
    BY <1>1, <1>5
<1>7. w(count) = Join(wires) /\ l(count) = Join(layouts)
  BY <1>1, <1>2 DEF Join
<1>8. \E m :
         /\ loop[count] = UnpackedSo(data, read + Len(Join(wires)),
                                     written + Len(Join(wires)), m)
         /\ read + Len(Join(wires)) <= Len(data) /\ (Len(wires) <= 1 \/ wires = layouts)
            => FilledBy(mem, written, Join(layouts), m)
  <2> HIDE DEF loop, w, l
  <2> QED
    BY <1>2, <1>6, <1>7
<1> QED
  <2> HIDE DEF loop
  <2>1. StructsUnpacked(data, wires, layouts, read, written, mem, loop[count])
    BY <1>8 DEF StructsUnpacked
  <2> QED
    BY <2>1 DEF loop, count

\* As long, part by part.
LEMMA JoinSame ==
    ASSUME NEW a \in Seq(Cells), NEW b \in Seq(Cells), Len(a) = Len(b),
           \A i \in 1 .. Len(a) : Len(a[i]) = Len(b[i])
    PROVE  Len(Join(a)) = Len(Join(b))
<1> DEFINE S == {i \in 0 .. Len(a) : Len(Joined(a)[i]) = Len(Joined(b)[i])}
<1>1. Len(a) \in Nat /\ Len(b) \in Nat
  BY LenProperties
<1>2. 0 \in S
  <2>1. Joined(a)[0] = <<>> /\ Joined(b)[0] = <<>>
    BY <1>1, JoinedIs
  <2> QED
    BY <1>1, <2>1
<1>3. ASSUME NEW i \in 0 .. Len(a) - 1, i \in S PROVE i + 1 \in S
  <2> DEFINE k == i + 1
  <2>1. k \in 1 .. Len(a) /\ k \in 1 .. Len(b) /\ k \in 0 .. Len(a) /\ k - 1 = i
    BY <1>1
  <2> HIDE DEF k
  <2>2. Len(Joined(a)[k]) = Len(Joined(a)[k - 1]) + Len(a[k])
    BY <2>1, JoinedStep
  <2>3. Len(Joined(b)[k]) = Len(Joined(b)[k - 1]) + Len(b[k])
    BY <2>1, JoinedStep
  <2>4. Len(a[k]) = Len(b[k]) /\ Len(Joined(a)[i]) = Len(Joined(b)[i])
    BY <1>3, <2>1
  <2>5. Len(Joined(a)[k]) = Len(Joined(b)[k])
    BY <2>1, <2>2, <2>3, <2>4
  <2> QED
    BY <2>1, <2>5 DEF k
<1>4. \A i \in 0 .. Len(a) : i \in S
  <2> HIDE DEF S
  <2> QED
    BY <1>1, <1>2, <1>3, Rounds
<1>5. Len(a) \in 0 .. Len(a)
  BY <1>1
<1>6. Len(a) \in S
  <2> HIDE DEF S
  <2> QED
    BY <1>4, <1>5
<1> QED
  BY <1>6 DEF Join

\* Parts of one length.
LEMMA JoinEqual ==
    ASSUME NEW a \in Seq(Cells), NEW m \in Nat, \A i \in 1 .. Len(a) : Len(a[i]) = m
    PROVE  Len(Join(a)) = Len(a) * m
<1> DEFINE S == {i \in 0 .. Len(a) : Len(Joined(a)[i]) = i * m}
<1>1. Len(a) \in Nat
  BY LenProperties
<1>2. 0 \in S
  <2>1. Joined(a)[0] = <<>>
    BY <1>1, JoinedIs
  <2>2. 0 * m = 0
    OBVIOUS
  <2> QED
    BY <1>1, <2>1, <2>2
<1>3. ASSUME NEW i \in 0 .. Len(a) - 1, i \in S PROVE i + 1 \in S
  <2> DEFINE k == i + 1
  <2>1. k \in 1 .. Len(a) /\ k \in 0 .. Len(a) /\ k - 1 = i /\ i \in Nat
    BY <1>1
  <2>2. k * m = i * m + m
    BY <2>1
  <2> HIDE DEF k
  <2>3. Len(Joined(a)[k]) = Len(Joined(a)[k - 1]) + Len(a[k])
    BY <2>1, JoinedStep
  <2>4. Len(a[k]) = m /\ Len(Joined(a)[i]) = i * m
    BY <1>3, <2>1
  <2>5. Len(Joined(a)[k]) = k * m
    BY <2>1, <2>2, <2>3, <2>4
  <2> QED
    BY <2>1, <2>5 DEF k
<1>4. \A i \in 0 .. Len(a) : i \in S
  <2> HIDE DEF S
  <2> QED
    BY <1>1, <1>2, <1>3, Rounds
<1>5. Len(a) \in 0 .. Len(a)
  BY <1>1
<1>6. Len(a) \in S
  <2> HIDE DEF S
  <2> QED
    BY <1>4, <1>5
<1> QED
  BY <1>6 DEF Join

\* A struct is as long as one with nothing in it.
LEMMA StructSizeIs ==
    ASSUME NEW fields, NEW values, AreFields(fields, values)
    PROVE  /\ Len(StructLayout(fields, values)) = Len(Blank(fields))
           /\ Len(Blank(fields)) \in Nat
<1> DEFINE b == [i \in DOMAIN fields |-> Zeros(FieldSize(fields[i]))]
           l == Layouts(fields, values)
           n == Len(fields)
<1>1. /\ n \in Nat /\ l \in Seq(Cells) /\ Len(l) = n
      /\ \A i \in 1 .. n : l[i] = FieldLayout(fields[i], values[i])
      /\ StructLayout(fields, values) = Join(l)
  BY StructIs
<1>2. DOMAIN fields = 1 .. n
  BY LenProperties DEF AreFields
<1>3. ASSUME NEW i \in 1 .. n
      PROVE  /\ Zeros(FieldSize(fields[i])) \in Cells
             /\ Len(FieldLayout(fields[i], values[i])) = Len(Zeros(FieldSize(fields[i])))
  <2>1. IsField(fields[i], values[i])
    BY <1>3 DEF AreFields
  <2>2. Len(FieldLayout(fields[i], values[i])) = FieldSize(fields[i])
        /\ FieldLayout(fields[i], values[i]) \in Cells
    BY <2>1, FieldLayoutIs
  <2>3. FieldSize(fields[i]) \in Nat
    BY <2>2, LenProperties DEF Cells
  <2> QED
    BY <2>2, <2>3, ZerosAre
<1>4. b \in [1 .. n -> Cells] /\ \A i \in 1 .. n : b[i] = Zeros(FieldSize(fields[i]))
  BY <1>2, <1>3
<1>5. Blank(fields) = Join(b)
  BY DEF Blank
<1> HIDE DEF b, l
<1>6. b \in Seq(Cells) /\ Len(b) = n
  BY <1>1, <1>4, FunctionIsSeq
<1>7. \A i \in 1 .. Len(l) : Len(l[i]) = Len(b[i])
  BY <1>1, <1>3, <1>4
<1>8. Len(Join(l)) = Len(Join(b))
  <2>1. l \in Seq(Cells) /\ b \in Seq(Cells) /\ Len(l) = Len(b)
    BY <1>1, <1>6
  <2> QED
    BY <1>7, <2>1, JoinSame
<1>9. Len(Join(b)) \in Nat
  BY <1>6, JoinedAre, LenProperties DEF Cells
<1> QED
  BY <1>1, <1>5, <1>8, <1>9

\* Fixed fields are the same in memory and on the wire.
LEMMA FixedStructs ==
    ASSUME NEW fields, NEW values, \A i \in DOMAIN fields : fields[i].type = "FIXED"
    PROVE  StructWire(fields, values) = StructLayout(fields, values)
<1>1. \A i \in DOMAIN fields : FieldWire(fields[i], values[i]) = FieldLayout(fields[i], values[i])
  BY DEF FieldWire, FieldLayout
<1>2. [i \in DOMAIN fields |-> FieldWire(fields[i], values[i])]
      = [i \in DOMAIN fields |-> FieldLayout(fields[i], values[i])]
  BY <1>1
<1> QED
  BY <1>2 DEF StructWire, StructLayout

\* Memory that is full, and memory that is zero.
LEMMA FilledIs ==
    ASSUME NEW a \in Cells
    PROVE  Filled(a, Len(a)) = a
<1> DEFINE b == Filled(a, Len(a))
<1>1. Len(a) \in Nat /\ \A i \in 1 .. Len(a) : a[i] \in Nat
  BY LenProperties, ElementOfSeq DEF Cells
<1>2. b \in [1 .. Len(a) -> Nat] /\ \A i \in 1 .. Len(a) : b[i] = a[i]
  BY <1>1 DEF Filled
<1> HIDE DEF b
<1>3. b \in Cells /\ Len(b) = Len(a)
  BY <1>1, <1>2, FunctionIsSeq DEF Cells
<1>4. b = a
  BY <1>2, <1>3, SameCells
<1> QED
  BY <1>4 DEF b

\* A zeroed struct is one with nothing filled in.
LEMMA ZerosAreFilled ==
    ASSUME NEW n \in Nat
    PROVE  Zeros(n) = Filled(<<>>, n)
<1>1. \A i \in 1 .. n : ~(i <= Len(<<>>))
  BY EmptySeq
<1> QED
  BY <1>1 DEF Zeros, Filled

\* memcpy.
LEMMA FilledByPut ==
    ASSUME NEW mem, NEW at, NEW a \in Cells
    PROVE  FilledBy(mem, at, a, Put(mem, at, a))
BY PutFilled DEF FilledBy

-----------------------------------------------------------------------------
(* The codec: a packet with and without a nested field                      *)

\* A packet without a nested field in its two forms.
LEMMA PlainForms ==
    ASSUME NEW p, IsPacket(p), ~IsNested(p.format)
    PROVE  /\ Layout(p.format, p.value, p.structs) = StructLayout(Plain(p.format), p.value)
           /\ Wire(p.format, p.value, p.structs) = StructWire(Plain(p.format), p.value)
           /\ StructSize(p.format) = Len(Layout(p.format, p.value, p.structs))
<1>1. AreFields(Plain(p.format), p.value)
  BY PacketIs
<1>2. /\ StructLayout(Plain(p.format), p.value) \in Cells
      /\ StructWire(Plain(p.format), p.value) \in Cells
  BY <1>1, StructIs
<1>3. \A c \in Cells : c \o <<>> = c
  BY ConcatEmptySeq DEF Cells
<1>4. /\ Len(StructLayout(Plain(p.format), p.value)) = Len(Blank(Plain(p.format)))
      /\ Len(Blank(Plain(p.format))) \in Nat
  BY <1>1, StructSizeIs
<1>5. StructSize(p.format) = Len(Blank(Plain(p.format)))
  <2>1. StructSize(p.format) = Len(Blank(Plain(p.format))) + 0
    BY DEF StructSize
  <2> QED
    BY <1>4, <2>1
<1> QED
  BY <1>2, <1>3, <1>4, <1>5 DEF Layout, Wire

\* The nested structs of a packet in their two forms.
StructLayouts(p) == [j \in DOMAIN p.structs |-> StructLayout(Nested(p.format), p.structs[j])]
StructWires(p) == [j \in DOMAIN p.structs |-> StructWire(Nested(p.format), p.structs[j])]

\* What a packet with a nested field has filled in, and what is left.
FilledIn(p) ==
    (StructLayout(Plain(p.format), p.value) \o <<Len(p.structs)>>) \o Join(StructLayouts(p))
LeftOver(p) ==
    (p.format[Nest(p.format)].param - Len(p.structs)) * Len(Blank(Nested(p.format)))

\* A packet with a nested field in its two forms.
LEMMA NestedForms ==
    ASSUME NEW p, IsPacket(p), IsNested(p.format)
    PROVE  /\ StructsAre(Nested(p.format), StructWires(p), StructLayouts(p))
           /\ Len(StructWires(p)) = Len(p.structs) /\ Len(p.structs) \in Nat
           /\ FilledIn(p) \in Cells /\ LeftOver(p) \in Nat
           /\ Layout(p.format, p.value, p.structs) = FilledIn(p) \o Zeros(LeftOver(p))
           /\ Wire(p.format, p.value, p.structs)
              = StructWire(Plain(p.format), p.value)
                \o (<<Len(p.structs)>> \o Join(StructWires(p)))
           /\ StructSize(p.format) = Len(Layout(p.format, p.value, p.structs))
<1> DEFINE fields == p.format
           plain == Plain(fields)
           nested == Nested(fields)
           n == Len(p.structs)
           l == StructLayouts(p)
           w == StructWires(p)
           l0 == StructLayout(plain, p.value)
           c == <<n>>
           k == fields[Nest(fields)].param
           z == Zeros(LeftOver(p))
           size == Len(Blank(nested))
<1>1. /\ AreFields(plain, p.value) /\ n \in Nat /\ DOMAIN p.structs = 1 .. n
      /\ k \in Nat /\ n <= k /\ nested \in Seq(MsgField)
      /\ \A j \in 1 .. n : AreFields(nested, p.structs[j])
  BY PacketIs
<1>2. size \in Nat
  BY <1>1, BlankIs
<1>3. \A j \in 1 .. n : /\ StructLayout(nested, p.structs[j]) \in Cells
                        /\ StructWire(nested, p.structs[j]) \in Cells
                        /\ Len(StructLayout(nested, p.structs[j])) = size
  BY <1>1, StructIs, StructSizeIs
<1> HIDE DEF n, size
<1>4. /\ l \in [1 .. n -> Cells] /\ w \in [1 .. n -> Cells]
      /\ \A j \in 1 .. n : /\ l[j] = StructLayout(nested, p.structs[j])
                           /\ w[j] = StructWire(nested, p.structs[j])
  BY <1>1, <1>3 DEF StructLayouts, StructWires
<1> HIDE DEF l, w
<1>5. l \in Seq(Cells) /\ Len(l) = n /\ w \in Seq(Cells) /\ Len(w) = n
  BY <1>1, <1>4, FunctionIsSeq
<1>6. StructsAre(nested, w, l)
  BY <1>1, <1>4, <1>5 DEF StructsAre
<1>7. l0 \in Cells /\ Join(l) \in Cells /\ c \in Cells /\ Len(c) = 1
  BY <1>1, <1>5, StructIs, JoinedAre, OneCell
<1>8. k - n \in Nat /\ LeftOver(p) = (k - n) * size
  BY <1>1 DEF LeftOver, n, size
<1>9. LeftOver(p) \in Nat
  BY <1>2, <1>8
<1>10. z \in Cells /\ Len(z) = LeftOver(p)
  BY <1>9, ZerosAre
<1> HIDE DEF l0, z
<1>11. FilledIn(p) = (l0 \o c) \o Join(l)
  BY DEF FilledIn, l0, l, n
<1> HIDE DEF c
<1>12. l0 \o c \in Cells /\ FilledIn(p) \in Cells /\ c \o Join(l) \in Cells
       /\ Join(l) \o z \in Cells
  BY <1>7, <1>10, <1>11, Behind
<1>13. Layout(fields, p.value, p.structs) = l0 \o ((c \o Join(l)) \o z)
  BY DEF Layout, l0, l, c, n, z, LeftOver, StructLayouts
<1>14. l0 \o ((c \o Join(l)) \o z) = FilledIn(p) \o z
  <2>1. (c \o Join(l)) \o z = c \o (Join(l) \o z)
    <3>1. c \in Cells /\ Join(l) \in Cells /\ z \in Cells
      BY <1>7, <1>10
    <3> QED
      BY <3>1, Associative
  <2>2. (l0 \o c) \o (Join(l) \o z) = l0 \o (c \o (Join(l) \o z))
    <3>1. c \in Cells /\ Join(l) \o z \in Cells /\ l0 \in Cells
      BY <1>7, <1>12
    <3> QED
      BY <3>1, Associative
  <2>3. ((l0 \o c) \o Join(l)) \o z = (l0 \o c) \o (Join(l) \o z)
    <3>1. l0 \o c \in Cells /\ Join(l) \in Cells /\ z \in Cells
      BY <1>7, <1>10, <1>12
    <3> QED
      BY <3>1, Associative
  <2> QED
    BY <1>11, <2>1, <2>2, <2>3
<1>15. Wire(fields, p.value, p.structs) = StructWire(plain, p.value) \o (c \o Join(w))
  BY DEF Wire, w, c, n, StructWires
<1>16. StructSize(fields) = Len(FilledIn(p) \o z)
  <2>1. Len(FilledIn(p) \o z) = Len(FilledIn(p)) + Len(z)
    <3>1. FilledIn(p) \in Cells /\ z \in Cells
      BY <1>10, <1>12
    <3> QED
      BY <3>1, Behind
  <2>2. Len(FilledIn(p)) = Len(l0 \o c) + Len(Join(l))
    <3>1. l0 \o c \in Cells /\ Join(l) \in Cells
      BY <1>7, <1>12
    <3> QED
      BY <1>11, <3>1, Behind
  <2>3. Len(l0 \o c) = Len(l0) + Len(c)
    <3>1. l0 \in Cells /\ c \in Cells
      BY <1>7
    <3> QED
      BY <3>1, Behind
  <2>4. Len(Join(l)) = n * size
    <3>1. \A j \in 1 .. Len(l) : Len(l[j]) = size
      BY <1>3, <1>4, <1>5
    <3>2. l \in Seq(Cells)
      BY <1>5
    <3>3. Len(Join(l)) = Len(l) * size
      BY <1>2, <3>1, <3>2, JoinEqual
    <3> QED
      BY <1>5, <3>3
  <2>5. Len(l0) = Len(Blank(plain)) /\ Len(l0) \in Nat
    BY <1>1, StructSizeIs DEF l0
  <2>6. StructSize(fields) = Len(Blank(plain)) + (1 + k * size)
    BY DEF StructSize, size
  <2>7. n * size + (k - n) * size = k * size /\ n * size \in Nat /\ k * size \in Nat
        /\ (k - n) * size \in Nat
    <3> HIDE DEF k
    <3>1. k - n \in Nat /\ k = n + (k - n)
      BY <1>1, <1>8
    <3>2. (n + (k - n)) * size = n * size + (k - n) * size
      BY <1>1, <1>2, <3>1
    <3> QED
      BY <1>1, <1>2, <3>1, <3>2
  <2>8. Len(FilledIn(p) \o z) = ((Len(l0) + 1) + n * size) + (k - n) * size
    BY <1>7, <1>8, <1>10, <2>1, <2>2, <2>3, <2>4
  <2> HIDE DEF k
  <2> QED
    BY <2>5, <2>6, <2>7, <2>8
<1>17. Layout(fields, p.value, p.structs) = FilledIn(p) \o z
  BY <1>13, <1>14
<1> QED
  BY <1>1, <1>5, <1>6, <1>9, <1>12, <1>15, <1>16, <1>17 DEF l, w, n, c, z

\* The structs of a nested field are as long on the wire as in memory, or there is but one.
StructsApart(p) ==
    \/ Len(p.structs) <= 1
    \/ ~IsNested(p.format)
    \/ \A i \in DOMAIN Nested(p.format) : Nested(p.format)[i].type = "FIXED"

\* unpack reads the packet, if it has arrived, and fills in the struct it was packed from.
LEMMA UnpackIs ==
    ASSUME NEW p, IsPacket(p), NEW data \in Cells,
           Arrives(data, 0, Wire(p.format, p.value, p.structs))
    PROVE  \E written, m :
              /\ Unpack(data, Zeros(StructSize(p.format)), p.format)
                 = UnpackedSo(data, Len(Wire(p.format, p.value, p.structs)), written, m)
              /\ Len(Wire(p.format, p.value, p.structs)) <= Len(data) /\ StructsApart(p)
                 => m = Layout(p.format, p.value, p.structs)
<1> DEFINE fields == p.format
           plain == Plain(fields)
           nested == Nested(fields)
           size == StructSize(fields)
           memory == Zeros(size)
           layout == Layout(fields, p.value, p.structs)
           wire == Wire(fields, p.value, p.structs)
           l0 == StructLayout(plain, p.value)
           w0 == StructWire(plain, p.value)
           done == UnpackFields(data, memory, 0, plain)
<1>1. AreFields(plain, p.value) /\ l0 \in Cells /\ w0 \in Cells /\ Len(data) \in Nat
      /\ Len(l0) \in Nat /\ Len(w0) \in Nat
  BY PacketIs, StructIs, LenProperties DEF Cells
<1>2. SUFFICES \E written, m :
                  /\ Unpack(data, memory, fields) = UnpackedSo(data, Len(wire), written, m)
                  /\ Len(wire) <= Len(data) /\ StructsApart(p) => m = layout
  OBVIOUS
<1>3. ASSUME NEW x \in Cells, NEW k \in Nat, NEW m, FilledBy(memory, 0, x, m),
             layout = x \o Zeros(k), size = Len(layout)
      PROVE  m = layout
  <2>1. Zeros(k) \in Cells /\ layout \in Cells
    BY <1>3, ZerosAre, Behind
  <2>2. Len(layout) = Len(x) + Len(Zeros(k)) /\ Len(x) \in Nat /\ Len(Zeros(k)) \in Nat
    BY <1>3, <2>1, Behind
  <2> HIDE DEF layout, size
  <2>3. size \in Nat /\ 0 + Len(x) <= size
    BY <1>3, <2>2
  <2>4. memory = Filled(<<>>, size) /\ 0 = Len(<<>>) /\ <<>> \in Cells
    BY <2>3, ZerosAreFilled, EmptySeq DEF Cells
  <2> HIDE DEF memory
  <2>5. m = Filled(<<>> \o x, size)
    BY <1>3, <2>3, <2>4 DEF FilledBy
  <2>6. <<>> \o x = x
    BY ConcatEmptySeq DEF Cells
  <2>7. Filled(x \o Zeros(k), size) = Filled(x, size)
    BY <2>3, FilledZeros
  <2>8. Filled(layout, Len(layout)) = layout
    BY <2>1, FilledIs
  <2>9. m = Filled(layout, size)
    BY <1>3, <2>5, <2>6, <2>7
  <2> QED
    BY <1>3, <2>8, <2>9
<1> HIDE DEF memory, size
<1>4. ASSUME Arrives(data, 0, w0)
      PROVE  \E m : done = UnpackedSo(data, Len(w0), Len(l0), m) /\ FilledBy(memory, 0, l0, m)
  <2>1. \E m : /\ done = UnpackedSo(data, Len(w0), 0 + Len(l0), m)
               /\ FilledBy(memory, 0, l0, m)
    BY <1>1, <1>4, UnpackFieldsAre
  <2>2. 0 + Len(l0) = Len(l0)
    BY <1>1
  <2> QED
    BY <2>1, <2>2
<1>5. CASE ~IsNested(fields)
  <2>1. layout = l0 /\ wire = w0 /\ size = Len(layout)
    BY <1>5, PlainForms DEF size
  <2>2. Unpack(data, memory, fields) = done
    BY <1>5 DEF Unpack
  <2> HIDE DEF layout, wire, l0, w0, done
  <2>3. Arrives(data, 0, w0)
    BY <2>1 DEF wire
  <2>4. PICK m : done = UnpackedSo(data, Len(w0), Len(l0), m) /\ FilledBy(memory, 0, l0, m)
    BY <1>4, <2>3
  <2>5. layout = l0 \o Zeros(0)
    <3>1. Zeros(0) = <<>>
      BY DEF Zeros
    <3>2. l0 \o <<>> = l0
      BY <1>1, ConcatEmptySeq DEF Cells
    <3> QED
      BY <2>1, <3>1, <3>2
  <2>6. m = layout
    BY <1>1, <1>3, <2>1, <2>4, <2>5
  <2> QED
    BY <2>1, <2>2, <2>4, <2>6
<1>6. CASE IsNested(fields)
  <2> DEFINE n == Len(p.structs)
             l == StructLayouts(p)
             w == StructWires(p)
             c == <<n>>
             jl == Join(l)
             jw == Join(w)
             x == FilledIn(p)
             k == LeftOver(p)
  <2>1. /\ StructsAre(nested, w, l) /\ Len(w) = n /\ n \in Nat
        /\ x \in Cells /\ k \in Nat
        /\ layout = x \o Zeros(k)
        /\ wire = w0 \o (c \o jw)
        /\ size = Len(layout)
        /\ x = (l0 \o c) \o jl
    BY <1>6, NestedForms DEF size, FilledIn
  <2>2. c \in Cells /\ Len(c) = 1 /\ c[1] = n
    BY <2>1, OneCell
  <2>3. jl \in Cells /\ jw \in Cells /\ Len(jw) \in Nat
    BY <2>1, JoinedAre, LenProperties DEF StructsAre, Cells
  <2> HIDE DEF n, l, w, c, x, k, jl, jw, layout, wire, l0, w0, done
  <2>4. w0 \o c \in Cells /\ Len(w0 \o c) = Len(w0) + Len(c) /\ c \o jw \in Cells
    BY <1>1, <2>2, <2>3, Behind
  <2>5. Arrives(data, 0, w0 \o (c \o jw))
    BY <2>1 DEF wire
  <2>6. Arrives(data, 0, w0) /\ Arrives(data, 0 + Len(w0), c \o jw)
    <3>1. 0 \in Nat /\ w0 \in Cells
      BY <1>1
    <3> QED
      BY <2>4, <2>5, <3>1, ArrivesPart
  <2>7. Arrives(data, Len(w0), c) /\ Arrives(data, Len(w0) + 1, jw)
    <3>1. Len(w0) \in Nat /\ Arrives(data, Len(w0), c \o jw) /\ c \in Cells /\ jw \in Cells
      BY <1>1, <2>2, <2>3, <2>6
    <3>2. Arrives(data, Len(w0), c) /\ Arrives(data, Len(w0) + Len(c), jw)
      BY <3>1, ArrivesPart
    <3> QED
      BY <2>2, <3>2
  <2>8. Len(wire) = (Len(w0) + 1) + Len(jw)
    <3>1. w0 \in Cells /\ c \o jw \in Cells
      BY <1>1, <2>4
    <3>2. Len(w0 \o (c \o jw)) = Len(w0) + Len(c \o jw)
      BY <3>1, Behind
    <3>3. c \in Cells /\ jw \in Cells
      BY <2>2, <2>3
    <3>4. Len(c \o jw) = Len(c) + Len(jw)
      BY <3>3, Behind
    <3> QED
      BY <1>1, <2>1, <2>2, <2>3, <3>2, <3>4
  <2>9. PICK m0 : done = UnpackedSo(data, Len(w0), Len(l0), m0) /\ FilledBy(memory, 0, l0, m0)
    BY <1>4, <2>6
  <2> DEFINE at == From(data, done.read)
             m1 == Put(m0, Len(l0), c)
             start == [ok      |-> TRUE,
                       read    |-> done.read + 1,
                       written |-> done.written + 1,
                       mem     |-> Put(done.mem, done.written, <<at[1]>>)]
             first == [ok      |-> TRUE,
                       read    |-> Len(w0) + 1,
                       written |-> Len(l0) + 1,
                       mem     |-> m1]
             loop(r) == UnpackStructs(data, nested, n, r)
  <2>10. Unpack(data, memory, fields)
         = IF ~done.ok THEN done
           ELSE IF ~Enough(at, 1) THEN Failed
           ELSE UnpackStructs(data, nested, at[1], start)[at[1]]
    BY <1>6, Zenon DEF Unpack, done
  <2>11. CASE ~(Len(w0) <= Len(data))
    <3>1. done = Failed
      BY <2>9, <2>11 DEF UnpackedSo
    <3>2. ~done.ok
      BY <3>1 DEF Failed
    <3>3. Unpack(data, memory, fields) = Failed
      BY <2>10, <3>1, <3>2
    <3>4. ~(Len(wire) <= Len(data))
      BY <1>1, <2>3, <2>8, <2>11
    <3>5. Unpack(data, memory, fields) = UnpackedSo(data, Len(wire), 0, m0)
      BY <3>3, <3>4 DEF UnpackedSo
    <3> QED
      BY <3>4, <3>5
  <2>12. CASE Len(w0) <= Len(data)
    <3>1. done = [ok |-> TRUE, read |-> Len(w0), written |-> Len(l0), mem |-> m0]
      BY <2>9, <2>12 DEF UnpackedSo
    <3>2. done.ok /\ done.read = Len(w0) /\ done.written = Len(l0) /\ done.mem = m0
      BY <3>1
    <3>3. /\ Len(at) = Len(data) - Len(w0)
          /\ \A j \in 1 .. Len(data) - Len(w0) : at[j] = data[Len(w0) + j]
      BY <1>1, <2>12, <3>2, FromAre
    <3> HIDE DEF at
    <3>4. CASE ~(Len(w0) + 1 <= Len(data))
      <4>1. ~Enough(at, 1)
        BY <1>1, <3>3, <3>4 DEF Enough
      <4>2. Unpack(data, memory, fields) = Failed
        <5> HIDE DEF done, start
        <5> QED
          BY <2>10, <3>2, <4>1
      <4>3. ~(Len(wire) <= Len(data))
        BY <1>1, <2>3, <2>8, <3>4
      <4>4. Unpack(data, memory, fields) = UnpackedSo(data, Len(wire), 0, m0)
        BY <4>2, <4>3 DEF UnpackedSo
      <4> QED
        BY <4>3, <4>4
    <3>5. CASE Len(w0) + 1 <= Len(data)
      <4>1. Enough(at, 1)
        BY <1>1, <3>3, <3>5 DEF Enough
      <4>2. at[1] = n
        <5>1. at[1] = data[Len(w0) + 1]
          BY <1>1, <3>3, <3>5
        <5>2. data[Len(w0) + 1] = c[1]
          <6>1. 1 \in 1 .. Len(c)
            BY <2>2
          <6> QED
            BY <2>7, <3>5, <6>1 DEF Arrives
        <5> QED
          BY <2>2, <5>1, <5>2
      <4>3. start = first
        BY <3>2, <4>2 DEF c
      <4>4. Unpack(data, memory, fields) = loop(first)[n]
        <5> HIDE DEF done, start, first
        <5> QED
          BY <2>10, <3>2, <4>1, <4>2, <4>3
      <4>5. first = UnpackedSo(data, Len(w0) + 1, Len(l0) + 1, m1)
        BY <3>5 DEF UnpackedSo
      <4>6. PICK m : /\ loop(first)[n]
                        = UnpackedSo(data, (Len(w0) + 1) + Len(jw), (Len(l0) + 1) + Len(jw), m)
                     /\ (Len(w0) + 1) + Len(jw) <= Len(data) /\ (n <= 1 \/ w = l)
                        => FilledBy(m1, Len(l0) + 1, jl, m)
        <5> DEFINE read == Len(w0) + 1
                   written == Len(l0) + 1
        <5>1. read \in Nat /\ written \in Nat /\ Arrives(data, read, Join(w))
          BY <1>1, <2>7 DEF jw
        <5>0. StructsAre(nested, w, l)
          BY <2>1
        <5> HIDE DEF read, written, first, m1, nested
        <5>2. StructsUnpacked(data, w, l, read, written, m1,
                  UnpackStructs(data, nested, Len(w),
                                UnpackedSo(data, read, written, m1))[Len(w)])
          BY <5>0, <5>1, UnpackStructsAre
        <5>3. StructsUnpacked(data, w, l, read, written, m1, loop(first)[n])
          BY <2>1, <4>5, <5>2 DEF read, written
        <5>4. \E m :
                 /\ loop(first)[n]
                    = UnpackedSo(data, read + Len(Join(w)), written + Len(Join(w)), m)
                 /\ read + Len(Join(w)) <= Len(data) /\ (Len(w) <= 1 \/ w = l)
                    => FilledBy(m1, written, Join(l), m)
          BY <5>3 DEF StructsUnpacked
        <5> QED
          BY <2>1, <5>4 DEF read, written, jw, jl
      <4>7. Unpack(data, memory, fields)
            = UnpackedSo(data, Len(wire), (Len(l0) + 1) + Len(jw), m)
        BY <2>8, <4>4, <4>6
      <4>8. ASSUME Len(wire) <= Len(data), StructsApart(p) PROVE m = layout
        <5>1. n <= 1 \/ w = l
          <6>1. ASSUME \A i \in DOMAIN nested : nested[i].type = "FIXED" PROVE w = l
            BY <6>1, FixedStructs DEF w, l, StructWires, StructLayouts
          <6> QED
            BY <1>6, <4>8, <6>1 DEF StructsApart, n
        <5>2. FilledBy(m1, Len(l0) + 1, jl, m)
          BY <2>8, <4>6, <4>8, <5>1
        <5>3. FilledBy(m0, Len(l0), c, m1)
          BY <2>2, FilledByPut
        <5> HIDE DEF m1
        <5>4. FilledBy(m0, Len(l0), c \o jl, m)
          <6>1. FilledBy(m1, Len(l0) + Len(c), jl, m)
            BY <2>2, <5>2
          <6>2. c \in Cells /\ jl \in Cells /\ Len(l0) \in Nat
            BY <1>1, <2>2, <2>3
          <6> QED
            BY <5>3, <6>1, <6>2, FilledByBoth
        <5>5. FilledBy(memory, 0, l0 \o (c \o jl), m)
          <6>1. FilledBy(m0, 0 + Len(l0), c \o jl, m) /\ FilledBy(memory, 0, l0, m0)
            BY <1>1, <2>9, <5>4
          <6>2. l0 \in Cells /\ c \o jl \in Cells /\ 0 \in Nat
            BY <1>1, <2>2, <2>3, Behind
          <6> QED
            BY <6>1, <6>2, FilledByBoth
        <5>6. l0 \o (c \o jl) = x
          <6>1. l0 \in Cells /\ c \in Cells /\ jl \in Cells
            BY <1>1, <2>2, <2>3
          <6>2. (l0 \o c) \o jl = l0 \o (c \o jl)
            BY <6>1, Associative
          <6> QED
            BY <2>1, <6>2
        <5> QED
          BY <1>3, <2>1, <5>5, <5>6
      <4> QED
        BY <4>7, <4>8
    <3> QED
      BY <3>4, <3>5
  <2> QED
    BY <2>11, <2>12
<1> QED
  BY <1>5, <1>6

-----------------------------------------------------------------------------
(* The codec: the inductive invariant and the theorems                      *)

\* The wire form of a packet is cells.
LEMMA WireIs ==
    ASSUME NEW p, IsPacket(p)
    PROVE  Wire(p.format, p.value, p.structs) \in Cells
<1> DEFINE w0 == StructWire(Plain(p.format), p.value)
           w == StructWires(p)
           c == <<Len(p.structs)>>
<1>1. w0 \in Cells
  BY PacketIs, StructIs
<1>2. CASE ~IsNested(p.format)
  BY <1>1, <1>2, PlainForms
<1>3. CASE IsNested(p.format)
  <2>1. /\ StructsAre(Nested(p.format), w, StructLayouts(p)) /\ Len(p.structs) \in Nat
        /\ Wire(p.format, p.value, p.structs) = w0 \o (c \o Join(w))
    BY <1>3, NestedForms
  <2>2. Join(w) \in Cells
    BY <2>1, JoinedAre DEF StructsAre
  <2>3. c \in Cells
    BY <2>1, OneCell
  <2> HIDE DEF w0, w, c
  <2>4. c \o Join(w) \in Cells
    BY <2>2, <2>3, Behind
  <2>5. w0 \o (c \o Join(w)) \in Cells
    BY <1>1, <2>4, Behind
  <2> QED
    BY <2>1, <2>5
<1> QED
  BY <1>2, <1>3

\* The packet in hand.
Holding == [format |-> format, value |-> value, structs |-> structs]

\* A packet is in hand, pack and unpack have returned what they return for the room and
\* for the cells in hand, and the cells in hand are the first of the stream.
CodecInv ==
    /\ IsPacket(Holding)
    /\ room \in 0 .. MaxBuffer
    /\ \A r \in packed : r = Pack(Layout(format, value, structs), room, format)
    /\ Len(received) \in 0 .. Len(Stream)
    /\ received = SubSeq(Stream, 1, Len(received))
    /\ \A r \in unpacked : r = Unpack(received, Zeros(StructSize(format)), format)

\* What IsPacket says of a packet it says of its three parts.
LEMMA PartsArePacket ==
    ASSUME NEW p, IsPacket(p), format = p.format, value = p.value, structs = p.structs
    PROVE  IsPacket(Holding)
<1>1. Holding.format = p.format /\ Holding.value = p.value /\ Holding.structs = p.structs
  BY DEF Holding
<1> QED
  BY <1>1 DEF IsPacket

\* The stream is the wire form of the packet, with more behind it.
LEMMA StreamIs ==
    ASSUME IsPacket(Holding)
    PROVE  /\ Wire(format, value, structs) \in Cells /\ Zeros(MaxExtra) \in Cells
           /\ Stream = Wire(format, value, structs) \o Zeros(MaxExtra)
           /\ Stream \in Cells /\ Len(Stream) \in Nat
<1>1. Wire(format, value, structs) \in Cells
  <2>1. Wire(Holding.format, Holding.value, Holding.structs) \in Cells
    BY WireIs
  <2> QED
    BY <2>1 DEF Holding
<1>2. Zeros(MaxExtra) \in Cells
  BY CodecAssumption, ZerosAre
<1> DEFINE w == Wire(format, value, structs)
           z == Zeros(MaxExtra)
<1>3. Stream = w \o z
  BY DEF Stream
<1> HIDE DEF w, z
<1>4. w \o z \in Cells
  BY <1>1, <1>2, Behind DEF w, z
<1>5. Len(w \o z) \in Nat
  BY <1>4, LenProperties DEF Cells
<1> QED
  BY <1>1, <1>2, <1>3, <1>4, <1>5 DEF w, z

\* No cell has arrived.
LEMMA NoneReceived ==
    ASSUME IsPacket(Holding)
    PROVE  <<>> = SubSeq(Stream, 1, Len(<<>>)) /\ Len(<<>>) \in 0 .. Len(Stream)
<1>1. Stream \in Cells /\ Len(Stream) \in Nat
  BY StreamIs
<1> DEFINE s == SubSeq(Stream, 1, 0)
<1>2. s \in Cells /\ Len(s) = 0
  BY <1>1, FirstCells
<1> HIDE DEF s
<1>3. s = <<>>
  BY <1>2, EmptySeq DEF Cells
<1>4. Len(<<>>) = 0
  OBVIOUS
<1> QED
  BY <1>1, <1>3, <1>4 DEF s

\* The invariant of the codec.
LEMMA CodecInvInductive ==
    /\ CodecInit => CodecInv
    /\ CodecInv /\ [CodecNext]_codec => CodecInv'
<1>1. ASSUME CodecInit PROVE CodecInv
  <2>1. PICK p \in Packets : format = p.format /\ value = p.value /\ structs = p.structs
    BY <1>1 DEF CodecInit
  <2>2. IsPacket(Holding)
    BY <2>1, CodecAssumption, PartsArePacket
  <2>3. room = 0 /\ packed = {} /\ received = <<>> /\ unpacked = {}
    BY <1>1 DEF CodecInit
  <2>4. room \in 0 .. MaxBuffer
    BY <2>3, CodecAssumption
  <2>5. Len(received) \in 0 .. Len(Stream) /\ received = SubSeq(Stream, 1, Len(received))
    BY <2>2, <2>3, NoneReceived
  <2> QED
    BY <2>2, <2>3, <2>4, <2>5 DEF CodecInv
<1>2. ASSUME CodecInv, [CodecNext]_codec PROVE CodecInv'
  <2>1. Stream \in Cells /\ Len(Stream) \in Nat
    BY <1>2, StreamIs DEF CodecInv
  <2>2. ASSUME UNCHANGED packet
        PROVE  /\ UNCHANGED <<format, value, structs>>
               /\ Holding' = Holding /\ Stream' = Stream
    BY <2>2 DEF packet, Holding, Stream
  <2>3. CASE PackPacket
    <3>1. /\ UNCHANGED packet /\ room' \in 0 .. MaxBuffer
          /\ packed' = {Pack(Layout(format, value, structs), room', format)}
          /\ UNCHANGED <<received, unpacked>>
      BY <2>3 DEF PackPacket
    <3>2. IsPacket(Holding)'
      BY <1>2, <2>2, <3>1 DEF CodecInv, IsPacket
    <3>3. (\A r \in packed : r = Pack(Layout(format, value, structs), room, format))'
      BY <2>2, <3>1
    <3>4. (/\ Len(received) \in 0 .. Len(Stream)
           /\ received = SubSeq(Stream, 1, Len(received)))'
      BY <1>2, <2>2, <3>1 DEF CodecInv
    <3>5. (\A r \in unpacked : r = Unpack(received, Zeros(StructSize(format)), format))'
      BY <1>2, <2>2, <3>1 DEF CodecInv
    <3> QED
      BY <3>1, <3>2, <3>3, <3>4, <3>5 DEF CodecInv
  <2>4. CASE ReceiveCell
    <3> DEFINE n == Len(received) + 1
    <3>1. /\ UNCHANGED packet /\ UNCHANGED <<room, packed>>
          /\ Len(received) < Len(Stream)
          /\ received' = SubSeq(Stream, 1, n)
          /\ unpacked' = {}
      BY <2>4 DEF ReceiveCell
    <3>2. IsPacket(Holding)'
      BY <1>2, <2>2, <3>1 DEF CodecInv, IsPacket
    <3>3. (\A r \in packed : r = Pack(Layout(format, value, structs), room, format))'
      BY <1>2, <2>2, <3>1 DEF CodecInv
    <3>4. n \in Nat /\ n <= Len(Stream) /\ n \in 0 .. Len(Stream)
      BY <1>2, <2>1, <3>1 DEF CodecInv
    <3> HIDE DEF n
    <3>5. Len(received') = n
      BY <2>1, <3>1, <3>4, FirstCells
    <3>6. (/\ Len(received) \in 0 .. Len(Stream)
           /\ received = SubSeq(Stream, 1, Len(received)))'
      BY <2>2, <3>1, <3>4, <3>5
    <3> QED
      BY <1>2, <3>1, <3>2, <3>3, <3>6 DEF CodecInv
  <2>5. CASE UnpackPacket
    <3>1. /\ UNCHANGED packet /\ UNCHANGED <<room, packed, received>>
          /\ unpacked' = {Unpack(received, Zeros(StructSize(format)), format)}
      BY <2>5 DEF UnpackPacket
    <3>2. IsPacket(Holding)'
      BY <1>2, <2>2, <3>1 DEF CodecInv, IsPacket
    <3>3. (\A r \in packed : r = Pack(Layout(format, value, structs), room, format))'
      BY <1>2, <2>2, <3>1 DEF CodecInv
    <3>4. (/\ Len(received) \in 0 .. Len(Stream)
           /\ received = SubSeq(Stream, 1, Len(received)))'
      BY <1>2, <2>2, <3>1 DEF CodecInv
    <3>5. (\A r \in unpacked : r = Unpack(received, Zeros(StructSize(format)), format))'
      BY <2>2, <3>1
    <3> QED
      BY <1>2, <3>1, <3>2, <3>3, <3>4, <3>5 DEF CodecInv
  <2>6. CASE UNCHANGED codec
    <3>1. UNCHANGED packet /\ UNCHANGED <<room, packed, received, unpacked>>
      BY <2>6 DEF codec
    <3>2. IsPacket(Holding)'
      BY <1>2, <2>2, <3>1 DEF CodecInv, IsPacket
    <3>3. (\A r \in packed : r = Pack(Layout(format, value, structs), room, format))'
      BY <1>2, <2>2, <3>1 DEF CodecInv
    <3>4. (/\ Len(received) \in 0 .. Len(Stream)
           /\ received = SubSeq(Stream, 1, Len(received)))'
      BY <1>2, <2>2, <3>1 DEF CodecInv
    <3>5. (\A r \in unpacked : r = Unpack(received, Zeros(StructSize(format)), format))'
      BY <1>2, <2>2, <3>1 DEF CodecInv
    <3> QED
      BY <1>2, <3>1, <3>2, <3>3, <3>4, <3>5 DEF CodecInv
  <2> QED
    BY <1>2, <2>3, <2>4, <2>5, <2>6 DEF CodecNext
<1> QED
  BY <1>1, <1>2

\* What pack has returned is what PackedSo says of the packet in hand.
LEMMA PackedAre ==
    ASSUME CodecInv, NEW r \in packed
    PROVE  \E read : r = PackedSo(room, read,
                             Wire(format, value, [j \in DOMAIN structs |-> structs[1]]))
<1>1. IsPacket(Holding) /\ room \in Nat
      /\ r = Pack(Layout(format, value, structs), room, format)
  BY CodecAssumption DEF CodecInv
<1>2. \E read :
         Pack(Layout(Holding.format, Holding.value, Holding.structs), room, Holding.format)
         = PackedSo(room, read,
               Wire(Holding.format, Holding.value,
                    [j \in DOMAIN Holding.structs |-> Holding.structs[1]]))
  BY <1>1, PackIs
<1>3. Holding.format = format /\ Holding.value = value /\ Holding.structs = structs
  BY DEF Holding
<1> QED
  BY <1>1, <1>2, <1>3

\* The cells in hand have arrived.
LEMMA ReceivedArrives ==
    ASSUME CodecInv
    PROVE  received \in Cells /\ Arrives(received, 0, Wire(format, value, structs))
<1> DEFINE w == Wire(format, value, structs)
           z == Zeros(MaxExtra)
           n == Len(received)
           s == SubSeq(Stream, 1, n)
<1>1. w \in Cells /\ z \in Cells /\ Stream = w \o z /\ Stream \in Cells /\ Len(Stream) \in Nat
  BY StreamIs DEF CodecInv
<1>2. n \in 0 .. Len(Stream) /\ received = s
  BY DEF CodecInv
<1> HIDE DEF w, z
<1>3. n \in Nat /\ n <= Len(Stream)
  BY <1>1, <1>2
<1>4. s \in Cells /\ \A i \in 1 .. n : s[i] = Stream[i]
  <2> HIDE DEF n
  <2>1. /\ SubSeq(Stream, 1, n) \in Cells
        /\ \A i \in 1 .. n : SubSeq(Stream, 1, n)[i] = Stream[i]
    BY <1>1, <1>3, FirstCells
  <2> QED
    BY <2>1
<1> HIDE DEF s
<1>5. received \in Cells /\ \A i \in 1 .. n : received[i] = Stream[i]
  BY <1>2, <1>4
<1>6. \A i \in 1 .. Len(w) : (w \o z)[i] = w[i]
  BY <1>1, Behind
<1>7. Len(w) \in Nat
  BY <1>1, LenProperties DEF Cells
<1>8. ASSUME NEW j \in 1 .. Len(w), 0 + j <= Len(received) PROVE received[0 + j] = w[j]
  <2>1. 0 + j = j /\ j \in 1 .. n
    BY <1>3, <1>7, <1>8
  <2>2. Stream[j] = w[j]
    BY <1>1, <1>6
  <2> QED
    BY <1>5, <2>1, <2>2
<1>9. Arrives(received, 0, w)
  BY <1>8 DEF Arrives
<1> QED
  BY <1>5, <1>9 DEF w

\* What unpack has returned is what UnpackedSo says of the packet in hand.
LEMMA UnpackedAre ==
    ASSUME CodecInv, NEW r \in unpacked
    PROVE  \E written, m :
              /\ r = UnpackedSo(received, Len(Wire(format, value, structs)), written, m)
              /\ Len(Wire(format, value, structs)) <= Len(received) /\ StructsApart(Holding)
                 => m = Layout(format, value, structs)
<1>1. IsPacket(Holding) /\ r = Unpack(received, Zeros(StructSize(format)), format)
  BY DEF CodecInv
<1>2. Holding.format = format /\ Holding.value = value /\ Holding.structs = structs
  BY DEF Holding
<1>3. received \in Cells
      /\ Arrives(received, 0, Wire(Holding.format, Holding.value, Holding.structs))
  BY <1>2, ReceivedArrives
<1>4. \E written, m :
         /\ Unpack(received, Zeros(StructSize(Holding.format)), Holding.format)
            = UnpackedSo(received, Len(Wire(Holding.format, Holding.value, Holding.structs)),
                         written, m)
         /\ Len(Wire(Holding.format, Holding.value, Holding.structs)) <= Len(received)
            /\ StructsApart(Holding)
            => m = Layout(Holding.format, Holding.value, Holding.structs)
  BY <1>1, <1>3, UnpackIs
<1> QED
  BY <1>1, <1>2, <1>4

\* pack never writes behind the room of the out buffer, nor does unpack read behind what
\* was received.
THEOREM CodecTypeCorrect == CodecSpec => []CodecTypeOK
<1>1. CodecInv => CodecTypeOK
  <2> SUFFICES ASSUME CodecInv PROVE CodecTypeOK
    OBVIOUS
  <2>1. ASSUME NEW r \in packed, r.ok PROVE Len(r.wire) <= room
    <3>1. PICK read : r = PackedSo(room, read,
                              Wire(format, value, [j \in DOMAIN structs |-> structs[1]]))
      BY PackedAre
    <3> QED
      BY <2>1, <3>1 DEF PackedSo, Failed
  <2>2. ASSUME NEW r \in unpacked, r.ok PROVE r.read <= Len(received)
    <3>1. PICK written, m :
             r = UnpackedSo(received, Len(Wire(format, value, structs)), written, m)
      BY UnpackedAre
    <3> QED
      BY <2>2, <3>1 DEF UnpackedSo, Failed
  <2> QED
    BY <2>1, <2>2 DEF CodecInv, CodecTypeOK, Holding
<1> QED
  BY <1>1, CodecInvInductive, PTL DEF CodecSpec

\* pack writes the wire form of its packet, with the first nested struct in the place of
\* each, if that fits the room, and fails if it does not.
THEOREM PackWritesTheWire == CodecSpec => []PackIsWire
<1>1. CodecInv => PackIsWire
  <2> SUFFICES ASSUME CodecInv PROVE PackIsWire
    OBVIOUS
  <2> DEFINE wire == Wire(format, value, [j \in DOMAIN structs |-> structs[1]])
  <2>1. ASSUME NEW r \in packed
        PROVE  IF Len(wire) <= room THEN r.ok /\ r.wire = wire ELSE r = Failed
    <3>1. PICK read : r = PackedSo(room, read, wire)
      BY PackedAre
    <3> HIDE DEF wire
    <3> QED
      BY <3>1 DEF PackedSo
  <2> QED
    BY <2>1 DEF PackIsWire
<1> QED
  BY <1>1, CodecInvInductive, PTL DEF CodecSpec

\* unpack succeeds exactly when the whole packet has arrived, and reads no more than it.
THEOREM UnpackFrames == CodecSpec => []Framing
<1>1. CodecInv => Framing
  <2> SUFFICES ASSUME CodecInv PROVE Framing
    OBVIOUS
  <2> DEFINE size == Len(Wire(format, value, structs))
  <2>1. size \in Nat /\ Len(received) \in Nat
    BY StreamIs, ReceivedArrives, LenProperties DEF CodecInv, Cells
  <2>2. ASSUME NEW r \in unpacked
        PROVE  IF r.ok THEN r.read = size /\ Len(received) >= size
                       ELSE Len(received) < size
    <3>1. PICK written, m : r = UnpackedSo(received, size, written, m)
      BY UnpackedAre
    <3> HIDE DEF size
    <3> QED
      BY <2>1, <3>1 DEF UnpackedSo, Failed
  <2> QED
    BY <2>2 DEF Framing
<1> QED
  BY <1>1, CodecInvInductive, PTL DEF CodecSpec

\* unpack fills in the struct that the packet was packed from, and nothing beside it, but
\* for several nested structs that are shorter on the wire.
THEOREM UnpackRestores == CodecSpec => []UnpackIsLayout
<1>1. CodecInv => UnpackIsLayout
  <2> SUFFICES ASSUME CodecInv, Len(structs) <= 1 \/ ~NestedVariable,
                      NEW r \in unpacked, r.ok
               PROVE  r.mem = Layout(format, value, structs)
    BY DEF UnpackIsLayout
  <2> DEFINE size == Len(Wire(format, value, structs))
             layout == Layout(format, value, structs)
  <2>1. StructsApart(Holding)
    <3>1. Holding.format = format /\ Holding.structs = structs
      BY DEF Holding
    <3> QED
      BY <3>1 DEF StructsApart, NestedVariable
  <2>2. PICK written, m : /\ r = UnpackedSo(received, size, written, m)
                          /\ size <= Len(received) /\ StructsApart(Holding) => m = layout
    BY UnpackedAre
  <2> HIDE DEF size, layout
  <2>3. size <= Len(received) /\ r.mem = m
    BY <2>2 DEF UnpackedSo, Failed
  <2> QED
    BY <2>1, <2>2, <2>3 DEF layout
<1> QED
  BY <1>1, CodecInvInductive, PTL DEF CodecSpec

=============================================================================
