---------------------------- MODULE TunnelProofs ----------------------------
(***************************************************************************)
(* Theorems about Tunnel, for every list of addresses, every agent, every  *)
(* stream of either peer and every size of a socket's buffer: what is      *)
(* dialled and when it is given up, and that the bytes of the two peers    *)
(* are treated as module Duplex promises.                                  *)
(***************************************************************************)
EXTENDS Tunnel, TLAPS, FiniteSetTheorems

-----------------------------------------------------------------------------
(* The inductive invariant.                                                *)

Token == Byte \cup First \cup ToSet(Payload) \cup ToSet(Upload)
Status == {"200", "302", "400", "500", "502", "pac", "response"}

\* The types, those of the sockets and the pumps and those of the dialling.
StreamType ==
    /\ src \in [Side -> Seq(Token)] /\ held \in [Side -> Seq(Token)]
    /\ sink \in [Side -> Seq(Token)] /\ got \in [Side -> Seq(Token)]
    /\ \A s \in Side : Len(sink[s]) <= Room /\ Len(held[s]) <= 1
    /\ ends \in [Side -> {"open", "eof", "error"}] /\ fin \in [Side -> BOOLEAN]
    /\ pump \in [Side -> {"off", "read", "write", "done", "failed"}]
    /\ permit \in 0..1
    /\ spoke \in [Side -> Nat]
DialType ==
    /\ site \in Sites /\ cfg \in Settings
    /\ entry \in {"none", "connect", "steered", "http", "https"}
    /\ pc \in {"head", "peek", "sni", "resolve", "dial", "handshake", "exchange", "relay", "handed", "closed"}
    /\ leg \in {"none", "first", "own", "name", "judged"}
    /\ todo \in Seq(Ips) /\ judged \in Seq(Ips)
    /\ given \in SUBSET Ips /\ dialled \in SUBSET Ips
    /\ phase \in HandshakePhase /\ opens \in BOOLEAN
    /\ answers \in Seq(Status)

\* How a connection can be where it is, and what its client has been told.
Way ==
    /\ pc = "head" => entry = "none"
    /\ pc \in {"peek", "sni", "relay"} => ~Plain
    /\ pc = "exchange" => Plain
    /\ pc = "handshake" => ViaAgent
    /\ Len(answers) <= 1
    /\ pc \in {"head", "sni"} => answers = <<>>
    /\ Plain /\ pc \in {"resolve", "dial", "handshake", "exchange"} => answers = <<>>

\* What the dialling has behind it and before it.
Fresh == judged = <<>> /\ given = {} /\ dialled = {}
Own == UNION {ToSet(s) : s \in {Configured} \cup AliasIps \cup HostIps}
Judging == Guarded /\ ~ViaAgent

\* dial_by_name is still to come, or is on.
ByName(l) == l \in {"first", "name"} /\ Unknown
Judged ==
    /\ judged # <<>> /\ Head(judged) # Loopback
    /\ \/ leg = "first" /\ todo = <<>> /\ given = {}
       \/ leg = "judged" /\ given = ToSet(judged) /\ (dialled = {} => todo = judged)
Dialling ==
    /\ pc \in {"head", "peek", "sni", "resolve"} => Fresh
    /\ pc \in {"dial", "handshake"} =>
         /\ leg # "name" => given \subseteq dialled \cup ToSet(todo)
         /\ ViaAgent => \E g \in AgentIps : ToSet(todo) \subseteq ToSet(g)
         /\ Resolves /\ ~ViaAgent => ToSet(todo) \subseteq Own
         /\ ~ViaAgent => ToSet(Manifest) \subseteq given \/ ByName(leg)
         /\ judged # <<>> => Guarded
         /\ Judging => Judged

\* What is left of an answer that opens the tunnel, in each phase.
Left(ph) ==
    CASE ph.at \in {"line", "socks4", "reply"} -> Opening(ph.at)
      [] ph.at = "head" -> {<<"header", "blank">>, <<"blank">>}
      [] ph.at = "length" -> {<<l>> \o Filler(NameLength[l] + 2) : l \in DOMAIN NameLength}
      [] ph.at = "bound" -> {Filler(ph.need)}
      [] OTHER -> {}

\* What is on the connection to the agent: nothing, or what is left of its
\* answer, with what the far end has sent behind one that opens the tunnel.
Behind == SubSeq(Payload, 1, spoke[Upstream])
Stream ==
    \/ src[Upstream] = <<>>
    \/ opens /\ \E b \in Left(phase) : src[Upstream] = b \o Behind
    \/ ~opens /\ src[Upstream] \in Asking(phase.at) \cup Refusing(phase.at)
    \/ ~opens /\ phase = Failed
Handshake ==
    /\ pc # "handshake" => ~opens
    /\ pc = "handshake" => /\ phase # Open
                           /\ spoke[Upstream] <= Len(Payload)
                           /\ ~opens => spoke[Upstream] = 0
                           /\ Stream
    /\ pc \notin {"handshake", "exchange", "relay"} => src[Upstream] = <<>>
    /\ pc \in {"head", "peek", "sni", "resolve", "dial"} => spoke[Upstream] = 0

\* The buffers and the ends of the two directions.
Failing == \E s \in Side : ends[s] = "error"
Pumping(s) ==
    /\ pump[s] # "off"
    /\ pump[s] = "read" => held[s] = <<>>
    /\ pump[s] = "write" => held[s] # <<>>
    /\ pump[s] \in {"read", "write"} => fin[Other(s)] = FALSE
    /\ pump[s] = "failed" => Failing
    /\ pump[s] = "done" => fin[Other(s)] = TRUE \/ Failing
Pumps ==
    /\ pc # "relay" => \A s \in Side : held[s] = <<>>
    /\ Plain \/ pc \notin {"relay", "closed"} => \A s \in Side : sink[s] = <<>>
    /\ pc \notin {"relay", "closed"} => permit = 0 /\ \A s \in Side : fin[s] = FALSE
    /\ pc = "relay" => /\ permit = 1 => Failing
                       /\ \A s \in Side : Pumping(s)

IInv == StreamType /\ DialType /\ Way /\ Dialling /\ Handshake /\ Pumps

-----------------------------------------------------------------------------
(* Sequences.                                                              *)

LEMMA SameItems ==
    ASSUME NEW E, NEW e \in Seq(E), NEW f \in Seq(E), Len(e) = Len(f), \A i \in 1..Len(e) : e[i] = f[i]
    PROVE  e = f
  OBVIOUS

\* What is read off a stream is the head of what stands first on it.
LEMMA ReadOff ==
    ASSUME NEW X, NEW b \in Seq(X), NEW p \in Seq(X), NEW n \in 0..Len(b)
    PROVE  /\ SubSeq(b \o p, 1, n) = SubSeq(b, 1, n)
           /\ SubSeq(b \o p, n + 1, Len(b \o p)) = SubSeq(b, n + 1, Len(b)) \o p
<1> DEFINE L == SubSeq(b \o p, n + 1, Len(b \o p))
           r == SubSeq(b, n + 1, Len(b))
<1>1. SubSeq(b \o p, 1, n) = SubSeq(b, 1, n)
  OBVIOUS
<1>2. /\ L \in Seq(X) /\ Len(L) = Len(b) + Len(p) - n
      /\ \A i \in 1..Len(L) : L[i] = (b \o p)[i + n]
  OBVIOUS
<1>3. r \in Seq(X) /\ Len(r) = Len(b) - n /\ \A i \in 1..Len(r) : r[i] = b[i + n]
  OBVIOUS
<1> HIDE DEF L, r
<1>4. r \o p \in Seq(X) /\ Len(r \o p) = Len(L)
  BY <1>2, <1>3
<1>5. \A i \in 1..Len(L) : L[i] = (r \o p)[i]
  <2> SUFFICES ASSUME NEW i \in 1..Len(L) PROVE (b \o p)[i + n] = (r \o p)[i]
    BY <1>2
  <2>1. CASE i <= Len(r)
    BY <1>2, <1>3, <2>1
  <2>2. CASE i > Len(r)
    BY <1>2, <1>3, <2>2
  <2> QED
    BY <1>2, <1>3, <2>1, <2>2
<1>6. L = r \o p
  BY <1>2, <1>4, <1>5, SameItems
<1> QED
  BY <1>1, <1>6 DEF L, r

LEMMA Behead ==
    ASSUME NEW X, NEW h \in Seq(X), NEW t \in Seq(X)
    PROVE  SubSeq(h \o t, Len(h) + 1, Len(h \o t)) = t
  OBVIOUS

LEMMA Fillers ==
    ASSUME NEW n \in Nat
    PROVE  Filler(n) \in Seq(Byte) /\ Len(Filler(n)) = n
  BY DEF Filler, Byte

LEMMA PrefixOf ==
    ASSUME NEW X, NEW s \in Seq(X), NEW n \in 0..Len(s)
    PROVE  SubSeq(s, 1, n) \in Seq(X) /\ Len(SubSeq(s, 1, n)) = n
           /\ \A k \in 1..n : SubSeq(s, 1, n)[k] = s[k]
  OBVIOUS

-----------------------------------------------------------------------------
(* The handshake with an agent, read by read.                              *)

LEMMA Bytes ==
    /\ {"any", "v5", "v1", "v4", "0x00", "0x02", "0xFF", "0x5A", "0x5B"} \subseteq Byte
    /\ {"atyp 1", "atyp 3", "atyp 4", "atyp ?", "200", "403", "header", "blank"} \subseteq Byte
  BY DEF Byte

LEMMA NameLengths ==
    /\ DOMAIN NameLength = {"zero", "three"} /\ NameLength["zero"] = 0 /\ NameLength["three"] = 3
    /\ DOMAIN NameLength \subseteq Byte
    /\ \A l \in DOMAIN NameLength : NameLength[l] + 2 \in Nat
  BY DEF NameLength, Byte

LEMMA Replies ==
    ASSUME NEW x \in Byte
    PROVE  Reply4(x) \in Seq(Byte) /\ Len(Reply4(x)) = 2 /\ Reply4(x)[2] = x
<1>1. "any" \in Byte
  BY Bytes
<1> QED
  BY <1>1 DEF Reply4

Head5(h, x, k) == h \in Seq(Byte) /\ Len(h) = 4 /\ h[1] = "v5" /\ h[2] = x /\ h[4] = k

LEMMA Replies5 ==
    ASSUME NEW x \in Byte, NEW k \in Byte
    PROVE  Head5(Reply5(x, k), x, k)
<1>1. "v5" \in Byte /\ "any" \in Byte
  BY Bytes
<1> QED
  BY <1>1 DEF Reply5, Head5

LEMMA Nothing ==
    ASSUME NEW s \in Seq(Byte)
    PROVE  SubSeq(s, Len(s) + 1, Len(s)) = <<>>
  OBVIOUS

\* What the head h leaves of a stream.
LEMMA Off ==
    ASSUME NEW h \in Seq(Byte), NEW r \in Seq(Byte)
    PROVE  /\ h \o r \in Seq(Byte) /\ Len(h \o r) = Len(h) + Len(r) /\ Len(r) \in Nat
           /\ SubSeq(h \o r, Len(h) + 1, Len(h \o r)) = r
           /\ \A i \in 1..Len(h), n \in Len(h)..Len(h \o r) : SubSeq(h \o r, 1, n)[i] = h[i]
  OBVIOUS

\* What a read of the handshake does to the bytes b it has before it.
Next1(ph, b, c) == Continue(ph, SubSeq(b, 1, ph.need), c)
Rest(ph, b) == SubSeq(b, ph.need + 1, Len(b))

\* The read opens the tunnel behind the last byte, or leaves an answer of which
\* the same can be said.
Reads(ph, b, c) ==
    /\ b \in Seq(Byte) /\ ph.need \in 1..Len(b)
    /\ \/ Next1(ph, b, c) = Open /\ Rest(ph, b) = <<>>
       \/ /\ Next1(ph, b, c) # Open /\ Next1(ph, b, c) \in HandshakePhase
          /\ Rest(ph, b) \in Left(Next1(ph, b, c))

LEMMA Lines ==
    /\ \A x \in Byte : <<x>> \in Seq(Byte) /\ Len(<<x>>) = 1 /\ <<x>>[1] = x
    /\ \A x, y \in Byte : /\ <<x, y>> \in Seq(Byte) /\ Len(<<x, y>>) = 2 /\ <<x, y>>[1] = x
                          /\ <<x, y>>[2] = y /\ <<x, y>> = <<x>> \o <<y>>
    /\ \A x, y, z \in Byte : /\ <<x, y, z>> \in Seq(Byte) /\ Len(<<x, y, z>>) = 3
                             /\ <<x, y, z>> = <<x>> \o <<y, z>>
<1>1. \A x \in Byte : <<x>> \in Seq(Byte) /\ Len(<<x>>) = 1 /\ <<x>>[1] = x
  OBVIOUS
<1>2. \A x, y \in Byte : <<x, y>> \in Seq(Byte) /\ Len(<<x, y>>) = 2 /\ <<x, y>>[1] = x /\ <<x, y>>[2] = y
  OBVIOUS
<1>3. ASSUME NEW x \in Byte, NEW y \in Byte PROVE <<x, y>> = <<x>> \o <<y>>
  <2> DEFINE e == <<x, y>>
             f == <<x>> \o <<y>>
  <2>1. e \in Seq(Byte) /\ Len(e) = 2 /\ e[1] = x /\ e[2] = y
    OBVIOUS
  <2>2. f \in Seq(Byte) /\ Len(f) = 2 /\ f[1] = x /\ f[2] = y
    OBVIOUS
  <2> HIDE DEF e, f
  <2>3. e = f
    BY <2>1, <2>2, SameItems
  <2> QED
    BY <2>3 DEF e, f
<1>4. \A x, y, z \in Byte : <<x, y, z>> \in Seq(Byte) /\ Len(<<x, y, z>>) = 3
  OBVIOUS
<1>5. \A x, y, z \in Byte : <<x, y, z>> = <<x>> \o <<y, z>>
  OBVIOUS
<1> QED
  BY <1>1, <1>2, <1>3, <1>4, <1>5

\* What one line leaves.
LEMMA OneOff ==
    ASSUME NEW x \in Byte, NEW r \in Seq(Byte), NEW m, m = <<x>> \o r
    PROVE  /\ m \in Seq(Byte) /\ 1 \in 1..Len(m) /\ SubSeq(m, 2, Len(m)) = r
           /\ SubSeq(m, 1, 1)[1] = x
<1> DEFINE h == <<x>>
<1>1. h \in Seq(Byte) /\ Len(h) = 1 /\ h[1] = x
  OBVIOUS
<1>2. m = h \o r
  OBVIOUS
<1> HIDE DEF h
<1>3. m \in Seq(Byte) /\ Len(m) = 1 + Len(r)
  BY <1>1, <1>2
<1>4. SubSeq(m, 2, Len(m)) = r
  BY <1>1, <1>2
<1>5. SubSeq(m, 1, 1)[1] = x
  BY <1>1, <1>2
<1> QED
  BY <1>3, <1>4, <1>5

LEMMA ReadsLine ==
    ASSUME NEW c, NEW b \in Opening("line")
    PROVE  Reads(Await("line", 1), b, c)
<1> DEFINE ph == Await("line", 1)
<1>1. ph.at = "line" /\ ph.need = 1
  BY DEF Await
<1>2. PICK r \in {<<"header", "blank">>, <<"blank">>} : b = <<"200">> \o r
  <2>1. "200" \in Byte /\ "header" \in Byte /\ "blank" \in Byte
    BY Bytes
  <2>2. <<"200", "header", "blank">> = <<"200">> \o <<"header", "blank">>
    BY <2>1, Lines, Zenon
  <2>3. <<"200", "blank">> = <<"200">> \o <<"blank">>
    BY <2>1, Lines, Zenon
  <2>4. b = <<"200", "header", "blank">> \/ b = <<"200", "blank">>
    BY DEF Opening
  <2> QED
    BY <2>2, <2>3, <2>4, Zenon
<1>3. "200" \in Byte /\ r \in Seq(Byte)
  <2>1. "200" \in Byte /\ "header" \in Byte /\ "blank" \in Byte
    BY Bytes
  <2>2. <<"blank">> \in Seq(Byte)
    BY <2>1, Lines
  <2>3. <<"header", "blank">> \in Seq(Byte)
    BY <2>1, Lines
  <2> QED
    BY <2>1, <2>2, <2>3, Zenon
<1>4. b \in Seq(Byte) /\ 1 \in 1..Len(b) /\ SubSeq(b, 2, Len(b)) = r /\ SubSeq(b, 1, 1)[1] = "200"
  BY <1>2, <1>3, OneOff
<1>5. Continue(ph, SubSeq(b, 1, 1), c) = Await("head", 1)
  BY <1>1, <1>4 DEF Continue, HttpLine
<1>6. Next1(ph, b, c) = Await("head", 1) /\ Rest(ph, b) = r
  BY <1>1, <1>4, <1>5 DEF Next1, Rest
<1>7. Await("head", 1) # Open /\ Await("head", 1) \in HandshakePhase
  BY DEF Await, Open, HandshakePhase
<1>8. Left(Await("head", 1)) = {<<"header", "blank">>, <<"blank">>}
  BY DEF Left, Await
<1>9. ph.need \in 1..Len(b)
  BY <1>1, <1>4
<1> QED
  BY <1>2, <1>4, <1>6, <1>7, <1>8, <1>9, Zenon DEF Reads

LEMMA ReadsHead ==
    ASSUME NEW c, NEW b \in {<<"header", "blank">>, <<"blank">>}
    PROVE  Reads(Await("head", 1), b, c)
<1> DEFINE ph == Await("head", 1)
<1>1. ph.at = "head" /\ ph.need = 1
  BY DEF Await
<1>2. "header" \in Byte /\ "blank" \in Byte
  BY Bytes
<1>3. ph # Open /\ ph \in HandshakePhase
  BY DEF Await, Open, HandshakePhase
<1>4. Left(ph) = {<<"header", "blank">>, <<"blank">>}
  BY DEF Left, Await
<1>5. CASE b = <<"header", "blank">>
  <2>1. b = <<"header">> \o <<"blank">> /\ <<"blank">> \in Seq(Byte)
    BY <1>2, <1>5, Lines, Zenon
  <2>2. b \in Seq(Byte) /\ 1 \in 1..Len(b) /\ SubSeq(b, 2, Len(b)) = <<"blank">> /\ SubSeq(b, 1, 1)[1] = "header"
    BY <1>2, <2>1, OneOff
  <2>3. Continue(ph, SubSeq(b, 1, 1), c) = ph
    BY <1>1, <2>2 DEF Continue, HttpHead
  <2>4. Next1(ph, b, c) = ph /\ Rest(ph, b) = <<"blank">>
    BY <1>1, <2>2, <2>3 DEF Next1, Rest
  <2>5. ph.need \in 1..Len(b)
    BY <1>1, <2>2
  <2> QED
    BY <1>3, <1>4, <2>2, <2>4, <2>5, Zenon DEF Reads
<1>6. CASE b = <<"blank">>
  <2>1. b = <<"blank">> \o <<>> /\ <<>> \in Seq(Byte)
    BY <1>6
  <2>2. b \in Seq(Byte) /\ 1 \in 1..Len(b) /\ SubSeq(b, 2, Len(b)) = <<>> /\ SubSeq(b, 1, 1)[1] = "blank"
    BY <1>2, <2>1, OneOff
  <2>3. Continue(ph, SubSeq(b, 1, 1), c) = Open
    BY <1>1, <2>2 DEF Continue, HttpHead
  <2>4. Next1(ph, b, c) = Open /\ Rest(ph, b) = <<>>
    BY <1>1, <2>2, <2>3 DEF Next1, Rest
  <2>5. ph.need \in 1..Len(b)
    BY <1>1, <2>2
  <2> QED
    BY <2>2, <2>4, <2>5, Zenon DEF Reads
<1> QED
  BY <1>5, <1>6

LEMMA ReadsSocks4 ==
    ASSUME NEW c, NEW b \in Opening("socks4")
    PROVE  Reads(Await("socks4", 8), b, c)
<1> DEFINE ph == Await("socks4", 8)
           h == Reply4("0x5A")
           f == Filler(6)
           m == h \o f
<1>1. ph.at = "socks4" /\ ph.need = 8
  BY DEF Await
<1>2. b = m
  BY DEF Opening
<1>3. h \in Seq(Byte) /\ Len(h) = 2 /\ h[2] = "0x5A"
  <2>1. "0x5A" \in Byte
    BY Bytes
  <2> QED
    BY <2>1, Replies, Zenon
<1>4. f \in Seq(Byte) /\ Len(f) = 6
  BY Fillers
<1> HIDE DEF f, h
<1>5. /\ m \in Seq(Byte) /\ Len(m) = 8 /\ SubSeq(m, 9, Len(m)) = <<>>
      /\ SubSeq(m, 1, 8)[2] = "0x5A"
  <2>1. /\ m \in Seq(Byte) /\ Len(m) = Len(h) + Len(f)
        /\ \A i \in 1..Len(h), n \in Len(h)..Len(m) : SubSeq(m, 1, n)[i] = h[i]
    BY <1>3, <1>4, Off, Zenon
  <2> HIDE DEF m
  <2>2. Len(m) = 8 /\ 2 \in 1..Len(h) /\ 8 \in Len(h)..Len(m)
    BY <1>3, <1>4, <2>1
  <2>3. SubSeq(m, 9, Len(m)) = <<>>
    <3>1. SubSeq(m, Len(m) + 1, Len(m)) = <<>>
      BY <2>1, Nothing, Zenon
    <3>2. Len(m) + 1 = 9
      BY <2>2
    <3> QED
      BY <3>1, <3>2, Zenon
  <2>4. SubSeq(m, 1, 8)[2] = "0x5A"
    BY <1>3, <2>1, <2>2, Zenon
  <2> QED
    BY <2>1, <2>2, <2>3, <2>4
<1> DEFINE t == SubSeq(m, 1, 8)
<1>6. t[2] = "0x5A"
  BY <1>5
<1>7. Next1(ph, m, c) = Continue(ph, t, c) /\ Rest(ph, m) = SubSeq(m, 9, Len(m))
  BY <1>1, <1>5 DEF Next1, Rest
<1> HIDE DEF m, t
<1>8. Continue(ph, t, c) = Open
  BY <1>1, <1>6 DEF Continue, Socks4
<1>9. ph.need \in 1..Len(m)
  BY <1>1, <1>5
<1> QED
  BY <1>2, <1>5, <1>7, <1>8, <1>9, Zenon DEF Reads

LEMMA FourIn ==
    ASSUME NEW r \in Nat
    PROVE  1 \in 1..4 /\ 2 \in 1..4 /\ 4 \in 1..4 /\ 4 \in 4..(4 + r) /\ 4 \in 1..(4 + r)
  OBVIOUS

\* The phase behind the head of a SOCKS5 reply.
Behind5(k) == IF k = "atyp 1" THEN Await("bound", 6)
              ELSE IF k = "atyp 4" THEN Await("bound", 18) ELSE Await("length", 1)

LEMMA ReadsReplyOf ==
    ASSUME NEW c, NEW k, k \in {"atyp 1", "atyp 4", "atyp 3"}, NEW r \in Seq(Byte)
    PROVE  LET ph == Await("reply", 4)
               b == Reply5("0x00", k) \o r
           IN  /\ b \in Seq(Byte) /\ ph.need \in 1..Len(b) /\ Rest(ph, b) = r
               /\ Next1(ph, b, c) = Behind5(k)
<1> DEFINE ph == Await("reply", 4)
           h == Reply5("0x00", k)
           m == h \o r
<1>1. ph.at = "reply" /\ ph.need = 4
  BY DEF Await
<1>2. k \in Byte /\ "0x00" \in Byte
  BY Bytes
<1>3. h \in Seq(Byte) /\ Len(h) = 4 /\ h[1] = "v5" /\ h[2] = "0x00" /\ h[4] = k
  <2>1. Head5(h, "0x00", k)
    BY <1>2, Replies5, Zenon
  <2> QED
    BY <2>1, Zenon DEF Head5
<1> HIDE DEF h
<1>4. /\ m \in Seq(Byte) /\ Len(m) = 4 + Len(r) /\ SubSeq(m, 4 + 1, Len(m)) = r
      /\ \A i \in 1..4, n \in 4..Len(m) : SubSeq(m, 1, n)[i] = h[i]
  <2>1. /\ m \in Seq(Byte) /\ Len(m) = Len(h) + Len(r) /\ SubSeq(m, Len(h) + 1, Len(m)) = r
        /\ \A i \in 1..Len(h), n \in Len(h)..Len(m) : SubSeq(m, 1, n)[i] = h[i]
    BY <1>3, Off, Zenon
  <2>2. Len(h) = 4
    BY <1>3
  <2> QED
    BY <2>1, <2>2, Zenon
<1> DEFINE t == SubSeq(m, 1, 4)
<1>5. t[1] = "v5" /\ t[2] = "0x00" /\ t[4] = k /\ 4 \in 1..Len(m)
  <2> HIDE DEF m
  <2>1. 1 \in 1..4 /\ 2 \in 1..4 /\ 4 \in 1..4 /\ 4 \in 4..Len(m) /\ 4 \in 1..Len(m)
    <3>1. Len(m) = 4 + Len(r) /\ Len(r) \in Nat
      BY <1>4, Off, Zenon
    <3> QED
      BY <3>1, FourIn, Zenon
  <2> QED
    BY <1>3, <1>4, <2>1, Zenon
<1>6. Next1(ph, m, c) = Continue(ph, t, c) /\ Rest(ph, m) = SubSeq(m, 4 + 1, Len(m))
  BY <1>1, Zenon DEF Next1, Rest
<1> HIDE DEF m, t
<1>7. Continue(ph, t, c) = Reply(t)
  BY <1>1 DEF Continue
<1>8. Reply(t) = Behind5(k)
  BY <1>5 DEF Reply, Behind5
<1>9. ph.need \in 1..Len(m)
  BY <1>1, <1>5, Zenon
<1>10. /\ m \in Seq(Byte) /\ ph.need \in 1..Len(m) /\ Rest(ph, m) = r
       /\ Next1(ph, m, c) = Behind5(k)
  BY <1>4, <1>6, <1>7, <1>8, <1>9, Zenon
<1> QED
  BY <1>10, Zenon DEF m, h

LEMMA ReadsReply ==
    ASSUME NEW c, NEW b \in Opening("reply")
    PROVE  Reads(Await("reply", 4), b, c)
<1> DEFINE ph == Await("reply", 4)
<1>2. /\ Await("bound", 6) \in HandshakePhase /\ Await("bound", 18) \in HandshakePhase
      /\ Await("length", 1) \in HandshakePhase
      /\ Await("bound", 6) # Open /\ Await("bound", 18) # Open /\ Await("length", 1) # Open
  BY DEF Await, HandshakePhase, Open
<1>3. /\ Left(Await("bound", 6)) = {Filler(6)} /\ Left(Await("bound", 18)) = {Filler(18)}
      /\ Left(Await("length", 1)) = {<<l>> \o Filler(NameLength[l] + 2) : l \in DOMAIN NameLength}
  BY DEF Left, Await
<1>4. Behind5("atyp 1") = Await("bound", 6) /\ Behind5("atyp 4") = Await("bound", 18)
      /\ Behind5("atyp 3") = Await("length", 1)
  BY DEF Behind5
<1>5. ASSUME NEW k, k \in {"atyp 1", "atyp 4", "atyp 3"}, NEW r \in Seq(Byte),
             r \in Left(Behind5(k)), b = Reply5("0x00", k) \o r
      PROVE  Reads(ph, b, c)
  <2>1. /\ b \in Seq(Byte) /\ ph.need \in 1..Len(b) /\ Rest(ph, b) = r
        /\ Next1(ph, b, c) = Behind5(k)
    BY <1>5, ReadsReplyOf, Zenon
  <2>2. Behind5(k) \in HandshakePhase /\ Behind5(k) # Open
    BY <1>2, Zenon DEF Behind5
  <2> QED
    BY <1>5, <2>1, <2>2, Zenon DEF Reads
<1>6. ASSUME b = Reply5("0x00", "atyp 1") \o Filler(6) PROVE Reads(ph, b, c)
  <2>1. Filler(6) \in Seq(Byte)
    BY Fillers
  <2> QED
    BY <1>3, <1>4, <1>5, <1>6, <2>1, Zenon
<1>7. ASSUME b = Reply5("0x00", "atyp 4") \o Filler(18) PROVE Reads(ph, b, c)
  <2>1. Filler(18) \in Seq(Byte)
    BY Fillers
  <2> QED
    BY <1>3, <1>4, <1>5, <1>7, <2>1, Zenon
<1>8. ASSUME NEW l \in DOMAIN NameLength, b = Reply5("0x00", "atyp 3") \o (<<l>> \o Filler(NameLength[l] + 2))
      PROVE  Reads(ph, b, c)
  <2> DEFINE f == Filler(NameLength[l] + 2)
             r == <<l>> \o f
  <2>1. l \in Byte /\ f \in Seq(Byte)
    BY NameLengths, Fillers
  <2>2. b = Reply5("0x00", "atyp 3") \o r
    BY <1>8, Zenon
  <2>3. r \in Left(Behind5("atyp 3"))
    BY <1>3, <1>4, Zenon
  <2> HIDE DEF f
  <2>4. r \in Seq(Byte)
    BY <2>1
  <2> HIDE DEF r
  <2> QED
    BY <1>5, <2>2, <2>3, <2>4, Zenon
<1>9. b \in Bound
  BY DEF Opening
<1>10. \/ b = Reply5("0x00", "atyp 1") \o Filler(6)
       \/ b = Reply5("0x00", "atyp 4") \o Filler(18)
       \/ \E l \in DOMAIN NameLength : b = Reply5("0x00", "atyp 3") \o (<<l>> \o Filler(NameLength[l] + 2))
  BY <1>9, Zenon DEF Bound
<1> QED
  BY <1>6, <1>7, <1>8, <1>10, Zenon

LEMMA ReadsLength ==
    ASSUME NEW c, NEW l \in DOMAIN NameLength
    PROVE  Reads(Await("length", 1), <<l>> \o Filler(NameLength[l] + 2), c)
<1> DEFINE ph == Await("length", 1)
           f == Filler(NameLength[l] + 2)
           m == <<l>> \o f
           next == Await("bound", NameLength[l] + 2)
<1>1. ph.at = "length" /\ ph.need = 1
  BY DEF Await
<1>2. l \in Byte /\ f \in Seq(Byte)
  BY NameLengths, Fillers
<1> HIDE DEF f
<1>3. m \in Seq(Byte) /\ 1 \in 1..Len(m) /\ SubSeq(m, 2, Len(m)) = f /\ SubSeq(m, 1, 1)[1] = l
  BY <1>2, OneOff
<1> DEFINE t == SubSeq(m, 1, 1)
<1>4. t[1] = l
  BY <1>3
<1>5. Next1(ph, m, c) = Continue(ph, t, c) /\ Rest(ph, m) = SubSeq(m, 1 + 1, Len(m))
  BY <1>1, Zenon DEF Next1, Rest
<1> HIDE DEF m, t
<1>6. Continue(ph, t, c) = Await("bound", NameLength[t[1]] + 2)
  BY <1>1 DEF Continue
<1>7. 1 + 1 = 2
  OBVIOUS
<1>8. Next1(ph, m, c) = next /\ Rest(ph, m) = f
  BY <1>3, <1>4, <1>5, <1>6, <1>7, Zenon
<1>9. next \in HandshakePhase /\ next # Open
  BY NameLengths DEF HandshakePhase, Await, Open
<1>10. Left(next) = {f}
  BY DEF Left, Await, f
<1>11. ph.need \in 1..Len(m)
  BY <1>1, <1>3, Zenon
<1>12. Reads(ph, m, c)
  BY <1>3, <1>8, <1>9, <1>10, <1>11, Zenon DEF Reads
<1> QED
  BY <1>12, Zenon DEF m, f

LEMMA ReadsBound ==
    ASSUME NEW c, NEW n \in Nat, n > 0
    PROVE  Reads(Await("bound", n), Filler(n), c)
<1> DEFINE ph == Await("bound", n)
           m == Filler(n)
<1>1. ph.at = "bound" /\ ph.need = n
  BY DEF Await
<1>2. m \in Seq(Byte) /\ Len(m) = n
  BY Fillers
<1> DEFINE t == SubSeq(m, 1, n)
<1>3. Next1(ph, m, c) = Continue(ph, t, c) /\ Rest(ph, m) = SubSeq(m, n + 1, Len(m))
  BY <1>1, Zenon DEF Next1, Rest
<1> HIDE DEF m, t
<1>4. Continue(ph, t, c) = Open
  BY <1>1 DEF Continue
<1>5. SubSeq(m, Len(m) + 1, Len(m)) = <<>>
  BY <1>2, Nothing
<1>6. ph.need \in 1..Len(m)
  BY <1>1, <1>2
<1>7. Reads(ph, m, c)
  BY <1>2, <1>3, <1>4, <1>5, <1>6, Zenon DEF Reads
<1> QED
  BY <1>7 DEF m

\* The phases, by name.
LEMMA Phases ==
    ASSUME NEW ph \in HandshakePhase
    PROVE  /\ ph.at \in {"open", "failed", "line", "head", "socks4", "greeting", "auth", "reply", "length", "bound"}
           /\ ph.at = "open" => ph = Open
           /\ ph.at = "failed" => ph = Failed
           /\ ph.at = "line" => ph = Await("line", 1)
           /\ ph.at = "head" => ph = Await("head", 1)
           /\ ph.at = "socks4" => ph = Await("socks4", 8)
           /\ ph.at = "greeting" => ph = Await("greeting", 2)
           /\ ph.at = "auth" => ph = Await("auth", 2)
           /\ ph.at = "reply" => ph = Await("reply", 4)
           /\ ph.at = "length" => ph = Await("length", 1)
           /\ ph.at = "bound" => ph.need \in Nat /\ ph.need > 0 /\ ph = Await("bound", ph.need)
           /\ ph # Open /\ ph # Failed => ph.need \in Nat /\ ph.need > 0
  BY DEF HandshakePhase, Await, Open, Failed

\* What each read of an opening answer does.
LEMMA ReadOn ==
    ASSUME NEW c, NEW ph \in HandshakePhase, NEW b \in Left(ph)
    PROVE  Reads(ph, b, c)
<1>1. CASE ph.at = "line"
  <2>1. ph = Await("line", 1) /\ b \in Opening("line")
    BY <1>1, Phases DEF Left
  <2> QED
    BY <2>1, ReadsLine
<1>2. CASE ph.at = "head"
  <2>1. ph = Await("head", 1) /\ b \in {<<"header", "blank">>, <<"blank">>}
    BY <1>2, Phases DEF Left
  <2> QED
    BY <2>1, ReadsHead
<1>3. CASE ph.at = "socks4"
  <2>1. ph = Await("socks4", 8) /\ b \in Opening("socks4")
    BY <1>3, Phases DEF Left
  <2> QED
    BY <2>1, ReadsSocks4
<1>4. CASE ph.at = "reply"
  <2>1. ph = Await("reply", 4) /\ b \in Opening("reply")
    BY <1>4, Phases DEF Left
  <2> QED
    BY <2>1, ReadsReply
<1>5. CASE ph.at = "length"
  <2>1. ph = Await("length", 1)
    BY <1>5, Phases
  <2>2. PICK l \in DOMAIN NameLength : b = <<l>> \o Filler(NameLength[l] + 2)
    BY <1>5 DEF Left
  <2> QED
    BY <2>1, <2>2, ReadsLength, Zenon
<1>6. CASE ph.at = "bound"
  <2>1. ph.need \in Nat /\ ph.need > 0 /\ ph = Await("bound", ph.need)
    BY <1>6, Phases
  <2>2. b = Filler(ph.need)
    BY <1>6 DEF Left
  <2> QED
    BY <2>1, <2>2, ReadsBound, Zenon
<1>7. CASE ph.at \in {"open", "failed", "greeting", "auth"}
  BY <1>7 DEF Left
<1> QED
  BY <1>1, <1>2, <1>3, <1>4, <1>5, <1>6, <1>7, Phases

\* What an answer that asks for more, or refuses, makes of the phase: the tunnel
\* is not open, and nothing is left of the answer unless the handshake has failed.
Replied(ph, b, c) ==
    /\ b \in Seq(Byte) /\ Next1(ph, b, c) # Open /\ Next1(ph, b, c) \in HandshakePhase
    /\ Next1(ph, b, c) = Failed \/ Rest(ph, b) = <<>>

\* Answers of two bytes, those of the greeting and of the authentication.
LEMMA TwoBytes ==
    ASSUME NEW c, NEW x, NEW y, x \in {"v5", "v4", "v1"}, y \in {"0x00", "0x02", "0xFF"},
           NEW ph \in {Await("greeting", 2), Await("auth", 2)}
    PROVE  Replied(ph, <<x, y>>, c)
<1> DEFINE m == <<x, y>>
           t == SubSeq(m, 1, 2)
           next == Continue(ph, t, c)
<1>1. ph.at \in {"greeting", "auth"} /\ ph.need = 2
  BY DEF Await
<1>2. x \in Byte /\ y \in Byte
  <2>1. "v5" \in Byte /\ "v4" \in Byte /\ "v1" \in Byte /\ "0x00" \in Byte /\ "0x02" \in Byte /\ "0xFF" \in Byte
    BY Bytes
  <2> QED
    BY <2>1
<1>3. m \in Seq(Byte) /\ Len(m) = 2
  BY <1>2, Lines, Zenon
<1>4. Next1(ph, m, c) = next /\ Rest(ph, m) = SubSeq(m, 2 + 1, Len(m))
  BY <1>1, Zenon DEF Next1, Rest
<1>5. Rest(ph, m) = <<>>
  BY <1>3, <1>4, Nothing, Zenon
<1> HIDE DEF m, t
<1>6. next \in {Failed, Await("reply", 4), Await("auth", 2)}
  BY <1>1 DEF Continue, Greeting, Auth
<1>7. next # Open /\ next \in HandshakePhase
  BY <1>6 DEF Open, Failed, Await, HandshakePhase
<1>8. Replied(ph, m, c)
  BY <1>3, <1>4, <1>5, <1>7, Zenon DEF Replied
<1> QED
  BY <1>8, Zenon DEF m

LEMMA NotFailed == Failed # Open /\ Failed \in HandshakePhase
  BY DEF Failed, Open, HandshakePhase

\* A refusal in a line, a SOCKS4 code and a SOCKS5 code or address type.
LEMMA Refused ==
    ASSUME NEW c
    PROVE  /\ Replied(Await("line", 1), <<"403", "header", "blank">>, c)
           /\ Replied(Await("socks4", 8), Reply4("0x5B") \o Filler(6), c)
           /\ Replied(Await("reply", 4), Reply5("0x5B", "atyp 1") \o Filler(6), c)
           /\ Replied(Await("reply", 4), Reply5("0x00", "atyp ?"), c)
<1>1. Replied(Await("line", 1), <<"403", "header", "blank">>, c)
  <2> DEFINE ph == Await("line", 1)
             r == <<"header", "blank">>
             m == <<"403">> \o r
             t == SubSeq(m, 1, 1)
  <2>1. ph.at = "line" /\ ph.need = 1
    BY DEF Await
  <2>2. "403" \in Byte /\ "header" \in Byte /\ "blank" \in Byte
    BY Bytes
  <2>3. r \in Seq(Byte) /\ m = <<"403", "header", "blank">>
    BY <2>2, Lines, Zenon
  <2> HIDE DEF r
  <2>4. m \in Seq(Byte) /\ t[1] = "403"
    BY <2>2, <2>3, OneOff
  <2>5. Next1(ph, m, c) = Continue(ph, t, c)
    BY <2>1, Zenon DEF Next1
  <2> HIDE DEF m, t
  <2>6. Continue(ph, t, c) = Failed
    BY <2>1, <2>4 DEF Continue, HttpLine
  <2> QED
    BY <2>3, <2>4, <2>5, <2>6, NotFailed, Zenon DEF Replied
<1>2. Replied(Await("socks4", 8), Reply4("0x5B") \o Filler(6), c)
  <2> DEFINE ph == Await("socks4", 8)
             h == Reply4("0x5B")
             f == Filler(6)
             m == h \o f
             t == SubSeq(m, 1, 8)
  <2>1. ph.at = "socks4" /\ ph.need = 8
    BY DEF Await
  <2>2. h \in Seq(Byte) /\ Len(h) = 2 /\ h[2] = "0x5B"
    <3>1. "0x5B" \in Byte
      BY Bytes
    <3> QED
      BY <3>1, Replies, Zenon
  <2>3. f \in Seq(Byte) /\ Len(f) = 6
    BY Fillers
  <2> HIDE DEF h, f
  <2>4. /\ m \in Seq(Byte) /\ Len(m) = Len(h) + Len(f)
        /\ \A i \in 1..Len(h), n \in Len(h)..Len(m) : SubSeq(m, 1, n)[i] = h[i]
    BY <2>2, <2>3, Off, Zenon
  <2>5. Next1(ph, m, c) = Continue(ph, t, c)
    BY <2>1, Zenon DEF Next1
  <2> HIDE DEF m
  <2>6. 2 \in 1..Len(h) /\ 8 \in Len(h)..Len(m)
    BY <2>2, <2>3, <2>4
  <2>7. t[2] = "0x5B"
    BY <2>2, <2>4, <2>6, Zenon
  <2> HIDE DEF t
  <2>8. Continue(ph, t, c) = Failed
    BY <2>1, <2>7 DEF Continue, Socks4
  <2>9. Replied(ph, m, c)
    BY <2>4, <2>5, <2>8, NotFailed, Zenon DEF Replied
  <2> QED
    BY <2>9, Zenon DEF m, h, f
<1>3. Replied(Await("reply", 4), Reply5("0x5B", "atyp 1") \o Filler(6), c)
  <2> DEFINE ph == Await("reply", 4)
             h == Reply5("0x5B", "atyp 1")
             f == Filler(6)
             m == h \o f
             t == SubSeq(m, 1, 4)
  <2>1. ph.at = "reply" /\ ph.need = 4
    BY DEF Await
  <2>2. h \in Seq(Byte) /\ Len(h) = 4 /\ h[2] = "0x5B"
    <3>1. "0x5B" \in Byte /\ "atyp 1" \in Byte
      BY Bytes
    <3>2. Head5(h, "0x5B", "atyp 1")
      BY <3>1, Replies5, Zenon
    <3> QED
      BY <3>2, Zenon DEF Head5
  <2>3. f \in Seq(Byte) /\ Len(f) = 6
    BY Fillers
  <2> HIDE DEF h, f
  <2>4. /\ m \in Seq(Byte) /\ Len(m) = Len(h) + Len(f)
        /\ \A i \in 1..Len(h), n \in Len(h)..Len(m) : SubSeq(m, 1, n)[i] = h[i]
    BY <2>2, <2>3, Off, Zenon
  <2>5. Next1(ph, m, c) = Continue(ph, t, c)
    BY <2>1, Zenon DEF Next1
  <2> HIDE DEF m
  <2>6. 2 \in 1..Len(h) /\ 4 \in Len(h)..Len(m)
    BY <2>2, <2>3, <2>4
  <2>7. t[2] = "0x5B"
    BY <2>2, <2>4, <2>6, Zenon
  <2> HIDE DEF t
  <2>8. Continue(ph, t, c) = Failed
    BY <2>1, <2>7 DEF Continue, Reply
  <2>9. Replied(ph, m, c)
    BY <2>4, <2>5, <2>8, NotFailed, Zenon DEF Replied
  <2> QED
    BY <2>9, Zenon DEF m, h, f
<1>4. Replied(Await("reply", 4), Reply5("0x00", "atyp ?"), c)
  <2> DEFINE ph == Await("reply", 4)
             m == Reply5("0x00", "atyp ?")
             t == SubSeq(m, 1, 4)
  <2>1. ph.at = "reply" /\ ph.need = 4
    BY DEF Await
  <2>2. m \in Seq(Byte) /\ Len(m) = 4 /\ m[4] = "atyp ?"
    <3>1. "0x00" \in Byte /\ "atyp ?" \in Byte
      BY Bytes
    <3>2. Head5(m, "0x00", "atyp ?")
      BY <3>1, Replies5, Zenon
    <3> QED
      BY <3>2, Zenon DEF Head5
  <2>3. Next1(ph, m, c) = Continue(ph, t, c)
    BY <2>1, Zenon DEF Next1
  <2> HIDE DEF m
  <2>4. t[4] = "atyp ?"
    <3>3. Len(m) = 4
      BY <2>2, Zenon
    <3>1. 4 \in 0..Len(m) /\ 4 \in 1..4
      BY <3>3
    <3>2. t[4] = m[4]
      BY <2>2, <3>1, PrefixOf, Zenon
    <3> QED
      BY <2>2, <3>2, Zenon
  <2> HIDE DEF t
  <2>5. Continue(ph, t, c) = Failed
    BY <2>1, <2>4 DEF Continue, Reply
  <2>6. Replied(ph, m, c)
    BY <2>2, <2>3, <2>5, NotFailed, Zenon DEF Replied
  <2> QED
    BY <2>6, Zenon DEF m
<1> QED
  BY <1>1, <1>2, <1>3, <1>4

LEMMA Replying ==
    ASSUME NEW c, NEW ph \in HandshakePhase, NEW b \in Asking(ph.at) \cup Refusing(ph.at)
    PROVE  Replied(ph, b, c)
<1>1. CASE ph.at = "line"
  <2>1. ph = Await("line", 1) /\ b = <<"403", "header", "blank">>
    BY <1>1, Phases DEF Asking, Refusing
  <2> QED
    BY <2>1, Refused, Zenon
<1>2. CASE ph.at = "socks4"
  <2>1. ph = Await("socks4", 8) /\ b = Reply4("0x5B") \o Filler(6)
    BY <1>2, Phases DEF Asking, Refusing
  <2> QED
    BY <2>1, Refused, Zenon
<1>3. CASE ph.at = "reply"
  <2>1. ph = Await("reply", 4) /\ b \in {Reply5("0x5B", "atyp 1") \o Filler(6), Reply5("0x00", "atyp ?")}
    BY <1>3, Phases DEF Asking, Refusing
  <2> QED
    BY <2>1, Refused, Zenon
<1>4. CASE ph.at \in {"greeting", "auth"}
  <2>1. ph \in {Await("greeting", 2), Await("auth", 2)}
    BY <1>4, Phases
  <2>2. PICK x \in {"v5", "v4", "v1"}, y \in {"0x00", "0x02", "0xFF"} : b = <<x, y>>
    BY <1>4 DEF Asking, Refusing
  <2> QED
    <3>1. Replied(ph, <<x, y>>, c)
      BY <2>1, TwoBytes
    <3> QED
      BY <2>2, <3>1, Zenon
<1>5. CASE ph.at \in {"open", "failed", "head", "length", "bound"}
  BY <1>5 DEF Asking, Refusing
<1> QED
  BY <1>1, <1>2, <1>3, <1>4, <1>5, Phases

-----------------------------------------------------------------------------
(* What a filter keeps.                                                    *)

\* Every set of positions is numbered in its order, without a gap.
LEMMA Numbered ==
    ASSUME NEW m \in Nat, NEW K \in SUBSET (1..m)
    PROVE  /\ Cardinality(K) \in Nat /\ Cardinality(K) <= m
           /\ \A i \in K : Rank(K, i) \in 1..Cardinality(K)
           /\ \A i, k \in K : i < k => Rank(K, i) < Rank(K, k)
           /\ \A n \in 1..Cardinality(K) : \E i \in K : Rank(K, i) = n
<1> DEFINE Upto(i) == {j \in K : j <= i}
           rank == [i \in K |-> Cardinality(Upto(i))]
<1>1. IsFiniteSet(K) /\ Cardinality(K) \in Nat /\ Cardinality(K) <= m
  <2>1. IsFiniteSet(1..m) /\ Cardinality(1..m) = m
    BY FS_Interval
  <2>2. IsFiniteSet(K) /\ Cardinality(K) <= m
    BY <2>1, FS_Subset
  <2> QED
    BY <2>2, FS_CardinalityType
<1>2. \A i \in K : IsFiniteSet(Upto(i)) /\ Cardinality(Upto(i)) \in Nat /\ Cardinality(Upto(i)) <= Cardinality(K)
  <2> TAKE i \in K
  <2>1. Upto(i) \in SUBSET K
    OBVIOUS
  <2> HIDE DEF Upto
  <2> QED
    BY <1>1, <2>1, FS_Subset, FS_CardinalityType
<1>3. \A i \in K : Cardinality(Upto(i)) # 0
  <2> TAKE i \in K
  <2>1. i \in Upto(i)
    OBVIOUS
  <2> HIDE DEF Upto
  <2> QED
    BY <1>2, <2>1, FS_EmptySet
<1>4. \A i, k \in K : i < k => Cardinality(Upto(i)) < Cardinality(Upto(k))
  <2> SUFFICES ASSUME NEW i \in K, NEW k \in K, i < k PROVE Cardinality(Upto(i)) < Cardinality(Upto(k))
    OBVIOUS
  <2>0. K \subseteq Int
    OBVIOUS
  <2>1. k \in Upto(k) /\ k \notin Upto(i)
    BY <2>0
  <2>2. \A j \in K : j <= i => j <= k
    BY <2>0
  <2>3. Upto(i) \in SUBSET Upto(k)
    BY <2>2
  <2> HIDE DEF Upto
  <2>4. Cardinality(Upto(i)) <= Cardinality(Upto(k)) /\ Cardinality(Upto(i)) # Cardinality(Upto(k))
    BY <1>2, <2>1, <2>3, FS_Subset
  <2> QED
    BY <1>2, <2>4
<1> HIDE DEF Upto
<1>5. rank \in [K -> 1..Cardinality(K)]
  BY <1>1, <1>2, <1>3
<1>6. \A i, k \in K : rank[i] = rank[k] => i = k
  BY <1>2, <1>4
<1>7. rank \in Injection(K, 1..Cardinality(K))
  BY <1>5, <1>6 DEF Injection, IsInjective
<1>8. IsFiniteSet(1..Cardinality(K)) /\ Cardinality(1..Cardinality(K)) = Cardinality(K)
  BY <1>1, FS_Interval
<1> HIDE DEF rank
<1>9. rank \in Surjection(K, 1..Cardinality(K))
  BY <1>7, <1>8, FS_Injection
<1>10. \A n \in 1..Cardinality(K) : \E i \in K : rank[i] = n
  BY <1>9 DEF Surjection
<1> QED
  BY <1>1, <1>2, <1>3, <1>4, <1>10 DEF rank, Upto, Rank

\* What is kept of a sequence: the elements at the chosen positions, all of
\* them, in their order.
LEMMA KeptIs ==
    ASSUME NEW s, NEW m \in Nat, NEW K \in SUBSET (1..m)
    PROVE  /\ Cardinality(K) \in Nat /\ Cardinality(K) <= m
           /\ \A n \in 1..Cardinality(K) : Place(K, n) \in K
           /\ \A n, k \in 1..Cardinality(K) : n < k => Place(K, n) < Place(K, k)
           /\ \A i \in K : \E n \in 1..Cardinality(K) : Place(K, n) = i
           /\ Kept(s, K) = [n \in 1..Cardinality(K) |-> s[Place(K, n)]]
<1>1. /\ Cardinality(K) \in Nat /\ Cardinality(K) <= m
      /\ \A i \in K : Rank(K, i) \in 1..Cardinality(K)
      /\ \A i, k \in K : i < k => Rank(K, i) < Rank(K, k)
      /\ \A n \in 1..Cardinality(K) : \E i \in K : Rank(K, i) = n
  BY Numbered
<1>2. Kept(s, K) = [n \in 1..Cardinality(K) |-> s[Place(K, n)]]
  BY DEF Kept
<1>3. \A n \in 1..Cardinality(K) : Place(K, n) \in K /\ Rank(K, Place(K, n)) = n
  BY <1>1 DEF Place
<1>4. K \subseteq Int
  OBVIOUS
<1>5. \A n, k \in 1..Cardinality(K) : n < k => Place(K, n) < Place(K, k)
  <2> SUFFICES ASSUME NEW n \in 1..Cardinality(K), NEW k \in 1..Cardinality(K), n < k
               PROVE  Place(K, n) < Place(K, k)
    OBVIOUS
  <2>1. Place(K, n) \in Int /\ Place(K, k) \in Int
    BY <1>3, <1>4
  <2>2. CASE Place(K, n) = Place(K, k)
    BY <1>1, <1>3, <2>2
  <2>3. CASE Place(K, k) < Place(K, n)
    <3>1. Rank(K, Place(K, k)) < Rank(K, Place(K, n))
      BY <1>1, <1>3, <2>3
    <3> QED
      BY <1>1, <1>3, <3>1
  <2> QED
    BY <2>1, <2>2, <2>3
<1>6. \A i \in K : \E n \in 1..Cardinality(K) : Place(K, n) = i
  <2> TAKE i \in K
  <2>1. Rank(K, i) \in 1..Cardinality(K)
    BY <1>1
  <2>2. Place(K, Rank(K, i)) \in K /\ Rank(K, Place(K, Rank(K, i))) = Rank(K, i)
    BY <1>3, <2>1
  <2>3. \A a, b \in K : a # b => Rank(K, a) # Rank(K, b)
    <3> SUFFICES ASSUME NEW a \in K, NEW b \in K, a # b, Rank(K, a) = Rank(K, b) PROVE FALSE
      OBVIOUS
    <3>1. a < b \/ b < a
      BY <1>4
    <3>2. Rank(K, a) \in Nat /\ Rank(K, b) \in Nat
      BY <1>1
    <3> QED
      BY <1>1, <3>1, <3>2
  <2> QED
    BY <2>1, <2>2, <2>3
<1> QED
  BY <1>1, <1>2, <1>3, <1>5, <1>6

\* What is left of a list without some addresses: all the others.
LEMMA WithoutIs ==
    ASSUME NEW X, NEW s \in Seq(X), NEW S
    PROVE  Without(s, S) \in Seq(X) /\ ToSet(Without(s, S)) = ToSet(s) \ S
<1> DEFINE K == {i \in DOMAIN s : s[i] \notin S}
           w == Without(s, S)
<1>1. K \in SUBSET (1..Len(s)) /\ Len(s) \in Nat /\ DOMAIN s = 1..Len(s) /\ \A i \in 1..Len(s) : s[i] \in X
  OBVIOUS
<1>2. w = Kept(s, K)
  BY DEF Without
<1>3. \A i \in K : i \in 1..Len(s) /\ s[i] \notin S
  OBVIOUS
<1>4. \A i \in 1..Len(s) : s[i] \notin S => i \in K
  OBVIOUS
<1> HIDE DEF K, w
<1>5. /\ Cardinality(K) \in Nat
      /\ \A n \in 1..Cardinality(K) : Place(K, n) \in K
      /\ \A i \in K : \E n \in 1..Cardinality(K) : Place(K, n) = i
      /\ w = [n \in 1..Cardinality(K) |-> s[Place(K, n)]]
  BY <1>1, <1>2, KeptIs
<1> DEFINE N == Cardinality(K)
<1>6. DOMAIN w = 1..N /\ N \in Nat /\ \A n \in 1..N : w[n] = s[Place(K, n)] /\ Place(K, n) \in K
  BY <1>5
<1>7. w \in Seq(X)
  <2>1. \A n \in 1..N : s[Place(K, n)] \in X
    BY <1>1, <1>3, <1>6
  <2> QED
    BY <1>5, <2>1
<1> HIDE DEF N
<1>8. ToSet(w) \subseteq ToSet(s) \ S
  <2> SUFFICES ASSUME NEW n \in 1..N PROVE w[n] \in ToSet(s) \ S
    BY <1>6 DEF ToSet
  <2> QED
    BY <1>1, <1>3, <1>6 DEF ToSet
<1>9. ToSet(s) \ S \subseteq ToSet(w)
  <2> SUFFICES ASSUME NEW i \in 1..Len(s), s[i] \notin S PROVE s[i] \in ToSet(w)
    BY <1>1 DEF ToSet
  <2>1. PICK n \in 1..N : Place(K, n) = i
    BY <1>4, <1>5 DEF N
  <2> QED
    BY <1>6, <2>1 DEF ToSet
<1> QED
  BY <1>7, <1>8, <1>9 DEF w

-----------------------------------------------------------------------------
(* The lists of addresses and the streams.                                 *)

LEMMA Widen ==
    ASSUME NEW X, NEW Y, X \subseteq Y, NEW s \in Seq(X)
    PROVE  s \in Seq(Y)
  OBVIOUS

LEMMA InSet ==
    ASSUME NEW X, NEW s \in Seq(X)
    PROVE  ToSet(s) \subseteq X
  BY DEF ToSet

LEMMA Joining ==
    ASSUME NEW X, NEW s \in Seq(X), NEW t \in Seq(X)
    PROVE  s \o t \in Seq(X) /\ ToSet(s \o t) = ToSet(s) \cup ToSet(t)
<1> DEFINE m == s \o t
<1>1. /\ m \in Seq(X) /\ Len(m) = Len(s) + Len(t)
      /\ \A i \in 1..Len(m) : m[i] = IF i <= Len(s) THEN s[i] ELSE t[i - Len(s)]
      /\ \A i \in 1..Len(t) : m[i + Len(s)] = t[i]
  OBVIOUS
<1> HIDE DEF m
<1>2. DOMAIN m = 1..Len(m) /\ DOMAIN s = 1..Len(s) /\ DOMAIN t = 1..Len(t)
  BY <1>1
<1>3. ToSet(m) \subseteq ToSet(s) \cup ToSet(t)
  <2> SUFFICES ASSUME NEW i \in 1..Len(m) PROVE m[i] \in ToSet(s) \cup ToSet(t)
    BY <1>2 DEF ToSet
  <2>1. CASE i <= Len(s)
    <3>1. i \in 1..Len(s) /\ m[i] = s[i]
      BY <1>1, <2>1
    <3> QED
      BY <1>2, <3>1 DEF ToSet
  <2>2. CASE i > Len(s)
    <3>1. i - Len(s) \in 1..Len(t) /\ m[i] = t[i - Len(s)]
      BY <1>1, <2>2
    <3> QED
      BY <1>2, <3>1 DEF ToSet
  <2> QED
    BY <1>1, <2>1, <2>2
<1>4. ToSet(s) \subseteq ToSet(m)
  <2> SUFFICES ASSUME NEW i \in 1..Len(s) PROVE s[i] \in ToSet(m)
    BY <1>2 DEF ToSet
  <2>1. i \in 1..Len(m) /\ m[i] = s[i]
    BY <1>1
  <2> QED
    BY <1>2, <2>1 DEF ToSet
<1>5. ToSet(t) \subseteq ToSet(m)
  <2> SUFFICES ASSUME NEW i \in 1..Len(t) PROVE t[i] \in ToSet(m)
    BY <1>2 DEF ToSet
  <2>1. i + Len(s) \in 1..Len(m) /\ m[i + Len(s)] = t[i]
    BY <1>1
  <2> QED
    BY <1>2, <2>1 DEF ToSet
<1> QED
  BY <1>1, <1>3, <1>4, <1>5 DEF m

LEMMA ListIs ==
    ASSUME NEW l \in Lists
    PROVE  l \in Seq(Ips) /\ ToSet(l) \subseteq Ips
<1>1. l \in Seq(ToSet(l))
  BY ListAssumption
<1>2. ToSet(l) \subseteq Ips
  BY DEF Ips
<1> QED
  BY <1>1, <1>2, Widen

LEMMA ListsIs ==
    /\ Configured \in Lists /\ AliasIps \subseteq Lists /\ HostIps \subseteq Lists
    /\ SystemIps \subseteq Lists /\ AgentIps \subseteq Lists
  BY DEF Lists

LEMMA Streams ==
    /\ Payload \in Seq(Token) /\ Upload \in Seq(Token)
    /\ Byte \subseteq Token /\ First \subseteq Token
<1>1. Payload \in Seq(ToSet(Payload)) /\ Upload \in Seq(ToSet(Upload))
  BY ListAssumption
<1>2. /\ Byte \subseteq Token /\ First \subseteq Token
      /\ ToSet(Payload) \subseteq Token /\ ToSet(Upload) \subseteq Token
  BY DEF Token
<1> QED
  BY <1>1, <1>2, Widen

LEMMA Nil == \A X : <<>> \in Seq(X) /\ Len(<<>>) = 0
  OBVIOUS

LEMMA NilSet == ToSet(<<>>) = {}
  BY DEF ToSet

\* What is not yet dialled, with what has been, when one address is taken off.
LEMMA TakeOff ==
    ASSUME NEW X, NEW s \in Seq(X), s # <<>>
    PROVE  /\ Tail(s) \in Seq(X) /\ Head(s) \in X /\ ToSet(s) = {Head(s)} \cup ToSet(Tail(s))
<1>1. /\ Len(s) \in Nat /\ Len(s) > 0 /\ DOMAIN s = 1..Len(s)
      /\ Tail(s) \in Seq(X) /\ Len(Tail(s)) = Len(s) - 1 /\ Head(s) = s[1] /\ Head(s) \in X
      /\ \A i \in 1..Len(Tail(s)) : Tail(s)[i] = s[i + 1]
  OBVIOUS
<1> DEFINE t == Tail(s)
<1>2. DOMAIN t = 1..Len(t)
  BY <1>1
<1>3. Len(t) = Len(s) - 1 /\ \A i \in 1..Len(t) : t[i] = s[i + 1]
  BY <1>1
<1> HIDE DEF t
<1>4. ToSet(s) \subseteq {s[1]} \cup ToSet(t)
  <2> SUFFICES ASSUME NEW i \in 1..Len(s), i # 1 PROVE s[i] \in ToSet(t)
    BY <1>1 DEF ToSet
  <2>1. i - 1 \in 1..Len(t) /\ t[i - 1] = s[i]
    BY <1>1, <1>3
  <2> QED
    BY <1>2, <2>1 DEF ToSet
<1>5. ToSet(t) \subseteq ToSet(s)
  <2> SUFFICES ASSUME NEW i \in 1..Len(t) PROVE t[i] \in ToSet(s)
    BY <1>2 DEF ToSet
  <2>1. i + 1 \in 1..Len(s) /\ t[i] = s[i + 1]
    BY <1>1, <1>3
  <2> QED
    BY <1>1, <2>1 DEF ToSet
<1>6. s[1] \in ToSet(s)
  <2>1. 1 \in 1..Len(s)
    BY <1>1
  <2> QED
    BY <1>1, <2>1 DEF ToSet
<1> QED
  BY <1>1, <1>4, <1>5, <1>6 DEF t

-----------------------------------------------------------------------------
(* The connection is given up.                                             *)

LEMMA Sides ==
    /\ Client \in Side /\ Upstream \in Side /\ Client # Upstream
    /\ \A s \in Side : s = Client \/ s = Upstream
    /\ Other(Client) = Upstream /\ Other(Upstream) = Client
    /\ \A s \in Side : Other(s) \in Side /\ Other(s) # s /\ Other(Other(s)) = s
  BY SideAssumption DEF Side, Other

\* One answer, and no second one.
LEMMA FirstAnswer ==
    ASSUME NEW x \in Status, answers = <<>>, answers' = Append(answers, x)
    PROVE  answers' \in Seq(Status) /\ Len(answers') = 1 /\ answers' # <<>>
  OBVIOUS

LEMMA Closing ==
    ASSUME IInv, Hangup, UNCHANGED <<site, cfg, dial, phase, opens, spoke>>,
           pc \notin {"closed", "handshake", "handed"},
           entry' \in {"none", "connect", "steered", "http", "https"}, entry' = entry \/ pc = "head",
           answers' \in Seq(Status), Len(answers') <= 1
    PROVE  IInv'
<1>1. /\ StreamType /\ DialType /\ Way /\ Handshake /\ Pumps
  BY DEF IInv
<1>2. /\ pc' = "closed" /\ src' = [s \in Side |-> <<>>] /\ held' = [s \in Side |-> <<>>]
      /\ fin' = [s \in Side |-> TRUE]
      /\ ends' = ends /\ sink' = sink /\ got' = got /\ pump' = pump /\ permit' = permit
      /\ site' = site /\ cfg' = cfg /\ leg' = leg /\ todo' = todo /\ judged' = judged
      /\ given' = given /\ dialled' = dialled /\ phase' = phase /\ opens' = opens /\ spoke' = spoke
  BY Zenon DEF Hangup, dial
<1>3. StreamType'
  <2>1. \A s \in Side : src'[s] = <<>> /\ held'[s] = <<>>
    BY <1>2
  <2>2. src' \in [Side -> Seq(Token)] /\ held' \in [Side -> Seq(Token)] /\ fin' \in [Side -> BOOLEAN]
    BY <1>2, Nil
  <2>3. \A s \in Side : Len(held'[s]) <= 1
    BY <2>1, Nil
  <2> QED
    BY <1>1, <1>2, <2>2, <2>3, Zenon DEF StreamType
<1>4. DialType'
  BY <1>1, <1>2, Zenon DEF DialType
<1>5. Way'
  BY <1>2 DEF Way
<1>6. Dialling'
  BY <1>2 DEF Dialling
<1>7. Handshake'
  <2>1. ~opens
    BY <1>1, Zenon DEF Handshake
  <2>2. src'[Upstream] = <<>>
    BY <1>2, Sides
  <2> QED
    BY <1>2, <2>1, <2>2 DEF Handshake
<1>8. Pumps'
  <2>1. \A s \in Side : held'[s] = <<>>
    BY <1>2
  <2>2. Plain' => pc # "relay"
    BY <1>1, Zenon DEF Way, Plain
  <2>3. Plain' => \A s \in Side : sink[s] = <<>>
    BY <1>1, <2>2, Zenon DEF Pumps
  <2> QED
    BY <1>2, <2>1, <2>3, Zenon DEF Pumps
<1> QED
  BY <1>3, <1>4, <1>5, <1>6, <1>7, <1>8 DEF IInv

\* The requests that are answered at once, and the ways in which nothing comes of
\* a connection that stands.
LEMMA ClosesKeeps ==
    ASSUME IInv,
           \/ ReadNothing \/ ServePac \/ BadTarget \/ NoSni \/ DialSpent \/ Exchange \/ RelayOver
    PROVE  IInv'
<1>1. /\ DialType /\ Way
  BY DEF IInv
<1>2. entry \in {"none", "connect", "steered", "http", "https"} /\ answers \in Seq(Status) /\ Len(answers) <= 1
  BY <1>1, Zenon DEF DialType, Way
<1> DEFINE Quiet == answers' = answers
           Speaks == \E x \in Status : answers = <<>> /\ answers' = Append(answers, x)
<1>3. ASSUME Hangup, UNCHANGED <<site, cfg, entry, dial, phase, opens, spoke>>,
             pc \in {"head", "sni", "dial", "exchange", "relay"}, Quiet \/ Speaks
      PROVE  IInv'
  <2>1. answers' \in Seq(Status) /\ Len(answers') <= 1
    <3>1. CASE Quiet
      BY <1>2, <3>1, Zenon
    <3>2. CASE Speaks
      <4>1. answers' \in Seq(Status) /\ Len(answers') = 1
        BY <3>2, FirstAnswer
      <4> QED
        BY <4>1
    <3> QED
      BY <1>3, <3>1, <3>2
  <2>2. UNCHANGED <<site, cfg, dial, phase, opens, spoke>> /\ entry' = entry
    BY <1>3, Zenon
  <2>3. pc \notin {"closed", "handshake", "handed"}
    BY <1>3
  <2> QED
    BY <1>2, <1>3, <2>1, <2>2, <2>3, Closing
<1> DEFINE Same == UNCHANGED <<site, cfg, entry, dial, phase, opens, spoke>>
<1>4. "pac" \in Status /\ "400" \in Status /\ "502" \in Status /\ "response" \in Status
  BY DEF Status
<1>5. pc = "head" => answers = <<>>
  BY <1>1, Zenon DEF Way
<1>6. Plain /\ pc \in {"dial", "exchange"} => answers = <<>>
  BY <1>1, Zenon DEF Way
<1>7. pc = "exchange" => Plain
  BY <1>1, Zenon DEF Way
<1>8. CASE ReadNothing
  <2>1. Hangup /\ Same /\ pc = "head" /\ Quiet
    BY <1>8, Zenon DEF ReadNothing, target
  <2> QED
    BY <1>3, <2>1
<1>9. CASE ServePac
  <2>1. Hangup /\ Same /\ pc = "head" /\ answers' = Append(answers, "pac")
    BY <1>9, Zenon DEF ServePac, target, Answered
  <2>2. Speaks
    BY <1>4, <1>5, <2>1, Zenon
  <2> QED
    BY <1>3, <2>1, <2>2
<1>10. CASE BadTarget
  <2>1. Hangup /\ Same /\ pc = "head" /\ answers' = Append(answers, "400")
    BY <1>10, Zenon DEF BadTarget, target, Answered
  <2>2. Speaks
    BY <1>4, <1>5, <2>1, Zenon
  <2> QED
    BY <1>3, <2>1, <2>2
<1>11. CASE NoSni
  <2>1. Hangup /\ Same /\ pc = "sni" /\ Quiet
    BY <1>11, Zenon DEF NoSni, target
  <2> QED
    BY <1>3, <2>1
<1>12. CASE DialSpent
  <2>1. Hangup /\ Same /\ pc = "dial"
    BY <1>12, Zenon DEF DialSpent, target
  <2>2. IF Plain THEN answers' = Append(answers, "502") ELSE Quiet
    BY <1>12, Zenon DEF DialSpent, Answered
  <2>3. CASE Plain
    <3>1. Speaks
      BY <1>4, <1>6, <2>1, <2>2, <2>3
    <3> QED
      BY <1>3, <2>1, <3>1
  <2>4. CASE ~Plain
    <3>1. Quiet
      BY <2>2, <2>4
    <3> QED
      BY <1>3, <2>1, <3>1
  <2> QED
    BY <2>3, <2>4
<1>13. CASE Exchange
  <2>1. Hangup /\ Same /\ pc = "exchange"
    BY <1>13, Zenon DEF Exchange, target
  <2>2. answers' = Append(answers, "response") \/ answers' = Append(answers, "502") \/ Quiet
    BY <1>13, Zenon DEF Exchange, Answered
  <2>3. answers = <<>>
    BY <1>6, <1>7, <2>1
  <2>4. Quiet \/ Speaks
    BY <1>4, <2>2, <2>3, Zenon
  <2> QED
    BY <1>3, <2>1, <2>4
<1>14. CASE RelayOver
  <2>1. Hangup /\ Same /\ pc = "relay" /\ Quiet
    BY <1>14, Zenon DEF RelayOver, target
  <2> QED
    BY <1>3, <2>1
<1> QED
  BY <1>8, <1>9, <1>10, <1>11, <1>12, <1>13, <1>14

-----------------------------------------------------------------------------
(* The head of the request.                                                *)

LEMMA Heading ==
    ASSUME IInv, UNCHANGED <<relay, site, cfg, dial, phase, opens, spoke>>,
           pc \in {"head", "peek", "sni"}, pc' \in {"peek", "sni", "resolve", "handed"},
           DialType', Way'
    PROVE  IInv'
<1>1. /\ StreamType /\ Dialling /\ Handshake /\ Pumps
  BY DEF IInv
<1>2. /\ src' = src /\ ends' = ends /\ sink' = sink /\ got' = got /\ fin' = fin /\ pump' = pump
      /\ held' = held /\ permit' = permit /\ site' = site /\ cfg' = cfg /\ judged' = judged
      /\ given' = given /\ dialled' = dialled /\ opens' = opens /\ spoke' = spoke
  BY Zenon DEF relay, dial
<1>3. StreamType'
  BY <1>1, <1>2, Zenon DEF StreamType
<1>4. Dialling'
  <2>1. Fresh
    BY <1>1 DEF Dialling
  <2>2. Fresh'
    BY <1>2, <2>1, Zenon DEF Fresh
  <2>3. pc' \notin {"dial", "handshake"}
    OBVIOUS
  <2> QED
    BY <2>2, <2>3, Zenon DEF Dialling
<1>5. Handshake'
  <2>1. ~opens /\ src[Upstream] = <<>> /\ spoke[Upstream] = 0
    <3>1. pc # "handshake" /\ pc \notin {"handshake", "exchange", "relay"}
      OBVIOUS
    <3>2. pc \in {"head", "peek", "sni", "resolve", "dial"}
      OBVIOUS
    <3> QED
      BY <1>1, <3>1, <3>2, Zenon DEF Handshake
  <2>2. pc' # "handshake"
    OBVIOUS
  <2> QED
    BY <1>2, <2>1, <2>2 DEF Handshake
<1>6. Pumps'
  <2>1. pc # "relay" /\ pc \notin {"relay", "closed"} /\ pc' # "relay" /\ pc' \notin {"relay", "closed"}
    OBVIOUS
  <2>2. permit = 0 /\ \A s \in Side : held[s] = <<>> /\ sink[s] = <<>> /\ fin[s] = FALSE
    BY <1>1, <2>1, Zenon DEF Pumps
  <2> QED
    BY <1>2, <2>1, <2>2, Zenon DEF Pumps
<1> QED
  BY <1>3, <1>4, <1>5, <1>6, Zenon DEF IInv

LEMMA HeadKeeps ==
    ASSUME IInv, \/ Connect \/ Steered \/ \E scheme \in {"http", "https"} : Absolute(scheme)
                 \/ PeekHead \/ PeekSni
    PROVE  IInv'
<1>1. DialType /\ Way
  BY DEF IInv
<1>2. pc = "head" => answers = <<>>
  BY <1>1, Zenon DEF Way
<1>3. "200" \in Status /\ "302" \in Status
  BY DEF Status
<1>4. CASE Connect
  <2>1. /\ pc = "head" /\ pc' = "peek" /\ entry' = "connect" /\ answers' = Append(answers, "200")
        /\ UNCHANGED <<relay, site, cfg, dial, phase, opens, spoke>>
    BY <1>4, Zenon DEF Connect, Answered
  <2>2. answers' \in Seq(Status) /\ Len(answers') = 1
    BY <1>2, <1>3, <2>1, FirstAnswer
  <2>3. DialType'
    <3>1. entry' \in {"none", "connect", "steered", "http", "https"}
      BY <2>1
    <3>2. pc' \in {"head", "peek", "sni", "resolve", "dial", "handshake", "exchange", "relay", "handed", "closed"}
      BY <2>1
    <3> QED
      BY <1>1, <2>1, <2>2, <3>1, <3>2, Zenon DEF DialType, dial
  <2>4. Way'
    BY <2>1, <2>2 DEF Way, Plain
  <2> QED
    BY <2>1, <2>3, <2>4, Heading
<1>5. CASE Steered
  <2>1. /\ pc = "head" /\ pc' = "sni" /\ entry' = "steered" /\ answers' = answers
        /\ UNCHANGED <<relay, site, cfg, dial, phase, opens, spoke>>
    BY <1>5, Zenon DEF Steered
  <2>3. DialType'
    <3>1. entry' \in {"none", "connect", "steered", "http", "https"}
      BY <2>1
    <3>2. pc' \in {"head", "peek", "sni", "resolve", "dial", "handshake", "exchange", "relay", "handed", "closed"}
      BY <2>1
    <3> QED
      BY <1>1, <2>1, <3>1, <3>2, Zenon DEF DialType, dial
  <2>4. Way'
    BY <1>2, <2>1, Nil DEF Way, Plain
  <2> QED
    BY <2>1, <2>3, <2>4, Heading
<1>6. ASSUME NEW scheme \in {"http", "https"}, Absolute(scheme) PROVE IInv'
  <2>1. pc = "head" /\ entry' = scheme /\ UNCHANGED <<site, cfg, dial, phase, opens, spoke>>
    BY <1>6, Zenon DEF Absolute
  <2>2. entry' \in {"none", "connect", "steered", "http", "https"}
    BY <2>1
  <2>3. CASE Answered("302") /\ Hangup
    <3>1. answers' \in Seq(Status) /\ Len(answers') <= 1
      BY <1>2, <1>3, <2>1, <2>3, FirstAnswer DEF Answered
    <3> QED
      BY <2>1, <2>2, <2>3, <3>1, Closing
  <2>4. CASE pc' = "resolve" /\ relay' = relay /\ answers' = answers
    <3>1. DialType'
      <4>1. pc' \in {"head", "peek", "sni", "resolve", "dial", "handshake", "exchange", "relay", "handed", "closed"}
        BY <2>4
      <4> QED
        BY <1>1, <2>1, <2>2, <2>4, <4>1, Zenon DEF DialType, dial
    <3>2. Way'
      BY <1>2, <2>1, <2>4, Nil DEF Way
    <3> QED
      BY <2>1, <2>4, <3>1, <3>2, Heading
  <2>5. \/ Answered("302") /\ Hangup
        \/ pc' = "resolve" /\ relay' = relay /\ answers' = answers
    BY <1>6, Zenon DEF Absolute
  <2> QED
    BY <2>3, <2>4, <2>5
<1>7. ASSUME pc \in {"peek", "sni"}, pc' \in {"handed", "resolve"}, entry' = entry, answers' = answers,
             UNCHANGED <<relay, site, cfg, dial, phase, opens, spoke>>
      PROVE  IInv'
  <2>1. DialType'
    <3>1. pc' \in {"head", "peek", "sni", "resolve", "dial", "handshake", "exchange", "relay", "handed", "closed"}
      BY <1>7
    <3> QED
      BY <1>1, <1>7, <3>1, Zenon DEF DialType, dial
  <2>2. Way'
    <3>1. ~Plain /\ Len(answers) <= 1
      BY <1>1, <1>7 DEF Way
    <3>2. ~Plain'
      BY <1>7, <3>1 DEF Plain
    <3> QED
      BY <1>7, <3>1, <3>2 DEF Way
  <2> QED
    BY <1>7, <2>1, <2>2, Heading
<1>8. CASE PeekHead
  <2>1. /\ pc = "peek" /\ entry' = entry /\ answers' = answers
        /\ UNCHANGED <<relay, site, cfg, dial, phase, opens, spoke>>
    BY <1>8, Zenon DEF PeekHead, Peeked, pumps, relay, target
  <2>2. pc' \in {"handed", "resolve"}
    BY <1>8, Zenon DEF PeekHead
  <2> QED
    BY <1>7, <2>1, <2>2
<1>9. CASE PeekSni
  <2>1. /\ pc = "sni" /\ pc' = "resolve" /\ entry' = entry /\ answers' = answers
        /\ UNCHANGED <<relay, site, cfg, dial, phase, opens, spoke>>
    BY <1>9, Zenon DEF PeekSni, Peeked, pumps, relay, target
  <2> QED
    BY <1>7, <2>1
<1> QED
  BY <1>4, <1>5, <1>6, <1>8, <1>9

-----------------------------------------------------------------------------
(* A list is dialled.                                                      *)

LEMMA ManifestIs ==
    Manifest \in Seq(Ips) /\ ToSet(Manifest) \subseteq ToSet(Configured)
<1>1. Configured \in Seq(Ips)
  BY ListsIs, ListIs
<1>2. Manifest = Configured \/ Manifest = <<>>
  BY DEF Manifest
<1>3. Manifest \in Seq(Ips)
  BY <1>1, <1>2, Nil, Zenon
<1>4. ToSet(Manifest) \subseteq ToSet(Configured)
  BY <1>2, NilSet
<1> QED
  BY <1>3, <1>4

\* What is said of the target stays while the target does.
LEMMA TargetStays ==
    ASSUME site' = site, cfg' = cfg, entry' = entry
    PROVE  /\ ViaAgent' <=> ViaAgent
           /\ Plain' <=> Plain
           /\ Resolves' <=> Resolves
           /\ Manifest' = Manifest
           /\ Unknown' <=> Unknown
           /\ Guarded' <=> Guarded
           /\ Judging' <=> Judging
<1>1. (ViaAgent' <=> ViaAgent) /\ (Plain' <=> Plain) /\ (Aliased' <=> Aliased) /\ Manifest' = Manifest
  BY Zenon DEF ViaAgent, Plain, Aliased, Manifest
<1>2. (Resolves' <=> Resolves) /\ Known' = Known
  BY <1>1, Zenon DEF Resolves, Known
<1>3. Unknown' <=> Unknown
  BY <1>2, Zenon DEF Unknown
<1>4. Guarded' <=> Guarded
  BY <1>1, <1>3, Zenon DEF Guarded
<1> QED
  BY <1>1, <1>2, <1>3, <1>4, Zenon DEF Judging

LEMMA DiallingStays ==
    ASSUME Dialling, UNCHANGED <<site, cfg, entry, pc, leg, todo, judged, given, dialled>>
    PROVE  Dialling'
<1>1. /\ ViaAgent' <=> ViaAgent
      /\ Resolves' <=> Resolves
      /\ Manifest' = Manifest
      /\ Unknown' <=> Unknown
      /\ Guarded' <=> Guarded
      /\ Judging' <=> Judging
  BY TargetStays
<1>2. (Fresh' <=> Fresh) /\ (Judged' <=> Judged) /\ (ByName(leg)' <=> ByName(leg))
  BY <1>1, Zenon DEF Fresh, Judged, ByName
<1> QED
  BY <1>1, <1>2, Zenon DEF Dialling

LEMMA DialsKeeps ==
    ASSUME IInv, NEW l \in {"first", "own", "name", "judged"}, NEW ips \in Seq(Ips), ToSet(ips) \subseteq Ips,
           Dials(l, ips), relay' = relay, answers' = answers, judged' \in Seq(Ips),
           pc \in {"resolve", "dial"}, l # "name" => given \subseteq dialled,
           Resolves /\ ~ViaAgent => ToSet(ips) \subseteq Own,
           ~ViaAgent => ToSet(Manifest) \subseteq given \cup ToSet(ips) \/ ByName(l),
           judged' # <<>> => Guarded,
           Judging => \/ l = "first" /\ ips = <<>> /\ given = {} /\ judged' # <<>> /\ Head(judged') # Loopback
                      \/ /\ l = "judged" /\ ips = judged /\ judged' = judged /\ given = {}
                         /\ judged # <<>> /\ Head(judged) # Loopback
    PROVE  IInv'
<1>1. /\ StreamType /\ DialType /\ Way /\ Dialling /\ Handshake /\ Pumps
  BY DEF IInv
<1>2. /\ leg' = l /\ pc' = "dial"
      /\ site' = site /\ cfg' = cfg /\ entry' = entry
      /\ phase' = phase /\ opens' = opens /\ spoke' = spoke /\ dialled' = dialled
  BY Zenon DEF Dials, target
<1>3. /\ src' = src /\ ends' = ends /\ sink' = sink /\ got' = got /\ fin' = fin /\ pump' = pump
      /\ held' = held /\ permit' = permit
  BY Zenon DEF relay
<1>4. PICK g \in (IF ViaAgent THEN AgentIps ELSE {ips}) : todo' = g /\ given' = given \cup ToSet(g)
  BY Zenon DEF Dials
<1>5. (ViaAgent => g \in AgentIps) /\ (~ViaAgent => g = ips)
  BY <1>4
<1>6. g \in Seq(Ips) /\ ToSet(g) \subseteq Ips
  <2>1. CASE ViaAgent
    <3>1. g \in Lists
      BY <1>5, <2>1, ListsIs
    <3> QED
      BY <3>1, ListIs
  <2>2. CASE ~ViaAgent
    BY <1>5, <2>2
  <2> QED
    BY <2>1, <2>2
<1>7. StreamType'
  BY <1>1, <1>2, <1>3, Zenon DEF StreamType
<1>8. DialType'
  <2>1. leg' \in {"none", "first", "own", "name", "judged"}
    BY <1>2
  <2>2. pc' \in {"head", "peek", "sni", "resolve", "dial", "handshake", "exchange", "relay", "handed", "closed"}
    BY <1>2
  <2>3. given' \in SUBSET Ips
    <3>1. given \in SUBSET Ips
      BY <1>1, Zenon DEF DialType
    <3> QED
      BY <1>4, <1>6, <3>1
  <2>4. todo' \in Seq(Ips)
    BY <1>4, <1>6, Zenon
  <2> QED
    BY <1>1, <1>2, <2>1, <2>2, <2>3, <2>4, Zenon DEF DialType
<1>9. Way'
  <2>1. Plain => answers = <<>>
    BY <1>1, Zenon DEF Way
  <2>2. Plain' <=> Plain
    BY <1>2, Zenon DEF Plain
  <2>3. Len(answers) <= 1
    BY <1>1, Zenon DEF Way
  <2> QED
    BY <1>2, <2>1, <2>2, <2>3 DEF Way
<1>10. Dialling'
  <2>1. /\ ViaAgent' <=> ViaAgent
        /\ Resolves' <=> Resolves
        /\ Manifest' = Manifest
        /\ Unknown' <=> Unknown
        /\ Guarded' <=> Guarded
        /\ Judging' <=> Judging
    BY <1>2, TargetStays
  <2>2. leg' # "name" => given' \subseteq dialled' \cup ToSet(todo')
    BY <1>2, <1>4
  <2>3. ViaAgent' => \E gg \in AgentIps : ToSet(todo') \subseteq ToSet(gg)
    BY <1>4, <1>5, <2>1
  <2>4. Resolves' /\ ~ViaAgent' => ToSet(todo') \subseteq Own
    BY <1>4, <1>5, <2>1, Zenon
  <2>5. ~ViaAgent' => ToSet(Manifest') \subseteq given' \/ ByName(leg)'
    <3>1. ByName(l) => ByName(leg)'
      BY <1>2, <2>1, Zenon DEF ByName
    <3> QED
      BY <1>4, <1>5, <2>1, <3>1
  <2>6. ASSUME Judging' PROVE Judged'
    <3>1. Judging /\ ~ViaAgent
      BY <2>1, <2>6, Zenon DEF Judging
    <3>2. g = ips
      BY <1>5, <3>1
    <3>3. CASE l = "first" /\ ips = <<>> /\ given = {} /\ judged' # <<>> /\ Head(judged') # Loopback
      <4>1. leg' = "first" /\ todo' = <<>> /\ given' = {}
        BY <1>2, <1>4, <3>2, <3>3, NilSet
      <4> QED
        BY <3>3, <4>1, Zenon DEF Judged
    <3>4. CASE /\ l = "judged" /\ ips = judged /\ judged' = judged /\ given = {}
               /\ judged # <<>> /\ Head(judged) # Loopback
      <4>1. leg' = "judged" /\ todo' = judged' /\ given' = ToSet(judged')
        BY <1>2, <1>4, <3>2, <3>4
      <4>2. judged' # <<>> /\ Head(judged') # Loopback
        BY <3>4
      <4> QED
        BY <4>1, <4>2, Zenon DEF Judged
    <3> QED
      BY <3>1, <3>3, <3>4
  <2>7. pc' \notin {"head", "peek", "sni", "resolve"}
    BY <1>2
  <2>8. judged' # <<>> => Guarded'
    BY <2>1
  <2> QED
    BY <2>2, <2>3, <2>4, <2>5, <2>6, <2>7, <2>8, Zenon DEF Dialling
<1>11. Handshake'
  <2>1. ~opens /\ src[Upstream] = <<>> /\ spoke[Upstream] = 0
    <3>1. pc # "handshake" /\ pc \notin {"handshake", "exchange", "relay"}
      OBVIOUS
    <3>2. pc \in {"head", "peek", "sni", "resolve", "dial"}
      OBVIOUS
    <3> QED
      BY <1>1, <3>1, <3>2, Zenon DEF Handshake
  <2>2. pc' # "handshake"
    BY <1>2
  <2> QED
    BY <1>2, <1>3, <2>1, <2>2 DEF Handshake
<1>12. Pumps'
  <2>1. pc # "relay" /\ pc \notin {"relay", "closed"} /\ pc' # "relay" /\ pc' \notin {"relay", "closed"}
    BY <1>2
  <2>2. permit = 0 /\ \A s \in Side : held[s] = <<>> /\ sink[s] = <<>> /\ fin[s] = FALSE
    BY <1>1, <2>1, Zenon DEF Pumps
  <2> QED
    BY <1>3, <2>1, <2>2, Zenon DEF Pumps
<1> QED
  BY <1>7, <1>8, <1>9, <1>10, <1>11, <1>12, Zenon DEF IInv

LEMMA LegIs ==
    ASSUME IInv
    PROVE  /\ pc = "resolve" => judged = <<>> /\ given = {} /\ dialled = {}
           /\ pc = "dial" /\ leg # "name" => given \subseteq dialled \cup ToSet(todo)
           /\ pc = "dial" /\ ~ViaAgent => ToSet(Manifest) \subseteq given \/ ByName(leg)
           /\ pc = "dial" /\ judged # <<>> => Guarded
           /\ pc = "dial" /\ Judging => Judged
           /\ pc \in {"resolve", "dial"} /\ Plain => answers = <<>>
           /\ judged \in Seq(Ips) /\ todo \in Seq(Ips)
<1>1. DialType /\ Way /\ Dialling
  BY DEF IInv
<1>2. pc = "resolve" => judged = <<>> /\ given = {} /\ dialled = {}
  BY <1>1, Zenon DEF Dialling, Fresh
<1>3. /\ pc = "dial" /\ leg # "name" => given \subseteq dialled \cup ToSet(todo)
      /\ pc = "dial" /\ ~ViaAgent => ToSet(Manifest) \subseteq given \/ ByName(leg)
      /\ pc = "dial" /\ judged # <<>> => Guarded
      /\ pc = "dial" /\ Judging => Judged
  BY <1>1, Zenon DEF Dialling
<1>4. pc \in {"resolve", "dial"} /\ Plain => answers = <<>>
  BY <1>1 DEF Way
<1>5. judged \in Seq(Ips) /\ todo \in Seq(Ips)
  BY <1>1, Zenon DEF DialType
<1> QED
  BY <1>2, <1>3, <1>4, <1>5, Zenon

LEMMA ResolveKeeps ==
    ASSUME IInv, Resolve
    PROVE  IInv'
<1>2. pc = "resolve" /\ Resolves /\ relay' = relay /\ answers' = answers /\ judged' = judged
  BY Zenon DEF Resolve
<1>3. PICK ips \in IF Aliased THEN AliasIps ELSE HostIps : Dials("first", Candidates(Manifest, ips))
  BY Zenon DEF Resolve
<1>4. ips \in AliasIps \/ ips \in HostIps
  BY <1>3
<1>5. ips \in Seq(Ips) /\ ToSet(ips) \subseteq Ips /\ ToSet(ips) \subseteq Own
  <2>1. ips \in Lists
    BY <1>4, ListsIs
  <2>2. ToSet(ips) \subseteq Own
    BY <1>4, Zenon DEF Own
  <2> QED
    BY <2>1, <2>2, ListIs
<1> DEFINE w == Without(ips, ToSet(Manifest))
           c == Manifest \o w
<1>6. w \in Seq(Ips) /\ ToSet(w) = ToSet(ips) \ ToSet(Manifest)
  BY <1>5, WithoutIs
<1>7. Manifest \in Seq(Ips) /\ ToSet(Manifest) \subseteq ToSet(Configured)
  BY ManifestIs
<1>8. ToSet(Configured) \subseteq Own
  BY DEF Own
<1>9. Dials("first", c)
  BY <1>3, Zenon DEF Candidates
<1> HIDE DEF w
<1>10. c \in Seq(Ips) /\ ToSet(c) = ToSet(Manifest) \cup ToSet(w)
  BY <1>6, <1>7, Joining
<1> HIDE DEF c
<1>11. ToSet(c) \subseteq Own
  BY <1>5, <1>6, <1>7, <1>8, <1>10
<1>12. ToSet(c) \subseteq Ips
  BY <1>10, InSet
<1>13. ToSet(Manifest) \subseteq given \cup ToSet(c)
  BY <1>10
<1>14. ~Judging
  BY <1>2, Zenon DEF Judging, Guarded, Unknown
<1>15. given \subseteq dialled /\ judged' \in Seq(Ips) /\ judged' = <<>>
  <2>1. given = {} /\ judged \in Seq(Ips) /\ judged = <<>>
    BY <1>2, LegIs, Zenon
  <2> QED
    BY <1>2, <2>1
<1> QED
  BY <1>2, <1>9, <1>10, <1>11, <1>12, <1>13, <1>14, <1>15, DialsKeeps

LEMMA GuardKeeps ==
    ASSUME IInv, Guard
    PROVE  IInv'
<1>1. DialType /\ Way
  BY DEF IInv
<1>2. pc = "resolve" /\ ~Resolves
  BY Zenon DEF Guard
<1>3. judged = <<>> /\ given = {} /\ dialled = {} /\ judged \in Seq(Ips)
  BY <1>2, LegIs, Zenon
<1>4. /\ Known \in Seq(Ips) /\ ToSet(Known) \subseteq Ips
      /\ ToSet(Manifest) \subseteq ToSet(Known) \/ ByName("first")
  <2>1. Known = Manifest \/ (Known = <<>> /\ Unknown)
    BY <1>2, Zenon DEF Known, Unknown
  <2>2. Known \in Seq(Ips)
    BY <2>1, ManifestIs, Nil, Zenon
  <2> QED
    BY <2>1, <2>2, InSet, Zenon DEF ByName
<1>5. CASE /\ ~Guarded /\ Dials("first", Known) /\ UNCHANGED <<relay, answers, judged>>
  <2>1. ~Judging
    BY <1>5, Zenon DEF Judging
  <2>2. relay' = relay /\ answers' = answers /\ judged' = judged
    BY <1>5, Zenon
  <2>3. Dials("first", Known)
    BY <1>5
  <2>4. ToSet(Manifest) \subseteq given \cup ToSet(Known) \/ ByName("first")
    BY <1>4
  <2> QED
    BY <1>2, <1>3, <1>4, <2>1, <2>2, <2>3, <2>4, NilSet, DialsKeeps
<1>6. ASSUME NEW ips \in SystemIps, ~Poisoned(ips), judged' = ips, Guarded,
             Dials("first", Known), relay' = relay, answers' = answers
      PROVE  IInv'
  <2>1. judged' \in Seq(Ips)
    <3>1. ips \in Lists
      BY ListsIs
    <3> QED
      BY <1>6, <3>1, ListIs
  <2>2. judged' # <<>> /\ Head(judged') # Loopback
    BY <1>6, Zenon DEF Poisoned
  <2>3. Known = <<>>
    BY <1>6, Zenon DEF Guarded, Unknown
  <2>4. ToSet(Manifest) \subseteq given \cup ToSet(Known) \/ ByName("first")
    BY <1>4
  <2> QED
    BY <1>2, <1>3, <1>4, <1>6, <2>1, <2>2, <2>3, <2>4, NilSet, DialsKeeps
<1>7. CASE /\ Guarded /\ Answered("500") /\ Hangup /\ UNCHANGED <<target, dial, phase, opens, spoke>>
  <2>1. answers = <<>>
    <3>1. Plain
      BY <1>7, Zenon DEF Guarded
    <3> QED
      BY <1>2, <3>1, LegIs
  <2>2. "500" \in Status
    BY DEF Status
  <2>3. answers' \in Seq(Status) /\ Len(answers') <= 1
    BY <1>7, <2>1, <2>2, FirstAnswer DEF Answered
  <2>4. UNCHANGED <<site, cfg, dial, phase, opens, spoke>> /\ entry' = entry
    BY <1>7, Zenon DEF target
  <2>5. entry' \in {"none", "connect", "steered", "http", "https"}
    BY <1>1, <2>4, Zenon DEF DialType
  <2>6. pc \notin {"closed", "handshake", "handed"}
    BY <1>2
  <2> QED
    BY <1>7, <2>3, <2>4, <2>5, <2>6, Closing
<1>8. \/ /\ ~Guarded /\ Dials("first", Known) /\ UNCHANGED <<relay, answers, judged>>
      \/ /\ Guarded
         /\ \E ips \in {i \in SystemIps : ~Poisoned(i)} : judged' = ips
         /\ Dials("first", Known)
         /\ UNCHANGED <<relay, answers>>
      \/ /\ Guarded /\ Answered("500") /\ Hangup /\ UNCHANGED <<target, dial, phase, opens, spoke>>
  BY Zenon DEF Guard
<1>9. CASE /\ Guarded
           /\ \E ips \in {i \in SystemIps : ~Poisoned(i)} : judged' = ips
           /\ Dials("first", Known)
           /\ UNCHANGED <<relay, answers>>
  <2>1. PICK ips \in {i \in SystemIps : ~Poisoned(i)} : judged' = ips
    BY <1>9, Zenon
  <2>2. ips \in SystemIps /\ ~Poisoned(ips)
    BY <2>1, Zenon
  <2>3. relay' = relay /\ answers' = answers
    BY <1>9, Zenon
  <2> QED
    BY <1>6, <1>9, <2>1, <2>2, <2>3, Zenon
<1> QED
  BY <1>5, <1>7, <1>8, <1>9, Zenon

LEMMA DialOwnKeeps ==
    ASSUME IInv, DialOwn
    PROVE  IInv'
<1>2. /\ pc = "dial" /\ todo = <<>> /\ OwnLeg
      /\ relay' = relay /\ answers' = answers /\ judged' = judged
  BY Zenon DEF DialOwn
<1>3. PICK ips \in HostIps : Dials("own", Without(ips, given))
  BY Zenon DEF DialOwn
<1>4. leg = "first" /\ ~Unknown
  BY <1>2, Zenon DEF OwnLeg, Unknown, Resolves
<1>6. ips \in Seq(Ips) /\ ToSet(ips) \subseteq Own
  <2>1. ips \in Lists
    BY ListsIs
  <2>2. ToSet(ips) \subseteq Own
    BY DEF Own
  <2> QED
    BY <2>1, <2>2, ListIs
<1> DEFINE w == Without(ips, given)
<1>7. w \in Seq(Ips) /\ ToSet(w) = ToSet(ips) \ given
  BY <1>6, WithoutIs
<1> HIDE DEF w
<1>8. ToSet(w) \subseteq Own
  BY <1>6, <1>7
<1>9. given \subseteq dialled
  <2>1. given \subseteq dialled \cup ToSet(todo)
    BY <1>2, <1>4, LegIs
  <2> QED
    BY <1>2, <2>1, NilSet
<1>10. ~ViaAgent => ToSet(Manifest) \subseteq given \cup ToSet(w)
  <2>1. ~ViaAgent => ToSet(Manifest) \subseteq given
    BY <1>2, <1>4, LegIs, Zenon DEF ByName
  <2> QED
    BY <2>1
<1>11. ~Judging
  BY <1>4, Zenon DEF Judging, Guarded
<1>12. judged' \in Seq(Ips) /\ (judged' # <<>> => Guarded)
  BY <1>2, LegIs
<1>13. Dials("own", w)
  BY <1>3 DEF w
<1>14. ToSet(w) \subseteq Ips
  BY <1>7, InSet
<1> QED
  BY <1>2, <1>7, <1>8, <1>9, <1>10, <1>11, <1>12, <1>13, <1>14, DialsKeeps

LEMMA DialByNameKeeps ==
    ASSUME IInv, DialByName
    PROVE  IInv'
<1>2. /\ pc = "dial" /\ todo = <<>> /\ NameLeg
      /\ relay' = relay /\ answers' = answers /\ judged' = judged
  BY Zenon DEF DialByName
<1>3. leg = "first" /\ Unknown /\ ~Resolves
  BY <1>2, Zenon DEF NameLeg, Unknown
<1>4. given \subseteq dialled
  <2>1. given \subseteq dialled \cup ToSet(todo)
    BY <1>2, <1>3, LegIs
  <2> QED
    BY <1>2, <2>1, NilSet
<1>5. judged # <<>> => ToSet(Manifest) = {}
  <2> SUFFICES ASSUME judged # <<>> PROVE ToSet(Manifest) = {}
    OBVIOUS
  <2>1. Plain /\ Known = <<>>
    BY <1>2, <1>3, LegIs, Zenon DEF Guarded, Unknown
  <2>2. Manifest = <<>>
    BY <2>1, Zenon DEF Known
  <2> QED
    BY <2>2, NilSet
<1>6. judged \in Seq(Ips) /\ (judged' # <<>> => Guarded)
  BY <1>2, LegIs
<1>7. Judging => judged # <<>> /\ Head(judged) # Loopback /\ given = {}
  <2> SUFFICES ASSUME Judging PROVE judged # <<>> /\ Head(judged) # Loopback /\ given = {}
    OBVIOUS
  <2>1. Judged
    BY <1>2, LegIs
  <2> QED
    BY <1>3, <2>1 DEF Judged
<1>8. CASE judged # <<>>
  <2>1. Dials("judged", judged)
    BY <1>8, Zenon DEF DialByName
  <2>2. ToSet(judged) \subseteq Ips
    BY <1>6, InSet
  <2>3. ToSet(Manifest) \subseteq given \cup ToSet(judged)
    BY <1>5, <1>8
  <2> QED
    BY <1>2, <1>3, <1>4, <1>6, <1>7, <2>1, <2>2, <2>3, DialsKeeps
<1>9. CASE judged = <<>>
  <2>1. PICK ips \in SystemIps : Dials("name", ips)
    BY <1>9, Zenon DEF DialByName
  <2>2. ips \in Seq(Ips) /\ ToSet(ips) \subseteq Ips
    <3>1. ips \in Lists
      BY ListsIs
    <3> QED
      BY <3>1, ListIs
  <2>3. ~Judging
    BY <1>7, <1>9
  <2>4. ByName("name")
    BY <1>3, Zenon DEF ByName
  <2> QED
    BY <1>2, <1>3, <1>4, <1>6, <2>1, <2>2, <2>3, <2>4, DialsKeeps
<1> QED
  BY <1>8, <1>9

-----------------------------------------------------------------------------
(* One address.                                                            *)

LEMMA TakesOne ==
    ASSUME IInv, pc = "dial", todo # <<>>, dialled' = dialled \cup {Head(todo)},
           \/ todo' = Tail(todo)
           \/ leg = "name" /\ todo' = <<>>,
           UNCHANGED <<site, cfg, entry, leg, judged, given>>, pc' \in {"dial", "handshake"}
    PROVE  Dialling' /\ todo' \in Seq(Ips) /\ dialled' \in SUBSET Ips
<1>1. /\ DialType /\ Dialling
  BY DEF IInv
<1>2. todo \in Seq(Ips) /\ dialled \in SUBSET Ips
  BY <1>1, Zenon DEF DialType
<1>3. Tail(todo) \in Seq(Ips) /\ Head(todo) \in Ips /\ ToSet(todo) = {Head(todo)} \cup ToSet(Tail(todo))
  BY <1>2, TakeOff
<1>4. todo' \in Seq(Ips) /\ ToSet(todo') \subseteq ToSet(todo)
  <2>1. CASE todo' = Tail(todo)
    BY <1>3, <2>1
  <2>2. CASE todo' = <<>>
    BY <2>2, Nil, NilSet
  <2> QED
    BY <2>1, <2>2
<1>5. dialled' \in SUBSET Ips /\ dialled' # {}
  BY <1>2, <1>3
<1>6. leg' # "name" => given' \subseteq dialled' \cup ToSet(todo')
  <2> SUFFICES ASSUME leg # "name" PROVE given \subseteq dialled' \cup ToSet(todo')
    OBVIOUS
  <2>1. given \subseteq dialled \cup ToSet(todo)
    BY LegIs
  <2>2. todo' = Tail(todo)
    OBVIOUS
  <2> QED
    BY <1>3, <2>1, <2>2
<1>7. /\ ViaAgent' <=> ViaAgent
      /\ Resolves' <=> Resolves
      /\ Manifest' = Manifest
      /\ Unknown' <=> Unknown
      /\ Guarded' <=> Guarded
      /\ Judging' <=> Judging
  BY TargetStays
<1>8. ViaAgent' => \E g \in AgentIps : ToSet(todo') \subseteq ToSet(g)
  <2>1. ViaAgent => \E g \in AgentIps : ToSet(todo) \subseteq ToSet(g)
    BY <1>1 DEF Dialling
  <2> QED
    BY <1>4, <1>7, <2>1
<1>9. Resolves' /\ ~ViaAgent' => ToSet(todo') \subseteq Own
  <2>1. Resolves /\ ~ViaAgent => ToSet(todo) \subseteq Own
    BY <1>1 DEF Dialling
  <2> QED
    BY <1>4, <1>7, <2>1
<1>10. /\ ~ViaAgent' => ToSet(Manifest') \subseteq given' \/ ByName(leg)'
       /\ judged' # <<>> => Guarded'
  <2>1. ByName(leg) => ByName(leg)'
    BY <1>7, Zenon DEF ByName
  <2> QED
    BY <1>7, <2>1, LegIs
<1>11. ASSUME Judging' PROVE Judged'
  <2>1. Judged
    BY <1>7, <1>11, LegIs
  <2>2. judged # <<>> /\ Head(judged) # Loopback /\ leg = "judged" /\ given = ToSet(judged)
    BY <2>1 DEF Judged
  <2> QED
    BY <1>5, <2>2, Zenon DEF Judged
<1>12. pc' \notin {"head", "peek", "sni", "resolve"}
  OBVIOUS
<1>13. Dialling'
  BY <1>6, <1>8, <1>9, <1>10, <1>11, <1>12, Zenon DEF Dialling
<1> QED
  BY <1>4, <1>5, <1>13

\* While the target is dialled, the client and the relay are left alone.
LEMMA Waiting ==
    ASSUME IInv, pc = "dial"
    PROVE  /\ ~opens /\ src[Upstream] = <<>> /\ spoke[Upstream] = 0
           /\ permit = 0 /\ \A s \in Side : held[s] = <<>> /\ sink[s] = <<>> /\ fin[s] = FALSE
<1>1. Handshake /\ Pumps
  BY DEF IInv
<1>2. ~opens /\ src[Upstream] = <<>> /\ spoke[Upstream] = 0
  <2>1. pc # "handshake" /\ pc \notin {"handshake", "exchange", "relay"}
    OBVIOUS
  <2>2. pc \in {"head", "peek", "sni", "resolve", "dial"}
    OBVIOUS
  <2> QED
    BY <1>1, <2>1, <2>2, Zenon DEF Handshake
<1>3. permit = 0 /\ \A s \in Side : held[s] = <<>> /\ sink[s] = <<>> /\ fin[s] = FALSE
  <2>1. pc # "relay" /\ pc \notin {"relay", "closed"}
    OBVIOUS
  <2> QED
    BY <1>1, <2>1, Zenon DEF Pumps
<1> QED
  BY <1>2, <1>3

LEMMA DialFailsKeeps ==
    ASSUME IInv, DialFails
    PROVE  IInv'
<1>1. StreamType /\ DialType /\ Way
  BY DEF IInv
<1>2. /\ pc = "dial" /\ todo # <<>> /\ dialled' = dialled \cup {Head(todo)}
      /\ pc' = pc /\ site' = site /\ cfg' = cfg /\ entry' = entry /\ leg' = leg
      /\ judged' = judged /\ given' = given /\ phase' = phase /\ opens' = opens
      /\ spoke' = spoke /\ answers' = answers
  BY Zenon DEF DialFails, target
<1>3. /\ src' = src /\ ends' = ends /\ sink' = sink /\ got' = got /\ fin' = fin /\ pump' = pump
      /\ held' = held /\ permit' = permit
  BY Zenon DEF DialFails, relay
<1>4. \/ todo' = Tail(todo)
      \/ leg = "name" /\ todo' = <<>>
  <2>1. todo' \in {Tail(todo)} \cup (IF leg = "name" THEN {<<>>} ELSE {})
    BY Zenon DEF DialFails
  <2> QED
    BY <2>1
<1>5. Dialling' /\ todo' \in Seq(Ips) /\ dialled' \in SUBSET Ips
  <2>1. pc' \in {"dial", "handshake"} /\ UNCHANGED <<site, cfg, entry, leg, judged, given>>
    BY <1>2
  <2> QED
    BY <1>2, <1>4, <2>1, TakesOne
<1>6. StreamType'
  BY <1>1, <1>2, <1>3, Zenon DEF StreamType
<1>7. DialType'
  BY <1>1, <1>2, <1>5, Zenon DEF DialType
<1>8. Way'
  BY <1>1, <1>2, Zenon DEF Way, Plain, ViaAgent
<1>9. Handshake'
  <2>1. ~opens /\ src[Upstream] = <<>> /\ spoke[Upstream] = 0
    BY <1>2, Waiting, Zenon
  <2>2. pc' # "handshake"
    BY <1>2
  <2> QED
    BY <1>2, <1>3, <2>1, <2>2 DEF Handshake
<1>10. Pumps'
  <2>1. pc' # "relay" /\ pc' \notin {"relay", "closed"}
    BY <1>2
  <2>2. permit = 0 /\ \A s \in Side : held[s] = <<>> /\ sink[s] = <<>> /\ fin[s] = FALSE
    BY <1>2, Waiting, Zenon
  <2> QED
    BY <1>3, <2>1, <2>2, Zenon DEF Pumps
<1> QED
  BY <1>5, <1>6, <1>7, <1>8, <1>9, <1>10 DEF IInv

LEMMA AgentReachedKeeps ==
    ASSUME IInv, AgentReached
    PROVE  IInv'
<1>1. StreamType /\ DialType /\ Way
  BY DEF IInv
<1>2. /\ pc = "dial" /\ todo # <<>> /\ ViaAgent /\ dialled' = dialled \cup {Head(todo)}
      /\ todo' = Tail(todo) /\ pc' = "handshake" /\ phase' = Greeted(cfg.agent)
      /\ site' = site /\ cfg' = cfg /\ entry' = entry /\ leg' = leg
      /\ judged' = judged /\ given' = given /\ opens' = opens
      /\ spoke' = spoke /\ answers' = answers
  BY Zenon DEF AgentReached, target
<1>3. /\ src' = src /\ ends' = ends /\ sink' = sink /\ got' = got /\ fin' = fin /\ pump' = pump
      /\ held' = held /\ permit' = permit
  BY Zenon DEF AgentReached, relay
<1>4. phase' \in HandshakePhase /\ phase' # Open
  <2>1. phase' \in {Await("line", 1), Await("socks4", 8), Await("greeting", 2)}
    BY <1>2 DEF Greeted
  <2> QED
    BY <2>1 DEF HandshakePhase, Await, Open
<1>5. Dialling' /\ todo' \in Seq(Ips) /\ dialled' \in SUBSET Ips
  <2>1. pc' \in {"dial", "handshake"} /\ UNCHANGED <<site, cfg, entry, leg, judged, given>>
    BY <1>2
  <2> QED
    BY <1>2, <2>1, TakesOne
<1>6. StreamType'
  BY <1>1, <1>2, <1>3, Zenon DEF StreamType
<1>7. DialType'
  <2>1. pc' \in {"head", "peek", "sni", "resolve", "dial", "handshake", "exchange", "relay", "handed", "closed"}
    BY <1>2
  <2> QED
    BY <1>1, <1>2, <1>4, <1>5, <2>1, Zenon DEF DialType
<1>8. Way'
  <2>1. (Plain => answers = <<>>) /\ Len(answers) <= 1
    BY <1>1, <1>2 DEF Way
  <2>2. (Plain' <=> Plain) /\ ViaAgent'
    BY <1>2, Zenon DEF Plain, ViaAgent
  <2> QED
    BY <1>2, <2>1, <2>2 DEF Way
<1>9. Handshake'
  <2>1. ~opens /\ src[Upstream] = <<>> /\ spoke[Upstream] = 0
    BY <1>2, Waiting, Zenon
  <2>2. Len(Payload) \in Nat
    BY Streams
  <2>3. spoke'[Upstream] = 0 /\ spoke'[Upstream] <= Len(Payload)
    BY <1>2, <2>1, <2>2
  <2>4. Stream'
    BY <1>3, <2>1, Zenon DEF Stream
  <2>5. pc' = "handshake" /\ phase' # Open /\ ~opens'
    BY <1>2, <1>4, <2>1, Zenon
  <2>6. pc' \notin {"head", "peek", "sni", "resolve", "dial"}
    BY <1>2
  <2> QED
    BY <2>3, <2>4, <2>5, <2>6 DEF Handshake
<1>10. Pumps'
  <2>1. pc' # "relay" /\ pc' \notin {"relay", "closed"}
    BY <1>2
  <2>2. permit = 0 /\ \A s \in Side : held[s] = <<>> /\ sink[s] = <<>> /\ fin[s] = FALSE
    BY <1>2, Waiting, Zenon
  <2> QED
    BY <1>3, <2>1, <2>2, Zenon DEF Pumps
<1> QED
  BY <1>5, <1>6, <1>7, <1>8, <1>9, <1>10 DEF IInv

\* The relay has not begun.
LEMMA Unbegun ==
    ASSUME IInv, pc \in {"dial", "handshake"}
    PROVE  permit = 0 /\ \A s \in Side : held[s] = <<>> /\ sink[s] = <<>> /\ fin[s] = FALSE
<1>1. Pumps
  BY DEF IInv
<1>2. pc # "relay" /\ pc \notin {"relay", "closed"}
  OBVIOUS
<1> QED
  BY <1>1, <1>2, Zenon DEF Pumps

LEMMA EstablishedKeeps ==
    ASSUME IInv, NEW rest \in Seq(Token), Established(rest), pc \in {"dial", "handshake"}
    PROVE  IInv'
<1>1. StreamType /\ DialType /\ Way
  BY DEF IInv
<1>2. /\ pc' = IF Plain THEN "exchange" ELSE "relay"
      /\ pump' = IF Plain THEN pump ELSE [s \in Side |-> "read"]
      /\ src' = [src EXCEPT ![Upstream] = rest]
      /\ site' = NoSite /\ cfg' = NoSettings /\ leg' = "none" /\ todo' = <<>> /\ judged' = <<>>
      /\ given' = {} /\ dialled' = {} /\ phase' = Open /\ opens' = FALSE
      /\ entry' = entry /\ answers' = answers /\ spoke' = spoke /\ ends' = ends /\ sink' = sink
      /\ got' = got /\ fin' = fin /\ held' = held /\ permit' = permit
  BY Zenon DEF Established
<1>3. pc' \in {"exchange", "relay"} /\ (pc' = "exchange" <=> Plain)
  BY <1>2
<1>4. permit = 0 /\ \A s \in Side : held[s] = <<>> /\ sink[s] = <<>> /\ fin[s] = FALSE
  BY Unbegun, Zenon
<1>5. StreamType'
  <2>1. src' \in [Side -> Seq(Token)]
    BY <1>1, <1>2 DEF StreamType
  <2>2. pump' \in [Side -> {"off", "read", "write", "done", "failed"}]
    BY <1>1, <1>2 DEF StreamType
  <2> QED
    BY <1>1, <1>2, <2>1, <2>2, Zenon DEF StreamType
<1>6. DialType'
  <2>1. NoSite \in Sites /\ NoSettings \in Settings
    BY DEF NoSite, Sites, NoSettings, Settings, Agents
  <2>2. Open \in HandshakePhase
    BY DEF HandshakePhase
  <2>3. pc' \in {"head", "peek", "sni", "resolve", "dial", "handshake", "exchange", "relay", "handed", "closed"}
    BY <1>3
  <2>4. leg' \in {"none", "first", "own", "name", "judged"}
    BY <1>2
  <2>5. given' \in SUBSET Ips /\ dialled' \in SUBSET Ips /\ todo' \in Seq(Ips) /\ judged' \in Seq(Ips)
    BY <1>2, Nil
  <2>6. opens' \in BOOLEAN
    BY <1>2
  <2> QED
    BY <1>1, <1>2, <2>1, <2>2, <2>3, <2>4, <2>5, <2>6, Zenon DEF DialType
<1>7. Way'
  <2>1. (Plain => answers = <<>>) /\ Len(answers) <= 1
    BY <1>1 DEF Way
  <2>2. Plain' <=> Plain
    BY <1>2, Zenon DEF Plain
  <2> QED
    BY <1>2, <1>3, <2>1, <2>2 DEF Way
<1>8. Dialling'
  BY <1>3 DEF Dialling
<1>9. Handshake'
  BY <1>2, <1>3 DEF Handshake
<1>10. Pumps'
  <2>1. \A s \in Side : held'[s] = <<>> /\ sink'[s] = <<>> /\ fin'[s] = FALSE
    BY <1>2, <1>4, Zenon
  <2>2. pc' = "relay" => \A s \in Side : pump'[s] = "read"
    BY <1>2, <1>3
  <2>3. ASSUME pc' = "relay", NEW s \in Side PROVE Pumping(s)'
    <3>1. pump'[s] = "read" /\ held'[s] = <<>> /\ fin'[Other(s)] = FALSE
      BY <2>1, <2>2, <2>3, Sides, Zenon
    <3> QED
      BY <3>1 DEF Pumping
  <2>4. permit' = 0
    BY <1>2, <1>4
  <2>5. \A s \in Side : (pc' = "relay" => Pumping(s)')
    BY <2>3
  <2> QED
    BY <2>1, <2>4, <2>5 DEF Pumps
<1> QED
  BY <1>5, <1>6, <1>7, <1>8, <1>9, <1>10 DEF IInv

LEMMA DialOkKeeps ==
    ASSUME IInv, DialOk
    PROVE  IInv'
<1>1. pc \in {"dial", "handshake"} /\ Established(<<>>)
  BY Zenon DEF DialOk
<1>2. <<>> \in Seq(Token)
  BY Nil
<1> QED
  BY <1>1, <1>2, EstablishedKeeps

LEMMA AgentFailsKeeps ==
    ASSUME IInv, AgentFails
    PROVE  IInv'
<1>1. StreamType /\ DialType /\ Way /\ Dialling
  BY DEF IInv
<1>2. /\ pc = "handshake" /\ pc' = "dial" /\ phase' = Open /\ opens' = FALSE
      /\ src' = [src EXCEPT ![Upstream] = <<>>] /\ ends' = [ends EXCEPT ![Upstream] = "open"]
      /\ spoke' = [spoke EXCEPT ![Upstream] = 0]
      /\ site' = site /\ cfg' = cfg /\ entry' = entry /\ leg' = leg /\ todo' = todo
      /\ judged' = judged /\ given' = given /\ dialled' = dialled /\ answers' = answers
  BY Zenon DEF AgentFails, target, dial
<1>3. /\ sink' = sink /\ got' = got /\ fin' = fin /\ pump' = pump
      /\ held' = held /\ permit' = permit
  BY Zenon DEF AgentFails, pumps
<1>4. permit = 0 /\ \A s \in Side : held[s] = <<>> /\ sink[s] = <<>> /\ fin[s] = FALSE
  BY <1>2, Unbegun
<1>5. StreamType'
  <2>1. src' \in [Side -> Seq(Token)]
    BY <1>1, <1>2, Nil DEF StreamType
  <2>2. ends' \in [Side -> {"open", "eof", "error"}] /\ spoke' \in [Side -> Nat]
    BY <1>1, <1>2 DEF StreamType
  <2> QED
    BY <1>1, <1>3, <2>1, <2>2, Zenon DEF StreamType
<1>6. DialType'
  <2>1. pc' \in {"head", "peek", "sni", "resolve", "dial", "handshake", "exchange", "relay", "handed", "closed"}
    BY <1>2
  <2>2. phase' \in HandshakePhase /\ opens' \in BOOLEAN
    BY <1>2 DEF HandshakePhase
  <2> QED
    BY <1>1, <1>2, <2>1, <2>2, Zenon DEF DialType
<1>7. Way'
  <2>1. (Plain => answers = <<>>) /\ Len(answers) <= 1
    BY <1>1, <1>2 DEF Way
  <2>2. Plain' <=> Plain
    BY <1>2, Zenon DEF Plain
  <2> QED
    BY <1>2, <2>1, <2>2 DEF Way
<1>8. Dialling'
  <2>1. /\ ViaAgent' <=> ViaAgent
        /\ Resolves' <=> Resolves
        /\ Manifest' = Manifest
        /\ Unknown' <=> Unknown
        /\ Guarded' <=> Guarded
        /\ Judging' <=> Judging
    BY <1>2, TargetStays
  <2>2. pc \in {"dial", "handshake"} /\ pc' \notin {"head", "peek", "sni", "resolve"}
    BY <1>2
  <2>3. /\ leg # "name" => given \subseteq dialled \cup ToSet(todo)
        /\ ViaAgent => \E g \in AgentIps : ToSet(todo) \subseteq ToSet(g)
        /\ Resolves /\ ~ViaAgent => ToSet(todo) \subseteq Own
        /\ ~ViaAgent => ToSet(Manifest) \subseteq given \/ ByName(leg)
        /\ judged # <<>> => Guarded
        /\ Judging => Judged
    BY <1>1, <2>2, Zenon DEF Dialling
  <2>4. (Judged' <=> Judged) /\ (ByName(leg)' <=> ByName(leg))
    BY <1>2, <2>1, Zenon DEF Judged, ByName
  <2> QED
    BY <1>2, <2>1, <2>2, <2>3, <2>4, Zenon DEF Dialling
<1>9. Handshake'
  <2>1. src'[Upstream] = <<>> /\ spoke'[Upstream] = 0
    BY <1>1, <1>2, Sides DEF StreamType
  <2> QED
    BY <1>2, <2>1 DEF Handshake
<1>10. Pumps'
  <2>1. pc' # "relay" /\ pc' \notin {"relay", "closed"}
    BY <1>2
  <2> QED
    BY <1>3, <1>4, <2>1, Zenon DEF Pumps
<1> QED
  BY <1>5, <1>6, <1>7, <1>8, <1>9, <1>10 DEF IInv

\* A step of the handshake.
LEMMA Shaking ==
    ASSUME IInv, pc = "handshake", UNCHANGED <<ends, sink, got, fin, pumps, target, pc, dial, answers>>,
           src' \in [Side -> Seq(Token)], spoke' \in [Side -> Nat], phase' \in HandshakePhase,
           opens' \in BOOLEAN, phase' # Open, spoke'[Upstream] <= Len(Payload),
           ~opens' => spoke'[Upstream] = 0, Stream'
    PROVE  IInv'
<1>1. StreamType /\ DialType /\ Way /\ Dialling
  BY DEF IInv
<1>2. /\ pc' = pc /\ site' = site /\ cfg' = cfg /\ entry' = entry /\ leg' = leg /\ todo' = todo
      /\ judged' = judged /\ given' = given /\ dialled' = dialled /\ answers' = answers
      /\ ends' = ends /\ sink' = sink /\ got' = got /\ fin' = fin /\ pump' = pump
      /\ held' = held /\ permit' = permit
  BY Zenon DEF pumps, target, dial
<1>3. permit = 0 /\ \A s \in Side : held[s] = <<>> /\ sink[s] = <<>> /\ fin[s] = FALSE
  BY Unbegun
<1>4. StreamType'
  BY <1>1, <1>2, Zenon DEF StreamType
<1>5. DialType'
  BY <1>1, <1>2, Zenon DEF DialType
<1>6. Way'
  BY <1>1, <1>2, Zenon DEF Way, Plain, ViaAgent
<1>7. Dialling'
  BY <1>1, <1>2, DiallingStays
<1>8. Handshake'
  <2>1. pc' = "handshake"
    BY <1>2
  <2>2. pc' \notin {"head", "peek", "sni", "resolve", "dial"} /\ ~(pc' \notin {"handshake", "exchange", "relay"})
    BY <2>1
  <2> QED
    BY <2>1, <2>2, Zenon DEF Handshake
<1>9. Pumps'
  <2>1. pc' # "relay" /\ pc' \notin {"relay", "closed"}
    BY <1>2
  <2> QED
    BY <1>2, <1>3, <2>1, Zenon DEF Pumps
<1> QED
  BY <1>4, <1>5, <1>6, <1>7, <1>8, <1>9 DEF IInv

LEMMA Heads ==
    ASSUME NEW n \in 0..Len(Payload)
    PROVE  SubSeq(Payload, 1, n) \in Seq(Token) /\ Len(SubSeq(Payload, 1, n)) = n
  BY Streams, PrefixOf

LEMMA AgentAnswersKeeps ==
    ASSUME IInv, AgentAnswers
    PROVE  IInv'
<1>1. StreamType /\ DialType /\ Handshake
  BY DEF IInv
<1>2. /\ pc = "handshake" /\ ~opens /\ phase' = phase
      /\ UNCHANGED <<ends, sink, got, fin, pumps, target, pc, dial, answers>>
  BY Zenon DEF AgentAnswers
<1>3. phase \in HandshakePhase /\ phase # Open /\ spoke[Upstream] = 0 /\ spoke[Upstream] <= Len(Payload)
  BY <1>1, <1>2, Zenon DEF DialType, Handshake
<1>4. src \in [Side -> Seq(Token)] /\ spoke \in [Side -> Nat]
  BY <1>1, Zenon DEF StreamType
<1>5. ASSUME NEW b \in Opening(phase.at), NEW n \in {m \in 0..1 : m <= Len(Payload)},
             src' = [src EXCEPT ![Upstream] = b \o SubSeq(Payload, 1, n)],
             opens' = TRUE, spoke' = [spoke EXCEPT ![Upstream] = n]
      PROVE  IInv'
  <2>1. phase.at \in {"line", "socks4", "reply"}
    BY <1>5 DEF Opening
  <2>2. b \in Left(phase)
    BY <2>1 DEF Left
  <2>3. b \in Seq(Byte)
    BY <1>3, <2>2, ReadOn DEF Reads
  <2>4. b \in Seq(Token)
    BY <2>3, Streams, Widen
  <2>5. Len(Payload) \in Nat
    BY Streams
  <2>6. n \in 0..Len(Payload) /\ n \in Nat
    BY <2>5
  <2> DEFINE p == SubSeq(Payload, 1, n)
  <2>7. p \in Seq(Token)
    BY <2>6, Heads
  <2> HIDE DEF p
  <2>8. b \o p \in Seq(Token)
    BY <2>4, <2>7
  <2>9. src' = [src EXCEPT ![Upstream] = b \o p]
    BY <1>5 DEF p
  <2> DEFINE c == b \o p
  <2>10. src' = [src EXCEPT ![Upstream] = c] /\ c \in Seq(Token)
    BY <2>8, <2>9
  <2> HIDE DEF c
  <2>11. src' \in [Side -> Seq(Token)] /\ src'[Upstream] = c
    BY <1>4, <2>10, Sides
  <2>12. spoke' \in [Side -> Nat] /\ spoke'[Upstream] = n
    BY <1>4, <1>5, <2>6, Sides
  <2>13. Behind' = p
    BY <2>12, Zenon DEF Behind, p
  <2>14. src'[Upstream] = b \o Behind'
    BY <2>11, <2>13, Zenon DEF c
  <2>15. Stream'
    BY <1>2, <1>5, <2>2, <2>14, Zenon DEF Stream
  <2>16. spoke'[Upstream] <= Len(Payload)
    BY <2>5, <2>6, <2>12
  <2>17. opens' \in BOOLEAN /\ opens'
    BY <1>5
  <2>18. phase' \in HandshakePhase /\ phase' # Open
    BY <1>2, <1>3, Zenon
  <2> QED
    BY <1>2, <2>11, <2>12, <2>15, <2>16, <2>17, <2>18, Shaking
<1>6. ASSUME NEW b \in Asking(phase.at) \cup Refusing(phase.at),
             src' = [src EXCEPT ![Upstream] = b], opens' = opens, spoke' = spoke
      PROVE  IInv'
  <2>1. b \in Seq(Byte)
    BY <1>3, Replying DEF Replied
  <2>2. b \in Seq(Token)
    BY <2>1, Streams, Widen
  <2>3. src' \in [Side -> Seq(Token)] /\ src'[Upstream] = b
    BY <1>4, <1>6, <2>2, Sides
  <2>4. Stream'
    BY <1>2, <1>6, <2>3, Zenon DEF Stream
  <2>5. phase' \in HandshakePhase /\ phase' # Open /\ spoke' \in [Side -> Nat] /\ opens' \in BOOLEAN
        /\ spoke'[Upstream] <= Len(Payload) /\ spoke'[Upstream] = 0
    BY <1>1, <1>2, <1>3, <1>4, <1>6, Zenon DEF DialType
  <2> QED
    BY <1>2, <2>3, <2>4, <2>5, Shaking
<1>7. \/ \E b \in Opening(phase.at), n \in {m \in 0..1 : m <= Len(Payload)} :
            /\ src' = [src EXCEPT ![Upstream] = b \o SubSeq(Payload, 1, n)]
            /\ opens' = TRUE
            /\ spoke' = [spoke EXCEPT ![Upstream] = n]
      \/ \E b \in Asking(phase.at) \cup Refusing(phase.at) :
            /\ src' = [src EXCEPT ![Upstream] = b]
            /\ opens' = opens /\ spoke' = spoke
  BY Zenon DEF AgentAnswers
<1> QED
  BY <1>5, <1>6, <1>7, Zenon

\* A read of the handshake: the tunnel is open, and what is left on the connection
\* is what the far end has sent; or the handshake goes on, and what is left is what
\* is left of the answer.
Onward(next, rest) ==
    /\ next \in HandshakePhase /\ next # Open /\ rest \in Seq(Token)
    /\ \/ opens /\ \E b \in Left(next) : rest = b \o Behind
       \/ ~opens /\ (rest = <<>> \/ next = Failed)

LEMMA BehindIs ==
    ASSUME IInv, pc = "handshake"
    PROVE  Behind \in Seq(Token) /\ spoke[Upstream] \in 0..Len(Payload) /\ Len(Payload) \in Nat
<1>1. spoke[Upstream] \in Nat
  <2>1. spoke \in [Side -> Nat]
    BY Zenon DEF IInv, StreamType
  <2> QED
    BY <2>1, Sides
<1>2. spoke[Upstream] <= Len(Payload)
  BY Zenon DEF IInv, Handshake
<1>3. Len(Payload) \in Nat
  BY Streams
<1>4. spoke[Upstream] \in 0..Len(Payload)
  BY <1>1, <1>2, <1>3
<1> QED
  BY <1>3, <1>4, Heads DEF Behind

LEMMA AgentReadsIs ==
    ASSUME IInv, AgentReads
    PROVE  \/ opens /\ Established(Behind)
           \/ \E next, rest :
                /\ Onward(next, rest)
                /\ phase' = next /\ src' = [src EXCEPT ![Upstream] = rest]
                /\ UNCHANGED <<ends, sink, got, fin, pumps, target, pc, dial, opens, spoke, answers>>
<1> DEFINE m == src[Upstream]
           n == phase.need
           c == (cfg.agent = "socks5 user")
           next == Continue(phase, SubSeq(m, 1, n), c)
           rest == SubSeq(m, n + 1, Len(m))
<1>1. StreamType /\ DialType /\ Handshake
  BY DEF IInv
<1>2. pc = "handshake" /\ phase # Failed /\ Len(m) >= n
  BY Zenon DEF AgentReads
<1>3. IF next = Open THEN Established(rest)
      ELSE /\ phase' = next
           /\ src' = [src EXCEPT ![Upstream] = rest]
           /\ UNCHANGED <<ends, sink, got, fin, pumps, target, pc, dial, opens, spoke, answers>>
  BY Zenon DEF AgentReads
<1>4. phase \in HandshakePhase /\ phase # Open /\ Stream
  BY <1>1, <1>2, Zenon DEF DialType, Handshake
<1>5. n \in Nat /\ n > 0
  BY <1>2, <1>4, Phases
<1>6. m \in Seq(Token)
  BY <1>1, Sides DEF StreamType
<1>7. m # <<>>
  <2> SUFFICES ASSUME m = <<>> PROVE FALSE
    OBVIOUS
  <2>1. Len(m) = 0
    BY Nil
  <2> QED
    BY <1>2, <1>5, <2>1
<1>8. Behind \in Seq(Token)
  BY <1>2, BehindIs
<1>9. ASSUME opens, NEW b \in Left(phase), m = b \o Behind
      PROVE  \/ next = Open /\ rest = Behind
             \/ next # Open /\ next \in HandshakePhase /\ rest \in Seq(Token)
                /\ \E d \in Left(next) : rest = d \o Behind
  <2>1. Reads(phase, b, c)
    BY <1>4, ReadOn, Zenon
  <2>2. b \in Seq(Byte) /\ n \in 1..Len(b)
    BY <2>1, Zenon DEF Reads
  <2>3. b \in Seq(Token) /\ n \in 0..Len(b)
    BY <2>2, Streams, Widen
  <2>4. /\ SubSeq(b \o Behind, 1, n) = SubSeq(b, 1, n)
        /\ SubSeq(b \o Behind, n + 1, Len(b \o Behind)) = SubSeq(b, n + 1, Len(b)) \o Behind
    BY <1>8, <2>3, ReadOff
  <2>5. next = Next1(phase, b, c)
    BY <1>9, <2>4, Zenon DEF Next1
  <2>6. rest = Rest(phase, b) \o Behind
    BY <1>9, <2>4, Zenon DEF Rest
  <2> HIDE DEF next, rest
  <2>7. CASE next = Open /\ Rest(phase, b) = <<>>
    <3>1. <<>> \o Behind = Behind
      BY <1>8
    <3> QED
      BY <2>6, <2>7, <3>1, Zenon
  <2>8. CASE next # Open /\ next \in HandshakePhase /\ Rest(phase, b) \in Left(next)
    <3>1. Rest(phase, b) \in Seq(Byte)
      BY <2>8, ReadOn DEF Reads
    <3>2. Rest(phase, b) \in Seq(Token)
      BY <3>1, Streams, Widen
    <3>3. rest \in Seq(Token)
      BY <1>8, <2>6, <3>2
    <3> QED
      BY <2>6, <2>8, <3>3, Zenon
  <2> QED
    BY <2>1, <2>5, <2>7, <2>8, Zenon DEF Reads
<1>10. ASSUME ~opens, m \in Asking(phase.at) \cup Refusing(phase.at)
       PROVE  next # Open /\ next \in HandshakePhase /\ rest \in Seq(Token) /\ (rest = <<>> \/ next = Failed)
  <2>1. Replied(phase, m, c)
    BY <1>4, <1>10, Replying, Zenon
  <2>2. next = Next1(phase, m, c) /\ rest = Rest(phase, m)
    BY Zenon DEF Next1, Rest
  <2>3. rest \in Seq(Token)
    <3>1. n + 1 \in Nat \ {0} /\ Len(m) \in Nat
      BY <1>5, <1>6
    <3> QED
      BY <1>6, <3>1
  <2> QED
    BY <2>1, <2>2, <2>3, Zenon DEF Replied
<1>11. \/ opens /\ next = Open /\ rest = Behind
       \/ next # Open /\ Onward(next, rest)
  BY <1>2, <1>4, <1>7, <1>9, <1>10, Zenon DEF Stream, Onward
<1> HIDE DEF next, rest
<1> QED
  BY <1>3, <1>11, Zenon

LEMMA AgentReadsKeeps ==
    ASSUME IInv, AgentReads
    PROVE  IInv'
<1>1. StreamType /\ DialType /\ Handshake
  BY DEF IInv
<1>2. pc = "handshake"
  BY Zenon DEF AgentReads
<1>3. Behind \in Seq(Token)
  BY <1>2, BehindIs
<1>4. CASE opens /\ Established(Behind)
  BY <1>2, <1>3, <1>4, EstablishedKeeps
<1>5. ASSUME NEW next, NEW rest, Onward(next, rest),
             phase' = next, src' = [src EXCEPT ![Upstream] = rest],
             UNCHANGED <<ends, sink, got, fin, pumps, target, pc, dial, opens, spoke, answers>>
      PROVE  IInv'
  <2>0. phase' = next
    BY <1>5, Zenon
  <2>1. next \in HandshakePhase /\ next # Open /\ rest \in Seq(Token)
    BY <1>5, Zenon DEF Onward
  <2>2. src \in [Side -> Seq(Token)] /\ spoke \in [Side -> Nat] /\ opens \in BOOLEAN
    BY <1>1, Zenon DEF StreamType, DialType
  <2>3. src' \in [Side -> Seq(Token)] /\ src'[Upstream] = rest
    BY <1>5, <2>1, <2>2, Sides
  <2>4. opens' = opens /\ spoke' = spoke
    BY <1>5, Zenon
  <2>5. Behind' = Behind
    BY <2>4, Zenon DEF Behind
  <2>6. Stream'
    <3>1. CASE opens /\ \E b \in Left(next) : rest = b \o Behind
      <4>1. PICK b \in Left(next) : rest = b \o Behind
        BY <3>1
      <4>2. b \in Left(phase') /\ src'[Upstream] = b \o Behind'
        BY <2>0, <2>3, <2>5, <4>1
      <4>3. opens'
        BY <2>4, <3>1
      <4> QED
        BY <4>2, <4>3, Zenon DEF Stream
    <3>2. CASE ~opens /\ (rest = <<>> \/ next = Failed)
      <4>1. ~opens' /\ (src'[Upstream] = <<>> \/ phase' = Failed)
        BY <2>0, <2>3, <2>4, <3>2
      <4> QED
        BY <4>1, Zenon DEF Stream
    <3> QED
      BY <1>5, <3>1, <3>2, Zenon DEF Onward
  <2>7. spoke[Upstream] <= Len(Payload) /\ (~opens => spoke[Upstream] = 0)
    BY <1>1, <1>2, Zenon DEF Handshake
  <2>8. spoke' \in [Side -> Nat] /\ opens' \in BOOLEAN /\ phase' \in HandshakePhase /\ phase' # Open
        /\ spoke'[Upstream] <= Len(Payload) /\ (~opens' => spoke'[Upstream] = 0)
    BY <2>0, <2>1, <2>2, <2>4, <2>7
  <2>9. UNCHANGED <<ends, sink, got, fin, pumps, target, pc, dial, answers>>
    BY <1>5, Zenon
  <2> QED
    BY <1>2, <2>3, <2>6, <2>8, <2>9, Shaking
<1> QED
  BY <1>4, <1>5, AgentReadsIs, Zenon

-----------------------------------------------------------------------------
(* The relay and the two peers.                                            *)

LEMMA Aside ==
    ASSUME IInv, UNCHANGED others
    PROVE  DialType' /\ Way' /\ Dialling' /\ pc' = pc /\ opens' = opens /\ phase' = phase /\ entry' = entry
<1>1. DialType /\ Way /\ Dialling
  BY DEF IInv
<1>2. /\ pc' = pc /\ site' = site /\ cfg' = cfg /\ entry' = entry /\ leg' = leg /\ todo' = todo
      /\ judged' = judged /\ given' = given /\ dialled' = dialled /\ answers' = answers
      /\ phase' = phase /\ opens' = opens
  BY Zenon DEF others, target, dial
<1>3. DialType'
  BY <1>1, <1>2, Zenon DEF DialType
<1>4. Way'
  BY <1>1, <1>2, Zenon DEF Way, Plain, ViaAgent
<1>5. Dialling'
  BY <1>1, <1>2, DiallingStays
<1> QED
  BY <1>2, <1>3, <1>4, <1>5

\* The handshake is over, or nothing has come from the far end.
LEMMA Apart ==
    ASSUME IInv, UNCHANGED others,
           \/ pc = "relay"
           \/ src'[Upstream] = src[Upstream] /\ spoke'[Upstream] = spoke[Upstream]
           \/ pc = "handshake" /\ src'[Upstream] = <<>> /\ spoke'[Upstream] = spoke[Upstream]
    PROVE  Handshake'
<1>1. Handshake
  BY DEF IInv
<1>2. pc' = pc /\ opens' = opens /\ phase' = phase
  BY Aside
<1>3. CASE pc = "relay"
  BY <1>1, <1>2, <1>3 DEF Handshake
<1>4. CASE src'[Upstream] = src[Upstream] /\ spoke'[Upstream] = spoke[Upstream]
  <2>1. Behind' = Behind
    BY <1>4, Zenon DEF Behind
  <2>2. Stream' <=> Stream
    BY <1>2, <1>4, <2>1, Zenon DEF Stream
  <2> QED
    BY <1>1, <1>2, <1>4, <2>2, Zenon DEF Handshake
<1>5. CASE pc = "handshake" /\ src'[Upstream] = <<>> /\ spoke'[Upstream] = spoke[Upstream]
  <2>1. Stream'
    BY <1>5, Zenon DEF Stream
  <2>2. phase # Open /\ spoke[Upstream] <= Len(Payload) /\ (~opens => spoke[Upstream] = 0)
    BY <1>1, <1>5, Zenon DEF Handshake
  <2>3. pc' = "handshake" /\ pc' \notin {"head", "peek", "sni", "resolve", "dial"}
    BY <1>2, <1>5
  <2> QED
    BY <1>2, <1>5, <2>1, <2>2, <2>3 DEF Handshake
<1> QED
  BY <1>3, <1>4, <1>5

\* What a pump has to keep when it moves, and what it leaves to the other.
LEMMA OnePump ==
    ASSUME IInv, UNCHANGED others, pc = "relay", NEW s \in Side,
           permit' = 1 => Failing', Failing => Failing', Pumping(s)',
           pump'[Other(s)] = pump[Other(s)], held'[Other(s)] = held[Other(s)], fin'[s] = fin[s]
    PROVE  Pumps'
<1>1. Pumps /\ Way
  BY DEF IInv
<1>2. pc' = pc /\ entry' = entry
  BY Aside
<1>3. ~Plain /\ ~Plain'
  BY <1>1, <1>2 DEF Way, Plain
<1> DEFINE t == Other(s)
<1>4. t \in Side /\ Other(t) = s /\ \A u \in Side : u = s \/ u = t
  BY Sides
<1>5. Pumping(t)
  BY <1>1, <1>4, Zenon DEF Pumps
<1>6. Pumping(t)'
  BY <1>4, <1>5, Zenon DEF Pumping
<1>7. \A u \in Side : Pumping(u)'
  BY <1>4, <1>6, Zenon
<1>8. pc' = "relay"
  BY <1>2
<1> QED
  BY <1>3, <1>7, <1>8 DEF Pumps

LEMMA PumpIs ==
    ASSUME IInv, pc = "relay", NEW s \in Side
    PROVE  /\ pump[s] # "off"
           /\ pump[s] = "read" => held[s] = <<>>
           /\ pump[s] = "write" => held[s] # <<>>
           /\ pump[s] \in {"read", "write"} => fin[Other(s)] = FALSE
           /\ pump[s] = "failed" => Failing
           /\ pump[s] = "done" => fin[Other(s)] = TRUE \/ Failing
           /\ permit = 1 => Failing
<1>1. Pumps
  BY DEF IInv
<1>2. Pumping(s) /\ (permit = 1 => Failing)
  BY <1>1, Zenon DEF Pumps
<1> QED
  BY <1>2, Zenon DEF Pumping

LEMMA StreamIs ==
    ASSUME IInv, NEW s \in Side
    PROVE  /\ src \in [Side -> Seq(Token)] /\ held \in [Side -> Seq(Token)]
           /\ sink \in [Side -> Seq(Token)] /\ got \in [Side -> Seq(Token)]
           /\ src[s] \in Seq(Token) /\ held[s] \in Seq(Token) /\ sink[s] \in Seq(Token) /\ got[s] \in Seq(Token)
           /\ Len(sink[s]) <= Room /\ Len(held[s]) <= 1
           /\ ends \in [Side -> {"open", "eof", "error"}] /\ fin \in [Side -> BOOLEAN]
           /\ pump \in [Side -> {"off", "read", "write", "done", "failed"}]
           /\ permit \in 0..1 /\ spoke \in [Side -> Nat] /\ spoke[s] \in Nat
<1>1. StreamType
  BY DEF IInv
<1> QED
  BY <1>1 DEF StreamType

\* One item more and one item less.
LEMMA OneMore ==
    ASSUME NEW X, NEW q \in Seq(X), NEW x \in X
    PROVE  Append(q, x) \in Seq(X)
  OBVIOUS

LEMMA OneLess ==
    ASSUME NEW X, NEW q \in Seq(X), q # <<>>
    PROVE  /\ Tail(q) \in Seq(X) /\ Head(q) \in X /\ Len(Tail(q)) <= Len(q)
           /\ <<Head(q)>> \in Seq(X) /\ Len(<<Head(q)>>) = 1 /\ <<Head(q)>> # <<>>
           /\ <<Head(q)>> \o Tail(q) = q
  OBVIOUS

LEMMA RoomIs == Room \in Nat \ {0}
  BY SideAssumption

LEMMA Fits ==
    ASSUME NEW X, NEW a \in Seq(X), NEW b \in Seq(X), NEW n \in Nat, Len(a) < n, Len(b) <= 1
    PROVE  a \o b \in Seq(X) /\ Len(a \o b) <= n
  OBVIOUS

LEMMA RelayingKeeps ==
    ASSUME IInv, NEW s \in Side, Relaying(s)
    PROVE  IInv'
<1> DEFINE t == Other(s)
<1>1. pc = "relay" /\ Pump(s) /\ UNCHANGED others /\ spoke' = spoke
  BY Zenon DEF Relaying, others
<1>2. DialType' /\ Way' /\ Dialling' /\ Handshake' /\ pc' = pc
  BY <1>1, Aside, Apart
<1>3. StreamType
  BY DEF IInv
<1>4. t \in Side /\ t # s
  BY Sides
<1> HIDE DEF t
<1>5. CASE PumpReads(s)
  <2>1. /\ pump[s] = "read" /\ src[s] # <<>>
        /\ held' = [held EXCEPT ![s] = <<Head(src[s])>>]
        /\ src' = [src EXCEPT ![s] = Tail(@)]
        /\ pump' = [pump EXCEPT ![s] = "write"]
        /\ ends' = ends /\ sink' = sink /\ got' = got /\ fin' = fin /\ permit' = permit
    BY <1>5, Zenon DEF PumpReads, Reading
  <2>2. src[s] \in Seq(Token)
    BY StreamIs
  <2> DEFINE h == <<Head(src[s])>>
             r == Tail(src[s])
  <2>3. h \in Seq(Token) /\ r \in Seq(Token) /\ Len(h) = 1 /\ h # <<>>
    BY <2>1, <2>2, OneLess
  <2>4. held' = [held EXCEPT ![s] = h] /\ src' = [src EXCEPT ![s] = r]
    BY <2>1
  <2> HIDE DEF h, r
  <2>5. held' \in [Side -> Seq(Token)] /\ held'[s] = h /\ \A u \in Side : u # s => held'[u] = held[u]
    BY <1>3, <2>3, <2>4 DEF StreamType
  <2>6. src' \in [Side -> Seq(Token)]
    BY <1>3, <2>3, <2>4 DEF StreamType
  <2>7. pump' \in [Side -> {"off", "read", "write", "done", "failed"}] /\ pump'[s] = "write"
        /\ \A u \in Side : u # s => pump'[u] = pump[u]
    BY <1>3, <2>1 DEF StreamType
  <2>8. \A u \in Side : Len(held'[u]) <= 1
    <3> SUFFICES ASSUME NEW u \in Side PROVE Len(held'[u]) <= 1
      OBVIOUS
    <3>1. CASE u = s
      <4>1. held'[u] = h
        BY <2>5, <3>1
      <4>2. Len(h) <= 1
        BY <2>3
      <4> QED
        BY <4>1, <4>2, Zenon
    <3>2. CASE u # s
      BY <2>5, <3>2, StreamIs
    <3> QED
      BY <3>1, <3>2
  <2>9. StreamType'
    BY <1>1, <1>3, <2>1, <2>5, <2>6, <2>7, <2>8, Zenon DEF StreamType
  <2>10. fin[t] = FALSE
    BY <1>1, <2>1, PumpIs DEF t
  <2>11. Pumping(s)'
    BY <2>1, <2>3, <2>5, <2>7, <2>10 DEF Pumping, t
  <2>12. (permit = 1 => Failing) /\ (Failing' <=> Failing)
    BY <1>1, <2>1, PumpIs, Zenon DEF Failing
  <2>13. Pumps'
    <3>1. pump'[Other(s)] = pump[Other(s)] /\ held'[Other(s)] = held[Other(s)] /\ fin'[s] = fin[s]
      BY <1>4, <2>1, <2>5, <2>7 DEF t
    <3>2. permit' = 1 => Failing'
      BY <2>1, <2>12
    <3> QED
      BY <1>1, <2>11, <2>12, <3>1, <3>2, OnePump
  <2> QED
    BY <1>2, <2>9, <2>13 DEF IInv
<1>6. CASE PumpEof(s)
  <2>1. /\ fin' = [fin EXCEPT ![t] = TRUE]
        /\ pump' = [pump EXCEPT ![s] = "done"]
        /\ src' = src /\ ends' = ends /\ sink' = sink /\ got' = got /\ held' = held /\ permit' = permit
    BY <1>6, Zenon DEF PumpEof, t
  <2>2. fin' \in [Side -> BOOLEAN] /\ fin'[t] = TRUE /\ fin'[s] = fin[s]
    BY <1>3, <1>4, <2>1 DEF StreamType
  <2>3. pump' \in [Side -> {"off", "read", "write", "done", "failed"}] /\ pump'[s] = "done"
        /\ \A u \in Side : u # s => pump'[u] = pump[u]
    BY <1>3, <2>1 DEF StreamType
  <2>4. StreamType'
    BY <1>1, <1>3, <2>1, <2>2, <2>3, Zenon DEF StreamType
  <2>5. Pumping(s)'
    BY <2>2, <2>3 DEF Pumping, t
  <2>6. (permit = 1 => Failing) /\ (Failing' <=> Failing)
    BY <1>1, <2>1, PumpIs, Zenon DEF Failing
  <2>7. Pumps'
    <3>1. pump'[Other(s)] = pump[Other(s)] /\ held'[Other(s)] = held[Other(s)] /\ fin'[s] = fin[s]
      BY <1>4, <2>1, <2>2, <2>3 DEF t
    <3>2. permit' = 1 => Failing'
      BY <2>1, <2>6
    <3> QED
      BY <1>1, <2>5, <2>6, <3>1, <3>2, OnePump
  <2> QED
    BY <1>2, <2>4, <2>7 DEF IInv
<1>7. ASSUME pump' = [pump EXCEPT ![s] = "failed"], permit' = 1, Failing, UNCHANGED <<sockets, held>>
      PROVE  IInv'
  <2>1. src' = src /\ ends' = ends /\ sink' = sink /\ got' = got /\ held' = held /\ fin' = fin
    BY <1>7, Zenon DEF sockets
  <2>3. pump' \in [Side -> {"off", "read", "write", "done", "failed"}] /\ pump'[s] = "failed"
        /\ \A u \in Side : u # s => pump'[u] = pump[u]
    BY <1>3, <1>7 DEF StreamType
  <2>4. StreamType'
    <3>1. permit' \in 0..1
      BY <1>7
    <3> QED
      BY <1>1, <1>3, <2>1, <2>3, <3>1, Zenon DEF StreamType
  <2>5. Failing'
    BY <1>7, <2>1, Zenon DEF Failing
  <2>6. Pumping(s)'
    BY <2>3, <2>5 DEF Pumping
  <2>7. Pumps'
    <3>1. pump'[Other(s)] = pump[Other(s)] /\ held'[Other(s)] = held[Other(s)] /\ fin'[s] = fin[s]
      BY <1>4, <2>1, <2>3 DEF t
    <3> QED
      BY <1>1, <2>5, <2>6, <3>1, OnePump
  <2> QED
    BY <1>2, <2>4, <2>7 DEF IInv
<1>8. CASE PumpReadFails(s)
  <2>1. /\ pump' = [pump EXCEPT ![s] = "failed"] /\ permit' = 1 /\ ends[s] = "error"
        /\ UNCHANGED <<sockets, held>>
    BY <1>8, Zenon DEF PumpReadFails, Notifies
  <2>2. Failing
    BY <2>1 DEF Failing
  <2> QED
    BY <1>7, <2>1, <2>2
<1>9. CASE PumpWriteFails(s)
  <2>1. /\ pump' = [pump EXCEPT ![s] = "failed"] /\ permit' = 1 /\ ends[t] = "error"
        /\ UNCHANGED <<sockets, held>>
    BY <1>9, Zenon DEF PumpWriteFails, Notifies, t
  <2>2. Failing
    BY <1>4, <2>1 DEF Failing
  <2> QED
    BY <1>7, <2>1, <2>2
<1>10. CASE PumpWrites(s)
  <2>1. /\ pump[s] = "write" /\ Len(sink[t]) < Room
        /\ sink' = [sink EXCEPT ![t] = sink[t] \o held[s]]
        /\ held' = [held EXCEPT ![s] = <<>>]
        /\ pump' = [pump EXCEPT ![s] = "read"]
        /\ src' = src /\ ends' = ends /\ got' = got /\ fin' = fin /\ permit' = permit
    BY <1>10 DEF PumpWrites, t
  <2>2. held[s] \in Seq(Token) /\ Len(held[s]) <= 1 /\ sink[t] \in Seq(Token)
    BY <1>4, StreamIs
  <2> DEFINE k == sink[t] \o held[s]
  <2>3. k \in Seq(Token) /\ Len(k) <= Room
    BY <2>1, <2>2, RoomIs, Fits
  <2>4. sink' = [sink EXCEPT ![t] = k]
    BY <2>1
  <2> HIDE DEF k
  <2>5. sink' \in [Side -> Seq(Token)] /\ sink'[t] = k /\ \A u \in Side : u # t => sink'[u] = sink[u]
    BY <1>3, <1>4, <2>3, <2>4 DEF StreamType
  <2>6. \A u \in Side : Len(sink'[u]) <= Room
    <3> SUFFICES ASSUME NEW u \in Side PROVE Len(sink'[u]) <= Room
      OBVIOUS
    <3>1. CASE u = t
      BY <2>3, <2>5, <3>1
    <3>2. CASE u # t
      BY <2>5, <3>2, StreamIs
    <3> QED
      BY <3>1, <3>2
  <2>7. held' \in [Side -> Seq(Token)] /\ held'[s] = <<>> /\ \A u \in Side : u # s => held'[u] = held[u]
    BY <1>3, <2>1, Nil DEF StreamType
  <2>8. \A u \in Side : Len(held'[u]) <= 1
    <3> SUFFICES ASSUME NEW u \in Side PROVE Len(held'[u]) <= 1
      OBVIOUS
    <3>1. CASE u = s
      BY <2>7, <3>1, Nil
    <3>2. CASE u # s
      BY <2>7, <3>2, StreamIs
    <3> QED
      BY <3>1, <3>2
  <2>9. pump' \in [Side -> {"off", "read", "write", "done", "failed"}] /\ pump'[s] = "read"
        /\ \A u \in Side : u # s => pump'[u] = pump[u]
    BY <1>3, <2>1 DEF StreamType
  <2>10. StreamType'
    BY <1>1, <1>3, <2>1, <2>5, <2>6, <2>7, <2>8, <2>9, Zenon DEF StreamType
  <2>11. fin[t] = FALSE
    BY <1>1, <2>1, PumpIs DEF t
  <2>12. Pumping(s)'
    BY <2>1, <2>7, <2>9, <2>11 DEF Pumping, t
  <2>13. (permit = 1 => Failing) /\ (Failing' <=> Failing)
    BY <1>1, <2>1, PumpIs, Zenon DEF Failing
  <2>14. Pumps'
    <3>1. pump'[Other(s)] = pump[Other(s)] /\ held'[Other(s)] = held[Other(s)] /\ fin'[s] = fin[s]
      BY <1>4, <2>1, <2>7, <2>9 DEF t
    <3>2. permit' = 1 => Failing'
      BY <2>1, <2>13
    <3> QED
      BY <1>1, <2>12, <2>13, <3>1, <3>2, OnePump
  <2> QED
    BY <1>2, <2>10, <2>14 DEF IInv
<1>11. CASE PumpAborts(s)
  <2>1. /\ pump[s] = "read" /\ permit = 1 /\ permit' = 0
        /\ pump' = [pump EXCEPT ![s] = "done"]
        /\ src' = src /\ ends' = ends /\ sink' = sink /\ got' = got /\ fin' = fin /\ held' = held
    BY <1>11, Zenon DEF PumpAborts, sockets
  <2>2. Failing
    BY <1>1, <2>1, PumpIs
  <2>3. Failing'
    BY <2>1, <2>2, Zenon DEF Failing
  <2>4. pump' \in [Side -> {"off", "read", "write", "done", "failed"}] /\ pump'[s] = "done"
        /\ \A u \in Side : u # s => pump'[u] = pump[u]
    BY <1>3, <2>1 DEF StreamType
  <2>5. StreamType'
    <3>1. permit' \in 0..1
      BY <2>1
    <3> QED
      BY <1>1, <1>3, <2>1, <2>4, <3>1, Zenon DEF StreamType
  <2>6. Pumping(s)'
    BY <2>3, <2>4 DEF Pumping
  <2>7. Pumps'
    <3>1. pump'[Other(s)] = pump[Other(s)] /\ held'[Other(s)] = held[Other(s)] /\ fin'[s] = fin[s]
      BY <1>4, <2>1, <2>4 DEF t
    <3> QED
      BY <1>1, <2>3, <2>6, <3>1, OnePump
  <2> QED
    BY <1>2, <2>5, <2>7 DEF IInv
<1> QED
  BY <1>1, <1>5, <1>6, <1>8, <1>9, <1>10, <1>11 DEF Pump

LEMMA PumpsStay ==
    ASSUME IInv, UNCHANGED others, pump' = pump, held' = held, fin' = fin, permit' = permit,
           Failing => Failing', sink' = sink \/ (~Plain /\ pc \in {"relay", "closed"})
    PROVE  Pumps'
<1>1. Pumps
  BY DEF IInv
<1>2. pc' = pc /\ entry' = entry
  BY Aside
<1>3. Plain' <=> Plain
  BY <1>2, Zenon DEF Plain
<1>4. pc = "relay" => \A s \in Side : Pumping(s)'
  <2> SUFFICES ASSUME pc = "relay", NEW s \in Side PROVE Pumping(s)'
    OBVIOUS
  <2>1. Pumping(s)
    BY <1>1, Zenon DEF Pumps
  <2> QED
    BY <2>1, Zenon DEF Pumping
<1>5. Plain \/ pc \notin {"relay", "closed"} => \A s \in Side : sink'[s] = <<>>
  BY <1>1, Zenon DEF Pumps
<1>6. /\ pc # "relay" => \A s \in Side : held[s] = <<>>
      /\ pc \notin {"relay", "closed"} => permit = 0 /\ \A s \in Side : fin[s] = FALSE
      /\ pc = "relay" => (permit = 1 => Failing)
  BY <1>1, Zenon DEF Pumps
<1>7. permit = 1 /\ pc = "relay" => Failing'
  BY <1>6
<1> QED
  BY <1>2, <1>3, <1>4, <1>5, <1>6, <1>7, Zenon DEF Pumps

LEMMA EndsKeeps ==
    ASSUME IInv, NEW s \in Side, Ends(s)
    PROVE  IInv'
<1>1. /\ UNCHANGED others /\ spoke' = spoke /\ ends[s] = "open" /\ ends' = [ends EXCEPT ![s] = "eof"]
      /\ src' = src /\ sink' = sink /\ got' = got /\ fin' = fin /\ pump' = pump /\ held' = held /\ permit' = permit
  BY Zenon DEF Ends, PeerEnds, pumps
<1>2. DialType' /\ Way' /\ Dialling' /\ Handshake'
  BY <1>1, Aside, Apart
<1>3. StreamType
  BY DEF IInv
<1>4. ends' \in [Side -> {"open", "eof", "error"}] /\ \A u \in Side : u # s => ends'[u] = ends[u]
  BY <1>1, <1>3 DEF StreamType
<1>5. StreamType'
  BY <1>1, <1>3, <1>4, Zenon DEF StreamType
<1>6. Failing => Failing'
  BY <1>1, <1>4 DEF Failing
<1>7. Pumps'
  BY <1>1, <1>6, PumpsStay
<1> QED
  BY <1>2, <1>5, <1>7 DEF IInv

LEMMA BreaksKeeps ==
    ASSUME IInv, NEW s \in Side, Breaks(s)
    PROVE  IInv'
<1>1. /\ UNCHANGED others /\ spoke' = spoke /\ ends' = [ends EXCEPT ![s] = "error"]
      /\ sink' = sink /\ got' = got /\ fin' = fin /\ pump' = pump /\ held' = held /\ permit' = permit
      /\ Connected(s)
  BY Zenon DEF Breaks, PeerBreaks, pumps
<1>2. src' = src \/ src' = [src EXCEPT ![s] = <<>>]
  BY Zenon DEF Breaks, PeerBreaks
<1>3. StreamType
  BY DEF IInv
<1>4. ends' \in [Side -> {"open", "eof", "error"}] /\ ends'[s] = "error"
  BY <1>1, <1>3 DEF StreamType
<1>5. src' \in [Side -> Seq(Token)]
  <2>1. src \in [Side -> Seq(Token)] /\ <<>> \in Seq(Token)
    BY <1>3, Nil DEF StreamType
  <2>2. CASE src' = src
    BY <2>1, <2>2
  <2>3. CASE src' = [src EXCEPT ![s] = <<>>]
    BY <2>1, <2>3
  <2> QED
    BY <1>2, <2>2, <2>3
<1>6. StreamType'
  BY <1>1, <1>3, <1>4, <1>5, Zenon DEF StreamType
<1>7. Failing'
  BY <1>4 DEF Failing
<1>8. Pumps'
  BY <1>1, <1>7, PumpsStay
<1>9. Handshake'
  <2>1. spoke'[Upstream] = spoke[Upstream]
    BY <1>1
  <2>2. CASE src'[Upstream] = src[Upstream]
    BY <1>1, <2>1, <2>2, Apart
  <2>3. CASE src'[Upstream] # src[Upstream]
    <3>1. s = Upstream /\ src'[Upstream] = <<>>
      BY <1>2, <1>3, <2>3, Sides DEF StreamType
    <3>2. pc \in {"handshake", "relay"}
      BY <1>1, <3>1, Sides DEF Connected
    <3> QED
      BY <1>1, <2>1, <3>1, <3>2, Apart
  <2> QED
    BY <2>2, <2>3
<1>10. DialType' /\ Way' /\ Dialling'
  BY <1>1, Aside
<1> QED
  BY <1>6, <1>8, <1>9, <1>10 DEF IInv

LEMMA TakesKeeps ==
    ASSUME IInv, NEW s \in Side, Takes(s)
    PROVE  IInv'
<1>1. /\ UNCHANGED others /\ spoke' = spoke /\ pc \in {"relay", "closed"} /\ sink[s] # <<>>
      /\ got' = [got EXCEPT ![s] = Append(got[s], Head(sink[s]))]
      /\ sink' = [sink EXCEPT ![s] = Tail(sink[s])]
      /\ src' = src /\ ends' = ends /\ fin' = fin /\ pump' = pump /\ held' = held /\ permit' = permit
  BY DEF Takes, PeerTakes, pumps
<1>2. DialType' /\ Way' /\ Dialling' /\ Handshake'
  BY <1>1, Aside, Apart
<1>3. StreamType
  BY DEF IInv
<1>4. sink[s] \in Seq(Token) /\ got[s] \in Seq(Token) /\ Len(sink[s]) <= Room
  BY StreamIs
<1> DEFINE h == Head(sink[s])
           r == Tail(sink[s])
           g == Append(got[s], h)
<1>5. h \in Token /\ r \in Seq(Token) /\ Len(r) <= Room
  <2>1. h \in Token /\ r \in Seq(Token) /\ Len(r) <= Len(sink[s])
    BY <1>1, <1>4, OneLess
  <2> HIDE DEF r
  <2>2. Len(r) \in Nat /\ Len(sink[s]) \in Nat
    BY <1>4, <2>1
  <2> QED
    BY <1>4, <2>1, <2>2, RoomIs
<1>6. g \in Seq(Token)
  BY <1>4, <1>5, OneMore
<1>7. got' = [got EXCEPT ![s] = g] /\ sink' = [sink EXCEPT ![s] = r]
  BY <1>1
<1> HIDE DEF g, r
<1>8. got' \in [Side -> Seq(Token)]
  BY <1>3, <1>6, <1>7 DEF StreamType
<1>9. sink' \in [Side -> Seq(Token)] /\ sink'[s] = r /\ \A u \in Side : u # s => sink'[u] = sink[u]
  BY <1>3, <1>5, <1>7 DEF StreamType
<1>10. \A u \in Side : Len(sink'[u]) <= Room
  <2> SUFFICES ASSUME NEW u \in Side PROVE Len(sink'[u]) <= Room
    OBVIOUS
  <2>1. CASE u = s
    <3>1. sink'[u] = r
      BY <1>9, <2>1
    <3> QED
      BY <1>5, <3>1, Zenon
  <2>2. CASE u # s
    BY <1>9, <2>2, StreamIs
  <2> QED
    BY <2>1, <2>2
<1>11. StreamType'
  BY <1>1, <1>3, <1>8, <1>9, <1>10, Zenon DEF StreamType
<1>12. ~Plain
  BY <1>1, Zenon DEF IInv, Pumps
<1>13. Failing => Failing'
  BY <1>1, Zenon DEF Failing
<1>14. Pumps'
  BY <1>1, <1>12, <1>13, PumpsStay
<1> QED
  BY <1>2, <1>11, <1>14 DEF IInv

LEMMA Item ==
    ASSUME NEW X, NEW q \in Seq(X), NEW n \in Nat, n < Len(q)
    PROVE  q[n + 1] \in X
  OBVIOUS

\* A peer says one thing more.
LEMMA SpeaksKeeps ==
    ASSUME IInv, NEW s \in Side, NEW x \in Token, s = Client \/ pc = "relay",
           src' = [src EXCEPT ![s] = Append(@, x)], spoke' = [spoke EXCEPT ![s] = @ + 1],
           UNCHANGED <<ends, sink, got, fin, pumps, others>>
    PROVE  IInv'
<1>1. /\ UNCHANGED others /\ ends' = ends /\ sink' = sink /\ got' = got /\ fin' = fin
      /\ pump' = pump /\ held' = held /\ permit' = permit
  BY Zenon DEF pumps
<1>2. StreamType
  BY DEF IInv
<1>3. src[s] \in Seq(Token) /\ spoke[s] \in Nat
  BY StreamIs
<1> DEFINE q == Append(src[s], x)
<1>4. q \in Seq(Token) /\ src' = [src EXCEPT ![s] = q]
  BY <1>3, OneMore
<1> HIDE DEF q
<1>5. src' \in [Side -> Seq(Token)] /\ \A u \in Side : u # s => src'[u] = src[u]
  BY <1>2, <1>4 DEF StreamType
<1>6. spoke' \in [Side -> Nat] /\ \A u \in Side : u # s => spoke'[u] = spoke[u]
  BY <1>2, <1>3 DEF StreamType
<1>7. StreamType'
  BY <1>1, <1>2, <1>5, <1>6, Zenon DEF StreamType
<1>8. Failing => Failing'
  BY <1>1, Zenon DEF Failing
<1>9. Pumps'
  BY <1>1, <1>8, PumpsStay
<1>10. Handshake'
  <2>1. CASE pc = "relay"
    BY <1>1, <2>1, Apart
  <2>2. CASE s = Client
    <3>1. src'[Upstream] = src[Upstream] /\ spoke'[Upstream] = spoke[Upstream]
      BY <1>5, <1>6, <2>2, Sides
    <3> QED
      BY <1>1, <3>1, Apart
  <2> QED
    BY <2>1, <2>2
<1>11. DialType' /\ Way' /\ Dialling'
  BY <1>1, Aside
<1> QED
  BY <1>7, <1>9, <1>10, <1>11 DEF IInv

\* What a peer says next is an item.
Says(s) ==
    \E x \in Token :
        /\ src' = [src EXCEPT ![s] = Append(@, x)] /\ spoke' = [spoke EXCEPT ![s] = @ + 1]
        /\ UNCHANGED <<ends, sink, got, fin, pumps, others>>

LEMMA ClientSays ==
    ASSUME IInv, ClientSpeaks
    PROVE  Says(Client)
<1>1. PICK x \in IF spoke[Client] = 0 THEN First ELSE {Upload[spoke[Client]]} :
          src' = [src EXCEPT ![Client] = Append(@, x)]
  BY Zenon DEF ClientSpeaks
<1>2. /\ spoke[Client] <= Len(Upload) /\ spoke' = [spoke EXCEPT ![Client] = @ + 1]
      /\ UNCHANGED <<ends, sink, got, fin, pumps, others>>
  BY Zenon DEF ClientSpeaks
<1>3. spoke[Client] \in Nat
  BY Sides, StreamIs
<1>4. x \in Token
  <2>1. CASE spoke[Client] = 0
    BY <1>1, <2>1, Streams
  <2>2. CASE spoke[Client] # 0
    <3> DEFINE n == spoke[Client] - 1
    <3>1. n \in Nat /\ n < Len(Upload) /\ n + 1 = spoke[Client]
      BY <1>2, <1>3, <2>2, Streams
    <3>2. Upload[n + 1] \in Token
      BY <3>1, Streams, Item
    <3> QED
      BY <1>1, <2>2, <3>1, <3>2
  <2> QED
    BY <2>1, <2>2
<1> QED
  BY <1>1, <1>2, <1>4, Zenon DEF Says

LEMMA UpstreamSays ==
    ASSUME IInv, UpstreamSpeaks
    PROVE  Says(Upstream)
<1> DEFINE x == Payload[spoke[Upstream] + 1]
<1>1. /\ spoke[Upstream] < Len(Payload)
      /\ src' = [src EXCEPT ![Upstream] = Append(@, x)]
      /\ spoke' = [spoke EXCEPT ![Upstream] = @ + 1]
      /\ UNCHANGED <<ends, sink, got, fin, pumps, others>>
  BY Zenon DEF UpstreamSpeaks
<1>2. spoke[Upstream] \in Nat
  BY Sides, StreamIs
<1>3. x \in Token
  BY <1>1, <1>2, Streams, Item
<1> HIDE DEF x
<1> QED
  BY <1>1, <1>3, Zenon DEF Says

LEMMA BothSpeakKeeps ==
    ASSUME IInv, ClientSpeaks \/ UpstreamSpeaks
    PROVE  IInv'
<1>1. CASE ClientSpeaks
  BY <1>1, ClientSays, Sides, SpeaksKeeps DEF Says
<1>2. CASE UpstreamSpeaks
  <2>1. pc = "relay"
    BY <1>2, Zenon DEF UpstreamSpeaks
  <2> QED
    BY <1>2, <2>1, UpstreamSays, Sides, SpeaksKeeps DEF Says
<1> QED
  BY <1>1, <1>2

-----------------------------------------------------------------------------
(* The invariant holds in every reachable state.                           *)

LEMMA InitHolds == Init => IInv
<1> SUFFICES ASSUME Init PROVE IInv
  OBVIOUS
<1>1. /\ src = [s \in Side |-> <<>>] /\ sink = [s \in Side |-> <<>>]
      /\ got = [s \in Side |-> <<>>] /\ held = [s \in Side |-> <<>>]
      /\ ends = [s \in Side |-> "open"] /\ fin = [s \in Side |-> FALSE]
      /\ pump = [s \in Side |-> "off"] /\ permit = 0
      /\ spoke = [s \in Side |-> 0]
  BY Zenon DEF Init, RelayInit
<1>2. /\ site \in Sites /\ cfg \in Seen /\ entry = "none" /\ pc = "head" /\ leg = "none"
      /\ todo = <<>> /\ judged = <<>> /\ given = {} /\ dialled = {}
      /\ phase = Open /\ opens = FALSE /\ answers = <<>>
  BY Zenon DEF Init
<1>3. StreamType
  <2>1. /\ src \in [Side -> Seq(Token)] /\ held \in [Side -> Seq(Token)]
        /\ sink \in [Side -> Seq(Token)] /\ got \in [Side -> Seq(Token)]
    BY <1>1, Nil
  <2>2. \A s \in Side : Len(sink[s]) <= Room /\ Len(held[s]) <= 1
    <3>1. \A s \in Side : sink[s] = <<>> /\ held[s] = <<>>
      BY <1>1
    <3>2. 0 <= Room /\ 0 <= 1
      BY RoomIs
    <3> QED
      BY <3>1, <3>2, Nil, Zenon
  <2>3. /\ ends \in [Side -> {"open", "eof", "error"}] /\ fin \in [Side -> BOOLEAN]
        /\ pump \in [Side -> {"off", "read", "write", "done", "failed"}]
        /\ permit \in 0..1 /\ spoke \in [Side -> Nat]
    BY <1>1
  <2> QED
    BY <2>1, <2>2, <2>3, Zenon DEF StreamType
<1>4. DialType
  <2>1. cfg \in Settings
    BY <1>2, SeenAssumption
  <2>2. todo \in Seq(Ips) /\ judged \in Seq(Ips) /\ answers \in Seq(Status)
    BY <1>2, Nil
  <2>3. phase \in HandshakePhase
    BY <1>2 DEF HandshakePhase
  <2>4. given \in SUBSET Ips /\ dialled \in SUBSET Ips /\ opens \in BOOLEAN
    BY <1>2
  <2>5. /\ entry \in {"none", "connect", "steered", "http", "https"}
        /\ pc \in {"head", "peek", "sni", "resolve", "dial", "handshake", "exchange", "relay", "handed", "closed"}
        /\ leg \in {"none", "first", "own", "name", "judged"}
    BY <1>2
  <2> QED
    BY <1>2, <2>1, <2>2, <2>3, <2>4, <2>5, Zenon DEF DialType
<1>5. Way
  BY <1>2, Nil DEF Way
<1>6. Dialling
  BY <1>2 DEF Dialling, Fresh
<1>7. Handshake
  BY <1>1, <1>2, Sides DEF Handshake
<1>8. Pumps
  BY <1>1, <1>2 DEF Pumps
<1> QED
  BY <1>3, <1>4, <1>5, <1>6, <1>7, <1>8 DEF IInv

LEMMA Stutters ==
    ASSUME IInv, UNCHANGED vars
    PROVE  IInv'
<1>1. /\ UNCHANGED others /\ spoke' = spoke
      /\ src' = src /\ ends' = ends /\ sink' = sink /\ got' = got /\ fin' = fin
      /\ pump' = pump /\ held' = held /\ permit' = permit
  BY Zenon DEF vars, others, target, dial, relay
<1>2. DialType' /\ Way' /\ Dialling' /\ Handshake'
  BY <1>1, Aside, Apart
<1>3. Failing => Failing'
  BY <1>1, Zenon DEF Failing
<1>4. Pumps'
  BY <1>1, <1>3, PumpsStay
<1>5. StreamType'
  BY <1>1, Zenon DEF IInv, StreamType
<1> QED
  BY <1>2, <1>4, <1>5 DEF IInv

LEMMA NextKeeps == IInv /\ [Next]_vars => IInv'
<1> SUFFICES ASSUME IInv, [Next]_vars PROVE IInv'
  OBVIOUS
<1>1. CASE Request
  BY <1>1, ClosesKeeps, HeadKeeps DEF Request
<1>2. CASE Step
  BY <1>2, ClosesKeeps, HeadKeeps, ResolveKeeps, GuardKeeps, DialOwnKeeps, DialByNameKeeps, DialFailsKeeps,
     DialOkKeeps, AgentReachedKeeps, AgentReadsKeeps, AgentFailsKeeps DEF Step
<1>3. ASSUME NEW s \in Side, Relaying(s) \/ Ends(s) \/ Breaks(s) \/ Takes(s) PROVE IInv'
  BY <1>3, RelayingKeeps, EndsKeeps, BreaksKeeps, TakesKeeps
<1>4. CASE AgentAnswers \/ ClientSpeaks \/ UpstreamSpeaks
  BY <1>4, AgentAnswersKeeps, BothSpeakKeeps
<1>5. CASE Done \/ UNCHANGED vars
  BY <1>5, Stutters DEF Done
<1> QED
  BY <1>1, <1>2, <1>3, <1>4, <1>5 DEF Next

LEMMA Always == Spec => []IInv
  BY InitHolds, NextKeeps, PTL DEF Spec

-----------------------------------------------------------------------------
(* The theorems.                                                           *)

\* The target that is dialled is one of the host's own: a host that is accelerated
\* or has an alias is never dialled at an address of the system resolver, and with
\* an agent nothing is dialled but the agent (dial_upstream and the gates of
\* dial_by_name).
THEOREM OwnAddresses == Spec => []DialsOnlyItsOwn
<1>1. IInv => DialsOnlyItsOwn
  <2> SUFFICES ASSUME IInv, pc = "dial"
               PROVE  /\ ViaAgent => \E g \in AgentIps : ToSet(todo) \subseteq ToSet(g)
                      /\ Resolves /\ ~ViaAgent => ToSet(todo) \subseteq Own
    BY Zenon DEF DialsOnlyItsOwn, Own
  <2> QED
    BY DEF IInv, Dialling
<1> QED
  BY <1>1, Always, PTL

LEMMA Typed == IInv => TypeOK
<1> SUFFICES ASSUME IInv PROVE TypeOK
  OBVIOUS
<1>1. StreamType /\ DialType
  BY DEF IInv
<1>2. RelayTypeOK(Token)
  <2>1. ASSUME NEW s \in Side
        PROVE  /\ ToSet(src[s]) \subseteq Token /\ ToSet(held[s]) \subseteq Token
               /\ ToSet(sink[s]) \subseteq Token /\ ToSet(got[s]) \subseteq Token
               /\ Len(sink[s]) <= Room /\ Len(held[s]) <= 1
    BY StreamIs, InSet
  <2> QED
    BY <1>1, <2>1, Zenon DEF StreamType, RelayTypeOK
<1>3. ToSet(todo) \cup ToSet(judged) \cup given \cup dialled \subseteq Ips
  BY <1>1, InSet DEF DialType
<1>4. ToSet(answers) \subseteq {"200", "302", "400", "500", "502", "pac", "response"}
  BY <1>1, InSet DEF DialType, Status
<1> QED
  BY <1>1, <1>2, <1>3, <1>4, Zenon DEF TypeOK, StreamType, DialType, Token

\* Of a name the manifest does not know, exactly the addresses that the pollution
\* guard has judged are dialled, and the first of them is the one it has judged by
\* (handle_http).
THEOREM JudgesWhatItDials == Spec => []JudgedIsDialled
<1>1. IInv => JudgedIsDialled
  <2> SUFFICES ASSUME IInv, pc = "dial", Guarded, ~ViaAgent
               PROVE  given \subseteq ToSet(judged) /\ (dialled = {} /\ todo # <<>> => Head(todo) # Loopback)
    BY Typed, Zenon DEF JudgedIsDialled
  <2>1. Judged
    BY LegIs, Zenon DEF Judging
  <2> QED
    BY <2>1 DEF Judged
<1> QED
  BY <1>1, Always, PTL

\* The steps that close the connection.
LEMMA Closers ==
    ASSUME IInv, Next, pc' = "closed"
    PROVE  \/ pc \in {"head", "sni", "exchange", "relay"}
           \/ pc = "resolve" /\ Answered("500")
           \/ DialSpent
           \/ \E s \in Side : Takes(s)
           \/ UNCHANGED vars
<1>1. CASE Request
  <2>1. pc = "head"
    BY <1>1, Zenon DEF Request, ReadNothing, ServePac, BadTarget, Connect, Steered, Absolute
  <2> QED
    BY <2>1
<1>2. CASE PeekHead \/ PeekSni \/ NoSni
  <2>1. CASE PeekHead
    <3>1. pc' \in {"handed", "resolve"}
      BY <2>1, Zenon DEF PeekHead
    <3> QED
      BY <3>1
  <2>2. CASE PeekSni
    <3>1. pc' = "resolve"
      BY <2>2, Zenon DEF PeekSni
    <3> QED
      BY <3>1
  <2>3. CASE NoSni
    <3>1. pc = "sni"
      BY <2>3, Zenon DEF NoSni
    <3> QED
      BY <3>1
  <2> QED
    BY <1>2, <2>1, <2>2, <2>3
<1>3. ASSUME NEW l, NEW ips, Dials(l, ips) PROVE FALSE
  <2>1. pc' = "dial"
    BY <1>3, Zenon DEF Dials
  <2> QED
    BY <2>1
<1>4. CASE Resolve \/ DialOwn \/ DialByName
  BY <1>3, <1>4, Zenon DEF Resolve, DialOwn, DialByName
<1>5. CASE Guard
  BY <1>3, <1>5, Zenon DEF Guard
<1>6. CASE DialSpent \/ Exchange \/ RelayOver
  <2>1. Exchange \/ RelayOver => pc \in {"exchange", "relay"}
    BY DEF Exchange, RelayOver
  <2> QED
    BY <1>6, <2>1
<1>7. ASSUME NEW rest, Established(rest) PROVE FALSE
  <2>1. pc' = IF Plain THEN "exchange" ELSE "relay"
    BY <1>7, Zenon DEF Established
  <2> QED
    BY <2>1
<1>8. CASE DialFails \/ DialOk \/ AgentReached \/ AgentFails
  <2>1. CASE DialFails
    <3>1. pc = "dial" /\ pc' = pc
      BY <2>1, Zenon DEF DialFails
    <3> QED
      BY <3>1
  <2>2. CASE DialOk
    BY <1>7, <2>2, Zenon DEF DialOk
  <2>3. CASE AgentReached
    <3>1. pc' = "handshake"
      BY <2>3, Zenon DEF AgentReached
    <3> QED
      BY <3>1
  <2>4. CASE AgentFails
    <3>1. pc' = "dial"
      BY <2>4, Zenon DEF AgentFails
    <3> QED
      BY <3>1
  <2> QED
    BY <1>8, <2>1, <2>2, <2>3, <2>4
<1>9. CASE AgentReads \/ AgentAnswers
  <2>1. pc = "handshake"
    BY <1>9, Zenon DEF AgentReads, AgentAnswers
  <2>2. pc' = pc \/ \E rest : Established(rest)
    BY <1>9, AgentReadsIs, Zenon DEF AgentAnswers
  <2> QED
    BY <1>7, <2>1, <2>2
<1>10. ASSUME NEW s \in Side, Relaying(s) \/ Ends(s) \/ Breaks(s) PROVE pc = "relay"
  <2>1. pc' = pc
    BY <1>10, Zenon DEF Relaying, Ends, Breaks, others
  <2>2. Relaying(s) => pc = "relay"
    BY Zenon DEF Relaying
  <2>3. Ends(s) \/ Breaks(s) => pc \in {"peek", "sni", "relay", "handshake"}
    BY DEF Ends, Breaks, Connected
  <2> QED
    BY <1>10, <2>1, <2>2, <2>3
<1>11. CASE ClientSpeaks \/ UpstreamSpeaks
  <2>1. pc' = pc
    BY <1>11, Zenon DEF ClientSpeaks, UpstreamSpeaks, others
  <2>2. pc \in {"peek", "sni", "relay"}
    BY <1>11, Sides DEF ClientSpeaks, UpstreamSpeaks, Connected
  <2> QED
    BY <2>1, <2>2
<1>12. CASE Done
  BY <1>12, Zenon DEF Done
<1>13. CASE Step
  BY <1>2, <1>4, <1>5, <1>6, <1>8, <1>9, <1>13, Zenon DEF Step
<1>14. CASE \E s \in Side : Relaying(s) \/ Ends(s) \/ Breaks(s) \/ Takes(s)
  <2>1. PICK s \in Side : Relaying(s) \/ Ends(s) \/ Breaks(s) \/ Takes(s)
    BY <1>14
  <2>2. CASE Takes(s)
    BY <2>2, Zenon
  <2>3. CASE Relaying(s) \/ Ends(s) \/ Breaks(s)
    BY <1>10, <2>3
  <2> QED
    BY <2>1, <2>2, <2>3
<1> QED
  BY <1>1, <1>9, <1>11, <1>12, <1>13, <1>14, Zenon DEF Next

\* The target is given up only when every address that a leg has offered, and every
\* configured one of the host, has been dialled, but for the leg of dial_by_name; the
\* client of a plain request is told so, and no client is told twice
\* (dial_tunnel_upstream, handle_connect, handle_http).
THEOREM GivenUpAfterAll == Spec => GivesUpAfterAll
<1> DEFINE A == /\ pc = "dial" /\ pc' = "closed" /\ leg # "name" =>
                      /\ given \subseteq dialled
                      /\ ~ViaAgent => ToSet(Manifest) \subseteq dialled
                /\ Plain /\ pc' = "closed" /\ pc # "exchange" => answers' # <<>>
                /\ Len(answers') <= 1
<1>1. IInv /\ [Next]_vars => [A]_vars
  <2> SUFFICES ASSUME IInv, Next, ~(UNCHANGED vars) PROVE A
    BY Zenon
  <2>1. IInv'
    BY NextKeeps
  <2>2. Len(answers') <= 1
    BY <2>1, Zenon DEF IInv, Way
  <2>3. CASE pc' # "closed"
    BY <2>2, <2>3
  <2>4. CASE pc' = "closed" /\ pc \in {"head", "sni", "exchange", "relay"}
    <3>1. Plain => pc = "exchange"
      BY <2>4 DEF IInv, Way, Plain
    <3> QED
      BY <2>2, <2>4, <3>1
  <2>5. CASE pc' = "closed" /\ pc = "resolve" /\ Answered("500")
    <3>1. answers \in Seq(Status)
      BY Zenon DEF IInv, DialType
    <3>2. "500" \in Status
      BY DEF Status
    <3>3. answers' # <<>>
      BY <2>5, <3>1, <3>2 DEF Answered
    <3> QED
      BY <2>2, <2>5, <3>3
  <2>6. CASE pc' = "closed" /\ DialSpent
    <3>1. pc = "dial" /\ todo = <<>>
      BY <2>6, Zenon DEF DialSpent
    <3>2. leg # "name" => given \subseteq dialled
      BY <3>1, LegIs, NilSet
    <3>3. leg # "name" /\ ~ViaAgent => ToSet(Manifest) \subseteq given
      <4>1. ~(leg = "first" /\ Unknown /\ ~ViaAgent)
        BY <2>6, Zenon DEF DialSpent, NameLeg
      <4> QED
        BY <3>1, <4>1, LegIs DEF ByName
    <3>4. Plain => answers' # <<>>
      <4>1. answers \in Seq(Status)
        BY Zenon DEF IInv, DialType
      <4>2. Plain => answers' = Append(answers, "502")
        BY <2>6 DEF DialSpent, Answered
      <4>3. "502" \in Status
        BY DEF Status
      <4> QED
        BY <4>1, <4>2, <4>3
    <3> QED
      BY <2>2, <3>2, <3>3, <3>4
  <2>7. CASE pc' = "closed" /\ \E s \in Side : Takes(s)
    <3>1. PICK s \in Side : Takes(s)
      BY <2>7
    <3>2. pc \in {"relay", "closed"} /\ sink[s] # <<>>
      BY <3>1, Zenon DEF Takes, PeerTakes
    <3>3. ~Plain
      BY <3>2, Zenon DEF IInv, Pumps
    <3> QED
      BY <2>2, <3>2, <3>3
  <2> QED
    BY <2>3, <2>4, <2>5, <2>6, <2>7, Closers
<1>2. [][A]_vars => GivesUpAfterAll
  BY DEF GivesUpAfterAll
<1> QED
  BY <1>1, <1>2, Always, PTL DEF Spec

-----------------------------------------------------------------------------
(* The tunnel implements a pair of channels (module Duplex).               *)

\* Prefixes.
LEMMA PrefixIs ==
    ASSUME NEW X, NEW a \in Seq(X), NEW b \in Seq(X)
    PROVE  IsPrefix(a, a \o b) /\ IsPrefix(a, a) /\ IsPrefix(<<>>, a)
<1>1. a \o b \in Seq(X) /\ Len(a \o b) = Len(a) + Len(b) /\ Len(a) <= Len(a \o b)
  OBVIOUS
<1>2. SubSeq(a \o b, 1, Len(a)) = SubSeq(a, 1, Len(a))
  OBVIOUS
<1>3. IsPrefix(a, a \o b)
  BY <1>1, <1>2 DEF IsPrefix
<1>4. IsPrefix(a, a)
  BY DEF IsPrefix
<1>5. SubSeq(<<>>, 1, Len(<<>>)) = SubSeq(a, 1, Len(<<>>)) /\ Len(<<>>) <= Len(a)
  OBVIOUS
<1>6. IsPrefix(<<>>, a)
  BY <1>5 DEF IsPrefix
<1> QED
  BY <1>3, <1>4, <1>6

\* What most steps leave of the channels as it is.
SameUp == (pc' = "relay") <=> (pc = "relay")
SameSent(s) == Sent(s)' = Sent(s)
SameGot == \A s \in Side : got'[s] \o sink'[s] = got[s] \o sink[s]

LEMMA Stays ==
    ASSUME SameUp, \A s \in Side : SameSent(s), SameGot, ends' = ends, fin' = fin
    PROVE  UNCHANGED Tube!duplex
  BY DEF SameUp, SameSent, SameGot, Tube!duplex

LEMMA Peers == Tube!Peer = Side
  BY DEF Tube!Peer, Side

\* The steps of the channels, each from what it does to one side.
LEMMA Starts ==
    ASSUME pc # "relay", pc' = "relay", \A s \in Side : SameSent(s), SameGot, ends' = ends, fin' = fin
    PROVE  Tube!Next
<1>1. Tube!Start
  BY DEF SameSent, SameGot, Tube!Start
<1> QED
  BY <1>1 DEF Tube!Next

LEMMA SamePrefix == \A a, b : IsPrefix(a, b) => Tube!IsPrefix(a, b)
  BY Zenon DEF IsPrefix, Tube!IsPrefix

LEMMA Sends ==
    ASSUME NEW p \in Side, ends[p] = "open", IsPrefix(Sent(p), Sent(p)'),
           \A s \in Side : s # p => SameSent(s), SameUp, SameGot, ends' = ends, fin' = fin
    PROVE  Tube!Next
<1> DEFINE F == [s \in Side |-> Sent(s)]
           F1 == [s \in Side |-> Sent(s)']
<1>1. F[p] = Sent(p) /\ F1[p] = Sent(p)'
  OBVIOUS
<1>2. Tube!IsPrefix(F[p], F1[p])
  BY <1>1, SamePrefix, Zenon
<1>3. F1 = [F EXCEPT ![p] = F1[p]]
  BY DEF SameSent
<1>4. ~[s \in Side |-> ends[s] # "open"][p]
  OBVIOUS
<1>5. Tube!Send(p)
  BY <1>2, <1>3, <1>4 DEF SameUp, SameGot, Tube!Send
<1> QED
  BY <1>5, Peers DEF Tube!Next

LEMMA Drops ==
    ASSUME pc' = "closed", \A s \in Side : Sent(s)' = <<>>, \A s \in Side : fin'[s] = TRUE, fin' \in [Side -> BOOLEAN],
           SameGot, ends' = ends, pc # "relay" \/ Failing \/ \A s \in Side : fin[s] = TRUE
    PROVE  Tube!Next
<1>1. fin' = [s \in Side |-> TRUE]
  OBVIOUS
<1>2. pc # "relay" \/ (\E s \in Side : ends[s] = "error") \/ \A s \in Tube!Peer : fin[s]
  BY Peers DEF Failing
<1>3. Tube!Drop
  BY <1>1, <1>2, Peers DEF SameGot, Tube!Drop
<1> QED
  BY <1>3 DEF Tube!Next

LEMMA Stops ==
    ASSUME NEW p \in Side, ends \in [Side -> {"open", "eof", "error"}], ends[p] # "error",
           ends' = [ends EXCEPT ![p] = "eof"],
           \A s \in Side : SameSent(s), SameUp, SameGot, fin' = fin
    PROVE  Tube!Next
<1>1. \A s \in Side : ends'[s] # "open" <=> s = p \/ ends[s] # "open"
  OBVIOUS
<1>2. \A s \in Side : ends'[s] = "error" <=> ends[s] = "error"
  OBVIOUS
<1> DEFINE F == [s \in Side |-> ends[s] # "open"]
           F1 == [s \in Side |-> ends'[s] # "open"]
<1>3. F1 = [F EXCEPT ![p] = TRUE]
  BY <1>1
<1>4. (\E s \in Side : ends'[s] = "error") <=> (\E s \in Side : ends[s] = "error")
  BY <1>2
<1>5. Tube!End(p)
  BY <1>3, <1>4 DEF SameUp, SameGot, SameSent, Tube!End
<1> QED
  BY <1>5, Peers DEF Tube!Next

LEMMA Breaking ==
    ASSUME NEW p \in Side, ends \in [Side -> {"open", "eof", "error"}],
           ends' = [ends EXCEPT ![p] = "error"], IsPrefix(Sent(p)', Sent(p)),
           \A s \in Side : s # p => SameSent(s), SameUp, SameGot, fin' = fin
    PROVE  Tube!Next
<1>1. \A s \in Side : ends'[s] # "open" <=> s = p \/ ends[s] # "open"
  OBVIOUS
<1>2. (\E s \in Side : ends'[s] = "error") = TRUE
  <2>1. ends'[p] = "error"
    OBVIOUS
  <2> QED
    BY <2>1
<1> DEFINE E0 == [s \in Side |-> ends[s] # "open"]
           E1 == [s \in Side |-> ends'[s] # "open"]
           F == [s \in Side |-> Sent(s)]
           F1 == [s \in Side |-> Sent(s)']
<1>3. E1 = [E0 EXCEPT ![p] = TRUE]
  BY <1>1
<1>4. F[p] = Sent(p) /\ F1[p] = Sent(p)'
  OBVIOUS
<1>5. Tube!IsPrefix(F1[p], F[p])
  BY <1>4, SamePrefix, Zenon
<1>6. F1 = [F EXCEPT ![p] = F1[p]]
  BY DEF SameSent
<1>7. (\E s \in Side : ends[s] = "error")' = TRUE
  BY <1>2, Zenon
<1>8. /\ E0' = [E0 EXCEPT ![p] = TRUE]
      /\ Tube!IsPrefix((F')[p], F[p]) /\ F' = [F EXCEPT ![p] = (F')[p]]
  BY <1>3, <1>5, <1>6, Zenon
<1>9. UNCHANGED <<pc = "relay", [s \in Side |-> got[s] \o sink[s]], fin>>
  BY DEF SameUp, SameGot
<1>10. Tube!Break(p)
  BY <1>7, <1>8, <1>9, Zenon DEF Tube!Break
<1> QED
  BY <1>10, Peers DEF Tube!Next

LEMMA Retries ==
    ASSUME pc \notin {"relay"}, pc' # "relay", ends \in [Side -> {"open", "eof", "error"}],
           ends' = [ends EXCEPT ![Upstream] = "open"],
           Sent(Upstream)' = <<>>, SameSent(Client), SameGot, fin' = fin
    PROVE  Tube!Next
<1>1. /\ Upstream \in Side /\ Client \in Side /\ Client # Upstream
      /\ \A s \in Side : s = Client \/ s = Upstream
  BY Sides, Zenon
<1>2. \A s \in Side : ends'[s] # "open" <=> s # Upstream /\ ends[s] # "open"
  BY <1>1
<1>3. (\E s \in Side : ends'[s] = "error") => (\E s \in Side : ends[s] = "error")
  BY <1>1
<1> DEFINE E0 == [s \in Side |-> ends[s] # "open"]
           E1 == [s \in Side |-> ends'[s] # "open"]
           F == [s \in Side |-> Sent(s)]
           F1 == [s \in Side |-> Sent(s)']
<1>4. E1 = [E0 EXCEPT ![Upstream] = FALSE]
  BY <1>1, <1>2
<1>5. F1 = [F EXCEPT ![Upstream] = <<>>]
  BY <1>1 DEF SameSent
<1>6. (\E s \in Side : ends'[s] = "error") \in {\E s \in Side : ends[s] = "error", FALSE}
  BY <1>3
<1>7. Tube!Retry
  BY <1>4, <1>5, <1>6 DEF SameGot, Tube!Retry
<1> QED
  BY <1>7 DEF Tube!Next

LEMMA Delivers ==
    ASSUME NEW p \in Side, NEW x, pc = "relay", pc' = "relay",
           fin[Other(p)] = FALSE, Sent(p) # <<>>, Head(Sent(p)) = x, Tail(Sent(p)) = Sent(p)',
           SameSent(Other(p)), got'[p] \o sink'[p] = got[p] \o sink[p],
           got'[Other(p)] \o sink'[Other(p)] = Append(got[Other(p)] \o sink[Other(p)], x),
           ends' = ends, fin' = fin
    PROVE  Tube!Next
<1>1. Other(p) \in Side /\ p # Other(p) /\ \A s \in Side : s = p \/ s = Other(p)
  BY Sides, Zenon DEF Other
<1> DEFINE o == Other(p)
           F == [s \in Side |-> Sent(s)]
           F1 == [s \in Side |-> Sent(s)']
           G == [s \in Side |-> got[s] \o sink[s]]
           G1 == [s \in Side |-> got'[s] \o sink'[s]]
<1> HIDE DEF o
<1>2. F1 = [F EXCEPT ![p] = Tail(F[p])]
  BY <1>1 DEF SameSent, o
<1>3. G1 = [G EXCEPT ![o] = Append(G[o], Head(F[p]))]
  BY <1>1 DEF o
<1>4. F[p] # <<>> /\ ~fin[o]
  BY DEF o
<1>5. Tube!Deliver(p, o)
  BY <1>1, <1>2, <1>3, <1>4 DEF Tube!Deliver, o
<1> QED
  BY <1>1, <1>5, Peers DEF Tube!Next, o

LEMMA Tells ==
    ASSUME NEW p \in Side, pc = "relay", pc' = "relay", ends[p] # "open", Sent(p) = <<>>,
           fin' = [fin EXCEPT ![Other(p)] = TRUE],
           \A s \in Side : SameSent(s), SameGot, ends' = ends
    PROVE  Tube!Next
<1>1. Other(p) \in Side /\ p # Other(p)
  BY Sides, Zenon
<1>2. Tube!Tell(p, Other(p))
  BY <1>1 DEF SameSent, SameGot, Tube!Tell
<1> QED
  BY <1>1, <1>2, Peers DEF Tube!Next

-----------------------------------------------------------------------------
(* The steps before the relay, on the channels.                            *)

\* What each side has sent that the other has not been handed, stage by stage.
Sending ==
    /\ \A s \in Side : Sent(s) \in Seq(Token)
    /\ \A s \in Side : s = Client \/ pc # "handshake" => Sent(s) = held[s] \o src[s]
    /\ \A s \in Side : s = Client \/ pc # "handshake" => pc = "relay" \/ Sent(s) = src[s]
    /\ pc = "handshake" => Sent(Upstream) = Behind
    /\ pc \in {"head", "peek", "sni", "resolve", "dial"} => Sent(Upstream) = <<>>

LEMMA NothingBefore == \A X : \A q \in Seq(X) : <<>> \o q = q /\ q \o <<>> = q
  OBVIOUS

LEMMA Both == \A X : \A a, b \in Seq(X) : a \o b \in Seq(X)
  OBVIOUS

LEMMA SendingIs == IInv => Sending
<1> SUFFICES ASSUME IInv PROVE Sending
  OBVIOUS
<1>1. Client # Upstream /\ Client \in Side /\ Upstream \in Side
  BY Sides
<1>2. \A s \in Side : src[s] \in Seq(Token) /\ held[s] \in Seq(Token)
  BY StreamIs
<1>3. \A s \in Side : s = Client \/ pc # "handshake" => Sent(s) = held[s] \o src[s]
  BY <1>1, Zenon DEF Sent
<1>4. pc = "handshake" => Sent(Upstream) = Behind
  BY Zenon DEF Sent, Behind
<1>5. \A s \in Side : pc = "relay" \/ held[s] = <<>>
  BY Zenon DEF IInv, Pumps
<1>6. \A s \in Side : s = Client \/ pc # "handshake" => pc = "relay" \/ Sent(s) = src[s]
  <2> SUFFICES ASSUME NEW s \in Side, s = Client \/ pc # "handshake", pc # "relay"
               PROVE  Sent(s) = src[s]
    BY Zenon
  <2>1. Sent(s) = <<>> \o src[s]
    BY <1>3, <1>5, Zenon
  <2>2. <<>> \o src[s] = src[s]
    BY <1>2, NothingBefore
  <2> QED
    BY <2>1, <2>2
<1>7. pc \in {"head", "peek", "sni", "resolve", "dial"} => Sent(Upstream) = <<>>
  <2> SUFFICES ASSUME pc \in {"head", "peek", "sni", "resolve", "dial"} PROVE Sent(Upstream) = <<>>
    OBVIOUS
  <2>1. pc # "handshake" /\ pc # "relay" /\ pc \notin {"handshake", "exchange", "relay"}
    OBVIOUS
  <2>2. src[Upstream] = <<>>
    BY <2>1, Zenon DEF IInv, Handshake
  <2> QED
    BY <1>1, <1>6, <2>1, <2>2
<1>8. ASSUME NEW s \in Side PROVE Sent(s) \in Seq(Token)
  <2>1. CASE s = Client \/ pc # "handshake"
    BY <1>2, <1>3, <2>1, Both, Zenon
  <2>2. CASE s = Upstream /\ pc = "handshake"
    BY <1>4, <2>2, BehindIs
  <2> QED
    BY <2>1, <2>2, Sides
<1> QED
  BY <1>3, <1>4, <1>6, <1>7, <1>8, Zenon DEF Sending

LEMMA SendingStays == IInv' => Sending'
  BY SendingIs, PTL

\* The steps that close the connection.
LEMMA HangsUp ==
    ASSUME IInv', Hangup, pc # "relay" \/ Failing \/ \A s \in Side : fin[s] = TRUE
    PROVE  Tube!Next
<1>1. /\ pc' = "closed" /\ src' = [s \in Side |-> <<>>] /\ held' = [s \in Side |-> <<>>]
      /\ fin' = [s \in Side |-> TRUE]
      /\ ends' = ends /\ sink' = sink /\ got' = got
  BY Zenon DEF Hangup
<1>2. Sending'
  BY SendingStays
<1>3. pc' # "handshake" /\ pc' # "relay"
  BY <1>1
<1>4. \A s \in Side : Sent(s)' = src'[s]
  BY <1>2, <1>3, Zenon DEF Sending
<1>5. \A s \in Side : src'[s] = <<>> /\ fin'[s] = TRUE
  BY <1>1
<1>6. fin' \in [Side -> BOOLEAN]
  BY <1>1
<1>7. SameGot
  BY <1>1, Zenon DEF SameGot
<1>8. \A s \in Side : Sent(s)' = <<>>
  BY <1>4, <1>5
<1> QED
  BY <1>1, <1>5, <1>6, <1>7, <1>8, Drops

\* When both pumps have ended, one of the peers has broken off, or both know of the
\* other's end.
LEMMA Ended ==
    ASSUME IInv, RelayOver
    PROVE  Failing \/ \A s \in Side : fin[s] = TRUE
<1>1. pc = "relay" /\ \A s \in Side : pump[s] \in {"done", "failed"}
  BY Zenon DEF RelayOver, Joined
<1>2. \A s \in Side : fin[Other(s)] = TRUE \/ Failing
  BY <1>1, PumpIs
<1> QED
  BY <1>2, Sides

\* The steps before the tunnel that move nothing.
LEMMA Unmoved ==
    ASSUME IInv, IInv', src' = src, ends' = ends, sink' = sink, got' = got, fin' = fin,
           spoke' = spoke, pc \notin {"handshake", "relay"}, pc' # "relay",
           pc' = "handshake" => pc = "dial"
    PROVE  UNCHANGED Tube!duplex
<1>1. Sending /\ Sending'
  BY SendingIs, SendingStays
<1>2. SameGot
  BY Zenon DEF SameGot
<1>3. SameUp
  BY DEF SameUp
<1>4. ASSUME NEW s \in Side PROVE SameSent(s)
  <2>1. Sent(s) = src[s]
    BY <1>1 DEF Sending
  <2>2. CASE s = Client \/ pc' # "handshake"
    <3>1. Sent(s)' = src'[s]
      BY <1>1, <2>2, Zenon DEF Sending
    <3> QED
      BY <2>1, <3>1 DEF SameSent
  <2>3. CASE s = Upstream /\ pc' = "handshake"
    <3>1. pc = "dial"
      BY <2>3
    <3>2. Sent(Upstream) = <<>>
      BY <1>1, <3>1 DEF Sending
    <3>3. Sent(Upstream)' = Behind'
      BY <1>1, <2>3, Zenon DEF Sending
    <3>4. spoke[Upstream] = 0
      BY <3>1, Waiting, Zenon
    <3>5. Behind' = SubSeq(Payload, 1, 0)
      BY <3>4 DEF Behind
    <3>6. SubSeq(Payload, 1, 0) = <<>>
      BY Streams
    <3> QED
      BY <2>3, <3>2, <3>3, <3>5, <3>6 DEF SameSent
  <2> QED
    BY <2>2, <2>3, Sides
<1> QED
  BY <1>2, <1>3, <1>4, Stays

LEMMA HeadMoves ==
    ASSUME IInv, IInv', Connect \/ Steered \/ PeekHead \/ PeekSni
    PROVE  UNCHANGED Tube!duplex
<1> DEFINE Same == /\ src' = src /\ ends' = ends /\ sink' = sink /\ got' = got
                   /\ fin' = fin /\ spoke' = spoke
<1>1. CASE Connect
  <2>1. Same /\ pc = "head" /\ pc' = "peek"
    BY <1>1, Zenon DEF Connect, relay
  <2> QED
    BY <2>1, Unmoved
<1>2. CASE Steered
  <2>1. Same /\ pc = "head" /\ pc' = "sni"
    BY <1>2, Zenon DEF Steered, relay
  <2> QED
    BY <2>1, Unmoved
<1>3. CASE PeekHead
  <2>1. Same /\ pc = "peek" /\ pc' \in {"handed", "resolve"}
    BY <1>3, Zenon DEF PeekHead, Peeked
  <2> QED
    BY <2>1, Unmoved
<1>4. CASE PeekSni
  <2>1. Same /\ pc = "sni" /\ pc' = "resolve"
    BY <1>4, Zenon DEF PeekSni, Peeked
  <2> QED
    BY <2>1, Unmoved
<1> QED
  BY <1>1, <1>2, <1>3, <1>4

LEMMA DialMoves ==
    ASSUME IInv, IInv', UNCHANGED relay, spoke' = spoke, pc \in {"head", "resolve", "dial"},
           pc' \in {"resolve", "dial"} \/ (pc = "dial" /\ pc' = "handshake")
    PROVE  UNCHANGED Tube!duplex
<1>1. src' = src /\ ends' = ends /\ sink' = sink /\ got' = got /\ fin' = fin
  BY Zenon DEF relay
<1> QED
  BY <1>1, Unmoved

LEMMA AbsoluteMoves ==
    ASSUME IInv, IInv', NEW scheme, Absolute(scheme)
    PROVE  Tube!Next \/ UNCHANGED Tube!duplex
<1>1. pc = "head" /\ spoke' = spoke
  BY Zenon DEF Absolute
<1>2. Hangup \/ (pc' = "resolve" /\ UNCHANGED relay)
  BY Zenon DEF Absolute
<1>3. CASE Hangup
  <2>1. Tube!Next
    BY <1>1, <1>3, HangsUp
  <2> QED
    BY <2>1
<1>4. CASE pc' = "resolve" /\ UNCHANGED relay
  BY <1>1, <1>4, DialMoves
<1> QED
  BY <1>2, <1>3, <1>4

LEMMA LegMoves ==
    ASSUME IInv, IInv', Resolve \/ Guard \/ DialOwn \/ DialByName \/ DialFails \/ AgentReached
    PROVE  Tube!Next \/ UNCHANGED Tube!duplex
<1>1. ASSUME NEW l, NEW ips, Dials(l, ips), UNCHANGED relay, pc \in {"resolve", "dial"}
      PROVE  UNCHANGED Tube!duplex
  <2>1. pc' = "dial" /\ spoke' = spoke
    BY <1>1, Zenon DEF Dials
  <2> QED
    BY <1>1, <2>1, DialMoves
<1>2. CASE Resolve
  <2>1. pc = "resolve" /\ UNCHANGED relay /\ \E ips : Dials("first", ips)
    BY <1>2, Zenon DEF Resolve
  <2> QED
    BY <1>1, <2>1
<1>3. CASE Guard
  <2>1. pc = "resolve"
    BY <1>3, Zenon DEF Guard
  <2>2. Hangup \/ (UNCHANGED relay /\ Dials("first", Known))
    BY <1>3, Zenon DEF Guard
  <2>3. CASE Hangup
    <3>1. Tube!Next
      BY <2>1, <2>3, HangsUp
    <3> QED
      BY <3>1
  <2> QED
    BY <1>1, <2>1, <2>2, <2>3
<1>4. CASE DialOwn
  <2>1. pc = "dial" /\ UNCHANGED relay /\ \E ips : Dials("own", ips)
    BY <1>4, Zenon DEF DialOwn
  <2> QED
    BY <1>1, <2>1
<1>5. CASE DialByName
  <2>1. pc = "dial" /\ UNCHANGED relay /\ \E l, ips : Dials(l, ips)
    BY <1>5, Zenon DEF DialByName
  <2> QED
    BY <1>1, <2>1
<1>6. CASE DialFails
  <2>1. pc = "dial" /\ pc' = pc /\ UNCHANGED relay /\ spoke' = spoke
    BY <1>6, Zenon DEF DialFails
  <2> QED
    BY <2>1, DialMoves
<1>7. CASE AgentReached
  <2>1. pc = "dial" /\ pc' = "handshake" /\ UNCHANGED relay /\ spoke' = spoke
    BY <1>7, Zenon DEF AgentReached
  <2> QED
    BY <2>1, DialMoves
<1> QED
  BY <1>2, <1>3, <1>4, <1>5, <1>6, <1>7

\* A connection stands: what the far end has sent is what the proxy now finds on it.
LEMMA StandsMoves ==
    ASSUME IInv, IInv', pc \in {"dial", "handshake"}, NEW rest, Established(rest), rest = Sent(Upstream)
    PROVE  Tube!Next \/ UNCHANGED Tube!duplex
<1>1. /\ pc' = IF Plain THEN "exchange" ELSE "relay"
      /\ src' = [src EXCEPT ![Upstream] = rest]
      /\ ends' = ends /\ sink' = sink /\ got' = got /\ fin' = fin /\ held' = held
  BY Zenon DEF Established
<1>2. Sending /\ Sending'
  BY SendingIs, SendingStays
<1>3. pc' \in {"exchange", "relay"}
  BY <1>1
<1>4. SameGot
  BY <1>1, Zenon DEF SameGot
<1>5. \A s \in Side : held[s] = <<>>
  BY Unbegun
<1>6. src \in [Side -> Seq(Token)] /\ Client \in Side /\ Upstream \in Side /\ Client # Upstream
  BY StreamIs, Sides
<1>7. src'[Upstream] = rest /\ src'[Client] = src[Client]
  BY <1>1, <1>6
<1>8. ASSUME NEW s \in Side, src'[s] = Sent(s) PROVE SameSent(s)
  <2>1. pc' # "handshake"
    BY <1>3
  <2>2. Sent(s)' = held'[s] \o src'[s]
    BY <1>2, <2>1, Zenon DEF Sending
  <2>3. Sent(s) \in Seq(Token) /\ held'[s] = <<>>
    BY <1>1, <1>2, <1>5, Zenon DEF Sending
  <2>4. <<>> \o Sent(s) = Sent(s)
    BY <2>3, NothingBefore
  <2> QED
    BY <1>8, <2>2, <2>3, <2>4, Zenon DEF SameSent
<1>9. Sent(Client) = src[Client]
  <2>1. pc # "relay"
    OBVIOUS
  <2> QED
    BY <1>2, <1>6, <2>1, Zenon DEF Sending
<1>10. \A s \in Side : SameSent(s)
  BY <1>6, <1>7, <1>8, <1>9, Sides
<1>11. CASE pc' = "relay"
  BY <1>1, <1>4, <1>10, <1>11, Starts
<1>12. CASE pc' # "relay"
  <2>1. SameUp
    BY <1>12 DEF SameUp
  <2> QED
    BY <1>1, <1>4, <1>10, <2>1, Stays
<1> QED
  BY <1>11, <1>12

LEMMA DialOkMoves ==
    ASSUME IInv, IInv', DialOk
    PROVE  Tube!Next \/ UNCHANGED Tube!duplex
<1>1. pc = "dial" /\ Established(<<>>)
  BY Zenon DEF DialOk
<1>2. Sending
  BY SendingIs
<1>3. Sent(Upstream) = <<>>
  BY <1>1, <1>2 DEF Sending
<1> QED
  BY <1>1, <1>3, StandsMoves

\* Nothing of the handshake is seen by the peers.
LEMMA AgentReadsMoves ==
    ASSUME IInv, IInv', AgentReads
    PROVE  Tube!Next \/ UNCHANGED Tube!duplex
<1>1. pc = "handshake"
  BY Zenon DEF AgentReads
<1>2. Sending /\ Sending'
  BY SendingIs, SendingStays
<1>3. Sent(Upstream) = Behind
  BY <1>1, <1>2, Zenon DEF Sending
<1>4. CASE Established(Behind)
  BY <1>1, <1>3, <1>4, StandsMoves
<1>5. ASSUME NEW next, NEW rest, src' = [src EXCEPT ![Upstream] = rest],
             UNCHANGED <<ends, sink, got, fin, pumps, target, pc, dial, opens, spoke, answers>>
      PROVE  UNCHANGED Tube!duplex
  <2>1. /\ ends' = ends /\ sink' = sink /\ got' = got /\ fin' = fin /\ held' = held /\ spoke' = spoke
        /\ pc' = pc
    BY <1>5, Zenon DEF pumps
  <2>2. SameGot /\ SameUp
    BY <2>1, Zenon DEF SameGot, SameUp
  <2>3. src'[Client] = src[Client] /\ Client \in Side /\ Client # Upstream
    BY <1>5, Sides, StreamIs
  <2>4. SameSent(Client)
    BY <2>1, <2>3, Zenon DEF SameSent, Sent
  <2>5. SameSent(Upstream)
    BY <1>1, <2>1, Zenon DEF SameSent, Sent
  <2> QED
    BY <2>1, <2>2, <2>4, <2>5, Sides, Stays
<1> QED
  BY <1>4, <1>5, AgentReadsIs, Zenon

LEMMA AgentAnswersMoves ==
    ASSUME IInv, IInv', AgentAnswers
    PROVE  Tube!Next \/ UNCHANGED Tube!duplex
<1>1. /\ pc = "handshake" /\ ends[Upstream] = "open" /\ ~opens
      /\ ends' = ends /\ sink' = sink /\ got' = got /\ fin' = fin /\ held' = held /\ pc' = pc
      /\ \E b : src' = [src EXCEPT ![Upstream] = b]
  BY Zenon DEF AgentAnswers, pumps
<1>2. spoke[Upstream] = 0
  BY <1>1, Zenon DEF IInv, Handshake
<1>3. Sending /\ Sending'
  BY SendingIs, SendingStays
<1>4. Sent(Upstream) = <<>>
  <2>1. Sent(Upstream) = SubSeq(Payload, 1, 0)
    BY <1>1, <1>2, <1>3 DEF Sending, Behind
  <2> QED
    BY <2>1, Streams
<1>5. SameGot /\ SameUp
  BY <1>1, Zenon DEF SameGot, SameUp
<1>6. src'[Client] = src[Client] /\ Client \in Side /\ Upstream \in Side /\ Client # Upstream
  BY <1>1, Sides, StreamIs
<1>7. SameSent(Client)
  BY <1>1, <1>6, Zenon DEF SameSent, Sent
<1>8. IsPrefix(Sent(Upstream), Sent(Upstream)')
  <2>1. Sent(Upstream)' \in Seq(Token)
    BY <1>3, <1>6, Zenon DEF Sending
  <2> QED
    BY <1>4, <2>1, PrefixIs
<1>9. \A s \in Side : s # Upstream => SameSent(s)
  BY <1>7, Sides
<1> QED
  BY <1>1, <1>5, <1>6, <1>8, <1>9, Sends

LEMMA AgentFailsMoves ==
    ASSUME IInv, IInv', AgentFails
    PROVE  Tube!Next \/ UNCHANGED Tube!duplex
<1>1. /\ pc = "handshake" /\ pc' = "dial" /\ src' = [src EXCEPT ![Upstream] = <<>>]
      /\ ends' = [ends EXCEPT ![Upstream] = "open"]
      /\ sink' = sink /\ got' = got /\ fin' = fin /\ held' = held
  BY Zenon DEF AgentFails, pumps
<1>2. Sending /\ Sending'
  BY SendingIs, SendingStays
<1>3. Sent(Upstream)' = <<>>
  BY <1>1, <1>2 DEF Sending
<1>4. SameGot
  BY <1>1, Zenon DEF SameGot
<1>5. src'[Client] = src[Client] /\ Client \in Side /\ Upstream \in Side /\ Client # Upstream
  BY <1>1, Sides, StreamIs
<1>6. SameSent(Client)
  <2>1. Sent(Client) = held[Client] \o src[Client] /\ Sent(Client)' = held'[Client] \o src'[Client]
    BY <1>2, <1>5, Zenon DEF Sending
  <2> QED
    BY <1>1, <1>5, <2>1, Zenon DEF SameSent
<1>7. ends \in [Side -> {"open", "eof", "error"}]
  BY <1>5, StreamIs
<1>8. pc \notin {"relay"} /\ pc' # "relay"
  BY <1>1
<1> QED
  BY <1>1, <1>3, <1>4, <1>6, <1>7, <1>8, Retries

-----------------------------------------------------------------------------
(* The steps of the relay and of the two peers, on the channels.           *)

\* An item as a sequence, and what it does between two of them.
One(x) == <<x>>
Lengthens(a, b, x) == a \o (b \o One(x)) = Append(a \o b, x)
Passes(a, x, b) == Append(a, x) \o b = a \o (One(x) \o b)

\* An item at the head of a stream, and one that goes from one to the other.
LEMMA FirstOf ==
    ASSUME NEW X, NEW x \in X, NEW q \in Seq(X)
    PROVE  One(x) \o q # <<>> /\ Head(One(x) \o q) = x /\ Tail(One(x) \o q) = q
  BY DEF One

LEMMA LastOf ==
    ASSUME NEW X, NEW a \in Seq(X), NEW b \in Seq(X), NEW x \in X
    PROVE  Lengthens(a, b, x)
<1> DEFINE e == a \o (b \o <<x>>)
           f == Append(a \o b, x)
<1>1. e \in Seq(X) /\ Len(e) = Len(a) + Len(b) + 1
  OBVIOUS
<1>2. f \in Seq(X) /\ Len(f) = Len(a) + Len(b) + 1
  OBVIOUS
<1>3. ASSUME NEW i \in 1..Len(e) PROVE e[i] = f[i]
  BY <1>1
<1> HIDE DEF e, f
<1>4. e = f
  BY <1>1, <1>2, <1>3, SameItems
<1> QED
  BY <1>4, Zenon DEF e, f, One, Lengthens

LEMMA PassedOn ==
    ASSUME NEW X, NEW a \in Seq(X), NEW b \in Seq(X), NEW x \in X
    PROVE  Passes(a, x, b)
<1> DEFINE e == Append(a, x) \o b
           f == a \o (<<x>> \o b)
<1>1. e \in Seq(X) /\ Len(e) = Len(a) + Len(b) + 1
  OBVIOUS
<1>2. f \in Seq(X) /\ Len(f) = Len(a) + Len(b) + 1
  OBVIOUS
<1>3. ASSUME NEW i \in 1..Len(e) PROVE e[i] = f[i]
  BY <1>1
<1> HIDE DEF e, f
<1>4. e = f
  BY <1>1, <1>2, <1>3, SameItems
<1> QED
  BY <1>4, Zenon DEF e, f, One, Passes

\* A buffer holds one item at the most.
LEMMA OneHeld ==
    ASSUME NEW X, NEW h \in Seq(X), h # <<>>, Len(h) <= 1
    PROVE  h[1] \in X /\ h = One(h[1])
<1> DEFINE f == <<h[1]>>
<1>1. Len(h) = 1 /\ h[1] \in X
  <2>1. Len(h) # 0 /\ Len(h) \in Nat
    OBVIOUS
  <2>2. Len(h) = 1
    <3>1. \A n \in Nat : n # 0 /\ n <= 1 => n = 1
      OBVIOUS
    <3> QED
      BY <2>1, <3>1
  <2>3. h[1] \in X
    BY <2>2
  <2> QED
    BY <2>2, <2>3
<1>2. f \in Seq(X) /\ Len(f) = 1 /\ f[1] = h[1]
  BY <1>1
<1> HIDE DEF f
<1>3. h = f
  BY <1>1, <1>2, SameItems
<1> QED
  BY <1>1, <1>3 DEF f, One

LEMMA PumpReadsMoves ==
    ASSUME IInv, IInv', NEW s \in Side, pc = "relay", pc' = "relay", PumpReads(s)
    PROVE  UNCHANGED Tube!duplex
<1>1. /\ pump[s] = "read" /\ src[s] # <<>>
      /\ held' = [held EXCEPT ![s] = <<Head(src[s])>>]
      /\ src' = [src EXCEPT ![s] = Tail(@)]
      /\ ends' = ends /\ sink' = sink /\ got' = got /\ fin' = fin
  BY Zenon DEF PumpReads, Reading
<1>2. held[s] = <<>> /\ src[s] \in Seq(Token)
  BY <1>1, PumpIs, StreamIs
<1>3. Sending /\ Sending'
  BY SendingIs, SendingStays
<1>4. \A u \in Side : Sent(u) = held[u] \o src[u] /\ Sent(u)' = held'[u] \o src'[u]
  <2>1. pc # "handshake" /\ pc' # "handshake"
    OBVIOUS
  <2> QED
    BY <1>3, <2>1, Zenon DEF Sending
<1>5. held \in [Side -> Seq(Token)] /\ src \in [Side -> Seq(Token)]
  BY StreamIs
<1>6. held'[s] = <<Head(src[s])>> /\ src'[s] = Tail(src[s])
  BY <1>1, <1>5
<1>7. \A u \in Side : u # s => held'[u] = held[u] /\ src'[u] = src[u]
  BY <1>1, <1>5
<1>8. <<Head(src[s])>> \o Tail(src[s]) = src[s] /\ <<>> \o src[s] = src[s]
  BY <1>1, <1>2, OneLess, NothingBefore
<1>9. SameSent(s)
  BY <1>2, <1>4, <1>6, <1>8, Zenon DEF SameSent
<1>10. \A u \in Side : SameSent(u)
  BY <1>4, <1>7, <1>9, Zenon DEF SameSent
<1>11. SameGot /\ SameUp
  BY <1>1 DEF SameGot, SameUp
<1> QED
  BY <1>1, <1>10, <1>11, Stays

LEMMA PumpWritesMoves ==
    ASSUME IInv, IInv', NEW s \in Side, pc = "relay", pc' = "relay", PumpWrites(s)
    PROVE  Tube!Next
<1> DEFINE t == Other(s)
           x == held[s][1]
<1>1. /\ pump[s] = "write"
      /\ sink' = [sink EXCEPT ![t] = @ \o held[s]]
      /\ held' = [held EXCEPT ![s] = <<>>]
      /\ src' = src /\ ends' = ends /\ got' = got /\ fin' = fin
  BY Zenon DEF PumpWrites
<1>2. t \in Side /\ t # s
  BY Sides
<1>3. held[s] # <<>> /\ fin[t] = FALSE
  BY <1>1, PumpIs
<1>4. held[s] \in Seq(Token) /\ Len(held[s]) <= 1 /\ src[s] \in Seq(Token)
  BY StreamIs
<1>5. x \in Token
  BY <1>3, <1>4, OneHeld
<1>6. held[s] = One(x)
  BY <1>3, <1>4, OneHeld
<1>7. got[t] \in Seq(Token) /\ sink[t] \in Seq(Token)
  BY <1>2, StreamIs
<1>8. held \in [Side -> Seq(Token)] /\ sink \in [Side -> Seq(Token)]
  BY StreamIs
<1> HIDE DEF t, x
<1>9. held'[s] = <<>> /\ held'[t] = held[t] /\ sink'[s] = sink[s] /\ sink'[t] = sink[t] \o One(x)
  BY <1>1, <1>2, <1>8, <1>6
<1>10. Sending /\ Sending'
  BY SendingIs, SendingStays
<1>11. \A u \in Side : Sent(u) = held[u] \o src[u] /\ Sent(u)' = held'[u] \o src'[u]
  <2>1. pc # "handshake" /\ pc' # "handshake"
    OBVIOUS
  <2> QED
    BY <1>10, <2>1, Zenon DEF Sending
<1>12. Sent(s) = One(x) \o src[s] /\ Sent(s)' = src[s]
  <2>1. Sent(s)' = <<>> \o src[s]
    BY <1>1, <1>9, <1>11, Zenon
  <2> QED
    BY <1>4, <1>11, <1>6, <2>1, NothingBefore, Zenon
<1>13. Sent(s) # <<>> /\ Head(Sent(s)) = x /\ Tail(Sent(s)) = Sent(s)'
  BY <1>4, <1>5, <1>12, FirstOf
<1>14. SameSent(t)
  BY <1>1, <1>2, <1>9, <1>11, Zenon DEF SameSent
<1>15. got'[t] \o sink'[t] = Append(got[t] \o sink[t], x)
  <2>1. Lengthens(got[t], sink[t], x)
    BY <1>5, <1>7, LastOf, Zenon
  <2> QED
    BY <1>1, <1>9, <2>1, Zenon DEF Lengthens
<1>16. got'[s] \o sink'[s] = got[s] \o sink[s]
  BY <1>1, <1>9, Zenon
<1> QED
  BY <1>1, <1>3, <1>13, <1>14, <1>15, <1>16, Delivers DEF t

LEMMA RelayingMoves ==
    ASSUME IInv, IInv', NEW s \in Side, Relaying(s)
    PROVE  Tube!Next \/ UNCHANGED Tube!duplex
<1>1. pc = "relay" /\ pc' = pc /\ Pump(s)
  BY Zenon DEF Relaying
<1>2. Sending /\ Sending'
  BY SendingIs, SendingStays
<1>3. \A u \in Side : Sent(u) = held[u] \o src[u] /\ Sent(u)' = held'[u] \o src'[u]
  <2>1. pc # "handshake" /\ pc' # "handshake"
    BY <1>1
  <2> QED
    BY <1>2, <2>1, Zenon DEF Sending
<1>4. CASE PumpReads(s)
  BY <1>1, <1>4, PumpReadsMoves
<1>5. CASE PumpWrites(s)
  BY <1>1, <1>5, PumpWritesMoves
<1>6. CASE PumpEof(s)
  <2>1. /\ pump[s] = "read" /\ src[s] = <<>> /\ ends[s] = "eof"
        /\ fin' = [fin EXCEPT ![Other(s)] = TRUE]
        /\ src' = src /\ ends' = ends /\ sink' = sink /\ got' = got /\ held' = held
    BY <1>6, Zenon DEF PumpEof, Reading
  <2>2. held[s] = <<>>
    BY <1>1, <2>1, PumpIs
  <2>3. Sent(s) = <<>>
    <3>1. Sent(s) = <<>> \o <<>>
      BY <1>3, <2>1, <2>2
    <3> QED
      BY <3>1
  <2>4. \A u \in Side : SameSent(u)
    BY <1>3, <2>1, Zenon DEF SameSent
  <2>5. SameGot
    BY <2>1, Zenon DEF SameGot
  <2>6. ends[s] # "open" /\ pc' = "relay"
    BY <1>1, <2>1
  <2> QED
    BY <1>1, <2>1, <2>3, <2>4, <2>5, <2>6, Tells
<1>7. CASE PumpReadFails(s) \/ PumpWriteFails(s) \/ PumpAborts(s)
  <2>1. /\ src' = src /\ ends' = ends /\ sink' = sink /\ got' = got /\ fin' = fin /\ held' = held
    BY <1>7, Zenon DEF PumpReadFails, PumpWriteFails, PumpAborts, sockets
  <2>2. \A u \in Side : SameSent(u)
    BY <1>3, <2>1, Zenon DEF SameSent
  <2>3. SameGot /\ SameUp
    BY <1>1, <2>1, Zenon DEF SameGot, SameUp
  <2> QED
    BY <2>1, <2>2, <2>3, Stays
<1> QED
  BY <1>1, <1>4, <1>5, <1>6, <1>7, Zenon DEF Pump

LEMMA EndsMoves ==
    ASSUME IInv, IInv', NEW s \in Side, Ends(s)
    PROVE  Tube!Next
<1>1. /\ pc' = pc /\ ends[s] = "open" /\ ends' = [ends EXCEPT ![s] = "eof"]
      /\ src' = src /\ sink' = sink /\ got' = got /\ fin' = fin /\ held' = held /\ spoke' = spoke
  BY Zenon DEF Ends, PeerEnds, pumps, others
<1>2. \A u \in Side : SameSent(u)
  BY <1>1, Zenon DEF SameSent, Sent
<1>3. SameGot /\ SameUp
  BY <1>1, Zenon DEF SameGot, SameUp
<1>4. ends \in [Side -> {"open", "eof", "error"}] /\ ends[s] # "error"
  BY <1>1, StreamIs
<1> QED
  BY <1>1, <1>2, <1>3, <1>4, Stops

LEMMA BreaksMoves ==
    ASSUME IInv, IInv', NEW s \in Side, Breaks(s)
    PROVE  Tube!Next
<1>1. /\ pc' = pc /\ ends' = [ends EXCEPT ![s] = "error"]
      /\ src' = [src EXCEPT ![s] = <<>>] \/ src' = src
      /\ sink' = sink /\ got' = got /\ fin' = fin /\ held' = held /\ spoke' = spoke
  <2>1. PICK lost \in BOOLEAN : src' = IF lost THEN [src EXCEPT ![s] = <<>>] ELSE src
    BY Zenon DEF Breaks, PeerBreaks
  <2>2. src' = [src EXCEPT ![s] = <<>>] \/ src' = src
    BY <2>1
  <2> QED
    BY <2>2, Zenon DEF Breaks, PeerBreaks, pumps, others
<1>2. src \in [Side -> Seq(Token)] /\ src[s] \in Seq(Token) /\ held[s] \in Seq(Token)
      /\ ends \in [Side -> {"open", "eof", "error"}]
  BY StreamIs
<1>3. src'[s] = <<>> \/ src'[s] = src[s]
  BY <1>1, <1>2
<1>4. \A u \in Side : u # s => src'[u] = src[u]
  BY <1>1, <1>2
<1>5. Sending
  BY SendingIs
<1>6. \A u \in Side : u # s => SameSent(u)
  BY <1>1, <1>4, Zenon DEF SameSent, Sent
<1>7. IsPrefix(Sent(s)', Sent(s))
  <2>1. Sent(s) \in Seq(Token)
    BY <1>5, Zenon DEF Sending
  <2>2. CASE Sent(s)' = Sent(s)
    BY <2>1, <2>2, PrefixIs
  <2>3. CASE Sent(s)' # Sent(s)
    <3>1. ~(s = Upstream /\ pc = "handshake")
      BY <1>1, <2>3, Zenon DEF Sent
    <3>2. Sent(s) = held[s] \o src[s] /\ Sent(s)' = held[s] \o src'[s]
      BY <1>1, <3>1, Zenon DEF Sent
    <3>3. src'[s] = <<>>
      BY <1>3, <2>3, <3>2, Zenon
    <3>4. Sent(s)' = held[s]
      BY <1>2, <3>2, <3>3, NothingBefore, Zenon
    <3> QED
      BY <1>2, <3>2, <3>4, PrefixIs
  <2> QED
    BY <2>2, <2>3
<1>8. SameGot /\ SameUp
  BY <1>1, Zenon DEF SameGot, SameUp
<1> QED
  BY <1>1, <1>2, <1>6, <1>7, <1>8, Breaking

LEMMA TakesMoves ==
    ASSUME IInv, IInv', NEW s \in Side, Takes(s)
    PROVE  UNCHANGED Tube!duplex
<1> DEFINE x == Head(sink[s])
           r == Tail(sink[s])
<1>1. /\ pc' = pc /\ sink[s] # <<>>
      /\ got' = [got EXCEPT ![s] = Append(@, x)] /\ sink' = [sink EXCEPT ![s] = r]
      /\ src' = src /\ ends' = ends /\ fin' = fin /\ held' = held /\ spoke' = spoke
  BY Zenon DEF Takes, PeerTakes, pumps, others
<1>2. got \in [Side -> Seq(Token)] /\ sink \in [Side -> Seq(Token)]
      /\ sink[s] \in Seq(Token) /\ got[s] \in Seq(Token)
  BY StreamIs
<1>3. x \in Token /\ r \in Seq(Token)
  BY <1>1, <1>2, OneLess
<1>4. One(x) \o r = sink[s]
  BY <1>1, <1>2, OneLess DEF One
<1> HIDE DEF x, r
<1>5. got'[s] = Append(got[s], x) /\ sink'[s] = r
  BY <1>1, <1>2
<1>6. \A u \in Side : u # s => got'[u] = got[u] /\ sink'[u] = sink[u]
  BY <1>1, <1>2
<1>7. got'[s] \o sink'[s] = got[s] \o sink[s]
  <2>1. Passes(got[s], x, r)
    BY <1>2, <1>3, PassedOn, Zenon
  <2> QED
    BY <1>4, <1>5, <2>1, Zenon DEF Passes
<1>8. SameGot
  BY <1>6, <1>7, Zenon DEF SameGot
<1>9. SameUp /\ \A u \in Side : SameSent(u)
  BY <1>1, Zenon DEF SameUp, SameSent, Sent
<1> QED
  BY <1>1, <1>8, <1>9, Stays

LEMMA AddedOn ==
    ASSUME NEW a \in Seq(Token), NEW b \in Seq(Token), NEW x \in Token
    PROVE  IsPrefix(a \o b, a \o Append(b, x))
<1> DEFINE c == a \o b
           d == a \o Append(b, x)
<1>1. c \in Seq(Token) /\ d \in Seq(Token) /\ Len(c) = Len(a) + Len(b) /\ Len(d) = Len(a) + Len(b) + 1
  OBVIOUS
<1>2. \A i \in 1..Len(c) : d[i] = c[i]
  OBVIOUS
<1> HIDE DEF c, d
<1>3. Len(c) <= Len(d) /\ Len(c) \in 0..Len(c) /\ Len(c) \in 0..Len(d)
  BY <1>1
<1>4. SubSeq(c, 1, Len(c)) = SubSeq(d, 1, Len(c))
  <2> DEFINE e == SubSeq(c, 1, Len(c))
             f == SubSeq(d, 1, Len(c))
  <2>1. e \in Seq(Token) /\ Len(e) = Len(c) /\ \A k \in 1..Len(c) : e[k] = c[k]
    BY <1>1, <1>3, PrefixOf
  <2>2. f \in Seq(Token) /\ Len(f) = Len(c) /\ \A k \in 1..Len(c) : f[k] = d[k]
    BY <1>1, <1>3, PrefixOf
  <2> HIDE DEF e, f
  <2>3. e = f
    BY <1>2, <2>1, <2>2, SameItems
  <2> QED
    BY <2>3 DEF e, f
<1>5. IsPrefix(c, d)
  BY <1>3, <1>4, Zenon DEF IsPrefix
<1> QED
  BY <1>5 DEF c, d

\* A peer sends one more item.
LEMMA SpeaksMoves ==
    ASSUME IInv, IInv', NEW s \in Side, s = Client \/ pc # "handshake", NEW x \in Token,
           ends[s] = "open", src' = [src EXCEPT ![s] = Append(@, x)],
           spoke' = [spoke EXCEPT ![s] = @ + 1],
           UNCHANGED <<ends, sink, got, fin, pumps, others>>
    PROVE  Tube!Next
<1>1. /\ pc' = pc /\ ends' = ends /\ sink' = sink /\ got' = got /\ fin' = fin /\ held' = held
  BY Zenon DEF pumps, others
<1>2. src \in [Side -> Seq(Token)] /\ src[s] \in Seq(Token) /\ held[s] \in Seq(Token) /\ spoke \in [Side -> Nat]
  BY StreamIs
<1>3. src'[s] = Append(src[s], x) /\ \A u \in Side : u # s => src'[u] = src[u] /\ spoke'[u] = spoke[u]
  BY <1>2
<1>4. \A u \in Side : u # s => SameSent(u)
  <2> SUFFICES ASSUME NEW u \in Side, u # s PROVE SameSent(u)
    OBVIOUS
  <2>1. src'[u] = src[u] /\ spoke'[u] = spoke[u] /\ held'[u] = held[u]
    BY <1>1, <1>3
  <2>2. CASE u = Upstream /\ pc = "handshake"
    <3>1. Sent(u) = SubSeq(Payload, 1, spoke[u]) /\ Sent(u)' = SubSeq(Payload, 1, spoke'[u])
      BY <1>1, <2>2, Zenon DEF Sent
    <3> QED
      BY <2>1, <3>1, Zenon DEF SameSent
  <2>3. CASE ~(u = Upstream /\ pc = "handshake")
    <3>1. Sent(u) = held[u] \o src[u] /\ Sent(u)' = held'[u] \o src'[u]
      BY <1>1, <2>3, Zenon DEF Sent
    <3> QED
      BY <2>1, <3>1, Zenon DEF SameSent
  <2> QED
    BY <2>2, <2>3
<1>5. Sent(s) = held[s] \o src[s] /\ Sent(s)' = held[s] \o Append(src[s], x)
  <2>1. ~(s = Upstream /\ pc = "handshake") /\ ~(s = Upstream /\ pc' = "handshake")
    BY <1>1, Sides
  <2>2. Sent(s) = held[s] \o src[s] /\ Sent(s)' = held'[s] \o src'[s]
    BY <2>1, Zenon DEF Sent
  <2> QED
    BY <1>1, <1>3, <2>2, Zenon
<1>6. IsPrefix(held[s] \o src[s], held[s] \o Append(src[s], x))
  BY <1>2, AddedOn
<1>7. IsPrefix(Sent(s), Sent(s)')
  BY <1>5, <1>6, Zenon
<1>8. SameGot /\ SameUp
  BY <1>1, Zenon DEF SameGot, SameUp
<1> QED
  BY <1>1, <1>4, <1>7, <1>8, Sends

LEMMA BothSpeakMoves ==
    ASSUME IInv, IInv', ClientSpeaks \/ UpstreamSpeaks
    PROVE  Tube!Next
<1>1. CASE ClientSpeaks
  <2>1. ends[Client] = "open"
    BY <1>1, Zenon DEF ClientSpeaks
  <2> QED
    BY <1>1, <2>1, ClientSays, Sides, SpeaksMoves DEF Says
<1>2. CASE UpstreamSpeaks
  <2>1. ends[Upstream] = "open" /\ pc # "handshake"
    <3>1. pc = "relay" /\ ends[Upstream] = "open"
      BY <1>2, Zenon DEF UpstreamSpeaks
    <3> QED
      BY <3>1
  <2> QED
    BY <1>2, <2>1, UpstreamSays, Sides, SpeaksMoves DEF Says
<1> QED
  BY <1>1, <1>2

LEMMA StuttersMove ==
    ASSUME IInv, UNCHANGED vars
    PROVE  UNCHANGED Tube!duplex
<1>1. /\ pc' = pc /\ spoke' = spoke
      /\ src' = src /\ ends' = ends /\ sink' = sink /\ got' = got /\ fin' = fin /\ held' = held
  BY Zenon DEF vars, relay
<1>2. SameGot /\ SameUp
  BY <1>1, Zenon DEF SameGot, SameUp
<1>3. \A u \in Side : SameSent(u)
  BY <1>1, Zenon DEF SameSent, Sent
<1> QED
  BY <1>1, <1>2, <1>3, Stays

LEMMA ClosesMove ==
    ASSUME IInv, IInv',
           \/ ReadNothing \/ ServePac \/ BadTarget \/ NoSni \/ DialSpent \/ Exchange \/ RelayOver
    PROVE  Tube!Next
<1>1. (Hangup /\ pc \in {"head", "sni", "dial", "exchange"}) \/ RelayOver
  BY Zenon DEF ReadNothing, ServePac, BadTarget, NoSni, DialSpent, Exchange
<1>2. CASE RelayOver
  <2>1. Hangup
    BY <1>2, Zenon DEF RelayOver
  <2> QED
    BY <1>2, <2>1, Ended, HangsUp
<1>3. CASE Hangup /\ pc \in {"head", "sni", "dial", "exchange"}
  <2>1. pc # "relay"
    BY <1>3
  <2> QED
    BY <1>3, <2>1, HangsUp
<1> QED
  BY <1>1, <1>2, <1>3

LEMMA StepMoves ==
    ASSUME IInv, IInv', [Next]_vars
    PROVE  Tube!Next \/ UNCHANGED Tube!duplex
<1>1. CASE Request
  BY <1>1, ClosesMove, HeadMoves, AbsoluteMoves DEF Request
<1>2. CASE Step
  BY <1>2, ClosesMove, HeadMoves, LegMoves, DialOkMoves, AgentReadsMoves, AgentFailsMoves DEF Step
<1>3. ASSUME NEW s \in Side, Relaying(s) \/ Ends(s) \/ Breaks(s) \/ Takes(s)
      PROVE  Tube!Next \/ UNCHANGED Tube!duplex
  BY <1>3, RelayingMoves, EndsMoves, BreaksMoves, TakesMoves
<1>4. CASE AgentAnswers \/ ClientSpeaks \/ UpstreamSpeaks
  BY <1>4, AgentAnswersMoves, BothSpeakMoves
<1>5. CASE Done \/ UNCHANGED vars
  BY <1>5, StuttersMove DEF Done
<1> QED
  BY <1>1, <1>2, <1>3, <1>4, <1>5 DEF Next

LEMMA InitMoves == Init => Tube!Init
<1> SUFFICES ASSUME Init PROVE Tube!Init
  OBVIOUS
<1>1. /\ src = [s \in Side |-> <<>>] /\ sink = [s \in Side |-> <<>>]
      /\ got = [s \in Side |-> <<>>] /\ held = [s \in Side |-> <<>>]
      /\ ends = [s \in Side |-> "open"] /\ fin = [s \in Side |-> FALSE] /\ pc = "head"
  BY Zenon DEF Init, RelayInit
<1>2. \A s \in Side : Sent(s) = <<>>
  <2> SUFFICES ASSUME NEW s \in Side PROVE Sent(s) = <<>>
    OBVIOUS
  <2>1. Sent(s) = held[s] \o src[s]
    BY <1>1 DEF Sent
  <2>2. held[s] = <<>> /\ src[s] = <<>>
    BY <1>1
  <2> QED
    BY <2>1, <2>2
<1>3. \A s \in Side : got[s] \o sink[s] = <<>>
  BY <1>1
<1>4. \A s \in Side : ends[s] = "open"
  BY <1>1
<1>5. (\E s \in Side : ends[s] = "error") = FALSE
  BY <1>4
<1>6. (pc = "relay") = FALSE
  BY <1>1
<1>7. [s \in Side |-> Sent(s)] = [p \in Side |-> <<>>]
  BY <1>2
<1>8. [s \in Side |-> got[s] \o sink[s]] = [p \in Side |-> <<>>]
  BY <1>3
<1>9. [s \in Side |-> ends[s] # "open"] = [p \in Side |-> FALSE]
  BY <1>4
<1> QED
  BY <1>1, <1>5, <1>6, <1>7, <1>8, <1>9, Peers DEF Tube!Init

\* What the tunnel does to the bytes is what two independent channels do: the bytes
\* that were looked at are relayed, nothing of an agent's answer is and nothing
\* behind it is lost, and one direction ends without the other (peek_client_head,
\* connect_http, connect_socks4, connect_socks5, relay, pump).
THEOREM RelaysWhatIsSent == Spec => TunnelIsDuplex
<1>1. Init => Tube!Init
  BY InitMoves
<1>2. IInv /\ IInv' /\ [Next]_vars => [Tube!Next]_(Tube!duplex)
  BY StepMoves
<1>3. Spec => Tube!Spec
  BY <1>1, <1>2, Always, PTL DEF Spec, Tube!Spec
<1> QED
  BY <1>3 DEF TunnelIsDuplex
=============================================================================
