------------------------ MODULE ClientConnectionProofs ------------------------
(***************************************************************************)
(* Theorems about ClientConnection, for every number of requests and of    *)
(* pieces in a body and for every room in a pipe.                          *)
(***************************************************************************)
EXTENDS ClientConnection, TLAPS

-----------------------------------------------------------------------------
(* A message and the reader's way through it.                              *)

Message(m) == <<"head">> \o Body(m)
Size(m) == Len(Message(m))
Span(s, v, w) == SubSeq(s, v + 1, w)

\* Where a reader of the message is that has taken its first v tokens, and the
\* pieces it has taken then.
Where(m, v) ==
    IF v = 0 THEN At("head")
    ELSE CASE m.framing = "none" -> At("whole")
           [] m.framing = "length" -> Counted(m.pieces - (v - 1))
           [] m.framing = "close" -> At("close")
           [] m.framing = "chunked" ->
                IF v - 1 <= 3 * m.pieces THEN At(<<"size", "chunk", "crlf">>[((v - 1) % 3) + 1])
                ELSE IF v = Size(m) THEN At("whole") ELSE At("trailers")
Data(m, v) ==
    IF v = 0 THEN 0
    ELSE CASE m.framing = "none" -> 0
           [] m.framing \in {"length", "close"} -> v - 1
           [] m.framing = "chunked" -> IF v - 1 <= 3 * m.pieces THEN v \div 3 ELSE m.pieces

Fits(m) ==
    /\ m.framing \in {"none", "length", "chunked", "close"}
    /\ m.pieces \in 0..MaxPieces /\ m.trailer \in BOOLEAN /\ m.keep \in BOOLEAN
    /\ Sensible(m)

-----------------------------------------------------------------------------
(* The inductive invariant.                                                *)

Types ==
    /\ proto \in {"h1", "h2"} /\ left \in 0..Requests
    /\ there \in BOOLEAN /\ go \in BOOLEAN
    /\ req \in RequestShape /\ Sensible(req) /\ resp \in Shape /\ Sensible(resp)
    /\ out \in Seq(Token) /\ inbox \in Seq(Token) /\ rest \in Seq(Token) /\ pipe \in Seq(Token)
    /\ Len(pipe) <= Room
    /\ srv \in {"reading", "body", "upstream", "relay", "closed"}
    /\ held \in Token \cup {None}
    /\ rd \in Phase /\ fwd \in Phase /\ dec \in Phase \cup {At("head")}
    /\ view \in Phase \cup {At("head"), At("reset"), At("502")}
    /\ pieces \in 0..MaxPieces

\* What is on its way to the proxy of the client's requests.
Coming == inbox \o out

\* The client waits, and nothing of its answer has been written.
Waiting == view = At("head") /\ pipe = <<>> /\ pieces = 0

\* The proxy's place in the request.
Incoming ==
    /\ srv = "reading" => Coming = <<>> \/ (Coming = Message(req) /\ Waiting)
    /\ srv = "body" => /\ Waiting
                       /\ \E j \in 1..(Size(req) - 1) : /\ rd = Where(req, j)
                                                        /\ Coming = Span(Message(req), j, Size(req))
    /\ srv = "upstream" => Coming = <<>> /\ Waiting
    /\ srv \in {"reading", "body", "upstream"} => held = None

\* A reader of the pipe has taken v tokens of the answer, of w written ones.
Heard(ph, v, w) ==
    /\ pipe = Span(Message(resp), v, w)
    /\ ph = Where(resp, v) /\ pieces = Data(resp, v)

\* forward_one has taken c tokens of the answer and written w.
Passed(w, c) ==
    \/ /\ fwd = Where(resp, c) /\ rest = Span(Message(resp), c, Size(resp))
       /\ \/ held = None /\ w = c
          \/ held = Message(resp)[c] /\ c = w + 1
    \/ held = None /\ fwd = At("broken") /\ (w < Size(resp) \/ resp.framing = "close")
    \/ held = None /\ fwd = At("whole") /\ resp.framing = "close" /\ rest = <<>>
Relayed(w) == Coming = <<>> /\ w # 0 /\ \E c \in 1..Size(resp) : Passed(w, c)

\* The client has asked again before handle_conn is back at its loop.
Early == Coming = Message(req) /\ held = None /\ rest = <<>> /\ Reused

\* HTTP/1.1: the client reads the pipe.
LineH1 == proto = "h1" =>
    \/ \E v, w \in 0..Size(resp) :
        /\ v <= w /\ Heard(view, v, w)
        /\ srv = "relay" => Relayed(w) \/ (w = 0 /\ Early)
    \/ /\ srv = "closed" /\ pipe = <<>>
       /\ view = At("broken") \/ (view = Idle /\ resp.framing = "close")

\* HTTP/2: the second task reads the pipe.
LineH2 == proto = "h2" =>
    /\ left = 0 \/ (left = 1 /\ srv \in {"reading", "closed"} /\ Coming = <<>> /\ view = Idle)
    /\ srv \in {"reading", "body", "upstream"} =>
            pipe = <<>> /\ resp = NoShape /\ pieces = 0 /\ (view = Idle \/ view = At("head"))
    /\ srv = "relay" => \E w \in 1..Size(resp) :
            /\ Relayed(w)
            /\ \/ Over(dec)
               \/ view # Idle /\ \E v \in 0..w : Heard(dec, v, w)
    /\ CompleteIsWhole

IInv == Types /\ ~astray /\ pooled = <<>> /\ Incoming /\ LineH1 /\ LineH2

-----------------------------------------------------------------------------
(* What a reader makes of a token.                                         *)

LEMMA Takes ==
    ASSUME NEW p, NEW tok, NEW q, p # "count",
           \A a \in Accepts : a[1] = p /\ a[2] = tok <=> a = <<p, tok, q>>,
           <<p, tok, q>> \in Accepts
    PROVE  Step(At(p), tok) = At(q)
<1> DEFINE next == {a \in Accepts : a[1] = At(p).at /\ a[2] = tok}
<1>1. At(p).at = p
  BY DEF At
<1>2. next = {<<p, tok, q>>}
  BY <1>1
<1>3. (CHOOSE a \in next : TRUE) = <<p, tok, q>>
  BY <1>2
<1>4. Step(At(p), tok) = At((CHOOSE a \in next : TRUE)[3])
  BY <1>1, <1>2 DEF Step
<1>5. <<p, tok, q>>[3] = q
  OBVIOUS
<1> HIDE DEF next
<1> QED
  BY <1>3, <1>4, <1>5, Zenon
LEMMA StepIs ==
    /\ Step(At("size"), "size") = At("chunk")
    /\ Step(At("chunk"), "data") = At("crlf")
    /\ Step(At("crlf"), "crlf") = At("size")
    /\ Step(At("size"), "zero") = At("trailers")
    /\ Step(At("trailers"), "trailer") = At("trailers")
    /\ Step(At("trailers"), "blank") = At("whole")
    /\ Step(At("close"), "data") = At("close")
    /\ Step(At("close"), "eof") = At("whole")
<1>1. Step(At("size"), "size") = At("chunk")
  BY Takes DEF Accepts
<1>2. Step(At("chunk"), "data") = At("crlf")
  BY Takes DEF Accepts
<1>3. Step(At("crlf"), "crlf") = At("size")
  BY Takes DEF Accepts
<1>4. Step(At("size"), "zero") = At("trailers")
  BY Takes DEF Accepts
<1>5. Step(At("trailers"), "trailer") = At("trailers")
  BY Takes DEF Accepts
<1>6. Step(At("trailers"), "blank") = At("whole")
  BY Takes DEF Accepts
<1>7. Step(At("close"), "data") = At("close")
  BY Takes DEF Accepts
<1>8. Step(At("close"), "eof") = At("whole")
  BY Takes DEF Accepts
<1> QED
  BY <1>1, <1>2, <1>3, <1>4, <1>5, <1>6, <1>7, <1>8

\* Only a body without framing ends with the connection.
LEMMA EofBreaks ==
    ASSUME NEW ph, ph.at # "close"
    PROVE  Step(ph, "eof") = At("broken")
<1>1. {a \in Accepts : a[1] = ph.at /\ a[2] = "eof"} = {}
  BY DEF Accepts
<1> QED
  BY <1>1 DEF Step


-----------------------------------------------------------------------------
(* The tokens of a message.                                                *)

LEMMA ThreeTimes ==
    ASSUME NEW n \in Nat
    PROVE  /\ \A i \in 1..(3 * n) : \E p \in 0..(n - 1) : i = 3 * p + 1 \/ i = 3 * p + 2 \/ i = 3 * p + 3
           /\ \A p \in Nat : /\ (3 * p) % 3 = 0 /\ (3 * p + 1) % 3 = 1 /\ (3 * p + 2) % 3 = 2
                             /\ (3 * p + 1) \div 3 = p /\ (3 * p + 2) \div 3 = p /\ (3 * p + 3) \div 3 = p + 1
<1>1. ASSUME NEW i \in 1..(3 * n)
      PROVE  \E p \in 0..(n - 1) : i = 3 * p + 1 \/ i = 3 * p + 2 \/ i = 3 * p + 3
  <2> DEFINE p == (i - 1) \div 3
  <2>1. p \in 0..(n - 1) /\ (i = 3 * p + 1 \/ i = 3 * p + 2 \/ i = 3 * p + 3)
    OBVIOUS
  <2> QED
    BY <2>1
<1>2. ASSUME NEW p \in Nat
      PROVE  /\ (3 * p) % 3 = 0 /\ (3 * p + 1) % 3 = 1 /\ (3 * p + 2) % 3 = 2
             /\ (3 * p + 1) \div 3 = p /\ (3 * p + 2) \div 3 = p /\ (3 * p + 3) \div 3 = p + 1
  OBVIOUS
<1> QED
  BY <1>1, <1>2

LEMMA Appends ==
    ASSUME NEW X, NEW s \in Seq(X), NEW x \in X
    PROVE  /\ s \o <<x>> \in Seq(X) /\ Len(s \o <<x>>) = Len(s) + 1
           /\ (s \o <<x>>)[Len(s) + 1] = x
           /\ \A i \in 1..Len(s) : (s \o <<x>>)[i] = s[i]
  OBVIOUS

\* Chunk after chunk, then the end.
LEMMA BodyIs ==
    ASSUME NEW m, Fits(m)
    PROVE  LET n == m.pieces
               b == Body(m)
           IN /\ b \in Seq(Token \ {"head", "eof"})
              /\ m.framing = "none" => Len(b) = 0
              /\ m.framing \in {"length", "close"} => Len(b) = n /\ \A i \in 1..n : b[i] = "data"
              /\ m.framing = "chunked" =>
                    /\ Len(b) = 3 * n + (IF m.trailer THEN 3 ELSE 2)
                    /\ \A p \in 0..(n - 1) : /\ b[3 * p + 1] = "size" /\ b[3 * p + 2] = "data"
                                             /\ b[3 * p + 3] = "crlf"
                    /\ b[3 * n + 1] = "zero"
                    /\ b[3 * n + 2] = IF m.trailer THEN "trailer" ELSE "blank"
                    /\ m.trailer => b[3 * n + 3] = "blank"
<1> DEFINE n == m.pieces
           b == Body(m)
           T == Token \ {"head", "eof"}
<1>1. n \in Nat /\ m.framing \in {"none", "length", "chunked", "close"} /\ m.trailer \in BOOLEAN
  BY BoundAssumption DEF Fits
<1>2. /\ "size" \in T /\ "data" \in T /\ "crlf" \in T /\ "zero" \in T /\ "trailer" \in T /\ "blank" \in T
  BY DEF Token
<1> HIDE DEF T, n
<1>3. CASE m.framing = "none"
  <2>1. b = <<>>
    BY <1>3 DEF Body
  <2> QED
    BY <1>3, <2>1 DEF T
<1>4. CASE m.framing \in {"length", "close"}
  <2>1. b = [i \in 1..n |-> "data"]
    BY <1>4 DEF Body, Plain, n
  <2>2. b \in Seq(T) /\ Len(b) = n /\ \A i \in 1..n : b[i] = "data"
    BY <1>1, <1>2, <2>1
  <2> QED
    BY <1>4, <2>2 DEF T, n
<1>5. CASE m.framing = "chunked"
  <2> DEFINE ch == [i \in 1..(3 * n) |-> <<"size", "data", "crlf">>[((i - 1) % 3) + 1]]
             tr == IF m.trailer THEN <<"trailer">> ELSE <<>>
             en == <<"zero">> \o tr \o <<"blank">>
  <2>1. b = ch \o <<"zero">> \o tr \o <<"blank">>
    BY <1>5 DEF Body, Chunked, n
  <2>2. \A p \in 0..(n - 1) : /\ 3 * p + 1 \in 1..(3 * n) /\ 3 * p + 2 \in 1..(3 * n) /\ 3 * p + 3 \in 1..(3 * n)
                              /\ ch[3 * p + 1] = "size" /\ ch[3 * p + 2] = "data" /\ ch[3 * p + 3] = "crlf"
    <3> TAKE p \in 0..(n - 1)
    <3>1. 3 * p + 1 \in 1..(3 * n) /\ 3 * p + 2 \in 1..(3 * n) /\ 3 * p + 3 \in 1..(3 * n)
      BY <1>1
    <3>2. /\ ((3 * p + 1) - 1) % 3 = 0 /\ ((3 * p + 2) - 1) % 3 = 1 /\ ((3 * p + 3) - 1) % 3 = 2
      BY <1>1
    <3> QED
      BY <3>1, <3>2
  <2>3. \A i \in 1..(3 * n) : ch[i] \in T
    <3> TAKE i \in 1..(3 * n)
    <3>1. PICK p \in 0..(n - 1) : i = 3 * p + 1 \/ i = 3 * p + 2 \/ i = 3 * p + 3
      BY <1>1, ThreeTimes
    <3> HIDE DEF ch
    <3> QED
      BY <1>2, <2>2, <3>1
  <2>4. ch \in Seq(T) /\ Len(ch) = 3 * n
    <3> DEFINE k == 3 * n
    <3>1. k \in Nat /\ DOMAIN ch = 1..k /\ \A i \in 1..k : ch[i] \in T
      BY <1>1, <2>3
    <3>2. ch = [i \in 1..k |-> ch[i]]
      OBVIOUS
    <3> HIDE DEF k, ch
    <3>3. ch \in Seq(T) /\ Len(ch) = k
      BY <3>1, <3>2
    <3> QED
      BY <3>3 DEF k
  <2> HIDE DEF ch
  <2>5. CASE m.trailer
    <3> DEFINE c1 == ch \o <<"zero">>
               c2 == c1 \o <<"trailer">>
               c3 == c2 \o <<"blank">>
    <3>1. b = c3
      BY <2>1, <2>5
    <3>2. /\ c1 \in Seq(T) /\ Len(c1) = Len(ch) + 1 /\ c1[Len(ch) + 1] = "zero"
          /\ \A i \in 1..Len(ch) : c1[i] = ch[i]
      BY <1>2, <2>4, Appends
    <3> HIDE DEF c1
    <3>3. /\ c2 \in Seq(T) /\ Len(c2) = Len(c1) + 1 /\ c2[Len(c1) + 1] = "trailer"
          /\ \A i \in 1..Len(c1) : c2[i] = c1[i]
      BY <1>2, <3>2, Appends
    <3> HIDE DEF c2
    <3>4. /\ c3 \in Seq(T) /\ Len(c3) = Len(c2) + 1 /\ c3[Len(c2) + 1] = "blank"
          /\ \A i \in 1..Len(c2) : c3[i] = c2[i]
      BY <1>2, <3>3, Appends
    <3> HIDE DEF c3
    <3>5. /\ b \in Seq(T) /\ Len(b) = Len(ch) + 3
          /\ \A i \in 1..Len(ch) : b[i] = ch[i]
          /\ b[Len(ch) + 1] = "zero" /\ b[Len(ch) + 2] = "trailer" /\ b[Len(ch) + 3] = "blank"
      BY <1>1, <2>4, <3>1, <3>2, <3>3, <3>4
    <3> QED
      BY <1>5, <2>2, <2>4, <2>5, <3>5 DEF T, n
  <2>6. CASE ~m.trailer
    <3>1. b = ch \o <<"zero">> \o <<>> \o <<"blank">>
      BY <2>1, <2>6
    <3>2. /\ b \in Seq(T) /\ Len(b) = Len(ch) + 2
          /\ \A i \in 1..Len(ch) : b[i] = ch[i]
          /\ b[Len(ch) + 1] = "zero" /\ b[Len(ch) + 2] = "blank"
      BY <1>2, <2>4, <3>1
    <3> QED
      BY <1>5, <2>2, <2>4, <2>6, <3>2 DEF T, n
  <2> QED
    BY <2>5, <2>6
<1> QED
  BY <1>1, <1>3, <1>4, <1>5

LEMMA Prepends ==
    ASSUME NEW X, NEW s \in Seq(X), NEW x \in X
    PROVE  /\ <<x>> \o s \in Seq(X) /\ Len(<<x>> \o s) = Len(s) + 1
           /\ (<<x>> \o s)[1] = x
           /\ \A i \in 1..Len(s) : (<<x>> \o s)[i + 1] = s[i]
  OBVIOUS

LEMMA MessageIs ==
    ASSUME NEW m, Fits(m)
    PROVE  /\ Message(m) \in Seq(Token) /\ Size(m) = Len(Body(m)) + 1 /\ Size(m) \in Nat \ {0}
           /\ Message(m)[1] = "head"
           /\ \A i \in 1..Len(Body(m)) : Message(m)[i + 1] = Body(m)[i]
           /\ \A i \in 2..Size(m) : Message(m)[i] \in Token \ {"head", "eof"}
<1>1. Body(m) \in Seq(Token \ {"head", "eof"})
  BY BodyIs
<1>2. Body(m) \in Seq(Token) /\ "head" \in Token
  BY <1>1 DEF Token
<1>3. /\ Message(m) \in Seq(Token) /\ Len(Message(m)) = Len(Body(m)) + 1
      /\ Message(m)[1] = "head"
      /\ \A i \in 1..Len(Body(m)) : Message(m)[i + 1] = Body(m)[i]
  BY <1>2, Prepends DEF Message
<1>4. \A i \in 1..Len(Body(m)) : Body(m)[i] \in Token \ {"head", "eof"}
  BY <1>1
<1>5. Len(Body(m)) \in Nat
  BY <1>1
<1>6. ASSUME NEW i \in 2..Size(m)
      PROVE  Message(m)[i] \in Token \ {"head", "eof"}
  <2>1. i - 1 \in 1..Len(Body(m)) /\ (i - 1) + 1 = i
    BY <1>3, <1>5 DEF Size
  <2>2. Message(m)[(i - 1) + 1] = Body(m)[i - 1]
    BY <1>3, <2>1
  <2> QED
    BY <1>4, <2>1, <2>2
<1> QED
  BY <1>3, <1>5, <1>6 DEF Size

LEMMA CountIs ==
    ASSUME NEW n \in Nat
    PROVE  /\ Counted(0) = At("whole")
           /\ n # 0 => Counted(n).at = "count" /\ Counted(n).lacks = n /\ ~Over(Counted(n))
           /\ n # 0 => Step(Counted(n), "data") = Counted(n - 1)
  BY DEF Counted, At, Over, Step

LEMMA ChunkPlaces ==
    ASSUME NEW m, Fits(m), m.framing = "chunked"
    PROVE  /\ \A p \in 0..m.pieces : Where(m, 3 * p + 1) = At("size") /\ Data(m, 3 * p + 1) = p
           /\ \A p \in 0..(m.pieces - 1) :
                /\ Where(m, 3 * p + 2) = At("chunk") /\ Data(m, 3 * p + 2) = p
                /\ Where(m, 3 * p + 3) = At("crlf") /\ Data(m, 3 * p + 3) = p + 1
           /\ Size(m) = 3 * m.pieces + (IF m.trailer THEN 4 ELSE 3)
           /\ Where(m, 3 * m.pieces + 2) = At("trailers") /\ Data(m, 3 * m.pieces + 2) = m.pieces
           /\ m.trailer => /\ Where(m, 3 * m.pieces + 3) = At("trailers")
                           /\ Data(m, 3 * m.pieces + 3) = m.pieces
           /\ Where(m, Size(m)) = At("whole") /\ Data(m, Size(m)) = m.pieces
<1> DEFINE n == m.pieces
<1>1. n \in Nat /\ m.trailer \in BOOLEAN
  BY BoundAssumption DEF Fits
<1>2. Len(Body(m)) = 3 * n + (IF m.trailer THEN 3 ELSE 2)
  BY BodyIs
<1>3. Size(m) = 3 * n + (IF m.trailer THEN 4 ELSE 3)
  <2>1. Size(m) = Len(Body(m)) + 1
    BY MessageIs
  <2> HIDE DEF n
  <2> QED
    BY <1>1, <1>2, <2>1
<1>4. ASSUME NEW v \in Nat \ {0}
      PROVE  /\ v - 1 <= 3 * n => /\ Where(m, v) = At(<<"size", "chunk", "crlf">>[((v - 1) % 3) + 1])
                                  /\ Data(m, v) = v \div 3
             /\ v - 1 > 3 * n => /\ Where(m, v) = IF v = Size(m) THEN At("whole") ELSE At("trailers")
                                 /\ Data(m, v) = n
  <2>1. /\ Where(m, v) = IF v - 1 <= 3 * n THEN At(<<"size", "chunk", "crlf">>[((v - 1) % 3) + 1])
                         ELSE IF v = Size(m) THEN At("whole") ELSE At("trailers")
        /\ Data(m, v) = IF v - 1 <= 3 * n THEN v \div 3 ELSE n
    BY DEF Where, Data
  <2> HIDE DEF n
  <2>2. v - 1 <= 3 * n \/ v - 1 > 3 * n
    BY <1>1
  <2>3. ~(v - 1 <= 3 * n /\ v - 1 > 3 * n)
    BY <1>1
  <2> QED
    BY <2>1, <2>2, <2>3
<1> HIDE DEF n
<1>5. ASSUME NEW p \in 0..n
      PROVE  Where(m, 3 * p + 1) = At("size") /\ Data(m, 3 * p + 1) = p
  <2>1. p \in Nat /\ 3 * p + 1 \in Nat \ {0} /\ (3 * p + 1) - 1 = 3 * p /\ 3 * p <= 3 * n
    BY <1>1
  <2>2. (3 * p) % 3 = 0 /\ (3 * p + 1) \div 3 = p
    BY <2>1, ThreeTimes
  <2>3. <<"size", "chunk", "crlf">>[0 + 1] = "size"
    OBVIOUS
  <2> QED
    BY <1>4, <2>1, <2>2, <2>3
<1>6. ASSUME NEW p \in 0..(n - 1)
      PROVE  /\ Where(m, 3 * p + 2) = At("chunk") /\ Data(m, 3 * p + 2) = p
             /\ Where(m, 3 * p + 3) = At("crlf") /\ Data(m, 3 * p + 3) = p + 1
  <2>1. /\ p \in Nat /\ 3 * p + 2 \in Nat \ {0} /\ (3 * p + 2) - 1 = 3 * p + 1 /\ 3 * p + 1 <= 3 * n
        /\ 3 * p + 3 \in Nat \ {0} /\ (3 * p + 3) - 1 = 3 * p + 2 /\ 3 * p + 2 <= 3 * n
    BY <1>1
  <2>2. /\ (3 * p + 1) % 3 = 1 /\ (3 * p + 2) % 3 = 2
        /\ (3 * p + 2) \div 3 = p /\ (3 * p + 3) \div 3 = p + 1
    BY <2>1, ThreeTimes
  <2>3. <<"size", "chunk", "crlf">>[1 + 1] = "chunk" /\ <<"size", "chunk", "crlf">>[2 + 1] = "crlf"
    OBVIOUS
  <2>4. Where(m, 3 * p + 2) = At("chunk") /\ Data(m, 3 * p + 2) = p
    BY <1>4, <2>1, <2>2, <2>3
  <2>5. Where(m, 3 * p + 3) = At("crlf") /\ Data(m, 3 * p + 3) = p + 1
    BY <1>4, <2>1, <2>2, <2>3
  <2> QED
    BY <2>4, <2>5
<1>7. /\ 3 * n + 2 \in Nat \ {0} /\ (3 * n + 2) - 1 > 3 * n /\ 3 * n + 2 # Size(m)
      /\ 3 * n + 3 \in Nat \ {0} /\ (3 * n + 3) - 1 > 3 * n /\ (m.trailer => 3 * n + 3 # Size(m))
      /\ Size(m) \in Nat \ {0} /\ Size(m) - 1 > 3 * n
  BY <1>1, <1>3
<1>8. Where(m, 3 * n + 2) = At("trailers") /\ Data(m, 3 * n + 2) = n
  BY <1>4, <1>7
<1>9. m.trailer => Where(m, 3 * n + 3) = At("trailers") /\ Data(m, 3 * n + 3) = n
  BY <1>4, <1>7
<1>10. Where(m, Size(m)) = At("whole") /\ Data(m, Size(m)) = n
  BY <1>4, <1>7
<1> QED
  BY <1>3, <1>5, <1>6, <1>8, <1>9, <1>10 DEF n

\* The pieces of a message, read token by token, in chunks.
LEMMA ChunkWalk ==
    ASSUME NEW m, Fits(m), m.framing = "chunked", NEW v \in 1..(Size(m) - 1)
    PROVE  \/ \E p \in 0..(m.pieces - 1) :
                \/ v = 3 * p + 1 /\ Where(m, v) = At("size") /\ Message(m)[v + 1] = "size"
                   /\ Where(m, v + 1) = At("chunk") /\ Data(m, v) = p /\ Data(m, v + 1) = p
                \/ v = 3 * p + 2 /\ Where(m, v) = At("chunk") /\ Message(m)[v + 1] = "data"
                   /\ Where(m, v + 1) = At("crlf") /\ Data(m, v) = p /\ Data(m, v + 1) = p + 1
                \/ v = 3 * p + 3 /\ Where(m, v) = At("crlf") /\ Message(m)[v + 1] = "crlf"
                   /\ Where(m, v + 1) = At("size") /\ Data(m, v) = p + 1 /\ Data(m, v + 1) = p + 1
           \/ v = 3 * m.pieces + 1 /\ Where(m, v) = At("size") /\ Message(m)[v + 1] = "zero"
              /\ Where(m, v + 1) = At("trailers")
              /\ Data(m, v) = m.pieces /\ Data(m, v + 1) = m.pieces
           \/ v = Size(m) - 1 /\ Where(m, v) = At("trailers") /\ Message(m)[v + 1] = "blank"
              /\ Where(m, v + 1) = At("whole")
              /\ Data(m, v) = m.pieces /\ Data(m, v + 1) = m.pieces
           \/ v = 3 * m.pieces + 2 /\ Where(m, v) = At("trailers") /\ Message(m)[v + 1] = "trailer"
              /\ Where(m, v + 1) = At("trailers")
              /\ Data(m, v) = m.pieces /\ Data(m, v + 1) = m.pieces
<1> DEFINE n == m.pieces
           s == Message(m)
           b == Body(m)
<1>1. n \in Nat /\ m.trailer \in BOOLEAN
  BY BoundAssumption DEF Fits
<1>2. /\ Size(m) = 3 * n + (IF m.trailer THEN 4 ELSE 3)
      /\ Where(m, 3 * n + 2) = At("trailers") /\ Data(m, 3 * n + 2) = n
      /\ m.trailer => Where(m, 3 * n + 3) = At("trailers") /\ Data(m, 3 * n + 3) = n
      /\ Where(m, Size(m)) = At("whole") /\ Data(m, Size(m)) = n
      /\ \A p \in 0..n : Where(m, 3 * p + 1) = At("size") /\ Data(m, 3 * p + 1) = p
      /\ \A p \in 0..(n - 1) : /\ Where(m, 3 * p + 2) = At("chunk") /\ Data(m, 3 * p + 2) = p
                               /\ Where(m, 3 * p + 3) = At("crlf") /\ Data(m, 3 * p + 3) = p + 1
  BY ChunkPlaces
<1>3. Size(m) = Len(b) + 1 /\ \A i \in 1..Len(b) : s[i + 1] = b[i]
  BY MessageIs
<1>4. /\ \A p \in 0..(n - 1) : b[3 * p + 1] = "size" /\ b[3 * p + 2] = "data" /\ b[3 * p + 3] = "crlf"
      /\ b[3 * n + 1] = "zero"
      /\ b[3 * n + 2] = IF m.trailer THEN "trailer" ELSE "blank"
      /\ m.trailer => b[3 * n + 3] = "blank"
  BY BodyIs
<1> HIDE DEF n, s, b
<1>5. v \in 1..Len(b) /\ s[v + 1] = b[v] /\ v \in Nat
  BY <1>1, <1>2, <1>3
<1>6. CASE v <= 3 * n
  <2>1. v \in 1..(3 * n)
    BY <1>1, <1>5, <1>6
  <2>2. PICK p \in 0..(n - 1) : v = 3 * p + 1 \/ v = 3 * p + 2 \/ v = 3 * p + 3
    BY <1>1, <2>1, ThreeTimes
  <2>3. p \in Nat /\ p \in 0..n /\ p + 1 \in 0..n /\ 3 * (p + 1) + 1 = 3 * p + 4
    BY <1>1
  <2>4. Where(m, 3 * p + 4) = At("size") /\ Data(m, 3 * p + 4) = p + 1
    BY <1>2, <2>3
  <2>5. /\ (3 * p + 1) + 1 = 3 * p + 2 /\ (3 * p + 2) + 1 = 3 * p + 3 /\ (3 * p + 3) + 1 = 3 * p + 4
    BY <2>3
  <2>6. CASE v = 3 * p + 1
    BY <1>2, <1>4, <1>5, <2>3, <2>5, <2>6 DEF n, s
  <2>7. CASE v = 3 * p + 2
    BY <1>2, <1>4, <1>5, <2>3, <2>5, <2>7 DEF n, s
  <2>8. CASE v = 3 * p + 3
    BY <1>2, <1>4, <1>5, <2>3, <2>4, <2>5, <2>8 DEF n, s
  <2> QED
    BY <2>2, <2>6, <2>7, <2>8
<1>7. CASE v = 3 * n + 1
  <2>1. n \in 0..n /\ (3 * n + 1) + 1 = 3 * n + 2
    BY <1>1
  <2> QED
    BY <1>2, <1>4, <1>5, <1>7, <2>1 DEF n, s
<1>8. CASE v = 3 * n + 2 /\ m.trailer
  <2>1. (3 * n + 2) + 1 = 3 * n + 3
    BY <1>1
  <2> QED
    BY <1>2, <1>4, <1>5, <1>8, <2>1 DEF n, s
<1>9. CASE v = Size(m) - 1
  <2>1. v + 1 = Size(m) /\ v = (IF m.trailer THEN 3 * n + 3 ELSE 3 * n + 2)
    BY <1>1, <1>2, <1>5, <1>9
  <2>2. Where(m, v) = At("trailers") /\ Data(m, v) = n /\ b[v] = "blank"
    BY <1>1, <1>2, <1>4, <2>1
  <2> QED
    BY <1>2, <1>5, <1>9, <2>1, <2>2 DEF n, s
<1>10. v <= 3 * n \/ v = 3 * n + 1 \/ (v = 3 * n + 2 /\ m.trailer) \/ v = Size(m) - 1
  <2>1. CASE m.trailer
    <3>1. Size(m) = 3 * n + 4
      BY <1>2, <2>1
    <3>2. v <= 3 * n \/ v = 3 * n + 1 \/ v = 3 * n + 2 \/ v = Size(m) - 1
      BY <1>1, <1>5, <3>1
    <3> QED
      BY <2>1, <3>2
  <2>2. CASE ~m.trailer
    <3>1. Size(m) = 3 * n + 3
      BY <1>2, <2>2
    <3>2. v <= 3 * n \/ v = 3 * n + 1 \/ v = Size(m) - 1
      BY <1>1, <1>5, <3>1
    <3> QED
      BY <3>2
  <2> QED
    BY <2>1, <2>2
<1> QED
  BY <1>6, <1>7, <1>8, <1>9, <1>10

LEMMA Walk ==
    ASSUME NEW m, Fits(m), NEW v \in 1..(Size(m) - 1)
    PROVE  /\ Where(m, v) \in Phase /\ ~Over(Where(m, v))
           /\ Step(Where(m, v), Message(m)[v + 1]) = Where(m, v + 1)
           /\ Data(m, v) \in Nat /\ Data(m, v + 1) \in 0..m.pieces
           /\ Data(m, v + 1) = Data(m, v) + (IF Message(m)[v + 1] = "data" THEN 1 ELSE 0)
<1> DEFINE n == m.pieces
<1>1. n \in Nat /\ n <= MaxPieces /\ m.framing \in {"none", "length", "chunked", "close"}
  BY BoundAssumption DEF Fits
<1>2. Size(m) = Len(Body(m)) + 1 /\ \A i \in 1..Len(Body(m)) : Message(m)[i + 1] = Body(m)[i]
  BY MessageIs
<1>3. Len(Body(m)) \in Nat
  BY BodyIs
<1>4. v \in 1..Len(Body(m)) /\ v \in Nat /\ v # 0 /\ v + 1 # 0
  BY <1>2, <1>3
<1>5. Message(m)[v + 1] = Body(m)[v]
  BY <1>2, <1>4
<1>6. CASE m.framing = "none"
  <2>1. Len(Body(m)) = 0
    BY <1>6, BodyIs
  <2> QED
    BY <1>4, <2>1
<1>7. CASE m.framing \in {"length", "close"}
  <2>1. Len(Body(m)) = n /\ \A i \in 1..n : Body(m)[i] = "data"
    BY <1>7, BodyIs
  <2>2. Message(m)[v + 1] = "data" /\ v \in 1..n
    BY <1>4, <1>5, <2>1
  <2>3. Data(m, v) = v - 1 /\ Data(m, v + 1) = v
    BY <1>4, <1>7 DEF Data
  <2> HIDE DEF n
  <2>4. /\ v - 1 \in Nat /\ v \in 0..n /\ v = (v - 1) + 1 /\ n - (v - 1) \in Nat /\ n - (v - 1) # 0
        /\ (n - (v - 1)) - 1 = n - v /\ n - (v - 1) \in 0..MaxPieces /\ v = (v + 1) - 1
    BY <1>1, <2>2, BoundAssumption
  <2>5. CASE m.framing = "close"
    <3>1. Where(m, v) = At("close") /\ Where(m, v + 1) = At("close")
      BY <1>4, <2>5 DEF Where
    <3>2. Step(At("close"), "data") = At("close") /\ ~Over(At("close"))
      BY StepIs DEF Over, At
    <3>3. At("close") \in Phase
      BY BoundAssumption DEF At, Phase, Place
    <3> QED
      BY <2>2, <2>3, <2>4, <3>1, <3>2, <3>3 DEF n
  <2>6. CASE m.framing = "length"
    <3>1. Where(m, v) = Counted(n - (v - 1)) /\ Where(m, v + 1) = Counted(n - ((v + 1) - 1))
      BY <1>4, <2>6 DEF Where, n
    <3>2. /\ Step(Counted(n - (v - 1)), "data") = Counted((n - (v - 1)) - 1)
          /\ ~Over(Counted(n - (v - 1)))
      BY <2>4, CountIs
    <3>3. Counted(n - (v - 1)) \in Phase
      BY <2>4 DEF Counted, Phase, Place
    <3> QED
      BY <2>2, <2>3, <2>4, <3>1, <3>2, <3>3 DEF n
  <2> QED
    BY <1>7, <2>5, <2>6
<1>8. CASE m.framing = "chunked"
  <2>1. \A x \in {"size", "chunk", "crlf", "trailers"} : At(x) \in Phase /\ ~Over(At(x))
    BY BoundAssumption DEF At, Over, Phase, Place
  <2>2. ASSUME NEW p \in 0..(m.pieces - 1),
               \/ v = 3 * p + 1 /\ Where(m, v) = At("size") /\ Message(m)[v + 1] = "size"
                   /\ Where(m, v + 1) = At("chunk") /\ Data(m, v) = p /\ Data(m, v + 1) = p
               \/ v = 3 * p + 2 /\ Where(m, v) = At("chunk") /\ Message(m)[v + 1] = "data"
                   /\ Where(m, v + 1) = At("crlf") /\ Data(m, v) = p /\ Data(m, v + 1) = p + 1
               \/ v = 3 * p + 3 /\ Where(m, v) = At("crlf") /\ Message(m)[v + 1] = "crlf"
                   /\ Where(m, v + 1) = At("size") /\ Data(m, v) = p + 1 /\ Data(m, v + 1) = p + 1
        PROVE  /\ Where(m, v) \in Phase /\ ~Over(Where(m, v))
               /\ Step(Where(m, v), Message(m)[v + 1]) = Where(m, v + 1)
               /\ Data(m, v) \in Nat /\ Data(m, v + 1) \in 0..m.pieces
               /\ Data(m, v + 1) = Data(m, v) + (IF Message(m)[v + 1] = "data" THEN 1 ELSE 0)
    <3>1. p \in Nat /\ p + 1 \in Nat /\ p \in 0..n /\ p + 1 \in 0..n /\ p = p + 0 /\ (p + 1) + 0 = p + 1
      BY <1>1
    <3> QED
      BY <2>1, <2>2, <3>1, StepIs
  <2>3. n \in 0..n /\ n + 0 = n
    BY <1>1
  <2>4. ASSUME \/ v = 3 * m.pieces + 1 /\ Where(m, v) = At("size") /\ Message(m)[v + 1] = "zero"
                  /\ Where(m, v + 1) = At("trailers")
                  /\ Data(m, v) = m.pieces /\ Data(m, v + 1) = m.pieces
               \/ v = Size(m) - 1 /\ Where(m, v) = At("trailers") /\ Message(m)[v + 1] = "blank"
                  /\ Where(m, v + 1) = At("whole")
                  /\ Data(m, v) = m.pieces /\ Data(m, v + 1) = m.pieces
               \/ v = 3 * m.pieces + 2 /\ Where(m, v) = At("trailers") /\ Message(m)[v + 1] = "trailer"
                  /\ Where(m, v + 1) = At("trailers")
                  /\ Data(m, v) = m.pieces /\ Data(m, v + 1) = m.pieces
        PROVE  /\ Where(m, v) \in Phase /\ ~Over(Where(m, v))
               /\ Step(Where(m, v), Message(m)[v + 1]) = Where(m, v + 1)
               /\ Data(m, v) \in Nat /\ Data(m, v + 1) \in 0..m.pieces
               /\ Data(m, v + 1) = Data(m, v) + (IF Message(m)[v + 1] = "data" THEN 1 ELSE 0)
    BY <1>1, <2>1, <2>3, <2>4, StepIs
  <2> QED
    BY <1>8, <2>2, <2>4, ChunkWalk
<1> QED
  BY <1>1, <1>6, <1>7, <1>8

\* The two ends of the way.
LEMMA WayEnds ==
    ASSUME NEW m, Fits(m)
    PROVE  /\ Size(m) \in Nat \ {0}
           /\ Where(m, 0) = At("head") /\ Where(m, 1) = First(m)
           /\ m.framing # "close" => Where(m, Size(m)) = At("whole") /\ Data(m, Size(m)) = m.pieces
           /\ m.framing = "close" => \A v \in 1..Size(m) : Where(m, v) = At("close")
           /\ Data(m, 0) = 0 /\ Data(m, 1) = 0
           /\ m.framing = "chunked" => Size(m) > 1
           /\ First(m).at # "broken"
<1> DEFINE n == m.pieces
<1>1. n \in Nat /\ m.framing \in {"none", "length", "chunked", "close"}
  BY BoundAssumption DEF Fits
<1>2. Size(m) = Len(Body(m)) + 1 /\ Size(m) \in Nat \ {0}
  BY MessageIs
<1>3. Where(m, 0) = At("head") /\ Data(m, 0) = 0
  BY DEF Where, Data
<1>4. CASE m.framing = "none"
  <2>1. Size(m) = 1 /\ n = 0
    BY <1>2, <1>4, BodyIs DEF Fits, Sensible
  <2>2. Where(m, 1) = At("whole") /\ Data(m, 1) = 0 /\ First(m) = At("whole")
    BY <1>4 DEF Where, Data, First
  <2> QED
    BY <1>2, <1>3, <1>4, <2>1, <2>2 DEF At
<1>5. CASE m.framing = "length"
  <2>1. Len(Body(m)) = n
    BY <1>5, BodyIs
  <2> HIDE DEF n
  <2>2. Size(m) = n + 1 /\ n + 1 # 0 /\ n - ((n + 1) - 1) = 0 /\ n - (1 - 1) = n /\ (n + 1) - 1 = n
    BY <1>1, <1>2, <2>1
  <2>3. Where(m, 1) = Counted(n - (1 - 1)) /\ Where(m, n + 1) = Counted(n - ((n + 1) - 1))
    BY <1>5, <2>2 DEF Where, n
  <2>4. Data(m, 1) = 0 /\ Data(m, n + 1) = (n + 1) - 1
    BY <1>5, <2>2 DEF Data, n
  <2>5. First(m) = Counted(n) /\ First(m).at # "broken"
    BY <1>5 DEF First, n, Counted, At
  <2> QED
    BY <1>2, <1>3, <1>5, <2>2, <2>3, <2>4, <2>5, CountIs, <1>1 DEF n
<1>6. CASE m.framing = "close"
  <2>1. \A v \in 1..Size(m) : v # 0
    BY <1>2
  <2>2. \A v \in 1..Size(m) : Where(m, v) = At("close")
    BY <1>6, <2>1 DEF Where
  <2>3. 1 \in 1..Size(m) /\ Data(m, 1) = 0 /\ First(m) = At("close")
    BY <1>2, <1>6 DEF First, Data
  <2> QED
    BY <1>2, <1>3, <1>6, <2>2, <2>3 DEF At
<1>7. CASE m.framing = "chunked"
  <2>1. /\ Size(m) = 3 * n + (IF m.trailer THEN 4 ELSE 3)
        /\ Where(m, Size(m)) = At("whole") /\ Data(m, Size(m)) = n
        /\ \A p \in 0..n : Where(m, 3 * p + 1) = At("size") /\ Data(m, 3 * p + 1) = p
    BY <1>7, ChunkPlaces
  <2>2. 0 \in 0..n /\ 3 * 0 + 1 = 1
    BY <1>1
  <2>3. Where(m, 1) = At("size") /\ Data(m, 1) = 0
    BY <2>1, <2>2
  <2>4. Size(m) > 1
    <3>1. Size(m) = 3 * n + 4 \/ Size(m) = 3 * n + 3
      BY <2>1
    <3> HIDE DEF n
    <3> QED
      BY <1>1, <3>1
  <2>5. First(m) = At("size")
    BY <1>7 DEF First
  <2> QED
    BY <1>2, <1>3, <1>7, <2>1, <2>3, <2>4, <2>5 DEF At
<1> QED
  BY <1>1, <1>4, <1>5, <1>6, <1>7

-----------------------------------------------------------------------------
(* Stretches of a sequence.                                                *)

LEMMA SpanIs ==
    ASSUME NEW X, NEW s \in Seq(X), NEW v \in 0..Len(s), NEW w \in 0..Len(s), v <= w
    PROVE  /\ Span(s, v, w) \in Seq(X) /\ Len(Span(s, v, w)) = w - v
           /\ Span(s, v, w) = <<>> <=> v = w
           /\ v < w => Head(Span(s, v, w)) = s[v + 1] /\ Tail(Span(s, v, w)) = Span(s, v + 1, w)
           /\ w < Len(s) => Append(Span(s, v, w), s[w + 1]) = Span(s, v, w + 1)
<1>1. Span(s, v, w) \in Seq(X) /\ Len(Span(s, v, w)) = w - v
  BY DEF Span
<1>2. Span(s, v, w) = <<>> <=> v = w
  BY DEF Span
<1>3. ASSUME v < w
      PROVE  Head(Span(s, v, w)) = s[v + 1] /\ Tail(Span(s, v, w)) = Span(s, v + 1, w)
  BY <1>3 DEF Span
<1>4. ASSUME w < Len(s)
      PROVE  Append(Span(s, v, w), s[w + 1]) = Span(s, v, w + 1)
  BY <1>4 DEF Span
<1> QED
  BY <1>1, <1>2, <1>3, <1>4

LEMMA NextOfSpan ==
    ASSUME NEW X, NEW s \in Seq(X), NEW v \in 0..Len(s), NEW w \in 0..Len(s), v < w
    PROVE  Head(Span(s, v, w)) = s[v + 1] /\ Tail(Span(s, v, w)) = Span(s, v + 1, w)
  BY DEF Span

LEMMA LongerSpan ==
    ASSUME NEW X, NEW s \in Seq(X), NEW v \in 0..Len(s), NEW w \in 0..Len(s), v <= w, w < Len(s)
    PROVE  Append(Span(s, v, w), s[w + 1]) = Span(s, v, w + 1)
  BY DEF Span

LEMMA NoSpan ==
    ASSUME NEW X, NEW s \in Seq(X), NEW v \in 0..Len(s)
    PROVE  Span(s, v, v) = <<>>
  BY SpanIs

LEMMA WholeSpan ==
    ASSUME NEW X, NEW s \in Seq(X)
    PROVE  Span(s, 0, Len(s)) = s
  BY DEF Span

LEMMA MovesOver ==
    ASSUME NEW X, NEW s \in Seq(X), NEW t \in Seq(X), t # <<>>
    PROVE  /\ Append(s, Head(t)) \in Seq(X) /\ Tail(t) \in Seq(X) /\ Head(t) \in X
           /\ Append(s, Head(t)) \o Tail(t) = s \o t
  OBVIOUS

LEMMA TakenOff ==
    ASSUME NEW X, NEW s \in Seq(X), NEW t \in Seq(X), s # <<>>
    PROVE  /\ s \o t # <<>> /\ Tail(s) \in Seq(X) /\ Head(s) \in X
           /\ Head(s \o t) = Head(s) /\ Tail(s \o t) = Tail(s) \o t
  OBVIOUS

LEMMA Neither ==
    ASSUME NEW X, NEW s \in Seq(X), NEW t \in Seq(X)
    PROVE  /\ s \o t = <<>> <=> s = <<>> /\ t = <<>>
           /\ <<>> \o t = t /\ s \o <<>> = s
  OBVIOUS

\* All the way: a reader is through with a message at its last token, if that
\* tells the end.
LEMMA Way ==
    ASSUME NEW m, Fits(m), NEW v \in 0..Size(m)
    PROVE  /\ v = 0 => Where(m, v) = At("head")
           /\ v # 0 => Where(m, v) \in Phase /\ Where(m, v) # At("head")
           /\ Where(m, v).at # "broken" /\ Data(m, v) \in 0..MaxPieces
           /\ Where(m, v).at = "close" => m.framing = "close"
           /\ m.framing = "close" /\ v # 0 => Where(m, v) = At("close")
           /\ v = Size(m) /\ m.framing # "close" => Where(m, v) = At("whole") /\ Data(m, v) = m.pieces
           /\ Over(Where(m, v)) => v = Size(m) /\ m.framing # "close" /\ Where(m, v) = At("whole")
<1> DEFINE N == Size(m)
           p == Where(m, v)
<1>1. N \in Nat \ {0} /\ v \in Nat /\ v <= N
  BY WayEnds
<1>2. v = 0 => p = At("head")
  BY WayEnds
<1>3. m.framing # "close" => Where(m, N) = At("whole") /\ Data(m, N) = m.pieces
  BY WayEnds
<1>4. m.framing = "close" /\ v # 0 => p = At("close")
  <2>1. m.framing = "close" => \A x \in 1..N : Where(m, x) = At("close")
    BY WayEnds
  <2>2. v # 0 => v \in 1..N
    BY <1>1
  <2> QED
    BY <2>1, <2>2
<1>5. v # 0 /\ v # N => v \in 1..(N - 1)
  BY <1>1
<1>6. v # 0 /\ v # N => p \in Phase /\ ~Over(p)
  BY <1>5, Walk
<1>7. /\ At("whole") \in Phase /\ At("close") \in Phase /\ ~Over(At("close")) /\ ~Over(At("head"))
      /\ At("head").at = "head" /\ At("whole").at = "whole" /\ At("close").at = "close"
      /\ \A ph \in Phase : ph.at # "head"
  BY BoundAssumption DEF At, Phase, Place, Over
<1>8. Data(m, v) \in 0..MaxPieces
  <2>1. v \in {0, 1} => Data(m, v) = 0
    BY WayEnds
  <2>2. v \notin {0, 1} => v - 1 \in 1..(N - 1) /\ (v - 1) + 1 = v
    BY <1>1
  <2>3. v \notin {0, 1} => Data(m, v) \in 0..m.pieces
    BY <2>2, Walk
  <2>4. m.pieces \in 0..MaxPieces
    BY DEF Fits
  <2> QED
    BY <2>1, <2>3, <2>4, BoundAssumption
<1>9. p.at = "close" => m.framing = "close"
  <2>1. ASSUME m.framing # "close", v # 0, v # N
        PROVE  p.at # "close"
    <3>1. m.framing \in {"none", "length", "chunked"}
      BY <2>1 DEF Fits
    <3>2. CASE m.framing = "none"
      BY <2>1, <3>2 DEF Where, At
    <3>3. CASE m.framing = "length"
      BY <2>1, <3>3 DEF Where, At, Counted
    <3>4. CASE m.framing = "chunked"
      <4>1. p = At("size") \/ p = At("chunk") \/ p = At("crlf") \/ p = At("trailers")
        BY <1>5, <2>1, <3>4, ChunkWalk
      <4> QED
        BY <4>1 DEF At
    <3> QED
      BY <3>1, <3>2, <3>3, <3>4
  <2> QED
    BY <1>2, <1>3, <1>7, <2>1
<1>10. Over(p) => v = N /\ m.framing # "close" /\ p = At("whole")
  BY <1>2, <1>3, <1>4, <1>6, <1>7
<1>11. p.at # "broken"
  BY <1>2, <1>3, <1>4, <1>6, <1>7 DEF Over
<1>12. v # 0 => p \in Phase
  BY <1>1, <1>3, <1>4, <1>6, <1>7
<1> QED
  BY <1>2, <1>3, <1>4, <1>7, <1>8, <1>9, <1>10, <1>11, <1>12

LEMMA Shapes ==
    ASSUME Types
    PROVE  Fits(req) /\ Fits(resp) /\ req.framing # "close"
<1>1. req \in RequestShape /\ Sensible(req) /\ resp \in Shape /\ Sensible(resp)
  BY DEF Types
<1> QED
  BY <1>1 DEF Fits, RequestShape, Shape

-----------------------------------------------------------------------------
(* What the invariant says where somebody has come to the end.             *)

\* The client that may ask again has read all, and nothing is under way.
LEMMA AllRead ==
    ASSUME IInv, view = Idle, proto = "h1"
    PROVE  /\ pipe = <<>>
           /\ \/ srv = "reading" /\ Coming = <<>> /\ held = None
              \/ srv = "relay" /\ Coming = <<>> /\ held = None /\ rest = <<>>
                 /\ (resp.keep => Reused)
              \/ srv = "closed"
<1> DEFINE N == Size(resp)
           s == Message(resp)
<1>1. Fits(resp) /\ s \in Seq(Token) /\ N = Len(s) /\ N \in Nat \ {0} /\ resp.keep \in BOOLEAN
  BY Shapes, MessageIs DEF IInv, Size, Fits
<1>2. /\ srv \in {"reading", "body", "upstream", "relay", "closed"} /\ held \in Token \cup {None}
      /\ view # At("head") /\ Over(view) /\ view.at = "whole"
  BY DEF IInv, Types, Idle, At, Over
<1>3. ~Waiting
  BY <1>2 DEF Waiting
<1>4. srv \notin {"body", "upstream"} /\ (srv = "reading" => Coming = <<>> /\ held = None)
  BY <1>3 DEF IInv, Incoming
<1>5. CASE srv = "closed" /\ pipe = <<>>
  BY <1>5
<1>6. CASE \E v, w \in 0..N : /\ v <= w /\ Heard(view, v, w)
                              /\ srv = "relay" => Relayed(w) \/ (w = 0 /\ Early)
  <2>1. PICK v \in 0..N, w \in 0..N : /\ v <= w /\ Heard(view, v, w)
                                      /\ srv = "relay" => Relayed(w) \/ (w = 0 /\ Early)
    BY <1>6
  <2>2. view = Where(resp, v) /\ pipe = Span(s, v, w)
    BY <2>1 DEF Heard
  <2>3. v = N /\ resp.framing # "close"
    BY <1>1, <1>2, <2>2, Way
  <2> HIDE DEF N, s
  <2>4. v \in 0..Len(s) /\ w \in 0..Len(s) /\ w = N /\ v = w /\ w # 0
    BY <1>1, <2>1, <2>3
  <2>5. pipe = <<>>
    BY <1>1, <2>1, <2>2, <2>4, SpanIs
  <2>6. CASE srv = "relay"
    <3>1. Coming = <<>> /\ \E c \in 1..N : Passed(w, c)
      BY <2>1, <2>4, <2>6 DEF Relayed, N
    <3>2. PICK c \in 1..N : Passed(w, c)
      BY <3>1
    <3>3. ~(c = w + 1)
      BY <1>1, <2>4
    <3>4. w = N /\ N \in Nat /\ ~(N < N)
      BY <1>1, <2>4
    <3>5. held = None /\ w = c /\ fwd = Where(resp, c) /\ rest = Span(s, c, N)
      BY <2>3, <3>2, <3>3, <3>4 DEF Passed, N, s
    <3>6. rest = <<>>
      <4>1. N \in 0..Len(s) /\ N <= N /\ c = N
        BY <1>1, <2>4, <3>5
      <4>2. Span(s, N, N) = <<>>
        BY <1>1, <4>1, SpanIs
      <4> QED
        BY <3>5, <4>1, <4>2
    <3>7. fwd = view
      BY <2>2, <2>4, <3>5
    <3>8. resp.keep => Reused
      BY <1>2, <2>3, <3>7 DEF Reused, Keeps
    <3> QED
      BY <2>5, <2>6, <3>1, <3>5, <3>6, <3>8
  <2> QED
    BY <1>2, <1>4, <2>5, <2>6
<1>7. LineH1
  BY DEF IInv
<1> QED
  BY <1>5, <1>6, <1>7 DEF LineH1

\* A response that both sides keep their connection after has been passed on.
LEMMA PassedOn ==
    ASSUME IInv, srv = "relay", Reused
    PROVE  /\ rest = <<>>
           /\ proto = "h1" => Coming = <<>> \/ (Early /\ Waiting)
<1> DEFINE N == Size(resp)
           s == Message(resp)
<1>1. Fits(resp) /\ s \in Seq(Token) /\ N = Len(s) /\ N \in Nat \ {0}
  BY Shapes, MessageIs DEF IInv, Size
<1>2. fwd.at = "whole" /\ resp.framing # "close"
  BY DEF Reused, Keeps
<1>3. ASSUME NEW w \in 0..N, Relayed(w)
      PROVE  rest = <<>>
  <2>1. PICK c \in 1..N : Passed(w, c)
    BY <1>3 DEF Relayed
  <2>2. fwd # At("broken")
    BY <1>2 DEF At
  <2>3. fwd = Where(resp, c) /\ rest = Span(s, c, N)
    BY <1>2, <2>1, <2>2 DEF Passed
  <2>4. Over(fwd) /\ c \in 0..N
    BY <1>1, <1>2 DEF Over
  <2>5. c = N
    BY <1>1, <2>3, <2>4, Way
  <2> HIDE DEF N, s
  <2>6. c \in 0..Len(s) /\ N \in 0..Len(s) /\ c <= N
    BY <1>1, <2>5
  <2> QED
    BY <1>1, <2>3, <2>5, <2>6, SpanIs
<1>4. CASE proto = "h1"
  <2>1. PICK v \in 0..N, w \in 0..N : v <= w /\ Heard(view, v, w) /\ (Relayed(w) \/ (w = 0 /\ Early))
    BY <1>4 DEF IInv, LineH1
  <2>2. CASE Relayed(w)
    BY <1>3, <2>2 DEF Relayed
  <2>3. CASE w = 0 /\ Early
    <3>1. v = 0 /\ 0 \in 0..Len(s)
      BY <1>1, <2>1, <2>3
    <3>2. view = At("head") /\ pipe = Span(s, 0, 0) /\ pieces = 0
      BY <1>1, <2>1, <2>3, <3>1, WayEnds DEF Heard
    <3>3. pipe = <<>>
      BY <1>1, <3>1, <3>2, SpanIs
    <3> QED
      BY <2>3, <3>2, <3>3 DEF Waiting, Early
  <2> QED
    BY <2>1, <2>2, <2>3
<1>5. CASE proto # "h1"
  <2>1. proto = "h2"
    BY <1>5 DEF IInv, Types
  <2>2. PICK w \in 1..N : Relayed(w)
    BY <2>1 DEF IInv, LineH2
  <2>3. w \in 0..N
    BY <1>1
  <2> QED
    BY <1>3, <1>5, <2>2, <2>3
<1> QED
  BY <1>4, <1>5

-----------------------------------------------------------------------------
(* The client's steps.                                                     *)

LEMMA ClientBeginsKeeps ==
    ASSUME IInv, ClientBegins
    PROVE  IInv'
<1>1. /\ left > 0 /\ view = Idle /\ resp.keep /\ left' = left - 1 /\ view' = At("head") /\ pieces' = 0
      /\ UNCHANGED <<proto, there, inbox, rd, srv, resp, rest, held, fwd, pooled, pipe, dec, astray>>
  BY Zenon DEF ClientBegins, reading, upstream
<1>2. PICK m \in Asks : req' = m /\ out' = <<"head">> \o Body(m) /\ go' = ~m.expect
  BY DEF ClientBegins
<1>3. m \in RequestShape /\ Sensible(m) /\ m.expect \in BOOLEAN /\ Fits(m)
  BY DEF Asks, RequestShape, Fits
<1>4. out' = Message(m) /\ Message(m) \in Seq(Token)
  BY <1>2, <1>3, MessageIs DEF Message
<1>5. Types
  BY DEF IInv
<1>6. Types'
  <2>1. At("head") \in Phase \cup {At("head")} /\ 0 \in 0..MaxPieces
    BY BoundAssumption
  <2>2. left' \in 0..Requests
    BY <1>1, <1>5, BoundAssumption DEF Types
  <2>3. go' \in BOOLEAN
    BY <1>2
  <2> QED
    BY <1>1, <1>2, <1>3, <1>4, <1>5, <2>1, <2>2, <2>3 DEF Types
<1>7. inbox = <<>> => Coming' = Message(req')
  BY <1>1, <1>2, <1>4, Neither DEF Coming
<1>8. Coming = <<>> => inbox = <<>>
  BY <1>5, Neither DEF Types, Coming
<1>9. Fits(resp) /\ 0 \in 0..Size(resp) /\ Where(resp, 0) = At("head") /\ Data(resp, 0) = 0
      /\ Span(Message(resp), 0, 0) = <<>>
  <2>1. Fits(resp) /\ Message(resp) \in Seq(Token) /\ Size(resp) \in Nat /\ 0 \in 0..Len(Message(resp))
    BY <1>5, Shapes, MessageIs DEF Size
  <2> QED
    BY <2>1, WayEnds, SpanIs DEF Size
<1>10. ASSUME pipe = <<>>, NEW w \in {0}
       PROVE  w \in 0..Size(resp') /\ Heard(view, w, w)'
  BY <1>1, <1>9, <1>10 DEF Heard
<1>11. CASE proto = "h1"
  <2>1. /\ pipe = <<>>
        /\ \/ srv = "reading" /\ Coming = <<>> /\ held = None
           \/ srv = "relay" /\ Coming = <<>> /\ held = None /\ rest = <<>> /\ Reused
           \/ srv = "closed"
    BY <1>1, <1>11, AllRead
  <2>2. Incoming'
    BY <1>1, <1>7, <1>8, <2>1 DEF Incoming, Waiting
  <2>3. srv = "relay" => Early'
    BY <1>1, <1>7, <1>8, <2>1 DEF Early, Reused, Keeps
  <2>4. LineH1'
    BY <1>1, <1>10, <2>1, <2>3 DEF LineH1
  <2>5. LineH2'
    BY <1>1, <1>11 DEF LineH2
  <2> QED
    BY <1>1, <1>6, <2>2, <2>4, <2>5 DEF IInv
<1>12. CASE proto = "h2"
  <2>1. left = 1 /\ srv \in {"reading", "closed"} /\ Coming = <<>>
        /\ (srv = "reading" => pipe = <<>> /\ resp = NoShape /\ pieces = 0 /\ held = None)
    BY <1>1, <1>5, <1>12 DEF IInv, LineH2, Types, Incoming
  <2>2. Incoming'
    BY <1>1, <1>7, <1>8, <2>1 DEF Incoming, Waiting
  <2>3. LineH1'
    BY <1>1, <1>12 DEF LineH1
  <2>4. view' # Idle
    BY <1>1 DEF Idle, At
  <2>5. LineH2'
    BY <1>1, <2>1, <2>4 DEF LineH2, CompleteIsWhole
  <2> QED
    BY <1>1, <1>6, <2>2, <2>3, <2>5 DEF IInv
<1> QED
  BY <1>5, <1>11, <1>12 DEF Types

LEMMA ClientSendsKeeps ==
    ASSUME IInv, ClientSends
    PROVE  IInv'
<1>1. /\ out # <<>> /\ inbox' = Append(inbox, Head(out)) /\ out' = Tail(out)
      /\ UNCHANGED <<proto, left, there, req, go, view, pieces, srv, rd, resp, rest, held, fwd, pooled,
                     pipe, dec, astray>>
  BY Zenon DEF ClientSends, upstream
<1>2. Types
  BY DEF IInv
<1>3. inbox' \in Seq(Token) /\ out' \in Seq(Token) /\ Coming' = Coming
  <2>1. inbox \in Seq(Token) /\ out \in Seq(Token)
    BY <1>2, Zenon DEF Types
  <2>2. /\ Append(inbox, Head(out)) \in Seq(Token) /\ Tail(out) \in Seq(Token)
        /\ Append(inbox, Head(out)) \o Tail(out) = inbox \o out
    BY <1>1, <2>1, MovesOver, Zenon
  <2> QED
    BY <1>1, <2>2, Zenon DEF Coming
<1>4. Types'
  BY <1>1, <1>2, <1>3 DEF Types
<1>5. Incoming' /\ LineH1' /\ LineH2'
  <2>1. Incoming'
    BY <1>1, <1>3 DEF IInv, Incoming, Waiting
  <2>2. LineH1'
    BY <1>1, <1>3 DEF IInv, LineH1, Heard, Relayed, Passed, Early, Reused
  <2>3. LineH2'
    BY <1>1, <1>3 DEF IInv, LineH2, Heard, Relayed, Passed, CompleteIsWhole
  <2> QED
    BY <2>1, <2>2, <2>3
<1> QED
  BY <1>1, <1>4, <1>5 DEF IInv

LEMMA ClientLeavesKeeps ==
    ASSUME IInv, ClientLeaves
    PROVE  IInv'
<1>1. /\ there' = FALSE
      /\ UNCHANGED <<proto, left, req, out, go, view, pieces, inbox, rd, srv, resp, rest, held, fwd, pooled,
                     pipe, dec, astray>>
  BY Zenon DEF ClientLeaves, reading, upstream
<1>2. Types'
  BY <1>1 DEF IInv, Types
<1>3. Incoming'
  BY <1>1 DEF IInv, Incoming, Coming, Waiting
<1>4. LineH1'
  BY <1>1 DEF IInv, LineH1, Heard, Relayed, Passed, Early, Coming, Reused
<1>5. LineH2'
  BY <1>1 DEF IInv, LineH2, Heard, Relayed, Passed, Coming, CompleteIsWhole
<1> QED
  BY <1>1, <1>2, <1>3, <1>4, <1>5 DEF IInv

LEMMA ClientReadsKeeps ==
    ASSUME IInv, ClientReads
    PROVE  IInv'
<1> DEFINE N == Size(resp)
           s == Message(resp)
           tok == Head(pipe)
<1>1. /\ proto = "h1" /\ pipe # <<>> /\ pipe' = Tail(pipe)
      /\ UNCHANGED <<proto, left, there, req, out, go, inbox, rd, srv, resp, rest, held, fwd, pooled, dec>>
  BY Zenon DEF ClientReads, reading, upstream
<1>2. /\ view' = IF tok = "head" THEN First(resp) ELSE Step(view, tok)
      /\ pieces' = IF tok = "data" THEN pieces + 1 ELSE pieces
      /\ astray' = (astray \/ (IF tok = "head" THEN view # At("head") ELSE Step(view, tok).at = "broken"))
  BY Zenon DEF ClientReads
<1>3. Types /\ ~astray
  BY DEF IInv
<1>4. Fits(resp) /\ s \in Seq(Token) /\ N = Len(s) /\ N \in Nat \ {0}
  BY <1>3, Shapes, MessageIs DEF Size
<1>5. PICK v \in 0..N, w \in 0..N : /\ v <= w /\ Heard(view, v, w)
                                    /\ srv = "relay" => Relayed(w) \/ (w = 0 /\ Early)
  BY <1>1 DEF IInv, LineH1
<1>6. pipe = Span(s, v, w) /\ view = Where(resp, v) /\ pieces = Data(resp, v)
  BY <1>5 DEF Heard
<1>7. s[1] = "head" /\ \A i \in 2..N : s[i] # "head"
  BY <1>4, MessageIs
<1>8. /\ v = 0 => view = At("head")
      /\ Where(resp, 1) = First(resp) /\ Data(resp, 0) = 0 /\ Data(resp, 1) = 0
  BY <1>4, <1>6, WayEnds
<1> HIDE DEF N, s
<1>9. v \in 0..Len(s) /\ w \in 0..Len(s) /\ v \in Nat
  BY <1>4
<1>10. v < w /\ tok = s[v + 1] /\ pipe' = Span(s, v + 1, w)
  <2>1. v # w
    BY <1>1, <1>4, <1>5, <1>6, <1>9, SpanIs
  <2>2. v < w
    BY <1>5, <1>9, <2>1
  <2> QED
    BY <1>1, <1>4, <1>5, <1>6, <1>9, <2>2, SpanIs
<1>11. v + 1 \in 0..N /\ v + 1 <= w /\ w # 0
  BY <1>4, <1>9, <1>10
<1>12. view' = Where(resp, v + 1) /\ pieces' = Data(resp, v + 1) /\ ~astray'
  <2>1. CASE v = 0
    <3>1. tok = "head" /\ v + 1 = 1
      BY <1>7, <1>10, <2>1
    <3> QED
      BY <1>2, <1>3, <1>6, <1>8, <2>1, <3>1
  <2>2. CASE v # 0
    <3>1. v \in 1..(N - 1) /\ v + 1 \in 2..N
      BY <1>9, <1>11, <2>2, <1>4
    <3>2. tok # "head"
      BY <1>7, <1>10, <3>1
    <3>3. /\ Step(view, tok) = Where(resp, v + 1) /\ Data(resp, v) \in Nat
          /\ Data(resp, v + 1) = Data(resp, v) + (IF tok = "data" THEN 1 ELSE 0)
      BY <1>4, <1>6, <1>10, <3>1, Walk DEF N, s
    <3>4. Where(resp, v + 1).at # "broken"
      BY <1>4, <1>11, Way DEF N
    <3>5. pieces' = Data(resp, v + 1)
      <4> HIDE DEF tok
      <4> QED
        BY <1>2, <1>6, <3>3
    <3> QED
      BY <1>2, <1>3, <3>2, <3>3, <3>4, <3>5
  <2> QED
    BY <2>1, <2>2
<1>13. Types'
  <2>1. Where(resp, v + 1) \in Phase /\ Data(resp, v + 1) \in 0..MaxPieces
    BY <1>4, <1>11, <1>9, Way DEF N
  <2>2. pipe' \in Seq(Token) /\ Len(pipe') <= Room
    BY <1>1, <1>3, BoundAssumption DEF Types
  <2> QED
    BY <1>1, <1>3, <1>12, <2>1, <2>2 DEF Types
<1>14. Incoming'
  <2>1. ~Waiting
    BY <1>1 DEF Waiting
  <2>2. srv \notin {"body", "upstream"} /\ (srv = "reading" => Coming = <<>> /\ held = None)
    BY <2>1 DEF IInv, Incoming
  <2> QED
    BY <1>1, <2>2 DEF Incoming, Coming
<1>15. LineH1'
  <2>1. Heard(view, v + 1, w)'
    BY <1>1, <1>10, <1>12 DEF Heard, s
  <2>2. srv = "relay" => Relayed(w)
    BY <1>5, <1>11
  <2>3. srv' = "relay" => Relayed(w)'
    BY <1>1, <2>2 DEF Relayed, Passed, Coming
  <2>4. v + 1 \in 0..Size(resp') /\ w \in 0..Size(resp')
    BY <1>1, <1>11 DEF N
  <2> QED
    BY <1>11, <2>1, <2>3, <2>4 DEF LineH1
<1>16. LineH2'
  BY <1>1 DEF LineH2
<1> QED
  BY <1>1, <1>3, <1>12, <1>13, <1>14, <1>15, <1>16 DEF IInv

LEMMA ClientSeesEndKeeps ==
    ASSUME IInv, ClientSeesEnd
    PROVE  IInv'
<1> DEFINE N == Size(resp)
<1>1. /\ proto = "h1" /\ srv = "closed" /\ pipe = <<>> /\ ~Over(view)
      /\ view' = IF view = At("head") THEN At("broken") ELSE Step(view, "eof")
      /\ UNCHANGED <<proto, left, there, req, out, go, pieces, inbox, rd, srv, resp, rest, held, fwd, pooled,
                     pipe, dec, astray>>
  BY Zenon DEF ClientSeesEnd, reading, upstream
<1>2. Types
  BY DEF IInv
<1>3. Fits(resp)
  BY <1>2, Shapes
<1>4. Over(At("broken")) /\ Over(Idle)
  BY DEF Over, At, Idle
<1>5. PICK v \in 0..N : view = Where(resp, v)
  BY <1>1, <1>4 DEF IInv, LineH1, Heard
<1>6. view' = At("broken") \/ (view' = Idle /\ resp.framing = "close")
  <2>1. CASE view = At("head")
    BY <1>1, <2>1
  <2>2. CASE view # At("head") /\ view.at = "close"
    <3>1. resp.framing = "close"
      BY <1>3, <1>5, <2>2, Way
    <3>2. v # 0
      BY <1>3, <1>5, <2>2, Way
    <3>3. view = At("close")
      BY <1>3, <1>5, <3>1, <3>2, Way
    <3> QED
      BY <1>1, <2>2, <3>1, <3>3, StepIs DEF Idle
  <2>3. CASE view # At("head") /\ view.at # "close"
    BY <1>1, <2>3, EofBreaks
  <2> QED
    BY <2>1, <2>2, <2>3
<1>7. Types'
  <2>1. At("broken") \in Phase /\ Idle \in Phase
    BY BoundAssumption DEF Idle, At, Phase, Place
  <2> QED
    BY <1>1, <1>2, <1>6, <2>1 DEF Types
<1>8. Incoming'
  BY <1>1 DEF Incoming
<1>9. LineH1'
  BY <1>1, <1>6 DEF LineH1
<1>10. LineH2'
  BY <1>1 DEF LineH2
<1> QED
  BY <1>1, <1>7, <1>8, <1>9, <1>10 DEF IInv

-----------------------------------------------------------------------------
(* The proxy reads a request.                                              *)

\* Closing is always allowed: nothing is claimed of a closed connection's inbox.
LEMMA ClosingKeeps ==
    ASSUME IInv, srv # "relay", srv' = "closed",
           view' = view \/ (proto = "h2" /\ srv = "upstream" /\ view' = At("502")),
           UNCHANGED <<proto, left, there, req, out, go, pieces, inbox, rd, resp, rest, held, fwd, pooled,
                       pipe, dec, astray>>
    PROVE  IInv'
<1>1. Types'
  BY DEF IInv, Types
<1>2. Incoming'
  BY DEF Incoming
<1>3. LineH1'
  <2>1. CASE proto = "h1"
    <3>1. view' = view
      BY <2>1
    <3> QED
      BY <3>1 DEF IInv, LineH1, Heard
  <2> QED
    BY <2>1 DEF LineH1
<1>4. LineH2'
  <2>1. ASSUME proto = "h2"
        PROVE  left = 0 \/ (left = 1 /\ Coming = <<>> /\ view = Idle)
    BY <2>1 DEF IInv, LineH2
  <2>2. ASSUME proto = "h2"
        PROVE  left = 0 \/ (left = 1 /\ Coming = <<>> /\ view' = Idle)
    <3>1. CASE srv = "upstream"
      BY <2>2, <3>1 DEF IInv, LineH2
    <3>2. CASE view' = view
      BY <2>1, <2>2, <3>2
    <3> QED
      BY <2>2, <3>1, <3>2
  <2>3. proto = "h2" => CompleteIsWhole'
    <3>1. At("502") # Idle
      BY DEF At, Idle
    <3>2. proto = "h2" => CompleteIsWhole
      BY DEF IInv, LineH2
    <3> QED
      BY <3>1, <3>2 DEF CompleteIsWhole
  <2> QED
    BY <2>2, <2>3 DEF LineH2, Coming
<1> QED
  BY <1>1, <1>2, <1>3, <1>4 DEF IInv

LEMMA ReadFailsKeeps ==
    ASSUME IInv, ReadFails
    PROVE  IInv'
<1>1. /\ srv # "relay" /\ srv' = "closed"
      /\ UNCHANGED <<proto, left, there, req, out, go, view, pieces, inbox, rd, resp, rest, held, fwd, pooled,
                     pipe, dec, astray>>
  BY Zenon DEF ReadFails, client, reading, upstream
<1> QED
  BY <1>1, ClosingKeeps

\* A request is read while the client waits for its answer.
LEMMA ReadsOn ==
    ASSUME IInv, Waiting, srv \in {"reading", "body"}, Coming # <<>>,
           srv' \in {"body", "upstream"}, Types', ~astray', Incoming',
           UNCHANGED <<proto, left, view, resp, pieces, rest, held, fwd, pooled, pipe, dec>>
    PROVE  IInv'
<1>1. LineH1'
  BY DEF IInv, LineH1, Heard
<1>2. LineH2'
  BY DEF IInv, LineH2, Heard, CompleteIsWhole
<1> QED
  BY <1>1, <1>2 DEF IInv

LEMMA ReadHeadKeeps ==
    ASSUME IInv, ReadHead
    PROVE  IInv'
<1> DEFINE N == Size(req)
           s == Message(req)
<1>1. /\ srv = "reading" /\ inbox # <<>> /\ inbox' = Tail(inbox)
      /\ UNCHANGED <<proto, left, there, req, out, view, pieces, resp, rest, held, fwd, pooled, pipe, dec>>
  BY Zenon DEF ReadHead, upstream
<1>2. Types /\ ~astray
  BY DEF IInv
<1>3. Fits(req) /\ req.framing # "close" /\ s \in Seq(Token) /\ N = Len(s) /\ N \in Nat \ {0} /\ s[1] = "head"
  BY <1>2, Shapes, MessageIs DEF Size
<1>4. /\ Coming # <<>> /\ Tail(inbox) \in Seq(Token)
      /\ Head(Coming) = Head(inbox) /\ Tail(Coming) = Tail(inbox) \o out
  BY <1>1, <1>2, TakenOff DEF Types, Coming
<1>5. Coming = s /\ Waiting /\ held = None
  BY <1>1, <1>4 DEF IInv, Incoming
<1>6. Span(s, 0, N) = s
  BY <1>3, WholeSpan
<1>7. Head(inbox) = "head" /\ Coming' = Span(s, 1, N)
  <2> HIDE DEF s, N
  <2>1. 0 \in 0..Len(s) /\ N \in 0..Len(s) /\ 0 < N /\ 0 <= N /\ 0 + 1 = 1
    BY <1>3
  <2>2. Head(Span(s, 0, N)) = s[1] /\ Tail(Span(s, 0, N)) = Span(s, 1, N)
    BY <1>3, <2>1, SpanIs
  <2> QED
    BY <1>1, <1>3, <1>4, <1>5, <1>6, <2>2 DEF Coming
<1>8. /\ rd' = First(req) /\ go' = TRUE /\ astray' = astray
      /\ srv' = IF Over(First(req)) THEN "upstream" ELSE "body"
  BY <1>7, Zenon DEF ReadHead
<1>9. Where(req, 1) = First(req) /\ (N = 1 => Over(First(req))) /\ (N # 1 => ~Over(First(req)))
      /\ First(req) \in Phase
  <2>1. Where(req, 1) = First(req) /\ 1 \in 0..N
    BY <1>3, WayEnds
  <2>2. N = 1 => Where(req, 1) = At("whole")
    BY <1>3, <2>1, Way
  <2>3. Over(Where(req, 1)) => N = 1
    BY <1>3, <2>1, Way
  <2>4. Over(At("whole"))
    BY DEF Over, At
  <2>5. Where(req, 1) \in Phase
    BY <1>3, <2>1, Way
  <2> QED
    BY <2>1, <2>2, <2>3, <2>4, <2>5
<1>10. Incoming'
  <2>1. CASE N = 1
    <3>1. Span(s, 1, N) = <<>>
      <4> HIDE DEF s, N
      <4>1. 1 \in 0..Len(s)
        BY <1>3, <2>1
      <4>2. Span(s, 1, 1) = <<>>
        BY <1>3, <4>1, NoSpan
      <4> QED
        BY <2>1, <4>2
    <3> QED
      BY <1>1, <1>5, <1>7, <1>8, <1>9, <2>1, <3>1 DEF Incoming, Waiting
  <2>2. CASE N # 1
    <3>1. 1 \in 1..(N - 1)
      BY <1>3, <2>2
    <3>2. srv' = "body" /\ held' = None /\ Waiting' /\ rd' = Where(req', 1) /\ Coming' = Span(Message(req'), 1, Size(req'))
      BY <1>1, <1>5, <1>7, <1>8, <1>9, <2>2 DEF Waiting
    <3>3. 1 \in 1..(Size(req') - 1)
      BY <1>1, <3>1
    <3> QED
      BY <3>2, <3>3 DEF Incoming
  <2> QED
    BY <2>1, <2>2
<1>11. Types'
  BY <1>1, <1>2, <1>4, <1>8, <1>9 DEF Types
<1>12. srv' \in {"body", "upstream"} /\ ~astray'
  BY <1>2, <1>8
<1> QED
  BY <1>1, <1>4, <1>5, <1>10, <1>11, <1>12, ReadsOn

LEMMA ReadBodyKeeps ==
    ASSUME IInv, ReadBody
    PROVE  IInv'
<1> DEFINE N == Size(req)
           s == Message(req)
           ph == Step(rd, Head(inbox))
<1>1. /\ srv = "body" /\ inbox # <<>> /\ inbox' = Tail(inbox) /\ rd' = ph
      /\ UNCHANGED <<proto, left, there, req, out, go, view, pieces, resp, rest, held, fwd, pooled, pipe, dec>>
  BY Zenon DEF ReadBody, client, upstream
<1>2. /\ srv' = CASE ph.at = "whole" -> "upstream"
                  [] ph.at = "broken" -> "closed"
                  [] OTHER -> "body"
      /\ astray' = (astray \/ ph.at = "broken")
  BY DEF ReadBody
<1>3. Types /\ ~astray
  BY DEF IInv
<1>4. Fits(req) /\ req.framing # "close" /\ s \in Seq(Token) /\ N = Len(s) /\ N \in Nat \ {0}
  BY <1>3, Shapes, MessageIs DEF Size
<1>5. /\ Coming # <<>> /\ Tail(inbox) \in Seq(Token)
      /\ Head(Coming) = Head(inbox) /\ Tail(Coming) = Tail(inbox) \o out
  BY <1>1, <1>3, TakenOff DEF Types, Coming
<1>6. Waiting /\ held = None
  BY <1>1 DEF IInv, Incoming
<1>7. PICK j \in 1..(N - 1) : rd = Where(req, j) /\ Coming = Span(s, j, N)
  BY <1>1 DEF IInv, Incoming
<1>8. j \in Nat /\ j < N /\ j + 1 \in 0..N /\ j + 1 # 0 /\ j + 1 \in Nat
  BY <1>4
<1>9. Head(inbox) = s[j + 1] /\ Coming' = Span(s, j + 1, N)
  <2> HIDE DEF s, N
  <2>1. s \in Seq(Token) /\ j \in 0..Len(s) /\ N \in 0..Len(s) /\ j <= N /\ j < N
    BY <1>4, <1>8
  <2>2. Head(Span(s, j, N)) = s[j + 1] /\ Tail(Span(s, j, N)) = Span(s, j + 1, N)
    BY <2>1, NextOfSpan, Zenon
  <2> QED
    BY <1>1, <1>5, <1>7, <2>2 DEF Coming
<1>10. ph = Where(req, j + 1)
  BY <1>4, <1>7, <1>9, Walk
<1>11. /\ ph \in Phase /\ ph.at # "broken"
       /\ j + 1 = N => ph = At("whole")
       /\ j + 1 # N => ~Over(ph)
  BY <1>4, <1>8, <1>10, Way
<1>12. srv' = (IF j + 1 = N THEN "upstream" ELSE "body") /\ ~astray'
  <2> HIDE DEF ph
  <2>1. CASE j + 1 = N
    <3>1. ph.at = "whole"
      BY <1>11, <2>1 DEF At
    <3> QED
      BY <1>2, <1>3, <2>1, <3>1
  <2>2. CASE j + 1 # N
    BY <1>2, <1>3, <1>11, <2>2 DEF Over
  <2> QED
    BY <2>1, <2>2
<1>13. Incoming'
  <2>1. CASE j + 1 = N
    <3>1. Span(s, j + 1, N) = <<>>
      <4> HIDE DEF s, N
      <4>1. N \in 0..Len(s)
        BY <1>4
      <4> QED
        BY <1>4, <2>1, <4>1, NoSpan
    <3> QED
      BY <1>1, <1>6, <1>9, <1>12, <2>1, <3>1 DEF Incoming, Waiting
  <2>2. CASE j + 1 # N
    <3>1. j + 1 \in 1..(N - 1)
      BY <1>4, <1>8, <2>2
    <3>2. /\ srv' = "body" /\ held' = None /\ Waiting' /\ rd' = Where(req', j + 1)
          /\ Coming' = Span(Message(req'), j + 1, Size(req'))
      BY <1>1, <1>6, <1>9, <1>10, <1>12, <2>2 DEF Waiting
    <3>3. j + 1 \in 1..(Size(req') - 1)
      BY <1>1, <3>1
    <3> QED
      BY <3>2, <3>3 DEF Incoming
  <2> QED
    BY <2>1, <2>2
<1>14. Types'
  BY <1>1, <1>3, <1>5, <1>11, <1>12 DEF Types
<1>15. srv' \in {"body", "upstream"}
  BY <1>12
<1> QED
  BY <1>1, <1>5, <1>6, <1>12, <1>13, <1>14, <1>15, ReadsOn

-----------------------------------------------------------------------------
(* forward_one passes a response on.                                       *)

LEMMA AnswerLostKeeps ==
    ASSUME IInv, AnswerLost
    PROVE  IInv'
<1>1. /\ srv # "relay" /\ srv' = "closed"
      /\ UNCHANGED <<proto, left, there, req, out, go, view, pieces, inbox, rd, resp, rest, held, fwd, pooled,
                     pipe, dec, astray>>
  BY Zenon DEF AnswerLost, client, reading, upstream
<1> QED
  BY <1>1, ClosingKeeps

LEMMA AnswersKeeps ==
    ASSUME IInv, NEW m \in Responses, Answers(m)
    PROVE  IInv'
<1> DEFINE N == Size(m)
           s == Message(m)
<1>1. /\ srv = "upstream" /\ resp' = m /\ rest' = Body(m) /\ fwd' = First(m)
      /\ pipe' = Append(pipe, "head") /\ srv' = "relay"
      /\ UNCHANGED <<proto, left, there, req, out, go, view, pieces, inbox, rd, held, pooled, astray>>
  BY Zenon DEF Answers, client, reading
<1>2. dec' = IF proto = "h2" THEN At("head") ELSE dec
  BY DEF Answers
<1>3. Types /\ Coming = <<>> /\ held = None /\ view = At("head") /\ pipe = <<>> /\ pieces = 0
  BY <1>1 DEF IInv, Incoming, Waiting
<1>4. m \in Shape /\ Sensible(m) /\ Fits(m)
  BY DEF Responses, Shape, Fits
<1>5. /\ s \in Seq(Token) /\ N = Len(s) /\ N \in Nat \ {0} /\ s[1] = "head"
      /\ Where(m, 0) = At("head") /\ Where(m, 1) = First(m) /\ Data(m, 0) = 0
  BY <1>4, MessageIs, WayEnds DEF Size
<1>6. Body(m) \in Seq(Token)
  <2>1. Body(m) \in Seq(Token \ {"head", "eof"})
    BY <1>4, BodyIs
  <2> QED
    BY <2>1
<1>7. rest' = Span(s, 1, N)
  <2>1. \A i \in 1..Len(Body(m)) : s[i + 1] = Body(m)[i]
    BY <1>4, MessageIs
  <2>2. N = Len(Body(m)) + 1
    BY <1>4, MessageIs
  <2> HIDE DEF s, N
  <2>3. /\ Span(s, 1, N) \in Seq(Token) /\ Len(Span(s, 1, N)) = N - 1
        /\ \A i \in 1..(N - 1) : Span(s, 1, N)[i] = s[i + 1]
    BY <1>5 DEF Span
  <2>4. Len(Body(m)) = N - 1
    BY <1>6, <2>2
  <2>5. Span(s, 1, N) = Body(m)
    BY <1>6, <2>1, <2>3, <2>4
  <2> QED
    BY <1>1, <2>5
<1>8. pipe' = Span(s, 0, 1) /\ pipe' \in Seq(Token) /\ Len(pipe') <= Room
  <2> HIDE DEF s, N
  <2>1. pipe' = <<"head">>
    BY <1>1, <1>3
  <2>2. Span(s, 0, 1) = <<"head">>
    <3>1. s \in Seq(Token) /\ 0 \in 0..Len(s) /\ 0 < Len(s) /\ 0 <= 0
      BY <1>5
    <3>2. Append(Span(s, 0, 0), s[0 + 1]) = Span(s, 0, 0 + 1)
      BY <3>1, LongerSpan, Zenon
    <3>3. Span(s, 0, 0) = <<>>
      BY <3>1, NoSpan, Zenon
    <3>4. 0 + 1 = 1 /\ s[1] = "head"
      BY <1>5
    <3>5. Append(<<>>, "head") = Span(s, 0, 1)
      BY <3>2, <3>3, <3>4, Zenon
    <3> QED
      BY <3>5
  <2>3. "head" \in Token /\ 1 <= Room
    BY BoundAssumption DEF Token
  <2> QED
    BY <2>1, <2>2, <2>3
<1>9. Types'
  <2>1. First(m) \in Phase
    <3>1. 1 \in 0..N
      BY <1>5
    <3> QED
      BY <1>4, <1>5, <3>1, Way
  <2> QED
    BY <1>1, <1>2, <1>3, <1>4, <1>6, <1>8, <2>1 DEF Types
<1>10. Incoming'
  BY <1>1 DEF Incoming
<1>11. 1 \in 1..N /\ 1 \in 0..N /\ 0 \in 0..N
  BY <1>5
<1>12. Relayed(1)'
  <2>1. Passed(1, 1)'
    BY <1>1, <1>3, <1>5, <1>7 DEF Passed
  <2>2. Coming' = <<>>
    BY <1>1, <1>3 DEF Coming
  <2>3. 1 \in 1..Size(resp')
    BY <1>1, <1>11
  <2> QED
    BY <2>1, <2>2, <2>3 DEF Relayed
<1>13. Heard(At("head"), 0, 1)'
  BY <1>1, <1>3, <1>5, <1>8 DEF Heard
<1>14. LineH1'
  <2>1. Heard(view, 0, 1)'
    BY <1>1, <1>3, <1>13 DEF Heard
  <2>2. 0 \in 0..Size(resp') /\ 1 \in 0..Size(resp') /\ 0 <= 1
    BY <1>1, <1>11
  <2> QED
    BY <1>12, <2>1, <2>2 DEF LineH1
<1>15. LineH2'
  <2>1. ASSUME proto = "h2"
        PROVE  left = 0 /\ dec' = At("head") /\ Heard(dec, 0, 1)'
    <3>1. left = 0
      BY <1>1, <2>1 DEF IInv, LineH2
    <3>2. dec' = At("head")
      BY <1>2, <2>1
    <3> QED
      BY <1>13, <3>1, <3>2 DEF Heard
  <2>2. view' # Idle
    BY <1>1, <1>3 DEF Idle, At
  <2>3. CompleteIsWhole'
    BY <2>2 DEF CompleteIsWhole
  <2>4. 1 \in 1..Size(resp') /\ 0 \in 0..1
    BY <1>1, <1>11
  <2> QED
    BY <1>1, <1>12, <2>1, <2>2, <2>3, <2>4 DEF LineH2
<1>16. ~astray' /\ pooled' = <<>>
  BY <1>1 DEF IInv
<1> QED
  BY <1>9, <1>10, <1>14, <1>15, <1>16 DEF IInv

\* What forward_one does to the rest of a response is the client's no business.
LEMMA FwdKeeps ==
    ASSUME IInv, srv = "relay", held # None \/ ~Over(fwd),
           rest' \in Seq(Token), held' \in Token \cup {None}, fwd' \in Phase,
           \A w \in 1..Size(resp) : Relayed(w) => Relayed(w)',
           UNCHANGED <<proto, left, there, req, out, go, view, pieces, inbox, rd, srv, resp, pooled,
                       pipe, dec, astray>>
    PROVE  IInv'
<1>1. Types'
  BY DEF IInv, Types
<1>2. Incoming'
  BY DEF Incoming
<1>3. ~Early
  BY DEF Early, Reused, Over
<1>4. LineH1'
  <2>1. CASE proto = "h1"
    <3>1. PICK v \in 0..Size(resp), w \in 0..Size(resp) : v <= w /\ Heard(view, v, w) /\ Relayed(w)
      BY <1>3, <2>1 DEF IInv, LineH1
    <3>2. w \in 1..Size(resp)
      <4>1. Size(resp) \in Nat
        BY Shapes, MessageIs DEF IInv
      <4> QED
        BY <3>1, <4>1 DEF Relayed
    <3>3. Relayed(w)' /\ Heard(view, v, w)'
      BY <3>1, <3>2 DEF Heard
    <3> QED
      BY <3>1, <3>3 DEF LineH1
  <2> QED
    BY <2>1 DEF LineH1
<1>5. LineH2'
  <2>1. CASE proto = "h2"
    <3>1. PICK w \in 1..Size(resp) : /\ Relayed(w)
                                     /\ \/ Over(dec)
                                        \/ view # Idle /\ \E v \in 0..w : Heard(dec, v, w)
      BY <2>1 DEF IInv, LineH2
    <3>2. Relayed(w)'
      BY <3>1
    <3>3. /\ left' = 0 \/ (left' = 1 /\ srv' \in {"reading", "closed"} /\ Coming' = <<>> /\ view' = Idle)
          /\ CompleteIsWhole'
      BY <2>1 DEF IInv, LineH2, Coming, CompleteIsWhole
    <3>4. (\E v \in 0..w : Heard(dec, v, w)) => (\E v \in 0..w : Heard(dec, v, w)')
      BY DEF Heard
    <3> QED
      BY <3>1, <3>2, <3>3, <3>4 DEF LineH2
  <2> QED
    BY <2>1 DEF LineH2
<1> QED
  BY <1>1, <1>2, <1>4, <1>5 DEF IInv

\* Where forward_one is, by what it holds.
LEMMA PassedTo ==
    ASSUME Types, NEW w \in 1..Size(resp), Relayed(w)
    PROVE  /\ held = None /\ ~Over(fwd) =>
                /\ fwd = Where(resp, w) /\ rest = Span(Message(resp), w, Size(resp))
                /\ w < Size(resp) \/ resp.framing = "close"
           /\ held # None =>
                /\ w + 1 \in 1..Size(resp) /\ held = Message(resp)[w + 1]
                /\ fwd = Where(resp, w + 1) /\ rest = Span(Message(resp), w + 1, Size(resp))
<1> DEFINE N == Size(resp)
           s == Message(resp)
<1>1. Fits(resp) /\ s \in Seq(Token) /\ N = Len(s) /\ N \in Nat \ {0}
  BY Shapes, MessageIs DEF Size
<1>2. PICK c \in 1..N : Passed(w, c)
  BY DEF Relayed
<1>3. Over(At("broken")) /\ Over(At("whole"))
  BY DEF Over, At
<1>4. CASE held = None /\ ~Over(fwd)
  <2>1. s[c] # None
    <3>1. s[c] \in Token
      BY <1>1
    <3> QED
      BY <3>1 DEF Token, None
  <2>2. w = c /\ fwd = Where(resp, c) /\ rest = Span(s, c, N)
    BY <1>2, <1>3, <1>4, <2>1 DEF Passed
  <2>3. w < N \/ resp.framing = "close"
    <3>1. w = N /\ resp.framing # "close" => Where(resp, w) = At("whole")
      <4>1. w \in 0..N
        BY <1>1
      <4> QED
        BY <1>1, <4>1, Way
    <3>2. w # N => w < N
      BY <1>1
    <3> QED
      BY <1>3, <1>4, <2>2, <3>1, <3>2
  <2> QED
    BY <1>4, <2>2, <2>3
<1>5. CASE held # None
  <2>1. fwd = Where(resp, c) /\ rest = Span(s, c, N) /\ held = s[c] /\ c = w + 1
    BY <1>2, <1>5 DEF Passed
  <2> QED
    BY <1>5, <2>1
<1> QED
  BY <1>4, <1>5

LEMMA FwdReadsKeeps ==
    ASSUME IInv, FwdReads
    PROVE  IInv'
<1> DEFINE N == Size(resp)
           s == Message(resp)
<1>1. /\ srv = "relay" /\ ~Over(fwd) /\ held = None /\ rest # <<>>
      /\ held' = Head(rest) /\ rest' = Tail(rest) /\ fwd' = Step(fwd, Head(rest))
      /\ UNCHANGED <<proto, left, there, req, out, go, view, pieces, inbox, rd, srv, resp, pooled,
                     pipe, dec, astray>>
  BY Zenon DEF FwdReads, client, reading
<1>2. Types
  BY DEF IInv
<1>3. Fits(resp) /\ s \in Seq(Token) /\ N = Len(s) /\ N \in Nat \ {0}
  BY <1>2, Shapes, MessageIs DEF Size
<1>4. ASSUME NEW w \in 1..N, Relayed(w)
      PROVE  /\ w + 1 \in 1..N /\ held' = s[w + 1] /\ rest' = Span(s, w + 1, N)
             /\ fwd' = Where(resp, w + 1) /\ fwd' \in Phase
  <2>1. fwd = Where(resp, w) /\ rest = Span(s, w, N)
    BY <1>1, <1>2, <1>4, PassedTo
  <2>2. s \in Seq(Token) /\ w \in 0..Len(s) /\ N \in 0..Len(s) /\ N = Len(s)
    BY <1>3
  <2>3. w # N
    <3>1. Span(s, N, N) = <<>>
      BY <2>2, NoSpan, Zenon
    <3> QED
      BY <1>1, <2>1, <3>1
  <2>4. w \in 1..(N - 1) /\ w < N /\ w + 1 \in 1..N /\ w + 1 \in 0..N /\ w + 1 # 0
    BY <1>3, <2>3
  <2>5. Head(rest) = s[w + 1] /\ Tail(rest) = Span(s, w + 1, N)
    BY <2>1, <2>2, <2>4, NextOfSpan, Zenon
  <2>6. Step(fwd, Head(rest)) = Where(resp, w + 1)
    BY <1>3, <2>1, <2>4, <2>5, Walk
  <2>7. Where(resp, w + 1) \in Phase
    BY <1>3, <2>4, Way
  <2> QED
    BY <1>1, <2>4, <2>5, <2>6, <2>7
<1>5. ASSUME NEW w \in 1..Size(resp), Relayed(w)
      PROVE  Relayed(w)'
  <2>1. Passed(w, w + 1)'
    BY <1>1, <1>4, <1>5 DEF Passed
  <2>2. w + 1 \in 1..Size(resp') /\ Coming' = <<>> /\ w # 0
    BY <1>1, <1>4, <1>5 DEF Relayed, Coming
  <2> QED
    BY <2>1, <2>2 DEF Relayed
<1>6. \E w \in 1..N : Relayed(w)
  <2>1. ~Early
    BY <1>1 DEF Early, Reused, Over
  <2>2. CASE proto = "h1"
    <3>1. PICK w \in 0..N : Relayed(w)
      BY <1>1, <2>1, <2>2 DEF IInv, LineH1
    <3>2. w \in 1..N
      BY <1>3, <3>1 DEF Relayed
    <3> QED
      BY <3>1, <3>2
  <2>3. CASE proto = "h2"
    BY <1>1, <2>3 DEF IInv, LineH2
  <2> QED
    BY <1>2, <2>2, <2>3 DEF Types
<1>7. fwd' \in Phase
  BY <1>4, <1>6
<1>8. held' \in Token \cup {None} /\ rest' \in Seq(Token)
  BY <1>1, <1>2, MovesOver DEF Types
<1> QED
  BY <1>1, <1>5, <1>7, <1>8, FwdKeeps

LEMMA FwdEofKeeps ==
    ASSUME IInv, FwdEof
    PROVE  IInv'
<1>1. /\ srv = "relay" /\ ~Over(fwd) /\ held = None
      /\ rest' = <<>> /\ fwd' = Step(fwd, "eof")
      /\ UNCHANGED <<proto, left, there, req, out, go, view, pieces, inbox, rd, srv, resp, pooled,
                     pipe, dec, astray, held>>
  BY Zenon DEF FwdEof, client, reading
<1>2. Types
  BY DEF IInv
<1>3. Fits(resp) /\ Size(resp) \in Nat \ {0}
  BY <1>2, Shapes, MessageIs
<1>4. (fwd' = At("whole") /\ fwd.at = "close") \/ fwd' = At("broken")
  <2>1. CASE fwd.at = "close"
    <3>1. {a \in Accepts : a[1] = fwd.at /\ a[2] = "eof"} = {<<"close", "eof", "whole">>}
      BY <2>1 DEF Accepts
    <3>2. (CHOOSE a \in {<<"close", "eof", "whole">>} : TRUE) = <<"close", "eof", "whole">>
      OBVIOUS
    <3>3. Step(fwd, "eof") = At("whole")
      BY <3>1, <3>2 DEF Step
    <3> QED
      BY <1>1, <2>1, <3>3
  <2>2. CASE fwd.at # "close"
    BY <1>1, <2>2, EofBreaks
  <2> QED
    BY <2>1, <2>2
<1>5. ASSUME NEW w \in 1..Size(resp), Relayed(w)
      PROVE  Relayed(w)'
  <2>1. fwd = Where(resp, w) /\ (w < Size(resp) \/ resp.framing = "close")
    BY <1>1, <1>2, <1>5, PassedTo
  <2>2. w \in 0..Size(resp) /\ w # 0
    BY <1>3
  <2>3. fwd.at = "close" => resp.framing = "close"
    BY <1>3, <2>1, <2>2, Way
  <2>4. Passed(w, w)'
    BY <1>1, <1>4, <2>1, <2>3 DEF Passed
  <2>5. Coming' = <<>> /\ w \in 1..Size(resp')
    BY <1>1, <1>5 DEF Relayed, Coming
  <2> QED
    BY <2>2, <2>4, <2>5 DEF Relayed
<1>6. fwd' \in Phase
  BY <1>4, BoundAssumption DEF At, Phase, Place
<1>7. held' \in Token \cup {None} /\ rest' \in Seq(Token)
  BY <1>1, <1>2 DEF Types
<1> QED
  BY <1>1, <1>5, <1>6, <1>7, FwdKeeps

LEMMA FwdIdleKeeps ==
    ASSUME IInv, FwdIdle
    PROVE  IInv'
<1>1. /\ srv = "relay" /\ ~Over(fwd) /\ held = None /\ fwd' = At("broken")
      /\ UNCHANGED <<proto, left, there, req, out, go, view, pieces, inbox, rd, srv, resp, pooled,
                     pipe, dec, astray, held, rest>>
  BY Zenon DEF FwdIdle, client, reading
<1>2. Types
  BY DEF IInv
<1>3. ASSUME NEW w \in 1..Size(resp), Relayed(w)
      PROVE  Relayed(w)'
  <2>1. w < Size(resp) \/ resp.framing = "close"
    BY <1>1, <1>2, <1>3, PassedTo
  <2>2. Passed(w, w)'
    BY <1>1, <2>1 DEF Passed
  <2>3. Coming' = <<>> /\ w \in 1..Size(resp') /\ w # 0
    BY <1>1, <1>3 DEF Relayed, Coming
  <2> QED
    BY <2>2, <2>3 DEF Relayed
<1>4. fwd' \in Phase
  BY <1>1, BoundAssumption DEF At, Phase, Place
<1>5. held' \in Token \cup {None} /\ rest' \in Seq(Token)
  BY <1>1, <1>2 DEF Types
<1> QED
  BY <1>1, <1>3, <1>4, <1>5, FwdKeeps

LEMMA FwdWriteFailsKeeps ==
    ASSUME IInv, FwdWriteFails
    PROVE  IInv'
<1>1. /\ srv = "relay" /\ held # None /\ fwd' = At("broken") /\ held' = None
      /\ UNCHANGED <<proto, left, there, req, out, go, view, pieces, inbox, rd, srv, resp, pooled,
                     pipe, dec, astray, rest>>
  BY Zenon DEF FwdWriteFails, client, reading
<1>2. Types
  BY DEF IInv
<1>3. Size(resp) \in Nat
  BY <1>2, Shapes, MessageIs
<1>4. ASSUME NEW w \in 1..Size(resp), Relayed(w)
      PROVE  Relayed(w)'
  <2>1. w + 1 \in 1..Size(resp)
    BY <1>1, <1>2, <1>4, PassedTo
  <2>2. w < Size(resp)
    BY <1>3, <2>1
  <2>3. Passed(w, w)'
    BY <1>1, <2>2 DEF Passed
  <2>4. Coming' = <<>> /\ w \in 1..Size(resp') /\ w # 0
    BY <1>1, <1>4 DEF Relayed, Coming
  <2> QED
    BY <2>3, <2>4 DEF Relayed
<1>5. fwd' \in Phase
  BY <1>1, BoundAssumption DEF At, Phase, Place
<1>6. held' \in Token \cup {None} /\ rest' \in Seq(Token)
  BY <1>1, <1>2 DEF Types
<1> QED
  BY <1>1, <1>4, <1>5, <1>6, FwdKeeps

LEMMA FwdWritesKeeps ==
    ASSUME IInv, FwdWrites
    PROVE  IInv'
<1> DEFINE N == Size(resp)
           s == Message(resp)
<1>1. /\ srv = "relay" /\ held # None /\ Len(pipe) < Room
      /\ pipe' = Append(pipe, held) /\ held' = None
      /\ UNCHANGED <<proto, left, there, req, out, go, view, pieces, inbox, rd, srv, resp, pooled,
                     dec, astray, rest, fwd>>
  BY Zenon DEF FwdWrites, client, reading
<1>2. Types
  BY DEF IInv
<1>3. Fits(resp) /\ s \in Seq(Token) /\ N = Len(s) /\ N \in Nat \ {0}
  BY <1>2, Shapes, MessageIs DEF Size
<1>4. ASSUME NEW w \in 1..N, Relayed(w)
      PROVE  w + 1 \in 1..N /\ held = s[w + 1] /\ Relayed(w + 1)'
  <2>1. /\ w + 1 \in 1..N /\ held = s[w + 1]
        /\ fwd = Where(resp, w + 1) /\ rest = Span(s, w + 1, N)
    BY <1>1, <1>2, <1>4, PassedTo
  <2>2. Passed(w + 1, w + 1)'
    BY <1>1, <2>1 DEF Passed
  <2>3. Coming' = <<>> /\ w + 1 \in 1..Size(resp') /\ w + 1 # 0
    BY <1>1, <1>3, <1>4, <2>1 DEF Relayed, Coming
  <2> QED
    BY <2>1, <2>2, <2>3 DEF Relayed
<1>5. ASSUME NEW w \in 1..N, Relayed(w), NEW v \in 0..w, NEW ph, Heard(ph, v, w)
      PROVE  /\ pipe' = Span(Message(resp'), v, w + 1)
             /\ ph = Where(resp', v) /\ pieces' = Data(resp', v)
  <2>1. pipe = Span(s, v, w) /\ ph = Where(resp, v) /\ pieces = Data(resp, v)
    BY <1>5 DEF Heard
  <2>2. held = s[w + 1] /\ w + 1 \in 1..N
    BY <1>4, <1>5
  <2>3. s \in Seq(Token) /\ v \in 0..Len(s) /\ w \in 0..Len(s) /\ v <= w /\ w < Len(s)
    BY <1>3, <2>2
  <2>4. Append(Span(s, v, w), s[w + 1]) = Span(s, v, w + 1)
    BY <2>3, LongerSpan, Zenon
  <2> QED
    BY <1>1, <2>1, <2>2, <2>4
<1>6. Types'
  <2>1. pipe' \in Seq(Token) /\ Len(pipe') <= Room
    BY <1>1, <1>2, BoundAssumption DEF Types
  <2> QED
    BY <1>1, <1>2, <2>1 DEF Types
<1>7. Incoming'
  BY <1>1 DEF Incoming
<1>8. LineH1'
  <2>1. CASE proto = "h1"
    <3>1. PICK v \in 0..N, w \in 0..N : v <= w /\ Heard(view, v, w) /\ Relayed(w)
      BY <1>1, <2>1 DEF IInv, LineH1, Early
    <3>2. w \in 1..N /\ v \in 0..w
      BY <1>3, <3>1 DEF Relayed
    <3>3. Heard(view, v, w + 1)'
      BY <1>1, <1>5, <3>1, <3>2 DEF Heard
    <3>4. Relayed(w + 1)' /\ w + 1 \in 1..N
      BY <1>4, <3>1, <3>2
    <3>5. v \in 0..Size(resp') /\ w + 1 \in 0..Size(resp') /\ v <= w + 1
      BY <1>1, <1>3, <3>2, <3>4
    <3> QED
      BY <3>3, <3>4, <3>5 DEF LineH1
  <2> QED
    BY <1>1, <2>1 DEF LineH1
<1>9. LineH2'
  <2>1. CASE proto = "h2"
    <3>1. PICK w \in 1..N : /\ Relayed(w)
                            /\ \/ Over(dec)
                               \/ view # Idle /\ \E v \in 0..w : Heard(dec, v, w)
      BY <1>1, <2>1 DEF IInv, LineH2
    <3>2. Relayed(w + 1)' /\ w + 1 \in 1..Size(resp')
      BY <1>1, <1>4, <3>1
    <3>3. /\ left' = 0 \/ (left' = 1 /\ srv' \in {"reading", "closed"} /\ Coming' = <<>> /\ view' = Idle)
          /\ CompleteIsWhole'
      BY <1>1, <2>1 DEF IInv, LineH2, Coming, CompleteIsWhole
    <3>4. (\E v \in 0..w : Heard(dec, v, w)) => (\E v \in 0..(w + 1) : Heard(dec, v, w + 1)')
      <4>1. ASSUME NEW v \in 0..w, Heard(dec, v, w)
            PROVE  v \in 0..(w + 1) /\ Heard(dec, v, w + 1)'
        <5>1. v \in 0..(w + 1)
          OBVIOUS
        <5> QED
          BY <1>1, <1>5, <3>1, <4>1, <5>1 DEF Heard
      <4> QED
        BY <4>1
    <3> QED
      BY <1>1, <3>1, <3>2, <3>3, <3>4 DEF LineH2
  <2> QED
    BY <1>1, <2>1 DEF LineH2
<1>10. ~astray' /\ pooled' = <<>>
  BY <1>1 DEF IInv
<1> QED
  BY <1>6, <1>7, <1>8, <1>9, <1>10 DEF IInv

LEMMA ServedH1Keeps ==
    ASSUME IInv, ServedH1
    PROVE  IInv'
<1>1. /\ srv = "relay" /\ proto = "h1" /\ held = None
      /\ srv' = (IF Reused THEN "reading" ELSE "closed")
      /\ pooled' = (IF Reused THEN rest ELSE <<>>)
      /\ UNCHANGED <<proto, left, there, req, out, go, view, pieces, inbox, rd, resp, rest, held, fwd,
                     pipe, dec, astray>>
  BY Zenon DEF ServedH1, FwdOver, client, reading
<1>2. Reused => rest = <<>> /\ (Coming = <<>> \/ (Early /\ Waiting))
  BY <1>1, PassedOn
<1>3. pooled' = <<>>
  BY <1>1, <1>2
<1>4. Types'
  BY <1>1 DEF IInv, Types
<1>5. Incoming'
  <2>1. CASE Reused
    <3>1. srv' = "reading"
      BY <1>1, <2>1
    <3>2. Coming' = Coming /\ Waiting' = Waiting
      BY <1>1 DEF Coming, Waiting
    <3>3. Coming = <<>> \/ (Coming = Message(req) /\ Waiting)
      BY <1>2, <2>1 DEF Early
    <3> QED
      BY <1>1, <3>1, <3>2, <3>3 DEF Incoming
  <2>2. CASE ~Reused
    BY <1>1, <2>2 DEF Incoming
  <2> QED
    BY <2>1, <2>2
<1>6. srv' # "relay"
  BY <1>1
<1>7. LineH1'
  <2>1. PICK v \in 0..Size(resp), w \in 0..Size(resp) : v <= w /\ Heard(view, v, w)
    BY <1>1 DEF IInv, LineH1
  <2>2. Heard(view, v, w)' /\ v \in 0..Size(resp') /\ w \in 0..Size(resp')
    BY <1>1, <2>1 DEF Heard
  <2> QED
    BY <1>6, <2>1, <2>2 DEF LineH1
<1>8. LineH2'
  BY <1>1 DEF LineH2
<1>9. ~astray'
  BY <1>1 DEF IInv
<1> QED
  BY <1>3, <1>4, <1>5, <1>7, <1>8, <1>9 DEF IInv

-----------------------------------------------------------------------------
(* The second task of an HTTP/2 stream.                                    *)

LEMMA ServedH2Keeps ==
    ASSUME IInv, ServedH2
    PROVE  IInv'
<1>1. /\ srv = "relay" /\ proto = "h2" /\ srv' = "closed"
      /\ pooled' = (IF Reused THEN rest ELSE <<>>)
      /\ UNCHANGED <<proto, left, there, req, out, go, view, pieces, inbox, rd, resp, rest, held, fwd,
                     pipe, dec, astray>>
  BY Zenon DEF ServedH2, client, reading
<1>2. pooled' = <<>>
  BY <1>1, PassedOn
<1>3. Types'
  BY <1>1 DEF IInv, Types
<1>4. Incoming' /\ LineH1'
  BY <1>1 DEF Incoming, LineH1
<1>5. LineH2'
  <2>1. left' = 0 /\ CompleteIsWhole'
    BY <1>1 DEF IInv, LineH2, CompleteIsWhole
  <2> QED
    BY <1>1, <2>1 DEF LineH2
<1>6. ~astray'
  BY <1>1 DEF IInv
<1> QED
  BY <1>2, <1>3, <1>4, <1>5, <1>6 DEF IInv

LEMMA H2NoHeadKeeps ==
    ASSUME IInv, H2NoHead
    PROVE  IInv'
<1>1. /\ proto = "h2" /\ srv = "upstream" /\ srv' = "closed"
      /\ view' = (IF there THEN At("502") ELSE view)
      /\ UNCHANGED <<proto, left, there, req, out, go, pieces, inbox, rd, resp, rest, held, fwd, pooled,
                     pipe, dec, astray>>
  BY Zenon DEF H2NoHead, reading, upstream
<1>2. view' = view \/ (proto = "h2" /\ srv = "upstream" /\ view' = At("502"))
  BY <1>1
<1>3. srv # "relay"
  BY <1>1
<1> QED
  BY <1>1, <1>2, <1>3, ClosingKeeps

\* The second task reads on, or it is through with the response.
LEMMA H2Keeps ==
    ASSUME IInv, proto = "h2", srv = "relay", NEW w \in 1..Size(resp), Relayed(w),
           Types', ~astray', CompleteIsWhole',
           Over(dec') \/ (view' # Idle /\ \E v \in 0..w : Heard(dec, v, w)'),
           UNCHANGED <<proto, left, req, out, inbox, srv, resp, rest, held, fwd, pooled>>
    PROVE  IInv'
<1>1. Incoming'
  BY DEF Incoming
<1>2. LineH1'
  BY DEF LineH1
<1>3. Relayed(w)' /\ w \in 1..Size(resp')
  BY DEF Relayed, Passed, Coming
<1>4. left' = 0
  BY DEF IInv, LineH2
<1>5. LineH2'
  BY <1>3, <1>4 DEF LineH2
<1>6. pooled' = <<>>
  BY DEF IInv
<1> QED
  BY <1>1, <1>2, <1>5, <1>6 DEF IInv

\* The place of a stream whose task is not through yet.
LEMMA H2Place ==
    ASSUME IInv, proto = "h2", srv = "relay", ~Over(dec)
    PROVE  /\ Fits(resp) /\ Message(resp) \in Seq(Token) /\ Size(resp) = Len(Message(resp))
           /\ Size(resp) \in Nat \ {0}
           /\ \E w \in 1..Size(resp), v \in 0..Size(resp) :
                /\ v \in 0..w /\ Relayed(w) /\ view # Idle /\ Heard(dec, v, w)
                /\ v = 0 <=> dec = At("head")
                /\ pipe # <<>> => /\ v < w /\ v + 1 \in 0..Size(resp) /\ Head(pipe) = Message(resp)[v + 1]
                                  /\ Tail(pipe) = Span(Message(resp), v + 1, w)
<1> DEFINE N == Size(resp)
           s == Message(resp)
<1>1. Fits(resp) /\ s \in Seq(Token) /\ N = Len(s) /\ N \in Nat \ {0}
  BY Shapes, MessageIs DEF IInv, Size
<1>2. PICK w \in 1..N : Relayed(w) /\ view # Idle /\ \E v \in 0..w : Heard(dec, v, w)
  BY DEF IInv, LineH2
<1>3. PICK v \in 0..w : Heard(dec, v, w)
  BY <1>2
<1>4. dec = Where(resp, v) /\ pipe = Span(s, v, w)
  BY <1>3 DEF Heard
<1>5. v \in 0..N /\ (v = 0 <=> dec = At("head"))
  <2>1. v \in 0..N
    BY <1>1
  <2> QED
    BY <1>1, <1>4, <2>1, Way
<1>6. ASSUME pipe # <<>>
      PROVE  v < w /\ v + 1 \in 0..N /\ Head(pipe) = s[v + 1] /\ Tail(pipe) = Span(s, v + 1, w)
  <2>1. s \in Seq(Token) /\ v \in 0..Len(s) /\ w \in 0..Len(s)
    BY <1>1
  <2>2. v # w
    <3>1. Span(s, v, v) = <<>>
      BY <2>1, NoSpan, Zenon
    <3> QED
      BY <1>4, <1>6, <3>1
  <2>3. v < w /\ v + 1 \in 0..N
    BY <1>1, <2>2
  <2> QED
    BY <1>4, <2>1, <2>3, NextOfSpan, Zenon
<1> QED
  BY <1>1, <1>2, <1>3, <1>5, <1>6

LEMMA H2HeadKeeps ==
    ASSUME IInv, H2Head
    PROVE  IInv'
<1> DEFINE N == Size(resp)
           s == Message(resp)
<1>1. /\ proto = "h2" /\ srv = "relay" /\ dec = At("head") /\ pipe # <<>> /\ pipe' = Tail(pipe)
      /\ dec' = (IF there THEN First(resp) ELSE At("broken"))
      /\ srv' = (IF there THEN srv ELSE "closed")
      /\ view' = (IF there THEN Ends(First(resp)) ELSE view)
      /\ UNCHANGED <<proto, left, there, req, out, go, pieces, inbox, rd, resp, rest, held, fwd, pooled, astray>>
  BY Zenon DEF H2Head, reading, upstream
<1>2. Types /\ ~Over(dec)
  BY <1>1 DEF IInv, Over, At
<1>3. Fits(resp) /\ N \in Nat \ {0}
  BY <1>1, <1>2, H2Place
<1>4. PICK w \in 1..N, v \in 0..N :
        /\ v \in 0..w /\ Relayed(w) /\ view # Idle /\ Heard(dec, v, w)
        /\ v = 0 <=> dec = At("head")
        /\ pipe # <<>> => Tail(pipe) = Span(s, v + 1, w)
  BY <1>1, <1>2, H2Place
<1>5. v = 0 /\ pieces = 0 /\ pipe' = Span(s, 1, w)
  <2>1. v = 0 /\ pieces = Data(resp, 0) /\ 0 + 1 = 1
    BY <1>1, <1>4 DEF Heard
  <2> QED
    BY <1>1, <1>3, <1>4, <2>1, WayEnds
<1>6. /\ Where(resp, 1) = First(resp) /\ Data(resp, 1) = 0 /\ First(resp).at # "broken"
      /\ First(resp) \in Phase
      /\ Over(First(resp)) => 1 = N /\ resp.framing # "close"
      /\ N = 1 /\ resp.framing # "close" => resp.pieces = 0
  <2>1. /\ Where(resp, 1) = First(resp) /\ Data(resp, 1) = 0 /\ First(resp).at # "broken"
        /\ 1 \in 0..N
    BY <1>3, WayEnds
  <2>2. Where(resp, 1) \in Phase /\ (Over(Where(resp, 1)) => 1 = N /\ resp.framing # "close")
    BY <1>3, <2>1, Way
  <2>3. N = 1 /\ resp.framing # "close" => Data(resp, 1) = resp.pieces
    BY <1>3, <2>1, Way
  <2> QED
    BY <2>1, <2>2, <2>3
<1>7. pipe' \in Seq(Token) /\ Len(pipe') <= Room
  BY <1>1, <1>2, BoundAssumption DEF Types
<1>8. ~astray'
  BY <1>1 DEF IInv
<1>9. CASE there
  <2>1. dec' = First(resp) /\ srv' = srv /\ view' = Ends(First(resp))
    BY <1>1, <1>9
  <2>2. /\ Over(First(resp)) => view' = Idle
        /\ ~Over(First(resp)) => view' = At("close") /\ view' # Idle
    BY <1>6, <2>1 DEF Over, Ends, Idle, At
  <2>3. Types'
    <3>1. Idle \in Phase /\ At("close") \in Phase
      BY BoundAssumption DEF Idle, At, Phase, Place
    <3> QED
      BY <1>1, <1>2, <1>6, <1>7, <2>1, <2>2, <3>1 DEF Types
  <2>4. CompleteIsWhole'
    BY <1>1, <1>5, <1>6, <2>2 DEF CompleteIsWhole
  <2>5. Over(dec') \/ (view' # Idle /\ \E x \in 0..w : Heard(dec, x, w)')
    <3>1. CASE Over(First(resp))
      BY <2>1, <3>1
    <3>2. CASE ~Over(First(resp))
      <4>1. Heard(dec, 1, w)'
        BY <1>1, <1>5, <1>6, <2>1 DEF Heard
      <4>2. 1 \in 0..w
        BY <1>3
      <4> QED
        BY <2>2, <3>2, <4>1, <4>2
    <3> QED
      BY <3>1, <3>2
  <2> QED
    BY <1>1, <1>4, <1>8, <2>1, <2>3, <2>4, <2>5, H2Keeps
<1>10. CASE ~there
  <2>1. dec' = At("broken") /\ srv' = "closed" /\ view' = view
    BY <1>1, <1>10
  <2>2. Types'
    <3>1. At("broken") \in Phase
      BY BoundAssumption DEF At, Phase, Place
    <3> QED
      BY <1>1, <1>2, <1>7, <2>1, <3>1 DEF Types
  <2>3. Incoming' /\ LineH1'
    BY <1>1, <2>1 DEF Incoming, LineH1
  <2>4. LineH2'
    <3>1. left' = 0
      BY <1>1 DEF IInv, LineH2
    <3>2. CompleteIsWhole'
      BY <1>4, <2>1 DEF CompleteIsWhole
    <3> QED
      BY <2>1, <3>1, <3>2 DEF LineH2
  <2>5. pooled' = <<>>
    BY <1>1 DEF IInv
  <2> QED
    BY <1>8, <2>2, <2>3, <2>4, <2>5 DEF IInv
<1> QED
  BY <1>9, <1>10

LEMMA H2ReadsKeeps ==
    ASSUME IInv, H2Reads
    PROVE  IInv'
<1> DEFINE N == Size(resp)
           s == Message(resp)
           tok == Head(pipe)
           ph == IF tok = "data" /\ ~there THEN At("broken") ELSE Step(dec, tok)
<1>1. /\ proto = "h2" /\ srv = "relay" /\ dec # At("head") /\ ~Over(dec) /\ pipe # <<>>
      /\ pipe' = Tail(pipe) /\ dec' = ph
      /\ view' = (IF there THEN Ends(ph) ELSE view)
      /\ UNCHANGED <<proto, left, there, req, out, go, inbox, rd, srv, resp, rest, held, fwd, pooled>>
  BY Zenon DEF H2Reads, Entity, reading, upstream
<1>2. /\ pieces' = IF tok = "data" /\ there THEN pieces + 1 ELSE pieces
      /\ astray' = (astray \/ (tok = "data" /\ tok # "data"))
  <2>1. pieces' = IF tok = "data" /\ there /\ tok = "data" THEN pieces + 1 ELSE pieces
    BY Zenon DEF H2Reads, Entity
  <2>2. astray' = (astray \/ (tok = "data" /\ tok # "data"))
    BY Zenon DEF H2Reads, Entity
  <2> QED
    BY <2>1, <2>2, Zenon
<1>3. Types
  BY DEF IInv
<1>4. Fits(resp) /\ s \in Seq(Token) /\ N = Len(s) /\ N \in Nat \ {0}
  BY <1>1, H2Place
<1>5. PICK w \in 1..N, v \in 0..N :
        /\ v \in 0..w /\ Relayed(w) /\ view # Idle /\ Heard(dec, v, w)
        /\ v = 0 <=> dec = At("head")
        /\ v < w /\ v + 1 \in 0..N /\ tok = s[v + 1] /\ pipe' = Span(s, v + 1, w)
  BY <1>1, H2Place
<1>6. /\ v \in 1..(N - 1) /\ v + 1 \in 0..w /\ v + 1 # 0
      /\ dec = Where(resp, v) /\ pieces = Data(resp, v)
  BY <1>1, <1>4, <1>5 DEF Heard
<1>7. /\ Step(dec, tok) = Where(resp, v + 1)
      /\ Data(resp, v) \in Nat
      /\ Data(resp, v + 1) = Data(resp, v) + (IF tok = "data" THEN 1 ELSE 0)
  BY <1>4, <1>5, <1>6, Walk
<1>8. /\ Where(resp, v + 1) \in Phase /\ Where(resp, v + 1).at # "broken"
      /\ Data(resp, v + 1) \in 0..MaxPieces
      /\ Over(Where(resp, v + 1)) => v + 1 = N /\ resp.framing # "close" /\ Data(resp, v + 1) = resp.pieces
  BY <1>4, <1>5, <1>6, Way
<1>9. pipe' \in Seq(Token) /\ Len(pipe') <= Room
  BY <1>1, <1>3, BoundAssumption DEF Types
<1>10. ~astray'
  BY <1>2 DEF IInv
<1> HIDE DEF tok
<1>11. CASE there
  <2>1. pieces' = Data(resp, v + 1)
    BY <1>2, <1>6, <1>7, <1>11
  <2>2. dec' = Where(resp, v + 1) /\ view' = Ends(Where(resp, v + 1))
    BY <1>1, <1>7, <1>11
  <2>3. /\ Over(dec') => view' = Idle
        /\ ~Over(dec') => view' = At("close") /\ view' # Idle
    BY <1>8, <2>2 DEF Over, Ends, Idle, At
  <2>4. Types'
    <3>1. Idle \in Phase /\ At("close") \in Phase
      BY BoundAssumption DEF Idle, At, Phase, Place
    <3> QED
      BY <1>1, <1>3, <1>8, <1>9, <2>1, <2>2, <2>3, <3>1 DEF Types
  <2>5. CompleteIsWhole'
    BY <1>1, <1>8, <2>1, <2>2, <2>3 DEF CompleteIsWhole
  <2>6. Over(dec') \/ (view' # Idle /\ \E x \in 0..w : Heard(dec, x, w)')
    <3>1. Heard(dec, v + 1, w)'
      BY <1>1, <1>5, <2>1, <2>2 DEF Heard
    <3> QED
      BY <1>6, <2>3, <3>1
  <2> QED
    BY <1>1, <1>5, <1>10, <2>4, <2>5, <2>6, H2Keeps
<1>12. CASE ~there
  <2>1. pieces' = pieces /\ view' = view /\ view' # Idle
    BY <1>1, <1>2, <1>5, <1>12
  <2>2. CASE tok = "data"
    <3>1. dec' = At("broken") /\ Over(dec')
      BY <1>1, <1>12, <2>2 DEF Over, At
    <3>2. Types'
      <4>1. At("broken") \in Phase
        BY BoundAssumption DEF At, Phase, Place
      <4> QED
        BY <1>1, <1>3, <1>9, <2>1, <3>1, <4>1 DEF Types
    <3>3. CompleteIsWhole'
      BY <2>1 DEF CompleteIsWhole
    <3> QED
      BY <1>1, <1>5, <1>10, <3>1, <3>2, <3>3, H2Keeps
  <2>3. CASE tok # "data"
    <3>1. dec' = Where(resp, v + 1)
      BY <1>1, <1>7, <2>3
    <3>2. pieces' = Data(resp, v + 1)
      BY <1>6, <1>7, <2>1, <2>3
    <3>3. Types'
      BY <1>1, <1>3, <1>8, <1>9, <2>1, <3>1 DEF Types
    <3>4. CompleteIsWhole'
      BY <2>1 DEF CompleteIsWhole
    <3>5. Heard(dec, v + 1, w)'
      BY <1>1, <1>5, <3>1, <3>2 DEF Heard
    <3>6. view' # Idle /\ \E x \in 0..w : Heard(dec, x, w)'
      BY <1>6, <2>1, <3>5
    <3> QED
      BY <1>1, <1>5, <1>10, <3>3, <3>4, <3>6, H2Keeps
  <2> QED
    BY <2>2, <2>3
<1> QED
  BY <1>11, <1>12

LEMMA H2StarvesKeeps ==
    ASSUME IInv, H2Starves
    PROVE  IInv'
<1> DEFINE N == Size(resp)
           ph == IF FwdOver THEN Step(dec, "eof") ELSE At("broken")
<1>1. /\ proto = "h2" /\ srv = "relay" /\ dec # At("head") /\ ~Over(dec)
      /\ dec' = ph /\ view' = (IF there THEN Ends(ph) ELSE view)
      /\ UNCHANGED <<proto, left, there, req, out, go, pieces, inbox, rd, srv, resp, rest, held, fwd, pooled,
                     pipe, astray>>
  BY Zenon DEF H2Starves, reading, upstream
<1>2. Types
  BY DEF IInv
<1>3. Fits(resp) /\ N \in Nat \ {0}
  BY <1>1, H2Place
<1>4. PICK w \in 1..N, v \in 0..N :
        /\ v \in 0..w /\ Relayed(w) /\ view # Idle /\ Heard(dec, v, w) /\ (v = 0 <=> dec = At("head"))
  BY <1>1, H2Place
<1>5. dec = Where(resp, v) /\ v # 0 /\ v \in 0..N
  BY <1>1, <1>3, <1>4 DEF Heard
<1>6. ph = At("broken") \/ (ph = At("whole") /\ resp.framing = "close")
  <2>1. CASE dec.at = "close"
    <3>1. resp.framing = "close"
      BY <1>3, <1>5, <2>1, Way
    <3>2. dec = At("close")
      BY <1>3, <1>5, <3>1, Way
    <3> QED
      BY <3>1, <3>2, StepIs
  <2>2. CASE dec.at # "close"
    BY <2>2, EofBreaks
  <2> QED
    BY <2>1, <2>2
<1> HIDE DEF ph
<1>7. Over(dec') /\ dec' \in Phase
  BY <1>1, <1>6, BoundAssumption DEF Over, At, Phase, Place
<1>8. view' = view \/ view' = At("reset") \/ (view' = Idle /\ resp.framing = "close")
  BY <1>1, <1>6 DEF Ends, At, Idle
<1>9. Types'
  <2>1. Idle \in Phase
    BY BoundAssumption DEF Idle, At, Phase, Place
  <2> QED
    BY <1>1, <1>2, <1>7, <1>8, <2>1 DEF Types
<1>10. CompleteIsWhole'
  <2>1. At("reset") # Idle
    BY DEF At, Idle
  <2> QED
    BY <1>1, <1>4, <1>8, <2>1 DEF CompleteIsWhole
<1>11. ~astray'
  BY <1>1 DEF IInv
<1> QED
  BY <1>1, <1>4, <1>7, <1>9, <1>10, <1>11, H2Keeps

-----------------------------------------------------------------------------
(* The theorems.                                                           *)

LEMMA InitInv ==
    ASSUME Init
    PROVE  IInv
<1>1. /\ proto \in {"h1", "h2"} /\ left = (IF proto = "h1" THEN Requests ELSE 1) /\ there = TRUE
      /\ req = [framing |-> "none", pieces |-> 0, trailer |-> FALSE, keep |-> TRUE, expect |-> FALSE]
      /\ out = <<>> /\ inbox = <<>> /\ go = TRUE /\ srv = "reading" /\ rd = Idle
      /\ resp = NoShape /\ rest = <<>> /\ held = None /\ fwd = Idle
      /\ pipe = <<>> /\ dec = Idle /\ view = Idle /\ pieces = 0 /\ pooled = <<>> /\ astray = FALSE
  BY DEF Init
<1>2. 0 \in 0..MaxPieces /\ Idle \in Phase /\ left \in 0..Requests
  BY <1>1, BoundAssumption DEF Idle, At, Phase, Place
<1>3. NoShape \in Shape /\ Sensible(NoShape)
  BY <1>2 DEF NoShape, Shape, Sensible
<1>4. req \in RequestShape /\ Sensible(req)
  BY <1>1, <1>2 DEF RequestShape, Sensible
<1>5. Types
  <2>1. <<>> \in Seq(Token) /\ Len(<<>>) <= Room
    BY BoundAssumption
  <2> QED
    BY <1>1, <1>2, <1>3, <1>4, <2>1 DEF Types
<1>6. Coming = <<>>
  BY <1>1 DEF Coming
<1>7. Incoming
  BY <1>1, <1>6 DEF Incoming
<1>8. LineH1
  <2>1. Fits(NoShape) /\ NoShape.framing = "none"
    BY <1>1, <1>5, Shapes DEF NoShape
  <2>2. Size(NoShape) = 1 /\ 1 \in 0..Size(NoShape)
    BY <2>1, BodyIs, MessageIs
  <2>3. Where(NoShape, 1) = Idle /\ Data(NoShape, 1) = 0
    BY <2>1, <2>2, WayEnds DEF Idle
  <2>4. Span(Message(NoShape), 1, 1) = <<>>
    <3>1. Message(NoShape) \in Seq(Token) /\ 1 \in 0..Len(Message(NoShape))
      BY <2>1, <2>2, MessageIs DEF Size
    <3> QED
      BY <3>1, NoSpan, Zenon
  <2>5. Heard(view, 1, 1) /\ 1 \in 0..Size(resp) /\ 1 <= 1
    BY <1>1, <2>2, <2>3, <2>4 DEF Heard
  <2> QED
    BY <1>1, <2>5 DEF LineH1
<1>9. LineH2
  <2>1. CompleteIsWhole
    BY <1>1 DEF CompleteIsWhole, NoShape
  <2> QED
    BY <1>1, <1>6, <2>1 DEF LineH2
<1> QED
  BY <1>1, <1>5, <1>7, <1>8, <1>9 DEF IInv

LEMMA NextInv ==
    ASSUME IInv, [Next]_vars
    PROVE  IInv'
<1>6. CASE ClientStalls \/ ClientGrants \/ UNCHANGED vars
  <2>1. UNCHANGED <<proto, left, there, req, out, go, view, pieces, inbox, rd, srv, resp, rest, held, fwd,
                    pipe, dec, pooled, astray>>
    BY <1>6 DEF ClientStalls, ClientGrants, reading, upstream, vars
  <2>2. Types'
    BY <2>1 DEF IInv, Types
  <2>3. Incoming'
    BY <2>1 DEF IInv, Incoming, Coming, Waiting
  <2>4. LineH1'
    BY <2>1 DEF IInv, LineH1, Heard, Relayed, Passed, Early, Coming, Reused
  <2>5. LineH2'
    BY <2>1 DEF IInv, LineH2, Heard, Relayed, Passed, Coming, CompleteIsWhole
  <2> QED
    BY <2>1, <2>2, <2>3, <2>4, <2>5 DEF IInv
<1>1. CASE Client
  BY <1>1, <1>6, ClientBeginsKeeps, ClientSendsKeeps, ClientReadsKeeps, ClientSeesEndKeeps, ClientLeavesKeeps
     DEF Client
<1>2. CASE Read
  BY <1>2, ReadHeadKeeps, ReadBodyKeeps, ReadFailsKeeps DEF Read
<1>3. CASE Upstream
  BY <1>3, AnswersKeeps, AnswerLostKeeps DEF Upstream
<1>4. CASE Forward
  BY <1>4, FwdReadsKeeps, FwdEofKeeps, FwdIdleKeeps, FwdWritesKeeps, FwdWriteFailsKeeps, ServedH1Keeps
     DEF Forward
<1>5. CASE H2
  BY <1>5, H2NoHeadKeeps, H2HeadKeeps, H2ReadsKeeps, H2StarvesKeeps, ServedH2Keeps DEF H2
<1>7. Done => UNCHANGED vars
  BY DEF Done
<1> QED
  BY <1>1, <1>2, <1>3, <1>4, <1>5, <1>6, <1>7 DEF Next

LEMMA Inductive == Spec => []IInv
<1>1. Init => IInv
  BY InitInv
<1>2. IInv /\ [Next]_vars => IInv'
  BY NextInv
<1> QED
  BY <1>1, <1>2, PTL DEF Spec

\* Whether somebody went astray, the client has stalled or has window left is a
\* yes or a no.
Noted == astray \in BOOLEAN /\ stalled \in BOOLEAN /\ window \in BOOLEAN

LEMMA NotedOnly == Spec => []Noted
<1>1. Init => Noted
  BY DEF Init, Noted
<1>2. Noted /\ [Next]_vars => Noted'
  <2> SUFFICES ASSUME Noted, [Next]_vars
               PROVE  Noted'
    OBVIOUS
  <2>1. astray' = astray \/ astray' \in BOOLEAN
    BY DEF Next, vars, Client, ClientBegins, ClientSends, ClientReads, ClientSeesEnd, ClientLeaves,
           ClientStalls, ClientGrants, Read, ReadHead, ReadBody, ReadFails, Upstream, Answers, AnswerLost,
           Forward, FwdReads, FwdEof, FwdIdle, FwdWrites, FwdWriteFails, ServedH1,
           H2, H2NoHead, H2Head, H2Reads, H2Starves, ServedH2, Done
  <2>2. /\ stalled' = stalled \/ stalled' = TRUE
        /\ window' = window \/ window' \in BOOLEAN
    BY DEF Next, vars, client, Client, ClientBegins, ClientSends, ClientReads, ClientSeesEnd, ClientLeaves,
           ClientStalls, ClientGrants, Read, ReadHead, ReadBody, ReadFails, Upstream, Answers, AnswerLost,
           Forward, FwdReads, FwdEof, FwdIdle, FwdWrites, FwdWriteFails, ServedH1,
           H2, H2NoHead, H2Head, H2Reads, H2Starves, ServedH2, Done
  <2> QED
    BY <2>1, <2>2 DEF Noted
<1> QED
  BY <1>1, <1>2, PTL DEF Spec

\* Neither side ever meets a token that cannot stand there: the next request
\* starts where the last one ended, nothing follows a response that broke off,
\* and an HTTP/2 client gets nothing of the chunked framing.
THEOREM NeverAstray == Spec => []Aligned
<1>1. IInv /\ Noted => Aligned
  <2> SUFFICES ASSUME IInv, Noted
               PROVE  Aligned
    OBVIOUS
  <2>1. Types /\ pooled = <<>> /\ ~astray
    BY DEF IInv
  <2>2. ASSUME NEW s \in Seq(Token)
        PROVE  ToSet(s) \in SUBSET Token
    BY DEF ToSet
  <2>3. out \in Seq(Token) /\ inbox \in Seq(Token) /\ rest \in Seq(Token) /\ pipe \in Seq(Token)
        /\ pooled \in Seq(Token)
    BY <2>1 DEF Types
  <2>4. {ToSet(s) : s \in {out, inbox, rest, pipe, pooled}} \subseteq SUBSET Token
    BY <2>2, <2>3
  <2>5. TypeOK
    BY <2>1, <2>4 DEF Types, TypeOK, Noted
  <2> QED
    BY <2>1, <2>5 DEF Aligned
<1> QED
  BY <1>1, Inductive, NotedOnly, PTL

\* A client that is told its response is complete has all of it.
THEOREM NothingCutShort == Spec => []CompleteIsWhole
<1>1. IInv => CompleteIsWhole
  <2> SUFFICES ASSUME IInv
               PROVE  CompleteIsWhole
    OBVIOUS
  <2>1. CASE proto = "h2"
    BY <2>1 DEF IInv, LineH2
  <2>2. CASE proto = "h1"
    <3> SUFFICES ASSUME view = Idle, resp.framing # "close"
                 PROVE  pieces = resp.pieces
      BY DEF CompleteIsWhole
    <3>1. view # At("broken")
      BY DEF Idle, At
    <3>2. PICK v \in 0..Size(resp) : view = Where(resp, v) /\ pieces = Data(resp, v)
      BY <2>2, <3>1 DEF IInv, LineH1, Heard
    <3>3. Fits(resp) /\ Over(view)
      BY Shapes DEF IInv, Idle, At, Over
    <3>4. v = Size(resp)
      BY <3>2, <3>3, Way
    <3> QED
      BY <3>2, <3>3, <3>4, Way
  <2> QED
    BY <2>1, <2>2 DEF IInv, Types
<1> QED
  BY <1>1, Inductive, PTL

\* A connection is pooled with nothing of its response unread.
THEOREM PooledClean == Spec => []PooledIsEmpty
<1>1. IInv => PooledIsEmpty
  BY DEF IInv, PooledIsEmpty
<1> QED
  BY <1>1, Inductive, PTL
=============================================================================
