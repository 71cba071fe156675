---------------------------- MODULE AgentHandshake ----------------------------
(***************************************************************************)
(* The handshake with a second-level agent (core/src/agent.rs): HTTP       *)
(* CONNECT, SOCKS4 or SOCKS5.  The connection is a tunnel to the target    *)
(* right behind the agent's answer, so the proxy has to read the answer to *)
(* its last byte and no byte further.                                      *)
(*                                                                         *)
(* A SOCKS answer is a sequence of bytes, of which only those that decide  *)
(* something have a name of their own; an HTTP answer is a sequence of     *)
(* lines, since read_http_head reads up to the empty one.                  *)
(***************************************************************************)
EXTENDS Naturals, Sequences, SequencesExt

Filler(n) == [i \in 1..n |-> "any"]

\* The length byte of a bound name: the shortest and another.
NameLength == [zero |-> 0, three |-> 3]

Open == [at |-> "open", need |-> 0]
Failed == [at |-> "failed", need |-> 0]
Await(at, n) == [at |-> at, need |-> n]

\* Each phase, with the bytes its read_exact asks for.
HandshakePhase ==
    {Open, Failed, Await("line", 1), Await("head", 1), Await("socks4", 8), Await("greeting", 2),
     Await("auth", 2), Await("reply", 4), Await("length", 1)}
    \cup {Await("bound", n + 2) : n \in {4, 16, 0, 3}}

Byte == {"any", "v5", "v1", "v4", "0x00", "0x02", "0xFF", "0x5A", "0x5B", "atyp 1", "atyp 3", "atyp 4",
         "atyp ?", "200", "403", "header", "blank"} \cup DOMAIN NameLength

\* handshake: the request is written, then this is awaited.
Greeted(agent) == CASE agent = "http" -> Await("line", 1)
                    [] agent = "socks4" -> Await("socks4", 8)
                    [] OTHER -> Await("greeting", 2)

-----------------------------------------------------------------------------
(* What the answers lead to. *)

\* connect_http and read_http_head.
HttpLine(line) == CASE line = "200" -> Await("head", 1)
                    [] OTHER -> Failed

HttpHead(line) == IF line = "blank" THEN Open ELSE Await("head", 1)

\* connect_socks4: eight bytes, the reply code is the second.
Socks4(b) == IF b[2] = "0x5A" THEN Open ELSE Failed

\* The method the agent has chosen; the credentials are asked for.
Greeting(b, credentials) ==
    CASE b[1] # "v5" -> Failed
      [] b[1] = "v5" /\ b[2] = "0x00" -> Await("reply", 4)
      [] b[1] = "v5" /\ b[2] = "0x02" /\ credentials -> Await("auth", 2)
      [] OTHER -> Failed

Auth(b) == IF b[1] = "v1" /\ b[2] = "0x00" THEN Await("reply", 4) ELSE Failed

\* Mutant: the reply is taken to have ten bytes, as the original program does.
ReplyFixed(b) == IF b[1] = "v5" /\ b[2] = "0x00" THEN Await("bound", 6) ELSE Failed

\* The reply, whose address type says how much of it is still to come.
Reply(b) ==
    IF b[1] # "v5" \/ b[2] # "0x00" THEN Failed
    ELSE CASE b[4] = "atyp 1" -> Await("bound", 6)
           [] b[4] = "atyp 4" -> Await("bound", 18)
           [] b[4] = "atyp 3" -> Await("length", 1)
           [] OTHER -> Failed

\* The phase behind the bytes b, read in phase ph.
Continue(ph, b, credentials) ==
    CASE ph.at = "line" -> HttpLine(b[1])
      [] ph.at = "head" -> HttpHead(b[1])
      [] ph.at = "socks4" -> Socks4(b)
      [] ph.at = "greeting" -> Greeting(b, credentials)
      [] ph.at = "auth" -> Auth(b)
      [] ph.at = "reply" -> Reply(b)
      [] ph.at = "length" -> Await("bound", NameLength[b[1]] + 2)
      [] OTHER -> Open

-----------------------------------------------------------------------------
(* The agent: what it may send when it is asked, and what of it opens the  *)
(* tunnel.                                                                 *)

\* SOCKS4 and SOCKS5 replies, up to what is always there.
Reply4(code) == <<"any", code>>
Reply5(code, atyp) == <<"v5", code, "any", atyp>>

Bound == {Reply5("0x00", "atyp 1") \o Filler(6), Reply5("0x00", "atyp 4") \o Filler(18)}
         \cup {Reply5("0x00", "atyp 3") \o (<<l>> \o Filler(NameLength[l] + 2)) : l \in DOMAIN NameLength}

Opening(at) ==
    CASE at = "line" -> {<<"200", "header", "blank">>, <<"200", "blank">>}
      [] at = "socks4" -> {Reply4("0x5A") \o Filler(6)}
      [] at = "reply" -> Bound
      [] OTHER -> {}

Asking(at) ==
    CASE at = "greeting" -> {<<"v5", "0x00">>, <<"v5", "0x02">>}
      [] at = "auth" -> {<<"v1", "0x00">>}
      [] OTHER -> {}

Refusing(at) ==
    CASE at = "line" -> {<<"403", "header", "blank">>}
      [] at = "socks4" -> {Reply4("0x5B") \o Filler(6)}
      [] at = "greeting" -> {<<"v5", "0xFF">>, <<"v4", "0x00">>}
      [] at = "auth" -> {<<"v1", "0xFF">>}
      [] at = "reply" -> {Reply5("0x5B", "atyp 1") \o Filler(6),
                          Reply5("0x00", "atyp ?")}
      [] OTHER -> {}
=============================================================================
