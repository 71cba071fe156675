------------------------------- MODULE Tunnel -------------------------------
(***************************************************************************)
(* One connection to the forward proxy, or to the 443 listener that relays *)
(* bare (core/src/fwd.rs): the request is read and dispatched, the target  *)
(* resolved and dialled leg after leg, directly or through a second-level  *)
(* agent, and the two sockets are handed to the relay.                     *)
(*                                                                         *)
(* The settings are copied when the connection starts to use them, so they *)
(* are constant for it.  Durations are left out: a time-out is a failure   *)
(* at any time.                                                            *)
(***************************************************************************)
EXTENDS AgentHandshake, Relay, Selection

CONSTANTS
    Payload,     \* bound: what the far end sends, a sequence
    Upload,      \* bound: what a client sends behind its first bytes, a sequence
    Configured,  \* the manifest's addresses of the host
    AliasIps,    \* what B's own resolver may answer for the alias
    HostIps,     \* and for the host
    SystemIps,   \* what the system resolver may answer for the host
    AgentIps,    \* the addresses the agent's host may have
    Loopback,
    Seen         \* bound: the settings that are enumerated

VARIABLES
    site,      \* what the manifest says of the host, and its form
    cfg,       \* the settings, and whether TLS may be decrypted here
    entry,     \* which way the connection came in
    pc,
    leg,       \* which list of addresses is being dialled
    todo,      \* what is left of it
    phase,     \* the handshake with the agent
    opens,     \* history: whether the agent has opened the tunnel
    spoke,     \* how many items of Upload and Payload have been sent
    answers,   \* the answers written to the client
    judged,    \* system_ips: what the pollution guard has let pass
    given,     \* history: the addresses of every list dialled so far
    dialled    \* history: the addresses dialled so far

target == <<site, cfg, entry>>
dial == <<leg, todo, judged, given, dialled>>
vars == <<relay, site, cfg, entry, pc, leg, todo, phase, opens,
          spoke, answers, judged, given, dialled>>

\* The patterns of ForwardDestination and IPAddress are acceleration domains as
\* well, unless they are the target of another one's alias: start takes those
\* out of the domains, so a host may have an alias or configured addresses
\* without being accelerated.
Sites == {s \in [accelerated : BOOLEAN, alias : BOOLEAN, conf : BOOLEAN,
                 form : {"domain", "dotless", "literal"}] :
             s.accelerated \/ s.alias \/ s.conf => s.form = "domain"}
Agents == {"off", "http", "socks4", "socks5", "socks5 user"}
Settings == [script : BOOLEAN, https : BOOLEAN, agent : Agents, mitm : BOOLEAN]

ASSUME SeenAssumption == Seen \subseteq Settings

Lists == {Configured} \cup AliasIps \cup HostIps \cup SystemIps \cup AgentIps
ASSUME ListAssumption == \A s \in Lists \cup {Payload, Upload} : s \in Seq(ToSet(s))

\* What dial_tunnel_upstream and handle_http keep in locals.
NoSite == [accelerated |-> FALSE, alias |-> FALSE, conf |-> FALSE, form |-> "literal"]
NoSettings == [script |-> FALSE, https |-> FALSE, agent |-> "off", mitm |-> FALSE]

Ips == UNION {ToSet(s) : s \in Lists}
First == {"hello", "text", "byte"}

TypeOK ==
    /\ RelayTypeOK(Byte \cup First \cup ToSet(Payload) \cup ToSet(Upload))
    /\ site \in Sites /\ cfg \in Settings
    /\ entry \in {"none", "connect", "steered", "http", "https"}
    /\ pc \in {"head", "peek", "sni", "resolve", "dial", "handshake", "exchange", "relay", "handed", "closed"}
    /\ leg \in {"none", "first", "own", "name", "judged"}
    /\ ToSet(todo) \cup ToSet(judged) \cup given \cup dialled \subseteq Ips
    /\ phase \in HandshakePhase /\ opens \in BOOLEAN
    /\ spoke \in [Side -> Nat]
    /\ ToSet(answers) \subseteq {"200", "302", "400", "500", "502", "pac", "response"}

Init ==
    /\ RelayInit
    /\ site \in Sites /\ cfg \in Seen
    /\ entry = "none" /\ pc = "head" /\ leg = "none"
    /\ todo = <<>> /\ judged = <<>> /\ given = {} /\ dialled = {}
    /\ phase = Open /\ opens = FALSE /\ answers = <<>>
    /\ spoke = [s \in Side |-> 0]

-----------------------------------------------------------------------------
(* What the manifest and the settings say of the target. *)

ViaAgent == cfg.agent # "off"
Plain == entry \in {"http", "https"}

\* manifest_forward_for and manifest_ips_for; a plain request is not aliased.
Aliased == site.alias /\ ~cfg.script /\ entry \in {"connect", "steered"}
Manifest == IF site.conf /\ ~cfg.script THEN Configured ELSE <<>>

\* B's own resolver is asked for an accelerated host or its alias.  For another
\* host a plain request still has the configured addresses, a tunnel has none.
Resolves == site.accelerated \/ Aliased
Known == IF Plain THEN Manifest ELSE <<>>
Unknown == ~Resolves /\ Known = <<>>

\* candidate_endpoints: what the manifest says first, nothing twice; one list
\* is taken to name no address twice.
Candidates(first, ips) == first \o Without(ips, ToSet(first))

-----------------------------------------------------------------------------
(* The head of the request. *)

\* Both sockets are dropped.
Hangup ==
    /\ pc' = "closed"
    /\ src' = [s \in Side |-> <<>>] /\ held' = [s \in Side |-> <<>>]
    /\ fin' = [s \in Side |-> TRUE]
    /\ UNCHANGED <<ends, sink, got, pump, permit>>

Answered(status) == answers' = Append(answers, status)

\* No request, whole or at all.
ReadNothing ==
    /\ pc = "head" /\ Hangup
    /\ UNCHANGED <<target, dial, phase, opens, spoke, answers>>

\* Every target that is no absolute URI is answered with the PAC file, and so
\* is an absolute one of the PAC endpoint.
ServePac ==
    /\ pc = "head" /\ Answered("pac") /\ Hangup
    /\ UNCHANGED <<target, dial, phase, opens, spoke>>

BadTarget ==
    /\ pc = "head" /\ Answered("400") /\ Hangup
    /\ UNCHANGED <<target, dial, phase, opens, spoke>>

\* CONNECT is answered before anything is dialled.
Connect ==
    /\ pc = "head" /\ Answered("200")
    /\ entry' = "connect" /\ pc' = "peek"
    /\ UNCHANGED <<relay, site, cfg, dial, phase, opens, spoke>>

\* A connection that the DNS hook has steered here has no request.
Steered ==
    /\ pc = "head" /\ ~cfg.mitm
    /\ entry' = "steered" /\ pc' = "sni"
    /\ UNCHANGED <<relay, site, cfg, dial, phase, opens, spoke, answers>>

Absolute(scheme) ==
    /\ pc = "head"
    /\ entry' = scheme
    /\ IF scheme = "http" /\ cfg.https /\ site.accelerated
       THEN Answered("302") /\ Hangup
       ELSE pc' = "resolve" /\ UNCHANGED <<relay, answers>>
    /\ UNCHANGED <<site, cfg, dial, phase, opens, spoke>>

\* peek_client_head waits for two bytes, or for a socket without any.
Head2 == Len(src[Client]) >= 2 \/ (src[Client] # <<>> /\ Head(src[Client]) # "byte")
NoHead == ends[Client] = "error" \/ (src[Client] = <<>> /\ ends[Client] = "eof")

\* Mutant: the bytes that were looked at are gone.
PeekedTaken == src' = [src EXCEPT ![Client] = IF @ = <<>> THEN @ ELSE Tail(@)]

\* peek leaves the bytes in the socket.
Peeked == src' = src

PeekHead ==
    /\ pc = "peek" /\ (Head2 \/ NoHead)
    /\ pc' = IF Head2 /\ Head(src[Client]) = "hello" /\ cfg.mitm THEN "handed" ELSE "resolve"
    /\ Peeked
    /\ UNCHANGED <<ends, sink, got, fin, pumps, target, dial, phase, opens, spoke, answers>>

PeekSni ==
    /\ pc = "sni" /\ src[Client] # <<>> /\ Head(src[Client]) = "hello"
    /\ pc' = "resolve"
    /\ Peeked
    /\ UNCHANGED <<ends, sink, got, fin, pumps, target, dial, phase, opens, spoke, answers>>

\* No ClientHello, none with a name, or not within CONNECT_TIMEOUT.
NoSni ==
    /\ pc = "sni" /\ Hangup
    /\ UNCHANGED <<target, dial, phase, opens, spoke, answers>>

-----------------------------------------------------------------------------
(* The legs. *)

\* A list to be dialled; with an agent, its addresses stand in for any list.
Dials(l, ips) ==
    /\ leg' = l
    /\ \E g \in IF ViaAgent THEN AgentIps ELSE {ips} :
        /\ todo' = g
        /\ given' = given \cup ToSet(g)
    /\ pc' = "dial"
    /\ UNCHANGED <<target, phase, opens, spoke, dialled>>

\* is_dns_poisoned: no address, or a loopback address at the head.
Poisoned(ips) == IF ips = <<>> THEN TRUE ELSE Head(ips) = Loopback

Resolve ==
    /\ pc = "resolve" /\ Resolves
    /\ \E ips \in IF Aliased THEN AliasIps ELSE HostIps :
           Dials("first", Candidates(Manifest, ips))
    /\ UNCHANGED <<relay, answers, judged>>

\* Of a host that is not known the answer of the system resolver for the name
\* of a plain request is judged before anything is dialled.
Guarded == Plain /\ Unknown /\ site.form = "domain" /\ ~cfg.script
Guard ==
    /\ pc = "resolve" /\ ~Resolves
    /\ \/ /\ ~Guarded
          /\ Dials("first", Known)
          /\ UNCHANGED <<relay, answers, judged>>
       \/ /\ Guarded
          /\ \E ips \in {i \in SystemIps : ~Poisoned(i)} : judged' = ips
          /\ Dials("first", Known)
          /\ UNCHANGED <<relay, answers>>
       \/ /\ Guarded /\ \E ips \in SystemIps : Poisoned(ips)
          /\ Answered("500") /\ Hangup
          /\ UNCHANGED <<target, dial, phase, opens, spoke>>

OwnLeg == leg = "first" /\ Aliased /\ site.accelerated

\* Mutant: any host is dialled by name when its addresses have failed.
NameLegAny == leg = "first" /\ ~OwnLeg /\ ~ViaAgent

NameLeg == leg = "first" /\ Unknown /\ ~ViaAgent

\* The alias has failed: the addresses of the host itself.
DialOwn ==
    /\ pc = "dial" /\ todo = <<>> /\ OwnLeg
    /\ \E ips \in HostIps : Dials("own", Without(ips, given))
    /\ UNCHANGED <<relay, answers, judged>>

\* Mutant: the system resolver is asked a second time.
DialByNameAgain ==
    /\ pc = "dial" /\ todo = <<>> /\ NameLeg
    /\ \E ips \in SystemIps : Dials("name", ips)
    /\ UNCHANGED <<relay, answers, judged>>

\* The manifest does not know the host: the addresses the guard has judged, or
\* what the system resolver says if there was nothing to judge.
DialByName ==
    /\ pc = "dial" /\ todo = <<>> /\ NameLeg
    /\ IF judged # <<>> THEN Dials("judged", judged)
       ELSE \E ips \in SystemIps : Dials("name", ips)
    /\ UNCHANGED <<relay, answers, judged>>

\* Nothing is left to dial.
DialSpent ==
    /\ pc = "dial" /\ todo = <<>> /\ ~OwnLeg /\ ~NameLeg
    /\ IF Plain THEN Answered("502") ELSE UNCHANGED answers
    /\ Hangup
    /\ UNCHANGED <<target, dial, phase, opens, spoke>>

-----------------------------------------------------------------------------
(* One address. *)

\* There is a connection to the target, on which the far end has sent rest.
\* The dial functions return, and what they kept for dialling is gone.
Established(rest) ==
    /\ pc' = IF Plain THEN "exchange" ELSE "relay"
    /\ pump' = IF Plain THEN pump ELSE [s \in Side |-> "read"]
    /\ src' = [src EXCEPT ![Upstream] = rest]
    /\ site' = NoSite /\ cfg' = NoSettings
    /\ leg' = "none" /\ todo' = <<>> /\ judged' = <<>> /\ given' = {} /\ dialled' = {}
    /\ phase' = Open /\ opens' = FALSE
    /\ UNCHANGED <<entry, answers, spoke, ends, sink, got, fin, held, permit>>

\* Mutant: one time-out for all the addresses of any leg.
DialFailsAtOnce ==
    /\ pc = "dial" /\ todo # <<>>
    /\ dialled' = dialled \cup {Head(todo)}
    /\ todo' \in {Tail(todo), <<>>}
    /\ UNCHANGED <<relay, target, pc, leg, judged, given, phase, opens, spoke, answers>>

\* dial_by_name has one time-out for all the addresses of the name.
DialFails ==
    /\ pc = "dial" /\ todo # <<>>
    /\ dialled' = dialled \cup {Head(todo)}
    /\ todo' \in {Tail(todo)} \cup (IF leg = "name" THEN {<<>>} ELSE {})
    /\ UNCHANGED <<relay, target, pc, leg, judged, given, phase, opens, spoke, answers>>

DialOk ==
    /\ pc = "dial" /\ todo # <<>> /\ ~ViaAgent
    /\ Established(<<>>)

\* The agent is there, and has been sent the first message of its protocol.
AgentReached ==
    /\ pc = "dial" /\ todo # <<>> /\ ViaAgent
    /\ pc' = "handshake"
    /\ phase' = Greeted(cfg.agent)
    /\ dialled' = dialled \cup {Head(todo)}
    /\ todo' = Tail(todo)
    /\ UNCHANGED <<relay, target, leg, judged, given, opens, spoke, answers>>

\* The agent answers what it was sent; what follows an answer that opens the
\* tunnel is what the far end sends.
AgentAnswers ==
    /\ pc = "handshake" /\ src[Upstream] = <<>> /\ ends[Upstream] = "open" /\ ~opens
    /\ \/ \E b \in Opening(phase.at), n \in {m \in 0..1 : m <= Len(Payload)} :
            /\ src' = [src EXCEPT ![Upstream] = b \o SubSeq(Payload, 1, n)]
            /\ opens' = TRUE
            /\ spoke' = [spoke EXCEPT ![Upstream] = n]
       \/ \E b \in Asking(phase.at) \cup Refusing(phase.at) :
            /\ src' = [src EXCEPT ![Upstream] = b]
            /\ UNCHANGED <<opens, spoke>>
    /\ UNCHANGED <<ends, sink, got, fin, pumps, target, pc, dial, phase, answers>>

\* The next read of the handshake, and what is written behind it.
AgentReads ==
    /\ pc = "handshake" /\ phase # Failed /\ Len(src[Upstream]) >= phase.need
    /\ LET b == SubSeq(src[Upstream], 1, phase.need)
           next == Continue(phase, b, cfg.agent = "socks5 user")
           rest == SubSeq(src[Upstream], phase.need + 1, Len(src[Upstream]))
       IN IF next = Open THEN Established(rest)
          ELSE /\ phase' = next
               /\ src' = [src EXCEPT ![Upstream] = rest]
               /\ UNCHANGED <<ends, sink, got, fin, pumps, target, pc, dial, opens, spoke, answers>>

\* A refusal, a broken protocol, a connection that ends, or the time-out.
AgentFails ==
    /\ pc = "handshake"
    /\ pc' = "dial" /\ phase' = Open /\ opens' = FALSE
    /\ src' = [src EXCEPT ![Upstream] = <<>>]
    /\ ends' = [ends EXCEPT ![Upstream] = "open"]
    /\ spoke' = [spoke EXCEPT ![Upstream] = 0]
    /\ UNCHANGED <<sink, got, fin, pumps, target, dial, answers>>

-----------------------------------------------------------------------------
(* The request of a plain client, and the relay of a tunnel. *)

\* The request cannot be written, or the response is relayed to its end or to
\* where either side breaks off; module ClientConnection has the details.
Exchange ==
    /\ pc = "exchange"
    /\ \/ Answered("response") \/ Answered("502") \/ UNCHANGED answers
    /\ Hangup
    /\ UNCHANGED <<target, dial, phase, opens, spoke>>

Relaying(s) ==
    /\ pc = "relay" /\ Pump(s)
    /\ UNCHANGED <<target, pc, dial, phase, opens, spoke, answers>>

RelayOver ==
    /\ pc = "relay" /\ Joined
    /\ Hangup
    /\ UNCHANGED <<target, dial, phase, opens, spoke, answers>>

-----------------------------------------------------------------------------
(* The two peers. *)

others == <<target, pc, dial, phase, opens, answers>>

\* The sockets somebody watches.  Nobody looks at the client's while the target
\* is dialled, so what the client does then is put off until the relay.
Connected(s) == \/ s = Client /\ pc \in {"peek", "sni", "relay"}
                \/ s = Upstream /\ pc \in {"handshake", "relay"}

ClientSpeaks ==
    /\ Connected(Client)
    /\ ends[Client] = "open" /\ spoke[Client] <= Len(Upload)
    /\ \E t \in IF spoke[Client] = 0 THEN First ELSE {Upload[spoke[Client]]} :
           src' = [src EXCEPT ![Client] = Append(@, t)]
    /\ spoke' = [spoke EXCEPT ![Client] = @ + 1]
    /\ UNCHANGED <<ends, sink, got, fin, pumps, others>>

UpstreamSpeaks ==
    /\ pc = "relay"
    /\ ends[Upstream] = "open" /\ spoke[Upstream] < Len(Payload)
    /\ src' = [src EXCEPT ![Upstream] = Append(@, Payload[spoke[Upstream] + 1])]
    /\ spoke' = [spoke EXCEPT ![Upstream] = @ + 1]
    /\ UNCHANGED <<ends, sink, got, fin, pumps, others>>


Ends(s) == Connected(s) /\ PeerEnds(s) /\ UNCHANGED <<others, spoke>>
Breaks(s) == Connected(s) /\ PeerBreaks(s) /\ UNCHANGED <<others, spoke>>
Takes(s) == pc \in {"relay", "closed"} /\ PeerTakes(s) /\ UNCHANGED <<others, spoke>>

\* Nothing more is done here.
Done ==
    /\ pc \in {"handed", "closed"}
    /\ UNCHANGED vars

-----------------------------------------------------------------------------
Request ==
    \/ ReadNothing \/ ServePac \/ BadTarget \/ Connect \/ Steered
    \/ \E scheme \in {"http", "https"} : Absolute(scheme)

Step ==
    \/ PeekHead \/ PeekSni \/ NoSni
    \/ Resolve \/ Guard \/ DialOwn \/ DialByName \/ DialSpent
    \/ DialFails \/ DialOk \/ AgentReached \/ AgentReads \/ AgentFails
    \/ Exchange \/ RelayOver

Next ==
    \/ Request \/ Step
    \/ \E s \in Side : Relaying(s) \/ Ends(s) \/ Breaks(s) \/ Takes(s)
    \/ AgentAnswers \/ ClientSpeaks \/ UpstreamSpeaks
    \/ Done

\* The proxy's tasks are scheduled, and every wait of theirs that has a
\* time-out ends; nothing is asked of the two peers.
Spec == Init /\ [][Next]_vars /\ WF_vars(Step) /\ \A s \in Side : WF_vars(Relaying(s))

-----------------------------------------------------------------------------
(* Properties. *)

\* A host that is accelerated or has an alias is never dialled at an address of
\* the system resolver, which the DNS hook may have answered; with an agent nothing is dialled but
\* the agent (dial_upstream and the gates of dial_by_name).
DialsOnlyItsOwn ==
    pc = "dial" =>
        /\ ViaAgent => \E g \in AgentIps : ToSet(todo) \subseteq ToSet(g)
        /\ Resolves /\ ~ViaAgent =>
               ToSet(todo) \subseteq UNION {ToSet(s) : s \in {Configured} \cup AliasIps \cup HostIps}

\* handle_http dials, of a name the manifest does not know, exactly what its
\* pollution guard has judged, and judges it by the address that is dialled first.
JudgedIsDialled ==
  /\ TypeOK
  /\ (pc = "dial" /\ Guarded /\ ~ViaAgent) =>
        /\ given \subseteq ToSet(judged)
        /\ dialled = {} /\ todo # <<>> => Head(todo) # Loopback

\* The target is given up only when every address that a leg has offered, and
\* every configured one of the host, has been dialled; the exception is the leg
\* of dial_by_name, which has one time-out and no configured address.  The client of a plain request is then told so,
\* and no client is ever told twice: a tunnel's has had its 200
\* (dial_tunnel_upstream, handle_connect, handle_http).
GivesUpAfterAll ==
    [][/\ pc = "dial" /\ pc' = "closed" /\ leg # "name" =>
              /\ given \subseteq dialled
              /\ ~ViaAgent => ToSet(Manifest) \subseteq dialled
       /\ Plain /\ pc' = "closed" /\ pc # "exchange" => answers' # <<>>
       /\ Len(answers') <= 1]_vars

\* What the tunnel does to the bytes is what two independent channels do: the
\* bytes that were looked at are relayed, nothing of the agent's answer is and
\* nothing behind it is lost, and one direction ends without the other (relay, pump).
Sent(s) == IF s = Upstream /\ pc = "handshake" THEN SubSeq(Payload, 1, spoke[s])
                                               ELSE held[s] \o src[s]
Tube == INSTANCE Duplex WITH
    Near <- Client, Far <- Upstream,
    up <- pc = "relay",
    sent <- [s \in Side |-> Sent(s)],
    got <- [s \in Side |-> got[s] \o sink[s]],
    ended <- [s \in Side |-> ends[s] # "open"],
    told <- fin,
    broken <- \E s \in Side : ends[s] = "error"
TunnelIsDuplex == Tube!Spec

\* No stage keeps a connection for ever: a target that is being resolved and
\* dialled is reached or given up, no fallback leading back to an earlier leg
\* (dial_tunnel_upstream, handle_http), and a tunnel whose sides have both ended,
\* or of which one pump has failed, comes down, unless a pump is writing to a peer
\* that takes nothing (pump's abort).
TunnelEnds ==
    /\ pc \in {"resolve", "dial", "handshake"} ~> pc \in {"exchange", "relay", "closed"}
    /\ (pc = "relay" /\ ((\A s \in Side : ends[s] # "open") \/ \E s \in Side : pump[s] = "failed"))
           ~> (pc = "closed" \/ \E s \in Side : Blocked(s))
=============================================================================
