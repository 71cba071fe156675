------------------------------ MODULE Upstream ------------------------------
(***************************************************************************)
(* The upstream phase of the intercepting proxy (core/src/mitm.rs,         *)
(* forward_one and below) for the requests to one host: an idle pooled     *)
(* connection is tried first; then the candidates, a TLS mode against an   *)
(* address each, either one after the other or as a hedged race; then the  *)
(* response is streamed and the connection pooled again.                   *)
(*                                                                         *)
(* Requests run concurrently (client connections, HTTP/2 streams) and      *)
(* share the pool, the last good edge and the agent setting.  Durations    *)
(* are left out: a time-out is an attempt that fails, at any time.         *)
(***************************************************************************)
EXTENDS Naturals, Sequences, FiniteSets, SequencesExt, Selection

CONSTANTS
    Req,         \* the requests
    Kinds,       \* what each of them may be: [class, stateful]
    Past,        \* a request that ended before the first state
    Site,        \* the kinds of host: [accelerated, alias, fake]
    Manifest,    \* the configured addresses of the host, a sequence
    Dns,         \* what the dialled name resolves to
    HostDns,     \* what the requested name resolves to, when it is another
    Published,   \* GITHUB_WEB_FALLBACK_IPS; empty for other hosts
    AliasAlts,   \* what the other resolvers say of the dialled name
    HostAlts,    \* and of the requested one
    AgentAddr,   \* the address the agent itself listens on
    Unspecified, \* 0.0.0.0: "the agent chooses the endpoint"
    PoolMax,
    None

Edge == ToSet(Manifest) \cup ToSet(Dns) \cup ToSet(HostDns) \cup ToSet(Published)
            \cup ToSet(AliasAlts) \cup ToSet(HostAlts)
Addr == Edge \cup {AgentAddr, Unspecified}
Mode == {"no sni", "primary", "dialled"}
Candidate == [mode : Mode, addr : Addr]
Conn == [by : Req \cup {Past}, mode : Mode, addr : Addr]
Kind == [class : {"get", "git", "post"}, stateful : BOOLEAN]
NoKind == [class |-> "get", stateful |-> FALSE]

ASSUME SiteAssumption == Site \subseteq [accelerated : BOOLEAN, alias : BOOLEAN, fake : BOOLEAN]
ASSUME AddressAssumption ==
    /\ AgentAddr \notin Edge /\ Unspecified \notin Edge /\ None \notin Addr
    /\ AgentAddr # Unspecified
ASSUME SourceAssumption ==
    \A s \in {Manifest, Dns, HostDns, Published, AliasAlts, HostAlts} : s \in Seq(Edge)
ASSUME RequestAssumption ==
    /\ Past \notin Req /\ PoolMax \in Nat \ {0} /\ None \notin Conn
    /\ Kinds \in [Req -> SUBSET Kind]

VARIABLES
    site,     \* is_accelerated, ForwardDestination and FakeServerName of the host
    agent,    \* whether the settings name a second-level agent
    lastGood, \* LAST_GOOD of the host
    pool,     \* UpstreamPool: connections with their age, the oldest first
    pc,       \* the phase of each request
    kind,     \* method, path and cookies of each request
    via,      \* agent_on: the setting as the request found it
    todo,     \* the candidates still to be started, in order
    spare,    \* the candidates of the hedge's second wave
    stage,    \* the last source of addresses the sequential loop has used
    tried,    \* tried_ips
    flying,   \* the candidates being attempted
    conn,     \* the connection that is reused, or whose answer was adopted
    answer,   \* what the client got
    dirty,    \* history: connections whose response has not been read to its end
    copies,   \* history: connections a request that may not be repeated was written to
    headed,   \* history: whether a pooled connection answered it with a head
    missed    \* history: addresses the request came to know and has not dialled

shared == <<site, agent, lastGood, pool>>
local == <<pc, kind, via, todo, spare, stage, tried, flying, conn, answer>>
history == <<dirty, copies, headed, missed>>
vars == <<site, agent, lastGood, pool, pc, kind, via, todo, spare, stage, tried,
          flying, conn, answer, dirty, copies, headed, missed>>

Stage == {"known", "host", "alias alts", "host alts"}

TypeOK ==
    /\ site \in Site /\ agent \in BOOLEAN
    /\ lastGood \in Addr \cup {None}
    /\ \A i \in DOMAIN pool : pool[i].age \in 0..2 /\ pool[i].conn \in Conn
    /\ Len(pool) <= PoolMax
    /\ pc \in [Req -> {"idle", "reuse", "resolve", "dial", "hedge", "stream", "done"}]
    /\ kind \in [Req -> Kind] /\ via \in [Req -> BOOLEAN]
    /\ \A r \in Req : /\ ToSet(todo[r]) \subseteq Candidate
                      /\ spare[r] \subseteq Candidate
                      /\ flying[r] \subseteq Candidate
    /\ stage \in [Req -> Stage]
    /\ tried \in [Req -> SUBSET Addr] /\ conn \in [Req -> Conn \cup {None}]
    /\ answer \in [Req -> {"none", "502", "502 spent", "whole", "cut"}]
    /\ dirty \subseteq Conn /\ copies \in [Req -> SUBSET Conn]
    /\ headed \in [Req -> BOOLEAN] /\ missed \in [Req -> SUBSET Addr]

-----------------------------------------------------------------------------
(* What a request may do, and where. *)

\* race_safe: bodyless, read-only methods.
RaceSafe(k) == k.class = "get"

\* retry_response: an accelerated host, and a method or a Git path that may be
\* repeated on another endpoint.
RetrySafe(k) == site.accelerated /\ k.class # "post"

NoSniAllowed == site.accelerated /\ ~site.fake

\* sni_candidates: the substitute name or the requested one, then the dialled
\* name when it is another.
SniList == IF site.alias \/ site.fake THEN <<"primary", "dialled">> ELSE <<"primary">>
Modes == (IF NoSniAllowed THEN <<"no sni">> ELSE <<>>) \o SniList

\* Mutant: a signed-in request is raced as well.
HedgedStateful(r) == site.accelerated /\ ~via[r] /\ RaceSafe(kind[r])

Hedged(r) == site.accelerated /\ ~via[r] /\ ~kind[r].stateful /\ RaceSafe(kind[r])

\* Every pair of a mode and an address, the addresses in the outer or the
\* inner loop.
ByAddr(modes, addrs) ==
    [k \in 1..(Len(modes) * Len(addrs)) |->
        [mode |-> modes[((k - 1) % Len(modes)) + 1], addr |-> addrs[((k - 1) \div Len(modes)) + 1]]]
ByMode(modes, addrs) ==
    [k \in 1..(Len(modes) * Len(addrs)) |->
        [mode |-> modes[((k - 1) \div Len(addrs)) + 1], addr |-> addrs[((k - 1) % Len(addrs)) + 1]]]

\* The endpoints of a request: the last good edge first, the published edges
\* behind for a signed-in one, and only the agent when there is one.
Endpoints(r, ips) ==
    LET all == Manifest \o Without(ips, ToSet(Manifest))
        led == IF site.accelerated /\ lastGood # None
               THEN <<lastGood>> \o Without(all, {lastGood}) ELSE all
    IN IF via[r] THEN <<Unspecified>>
       ELSE IF kind[r].stateful /\ site.accelerated
            THEN led \o Without(Published, ToSet(led)) ELSE led

OnConn(r, c) == [by |-> r, mode |-> c.mode, addr |-> c.addr]

\* The address finish_response learns: the peer of a reused socket, which is
\* the agent when the connection was made through one.
Winner(r) == IF conn[r].addr = Unspecified /\ conn[r].by # r THEN AgentAddr ELSE conn[r].addr

-----------------------------------------------------------------------------
(* The pooled connection. *)

Fresh(p) == Kept(p, {i \in DOMAIN p : p[i].age < 2})

\* reusable: the identity fits, and the connection has been idle for under 2 s,
\* or under 15 s for a request that may be repeated.
Reusable(e, retry) ==
    /\ IF e.conn.mode = "no sni" THEN NoSniAllowed ELSE e.conn.mode \in ToSet(SniList)
    /\ e.age = 0 \/ (retry /\ e.age = 1)

\* Mutant: the connection stays in the pool while a request uses it.
TakenShared(p, i) == p

\* UpstreamPool::take removes the connection under the lock it was found under.
Taken(p, i) == RemoveAt(p, i)

\* A request arrives: the settings are copied, the pool is searched, and the
\* request is written to a connection that fits.
Begin(r) ==
    /\ pc[r] = "idle"
    /\ \E k \in Kinds[r] :
        LET idle == Fresh(pool)
            fit == {i \in DOMAIN idle : Reusable(idle[i], RetrySafe(k))}
            first == CHOOSE i \in fit : \A j \in fit : i <= j
            got == IF fit = {} THEN None ELSE idle[first].conn
        IN /\ kind' = [kind EXCEPT ![r] = k]
           /\ via' = [via EXCEPT ![r] = agent]
           /\ pc' = [pc EXCEPT ![r] = IF fit = {} THEN "resolve" ELSE "reuse"]
           /\ pool' = IF fit = {} THEN idle ELSE Taken(idle, first)
           /\ conn' = [conn EXCEPT ![r] = got]
           /\ dirty' = dirty \cup ({got} \ {None})
           /\ copies' = [copies EXCEPT ![r] = IF RetrySafe(k) THEN {} ELSE {got} \ {None}]
    /\ UNCHANGED <<site, agent, lastGood, todo, spare, stage, tried, flying, answer,
                   headed, missed>>

\* The request has ended: its state is dropped, with the attempts of its race.
Ended(r, how) ==
    /\ pc' = [pc EXCEPT ![r] = "done"]
    /\ answer' = [answer EXCEPT ![r] = how]
    /\ kind' = [kind EXCEPT ![r] = NoKind]
    /\ via' = [via EXCEPT ![r] = FALSE]
    /\ todo' = [todo EXCEPT ![r] = <<>>]
    /\ spare' = [spare EXCEPT ![r] = {}]
    /\ stage' = [stage EXCEPT ![r] = "known"]
    /\ tried' = [tried EXCEPT ![r] = {}]
    /\ flying' = [flying EXCEPT ![r] = {}]
    /\ conn' = [conn EXCEPT ![r] = None]
    /\ copies' = [copies EXCEPT ![r] = {}]
    /\ headed' = [headed EXCEPT ![r] = FALSE]
    /\ missed' = [missed EXCEPT ![r] = IF how = "502 spent" THEN @ ELSE {}]

\* The connection of the request is dropped and the candidates are tried.
DialsAgain(r) ==
    /\ conn' = [conn EXCEPT ![r] = None]
    /\ pc' = [pc EXCEPT ![r] = "resolve"]
    /\ dirty' = dirty \ {conn[r]}
    /\ UNCHANGED <<shared, kind, via, todo, spare, stage, tried, flying, answer, copies, missed>>

\* Mutant: the request is dialled again whatever it is.
ReuseFailsRetries(r) == pc[r] = "reuse" /\ DialsAgain(r) /\ UNCHANGED headed

\* Mutant: the pooled connection is read without a time-out.
ReuseFailsNever(r) == FALSE

\* The write or the head fails: the request is dialled again if it may be
\* repeated, and refused if not.
ReuseFails(r) ==
    /\ pc[r] = "reuse"
    /\ IF RetrySafe(kind[r])
       THEN DialsAgain(r) /\ UNCHANGED headed
       ELSE Ended(r, "502") /\ dirty' = dirty \ {conn[r]} /\ UNCHANGED shared

\* A head arrives but the connection is not adopted: a gateway status to a
\* request that may be repeated; otherwise a gateway status with a body, for
\* which probe_body reads no byte, or no first byte of a body in time.
ReuseDropped(r) ==
    /\ pc[r] = "reuse"
    /\ headed' = [headed EXCEPT ![r] = TRUE]
    /\ DialsAgain(r)

\* A head and a first byte of its body, or a head without a body.
ReuseAdopted(r) ==
    /\ pc[r] = "reuse"
    /\ pc' = [pc EXCEPT ![r] = "stream"]
    /\ UNCHANGED <<shared, kind, via, todo, spare, stage, tried, flying, conn, answer, history>>

-----------------------------------------------------------------------------
(* The candidates. *)

\* resolve_a has answered, or nobody has: the candidates are laid out for the
\* race or for the sequential loop, whose no-SNI stage comes first.
Plan(r) ==
    /\ pc[r] = "resolve"
    /\ \E ips \in {Dns, <<>>} :
        LET addrs == Endpoints(r, ips)
            seen == ToSet(ips) \cup ToSet(addrs)
            wave == IF Hedged(r) THEN Without(Published, seen) ELSE <<>>
        IN /\ tried' = [tried EXCEPT ![r] = seen]
           /\ missed' = [missed EXCEPT ![r] = ToSet(addrs) \cup ToSet(wave)]
           /\ todo' = [todo EXCEPT ![r] =
                  IF Hedged(r) THEN ByAddr(Modes, addrs) ELSE ByMode(Modes, addrs)]
           /\ spare' = [spare EXCEPT ![r] = ToSet(ByAddr(Modes, wave))]
    /\ pc' = [pc EXCEPT ![r] = IF Hedged(r) THEN "hedge" ELSE "dial"]
    /\ UNCHANGED <<shared, kind, via, stage, flying, conn, answer,
                   dirty, copies, headed>>

\* The next candidate is dialled: alone in the sequential loop, at the hedge's
\* next tick in the race.
Start(r) ==
    /\ pc[r] \in {"dial", "hedge"} /\ todo[r] # <<>>
    /\ pc[r] = "dial" => flying[r] = {}
    /\ flying' = [flying EXCEPT ![r] = @ \cup {Head(todo[r])}]
    /\ missed' = [missed EXCEPT ![r] = @ \ {Head(todo[r]).addr}]
    /\ todo' = [todo EXCEPT ![r] = Tail(@)]
    /\ UNCHANGED <<shared, pc, kind, via, spare, stage, tried, conn, answer,
                   dirty, copies, headed>>

\* HEDGE_FALLBACK_AFTER has passed without a winner: the published edges are
\* dialled all at once.
SecondWave(r) ==
    /\ pc[r] = "hedge" /\ spare[r] # {}
    /\ flying' = [flying EXCEPT ![r] = @ \cup spare[r]]
    /\ missed' = [missed EXCEPT ![r] = @ \ {c.addr : c \in spare[r]}]
    /\ spare' = [spare EXCEPT ![r] = {}]
    /\ UNCHANGED <<shared, pc, kind, via, todo, stage, tried, conn, answer,
                   dirty, copies, headed>>

\* The sources of addresses the sequential loop turns to when its list is
\* spent, each with the names it presents to them.
Sources(r) ==
    (IF site.alias /\ ~via[r] THEN <<[st |-> "host", ips |-> HostDns, names |-> <<"primary">>]>>
                              ELSE <<>>)
    \o (IF site.accelerated /\ ~via[r]
        THEN <<[st |-> "alias alts", ips |-> AliasAlts, names |-> SniList]>> ELSE <<>>)
    \o (IF site.accelerated /\ site.alias /\ ~via[r]
        THEN <<[st |-> "host alts", ips |-> HostAlts, names |-> <<"primary">>]>> ELSE <<>>)

NextSource(r) ==
    LET used == {i \in DOMAIN Sources(r) : Sources(r)[i].st = stage[r]}
    IN IF used = {} THEN 1 ELSE (CHOOSE i \in used : TRUE) + 1

\* Mutant: the race ends when the first wave has failed, before the second.
SpentEarly(r) ==
    /\ todo[r] = <<>> /\ flying[r] = {}
    /\ pc[r] = "dial" => NextSource(r) \notin DOMAIN Sources(r)

Spent(r) ==
    /\ todo[r] = <<>> /\ flying[r] = {}
    /\ IF pc[r] = "hedge" THEN spare[r] = {}
                          ELSE pc[r] = "dial" /\ NextSource(r) \notin DOMAIN Sources(r)

More(r) ==
    /\ pc[r] = "dial" /\ todo[r] = <<>> /\ flying[r] = {}
    /\ NextSource(r) \in DOMAIN Sources(r)
    /\ LET src == Sources(r)[NextSource(r)]
       IN \E ips \in {src.ips, <<>>} :
            LET new == Without(ips, tried[r])
            IN /\ stage' = [stage EXCEPT ![r] = src.st]
               /\ tried' = [tried EXCEPT ![r] = @ \cup ToSet(new)]
               /\ missed' = [missed EXCEPT ![r] = @ \cup ToSet(new)]
               /\ todo' = [todo EXCEPT ![r] = ByAddr(src.names, new)]
    /\ UNCHANGED <<shared, pc, kind, via, spare, flying, conn, answer,
                   dirty, copies, headed>>

-----------------------------------------------------------------------------
(* The attempts. *)

\* The agent's own address serves no host: nothing dialled there directly
\* completes TLS.
CanServe(c) == c.addr # AgentAddr

\* The history of writing the request to the connection of a candidate.
Written(r, c) ==
    copies' = IF RetrySafe(kind[r]) THEN copies
              ELSE [copies EXCEPT ![r] = @ \cup {OnConn(r, c)}]

\* finish_response of a failure: the last good edge is forgotten, 502.
Refuse(r, how) ==
    /\ Ended(r, how)
    /\ lastGood' = IF via[r] THEN lastGood ELSE None
    /\ UNCHANGED <<site, agent, pool, dirty>>

\* No connection, no TLS, or no time left for them.
ConnectFails(r, c) ==
    /\ c \in flying[r]
    /\ flying' = [flying EXCEPT ![r] = @ \ {c}]
    /\ UNCHANGED <<shared, pc, kind, via, todo, spare, stage, tried, conn, answer, history>>

\* Mutant: the next candidate is tried whether or not the request was written.
NoResponseGoesOn(r, c) ==
    /\ c \in flying[r] /\ CanServe(c) /\ Written(r, c)
    /\ flying' = [flying EXCEPT ![r] = @ \ {c}]
    /\ UNCHANGED <<shared, pc, kind, via, todo, spare, stage, tried, conn, answer,
                   dirty, headed, missed>>

\* The request was written, in part at least, and no head or no body came.  A
\* request that may not be repeated ends with that; any other goes on with
\* the candidates that are left.
NoResponse(r, c) ==
    /\ c \in flying[r] /\ CanServe(c)
    /\ IF pc[r] = "dial" /\ ~RetrySafe(kind[r])
       THEN Refuse(r, "502")
       ELSE /\ flying' = [flying EXCEPT ![r] = @ \ {c}]
            /\ UNCHANGED <<shared, pc, kind, via, todo, spare, stage, tried, conn, answer, history>>

\* 500, 502, 503 or 504: another edge may serve a request that may be repeated.
GatewayAnswer(r, c) ==
    /\ c \in flying[r] /\ CanServe(c) /\ RetrySafe(kind[r])
    /\ flying' = [flying EXCEPT ![r] = @ \ {c}]
    /\ UNCHANGED <<shared, pc, kind, via, todo, spare, stage, tried, conn, answer, history>>

\* A head and the first byte of a body: this answer is the response, and every
\* other attempt is aborted.
Adopted(r, c) ==
    /\ c \in flying[r] /\ CanServe(c) /\ Written(r, c)
    /\ conn' = [conn EXCEPT ![r] = OnConn(r, c)]
    /\ dirty' = dirty \cup {OnConn(r, c)}
    /\ pc' = [pc EXCEPT ![r] = "stream"]
    /\ flying' = [flying EXCEPT ![r] = {}]
    /\ todo' = [todo EXCEPT ![r] = <<>>]
    /\ spare' = [spare EXCEPT ![r] = {}]
    /\ UNCHANGED <<site, agent, pool, kind, via, stage, tried, answer, headed, missed>>

Adopt(r, c) == Adopted(r, c) /\ UNCHANGED lastGood

\* Every candidate has failed.
GiveUp(r) == pc[r] \in {"dial", "hedge"} /\ Spent(r) /\ Refuse(r, "502 spent")

\* UPSTREAM_BUDGET, or HEDGE_BUDGET in the race.
Budget(r) == pc[r] \in {"resolve", "dial", "hedge"} /\ Refuse(r, "502")

-----------------------------------------------------------------------------
(* finish_response. *)

Learn(r) == IF ~via[r] /\ Winner(r) # Unspecified THEN Winner(r) ELSE lastGood

\* UpstreamPool::put.
PutBack(c) ==
    pool' = IF Len(Fresh(pool)) < PoolMax
            THEN Append(Fresh(pool), [conn |-> c, age |-> 0]) ELSE Fresh(pool)

\* The body came whole; the connection is pooled unless the peer closes it.
Completes(r, keep) ==
    /\ pc[r] = "stream"
    /\ lastGood' = Learn(r)
    /\ dirty' = dirty \ {conn[r]}
    /\ IF keep THEN PutBack(conn[r]) ELSE UNCHANGED pool
    /\ Ended(r, "whole")
    /\ UNCHANGED <<site, agent>>

\* Mutant: the connection is pooled whether or not its response was read.
BreaksPooled(r) ==
    /\ pc[r] = "stream"
    /\ PutBack(conn[r])
    /\ Ended(r, "cut")
    /\ UNCHANGED <<site, agent, lastGood, dirty>>

\* The body broke off, or the client is gone: the connection is dropped.
Breaks(r) ==
    /\ pc[r] = "stream"
    /\ dirty' = dirty \ {conn[r]}
    /\ Ended(r, "cut")
    /\ UNCHANGED shared

-----------------------------------------------------------------------------
(* Around the requests. *)

Ages(i) ==
    /\ i \in DOMAIN pool /\ pool[i].age < 2
    /\ \A j \in 1..(i - 1) : pool[j].age > pool[i].age
    /\ pool' = [pool EXCEPT ![i].age = @ + 1]
    /\ UNCHANGED <<site, agent, lastGood, local, history>>

\* The user saves other agent settings.
SwitchAgent ==
    /\ agent' = ~agent
    /\ UNCHANGED <<site, lastGood, pool, local, history>>

Init ==
    /\ site \in Site
    /\ agent \in BOOLEAN
    /\ lastGood = None
    /\ pool \in {<<>>} \cup {<<[conn |-> c, age |-> 0]>> :
                    c \in {[by |-> Past, mode |-> Modes[1], addr |-> a] :
                              a \in {Unspecified} \cup {Dns[i] : i \in DOMAIN Dns}}}
    /\ pc = [r \in Req |-> "idle"]
    /\ kind = [r \in Req |-> NoKind]
    /\ via = [r \in Req |-> FALSE]
    /\ todo = [r \in Req |-> <<>>]
    /\ spare = [r \in Req |-> {}]
    /\ stage = [r \in Req |-> "known"]
    /\ tried = [r \in Req |-> {}]
    /\ flying = [r \in Req |-> {}]
    /\ conn = [r \in Req |-> None]
    /\ answer = [r \in Req |-> "none"]
    /\ dirty = {}
    /\ copies = [r \in Req |-> {}]
    /\ headed = [r \in Req |-> FALSE]
    /\ missed = [r \in Req |-> {}]

Pooled(r) == ReuseFails(r) \/ ReuseDropped(r) \/ ReuseAdopted(r)
Attempt(r) == \E c \in flying[r] :
    ConnectFails(r, c) \/ NoResponse(r, c) \/ GatewayAnswer(r, c) \/ Adopt(r, c)
Dial(r) == Plan(r) \/ Start(r) \/ SecondWave(r) \/ More(r) \/ GiveUp(r) \/ Budget(r) \/ Attempt(r)
Finish(r) == (\E keep \in BOOLEAN : Completes(r, keep)) \/ Breaks(r)

Next ==
    \/ \E r \in Req : Begin(r) \/ Pooled(r) \/ Dial(r) \/ Finish(r)
    \/ \E i \in 1..PoolMax : Ages(i)
    \/ SwitchAgent

\* Only the time-outs are fair: of the reused connection, of the whole phase,
\* and of a body that stops.  No peer has to answer and no request to arrive.
Fairness == \A r \in Req : WF_vars(ReuseFails(r)) /\ WF_vars(Budget(r)) /\ WF_vars(Breaks(r))

Spec == Init /\ [][Next]_vars /\ Fairness

-----------------------------------------------------------------------------
(* Properties. *)

Own(r) == {c \in copies[r] : c.by = r}

\* A request that may not be repeated reaches at most one connection dialled
\* for it; it reaches one after a pooled connection only when that connection
\* has answered with a head.  A pooled connection that fails without an answer
\* must not make forward_one write a POST a second time.
NoBlindReplay ==
    \A r \in Req : /\ Cardinality(Own(r)) <= 1
                   /\ Cardinality(copies[r]) > 1 => headed[r]

\* What the comment above the reuse in forward_one says of a POST that may have
\* been received upstream: it is written to one connection.
NotReplayed == \A r \in Req : kind[r].class = "post" => Cardinality(copies[r]) <= 1

\* The comment on stateful: a signed-in request, like one that is not read-only,
\* is never out on two connections at a time; and once an answer is adopted the
\* race's other attempts are gone, so that the client sees one response.
OneAtATime ==
    \A r \in Req : /\ (kind[r].stateful \/ ~RaceSafe(kind[r])) => Cardinality(flying[r]) <= 1
                   /\ pc[r] \in {"reuse", "stream"} => flying[r] = {}

\* The process-wide pool keeps to its limit, and a connection in it is in
\* nobody's use, is pooled once, and has no byte of an earlier response left in
\* it, whichever requests put it back (UpstreamPool, finish_response).
PoolIsIdle ==
    LET idle == {pool[i].conn : i \in DOMAIN pool} IN
    /\ TypeOK
    /\ \A i, j \in DOMAIN pool : pool[i].conn = pool[j].conn => i = j
    /\ \A r \in Req : conn[r] \notin idle /\ \A s \in Req \ {r} : conn[r] # None => conn[r] # conn[s]
    /\ idle \cap dirty = {}

\* A 502 that no time-out forced comes only after every address the request
\* came to know has been dialled, the hedge's second wave included, whatever
\* edge other requests remembered or forgot meanwhile.
GivesUpAfterAll == \A r \in Req : answer[r] = "502 spent" => missed[r] = {}

\* Every request is answered or refused in the end.
RequestsEnd == \A r \in Req : pc[r] # "idle" ~> pc[r] = "done"
=============================================================================
