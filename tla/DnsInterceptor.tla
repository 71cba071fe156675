---------------------------- MODULE DnsInterceptor ----------------------------
(***************************************************************************)
(* The DNS interceptor (core/src/windivert.rs) between the programs of the *)
(* machine, the proxy's own look-ups (dns_query and resolve_udp_typed of   *)
(* core/src/dns.rs) and the servers they ask.  A hook opens the WinDivert  *)
(* driver, takes one query after the other and either turns it into an     *)
(* answer that names the loopback address or sends it on.  It looks at its *)
(* stop flag only between two queries, and a new one may be opened while   *)
(* an old one still waits for its last.                                    *)
(*                                                                         *)
(* The driver, the network, the servers and the system's resolver with its *)
(* cache are outside the repository: they are modelled as the code relies  *)
(* on them.  A name is the sequence of its labels, the top level first.    *)
(***************************************************************************)
EXTENDS Naturals, FiniteSets, SequencesExt

CONSTANTS
    App, Resolver,  \* programs that look up names; the look-ups of the proxy
    Name,           \* the names that are looked up
    Selections,     \* what may be accelerated: [match: patterns, target: aliases]
    MaxStarts,      \* bound: the starts in DnsIntercept mode
    MaxOwn          \* bound: the UDP queries of the proxy

ASSUME ConstantAssumption ==
    /\ App \cap Resolver = {}
    /\ MaxStarts \in Nat /\ MaxOwn \in Nat

\* DNS_ID starts again after 2^16 queries.
ASSUME IdAssumption == MaxOwn < 65536

Asker == App \cup Resolver
Hook == 1..MaxStarts
\* Every packet to port 53 that asks for no address.
Other == <<>>

Answer == [of : Name \cup {Other}, addr : {"direct", "loop"}]
Nothing == [of |-> <<>>, addr |-> "none"]

VARIABLES
    domains,   \* the patterns of the last start, shared by every hook
    runtime,   \* the start that runs, 0 without one
    starts,    \* the starts so far
    hook,      \* the step of each hook
    flagged,   \* the hooks whose stop flag is raised
    holding,   \* the asker whose query a hook has received
    query,     \* the query of each asker
    strays,    \* answers to port 53453 that nobody waits for any more
    ids,       \* DNS_ID
    os,        \* the names the resolver cache of the system has loopback for
    table,     \* DNS_CACHE of the proxy: what plain servers answered it
    overlapped,\* history: an own query had to use another port than 53453
    late,      \* history: a steered answer reached the system when no hook was left
    after      \* history: the answers each hook has steered since its flag was raised

manager == <<domains, runtime, starts>>
hooks == <<hook, flagged, holding>>
caches == <<os, table>>
history == <<overlapped, late, after>>
vars == <<domains, runtime, starts, hook, flagged, holding, query, strays, ids,
          os, table, overlapped, late, after>>

Idle == [st |-> "idle", name |-> Other, via |-> "stub", todo |-> {}, by |-> 0, id |-> 0]

TypeOK ==
    /\ domains \in SUBSET UNION {s.match : s \in Selections}
    /\ runtime \in 0..MaxStarts /\ starts \in 0..MaxStarts
    /\ hook \in [Hook -> {"none", "opening", "check", "recv", "holding", "closing",
                          "last flush", "gone"}]
    /\ flagged \subseteq Hook
    /\ holding \in [Hook -> Asker \cup {"nobody"}]
    /\ query \in [Asker -> [st : {"idle", "sent", "held", "steered"},
                            name : Name \cup {Other},
                            via : {"53453", "ephemeral", "stub"}, todo : SUBSET Hook,
                            by : Hook \cup {0}, id : 0..MaxOwn]]
    /\ strays \subseteq [id : 1..MaxOwn, of : Name]
    /\ ids \in 0..MaxOwn
    /\ os \subseteq Name
    /\ table \in [Name -> Answer \cup {Nothing}]
    /\ overlapped \in BOOLEAN /\ late \in BOOLEAN /\ after \in [Hook -> Nat]

Init ==
    /\ domains = {} /\ runtime = 0 /\ starts = 0
    /\ hook = [h \in Hook |-> "none"] /\ flagged = {}
    /\ holding = [h \in Hook |-> "nobody"]
    /\ query = [a \in Asker |-> Idle] /\ strays = {} /\ ids = 0
    /\ os = {}
    /\ table = [n \in Name |-> Nothing]
    /\ overlapped = FALSE /\ late = FALSE /\ after = [h \in Hook |-> 0]

-----------------------------------------------------------------------------
(* Starting and stopping. *)

\* The aliases are kept out of the set, by name: one that a remaining pattern
\* covers is still steered.
Listed(s) == s.match \ s.target

\* start_async publishes the domains, for a hook that is still there too, and
\* binds the listeners; a port that is taken undoes the start but not the domains.
Start ==
    /\ runtime = 0 /\ starts < MaxStarts
    /\ \E s \in Selections : domains' = Listed(s)
    /\ starts' = starts + 1
    /\ \/ runtime' = starts + 1 /\ hook' = [hook EXCEPT ![starts + 1] = "opening"]
       \/ UNCHANGED <<runtime, hook>>
    /\ UNCHANGED <<flagged, holding, query, strays, ids, caches, history>>

\* stop_inner: the hook itself is not woken.
Stop ==
    /\ runtime # 0
    /\ flagged' = flagged \cup {runtime}
    /\ runtime' = 0
    /\ UNCHANGED <<domains, starts, hook, holding, query, strays, ids, caches, history>>

-----------------------------------------------------------------------------
(* DnsInterceptRuntime::run *)

Step(h, s) == hook' = [hook EXCEPT ![h] = s]
Capturing(h) == hook[h] \in {"check", "recv", "holding", "closing"}
Live(h) == Capturing(h) \/ hook[h] = "last flush"
Flushed == os' = {}

\* The library, a symbol or the driver is missing; or the handle is there, and
\* the system has to ask again.
Open(h) ==
    /\ hook[h] = "opening"
    /\ \/ Step(h, "gone") /\ UNCHANGED os
       \/ Step(h, "check") /\ Flushed
    /\ UNCHANGED <<manager, flagged, holding, query, strays, ids, table, history>>

Check(h) ==
    /\ hook[h] = "check"
    /\ Step(h, IF h \in flagged THEN "closing" ELSE "recv")
    /\ UNCHANGED <<manager, flagged, holding, query, strays, ids, caches, history>>

Recv(h, a) ==
    /\ hook[h] = "recv" /\ query[a].st = "sent" /\ h \in query[a].todo
    /\ query' = [query EXCEPT ![a].st = "held", ![a].by = h, ![a].todo = @ \ {h}]
    /\ holding' = [holding EXCEPT ![h] = a]
    /\ Step(h, "holding")
    /\ UNCHANGED <<manager, flagged, strays, ids, caches, history>>

RecvFails(h) ==
    /\ hook[h] = "recv"
    /\ Step(h, "closing")
    /\ UNCHANGED <<manager, flagged, holding, query, strays, ids, caches, history>>

\* Both a bare pattern and a wildcard cover the name and what is below it.
Covered(n) == \E d \in domains : IsPrefix(d, n)

\* modify_dns_packet: a standard query for an address record of a name that is
\* covered becomes an answer; every other packet is left as it is.
Steers(q) == q.name # Other /\ Covered(q.name)

\* The packet goes back to the driver, as an answer or as it was. The asker may
\* have given up on it.
Send(h) ==
    /\ hook[h] = "holding"
    /\ LET a == holding[h]
           q == query[a]
           mine == q.st = "held" /\ q.by = h
       IN \/ /\ query' = IF ~mine THEN query
                         ELSE [query EXCEPT ![a] =
                                 IF Steers(q) THEN [q EXCEPT !.st = "steered", !.by = 0, !.todo = {}]
                                              ELSE [q EXCEPT !.st = "sent", !.by = 0]]
             /\ after' = IF mine /\ Steers(q) /\ h \in flagged
                         THEN [after EXCEPT ![h] = @ + 1] ELSE after
          \/ /\ query' = IF mine THEN [query EXCEPT ![a] = Idle] ELSE query
             /\ UNCHANGED after
    /\ holding' = [holding EXCEPT ![h] = "nobody"]
    /\ Step(h, "check")
    /\ UNCHANGED <<manager, flagged, strays, ids, caches, overlapped, late>>

\* What waits in the queue of the handle may be lost with it; whoever asked is as
\* good as without a query.
Close(h) ==
    /\ hook[h] = "closing"
    /\ Step(h, "last flush")
    /\ \E lost \in SUBSET {a \in Asker : query[a].st = "sent" /\ h \in query[a].todo} :
           query' = [a \in Asker |-> IF a \in lost THEN Idle
                                     ELSE [query[a] EXCEPT !.todo = @ \ {h}]]
    /\ UNCHANGED <<manager, flagged, holding, strays, ids, caches, history>>

\* Mutant: the cache is flushed at the start only.
LastFlushSkipped(h) ==
    /\ hook[h] = "last flush"
    /\ Step(h, "gone")
    /\ UNCHANGED <<manager, flagged, holding, query, strays, ids, caches, history>>

LastFlush(h) ==
    /\ hook[h] = "last flush"
    /\ Flushed /\ Step(h, "gone")
    /\ UNCHANGED <<manager, flagged, holding, query, strays, ids, table, history>>

-----------------------------------------------------------------------------
(* Look-ups. *)

PortTaken == \E r \in Resolver : query[r].st # "idle" /\ query[r].via = "53453"

\* Mutant: the filter has no exemption.
CapturedAlways(via) == {h \in Hook : Capturing(h)}

\* The filter of the handle lets a query from 53453 pass.
Captured(via) == IF via = "53453" THEN {} ELSE {h \in Hook : Capturing(h)}

Asked(n, via, id) ==
    [st |-> "sent", name |-> n, via |-> via, todo |-> Captured(via),
     by |-> 0, id |-> id]

\* A program asks the system's resolver, and so does the last leg of a look-up
\* of the proxy; what the system has
\* cached needs no query (a cached real address is the same as not asking).
AppAsks(a) ==
    /\ query[a].st = "idle"
    /\ \E n \in (Name \ os) \cup {Other} :
           query' = [query EXCEPT ![a] = Asked(n, "stub", 0)]
    /\ UNCHANGED <<manager, hooks, strays, ids, caches, history>>

\* dns_query, when DNS over HTTPS found nothing: a socket at port 53453, or at
\* any port while another look-up still holds that one.
OwnAsks(r) ==
    /\ query[r].st = "idle" /\ ids < MaxOwn
    /\ ids' = ids + 1
    /\ LET via == IF PortTaken THEN "ephemeral" ELSE "53453"
       IN /\ \E n \in Name : /\ table[n] = Nothing
                             /\ query' = [query EXCEPT ![r] = Asked(n, via, ids')]
          /\ overlapped' = (overlapped \/ via = "ephemeral")
    /\ UNCHANGED <<manager, hooks, strays, caches, late, after>>

\* The answer reaches its asker; the system keeps an address it looked up
\* itself, the proxy what a server told it.
Arrives(a, addr) ==
    /\ LET q == query[a]
           reply == [of |-> q.name, addr |-> addr]
           keeps == a \in App /\ q.name # Other
       IN /\ os' = IF keeps THEN (IF addr = "loop" THEN os \cup {q.name} ELSE os \ {q.name}) ELSE os
          /\ late' = (late \/ (keeps /\ addr = "loop" /\ ~\E h \in Hook : Live(h)))
          /\ table' = IF a \in Resolver THEN [table EXCEPT ![q.name] = reply] ELSE table
    /\ query' = [query EXCEPT ![a] = Idle]
    /\ UNCHANGED <<manager, hooks, strays, ids, overlapped, after>>

ServerAnswers(a) == query[a].st = "sent" /\ query[a].todo = {} /\ Arrives(a, "direct")

\* What the hook has sent may arrive when the hook is gone.
SteeredArrives(a) == query[a].st = "steered" /\ Arrives(a, "loop")

\* Mutant: the first packet at the port is the answer.
AnyPacket(r, p) == TRUE

\* dns_query takes the packet that carries its identifier.
Mine(r, p) == p.id = query[r].id

\* An answer comes after its look-up has given up: whoever has the port by now
\* receives it.
StrayArrives ==
    \E p \in strays :
        /\ strays' = strays \ {p}
        /\ IF \E r \in Resolver : /\ query[r].st # "idle" /\ query[r].via = "53453"
                                  /\ Mine(r, p)
           THEN \E r \in Resolver :
                    /\ query[r].st # "idle" /\ query[r].via = "53453" /\ Mine(r, p)
                    /\ table' = [table EXCEPT ![query[r].name] = [of |-> p.of, addr |-> "direct"]]
                    /\ query' = [query EXCEPT ![r] = Idle]
           ELSE UNCHANGED <<query, table>>
        /\ UNCHANGED <<manager, hooks, ids, os, history>>

\* 1.5 s for a look-up of the proxy; the system and the programs have their own.
TimesOut(a) ==
    /\ query[a].st # "idle"
    /\ query' = [query EXCEPT ![a] = Idle]
    /\ strays' = IF query[a].via = "53453"
                 THEN strays \cup {[id |-> query[a].id, of |-> query[a].name]} ELSE strays
    /\ UNCHANGED <<manager, hooks, ids, caches, history>>

\* The lifetime of an entry of the system's cache is over.
Expire ==
    /\ \E n \in os : os' = os \ {n}
    /\ UNCHANGED <<manager, hooks, query, strays, ids, table, history>>

Next ==
    \/ Start \/ Stop
    \/ \E h \in Hook :
        \/ Open(h) \/ Check(h) \/ RecvFails(h) \/ Send(h) \/ Close(h)
        \/ LastFlush(h)
        \/ \E a \in Asker : Recv(h, a)
    \/ \E a \in App : AppAsks(a)
    \/ \E r \in Resolver : OwnAsks(r)
    \/ \E a \in Asker : ServerAnswers(a) \/ SteeredArrives(a) \/ TimesOut(a)
    \/ StrayArrives \/ Expire

Spec == Init /\ [][Next]_vars

-----------------------------------------------------------------------------
(* Properties. *)

\* The proxy's own look-ups from port 53453 are never answered by the hook: a
\* loopback address gets into DNS_CACHE as a server's only when a look-up ran
\* while another still held the port (DNS_FILTER and dns_query).
OwnLookupsAreDirect ==
    \A n \in Name : table[n].addr = "loop" => overlapped

\* What a look-up of the proxy stores under a name is an answer about that name,
\* also when an earlier one at the same port gave up before its answer came.
AnswersItsOwn == \A n \in Name : table[n] # Nothing => table[n].of = n

\* A stop ends the steering: a raised flag lets the hook answer one more query
\* and never two, and with every hook gone the system has no steered answer left,
\* unless one was still under way when the last hook flushed the cache
\* (run: the flag is read between packets, the cache flushed behind the loop).
NothingStaysSteered ==
    /\ TypeOK
    /\ \A h \in Hook : after[h] <= 1
    /\ (\A h \in Hook : ~Live(h)) => late \/ os = {}
=============================================================================
