------------------------- MODULE DnsInterceptorProofs -------------------------
(***************************************************************************)
(* The three properties of DnsInterceptor, for any programs, look-ups,     *)
(* names and selections.                                                   *)
(*                                                                         *)
(* A look-up at port 53453 is never in the queue of a hook (OwnSpared), so *)
(* only one at another port can be steered.  At most one look-up has that  *)
(* port, and the identifiers of those that gave up are not used again      *)
(* (StraysApart).  A hook whose flag is raised is past its last receive    *)
(* once it has steered (OneMore).                                          *)
(***************************************************************************)
EXTENDS DnsInterceptor, TLAPS

USE ConstantAssumption DEF Asker, Hook

\* The look-ups at the exempted port are not captured, those at another are
\* marked in the history.
Spared(a) == query[a].via = "53453" /\ query[a].st = "sent" /\ query[a].todo = {}
OwnSpared == \A r \in Resolver : query[r].st # "idle" => Spared(r) \/ overlapped

AtPort(r) == query[r].st # "idle" /\ query[r].via = "53453"

StraysApart ==
    /\ \A a \in App : query[a].via = "stub"
    /\ \A p \in strays : p.id <= ids
    /\ \A r \in Resolver : AtPort(r) =>
          /\ query[r].id \in 1..ids /\ query[r].name \in Name
          /\ \A p \in strays : p.id = query[r].id => p.of = query[r].name
          /\ \A s \in Resolver : AtPort(s) => s = r

\* A hook that is not started has steered nothing, one that has steered since
\* its flag was raised did so once and does not receive again.
OneMoreBy(h) ==
    /\ h > starts => hook[h] = "none" /\ after[h] = 0
    /\ after[h] # 0 => /\ after[h] = 1 /\ h \in flagged
                       /\ hook[h] \in {"check", "closing", "last flush", "gone"}
OneMore == \A h \in Hook : OneMoreBy(h)

FlushedLast == (\A h \in Hook : ~Live(h)) => late \/ os = {}

IInv == TypeOK /\ OwnSpared /\ OwnLookupsAreDirect /\ StraysApart /\ AnswersItsOwn
           /\ OneMore /\ FlushedLast

Query == [st : {"idle", "sent", "held", "steered"}, name : Name \cup {Other},
          via : {"53453", "ephemeral", "stub"}, todo : SUBSET Hook,
          by : Hook \cup {0}, id : 0..MaxOwn]
At == {"none", "opening", "check", "recv", "holding", "closing", "last flush", "gone"}
Stray == [id : 1..MaxOwn, of : Name]

(***************************************************************************)
(* Types, in three parts: each action disturbs one or two of them.         *)
(***************************************************************************)
ManagerType ==
    /\ domains \in SUBSET UNION {s.match : s \in Selections}
    /\ runtime \in 0..MaxStarts /\ starts \in 0..MaxStarts
HookType ==
    /\ hook \in [Hook -> At]
    /\ flagged \subseteq Hook
    /\ holding \in [Hook -> Asker \cup {"nobody"}]
    /\ after \in [Hook -> Nat]
QueryType == query \in [Asker -> Query]
OwnType == strays \subseteq Stray /\ ids \in 0..MaxOwn
CacheType == os \subseteq Name /\ table \in [Name -> Answer \cup {Nothing}]
FlagType == overlapped \in BOOLEAN /\ late \in BOOLEAN

LEMMA Parts ==
    TypeOK <=> ManagerType /\ HookType /\ QueryType /\ OwnType /\ CacheType /\ FlagType
BY Zenon DEF TypeOK, ManagerType, HookType, QueryType, OwnType, CacheType, FlagType, Query, At, Stray

LEMMA IdleQuery == Idle \in Query
BY DEF Idle, Query

LEMMA AskedQuery ==
    ASSUME NEW n \in Name \cup {Other}, NEW via \in {"53453", "ephemeral", "stub"}, NEW id \in 0..MaxOwn
    PROVE  Asked(n, via, id) \in Query
<1>1. Captured(via) \in SUBSET Hook
  BY DEF Captured
<1>. QED
  BY <1>1 DEF Asked, Query

LEMMA ManagerStep == TypeOK /\ [Next]_vars => ManagerType'
<1>. SUFFICES ASSUME ManagerType, [Next]_vars PROVE ManagerType'
  BY Parts
<1>1. CASE Start
  <2>1. PICK s \in Selections : domains' = Listed(s)
    BY <1>1 DEF Start
  <2>2. domains' \subseteq s.match
    BY <2>1 DEF Listed
  <2>3. domains' \in SUBSET UNION {t.match : t \in Selections}
    BY <2>2
  <2>4. runtime' \in 0..MaxStarts /\ starts' \in 0..MaxStarts
    <3>1. starts \in 0..MaxStarts /\ runtime \in 0..MaxStarts /\ starts < MaxStarts
          /\ starts' = starts + 1 /\ runtime' \in {runtime, starts + 1}
      BY <1>1 DEF Start, ManagerType
    <3>. QED
      BY <3>1
  <2>. QED
    BY <2>3, <2>4 DEF ManagerType
<1>2. CASE Stop
  BY <1>2 DEF Stop, ManagerType
<1>3. CASE UNCHANGED manager
  BY <1>3 DEF manager, ManagerType
<1>. QED
  BY <1>1, <1>2, <1>3, Zenon DEF Next, vars, manager, Open, Check, RecvFails, Send, Close, LastFlush,
     Recv, AppAsks, OwnAsks, ServerAnswers, SteeredArrives, Arrives, TimesOut, StrayArrives, Expire

LEMMA NextHook == ManagerType /\ starts < MaxStarts => starts + 1 \in Hook
BY DEF ManagerType

LEMMA StoppedHook == ManagerType /\ runtime # 0 => runtime \in Hook
BY DEF ManagerType

LEMMA HookStep == TypeOK /\ [Next]_vars => HookType'
<1>. SUFFICES ASSUME TypeOK, HookType, [Next]_vars PROVE HookType'
  BY Parts
<1>h. /\ hook \in [Hook -> At] /\ flagged \subseteq Hook
      /\ holding \in [Hook -> Asker \cup {"nobody"}] /\ after \in [Hook -> Nat]
  BY Zenon DEF HookType
<1>s. ASSUME NEW h \in Hook, NEW s \in At, Step(h, s) PROVE hook' \in [Hook -> At]
  BY <1>h, <1>s DEF Step
<1>1. CASE Start
  <2>1. starts + 1 \in Hook
    BY <1>1, Parts, NextHook, Zenon DEF Start
  <2>2. hook' = hook \/ hook' = [hook EXCEPT ![starts + 1] = "opening"]
    BY <1>1 DEF Start
  <2>3. flagged' = flagged /\ holding' = holding /\ after' = after
    BY <1>1, Zenon DEF Start, history
  <2>4. hook' \in [Hook -> At]
    BY <1>h, <2>1, <2>2 DEF At
  <2>. QED
    BY <1>h, <2>3, <2>4, Zenon DEF HookType
<1>2. CASE Stop
  <2>1. runtime \in Hook
    BY <1>2, Parts, StoppedHook, Zenon DEF Stop
  <2>2. /\ flagged' = flagged \cup {runtime}
        /\ hook' = hook /\ holding' = holding /\ after' = after
    BY <1>2, Zenon DEF Stop, history
  <2>3. flagged' \subseteq Hook
    BY <1>h, <2>1, <2>2
  <2>. QED
    BY <1>h, <2>2, <2>3, Zenon DEF HookType
<1>4. ASSUME NEW h \in Hook, Open(h) \/ Check(h) \/ RecvFails(h) \/ Close(h) \/ LastFlush(h)
      PROVE  HookType'
  <2>1. \E s \in At : Step(h, s)
    BY <1>4 DEF Open, Check, RecvFails, Close, LastFlush, At
  <2>2. UNCHANGED <<flagged, holding, after>>
    BY <1>4, Zenon DEF Open, Check, RecvFails, Close, LastFlush, history
  <2>3. hook' \in [Hook -> At] /\ flagged' = flagged /\ holding' = holding /\ after' = after
    BY <1>s, <2>1, <2>2, Zenon
  <2>. QED
    BY <1>h, <2>3, Zenon DEF HookType
<1>5. ASSUME NEW h \in Hook, Send(h) PROVE HookType'
  <2>1. after' = after \/ after' = [after EXCEPT ![h] = @ + 1]
    BY <1>5, Zenon DEF Send
  <2>2. /\ holding' = [holding EXCEPT ![h] = "nobody"]
        /\ Step(h, "check") /\ flagged' = flagged
    BY <1>5, Zenon DEF Send
  <2>3. after' \in [Hook -> Nat]
    BY <1>h, <2>1
  <2>4. hook' \in [Hook -> At] /\ holding' \in [Hook -> Asker \cup {"nobody"}]
    BY <1>h, <1>s, <2>2 DEF At
  <2>. QED
    BY <1>h, <2>2, <2>3, <2>4, Zenon DEF HookType
<1>6. ASSUME NEW h \in Hook, NEW a \in Asker, Recv(h, a) PROVE HookType'
  <2>1. /\ holding' = [holding EXCEPT ![h] = a]
        /\ Step(h, "holding") /\ flagged' = flagged /\ after' = after
    BY <1>6, Zenon DEF Recv, history
  <2>2. hook' \in [Hook -> At] /\ holding' \in [Hook -> Asker \cup {"nobody"}]
    BY <1>h, <1>s, <2>1 DEF At
  <2>. QED
    BY <1>h, <2>1, <2>2, Zenon DEF HookType
<1>7. CASE UNCHANGED <<hooks, after>>
  <2>1. hook' = hook /\ flagged' = flagged /\ holding' = holding /\ after' = after
    BY <1>7, Zenon DEF hooks
  <2>. QED
    BY <1>h, <2>1, Zenon DEF HookType
<1>8. CASE UNCHANGED vars
  BY <1>8, <1>7, Zenon DEF vars, hooks
<1>9. ASSUME NEW a \in Asker, AppAsks(a) \/ OwnAsks(a) \/ ServerAnswers(a) \/ SteeredArrives(a)
                                  \/ TimesOut(a)
      PROVE  HookType'
  <2>1. UNCHANGED <<hooks, after>>
    BY <1>9, Zenon DEF AppAsks, OwnAsks, ServerAnswers, SteeredArrives, Arrives, TimesOut,
       history
  <2>. QED
    BY <1>7, <2>1
<1>10. CASE StrayArrives \/ Expire
  <2>1. UNCHANGED <<hooks, after>>
    BY <1>10, Zenon DEF StrayArrives, Expire, history
  <2>. QED
    BY <1>7, <2>1
<1>. QED
  BY <1>1, <1>2, <1>4, <1>5, <1>6, <1>8, <1>9, <1>10, Zenon DEF Next

LEMMA QueryStep == TypeOK /\ [Next]_vars => QueryType'
<1>. SUFFICES ASSUME TypeOK, QueryType, [Next]_vars PROVE QueryType'
  BY Parts
<1>. USE DEF QueryType
<1>i. \A a \in Asker : query[a] \in Query
  OBVIOUS
<1>1. ASSUME NEW a \in Asker, NEW q \in Query, query' = [query EXCEPT ![a] = q]
      PROVE  QueryType'
  BY <1>1
<1>2. CASE UNCHANGED query
  BY <1>2
<1>3. ASSUME NEW h \in Hook, Send(h) PROVE QueryType'
  <2>1. holding[h] \in Asker \cup {"nobody"}
    BY Parts DEF HookType
  <2>2. \A a \in Asker : /\ [query[a] EXCEPT !.st = "steered", !.by = 0, !.todo = {}] \in Query
                         /\ [query[a] EXCEPT !.st = "sent", !.by = 0] \in Query
    BY <1>i DEF Query
  <2>. DEFINE a == holding[h]
              q1 == [query[a] EXCEPT !.st = "steered", !.by = 0, !.todo = {}]
              q2 == [query[a] EXCEPT !.st = "sent", !.by = 0]
  <2>3. \/ query' = query \/ query' = [query EXCEPT ![a] = q1]
        \/ query' = [query EXCEPT ![a] = q2] \/ query' = [query EXCEPT ![a] = Idle]
    BY <1>3 DEF Send
  <2>4. a \in Asker => q1 \in Query /\ q2 \in Query
    BY <2>2, Zenon
  <2>. HIDE DEF a, q1, q2
  <2>. QED
    BY <1>1, <2>3, <2>4, IdleQuery
<1>4. ASSUME NEW h \in Hook, Close(h) PROVE QueryType'
  <2>1. \A a \in Asker : [query[a] EXCEPT !.todo = @ \ {h}] \in Query
    BY <1>i DEF Query
  <2>2. PICK lost : query' = [a \in Asker |-> IF a \in lost THEN Idle
                                              ELSE [query[a] EXCEPT !.todo = @ \ {h}]]
    BY <1>4, Zenon DEF Close
  <2>. QED
    BY <2>1, <2>2, IdleQuery
<1>5. ASSUME NEW h \in Hook, NEW a \in Asker, Recv(h, a) PROVE QueryType'
  <2>1. query' = [query EXCEPT ![a] = [query[a] EXCEPT !.st = "held", !.by = h, !.todo = @ \ {h}]]
    BY <1>5, <1>i DEF Recv, Query
  <2>2. [query[a] EXCEPT !.st = "held", !.by = h, !.todo = @ \ {h}] \in Query
    BY <1>i DEF Query
  <2>. QED
    BY <1>1, <2>1, <2>2
<1>6. ASSUME NEW a \in App, AppAsks(a) PROVE QueryType'
  <2>1. PICK n \in Name \cup {Other} : query' = [query EXCEPT ![a] = Asked(n, "stub", 0)]
    BY <1>6, Zenon DEF AppAsks
  <2>. QED
    BY <1>1, <2>1, AskedQuery
<1>7. ASSUME NEW r \in Resolver, OwnAsks(r) PROVE QueryType'
  <2>1. ids' \in 0..MaxOwn
    BY <1>7, Parts DEF OwnAsks, OwnType
  <2>2. PICK n \in Name : query' = [query EXCEPT ![r] = Asked(n, IF PortTaken THEN "ephemeral" ELSE "53453", ids')]
    BY <1>7, Zenon DEF OwnAsks
  <2>3. Asked(n, IF PortTaken THEN "ephemeral" ELSE "53453", ids') \in Query
    BY <2>1, AskedQuery
  <2>. QED
    BY <1>1, <2>2, <2>3
<1>8. ASSUME NEW a \in Asker, ServerAnswers(a) \/ SteeredArrives(a) \/ TimesOut(a) PROVE QueryType'
  <2>1. query' = [query EXCEPT ![a] = Idle]
    BY <1>8, Zenon DEF ServerAnswers, SteeredArrives, Arrives, TimesOut
  <2>. QED
    BY <1>1, <2>1, IdleQuery
<1>9. CASE StrayArrives
  <2>1. query' = query \/ \E r \in Resolver : query' = [query EXCEPT ![r] = Idle]
    BY <1>9, Zenon DEF StrayArrives
  <2>. QED
    BY <1>1, <2>1, IdleQuery
<1>10. ASSUME NEW h \in Hook, Open(h) \/ Check(h) \/ RecvFails(h) \/ LastFlush(h) PROVE QueryType'
  BY <1>10, Zenon DEF Open, Check, RecvFails, LastFlush
<1>11. CASE Start \/ Stop \/ Expire \/ UNCHANGED vars
  BY <1>11, Zenon DEF Start, Stop, Expire, vars
<1>. QED
  BY <1>3, <1>4, <1>5, <1>6, <1>7, <1>8, <1>9, <1>10, <1>11, Zenon DEF Next

(***************************************************************************)
(* What a step does to the query of an asker it is not about.              *)
(***************************************************************************)
Kept(a) ==
    /\ query'[a].name = query[a].name /\ query'[a].via = query[a].via /\ query'[a].id = query[a].id
    /\ query'[a].st # "idle" => query[a].st # "idle"
    /\ Spared(a) => query'[a].st = "sent" /\ query'[a].todo = {}
Quiet == strays' = strays /\ ids' = ids /\ overlapped' = overlapped

LEMMA QueryChange ==
    ASSUME TypeOK, [Next]_vars, NEW b \in Asker
    PROVE  \/ Kept(b) \/ query'[b] = Idle
           \/ b \in App /\ query'[b].via = "stub"
           \/ b \in Resolver /\ OwnAsks(b)
<1>q. query \in [Asker -> Query]
  BY Parts DEF QueryType
<1>1. CASE UNCHANGED query
  BY <1>1 DEF Kept, Spared
<1>o. ASSUME NEW a \in Asker, NEW q, query' = [query EXCEPT ![a] = q], b # a PROVE Kept(b)
  <2>. query'[b] = query[b]
    BY <1>q, <1>o
  <2>. QED
    BY DEF Kept, Spared
<1>2. ASSUME NEW a \in Asker, query' = [query EXCEPT ![a] = Idle]
      PROVE  Kept(b) \/ query'[b] = Idle
  <2>1. CASE b = a
    BY <1>q, <1>2, <2>1
  <2>2. CASE b # a
    BY <1>q, <1>2, <2>2 DEF Kept, Spared
  <2>. QED
    BY <2>1, <2>2
<1>3. ASSUME NEW h \in Hook, Send(h) PROVE Kept(b) \/ query'[b] = Idle
  <2>. DEFINE a == holding[h]
              q1 == [query[a] EXCEPT !.st = "steered", !.by = 0, !.todo = {}]
              q2 == [query[a] EXCEPT !.st = "sent", !.by = 0]
  <2>3. \/ query' = query
        \/ query[a].st = "held" /\ \/ query' = [query EXCEPT ![a] = q1]
                                   \/ query' = [query EXCEPT ![a] = q2]
                                   \/ query' = [query EXCEPT ![a] = Idle]
    BY <1>3 DEF Send
  <2>. HIDE DEF a
  <2>4. CASE b = a
    <3>1. query[a].st = "held" => \/ query'[a] = q1 \/ query'[a] = q2
                                  \/ query'[a] = Idle \/ query'[a] = query[a]
      BY <1>q, <2>3, <2>4
    <3>2. \A q \in Query : q.st = "held" => DOMAIN q = {"st", "name", "via", "todo", "by", "id"}
      BY DEF Query
    <3>. QED
      BY <1>q, <2>3, <2>4, <3>1, <3>2 DEF Kept, Spared
  <2>5. CASE b # a
    BY <1>q, <2>3, <2>5 DEF Kept, Spared
  <2>. QED
    BY <2>4, <2>5
<1>4. ASSUME NEW h \in Hook, Close(h) PROVE Kept(b) \/ query'[b] = Idle
  <2>2. PICK lost : query' = [c \in Asker |-> IF c \in lost THEN Idle
                                              ELSE [query[c] EXCEPT !.todo = @ \ {h}]]
    BY <1>4, Zenon DEF Close
  <2>3. query'[b] = Idle \/ query'[b] = [query[b] EXCEPT !.todo = @ \ {h}]
    BY <2>2
  <2>. QED
    BY <1>q, <2>3 DEF Kept, Spared, Query
<1>5. ASSUME NEW h \in Hook, NEW a \in Asker, Recv(h, a) PROVE Kept(b)
  <2>1. /\ query' = [query EXCEPT ![a].st = "held", ![a].by = h, ![a].todo = @ \ {h}]
        /\ query[a].st = "sent" /\ h \in query[a].todo
    BY <1>5, Zenon DEF Recv
  <2>4. CASE b = a
    BY <1>q, <2>1, <2>4 DEF Kept, Spared, Query
  <2>5. CASE b # a
    BY <1>q, <2>1, <2>5 DEF Kept, Spared
  <2>. QED
    BY <2>4, <2>5
<1>6. ASSUME NEW a \in App, AppAsks(a) PROVE Kept(b) \/ (b \in App /\ query'[b].via = "stub")
  <2>1. PICK n \in Name \cup {Other} : query' = [query EXCEPT ![a] = Asked(n, "stub", 0)]
    BY <1>6, Zenon DEF AppAsks
  <2>4. CASE b = a
    BY <1>q, <2>1, <2>4 DEF Asked
  <2>5. CASE b # a
    BY <1>o, <2>1, <2>5
  <2>. QED
    BY <2>4, <2>5
<1>7. ASSUME NEW r \in Resolver, OwnAsks(r) PROVE Kept(b) \/ (b \in Resolver /\ OwnAsks(b))
  <2>2. PICK n \in Name : query' = [query EXCEPT ![r] = Asked(n, IF PortTaken THEN "ephemeral" ELSE "53453", ids')]
    BY <1>7, Zenon DEF OwnAsks
  <2>4. CASE b = r
    BY <1>7, <2>4
  <2>5. CASE b # r
    BY <1>o, <2>2, <2>5
  <2>. QED
    BY <2>4, <2>5
<1>8. ASSUME NEW a \in Asker, ServerAnswers(a) \/ SteeredArrives(a) \/ TimesOut(a)
      PROVE  Kept(b) \/ query'[b] = Idle
  <2>1. query' = [query EXCEPT ![a] = Idle]
    BY <1>8, Zenon DEF ServerAnswers, SteeredArrives, Arrives, TimesOut
  <2>. QED
    BY <1>2, <2>1
<1>9. CASE StrayArrives
  <2>1. query' = query \/ \E r \in Resolver : query' = [query EXCEPT ![r] = Idle]
    BY <1>9, Zenon DEF StrayArrives
  <2>. QED
    BY <1>1, <1>2, <2>1
<1>10. ASSUME NEW h \in Hook, Open(h) \/ Check(h) \/ RecvFails(h) \/ LastFlush(h) PROVE UNCHANGED query
  BY <1>10, Zenon DEF Open, Check, RecvFails, LastFlush
<1>11. CASE Start \/ Stop \/ Expire \/ UNCHANGED vars
  BY <1>1, <1>11, Zenon DEF Start, Stop, Expire, vars
<1>. QED
  BY <1>1, <1>3, <1>4, <1>5, <1>6, <1>7, <1>8, <1>9, <1>10, <1>11, Zenon DEF Next

\* The identifiers, the answers nobody waits for and the mark change in three steps only.
LEMMA QuietStep ==
    [Next]_vars => \/ Quiet \/ StrayArrives
                   \/ \E r \in Resolver : OwnAsks(r)
                   \/ \E a \in Asker : TimesOut(a)
BY Zenon DEF Next, vars, Quiet, history, Start, Stop, Open, Check, RecvFails, Send, Close, LastFlush,
   Recv, AppAsks, ServerAnswers, SteeredArrives, Arrives, Expire

-----------------------------------------------------------------------------
(***************************************************************************)
(* The look-ups of the proxy.                                              *)
(***************************************************************************)
LEMMA MarkStays == [Next]_vars /\ overlapped => overlapped'
BY QuietStep, Zenon DEF Quiet, StrayArrives, history, OwnAsks, TimesOut

LEMMA AskedAt ==
    ASSUME TypeOK, NEW r \in Resolver, OwnAsks(r)
    PROVE  \E n \in Name :
              /\ query' = [query EXCEPT ![r] = query'[r]]
              /\ query'[r].st = "sent" /\ query'[r].name = n /\ query'[r].id = ids'
              /\ ids' = ids + 1 /\ strays' = strays
              /\ IF PortTaken THEN query'[r].via = "ephemeral" /\ overlapped'
                 ELSE query'[r].via = "53453" /\ query'[r].todo = {}
<1>. DEFINE via == IF PortTaken THEN "ephemeral" ELSE "53453"
<1>1. PICK n \in Name : query' = [query EXCEPT ![r] = Asked(n, via, ids')]
  BY Zenon DEF OwnAsks
<1>2. query'[r] = Asked(n, via, ids') /\ query' = [query EXCEPT ![r] = query'[r]]
  BY <1>1, Parts DEF QueryType
<1>3. Captured("53453") = {}
  BY DEF Captured
<1>4. ids' = ids + 1 /\ strays' = strays /\ (PortTaken => overlapped')
  BY DEF OwnAsks
<1>. QED
  BY <1>2, <1>3, <1>4 DEF Asked

LEMMA SparedStep ==
    ASSUME TypeOK, OwnSpared, [Next]_vars
    PROVE  OwnSpared'
<1>. SUFFICES ASSUME NEW r \in Resolver, query'[r].st # "idle"
              PROVE  Spared(r)' \/ overlapped'
  BY DEF OwnSpared
<1>1. CASE Kept(r)
  BY <1>1, MarkStays DEF Kept, Spared, OwnSpared
<1>2. CASE OwnAsks(r)
  BY <1>2, AskedAt DEF Spared
<1>3. ~(query'[r] = Idle)
  BY DEF Idle
<1>. QED
  BY <1>1, <1>2, <1>3, QueryChange

LEMMA OwnStep ==
    ASSUME TypeOK, StraysApart, [Next]_vars
    PROVE  OwnType'
<1>o. strays \subseteq Stray /\ ids \in 0..MaxOwn
  BY Parts DEF OwnType
<1>1. CASE Quiet
  BY <1>1, <1>o DEF Quiet, OwnType
<1>2. CASE StrayArrives
  BY <1>2, <1>o DEF StrayArrives, OwnType
<1>3. ASSUME NEW r \in Resolver, OwnAsks(r) PROVE OwnType'
  BY <1>3, <1>o DEF OwnAsks, OwnType
<1>4. ASSUME NEW a \in Asker, TimesOut(a) PROVE OwnType'
  <2>1. ids' = ids /\ query[a].st # "idle"
    BY <1>4 DEF TimesOut
  <2>2. \/ strays' = strays
        \/ query[a].via = "53453" /\ strays' = strays \cup {[id |-> query[a].id, of |-> query[a].name]}
    BY <1>4 DEF TimesOut
  <2>3. query[a].via = "53453" => query[a].id \in 1..ids /\ query[a].name \in Name
    BY <2>1 DEF StraysApart, AtPort
  <2>4. query[a].via = "53453" => [id |-> query[a].id, of |-> query[a].name] \in Stray
    BY <1>o, <2>3 DEF Stray
  <2>. QED
    BY <1>o, <2>1, <2>2, <2>4 DEF OwnType
<1>. QED
  BY <1>1, <1>2, <1>3, <1>4, QuietStep

\* Without a new identifier, a look-up at the port was there before the step.
LEMMA NoneJoins ==
    ASSUME TypeOK, [Next]_vars, ids' = ids, NEW r \in Resolver, AtPort(r)'
    PROVE  AtPort(r) /\ query'[r].id = query[r].id /\ query'[r].name = query[r].name
<1>1. ~OwnAsks(r)
  BY Parts DEF OwnAsks, OwnType
<1>2. query'[r] # Idle /\ r \in Asker /\ r \notin App
  BY DEF AtPort, Idle
<1>3. Kept(r)
  BY <1>1, <1>2, QueryChange
<1>. QED
  BY <1>3 DEF Kept, AtPort

LEMMA ApartStep ==
    ASSUME TypeOK, StraysApart, [Next]_vars
    PROVE  StraysApart'
<1>o. strays \subseteq Stray /\ ids \in 0..MaxOwn /\ query \in [Asker -> Query]
  BY Parts DEF OwnType, QueryType
<1>a. ASSUME NEW a \in App PROVE query'[a].via = "stub"
  <2>1. Kept(a) \/ query'[a] = Idle \/ query'[a].via = "stub"
    BY QueryChange
  <2>. QED
    BY <2>1 DEF Kept, Idle, StraysApart
<1>1. ASSUME ids' = ids, strays' \subseteq strays PROVE StraysApart'
  <2>1. \A p \in strays' : p.id <= ids'
    BY <1>1 DEF StraysApart
  <2>2. ASSUME NEW r \in Resolver, AtPort(r)'
        PROVE  /\ query'[r].id \in 1..ids' /\ query'[r].name \in Name
               /\ \A p \in strays' : p.id = query'[r].id => p.of = query'[r].name
               /\ \A s \in Resolver : AtPort(s)' => s = r
    <3>1. AtPort(r) /\ query'[r].id = query[r].id /\ query'[r].name = query[r].name
      BY <1>1, <2>2, NoneJoins
    <3>2. \A s \in Resolver : AtPort(s)' => AtPort(s)
      BY <1>1, NoneJoins
    <3>. QED
      BY <1>1, <3>1, <3>2 DEF StraysApart
  <2>. QED
    BY <1>a, <2>1, <2>2 DEF StraysApart
<1>2. CASE Quiet \/ StrayArrives
  BY <1>1, <1>2 DEF Quiet, StrayArrives
<1>3. ASSUME NEW q \in Resolver, OwnAsks(q) PROVE StraysApart'
  <2>1. PICK n \in Name :
          /\ query' = [query EXCEPT ![q] = query'[q]]
          /\ query'[q].st = "sent" /\ query'[q].name = n /\ query'[q].id = ids'
          /\ ids' = ids + 1 /\ strays' = strays
          /\ IF PortTaken THEN query'[q].via = "ephemeral" /\ overlapped'
             ELSE query'[q].via = "53453" /\ query'[q].todo = {}
    BY <1>3, AskedAt
  <2>2. \A p \in strays' : p.id <= ids /\ p.id <= ids' /\ p.id # ids'
    BY <1>o, <2>1 DEF StraysApart, Stray
  <2>3. \A r \in Resolver : r # q => query'[r] = query[r]
    BY <1>o, <2>1
  <2>4. CASE PortTaken
    <3>1. ~AtPort(q)'
      BY <2>1, <2>4 DEF AtPort
    <3>2. \A r \in Resolver : AtPort(r)' => AtPort(r) /\ r # q
      BY <2>3, <3>1 DEF AtPort
    <3>3. ASSUME NEW r \in Resolver, AtPort(r)'
          PROVE  /\ query'[r].id \in 1..ids' /\ query'[r].name \in Name
                 /\ \A p \in strays' : p.id = query'[r].id => p.of = query'[r].name
                 /\ \A s \in Resolver : AtPort(s)' => s = r
      <4>1. AtPort(r) /\ query'[r] = query[r]
        BY <2>3, <3>2, <3>3
      <4>2. query[r].id \in 1..ids'
        BY <1>o, <2>1, <4>1 DEF StraysApart
      <4>. QED
        BY <2>1, <3>2, <4>1, <4>2 DEF StraysApart
    <3>. QED
      BY <1>a, <2>2, <3>3 DEF StraysApart
  <2>5. CASE ~PortTaken
    <3>1. \A r \in Resolver : AtPort(r)' => r = q
      BY <2>3, <2>5 DEF AtPort, PortTaken
    <3>2. /\ query'[q].id \in 1..ids' /\ query'[q].name \in Name
          /\ \A p \in strays' : p.id # query'[q].id
      BY <1>o, <2>1, <2>2
    <3>. QED
      BY <1>a, <2>2, <3>1, <3>2 DEF StraysApart
  <2>. QED
    BY <2>4, <2>5
<1>4. ASSUME NEW a \in Asker, TimesOut(a) PROVE StraysApart'
  <2>1. ids' = ids /\ query[a].st # "idle" /\ query' = [query EXCEPT ![a] = Idle]
    BY <1>4 DEF TimesOut
  <2>2. \/ strays' = strays
        \/ query[a].via = "53453" /\ strays' = strays \cup {[id |-> query[a].id, of |-> query[a].name]}
    BY <1>4 DEF TimesOut
  <2>3. CASE query[a].via = "53453"
    <3>1. a \in Resolver /\ AtPort(a)
      BY <2>1, <2>3 DEF StraysApart, AtPort
    <3>2. \A r \in Resolver : ~AtPort(r)'
      <4>1. query'[a] = Idle
        BY <1>o, <2>1
      <4>2. ~AtPort(a)'
        BY <4>1 DEF AtPort, Idle
      <4>. QED
        BY <2>1, <3>1, <4>2, NoneJoins DEF StraysApart
    <3>3. \A p \in strays' : p.id <= ids'
      BY <1>o, <2>1, <2>2, <3>1 DEF StraysApart
    <3>. QED
      BY <1>a, <3>2, <3>3 DEF StraysApart
  <2>. QED
    BY <1>1, <2>1, <2>2, <2>3
<1>. QED
  BY <1>2, <1>3, <1>4, QuietStep

-----------------------------------------------------------------------------
(***************************************************************************)
(* The two caches.                                                         *)
(***************************************************************************)
LEMMA CachesChange ==
    [Next]_vars => \/ table' = table /\ late' = late /\ (os' = os \/ os' = {} \/ \E n \in os : os' = os \ {n})
                   \/ StrayArrives
                   \/ \E a \in Asker : ServerAnswers(a) \/ SteeredArrives(a)
BY Zenon DEF Next, vars, caches, history, Flushed, Start, Stop, Open, Check, RecvFails, Send, Close,
   LastFlush, Recv, AppAsks, OwnAsks, TimesOut, Expire

\* What enters the proxy's cache: an answer about the name it is stored under,
\* a steered one only to a look-up that was not at port 53453.
LEMMA Stored ==
    ASSUME TypeOK, OwnSpared, StraysApart, [Next]_vars
    PROVE  \/ table' = table
           \/ \E n \in Name \cup {Other} : \E v \in Answer :
                /\ table' = [table EXCEPT ![n] = v]
                /\ v.of = n /\ (v.addr = "loop" => overlapped)
<1>q. query \in [Asker -> Query] /\ strays \subseteq Stray
  BY Parts DEF QueryType, OwnType
<1>1. ASSUME NEW a \in Asker, NEW addr \in {"direct", "loop"}, Arrives(a, addr), table' # table,
             addr = "loop" => query[a].st = "steered"
      PROVE  \E n \in Name \cup {Other} : \E v \in Answer :
                /\ table' = [table EXCEPT ![n] = v]
                /\ v.of = n /\ (v.addr = "loop" => overlapped)
  <2>. DEFINE n == query[a].name
              v == [of |-> n, addr |-> addr]
  <2>1. a \in Resolver /\ table' = [table EXCEPT ![n] = v]
    BY <1>1 DEF Arrives
  <2>2. n \in Name \cup {Other}
    BY <1>q DEF Query
  <2>3. v \in Answer
    BY <2>2 DEF Answer
  <2>4. addr = "loop" => overlapped
    BY <1>1, <2>1 DEF OwnSpared, Spared
  <2>. QED
    BY <2>1, <2>2, <2>3, <2>4
<1>2. CASE StrayArrives
  <2>1. PICK p \in strays :
          \/ table' = table
          \/ \E r \in Resolver :
               /\ query[r].st # "idle" /\ query[r].via = "53453" /\ Mine(r, p)
               /\ table' = [table EXCEPT ![query[r].name] = [of |-> p.of, addr |-> "direct"]]
    BY <1>2, Zenon DEF StrayArrives
  <2>2. ASSUME NEW r \in Resolver, query[r].st # "idle", query[r].via = "53453", Mine(r, p)
        PROVE  p.of = query[r].name /\ query[r].name \in Name
    BY <2>2 DEF StraysApart, AtPort, Mine
  <2>3. [of |-> p.of, addr |-> "direct"] \in Answer
    BY <1>q DEF Answer, Stray
  <2>. QED
    BY <2>1, <2>2, <2>3
<1>3. ASSUME NEW a \in Asker, ServerAnswers(a) \/ SteeredArrives(a)
      PROVE  \E addr \in {"direct", "loop"} : /\ Arrives(a, addr)
                                              /\ addr = "loop" => query[a].st = "steered"
  BY <1>3 DEF ServerAnswers, SteeredArrives
<1>. QED
  BY <1>1, <1>2, <1>3, CachesChange

LEMMA CacheStep ==
    ASSUME TypeOK, OwnSpared, StraysApart, [Next]_vars
    PROVE  CacheType'
<1>c. os \subseteq Name /\ table \in [Name -> Answer \cup {Nothing}]
  BY Parts DEF CacheType
<1>1. table' \in [Name -> Answer \cup {Nothing}]
  BY <1>c, Stored
<1>2. ASSUME NEW a \in Asker, NEW addr, Arrives(a, addr) PROVE os' \subseteq Name
  <2>1. query[a].name \in Name \cup {Other}
    BY Parts DEF QueryType, Query
  <2>. QED
    BY <1>c, <1>2, <2>1 DEF Arrives
<1>3. os' \subseteq Name
  BY <1>c, <1>2, CachesChange DEF StrayArrives, ServerAnswers, SteeredArrives
<1>. QED
  BY <1>1, <1>3 DEF CacheType

LEMMA DirectStep ==
    ASSUME TypeOK, OwnSpared, StraysApart, OwnLookupsAreDirect, AnswersItsOwn, [Next]_vars
    PROVE  OwnLookupsAreDirect' /\ AnswersItsOwn'
<1>c. table \in [Name -> Answer \cup {Nothing}]
  BY Parts DEF CacheType
<1>1. CASE table' = table
  BY <1>1, MarkStays DEF OwnLookupsAreDirect, AnswersItsOwn
<1>2. ASSUME NEW n \in Name \cup {Other}, NEW v \in Answer, table' = [table EXCEPT ![n] = v],
             v.of = n, v.addr = "loop" => overlapped, NEW m \in Name
      PROVE  /\ table'[m].addr = "loop" => overlapped'
             /\ table'[m] # Nothing => table'[m].of = m
  <2>1. CASE m = n
    BY <1>c, <1>2, <2>1, MarkStays
  <2>2. CASE m # n
    <3>1. table'[m] = table[m]
      BY <1>c, <1>2, <2>2
    <3>. QED
      BY <3>1, MarkStays DEF OwnLookupsAreDirect, AnswersItsOwn
  <2>. QED
    BY <2>1, <2>2
<1>. QED
  BY <1>1, <1>2, Stored DEF OwnLookupsAreDirect, AnswersItsOwn

LEMMA FlagStep ==
    ASSUME TypeOK, [Next]_vars
    PROVE  FlagType'
<1>f. overlapped \in BOOLEAN /\ late \in BOOLEAN
  BY Parts, Zenon DEF FlagType
<1>1. overlapped' \in BOOLEAN
  <2>1. ASSUME NEW r \in Resolver, OwnAsks(r) PROVE overlapped' \in BOOLEAN
    BY <2>1, Zenon DEF OwnAsks
  <2>2. CASE overlapped' = overlapped
    BY <1>f, <2>2, Zenon
  <2>. QED
    BY <2>1, <2>2, QuietStep, Zenon DEF Quiet, StrayArrives, TimesOut, history
<1>2. late' \in BOOLEAN
  <2>1. ASSUME NEW a \in Asker, NEW addr, Arrives(a, addr) PROVE late' \in BOOLEAN
    BY <2>1, Zenon DEF Arrives
  <2>2. CASE late' = late
    BY <1>f, <2>2, Zenon
  <2>. QED
    BY <2>1, <2>2, CachesChange, Zenon DEF StrayArrives, history, ServerAnswers, SteeredArrives
<1>. QED
  BY <1>1, <1>2, Zenon DEF FlagType

-----------------------------------------------------------------------------
(***************************************************************************)
(* The hooks.                                                              *)
(***************************************************************************)
LEMMA StartsGrow == TypeOK /\ [Next]_vars => starts' \in {starts, starts + 1} /\ flagged \subseteq flagged'
<1>1. [Next]_vars => \/ (starts' = starts /\ flagged' = flagged) \/ Start \/ Stop
  BY Zenon DEF Next, vars, manager, hooks, Open, Check, RecvFails, Send, Close, LastFlush,
     Recv, AppAsks, OwnAsks, ServerAnswers, SteeredArrives, Arrives, TimesOut, StrayArrives, Expire
<1>. QED
  BY <1>1 DEF Start, Stop

\* What a step does to a hook: it leaves it alone, starts it or moves it on.
HookKept(h) == hook'[h] = hook[h] /\ after'[h] = after[h]

LEMMA HookChange ==
    ASSUME TypeOK, [Next]_vars, NEW h \in Hook
    PROVE  \/ HookKept(h)
           \/ h = starts + 1 /\ starts' = starts + 1 /\ after'[h] = after[h]
           \/ Open(h) \/ Check(h) \/ RecvFails(h) \/ Send(h) \/ Close(h) \/ LastFlush(h)
           \/ \E a \in Asker : Recv(h, a)
<1>h. hook \in [Hook -> At] /\ after \in [Hook -> Nat]
  BY Parts, Zenon DEF HookType
<1>1. CASE Start
  <2>1. /\ after' = after /\ starts' = starts + 1
        /\ hook' = hook \/ hook' = [hook EXCEPT ![starts + 1] = "opening"]
    BY <1>1 DEF Start, history
  <2>. QED
    BY <1>h, <2>1 DEF HookKept
<1>2. ASSUME NEW k \in Hook, NEW s, k # h, Step(k, s), after' = after PROVE HookKept(h)
  BY <1>h, <1>2 DEF Step, HookKept
<1>3. ASSUME NEW k \in Hook, k # h,
             \/ Open(k) \/ Check(k) \/ RecvFails(k) \/ Close(k) \/ LastFlush(k)
             \/ \E a \in Asker : Recv(k, a)
      PROVE  HookKept(h)
  <2>1. after' = after /\ \E s \in At : Step(k, s)
    BY <1>3 DEF Open, Check, RecvFails, Close, LastFlush, Recv, history, At
  <2>. QED
    BY <1>2, <1>3, <2>1
<1>4. ASSUME NEW k \in Hook, k # h, Send(k) PROVE HookKept(h)
  <2>1. hook' = [hook EXCEPT ![k] = "check"] /\ (after' = after \/ after' = [after EXCEPT ![k] = @ + 1])
    BY <1>4, Zenon DEF Send, Step
  <2>. QED
    BY <1>h, <1>4, <2>1 DEF HookKept
<1>5. CASE UNCHANGED <<hook, after>>
  BY <1>5 DEF HookKept
<1>6. [Next]_vars => \/ UNCHANGED <<hook, after>> \/ Start
                     \/ \E k \in Hook : \/ Open(k) \/ Check(k) \/ RecvFails(k) \/ Send(k)
                                       \/ Close(k) \/ LastFlush(k)
                                       \/ \E a \in Asker : Recv(k, a)
  BY Zenon DEF Next, vars, hooks, history, Stop, AppAsks, OwnAsks, ServerAnswers, SteeredArrives,
     Arrives, TimesOut, StrayArrives, Expire
<1>. QED
  BY <1>1, <1>3, <1>4, <1>5, <1>6

LEMMA OneMoreStep ==
    ASSUME TypeOK, OneMore, [Next]_vars
    PROVE  OneMore'
<1>. SUFFICES ASSUME NEW h \in Hook PROVE OneMoreBy(h)'
  BY DEF OneMore
<1>h. hook \in [Hook -> At] /\ after \in [Hook -> Nat] /\ starts \in Nat /\ h \in Nat
  BY Parts DEF HookType, ManagerType
<1>o. OneMoreBy(h) /\ starts' \in {starts, starts + 1} /\ flagged \subseteq flagged'
  BY StartsGrow DEF OneMore
<1>n. h > starts' => h > starts
  BY <1>h, <1>o
<1>1. CASE HookKept(h)
  BY <1>1, <1>n, <1>o, Zenon DEF HookKept, OneMoreBy
<1>2. CASE h = starts + 1 /\ starts' = starts + 1 /\ after'[h] = after[h]
  <2>1. h > starts /\ ~(h > starts')
    BY <1>2, <1>h
  <2>2. after'[h] = 0
    BY <1>2, <1>o, <2>1 DEF OneMoreBy
  <2>. QED
    BY <2>1, <2>2, Zenon DEF OneMoreBy
<1>3. ASSUME hook[h] # "none", after'[h] = after[h],
             after[h] # 0 => hook'[h] \in {"check", "closing", "last flush", "gone"}
      PROVE  OneMoreBy(h)'
  <2>1. ~(h > starts')
    BY <1>3, <1>n, <1>o DEF OneMoreBy
  <2>2. after[h] # 0 => after[h] = 1 /\ h \in flagged'
    BY <1>o DEF OneMoreBy
  <2>. QED
    BY <1>3, <2>1, <2>2, Zenon DEF OneMoreBy
<1>4. ASSUME NEW s, Step(h, s) PROVE hook'[h] = s
  BY <1>4, <1>h DEF Step
<1>5. CASE Open(h) \/ RecvFails(h) \/ Close(h) \/ LastFlush(h)
  <2>1. hook[h] # "none" /\ after'[h] = after[h]
    BY <1>5 DEF Open, RecvFails, Close, LastFlush, history
  <2>2. hook'[h] \in {"check", "closing", "last flush", "gone"}
    BY <1>4, <1>5 DEF Open, RecvFails, Close, LastFlush
  <2>. QED
    BY <1>3, <2>1, <2>2
<1>6. CASE Check(h)
  <2>1. hook[h] # "none" /\ after'[h] = after[h]
    BY <1>6 DEF Check, history
  <2>2. h \in flagged => hook'[h] = "closing"
    BY <1>4, <1>6 DEF Check
  <2>. QED
    BY <1>3, <1>o, <2>1, <2>2 DEF OneMoreBy
<1>7. ASSUME NEW a \in Asker, Recv(h, a) PROVE OneMoreBy(h)'
  BY <1>3, <1>7, <1>o DEF Recv, history, OneMoreBy
<1>8. CASE Send(h)
  <2>1. hook[h] = "holding" /\ hook'[h] = "check" /\ starts' = starts
    BY <1>4, <1>8 DEF Send, manager
  <2>2. after' = after \/ (h \in flagged /\ after' = [after EXCEPT ![h] = @ + 1])
    BY <1>8, Zenon DEF Send
  <2>3. after[h] = 0 /\ ~(h > starts)
    BY <1>o, <2>1 DEF OneMoreBy
  <2>. QED
    BY <1>h, <1>o, <2>1, <2>2, <2>3 DEF OneMoreBy
<1>. QED
  BY <1>1, <1>2, <1>5, <1>6, <1>7, <1>8, HookChange

\* A hook goes with its last flush.
LEMMA LastOneFlushes ==
    ASSUME TypeOK, OneMore, [Next]_vars, NEW h \in Hook, Live(h), ~Live(h)'
    PROVE  LastFlush(h)
<1>h. hook \in [Hook -> At] /\ starts \in Nat
  BY Parts DEF HookType, ManagerType
<1>l. /\ hook[h] \in {"check", "recv", "holding", "closing", "last flush"}
      /\ hook'[h] \notin {"check", "recv", "holding", "closing", "last flush"}
  BY DEF Live, Capturing
<1>s. ASSUME NEW s, Step(h, s) PROVE hook'[h] = s
  BY <1>h, <1>s DEF Step
<1>1. ~HookKept(h)
  BY <1>l DEF HookKept
<1>2. ASSUME h = starts + 1 PROVE FALSE
  <2>1. h > starts
    BY <1>2, <1>h
  <2>2. hook[h] = "none"
    BY <2>1, Zenon DEF OneMore, OneMoreBy
  <2>. QED
    BY <1>l, <2>2
<1>3. ~Open(h)
  BY <1>l DEF Open
<1>4. ASSUME Check(h) \/ RecvFails(h) \/ Send(h) \/ Close(h) PROVE FALSE
  <2>1. \E s \in {"check", "recv", "closing", "last flush"} : Step(h, s)
    BY <1>4, Zenon DEF Check, RecvFails, Send, Close
  <2>. QED
    BY <1>l, <1>s, <2>1
<1>5. ASSUME NEW a \in Asker, Recv(h, a) PROVE FALSE
  BY <1>5, <1>l, <1>s DEF Recv
<1>. QED
  BY <1>1, <1>2, <1>3, <1>4, <1>5, HookChange

\* The system's cache gets a steered answer while a hook is there, or marks it.
LEMMA FlushStep ==
    ASSUME TypeOK, OneMore, FlushedLast, [Next]_vars
    PROVE  FlushedLast'
<1>. SUFFICES ASSUME \A h \in Hook : ~Live(h)' PROVE late' \/ os' = {}
  BY Zenon DEF FlushedLast
<1>1. ASSUME NEW h \in Hook, Live(h) PROVE os' = {}
  BY <1>1, LastOneFlushes DEF LastFlush, Flushed
<1>2. CASE \A h \in Hook : ~Live(h)
  <2>1. late \/ os = {}
    BY <1>2 DEF FlushedLast
  <2>2. ASSUME NEW a \in Asker, NEW addr, Arrives(a, addr) PROVE late' \/ os' = {}
    <3>1. /\ late' = (late \/ (a \in App /\ query[a].name # Other /\ addr = "loop"))
          /\ os' \subseteq os \/ (a \in App /\ query[a].name # Other /\ addr = "loop")
      BY <1>2, <2>2 DEF Arrives
    <3>. QED
      BY <2>1, <3>1
  <2>. QED
    BY <2>1, <2>2, CachesChange DEF ServerAnswers, SteeredArrives, StrayArrives, history
<1>. QED
  BY <1>1, <1>2

-----------------------------------------------------------------------------
LEMMA Starts == Init => IInv
<1>. SUFFICES ASSUME Init PROVE IInv
  OBVIOUS
<1>1. ManagerType /\ OwnType /\ CacheType
  BY DEF Init, ManagerType, OwnType, CacheType
<1>2. HookType
  BY DEF Init, HookType, At
<1>3. QueryType
  BY IdleQuery DEF Init, QueryType
<1>4. FlagType
  BY Zenon DEF Init, FlagType
<1>5. TypeOK
  BY <1>1, <1>2, <1>3, <1>4, Parts
<1>6. \A a \in Asker : query[a] = Idle
  BY Zenon DEF Init
<1>7. OwnSpared
  BY <1>6 DEF OwnSpared, Idle
<1>8. StraysApart
  BY <1>6 DEF StraysApart, AtPort, Idle, Init
<1>9. OwnLookupsAreDirect /\ AnswersItsOwn
  BY DEF Init, OwnLookupsAreDirect, AnswersItsOwn, Nothing
<1>10. OneMore
  BY DEF Init, OneMore, OneMoreBy
<1>11. FlushedLast
  BY DEF Init, FlushedLast
<1>. QED
  BY <1>5, <1>7, <1>8, <1>9, <1>10, <1>11, Zenon DEF IInv

LEMMA Steps == IInv /\ [Next]_vars => IInv'
<1>. SUFFICES ASSUME IInv, [Next]_vars PROVE IInv'
  OBVIOUS
<1>i. /\ TypeOK /\ OwnSpared /\ OwnLookupsAreDirect /\ StraysApart /\ AnswersItsOwn
      /\ OneMore /\ FlushedLast
  BY Zenon DEF IInv
<1>1. ManagerType' /\ HookType' /\ QueryType' /\ OwnType' /\ CacheType' /\ FlagType'
  BY <1>i, ManagerStep, HookStep, QueryStep, OwnStep, CacheStep, FlagStep, Zenon
<1>p. (TypeOK <=> ManagerType /\ HookType /\ QueryType /\ OwnType /\ CacheType /\ FlagType)'
  BY Parts, PTL
<1>2. TypeOK'
  BY <1>1, <1>p, Zenon
<1>3. OwnSpared' /\ OwnLookupsAreDirect' /\ StraysApart' /\ AnswersItsOwn' /\ OneMore' /\ FlushedLast'
  BY <1>i, SparedStep, ApartStep, DirectStep, OneMoreStep, FlushStep, Zenon
<1>. QED
  BY <1>2, <1>3, Zenon DEF IInv

\* The invariant of the interceptor: the types, and what its three properties rest on.
THEOREM Inductive == Spec => []IInv
BY Starts, Steps, PTL DEF Spec

\* Own look-ups of the proxy are direct unless two of them ran at once: for any
\* number of hooks, programs and look-ups, a query from port 53453 is in no
\* hook's queue (DNS_FILTER), and dns_query falls back to another port only while
\* that one is taken.
THEOREM OwnDirect == Spec => []OwnLookupsAreDirect
<1>1. IInv => OwnLookupsAreDirect
  BY Zenon DEF IInv
<1>. QED
  BY <1>1, Inductive, PTL

\* What dns_query stores under a name is an answer about that name, however many
\* look-ups gave up before theirs came: no identifier is used twice (IdAssumption:
\* fewer than the 2^16 after which DNS_ID starts again), and the port belongs to one look-up
\* at a time.
THEOREM OwnAnswers == Spec => []AnswersItsOwn
<1>1. IInv => AnswersItsOwn
  BY Zenon DEF IInv
<1>. QED
  BY <1>1, Inductive, PTL

\* A raised flag lets a hook answer one more query and never two, and the last hook
\* to go leaves no steered answer in the system's cache, but one that was under way
\* (DnsInterceptRuntime::run reads the flag between two packets and flushes the
\* cache behind its loop).
THEOREM SteeringEnds == Spec => []NothingStaysSteered
<1>1. IInv => NothingStaysSteered
  <2>. SUFFICES ASSUME IInv PROVE NothingStaysSteered
    OBVIOUS
  <2>1. TypeOK /\ OneMore /\ FlushedLast
    BY Zenon DEF IInv
  <2>2. ASSUME NEW h \in Hook PROVE after[h] <= 1
    <3>1. after[h] = 0 \/ after[h] = 1
      BY <2>1, Zenon DEF OneMore, OneMoreBy
    <3>. QED
      BY <3>1
  <2>. QED
    BY <2>1, <2>2, Zenon DEF NothingStaysSteered, FlushedLast
<1>. QED
  BY <1>1, Inductive, PTL
=============================================================================
