-------------------------- MODULE DnsResolverProofs --------------------------
(***************************************************************************)
(* Families stay apart in DnsResolver, and a call that comes back empty    *)
(* has asked every plain source, for any endpoints, servers and addresses. *)
(*                                                                         *)
(* The cache is single-family because every lookup stores the records of   *)
(* its own type; a call on a network without IPv6 only ever holds IPv4     *)
(* lookups, in its tasks and in its result.  Neither fact is inductive     *)
(* without the other: what a task holds may come from the cache.           *)
(* For the second (InVain) a call's place in the list of servers and its   *)
(* record type tell which of them have been asked in vain.                 *)
(***************************************************************************)
EXTENDS DnsResolver, TLAPS

Address == V4 \cup V6

\* What every entry of the cache is.
TableOK ==
    /\ table \in [Key -> SUBSET Address]
    /\ \A k \in Key : table[k] \subseteq AddrOf(k[2])

\* On a network without IPv6 no lookup of the call asks for it.
V4Only == ~v6 => /\ fam = "A"
                 /\ ips \subseteq V4
                 /\ \A s \in Source : task[s].fam = "A"

IInv == TypeOK /\ TableOK /\ V4Only

\* The beginning of a lookup yields a task of its family.
LEMMA BegunTask ==
    ASSUME TableOK, NEW s \in Source, NEW f \in Family
    PROVE  Begun(s, f) \in Task /\ Begun(s, f).fam = f
<1>1. <<s, f>> \in Key
  BY DEF Key
<1>2. table[<<s, f>>] \in SUBSET Address /\ table[<<s, f>>] \subseteq AddrOf(f)
  BY <1>1 DEF TableOK
<1>. QED
  BY <1>2 DEF Begun, Task, Address

LEMMA OffTask == Off \in Task /\ Off.fam = "A"
BY DEF Off, Task, Family

\* Storing the records of a family keeps the table single-family.
LEMMA PutKeeps ==
    ASSUME TableOK, NEW s \in Source, NEW f \in Family,
           NEW found, found \subseteq Address \cap AddrOf(f), Put(<<s, f>>, found)
    PROVE  TableOK'
<1>1. <<s, f>> \in Key /\ <<s, f>>[2] = f
  BY DEF Key
<1>2. CASE found = {}
  BY <1>2 DEF Put, TableOK, Key, AddrOf
<1>3. CASE found # {}
  <2>1. table' = [table EXCEPT ![<<s, f>>] = found]
    BY <1>3 DEF Put
  <2>2. table' \in [Key -> SUBSET Address]
    BY <1>1, <2>1 DEF TableOK
  <2>3. \A k \in Key : table'[k] = IF k = <<s, f>> THEN found ELSE table[k]
    BY <1>1, <2>1 DEF TableOK
  <2>4. \A k \in Key : table'[k] \subseteq AddrOf(k[2])
    BY <1>1, <2>3 DEF TableOK
  <2>. QED
    BY <2>2, <2>4 DEF TableOK, Key, AddrOf
<1>. QED
  BY <1>2, <1>3

\* What a lookup of the call holds may be handed to the caller.
LEMMA TaskHolds ==
    ASSUME IInv, NEW s \in Source
    PROVE  /\ task[s] \in Task
           /\ task[s].fam \in Family
           /\ task[s].ips \subseteq Address
           /\ ~v6 => task[s].fam = "A" /\ task[s].ips \subseteq V4
<1>1. task[s] \in Task
  BY DEF IInv, TypeOK
<1>2. /\ task[s].fam \in Family
      /\ task[s].ips \subseteq Address
      /\ task[s].ips \subseteq AddrOf(task[s].fam)
  BY <1>1 DEF Task, Address
<1>3. ~v6 => task[s].fam = "A"
  BY DEF IInv, V4Only
<1>. QED
  BY <1>1, <1>2, <1>3 DEF AddrOf

LEMMA WantedFamily == Wanted \in Family /\ (~v6 => Wanted = "A")
BY DEF Wanted, Family

LEMMA AbandonedDoh ==
    ASSUME IInv
    PROVE  stray \cup Abandoned \in SUBSET (DohSource \X Family)
<1>1. \A r \in DohSource : task[r].fam \in Family
  BY TaskHolds DEF Source
<1>. QED
  BY <1>1 DEF Abandoned, IInv, TypeOK

\* Every task is switched off, as it is when a leg ends.
LEMMA AllOff ==
    ASSUME task' = [s \in Source |-> Off]
    PROVE  task' \in [Source -> Task] /\ \A s \in Source : task'[s].fam = "A"
BY OffTask

LEMMA ReturnKeeps ==
    ASSUME IInv, NEW found, NEW by \in {"doh", "plain"},
           found \subseteq Address, ~v6 => found \subseteq V4,
           silent' \in SUBSET (PlainSource \X Family), Return(found, by)
    PROVE  IInv'
<1>1. UNCHANGED <<v6, table, fam, at>>
  BY DEF Return
<1>2. v6' = v6 /\ table' = table /\ fam' = fam /\ at' = at
  BY <1>1
<1>3. /\ task' \in [Source -> Task]
      /\ \A s \in Source : task'[s].fam = "A"
  BY AllOff DEF Return
<1>4. TypeOK'
  BY <1>2, <1>3, AbandonedDoh DEF IInv, TypeOK, Return, Address
<1>5. TableOK'
  BY <1>2 DEF IInv, TableOK, Key, AddrOf
<1>6. V4Only'
  BY <1>2, <1>3 DEF IInv, V4Only, Return
<1>. QED
  BY <1>4, <1>5, <1>6 DEF IInv

LEMMA ToServersKeeps ==
    ASSUME IInv, ToServers
    PROVE  IInv'
<1>1. UNCHANGED <<v6, table, ips, via, silent>>
  BY DEF ToServers
<1>2. v6' = v6 /\ table' = table /\ ips' = ips /\ via' = via /\ silent' = silent
  BY <1>1
<1>3. /\ task' \in [Source -> Task]
      /\ \A s \in Source : task'[s].fam = "A"
  BY AllOff DEF ToServers
<1>4. TypeOK'
  BY <1>2, <1>3, AbandonedDoh, WantedFamily DEF IInv, TypeOK, ToServers
<1>5. TableOK'
  BY <1>2 DEF IInv, TableOK, Key, AddrOf
<1>6. V4Only'
  BY <1>2, <1>3, WantedFamily DEF IInv, V4Only, ToServers
<1>. QED
  BY <1>4, <1>5, <1>6 DEF IInv

LEMMA AfterServersKeeps ==
    ASSUME IInv, NEW found,
           found \subseteq Address, ~v6 => found \subseteq V4,
           silent' = silent, AfterServers(found)
    PROVE  IInv'
<1>1. CASE fam = "A" /\ found # {}
  <2>1. silent' \in SUBSET (PlainSource \X Family)
    BY DEF IInv, TypeOK
  <2>. QED
    BY <1>1, <2>1, ReturnKeeps DEF AfterServers
<1>2. CASE ~(fam = "A" /\ found # {})
  <2>1. /\ IF fam = "AAAA" THEN fam' = "A" /\ UNCHANGED pc
                           ELSE fam' = Wanted /\ pc' = "os"
        /\ at' = 1
        /\ ips' = found
        /\ task' = [s \in Source |-> Off]
        /\ UNCHANGED <<v6, table, stray, via>>
    BY <1>2 DEF AfterServers
  <2>2. v6' = v6 /\ table' = table /\ stray' = stray /\ via' = via
    BY <2>1
  <2>3. /\ task' \in [Source -> Task]
        /\ \A s \in Source : task'[s].fam = "A"
    BY <2>1, AllOff
  <2>4. /\ fam' \in Family /\ (~v6 => fam' = "A")
        /\ pc' \in {"idle", "doh", "race", "servers", "os", "returned"}
    BY <2>1, WantedFamily DEF IInv, TypeOK, Family
  <2>5. TypeOK'
    BY <2>1, <2>2, <2>3, <2>4 DEF IInv, TypeOK, Address
  <2>6. TableOK'
    BY <2>2 DEF IInv, TableOK, Key, AddrOf
  <2>7. V4Only'
    BY <2>1, <2>2, <2>3, <2>4 DEF IInv, V4Only
  <2>. QED
    BY <2>5, <2>6, <2>7 DEF IInv
<1>. QED
  BY <1>1, <1>2

\* The lookup of one source begins or ends; nothing else of the call changes.
LEMMA OneTask ==
    ASSUME IInv, NEW s \in Source, NEW t \in Task, ~v6 => t.fam = "A",
           task' = [task EXCEPT ![s] = t]
    PROVE  /\ task' \in [Source -> Task]
           /\ ~v6 => \A r \in Source : task'[r].fam = "A"
<1>1. task \in [Source -> Task]
  BY DEF IInv, TypeOK
<1>2. \A r \in Source : task'[r] = IF r = s THEN t ELSE task[r]
  BY <1>1
<1>. QED
  BY <1>1, <1>2 DEF IInv, V4Only

LEMMA InitHolds == Init => IInv
<1>. SUFFICES ASSUME Init
     PROVE  IInv
  OBVIOUS
<1>1. TypeOK
  BY OffTask DEF Init, TypeOK, Key, Family
<1>2. TableOK
  BY DEF Init, TableOK
<1>3. V4Only
  BY OffTask DEF Init, V4Only
<1>. QED
  BY <1>1, <1>2, <1>3 DEF IInv

LEMMA ResolveKeeps ==
    ASSUME IInv, NEW useDoh \in BOOLEAN, Resolve(useDoh)
    PROVE  IInv'
<1>1. /\ v6' = v6 /\ table' = table /\ stray' = stray
      /\ ips' = {} /\ silent' = {} /\ fam' = Wanted /\ at' = 1 /\ via' = "doh"
      /\ pc' \in {"doh", "servers"}
  BY Zenon DEF Resolve
<1>2. /\ task' \in [Source -> Task]
      /\ ~v6 => \A r \in Source : task'[r].fam = "A"
  <2>1. CASE useDoh
    <3>1. task' = [task EXCEPT ![Configured] = Begun(Configured, Wanted)]
      BY <2>1 DEF Resolve
    <3>2. Configured \in Source
      BY DEF Source, DohSource
    <3>3. /\ Begun(Configured, Wanted) \in Task
          /\ Begun(Configured, Wanted).fam = Wanted
      BY <3>2, WantedFamily, BegunTask DEF IInv
    <3>. QED
      BY <3>1, <3>2, <3>3, WantedFamily, OneTask
  <2>2. CASE ~useDoh
    <3>1. task' = task
      BY <2>2 DEF Resolve
    <3>. QED
      BY <3>1 DEF IInv, TypeOK, V4Only
  <2>. QED
    BY <2>1, <2>2
<1>3. TypeOK'
  BY <1>1, <1>2, WantedFamily DEF IInv, TypeOK
<1>4. TableOK'
  BY <1>1 DEF IInv, TableOK, Key, AddrOf
<1>5. V4Only'
  BY <1>1, <1>2, WantedFamily DEF V4Only
<1>. QED
  BY <1>3, <1>4, <1>5 DEF IInv

LEMMA RaceKeeps ==
    ASSUME IInv, DohAnswers \/ StartRace \/ AwaitNext \/ RaceLost \/ Deadline
    PROVE  IInv'
<1>1. CASE DohAnswers
  <2>1. Configured \in Source
    BY DEF Source, DohSource
  <2>2. silent' \in SUBSET (PlainSource \X Family)
    BY <1>1 DEF DohAnswers, IInv, TypeOK
  <2>3. Return(task[Configured].ips, "doh")
    BY <1>1 DEF DohAnswers
  <2>. QED
    BY <2>1, <2>2, <2>3, TaskHolds, ReturnKeeps
<1>2. CASE StartRace
  <2>1. /\ v6' = v6 /\ table' = table /\ stray' = stray /\ fam' = fam
        /\ ips' = ips /\ via' = via /\ silent' = silent
        /\ pc' = "race" /\ at' = 1
    BY <1>2, Zenon DEF StartRace
  <2>2. task' = [s \in Source |-> IF s \in Elements(Race) THEN Begun(s, Wanted) ELSE Off]
    BY <1>2 DEF StartRace
  <2>3. \A s \in Source : task'[s] \in Task /\ (~v6 => task'[s].fam = "A")
    BY <2>2, BegunTask, OffTask, WantedFamily DEF IInv
  <2>4. task' \in [Source -> Task]
    BY <2>2, <2>3
  <2>5. TypeOK'
    BY <2>1, <2>4 DEF IInv, TypeOK
  <2>6. TableOK'
    BY <2>1 DEF IInv, TableOK, Key, AddrOf
  <2>7. V4Only'
    BY <2>1, <2>3 DEF IInv, V4Only
  <2>. QED
    BY <2>5, <2>6, <2>7 DEF IInv
<1>3. CASE AwaitNext
  <2>1. Race[at] \in Source /\ silent' = silent
    BY <1>3 DEF AwaitNext, Source, DohSource, Elements
  <2>2. CASE task[Race[at]].ips # {}
    <3>1. silent' \in SUBSET (PlainSource \X Family)
      BY <2>1 DEF IInv, TypeOK
    <3>2. Return(task[Race[at]].ips, "doh")
      BY <1>3, <2>2 DEF AwaitNext
    <3>. QED
      BY <2>1, <3>1, <3>2, TaskHolds, ReturnKeeps
  <2>3. CASE task[Race[at]].ips = {}
    <3>1. /\ at' = at + 1
          /\ v6' = v6 /\ table' = table /\ task' = task /\ stray' = stray
          /\ pc' = pc /\ fam' = fam /\ ips' = ips /\ via' = via
      BY <1>3, <2>3 DEF AwaitNext
    <3>. QED
      BY <2>1, <3>1 DEF IInv, TypeOK, TableOK, V4Only, Key, AddrOf
  <2>. QED
    BY <2>2, <2>3
<1>4. CASE RaceLost \/ Deadline
  BY <1>4, ToServersKeeps DEF RaceLost, Deadline
<1>. QED
  BY <1>1, <1>2, <1>3, <1>4

LEMMA ServersKeep ==
    ASSUME IInv, AskServer \/ ServerAnswers \/ ServerSilent \/ ServersSilent
    PROVE  IInv'
<1>0. at \in DOMAIN Server => Server[at] \in PlainSource /\ Server[at] \in Source
  BY DEF Source, PlainSource, Elements
<1>1. CASE AskServer
  <2>1. /\ v6' = v6 /\ table' = table /\ stray' = stray /\ pc' = pc
        /\ fam' = fam /\ at' = at /\ ips' = ips /\ via' = via /\ silent' = silent
        /\ task' = [task EXCEPT ![Server[at]] = Begun(Server[at], fam)]
        /\ Server[at] \in Source
    BY <1>0, <1>1, Zenon DEF AskServer
  <2>2. /\ Begun(Server[at], fam) \in Task
        /\ ~v6 => Begun(Server[at], fam).fam = "A"
    BY <2>1, BegunTask DEF IInv, TypeOK, V4Only
  <2>3. /\ task' \in [Source -> Task]
        /\ ~v6 => \A r \in Source : task'[r].fam = "A"
    BY <2>1, <2>2, OneTask
  <2>. QED
    BY <2>1, <2>3 DEF IInv, TypeOK, TableOK, V4Only, Key, AddrOf
<1>2. CASE ServerAnswers
  <2>1. /\ Server[at] \in Source
        /\ silent' = silent
        /\ AfterServers(ips \cup task[Server[at]].ips)
    BY <1>0, <1>2 DEF ServerAnswers
  <2>2. /\ ips \cup task[Server[at]].ips \subseteq Address
        /\ ~v6 => ips \cup task[Server[at]].ips \subseteq V4
    BY <2>1, TaskHolds DEF IInv, TypeOK, V4Only, Address
  <2>. QED
    BY <2>1, <2>2, AfterServersKeeps
<1>3. CASE ServerSilent
  <2>1. /\ v6' = v6 /\ table' = table /\ stray' = stray /\ pc' = pc
        /\ fam' = fam /\ ips' = ips /\ via' = via
        /\ at' = at + 1
        /\ silent' = silent \cup {<<Server[at], fam>>}
        /\ task' = [task EXCEPT ![Server[at]] = Off]
        /\ Server[at] \in Source /\ Server[at] \in PlainSource
    BY <1>0, <1>3, Zenon DEF ServerSilent
  <2>2. /\ task' \in [Source -> Task]
        /\ ~v6 => \A r \in Source : task'[r].fam = "A"
    BY <2>1, OffTask, OneTask
  <2>3. TypeOK'
    BY <2>1, <2>2 DEF IInv, TypeOK
  <2>. QED
    BY <2>1, <2>2, <2>3 DEF IInv, TableOK, V4Only, Key, AddrOf
<1>4. CASE ServersSilent
  <2>1. silent' = silent /\ AfterServers(ips)
    BY <1>4 DEF ServersSilent
  <2>2. ips \subseteq Address /\ (~v6 => ips \subseteq V4)
    BY DEF IInv, TypeOK, V4Only, Address
  <2>. QED
    BY <2>1, <2>2, AfterServersKeeps
<1>. QED
  BY <1>1, <1>2, <1>3, <1>4

LEMMA SystemKeeps ==
    ASSUME IInv, AskOS \/ OSDone
    PROVE  IInv'
<1>0. OS \in Source /\ OS \in PlainSource
  BY DEF Source, PlainSource
<1>1. CASE AskOS
  <2>1. /\ v6' = v6 /\ table' = table /\ stray' = stray /\ pc' = pc
        /\ fam' = fam /\ at' = at /\ ips' = ips /\ via' = via /\ silent' = silent
        /\ task' = [task EXCEPT ![OS] = Begun(OS, fam)]
    BY <1>1, Zenon DEF AskOS
  <2>2. /\ Begun(OS, fam) \in Task
        /\ ~v6 => Begun(OS, fam).fam = "A"
    BY <1>0, BegunTask DEF IInv, TypeOK, V4Only
  <2>3. /\ task' \in [Source -> Task]
        /\ ~v6 => \A r \in Source : task'[r].fam = "A"
    BY <1>0, <2>1, <2>2, OneTask
  <2>. QED
    BY <2>1, <2>3 DEF IInv, TypeOK, TableOK, V4Only, Key, AddrOf
<1>2. CASE OSDone
  <2>1. /\ ips \cup task[OS].ips \subseteq Address
        /\ ~v6 => ips \cup task[OS].ips \subseteq V4
    BY <1>0, TaskHolds DEF IInv, TypeOK, V4Only, Address
  <2>2. silent' \in SUBSET (PlainSource \X Family)
    BY <1>0, <1>2 DEF OSDone, IInv, TypeOK
  <2>3. CASE fam = "AAAA"
    <3>1. /\ v6' = v6 /\ table' = table /\ stray' = stray /\ pc' = pc
          /\ at' = at /\ via' = via /\ fam' = "A"
          /\ ips' = ips \cup task[OS].ips
          /\ task' = [task EXCEPT ![OS] = Off]
      BY <1>2, <2>3 DEF OSDone
    <3>2. /\ task' \in [Source -> Task]
          /\ ~v6 => \A r \in Source : task'[r].fam = "A"
      BY <1>0, <3>1, OffTask, OneTask
    <3>3. TypeOK'
      BY <2>1, <2>2, <3>1, <3>2 DEF IInv, TypeOK, Address, Family
    <3>. QED
      BY <2>1, <3>1, <3>2, <3>3 DEF IInv, TableOK, V4Only, Key, AddrOf
  <2>4. CASE fam # "AAAA"
    <3>1. Return(ips \cup task[OS].ips, "plain")
      BY <1>2, <2>4 DEF OSDone
    <3>. QED
      BY <2>1, <2>2, <3>1, ReturnKeeps
  <2>. QED
    BY <2>3, <2>4
<1>. QED
  BY <1>1, <1>2

\* The records kept are of the family that was asked for.
LEMMA ParsedKeeps ==
    ASSUME NEW records \in SUBSET (V4 \cup V6), NEW f \in Family
    PROVE  Parsed(records, f) \subseteq Address \cap AddrOf(f)
BY DEF Parsed, Address

LEMMA AnswerKeeps ==
    ASSUME IInv, NEW s \in Source, NEW records \in SUBSET (V4 \cup V6),
           Answer(s, records)
    PROVE  IInv'
<1>. DEFINE f == task[s].fam
            found == Parsed(records, f)
            t == IF Retries(s, f, found) THEN Begun(s, "A")
                 ELSE [st |-> "done", fam |-> f, ips |-> found]
<1>1. /\ v6' = v6 /\ stray' = stray /\ pc' = pc /\ fam' = fam /\ at' = at
      /\ ips' = ips /\ via' = via /\ silent' = silent
      /\ Put(<<s, f>>, found)
      /\ task' = [task EXCEPT ![s] = t]
  BY Zenon DEF Answer
<1>2. /\ f \in Family
      /\ ~v6 => f = "A"
      /\ found \subseteq Address \cap AddrOf(f)
  BY TaskHolds, ParsedKeeps
<1>3. t \in Task /\ (~v6 => t.fam = "A")
  <2>1. Begun(s, "A") \in Task /\ Begun(s, "A").fam = "A"
    BY BegunTask DEF IInv, Family
  <2>2. [st |-> "done", fam |-> f, ips |-> found] \in Task
    BY <1>2 DEF Task, Address
  <2>. HIDE DEF f, found
  <2>. QED
    BY <1>2, <2>1, <2>2
<1>4. TableOK'
  <2>. HIDE DEF f, found
  <2>. QED
    BY <1>1, <1>2, PutKeeps DEF IInv
<1>5. /\ task' \in [Source -> Task]
      /\ ~v6 => \A r \in Source : task'[r].fam = "A"
  <2>. HIDE DEF t
  <2>. QED
    BY <1>1, <1>3, OneTask
<1>6. TypeOK'
  <2>. HIDE DEF t, f, found
  <2>1. table' \in [Key -> SUBSET (V4 \cup V6)]
    BY <1>4 DEF TableOK, Address, Key
  <2>. QED
    BY <1>1, <1>5, <2>1 DEF IInv, TypeOK
<1>7. V4Only'
  <2>. HIDE DEF t, f, found
  <2>. QED
    BY <1>1, <1>5 DEF IInv, V4Only
<1>. QED
  BY <1>4, <1>6, <1>7 DEF IInv

LEMMA StrayKeeps ==
    ASSUME IInv, NEW s, NEW f, NEW records \in SUBSET (V4 \cup V6),
           StrayAnswer(s, f, records)
    PROVE  IInv'
<1>. DEFINE found == Parsed(records, f)
<1>1. /\ v6' = v6 /\ task' = task /\ pc' = pc /\ fam' = fam /\ at' = at
      /\ ips' = ips /\ via' = via /\ silent' = silent
      /\ <<s, f>> \in stray
      /\ Put(<<s, f>>, found)
      /\ stray' = (stray \ {<<s, f>>}) \cup
             IF Retries(s, f, found) /\ Begun(s, "A").st = "asking"
             THEN {<<s, "A">>} ELSE {}
  BY Zenon DEF StrayAnswer
<1>2. s \in DohSource /\ s \in Source /\ f \in Family
  BY <1>1 DEF IInv, TypeOK, Source
<1>3. found \subseteq Address \cap AddrOf(f)
  BY <1>2, ParsedKeeps
<1>. HIDE DEF found
<1>4. TableOK'
  BY <1>1, <1>2, <1>3, PutKeeps DEF IInv
<1>5. stray' \in SUBSET (DohSource \X Family)
  BY <1>1, <1>2 DEF IInv, TypeOK, Family
<1>6. table' \in [Key -> SUBSET (V4 \cup V6)]
  BY <1>4 DEF TableOK, Address, Key
<1>7. TypeOK'
  BY <1>1, <1>5, <1>6 DEF IInv, TypeOK
<1>8. V4Only'
  BY <1>1 DEF IInv, V4Only
<1>. QED
  BY <1>4, <1>7, <1>8 DEF IInv

LEMMA ExpireKeeps ==
    ASSUME IInv, NEW k \in Key, Expire(k)
    PROVE  IInv'
<1>1. /\ v6' = v6 /\ task' = task /\ stray' = stray /\ pc' = pc /\ fam' = fam
      /\ at' = at /\ ips' = ips /\ via' = via /\ silent' = silent
      /\ table' = [table EXCEPT ![k] = {}]
  BY Zenon DEF Expire
<1>2. table \in [Key -> SUBSET Address] /\ \A j \in Key : table[j] \subseteq AddrOf(j[2])
  BY DEF IInv, TableOK
<1>3. table' \in [Key -> SUBSET Address]
  BY <1>1, <1>2
<1>4. \A j \in Key : table'[j] \subseteq AddrOf(j[2])
  BY <1>1, <1>2
<1>5. TableOK'
  BY <1>3, <1>4 DEF TableOK, Key, AddrOf
<1>6. TypeOK'
  BY <1>1, <1>3 DEF IInv, TypeOK, Address
<1>7. V4Only'
  BY <1>1 DEF IInv, V4Only
<1>. QED
  BY <1>5, <1>6, <1>7 DEF IInv

LEMMA StepKeeps == IInv /\ [Next]_vars => IInv'
<1>. SUFFICES ASSUME IInv, [Next]_vars
     PROVE  IInv'
  OBVIOUS
<1>1. CASE \E useDoh \in BOOLEAN : Resolve(useDoh)
  BY <1>1, ResolveKeeps
<1>2. CASE CallerStep \/ Deadline
  BY <1>2, RaceKeeps, ServersKeep, SystemKeeps DEF CallerStep
<1>3. CASE \E s \in Source : SomeAnswer(s)
  BY <1>3, AnswerKeeps DEF SomeAnswer
<1>4. CASE \E k \in stray, records \in SUBSET (V4 \cup V6) :
               StrayAnswer(k[1], k[2], records)
  BY <1>4, StrayKeeps
<1>5. CASE \E k \in Key : Expire(k)
  BY <1>5, ExpireKeeps
<1>6. CASE UNCHANGED vars
  <2>1. /\ v6' = v6 /\ table' = table /\ task' = task /\ stray' = stray /\ pc' = pc
        /\ fam' = fam /\ at' = at /\ ips' = ips /\ via' = via /\ silent' = silent
    BY <1>6, Zenon DEF vars
  <2>. QED
    BY <2>1 DEF IInv, TypeOK, TableOK, V4Only, Key, AddrOf
<1>. QED
  BY <1>1, <1>2, <1>3, <1>4, <1>5, <1>6 DEF Next

\* Whatever sources answer, fail, time out or are left running, every entry of
\* the cache holds addresses of its own record type, and a call on a network
\* without IPv6 returns IPv4 addresses only.
THEOREM FamiliesApart == Spec => [](TypeOK /\ SingleFamily)
<1>1. IInv => TypeOK /\ SingleFamily
  BY DEF IInv, TableOK, V4Only, SingleFamily, Key
<1>. QED
  BY <1>1, InitHolds, StepKeeps, PTL DEF Spec

-----------------------------------------------------------------------------
(***************************************************************************)
(* Nobody is given up early: what the call has asked in vain, by its leg.  *)
(***************************************************************************)
ServersAsked(f) == \A s \in Elements(Server) : <<s, f>> \in silent

\* In the servers' leg the ones before its place have said nothing for this
\* family, and a second round follows a first one in vain, or some address.
InServers ==
    pc = "servers" =>
        /\ \A i \in DOMAIN Server : i < at => <<Server[i], fam>> \in silent
        /\ ips = {} /\ fam # Wanted => ServersAsked(Wanted)

\* The system resolver follows servers that were asked for every family.
InSystem ==
    pc = "os" /\ ips = {} =>
        /\ ServersAsked("A") /\ ServersAsked(Wanted)
        /\ fam # Wanted => <<OS, Wanted>> \in silent

InVain == InServers /\ InSystem /\ GivesUpLast

LEMMA VainReturn ==
    ASSUME InVain, NEW found, NEW by, found # {}, Return(found, by)
    PROVE  InVain'
BY DEF Return, InVain, InServers, InSystem, GivesUpLast

LEMMA VainToServers ==
    ASSUME IInv, InVain, ToServers
    PROVE  InVain'
<1>1. pc' = "servers" /\ fam' = Wanted /\ at' = 1 /\ v6' = v6
  BY DEF ToServers
<1>2. Wanted' = Wanted
  BY <1>1 DEF Wanted
<1>3. \A i \in DOMAIN Server : ~(i < 1)
  BY ListAssumption
<1>. QED
  BY <1>1, <1>2, <1>3 DEF InVain, InServers, InSystem, GivesUpLast

\* The end of a round of the servers, in vain unless something was found.
LEMMA VainAfterServers ==
    ASSUME IInv, InVain, pc = "servers", NEW found, ips \subseteq found,
           found = {} => ServersAsked(fam), silent' = silent, AfterServers(found)
    PROVE  InVain'
<1>1. CASE fam = "A" /\ found # {}
  BY <1>1, VainReturn DEF AfterServers
<1>2. CASE fam = "AAAA"
  <2>1. pc' = pc /\ fam' = "A" /\ at' = 1 /\ ips' = found /\ v6' = v6
    BY <1>2 DEF AfterServers
  <2>2. Wanted' = Wanted /\ Wanted = "AAAA"
    BY <1>2, <2>1 DEF Wanted, IInv, V4Only
  <2>3. \A i \in DOMAIN Server : ~(i < 1)
    BY ListAssumption
  <2>4. ips' = {} => ServersAsked(Wanted)'
    BY <1>2, <2>1, <2>2 DEF ServersAsked
  <2>. QED
    BY <2>1, <2>2, <2>3, <2>4 DEF InVain, InServers, InSystem, GivesUpLast
<1>3. CASE fam = "A" /\ found = {}
  <2>1. pc' = "os" /\ fam' = Wanted /\ ips' = {} /\ v6' = v6
    BY <1>3 DEF AfterServers
  <2>2. Wanted' = Wanted
    BY <2>1 DEF Wanted
  <2>3. ServersAsked("A") /\ ServersAsked(Wanted)
    BY <1>3 DEF InVain, InServers
  <2>4. ServersAsked("A")' /\ ServersAsked(Wanted)'
    BY <2>2, <2>3 DEF ServersAsked
  <2>. QED
    BY <2>1, <2>2, <2>4 DEF InVain, InServers, InSystem, GivesUpLast
<1>. QED
  BY <1>1, <1>2, <1>3 DEF IInv, TypeOK, Family

\* What no leg decides on has no say.
LEMMA VainFrame ==
    ASSUME InVain, UNCHANGED <<v6, pc, fam, at, ips, silent>>
    PROVE  InVain'
<1>1. v6' = v6 /\ pc' = pc /\ fam' = fam /\ at' = at /\ ips' = ips /\ silent' = silent
  OBVIOUS
<1>2. Wanted' = Wanted
  BY <1>1 DEF Wanted
<1>. QED
  BY <1>1, <1>2 DEF InVain, InServers, InSystem, GivesUpLast, ServersAsked

LEMMA VainServers ==
    ASSUME IInv, InVain, ServerAnswers \/ ServerSilent \/ ServersSilent
    PROVE  InVain'
<1>1. CASE ServerAnswers
  <2>1. /\ pc = "servers" /\ silent' = silent
        /\ ips \cup task[Server[at]].ips # {}
        /\ AfterServers(ips \cup task[Server[at]].ips)
    BY <1>1 DEF ServerAnswers
  <2>. QED
    BY <2>1, VainAfterServers
<1>2. CASE ServerSilent
  <2>1. /\ pc = "servers" /\ pc' = pc /\ fam' = fam /\ ips' = ips /\ v6' = v6
        /\ at' = at + 1 /\ silent' = silent \cup {<<Server[at], fam>>}
    BY <1>2, Zenon DEF ServerSilent
  <2>2. Wanted' = Wanted
    BY <2>1 DEF Wanted
  <2>3. \A i \in DOMAIN Server : i < at' => <<Server[i], fam>> \in silent'
    <3>1. \A i \in DOMAIN Server : i < at + 1 => i < at \/ i = at
      BY ListAssumption DEF IInv, TypeOK
    <3>. QED
      BY <2>1, <3>1 DEF InVain, InServers
  <2>4. ips' = {} /\ fam' # Wanted => ServersAsked(Wanted)'
    BY <2>1, <2>2 DEF InVain, InServers, ServersAsked
  <2>. QED
    BY <2>1, <2>2, <2>3, <2>4 DEF InVain, InServers, InSystem, GivesUpLast
<1>3. CASE ServersSilent
  <2>1. pc = "servers" /\ at \notin DOMAIN Server /\ silent' = silent /\ AfterServers(ips)
    BY <1>3 DEF ServersSilent
  <2>2. \A i \in DOMAIN Server : i < at
    BY <2>1, ListAssumption DEF IInv, TypeOK
  <2>3. ServersAsked(fam)
    BY <2>1, <2>2 DEF InVain, InServers, ServersAsked, Elements
  <2>. QED
    BY <2>1, <2>3, VainAfterServers
<1>. QED
  BY <1>1, <1>2, <1>3

LEMMA VainSystem ==
    ASSUME IInv, InVain, OSDone
    PROVE  InVain'
<1>1. /\ pc = "os" /\ v6' = v6
      /\ silent' = IF task[OS].ips = {} THEN silent \cup {<<OS, fam>>} ELSE silent
      /\ ips' = ips \cup task[OS].ips
  BY DEF OSDone, Return
<1>2. Wanted' = Wanted /\ silent \subseteq silent'
  BY <1>1 DEF Wanted
<1>3. ips' = {} => /\ ServersAsked("A")' /\ ServersAsked(Wanted)' /\ <<OS, fam>> \in silent'
                   /\ fam # Wanted => <<OS, Wanted>> \in silent'
  BY <1>1, <1>2 DEF InVain, InSystem, ServersAsked
<1>4. CASE fam = "AAAA"
  <2>1. pc' = pc /\ fam' = "A" /\ Wanted = "AAAA"
    BY <1>4 DEF OSDone, Wanted, IInv, V4Only
  <2>. QED
    BY <1>1, <1>2, <1>3, <1>4, <2>1 DEF InVain, InServers, InSystem, GivesUpLast
<1>5. CASE fam = "A"
  <2>1. pc' = "returned"
    BY <1>5 DEF OSDone, Return
  <2>2. ips' = {} => \A s \in PlainSource : \A f \in {"A", Wanted} : <<s, f>> \in silent'
    BY <1>2, <1>3, <1>5 DEF ServersAsked, PlainSource
  <2>. QED
    BY <1>2, <2>1, <2>2 DEF InVain, InServers, InSystem, GivesUpLast
<1>. QED
  BY <1>4, <1>5 DEF IInv, TypeOK, Family

LEMMA VainStep == IInv /\ InVain /\ [Next]_vars => InVain'
<1>. SUFFICES ASSUME IInv, InVain, [Next]_vars
     PROVE  InVain'
  OBVIOUS
<1>1. ASSUME NEW useDoh \in BOOLEAN, Resolve(useDoh) PROVE InVain'
  <2>1. pc' \in {"doh", "servers"} /\ fam' = Wanted /\ at' = 1 /\ v6' = v6
    BY <1>1, Zenon DEF Resolve
  <2>2. Wanted' = Wanted
    BY <2>1 DEF Wanted
  <2>3. \A i \in DOMAIN Server : ~(i < 1)
    BY ListAssumption
  <2>. QED
    BY <2>1, <2>2, <2>3 DEF InVain, InServers, InSystem, GivesUpLast
<1>2. CASE DohAnswers
  BY <1>2, VainReturn DEF DohAnswers
<1>3. CASE StartRace
  BY <1>3 DEF StartRace, InVain, InServers, InSystem, GivesUpLast
<1>4. CASE AwaitNext
  <2>1. CASE task[Race[at]].ips # {}
    BY <1>4, <2>1, VainReturn DEF AwaitNext
  <2>2. CASE task[Race[at]].ips = {}
    BY <1>4, <2>2 DEF AwaitNext, InVain, InServers, InSystem, GivesUpLast
  <2>. QED
    BY <2>1, <2>2
<1>5. CASE RaceLost \/ Deadline
  BY <1>5, VainToServers DEF RaceLost, Deadline
<1>6. CASE ServerAnswers \/ ServerSilent \/ ServersSilent
  BY <1>6, VainServers
<1>7. CASE OSDone
  BY <1>7, VainSystem
<1>8. CASE AskServer \/ AskOS \/ UNCHANGED vars
  BY <1>8, VainFrame, Zenon DEF AskServer, AskOS, vars
<1>9. CASE \/ \E s \in Source : SomeAnswer(s)
           \/ \E k \in stray, records \in SUBSET (V4 \cup V6) : StrayAnswer(k[1], k[2], records)
           \/ \E k \in Key : Expire(k)
  BY <1>9, VainFrame, Zenon DEF SomeAnswer, Answer, StrayAnswer, Expire
<1>. QED
  BY <1>1, <1>2, <1>3, <1>4, <1>5, <1>6, <1>7, <1>8, <1>9 DEF Next, CallerStep

\* A call that comes back empty has asked every plain server and the system
\* resolver for each record type of the network, for any list of servers,
\* whatever DoH and the cache did (plain_then_system, plain_lookup).
THEOREM PlainSourcesAskedFirst == Spec => []GivesUpLast
<1>1. Init => InVain
  BY DEF Init, InVain, InServers, InSystem, GivesUpLast
<1>2. InVain => GivesUpLast
  BY DEF InVain
<1>. QED
  BY <1>1, <1>2, InitHolds, StepKeeps, VainStep, PTL DEF Spec
=============================================================================
