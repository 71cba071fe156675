----------------------------- MODULE DnsResolver -----------------------------
(***************************************************************************)
(* resolve_a of core/src/dns.rs for one host: the configured DoH endpoint  *)
(* first, then a race of the other endpoints under a deadline, then plain  *)
(* DNS servers, then the system resolver, with the cache all of them share *)
(* and the lookups a finished call leaves behind.                          *)
(*                                                                         *)
(* A lookup is one cached query of one source: doh_query_once, retried for *)
(* IPv4 when IPv6 gave nothing, or resolve_udp_typed.  What a source       *)
(* answers is a set of address records of either family, empty when it     *)
(* fails or its own timeout passes.                                        *)
(***************************************************************************)
EXTENDS Naturals, Sequences

CONSTANTS
    Doh,        \* doh_addresses(), in its order
    Configured, \* the DoH endpoint of the settings
    Server,     \* the plain DNS servers, the configured one first
    OS,         \* the system resolver
    V4, V6      \* the addresses of the host

Elements(s) == {s[i] : i \in DOMAIN s}

\* race_doh: every endpoint but the one that was already tried.
Race == SelectSeq(Doh, LAMBDA e : e # Configured)

DohSource == Elements(Race) \cup {Configured}
PlainSource == Elements(Server) \cup {OS}
Source == DohSource \cup PlainSource

ASSUME SourceAssumption ==
    /\ DohSource \cap PlainSource = {}
    /\ OS \notin Elements(Server)
ASSUME AddressAssumption == V4 \cap V6 = {}
ASSUME ListAssumption == Server \in Seq(Elements(Server))

Family == {"A", "AAAA"}
AddrOf(f) == IF f = "A" THEN V4 ELSE V6
Key == Source \X Family

VARIABLES
    v6,         \* what is_support_ipv6 found; kept for the life of the process
    table,      \* the fresh entries of DNS_CACHE; {} for a key without one
    task,       \* the lookups of the call, by source
    stray,      \* the lookups that ended or timed-out races left running
    pc,         \* the leg of the call
    fam,        \* the record type a plain leg asks for
    at,         \* the place in the list of the leg
    ips,        \* the answers of the plain legs, then the result
    via,        \* the kind of source the result came from
    silent      \* history: what the plain legs of this call asked in vain

vars == <<v6, table, task, stray, pc, fam, at, ips, via, silent>>

Off == [st |-> "off", fam |-> "A", ips |-> {}]
Task == {t \in [st : {"off", "asking", "done"}, fam : Family, ips : SUBSET (V4 \cup V6)] :
            t.ips \subseteq AddrOf(t.fam)}

TypeOK ==
    /\ v6 \in BOOLEAN
    /\ table \in [Key -> SUBSET (V4 \cup V6)]
    /\ task \in [Source -> Task]
    /\ stray \in SUBSET (DohSource \X Family)
    /\ pc \in {"idle", "doh", "race", "servers", "os", "returned"}
    /\ fam \in Family
    /\ at \in Nat \ {0}
    /\ ips \in SUBSET (V4 \cup V6)
    /\ via \in {"doh", "plain"}
    /\ silent \in SUBSET (PlainSource \X Family)

Init ==
    /\ v6 \in BOOLEAN
    /\ table = [k \in Key |-> {}]
    /\ task = [s \in Source |-> Off]
    /\ stray = {}
    /\ pc = "idle" /\ fam = "A" /\ at = 1
    /\ ips = {} /\ via = "doh" /\ silent = {}

\* IPv6 first, when the network carries it.
Wanted == IF v6 THEN "AAAA" ELSE "A"

(***************************************************************************)
(* Lookups.                                                                *)
(***************************************************************************)
\* cache_get: a fresh entry is the answer, otherwise the source is asked.
Begun(s, f) ==
    IF table[<<s, f>>] # {} THEN [st |-> "done", fam |-> f, ips |-> table[<<s, f>>]]
                            ELSE [st |-> "asking", fam |-> f, ips |-> {}]

\* parse_doh_answer, parse_a_response, family_matches: the records of a family.
Parsed(records, f) == records \cap AddrOf(f)

\* Mutant: the answer is stored under the record type the call began with.
PutWanted(k, found) ==
    table' = IF found = {} THEN table ELSE [table EXCEPT ![<<k[1], Wanted>>] = found]

\* cache_put: an empty answer is not stored.
Put(k, found) == table' = IF found = {} THEN table ELSE [table EXCEPT ![k] = found]

\* A DoH lookup for IPv6 that found nothing is repeated for IPv4.
Retries(s, f, found) == s \in DohSource /\ f = "AAAA" /\ found = {}

Answer(s, records) ==
    /\ task[s].st = "asking"
    /\ LET f == task[s].fam
           found == Parsed(records, f)
       IN  /\ Put(<<s, f>>, found)
           /\ task' = [task EXCEPT ![s] =
                  IF Retries(s, f, found) THEN Begun(s, "A")
                  ELSE [st |-> "done", fam |-> f, ips |-> found]]
    /\ UNCHANGED <<v6, stray, pc, fam, at, ips, via, silent>>

\* A lookup nobody waits for any more still fills the cache.
StrayAnswer(s, f, records) ==
    /\ <<s, f>> \in stray
    /\ LET found == Parsed(records, f)
       IN  /\ Put(<<s, f>>, found)
           /\ stray' = (stray \ {<<s, f>>}) \cup
                  IF Retries(s, f, found) /\ Begun(s, "A").st = "asking"
                  THEN {<<s, "A">>} ELSE {}
    /\ UNCHANGED <<v6, task, pc, fam, at, ips, via, silent>>

\* The lifetime of an entry is over; cache_get and cache_put drop it then.
Expire(k) ==
    /\ table[k] # {}
    /\ table' = [table EXCEPT ![k] = {}]
    /\ UNCHANGED <<v6, task, stray, pc, fam, at, ips, via, silent>>

\* The tasks of a race are not aborted with it.
Abandoned == {<<s, task[s].fam>> : s \in {r \in DohSource : task[r].st = "asking"}}

(***************************************************************************)
(* The legs of the call.                                                   *)
(***************************************************************************)
Return(found, by) ==
    /\ pc' = "returned"
    /\ ips' = found
    /\ via' = by
    /\ stray' = stray \cup Abandoned
    /\ task' = [s \in Source |-> Off]
    /\ UNCHANGED <<v6, table, fam, at>>

ToServers ==
    /\ pc' = "servers"
    /\ fam' = Wanted
    /\ at' = 1
    /\ stray' = stray \cup Abandoned
    /\ task' = [s \in Source |-> Off]
    /\ UNCHANGED <<v6, table, ips, via, silent>>

Resolve(useDoh) ==
    /\ pc \in {"idle", "returned"}
    /\ ips' = {} /\ silent' = {} /\ fam' = Wanted /\ at' = 1 /\ via' = "doh"
    /\ IF useDoh
       THEN pc' = "doh" /\ task' = [task EXCEPT ![Configured] = Begun(Configured, Wanted)]
       ELSE pc' = "servers" /\ UNCHANGED task
    /\ UNCHANGED <<v6, table, stray>>

DohAnswers ==
    /\ pc = "doh"
    /\ task[Configured].st = "done" /\ task[Configured].ips # {}
    /\ Return(task[Configured].ips, "doh")
    /\ UNCHANGED silent

StartRace ==
    /\ pc = "doh"
    /\ task[Configured].st = "done" /\ task[Configured].ips = {}
    /\ pc' = "race"
    /\ at' = 1
    /\ task' = [s \in Source |-> IF s \in Elements(Race) THEN Begun(s, Wanted) ELSE Off]
    /\ UNCHANGED <<v6, table, stray, fam, ips, via, silent>>

\* race_doh awaits its tasks in the order of the list.
AwaitNext ==
    /\ pc = "race"
    /\ at \in DOMAIN Race
    /\ task[Race[at]].st = "done"
    /\ IF task[Race[at]].ips # {}
       THEN Return(task[Race[at]].ips, "doh")
       ELSE at' = at + 1 /\ UNCHANGED <<v6, table, task, stray, pc, fam, ips, via>>
    /\ UNCHANGED silent

RaceLost ==
    /\ pc = "race"
    /\ at \notin DOMAIN Race
    /\ ToServers

\* Mutant: the race has no deadline.
NoDeadline == FALSE

\* Mutant: what the race returns at its deadline is taken for the answer.
DeadlineReturns ==
    /\ pc = "race" /\ at \in DOMAIN Race /\ task[Race[at]].st = "asking"
    /\ Return({}, "doh")
    /\ UNCHANGED silent

\* The timeout around the race looks at the tasks before it looks at its timer.
Deadline ==
    /\ pc = "race"
    /\ at \in DOMAIN Race
    /\ task[Race[at]].st = "asking"
    /\ ToServers

(***************************************************************************)
(* plain_then_system.                                                      *)
(***************************************************************************)
AskServer ==
    /\ pc = "servers"
    /\ at \in DOMAIN Server
    /\ task[Server[at]].st = "off"
    /\ task' = [task EXCEPT ![Server[at]] = Begun(Server[at], fam)]
    /\ UNCHANGED <<v6, table, stray, pc, fam, at, ips, via, silent>>

\* plain_lookup has the answer of one family.  IPv4 follows IPv6; the system
\* resolver follows when neither has one.
AfterServers(found) ==
    IF fam = "A" /\ found # {} THEN Return(found, "plain")
    ELSE /\ IF fam = "AAAA" THEN fam' = "A" /\ UNCHANGED pc
                            ELSE fam' = Wanted /\ pc' = "os"
         /\ at' = 1
         /\ ips' = found
         /\ task' = [s \in Source |-> Off]
         /\ UNCHANGED <<v6, table, stray, via>>

\* plain_lookup stops at the first server with an answer.
ServerAnswers ==
    /\ pc = "servers"
    /\ at \in DOMAIN Server
    /\ task[Server[at]].st = "done" /\ task[Server[at]].ips # {}
    /\ AfterServers(ips \cup task[Server[at]].ips)
    /\ UNCHANGED silent

ServerSilent ==
    /\ pc = "servers"
    /\ at \in DOMAIN Server
    /\ task[Server[at]].st = "done" /\ task[Server[at]].ips = {}
    /\ silent' = silent \cup {<<Server[at], fam>>}
    /\ task' = [task EXCEPT ![Server[at]] = Off]
    /\ at' = at + 1
    /\ UNCHANGED <<v6, table, stray, pc, fam, ips, via>>

ServersSilent ==
    /\ pc = "servers"
    /\ at \notin DOMAIN Server
    /\ AfterServers(ips)
    /\ UNCHANGED silent

AskOS ==
    /\ pc = "os"
    /\ task[OS].st = "off"
    /\ task' = [task EXCEPT ![OS] = Begun(OS, fam)]
    /\ UNCHANGED <<v6, table, stray, pc, fam, at, ips, via, silent>>

OSDone ==
    /\ pc = "os"
    /\ task[OS].st = "done"
    /\ silent' = IF task[OS].ips = {} THEN silent \cup {<<OS, fam>>} ELSE silent
    /\ IF fam = "AAAA"
       THEN /\ fam' = "A"
            /\ ips' = ips \cup task[OS].ips
            /\ task' = [task EXCEPT ![OS] = Off]
            /\ UNCHANGED <<v6, table, stray, pc, at, via>>
       ELSE Return(ips \cup task[OS].ips, "plain")

(***************************************************************************)
(* The specification.                                                      *)
(***************************************************************************)
\* The call goes on as soon as what it awaits is there.
CallerStep ==
    \/ DohAnswers \/ StartRace \/ AwaitNext \/ RaceLost
    \/ AskServer \/ ServerAnswers \/ ServerSilent \/ ServersSilent
    \/ AskOS \/ OSDone

SomeAnswer(s) == \E records \in SUBSET (V4 \cup V6) : Answer(s, records)

Next ==
    \/ \E useDoh \in BOOLEAN : Resolve(useDoh)
    \/ CallerStep
    \/ Deadline
    \/ \E s \in Source : SomeAnswer(s)
    \/ \E k \in stray, records \in SUBSET (V4 \cup V6) : StrayAnswer(k[1], k[2], records)
    \/ \E k \in Key : Expire(k)

Spec == Init /\ [][Next]_vars

\* The configured endpoint and the plain sources are awaited without a deadline
\* of the call's: their own timeouts end the lookups.  Nothing is assumed of the
\* endpoints of the race.
Fairness ==
    /\ WF_vars(CallerStep)
    /\ WF_vars(Deadline)
    /\ \A s \in PlainSource \cup {Configured} : WF_vars(SomeAnswer(s))

FairSpec == Spec /\ Fairness

(***************************************************************************)
(* Properties.                                                             *)
(***************************************************************************)
\* One cache entry never mixes record types, and no IPv6 address reaches a
\* caller on a network that cannot carry it, whatever finished, timed out or
\* was left running.  (family_matches, parse_doh_answer, the gate in resolve_a)
SingleFamily ==
    /\ \A s \in Source, f \in Family : table[<<s, f>>] \subseteq AddrOf(f)
    /\ ~v6 => ips \subseteq V4

\* A call comes back empty only when it asked every plain source for every
\* family of the network and got nothing, however far DoH had come.
\* (plain_then_system and plain_lookup)
GivesUpLast ==
    pc = "returned" /\ ips = {} =>
        \A s \in PlainSource : \A f \in {"A", Wanted} : <<s, f>> \in silent

\* Every call ends, although no endpoint of the race need ever answer.
\* (the timeout in race_doh)
ResolveEnds == pc \notin {"idle", "returned"} ~> pc = "returned"

=============================================================================
