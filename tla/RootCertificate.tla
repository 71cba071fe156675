--------------------------- MODULE RootCertificate ---------------------------
(***************************************************************************)
(* The root certificate (core/src/cert.rs) and what is made of it when the *)
(* proxy starts (core/src/proxy.rs): two files, one for the certificate    *)
(* and one for its key; the pair kept in memory; the system's trust store; *)
(* and the verdict whether the store holds our certificate, which is asked *)
(* for once per process and decides whether TLS is decrypted.              *)
(*                                                                         *)
(* The user's thread installs, removes and shows the certificate while     *)
(* another one starts the proxy, and the process may die between any two   *)
(* steps.  A root is a number; a pair fits when its numbers are the same.  *)
(***************************************************************************)
EXTENDS Naturals, FiniteSets

CONSTANTS
    MaxRoots,    \* bound: the roots that are generated
    MaxFaults,   \* bound: the writes that fail
    MaxCrashes   \* bound: the times the process dies

ASSUME BoundAssumption == MaxRoots \in Nat \ {0} /\ MaxFaults \in Nat /\ MaxCrashes \in Nat

Torn == 0                       \* a file that has been truncated and not written
None == MaxRoots + 1            \* no file, no root
Root == 1..MaxRoots
Thread == {"ui", "start"}
Pair == [cer : Root \cup {Torn}, key : Root \cup {Torn}]
NoPair == [cer |-> None, key |-> None]
EmptyPair == [cer |-> Torn, key |-> Torn]

VARIABLES
    cer, key,  \* root.cer and root.key.der
    memory,    \* inner: the root of this process
    last,      \* the roots generated so far
    expired,   \* those whose time is over
    store,     \* those the system trusts
    verdict,   \* trusted: unknown until it is asked for
    pc,        \* the step of each thread
    job,       \* what the thread wants a root for
    got,       \* what it is reading, has generated or has got
    mode,      \* the mode of the start under way, or of the proxy that runs
    wanted,    \* enable_tls_decryption
    armed,     \* should_decrypt_locally, as the forward listener's judgement found it
    first,     \* root_for_mitm
    served,    \* the root each listener decrypts with
    leaves,    \* LeafCache: the roots that issued what is cached for a listener
    faults, crashes,
    spoilt,    \* history: a write was cut or failed, or two threads were at the files at once
    unsettled  \* history: the root was renewed under or after the verdict, or removed after it

files == <<cer, key>>
starting == <<mode, wanted, armed, first>>
serving == <<served, leaves>>
bounds == <<faults, crashes>>
vars == <<cer, key, memory, last, expired, store, verdict, pc, job, got, mode, wanted,
          armed, first, served, leaves, faults, crashes, spoilt, unsettled>>

Listener == {"forward", "443"}
Loading == {"load", "key"}
Writing == {"cer cut", "cer", "key cut", "key written", "keep"}

TypeOK ==
    /\ cer \in Root \cup {Torn, None} /\ key \in Root \cup {Torn, None}
    /\ memory \in Pair \cup {NoPair}
    /\ last \in 0..MaxRoots /\ expired \subseteq 1..last /\ store \subseteq 1..last
    /\ verdict \in {"unknown", "trusted", "untrusted"}
    /\ pc \in [Thread -> {"idle", "stopped"} \cup Loading \cup Writing
                              \cup {"done", "failed", "probe", "certutil", "gate", "again", "serve"}]
    /\ job \in [Thread -> {"none", "install", "info", "first", "probe", "second"}]
    /\ got \in [Thread -> [cer : Root \cup {Torn, None}, key : Root \cup {Torn, None}]]
    /\ mode \in {"none", "hosts", "proxy", "intercept"} /\ wanted \in BOOLEAN /\ armed \in BOOLEAN
    /\ first \in Pair \cup {NoPair}
    /\ served \in [Listener -> Pair \cup {NoPair}]
    /\ leaves \in [Listener -> SUBSET Pair]
    /\ faults \in 0..MaxFaults /\ crashes \in 0..MaxCrashes
    /\ spoilt \in BOOLEAN /\ unsettled \in BOOLEAN

Init ==
    /\ cer = None /\ key = None /\ memory = NoPair
    /\ last = 0 /\ expired = {} /\ store = {} /\ verdict = "unknown"
    /\ pc = [t \in Thread |-> "idle"] /\ job = [t \in Thread |-> "none"]
    /\ got = [t \in Thread |-> NoPair]
    /\ mode = "none" /\ wanted = FALSE /\ armed = FALSE /\ first = NoPair
    /\ served = [l \in Listener |-> NoPair] /\ leaves = [l \in Listener |-> {}]
    /\ faults = 0 /\ crashes = 0 /\ spoilt = FALSE /\ unsettled = FALSE

-----------------------------------------------------------------------------
(* load, generate and root. *)

Valid(p) == p # NoPair /\ p.cer # Torn /\ p.cer \notin expired

Goto(t, l) == pc' = [pc EXCEPT ![t] = l]

\* What load leads to when it finds nothing: only root goes on to generate.
Missing(t) == Goto(t, IF job[t] \in {"install", "first", "second"} THEN "cer cut" ELSE "failed")

\* A thread that reads the files while another one writes them, or writes
\* them while another one does either. (load and generate are two steps: a
\* thread may also generate a root although another one has just done so.)
Generating(t) == pc[t] \in Writing \ {"cer cut"}
Overlaps(t) == \E o \in Thread \ {t} : Generating(o) \/ (pc[o] = "key" /\ pc[t] = "cer cut")

FilesThere == cer # None /\ key # None

\* The root in memory while it is valid; otherwise both files have to be there.
LoadMemory(t) ==
    /\ pc[t] = "load"
    /\ IF Valid(memory)
       THEN Goto(t, "done") /\ got' = [got EXCEPT ![t] = memory] /\ UNCHANGED spoilt
       ELSE IF FilesThere
            THEN /\ Goto(t, "key") /\ got' = [got EXCEPT ![t] = [cer |-> cer, key |-> None]]
                 /\ spoilt' = (spoilt \/ Overlaps(t))
            ELSE Missing(t) /\ UNCHANGED <<got, spoilt>>
    /\ UNCHANGED <<files, memory, last, expired, store, verdict, job, starting, serving, bounds, unsettled>>

\* The key file is taken as it is: nothing compares it with the certificate.
LoadFiles(t) ==
    /\ pc[t] = "key"
    /\ LET p == [cer |-> got[t].cer, key |-> key]
       IN IF Valid(p)
          THEN memory' = p /\ got' = [got EXCEPT ![t] = p] /\ Goto(t, "done")
          ELSE Missing(t) /\ got' = [got EXCEPT ![t] = NoPair] /\ UNCHANGED memory
    /\ UNCHANGED <<files, last, expired, store, verdict, job, starting, serving, bounds,
                   spoilt, unsettled>>

\* std::fs::write truncates the file and then fills it.
CutCer(t) ==
    /\ pc[t] = "cer cut" /\ last < MaxRoots
    /\ last' = last + 1
    /\ got' = [got EXCEPT ![t] = [cer |-> last + 1, key |-> last + 1]]
    /\ cer' = Torn
    /\ Goto(t, "cer")
    /\ spoilt' = (spoilt \/ Overlaps(t) \/ Valid(memory))
    /\ unsettled' = (unsettled \/ verdict # "unknown" \/ job["start"] = "probe")
    /\ UNCHANGED <<key, memory, expired, store, verdict, job, starting, serving, bounds>>

WriteCer(t) ==
    /\ pc[t] = "cer"
    /\ cer' = got[t].cer
    /\ Goto(t, "key cut")
    /\ UNCHANGED <<key, memory, last, expired, store, verdict, job, got, starting, serving,
                   bounds, spoilt, unsettled>>

CutKey(t) ==
    /\ pc[t] = "key cut"
    /\ key' = Torn
    /\ Goto(t, "key written")
    /\ UNCHANGED <<cer, memory, last, expired, store, verdict, job, got, starting, serving,
                   bounds, spoilt, unsettled>>

\* Mutant: the key of the root in memory is written again.
WriteKeyKept(t) ==
    /\ pc[t] = "key written"
    /\ key' = IF memory # NoPair THEN memory.key ELSE got[t].key
    /\ Goto(t, "keep")
    /\ UNCHANGED <<cer, memory, last, expired, store, verdict, job, got, starting, serving,
                   bounds, spoilt, unsettled>>

WriteKey(t) ==
    /\ pc[t] = "key written"
    /\ key' = got[t].key
    /\ Goto(t, "keep")
    /\ UNCHANGED <<cer, memory, last, expired, store, verdict, job, got, starting, serving,
                   bounds, spoilt, unsettled>>

\* A write fails before or behind the truncation; generate returns at once.
WriteFails(t) ==
    /\ pc[t] \in {"cer cut", "cer", "key cut", "key written"} /\ faults < MaxFaults
    /\ faults' = faults + 1
    /\ Goto(t, "failed")
    /\ got' = [got EXCEPT ![t] = NoPair]
    /\ spoilt' = (spoilt \/ pc[t] # "cer cut")
    /\ UNCHANGED <<files, memory, last, expired, store, verdict, job, starting, serving,
                   crashes, unsettled>>

Keep(t) ==
    /\ pc[t] = "keep"
    /\ memory' = got[t]
    /\ Goto(t, "done")
    /\ UNCHANGED <<files, last, expired, store, verdict, job, got, starting, serving, bounds,
                   spoilt, unsettled>>

Asks(t, j) == job' = [job EXCEPT ![t] = j]

-----------------------------------------------------------------------------
(* The user's thread. *)

Idle(t) == /\ pc' = [pc EXCEPT ![t] = "idle"]
           /\ job' = [job EXCEPT ![t] = "none"]

\* install asks for a root, the certificate page only looks for one.
UserAsks ==
    /\ pc["ui"] = "idle"
    /\ \E j \in {"install", "info"} : Asks("ui", j)
    /\ Goto("ui", "load")
    /\ UNCHANGED <<files, memory, last, expired, store, verdict, got, starting, serving, bounds,
                   spoilt, unsettled>>

\* certutil adds what the certificate file holds by now, or fails.
UserAnswered ==
    /\ pc["ui"] \in {"done", "failed"}
    /\ store' \in {store} \cup (IF job["ui"] = "install" /\ pc["ui"] = "done" /\ cer \in Root
                                THEN {store \cup {cer}} ELSE {})
    /\ Idle("ui")
    /\ UNCHANGED <<files, memory, last, expired, verdict, got, starting, serving, bounds,
                   spoilt, unsettled>>

\* When the command of remove succeeds, or the user does the same in Windows,
\* every certificate of our name goes from the machine's store; the files, the
\* memory and the verdict stay.
UserRemoves ==
    /\ pc["ui"] = "idle" /\ store # {}
    /\ store' = {}
    /\ unsettled' = (unsettled \/ verdict # "unknown")
    /\ UNCHANGED <<files, memory, last, expired, verdict, pc, job, got, starting, serving, bounds,
                   spoilt>>

-----------------------------------------------------------------------------
(* A start of the proxy. *)

Begin ==
    /\ pc["start"] = "idle"
    /\ mode' \in {"hosts", "proxy", "intercept"} /\ wanted' \in BOOLEAN
    /\ Asks("start", "first") /\ Goto("start", "load")
    /\ UNCHANGED <<files, memory, last, expired, store, verdict, got, armed, first, serving, bounds,
                   spoilt, unsettled>>

\* root_for_mitm; a failure leaves it empty.
FirstRoot ==
    /\ job["start"] = "first" /\ pc["start"] \in {"done", "failed"}
    /\ first' = IF pc["start"] = "done" THEN got["start"] ELSE NoPair
    /\ IF verdict = "unknown" THEN Asks("start", "probe") /\ Goto("start", "load")
                              ELSE Asks("start", "none") /\ Goto("start", "gate")
    /\ UNCHANGED <<files, memory, last, expired, store, verdict, got, mode, wanted, armed, serving,
                   bounds, spoilt, unsettled>>

\* Mutant: the certificate is taken for installed when there is one.
ProbeAnyCertificate ==
    /\ job["start"] = "probe" /\ pc["start"] \in {"done", "failed"}
    /\ verdict' = IF pc["start"] = "done" THEN "trusted" ELSE "untrusted"
    /\ Asks("start", "none") /\ Goto("start", "gate")
    /\ UNCHANGED <<files, memory, last, expired, store, got, starting, serving, bounds,
                   spoilt, unsettled>>

\* is_installed, the first time: the certificate is looked for byte by byte.
Probe ==
    /\ job["start"] = "probe" /\ pc["start"] \in {"done", "failed"}
    /\ verdict' = IF pc["start"] = "done" /\ got["start"].cer \in store THEN "trusted" ELSE "untrusted"
    /\ Asks("start", "none") /\ Goto("start", "gate")
    /\ UNCHANGED <<files, memory, last, expired, store, got, starting, serving, bounds,
                   spoilt, unsettled>>

Decrypts == wanted /\ verdict = "trusted"

\* should_decrypt_locally for the forward listener; a root is asked for again
\* where one is to be used.
Gate ==
    /\ pc["start"] = "gate"
    /\ armed' = (mode # "hosts" /\ Decrypts)
    /\ IF mode = "hosts" \/ Decrypts
       THEN Asks("start", "second") /\ Goto("start", "load")
       ELSE Goto("start", "serve") /\ UNCHANGED job
    /\ UNCHANGED <<files, memory, last, expired, store, verdict, got, mode, wanted, first, serving,
                   bounds, spoilt, unsettled>>

\* Mutant: the judgement of the 443 listener looks at the store again.
DecryptsNow == wanted /\ first.cer \in store

\* The judgement of the 443 listener, of the same verdict.
Decrypts443 == Decrypts

EmptyCaches == leaves' = [l \in Listener |-> {}]

\* The listeners are spawned, with new leaf caches. Hosts mode gives up without
\* a root; the intercepting 443 listener makes do with an empty one.
Serve ==
    /\ \/ pc["start"] = "serve"
       \/ job["start"] = "second" /\ pc["start"] \in {"done", "failed"}
    /\ LET root == IF pc["start"] = "done" THEN got["start"] ELSE NoPair
       IN served' = [l \in Listener |->
            CASE l = "forward" -> IF armed THEN root ELSE NoPair
              [] OTHER -> CASE mode = "hosts" -> root
                            [] mode = "intercept" /\ Decrypts443 ->
                                   IF first = NoPair THEN EmptyPair ELSE first
                            [] OTHER -> NoPair]
    /\ EmptyCaches
    /\ Asks("start", "none") /\ Goto("start", "stopped")
    /\ UNCHANGED <<files, memory, last, expired, store, verdict, got, starting, bounds,
                   spoilt, unsettled>>

\* get_or_create: a leaf of the root the listener was given.
Handshake(l) ==
    /\ pc["start"] = "stopped" /\ served[l] # NoPair /\ Torn \notin {served[l].cer, served[l].key}
    /\ leaves' = [leaves EXCEPT ![l] = IF @ = {} THEN {served[l]} ELSE @]
    /\ UNCHANGED <<files, memory, last, expired, store, verdict, pc, job, got, starting, served,
                   bounds, spoilt, unsettled>>

Stop ==
    /\ pc["start"] = "stopped"
    /\ served' = [l \in Listener |-> NoPair]
    /\ mode' = "none" /\ wanted' = FALSE /\ armed' = FALSE /\ first' = NoPair
    /\ EmptyCaches
    /\ Idle("start")
    /\ UNCHANGED <<files, memory, last, expired, store, verdict, got, bounds, spoilt, unsettled>>

-----------------------------------------------------------------------------
(* The process and the clock. *)

\* The process dies and is started again; what is on disk stays.
Crash ==
    /\ crashes < MaxCrashes
    /\ crashes' = crashes + 1
    /\ memory' = NoPair /\ verdict' = "unknown"
    /\ pc' = [t \in Thread |-> "idle"] /\ job' = [t \in Thread |-> "none"]
    /\ got' = [t \in Thread |-> NoPair]
    /\ mode' = "none" /\ wanted' = FALSE /\ armed' = FALSE /\ first' = NoPair
    /\ served' = [l \in Listener |-> NoPair] /\ leaves' = [l \in Listener |-> {}]
    /\ spoilt' = (spoilt \/ \E t \in Thread : pc[t] \in {"cer", "key cut", "key written"})
    /\ unsettled' = FALSE
    /\ UNCHANGED <<files, last, expired, store, faults>>

Expire ==
    /\ \E r \in (1..last) \ expired : expired' = expired \cup {r}
    /\ UNCHANGED <<files, memory, last, store, verdict, pc, job, got, starting, serving, bounds,
                   spoilt, unsettled>>

\* The bound on roots has been reached by a thread that needs another.
Done == /\ last = MaxRoots
        /\ UNCHANGED vars

Next ==
    \/ \E t \in Thread :
        \/ LoadMemory(t) \/ LoadFiles(t) \/ CutCer(t) \/ WriteCer(t) \/ CutKey(t) \/ WriteKey(t)
        \/ WriteFails(t) \/ Keep(t)
    \/ UserAsks \/ UserAnswered \/ UserRemoves
    \/ Begin \/ FirstRoot \/ Probe \/ Gate \/ Serve \/ Stop
    \/ \E l \in Listener : Handshake(l)
    \/ Crash \/ Expire \/ Done

Spec == Init /\ [][Next]_vars

-----------------------------------------------------------------------------
(* Properties. *)

\* load and generate never bring a certificate and a key together that do not
\* fit, except across a write that was cut or failed and two threads at once; and
\* a cached leaf was issued by the root its listener serves, also when the root
\* has been renewed between two starts (LeafCache).
PairFits ==
    /\ TypeOK
    /\ \A p \in {memory} \cup {served[l] : l \in Listener} : p.cer = p.key \/ spoilt
    /\ \A l \in Listener : leaves[l] \subseteq {served[l]}

\* What a listener decrypts with is a root the system trusts, as long as the
\* root was neither renewed nor removed behind the verdict of is_installed, and
\* has not expired, and no write was cut or failed and no two threads were at
\* the files at once. Hosts mode decrypts without asking, and an intercepting 443 listener
\* left without a root (EmptyPair) cannot complete a handshake.
DecryptsTrusted ==
    \A l \in Listener : served[l] \notin {NoPair, EmptyPair} /\ mode # "hosts" =>
        served[l].cer \in store \cup expired \/ unsettled \/ spoilt

\* The forward listener and the 443 listener of one start judge alike, whatever
\* is installed or removed in between (should_decrypt_locally, asked twice).
GateAgrees ==
    pc["start"] = "stopped" /\ mode = "intercept" => (armed <=> served["443"] # NoPair)

=============================================================================
