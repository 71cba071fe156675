------------------------ MODULE RootCertificateProofs ------------------------
(***************************************************************************)
(* The three properties of RootCertificate, for any number of roots, write *)
(* failures and crashes.                                                   *)
(*                                                                         *)
(* As long as no write was cut and no two threads were at the files, one   *)
(* thread at most is between the truncation of the certificate and the     *)
(* end of the key (OneAtFiles), and the two files fit behind it            *)
(* (FilesFit).  Whoever holds a root then holds the one in memory or one   *)
(* whose time is over (HeldIsKept), and the one in memory is the one in    *)
(* the file or one whose time is over (KeptIsFiled).  The verdict of       *)
(* is_installed is about the file (ProbeIsOfFile), so that it still says   *)
(* something of what a listener is given later (VerdictHolds).             *)
(***************************************************************************)
EXTENDS RootCertificate, TLAPS

USE BoundAssumption DEF Torn, None, Root, Thread, Listener

(***************************************************************************)
(* Types: what a thread has got, by its step.                              *)
(***************************************************************************)
GotBy(t) ==
    /\ Generating(t) => got[t].cer = got[t].key /\ got[t].cer \in 1..last
    /\ pc[t] = "key" => got[t].cer # None /\ key # None
    /\ pc[t] = "done" => got[t] \in Pair
StepsOK ==
    /\ pc \in [Thread -> {"idle", "stopped"} \cup Loading \cup Writing
                              \cup {"done", "failed", "probe", "certutil", "gate", "again", "serve"}]
    /\ job \in [Thread -> {"none", "install", "info", "first", "probe", "second"}]
FilesOK ==
    /\ cer \in (1..last) \cup {Torn, None} /\ key \in Root \cup {Torn, None}
    /\ last \in 0..MaxRoots /\ expired \subseteq 1..last /\ store \subseteq 1..last
Reading == [cer : Root \cup {Torn, None}, key : Root \cup {Torn, None}]
HeldOK ==
    /\ memory \in Pair \cup {NoPair} /\ memory.cer # Torn
    /\ got \in [Thread -> Reading]
    /\ first \in Pair \cup {NoPair}
    /\ served \in [Listener -> Pair \cup {NoPair}]
    /\ leaves \in [Listener -> SUBSET Pair]
JudgedOK ==
    /\ verdict \in {"unknown", "trusted", "untrusted"}
    /\ mode \in {"none", "hosts", "proxy", "intercept"}
    /\ wanted \in BOOLEAN /\ armed \in BOOLEAN /\ spoilt \in BOOLEAN /\ unsettled \in BOOLEAN
BoundsOK == faults \in 0..MaxFaults /\ crashes \in 0..MaxCrashes

Typed == StepsOK /\ FilesOK /\ HeldOK /\ JudgedOK /\ BoundsOK /\ \A t \in Thread : GotBy(t)

(***************************************************************************)
(* The files, as long as nothing is spoilt.                                *)
(***************************************************************************)
OneAtFiles == \A t, o \in Thread : Generating(t) /\ o # t => ~Generating(o) /\ pc[o] # "key"

WrittenSoFar(t) ==
    /\ pc[t] = "cer" => cer = Torn
    /\ pc[t] \in {"key cut", "key written", "keep"} => cer = got[t].cer
    /\ pc[t] = "keep" => key = got[t].cer
    /\ pc[t] = "key" => got[t].cer = cer
FilesFit ==
    /\ (\A t \in Thread : ~Generating(t)) => cer = key
    /\ \A t \in Thread : WrittenSoFar(t)

\* The pairs somebody holds, besides the memory.
IsHeld(p) == \/ p = first
             \/ \E l \in Listener : p = served[l]
             \/ \E t \in Thread : pc[t] = "done" /\ p = got[t]

KeptIsFiled ==
    /\ memory.cer = memory.key
    /\ memory.cer \in expired \cup {None, cer}
    /\ \A t \in Thread : Generating(t) => memory.cer \in expired \cup {None}
HeldIsKept ==
    \A p : IsHeld(p) => /\ p.cer = p.key
                        /\ p.cer \in expired \cup {memory.cer, None, Torn}

Clean == ~spoilt => OneAtFiles /\ FilesFit /\ KeptIsFiled /\ HeldIsKept

(***************************************************************************)
(* The verdict, as long as nothing is spoilt or unsettled.                 *)
(***************************************************************************)
\* is_installed asks load, which never generates.
OnlyLooks == job["start"] = "probe" => pc["start"] \notin Writing

NobodyGenerates == \A t \in Thread : ~Generating(t)
ProbeIsOfFile ==
    job["start"] = "probe" /\ pc["start"] \in {"key", "done"} =>
        NobodyGenerates /\ got["start"].cer = cer
VerdictHolds == verdict = "trusted" => NobodyGenerates /\ cer \in store

Trust == ~spoilt /\ ~unsettled => ProbeIsOfFile /\ VerdictHolds

(***************************************************************************)
(* A start: both judgements are of one verdict.                            *)
(***************************************************************************)
Judged ==
    /\ pc["start"] = "serve" \/ job["start"] = "second" => (armed <=> mode # "hosts" /\ Decrypts)
    /\ pc["start"] # "stopped" => \A l \in Listener : served[l] = NoPair
    /\ pc["start"] = "stopped" /\ mode # "hosts" =>
           \A l \in Listener : served[l] \notin {NoPair, EmptyPair} => verdict = "trusted"
    /\ GateAgrees

LeavesFit == \A l \in Listener : leaves[l] \subseteq {served[l]}

IInv == Typed /\ Clean /\ OnlyLooks /\ Trust /\ Judged /\ LeavesFit
-----------------------------------------------------------------------------
(***************************************************************************)
(* Types.                                                                  *)
(***************************************************************************)
LEMMA TypedIsTypeOK == Typed => TypeOK
<1>1. last \in 0..MaxRoots /\ cer \in (1..last) \cup {Torn, None} => cer \in Root \cup {Torn, None}
  OBVIOUS
<1> QED
  BY <1>1, Zenon DEF Typed, TypeOK, StepsOK, FilesOK, HeldOK, JudgedOK, BoundsOK, Reading

LEMMA PairsAreRead == Pair \cup {NoPair} \subseteq Reading
  BY DEF Pair, NoPair, Reading

LEMMA TypedStep == Typed /\ [Next]_vars => Typed'
<1> SUFFICES ASSUME Typed, [Next]_vars PROVE Typed'
  OBVIOUS
<1>0. /\ StepsOK /\ FilesOK /\ HeldOK /\ JudgedOK /\ BoundsOK
      /\ \A t \in Thread : GotBy(t)
  BY Zenon DEF Typed
<1> USE DEF files, starting, serving, bounds
<1>1. ASSUME NEW t \in Thread, LoadMemory(t) PROVE Typed'
  <2>1. StepsOK'
    BY <1>1, <1>0 DEF LoadMemory, Missing, Valid, FilesThere, Goto, StepsOK, Loading, Writing
  <2>2. FilesOK'
    BY <1>1, <1>0 DEF LoadMemory, Missing, Valid, FilesThere, Goto, FilesOK, GotBy, Generating, Writing
  <2>3. HeldOK'
    <3>1. got' = [got EXCEPT ![t] = memory] \/ got' = [got EXCEPT ![t] = [cer |-> cer, key |-> None]] \/ got' = got
      BY <1>1, Zenon DEF LoadMemory
    <3>2. memory \in Reading /\ [cer |-> cer, key |-> None] \in Reading
      BY <1>0, PairsAreRead DEF HeldOK, FilesOK, Reading
    <3>3. got' \in [Thread -> Reading]
      BY <3>1, <3>2, <1>0 DEF HeldOK
    <3> QED
      BY <3>3, <1>1, <1>0, Zenon DEF HeldOK, LoadMemory
  <2>4. JudgedOK'
    BY <1>1, <1>0 DEF LoadMemory, Missing, Valid, FilesThere, Goto, JudgedOK
  <2>5. BoundsOK'
    BY <1>1, <1>0 DEF LoadMemory, Missing, Valid, FilesThere, Goto, BoundsOK
  <2>6. ASSUME NEW o \in Thread PROVE GotBy(o)'
    <3>1. CASE o # t
      <4>1. pc'[o] = pc[o] /\ got'[o] = got[o]
        BY <3>1, <1>1, <1>0, <2>6 DEF LoadMemory, Goto, Missing, StepsOK, HeldOK
      <4> QED
        BY <4>1, <1>1, <1>0, <2>6 DEF LoadMemory, GotBy, Generating
    <3>2. CASE o = t /\ Valid(memory)
      BY <3>2, <1>1, <1>0 DEF LoadMemory, Goto, Valid, GotBy, Generating, Writing, StepsOK, HeldOK
    <3>3. CASE o = t /\ ~Valid(memory) /\ FilesThere
      <4>1. /\ pc' = [pc EXCEPT ![t] = "key"] /\ got' = [got EXCEPT ![t] = [cer |-> cer, key |-> None]]
            /\ cer # None /\ key' = key /\ key # None
        BY <3>3, <1>1, Zenon DEF LoadMemory, Goto, FilesThere
      <4>2. pc'[o] = "key" /\ got'[o].cer # None
        BY <4>1, <3>3, <1>0 DEF StepsOK, HeldOK
      <4> QED
        BY <4>1, <4>2 DEF GotBy, Generating, Writing
    <3>4. CASE o = t /\ ~Valid(memory) /\ ~FilesThere
      BY <3>4, <1>1, <1>0 DEF LoadMemory, Goto, Missing, GotBy, Generating, Writing, StepsOK, HeldOK
    <3> QED
      BY <3>1, <3>2, <3>3, <3>4
  <2> QED
    BY <2>1, <2>2, <2>3, <2>4, <2>5, <2>6, Zenon DEF Typed
<1>2. ASSUME NEW t \in Thread, LoadFiles(t) PROVE Typed'
  <2>1. StepsOK'
    BY <1>2, <1>0 DEF LoadFiles, Missing, Valid, Goto, StepsOK, Loading, Writing
  <2>2. FilesOK'
    BY <1>2, <1>0 DEF LoadFiles, Missing, Valid, Goto, FilesOK, GotBy, Generating, Writing
  <2>3. HeldOK'
    <3> DEFINE p == [cer |-> got[t].cer, key |-> key]
    <3>1. CASE Valid(p)
      <4>1. pc[t] = "key" /\ memory' = p /\ got' = [got EXCEPT ![t] = p] /\ UNCHANGED <<first, served, leaves>>
        BY <3>1, <1>2, Zenon DEF LoadFiles
      <4>2. p.cer = got[t].cer /\ p.key = key /\ p.cer # Torn /\ p.cer # None /\ p.key # None
        BY <3>1, <4>1, <1>2, <1>0 DEF Valid, GotBy
      <4>3. p \in Pair /\ p \in Reading
        BY <4>2, <1>0 DEF HeldOK, FilesOK, Pair, Reading
      <4> HIDE DEF p
      <4> QED
        BY <4>1, <4>2, <4>3, <1>0 DEF HeldOK
    <3>2. CASE ~Valid(p)
      BY <3>2, <1>2, <1>0, PairsAreRead DEF HeldOK, LoadFiles
    <3> QED
      BY <3>1, <3>2
  <2>4. JudgedOK'
    BY <1>2, <1>0 DEF LoadFiles, Missing, Valid, Goto, JudgedOK
  <2>5. BoundsOK'
    BY <1>2, <1>0 DEF LoadFiles, Missing, Valid, Goto, BoundsOK
  <2>6. ASSUME NEW o \in Thread PROVE GotBy(o)'
    <3>1. CASE o # t
      <4>1. pc'[o] = pc[o] /\ got'[o] = got[o]
        BY <3>1, <1>2, <1>0, <2>6 DEF LoadFiles, Goto, Missing, StepsOK, HeldOK
      <4> QED
        BY <4>1, <1>2, <1>0, <2>6 DEF LoadFiles, GotBy, Generating
    <3>2. CASE o = t
      <4> DEFINE p == [cer |-> got[t].cer, key |-> key]
      <4>1. CASE Valid(p)
        <5>1. memory' = p /\ got' = [got EXCEPT ![t] = p] /\ pc' = [pc EXCEPT ![t] = "done"]
          BY <4>1, <1>2, Zenon DEF LoadFiles, Goto
        <5>2. p.cer # Torn /\ p.cer # None /\ p.key # None
          BY <4>1, <1>2, <1>0 DEF Valid, GotBy, LoadFiles
        <5>3. p \in Pair
          BY <5>2, <1>0 DEF HeldOK, FilesOK, Pair, Reading
        <5> HIDE DEF p
        <5> QED
          BY <5>1, <5>3, <3>2, <1>0 DEF HeldOK, StepsOK, GotBy, Generating, Writing
      <4>2. CASE ~Valid(p)
        BY <4>2, <3>2, <1>2, <1>0 DEF LoadFiles, Goto, Missing, GotBy, Generating, Writing, StepsOK
      <4> QED
        BY <4>1, <4>2
    <3> QED
      BY <3>1, <3>2
  <2> QED
    BY <2>1, <2>2, <2>3, <2>4, <2>5, <2>6, Zenon DEF Typed
<1>3. ASSUME NEW t \in Thread, CutCer(t) PROVE Typed'
  <2>1. StepsOK'
    BY <1>3, <1>0 DEF CutCer, Goto, StepsOK, Loading, Writing
  <2>2. FilesOK'
    <3>1. last < MaxRoots /\ last' = last + 1 /\ cer' = Torn /\ UNCHANGED <<key, expired, store>>
      BY <1>3, Zenon DEF CutCer
    <3> QED
      BY <3>1, <1>0 DEF FilesOK
  <2>3. HeldOK'
    <3>1. last < MaxRoots /\ got' = [got EXCEPT ![t] = [cer |-> last + 1, key |-> last + 1]]
      BY <1>3, Zenon DEF CutCer
    <3>2. [cer |-> last + 1, key |-> last + 1] \in Reading
      BY <3>1, <1>0 DEF FilesOK, Reading
    <3>3. got' \in [Thread -> Reading]
      BY <3>1, <3>2, <1>0 DEF HeldOK
    <3> QED
      BY <3>3, <1>3, <1>0, Zenon DEF HeldOK, CutCer
  <2>4. JudgedOK'
    BY <1>3, <1>0 DEF CutCer, Goto, JudgedOK
  <2>5. BoundsOK'
    BY <1>3, <1>0 DEF CutCer, Goto, BoundsOK
  <2>6. ASSUME NEW o \in Thread PROVE GotBy(o)'
    <3>1. CASE o # t
      <4>1. pc'[o] = pc[o] /\ got'[o] = got[o] /\ key' = key
        BY <3>1, <1>3, <1>0, <2>6 DEF CutCer, Goto, StepsOK, HeldOK
      <4>2. 1..last \subseteq 1..last'
        <5>1. last' = last + 1
          BY <1>3, Zenon DEF CutCer
        <5> QED
          BY <5>1, <1>0 DEF FilesOK
      <4> QED
        BY <4>1, <4>2, <1>0, <2>6 DEF GotBy, Generating
    <3>2. CASE o = t
      <4>1. pc'[o] = "cer" /\ got'[o] = [cer |-> last + 1, key |-> last + 1]
        BY <3>2, <1>3, <1>0 DEF CutCer, Goto, StepsOK, HeldOK
      <4>2. last + 1 \in 1..last'
        <5>1. last' = last + 1
          BY <1>3, Zenon DEF CutCer
        <5> QED
          BY <5>1, <1>0 DEF FilesOK
      <4> QED
        BY <4>1, <4>2 DEF GotBy
    <3> QED
      BY <3>1, <3>2
  <2> QED
    BY <2>1, <2>2, <2>3, <2>4, <2>5, <2>6, Zenon DEF Typed
<1>4. ASSUME NEW t \in Thread, WriteCer(t) PROVE Typed'
  <2>1. StepsOK'
    BY <1>4, <1>0 DEF WriteCer, Goto, StepsOK, Loading, Writing
  <2>2. FilesOK'
    BY <1>4, <1>0 DEF WriteCer, Goto, FilesOK, GotBy, Generating, Writing
  <2>3. HeldOK'
    BY <1>4, <1>0, PairsAreRead DEF WriteCer, Goto, HeldOK
  <2>4. JudgedOK'
    BY <1>4, <1>0 DEF WriteCer, Goto, JudgedOK
  <2>5. BoundsOK'
    BY <1>4, <1>0 DEF WriteCer, Goto, BoundsOK
  <2>6. ASSUME NEW o \in Thread PROVE GotBy(o)'
    BY <1>4, <1>0, <2>6 DEF WriteCer, Goto, GotBy, Generating, Writing, StepsOK
  <2> QED
    BY <2>1, <2>2, <2>3, <2>4, <2>5, <2>6, Zenon DEF Typed
<1>5. ASSUME NEW t \in Thread, CutKey(t) PROVE Typed'
  <2>1. StepsOK'
    BY <1>5, <1>0 DEF CutKey, Goto, StepsOK, Loading, Writing
  <2>2. FilesOK'
    BY <1>5, <1>0 DEF CutKey, Goto, FilesOK, GotBy, Generating, Writing
  <2>3. HeldOK'
    BY <1>5, <1>0, PairsAreRead DEF CutKey, Goto, HeldOK
  <2>4. JudgedOK'
    BY <1>5, <1>0 DEF CutKey, Goto, JudgedOK
  <2>5. BoundsOK'
    BY <1>5, <1>0 DEF CutKey, Goto, BoundsOK
  <2>6. ASSUME NEW o \in Thread PROVE GotBy(o)'
    <3>1. got' = got /\ last' = last /\ key' # None
      <4>1. got' = got /\ last' = last /\ key' = Torn
        BY <1>5, Zenon DEF CutKey
      <4> QED
        BY <4>1
    <3>2. CASE o # t
      <4>1. pc'[o] = pc[o]
        BY <3>2, <1>5, <1>0, <2>6 DEF CutKey, Goto, StepsOK
      <4> QED
        BY <4>1, <3>1, <1>0, <2>6 DEF GotBy, Generating
    <3>3. CASE o = t
      <4>1. pc'[o] = "key written" /\ Generating(o)
        BY <3>3, <1>5, <1>0 DEF CutKey, Goto, StepsOK, Generating, Writing
      <4> QED
        BY <4>1, <3>1, <1>0, <2>6 DEF GotBy
    <3> QED
      BY <3>2, <3>3
  <2> QED
    BY <2>1, <2>2, <2>3, <2>4, <2>5, <2>6, Zenon DEF Typed
<1>6. ASSUME NEW t \in Thread, WriteKey(t) PROVE Typed'
  <2>1. StepsOK'
    BY <1>6, <1>0 DEF WriteKey, Goto, StepsOK, Loading, Writing
  <2>2. FilesOK'
    <3>1. got[t].key \in 1..last
      BY <1>6, <1>0 DEF WriteKey, GotBy, Generating, Writing
    <3>2. key' = got[t].key /\ UNCHANGED <<cer, last, expired, store>>
      BY <1>6, Zenon DEF WriteKey
    <3> QED
      BY <3>1, <3>2, <1>0 DEF FilesOK
  <2>3. HeldOK'
    BY <1>6, <1>0, PairsAreRead DEF WriteKey, Goto, HeldOK
  <2>4. JudgedOK'
    BY <1>6, <1>0 DEF WriteKey, Goto, JudgedOK
  <2>5. BoundsOK'
    BY <1>6, <1>0 DEF WriteKey, Goto, BoundsOK
  <2>6. ASSUME NEW o \in Thread PROVE GotBy(o)'
    <3>1. got' = got /\ last' = last /\ key' # None
      <4>1. got' = got /\ last' = last /\ key' = got[t].key /\ pc[t] = "key written"
        BY <1>6, Zenon DEF WriteKey
      <4>2. got[t].key \in 1..last
        BY <4>1, <1>0 DEF GotBy, Generating, Writing
      <4>3. \A r \in 1..last : r # None
        BY <1>0 DEF FilesOK
      <4> QED
        BY <4>1, <4>2, <4>3
    <3>2. CASE o # t
      <4>1. pc'[o] = pc[o]
        BY <3>2, <1>6, <1>0, <2>6 DEF WriteKey, Goto, StepsOK
      <4> QED
        BY <4>1, <3>1, <1>0, <2>6 DEF GotBy, Generating
    <3>3. CASE o = t
      <4>1. pc'[o] = "keep" /\ Generating(o)
        BY <3>3, <1>6, <1>0 DEF WriteKey, Goto, StepsOK, Generating, Writing
      <4> QED
        BY <4>1, <3>1, <1>0, <2>6 DEF GotBy
    <3> QED
      BY <3>2, <3>3
  <2> QED
    BY <2>1, <2>2, <2>3, <2>4, <2>5, <2>6, Zenon DEF Typed
<1>7. ASSUME NEW t \in Thread, WriteFails(t) PROVE Typed'
  <2>1. StepsOK'
    BY <1>7, <1>0 DEF WriteFails, Goto, StepsOK, Loading, Writing
  <2>2. FilesOK'
    BY <1>7, <1>0 DEF WriteFails, Goto, FilesOK, GotBy, Generating, Writing
  <2>3. HeldOK'
    BY <1>7, <1>0, PairsAreRead DEF WriteFails, Goto, HeldOK
  <2>4. JudgedOK'
    BY <1>7, <1>0 DEF WriteFails, Goto, JudgedOK
  <2>5. BoundsOK'
    <3>1. faults < MaxFaults /\ faults' = faults + 1 /\ crashes' = crashes
      BY <1>7, Zenon DEF WriteFails
    <3> QED
      BY <3>1, <1>0 DEF BoundsOK
  <2>6. ASSUME NEW o \in Thread PROVE GotBy(o)'
    <3>1. CASE o # t
      <4>1. pc'[o] = pc[o] /\ got'[o] = got[o]
        BY <3>1, <1>7, <1>0, <2>6 DEF WriteFails, Goto, StepsOK, HeldOK
      <4> QED
        BY <4>1, <1>7, <1>0, <2>6 DEF WriteFails, GotBy, Generating
    <3>2. CASE o = t
      <4>1. pc'[o] = "failed"
        BY <3>2, <1>7, <1>0 DEF WriteFails, Goto, StepsOK
      <4> QED
        BY <4>1 DEF GotBy, Generating, Writing
    <3> QED
      BY <3>1, <3>2
  <2> QED
    BY <2>1, <2>2, <2>3, <2>4, <2>5, <2>6, Zenon DEF Typed
<1>8. ASSUME NEW t \in Thread, Keep(t) PROVE Typed'
  <2>1. StepsOK'
    BY <1>8, <1>0 DEF Keep, Goto, StepsOK, Loading, Writing
  <2>2. FilesOK'
    BY <1>8, <1>0 DEF Keep, Goto, FilesOK, GotBy, Generating, Writing
  <2>3. HeldOK'
    <3>1. got[t].cer = got[t].key /\ got[t].cer \in 1..last /\ got[t] \in Reading
      BY <1>8, <1>0 DEF Keep, GotBy, Generating, Writing, HeldOK
    <3>2. got[t] \in Pair /\ got[t].cer # Torn
      BY <3>1, <1>0 DEF Pair, Reading, FilesOK
    <3> QED
      BY <3>2, <1>8, <1>0 DEF HeldOK, Keep
  <2>4. JudgedOK'
    BY <1>8, <1>0 DEF Keep, Goto, JudgedOK
  <2>5. BoundsOK'
    BY <1>8, <1>0 DEF Keep, Goto, BoundsOK
  <2>6. ASSUME NEW o \in Thread PROVE GotBy(o)'
    <3>1. got' = got /\ last' = last /\ key' = key
      BY <1>8, Zenon DEF Keep
    <3>2. CASE o # t
      <4>1. pc'[o] = pc[o]
        BY <3>2, <1>8, <1>0, <2>6 DEF Keep, Goto, StepsOK
      <4> QED
        BY <4>1, <3>1, <1>0, <2>6 DEF GotBy, Generating
    <3>3. CASE o = t
      <4>1. pc'[o] = "done"
        BY <3>3, <1>8, <1>0 DEF Keep, Goto, StepsOK
      <4>2. got[t].cer = got[t].key /\ got[t].cer \in 1..last /\ got[t] \in Reading
        BY <1>8, <1>0 DEF Keep, GotBy, Generating, Writing, HeldOK
      <4>3. got[t] \in Pair
        BY <4>2, <1>0 DEF Pair, Reading, FilesOK
      <4> QED
        BY <4>1, <4>3, <3>1, <3>3 DEF GotBy, Generating, Writing
    <3> QED
      BY <3>2, <3>3
  <2> QED
    BY <2>1, <2>2, <2>3, <2>4, <2>5, <2>6, Zenon DEF Typed
<1>9. ASSUME UserAsks PROVE Typed'
  <2>1. StepsOK'
    BY <1>9, <1>0 DEF UserAsks, Asks, Goto, StepsOK, Loading, Writing
  <2>2. FilesOK'
    BY <1>9, <1>0 DEF UserAsks, Asks, Goto, FilesOK, GotBy, Generating, Writing
  <2>3. HeldOK'
    BY <1>9, <1>0, PairsAreRead DEF UserAsks, Asks, Goto, HeldOK
  <2>4. JudgedOK'
    BY <1>9, <1>0 DEF UserAsks, Asks, Goto, JudgedOK
  <2>5. BoundsOK'
    BY <1>9, <1>0 DEF UserAsks, Asks, Goto, BoundsOK
  <2>6. ASSUME NEW o \in Thread PROVE GotBy(o)'
    BY <1>9, <1>0, <2>6 DEF UserAsks, Asks, Goto, GotBy, Generating, Writing, StepsOK
  <2> QED
    BY <2>1, <2>2, <2>3, <2>4, <2>5, <2>6, Zenon DEF Typed
<1>10. ASSUME UserAnswered PROVE Typed'
  <2>1. StepsOK'
    BY <1>10, <1>0 DEF UserAnswered, Idle, StepsOK, Loading, Writing
  <2>2. FilesOK'
    <3>1. store' = store \/ (store' = store \cup {cer} /\ cer \in Root)
      BY <1>10 DEF UserAnswered
    <3>2. UNCHANGED <<cer, key, last, expired>>
      BY <1>10, Zenon DEF UserAnswered
    <3> QED
      <4>1. cer \in Root => cer \in 1..last
        BY <1>0 DEF FilesOK
      <4>2. store' \subseteq 1..last
        BY <3>1, <4>1, <1>0 DEF FilesOK
      <4> QED
        BY <3>2, <4>2, <1>0, Zenon DEF FilesOK
  <2>3. HeldOK'
    BY <1>10, <1>0, PairsAreRead DEF UserAnswered, Idle, HeldOK
  <2>4. JudgedOK'
    BY <1>10, <1>0 DEF UserAnswered, Idle, JudgedOK
  <2>5. BoundsOK'
    BY <1>10, <1>0 DEF UserAnswered, Idle, BoundsOK
  <2>6. ASSUME NEW o \in Thread PROVE GotBy(o)'
    BY <1>10, <1>0, <2>6 DEF UserAnswered, Idle, GotBy, Generating, Writing, StepsOK
  <2> QED
    BY <2>1, <2>2, <2>3, <2>4, <2>5, <2>6, Zenon DEF Typed
<1>11. ASSUME UserRemoves PROVE Typed'
  <2>1. StepsOK'
    BY <1>11, <1>0 DEF UserRemoves, StepsOK, Loading, Writing
  <2>2. FilesOK'
    BY <1>11, <1>0 DEF UserRemoves, FilesOK, GotBy, Generating, Writing
  <2>3. HeldOK'
    BY <1>11, <1>0, PairsAreRead DEF UserRemoves, HeldOK
  <2>4. JudgedOK'
    BY <1>11, <1>0 DEF UserRemoves, JudgedOK
  <2>5. BoundsOK'
    BY <1>11, <1>0 DEF UserRemoves, BoundsOK
  <2>6. ASSUME NEW o \in Thread PROVE GotBy(o)'
    BY <1>11, <1>0, <2>6 DEF UserRemoves, GotBy, Generating, Writing, StepsOK
  <2> QED
    BY <2>1, <2>2, <2>3, <2>4, <2>5, <2>6, Zenon DEF Typed
<1>12. ASSUME Begin PROVE Typed'
  <2>1. StepsOK'
    BY <1>12, <1>0 DEF Begin, Asks, Goto, StepsOK, Loading, Writing
  <2>2. FilesOK'
    BY <1>12, <1>0 DEF Begin, Asks, Goto, FilesOK, GotBy, Generating, Writing
  <2>3. HeldOK'
    BY <1>12, <1>0, PairsAreRead DEF Begin, Asks, Goto, HeldOK
  <2>4. JudgedOK'
    BY <1>12, <1>0 DEF Begin, Asks, Goto, JudgedOK
  <2>5. BoundsOK'
    BY <1>12, <1>0 DEF Begin, Asks, Goto, BoundsOK
  <2>6. ASSUME NEW o \in Thread PROVE GotBy(o)'
    BY <1>12, <1>0, <2>6 DEF Begin, Asks, Goto, GotBy, Generating, Writing, StepsOK
  <2> QED
    BY <2>1, <2>2, <2>3, <2>4, <2>5, <2>6, Zenon DEF Typed
<1>13. ASSUME FirstRoot PROVE Typed'
  <2>1. StepsOK'
    BY <1>13, <1>0 DEF FirstRoot, Asks, Goto, StepsOK, Loading, Writing
  <2>2. FilesOK'
    BY <1>13, <1>0 DEF FirstRoot, Asks, Goto, FilesOK, GotBy, Generating, Writing
  <2>3. HeldOK'
    <3>1. pc["start"] = "done" => got["start"] \in Pair
      BY <1>0 DEF GotBy
    <3>2. first' \in Pair \cup {NoPair}
      BY <3>1, <1>13 DEF FirstRoot
    <3> QED
      BY <3>2, <1>13, <1>0, Zenon DEF HeldOK, FirstRoot
  <2>4. JudgedOK'
    BY <1>13, <1>0 DEF FirstRoot, Asks, Goto, JudgedOK
  <2>5. BoundsOK'
    BY <1>13, <1>0 DEF FirstRoot, Asks, Goto, BoundsOK
  <2>6. ASSUME NEW o \in Thread PROVE GotBy(o)'
    BY <1>13, <1>0, <2>6 DEF FirstRoot, Asks, Goto, GotBy, Generating, Writing, StepsOK
  <2> QED
    BY <2>1, <2>2, <2>3, <2>4, <2>5, <2>6, Zenon DEF Typed
<1>14. ASSUME Probe PROVE Typed'
  <2>1. StepsOK'
    BY <1>14, <1>0 DEF Probe, Asks, Goto, StepsOK, Loading, Writing
  <2>2. FilesOK'
    BY <1>14, <1>0 DEF Probe, Asks, Goto, FilesOK, GotBy, Generating, Writing
  <2>3. HeldOK'
    BY <1>14, <1>0, PairsAreRead DEF Probe, Asks, Goto, HeldOK
  <2>4. JudgedOK'
    BY <1>14, <1>0 DEF Probe, Asks, Goto, JudgedOK
  <2>5. BoundsOK'
    BY <1>14, <1>0 DEF Probe, Asks, Goto, BoundsOK
  <2>6. ASSUME NEW o \in Thread PROVE GotBy(o)'
    BY <1>14, <1>0, <2>6 DEF Probe, Asks, Goto, GotBy, Generating, Writing, StepsOK
  <2> QED
    BY <2>1, <2>2, <2>3, <2>4, <2>5, <2>6, Zenon DEF Typed
<1>15. ASSUME Gate PROVE Typed'
  <2>1. StepsOK'
    BY <1>15, <1>0 DEF Gate, Decrypts, Asks, Goto, StepsOK, Loading, Writing
  <2>2. FilesOK'
    BY <1>15, <1>0 DEF Gate, Decrypts, Asks, Goto, FilesOK, GotBy, Generating, Writing
  <2>3. HeldOK'
    BY <1>15, <1>0, PairsAreRead DEF Gate, Decrypts, Asks, Goto, HeldOK
  <2>4. JudgedOK'
    BY <1>15, <1>0 DEF Gate, Decrypts, Asks, Goto, JudgedOK
  <2>5. BoundsOK'
    BY <1>15, <1>0 DEF Gate, Decrypts, Asks, Goto, BoundsOK
  <2>6. ASSUME NEW o \in Thread PROVE GotBy(o)'
    BY <1>15, <1>0, <2>6 DEF Gate, Decrypts, Asks, Goto, GotBy, Generating, Writing, StepsOK
  <2> QED
    BY <2>1, <2>2, <2>3, <2>4, <2>5, <2>6, Zenon DEF Typed
<1>16. ASSUME Serve PROVE Typed'
  <2>1. StepsOK'
    BY <1>16, <1>0 DEF Serve, EmptyCaches, EmptyPair, Decrypts, Decrypts443, Asks, Goto, StepsOK, Loading, Writing
  <2>2. FilesOK'
    BY <1>16, <1>0 DEF Serve, EmptyCaches, EmptyPair, Decrypts, Decrypts443, Asks, Goto, FilesOK, GotBy, Generating, Writing
  <2>3. HeldOK'
    <3>1. pc["start"] = "done" => got["start"] \in Pair
      BY <1>0 DEF GotBy
    <3>2. EmptyPair \in Pair
      BY DEF EmptyPair, Pair
    <3> DEFINE root == IF pc["start"] = "done" THEN got["start"] ELSE NoPair
               lent(l) == CASE l = "forward" -> IF armed THEN root ELSE NoPair
                            [] OTHER -> CASE mode = "hosts" -> root
                                          [] mode = "intercept" /\ Decrypts443 ->
                                                 IF first = NoPair THEN EmptyPair ELSE first
                                          [] OTHER -> NoPair
    <3>3. root \in Pair \cup {NoPair} /\ first \in Pair \cup {NoPair}
      BY <3>1, <1>0 DEF HeldOK
    <3>4. served' = [l \in Listener |-> lent(l)]
      BY <1>16, Zenon DEF Serve
    <3>5. ASSUME NEW l \in Listener PROVE lent(l) \in Pair \cup {NoPair}
      <4> HIDE DEF root
      <4> QED
        BY <3>2, <3>3, Zenon
    <3> HIDE DEF lent
    <3>6. served' \in [Listener -> Pair \cup {NoPair}]
      BY <3>4, <3>5
    <3>7. leaves' \in [Listener -> SUBSET Pair]
      BY <1>16 DEF Serve, EmptyCaches
    <3> QED
      BY <3>6, <3>7, <1>16, <1>0, Zenon DEF HeldOK, Serve, starting
  <2>4. JudgedOK'
    BY <1>16, <1>0 DEF Serve, EmptyCaches, EmptyPair, Decrypts, Decrypts443, Asks, Goto, JudgedOK
  <2>5. BoundsOK'
    BY <1>16, <1>0 DEF Serve, EmptyCaches, EmptyPair, Decrypts, Decrypts443, Asks, Goto, BoundsOK
  <2>6. ASSUME NEW o \in Thread PROVE GotBy(o)'
    BY <1>16, <1>0, <2>6 DEF Serve, EmptyCaches, EmptyPair, Decrypts, Decrypts443, Asks, Goto, GotBy, Generating, Writing, StepsOK
  <2> QED
    BY <2>1, <2>2, <2>3, <2>4, <2>5, <2>6, Zenon DEF Typed
<1>17. ASSUME Stop PROVE Typed'
  <2>1. StepsOK'
    BY <1>17, <1>0 DEF Stop, EmptyCaches, Idle, StepsOK, Loading, Writing
  <2>2. FilesOK'
    BY <1>17, <1>0 DEF Stop, EmptyCaches, Idle, FilesOK, GotBy, Generating, Writing
  <2>3. HeldOK'
    BY <1>17, <1>0, PairsAreRead DEF Stop, EmptyCaches, Idle, HeldOK
  <2>4. JudgedOK'
    BY <1>17, <1>0 DEF Stop, EmptyCaches, Idle, JudgedOK
  <2>5. BoundsOK'
    BY <1>17, <1>0 DEF Stop, EmptyCaches, Idle, BoundsOK
  <2>6. ASSUME NEW o \in Thread PROVE GotBy(o)'
    BY <1>17, <1>0, <2>6 DEF Stop, EmptyCaches, Idle, GotBy, Generating, Writing, StepsOK
  <2> QED
    BY <2>1, <2>2, <2>3, <2>4, <2>5, <2>6, Zenon DEF Typed
<1>18. ASSUME Crash PROVE Typed'
  <2>1. StepsOK'
    BY <1>18, <1>0 DEF Crash, StepsOK, Loading, Writing
  <2>2. FilesOK'
    BY <1>18, <1>0 DEF Crash, FilesOK, GotBy, Generating, Writing
  <2>3. HeldOK'
    <3>1. /\ memory' = NoPair /\ first' = NoPair /\ got' = [t \in Thread |-> NoPair]
          /\ served' = [l \in Listener |-> NoPair] /\ leaves' = [l \in Listener |-> {}]
      BY <1>18, Zenon DEF Crash
    <3>2. NoPair.cer # Torn
      BY DEF NoPair
    <3> QED
      BY <3>1, <3>2, PairsAreRead DEF HeldOK
  <2>4. JudgedOK'
    BY <1>18, <1>0 DEF Crash, JudgedOK
  <2>5. BoundsOK'
    <3>1. crashes < MaxCrashes /\ crashes' = crashes + 1 /\ faults' = faults
      BY <1>18, Zenon DEF Crash
    <3> QED
      BY <3>1, <1>0 DEF BoundsOK
  <2>6. ASSUME NEW o \in Thread PROVE GotBy(o)'
    BY <1>18, <1>0, <2>6 DEF Crash, GotBy, Generating, Writing, StepsOK
  <2> QED
    BY <2>1, <2>2, <2>3, <2>4, <2>5, <2>6, Zenon DEF Typed
<1>19. ASSUME Expire PROVE Typed'
  <2>1. StepsOK'
    BY <1>19, <1>0 DEF Expire, StepsOK, Loading, Writing
  <2>2. FilesOK'
    BY <1>19, <1>0 DEF Expire, FilesOK, GotBy, Generating, Writing
  <2>3. HeldOK'
    BY <1>19, <1>0, PairsAreRead DEF Expire, HeldOK
  <2>4. JudgedOK'
    BY <1>19, <1>0 DEF Expire, JudgedOK
  <2>5. BoundsOK'
    BY <1>19, <1>0 DEF Expire, BoundsOK
  <2>6. ASSUME NEW o \in Thread PROVE GotBy(o)'
    BY <1>19, <1>0, <2>6 DEF Expire, GotBy, Generating, Writing, StepsOK
  <2> QED
    BY <2>1, <2>2, <2>3, <2>4, <2>5, <2>6, Zenon DEF Typed
<1>20. ASSUME NEW l \in Listener, Handshake(l) PROVE Typed'
  <2>1. StepsOK'
    BY <1>20, <1>0 DEF Handshake, StepsOK, Loading, Writing
  <2>2. FilesOK'
    BY <1>20, <1>0 DEF Handshake, FilesOK, GotBy, Generating, Writing
  <2>3. HeldOK'
    BY <1>20, <1>0, PairsAreRead DEF Handshake, HeldOK
  <2>4. JudgedOK'
    BY <1>20, <1>0 DEF Handshake, JudgedOK
  <2>5. BoundsOK'
    BY <1>20, <1>0 DEF Handshake, BoundsOK
  <2>6. ASSUME NEW o \in Thread PROVE GotBy(o)'
    BY <1>20, <1>0, <2>6 DEF Handshake, GotBy, Generating, Writing, StepsOK
  <2> QED
    BY <2>1, <2>2, <2>3, <2>4, <2>5, <2>6, Zenon DEF Typed
<1>21. ASSUME UNCHANGED vars PROVE Typed'
  <2>1. StepsOK'
    BY <1>21, <1>0 DEF vars, StepsOK, Loading, Writing
  <2>2. FilesOK'
    BY <1>21, <1>0 DEF vars, FilesOK, GotBy, Generating, Writing
  <2>3. HeldOK'
    BY <1>21, <1>0, PairsAreRead DEF vars, HeldOK
  <2>4. JudgedOK'
    BY <1>21, <1>0 DEF vars, JudgedOK
  <2>5. BoundsOK'
    BY <1>21, <1>0 DEF vars, BoundsOK
  <2>6. ASSUME NEW o \in Thread PROVE GotBy(o)'
    BY <1>21, <1>0, <2>6 DEF vars, GotBy, Generating, Writing, StepsOK
  <2> QED
    BY <2>1, <2>2, <2>3, <2>4, <2>5, <2>6, Zenon DEF Typed
<1> QED
  BY <1>1, <1>2, <1>3, <1>4, <1>5, <1>6, <1>7, <1>8, <1>9, <1>10, <1>11, <1>12, <1>13, <1>14, <1>15, <1>16, <1>17, <1>18, <1>19, <1>20, <1>21, Zenon DEF Next, Done

-----------------------------------------------------------------------------
(***************************************************************************)
(* The files, the memory and what is held.                                 *)
(***************************************************************************)
Quiet == {"idle", "load", "done", "failed", "gate", "serve", "stopped"}

\* A step that leaves the files, the memory and what the threads have got
\* alone, and by which nobody comes to hold a new root.
LEMMA CleanQuiet ==
    ASSUME Clean, spoilt' = spoilt, UNCHANGED <<cer, key, memory, got>>,
           expired \subseteq expired',
           \A t \in Thread : pc'[t] = pc[t] \/ {pc[t], pc'[t]} \subseteq Quiet,
           \A p : IsHeld(p)' => IsHeld(p) \/ p \in {NoPair, EmptyPair}
    PROVE  Clean'
<1> SUFFICES ASSUME ~spoilt' PROVE (OneAtFiles /\ FilesFit /\ KeptIsFiled /\ HeldIsKept)'
  BY Zenon DEF Clean
<1>0. OneAtFiles /\ FilesFit /\ KeptIsFiled /\ HeldIsKept
  BY Zenon DEF Clean
<1>1. \A t \in Thread : /\ Generating(t)' <=> Generating(t)
                        /\ pc'[t] = pc[t] \/ pc'[t] \notin {"cer", "key cut", "key written", "keep", "key"}
                        /\ pc'[t] = "key" <=> pc[t] = "key"
  BY DEF Generating, Writing, Quiet
<1>2. OneAtFiles'
  BY <1>0, <1>1, Zenon DEF OneAtFiles
<1>3. FilesFit'
  <2>1. (\A t \in Thread : ~Generating(t)') => cer' = key'
    BY <1>0, <1>1, Zenon DEF FilesFit
  <2>2. ASSUME NEW t \in Thread PROVE WrittenSoFar(t)'
    BY <1>0, <1>1, <2>2 DEF FilesFit, WrittenSoFar
  <2> QED
    BY <2>1, <2>2, Zenon DEF FilesFit
<1>4. KeptIsFiled'
  BY <1>0, <1>1 DEF KeptIsFiled
<1>5. HeldIsKept'
  <2>1. NoPair.cer = NoPair.key /\ NoPair.cer = None /\ EmptyPair.cer = EmptyPair.key /\ EmptyPair.cer = Torn
    BY DEF NoPair, EmptyPair
  <2> SUFFICES ASSUME NEW p, IsHeld(p)'
               PROVE  p.cer = p.key /\ p.cer \in expired' \cup {memory'.cer, None, Torn}
    BY Zenon DEF HeldIsKept
  <2>2. IsHeld(p) \/ p \in {NoPair, EmptyPair}
    OBVIOUS
  <2> QED
    BY <1>0, <2>1, <2>2 DEF HeldIsKept
<1> QED
  BY <1>2, <1>3, <1>4, <1>5

\* A step of a thread at the files: what the others are at stays.
OthersStay(t) == \A o \in Thread \ {t} : pc'[o] = pc[o] /\ got'[o] = got[o]

LEMMA CleanLoadMemory ==
    ASSUME Typed, Clean, NEW t \in Thread, LoadMemory(t)
    PROVE  Clean'
<1> SUFFICES ASSUME ~spoilt' PROVE (OneAtFiles /\ FilesFit /\ KeptIsFiled /\ HeldIsKept)'
  BY Zenon DEF Clean
<1>0. OneAtFiles /\ FilesFit /\ KeptIsFiled /\ HeldIsKept
  BY Zenon DEF Clean, LoadMemory
<1>1. /\ UNCHANGED <<cer, key, memory, expired, first, served>> /\ pc[t] = "load"
      /\ StepsOK /\ HeldOK
  BY Zenon DEF LoadMemory, Typed, files, starting, serving
<1>2. OthersStay(t)
  BY <1>1 DEF LoadMemory, OthersStay, Goto, Missing, StepsOK, HeldOK
<1>3. \/ Valid(memory) /\ pc'[t] = "done" /\ got'[t] = memory
      \/ pc'[t] = "key" /\ got'[t] = [cer |-> cer, key |-> None] /\ ~Overlaps(t)
      \/ pc'[t] \in {"cer cut", "failed"}
  <2>1. CASE Valid(memory)
    BY <2>1, <1>1 DEF LoadMemory, Goto, StepsOK, HeldOK
  <2>2. CASE ~Valid(memory) /\ FilesThere
    <3>1. pc' = [pc EXCEPT ![t] = "key"] /\ got' = [got EXCEPT ![t] = [cer |-> cer, key |-> None]] /\ ~Overlaps(t)
      BY <2>2, Zenon DEF LoadMemory, Goto
    <3> QED
      BY <3>1, <1>1 DEF StepsOK, HeldOK
  <2>3. CASE ~Valid(memory) /\ ~FilesThere
    BY <2>3, <1>1 DEF LoadMemory, Goto, Missing, StepsOK
  <2> QED
    BY <2>1, <2>2, <2>3
<1>4. ~Generating(t) /\ ~Generating(t)'
  BY <1>1, <1>3 DEF Generating, Writing
<1>5. OneAtFiles'
  BY <1>0, <1>2, <1>3, <1>4 DEF OneAtFiles, OthersStay, Overlaps, Generating
<1>6. FilesFit'
  <2>1. WrittenSoFar(t)'
    <3>1. pc'[t] = "key" => got'[t].cer = cer'
      BY <1>1, <1>3
    <3>2. pc'[t] \notin {"cer", "key cut", "key written", "keep"}
      BY <1>3
    <3> QED
      BY <3>1, <3>2 DEF WrittenSoFar
  <2>2. \A o \in Thread : WrittenSoFar(o)'
    BY <1>0, <1>1, <1>2, <2>1 DEF FilesFit, WrittenSoFar, OthersStay
  <2> QED
    BY <1>0, <1>1, <1>2, <1>4, <2>2 DEF FilesFit, OthersStay, Generating
<1>7. KeptIsFiled'
  BY <1>0, <1>1, <1>2, <1>4 DEF KeptIsFiled, OthersStay, Generating
<1>8. HeldIsKept'
  BY <1>0, <1>1, <1>2, <1>3 DEF HeldIsKept, IsHeld, OthersStay, KeptIsFiled
<1> QED
  BY <1>5, <1>6, <1>7, <1>8

LEMMA CleanLoadFiles ==
    ASSUME Typed, Clean, NEW t \in Thread, LoadFiles(t)
    PROVE  Clean'
<1> SUFFICES ASSUME ~spoilt' PROVE (OneAtFiles /\ FilesFit /\ KeptIsFiled /\ HeldIsKept)'
  BY Zenon DEF Clean
<1>0. OneAtFiles /\ FilesFit /\ KeptIsFiled /\ HeldIsKept
  BY Zenon DEF Clean, LoadFiles
<1>1. /\ UNCHANGED <<cer, key, expired, first, served>> /\ pc[t] = "key"
      /\ StepsOK /\ HeldOK
  BY Zenon DEF LoadFiles, Typed, files, starting, serving
<1>2. OthersStay(t)
  BY <1>1 DEF LoadFiles, OthersStay, Goto, Missing, StepsOK, HeldOK
<1>3. (\A o \in Thread : ~Generating(o)) /\ cer = key /\ got[t].cer = cer
  <2>1. \A o \in Thread : ~Generating(o)
    BY <1>0, <1>1 DEF OneAtFiles, Generating, Writing
  <2> QED
    BY <2>1, <1>0, <1>1 DEF FilesFit, WrittenSoFar
<1> DEFINE p == [cer |-> got[t].cer, key |-> key]
<1>4. \/ memory' = p /\ pc'[t] = "done" /\ got'[t] = p
      \/ memory' = memory /\ pc'[t] \in {"cer cut", "failed"}
  <2>1. CASE Valid(p)
    <3>1. memory' = p /\ got' = [got EXCEPT ![t] = p] /\ pc' = [pc EXCEPT ![t] = "done"]
      BY <2>1, Zenon DEF LoadFiles, Goto
    <3> HIDE DEF p
    <3> QED
      BY <3>1, <1>1 DEF StepsOK, HeldOK
  <2>2. CASE ~Valid(p)
    BY <2>2, <1>1 DEF LoadFiles, Goto, Missing, StepsOK
  <2> QED
    BY <2>1, <2>2
<1>5. p.cer = cer /\ p.key = cer
  BY <1>3
<1> HIDE DEF p
<1>6. \A o \in Thread : ~Generating(o)'
  BY <1>2, <1>3, <1>4 DEF OthersStay, Generating, Writing
<1>7. OneAtFiles'
  BY <1>6, Zenon DEF OneAtFiles
<1>8. FilesFit'
  BY <1>0, <1>1, <1>2, <1>3, <1>4 DEF FilesFit, WrittenSoFar, OthersStay
<1>9. KeptIsFiled'
  BY <1>0, <1>1, <1>4, <1>5, <1>6 DEF KeptIsFiled
<1>10. HeldIsKept'
  <2> SUFFICES ASSUME NEW q, IsHeld(q)'
               PROVE  q.cer = q.key /\ q.cer \in expired' \cup {memory'.cer, None, Torn}
    BY Zenon DEF HeldIsKept
  <2>1. IsHeld(q) \/ (q = p /\ memory' = p)
    BY <1>1, <1>2, <1>4 DEF IsHeld, OthersStay
  <2>2. memory'.cer = memory.cer \/ memory'.cer = cer
    BY <1>4, <1>5
  <2>3. CASE IsHeld(q)
    BY <1>0, <1>1, <2>2, <2>3 DEF HeldIsKept, KeptIsFiled
  <2>4. CASE q = p /\ memory' = p
    BY <1>5, <2>4
  <2> QED
    BY <2>1, <2>3, <2>4
<1> QED
  BY <1>7, <1>8, <1>9, <1>10

LEMMA CleanCutCer ==
    ASSUME Typed, Clean, NEW t \in Thread, CutCer(t)
    PROVE  Clean'
<1> SUFFICES ASSUME ~spoilt' PROVE (OneAtFiles /\ FilesFit /\ KeptIsFiled /\ HeldIsKept)'
  BY Zenon DEF Clean
<1>0. OneAtFiles /\ FilesFit /\ KeptIsFiled /\ HeldIsKept
  BY Zenon DEF Clean, CutCer
<1>1. /\ UNCHANGED <<key, memory, expired, first, served>> /\ pc[t] = "cer cut" /\ cer' = Torn
      /\ StepsOK /\ HeldOK /\ ~Overlaps(t) /\ ~Valid(memory)
  BY Zenon DEF CutCer, Typed, starting, serving
<1>2. OthersStay(t) /\ pc'[t] = "cer"
  BY <1>1 DEF CutCer, OthersStay, Goto, StepsOK, HeldOK
<1>3. \A o \in Thread : o # t => ~Generating(o) /\ pc[o] # "key"
  BY <1>1, Zenon DEF Overlaps
<1>4. \A o \in Thread : o # t => ~Generating(o)' /\ pc'[o] # "key"
  BY <1>2, <1>3 DEF OthersStay, Generating
<1>5. OneAtFiles'
  <2>1. pc'[t] # "key"
    BY <1>2
  <2> QED
    BY <1>4, <2>1, Zenon DEF OneAtFiles
<1>6. FilesFit'
  <2>1. Generating(t)'
    BY <1>2 DEF Generating, Writing
  <2>2. \A o \in Thread : WrittenSoFar(o)'
    BY <1>1, <1>2, <1>4 DEF WrittenSoFar, Generating, Writing
  <2> QED
    BY <2>1, <2>2, Zenon DEF FilesFit
<1>7. KeptIsFiled'
  <2>1. memory.cer \in expired \cup {None}
    <3>1. memory.cer # Torn
      BY <1>1, Zenon DEF HeldOK
    <3>2. memory = NoPair \/ memory.cer = Torn \/ memory.cer \in expired
      BY <1>1, Zenon DEF Valid
    <3>3. NoPair.cer = None
      BY DEF NoPair
    <3> QED
      BY <3>1, <3>2, <3>3
  <2> QED
    BY <1>0, <1>1, <2>1 DEF KeptIsFiled
<1>8. HeldIsKept'
  BY <1>0, <1>1, <1>2 DEF HeldIsKept, IsHeld, OthersStay
<1> QED
  BY <1>5, <1>6, <1>7, <1>8

\* The steps of generate behind the first truncation.
LEMMA CleanWrites ==
    ASSUME Typed, Clean, NEW t \in Thread, WriteCer(t) \/ CutKey(t) \/ WriteKey(t)
    PROVE  Clean'
<1> SUFFICES ASSUME ~spoilt' PROVE (OneAtFiles /\ FilesFit /\ KeptIsFiled /\ HeldIsKept)'
  BY Zenon DEF Clean
<1>0. OneAtFiles /\ FilesFit /\ KeptIsFiled /\ HeldIsKept
  BY Zenon DEF Clean, WriteCer, CutKey, WriteKey
<1>1. /\ UNCHANGED <<memory, expired, first, served, got>>
      /\ StepsOK /\ HeldOK /\ GotBy(t)
  BY Zenon DEF WriteCer, CutKey, WriteKey, Typed, starting, serving
<1>2. OthersStay(t)
  BY <1>1 DEF WriteCer, CutKey, WriteKey, OthersStay, Goto, StepsOK, HeldOK
<1>3. \/ pc[t] = "cer" /\ pc'[t] = "key cut" /\ cer' = got[t].cer /\ key' = key
      \/ pc[t] = "key cut" /\ pc'[t] = "key written" /\ cer' = cer
      \/ pc[t] = "key written" /\ pc'[t] = "keep" /\ cer' = cer /\ key' = got[t].key
  BY <1>1 DEF WriteCer, CutKey, WriteKey, Goto, StepsOK
<1>4. Generating(t) /\ Generating(t)'
  BY <1>3 DEF Generating, Writing
<1>5. \A o \in Thread : o # t => ~Generating(o) /\ pc[o] # "key"
  BY <1>0, <1>4, Zenon DEF OneAtFiles
<1>6. \A o \in Thread : o # t => ~Generating(o)' /\ pc'[o] # "key"
  BY <1>2, <1>5 DEF OthersStay, Generating
<1>7. OneAtFiles'
  <2>1. pc'[t] # "key"
    BY <1>3
  <2> QED
    BY <1>6, <2>1, Zenon DEF OneAtFiles
<1>8. FilesFit'
  <2>1. WrittenSoFar(t)'
    <3>1. got[t].cer = got[t].key
      BY <1>1, <1>4 DEF GotBy
    <3> QED
      BY <1>0, <1>1, <1>3, <3>1 DEF FilesFit, WrittenSoFar
  <2>2. \A o \in Thread : o # t => WrittenSoFar(o)'
    BY <1>6 DEF WrittenSoFar, Generating, Writing
  <2> QED
    BY <2>1, <2>2, <1>4, Zenon DEF FilesFit
<1>9. KeptIsFiled'
  BY <1>0, <1>1, <1>4 DEF KeptIsFiled
<1>10. HeldIsKept'
  BY <1>0, <1>1, <1>2, <1>3 DEF HeldIsKept, IsHeld, OthersStay
<1> QED
  BY <1>7, <1>8, <1>9, <1>10

LEMMA CleanWriteFails ==
    ASSUME Typed, Clean, NEW t \in Thread, WriteFails(t)
    PROVE  Clean'
<1> SUFFICES ASSUME ~spoilt' PROVE (OneAtFiles /\ FilesFit /\ KeptIsFiled /\ HeldIsKept)'
  BY Zenon DEF Clean
<1>0. OneAtFiles /\ FilesFit /\ KeptIsFiled /\ HeldIsKept
  BY Zenon DEF Clean, WriteFails
<1>1. /\ UNCHANGED <<cer, key, memory, expired, first, served>> /\ pc[t] = "cer cut"
      /\ StepsOK /\ HeldOK
  BY Zenon DEF WriteFails, Typed, files, starting, serving
<1>2. OthersStay(t) /\ pc'[t] = "failed"
  BY <1>1 DEF WriteFails, OthersStay, Goto, StepsOK, HeldOK
<1>3. \A o \in Thread : /\ Generating(o)' <=> Generating(o)
                        /\ pc'[o] = "key" <=> pc[o] = "key"
  BY <1>1, <1>2 DEF OthersStay, Generating, Writing
<1>4. OneAtFiles'
  BY <1>0, <1>3, Zenon DEF OneAtFiles
<1>5. FilesFit'
  BY <1>0, <1>1, <1>2, <1>3 DEF FilesFit, WrittenSoFar, OthersStay
<1>6. KeptIsFiled'
  BY <1>0, <1>1, <1>3 DEF KeptIsFiled
<1>7. HeldIsKept'
  BY <1>0, <1>1, <1>2 DEF HeldIsKept, IsHeld, OthersStay
<1> QED
  BY <1>4, <1>5, <1>6, <1>7

LEMMA CleanKeep ==
    ASSUME Typed, Clean, NEW t \in Thread, Keep(t)
    PROVE  Clean'
<1> SUFFICES ASSUME ~spoilt' PROVE (OneAtFiles /\ FilesFit /\ KeptIsFiled /\ HeldIsKept)'
  BY Zenon DEF Clean
<1>0. OneAtFiles /\ FilesFit /\ KeptIsFiled /\ HeldIsKept
  BY Zenon DEF Clean, Keep
<1>1. /\ UNCHANGED <<cer, key, expired, first, served, got>> /\ pc[t] = "keep" /\ memory' = got[t]
      /\ StepsOK /\ HeldOK /\ GotBy(t)
  BY Zenon DEF Keep, Typed, files, starting, serving
<1>2. OthersStay(t) /\ pc'[t] = "done"
  BY <1>1 DEF Keep, OthersStay, Goto, StepsOK, HeldOK
<1>3. Generating(t) /\ got[t].cer = got[t].key /\ cer = got[t].cer /\ key = cer
  BY <1>0, <1>1 DEF Generating, Writing, GotBy, FilesFit, WrittenSoFar
<1>4. \A o \in Thread : o # t => ~Generating(o) /\ pc[o] # "key"
  BY <1>0, <1>3, Zenon DEF OneAtFiles
<1>5. \A o \in Thread : ~Generating(o)' /\ pc'[o] # "key"
  BY <1>2, <1>4 DEF OthersStay, Generating, Writing
<1>6. OneAtFiles'
  BY <1>5, Zenon DEF OneAtFiles
<1>7. FilesFit'
  BY <1>1, <1>3, <1>5 DEF FilesFit, WrittenSoFar, Generating, Writing
<1>8. KeptIsFiled'
  BY <1>1, <1>3, <1>5 DEF KeptIsFiled
<1>9. HeldIsKept'
  BY <1>0, <1>1, <1>2, <1>3 DEF HeldIsKept, IsHeld, OthersStay, KeptIsFiled
<1> QED
  BY <1>6, <1>7, <1>8, <1>9

\* Only a process that dies between a truncation and the end of the key spoils
\* the files.
LEMMA CleanCrash ==
    ASSUME Typed, Clean, Crash
    PROVE  Clean'
<1> SUFFICES ASSUME ~spoilt' PROVE (OneAtFiles /\ FilesFit /\ KeptIsFiled /\ HeldIsKept)'
  BY Zenon DEF Clean
<1>0. OneAtFiles /\ FilesFit /\ KeptIsFiled /\ HeldIsKept
  BY Zenon DEF Clean, Crash
<1>1. /\ UNCHANGED <<cer, key, expired>> /\ memory' = NoPair /\ first' = NoPair
      /\ served' = [l \in Listener |-> NoPair] /\ pc' = [t \in Thread |-> "idle"]
      /\ \A t \in Thread : pc[t] \notin {"cer", "key cut", "key written"}
  BY Zenon DEF Crash, files
<1>2. cer = key
  <2>1. CASE \A t \in Thread : ~Generating(t)
    BY <2>1, <1>0, Zenon DEF FilesFit
  <2>2. ASSUME NEW t \in Thread, Generating(t) PROVE cer = key
    <3>1. pc[t] = "keep"
      BY <2>2, <1>1 DEF Generating, Writing
    <3>2. cer = got[t].cer /\ key = got[t].cer
      BY <3>1, <1>0 DEF FilesFit, WrittenSoFar
    <3> QED
      BY <3>2
  <2> QED
    BY <2>1, <2>2
<1>3. \A t \in Thread : ~Generating(t)' /\ pc'[t] # "key" /\ pc'[t] # "done"
  BY <1>1 DEF Generating, Writing
<1>4. NoPair.cer = None /\ NoPair.key = None
  BY DEF NoPair
<1>5. OneAtFiles'
  BY <1>3, Zenon DEF OneAtFiles
<1>6. FilesFit'
  BY <1>1, <1>2, <1>3 DEF FilesFit, WrittenSoFar, Generating, Writing
<1>7. KeptIsFiled'
  BY <1>1, <1>3, <1>4 DEF KeptIsFiled
<1>8. HeldIsKept'
  BY <1>1, <1>3, <1>4 DEF HeldIsKept, IsHeld
<1> QED
  BY <1>5, <1>6, <1>7, <1>8

LEMMA CleanStep == Typed /\ Clean /\ [Next]_vars => Clean'
<1> SUFFICES ASSUME Typed, Clean, [Next]_vars PROVE Clean'
  OBVIOUS
<1>0. StepsOK /\ HeldOK /\ FilesOK
  BY Zenon DEF Typed
<1> USE DEF files, starting, serving
<1>1. ASSUME UserAsks PROVE Clean'
  <2>1. /\ UNCHANGED <<cer, key, memory, got, expired, spoilt, first, served>>
        /\ pc["ui"] = "idle" /\ pc' = [pc EXCEPT !["ui"] = "load"]
    BY <1>1, Zenon DEF UserAsks, Goto
  <2>2. \A t \in Thread : pc'[t] = pc[t] \/ {pc[t], pc'[t]} \subseteq Quiet
    BY <2>1, <1>0 DEF StepsOK, Quiet
  <2>3. \A p : IsHeld(p)' => IsHeld(p)
    BY <2>1, <1>0 DEF IsHeld, StepsOK
  <2> QED
    BY <2>1, <2>2, <2>3, CleanQuiet
<1>2. ASSUME UserAnswered PROVE Clean'
  <2>1. /\ UNCHANGED <<cer, key, memory, got, expired, spoilt, first, served>>
        /\ pc["ui"] \in {"done", "failed"} /\ pc' = [pc EXCEPT !["ui"] = "idle"]
    BY <1>2, Zenon DEF UserAnswered, Idle
  <2>2. \A t \in Thread : pc'[t] = pc[t] \/ {pc[t], pc'[t]} \subseteq Quiet
    BY <2>1, <1>0 DEF StepsOK, Quiet
  <2>3. \A p : IsHeld(p)' => IsHeld(p)
    BY <2>1, <1>0 DEF IsHeld, StepsOK
  <2> QED
    BY <2>1, <2>2, <2>3, CleanQuiet
<1>3. ASSUME UserRemoves \/ (\E l \in Listener : Handshake(l)) \/ UNCHANGED vars PROVE Clean'
  <2>1. UNCHANGED <<cer, key, memory, got, expired, spoilt, first, served, pc>>
    BY <1>3, Zenon DEF UserRemoves, Handshake, vars
  <2>2. \A p : IsHeld(p)' => IsHeld(p)
    BY <2>1, Zenon DEF IsHeld
  <2> QED
    BY <2>1, <2>2, CleanQuiet
<1>4. ASSUME Begin PROVE Clean'
  <2>1. /\ UNCHANGED <<cer, key, memory, got, expired, spoilt, first, served>>
        /\ pc["start"] = "idle" /\ pc' = [pc EXCEPT !["start"] = "load"]
    BY <1>4, Zenon DEF Begin, Goto
  <2>2. \A t \in Thread : pc'[t] = pc[t] \/ {pc[t], pc'[t]} \subseteq Quiet
    BY <2>1, <1>0 DEF StepsOK, Quiet
  <2>3. \A p : IsHeld(p)' => IsHeld(p)
    BY <2>1, <1>0 DEF IsHeld, StepsOK
  <2> QED
    BY <2>1, <2>2, <2>3, CleanQuiet
<1>5. ASSUME FirstRoot PROVE Clean'
  <2>1. /\ UNCHANGED <<cer, key, memory, got, expired, spoilt, served>>
        /\ pc["start"] \in {"done", "failed"}
        /\ first' = IF pc["start"] = "done" THEN got["start"] ELSE NoPair
        /\ pc' = [pc EXCEPT !["start"] = "load"] \/ pc' = [pc EXCEPT !["start"] = "gate"]
    BY <1>5, Zenon DEF FirstRoot, Goto
  <2>2. \A t \in Thread : pc'[t] = pc[t] \/ {pc[t], pc'[t]} \subseteq Quiet
    BY <2>1, <1>0 DEF StepsOK, Quiet
  <2>3. \A p : IsHeld(p)' => IsHeld(p) \/ p = NoPair
    BY <2>1, <1>0 DEF IsHeld, StepsOK
  <2> QED
    BY <2>1, <2>2, <2>3, CleanQuiet
<1>6. ASSUME Probe PROVE Clean'
  <2>1. /\ UNCHANGED <<cer, key, memory, got, expired, spoilt, first, served>>
        /\ pc["start"] \in {"done", "failed"} /\ pc' = [pc EXCEPT !["start"] = "gate"]
    BY <1>6, Zenon DEF Probe, Goto
  <2>2. \A t \in Thread : pc'[t] = pc[t] \/ {pc[t], pc'[t]} \subseteq Quiet
    BY <2>1, <1>0 DEF StepsOK, Quiet
  <2>3. \A p : IsHeld(p)' => IsHeld(p)
    BY <2>1, <1>0 DEF IsHeld, StepsOK
  <2> QED
    BY <2>1, <2>2, <2>3, CleanQuiet
<1>7. ASSUME Gate PROVE Clean'
  <2>1. /\ UNCHANGED <<cer, key, memory, got, expired, spoilt, first, served>>
        /\ pc["start"] = "gate"
        /\ pc' = [pc EXCEPT !["start"] = "load"] \/ pc' = [pc EXCEPT !["start"] = "serve"]
    BY <1>7, Zenon DEF Gate, Goto
  <2>2. \A t \in Thread : pc'[t] = pc[t] \/ {pc[t], pc'[t]} \subseteq Quiet
    BY <2>1, <1>0 DEF StepsOK, Quiet
  <2>3. \A p : IsHeld(p)' => IsHeld(p)
    BY <2>1, <1>0 DEF IsHeld, StepsOK
  <2> QED
    BY <2>1, <2>2, <2>3, CleanQuiet
<1>8. ASSUME Serve PROVE Clean'
  <2>1. /\ UNCHANGED <<cer, key, memory, got, expired, spoilt, first>>
        /\ pc' = [pc EXCEPT !["start"] = "stopped"]
    BY <1>8, Zenon DEF Serve, Goto
  <2>2. pc["start"] \in {"serve", "done", "failed"}
    BY <1>8 DEF Serve
  <2>3. \A t \in Thread : pc'[t] = pc[t] \/ {pc[t], pc'[t]} \subseteq Quiet
    BY <2>1, <2>2, <1>0 DEF StepsOK, Quiet
  <2>4. \A l \in Listener : \/ served'[l] \in {NoPair, EmptyPair, first}
                            \/ served'[l] = got["start"] /\ pc["start"] = "done"
    BY <1>8 DEF Serve
  <2>5. \A p : IsHeld(p)' => IsHeld(p) \/ p \in {NoPair, EmptyPair}
    BY <2>1, <2>4, <1>0 DEF IsHeld, StepsOK
  <2> QED
    BY <2>1, <2>3, <2>5, CleanQuiet
<1>9. ASSUME Stop PROVE Clean'
  <2>1. /\ UNCHANGED <<cer, key, memory, got, expired, spoilt>>
        /\ first' = NoPair /\ served' = [l \in Listener |-> NoPair]
        /\ pc["start"] = "stopped" /\ pc' = [pc EXCEPT !["start"] = "idle"]
    BY <1>9, Zenon DEF Stop, Idle
  <2>2. \A t \in Thread : pc'[t] = pc[t] \/ {pc[t], pc'[t]} \subseteq Quiet
    BY <2>1, <1>0 DEF StepsOK, Quiet
  <2>3. \A p : IsHeld(p)' => IsHeld(p) \/ p = NoPair
    BY <2>1, <1>0 DEF IsHeld, StepsOK
  <2> QED
    BY <2>1, <2>2, <2>3, CleanQuiet
<1>10. ASSUME Expire PROVE Clean'
  <2>1. UNCHANGED <<cer, key, memory, got, spoilt, first, served, pc>>
    BY <1>10, Zenon DEF Expire
  <2>2. \A p : IsHeld(p)' => IsHeld(p)
    BY <2>1, Zenon DEF IsHeld
  <2>3. expired \subseteq expired'
    BY <1>10 DEF Expire
  <2> QED
    BY <2>1, <2>2, <2>3, CleanQuiet
<1> QED
  BY <1>1, <1>2, <1>3, <1>4, <1>5, <1>6, <1>7, <1>8, <1>9, <1>10, CleanLoadMemory, CleanLoadFiles,
     CleanCutCer, CleanWrites, CleanWriteFails, CleanKeep, CleanCrash, Zenon DEF Next, Done

-----------------------------------------------------------------------------
(***************************************************************************)
(* The verdict.                                                            *)
(***************************************************************************)
LEMMA LooksStep == Typed /\ OnlyLooks /\ [Next]_vars => OnlyLooks'
<1> SUFFICES ASSUME Typed, OnlyLooks, [Next]_vars PROVE OnlyLooks'
  OBVIOUS
<1>0. StepsOK
  BY Zenon DEF Typed
<1> USE <1>0 DEF StepsOK, OnlyLooks, Writing, files, starting, serving, bounds
<1>1. ASSUME NEW t \in Thread, LoadMemory(t) \/ LoadFiles(t) PROVE OnlyLooks'
  <2>1. job' = job
    BY <1>1, Zenon DEF LoadMemory, LoadFiles
  <2>2. CASE t = "start" /\ job["start"] = "probe"
    BY <1>1, <2>1, <2>2 DEF LoadMemory, LoadFiles, Missing, Goto
  <2>3. CASE t # "start"
    BY <1>1, <2>1, <2>3 DEF LoadMemory, LoadFiles, Missing, Goto
  <2> QED
    BY <2>1, <2>2, <2>3
<1>2. ASSUME NEW t \in Thread,
             \/ CutCer(t) \/ WriteCer(t) \/ CutKey(t) \/ WriteKey(t) \/ WriteFails(t) \/ Keep(t)
      PROVE  OnlyLooks'
  <2>1. job' = job /\ pc[t] \in Writing /\ \E s \in Writing \cup {"done", "failed"} : pc' = [pc EXCEPT ![t] = s]
    BY <1>2 DEF CutCer, WriteCer, CutKey, WriteKey, WriteFails, Keep, Goto
  <2> QED
    BY <2>1
<1>3. ASSUME UserAsks \/ UserAnswered PROVE OnlyLooks'
  BY <1>3 DEF UserAsks, UserAnswered, Asks, Goto, Idle
<1>4. ASSUME Begin \/ FirstRoot PROVE OnlyLooks'
  BY <1>4 DEF Begin, FirstRoot, Asks, Goto
<1>5. ASSUME Probe \/ Gate PROVE OnlyLooks'
  BY <1>5 DEF Probe, Gate, Asks, Goto
<1>6. ASSUME Serve \/ Stop PROVE OnlyLooks'
  BY <1>6 DEF Serve, Stop, Asks, Goto, Idle
<1>7. ASSUME Crash PROVE OnlyLooks'
  BY <1>7 DEF Crash
<1>8. ASSUME UserRemoves \/ (\E l \in Listener : Handshake(l)) \/ Expire \/ UNCHANGED vars PROVE OnlyLooks'
  <2>1. UNCHANGED <<pc, job>>
    BY <1>8, Zenon DEF UserRemoves, Handshake, Expire, vars
  <2> QED
    BY <2>1
<1> QED
  BY <1>1, <1>2, <1>3, <1>4, <1>5, <1>6, <1>7, <1>8, Zenon DEF Next, Done

\* A step that leaves the file and the verdict alone, by which nobody begins to
\* generate, and the start does not come to a root for the probe.
LEMMA TrustQuiet ==
    ASSUME Trust, ~spoilt' => ~spoilt, ~unsettled' => ~unsettled, UNCHANGED <<cer, verdict>>,
           store \subseteq store', \A t \in Thread : Generating(t)' => Generating(t),
           job'["start"] = "probe" /\ pc'["start"] \in {"key", "done"} =>
               /\ job["start"] = "probe" /\ pc["start"] \in {"key", "done"}
               /\ got'["start"].cer = got["start"].cer
    PROVE  Trust'
  BY DEF Trust, ProbeIsOfFile, VerdictHolds, NobodyGenerates

LEMMA TrustStep == Typed /\ Clean /\ OnlyLooks /\ Trust /\ [Next]_vars => Trust'
<1> SUFFICES ASSUME Typed, Clean, OnlyLooks, Trust, [Next]_vars PROVE Trust'
  OBVIOUS
<1>0. StepsOK /\ HeldOK /\ Clean'
  BY CleanStep, Zenon DEF Typed
<1> USE DEF files, starting, serving, bounds
<1>1. ASSUME NEW t \in Thread, LoadMemory(t) PROVE Trust'
  <2> SUFFICES ASSUME ~spoilt', ~unsettled' PROVE (ProbeIsOfFile /\ VerdictHolds)'
    BY Zenon DEF Trust
  <2>1. /\ UNCHANGED <<cer, verdict, store, memory, job>> /\ ~spoilt /\ ~unsettled /\ pc[t] = "load"
        /\ ProbeIsOfFile /\ VerdictHolds /\ KeptIsFiled
    BY <1>1, Zenon DEF LoadMemory, Trust, Clean
  <2>2. OthersStay(t)
    BY <1>0, <1>1 DEF LoadMemory, OthersStay, Goto, Missing, StepsOK, HeldOK
  <2>3. \/ Valid(memory) /\ pc'[t] = "done" /\ got'[t] = memory
        \/ pc'[t] = "key" /\ got'[t].cer = cer /\ ~Overlaps(t)
        \/ pc'[t] \in {"cer cut", "failed"}
    <3>1. CASE Valid(memory)
      BY <3>1, <1>0, <1>1 DEF LoadMemory, Goto, StepsOK, HeldOK
    <3>2. CASE ~Valid(memory) /\ FilesThere
      <4>1. pc' = [pc EXCEPT ![t] = "key"] /\ got' = [got EXCEPT ![t] = [cer |-> cer, key |-> None]] /\ ~Overlaps(t)
        BY <3>2, <1>1, Zenon DEF LoadMemory, Goto
      <4> QED
        BY <4>1, <1>0 DEF StepsOK, HeldOK
    <3>3. CASE ~Valid(memory) /\ ~FilesThere
      BY <3>3, <1>0, <1>1 DEF LoadMemory, Goto, Missing, StepsOK
    <3> QED
      BY <3>1, <3>2, <3>3
  <2>4. \A o \in Thread : Generating(o)' => Generating(o)
    BY <2>2, <2>3 DEF OthersStay, Generating, Writing
  <2>5. VerdictHolds'
    BY <2>1, <2>4 DEF VerdictHolds, NobodyGenerates
  <2>6. ProbeIsOfFile'
    <3>1. CASE t # "start"
      BY <3>1, <2>1, <2>2, <2>4 DEF ProbeIsOfFile, NobodyGenerates, OthersStay
    <3>2. CASE t = "start" /\ pc'[t] = "done" /\ Valid(memory) /\ got'[t] = memory
      <4>1. memory.cer # None
        BY <3>2, <1>0 DEF Valid, HeldOK, Pair, NoPair
      <4>2. memory.cer = cer /\ NobodyGenerates
        BY <3>2, <4>1, <2>1 DEF Valid, KeptIsFiled, NobodyGenerates
      <4> QED
        BY <3>2, <4>2, <2>1, <2>4 DEF ProbeIsOfFile, NobodyGenerates
    <3>3. CASE t = "start" /\ pc'[t] = "key" /\ got'[t].cer = cer /\ ~Overlaps(t)
      <4>1. NobodyGenerates
        BY <3>3, <2>1 DEF Overlaps, NobodyGenerates, Generating, Writing
      <4> QED
        BY <3>3, <4>1, <2>1, <2>4 DEF ProbeIsOfFile, NobodyGenerates
    <3>4. CASE t = "start" /\ pc'[t] \in {"cer cut", "failed"}
      BY <3>4 DEF ProbeIsOfFile
    <3> QED
      BY <2>3, <3>1, <3>2, <3>3, <3>4, Zenon
  <2> QED
    BY <2>5, <2>6
<1>2. ASSUME NEW t \in Thread, LoadFiles(t) PROVE Trust'
  <2>1. UNCHANGED <<cer, verdict, store, job, spoilt, unsettled>> /\ pc[t] = "key"
    BY <1>2, Zenon DEF LoadFiles
  <2>2. OthersStay(t)
    BY <1>0, <1>2 DEF LoadFiles, OthersStay, Goto, Missing, StepsOK, HeldOK
  <2>3. \/ pc'[t] = "done" /\ got'[t].cer = got[t].cer
        \/ pc'[t] \in {"cer cut", "failed"}
    <3> DEFINE p == [cer |-> got[t].cer, key |-> key]
    <3>1. CASE Valid(p)
      <4>1. got' = [got EXCEPT ![t] = p] /\ pc' = [pc EXCEPT ![t] = "done"]
        BY <3>1, <1>2, Zenon DEF LoadFiles, Goto
      <4> QED
        BY <4>1, <1>0 DEF StepsOK, HeldOK
    <3>2. CASE ~Valid(p)
      BY <3>2, <1>0, <1>2 DEF LoadFiles, Goto, Missing, StepsOK
    <3> QED
      BY <3>1, <3>2
  <2>4. \A o \in Thread : Generating(o)' => Generating(o)
    BY <2>2, <2>3 DEF OthersStay, Generating, Writing
  <2>5. job'["start"] = "probe" /\ pc'["start"] \in {"key", "done"} =>
            /\ job["start"] = "probe" /\ pc["start"] \in {"key", "done"}
            /\ got'["start"].cer = got["start"].cer
    BY <2>1, <2>2, <2>3 DEF OthersStay
  <2> QED
    BY <2>1, <2>4, <2>5, TrustQuiet
<1>3. ASSUME NEW t \in Thread, CutCer(t) PROVE Trust'
  <2> SUFFICES ASSUME ~unsettled' PROVE (ProbeIsOfFile /\ VerdictHolds)'
    BY Zenon DEF Trust
  <2>1. verdict' = "unknown" /\ job'["start"] # "probe"
    BY <1>3 DEF CutCer
  <2> QED
    BY <2>1 DEF ProbeIsOfFile, VerdictHolds
<1>4. ASSUME NEW t \in Thread, WriteCer(t) \/ CutKey(t) \/ WriteKey(t) \/ Keep(t) PROVE Trust'
  <2> SUFFICES ASSUME ~spoilt', ~unsettled' PROVE (ProbeIsOfFile /\ VerdictHolds)'
    BY Zenon DEF Trust
  <2>1. /\ UNCHANGED <<verdict, job>> /\ ProbeIsOfFile /\ VerdictHolds
    <3>1. UNCHANGED <<verdict, job, spoilt, unsettled>>
      BY <1>4, Zenon DEF WriteCer, CutKey, WriteKey, Keep
    <3> QED
      BY <3>1, Zenon DEF Trust
  <2>2. OthersStay(t) /\ Generating(t) /\ pc[t] \in Writing
    BY <1>0, <1>4 DEF WriteCer, CutKey, WriteKey, Keep, OthersStay, Goto, StepsOK, HeldOK, Generating, Writing
  <2>3. verdict' # "trusted"
    BY <2>1, <2>2 DEF VerdictHolds, NobodyGenerates
  <2>4. ~(job'["start"] = "probe" /\ pc'["start"] \in {"key", "done"})
    BY <2>1, <2>2 DEF ProbeIsOfFile, NobodyGenerates, OnlyLooks, OthersStay
  <2> QED
    BY <2>3, <2>4, Zenon DEF ProbeIsOfFile, VerdictHolds
<1>5. ASSUME NEW t \in Thread, WriteFails(t) PROVE Trust'
  <2>1. UNCHANGED <<cer, verdict, store, job, unsettled>> /\ (~spoilt' => ~spoilt)
    BY <1>5, Zenon DEF WriteFails
  <2>2. OthersStay(t) /\ pc'[t] = "failed"
    BY <1>0, <1>5 DEF WriteFails, OthersStay, Goto, StepsOK, HeldOK
  <2>3. \A o \in Thread : Generating(o)' => Generating(o)
    BY <2>2 DEF OthersStay, Generating, Writing
  <2>4. job'["start"] = "probe" /\ pc'["start"] \in {"key", "done"} =>
            /\ job["start"] = "probe" /\ pc["start"] \in {"key", "done"}
            /\ got'["start"].cer = got["start"].cer
    BY <2>1, <2>2 DEF OthersStay
  <2> QED
    BY <2>1, <2>3, <2>4, TrustQuiet
<1>6. ASSUME UserAsks \/ UserAnswered PROVE Trust'
  <2>1. UNCHANGED <<cer, verdict, got, spoilt, unsettled>>
    BY <1>6, Zenon DEF UserAsks, UserAnswered
  <2>2. store \subseteq store'
    BY <1>6 DEF UserAsks, UserAnswered
  <2>3. pc'["start"] = pc["start"] /\ job'["start"] = job["start"] /\ pc'["ui"] \in {"load", "idle"}
    BY <1>0, <1>6 DEF UserAsks, UserAnswered, Asks, Goto, Idle, StepsOK
  <2>4. \A o \in Thread : Generating(o)' => Generating(o)
    BY <2>3 DEF Generating, Writing
  <2> QED
    BY <2>1, <2>2, <2>3, <2>4, TrustQuiet
<1>7. ASSUME UserRemoves PROVE Trust'
  <2> SUFFICES ASSUME ~spoilt', ~unsettled' PROVE (ProbeIsOfFile /\ VerdictHolds)'
    BY Zenon DEF Trust
  <2>1. UNCHANGED <<cer, verdict, got, pc, job>> /\ verdict = "unknown" /\ ~spoilt /\ ~unsettled
    BY <1>7, Zenon DEF UserRemoves
  <2> QED
    BY <2>1 DEF Trust, ProbeIsOfFile, VerdictHolds, NobodyGenerates, Generating
<1>8. ASSUME Begin \/ FirstRoot \/ Gate \/ Serve \/ Stop PROVE Trust'
  <2>1. UNCHANGED <<cer, verdict, store, got, spoilt, unsettled>>
    BY <1>8, Zenon DEF Begin, FirstRoot, Gate, Serve, Stop
  <2>2. pc'["ui"] = pc["ui"] /\ pc'["start"] \in {"load", "gate", "serve", "stopped", "idle"}
    BY <1>0, <1>8 DEF Begin, FirstRoot, Gate, Serve, Stop, Asks, Goto, Idle, StepsOK
  <2>3. \A o \in Thread : Generating(o)' => Generating(o)
    BY <2>2 DEF Generating, Writing
  <2>4. ~(job'["start"] = "probe" /\ pc'["start"] \in {"key", "done"})
    BY <2>2
  <2> QED
    BY <2>1, <2>3, <2>4, TrustQuiet
<1>9. ASSUME Probe PROVE Trust'
  <2> SUFFICES ASSUME ~spoilt', ~unsettled' PROVE (ProbeIsOfFile /\ VerdictHolds)'
    BY Zenon DEF Trust
  <2>1. /\ UNCHANGED <<cer, store, got>> /\ job["start"] = "probe" /\ ProbeIsOfFile
        /\ pc["start"] \in {"done", "failed"}
        /\ verdict' = IF pc["start"] = "done" /\ got["start"].cer \in store THEN "trusted" ELSE "untrusted"
    BY <1>9, Zenon DEF Probe, Trust
  <2>2. pc'["ui"] = pc["ui"] /\ pc'["start"] = "gate"
    BY <1>0, <1>9 DEF Probe, Goto, StepsOK
  <2>3. \A o \in Thread : Generating(o)' => Generating(o)
    BY <2>2 DEF Generating, Writing
  <2>4. VerdictHolds'
    BY <2>1, <2>3 DEF ProbeIsOfFile, VerdictHolds, NobodyGenerates
  <2> QED
    BY <2>2, <2>4 DEF ProbeIsOfFile
<1>10. ASSUME Crash PROVE Trust'
  BY <1>10 DEF Crash, Trust, ProbeIsOfFile, VerdictHolds
<1>11. ASSUME (\E l \in Listener : Handshake(l)) \/ Expire \/ UNCHANGED vars PROVE Trust'
  <2>1. UNCHANGED <<cer, verdict, store, got, spoilt, unsettled, pc, job>>
    BY <1>11, Zenon DEF Handshake, Expire, vars
  <2> QED
    BY <2>1, TrustQuiet DEF Generating
<1> QED
  BY <1>1, <1>2, <1>3, <1>4, <1>5, <1>6, <1>7, <1>8, <1>9, <1>10, <1>11, Zenon DEF Next, Done

-----------------------------------------------------------------------------
(***************************************************************************)
(* The start and the leaf caches.                                          *)
(***************************************************************************)
\* Both judgements of a start that comes to serve, and the roots it lends.
LEMMA ServeJudged ==
    ASSUME Typed, Judged, Serve
    PROVE  Judged'
<1> USE DEF starting
<1>1. /\ armed <=> mode # "hosts" /\ Decrypts
      /\ UNCHANGED <<mode, wanted, armed, first, verdict>>
      /\ pc' = [pc EXCEPT !["start"] = "stopped"] /\ job' = [job EXCEPT !["start"] = "none"]
      /\ StepsOK
  BY Zenon DEF Serve, Judged, Goto, Asks, Typed
<1>2. pc'["start"] = "stopped" /\ job'["start"] = "none"
  BY <1>1 DEF StepsOK
<1>3. EmptyPair # NoPair
  <2>1. EmptyPair.cer # NoPair.cer
    BY DEF EmptyPair, NoPair
  <2> QED
    BY <2>1
<1>4. /\ ~armed => served'["forward"] = NoPair
      /\ mode = "intercept" => served'["443"] = IF Decrypts443 THEN (IF first = NoPair THEN EmptyPair ELSE first)
                                                               ELSE NoPair
      /\ mode \notin {"hosts", "intercept"} => served'["443"] = NoPair
  BY DEF Serve
<1>5. mode = "intercept" => (armed <=> served'["443"] # NoPair)
  BY <1>1, <1>3, <1>4, Zenon DEF Decrypts443
<1>6. ASSUME mode # "hosts", NEW l \in Listener, served'[l] \notin {NoPair, EmptyPair}
      PROVE  verdict = "trusted"
  <2>1. CASE l = "forward"
    BY <1>1, <1>4, <1>6, <2>1, Zenon DEF Decrypts
  <2>2. CASE l = "443"
    BY <1>4, <1>6, <2>2, Zenon DEF Decrypts443, Decrypts
  <2> QED
    BY <2>1, <2>2
<1>7. GateAgrees'
  BY <1>1, <1>5, Zenon DEF GateAgrees
<1> QED
  BY <1>1, <1>2, <1>6, <1>7, Zenon DEF Judged

LEMMA JudgedStep == Typed /\ Judged /\ [Next]_vars => Judged'
<1> SUFFICES ASSUME Typed, Judged, [Next]_vars PROVE Judged'
  OBVIOUS
<1>0. StepsOK
  BY Zenon DEF Typed
<1> USE DEF starting, serving, bounds
<1>1. ASSUME UNCHANGED <<verdict, mode, wanted, armed, served>>,
             pc'["start"] = pc["start"] \/ {pc["start"], pc'["start"]} \subseteq {"idle", "gate"} \cup Loading \cup Writing \cup {"done", "failed"},
             job'["start"] \in {job["start"], "first", "probe"}
      PROVE  Judged'
  <2>1. /\ pc'["start"] = "stopped" <=> pc["start"] = "stopped"
        /\ pc'["start"] = "serve" \/ job'["start"] = "second" => pc["start"] = "serve" \/ job["start"] = "second"
    BY <1>1 DEF Loading, Writing
  <2>2. Decrypts' <=> Decrypts
    BY <1>1, Zenon DEF Decrypts
  <2> QED
    BY <1>1, <2>1, <2>2, Zenon DEF Judged, GateAgrees
<1>2. ASSUME NEW t \in Thread,
             \/ LoadMemory(t) \/ LoadFiles(t) \/ CutCer(t) \/ WriteCer(t) \/ CutKey(t) \/ WriteKey(t)
             \/ WriteFails(t) \/ Keep(t)
      PROVE  Judged'
  <2>1. UNCHANGED <<verdict, mode, wanted, armed, served, job>>
    BY <1>2, Zenon DEF LoadMemory, LoadFiles, CutCer, WriteCer, CutKey, WriteKey, WriteFails, Keep
  <2>2. pc[t] \in Loading \cup Writing
    BY <1>2 DEF LoadMemory, LoadFiles, CutCer, WriteCer, CutKey, WriteKey, WriteFails, Keep, Loading, Writing
  <2>3. \E s \in Loading \cup Writing \cup {"done", "failed"} : pc' = [pc EXCEPT ![t] = s]
    <3>1. CASE LoadMemory(t) \/ LoadFiles(t)
      BY <3>1 DEF LoadMemory, LoadFiles, Goto, Missing, Loading, Writing
    <3>2. CASE CutCer(t) \/ WriteCer(t) \/ CutKey(t) \/ WriteKey(t) \/ WriteFails(t) \/ Keep(t)
      BY <3>2 DEF CutCer, WriteCer, CutKey, WriteKey, WriteFails, Keep, Goto, Loading, Writing
    <3> QED
      BY <1>2, <3>1, <3>2
  <2> QED
    BY <1>0, <1>1, <2>1, <2>2, <2>3 DEF StepsOK
<1>3. ASSUME UserAsks \/ UserAnswered PROVE Judged'
  <2>1. UNCHANGED <<verdict, mode, wanted, armed, served>>
    BY <1>3, Zenon DEF UserAsks, UserAnswered
  <2>2. pc'["start"] = pc["start"] /\ job'["start"] = job["start"]
    BY <1>0, <1>3 DEF UserAsks, UserAnswered, Asks, Goto, Idle, StepsOK
  <2> QED
    BY <1>1, <2>1, <2>2
<1>4. ASSUME Begin PROVE Judged'
  <2>1. /\ pc["start"] = "idle" /\ served' = served
        /\ pc' = [pc EXCEPT !["start"] = "load"] /\ job' = [job EXCEPT !["start"] = "first"]
    BY <1>4, Zenon DEF Begin, Asks, Goto
  <2>2. pc'["start"] = "load" /\ job'["start"] = "first"
    BY <2>1, <1>0 DEF StepsOK
  <2> QED
    BY <2>1, <2>2, Zenon DEF Judged, GateAgrees
<1>5. ASSUME FirstRoot PROVE Judged'
  <2>1. /\ UNCHANGED <<verdict, mode, wanted, armed, served>> /\ pc["start"] \in {"done", "failed"}
    BY <1>5, Zenon DEF FirstRoot
  <2>2. \/ pc'["start"] = "load" /\ job'["start"] = "probe"
        \/ pc'["start"] = "gate" /\ job'["start"] = "none"
    BY <1>5, <1>0 DEF FirstRoot, Asks, Goto, StepsOK
  <2> QED
    BY <2>1, <2>2 DEF Judged, GateAgrees
<1>6. ASSUME Probe PROVE Judged'
  <2>1. UNCHANGED <<mode, wanted, armed, served>> /\ pc["start"] \in {"done", "failed"}
    BY <1>6, Zenon DEF Probe
  <2>2. pc'["start"] = "gate" /\ job'["start"] = "none"
    BY <1>6, <1>0 DEF Probe, Asks, Goto, StepsOK
  <2> QED
    BY <2>1, <2>2 DEF Judged, GateAgrees
<1>7. ASSUME Gate PROVE Judged'
  <2>1. /\ UNCHANGED <<verdict, mode, wanted, served>> /\ pc["start"] = "gate"
        /\ armed' <=> mode # "hosts" /\ Decrypts
    BY <1>7, Zenon DEF Gate
  <2>2. pc'["start"] \in {"load", "serve"}
    BY <1>7, <1>0 DEF Gate, Goto, StepsOK
  <2>3. Decrypts' <=> Decrypts
    BY <2>1, Zenon DEF Decrypts
  <2>4. pc'["start"] # "stopped" /\ pc["start"] # "stopped"
    BY <2>1, <2>2
  <2> QED
    BY <2>1, <2>3, <2>4, Zenon DEF Judged, GateAgrees
<1>8. ASSUME Stop \/ Crash PROVE Judged'
  <2>1. /\ served' = [l \in Listener |-> NoPair]
        /\ pc'["start"] = "idle" /\ job'["start"] = "none"
    BY <1>8, <1>0 DEF Stop, Crash, Idle, StepsOK
  <2> QED
    BY <2>1 DEF Judged, GateAgrees
<1>9. ASSUME UserRemoves \/ (\E l \in Listener : Handshake(l)) \/ Expire \/ UNCHANGED vars PROVE Judged'
  <2>1. UNCHANGED <<verdict, mode, wanted, armed, served, pc, job>>
    BY <1>9, Zenon DEF UserRemoves, Handshake, Expire, vars
  <2> QED
    BY <1>1, <2>1
<1> QED
  BY <1>2, <1>3, <1>4, <1>5, <1>6, <1>7, <1>8, <1>9, ServeJudged, Zenon DEF Next, Done

LEMMA LeavesStep == Typed /\ LeavesFit /\ [Next]_vars => LeavesFit'
<1> SUFFICES ASSUME Typed, LeavesFit, [Next]_vars PROVE LeavesFit'
  OBVIOUS
<1> USE DEF starting, serving, bounds
<1>1. ASSUME NEW l \in Listener, Handshake(l) PROVE LeavesFit'
  <2>1. HeldOK
    BY Zenon DEF Typed
  <2>2. served' = served /\ leaves' = [leaves EXCEPT ![l] = IF @ = {} THEN {served[l]} ELSE @]
    BY <1>1, Zenon DEF Handshake
  <2>3. \A k \in Listener : leaves'[k] = leaves[k] \/ leaves'[k] = {served[k]}
    BY <2>1, <2>2 DEF HeldOK
  <2> QED
    BY <2>2, <2>3 DEF LeavesFit
<1>2. ASSUME Serve \/ Stop \/ Crash PROVE LeavesFit'
  <2>1. leaves' = [l \in Listener |-> {}]
    BY <1>2, Zenon DEF Serve, Stop, Crash, EmptyCaches
  <2> QED
    BY <2>1 DEF LeavesFit
<1>3. ASSUME NEW t \in Thread,
             \/ LoadMemory(t) \/ LoadFiles(t) \/ CutCer(t) \/ WriteCer(t) \/ CutKey(t) \/ WriteKey(t)
             \/ WriteFails(t) \/ Keep(t)
      PROVE  LeavesFit'
  <2>1. UNCHANGED <<served, leaves>>
    BY <1>3, Zenon DEF LoadMemory, LoadFiles, CutCer, WriteCer, CutKey, WriteKey, WriteFails, Keep
  <2> QED
    BY <2>1, Zenon DEF LeavesFit
<1>4. ASSUME UserAsks \/ UserAnswered \/ UserRemoves \/ Begin \/ FirstRoot \/ Probe \/ Gate \/ Expire \/ UNCHANGED vars
      PROVE  LeavesFit'
  <2>1. UNCHANGED <<served, leaves>>
    BY <1>4, Zenon DEF UserAsks, UserAnswered, UserRemoves, Begin, FirstRoot, Probe, Gate, Expire, vars
  <2> QED
    BY <2>1, Zenon DEF LeavesFit
<1> QED
  BY <1>1, <1>2, <1>3, <1>4, Zenon DEF Next, Done

-----------------------------------------------------------------------------
LEMMA InitIInv == Init => IInv
<1> SUFFICES ASSUME Init PROVE IInv
  OBVIOUS
<1>1. NoPair.cer = None /\ NoPair.key = None /\ None # Torn
  BY DEF NoPair
<1>2. Typed
  <2>1. StepsOK
    BY DEF Init, StepsOK
  <2>2. FilesOK
    BY DEF Init, FilesOK
  <2>3. HeldOK
    BY <1>1, PairsAreRead DEF Init, HeldOK
  <2>4. JudgedOK /\ BoundsOK
    <3>1. JudgedOK
      BY DEF Init, JudgedOK
    <3>2. faults = 0 /\ crashes = 0
      BY DEF Init
    <3> QED
      BY <3>1, <3>2 DEF BoundsOK
  <2>5. \A t \in Thread : GotBy(t)
    BY DEF Init, GotBy, Generating, Writing
  <2> QED
    BY <2>1, <2>2, <2>3, <2>4, <2>5, Zenon DEF Typed
<1>3. Clean
  <2>1. \A t \in Thread : ~Generating(t) /\ pc[t] = "idle"
    BY DEF Init, Generating, Writing
  <2>2. OneAtFiles /\ FilesFit
    BY <2>1 DEF Init, OneAtFiles, FilesFit, WrittenSoFar
  <2>3. KeptIsFiled /\ HeldIsKept
    BY <1>1, <2>1 DEF Init, KeptIsFiled, HeldIsKept, IsHeld
  <2> QED
    BY <2>2, <2>3, Zenon DEF Clean
<1>4. OnlyLooks /\ Trust
  BY DEF Init, OnlyLooks, Trust, ProbeIsOfFile, VerdictHolds
<1>5. Judged /\ LeavesFit
  BY DEF Init, Judged, GateAgrees, LeavesFit
<1> QED
  BY <1>2, <1>3, <1>4, <1>5 DEF IInv

LEMMA Inductive == Spec => []IInv
<1>1. IInv /\ [Next]_vars => IInv'
  BY TypedStep, CleanStep, LooksStep, TrustStep, JudgedStep, LeavesStep, Zenon DEF IInv
<1> QED
  BY InitIInv, <1>1, PTL DEF Spec

\* The certificate and the key that load and generate leave in memory, and those
\* a listener is given, fit, except across a write that was cut or failed and two
\* threads at the files at once; and every cached leaf was issued by the root
\* its listener serves (CertificateManager::load, generate, root; LeafCache).
THEOREM PairsFit == Spec => []PairFits
<1>1. IInv => PairFits
  <2> SUFFICES ASSUME IInv PROVE PairFits
    OBVIOUS
  <2>1. \A p \in {memory} \cup {served[l] : l \in Listener} : p.cer = p.key \/ spoilt
    <3>1. ASSUME ~spoilt PROVE memory.cer = memory.key /\ \A l \in Listener : served[l].cer = served[l].key
      BY <3>1, Zenon DEF IInv, Clean, KeptIsFiled, HeldIsKept, IsHeld
    <3> QED
      BY <3>1
  <2>2. TypeOK /\ LeavesFit
    BY TypedIsTypeOK, Zenon DEF IInv
  <2> QED
    BY <2>1, <2>2, Zenon DEF PairFits, LeavesFit
<1> QED
  BY Inductive, <1>1, PTL

\* What a listener decrypts with is a root the system trusts, or one whose time
\* is over, as long as the root was not renewed or removed behind the verdict
\* of is_installed and the files are not spoilt (should_decrypt_locally).
THEOREM TrustedRoots == Spec => []DecryptsTrusted
<1>1. IInv => DecryptsTrusted
  <2> SUFFICES ASSUME IInv, NEW l \in Listener, served[l] \notin {NoPair, EmptyPair}, mode # "hosts",
                      ~unsettled, ~spoilt
               PROVE  served[l].cer \in store \cup expired
    BY Zenon DEF DecryptsTrusted
  <2>1. /\ HeldOK /\ KeptIsFiled /\ HeldIsKept /\ VerdictHolds /\ Judged
    BY Zenon DEF IInv, Typed, Clean, Trust
  <2>2. pc["start"] = "stopped"
    BY <2>1, Zenon DEF Judged
  <2>3. verdict = "trusted"
    BY <2>1, <2>2, Zenon DEF Judged
  <2>4. cer \in store
    BY <2>1, <2>3, Zenon DEF VerdictHolds
  <2>5. served[l].cer = served[l].key /\ served[l].cer \in expired \cup {memory.cer, None, Torn}
    BY <2>1 DEF HeldIsKept, IsHeld
  <2>6. served[l] \in Pair
    BY <2>1 DEF HeldOK
  <2>7. served[l].cer # None /\ served[l].cer # Torn
    BY <2>5, <2>6 DEF Pair, EmptyPair
  <2> QED
    BY <2>1, <2>4, <2>5, <2>7 DEF KeptIsFiled
<1> QED
  BY Inductive, <1>1, PTL

\* The two judgements of one start are the same, whatever is installed or
\* removed in between (should_decrypt_locally is asked for each listener).
THEOREM OneJudgement == Spec => []GateAgrees
<1>1. IInv => GateAgrees
  BY Zenon DEF IInv, Judged
<1> QED
  BY Inductive, <1>1, PTL

=============================================================================
