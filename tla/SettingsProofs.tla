------------------------------- MODULE SettingsProofs -------------------------------
(***************************************************************************)
(* Proofs about the three kinds of settings that outlive a session.        *)
(*                                                                         *)
(* HostsFile, the hosts file: for every set of names, any lines of the    *)
(* user and every sequence of calls, edits, failures and kills.            *)
(*                                                                         *)
(* AccelerateTree, the selection of the user: for every tree of projects,  *)
(* every set of manifests and every combination of failures.               *)
(*                                                                         *)
(* SystemProxy, the proxy settings of Windows, for every set of proxies    *)
(* and PAC scripts of the user: the types and what a disabling call        *)
(* withdraws under every fault, the agreement of the two copies and the    *)
(* clean end of every session while nothing fails.                         *)
(***************************************************************************)
EXTENDS HostsFile, AccelerateTree, SystemProxy, TLAPS, FiniteSetTheorems

(***************************************************************************)
(* Induction.  The library's theorem on minimal elements speaks of sets,   *)
(* so that the principle can be used for a set of numbers.                 *)
(***************************************************************************)
\* The order of the natural numbers is well-founded, as a set of pairs.
LEMMA Order == \E R : IsWellFoundedOn(R, Nat) /\ \A x, y \in Nat : <<y, x>> \in R <=> y < x
<1>1. IsWellFoundedOn(OpToRel(<, Nat), Nat)
  BY NatLessThanWellFounded, Zenon
<1>2. \A x, y \in Nat : <<y, x>> \in OpToRel(<, Nat) <=> y < x
  BY Zenon DEF OpToRel
<1> QED BY <1>1, <1>2, Zenon

\* Every set of numbers that is not empty has a smallest one.
LEMMA Smallest ==
    ASSUME NEW S, S \subseteq Nat, S # {}
    PROVE  \E x \in S : \A y \in S : x <= y
<1>1. PICK R : IsWellFoundedOn(R, Nat) /\ \A x, y \in Nat : <<y, x>> \in R <=> y < x
  BY Order
<1>2. PICK x \in S : \A y \in S : ~ (<<y, x>> \in R)
  BY <1>1, WFMin, Zenon
<1>3. \A y \in S : ~ (y < x)
  BY <1>1, <1>2, Zenon
<1> QED BY <1>3

\* Induction up to n: what holds of 0, and of i + 1 if of i, holds of all.
LEMMA Upwards ==
    ASSUME NEW S, NEW n \in Nat, 0 \in S, \A i \in 0..(n - 1) : i \in S => i + 1 \in S
    PROVE  \A i \in 0..n : i \in S
<1> SUFFICES ASSUME 0..n \ S # {} PROVE FALSE
  OBVIOUS
<1>1. 0..n \ S \subseteq Nat
  OBVIOUS
<1>2. PICK x \in 0..n \ S : \A y \in 0..n \ S : x <= y
  BY <1>1, Smallest, Zenon
<1>3. x - 1 \in 0..(n - 1) /\ x - 1 \in S
  BY <1>2
<1> QED BY <1>3, <1>2

\* A bounded set of numbers that is not empty has a largest one.
LEMMA Largest ==
    ASSUME NEW S, NEW n \in Nat, S \subseteq 0..n, S # {}
    PROVE  \E x \in S : \A y \in S : x >= y
<1> DEFINE T == {n - x : x \in S}
<1>1. \A x \in S : n - x \in Nat
  OBVIOUS
<1>2. T \subseteq Nat /\ T # {}
  BY <1>1, Zenon
<1>3. PICK t \in T : \A y \in T : t <= y
  BY <1>2, Smallest
<1>4. n - t \in S /\ \A y \in S : n - y \in T
  BY <1>3
<1>5. \A y \in S : n - t >= y
  BY <1>3, <1>4
<1> QED BY <1>4, <1>5

(***************************************************************************)
(* Lines.                                                                  *)
(***************************************************************************)
Phase == {"main", "block", "backup"}
Entrance == {Entry(d) : d \in Domain}
Own == {User(u) : u \in UserLine}
Markers == {Start, End, BackupStart, BackupEnd}

\* The kinds of lines, apart from each other.
LEMMA Kinds ==
    /\ Start # End /\ Start # BackupStart /\ Start # BackupEnd /\ Start # Blank
    /\ End # BackupStart /\ End # BackupEnd /\ End # Blank
    /\ BackupStart # BackupEnd /\ BackupStart # Blank /\ BackupEnd # Blank
    /\ Entrance \cap Own = {} /\ (Entrance \cup Own) \cap (Markers \cup {Blank}) = {}
<1> DEFINE Kind(l) == l.kind
<1>1. Kind(Start) = "start" /\ Kind(End) = "end" /\ Kind(BackupStart) = "backup start"
      /\ Kind(BackupEnd) = "backup end" /\ Kind(Blank) = "blank"
  BY DEF Start, End, BackupStart, BackupEnd, Blank, Mark
<1>2. /\ \A l \in Entrance : Kind(l) = "entry"
      /\ \A l \in Own : Kind(l) = "user"
  BY DEF Entrance, Own, Entry, User
<1> HIDE DEF Kind
<1>3. Entrance \cap Own = {} /\ (Entrance \cup Own) \cap (Markers \cup {Blank}) = {}
  BY <1>1, <1>2 DEF Markers
<1> QED BY <1>1, <1>3

\* The kinds of lines.
LEMMA Lines == Line = Markers \cup {Blank} \cup Entrance \cup Own
  BY DEF Line, Markers, Entrance, Own

\* A line says which name or which line of the user it is.
LEMMA Names ==
    /\ \A d, e \in Domain : Entry(d) = Entry(e) => d = e
    /\ \A u, v \in UserLine : User(u) = User(v) => u = v
<1> DEFINE Name(l) == l.domain
           Id(l) == l.id
<1>1. \A d : Name(Entry(d)) = d
  BY DEF Entry
<1>2. \A u : Id(User(u)) = u
  BY DEF User
<1> HIDE DEF Name, Id
<1>3. \A d, e \in Domain : Entry(d) = Entry(e) => d = e
  <2> SUFFICES ASSUME NEW d \in Domain, NEW e \in Domain, Entry(d) = Entry(e) PROVE d = e
    OBVIOUS
  <2> QED BY <1>1
<1>4. \A u, v \in UserLine : User(u) = User(v) => u = v
  <2> SUFFICES ASSUME NEW u \in UserLine, NEW v \in UserLine, User(u) = User(v) PROVE u = v
    OBVIOUS
  <2> QED BY <1>2
<1> QED BY <1>3, <1>4

\* What each kind of line maps.
LEMMA Mapped ==
    /\ \A d \in Domain : LineDomains(Entry(d)) = {d}
    /\ \A u \in UserLine : LineDomains(User(u)) = DomainsOf[u]
    /\ \A l \in Markers \cup {Blank} : LineDomains(l) = {}
    /\ \A l \in Line : LineDomains(l) \subseteq Domain
<1>1. \A d \in Domain : LineDomains(Entry(d)) = {d}
  BY DEF LineDomains, Entry
<1>2. \A u \in UserLine : LineDomains(User(u)) = DomainsOf[u]
  BY DEF LineDomains, User
<1>3. \A l \in Markers \cup {Blank} : LineDomains(l) = {}
  <2>1. \A m \in {"start", "end", "backup start", "backup end", "blank"} : LineDomains(Mark(m)) = {}
    <3> SUFFICES ASSUME NEW m \in {"start", "end", "backup start", "backup end", "blank"}
                 PROVE  LineDomains(Mark(m)) = {}
      OBVIOUS
    <3>1. Mark(m).kind \notin {"entry", "user"}
      BY DEF Mark
    <3> QED BY <3>1 DEF LineDomains
  <2> QED BY <2>1, Zenon DEF Markers, Start, End, BackupStart, BackupEnd, Blank
<1>4. \A l \in Line : LineDomains(l) \subseteq Domain
  BY <1>1, <1>2, <1>3, DomainsAssumption, Lines DEF Entrance, Own
<1> QED BY <1>1, <1>2, <1>3, <1>4

(***************************************************************************)
(* One turn of the loop.                                                   *)
(***************************************************************************)
Place == [phase : Phase, main : Seq(Line), backup : Seq(Line)]
Kept(toBackup, p, l) == ~IsMarker(p, l) /\ p # "block" /\ <<p, l>> \notin toBackup
Saved(toBackup, p, l) == ~IsMarker(p, l) /\ p # "block" /\ <<p, l>> \in toBackup

\* A phase is followed by a phase.
LEMMA Phases == \A p \in Phase : \A l : NextPhase(p, l) \in Phase
  BY DEF Phase, NextPhase

\* push_unique adds the line to the list, if it is not blank, and never twice.
LEMMA Pushed ==
    ASSUME NEW s \in Seq(Line), NEW l \in Line
    PROVE  /\ PushUnique(s, l) \in Seq(Line)
           /\ Range(PushUnique(s, l)) = IF l = Blank THEN Range(s) ELSE Range(s) \cup {l}
           /\ IsInjective(s) => IsInjective(PushUnique(s, l))
<1>1. CASE l = Blank \/ l \in Range(s)
  BY <1>1 DEF PushUnique
<1>2. CASE ~(l = Blank \/ l \in Range(s))
  <2>1. PushUnique(s, l) = Append(s, l)
    BY <1>2 DEF PushUnique
  <2>2. Range(Append(s, l)) = Range(s) \cup {l}
    <3>1. /\ \A i \in DOMAIN s : Append(s, l)[i] = s[i] /\ i \in DOMAIN Append(s, l)
          /\ \A i \in DOMAIN Append(s, l) : i = Len(s) + 1 \/ i \in DOMAIN s
          /\ Append(s, l)[Len(s) + 1] = l /\ Len(s) + 1 \in DOMAIN Append(s, l)
      OBVIOUS
    <3>2. Range(Append(s, l)) \subseteq Range(s) \cup {l}
      BY <3>1, Zenon DEF Range
    <3>3. Range(s) \cup {l} \subseteq Range(Append(s, l))
      BY <3>1, Zenon DEF Range
    <3> QED BY <3>2, <3>3
  <2>3. IsInjective(s) => IsInjective(Append(s, l))
    BY <1>2 DEF Range, IsInjective
  <2> QED BY <1>2, <2>1, <2>2, <2>3
<1> QED BY <1>1, <1>2

\* One turn: the phase goes on, and the line is kept, saved or dropped.
LEMMA Turn ==
    ASSUME NEW toBackup, NEW at \in Place, NEW l \in Line, NEW t, t = Take(toBackup, at, l)
    PROVE  /\ t \in Place
           /\ t.phase = NextPhase(at.phase, l)
           /\ t.main = IF Kept(toBackup, at.phase, l) THEN Append(at.main, l) ELSE at.main
           /\ t.backup = IF Saved(toBackup, at.phase, l) THEN PushUnique(at.backup, l) ELSE at.backup
<1>1. at.phase \in Phase /\ at.main \in Seq(Line) /\ at.backup \in Seq(Line)
  BY DEF Place
<1>2. /\ NextPhase(at.phase, l) \in Phase /\ PushUnique(at.backup, l) \in Seq(Line)
      /\ Append(at.main, l) \in Seq(Line)
  BY <1>1, Phases, Pushed
<1>3. CASE IsMarker(at.phase, l)
  <2>1. t = [at EXCEPT !.phase = NextPhase(at.phase, l)]
    BY <1>3 DEF Take, Copied
  <2> QED BY <1>1, <1>2, <1>3, <2>1 DEF Place, Kept, Saved
<1>4. CASE ~IsMarker(at.phase, l)
  <2>1. NextPhase(at.phase, l) = at.phase
    BY <1>4 DEF IsMarker
  <2>2. CASE at.phase = "block"
    <3>1. t = at
      BY <1>4, <2>2 DEF Take, Copied
    <3> QED BY <1>1, <2>1, <2>2, <3>1, Zenon DEF Kept, Saved
  <2>3. CASE at.phase # "block" /\ <<at.phase, l>> \in toBackup
    <3>1. t = [at EXCEPT !.backup = PushUnique(at.backup, l)]
      BY <1>4, <2>3 DEF Take, Copied
    <3> QED BY <1>1, <1>2, <1>4, <2>1, <2>3, <3>1 DEF Kept, Saved, Place
  <2>4. CASE at.phase # "block" /\ <<at.phase, l>> \notin toBackup
    <3>1. t = [at EXCEPT !.main = Append(at.main, l)]
      BY <1>4, <2>4 DEF Take, Copied
    <3>2. t \in Place
      BY <1>1, <1>2, <3>1 DEF Place
    <3>3. t.phase = at.phase /\ t.main = Append(at.main, l) /\ t.backup = at.backup
      BY <3>1 DEF Place
    <3> QED BY <1>4, <2>1, <2>4, <3>2, <3>3, Zenon DEF Kept, Saved
  <2> QED BY <2>2, <2>3, <2>4
<1> QED BY <1>3, <1>4

(***************************************************************************)
(* The loop.                                                               *)
(***************************************************************************)
Fresh == [phase |-> "main", main |-> <<>>, backup |-> <<>>]

Runs(toBackup, ls, r) ==
    /\ r \in [0..Len(ls) -> Place] /\ r[0] = Fresh
    /\ \A i \in 1..Len(ls) : r[i] = Take(toBackup, r[i - 1], ls[i])

\* Reader is the run of the loop over the lines: the recursive function that
\* satisfies its equation exists, by induction over the lines.
LEMMA Reads ==
    ASSUME NEW toBackup, NEW ls \in Seq(Line)
    PROVE  Runs(toBackup, ls, Reader(toBackup, ls))
<1> DEFINE Upto(k, f) == /\ f \in [0..k -> Place] /\ f[0] = Fresh
                         /\ \A i \in 1..k : f[i] = Take(toBackup, f[i - 1], ls[i])
           S == {k \in 0..Len(ls) : \E f : Upto(k, f)}
           Along(r) == [i \in 0..Len(ls) |-> IF i = 0 THEN Fresh ELSE Take(toBackup, r[i - 1], ls[i])]
<1>1. Len(ls) \in Nat /\ \A i \in 1..Len(ls) : ls[i] \in Line
  OBVIOUS
<1>2. 0 \in S
  <2>1. Fresh \in Place
    BY DEF Fresh, Place, Phase
  <2>2. Upto(0, [i \in 0..0 |-> Fresh])
    BY <2>1
  <2>3. 0 \in 0..Len(ls)
    BY <1>1
  <2> HIDE DEF Upto
  <2> QED BY <2>2, <2>3, Zenon
<1>3. ASSUME NEW k \in 0..(Len(ls) - 1), k \in S PROVE k + 1 \in S
  <2>1. PICK f : Upto(k, f)
    BY <1>3
  <2>2. f[k] \in Place /\ ls[k + 1] \in Line
    BY <1>1, <2>1
  <2>3. PICK t : t = Take(toBackup, f[k], ls[k + 1])
    OBVIOUS
  <2>4. t \in Place
    BY <2>2, <2>3, Turn
  <2> DEFINE g == [i \in 0..(k + 1) |-> IF i <= k THEN f[i] ELSE t]
  <2>5. g \in [0..(k + 1) -> Place] /\ g[0] = Fresh
    BY <2>1, <2>4
  <2>6. ASSUME NEW i \in 1..(k + 1) PROVE g[i] = Take(toBackup, g[i - 1], ls[i])
    BY <2>1, <2>3
  <2>7. Upto(k + 1, g)
    BY <2>5, <2>6
  <2>8. k + 1 \in 0..Len(ls)
    BY <1>1
  <2> HIDE DEF Upto, g
  <2> QED BY <2>7, <2>8, Zenon
<1>4. Len(ls) \in S
  <2> HIDE DEF S
  <2>1. \A i \in 0..Len(ls) : i \in S
    BY <1>1, <1>2, <1>3, Upwards, Zenon
  <2> QED BY <1>1, <2>1
<1>5. PICK f : Upto(Len(ls), f)
  BY <1>4
<1>6. f = Along(f)
  BY <1>1, <1>5
<1>7. Reader(toBackup, ls) = CHOOSE at : at = Along(at)
  BY Zenon DEF Reader, Fresh
<1>8. Reader(toBackup, ls) = Along(Reader(toBackup, ls))
  <2> HIDE DEF Along
  <2> QED BY <1>6, <1>7, Zenon
<1> DEFINE r == Reader(toBackup, ls)
<1>9. r[0] = Fresh /\ \A i \in 1..Len(ls) : r[i] = Take(toBackup, r[i - 1], ls[i])
  BY <1>1, <1>8
<1> DEFINE T == {k \in 0..Len(ls) : r[k] \in Place}
<1>10. T = 0..Len(ls)
  <2> HIDE DEF r
  <2>1. 0 \in T
    <3>1. Fresh \in Place
      BY DEF Fresh, Place, Phase
    <3> QED BY <1>1, <1>9, <3>1
  <2>2. ASSUME NEW k \in 0..(Len(ls) - 1), k \in T PROVE k + 1 \in T
    <3>1. r[k + 1] = Take(toBackup, r[k], ls[k + 1]) /\ ls[k + 1] \in Line /\ r[k] \in Place
      BY <1>1, <1>9, <2>2
    <3>2. r[k + 1] \in Place
      BY <3>1, Turn
    <3> QED BY <1>1, <3>2
  <2> HIDE DEF T
  <2>3. \A i \in 0..Len(ls) : i \in T
    BY <1>1, <2>1, <2>2, Upwards
  <2> QED BY <2>3 DEF T
<1>11. r \in [0..Len(ls) -> Place]
  <2>1. r = [i \in 0..Len(ls) |-> r[i]]
    BY <1>8
  <2> HIDE DEF r
  <2> QED BY <1>10, <2>1
<1> QED BY <1>9, <1>11 DEF Runs

\* Turn, for each line of the file.
LEMMA Turns ==
    ASSUME NEW toBackup, NEW ls \in Seq(Line), NEW r, Runs(toBackup, ls, r), NEW i \in 1..Len(ls)
    PROVE  /\ ls[i] \in Line /\ r[i] \in Place /\ r[i - 1] \in Place
           /\ r[i].phase = NextPhase(r[i - 1].phase, ls[i])
           /\ r[i].main = IF Kept(toBackup, r[i - 1].phase, ls[i])
                          THEN Append(r[i - 1].main, ls[i]) ELSE r[i - 1].main
           /\ r[i].backup = IF Saved(toBackup, r[i - 1].phase, ls[i])
                            THEN PushUnique(r[i - 1].backup, ls[i]) ELSE r[i - 1].backup
<1>1. Len(ls) \in Nat /\ i - 1 \in 0..Len(ls) /\ i \in 0..Len(ls) /\ ls[i] \in Line
  OBVIOUS
<1>2. r[i] = Take(toBackup, r[i - 1], ls[i]) /\ r[i] \in Place /\ r[i - 1] \in Place
  BY <1>1 DEF Runs
<1>3. PICK t : t = Take(toBackup, r[i - 1], ls[i])
  OBVIOUS
<1>4. r[i] = t /\ ls[i] \in Line /\ r[i] \in Place /\ r[i - 1] \in Place
  BY <1>1, <1>2, <1>3
<1>5. /\ t.phase = NextPhase(r[i - 1].phase, ls[i])
      /\ t.main = IF Kept(toBackup, r[i - 1].phase, ls[i])
                  THEN Append(r[i - 1].main, ls[i]) ELSE r[i - 1].main
      /\ t.backup = IF Saved(toBackup, r[i - 1].phase, ls[i])
                    THEN PushUnique(r[i - 1].backup, ls[i]) ELSE r[i - 1].backup
  BY <1>3, <1>4, Turn
<1> QED BY <1>4, <1>5, Zenon

\* The phase after a line.
LEMMA PhaseAfter ==
    ASSUME NEW toBackup, NEW ls \in Seq(Line), NEW r, Runs(toBackup, ls, r), NEW i \in 1..Len(ls)
    PROVE  r[i].phase = NextPhase(r[i - 1].phase, ls[i])
  BY Turns

\* The loop begins in the main part with empty lists.
LEMMA Begins == Fresh.phase = "main" /\ Fresh.main = <<>> /\ Fresh.backup = <<>>
  BY DEF Fresh

\* What holds before the loop and after each turn, holds throughout.
LEMMA AllTurns ==
    ASSUME NEW toBackup, NEW ls \in Seq(Line), NEW r, Runs(toBackup, ls, r), NEW S, Fresh \in S,
           \A i \in 1..Len(ls) : r[i - 1] \in S => r[i] \in S
    PROVE  \A i \in 0..Len(ls) : r[i] \in S
<1> DEFINE K == {i \in 0..Len(ls) : r[i] \in S}
<1>1. Len(ls) \in Nat
  OBVIOUS
<1>2. 0 \in K
  BY <1>1 DEF Runs
<1>3. \A i \in 0..(Len(ls) - 1) : i \in K => i + 1 \in K
  <2> SUFFICES ASSUME NEW i \in 0..(Len(ls) - 1), i \in K PROVE i + 1 \in K
    OBVIOUS
  <2>1. i + 1 \in 1..Len(ls) /\ i + 1 \in 0..Len(ls) /\ (i + 1) - 1 = i
    BY <1>1
  <2> QED BY <2>1, Zenon
<1>4. \A i \in 0..Len(ls) : i \in K
  <2> HIDE DEF K
  <2> QED BY <1>1, <1>2, <1>3, Upwards, Zenon
<1> QED BY <1>4

\* The lines that a file of this editor has in each phase.
Proper(p, l) ==
    IsMarker(p, l) \/ (IF p = "block" THEN l \in Entrance ELSE l \in Own \cup {Blank})
Phased(ls, f) ==
    /\ f \in [0..Len(ls) -> Phase] /\ f[0] = "main"
    /\ \A i \in 1..Len(ls) : f[i] = NextPhase(f[i - 1], ls[i]) /\ Proper(f[i - 1], ls[i])
Tidy(ls) == \E f : Phased(ls, f)

\* The reader is in the phases of f.
Agrees(ls, r, f) == \A i \in 0..Len(ls) : r[i].phase = f[i]

\* The reader is in the phase the lines say, whatever it keeps apart.
LEMMA SamePhase ==
    ASSUME NEW toBackup, NEW ls \in Seq(Line), NEW r, Runs(toBackup, ls, r), NEW f, Phased(ls, f)
    PROVE  Agrees(ls, r, f)
<1> DEFINE K == {i \in 0..Len(ls) : r[i].phase = f[i]}
<1>1. Len(ls) \in Nat
  OBVIOUS
<1>2. 0 \in K
  BY <1>1, Begins DEF Runs, Phased
<1>3. \A i \in 0..(Len(ls) - 1) : i \in K => i + 1 \in K
  <2> SUFFICES ASSUME NEW i \in 0..(Len(ls) - 1), i \in K PROVE i + 1 \in K
    OBVIOUS
  <2>1. i + 1 \in 1..Len(ls) /\ i + 1 \in 0..Len(ls) /\ (i + 1) - 1 = i
    BY <1>1
  <2>2. r[i + 1].phase = NextPhase(r[(i + 1) - 1].phase, ls[i + 1])
    <3> DEFINE j == i + 1
    <3>1. j \in 1..Len(ls)
      BY <2>1
    <3> HIDE DEF j
    <3>2. r[j].phase = NextPhase(r[j - 1].phase, ls[j])
      BY <3>1, PhaseAfter
    <3> QED BY <3>2 DEF j
  <2>3. f[i + 1] = NextPhase(f[(i + 1) - 1], ls[i + 1])
    BY <2>1, Zenon DEF Phased
  <2> QED BY <2>1, <2>2, <2>3, Zenon
<1>4. \A i \in 0..Len(ls) : i \in K
  <2> HIDE DEF K
  <2> QED BY <1>1, <1>2, <1>3, Upwards, Zenon
<1> QED BY <1>4 DEF Agrees

(***************************************************************************)
(* What the two lists hold.                                                *)
(***************************************************************************)
\* The lines of a list with one more at its end.
LEMMA Appended ==
    ASSUME NEW s \in Seq(Line), NEW l
    PROVE  Range(Append(s, l)) = Range(s) \cup {l}
<1>1. /\ \A i \in DOMAIN s : Append(s, l)[i] = s[i] /\ i \in DOMAIN Append(s, l)
      /\ \A i \in DOMAIN Append(s, l) : i = Len(s) + 1 \/ i \in DOMAIN s
      /\ Append(s, l)[Len(s) + 1] = l /\ Len(s) + 1 \in DOMAIN Append(s, l)
  OBVIOUS
<1>2. Range(Append(s, l)) \subseteq Range(s) \cup {l}
  BY <1>1, Zenon DEF Range
<1>3. Range(s) \cup {l} \subseteq Range(Append(s, l))
  BY <1>1, Zenon DEF Range
<1> QED BY <1>2, <1>3

\* An empty list has no lines.
LEMMA NoLines == Range(<<>>) = {} /\ IsInjective(<<>>)
  BY DEF Range, IsInjective

\* In the main part every marker counts as one.
LEMMA MarkersOfMain == \A l \in Markers : IsMarker("main", l)
  BY Kinds DEF Markers, IsMarker, NextPhase

\* The end marker of the backup is never copied.
LEMMA EndOfBackup == \A p \in {"main", "backup"} : IsMarker(p, BackupEnd)
  BY Kinds DEF IsMarker, NextPhase

\* The lines that each of the two rewrites moves to the backup.
LEMMA Sources ==
    ASSUME NEW M
    PROVE  \A l \in Line :
             /\ <<"main", l>> \in Conflicting(M) <=> (LineDomains(l) \cap M # {})
             /\ <<"backup", l>> \in Conflicting(M) <=>
                    (LineDomains(l) \cap M # {} \/ LineDomains(l) = {})
             /\ <<"main", l>> \notin InBackup
             /\ <<"backup", l>> \in InBackup
  BY DEF Conflicting, InBackup

\* What the reader may keep in the main part for an update.
LEMMA MainOfUpdate ==
    ASSUME NEW M, NEW ls \in Seq(Line), NEW r, Runs(Conflicting(M), ls, r)
    PROVE  \A i \in 0..Len(ls) : \A l \in Range(r[i].main) :
                LineDomains(l) \cap M = {} /\ l \notin Markers
<1> DEFINE Good == {l \in Line : LineDomains(l) \cap M = {} /\ l \notin Markers}
           S == {at \in Place : Range(at.main) \subseteq Good}
<1>1. Fresh \in S
  <2>1. Fresh \in Place
    BY DEF Fresh, Place, Phase
  <2> QED BY <2>1, Begins, NoLines
<1>2. \A i \in 1..Len(ls) : r[i - 1] \in S => r[i] \in S
  <2> SUFFICES ASSUME NEW i \in 1..Len(ls), r[i - 1] \in S PROVE r[i] \in S
    OBVIOUS
  <2>1. /\ ls[i] \in Line /\ r[i] \in Place /\ r[i - 1] \in Place
        /\ r[i].main = IF Kept(Conflicting(M), r[i - 1].phase, ls[i])
                       THEN Append(r[i - 1].main, ls[i]) ELSE r[i - 1].main
    BY Turns
  <2>2. r[i - 1].phase \in Phase /\ r[i - 1].main \in Seq(Line)
    BY <2>1 DEF Place
  <2>3. ASSUME Kept(Conflicting(M), r[i - 1].phase, ls[i]) PROVE ls[i] \in Good
    <3>1. ~IsMarker(r[i - 1].phase, ls[i]) /\ <<r[i - 1].phase, ls[i]>> \notin Conflicting(M)
      BY <2>3, Zenon DEF Kept
    <3>2. CASE r[i - 1].phase = "main"
      <4>1. ~IsMarker("main", ls[i]) /\ <<"main", ls[i]>> \notin Conflicting(M)
        BY <3>1, <3>2
      <4>2. LineDomains(ls[i]) \cap M = {}
        BY <2>1, <4>1, Sources
      <4> QED BY <2>1, <4>1, <4>2, MarkersOfMain
    <3>3. CASE r[i - 1].phase = "backup"
      <4>1. <<"backup", ls[i]>> \notin Conflicting(M)
        BY <3>1, <3>3
      <4>2. LineDomains(ls[i]) \cap M = {} /\ LineDomains(ls[i]) # {}
        BY <2>1, <4>1, Sources
      <4> QED BY <2>1, <4>2, Mapped
    <3> QED BY <2>2, <2>3, <3>2, <3>3 DEF Phase, Kept
  <2>4. CASE Kept(Conflicting(M), r[i - 1].phase, ls[i])
    <3>1. Range(r[i].main) = Range(r[i - 1].main) \cup {ls[i]}
      BY <2>1, <2>2, <2>4, Appended
    <3> QED BY <2>1, <2>3, <2>4, <3>1
  <2>5. CASE ~Kept(Conflicting(M), r[i - 1].phase, ls[i])
    BY <2>1, <2>5
  <2> QED BY <2>4, <2>5
<1> HIDE DEF S
<1>3. \A i \in 0..Len(ls) : r[i] \in S
  BY <1>1, <1>2, AllTurns, Zenon
<1> QED BY <1>3 DEF S

\* What it may keep in the backup block: each line once, none of them blank.
LEMMA BackupBlockOf ==
    ASSUME NEW toBackup, NEW ls \in Seq(Line), NEW r, Runs(toBackup, ls, r),
           \A l \in Line : <<"main", l>> \in toBackup => <<"backup", l>> \in toBackup
    PROVE  \A i \in 0..Len(ls) :
                /\ IsInjective(r[i].backup)
                /\ \A l \in Range(r[i].backup) :
                        l # Blank /\ l # BackupEnd /\ <<"backup", l>> \in toBackup
<1> DEFINE Good == {l \in Line : l # Blank /\ l # BackupEnd /\ <<"backup", l>> \in toBackup}
           S == {at \in Place : Range(at.backup) \subseteq Good /\ IsInjective(at.backup)}
<1>1. Fresh \in S
  <2>1. Fresh \in Place
    BY DEF Fresh, Place, Phase
  <2> QED BY <2>1, Begins, NoLines
<1>2. \A i \in 1..Len(ls) : r[i - 1] \in S => r[i] \in S
  <2> SUFFICES ASSUME NEW i \in 1..Len(ls), r[i - 1] \in S PROVE r[i] \in S
    OBVIOUS
  <2>1. /\ ls[i] \in Line /\ r[i] \in Place /\ r[i - 1] \in Place
        /\ r[i].backup = IF Saved(toBackup, r[i - 1].phase, ls[i])
                         THEN PushUnique(r[i - 1].backup, ls[i]) ELSE r[i - 1].backup
    BY Turns
  <2>2. r[i - 1].phase \in Phase /\ r[i - 1].backup \in Seq(Line)
    BY <2>1 DEF Place
  <2>3. ASSUME Saved(toBackup, r[i - 1].phase, ls[i]), ls[i] # Blank PROVE ls[i] \in Good
    <3>1. r[i - 1].phase \in {"main", "backup"}
      BY <2>2, <2>3 DEF Saved, Phase
    <3>2. ls[i] # BackupEnd
      BY <2>3, <3>1, EndOfBackup, Zenon DEF Saved
    <3>3. <<"backup", ls[i]>> \in toBackup
      <4>1. <<r[i - 1].phase, ls[i]>> \in toBackup
        BY <2>3, Zenon DEF Saved
      <4> QED BY <2>1, <3>1, <4>1
    <3> QED BY <2>1, <2>3, <3>2, <3>3
  <2>4. CASE Saved(toBackup, r[i - 1].phase, ls[i])
    <3>1. r[i].backup = PushUnique(r[i - 1].backup, ls[i])
      BY <2>1, <2>4
    <3>2. /\ Range(r[i].backup) = IF ls[i] = Blank THEN Range(r[i - 1].backup) ELSE Range(r[i - 1].backup) \cup {ls[i]}
          /\ IsInjective(r[i - 1].backup) => IsInjective(r[i].backup)
      <4> DEFINE b == r[i - 1].backup
      <4>1. /\ Range(PushUnique(b, ls[i])) = IF ls[i] = Blank THEN Range(b) ELSE Range(b) \cup {ls[i]}
            /\ IsInjective(b) => IsInjective(PushUnique(b, ls[i]))
        <5> HIDE DEF b
        <5> QED BY <2>1, <2>2, Pushed DEF b
      <4> QED BY <3>1, <4>1, Zenon
    <3> QED BY <2>1, <2>3, <2>4, <3>2
  <2>5. CASE ~Saved(toBackup, r[i - 1].phase, ls[i])
    BY <2>1, <2>5
  <2> QED BY <2>4, <2>5
<1> HIDE DEF S
<1>3. \A i \in 0..Len(ls) : r[i] \in S
  BY <1>1, <1>2, AllTurns, Zenon
<1> QED BY <1>3 DEF S

\* Other lines do not end a phase.
LEMMA NotMarker == \A p, l : l \notin Markers => ~IsMarker(p, l) /\ NextPhase(p, l) = p
  BY DEF Markers, IsMarker, NextPhase

\* Of a tidy file, blank lines and the user's lines are kept, and the user's only
\* in the backup block.
LEMMA ListsOfTidy ==
    ASSUME NEW toBackup, NEW ls \in Seq(Line), NEW r, Runs(toBackup, ls, r), Tidy(ls)
    PROVE  \A i \in 0..Len(ls) :
                Range(r[i].main) \subseteq Own \cup {Blank} /\ Range(r[i].backup) \subseteq Own
<1> DEFINE S == {at \in Place : Range(at.main) \subseteq Own \cup {Blank} /\ Range(at.backup) \subseteq Own}
<1>1. PICK f : Phased(ls, f)
  BY DEF Tidy
<1>2. \A i \in 0..Len(ls) : r[i].phase = f[i]
  BY <1>1, SamePhase DEF Agrees
<1>3. Fresh \in S
  <2>1. Fresh \in Place
    BY DEF Fresh, Place, Phase
  <2> QED BY <2>1, Begins, NoLines
<1>4. \A i \in 1..Len(ls) : r[i - 1] \in S => r[i] \in S
  <2> SUFFICES ASSUME NEW i \in 1..Len(ls), r[i - 1] \in S PROVE r[i] \in S
    OBVIOUS
  <2>1. /\ ls[i] \in Line /\ r[i] \in Place /\ r[i - 1] \in Place
        /\ r[i].main = IF Kept(toBackup, r[i - 1].phase, ls[i])
                       THEN Append(r[i - 1].main, ls[i]) ELSE r[i - 1].main
        /\ r[i].backup = IF Saved(toBackup, r[i - 1].phase, ls[i])
                         THEN PushUnique(r[i - 1].backup, ls[i]) ELSE r[i - 1].backup
    BY Turns
  <2> DEFINE p == r[i - 1].phase
             m == r[i - 1].main
             b == r[i - 1].backup
  <2>2. m \in Seq(Line) /\ b \in Seq(Line)
    BY <2>1 DEF Place
  <2>3. Proper(p, ls[i])
    <3>1. i - 1 \in 0..Len(ls) /\ Len(ls) \in Nat
      OBVIOUS
    <3>2. p = f[i - 1]
      BY <1>2, <3>1, Zenon
    <3> QED BY <1>1, <3>2, Zenon DEF Phased
  <2> HIDE DEF p, m, b
  <2>4. Kept(toBackup, p, ls[i]) \/ Saved(toBackup, p, ls[i]) => ls[i] \in Own \cup {Blank}
    BY <2>3 DEF Kept, Saved, Proper
  <2>5. Range(r[i].main) \subseteq Own \cup {Blank}
    <3>1. CASE Kept(toBackup, p, ls[i])
      <4>1. r[i].main = Append(m, ls[i])
        BY <2>1, <3>1 DEF p, m
      <4>2. Range(Append(m, ls[i])) = Range(m) \cup {ls[i]}
        BY <2>2, Appended
      <4> QED BY <2>4, <3>1, <4>1, <4>2 DEF m
    <3>2. CASE ~Kept(toBackup, p, ls[i])
      <4>1. r[i].main = m
        BY <2>1, <3>2 DEF p, m
      <4> QED BY <4>1 DEF m
    <3> QED BY <3>1, <3>2
  <2>6. Range(r[i].backup) \subseteq Own
    <3>1. CASE Saved(toBackup, p, ls[i])
      <4>1. r[i].backup = PushUnique(b, ls[i])
        BY <2>1, <3>1 DEF p, b
      <4>2. Range(PushUnique(b, ls[i])) = IF ls[i] = Blank THEN Range(b) ELSE Range(b) \cup {ls[i]}
        BY <2>1, <2>2, Pushed
      <4> QED BY <2>4, <3>1, <4>1, <4>2 DEF b
    <3>2. CASE ~Saved(toBackup, p, ls[i])
      <4>1. r[i].backup = b
        BY <2>1, <3>2 DEF p, b
      <4> QED BY <4>1 DEF b
    <3> QED BY <3>1, <3>2
  <2> QED BY <2>1, <2>5, <2>6
<1> HIDE DEF S
<1>5. \A i \in 0..Len(ls) : r[i] \in S
  BY <1>3, <1>4, AllTurns, Zenon
<1> QED BY <1>5 DEF S

\* No line of the user is lost and none is invented.
Met(ls, n, l) == \E j \in 1..n : ls[j] = l

\* The two lists have exactly those lines of the user that were read.
LEMMA OwnKept ==
    ASSUME NEW toBackup, NEW ls \in Seq(Line), NEW r, Runs(toBackup, ls, r), Tidy(ls),
           NEW n \in 0..Len(ls), NEW v \in Own
    PROVE  v \in Range(r[n].main) \cup Range(r[n].backup) <=> Met(ls, n, v)
<1> DEFINE Both(i) == Range(r[i].main) \cup Range(r[i].backup)
           K == {i \in 0..Len(ls) : \A u \in Own : u \in Both(i) <=> \E j \in 1..i : ls[j] = u}
<1>1. PICK f : Phased(ls, f)
  BY DEF Tidy
<1>2. \A i \in 0..Len(ls) : r[i].phase = f[i]
  BY <1>1, SamePhase DEF Agrees
<1>3. Len(ls) \in Nat
  OBVIOUS
<1>4. 0 \in K
  <2>1. Both(0) = {}
    BY Begins, NoLines DEF Runs
  <2> QED BY <1>3, <2>1
<1>5. \A i \in 0..(Len(ls) - 1) : i \in K => i + 1 \in K
  <2> SUFFICES ASSUME NEW k \in 0..(Len(ls) - 1), k \in K PROVE k + 1 \in K
    OBVIOUS
  <2>1. k + 1 \in 1..Len(ls) /\ k + 1 \in 0..Len(ls) /\ (k + 1) - 1 = k /\ k \in 0..Len(ls)
    BY <1>3
  <2> DEFINE i == k + 1
             x == ls[i]
             p == r[k].phase
             m == r[k].main
             b == r[k].backup
  <2>2. /\ x \in Line /\ r[i] \in Place /\ r[k] \in Place
        /\ r[i].main = IF Kept(toBackup, p, x) THEN Append(m, x) ELSE m
        /\ r[i].backup = IF Saved(toBackup, p, x) THEN PushUnique(b, x) ELSE b
    BY <2>1, Turns
  <2>3. m \in Seq(Line) /\ b \in Seq(Line)
    BY <2>2 DEF Place
  <2>4. Proper(p, x)
    <3>1. p = f[k]
      BY <1>2, <2>1, Zenon
    <3>2. Proper(f[i - 1], x)
      BY <1>1, <2>1, Zenon DEF Phased
    <3> QED BY <2>1, <3>1, <3>2, Zenon
  <2>5. /\ Range(Append(m, x)) = Range(m) \cup {x}
        /\ Range(PushUnique(b, x)) = IF x = Blank THEN Range(b) ELSE Range(b) \cup {x}
    <3> HIDE DEF m, b, x
    <3> QED BY <2>2, <2>3, Appended, Pushed
  <2>6. \A u \in Own : (\E j \in 1..i : ls[j] = u) <=> (u = x \/ \E j \in 1..k : ls[j] = u)
    <3>1. 1..i = 1..k \cup {i}
      BY <2>1
    <3> QED BY <3>1
  <2>7. Both(k) = Range(m) \cup Range(b) /\ Both(i) = Range(r[i].main) \cup Range(r[i].backup)
    OBVIOUS
  <2>8. \A u \in Own : u \in Both(k) <=> \E j \in 1..k : ls[j] = u
    OBVIOUS
  <2> HIDE DEF m, b, x, p, i, Both
  <2>9. CASE x \in Own
    <3>1. x \notin Markers /\ x # Blank /\ x \notin Entrance
      BY <2>9, Kinds
    <3>2. ~IsMarker(p, x)
      BY <3>1, NotMarker
    <3>3. p # "block"
      BY <2>4, <3>1, <3>2 DEF Proper
    <3>4. CASE <<p, x>> \in toBackup
      <4>1. r[i].backup = PushUnique(b, x) /\ r[i].main = m
        BY <2>2, <3>2, <3>3, <3>4 DEF Kept, Saved
      <4>2. Both(i) = Both(k) \cup {x}
        BY <2>5, <2>7, <3>1, <4>1
      <4>3. \A u \in Own : u \in Both(i) <=> \E j \in 1..i : ls[j] = u
        BY <2>6, <2>8, <4>2
      <4> QED BY <2>1, <4>3 DEF i
    <3>5. CASE <<p, x>> \notin toBackup
      <4>1. r[i].main = Append(m, x) /\ r[i].backup = b
        BY <2>2, <3>2, <3>3, <3>5 DEF Kept, Saved
      <4>2. Both(i) = Both(k) \cup {x}
        BY <2>5, <2>7, <3>1, <4>1
      <4>3. \A u \in Own : u \in Both(i) <=> \E j \in 1..i : ls[j] = u
        BY <2>6, <2>8, <4>2
      <4> QED BY <2>1, <4>3 DEF i
    <3> QED BY <3>4, <3>5
  <2>10. CASE x \notin Own
    <3>1. Range(r[i].main) \in {Range(m), Range(m) \cup {x}}
      BY <2>2, <2>5
    <3>2. Range(r[i].backup) \in {Range(b), Range(b) \cup {x}}
      BY <2>2, <2>5
    <3>3. Both(i) \in {Both(k), Both(k) \cup {x}}
      BY <2>7, <3>1, <3>2
    <3>4. \A u \in Own : u \in Both(i) <=> \E j \in 1..i : ls[j] = u
      BY <2>6, <2>8, <2>10, <3>3
    <3> QED BY <2>1, <3>4 DEF i
  <2> QED BY <2>9, <2>10
<1>6. \A i \in 0..Len(ls) : i \in K
  <2> HIDE DEF K
  <2> QED BY <1>3, <1>4, <1>5, Upwards, Zenon
<1> QED BY <1>6 DEF Met

(***************************************************************************)
(* Stretches of a file that is read: the lines n+1, n+2, ... of ls are     *)
(* those of s.                                                             *)
(***************************************************************************)
\* Sequences with the same elements are the same.
LEMMA SameItems ==
    ASSUME NEW E, NEW e \in Seq(E), NEW f \in Seq(E), Len(e) = Len(f), \A i \in 1..Len(e) : e[i] = f[i]
    PROVE  e = f
  OBVIOUS

Stretch(ls, n, s) == n + Len(s) <= Len(ls) /\ \A j \in 1..Len(s) : ls[n + j] = s[j]

\* The concatenation under a name, which the provers do not open.
Join(s, t) == s \o t

\* A list that a sequence is appended to, line by line.
LEMMA Longer ==
    ASSUME NEW m \in Seq(Line), NEW s \in Seq(Line)
    PROVE  /\ m \o SubSeq(s, 1, 0) = m /\ SubSeq(s, 1, Len(s)) = s
           /\ \A k \in 0..(Len(s) - 1) :
                Append(m \o SubSeq(s, 1, k), s[k + 1]) = m \o SubSeq(s, 1, k + 1)
<1>1. \A k \in 0..(Len(s) - 1) :
        Append(m \o SubSeq(s, 1, k), s[k + 1]) = m \o SubSeq(s, 1, k + 1)
  <2> SUFFICES ASSUME NEW k \in 0..(Len(s) - 1)
               PROVE  Append(m \o SubSeq(s, 1, k), s[k + 1]) = m \o SubSeq(s, 1, k + 1)
    OBVIOUS
  <2> DEFINE a == Append(m \o SubSeq(s, 1, k), s[k + 1])
             b == m \o SubSeq(s, 1, k + 1)
  <2>1. a \in Seq(Line) /\ b \in Seq(Line) /\ Len(a) = Len(b)
    OBVIOUS
  <2>2. \A i \in 1..Len(a) : a[i] = b[i]
    OBVIOUS
  <2> HIDE DEF a, b
  <2>3. a = b
    BY <2>1, <2>2, SameItems
  <2> QED BY <2>3 DEF a, b
<1>2. m \o SubSeq(s, 1, 0) = m
  OBVIOUS
<1>3. SubSeq(s, 1, Len(s)) = s
  OBVIOUS
<1> QED BY <1>1, <1>2, <1>3

\* A stretch of other lines in the main part is appended to the main list.
LEMMA OfMain ==
    ASSUME NEW toBackup, NEW ls \in Seq(Line), NEW r, Runs(toBackup, ls, r),
           NEW n \in Nat, NEW s \in Seq(Line), Stretch(ls, n, s), r[n].phase = "main",
           \A l \in Range(s) : l \notin Markers /\ <<"main", l>> \notin toBackup
    PROVE  /\ r[n + Len(s)].phase = "main"
           /\ r[n + Len(s)].main = Join(r[n].main, s)
           /\ r[n + Len(s)].backup = r[n].backup
<1> DEFINE At(k) == /\ r[n + k].phase = "main" /\ r[n + k].main = r[n].main \o SubSeq(s, 1, k)
                    /\ r[n + k].backup = r[n].backup
           K == {k \in 0..Len(s) : At(k)}
<1>1. Len(s) \in Nat /\ Len(ls) \in Nat /\ n + Len(s) <= Len(ls)
  BY DEF Stretch
<1>2. r[n].main \in Seq(Line)
  <2>1. n \in 0..Len(ls)
    BY <1>1
  <2> QED BY <2>1 DEF Runs, Place
<1>3. At(0)
  <2>1. n + 0 = n /\ r[n].main \o SubSeq(s, 1, 0) = r[n].main
    BY <1>2, Longer
  <2> QED BY <2>1
<1>4. \A k \in 0..(Len(s) - 1) : k \in K => k + 1 \in K
  <2> SUFFICES ASSUME NEW k \in 0..(Len(s) - 1), At(k) PROVE k + 1 \in 0..Len(s) /\ At(k + 1)
    OBVIOUS
  <2>1. /\ n + (k + 1) \in 1..Len(ls) /\ (n + (k + 1)) - 1 = n + k /\ k + 1 \in 1..Len(s)
        /\ k + 1 \in 0..Len(s)
    BY <1>1
  <2> DEFINE x == s[k + 1]
             i == n + (k + 1)
  <2>2. ls[i] = x /\ x \in Range(s)
    BY <2>1 DEF Stretch, Range
  <2>3. /\ r[i].phase = NextPhase(r[n + k].phase, x)
        /\ r[i].main = IF Kept(toBackup, r[n + k].phase, x) THEN Append(r[n + k].main, x) ELSE r[n + k].main
        /\ r[i].backup = IF Saved(toBackup, r[n + k].phase, x) THEN PushUnique(r[n + k].backup, x) ELSE r[n + k].backup
    <3>1. i \in 1..Len(ls) /\ i - 1 = n + k
      BY <2>1
    <3> HIDE DEF i, x
    <3>2. /\ r[i].phase = NextPhase(r[i - 1].phase, ls[i])
          /\ r[i].main = IF Kept(toBackup, r[i - 1].phase, ls[i])
                         THEN Append(r[i - 1].main, ls[i]) ELSE r[i - 1].main
          /\ r[i].backup = IF Saved(toBackup, r[i - 1].phase, ls[i])
                           THEN PushUnique(r[i - 1].backup, ls[i]) ELSE r[i - 1].backup
      BY <3>1, Turns
    <3> QED BY <2>2, <3>1, <3>2, Zenon
  <2>4. x \notin Markers /\ <<"main", x>> \notin toBackup
    BY <2>2
  <2>5. NextPhase("main", x) = "main" /\ Kept(toBackup, "main", x) /\ ~Saved(toBackup, "main", x)
    BY <2>4, NotMarker DEF Kept, Saved
  <2>6. r[i].phase = "main" /\ r[i].main = Append(r[n + k].main, x) /\ r[i].backup = r[n].backup
    BY <2>3, <2>5
  <2>7. Append(r[n].main \o SubSeq(s, 1, k), x) = r[n].main \o SubSeq(s, 1, k + 1)
    BY <1>2, Longer
  <2> QED BY <2>1, <2>6, <2>7
<1>5. \A k \in 0..Len(s) : k \in K
  <2>1. 0 \in K
    BY <1>1, <1>3
  <2> HIDE DEF K
  <2> QED BY <1>1, <2>1, <1>4, Upwards, Zenon
<1>6. At(Len(s))
  <2> HIDE DEF At
  <2>1. Len(s) \in 0..Len(s)
    BY <1>1
  <2> QED BY <1>5, <2>1
<1> QED BY <1>2, <1>6, Longer DEF Join

\* A stretch of other lines in the block is dropped.
LEMMA OfBlock ==
    ASSUME NEW toBackup, NEW ls \in Seq(Line), NEW r, Runs(toBackup, ls, r),
           NEW n \in Nat, NEW s \in Seq(Line), Stretch(ls, n, s), r[n].phase = "block",
           \A l \in Range(s) : l \notin Markers
    PROVE  /\ r[n + Len(s)].phase = "block"
           /\ r[n + Len(s)].main = r[n].main
           /\ r[n + Len(s)].backup = r[n].backup
<1> DEFINE At(k) == /\ r[n + k].phase = "block" /\ r[n + k].main = r[n].main
                    /\ r[n + k].backup = r[n].backup
           K == {k \in 0..Len(s) : At(k)}
<1>1. Len(s) \in Nat /\ Len(ls) \in Nat /\ n + Len(s) <= Len(ls)
  BY DEF Stretch
<1>2. At(0)
  <2>1. n + 0 = n
    OBVIOUS
  <2> QED BY <2>1
<1>3. \A k \in 0..(Len(s) - 1) : k \in K => k + 1 \in K
  <2> SUFFICES ASSUME NEW k \in 0..(Len(s) - 1), At(k) PROVE k + 1 \in 0..Len(s) /\ At(k + 1)
    OBVIOUS
  <2>1. /\ n + (k + 1) \in 1..Len(ls) /\ (n + (k + 1)) - 1 = n + k /\ k + 1 \in 1..Len(s)
        /\ k + 1 \in 0..Len(s)
    BY <1>1
  <2> DEFINE x == s[k + 1]
             i == n + (k + 1)
  <2>2. ls[i] = x /\ x \in Range(s)
    BY <2>1 DEF Stretch, Range
  <2>3. /\ r[i].phase = NextPhase(r[n + k].phase, x)
        /\ r[i].main = IF Kept(toBackup, r[n + k].phase, x) THEN Append(r[n + k].main, x) ELSE r[n + k].main
        /\ r[i].backup = IF Saved(toBackup, r[n + k].phase, x) THEN PushUnique(r[n + k].backup, x) ELSE r[n + k].backup
    <3>1. i \in 1..Len(ls) /\ i - 1 = n + k
      BY <2>1
    <3> HIDE DEF i, x
    <3>2. /\ r[i].phase = NextPhase(r[i - 1].phase, ls[i])
          /\ r[i].main = IF Kept(toBackup, r[i - 1].phase, ls[i])
                         THEN Append(r[i - 1].main, ls[i]) ELSE r[i - 1].main
          /\ r[i].backup = IF Saved(toBackup, r[i - 1].phase, ls[i])
                           THEN PushUnique(r[i - 1].backup, ls[i]) ELSE r[i - 1].backup
      BY <3>1, Turns
    <3> QED BY <2>2, <3>1, <3>2, Zenon
  <2>4. NextPhase("block", x) = "block" /\ ~Kept(toBackup, "block", x) /\ ~Saved(toBackup, "block", x)
    BY <2>2, NotMarker DEF Kept, Saved
  <2> QED BY <2>1, <2>3, <2>4
<1>4. \A k \in 0..Len(s) : k \in K
  <2>1. 0 \in K
    BY <1>1, <1>2
  <2> HIDE DEF K
  <2> QED BY <1>1, <2>1, <1>3, Upwards, Zenon
<1> QED BY <1>1, <1>4

\* A backup block without repetitions is taken over as it is.
LEMMA OfBackup ==
    ASSUME NEW toBackup, NEW ls \in Seq(Line), NEW r, Runs(toBackup, ls, r),
           NEW n \in Nat, NEW s \in Seq(Line), Stretch(ls, n, s),
           r[n].phase = "backup", r[n].backup = <<>>, IsInjective(s),
           \A l \in Range(s) : l # Blank /\ l # BackupEnd /\ <<"backup", l>> \in toBackup
    PROVE  /\ r[n + Len(s)].phase = "backup"
           /\ r[n + Len(s)].main = r[n].main
           /\ r[n + Len(s)].backup = s
<1> DEFINE At(k) == /\ r[n + k].phase = "backup" /\ r[n + k].main = r[n].main
                    /\ r[n + k].backup = SubSeq(s, 1, k)
           K == {k \in 0..Len(s) : At(k)}
<1>1. Len(s) \in Nat /\ Len(ls) \in Nat /\ n + Len(s) <= Len(ls)
  BY DEF Stretch
<1>2. At(0)
  <2>1. n + 0 = n /\ SubSeq(s, 1, 0) = <<>>
    OBVIOUS
  <2> QED BY <2>1
<1>3. \A k \in 0..(Len(s) - 1) : k \in K => k + 1 \in K
  <2> SUFFICES ASSUME NEW k \in 0..(Len(s) - 1), At(k) PROVE k + 1 \in 0..Len(s) /\ At(k + 1)
    OBVIOUS
  <2>1. /\ n + (k + 1) \in 1..Len(ls) /\ (n + (k + 1)) - 1 = n + k /\ k + 1 \in 1..Len(s)
        /\ k + 1 \in 0..Len(s)
    BY <1>1
  <2> DEFINE x == s[k + 1]
             i == n + (k + 1)
  <2>2. ls[i] = x /\ x \in Range(s)
    BY <2>1 DEF Stretch, Range
  <2>3. /\ r[i].phase = NextPhase(r[n + k].phase, x)
        /\ r[i].main = IF Kept(toBackup, r[n + k].phase, x) THEN Append(r[n + k].main, x) ELSE r[n + k].main
        /\ r[i].backup = IF Saved(toBackup, r[n + k].phase, x) THEN PushUnique(r[n + k].backup, x) ELSE r[n + k].backup
    <3>1. i \in 1..Len(ls) /\ i - 1 = n + k
      BY <2>1
    <3> HIDE DEF i, x
    <3>2. /\ r[i].phase = NextPhase(r[i - 1].phase, ls[i])
          /\ r[i].main = IF Kept(toBackup, r[i - 1].phase, ls[i])
                         THEN Append(r[i - 1].main, ls[i]) ELSE r[i - 1].main
          /\ r[i].backup = IF Saved(toBackup, r[i - 1].phase, ls[i])
                           THEN PushUnique(r[i - 1].backup, ls[i]) ELSE r[i - 1].backup
      BY <3>1, Turns
    <3> QED BY <2>2, <3>1, <3>2, Zenon
  <2>4. x # Blank /\ x # BackupEnd /\ <<"backup", x>> \in toBackup
    BY <2>2
  <2>5. NextPhase("backup", x) = "backup" /\ ~IsMarker("backup", x)
    BY <2>4 DEF NextPhase, IsMarker
  <2>6. ~Kept(toBackup, "backup", x) /\ Saved(toBackup, "backup", x)
    BY <2>4, <2>5 DEF Kept, Saved
  <2>7. r[i].phase = "backup" /\ r[i].main = r[n].main /\ r[i].backup = PushUnique(SubSeq(s, 1, k), x)
    BY <2>3, <2>5, <2>6
  <2>8. x \notin Range(SubSeq(s, 1, k))
    <3>1. \A j \in DOMAIN SubSeq(s, 1, k) : j \in DOMAIN s /\ SubSeq(s, 1, k)[j] = s[j] /\ j # k + 1
      BY <1>1
    <3>2. k + 1 \in DOMAIN s
      BY <2>1
    <3>3. \A j \in DOMAIN SubSeq(s, 1, k) : SubSeq(s, 1, k)[j] # x
      BY <3>1, <3>2 DEF IsInjective
    <3> QED BY <3>3 DEF Range
  <2>9. PushUnique(SubSeq(s, 1, k), x) = Append(SubSeq(s, 1, k), x)
    BY <2>4, <2>8 DEF PushUnique
  <2>10. Append(SubSeq(s, 1, k), x) = SubSeq(s, 1, k + 1)
    OBVIOUS
  <2> QED BY <2>1, <2>7, <2>9, <2>10
<1>4. \A k \in 0..Len(s) : k \in K
  <2>1. 0 \in K
    BY <1>1, <1>2
  <2> HIDE DEF K
  <2> QED BY <1>1, <2>1, <1>3, Upwards, Zenon
<1>5. At(Len(s))
  <2> HIDE DEF At
  <2>1. Len(s) \in 0..Len(s)
    BY <1>1
  <2> QED BY <1>4, <2>1
<1> QED BY <1>5, Longer

(***************************************************************************)
(* Tidy files, put together and taken apart.                               *)
(***************************************************************************)
\* From phase p, the lines of s are in place and lead to phase q.
Walk(p, s, f) ==
    /\ f \in [0..Len(s) -> Phase] /\ f[0] = p
    /\ \A i \in 1..Len(s) : f[i] = NextPhase(f[i - 1], s[i]) /\ Proper(f[i - 1], s[i])
Leads(p, s, q) == \E f : Walk(p, s, f) /\ f[Len(s)] = q

\* A file is tidy when its lines lead somewhere from the main part.
LEMMA TidyLeads == \A ls : Tidy(ls) <=> \E q : Leads("main", ls, q)
  BY DEF Tidy, Leads, Walk, Phased

\* They lead from a phase to a phase.
LEMMA LeadsToPhase ==
    ASSUME NEW s \in Seq(Line), NEW p, NEW q, Leads(p, s, q)
    PROVE  p \in Phase /\ q \in Phase
<1>1. Len(s) \in Nat /\ Len(s) \in 0..Len(s) /\ 0 \in 0..Len(s)
  OBVIOUS
<1> QED BY <1>1 DEF Leads, Walk

\* Lines that belong into a phase and do not end it.
LEMMA Stays ==
    ASSUME NEW s \in Seq(Line), NEW p \in Phase,
           \A l \in Range(s) : NextPhase(p, l) = p /\ Proper(p, l)
    PROVE  Leads(p, s, p)
<1> DEFINE f == [i \in 0..Len(s) |-> p]
<1>1. Len(s) \in Nat /\ \A i \in 1..Len(s) : s[i] \in Range(s) /\ i - 1 \in 0..Len(s) /\ i \in 0..Len(s)
  BY DEF Range
<1>2. f \in [0..Len(s) -> Phase] /\ f[0] = p /\ f[Len(s)] = p
  BY <1>1
<1>3. \A i \in 1..Len(s) : f[i] = NextPhase(f[i - 1], s[i]) /\ Proper(f[i - 1], s[i])
  BY <1>1
<1> HIDE DEF f
<1> QED BY <1>2, <1>3 DEF Leads, Walk

\* A single line.
LEMMA StepOn ==
    ASSUME NEW l \in Line, NEW p \in Phase
    PROVE  \A q : Leads(p, <<l>>, q) <=> (q = NextPhase(p, l) /\ Proper(p, l))
<1>1. Len(<<l>>) = 1 /\ <<l>>[1] = l /\ 1 \in 1..1 /\ 0 \in 0..1 /\ 1 \in 0..1 /\ 1 - 1 = 0
  OBVIOUS
<1>2. ASSUME NEW q, Leads(p, <<l>>, q) PROVE q = NextPhase(p, l) /\ Proper(p, l)
  <2>1. PICK f : Walk(p, <<l>>, f) /\ f[1] = q
    BY <1>1, <1>2 DEF Leads
  <2>2. f[1] = NextPhase(f[1 - 1], <<l>>[1]) /\ Proper(f[1 - 1], <<l>>[1])
    BY <1>1, <2>1 DEF Walk
  <2>3. f[0] = p
    BY <2>1 DEF Walk
  <2> QED BY <1>1, <2>1, <2>2, <2>3
<1>3. ASSUME Proper(p, l) PROVE Leads(p, <<l>>, NextPhase(p, l))
  <2>1. PICK q : q = NextPhase(p, l)
    OBVIOUS
  <2>2. q \in Phase
    BY <2>1, Phases
  <2> DEFINE f == [i \in 0..1 |-> IF i = 0 THEN p ELSE q]
  <2>3. f \in [0..1 -> Phase] /\ f[0] = p /\ f[1] = q
    BY <2>2
  <2> HIDE DEF f
  <2>4. Walk(p, <<l>>, f)
    BY <1>1, <1>3, <2>1, <2>3 DEF Walk
  <2> QED BY <1>1, <2>1, <2>3, <2>4 DEF Leads
<1> QED BY <1>2, <1>3

\* A walk, cut in two.
LEMMA CutAt ==
    ASSUME NEW s \in Seq(Line), NEW t \in Seq(Line), NEW p, NEW h, Walk(p, s \o t, h)
    PROVE  Leads(p, s, h[Len(s)]) /\ Leads(h[Len(s)], t, h[Len(s \o t)])
<1> DEFINE n == Len(s)
           w == s \o t
<1>1. /\ n \in Nat /\ Len(t) \in Nat /\ Len(w) = n + Len(t)
      /\ \A i \in 1..n : w[i] = s[i]
      /\ \A i \in 1..Len(t) : w[n + i] = t[i]
  OBVIOUS
<1> HIDE DEF n, w
<1>2. n = Len(s) /\ w = s \o t
  BY DEF n, w
<1>3. Walk(p, w, h)
  BY <1>2
<1>4. h \in [0..Len(w) -> Phase] /\ h[0] = p
      /\ \A i \in 1..Len(w) : h[i] = NextPhase(h[i - 1], w[i]) /\ Proper(h[i - 1], w[i])
  BY <1>3 DEF Walk
<1> DEFINE f == [i \in 0..n |-> h[i]]
           g == [i \in 0..Len(t) |-> h[n + i]]
<1>5. f \in [0..n -> Phase] /\ f[0] = p /\ f[n] = h[n]
  BY <1>1, <1>4
<1>6. g \in [0..Len(t) -> Phase] /\ g[0] = h[n] /\ g[Len(t)] = h[Len(w)]
  BY <1>1, <1>4
<1>7. \A i \in 1..n : f[i] = NextPhase(f[i - 1], s[i]) /\ Proper(f[i - 1], s[i])
  <2> SUFFICES ASSUME NEW i \in 1..n PROVE f[i] = NextPhase(f[i - 1], s[i]) /\ Proper(f[i - 1], s[i])
    OBVIOUS
  <2>1. i \in 1..Len(w) /\ f[i] = h[i] /\ f[i - 1] = h[i - 1] /\ w[i] = s[i]
    BY <1>1
  <2> HIDE DEF f
  <2> QED BY <1>4, <2>1, Zenon
<1>8. \A i \in 1..Len(t) : g[i] = NextPhase(g[i - 1], t[i]) /\ Proper(g[i - 1], t[i])
  <2> SUFFICES ASSUME NEW i \in 1..Len(t) PROVE g[i] = NextPhase(g[i - 1], t[i]) /\ Proper(g[i - 1], t[i])
    OBVIOUS
  <2> DEFINE k == n + i
  <2>1. k \in 1..Len(w) /\ g[i] = h[k] /\ g[i - 1] = h[k - 1] /\ w[k] = t[i]
    BY <1>1
  <2> HIDE DEF g, k
  <2> QED BY <1>4, <2>1, Zenon
<1> HIDE DEF f, g
<1>9. Leads(p, s, h[n])
  BY <1>2, <1>5, <1>7 DEF Leads, Walk
<1>10. Leads(h[n], t, h[Len(w)])
  BY <1>6, <1>8 DEF Leads, Walk
<1> QED BY <1>2, <1>9, <1>10

\* Two stretches in place, one after the other, and back.
LEMMA LeadOn ==
    ASSUME NEW s \in Seq(Line), NEW t \in Seq(Line), NEW p, NEW q, NEW z
    PROVE  /\ Leads(p, s, q) /\ Leads(q, t, z) => Leads(p, s \o t, z)
           /\ Leads(p, s \o t, z) => \E y : Leads(p, s, y) /\ Leads(y, t, z)
<1> DEFINE n == Len(s)
           w == s \o t
<1>1. /\ n \in Nat /\ Len(t) \in Nat /\ Len(w) = n + Len(t)
      /\ \A i \in 1..n : w[i] = s[i]
      /\ \A i \in 1..Len(t) : w[n + i] = t[i]
  OBVIOUS
<1> HIDE DEF n, w
<1>2. n = Len(s) /\ w = s \o t
  BY DEF n, w
<1>3. ASSUME Leads(p, s, q), Leads(q, t, z) PROVE Leads(p, w, z)
  <2>1. PICK f : Walk(p, s, f) /\ f[n] = q
    BY <1>3, <1>2 DEF Leads
  <2>2. PICK g : Walk(q, t, g) /\ g[Len(t)] = z
    BY <1>3 DEF Leads
  <2>3. f \in [0..n -> Phase] /\ f[0] = p
         /\ \A i \in 1..n : f[i] = NextPhase(f[i - 1], s[i]) /\ Proper(f[i - 1], s[i])
    BY <2>1, <1>2 DEF Walk
  <2>4. g \in [0..Len(t) -> Phase] /\ g[0] = q
         /\ \A i \in 1..Len(t) : g[i] = NextPhase(g[i - 1], t[i]) /\ Proper(g[i - 1], t[i])
    BY <2>2 DEF Walk
  <2> DEFINE h == [i \in 0..Len(w) |-> IF i <= n THEN f[i] ELSE g[i - n]]
  <2>5. h \in [0..Len(w) -> Phase] /\ h[0] = p
    BY <1>1, <2>3, <2>4
  <2>6. \A i \in 0..n : h[i] = f[i]
    BY <1>1
  <2>7. \A i \in 0..Len(t) : h[n + i] = g[i]
    <3> SUFFICES ASSUME NEW i \in 0..Len(t) PROVE h[n + i] = g[i]
      OBVIOUS
    <3>1. CASE i = 0
      BY <1>1, <2>1, <2>4, <3>1
    <3>2. CASE i # 0
      <4>1. n + i \in 0..Len(w) /\ ~(n + i <= n) /\ (n + i) - n = i
        BY <1>1, <3>2
      <4> QED BY <4>1
    <3> QED BY <3>1, <3>2
  <2> HIDE DEF h
  <2>8. ASSUME NEW i \in 1..Len(w) PROVE h[i] = NextPhase(h[i - 1], w[i]) /\ Proper(h[i - 1], w[i])
    <3>1. CASE i <= n
      <4>1. i \in 1..n /\ i \in 0..n /\ i - 1 \in 0..n
        BY <1>1, <3>1
      <4> QED BY <1>1, <2>3, <2>6, <4>1
    <3>2. CASE ~(i <= n)
      <4> DEFINE j == i - n
      <4>1. j \in 1..Len(t) /\ j \in 0..Len(t) /\ j - 1 \in 0..Len(t) /\ n + j = i /\ n + (j - 1) = i - 1
        BY <1>1, <3>2
      <4> HIDE DEF j
      <4>2. h[i] = g[j] /\ h[i - 1] = g[j - 1] /\ w[i] = t[j]
        BY <1>1, <2>7, <4>1
      <4> QED BY <2>4, <4>1, <4>2
    <3> QED BY <3>1, <3>2
  <2>9. h[Len(w)] = z
    <3>1. Len(t) \in 0..Len(t)
      BY <1>1
    <3> QED BY <1>1, <2>2, <2>7, <3>1
  <2> QED BY <2>5, <2>8, <2>9, Zenon DEF Leads, Walk
<1>4. ASSUME Leads(p, w, z) PROVE \E y : Leads(p, s, y) /\ Leads(y, t, z)
  <2>1. PICK h : Walk(p, s \o t, h) /\ h[Len(s \o t)] = z
    BY <1>4, <1>2 DEF Leads
  <2> QED BY <2>1, CutAt, Zenon
<1> QED BY <1>3, <1>4, <1>2

\* The lines of the phases: blank lines and the user's are in place in the main
\* part and in the backup block, the entries in the block.
LEMMA Belongs ==
    /\ \A l \in Own \cup {Blank} : \A p \in {"main", "backup"} : NextPhase(p, l) = p /\ Proper(p, l)
    /\ \A l \in Entrance : NextPhase("block", l) = "block" /\ Proper("block", l)
    /\ \A l \in Own : ~Proper("block", l)
    /\ NextPhase("main", Start) = "block" /\ Proper("main", Start)
    /\ NextPhase("block", End) = "main" /\ Proper("block", End)
    /\ NextPhase("main", BackupStart) = "backup" /\ Proper("main", BackupStart)
    /\ NextPhase("backup", BackupEnd) = "main" /\ Proper("backup", BackupEnd)
<1>1. \A l \in Own \cup {Blank} : l \notin Markers /\ l \notin Entrance
  BY Kinds DEF Markers
<1>2. \A l \in Entrance : l \notin Markers
  BY Kinds
<1>3. \A l \in Own \cup {Blank} : \A p \in {"main", "backup"} : NextPhase(p, l) = p /\ Proper(p, l)
  BY <1>1, NotMarker DEF Proper
<1>4. \A l \in Entrance : NextPhase("block", l) = "block" /\ Proper("block", l)
  BY <1>2, NotMarker DEF Proper
<1>5. \A l \in Own : ~Proper("block", l)
  <2> SUFFICES ASSUME NEW l \in Own PROVE ~Proper("block", l)
    OBVIOUS
  <2>1. ~IsMarker("block", l) /\ l \notin Entrance
    BY <1>1, NotMarker
  <2> QED BY <2>1 DEF Proper
<1>6. /\ NextPhase("main", Start) = "block" /\ NextPhase("block", End) = "main"
      /\ NextPhase("main", BackupStart) = "backup" /\ NextPhase("backup", BackupEnd) = "main"
  BY Kinds DEF NextPhase
<1>7. /\ Proper("main", Start) /\ Proper("block", End) /\ Proper("main", BackupStart)
      /\ Proper("backup", BackupEnd)
  BY <1>6 DEF Proper, IsMarker
<1> QED BY <1>3, <1>4, <1>5, <1>6, <1>7

(***************************************************************************)
(* The parts of a file.                                                    *)
(***************************************************************************)
\* One entry for each managed name.
LEMMA EntriesOf ==
    ASSUME NEW M \in SUBSET Domain
    PROVE  Entries(M) \in Seq(Entrance) /\ Range(Entries(M)) = {Entry(d) : d \in M}
<1> DEFINE n == Cardinality(M)
           e == SetToSeq(M)
<1>1. IsFiniteSet(M)
  BY DomainsAssumption, FS_Subset
<1>2. n \in Nat /\ ExistsBijection(1..n, M)
  BY <1>1, FS_CardinalityType
<1>3. \E f \in [1..n -> M] : IsInjective(f)
  BY <1>2, Zenon DEF ExistsBijection, Bijection, Injection, IsInjective
<1>4. e \in [1..n -> M] /\ IsInjective(e)
  BY <1>3, Zenon DEF SetToSeq
<1> HIDE DEF e
<1>5. e \in Injection(1..n, M)
  BY <1>4, Zenon DEF Injection, IsInjective
<1>6. Cardinality(1..n) = n
  BY <1>2, FS_Interval
<1>7. e \in Surjection(1..n, M)
  BY <1>1, <1>5, <1>6, FS_Injection
<1>8. Entries(M) = [i \in DOMAIN e |-> Entry(e[i])]
  BY DEF Entries, e
<1>9. Entries(M) \in Seq(Entrance)
  BY <1>2, <1>4, <1>8 DEF Entrance
<1>10. Range(Entries(M)) = {Entry(d) : d \in M}
  <2> HIDE DEF n
  <2>1. DOMAIN e = 1..n /\ \A i \in 1..n : Entries(M)[i] = Entry(e[i]) /\ e[i] \in M
    BY <1>4, <1>8
  <2>2. DOMAIN Entries(M) = 1..n
    BY <1>8, <2>1
  <2>3. \A d \in M : \E i \in 1..n : e[i] = d
    BY <1>7 DEF Surjection
  <2>4. Range(Entries(M)) \subseteq {Entry(d) : d \in M}
    BY <2>1, <2>2, Zenon DEF Range
  <2>5. \A d \in M : Entry(d) \in Range(Entries(M))
    BY <2>1, <2>2, <2>3, Zenon DEF Range
  <2> QED BY <2>4, <2>5, Zenon
<1> QED BY <1>9, <1>10

\* The lines of two sequences in a row.
LEMMA Joined ==
    ASSUME NEW s \in Seq(Line), NEW t \in Seq(Line)
    PROVE  s \o t \in Seq(Line) /\ Range(s \o t) = Range(s) \cup Range(t)
<1>1. s \o t \in Seq(Line)
  OBVIOUS
<1>2. /\ \A i \in DOMAIN s : i \in DOMAIN (s \o t) /\ (s \o t)[i] = s[i]
      /\ \A i \in DOMAIN t : Len(s) + i \in DOMAIN (s \o t) /\ (s \o t)[Len(s) + i] = t[i]
  OBVIOUS
<1>3. \A i \in DOMAIN (s \o t) :
         (i \in DOMAIN s /\ (s \o t)[i] = s[i])
         \/ (i - Len(s) \in DOMAIN t /\ (s \o t)[i] = t[i - Len(s)])
  OBVIOUS
<1>4. Range(s) \cup Range(t) \subseteq Range(s \o t)
  BY <1>2, Zenon DEF Range
<1>5. Range(s \o t) \subseteq Range(s) \cup Range(t)
  BY <1>3, Zenon DEF Range
<1> QED BY <1>1, <1>4, <1>5

\* A single line.
LEMMA Single == \A l \in Line : <<l>> \in Seq(Line) /\ Range(<<l>>) = {l} /\ Len(<<l>>) = 1
<1> SUFFICES ASSUME NEW l \in Line PROVE <<l>> \in Seq(Line) /\ Range(<<l>>) = {l} /\ Len(<<l>>) = 1
  OBVIOUS
<1>1. <<l>> \in Seq(Line) /\ Len(<<l>>) = 1 /\ DOMAIN <<l>> = {1} /\ <<l>>[1] = l
  OBVIOUS
<1>2. Range(<<l>>) = {l}
  BY <1>1, Zenon DEF Range
<1> QED BY <1>1, <1>2

\* Two lines, and one more line, are sequences in a row.
LEMMA Shorts ==
    ASSUME NEW k \in Line, NEW l \in Line
    PROVE  /\ <<k, l>> = <<k>> \o <<l>>
           /\ \A s \in Seq(Line) : Append(s, l) = s \o <<l>>
<1>1. <<k, l>> = <<k>> \o <<l>>
  <2> DEFINE e == <<k, l>>
             f == <<k>> \o <<l>>
  <2>1. e \in Seq(Line) /\ f \in Seq(Line) /\ Len(e) = Len(f) /\ \A i \in 1..Len(e) : e[i] = f[i]
    OBVIOUS
  <2> HIDE DEF e, f
  <2>2. e = f
    BY <2>1, SameItems
  <2> QED BY <2>2 DEF e, f
<1>2. \A s \in Seq(Line) : Append(s, l) = s \o <<l>>
  <2> SUFFICES ASSUME NEW s \in Seq(Line) PROVE Append(s, l) = s \o <<l>>
    OBVIOUS
  <2> DEFINE e == Append(s, l)
             f == s \o <<l>>
  <2>1. e \in Seq(Line) /\ f \in Seq(Line) /\ Len(e) = Len(f) /\ \A i \in 1..Len(e) : e[i] = f[i]
    OBVIOUS
  <2> HIDE DEF e, f
  <2>2. e = f
    BY <2>1, SameItems
  <2> QED BY <2>2 DEF e, f
<1> QED BY <1>1, <1>2

\* An empty sequence in a row.
LEMMA Empties == <<>> \in Seq(Line) /\ Len(<<>>) = 0 /\ \A s \in Seq(Line) : s \o <<>> = s /\ <<>> \o s = s
  OBVIOUS

\* Three sequences in a row.
LEMMA Associates ==
    ASSUME NEW s \in Seq(Line), NEW t \in Seq(Line), NEW u \in Seq(Line)
    PROVE  (s \o t) \o u = s \o (t \o u)
<1>1. (s \o t) \o u \in Seq(Line) /\ s \o (t \o u) \in Seq(Line) /\ Len((s \o t) \o u) = Len(s \o (t \o u))
  OBVIOUS
<1>2. \A i \in 1..Len((s \o t) \o u) : ((s \o t) \o u)[i] = (s \o (t \o u))[i]
  OBVIOUS
<1> QED BY <1>1, <1>2, SameItems

\* Markers, entries and lines of the user are lines.
LEMMA LineTypes ==
    /\ Start \in Line /\ End \in Line /\ BackupStart \in Line /\ BackupEnd \in Line /\ Blank \in Line
    /\ Seq(Entrance) \subseteq Seq(Line) /\ Entrance \subseteq Line /\ Own \subseteq Line
  BY Lines DEF Markers

\* The parts as they stand one after the other.
LEMMA Parts ==
    ASSUME NEW main \in Seq(Line), NEW M \in SUBSET Domain, NEW backup \in Seq(Line)
    PROVE  /\ Separated(main) = IF main = <<>> THEN <<>> ELSE main \o <<Blank>>
           /\ Separated(main) \in Seq(Line)
           /\ Entries(M) \in Seq(Line)
           /\ Block(M) = <<Start>> \o (Entries(M) \o <<End>>)
           /\ Block(M) \in Seq(Line)
           /\ BackupBlock(backup) = IF backup = <<>> THEN <<>>
                                    ELSE <<Blank>> \o (<<BackupStart>> \o (backup \o <<BackupEnd>>))
           /\ BackupBlock(backup) \in Seq(Line)
           /\ Composed(main, M, backup) \in Seq(Line)
           /\ Composed(main, M, backup) =
                Separated(main) \o (Block(M) \o (BackupBlock(backup) \o <<Blank>>))
<1>1. Separated(main) = IF main = <<>> THEN <<>> ELSE main \o <<Blank>>
  BY LineTypes, Shorts DEF Separated
<1>2. Separated(main) \in Seq(Line)
  BY <1>1, LineTypes, Single, Joined, Empties
<1>3. Entries(M) \in Seq(Line)
  BY EntriesOf, LineTypes
<1>4. <<Start>> \in Seq(Line) /\ <<End>> \in Seq(Line) /\ <<Blank>> \in Seq(Line)
      /\ <<BackupStart>> \in Seq(Line) /\ <<BackupEnd>> \in Seq(Line)
  BY LineTypes, Single
<1>5. Block(M) = <<Start>> \o (Entries(M) \o <<End>>) /\ Block(M) \in Seq(Line)
  <2>1. Block(M) = (<<Start>> \o Entries(M)) \o <<End>>
    BY DEF Block
  <2> QED BY <1>3, <1>4, <2>1, Associates, Joined
<1>6. BackupBlock(backup) = IF backup = <<>> THEN <<>>
                            ELSE <<Blank>> \o (<<BackupStart>> \o (backup \o <<BackupEnd>>))
  <2>1. CASE backup = <<>>
    BY <2>1 DEF BackupBlock
  <2>2. CASE backup # <<>>
    <3>1. BackupBlock(backup) = (<<Blank, BackupStart>> \o backup) \o <<BackupEnd>>
      BY <2>2 DEF BackupBlock
    <3>2. <<Blank, BackupStart>> = <<Blank>> \o <<BackupStart>>
      BY LineTypes, Shorts
    <3>3. backup \o <<BackupEnd>> \in Seq(Line) /\ <<Blank>> \o <<BackupStart>> \in Seq(Line)
      BY <1>4, Joined
    <3>4. BackupBlock(backup) = (<<Blank>> \o <<BackupStart>>) \o (backup \o <<BackupEnd>>)
      <4>1. ((<<Blank>> \o <<BackupStart>>) \o backup) \o <<BackupEnd>>
            = (<<Blank>> \o <<BackupStart>>) \o (backup \o <<BackupEnd>>)
        BY <1>4, <3>3, Associates
      <4> QED BY <3>1, <3>2, <4>1, Zenon
    <3>5. BackupBlock(backup) = <<Blank>> \o (<<BackupStart>> \o (backup \o <<BackupEnd>>))
      BY <1>4, <3>3, <3>4, Associates
    <3> QED BY <2>2, <3>5
  <2> QED BY <2>1, <2>2
<1>7. BackupBlock(backup) \in Seq(Line)
  BY <1>4, <1>6, Joined, Empties
<1>8. Composed(main, M, backup) = Separated(main) \o (Block(M) \o (BackupBlock(backup) \o <<Blank>>))
  BY DEF Composed
<1>9. Composed(main, M, backup) \in Seq(Line)
  BY <1>2, <1>4, <1>5, <1>7, <1>8, Joined
<1> QED BY <1>1, <1>2, <1>3, <1>5, <1>6, <1>7, <1>8, <1>9

\* A file put together of the user's lines and the block is tidy.
LEMMA ComposedTidy ==
    ASSUME NEW main \in Seq(Line), NEW M \in SUBSET Domain, NEW backup \in Seq(Line),
           Range(main) \subseteq Own \cup {Blank}, Range(backup) \subseteq Own
    PROVE  Leads("main", Composed(main, M, backup), "main")
<1> DEFINE S == Separated(main)
           B == Block(M)
           C == BackupBlock(backup)
<1>1. "main" \in Phase /\ "block" \in Phase /\ "backup" \in Phase
  BY DEF Phase
<1>2. S \in Seq(Line) /\ B \in Seq(Line) /\ C \in Seq(Line) /\ <<Blank>> \in Seq(Line)
      /\ <<Start>> \in Seq(Line) /\ <<End>> \in Seq(Line)
      /\ <<BackupStart>> \in Seq(Line) /\ <<BackupEnd>> \in Seq(Line) /\ Entries(M) \in Seq(Line)
  BY LineTypes, Single, Parts
<1>3. Leads("main", <<Blank>>, "main")
  BY <1>1, LineTypes, StepOn, Belongs
<1>4. Leads("main", <<>>, "main")
  BY <1>1, Empties, NoLines, Stays
<1>5. Leads("main", S, "main")
  <2>1. CASE main = <<>>
    <3>1. S = <<>>
      BY <2>1, Parts
    <3> QED BY <1>4, <3>1
  <2>2. CASE main # <<>>
    <3>1. S = main \o <<Blank>>
      BY <2>2, Parts
    <3>2. Leads("main", main, "main")
      <4>1. \A l \in Range(main) : NextPhase("main", l) = "main" /\ Proper("main", l)
        BY Belongs
      <4> QED BY <1>1, <4>1, Stays
    <3>3. Leads("main", main \o <<Blank>>, "main")
      BY <1>2, <1>3, <3>2, LeadOn
    <3> QED BY <3>1, <3>3
  <2> QED BY <2>1, <2>2
<1>6. Leads("main", B, "main")
  <2>1. Leads("main", <<Start>>, "block") /\ Leads("block", <<End>>, "main")
    BY <1>1, LineTypes, StepOn, Belongs
  <2>2. Leads("block", Entries(M), "block")
    <3>1. Range(Entries(M)) \subseteq Entrance
      <4>1. Range(Entries(M)) = {Entry(d) : d \in M}
        BY EntriesOf
      <4> QED BY <4>1 DEF Entrance
    <3>2. \A l \in Range(Entries(M)) : NextPhase("block", l) = "block" /\ Proper("block", l)
      BY <3>1, Belongs
    <3> QED BY <1>1, <1>2, <3>2, Stays
  <2>3. Leads("block", Entries(M) \o <<End>>, "main")
    BY <1>2, <2>1, <2>2, LeadOn
  <2>4. Entries(M) \o <<End>> \in Seq(Line)
    BY <1>2, Joined
  <2>5. Leads("main", <<Start>> \o (Entries(M) \o <<End>>), "main")
    BY <1>2, <2>1, <2>3, <2>4, LeadOn
  <2> QED BY <2>5, Parts
<1>7. Leads("main", C, "main")
  <2>1. CASE backup = <<>>
    <3>1. C = <<>>
      BY <2>1, Parts
    <3> QED BY <1>4, <3>1
  <2>2. CASE backup # <<>>
    <3>1. Leads("main", <<BackupStart>>, "backup") /\ Leads("backup", <<BackupEnd>>, "main")
      BY <1>1, LineTypes, StepOn, Belongs
    <3>2. Leads("backup", backup, "backup")
      <4>1. \A l \in Range(backup) : NextPhase("backup", l) = "backup" /\ Proper("backup", l)
        BY Belongs
      <4> QED BY <1>1, <4>1, Stays
    <3>3. Leads("backup", backup \o <<BackupEnd>>, "main") /\ backup \o <<BackupEnd>> \in Seq(Line)
      BY <1>2, <3>1, <3>2, LeadOn, Joined
    <3>4. Leads("main", <<BackupStart>> \o (backup \o <<BackupEnd>>), "main")
          /\ <<BackupStart>> \o (backup \o <<BackupEnd>>) \in Seq(Line)
      BY <1>2, <3>1, <3>3, LeadOn, Joined
    <3>5. Leads("main", <<Blank>> \o (<<BackupStart>> \o (backup \o <<BackupEnd>>)), "main")
      BY <1>2, <1>3, <3>4, LeadOn
    <3> QED BY <2>2, <3>5, Parts
  <2> QED BY <2>1, <2>2
<1> HIDE DEF S, B, C
<1>8. Leads("main", C \o <<Blank>>, "main") /\ C \o <<Blank>> \in Seq(Line)
  BY <1>2, <1>3, <1>7, LeadOn, Joined
<1>9. Leads("main", B \o (C \o <<Blank>>), "main") /\ B \o (C \o <<Blank>>) \in Seq(Line)
  BY <1>2, <1>6, <1>8, LeadOn, Joined
<1>10. Leads("main", S \o (B \o (C \o <<Blank>>)), "main")
  BY <1>2, <1>5, <1>9, LeadOn
<1> QED BY <1>10 DEF Composed, S, B, C

(***************************************************************************)
(* Reading a file that was put together.                                   *)
(***************************************************************************)
\* How far two sequences in a row reach.
LEMMA Lengths ==
    ASSUME NEW n \in Nat, NEW s \in Seq(Line), NEW t \in Seq(Line)
    PROVE  n + Len(s) \in Nat /\ n + Len(Join(s, t)) = (n + Len(s)) + Len(t)
  BY DEF Join

\* Join, under its name, so that no rule for concatenation rewrites it.
LEMMA Joins ==
    /\ \A s \in Seq(Line) : \A t \in Seq(Line) :
         Join(s, t) \in Seq(Line) /\ Range(Join(s, t)) = Range(s) \cup Range(t)
    /\ \A s \in Seq(Line) : \A t \in Seq(Line) : \A u \in Seq(Line) :
         Join(Join(s, t), u) = Join(s, Join(t, u))
    /\ \A s \in Seq(Line) : Join(s, <<>>) = s /\ Join(<<>>, s) = s
<1>1. \A s \in Seq(Line) : \A t \in Seq(Line) :
         Join(s, t) \in Seq(Line) /\ Range(Join(s, t)) = Range(s) \cup Range(t)
  <2> SUFFICES ASSUME NEW s \in Seq(Line), NEW t \in Seq(Line)
               PROVE  s \o t \in Seq(Line) /\ Range(s \o t) = Range(s) \cup Range(t)
    BY DEF Join
  <2> QED BY Joined
<1>2. \A s \in Seq(Line) : \A t \in Seq(Line) : \A u \in Seq(Line) :
         Join(Join(s, t), u) = Join(s, Join(t, u))
  <2> SUFFICES ASSUME NEW s \in Seq(Line), NEW t \in Seq(Line), NEW u \in Seq(Line)
               PROVE  (s \o t) \o u = s \o (t \o u)
    BY DEF Join
  <2> QED BY Associates
<1>3. \A s \in Seq(Line) : Join(s, <<>>) = s /\ Join(<<>>, s) = s
  BY Empties DEF Join
<1> QED BY <1>1, <1>2, <1>3

\* The lines of a join.
LEMMA JoinRange ==
    ASSUME NEW s \in Seq(Line), NEW t \in Seq(Line)
    PROVE  Join(s, t) \in Seq(Line) /\ Range(Join(s, t)) = Range(s) \cup Range(t)
  BY Joins

\* Three sequences in a row, under the name.
LEMMA JoinAssociates ==
    ASSUME NEW s \in Seq(Line), NEW t \in Seq(Line), NEW u \in Seq(Line)
    PROVE  Join(Join(s, t), u) = Join(s, Join(t, u))
  BY Associates, Zenon DEF Join

\* The parts of a text that is written, under the name.
LEMMA JoinedParts ==
    ASSUME NEW main \in Seq(Line), NEW M \in SUBSET Domain, NEW backup \in Seq(Line)
    PROVE  /\ Separated(main) = IF main = <<>> THEN <<>> ELSE Join(main, <<Blank>>)
           /\ Block(M) = Join(<<Start>>, Join(Entries(M), <<End>>))
           /\ BackupBlock(backup) = IF backup = <<>> THEN <<>>
                                    ELSE Join(<<Blank>>, Join(<<BackupStart>>, Join(backup, <<BackupEnd>>)))
           /\ Composed(main, M, backup) =
                Join(Separated(main), Join(Block(M), Join(BackupBlock(backup), <<Blank>>)))
<1>1. Separated(main) = IF main = <<>> THEN <<>> ELSE Join(main, <<Blank>>)
  BY Parts, Zenon DEF Join
<1>2. Block(M) = Join(<<Start>>, Join(Entries(M), <<End>>))
  BY Parts, Zenon DEF Join
<1>3. BackupBlock(backup) = IF backup = <<>> THEN <<>>
                            ELSE Join(<<Blank>>, Join(<<BackupStart>>, Join(backup, <<BackupEnd>>)))
  BY Parts, Zenon DEF Join
<1>4. Composed(main, M, backup) =
            Join(Separated(main), Join(Block(M), Join(BackupBlock(backup), <<Blank>>)))
  BY Zenon DEF Composed, Join
<1> QED BY <1>1, <1>2, <1>3, <1>4, Zenon

\* A stretch of two sequences is two stretches.
LEMMA StretchParts ==
    ASSUME NEW ls \in Seq(Line), NEW n \in Nat, NEW s \in Seq(Line), NEW t \in Seq(Line),
           Stretch(ls, n, Join(s, t))
    PROVE  Stretch(ls, n, s) /\ Stretch(ls, n + Len(s), t)
<1> DEFINE w == Join(s, t)
<1>1. /\ Len(s) \in Nat /\ Len(t) \in Nat /\ Len(w) = Len(s) + Len(t) /\ Len(ls) \in Nat
      /\ \A i \in 1..Len(s) : w[i] = s[i]
      /\ \A i \in 1..Len(t) : w[Len(s) + i] = t[i]
  BY DEF Join
<1> HIDE DEF w
<1>2. n + Len(w) <= Len(ls) /\ \A j \in 1..Len(w) : ls[n + j] = w[j]
  BY DEF Stretch, w
<1>3. \A j \in 1..Len(s) : ls[n + j] = s[j]
  BY <1>1, <1>2
<1>4. \A j \in 1..Len(t) : ls[(n + Len(s)) + j] = t[j]
  <2> SUFFICES ASSUME NEW j \in 1..Len(t) PROVE ls[(n + Len(s)) + j] = t[j]
    OBVIOUS
  <2>1. Len(s) + j \in 1..Len(w) /\ n + (Len(s) + j) = (n + Len(s)) + j
    BY <1>1
  <2>2. ls[n + (Len(s) + j)] = w[Len(s) + j]
    BY <1>2, <2>1
  <2> QED BY <1>1, <2>1, <2>2
<1> QED BY <1>1, <1>2, <1>3, <1>4 DEF Stretch, w

\* A marker changes the phase and nothing else.
LEMMA OfMarker ==
    ASSUME NEW toBackup, NEW ls \in Seq(Line), NEW r, Runs(toBackup, ls, r),
           NEW n \in Nat, NEW l \in Line, Stretch(ls, n, <<l>>), IsMarker(r[n].phase, l)
    PROVE  /\ r[n + Len(<<l>>)].phase = NextPhase(r[n].phase, l)
           /\ r[n + Len(<<l>>)].main = r[n].main
           /\ r[n + Len(<<l>>)].backup = r[n].backup
<1>1. Len(<<l>>) = 1 /\ 1 \in 1..1 /\ <<l>>[1] = l /\ Len(ls) \in Nat
  OBVIOUS
<1>2. n + 1 <= Len(ls) /\ ls[n + 1] = l
  BY <1>1 DEF Stretch
<1> DEFINE i == n + 1
<1>3. i \in 1..Len(ls) /\ i - 1 = n /\ ls[i] = l /\ i = n + Len(<<l>>)
  BY <1>1, <1>2
<1> HIDE DEF i
<1>4. /\ r[i].phase = NextPhase(r[i - 1].phase, ls[i])
      /\ r[i].main = IF Kept(toBackup, r[i - 1].phase, ls[i])
                     THEN Append(r[i - 1].main, ls[i]) ELSE r[i - 1].main
      /\ r[i].backup = IF Saved(toBackup, r[i - 1].phase, ls[i])
                       THEN PushUnique(r[i - 1].backup, ls[i]) ELSE r[i - 1].backup
  BY <1>3, Turns
<1>5. ~Kept(toBackup, r[n].phase, l) /\ ~Saved(toBackup, r[n].phase, l)
  BY DEF Kept, Saved
<1> QED BY <1>3, <1>4, <1>5, Zenon

\* The block is read over.
LEMMA ReadBlock ==
    ASSUME NEW toBackup, NEW ls \in Seq(Line), NEW r, Runs(toBackup, ls, r),
           NEW n \in Nat, NEW M \in SUBSET Domain, Stretch(ls, n, Block(M)), r[n].phase = "main"
    PROVE  /\ r[n + Len(Block(M))].phase = "main"
           /\ r[n + Len(Block(M))].main = r[n].main
           /\ r[n + Len(Block(M))].backup = r[n].backup
<1> DEFINE a == <<Start>>
           b == Entries(M)
           c == <<End>>
           n1 == n + Len(a)
           n2 == n1 + Len(b)
           n3 == n2 + Len(c)
<1>1. a \in Seq(Line) /\ b \in Seq(Line) /\ c \in Seq(Line) /\ Join(b, c) \in Seq(Line)
  <2>1. a \in Seq(Line) /\ b \in Seq(Line) /\ c \in Seq(Line)
    BY LineTypes, Single, EntriesOf
  <2> HIDE DEF a, b, c
  <2> QED BY <2>1, Joins
<1>2. Block(M) = Join(a, Join(b, c))
  <2>1. <<>> \in Seq(Line)
    BY Empties
  <2> QED BY <2>1, JoinedParts
<1>3. /\ Stretch(ls, n, a) /\ Stretch(ls, n1, Join(b, c)) /\ n1 \in Nat
      /\ n + Len(Block(M)) = n1 + Len(Join(b, c))
  <2> HIDE DEF a, b, c
  <2>1. Stretch(ls, n, a) /\ Stretch(ls, n1, Join(b, c))
    BY <1>1, <1>2, StretchParts DEF n1
  <2>2. n1 \in Nat /\ n + Len(Block(M)) = n1 + Len(Join(b, c))
    <3>1. n1 \in Nat /\ n + Len(Join(a, Join(b, c))) = n1 + Len(Join(b, c))
      BY <1>1, Lengths DEF n1
    <3> QED BY <1>2, <3>1
  <2> QED BY <2>1, <2>2
<1>4. Stretch(ls, n1, b) /\ Stretch(ls, n2, c) /\ n2 \in Nat /\ n1 + Len(Join(b, c)) = n3
  <2> HIDE DEF a, b, c, n1
  <2>1. Stretch(ls, n1, b) /\ Stretch(ls, n2, c)
    BY <1>1, <1>3, StretchParts DEF n2
  <2>2. n2 \in Nat /\ n1 + Len(Join(b, c)) = n3
    BY <1>1, <1>3, Lengths DEF n2, n3
  <2> QED BY <2>1, <2>2
<1>5. r[n1].phase = "block" /\ r[n1].main = r[n].main /\ r[n1].backup = r[n].backup
  <2>1. IsMarker("main", Start)
    BY Belongs DEF IsMarker
  <2> QED BY <1>3, <2>1, LineTypes, OfMarker, Belongs
<1>6. r[n2].phase = "block" /\ r[n2].main = r[n].main /\ r[n2].backup = r[n].backup
  <2>1. \A l \in Range(b) : l \notin Markers
    <3>1. Range(b) = {Entry(d) : d \in M}
      BY EntriesOf
    <3>2. Range(b) \subseteq Entrance
      BY <3>1 DEF Entrance
    <3> QED BY <3>2, Kinds
  <2> HIDE DEF b, n1
  <2> QED BY <1>1, <1>3, <1>4, <1>5, <2>1, OfBlock DEF n2
<1>7. r[n3].phase = "main" /\ r[n3].main = r[n].main /\ r[n3].backup = r[n].backup
  <2>1. IsMarker("block", End)
    BY Belongs DEF IsMarker
  <2> HIDE DEF n2
  <2> QED BY <1>4, <1>6, <2>1, LineTypes, OfMarker, Belongs
<1> QED BY <1>3, <1>4, <1>7

\* Blank lines at the end.
Padded(s, t) == \E z \in Seq({Blank}) : s = Join(t, z)

\* Lines that a rewrite leaves in the main part, and in the backup block.
Staying(toBackup, s) == \A l \in Range(s) : l \notin Markers /\ <<"main", l>> \notin toBackup
Restorable(toBackup, s) ==
    /\ IsInjective(s) /\ <<"main", Blank>> \notin toBackup
    /\ \A l \in Range(s) : l # Blank /\ l # BackupEnd /\ <<"backup", l>> \in toBackup

\* The backup block is taken over as it is, for a blank line more in the main part.
LEMMA ReadBackupBlock ==
    ASSUME NEW toBackup, NEW ls \in Seq(Line), NEW r, Runs(toBackup, ls, r),
           NEW n \in Nat, NEW s \in Seq(Line), Stretch(ls, n, BackupBlock(s)),
           r[n].phase = "main", r[n].backup = <<>>, r[n].main \in Seq(Line), Restorable(toBackup, s)
    PROVE  /\ r[n + Len(BackupBlock(s))].phase = "main"
           /\ Padded(r[n + Len(BackupBlock(s))].main, r[n].main)
           /\ r[n + Len(BackupBlock(s))].backup = s
<1>1. CASE s = <<>>
  <2>1. BackupBlock(s) = <<>>
    BY <1>1, Empties, JoinedParts
  <2>2. n + Len(BackupBlock(s)) = n
    BY <2>1
  <2>3. <<>> \in Seq({Blank}) /\ r[n].main = Join(r[n].main, <<>>)
    <3>1. <<>> \in Seq({Blank})
      OBVIOUS
    <3> QED BY <3>1, Joins
  <2>4. Padded(r[n + Len(BackupBlock(s))].main, r[n].main)
    BY <2>2, <2>3, Zenon DEF Padded
  <2> QED BY <1>1, <2>2, <2>4
<1>2. CASE s # <<>>
  <2> DEFINE a == <<Blank>>
             b == <<BackupStart>>
             c == <<BackupEnd>>
             n1 == n + Len(a)
             n2 == n1 + Len(b)
             n3 == n2 + Len(s)
             n4 == n3 + Len(c)
  <2>1. a \in Seq(Line) /\ b \in Seq(Line) /\ c \in Seq(Line) /\ Range(a) = {Blank} /\ a \in Seq({Blank})
    BY LineTypes, Single
  <2>2. BackupBlock(s) = Join(a, Join(b, Join(s, c)))
    BY <1>2, JoinedParts
  <2>3. Join(s, c) \in Seq(Line) /\ Join(b, Join(s, c)) \in Seq(Line)
    <3> HIDE DEF b, c
    <3> QED BY <2>1, Joins
  <2>4. /\ Stretch(ls, n, a) /\ Stretch(ls, n1, Join(b, Join(s, c))) /\ n1 \in Nat
        /\ n + Len(BackupBlock(s)) = n1 + Len(Join(b, Join(s, c)))
    <3> HIDE DEF a, b, c
    <3>1. Stretch(ls, n, a) /\ Stretch(ls, n1, Join(b, Join(s, c)))
      BY <2>1, <2>2, <2>3, StretchParts DEF n1
    <3>2. n1 \in Nat /\ n + Len(BackupBlock(s)) = n1 + Len(Join(b, Join(s, c)))
      <4>1. n1 \in Nat /\ n + Len(Join(a, Join(b, Join(s, c)))) = n1 + Len(Join(b, Join(s, c)))
        BY <2>1, <2>3, Lengths DEF n1
      <4> QED BY <2>2, <4>1
    <3> QED BY <3>1, <3>2
  <2>5. /\ Stretch(ls, n1, b) /\ Stretch(ls, n2, Join(s, c)) /\ n2 \in Nat
        /\ n1 + Len(Join(b, Join(s, c))) = n2 + Len(Join(s, c))
    <3> HIDE DEF a, b, c, n1
    <3>1. Stretch(ls, n1, b) /\ Stretch(ls, n2, Join(s, c))
      BY <2>1, <2>3, <2>4, StretchParts DEF n2
    <3>2. n2 \in Nat /\ n1 + Len(Join(b, Join(s, c))) = n2 + Len(Join(s, c))
      BY <2>1, <2>3, <2>4, Lengths DEF n2
    <3> QED BY <3>1, <3>2
  <2>6. Stretch(ls, n2, s) /\ Stretch(ls, n3, c) /\ n3 \in Nat /\ n2 + Len(Join(s, c)) = n4
    <3> HIDE DEF a, b, c, n2
    <3>1. Stretch(ls, n2, s) /\ Stretch(ls, n3, c)
      BY <2>1, <2>3, <2>5, StretchParts DEF n3
    <3>2. n3 \in Nat /\ n2 + Len(Join(s, c)) = n4
      BY <2>1, <2>3, <2>5, Lengths DEF n3, n4
    <3> QED BY <3>1, <3>2
  <2>7. r[n1].phase = "main" /\ r[n1].main = Join(r[n].main, a) /\ r[n1].backup = <<>>
    <3>1. \A l \in Range(a) : l \notin Markers /\ <<"main", l>> \notin toBackup
      <4> HIDE DEF a
      <4> QED BY <2>1, Kinds DEF Markers, Restorable
    <3> HIDE DEF a
    <3>2. /\ r[n1].phase = "main" /\ r[n1].main = Join(r[n].main, a)
          /\ r[n1].backup = r[n].backup
      <4>1. a \in Seq(Line) /\ Stretch(ls, n, a)
        BY <2>1, <2>4
      <4> QED BY <4>1, <3>1, OfMain DEF n1
    <3> QED BY <3>2
  <2>8. r[n2].phase = "backup" /\ r[n2].main = Join(r[n].main, a) /\ r[n2].backup = <<>>
    <3>1. IsMarker("main", BackupStart)
      BY Belongs DEF IsMarker
    <3> HIDE DEF n1, a
    <3>2. BackupStart \in Line /\ n2 = n1 + Len(b) /\ IsMarker(r[n1].phase, BackupStart)
      BY <2>7, <3>1, LineTypes
    <3>3. /\ r[n2].phase = NextPhase(r[n1].phase, BackupStart)
          /\ r[n2].main = r[n1].main /\ r[n2].backup = r[n1].backup
      <4>1. n1 \in Nat /\ Stretch(ls, n1, <<BackupStart>>)
        BY <2>4, <2>5
      <4>2. n2 = n1 + Len(<<BackupStart>>) /\ BackupStart \in Line /\ IsMarker(r[n1].phase, BackupStart)
        BY <3>2
      <4> HIDE DEF n2
      <4> QED BY <4>1, <4>2, OfMarker
    <3> QED BY <2>7, <3>3, Belongs
  <2>9. r[n3].phase = "backup" /\ r[n3].main = Join(r[n].main, a) /\ r[n3].backup = s
    <3> HIDE DEF n2, a
    <3>1. /\ r[n3].phase = "backup" /\ r[n3].main = r[n2].main
          /\ r[n3].backup = s
      <4>1. n2 \in Nat /\ Stretch(ls, n2, s)
        BY <2>5, <2>6
      <4>2. r[n2].phase = "backup" /\ r[n2].backup = <<>>
        BY <2>8
      <4> QED BY <4>1, <4>2, OfBackup DEF n3, Restorable
    <3> QED BY <2>8, <3>1
  <2>10. r[n4].phase = "main" /\ r[n4].main = Join(r[n].main, a) /\ r[n4].backup = s
    <3>1. IsMarker("backup", BackupEnd)
      BY Belongs DEF IsMarker
    <3> HIDE DEF n3, a
    <3>2. BackupEnd \in Line /\ n4 = n3 + Len(c) /\ IsMarker(r[n3].phase, BackupEnd)
      BY <2>9, <3>1, LineTypes
    <3>3. /\ r[n4].phase = NextPhase(r[n3].phase, BackupEnd)
          /\ r[n4].main = r[n3].main /\ r[n4].backup = r[n3].backup
      <4>1. n3 \in Nat /\ Stretch(ls, n3, <<BackupEnd>>)
        BY <2>6
      <4>2. n4 = n3 + Len(<<BackupEnd>>) /\ BackupEnd \in Line /\ IsMarker(r[n3].phase, BackupEnd)
        BY <3>2
      <4> HIDE DEF n4
      <4> QED BY <4>1, <4>2, OfMarker
    <3> QED BY <2>9, <3>3, Belongs
  <2> HIDE DEF a, b, c, n1, n2, n3, n4
  <2>11. Padded(r[n4].main, r[n].main)
    BY <2>1, <2>10, Zenon DEF Padded
  <2>12. n + Len(BackupBlock(s)) = n4
    BY <2>4, <2>5, <2>6
  <2> QED BY <2>10, <2>11, <2>12
<1> QED BY <1>1, <1>2

\* So a file put together of these parts is read as them.
LEMMA ReadComposed ==
    ASSUME NEW toBackup, NEW main \in Seq(Line), NEW M \in SUBSET Domain, NEW s \in Seq(Line),
           Staying(toBackup, main), Restorable(toBackup, s)
    PROVE  /\ Sorted(toBackup, Composed(main, M, s)).backup = s
           /\ Padded(Sorted(toBackup, Composed(main, M, s)).main, Separated(main))
<1> DEFINE a == Separated(main)
           b == Block(M)
           c == BackupBlock(s)
           d == <<Blank>>
           ls == Composed(main, M, s)
           r == Reader(toBackup, ls)
<1>1. a \in Seq(Line) /\ b \in Seq(Line) /\ c \in Seq(Line) /\ d \in Seq(Line)
      /\ ls \in Seq(Line)
  <2>1. d \in Seq(Line)
    BY LineTypes, Single
  <2> HIDE DEF d
  <2>2. a \in Seq(Line) /\ b \in Seq(Line) /\ c \in Seq(Line) /\ ls \in Seq(Line)
    BY Parts
  <2> QED BY <2>1, <2>2
<1>2. ls = Join(a, Join(b, Join(c, d)))
  BY JoinedParts
<1>3. Runs(toBackup, ls, r)
  <2> HIDE DEF ls
  <2> QED BY <1>1, Reads
<1>4. PICK n0 \in Nat : n0 = 0
  OBVIOUS
<1>5. Stretch(ls, n0, ls) /\ n0 + Len(ls) = Len(ls)
  <2> HIDE DEF ls
  <2> QED BY <1>1, <1>4 DEF Stretch
<1> DEFINE n1 == n0 + Len(a)
           n2 == n1 + Len(b)
           n3 == n2 + Len(c)
           n4 == n3 + Len(d)
<1>6. \A l \in Range(a) : l \notin Markers /\ <<"main", l>> \notin toBackup
  <2>1. CASE main = <<>>
    <3>1. a = main
      BY <2>1, JoinedParts
    <3> QED BY <3>1 DEF Staying
  <2>2. CASE main # <<>>
    <3>1. a = Join(main, d)
      BY <2>2, JoinedParts
    <3>2. Range(d) = {Blank}
      BY LineTypes, Single
    <3> HIDE DEF a, d
    <3>3. Range(a) = Range(main) \cup {Blank}
      BY <1>1, <3>1, <3>2, Joins
    <3>4. Blank \notin Markers
      BY Kinds DEF Markers
    <3> QED BY <3>3, <3>4 DEF Staying, Restorable
  <2> QED BY <2>1, <2>2
<1> HIDE DEF a, b, c, ls, r
<1>7. Join(c, d) \in Seq(Line) /\ Join(b, Join(c, d)) \in Seq(Line)
  <2> HIDE DEF d
  <2> QED BY <1>1, Joins
<1>8. Stretch(ls, n0, a) /\ Stretch(ls, n1, Join(b, Join(c, d))) /\ n1 \in Nat /\ Len(ls) = n1 + Len(Join(b, Join(c, d)))
  <2> HIDE DEF d
  <2>1. Stretch(ls, n0, a) /\ Stretch(ls, n1, Join(b, Join(c, d)))
    BY <1>1, <1>7, <1>2, <1>5, StretchParts DEF n1
  <2>2. n1 \in Nat /\ Len(ls) = n1 + Len(Join(b, Join(c, d)))
    BY <1>1, <1>7, <1>2, <1>5, Lengths DEF n1
  <2> QED BY <2>1, <2>2
<1>9. Stretch(ls, n1, b) /\ Stretch(ls, n2, Join(c, d)) /\ n2 \in Nat /\ Len(ls) = n2 + Len(Join(c, d))
  <2> HIDE DEF d, n1
  <2>1. Stretch(ls, n1, b) /\ Stretch(ls, n2, Join(c, d))
    BY <1>1, <1>7, <1>8, StretchParts DEF n2
  <2>2. n2 \in Nat /\ Len(ls) = n2 + Len(Join(c, d))
    BY <1>1, <1>7, <1>8, Lengths DEF n2
  <2> QED BY <2>1, <2>2
<1>10. Stretch(ls, n2, c) /\ Stretch(ls, n3, d) /\ n3 \in Nat /\ Len(ls) = n4
  <2> HIDE DEF d, n2
  <2>1. Stretch(ls, n2, c) /\ Stretch(ls, n3, d)
    BY <1>1, <1>7, <1>9, StretchParts DEF n3
  <2>2. n3 \in Nat /\ Len(ls) = n4
    BY <1>1, <1>7, <1>9, Lengths DEF n3, n4
  <2> QED BY <2>1, <2>2
<1>11. r[n0].phase = "main" /\ r[n0].main = <<>> /\ r[n0].backup = <<>>
  BY <1>3, <1>4, Begins DEF Runs
<1>12. r[n1].phase = "main" /\ r[n1].main = a /\ r[n1].backup = <<>>
  <2>1. r[n1].phase = "main" /\ r[n1].main = Join(r[n0].main, a) /\ r[n1].backup = r[n0].backup
    <3>1. Stretch(ls, n0, a) /\ r[n0].phase = "main"
      BY <1>8, <1>11
    <3> QED BY <1>1, <1>3, <1>6, <3>1, OfMain DEF n1
  <2>2. Join(<<>>, a) = a
    BY <1>1, Joins
  <2> QED BY <1>11, <2>1, <2>2
<1>13. r[n2].phase = "main" /\ r[n2].main = a /\ r[n2].backup = <<>>
  <2> HIDE DEF n1
  <2>1. Stretch(ls, n1, Block(M))
    BY <1>9 DEF b
  <2>2. r[n2].phase = "main" /\ r[n2].main = r[n1].main /\ r[n2].backup = r[n1].backup
    <3>1. n1 \in Nat /\ r[n1].phase = "main" /\ ls \in Seq(Line)
      BY <1>1, <1>8, <1>12
    <3> QED BY <1>3, <2>1, <3>1, ReadBlock DEF n2, b
  <2> QED BY <1>12, <2>2
<1>14. r[n3].phase = "main" /\ r[n3].backup = s /\ Padded(r[n3].main, a)
  <2> HIDE DEF n2
  <2>1. Stretch(ls, n2, BackupBlock(s))
    BY <1>10 DEF c
  <2>2. r[n2].main \in Seq(Line)
    BY <1>1, <1>13
  <2>3. /\ r[n3].phase = "main" /\ Padded(r[n3].main, r[n2].main)
        /\ r[n3].backup = s
    <3>1. n2 \in Nat /\ r[n2].phase = "main" /\ r[n2].backup = <<>> /\ ls \in Seq(Line)
      BY <1>1, <1>9, <1>13
    <3>2. n3 = n2 + Len(BackupBlock(s))
      BY DEF c
    <3>3. /\ r[n2 + Len(BackupBlock(s))].phase = "main"
          /\ Padded(r[n2 + Len(BackupBlock(s))].main, r[n2].main)
          /\ r[n2 + Len(BackupBlock(s))].backup = s
      BY <1>3, <2>1, <2>2, <3>1, ReadBackupBlock
    <3> HIDE DEF n3
    <3> QED BY <3>2, <3>3, Zenon
  <2> QED BY <1>13, <2>3
<1>15. PICK z \in Seq({Blank}) : r[n3].main = Join(a, z)
  BY <1>14 DEF Padded
<1>16. r[n4].phase = "main" /\ r[n4].backup = s /\ r[n4].main = Join(Join(a, z), d)
  <2>1. \A l \in Range(d) : l \notin Markers /\ <<"main", l>> \notin toBackup
    <3>1. Range(d) = {Blank}
      BY LineTypes, Single
    <3> HIDE DEF d
    <3> QED BY <3>1, Kinds DEF Markers, Restorable
  <2> HIDE DEF n3, d
  <2>2. r[n4].phase = "main" /\ r[n4].main = Join(r[n3].main, d) /\ r[n4].backup = r[n3].backup
    <3>1. n3 \in Nat /\ r[n3].phase = "main" /\ ls \in Seq(Line) /\ d \in Seq(Line) /\ Stretch(ls, n3, d)
      BY <1>1, <1>10, <1>14
    <3> QED BY <1>3, <2>1, <3>1, OfMain DEF n4
  <2> QED BY <1>14, <1>15, <2>2
<1>17. Join(z, d) \in Seq({Blank}) /\ Join(Join(a, z), d) = Join(a, Join(z, d))
  <2>1. Join(z, d) \in Seq({Blank})
    BY DEF Join
  <2>2. z \in Seq(Line)
    BY LineTypes
  <2> HIDE DEF d
  <2>3. Join(Join(a, z), d) = Join(a, Join(z, d))
    BY <1>1, <2>2, Joins
  <2> QED BY <2>1, <2>3
<1>18. Sorted(toBackup, ls) = r[n4]
  <2> HIDE DEF n4
  <2> QED BY <1>10 DEF Sorted, r
<1>19. Padded(r[n4].main, a)
  <2> HIDE DEF n4, d
  <2> QED BY <1>16, <1>17, Zenon DEF Padded
<1> QED BY <1>16, <1>18, <1>19, Zenon DEF ls, a

(***************************************************************************)
(* Blank lines at the end.                                                 *)
(***************************************************************************)
Clean(s) == s = <<>> \/ s[Len(s)] # Blank

\* Where the trimming ends.
LEMMA TrimmedAt ==
    ASSUME NEW s \in Seq(Line), NEW k \in 0..Len(s), k = 0 \/ s[k] # Blank,
           \A i \in (k + 1)..Len(s) : s[i] = Blank
    PROVE  Trimmed(s) = SubSeq(s, 1, k)
<1> DEFINE last == {i \in DOMAIN s : s[i] # Blank}
<1>1. Len(s) \in Nat /\ DOMAIN s = 1..Len(s)
  OBVIOUS
<1>2. CASE k = 0
  <2>1. last = {}
    BY <1>1, <1>2
  <2> QED BY <1>2, <2>1 DEF Trimmed
<1>3. CASE k # 0
  <2>1. k \in last /\ \A i \in last : k >= i
    BY <1>1, <1>3
  <2>2. \A x \in last : (\A y \in last : x >= y) => x = k
    BY <1>1, <2>1
  <2> HIDE DEF last
  <2>3. Max(last) = k
    BY <2>1, <2>2, Zenon DEF Max
  <2> QED BY <2>1, <2>3 DEF Trimmed, last
<1> QED BY <1>2, <1>3

\* The last line that is not blank.
LEMMA LastLine ==
    ASSUME NEW s \in Seq(Line)
    PROVE  \E k \in 0..Len(s) : (k = 0 \/ s[k] # Blank) /\ \A i \in (k + 1)..Len(s) : s[i] = Blank
<1> DEFINE last == {i \in DOMAIN s : s[i] # Blank}
<1>1. Len(s) \in Nat /\ DOMAIN s = 1..Len(s) /\ last \subseteq 0..Len(s)
  OBVIOUS
<1>2. CASE last = {}
  BY <1>1, <1>2
<1>3. CASE last # {}
  <2>1. PICK k \in last : \A i \in last : k >= i
    <3> HIDE DEF last
    <3> QED BY <1>1, <1>3, Largest
  <2>2. \A i \in (k + 1)..Len(s) : s[i] = Blank
    BY <1>1, <2>1
  <2>3. k \in 0..Len(s) /\ s[k] # Blank
    BY <1>1, <2>1
  <2> QED BY <2>2, <2>3
<1> QED BY <1>2, <1>3

\* The trimming takes blank lines only.
LEMMA Trims ==
    ASSUME NEW s \in Seq(Line)
    PROVE  /\ Trimmed(s) \in Seq(Line) /\ Clean(Trimmed(s))
           /\ Range(Trimmed(s)) \subseteq Range(s)
           /\ Range(s) \subseteq Range(Trimmed(s)) \cup {Blank}
<1>1. PICK k \in 0..Len(s) : (k = 0 \/ s[k] # Blank) /\ \A i \in (k + 1)..Len(s) : s[i] = Blank
  BY LastLine
<1> DEFINE t == SubSeq(s, 1, k)
<1>2. Trimmed(s) = t
  BY <1>1, TrimmedAt
<1>3. t \in Seq(Line) /\ Len(t) = k /\ \A i \in 1..k : t[i] = s[i]
  OBVIOUS
<1>4. DOMAIN s = 1..Len(s) /\ DOMAIN t = 1..k /\ Len(s) \in Nat
  BY <1>3
<1> HIDE DEF t
<1>5. Clean(t)
  BY <1>1, <1>3 DEF Clean
<1>6. Range(t) \subseteq Range(s)
  BY <1>3, <1>4 DEF Range
<1>7. Range(s) \subseteq Range(t) \cup {Blank}
  <2> SUFFICES ASSUME NEW i \in 1..Len(s) PROVE s[i] \in Range(t) \cup {Blank}
    BY <1>4 DEF Range
  <2>1. CASE i <= k
    BY <1>3, <1>4, <2>1 DEF Range
  <2>2. CASE ~(i <= k)
    BY <1>1, <1>4, <2>2
  <2> QED BY <2>1, <2>2
<1> QED BY <1>2, <1>3, <1>5, <1>6, <1>7

\* Blank lines behind a list that ends in another are taken off again.
LEMMA TrimPadded ==
    ASSUME NEW t \in Seq(Line), Clean(t), NEW z \in Seq({Blank})
    PROVE  Trimmed(Join(t, z)) = t
<1> DEFINE s == Join(t, z)
           k == Len(t)
<1>1. s \in Seq(Line) /\ k \in 0..Len(s)
  BY LineTypes DEF Join
<1>2. k = 0 \/ s[k] # Blank
  BY DEF Join, Clean
<1>3. \A i \in (k + 1)..Len(s) : s[i] = Blank
  BY DEF Join
<1>4. SubSeq(s, 1, k) = t
  <2>1. SubSeq(s, 1, k) \in Seq(Line) /\ Len(SubSeq(s, 1, k)) = Len(t)
        /\ \A i \in 1..Len(SubSeq(s, 1, k)) : SubSeq(s, 1, k)[i] = t[i]
    BY <1>1 DEF Join
  <2> HIDE DEF s, k
  <2> QED BY <2>1, SameItems
<1> HIDE DEF s, k
<1>5. Trimmed(s) = SubSeq(s, 1, k)
  BY <1>1, <1>2, <1>3, TrimmedAt
<1> QED BY <1>4, <1>5 DEF s

\* The separator and the blank line before the backup block are trimmed again.
LEMMA TrimSeparated ==
    ASSUME NEW t \in Seq(Line), Clean(t), NEW s, Padded(s, Separated(t))
    PROVE  Trimmed(s) = t
<1>1. PICK z \in Seq({Blank}) : s = Join(Separated(t), z)
  BY DEF Padded
<1>2. <<Blank>> \in Seq(Line) /\ z \in Seq(Line)
  BY LineTypes, Single
<1>3. CASE t = <<>>
  <2>1. Separated(t) = t
    BY <1>3 DEF Separated
  <2> QED BY <1>1, <2>1, TrimPadded
<1>4. CASE t # <<>>
  <2>1. Separated(t) = Join(t, <<Blank>>)
    BY <1>4, LineTypes, Shorts DEF Separated, Join
  <2>2. Join(Join(t, <<Blank>>), z) = Join(t, Join(<<Blank>>, z))
    BY <1>2, JoinAssociates, Zenon
  <2>3. Join(<<Blank>>, z) \in Seq({Blank})
    BY DEF Join
  <2>4. Trimmed(Join(t, Join(<<Blank>>, z))) = t
    BY <2>3, TrimPadded
  <2> QED BY <1>1, <2>1, <2>2, <2>4, Zenon
<1> QED BY <1>3, <1>4

(***************************************************************************)
(* The two rewrites.                                                       *)
(***************************************************************************)
\* What the loop has after the last line.
LEMMA SortedBy ==
    ASSUME NEW toBackup, NEW ls \in Seq(Line)
    PROVE  /\ Runs(toBackup, ls, Reader(toBackup, ls))
           /\ Len(ls) \in 0..Len(ls)
           /\ Sorted(toBackup, ls) = Reader(toBackup, ls)[Len(ls)]
           /\ Sorted(toBackup, ls).main \in Seq(Line) /\ Sorted(toBackup, ls).backup \in Seq(Line)
<1>1. Runs(toBackup, ls, Reader(toBackup, ls))
  BY Reads
<1>2. Len(ls) \in 0..Len(ls)
  OBVIOUS
<1>3. Sorted(toBackup, ls) = Reader(toBackup, ls)[Len(ls)]
  BY DEF Sorted
<1>4. Sorted(toBackup, ls) \in Place
  BY <1>1, <1>2, <1>3, Zenon DEF Runs
<1> QED BY <1>1, <1>2, <1>3, <1>4 DEF Place

\* What an update leaves in the main part and in the backup block stays there at
\* the next update with the same names.
LEMMA SortedForUpdate ==
    ASSUME NEW M \in SUBSET Domain, NEW ls \in Seq(Line), NEW at, at = Sorted(Conflicting(M), ls)
    PROVE  /\ Trimmed(at.main) \in Seq(Line) /\ at.backup \in Seq(Line) /\ Clean(Trimmed(at.main))
           /\ \A l \in Range(Trimmed(at.main)) : LineDomains(l) \cap M = {}
           /\ Staying(Conflicting(M), Trimmed(at.main)) /\ Restorable(Conflicting(M), at.backup)
<1> DEFINE r == Reader(Conflicting(M), ls)
           n == Len(ls)
<1>1. /\ Runs(Conflicting(M), ls, r) /\ n \in 0..Len(ls) /\ at = r[n]
      /\ at.main \in Seq(Line) /\ at.backup \in Seq(Line)
  BY SortedBy
<1> HIDE DEF r, n
<1>2. /\ Trimmed(at.main) \in Seq(Line) /\ Clean(Trimmed(at.main))
      /\ Range(Trimmed(at.main)) \subseteq Range(at.main)
  BY <1>1, Trims
<1>3. \A l \in Range(at.main) : LineDomains(l) \cap M = {} /\ l \notin Markers
  BY <1>1, MainOfUpdate
<1>4. Range(at.main) \subseteq Line
  BY <1>1 DEF Range
<1>5. Staying(Conflicting(M), Trimmed(at.main))
  BY <1>2, <1>3, <1>4, Sources DEF Staying
<1>6. \A l \in Line : <<"main", l>> \in Conflicting(M) => <<"backup", l>> \in Conflicting(M)
  BY Sources
<1>7. /\ IsInjective(at.backup)
      /\ \A l \in Range(at.backup) : l # Blank /\ l # BackupEnd /\ <<"backup", l>> \in Conflicting(M)
  BY <1>1, <1>6, BackupBlockOf
<1>8. <<"main", Blank>> \notin Conflicting(M)
  <2>1. Blank \in Line /\ LineDomains(Blank) = {}
    BY LineTypes, Mapped
  <2>2. <<"main", Blank>> \in Conflicting(M) <=> (LineDomains(Blank) \cap M # {})
    BY <2>1, Sources, Zenon
  <2> QED BY <2>1, <2>2
<1> QED BY <1>1, <1>2, <1>3, <1>5, <1>7, <1>8 DEF Restorable

\* An update of an updated file changes nothing.
LEMMA UpdateAgain ==
    ASSUME NEW M \in SUBSET Domain, NEW ls \in Seq(Line)
    PROVE  Updated(Updated(ls, M), M) = Updated(ls, M)
<1>1. PICK at : at = Sorted(Conflicting(M), ls)
  OBVIOUS
<1>2. PICK main : main = Trimmed(at.main)
  OBVIOUS
<1>3. /\ main \in Seq(Line) /\ at.backup \in Seq(Line) /\ Clean(main)
      /\ Staying(Conflicting(M), main) /\ Restorable(Conflicting(M), at.backup)
  BY <1>1, <1>2, SortedForUpdate
<1>4. Updated(ls, M) = Composed(main, M, at.backup)
  BY <1>1, <1>2 DEF Updated
<1>5. PICK again : again = Sorted(Conflicting(M), Composed(main, M, at.backup))
  OBVIOUS
<1>6. again.backup = at.backup /\ Padded(again.main, Separated(main))
  BY <1>3, <1>5, ReadComposed
<1>7. Trimmed(again.main) = main
  BY <1>3, <1>6, TrimSeparated
<1>8. Updated(Composed(main, M, at.backup), M) = Composed(main, M, at.backup)
  BY <1>5, <1>6, <1>7 DEF Updated
<1> QED BY <1>4, <1>8

\* What a removal keeps of a tidy file.
LEMMA SortedForRemoval ==
    ASSUME NEW ls \in Seq(Line), Tidy(ls), NEW toBackup, NEW at, at = Sorted(toBackup, ls)
    PROVE  /\ Trimmed(at.main) \in Seq(Line) /\ at.backup \in Seq(Line) /\ Clean(Trimmed(at.main))
           /\ Range(Trimmed(at.main)) \subseteq Own \cup {Blank} /\ Range(at.backup) \subseteq Own
           /\ \A u \in Own : (u \in Range(Trimmed(at.main)) \cup Range(at.backup)) <=> u \in Range(ls)
<1> DEFINE r == Reader(toBackup, ls)
           n == Len(ls)
<1>1. /\ Runs(toBackup, ls, r) /\ n \in 0..Len(ls) /\ at = r[n]
      /\ at.main \in Seq(Line) /\ at.backup \in Seq(Line)
  BY SortedBy
<1>2. \A u \in Own : Met(ls, n, u) <=> u \in Range(ls)
  BY DEF Range, Met
<1> HIDE DEF r, n
<1>3. /\ Trimmed(at.main) \in Seq(Line) /\ Clean(Trimmed(at.main))
      /\ Range(Trimmed(at.main)) \subseteq Range(at.main)
      /\ Range(at.main) \subseteq Range(Trimmed(at.main)) \cup {Blank}
  BY <1>1, Trims
<1>4. Range(at.main) \subseteq Own \cup {Blank} /\ Range(at.backup) \subseteq Own
  BY <1>1, ListsOfTidy
<1>5. \A u \in Own : (u \in Range(at.main) \cup Range(at.backup)) <=> Met(ls, n, u)
  <2> SUFFICES ASSUME NEW u \in Own
               PROVE  (u \in Range(at.main) \cup Range(at.backup)) <=> Met(ls, n, u)
    OBVIOUS
  <2>1. u \in Range(r[n].main) \cup Range(r[n].backup) <=> Met(ls, n, u)
    BY <1>1, OwnKept
  <2> QED BY <1>1, <2>1, Zenon
<1>6. Blank \notin Own
  BY Kinds
<1>7. \A u \in Own : u \in Range(at.main) <=> u \in Range(Trimmed(at.main))
  BY <1>3, <1>6
<1> QED BY <1>1, <1>3, <1>4, <1>5, <1>7, <1>2

\* A removal leaves the lines of the user and blank lines, all of the former.
LEMMA RemovedFile ==
    ASSUME NEW ls \in Seq(Line), Tidy(ls)
    PROVE  /\ Removed(ls) \in Seq(Line) /\ Clean(Removed(ls))
           /\ Range(Removed(ls)) \subseteq Own \cup {Blank}
           /\ \A u \in Own : u \in Range(Removed(ls)) <=> u \in Range(ls)
<1>1. PICK at : at = Sorted(InBackup, ls)
  OBVIOUS
<1>2. PICK main : main = Trimmed(at.main)
  OBVIOUS
<1>3. /\ main \in Seq(Line) /\ at.backup \in Seq(Line) /\ Clean(main)
      /\ Range(main) \subseteq Own \cup {Blank} /\ Range(at.backup) \subseteq Own
      /\ \A u \in Own : (u \in Range(main) \cup Range(at.backup)) <=> u \in Range(ls)
  BY <1>1, <1>2, SortedForRemoval
<1>4. CASE at.backup = <<>>
  <2>1. Removed(ls) = main
    BY <1>1, <1>2, <1>4 DEF Removed
  <2> QED BY <1>3, <1>4, <2>1, NoLines
<1>5. CASE at.backup # <<>>
  <2> DEFINE b == at.backup
             a == Separated(main)
  <2>1. Removed(ls) = Join(a, b)
    BY <1>1, <1>2, <1>5 DEF Removed, Join
  <2>2. a \in Seq(Line) /\ Range(a) \in {Range(main), Range(main) \cup {Blank}}
    <3>1. <<Blank>> \in Seq(Line) /\ Range(<<Blank>>) = {Blank}
      BY LineTypes, Single
    <3>2. a \in {main, Join(main, <<Blank>>)}
      BY <1>3, LineTypes, Shorts DEF Separated, Join
    <3>3. Join(main, <<Blank>>) \in Seq(Line) /\ Range(Join(main, <<Blank>>)) = Range(main) \cup Range(<<Blank>>)
      BY <1>3, <3>1, Joins
    <3> QED BY <1>3, <3>1, <3>2, <3>3
  <2>3. b \in Seq(Line) /\ b # <<>>
    BY <1>3, <1>5
  <2> HIDE DEF a, b
  <2>4. Join(a, b) \in Seq(Line) /\ Range(Join(a, b)) = Range(a) \cup Range(b)
    BY <2>2, <2>3, Joins
  <2>5. Clean(Join(a, b))
    <3>1. Len(b) \in DOMAIN b /\ Join(a, b)[Len(Join(a, b))] = b[Len(b)]
      BY <2>2, <2>3 DEF Join
    <3>2. b[Len(b)] \in Range(b)
      BY <3>1 DEF Range
    <3>3. Blank \notin Range(b)
      BY <1>3, Kinds DEF b
    <3> QED BY <3>1, <3>2, <3>3 DEF Clean
  <2>6. Blank \notin Own
    BY Kinds
  <2>7. Range(b) = Range(at.backup)
    BY DEF b
  <2> QED BY <1>3, <2>1, <2>2, <2>4, <2>5, <2>6, <2>7
<1> QED BY <1>4, <1>5

\* A removal changes nothing in a file of the user's lines only.
LEMMA RemovedStays ==
    ASSUME NEW ls \in Seq(Line), Clean(ls), Range(ls) \subseteq Own \cup {Blank}
    PROVE  Removed(ls) = ls
<1> DEFINE r == Reader(InBackup, ls)
<1>1. Runs(InBackup, ls, r)
  BY Reads
<1>2. PICK n \in Nat : n = 0
  OBVIOUS
<1>3. Stretch(ls, n, ls) /\ n + Len(ls) = Len(ls)
  BY <1>2 DEF Stretch
<1> HIDE DEF r
<1>4. r[n].phase = "main" /\ r[n].main = <<>> /\ r[n].backup = <<>>
  BY <1>1, <1>2, Begins DEF Runs
<1>5. \A l \in Range(ls) : l \notin Markers /\ <<"main", l>> \notin InBackup
  <2>1. \A l \in Range(ls) : l \in Line /\ l \in Own \cup {Blank}
    BY DEF Range
  <2> QED BY <2>1, Kinds, Sources DEF Markers
<1>6. /\ r[n + Len(ls)].main = Join(r[n].main, ls)
      /\ r[n + Len(ls)].backup = r[n].backup
  BY <1>1, <1>3, <1>4, <1>5, OfMain
<1>7. Sorted(InBackup, ls) = r[n + Len(ls)]
  BY <1>3 DEF Sorted, r
<1>8. Sorted(InBackup, ls).main = ls /\ Sorted(InBackup, ls).backup = <<>>
  BY <1>4, <1>6, <1>7, Joins
<1>9. Trimmed(ls) = ls
  <2>1. <<>> \in Seq({Blank}) /\ Join(ls, <<>>) = ls
    <3>1. <<>> \in Seq({Blank})
      OBVIOUS
    <3> QED BY <3>1, Joins
  <2> QED BY <2>1, TrimPadded, Zenon
<1> QED BY <1>8, <1>9 DEF Removed

\* A second removal changes nothing.
LEMMA RemoveAgain ==
    ASSUME NEW ls \in Seq(Line), Tidy(ls)
    PROVE  Removed(Removed(ls)) = Removed(ls)
<1>1. /\ Removed(ls) \in Seq(Line) /\ Clean(Removed(ls))
      /\ Range(Removed(ls)) \subseteq Own \cup {Blank}
  BY RemovedFile
<1> QED BY <1>1, RemovedStays

\* The lines that a sequence is made of.
MadeOf(s, L) == s \in Seq(Line) /\ Range(s) = L

\* Two sequences in a row are made of the lines of both.
LEMMA MadeOfJoin ==
    \A s, t, A, B : MadeOf(s, A) /\ MadeOf(t, B) => MadeOf(Join(s, t), A \cup B)
<1> SUFFICES ASSUME NEW s, NEW t, NEW A, NEW B, MadeOf(s, A), MadeOf(t, B)
             PROVE  MadeOf(Join(s, t), A \cup B)
  OBVIOUS
<1>1. s \in Seq(Line) /\ t \in Seq(Line) /\ Range(s) = A /\ Range(t) = B
  BY DEF MadeOf
<1>2. Join(s, t) \in Seq(Line) /\ Range(Join(s, t)) = Range(s) \cup Range(t)
  BY <1>1, JoinRange
<1> QED BY <1>1, <1>2 DEF MadeOf

\* A text that is written has the lines of the two lists, the entries, markers
\* and blank lines.
LEMMA ComposedRange ==
    ASSUME NEW main \in Seq(Line), NEW M \in SUBSET Domain, NEW backup \in Seq(Line)
    PROVE  /\ Composed(main, M, backup) \in Seq(Line)
           /\ Range(main) \cup Range(backup) \cup {Entry(d) : d \in M}
                \subseteq Range(Composed(main, M, backup))
           /\ Range(Composed(main, M, backup)) \subseteq
                Range(main) \cup Range(backup) \cup {Entry(d) : d \in M} \cup Markers \cup {Blank}
<1> DEFINE a == Separated(main)
           b == Block(M)
           c == BackupBlock(backup)
           E == {Entry(d) : d \in M}
           X == Markers \cup {Blank}
<1>1. /\ MadeOf(<<Start>>, {Start}) /\ MadeOf(<<End>>, {End}) /\ MadeOf(<<Blank>>, {Blank})
      /\ MadeOf(<<BackupStart>>, {BackupStart}) /\ MadeOf(<<BackupEnd>>, {BackupEnd})
  BY LineTypes, Single DEF MadeOf
<1>2. Start \in X /\ End \in X /\ BackupStart \in X /\ BackupEnd \in X /\ Blank \in X
  BY DEF Markers
<1>3. MadeOf(main, Range(main)) /\ MadeOf(backup, Range(backup)) /\ MadeOf(Entries(M), E)
  BY EntriesOf, LineTypes DEF MadeOf
<1> HIDE DEF X
<1>4. PICK A : MadeOf(a, A) /\ Range(main) \subseteq A /\ A \subseteq Range(main) \cup X
  <2>1. CASE main = <<>>
    <3>1. a = main
      BY <2>1, Parts
    <3> HIDE DEF a
    <3> QED BY <1>3, <3>1
  <2>2. CASE main # <<>>
    <3>1. a = Join(main, <<Blank>>)
      BY <2>2, JoinedParts
    <3> HIDE DEF a
    <3>2. MadeOf(a, Range(main) \cup {Blank})
      BY <1>1, <1>3, <3>1, MadeOfJoin, Zenon
    <3> QED BY <1>2, <3>2
  <2> QED BY <2>1, <2>2
<1>5. PICK B : MadeOf(b, B) /\ E \subseteq B /\ B \subseteq E \cup X
  <2>1. MadeOf(Join(Entries(M), <<End>>), E \cup {End})
    BY <1>1, <1>3, MadeOfJoin, Zenon
  <2>2. MadeOf(Join(<<Start>>, Join(Entries(M), <<End>>)), {Start} \cup (E \cup {End}))
    BY <1>1, <2>1, MadeOfJoin, Zenon
  <2>3. b = Join(<<Start>>, Join(Entries(M), <<End>>))
    BY JoinedParts
  <2> HIDE DEF E, b
  <2> QED BY <1>2, <2>2, <2>3
<1>6. PICK C : MadeOf(c, C) /\ Range(backup) \subseteq C /\ C \subseteq Range(backup) \cup X
  <2>1. CASE backup = <<>>
    <3>1. c = backup
      BY <2>1, Parts
    <3> HIDE DEF c
    <3> QED BY <1>3, <3>1
  <2>2. CASE backup # <<>>
    <3>1. MadeOf(Join(backup, <<BackupEnd>>), Range(backup) \cup {BackupEnd})
      BY <1>1, <1>3, MadeOfJoin, Zenon
    <3>2. MadeOf(Join(<<BackupStart>>, Join(backup, <<BackupEnd>>)),
                 {BackupStart} \cup (Range(backup) \cup {BackupEnd}))
      BY <1>1, <3>1, MadeOfJoin, Zenon
    <3>3. MadeOf(Join(<<Blank>>, Join(<<BackupStart>>, Join(backup, <<BackupEnd>>))),
                 {Blank} \cup ({BackupStart} \cup (Range(backup) \cup {BackupEnd})))
      BY <1>1, <3>2, MadeOfJoin, Zenon
    <3>4. c = Join(<<Blank>>, Join(<<BackupStart>>, Join(backup, <<BackupEnd>>)))
      BY <2>2, JoinedParts
    <3> HIDE DEF c
    <3> QED BY <1>2, <3>3, <3>4
  <2> QED BY <2>1, <2>2
<1> HIDE DEF a, b, c, E
<1>7. MadeOf(Join(c, <<Blank>>), C \cup {Blank})
  BY <1>1, <1>6, MadeOfJoin, Zenon
<1>8. MadeOf(Join(b, Join(c, <<Blank>>)), B \cup (C \cup {Blank}))
  BY <1>5, <1>7, MadeOfJoin, Zenon
<1>9. MadeOf(Join(a, Join(b, Join(c, <<Blank>>))), A \cup (B \cup (C \cup {Blank})))
  BY <1>4, <1>8, MadeOfJoin, Zenon
<1>10. Composed(main, M, backup) = Join(a, Join(b, Join(c, <<Blank>>)))
  BY JoinedParts DEF a, b, c
<1>11. MadeOf(Composed(main, M, backup), A \cup (B \cup (C \cup {Blank})))
  BY <1>9, <1>10
<1> QED BY <1>2, <1>4, <1>5, <1>6, <1>11 DEF MadeOf, E, X

\* An update keeps the file tidy and the user's lines in it; the names that are
\* mapped afterwards are those that were asked for.
LEMMA UpdatedFile ==
    ASSUME NEW ls \in Seq(Line), Tidy(ls), NEW M \in SUBSET Domain
    PROVE  /\ Updated(ls, M) \in Seq(Line) /\ Tidy(Updated(ls, M))
           /\ UserLinesIn(Updated(ls, M)) = UserLinesIn(ls)
           /\ DomainsIn(Updated(ls, M)) = M
<1>1. PICK at : at = Sorted(Conflicting(M), ls)
  OBVIOUS
<1>2. PICK main : main = Trimmed(at.main)
  OBVIOUS
<1>3. PICK w : w = Composed(main, M, at.backup)
  OBVIOUS
<1>4. /\ main \in Seq(Line) /\ at.backup \in Seq(Line)
      /\ Range(main) \subseteq Own \cup {Blank} /\ Range(at.backup) \subseteq Own
      /\ \A u \in Own : (u \in Range(main) \cup Range(at.backup)) <=> u \in Range(ls)
  BY <1>1, <1>2, SortedForRemoval
<1>5. Updated(ls, M) = w
  BY <1>1, <1>2, <1>3 DEF Updated
<1>6. Tidy(w)
  <2>1. Leads("main", Composed(main, M, at.backup), "main")
    BY <1>4, ComposedTidy
  <2> QED BY <1>3, <2>1, TidyLeads
<1>7. /\ w \in Seq(Line)
      /\ Range(main) \cup Range(at.backup) \cup {Entry(d) : d \in M} \subseteq Range(w)
      /\ Range(w) \subseteq Range(main) \cup Range(at.backup) \cup {Entry(d) : d \in M} \cup Markers \cup {Blank}
  BY <1>3, <1>4, ComposedRange
<1>8. {Entry(d) : d \in M} \subseteq Entrance
  BY DEF Entrance
<1>9. \A u \in Own : u \in Range(w) <=> u \in Range(ls)
  BY <1>4, <1>7, <1>8, Kinds
<1>10. UserLinesIn(w) = UserLinesIn(ls)
  <2>1. \A u \in UserLine : User(u) \in Own
    BY DEF Own
  <2> QED BY <1>9, <2>1, Zenon DEF UserLinesIn
<1>11. DomainsIn(w) = M
  <2>1. \A d \in Domain : Entry(d) \in Range(w) => d \in M
    <3> SUFFICES ASSUME NEW d \in Domain, Entry(d) \in Range(w) PROVE d \in M
      OBVIOUS
    <3>1. Entry(d) \in Entrance
      BY DEF Entrance
    <3>2. Entry(d) \in {Entry(e) : e \in M}
      BY <1>4, <1>7, <3>1, Kinds
    <3>3. PICK e \in M : Entry(d) = Entry(e)
      BY <3>2
    <3> QED BY <3>3, Names
  <2>2. \A d \in M : Entry(d) \in Range(w)
    BY <1>7
  <2> QED BY <2>1, <2>2 DEF DomainsIn
<1> QED BY <1>5, <1>6, <1>7, <1>10, <1>11

\* A file with nothing but lines of the user is tidy.
LEMMA TidyOwn ==
    ASSUME NEW ls \in Seq(Line), Range(ls) \subseteq Own \cup {Blank}
    PROVE  Tidy(ls) /\ DomainsIn(ls) = {}
<1>1. \A l \in Range(ls) : NextPhase("main", l) = "main" /\ Proper("main", l)
  BY Belongs
<1>2. "main" \in Phase
  BY DEF Phase
<1>3. Leads("main", ls, "main")
  BY <1>1, <1>2, Stays
<1>4. \A d \in Domain : Entry(d) \in Entrance /\ Entry(d) \notin Own \cup {Blank}
  <2>1. \A d \in Domain : Entry(d) \in Entrance
    BY DEF Entrance
  <2> QED BY <2>1, Kinds
<1>5. DomainsIn(ls) = {}
  BY <1>4, Zenon DEF DomainsIn
<1> QED BY <1>3, <1>5, TidyLeads

\* A removal keeps the file tidy and the lines of the user, and leaves no entry.
LEMMA RemovedTidy ==
    ASSUME NEW ls \in Seq(Line), Tidy(ls)
    PROVE  /\ Removed(ls) \in Seq(Line) /\ Tidy(Removed(ls))
           /\ UserLinesIn(Removed(ls)) = UserLinesIn(ls)
           /\ DomainsIn(Removed(ls)) = {}
<1>1. /\ Removed(ls) \in Seq(Line) /\ Range(Removed(ls)) \subseteq Own \cup {Blank}
      /\ \A u \in Own : u \in Range(Removed(ls)) <=> u \in Range(ls)
  BY RemovedFile
<1>2. Tidy(Removed(ls)) /\ DomainsIn(Removed(ls)) = {}
  BY <1>1, TidyOwn
<1>3. UserLinesIn(Removed(ls)) = UserLinesIn(ls)
  <2>1. \A u \in UserLine : User(u) \in Own
    BY DEF Own
  <2> QED BY <1>1, <2>1, Zenon DEF UserLinesIn
<1> QED BY <1>1, <1>2, <1>3

\* The empty file.
LEMMA NoFile == <<>> \in Seq(Line) /\ Tidy(<<>>) /\ UserLinesIn(<<>>) = {} /\ DomainsIn(<<>>) = {}
<1>1. <<>> \in Seq(Line) /\ Range(<<>>) = {}
  BY Empties, NoLines
<1>2. Tidy(<<>>) /\ DomainsIn(<<>>) = {}
  BY <1>1, TidyOwn
<1>3. UserLinesIn(<<>>) = {}
  BY <1>1 DEF UserLinesIn
<1> QED BY <1>1, <1>2, <1>3

(***************************************************************************)
(* The first line that maps a managed name.                                *)
(***************************************************************************)
\* It is the entry: everything before the block maps none of the names.
LEMMA Decides ==
    ASSUME NEW ls \in Seq(Line), NEW M \in SUBSET Domain, NEW d \in M
    PROVE  LET w == Updated(ls, M)
           IN  w[Min({i \in DOMAIN w : d \in LineDomains(w[i])})] = Entry(d)
<1>1. PICK at : at = Sorted(Conflicting(M), ls)
  OBVIOUS
<1>2. PICK main : main = Trimmed(at.main)
  OBVIOUS
<1>3. PICK w : w = Composed(main, M, at.backup)
  OBVIOUS
<1>4. Updated(ls, M) = w
  BY <1>1, <1>2, <1>3 DEF Updated
<1>5. /\ main \in Seq(Line) /\ at.backup \in Seq(Line)
      /\ \A l \in Range(main) : LineDomains(l) \cap M = {}
  BY <1>1, <1>2, SortedForUpdate
<1> DEFINE a == Separated(main)
           b == <<Start>>
           e == Entries(M)
           f == <<End>>
           g == Join(BackupBlock(at.backup), <<Blank>>)
<1>6. /\ a \in Seq(Line) /\ b \in Seq(Line) /\ e \in Seq(Line) /\ f \in Seq(Line) /\ g \in Seq(Line)
      /\ w \in Seq(Line)
  <2>1. b \in Seq(Line) /\ f \in Seq(Line) /\ <<Blank>> \in Seq(Line)
    BY LineTypes, Single
  <2>2. BackupBlock(at.backup) \in Seq(Line) /\ a \in Seq(Line) /\ e \in Seq(Line) /\ w \in Seq(Line)
    BY <1>3, <1>5, Parts
  <2> HIDE DEF b, f
  <2> QED BY <2>1, <2>2, Joins
<1>7. w = Join(a, Join(Join(b, Join(e, f)), g))
  <2>1. Composed(main, M, at.backup) =
            Join(Separated(main), Join(Block(M), Join(BackupBlock(at.backup), <<Blank>>)))
    BY <1>5, JoinedParts
  <2>2. Block(M) = Join(<<Start>>, Join(Entries(M), <<End>>))
    BY <1>5, JoinedParts
  <2> QED BY <1>3, <2>1, <2>2, Zenon
<1>8. Range(e) = {Entry(x) : x \in M}
  BY EntriesOf
<1>9. \A l \in Range(a) : d \notin LineDomains(l)
  <2>1. LineDomains(Blank) = {}
    BY Mapped
  <2>2. \A l \in Range(main) : d \notin LineDomains(l)
    BY <1>5
  <2>3. CASE main = <<>>
    <3>1. a = main
      BY <1>5, <2>3, Parts
    <3> QED BY <2>2, <3>1
  <2>4. CASE main # <<>>
    <3>1. a = Join(main, <<Blank>>)
      BY <1>5, <2>4, JoinedParts
    <3>2. <<Blank>> \in Seq(Line) /\ Range(<<Blank>>) = {Blank}
      BY LineTypes, Single
    <3>3. Range(Join(main, <<Blank>>)) = Range(main) \cup Range(<<Blank>>)
      BY <1>5, <3>2, Joins
    <3> QED BY <2>1, <2>2, <3>1, <3>2, <3>3
  <2> QED BY <2>3, <2>4
<1>10. LineDomains(Start) = {}
  BY Mapped DEF Markers
<1>11. b = <<Start>>
  OBVIOUS
<1> HIDE DEF a, b, e, f, g
<1> DEFINE n == Len(a)
           k == Len(e)
<1>12. /\ n \in Nat /\ k \in Nat /\ DOMAIN w = 1..Len(w) /\ n + 1 + k <= Len(w)
       /\ \A i \in 1..n : w[i] = a[i] /\ a[i] \in Range(a)
       /\ w[n + 1] = Start
       /\ \A i \in 1..k : w[n + 1 + i] = e[i] /\ e[i] \in Range(e)
  <2>1. PICK n0 \in Nat : n0 = 0
    OBVIOUS
  <2>2. Stretch(w, n0, Join(a, Join(Join(b, Join(e, f)), g))) /\ Len(w) \in Nat
    BY <1>6, <1>7, <2>1 DEF Stretch
  <2>3. Join(e, f) \in Seq(Line) /\ Join(b, Join(e, f)) \in Seq(Line) /\ Join(Join(b, Join(e, f)), g) \in Seq(Line)
    BY <1>6, Joins
  <2> DEFINE n1 == n0 + Len(a)
             n2 == n1 + Len(b)
  <2>4. Stretch(w, n0, a) /\ Stretch(w, n1, Join(Join(b, Join(e, f)), g))
    BY <1>6, <2>2, <2>3, StretchParts
  <2>5. n1 \in Nat /\ n2 \in Nat /\ n1 = n /\ n2 = n + 1
    BY <1>6, <1>11, <2>1
  <2> HIDE DEF n1, n2
  <2>6. Stretch(w, n1, Join(b, Join(e, f)))
    BY <1>6, <2>3, <2>4, <2>5, StretchParts
  <2>7. Stretch(w, n1, b) /\ Stretch(w, n2, Join(e, f))
    BY <1>6, <2>3, <2>5, <2>6, StretchParts DEF n2
  <2>8. Stretch(w, n2, e)
    BY <1>6, <2>5, <2>7, StretchParts
  <2>9. DOMAIN w = 1..Len(w) /\ n \in Nat /\ k \in Nat
    BY <1>6
  <2>10. \A i \in 1..n : w[i] = a[i] /\ a[i] \in Range(a)
    BY <1>6, <2>1, <2>4 DEF Stretch, Range
  <2>11. w[n + 1] = Start
    BY <1>11, <2>5, <2>7 DEF Stretch
  <2>12. (n + 1) + k <= Len(w) /\ \A i \in 1..k : w[(n + 1) + i] = e[i] /\ e[i] \in Range(e)
    BY <1>6, <2>5, <2>8 DEF Stretch, Range
  <2> QED BY <2>9, <2>10, <2>11, <2>12
<1> DEFINE S == {i \in DOMAIN w : d \in LineDomains(w[i])}
<1>13. PICK j \in 1..k : e[j] = Entry(d)
  <2>1. Entry(d) \in Range(e)
    BY <1>8
  <2> QED BY <1>6, <2>1 DEF Range
<1>14. \A x \in M : LineDomains(Entry(x)) = {x}
  BY Mapped
<1>15. n + 1 + j \in S
  <2>1. n + 1 + j \in DOMAIN w
    BY <1>12, <1>13
  <2>2. w[n + 1 + j] = Entry(d)
    BY <1>12, <1>13
  <2>3. d \in LineDomains(Entry(d))
    BY <1>14
  <2> HIDE DEF n, k
  <2> QED BY <2>1, <2>2, <2>3
<1>16. \A i \in S : i > n + 1
  BY <1>9, <1>10, <1>12
<1>17. PICK p \in S : \A i \in S : p <= i
  <2>1. S \subseteq Nat
    BY <1>12
  <2> HIDE DEF S
  <2> QED BY <1>15, <2>1, Smallest
<1>18. Min(S) = p
  <2>1. \A x \in S : (\A y \in S : x =< y) => x = p
    BY <1>12, <1>17
  <2>2. p \in S /\ \A y \in S : p =< y
    BY <1>17
  <2> HIDE DEF S
  <2> QED BY <2>1, <2>2, Zenon DEF Min
<1>19. w[p] = Entry(d)
  <2>1. p > n + 1 /\ p <= n + 1 + j /\ p \in Nat
    BY <1>12, <1>15, <1>16, <1>17
  <2> DEFINE i == p - (n + 1)
  <2>2. i \in 1..k /\ n + 1 + i = p
    BY <1>12, <2>1
  <2> HIDE DEF i
  <2>3. w[p] \in Range(e)
    BY <1>12, <2>2
  <2>4. PICK x \in M : w[p] = Entry(x)
    BY <1>8, <2>3
  <2>5. d \in LineDomains(w[p])
    BY <1>17
  <2> QED BY <1>14, <2>4, <2>5
<1> QED BY <1>4, <1>18, <1>19

(***************************************************************************)
(* The user's edits, and a write that was cut off.                         *)
(***************************************************************************)
\* A file, cut in two.
LEMMA Pieces ==
    ASSUME NEW ls \in Seq(Line), NEW n \in 0..Len(ls)
    PROVE  /\ SubSeq(ls, 1, n) \in Seq(Line) /\ Len(SubSeq(ls, 1, n)) = n
           /\ SubSeq(ls, n + 1, Len(ls)) \in Seq(Line)
           /\ ls = SubSeq(ls, 1, n) \o SubSeq(ls, n + 1, Len(ls))
<1> DEFINE s == SubSeq(ls, 1, n)
           t == SubSeq(ls, n + 1, Len(ls))
           w == s \o t
<1>1. /\ s \in Seq(Line) /\ Len(s) = n /\ t \in Seq(Line) /\ Len(t) = Len(ls) - n
      /\ \A i \in 1..n : s[i] = ls[i]
      /\ \A i \in 1..(Len(ls) - n) : t[i] = ls[n + i]
  OBVIOUS
<1> HIDE DEF s, t
<1>2. w \in Seq(Line) /\ Len(w) = Len(ls)
  BY <1>1
<1>3. \A i \in 1..Len(ls) : ls[i] = w[i]
  <2> SUFFICES ASSUME NEW i \in 1..Len(ls) PROVE ls[i] = w[i]
    OBVIOUS
  <2>1. CASE i <= n
    BY <1>1, <2>1
  <2>2. CASE ~(i <= n)
    <3> DEFINE j == i - n
    <3>1. j \in 1..(Len(ls) - n) /\ n + j = i
      BY <2>2
    <3> HIDE DEF j
    <3>2. w[n + j] = t[j]
      BY <1>1, <3>1
    <3> QED BY <1>1, <3>1, <3>2
  <2> QED BY <2>1, <2>2
<1> HIDE DEF w
<1>4. ls = w
  BY <1>2, <1>3, SameItems
<1> QED BY <1>1, <1>4 DEF s, t, w

\* Where a tidy file can be cut.
LEMMA Around ==
    ASSUME NEW toBackup, NEW ls \in Seq(Line), Tidy(ls), NEW n \in 0..Len(ls),
           NEW r, Runs(toBackup, ls, r)
    PROVE  /\ Leads("main", SubSeq(ls, 1, n), r[n].phase)
           /\ \E q : Leads(r[n].phase, SubSeq(ls, n + 1, Len(ls)), q)
<1> DEFINE s == SubSeq(ls, 1, n)
           t == SubSeq(ls, n + 1, Len(ls))
<1>1. PICK f : Phased(ls, f)
  BY DEF Tidy
<1>2. r[n].phase = f[n]
  <2>1. Agrees(ls, r, f)
    BY <1>1, SamePhase
  <2> QED BY <2>1 DEF Agrees
<1>3. s \in Seq(Line) /\ t \in Seq(Line) /\ Len(s) = n /\ ls = s \o t
  BY Pieces
<1> HIDE DEF s, t
<1>4. Walk("main", s \o t, f)
  BY <1>1, <1>3, Zenon DEF Walk, Phased
<1>5. Leads("main", s, f[n]) /\ Leads(f[n], t, f[Len(s \o t)])
  <2>1. Leads("main", s, f[Len(s)]) /\ Leads(f[Len(s)], t, f[Len(s \o t)])
    BY <1>3, <1>4, CutAt
  <2> QED BY <1>3, <2>1
<1> QED BY <1>2, <1>5 DEF s, t

\* What is on the disk after a write that was cut off.
LEMMA CutOffFile ==
    ASSUME NEW ls \in Seq(Line), Tidy(ls), NEW n \in 0..Len(ls)
    PROVE  /\ SubSeq(ls, 1, n) \in Seq(Line) /\ Tidy(SubSeq(ls, 1, n))
           /\ UserLinesIn(SubSeq(ls, 1, n)) \subseteq UserLinesIn(ls)
           /\ DomainsIn(SubSeq(ls, 1, n)) \subseteq DomainsIn(ls)
<1> DEFINE s == SubSeq(ls, 1, n)
           t == SubSeq(ls, n + 1, Len(ls))
<1>1. s \in Seq(Line) /\ t \in Seq(Line) /\ ls = s \o t
  BY Pieces
<1>2. \E q : Leads("main", s, q)
  BY Reads, Around
<1> HIDE DEF s, t
<1>3. Range(s) \subseteq Range(ls)
  BY <1>1, Joined
<1>4. Tidy(s)
  BY <1>2, TidyLeads
<1> QED BY <1>1, <1>3, <1>4 DEF s, UserLinesIn, DomainsIn

\* One line of the user's more.
LEMMA OneMore ==
    ASSUME NEW ls \in Seq(Line), NEW ks \in Seq(Line), NEW u \in UserLine,
           Range(ks) = Range(ls) \cup {User(u)}
    PROVE  UserLinesIn(ks) = UserLinesIn(ls) \cup {u} /\ DomainsIn(ks) = DomainsIn(ls)
<1>1. \A v \in UserLine : User(v) \in Range(ks) <=> (v = u \/ User(v) \in Range(ls))
  <2>1. \A v \in UserLine : User(v) = User(u) <=> v = u
    BY Names
  <2> QED BY <2>1
<1>2. \A d \in Domain : Entry(d) \in Range(ks) <=> Entry(d) \in Range(ls)
  <2>1. User(u) \in Own /\ \A d \in Domain : Entry(d) \in Entrance
    BY DEF Own, Entrance
  <2>2. \A d \in Domain : Entry(d) # User(u)
    BY <2>1, Kinds
  <2> QED BY <2>2
<1> QED BY <1>1, <1>2 DEF UserLinesIn, DomainsIn

\* A line of the user that is inserted outside the block.
LEMMA InsertedFile ==
    ASSUME NEW ls \in Seq(Line), Tidy(ls), NEW u \in UserLine, NEW n \in 0..Len(ls),
           Reader({}, ls)[n].phase # "block"
    PROVE  LET ks == InsertAt(ls, n + 1, User(u))
           IN  /\ ks \in Seq(Line) /\ Tidy(ks)
               /\ UserLinesIn(ks) = UserLinesIn(ls) \cup {u}
               /\ DomainsIn(ks) = DomainsIn(ls)
<1> DEFINE s == SubSeq(ls, 1, n)
           t == SubSeq(ls, n + 1, Len(ls))
           l == User(u)
           p == Reader({}, ls)[n].phase
<1>1. s \in Seq(Line) /\ t \in Seq(Line) /\ ls = s \o t
  BY Pieces
<1>2. PICK z : Leads("main", s, p) /\ Leads(p, t, z)
  BY Reads, Around
<1>3. l \in Own /\ l \in Line
  BY LineTypes DEF Own
<1>4. p \in Phase
  BY <1>1, <1>2, LeadsToPhase
<1>5. NextPhase(p, l) = p /\ Proper(p, l)
  <2>1. p \in {"main", "backup"}
    BY <1>4 DEF Phase
  <2> QED BY <1>3, <2>1, Belongs
<1>6. InsertAt(ls, n + 1, l) = (s \o <<l>>) \o t
  <2>1. (n + 1) - 1 = n
    OBVIOUS
  <2> QED BY <2>1, Zenon DEF InsertAt
<1> HIDE DEF s, t, l, p
<1>7. <<l>> \in Seq(Line) /\ Range(<<l>>) = {l}
  BY <1>3, Single
<1>8. Leads(p, <<l>>, p)
  BY <1>3, <1>4, <1>5, StepOn
<1> DEFINE a == s \o <<l>>
           b == a \o t
<1>9. a \in Seq(Line) /\ Range(a) = Range(s) \cup {l}
  <2>1. a \in Seq(Line) /\ Range(a) = Range(s) \cup Range(<<l>>)
    BY <1>1, <1>7, Joined
  <2> QED BY <1>7, <2>1
<1>10. Leads("main", a, p)
  BY <1>1, <1>2, <1>7, <1>8, LeadOn, Zenon
<1> HIDE DEF a
<1>11. b \in Seq(Line) /\ Range(b) = Range(a) \cup Range(t)
  BY <1>1, <1>9, Joined
<1>12. Leads("main", b, z)
  BY <1>1, <1>2, <1>9, <1>10, LeadOn, Zenon
<1>13. InsertAt(ls, n + 1, l) = b
  BY <1>6 DEF a
<1> HIDE DEF b
<1>14. Range(ls) = Range(s) \cup Range(t)
  BY <1>1, Joined
<1>15. Range(b) = Range(ls) \cup {User(u)}
  BY <1>9, <1>11, <1>14 DEF l
<1>16. UserLinesIn(b) = UserLinesIn(ls) \cup {u} /\ DomainsIn(b) = DomainsIn(ls)
  BY <1>11, <1>15, OneMore
<1>17. Tidy(b)
  BY <1>12, TidyLeads
<1> QED BY <1>11, <1>13, <1>16, <1>17 DEF l

\* Only the user's lines are of that kind.
LEMMA UsersOwn == \A l \in Line : l.kind = "user" => l \in Own
<1>1. /\ Start.kind # "user" /\ End.kind # "user" /\ Blank.kind # "user"
      /\ BackupStart.kind # "user" /\ BackupEnd.kind # "user"
  BY DEF Start, End, BackupStart, BackupEnd, Blank, Mark
<1>2. \A l \in Markers \cup {Blank} : l.kind # "user"
  BY <1>1 DEF Markers
<1>3. \A l \in Entrance : l.kind # "user"
  BY DEF Entrance, Entry
<1> QED BY <1>2, <1>3, Lines

\* A line of the user that is deleted, and may be there a second time.
LEMMA DeletedFile ==
    ASSUME NEW ls \in Seq(Line), Tidy(ls), NEW n \in DOMAIN ls, ls[n].kind = "user"
    PROVE  LET ks == RemoveAt(ls, n)
           IN  /\ ks \in Seq(Line) /\ Tidy(ks)
               /\ \E u \in UserLine : UserLinesIn(ks) \in {UserLinesIn(ls), UserLinesIn(ls) \ {u}}
               /\ DomainsIn(ks) = DomainsIn(ls)
<1> DEFINE m == n - 1
           s == SubSeq(ls, 1, m)
           t == SubSeq(ls, n, Len(ls))
           v == SubSeq(ls, n + 1, Len(ls))
           l == ls[n]
           p == Reader({}, ls)[m].phase
<1>1. n \in 1..Len(ls) /\ m \in 0..Len(ls) /\ n \in 0..Len(ls) /\ m + 1 = n
  OBVIOUS
<1>2. s \in Seq(Line) /\ t \in Seq(Line) /\ ls = s \o t /\ v \in Seq(Line)
  <2>1. s \in Seq(Line) /\ SubSeq(ls, m + 1, Len(ls)) \in Seq(Line)
        /\ ls = s \o SubSeq(ls, m + 1, Len(ls))
    BY <1>1, Pieces
  <2>2. v \in Seq(Line)
    BY <1>1, Pieces
  <2> QED BY <1>1, <2>1, <2>2
<1>3. PICK z : Leads("main", s, p) /\ Leads(p, t, z)
  <2>1. \E q : Leads("main", s, p) /\ Leads(p, SubSeq(ls, m + 1, Len(ls)), q)
    <3>1. m \in 0..Len(ls)
      BY <1>1
    <3> HIDE DEF m
    <3> QED BY <3>1, Reads, Around
  <2> QED BY <1>1, <2>1
<1>4. l \in Line /\ l \in Own
  <2>1. l \in Line
    BY <1>1
  <2> QED BY <2>1, UsersOwn
<1>5. PICK u \in UserLine : l = User(u)
  BY <1>4 DEF Own
<1>6. RemoveAt(ls, n) = s \o v
  BY DEF RemoveAt
<1>7. t = <<l>> \o v
  <2> DEFINE w == <<l>> \o v
  <2>1. w \in Seq(Line) /\ Len(w) = 1 + Len(v) /\ w[1] = l /\ \A i \in 1..Len(v) : w[1 + i] = v[i]
    BY <1>2, <1>4
  <2>2. Len(t) = Len(ls) - n + 1 /\ Len(v) = Len(ls) - n
    BY <1>1
  <2>3. \A i \in 1..Len(t) : t[i] = ls[n + i - 1]
    <3>1. \A k \in 1..Len(ls) : \A i \in 1..Len(SubSeq(ls, k, Len(ls))) :
                SubSeq(ls, k, Len(ls))[i] = ls[k + i - 1]
      OBVIOUS
    <3> QED BY <1>1, <3>1
  <2>4. \A i \in 1..Len(v) : v[i] = ls[n + 1 + i - 1]
    <3>1. \A k \in 1..(Len(ls) + 1) : \A i \in 1..Len(SubSeq(ls, k, Len(ls))) :
                SubSeq(ls, k, Len(ls))[i] = ls[k + i - 1]
      OBVIOUS
    <3>2. n + 1 \in 1..(Len(ls) + 1)
      BY <1>1
    <3> QED BY <3>1, <3>2
  <2>5. \A i \in 1..Len(t) : t[i] = w[i]
    <3> SUFFICES ASSUME NEW i \in 1..Len(t) PROVE t[i] = w[i]
      OBVIOUS
    <3>1. t[i] = ls[n + i - 1]
      BY <2>3
    <3>2. CASE i = 1
      BY <1>1, <2>1, <3>1, <3>2
    <3>3. CASE i # 1
      <4>1. i - 1 \in 1..Len(v) /\ 1 + (i - 1) = i
        BY <1>1, <2>2, <3>3
      <4>2. w[i] = v[i - 1]
        BY <2>1, <4>1
      <4> HIDE DEF v, w
      <4>3. v[i - 1] = ls[n + 1 + (i - 1) - 1]
        BY <2>4, <4>1
      <4>4. n + 1 + (i - 1) - 1 = n + i - 1
        BY <1>1
      <4> QED BY <3>1, <4>2, <4>3, <4>4
    <3> QED BY <3>2, <3>3
  <2>6. Len(w) = Len(t)
    BY <1>1, <2>1, <2>2
  <2> HIDE DEF t, w
  <2>7. t = w
    BY <1>2, <2>1, <2>5, <2>6, SameItems
  <2> QED BY <2>7 DEF w
<1> HIDE DEF m, s, t, v, l, p
<1>8. <<l>> \in Seq(Line) /\ Range(<<l>>) = {l}
  BY <1>4, Single
<1>9. Leads(p, <<l>> \o v, z)
  BY <1>3, <1>7
<1>10. PICK q : Leads(p, <<l>>, q) /\ Leads(q, v, z)
  BY <1>2, <1>8, <1>9, LeadOn, Zenon
<1>11. p \in Phase
  BY <1>2, <1>3, LeadsToPhase
<1>12. q = NextPhase(p, l) /\ Proper(p, l)
  BY <1>4, <1>10, <1>11, StepOn
<1>13. q = p
  <2>1. p # "block"
    BY <1>4, <1>12, Belongs
  <2>2. p \in {"main", "backup"}
    BY <1>11, <2>1 DEF Phase
  <2> QED BY <1>4, <1>12, <2>2, Belongs
<1> DEFINE b == s \o v
<1>14. b \in Seq(Line) /\ Range(b) = Range(s) \cup Range(v)
  BY <1>2, Joined
<1>15. Leads("main", b, z)
  BY <1>2, <1>3, <1>10, <1>13, LeadOn, Zenon
<1> HIDE DEF b
<1>16. Range(ls) = Range(s) \cup Range(t) /\ Range(t) = {l} \cup Range(v)
  <2>1. Range(s \o t) = Range(s) \cup Range(t)
    BY <1>2, Joined
  <2>2. Range(<<l>> \o v) = Range(<<l>>) \cup Range(v)
    BY <1>2, <1>8, Joined
  <2> QED BY <1>2, <1>7, <1>8, <2>1, <2>2
<1>17. Range(ls) = Range(b) \cup {User(u)}
  BY <1>5, <1>14, <1>16
<1>18. UserLinesIn(ls) = UserLinesIn(b) \cup {u} /\ DomainsIn(ls) = DomainsIn(b)
  BY <1>14, <1>17, OneMore
<1>19. UserLinesIn(b) \in {UserLinesIn(ls), UserLinesIn(ls) \ {u}}
  BY <1>18
<1>20. Tidy(b)
  BY <1>15, TidyLeads
<1>21. RemoveAt(ls, n) = b
  BY <1>6 DEF b
<1> QED BY <1>14, <1>18, <1>19, <1>20, <1>21

\* The file before the accelerator's first call.
LEMMA FirstFile ==
    ASSUME NEW ls \in BoundedSeq({User(u) : u \in UserLine}, MaxLines)
    PROVE  ls \in Seq(Line) /\ Tidy(ls) /\ DomainsIn(ls) = {}
<1>1. PICK m \in 0..MaxLines : ls \in [1..m -> Own]
  BY DEF BoundedSeq, SeqOf, Own
<1>2. m \in Nat
  BY <1>1, BoundsAssumption
<1>3. ls \in Seq(Own) /\ Range(ls) \subseteq Own
  <2>1. ls \in Seq(Own)
    BY <1>1, <1>2
  <2>2. Range(ls) \subseteq Own
    BY <1>1 DEF Range
  <2> QED BY <2>1, <2>2
<1>4. ls \in Seq(Line)
  BY <1>3, LineTypes
<1> QED BY <1>3, <1>4, TidyOwn

(***************************************************************************)
(* The invariant.                                                          *)
(***************************************************************************)
\* What the call in progress is going to write keeps the user's lines, unless it
\* is the reset or the file could not be read.
Careful ==
    pc = "read" =>
        \/ UserLinesIn(text) = UserLinesIn(file)
        \/ text = <<>>
        \/ "read" \in mishaps /\ UserLinesIn(text) = {}

HostsInv == HostsTypeOK /\ Tidy(file) /\ Tidy(text) /\ Careful

\* A call that has composed what it will write.
LEMMA Rewritten ==
    ASSUME HostsInv, NEW t \in Seq(Line), Tidy(t), Rewrite(t),
           \/ UserLinesIn(t) = UserLinesIn(file)
           \/ t = <<>>
           \/ "read" \in mishaps /\ UserLinesIn(t) = {}
    PROVE  HostsInv'
<1>1. /\ pc' = "read" /\ text' = t /\ file' = file /\ mishaps' = mishaps
  BY DEF Rewrite
<1>2. HostsTypeOK'
  BY <1>1 DEF HostsInv, HostsTypeOK
<1>3. Tidy(file)' /\ Tidy(text)'
  BY <1>1 DEF HostsInv
<1>4. Careful'
  BY <1>1 DEF Careful
<1> QED BY <1>2, <1>3, <1>4 DEF HostsInv

\* update_hosts composes a tidy text that keeps the lines of what it read.
LEMMA UpdateHostsKeeps ==
    ASSUME HostsInv, NEW M \in SUBSET Domain, UpdateHosts(M)
    PROVE  HostsInv'
<1>1. PICK ls : Content(ls) /\ Rewrite(Updated(ls, M))
  BY DEF UpdateHosts
<1>2. ls \in Seq(Line) /\ Tidy(ls)
  BY <1>1, NoFile DEF Content, HostsInv, HostsTypeOK
<1>3. ls = file \/ ("read" \in mishaps /\ UserLinesIn(ls) = {})
  BY <1>1, NoFile DEF Content
<1>4. /\ Updated(ls, M) \in Seq(Line) /\ Tidy(Updated(ls, M))
      /\ UserLinesIn(Updated(ls, M)) = UserLinesIn(ls)
  BY <1>2, UpdatedFile
<1>5. PICK t : t = Updated(ls, M)
  OBVIOUS
<1> QED BY <1>1, <1>3, <1>4, <1>5, Rewritten

\* So does remove_by_tag.
LEMMA RemoveByTagKeeps ==
    ASSUME HostsInv, RemoveByTag
    PROVE  HostsInv'
<1>1. PICK ls : Content(ls) /\ Rewrite(Removed(ls))
  BY DEF RemoveByTag
<1>2. ls \in Seq(Line) /\ Tidy(ls)
  BY <1>1, NoFile DEF Content, HostsInv, HostsTypeOK
<1>3. ls = file \/ ("read" \in mishaps /\ UserLinesIn(ls) = {})
  BY <1>1, NoFile DEF Content
<1>4. /\ Removed(ls) \in Seq(Line) /\ Tidy(Removed(ls))
      /\ UserLinesIn(Removed(ls)) = UserLinesIn(ls)
  BY <1>2, RemovedTidy
<1>5. PICK t : t = Removed(ls)
  OBVIOUS
<1> QED BY <1>1, <1>3, <1>4, <1>5, Rewritten

\* The write, finished, refused or cut off.
LEMMA WriteKeeps ==
    ASSUME HostsInv, OpenForWrite \/ OpenFails \/ FinishWrite \/ WriteFails \/ Dies
    PROVE  HostsInv'
<1> USE NoFile
<1>1. CASE OpenForWrite
  BY <1>1 DEF OpenForWrite, HostsInv, HostsTypeOK, Careful
<1>2. CASE OpenFails
  BY <1>2 DEF OpenFails, HostsInv, HostsTypeOK, Careful
<1>3. CASE FinishWrite
  BY <1>3 DEF FinishWrite, HostsInv, HostsTypeOK, Careful
<1>4. CASE WriteFails \/ Dies
  <2>1. /\ pc' = "idle" /\ text' = <<>> /\ mishaps' = mishaps
        /\ file \in Seq(Line) /\ Tidy(file) /\ text \in Seq(Line) /\ Tidy(text)
        /\ mishaps \in SUBSET Faults
    BY <1>4 DEF WriteFails, Dies, HostsInv, HostsTypeOK
  <2>2. file' \in Seq(Line) /\ Tidy(file')
    <3>1. CASE CutShort
      <4>1. PICK n \in 0..Len(text) : file' = SubSeq(text, 1, n)
        BY <3>1 DEF CutShort
      <4> QED BY <2>1, <4>1, CutOffFile
    <3>2. CASE file' = file
      BY <2>1, <3>2
    <3> QED BY <1>4, <3>1, <3>2 DEF WriteFails, Dies
  <2> QED BY <2>1, <2>2 DEF HostsInv, HostsTypeOK, Careful
<1> QED BY <1>1, <1>2, <1>3, <1>4

\* The user's edits, seen from the file and from the contract.
LEMMA EditKeeps ==
    ASSUME HostsInv,
           \/ \E u \in UserLine, i \in 0..Len(file) : UserInserts(u, i)
           \/ \E i \in DOMAIN file : UserDeletes(i)
    PROVE  /\ HostsInv'
           /\ UNCHANGED <<pc, text, mishaps>> /\ pc = "idle"
           /\ DomainsIn(file') = DomainsIn(file)
           /\ \E u \in UserLine :
                UserLinesIn(file') \in {UserLinesIn(file), UserLinesIn(file) \cup {u}, UserLinesIn(file) \ {u}}
<1>1. file \in Seq(Line) /\ Tidy(file)
  BY DEF HostsInv, HostsTypeOK
<1>2. ASSUME UNCHANGED <<pc, text, mishaps>>, pc = "idle", file' \in Seq(Line), Tidy(file')
      PROVE  HostsInv'
  BY <1>2 DEF HostsInv, HostsTypeOK, Careful
<1>3. ASSUME NEW u \in UserLine, NEW i \in 0..Len(file), UserInserts(u, i)
      PROVE  /\ UNCHANGED <<pc, text, mishaps>> /\ pc = "idle"
             /\ file' \in Seq(Line) /\ Tidy(file')
             /\ DomainsIn(file') = DomainsIn(file)
             /\ UserLinesIn(file') = UserLinesIn(file) \cup {u}
  <2>1. /\ UNCHANGED <<pc, text, mishaps>> /\ pc = "idle"
        /\ file' = InsertAt(file, i + 1, User(u))
        /\ Reader({}, file)[i].phase # "block"
    BY <1>3 DEF UserInserts, PhaseAt
  <2>2. PICK ks : ks = InsertAt(file, i + 1, User(u))
    OBVIOUS
  <2>3. /\ ks \in Seq(Line) /\ Tidy(ks) /\ DomainsIn(ks) = DomainsIn(file)
        /\ UserLinesIn(ks) = UserLinesIn(file) \cup {u}
    BY <1>1, <2>1, <2>2, InsertedFile
  <2> QED BY <2>1, <2>2, <2>3
<1>4. ASSUME NEW i \in DOMAIN file, UserDeletes(i)
      PROVE  /\ UNCHANGED <<pc, text, mishaps>> /\ pc = "idle"
             /\ file' \in Seq(Line) /\ Tidy(file')
             /\ DomainsIn(file') = DomainsIn(file)
             /\ \E u \in UserLine : UserLinesIn(file') \in {UserLinesIn(file), UserLinesIn(file) \ {u}}
  <2>1. /\ UNCHANGED <<pc, text, mishaps>> /\ pc = "idle"
        /\ file' = RemoveAt(file, i) /\ file[i].kind = "user"
    BY <1>4 DEF UserDeletes
  <2>2. PICK ks : ks = RemoveAt(file, i)
    OBVIOUS
  <2>3. /\ ks \in Seq(Line) /\ Tidy(ks) /\ DomainsIn(ks) = DomainsIn(file)
        /\ \E u \in UserLine : UserLinesIn(ks) \in {UserLinesIn(file), UserLinesIn(file) \ {u}}
    BY <1>1, <2>1, <2>2, DeletedFile
  <2> QED BY <2>1, <2>2, <2>3
<1>5. CASE \E u \in UserLine, i \in 0..Len(file) : UserInserts(u, i)
  <2>1. PICK u \in UserLine, i \in 0..Len(file) : UserInserts(u, i)
    BY <1>5
  <2>2. /\ UNCHANGED <<pc, text, mishaps>> /\ pc = "idle"
        /\ file' \in Seq(Line) /\ Tidy(file') /\ DomainsIn(file') = DomainsIn(file)
        /\ UserLinesIn(file') = UserLinesIn(file) \cup {u}
    BY <1>3, <2>1
  <2> QED BY <1>2, <2>2
<1>6. CASE \E i \in DOMAIN file : UserDeletes(i)
  <2>1. PICK i \in DOMAIN file : UserDeletes(i)
    BY <1>6
  <2>2. /\ UNCHANGED <<pc, text, mishaps>> /\ pc = "idle"
        /\ file' \in Seq(Line) /\ Tidy(file') /\ DomainsIn(file') = DomainsIn(file)
        /\ \E u \in UserLine : UserLinesIn(file') \in {UserLinesIn(file), UserLinesIn(file) \ {u}}
    BY <1>4, <2>1
  <2> QED BY <1>2, <2>2
<1> QED BY <1>5, <1>6

\* The invariant holds before the first call.
LEMMA HostsInitInv == HostsInit => HostsInv
<1> SUFFICES ASSUME HostsInit PROVE HostsInv
  OBVIOUS
<1>1. file \in Seq(Line) /\ Tidy(file)
  BY FirstFile DEF HostsInit
<1> QED BY <1>1, NoFile DEF HostsInit, HostsInv, HostsTypeOK, Careful

\* Every step keeps the invariant.
LEMMA HostsStep == HostsInv /\ [HostsNext]_hostsVars => HostsInv'
<1> SUFFICES ASSUME HostsInv, [HostsNext]_hostsVars PROVE HostsInv'
  OBVIOUS
<1>1. CASE \E M \in SUBSET Domain : UpdateHosts(M)
  BY <1>1, UpdateHostsKeeps
<1>2. CASE RemoveByTag
  BY <1>2, RemoveByTagKeeps
<1>3. CASE ResetFile
  BY <1>3, NoFile, Rewritten DEF ResetFile
<1>4. CASE OpenForWrite \/ OpenFails \/ FinishWrite \/ WriteFails \/ Dies
  BY <1>4, WriteKeeps
<1>5. CASE \/ \E u \in UserLine, i \in 0..Len(file) : UserInserts(u, i)
           \/ \E i \in DOMAIN file : UserDeletes(i)
  BY <1>5, EditKeeps
<1>6. CASE UNCHANGED hostsVars
  BY <1>6 DEF hostsVars, HostsInv, HostsTypeOK, Careful
<1> QED BY <1>1, <1>2, <1>3, <1>4, <1>5, <1>6 DEF HostsNext

\* The invariant holds throughout.
LEMMA HostsInvariant == HostsSpec => []HostsInv
  BY HostsInitInv, HostsStep, PTL DEF HostsSpec

\* Whatever the user wrote, whatever was managed before and whatever failed: an
\* update of an updated file and a second removal change nothing, and a removal
\* leaves only lines of the user. (update_hosts_at, remove_hosts_at)
THEOREM EditorNeverPilesUp == HostsSpec => []NothingPilesUp
<1>1. ASSUME NEW ls \in Seq(Line), Tidy(ls)
      PROVE  /\ \A M \in SUBSET Domain : Updated(Updated(ls, M), M) = Updated(ls, M)
             /\ Removed(Removed(ls)) = Removed(ls)
             /\ Range(Removed(ls)) \subseteq {Blank} \cup {User(u) : u \in UserLine}
  <2>1. \A M \in SUBSET Domain : Updated(Updated(ls, M), M) = Updated(ls, M)
    BY <1>1, UpdateAgain
  <2>2. Removed(Removed(ls)) = Removed(ls)
    BY <1>1, RemoveAgain
  <2>3. Range(Removed(ls)) \subseteq {Blank} \cup Own
    BY <1>1, RemovedFile
  <2> QED BY <2>1, <2>2, <2>3, Zenon DEF Own
<1>2. HostsInv => NothingPilesUp
  <2> SUFFICES ASSUME HostsInv PROVE NothingPilesUp
    OBVIOUS
  <2>1. HostsTypeOK /\ file \in Seq(Line) /\ Tidy(file)
    BY DEF HostsInv, HostsTypeOK
  <2> QED BY <1>1, <2>1, Zenon DEF NothingPilesUp
<1> QED BY <1>2, HostsInvariant, PTL

\* In the file an update writes, the first line that maps a managed name is the
\* entry of the block, for any lines of the user. (update_hosts_at)
THEOREM EditorDecides == HostsSpec => []EntriesDecide
<1>1. HostsInv => EntriesDecide
  <2> SUFFICES ASSUME HostsInv PROVE EntriesDecide
    OBVIOUS
  <2>1. file \in Seq(Line)
    BY DEF HostsInv, HostsTypeOK
  <2> QED BY <2>1, Decides, Zenon DEF EntriesDecide
<1> QED BY <1>1, HostsInvariant, PTL

\* The editor implements the contract of HostsContract: no sequence of updates,
\* removals and edits loses a line of the user or adds a name nobody asked for.
\* Only a death in the write, a write that fails behind its truncation and a
\* file that cannot be read do, and then as the contract says. (hosts.rs)
THEOREM EditorKeepsContract == HostsSpec => UserLinesKept
<1>1. HostsInit => Contract!Init
  <2> SUFFICES ASSUME HostsInit PROVE Contract!Init
    OBVIOUS
  <2>1. DomainsIn(file) = {} /\ pc = "idle"
    BY FirstFile DEF HostsInit
  <2> QED BY <2>1 DEF Contract!Init, Settled, UserLinesIn
<1>2. HostsInv /\ [HostsNext]_hostsVars =>
        [Contract!Next]_<<UserLinesIn(Settled), DomainsIn(Settled), Contract!faults>>
  <2> SUFFICES ASSUME HostsInv, [HostsNext]_hostsVars
               PROVE  [Contract!Next]_<<UserLinesIn(Settled), DomainsIn(Settled), Contract!faults>>
    OBVIOUS
  <2>1. ASSUME Settled' = Settled, mishaps' = mishaps
        PROVE  UNCHANGED <<UserLinesIn(Settled), DomainsIn(Settled), Contract!faults>>
    BY <2>1 DEF UserLinesIn, DomainsIn, Contract!faults
  <2>2. ASSUME NEW t, Rewrite(t)
        PROVE  Settled' = Settled /\ mishaps' = mishaps
    BY <2>2 DEF Rewrite, Settled
  <2>3. CASE (\E M \in SUBSET Domain : UpdateHosts(M)) \/ RemoveByTag \/ ResetFile
    BY <2>1, <2>2, <2>3 DEF UpdateHosts, RemoveByTag, ResetFile
  <2>4. CASE OpenFails \/ FinishWrite \/ UNCHANGED hostsVars
    <3>1. Settled' = Settled /\ mishaps' = mishaps
      BY <2>4 DEF OpenFails, FinishWrite, hostsVars, Settled
    <3> QED BY <2>1, <3>1
  <2>5. CASE OpenForWrite
    <3>1. Settled = file /\ Settled' = text /\ mishaps' = mishaps
      BY <2>5 DEF OpenForWrite, Settled
    <3>2. /\ UserLinesIn(Settled)' = UserLinesIn(text) /\ DomainsIn(Settled)' = DomainsIn(text)
          /\ UNCHANGED Contract!faults
      BY <3>1 DEF UserLinesIn, DomainsIn, Contract!faults
    <3>3. DomainsIn(text) \in SUBSET Domain
      BY DEF DomainsIn
    <3>4. CASE UserLinesIn(text) = UserLinesIn(file)
      <4>1. Contract!Install(DomainsIn(text))
        BY <3>1, <3>2, <3>4 DEF Contract!Install
      <4> QED BY <3>3, <4>1 DEF Contract!Next
    <3>5. CASE text = <<>>
      <4>1. Contract!Reset
        BY <3>2, <3>5, NoFile DEF Contract!Reset
      <4> QED BY <4>1 DEF Contract!Next
    <3>6. CASE "read" \in mishaps /\ UserLinesIn(text) = {}
      <4>1. Contract!Overwrite(DomainsIn(text))
        BY <3>2, <3>6 DEF Contract!Overwrite
      <4> QED BY <3>3, <4>1 DEF Contract!Next
    <3> QED BY <2>5, <3>4, <3>5, <3>6 DEF OpenForWrite, HostsInv, Careful
  <2>6. CASE WriteFails \/ Dies
    <3>1. CASE pc = "write"
      <4>1. PICK n \in 0..Len(text) : file' = SubSeq(text, 1, n)
        BY <2>6, <3>1 DEF WriteFails, Dies, CutShort
      <4>2. /\ Settled = text /\ Settled' = file' /\ mishaps' = mishaps
            /\ mishaps \cap {"kill", "write"} # {}
        BY <2>6, <3>1 DEF WriteFails, Dies, Settled
      <4>3. UserLinesIn(file') \subseteq UserLinesIn(text) /\ DomainsIn(file') \subseteq DomainsIn(text)
        BY <4>1, CutOffFile DEF HostsInv, HostsTypeOK
      <4>4. Contract!CutOff
        <5>1. /\ UserLinesIn(Settled)' = UserLinesIn(file') /\ DomainsIn(Settled)' = DomainsIn(file')
              /\ UNCHANGED Contract!faults
          BY <4>2 DEF UserLinesIn, DomainsIn, Contract!faults
        <5> QED BY <4>2, <4>3, <5>1 DEF Contract!CutOff
      <4> QED BY <4>4 DEF Contract!Next
    <3>2. CASE pc # "write"
      <4>1. Settled' = Settled /\ mishaps' = mishaps
        BY <2>6, <3>2 DEF WriteFails, Dies, Settled
      <4> QED BY <2>1, <4>1
    <3> QED BY <3>1, <3>2
  <2>7. CASE \/ \E u \in UserLine, i \in 0..Len(file) : UserInserts(u, i)
             \/ \E i \in DOMAIN file : UserDeletes(i)
    <3>1. /\ UNCHANGED <<pc, text, mishaps>> /\ pc = "idle"
          /\ DomainsIn(file') = DomainsIn(file)
          /\ \E u \in UserLine :
                UserLinesIn(file') \in {UserLinesIn(file), UserLinesIn(file) \cup {u}, UserLinesIn(file) \ {u}}
      BY <2>7, EditKeeps
    <3>2. Settled = file /\ Settled' = file'
      BY <3>1 DEF Settled
    <3>3. /\ UserLinesIn(Settled)' = UserLinesIn(file') /\ DomainsIn(Settled)' = DomainsIn(file')
          /\ UNCHANGED Contract!faults
      BY <3>1, <3>2 DEF UserLinesIn, DomainsIn, Contract!faults
    <3>4. CASE UserLinesIn(file') = UserLinesIn(file)
      <4>1. UNCHANGED <<UserLinesIn(Settled), DomainsIn(Settled), Contract!faults>>
        BY <3>1, <3>2, <3>3, <3>4
      <4> QED BY <4>1
    <3>5. CASE UserLinesIn(file') # UserLinesIn(file)
      <4>1. PICK u \in UserLine :
                UserLinesIn(file') \in {UserLinesIn(file) \cup {u}, UserLinesIn(file) \ {u}}
        BY <3>1, <3>5
      <4>2. Contract!Edit(u)
        BY <3>1, <3>2, <3>3, <4>1 DEF Contract!Edit
      <4> QED BY <4>2 DEF Contract!Next
    <3> QED BY <3>4, <3>5
  <2> QED BY <2>3, <2>4, <2>5, <2>6, <2>7 DEF HostsNext
<1> QED BY <1>1, <1>2, HostsInvariant, PTL DEF HostsSpec, UserLinesKept, Contract!Spec

(***************************************************************************)
(* The selection of the user.                                              *)
(***************************************************************************)
USE DEF Node, Tri

(***************************************************************************)
(* The states of containers and groups.                                    *)
(***************************************************************************)
\* A container's or group's derived state is a three-state value.
LEMMA DerivedType ==
    ASSUME NEW n \in Node, NEW on \in SUBSET Leaf
    PROVE  Derived(n, on) \in Tri
  BY DEF Derived

\* recompute gives every container and group a three-state value.
LEMMA RecomputedType ==
    ASSUME NEW on \in SUBSET Leaf
    PROVE  Recomputed(on) \in [Node -> Tri]
  BY DerivedType DEF Recomputed

\* restore_enable does so too, if the groups had one.
LEMMA RestoredType ==
    ASSUME NEW groups, \A g \in Group : groups[g] \in Tri,
           NEW on \in SUBSET Leaf
    PROVE  Restored(groups, on) \in [Node -> Tri]
  BY DerivedType DEF Restored

\* recompute and restore_enable derive the containers from the leaves.
LEMMA ContainersDerived ==
    ASSUME NEW groups, NEW on \in SUBSET Leaf, NEW c \in Container
    PROVE  /\ Recomputed(on)[c] = Derived(c, on)
           /\ Restored(groups, on)[c] = Derived(c, on)
  BY TreeAssumption DEF Recomputed, Restored

(***************************************************************************)
(* TreeTypeOK and CopiesAgree.                                             *)
(***************************************************************************)
Agreement == TreeTypeOK /\ CopiesAgree

\* Whatever selection is made, Select keeps both copies the same.
LEMMA SelectAgreement ==
    ASSUME Agreement, NEW on \in SUBSET Leaf, Select(on)
    PROVE  Agreement'
  <1>1. \A g \in Group : svcNode[g] \in Tri
    BY DEF Agreement, TreeTypeOK
  <1>2. Restored(svcNode, on) \in [Node -> Tri] /\ Recomputed(on) \in [Node -> Tri]
    BY <1>1, RestoredType, RecomputedType
  <1>3. TreeTypeOK'
    BY <1>2 DEF Agreement, TreeTypeOK, Select, settingsFile, launched
  <1>4. CopiesAgree'
    BY ContainersDerived DEF CopiesAgree, Select
  <1> QED BY <1>3, <1>4 DEF Agreement

\* Launch restores the saved selection in both copies.
LEMMA LaunchAgreement ==
    ASSUME Agreement, NEW manifest \in [Group -> Tri], Launch(manifest)
    PROVE  Agreement'
  <1>1. Loaded \in SUBSET Leaf
    BY DEF Agreement, TreeTypeOK, Loaded
  <1>2. Restored(manifest, Loaded) \in [Node -> Tri]
    BY <1>1, RestoredType
  <1>3. TreeTypeOK'
    BY <1>1, <1>2 DEF Agreement, TreeTypeOK, Launch, settingsFile, launched
  <1>4. CopiesAgree'
    BY <1>1, ContainersDerived DEF CopiesAgree, Launch
  <1> QED BY <1>3, <1>4 DEF Agreement

\* The inductive step.
LEMMA AgreementStep ==
    Agreement /\ [TreeNext]_treeVars => Agreement'
  <1> SUFFICES ASSUME Agreement, [TreeNext]_treeVars PROVE Agreement'
    OBVIOUS
  <1>1. ASSUME NEW manifest \in [Group -> Tri], Launch(manifest) PROVE Agreement'
    BY <1>1, LaunchAgreement
  <1>2. ASSUME NEW l \in Leaf, NEW on \in BOOLEAN, CheckLeaf(l, on) PROVE Agreement'
    <2> DEFINE sel == IF on THEN leafOn \cup {l} ELSE leafOn \ {l}
    <2>1. sel \in SUBSET Leaf
      BY DEF Agreement, TreeTypeOK
    <2> QED BY <1>2, <2>1, SelectAgreement DEF CheckLeaf
  <1>3. ASSUME NEW g \in Group, NEW on \in BOOLEAN, CheckGroup(g, on) PROVE Agreement'
    <2> DEFINE sel == IF on THEN leafOn \cup Under[g] ELSE leafOn \ Under[g]
    <2>1. sel \in SUBSET Leaf
      BY TreeAssumption DEF Agreement, TreeTypeOK
    <2> QED BY <1>3, <2>1, SelectAgreement DEF CheckGroup
  <1>4. CASE StartAccel
    BY <1>4 DEF Agreement, TreeTypeOK, CopiesAgree, StartAccel, Save, Enabled, tree, settingsFile, launched, Derived
  <1>5. CASE StopAccel
    BY <1>5 DEF Agreement, TreeTypeOK, CopiesAgree, StopAccel, tree, settingsFile, launched, Derived
  <1>6. CASE SaveSettings
    BY <1>6 DEF Agreement, TreeTypeOK, CopiesAgree, SaveSettings, Save, tree, settingsFile, launched, Derived
  <1>7. CASE Quit
    BY <1>7 DEF Agreement, TreeTypeOK, CopiesAgree, Quit, tree, settingsFile, launched, Derived
  <1>8. CASE UNCHANGED treeVars
    BY <1>8 DEF Agreement, TreeTypeOK, CopiesAgree, treeVars, tree, settingsFile, launched, Derived
  <1> QED BY <1>1, <1>2, <1>3, <1>4, <1>5, <1>6, <1>7, <1>8 DEF TreeNext

\* Initially nothing is selected.
LEMMA AgreementInit == TreeInit => Agreement
  <1> SUFFICES ASSUME TreeInit PROVE Agreement
    OBVIOUS
  <1>1. Recomputed({}) \in [Node -> Tri]
    BY RecomputedType
  <1>2. \A c \in Container : Recomputed({})[c] = Derived(c, {})
    BY DEF Recomputed
  <1> QED BY <1>1, <1>2 DEF TreeInit, Agreement, TreeTypeOK, CopiesAgree

\* The state always has its type, and the tree of the user interface and that
\* of the AccelerateService always show the same selection.
THEOREM TreesAgree == TreeSpec => [](TreeTypeOK /\ CopiesAgree)
  BY AgreementInit, AgreementStep, PTL DEF TreeSpec, Agreement

(***************************************************************************)
(* SelectionSurvives.                                                      *)
(***************************************************************************)
\* What is in memory and what is on the disk is the selection of the last
\* start; before the first launch of the process nothing is in memory.
Persisted ==
    /\ ~broken
    /\ disk = chosen
    /\ up => listed = chosen

NothingFails == failures = {}

\* The inductive step, when nothing fails.
LEMMA PersistedStep ==
    (NothingFails => Persisted) /\ [TreeNext]_treeVars => (NothingFails => Persisted)'
  <1> SUFFICES ASSUME NothingFails => Persisted, [TreeNext]_treeVars, NothingFails'
               PROVE  Persisted'
    OBVIOUS
  <1>0. failures = {} /\ Persisted
    <2>1. failures' = failures
      BY DEF TreeNext, Launch, CheckLeaf, CheckGroup, Select, StartAccel, StopAccel,
             SaveSettings, Quit, treeVars, launched
    <2> QED BY <2>1 DEF NothingFails
  <1> USE <1>0
  <1>1. ASSUME NEW manifest \in [Group -> Tri], Launch(manifest) PROVE Persisted'
    BY <1>1 DEF Persisted, Launch, Loaded, settingsFile
  <1>2. ASSUME NEW l \in Leaf, NEW on \in BOOLEAN, CheckLeaf(l, on) PROVE Persisted'
    BY <1>2 DEF Persisted, CheckLeaf, Select, settingsFile
  <1>3. ASSUME NEW g \in Group, NEW on \in BOOLEAN, CheckGroup(g, on) PROVE Persisted'
    BY <1>3 DEF Persisted, CheckGroup, Select, settingsFile
  <1>4. CASE StartAccel
    BY <1>4 DEF Persisted, StartAccel, Save
  <1>5. CASE StopAccel
    BY <1>5 DEF Persisted, StopAccel, settingsFile
  <1>6. CASE SaveSettings
    BY <1>6 DEF Persisted, SaveSettings, Save
  <1>7. CASE Quit
    BY <1>7 DEF Persisted, Quit, settingsFile
  <1>8. CASE UNCHANGED treeVars
    BY <1>8 DEF Persisted, treeVars, settingsFile
  <1> QED BY <1>1, <1>2, <1>3, <1>4, <1>5, <1>6, <1>7, <1>8 DEF TreeNext

\* When every write succeeds, what the next launch loads is the selection of
\* the last start.
THEOREM SelectionKept == TreeSpec => []SelectionSurvives
  <1>1. TreeInit => (NothingFails => Persisted)
    BY DEF TreeInit, Persisted
  <1>2. (NothingFails => Persisted) => SelectionSurvives
    BY DEF NothingFails, Persisted, SelectionSurvives, Loaded
  <1> QED BY <1>1, <1>2, PersistedStep, PTL DEF TreeSpec

(***************************************************************************)
(* ClicksDecide.                                                           *)
(***************************************************************************)
\* The state of a group is the manifest's until the first click since the
\* launch, and from then on the one that follows from its leaves.
GroupsFollow ==
    up => \A g \in Group : node[g] = IF clicked THEN Derived(g, leafOn) ELSE given[g]

\* A click derives every group from the new selection.
LEMMA SelectFollows ==
    ASSUME NEW on \in SUBSET Leaf, Select(on)
    PROVE  GroupsFollow'
  <1>1. \A g \in Group : Recomputed(on)[g] = Derived(g, on)
    BY DEF Recomputed
  <1>2. \A g \in Group : Derived(g, leafOn)' = Derived(g, on)
    BY DEF Select, Derived
  <1> QED BY <1>1, <1>2 DEF GroupsFollow, Select

\* What follows from the leaves stays while they do.
LEMMA FollowKept ==
    ASSUME GroupsFollow, UNCHANGED <<up, tree, launched>>
    PROVE  GroupsFollow'
  <1>1. leafOn' = leafOn /\ node' = node /\ given' = given /\ clicked' = clicked /\ up' = up
    BY DEF tree, launched
  <1>2. \A g \in Group : Derived(g, leafOn)' = Derived(g, leafOn)
    BY <1>1 DEF Derived
  <1> QED BY <1>1, <1>2 DEF GroupsFollow

\* The inductive step, for any state a manifest gives its groups.
LEMMA GroupsFollowStep ==
    TreeTypeOK /\ GroupsFollow /\ [TreeNext]_treeVars => GroupsFollow'
  <1> SUFFICES ASSUME TreeTypeOK, GroupsFollow, [TreeNext]_treeVars PROVE GroupsFollow'
    OBVIOUS
  <1>1. ASSUME NEW manifest \in [Group -> Tri], Launch(manifest) PROVE GroupsFollow'
    BY <1>1 DEF GroupsFollow, Launch, Restored
  <1>2. ASSUME NEW l \in Leaf, NEW on \in BOOLEAN, CheckLeaf(l, on) PROVE GroupsFollow'
    <2> DEFINE sel == IF on THEN leafOn \cup {l} ELSE leafOn \ {l}
    <2>1. sel \in SUBSET Leaf
      BY DEF TreeTypeOK
    <2> QED BY <1>2, <2>1, SelectFollows DEF CheckLeaf
  <1>3. ASSUME NEW g \in Group, NEW on \in BOOLEAN, CheckGroup(g, on) PROVE GroupsFollow'
    <2> DEFINE sel == IF on THEN leafOn \cup Under[g] ELSE leafOn \ Under[g]
    <2>1. sel \in SUBSET Leaf
      BY TreeAssumption DEF TreeTypeOK
    <2> QED BY <1>3, <2>1, SelectFollows DEF CheckGroup
  <1>4. CASE StartAccel
    BY <1>4, FollowKept DEF StartAccel
  <1>5. CASE StopAccel
    BY <1>5, FollowKept DEF StopAccel
  <1>6. CASE SaveSettings
    BY <1>6, FollowKept DEF SaveSettings
  <1>7. CASE Quit
    BY <1>7 DEF GroupsFollow, Quit
  <1>8. CASE UNCHANGED treeVars
    BY <1>8, FollowKept DEF treeVars
  <1> QED BY <1>1, <1>2, <1>3, <1>4, <1>5, <1>6, <1>7, <1>8 DEF TreeNext

\* A leaf belongs to one group alone, so start() takes of a group the leaves
\* that are on, if the state of the group is "on", and else none.
LEMMA StartTakes ==
    ASSUME TreeTypeOK, StartAccel, NEW g \in Group
    PROVE  proxied' \cap Under[g] = IF node[g] = "on" THEN Under[g] \cap leafOn ELSE {}
  <1>1. ASSUME NEW l \in Under[g]
        PROVE  l \in Leaf /\ GroupOf(l) = g
    <2>1. l \in Leaf
      BY TreeAssumption
    <2>2. GroupOf(l) \in Group /\ l \in Under[GroupOf(l)]
      BY DEF GroupOf
    <2> QED BY TreeAssumption, <2>1, <2>2
  <1> QED BY <1>1 DEF StartAccel, Enabled

\* The derived state is "on" where the box is ticked.
LEMMA TickedOn ==
    ASSUME NEW g \in Group
    PROVE  (Derived(g, leafOn) = "on") <=> GroupEnabled(g)
  <1>1. CASE Under[g] \cap leafOn = {}
    <2>1. Derived(g, leafOn) = "off"
      BY <1>1 DEF Derived
    <2>2. ~GroupEnabled(g)
      BY <1>1 DEF GroupEnabled
    <2> QED BY <2>1, <2>2
  <1>2. CASE Under[g] \cap leafOn # {} /\ Under[g] \subseteq leafOn
    <2>1. Derived(g, leafOn) = "on"
      BY <1>2 DEF Derived
    <2>2. GroupEnabled(g)
      BY <1>2 DEF GroupEnabled
    <2> QED BY <2>1, <2>2
  <1>3. CASE Under[g] \cap leafOn # {} /\ ~(Under[g] \subseteq leafOn)
    <2>1. Derived(g, leafOn) = "mixed"
      BY <1>3 DEF Derived
    <2>2. ~GroupEnabled(g)
      BY <1>3 DEF GroupEnabled
    <2> QED BY <2>1, <2>2
  <1> QED BY <1>1, <1>2, <1>3

\* What a start takes of a group.
LEMMA StartDecides ==
    ASSUME TreeTypeOK, GroupsFollow, StartAccel, NEW g \in Group
    PROVE  Takes(g)
  <1>1. proxied' \cap Under[g] = IF node[g] = "on" THEN Under[g] \cap leafOn ELSE {}
    BY StartTakes
  <1>2. node[g] = IF clicked THEN Derived(g, leafOn) ELSE given[g]
    BY DEF GroupsFollow, StartAccel
  <1>3. CASE clicked
    <2>1. (node[g] = "on") <=> GroupEnabled(g)
      BY <1>2, <1>3, TickedOn
    <2>2. GroupEnabled(g) => Under[g] \cap leafOn = Under[g]
      BY DEF GroupEnabled
    <2> QED BY <1>1, <1>3, <2>1, <2>2 DEF Takes
  <1>4. CASE ~clicked
    BY <1>1, <1>2, <1>4 DEF Takes
  <1> QED BY <1>3, <1>4

\* For every tree, every manifest and every failure: after a click since the
\* launch a start proxies exactly the ticked groups; without one, the leaves that
\* are on of the groups the manifest enables. (recompute, restore_enable, start)
THEOREM GroupsProxied == TreeSpec => ClicksDecide
  <1>1. TreeInit => GroupsFollow
    BY DEF TreeInit, GroupsFollow
  <1>2. TreeTypeOK /\ GroupsFollow =>
            [StartAccel => \A g \in Group : Takes(g)]_treeVars
    BY StartDecides
  <1> QED BY <1>1, <1>2, GroupsFollowStep, TreesAgree, PTL DEF TreeSpec, ClicksDecide

-----------------------------------------------------------------------------
(* The proxy settings of Windows. *)

HIDE DEF Node, Tri
USE AddressAssumption DEF FaultKind, Server, Url, OnCall, OffCall

(***************************************************************************)
(* The types.                                                              *)
(***************************************************************************)
PlainOK == enable \in BOOLEAN /\ server \in Server /\ autoUrl \in Url
BlobOK == bManual \in BOOLEAN /\ bAuto \in BOOLEAN /\ bServer \in Server /\ bUrl \in Url

\* Plain values that a step leaves alone keep their type.
LEMMA PlainKept ==
    ASSUME PlainOK, plain' = plain
    PROVE  PlainOK'
  <1>1. enable' = enable /\ server' = server /\ autoUrl' = autoUrl
    BY Zenon DEF plain
  <1> QED BY <1>1, Zenon DEF PlainOK

\* So does the blob.
LEMMA BlobKept ==
    ASSUME BlobOK, blob' = blob
    PROVE  BlobOK'
  <1>1. bManual' = bManual /\ bAuto' = bAuto /\ bServer' = bServer /\ bUrl' = bUrl
    BY Zenon DEF blob
  <1> QED BY <1>1, Zenon DEF BlobOK

\* The state always has its type, whatever fails.
THEOREM TypeCorrect == Spec => []TypeOK
  <1>1. Init => TypeOK
    BY DEF Init, TypeOK
  <1>2. TypeOK /\ [Next]_vars => TypeOK'
    <2> SUFFICES ASSUME TypeOK, [Next]_vars PROVE TypeOK'
      OBVIOUS
    <2> USE DEF TypeOK, plain, blob
    <2>1. ASSUME NEW c \in OnCall \cup OffCall, Begin(c) PROVE TypeOK'
      <3>1. /\ PlainOK /\ BlobOK /\ plain' = plain /\ blob' = blob
            /\ mode' = mode /\ faults' = faults
        BY <2>1, Zenon DEF Begin, PlainOK, BlobOK
      <3>2. PlainOK' /\ BlobOK'
        BY <3>1, PlainKept, BlobKept
      <3>3. manual' \in BOOLEAN
        BY <2>1, Zenon DEF Begin
      <3>4. call' \in OnCall \cup OffCall \cup {"none"} /\ step' = "plain"
        BY <2>1, Zenon DEF Begin
      <3> QED BY <3>1, <3>2, <3>3, <3>4, Zenon DEF PlainOK, BlobOK
    <2>2. CASE WriteEnable
      <3>1. BlobOK /\ blob' = blob
        BY <2>2, Zenon DEF WriteEnable, BlobOK
      <3>2. BlobOK'
        BY <3>1, BlobKept
      <3>3. enable' \in BOOLEAN /\ server' = server /\ autoUrl' = autoUrl
        BY <2>2, Zenon DEF WriteEnable
      <3>4. step' \in {"server", "blob"}
        BY <2>2 DEF WriteEnable
      <3>5. /\ call' = call /\ manual' = manual
            /\ mode' = mode /\ faults' = faults
        BY <2>2, Zenon DEF WriteEnable
      <3> QED BY <3>2, <3>3, <3>4, <3>5, ZenonT(30) DEF BlobOK
    <2>3. CASE WriteServer
      <3>1. BlobOK /\ blob' = blob
        BY <2>3, Zenon DEF WriteServer, BlobOK
      <3>2. BlobOK'
        BY <3>1, BlobKept
      <3>3. enable' = enable /\ autoUrl' = autoUrl /\ server' = OurProxy
        BY <2>3, Zenon DEF WriteServer
      <3>4. /\ call' = call /\ step' = "blob" /\ manual' = manual
            /\ mode' = mode /\ faults' = faults
        BY <2>3, Zenon DEF WriteServer
      <3> QED BY <3>2, <3>3, <3>4, ZenonT(30) DEF BlobOK
    <2>4. CASE WriteUrl
      <3>1. BlobOK /\ blob' = blob
        BY <2>4, Zenon DEF WriteUrl, BlobOK
      <3>2. BlobOK'
        BY <3>1, BlobKept
      <3>3. enable' = enable /\ server' = server
        BY <2>4, Zenon DEF WriteUrl
      <3>4. autoUrl' = (IF call = "pac on" THEN OurPac ELSE None)
        BY <2>4, Zenon DEF WriteUrl
      <3>5. autoUrl' \in Url
        BY <3>4
      <3>6. /\ call' = call /\ step' = "blob" /\ manual' = manual
            /\ mode' = mode /\ faults' = faults
        BY <2>4, Zenon DEF WriteUrl
      <3> QED BY <3>2, <3>3, <3>5, <3>6, ZenonT(30) DEF BlobOK
    <2>5. CASE WriteBlob
      <3>1. ReadBack(autoUrl) \subseteq Url /\ ReadBack(server) \subseteq Server
        BY DEF ReadBack
      <3>2. /\ enable' = enable /\ server' = server /\ autoUrl' = autoUrl
            /\ faults' = faults
            /\ call' = "none" /\ step' = "plain" /\ manual' = FALSE
            /\ mode' \in {"off", "System", "Pac"}
        BY <2>5 DEF WriteBlob, Return
      <3>3. bManual' \in BOOLEAN /\ bAuto' \in BOOLEAN /\ bServer' \in Server /\ bUrl' \in Url
        <4>1. CASE call = "system on"
          BY <2>5, <3>1, <4>1 DEF WriteBlob, UpdateBlob
        <4>2. CASE call = "system off"
          BY <2>5, <3>1, <4>2 DEF WriteBlob, SetBlobFlags
        <4>3. CASE call = "pac on"
          BY <2>5, <3>1, <4>3 DEF WriteBlob, UpdateBlob
        <4>4. CASE call \notin {"system on", "system off", "pac on"}
          BY <2>5, <4>4 DEF WriteBlob, SetBlobFlags
        <4> QED BY <4>1, <4>2, <4>3, <4>4
      <3> QED BY <3>2, <3>3
    <2>6. CASE Fail
      BY <2>6 DEF Fail, Return
    <2>7. CASE Kill
      BY <2>7 DEF Kill, Return
    <2>8. ASSUME NEW on \in BOOLEAN, NEW p \in UserProxy, UserSetsProxy(on, p) PROVE TypeOK'
      BY <2>8 DEF UserSetsProxy
    <2>9. ASSUME NEW u \in UserPac \cup {None}, UserSetsPac(u) PROVE TypeOK'
      BY <2>9 DEF UserSetsPac
    <2>10. CASE UNCHANGED vars
      <3>1. PlainOK /\ BlobOK /\ plain' = plain /\ blob' = blob
        BY <2>10, Zenon DEF vars, PlainOK, BlobOK
      <3>2. PlainOK' /\ BlobOK'
        BY <3>1, PlainKept, BlobKept
      <3>3. /\ call' = call /\ step' = step /\ manual' = manual
            /\ mode' = mode /\ faults' = faults
        BY <2>10, Zenon DEF vars
      <3> QED BY <3>2, <3>3, ZenonT(30) DEF PlainOK, BlobOK
    <2> QED BY <2>1, <2>2, <2>3, <2>4, <2>5, <2>6, <2>7, <2>8, <2>9, <2>10 DEF Next, UserStep
  <1> QED BY <1>1, <1>2, PTL DEF Spec

(***************************************************************************)
(* The inductive invariant, when no call fails.                            *)
(***************************************************************************)
\* The manual proxy, and the PAC script, are the same in both copies.
ManualSync == bManual = enable /\ (bManual => bServer = server)
AutoSync == bAuto = (autoUrl # None) /\ (bAuto => bUrl = autoUrl)

OursManual == enable /\ server = OurProxy
OursAuto == autoUrl = OurPac

\* Where a call stands, and what it has not yet touched.
Progress ==
    /\ enable /\ server = None => step = "server"
    /\ step = "plain" => ManualSync /\ AutoSync
    /\ step = "server" => call = "system on" /\ enable /\ AutoSync
    /\ step = "blob" =>
        \/ call = "system on" /\ enable /\ server = OurProxy /\ AutoSync
        \/ call = "system off" /\ ~enable /\ AutoSync
        \/ call = "pac on" /\ autoUrl = OurPac /\ ManualSync
        \/ call = "pac off" /\ autoUrl = None /\ ManualSync
    /\ call = "none" => step = "plain"
    /\ call \in {"pac on", "pac off"} => manual = enable

\* Whose settings are in place.
Session ==
    /\ mode = "off" /\ call = "none" => ~OursManual /\ ~OursAuto
    /\ call = "system on" => mode = "off" /\ ~OursAuto
    /\ call = "pac on" => mode = "off" /\ ~OursManual
    /\ call = "system off" => mode = "System"
    /\ call = "pac off" => mode = "Pac"
    /\ mode = "System" => call \in {"none", "system off"} /\ ~OursAuto
    /\ mode = "Pac" => call \in {"none", "pac off"} /\ ~OursManual

Synced == TypeOK /\ Progress /\ Session

SyncInv == faults = {} => Synced

\* update_blob brings both copies into agreement.
LEMMA UpdateBlobSyncs ==
    ASSUME enable => server # None, plain' = plain,
           UpdateBlob(IF enable THEN server ELSE None, autoUrl)
    PROVE  ManualSync' /\ AutoSync'
  <1>1. enable' = enable /\ server' = server /\ autoUrl' = autoUrl
    BY DEF plain
  <1>2. AutoSync'
    BY <1>1, Zenon DEF UpdateBlob, AutoSync
  <1>3. bServer' = IF enable THEN server ELSE None
    BY Zenon DEF UpdateBlob
  <1>4. bManual' <=> enable
    BY <1>3, Zenon DEF UpdateBlob
  <1>5. ManualSync'
    BY <1>1, <1>3, <1>4 DEF ManualSync
  <1> QED BY <1>2, <1>5

\* The last write of a call.
LEMMA WriteBlobSyncs ==
    ASSUME faults = {}, Synced, WriteBlob
    PROVE  Progress' /\ Session'
  <1> USE DEF Synced, plain, blob
  <1>1. /\ enable' = enable /\ server' = server /\ autoUrl' = autoUrl
        /\ call' = "none" /\ step' = "plain" /\ step = "blob"
        /\ mode' = CASE call = "system on" -> "System"
                     [] call = "pac on"    -> "Pac"
                     [] OTHER              -> "off"
    BY DEF WriteBlob, Return
  <1>2. enable => server # None
    BY <1>1 DEF Progress
  <1>3. ReadBack(autoUrl) = {autoUrl} /\ ReadBack(server) = {server}
    BY DEF ReadBack
  <1>4. CASE call = "system on"
    <2>1. UpdateBlob(OurProxy, autoUrl)
      BY <1>3, <1>4 DEF WriteBlob
    <2>2. ManualSync' /\ AutoSync'
      BY <1>1, <1>4, <2>1, UpdateBlobSyncs DEF Progress
    <2> QED BY <1>1, <1>2, <1>4, <2>2 DEF Progress, Session, OursManual, OursAuto
  <1>5. CASE call = "system off"
    <2>1. SetBlobFlags(FALSE, autoUrl # None)
      BY <1>3, <1>5 DEF WriteBlob
    <2>2. ~enable /\ AutoSync
      BY <1>1, <1>5 DEF Progress
    <2>3. bManual' = FALSE /\ bAuto' = (autoUrl # None) /\ bUrl' = bUrl
      BY <2>1, Zenon DEF SetBlobFlags
    <2>4. ManualSync'
      <3>1. enable \in BOOLEAN
        BY DEF TypeOK
      <3> QED BY <1>1, <2>2, <2>3, <3>1 DEF ManualSync
    <2>5. AutoSync'
      BY <1>1, <2>2, <2>3, Zenon DEF AutoSync
    <2> QED BY <1>1, <1>2, <1>5, <2>2, <2>4, <2>5 DEF Progress, Session, OursManual, OursAuto
  <1>6. CASE call = "pac on"
    <2>1. UpdateBlob(IF manual THEN server ELSE None, OurPac)
      BY <1>3, <1>6 DEF WriteBlob
    <2>2. manual = enable /\ autoUrl = OurPac
      BY <1>1, <1>6 DEF Progress
    <2>3. ManualSync' /\ AutoSync'
      BY <1>1, <1>2, <2>1, <2>2, UpdateBlobSyncs
    <2> QED BY <1>1, <1>2, <1>6, <2>2, <2>3 DEF Progress, Session, OursManual, OursAuto
  <1>7. CASE call = "pac off"
    <2>1. SetBlobFlags(manual, FALSE)
      BY <1>7 DEF WriteBlob
    <2>2. autoUrl = None /\ ManualSync /\ manual = enable
      BY <1>1, <1>7 DEF Progress
    <2>3. bManual' = manual /\ bAuto' = FALSE /\ bServer' = bServer
      BY <2>1, Zenon DEF SetBlobFlags
    <2>4. ManualSync'
      BY <1>1, <2>2, <2>3, Zenon DEF ManualSync
    <2>5. AutoSync'
      BY <1>1, <2>2, <2>3 DEF AutoSync
    <2> QED BY <1>1, <1>2, <1>7, <2>2, <2>4, <2>5 DEF Progress, Session, OursManual, OursAuto
  <1> QED BY <1>1, <1>4, <1>5, <1>6, <1>7 DEF Progress

\* The inductive step.
LEMMA SyncStep == TypeOK' /\ SyncInv /\ [Next]_vars => SyncInv'
  <1> SUFFICES ASSUME TypeOK', SyncInv, [Next]_vars, faults' = {} PROVE Progress' /\ Session'
    BY DEF SyncInv, Synced
  <1>0. faults = {} /\ Synced
    <2>1. faults' = faults
      BY DEF Next, UserStep, Begin, WriteEnable, WriteServer, WriteUrl, WriteBlob, Fail, Kill,
             Return, UserSetsProxy, UserSetsPac, vars
    <2> QED BY <2>1 DEF SyncInv
  <1> USE <1>0 DEF Synced, TypeOK, plain, blob
  <1>1. ASSUME NEW c \in OnCall \cup OffCall, Begin(c) PROVE Progress' /\ Session'
    BY <1>1 DEF Begin, Progress, Session, ManualSync, AutoSync, OursManual, OursAuto
  <1>2. CASE WriteEnable
    BY <1>2 DEF WriteEnable, Progress, Session, ManualSync, AutoSync, OursManual, OursAuto
  <1>3. CASE WriteServer
    BY <1>3 DEF WriteServer, Progress, Session, ManualSync, AutoSync, OursManual, OursAuto
  <1>4. CASE WriteUrl
    BY <1>4 DEF WriteUrl, Progress, Session, ManualSync, AutoSync, OursManual, OursAuto
  <1>5. CASE WriteBlob
    BY <1>5, WriteBlobSyncs
  <1>6. CASE Fail
    BY <1>6 DEF Fail
  <1>7. CASE Kill
    BY <1>7 DEF Kill
  <1>8. ASSUME NEW on \in BOOLEAN, NEW p \in UserProxy, UserSetsProxy(on, p)
        PROVE  Progress' /\ Session'
    BY <1>8 DEF UserSetsProxy, Progress, Session, ManualSync, AutoSync, OursManual, OursAuto
  <1>9. ASSUME NEW u \in UserPac \cup {None}, UserSetsPac(u) PROVE Progress' /\ Session'
    BY <1>9 DEF UserSetsPac, Progress, Session, ManualSync, AutoSync, OursManual, OursAuto
  <1>10. CASE UNCHANGED vars
    BY <1>10 DEF vars, Progress, Session, ManualSync, AutoSync, OursManual, OursAuto
  <1> QED BY <1>1, <1>2, <1>3, <1>4, <1>5, <1>6, <1>7, <1>8, <1>9, <1>10 DEF Next, UserStep

\* When no call fails and the process is not killed, the blob says what the
\* plain values say whenever no call is in progress, and a stopped accelerator
\* directs no browser to itself.
THEOREM SessionsLeaveNoTrace == Spec => [](BlobInSync /\ StoppedDirectsNobody)
  <1>1. Init => SyncInv
    BY DEF Init, SyncInv, Synced, TypeOK, Progress, Session, ManualSync, AutoSync, OursManual, OursAuto
  <1>2. TypeOK' /\ SyncInv /\ [Next]_vars => SyncInv'
    BY SyncStep
  <1>3. SyncInv => BlobInSync /\ StoppedDirectsNobody
    <2> SUFFICES ASSUME Synced, call = "none"
                 PROVE  BlobInSync /\ StoppedDirectsNobody
      BY DEF SyncInv, BlobInSync, StoppedDirectsNobody
    <2>1. ManualSync /\ AutoSync
      BY DEF Synced, Progress
    <2>2. BlobInSync
      BY <2>1, Zenon DEF BlobInSync, ManualSync, AutoSync
    <2>3. mode = "off" => ~OursManual /\ ~OursAuto
      BY DEF Synced, Session
    <2>4. bManual /\ bServer = OurProxy => OursManual
      BY <2>1, Zenon DEF ManualSync, OursManual
    <2>5. bAuto /\ bUrl = OurPac => OursAuto
      BY <2>1, Zenon DEF AutoSync, OursAuto
    <2>6. StoppedDirectsNobody
      BY <2>3, <2>4, <2>5, Zenon DEF StoppedDirectsNobody, OursManual, OursAuto
    <2> QED BY <2>2, <2>6
  <1> QED BY <1>1, <1>2, <1>3, TypeCorrect, PTL DEF Spec

\* While nothing fails, the proxy or the PAC script browsers read is the one the
\* plain values name, whenever no call is in progress.
THEOREM CopiesInSync == Spec => []BlobInSync
  <1>1. BlobInSync /\ StoppedDirectsNobody => BlobInSync
    OBVIOUS
  <1> QED BY <1>1, SessionsLeaveNoTrace, PTL

(***************************************************************************)
(* The disabling calls, whatever fails.                                    *)
(***************************************************************************)
\* A disabling call that comes to the blob has withdrawn the plain value; only
\* an enabling one writes the server.
PlainWithdrawn ==
    /\ step = "server" => call = "system on"
    /\ step = "blob" /\ call = "system off" => enable = FALSE
    /\ step = "blob" /\ call = "pac off" => autoUrl = None

\* Every step keeps it.
\* Every step keeps it.
LEMMA PlainWithdrawnStep == PlainWithdrawn /\ [Next]_vars => PlainWithdrawn'
  <1> SUFFICES ASSUME PlainWithdrawn, [Next]_vars PROVE PlainWithdrawn'
    OBVIOUS
  <1> USE DEF PlainWithdrawn
  <1>1. CASE WriteEnable
    BY <1>1 DEF WriteEnable
  <1>2. CASE WriteServer
    BY <1>2 DEF WriteServer
  <1>3. CASE WriteUrl
    BY <1>3 DEF WriteUrl
  <1>4. CASE UserStep
    BY <1>4 DEF UserStep, UserSetsProxy, UserSetsPac
  <1>5. CASE UNCHANGED vars
    BY <1>5 DEF vars, plain
  <1>6. ASSUME step' = "plain" PROVE PlainWithdrawn'
    BY <1>6
  <1> QED BY <1>1, <1>2, <1>3, <1>4, <1>5, <1>6 DEF Next, Begin, WriteBlob, Fail, Kill, Return

\* A disabling call that gets to its end withdraws its mode from the plain
\* values and from the blob, after any failure or kill of an earlier call.
THEOREM DisablingWithdraws == Spec => OffWithdraws
  <1> DEFINE Ends == call \in OffCall /\ step = "blob" /\ call' = "none" /\ blob' # blob
             Gone == IF call = "system off" THEN ~bManual' /\ ~enable'
                                            ELSE ~bAuto' /\ autoUrl' = None
  <1>1. Init => PlainWithdrawn
    BY DEF Init, PlainWithdrawn
  <1>2. PlainWithdrawn /\ [Next]_vars => [Ends => Gone]_vars
    <2> SUFFICES ASSUME PlainWithdrawn, [Next]_vars, Ends PROVE Gone
      OBVIOUS
    <2>1. WriteBlob
      BY DEF Next, Begin, WriteEnable, WriteServer, WriteUrl, Fail, Kill, UserStep, UserSetsProxy,
             UserSetsPac, vars
    <2>2. enable' = enable /\ autoUrl' = autoUrl
      BY <2>1 DEF WriteBlob, plain
    <2>3. CASE call = "system off"
      <3>1. bManual' = FALSE
        BY <2>1, <2>3 DEF WriteBlob, SetBlobFlags
      <3>2. enable = FALSE
        BY <2>3 DEF PlainWithdrawn
      <3> QED BY <2>2, <2>3, <3>1, <3>2
    <2>4. CASE call = "pac off"
      <3>1. bAuto' = FALSE
        BY <2>1, <2>4 DEF WriteBlob, SetBlobFlags
      <3>2. autoUrl = None
        BY <2>4 DEF PlainWithdrawn
      <3> QED BY <2>2, <2>4, <3>1, <3>2
    <2> QED BY <2>3, <2>4
  <1> QED BY <1>1, <1>2, PlainWithdrawnStep, PTL DEF Spec, OffWithdraws
=============================================================================
