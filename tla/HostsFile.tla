------------------------------ MODULE HostsFile ------------------------------
(***************************************************************************)
(* The hosts file and its editor, core/src/hosts.rs.                       *)
(*                                                                         *)
(* The file is a sequence of lines.  update_hosts and remove_by_tag read   *)
(* it, sort its lines into those of the main part and those of the backup  *)
(* block, throw the lines of the managed block away, and write the whole   *)
(* file again with std::fs::write, which truncates it first.  Between the  *)
(* read and the write the process can die; the write can be refused before *)
(* it truncates the file and can fail behind the truncation, when the disk *)
(* is full.  A line cut in the middle counts as lost.                      *)
(***************************************************************************)
EXTENDS Naturals, Sequences, SequencesExt

CONSTANTS
    Domain,     \* names a hosts line can map
    UserLine,   \* the lines the user may write
    DomainsOf,  \* the names each of them maps; {} for a comment
    MaxLines,   \* bound: user lines in the file at a time
    MaxLength,  \* bound: the user does not add to a longer file
    Faults      \* the failures a run considers

ASSUME DomainsAssumption == IsFiniteSet(Domain) /\ DomainsOf \in [UserLine -> SUBSET Domain]
ASSUME BoundsAssumption == MaxLines \in Nat /\ MaxLength \in Nat

\* "open": the file cannot be opened for writing (no rights, another program
\* holds it); "read": it cannot be read; "write": a write fails behind its
\* truncation (no space left, an I/O error); "kill": the process dies.
ASSUME FaultsAssumption == Faults \subseteq {"open", "read", "write", "kill"}

Mark(m) == [kind |-> m]
Entry(d) == [kind |-> "entry", domain |-> d]
User(u) == [kind |-> "user", id |-> u]
Start == Mark("start")
End == Mark("end")
BackupStart == Mark("backup start")
BackupEnd == Mark("backup end")
Blank == Mark("blank")
Line == {Start, End, BackupStart, BackupEnd, Blank}
            \cup {Entry(d) : d \in Domain} \cup {User(u) : u \in UserLine}

VARIABLES
    file,       \* the lines of the hosts file
    pc,         \* progress of the call that edits it
    text,       \* what that call is going to write
    mishaps     \* the failures of this behaviour, chosen once

hostsVars == <<file, pc, text, mishaps>>

(***************************************************************************)
(* Reading.                                                                *)
(***************************************************************************)
\* line_domains: entries of an earlier block look like any other mapping.
LineDomains(l) ==
    CASE l.kind = "entry" -> {l.domain}
      [] l.kind = "user"  -> DomainsOf[l.id]
      [] OTHER            -> {}

\* push_unique: blank lines and repetitions are not copied.
PushUnique(s, l) == IF l = Blank \/ l \in Range(s) THEN s ELSE Append(s, l)

\* The phase after a line: a start marker opens a block in the main part only,
\* and only the end marker of a block closes it.
NextPhase(phase, l) ==
    CASE phase = "main"   /\ l = Start       -> "block"
      [] phase = "main"   /\ l = BackupStart -> "backup"
      [] phase = "block"  /\ l = End         -> "main"
      [] phase = "backup" /\ l = BackupEnd   -> "main"
      [] OTHER                               -> phase

\* A marker that the phase gives a meaning to, or a stray end marker.
IsMarker(phase, l) ==
    \/ NextPhase(phase, l) # phase
    \/ phase = "main" /\ l \in {End, BackupEnd}

\* One turn of the loop over the lines; toBackup says, by the phase in which
\* it is met, which lines are kept in the backup block.
Copied(toBackup, at, l) ==
    IF <<at.phase, l>> \in toBackup THEN [at EXCEPT !.backup = PushUnique(@, l)]
    ELSE [at EXCEPT !.main = Append(@, l)]

\* Mutant: a line of the backup block is dropped instead of taken along.
TakeDropping(toBackup, at, l) ==
    IF IsMarker(at.phase, l) THEN [at EXCEPT !.phase = NextPhase(@, l)]
    ELSE IF at.phase # "main" THEN at ELSE Copied(toBackup, at, l)

Take(toBackup, at, l) ==
    IF IsMarker(at.phase, l) THEN [at EXCEPT !.phase = NextPhase(@, l)]
    ELSE IF at.phase = "block" THEN at ELSE Copied(toBackup, at, l)

\* Where the loop is after each line: the phase and the two lists so far.
Reader(toBackup, ls) ==
    LET at[i \in 0..Len(ls)] ==
            IF i = 0 THEN [phase |-> "main", main |-> <<>>, backup |-> <<>>]
            ELSE Take(toBackup, at[i - 1], ls[i])
    IN  at

Sorted(toBackup, ls) == Reader(toBackup, ls)[Len(ls)]

\* update_hosts_at: a line that maps a managed domain goes to the backup; one
\* there that is no longer managed goes back to the main part.
Conflicting(M) ==
    LET managed == {l \in Line : LineDomains(l) \cap M # {}}
        comments == {l \in Line : LineDomains(l) = {}}
    IN  ({"main", "backup"} \X managed) \cup ({"backup"} \X comments)

\* remove_hosts_at: the backup stays together.
InBackup == {"backup"} \X Line

\* The blank lines at the end of the main part are popped.
Trimmed(s) ==
    LET last == {i \in DOMAIN s : s[i] # Blank}
    IN  SubSeq(s, 1, IF last = {} THEN 0 ELSE Max(last))

(***************************************************************************)
(* The two rewrites.                                                       *)
(***************************************************************************)
Separated(s) == IF s = <<>> THEN s ELSE Append(s, Blank)

Entries(M) == [i \in DOMAIN SetToSeq(M) |-> Entry(SetToSeq(M)[i])]

Block(M) == <<Start>> \o Entries(M) \o <<End>>

BackupBlock(b) ==
    IF b = <<>> THEN b ELSE <<Blank, BackupStart>> \o b \o <<BackupEnd>>

\* The text of a file with the main part, the block and the backup block.
Composed(main, M, backup) ==
    Separated(main) \o (Block(M) \o (BackupBlock(backup) \o <<Blank>>))

\* Mutants of update_hosts_at: lines the user maps stay where they are; the
\* trailing blank lines of the main part are kept.
UpdatedInPlace(ls, M) ==
    LET at == Sorted(InBackup, ls)
    IN  Composed(Trimmed(at.main), M, at.backup)

UpdatedUntrimmed(ls, M) ==
    LET at == Sorted(Conflicting(M), ls)
    IN  Composed(at.main, M, at.backup)

\* update_hosts_at
Updated(ls, M) ==
    LET at == Sorted(Conflicting(M), ls)
    IN  Composed(Trimmed(at.main), M, at.backup)

\* remove_hosts_at: everything but the block, the backup at the end.
Removed(ls) ==
    LET at == Sorted(InBackup, ls)
        main == Trimmed(at.main)
    IN  IF at.backup = <<>> THEN main ELSE Separated(main) \o at.backup

\* The phase in which the reader is after the first i lines.
PhaseAt(i) == Reader({}, file)[i].phase

UserCount == Len(SelectSeq(file, LAMBDA l : l.kind = "user"))

(***************************************************************************)
(* The calls.                                                              *)
(***************************************************************************)
\* read_hosts_at(path).unwrap_or_default()
Content(ls) == ls = file \/ ("read" \in mishaps /\ ls = <<>>)

Rewrite(t) ==
    /\ pc = "idle"
    /\ pc' = "read"
    /\ text' = t
    /\ UNCHANGED <<file, mishaps>>

UpdateHosts(M) == \E ls \in {file, <<>>} : Content(ls) /\ Rewrite(Updated(ls, M))

RemoveByTag == \E ls \in {file, <<>>} : Content(ls) /\ Rewrite(Removed(ls))

\* The default file holds comments only, none of them the user's.
ResetFile == Rewrite(<<>>)

\* std::fs::write opens and truncates the file ...
OpenForWrite ==
    /\ pc = "read"
    /\ pc' = "write"
    /\ file' = <<>>
    /\ UNCHANGED <<text, mishaps>>

\* ... or fails to, and the call returns the error.
OpenFails ==
    /\ "open" \in mishaps
    /\ pc = "read"
    /\ pc' = "idle"
    /\ text' = <<>>
    /\ UNCHANGED <<file, mishaps>>

FinishWrite ==
    /\ pc = "write"
    /\ pc' = "idle"
    /\ file' = text
    /\ text' = <<>>
    /\ UNCHANGED mishaps

\* Of an unfinished write a prefix is on the disk.
CutShort == \E n \in 0..Len(text) : file' = SubSeq(text, 1, n)

\* The write fails behind its truncation: the call returns the error, and what
\* had been written is all that is left.
WriteFails ==
    /\ "write" \in mishaps
    /\ pc = "write"
    /\ pc' = "idle"
    /\ text' = <<>>
    /\ CutShort
    /\ UNCHANGED mishaps

\* The process dies.
Dies ==
    /\ "kill" \in mishaps
    /\ pc # "idle"
    /\ pc' = "idle"
    /\ text' = <<>>
    /\ IF pc = "write" THEN CutShort ELSE UNCHANGED file
    /\ UNCHANGED mishaps

\* The user edits the file between two calls, outside the managed block.
UserInserts(u, i) ==
    /\ pc = "idle"
    /\ UserCount < MaxLines
    /\ Len(file) <= MaxLength
    /\ PhaseAt(i) # "block"
    /\ file' = InsertAt(file, i + 1, User(u))
    /\ UNCHANGED <<pc, text, mishaps>>

UserDeletes(i) ==
    /\ pc = "idle"
    /\ file[i].kind = "user"
    /\ file' = RemoveAt(file, i)
    /\ UNCHANGED <<pc, text, mishaps>>

HostsInit ==
    /\ file \in BoundedSeq({User(u) : u \in UserLine}, MaxLines)
    /\ pc = "idle"
    /\ text = <<>>
    /\ mishaps \in SUBSET Faults

HostsNext ==
    \/ \E M \in SUBSET Domain : UpdateHosts(M)
    \/ RemoveByTag \/ ResetFile
    \/ OpenForWrite \/ OpenFails \/ FinishWrite \/ WriteFails \/ Dies
    \/ \E u \in UserLine, i \in 0..Len(file) : UserInserts(u, i)
    \/ \E i \in DOMAIN file : UserDeletes(i)

HostsSpec == HostsInit /\ [][HostsNext]_hostsVars

(***************************************************************************)
(* Properties.                                                             *)
(***************************************************************************)
HostsTypeOK ==
    /\ file \in Seq(Line)
    /\ pc \in {"idle", "read", "write"}
    /\ text \in Seq(Line)
    /\ pc = "idle" => text = <<>>
    /\ mishaps \in SUBSET Faults

UserLinesIn(ls) == {u \in UserLine : User(u) \in Range(ls)}
DomainsIn(ls) == {d \in Domain : Entry(d) \in Range(ls)}

\* Editing never piles anything up: an update of an updated file, as after a
\* session that was killed, changes nothing, neither does a second removal, and
\* a removal leaves nothing of the accelerator, also when the domains changed
\* between the updates or the user edited the file in between.
\* (update_hosts_at, remove_hosts_at)
NothingPilesUp ==
    /\ HostsTypeOK
    /\ pc = "idle" =>
          /\ \A M \in SUBSET Domain : Updated(Updated(file, M), M) = Updated(file, M)
          /\ Removed(Removed(file)) = Removed(file)
          /\ Range(Removed(file)) \subseteq {Blank} \cup {User(u) : u \in UserLine}

\* The block takes effect: in the file an update writes, the first line that
\* maps a managed name is the accelerator's, wherever the user mapped it before
\* and although the lines in the backup block are still live entries.
\* (update_hosts_at: "moving conflicting user entries into the backup block")
EntriesDecide ==
    pc = "idle" =>
        \A M \in SUBSET Domain :
            LET ls == Updated(file, M)
                mapping(d) == {i \in DOMAIN ls : d \in LineDomains(ls[i])}
            IN  \A d \in M : ls[Min(mapping(d))] = Entry(d)

\* The file as it will be once the write in progress is over.
Settled == IF pc = "write" THEN text ELSE file

\* The editor keeps the contract: installing, replacing and withdrawing the
\* block never loses a line of the user, but for three losses the code does not
\* prevent: the process dies in the write or the write fails behind its
\* truncation, and then part of the lines go and nothing is added; or the file
\* cannot be read, and then all of them go.
\* (update_hosts_at, remove_hosts_at, write_hosts_at, read_hosts_at)
Contract == INSTANCE HostsContract WITH
    lines <- UserLinesIn(Settled),
    installed <- DomainsIn(Settled),
    cut <- mishaps \cap {"kill", "write"} # {},
    unread <- "read" \in mishaps

UserLinesKept == Contract!Spec
=============================================================================
