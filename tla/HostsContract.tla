---------------------------- MODULE HostsContract ----------------------------
(***************************************************************************)
(* What hosts.rs promises the user of the machine: the block of the        *)
(* accelerator comes and goes as a whole, and the lines the user wrote are *)
(* not lost by it, wherever in the file they are kept meanwhile.  What may *)
(* be lost all the same, since the file is truncated and written in place  *)
(* and an unreadable file counts as an empty one, has actions of its own.  *)
(***************************************************************************)
CONSTANTS Domain, UserLine

VARIABLES
    lines,      \* the user's lines
    installed,  \* the domains the block maps; {} too when there is no block
    cut,        \* may a write be cut off, by a death or an error?  Never changes.
    unread      \* may reading the file fail?  Never changes.

Init == lines \in SUBSET UserLine /\ installed = {} /\ cut \in BOOLEAN /\ unread \in BOOLEAN

faults == <<cut, unread>>

Install(M) == installed' = M /\ UNCHANGED <<lines, faults>>

Withdraw == installed' = {} /\ UNCHANGED <<lines, faults>>

\* The user adds or deletes a line, or asks for the Windows default file.
Edit(l) == lines' \in {lines \cup {l}, lines \ {l}} /\ UNCHANGED <<installed, faults>>

Reset == lines' = {} /\ installed' = {} /\ UNCHANGED faults

\* A write that was cut off leaves part of what was to be written.
CutOff ==
    /\ cut
    /\ lines' \in SUBSET lines
    /\ installed' \in SUBSET installed
    /\ UNCHANGED faults

\* A file that could not be read counts as an empty one.
Overwrite(M) ==
    /\ unread
    /\ lines' = {} /\ installed' = M
    /\ UNCHANGED faults

Next ==
    \/ \E M \in SUBSET Domain : Install(M) \/ Overwrite(M)
    \/ \E l \in UserLine : Edit(l)
    \/ Withdraw \/ Reset \/ CutOff

Spec == Init /\ [][Next]_<<lines, installed, faults>>
=============================================================================
