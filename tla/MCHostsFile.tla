----------------------------- MODULE MCHostsFile -----------------------------
(***************************************************************************)
(* Two domains that may be managed; the user may write a mapping of the    *)
(* first, one line that maps both, and a comment.                          *)
(***************************************************************************)
EXTENDS HostsFile

CONSTANTS d1, d2, one, both, comment

MCDomain == {d1, d2}
MCUserLine == {one, both, comment}
MCDomainsOf == (one :> {d1}) @@ (both :> {d1, d2}) @@ (comment :> {})

=============================================================================
