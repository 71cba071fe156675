------------------------------ MODULE MCUpstream ------------------------------
(***************************************************************************)
(* Two requests to one host; one address of each origin, so that every     *)
(* source has something the others do not have.                            *)
(***************************************************************************)
EXTENDS Upstream

CONSTANTS r1, r2, e1, e2, e3

MCReq == {r1, r2}
MCKinds == [r \in MCReq |->
    IF r = r1 THEN [class : {"get"}, stateful : BOOLEAN] \cup [class : {"post"}, stateful : {FALSE}]
              ELSE [class : {"get", "git"}, stateful : {FALSE}]]
MCManifest == <<>>
MCDns == <<e1>>
MCHostDns == <<e1, e2>>
MCPublished == <<e1, e2>>
MCAliasAlts == <<e1, e3>>
MCHostAlts == <<e3>>
MCSite == {[accelerated |-> TRUE, alias |-> FALSE, fake |-> FALSE],
           [accelerated |-> TRUE, alias |-> TRUE, fake |-> TRUE],
           [accelerated |-> FALSE, alias |-> TRUE, fake |-> FALSE]}
=============================================================================
