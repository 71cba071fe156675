---------------------------- MODULE MCDnsResolver ----------------------------
(***************************************************************************)
(* Three DoH endpoints of which the first is configured, so that two race; *)
(* one DNS server; one address of each family.                             *)
(***************************************************************************)
EXTENDS DnsResolver

CONSTANTS d1, d2, d3, p1, a4, a6

MCDoh == <<d1, d2, d3>>
MCServer == <<p1>>
MCV4 == {a4}
MCV6 == {a6}
=============================================================================
