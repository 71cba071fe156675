--------------------------- MODULE MCAccelerateTree ---------------------------
(***************************************************************************)
(* Two groups: one with a container of two leaves and a leaf of its own,   *)
(* the other with a single leaf.                                           *)
(***************************************************************************)
EXTENDS AccelerateTree, TLC

CONSTANTS a, b, c, d, box, big, small

MCUnder == box :> {a, b} @@ big :> {a, b, c} @@ small :> {d}
=============================================================================
