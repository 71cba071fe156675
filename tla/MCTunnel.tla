------------------------------ MODULE MCTunnel ------------------------------
(* The instance of Tunnel that TLC checks. *)
EXTENDS Tunnel

CONSTANTS i1, i2, i3, i4, g1, g2

MCPayload == <<"p1", "p2">>
MCUpload == <<"more">>
MCConfigured == <<i1>>
MCAliasIps == {<<>>, <<i1, i2>>}
MCHostIps == {<<>>, <<i2, i3>>}
MCSystemIps == {<<>>, <<Loopback>>, <<i4, Loopback>>, <<i4>>}
\* Each switch with and without an agent, and every agent.
MCSeen == {c \in Settings :
              /\ Cardinality({f \in {"script", "https", "mitm"} : c[f]}) <= 1
              /\ c.agent \in {"off", "http"} \/ ~(c.script \/ c.https \/ c.mitm)}
MCAgentIps == {<<>>, <<g1, g2>>}
=============================================================================
