-------------------------------- MODULE Duplex --------------------------------
(***************************************************************************)
(* What a tunnel promises: two one-way channels between two peers.  What a *)
(* peer sends is handed to the other in order and unchanged, the end of it *)
(* only behind the last of it, and neither channel ends because the other  *)
(* one does.  Once a peer has broken its connection, the rest may be lost; *)
(* a tunnel that is not up yet may be refused, or be tried again with      *)
(* another far end.                                                        *)
(***************************************************************************)
EXTENDS Sequences, SequencesExt

CONSTANTS Near, Far

VARIABLES
    up,      \* whether the tunnel stands
    sent,    \* what each peer has sent that the other has not been handed
    got,     \* what each peer has been handed
    ended,   \* whether the peer sends no more
    told,    \* whether the peer knows that the other sends no more
    broken   \* whether a peer has broken its connection

Peer == {Near, Far}
duplex == <<up, sent, got, ended, told, broken>>

Init ==
    /\ up = FALSE /\ broken = FALSE
    /\ sent = [p \in Peer |-> <<>>] /\ got = [p \in Peer |-> <<>>]
    /\ ended = [p \in Peer |-> FALSE] /\ told = [p \in Peer |-> FALSE]

Start == /\ ~up /\ up' = TRUE
         /\ UNCHANGED <<sent, got, ended, told, broken>>

Send(p) ==
    /\ ~ended[p]
    /\ IsPrefix(sent[p], sent'[p]) /\ sent' = [sent EXCEPT ![p] = sent'[p]]
    /\ UNCHANGED <<up, got, ended, told, broken>>

End(p) == /\ ended' = [ended EXCEPT ![p] = TRUE]
          /\ UNCHANGED <<up, sent, got, told, broken>>

\* q is handed the next item of p.
Deliver(p, q) ==
    /\ up /\ p # q /\ sent[p] # <<>> /\ ~told[q]
    /\ got' = [got EXCEPT ![q] = Append(@, Head(sent[p]))]
    /\ sent' = [sent EXCEPT ![p] = Tail(@)]
    /\ UNCHANGED <<up, ended, told, broken>>

\* q is told of p's end.
Tell(p, q) ==
    /\ up /\ p # q /\ ended[p] /\ sent[p] = <<>>
    /\ told' = [told EXCEPT ![q] = TRUE]
    /\ UNCHANGED <<up, sent, got, ended, broken>>

Break(p) ==
    /\ broken' = TRUE
    /\ ended' = [ended EXCEPT ![p] = TRUE]
    /\ IsPrefix(sent'[p], sent[p]) /\ sent' = [sent EXCEPT ![p] = sent'[p]]
    /\ UNCHANGED <<up, got, told>>

Retry ==
    /\ ~up
    /\ sent' = [sent EXCEPT ![Far] = <<>>]
    /\ ended' = [ended EXCEPT ![Far] = FALSE]
    /\ broken' \in {broken, FALSE}
    /\ UNCHANGED <<up, got, told>>

\* Both peers are let go.
Drop ==
    /\ ~up \/ broken \/ \A p \in Peer : told[p]
    /\ sent' = [p \in Peer |-> <<>>]
    /\ told' = [p \in Peer |-> TRUE]
    /\ up' = FALSE
    /\ UNCHANGED <<got, ended, broken>>

Next ==
    \/ Start \/ Retry \/ Drop
    \/ \E p \in Peer : Send(p) \/ End(p) \/ Break(p)
    \/ \E p, q \in Peer : Deliver(p, q) \/ Tell(p, q)

Spec == Init /\ [][Next]_duplex
=============================================================================
