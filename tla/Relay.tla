-------------------------------- MODULE Relay --------------------------------
(***************************************************************************)
(* The relay of a tunnel (core/src/fwd.rs, relay and pump): a pump for     *)
(* each direction, which reads from one socket and writes to the other,    *)
(* and a Notify that lets one that fails wake the other.                   *)
(*                                                                         *)
(* A socket is what its peer has sent and nobody has read, what has been   *)
(* written to it and the peer has not taken, and how the peer ended.       *)
(***************************************************************************)
EXTENDS Naturals, Sequences, SequencesExt

CONSTANTS
    Client, Upstream,
    Room              \* how much a peer that does not read is sent before a write blocks

Side == {Client, Upstream}
Other(s) == IF s = Client THEN Upstream ELSE Client

ASSUME SideAssumption == Client # Upstream /\ Room \in Nat \ {0}

VARIABLES
    src,     \* what each peer has sent and the proxy has not read
    ends,    \* whether the peer may send more, has ended cleanly or broken off
    sink,    \* what the proxy has written and the peer has not taken
    got,     \* history: what the peer has taken
    fin,     \* whether the proxy has closed its writing half
    pump,    \* the phase of the pump that reads from the side
    held,    \* its buffer
    permit   \* the permit stored in the Notify

pumps == <<pump, held, permit>>
sockets == <<src, ends, sink, got, fin>>
relay == <<src, ends, sink, got, fin, pump, held, permit>>

RelayTypeOK(Token) ==
    /\ \A s \in Side : /\ ToSet(src[s]) \subseteq Token /\ ToSet(held[s]) \subseteq Token
                       /\ ToSet(sink[s]) \subseteq Token /\ ToSet(got[s]) \subseteq Token
                       /\ Len(sink[s]) <= Room /\ Len(held[s]) <= 1
    /\ ends \in [Side -> {"open", "eof", "error"}]
    /\ fin \in [Side -> BOOLEAN]
    /\ pump \in [Side -> {"off", "read", "write", "done", "failed"}]
    /\ permit \in 0..1

RelayInit ==
    /\ src = [s \in Side |-> <<>>] /\ sink = [s \in Side |-> <<>>]
    /\ got = [s \in Side |-> <<>>] /\ held = [s \in Side |-> <<>>]
    /\ ends = [s \in Side |-> "open"]
    /\ fin = [s \in Side |-> FALSE]
    /\ pump = [s \in Side |-> "off"]
    /\ permit = 0

-----------------------------------------------------------------------------
(* The peers. *)

PeerEnds(s) ==
    /\ ends[s] = "open"
    /\ ends' = [ends EXCEPT ![s] = "eof"]
    /\ UNCHANGED <<src, sink, got, fin, pumps>>

\* A reset, which may cost what has not been read.
PeerBreaks(s) ==
    /\ ends[s] # "error"
    /\ ends' = [ends EXCEPT ![s] = "error"]
    /\ \E lost \in BOOLEAN : src' = IF lost THEN [src EXCEPT ![s] = <<>>] ELSE src
    /\ UNCHANGED <<sink, got, fin, pumps>>

PeerTakes(s) ==
    /\ sink[s] # <<>> /\ ends[s] # "error"
    /\ got' = [got EXCEPT ![s] = Append(@, Head(sink[s]))]
    /\ sink' = [sink EXCEPT ![s] = Tail(@)]
    /\ UNCHANGED <<src, ends, fin, pumps>>

-----------------------------------------------------------------------------
(* The pumps; s is the side that is read. *)

Reading(s) == pump[s] = "read" /\ permit = 0

PumpReads(s) ==
    /\ Reading(s) /\ src[s] # <<>>
    /\ held' = [held EXCEPT ![s] = <<Head(src[s])>>]
    /\ src' = [src EXCEPT ![s] = Tail(@)]
    /\ pump' = [pump EXCEPT ![s] = "write"]
    /\ UNCHANGED <<ends, sink, got, fin, permit>>

\* Mutant: the end of one direction ends the other as well.
PumpEofAborts(s) ==
    /\ Reading(s) /\ src[s] = <<>> /\ ends[s] = "eof"
    /\ fin' = [fin EXCEPT ![Other(s)] = TRUE]
    /\ pump' = [pump EXCEPT ![s] = "done"]
    /\ permit' = 1
    /\ UNCHANGED <<src, ends, sink, got, held>>

\* The end of the stream: the other side is half closed.
PumpEof(s) ==
    /\ Reading(s) /\ src[s] = <<>> /\ ends[s] = "eof"
    /\ fin' = [fin EXCEPT ![Other(s)] = TRUE]
    /\ pump' = [pump EXCEPT ![s] = "done"]
    /\ UNCHANGED <<src, ends, sink, got, held, permit>>

\* Mutant: the pump that fails ends without waking the other.
FailsQuietly(s) == permit' = permit

Notifies(s) == permit' = 1

PumpReadFails(s) ==
    /\ Reading(s) /\ src[s] = <<>> /\ ends[s] = "error"
    /\ pump' = [pump EXCEPT ![s] = "failed"]
    /\ Notifies(s)
    /\ UNCHANGED <<sockets, held>>

\* write_all, which waits for room and watches nothing else.
PumpWrites(s) ==
    /\ pump[s] = "write" /\ Len(sink[Other(s)]) < Room /\ ends[Other(s)] # "error"
    /\ sink' = [sink EXCEPT ![Other(s)] = @ \o held[s]]
    /\ held' = [held EXCEPT ![s] = <<>>]
    /\ pump' = [pump EXCEPT ![s] = "read"]
    /\ UNCHANGED <<src, ends, got, fin, permit>>

PumpWriteFails(s) ==
    /\ pump[s] = "write" /\ ends[Other(s)] = "error"
    /\ pump' = [pump EXCEPT ![s] = "failed"]
    /\ Notifies(s)
    /\ UNCHANGED <<sockets, held>>

\* The other direction has failed; this one takes the permit and half closes nothing.
PumpAborts(s) ==
    /\ pump[s] = "read" /\ permit = 1
    /\ permit' = 0
    /\ pump' = [pump EXCEPT ![s] = "done"]
    /\ UNCHANGED <<sockets, held>>

Pump(s) ==
    \/ PumpReads(s) \/ PumpEof(s) \/ PumpReadFails(s)
    \/ PumpWrites(s) \/ PumpWriteFails(s) \/ PumpAborts(s)

\* join! has both.
Joined == \A s \in Side : pump[s] \in {"done", "failed"}

\* A pump that is writing to a peer that does not take it.
Blocked(s) == pump[s] = "write" /\ Len(sink[Other(s)]) = Room
=============================================================================
