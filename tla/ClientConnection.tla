-------------------------- MODULE ClientConnection --------------------------
(***************************************************************************)
(* One client of the intercepting proxy after its TLS handshake            *)
(* (core/src/mitm.rs): the HTTP/1.1 loop of handle_conn, or one stream of  *)
(* an HTTP/2 connection (handle_h2_request).  A request is read, forward_  *)
(* one answers it, and the response is relayed.                            *)
(*                                                                         *)
(* forward_one writes into a pipe: the client's socket, or for HTTP/2 the  *)
(* duplex pipe of a second task, which parses the response again, drops    *)
(* the chunked framing and sends the entity on the stream.  How an answer  *)
(* was obtained upstream is module Upstream; here it comes or it does not. *)
(***************************************************************************)
EXTENDS HttpFraming, FiniteSets

CONSTANTS
    Requests,  \* bound: the requests of an HTTP/1.1 connection
    Room       \* the tokens a pipe holds (64 KiB in the code)

ASSUME BoundAssumption == Requests \in Nat \ {0} /\ Room \in Nat \ {0} /\ MaxPieces \in Nat

VARIABLES
    proto,   \* what ALPN chose
    left,    \* the requests the client has still to make
    there,   \* whether the client is still there: it has not reset or closed
    stalled, \* whether the client has stopped taking what it is sent
    window,  \* HTTP/2: whether its window has room for a piece; else TRUE
    req,     \* the request under way: framing, pieces, trailer, expect
    out,     \* its tokens that the client has still to send
    inbox,   \* its tokens that the proxy has still to read
    go,      \* whether the client may send the body: 100 Continue, or not asked for
    srv,     \* the phase of the proxy
    rd,      \* its place in the request body
    resp,    \* the response under way
    rest,    \* its tokens that the origin has still to send
    held,    \* the token forward_one has read and not written
    fwd,     \* its place in the response body
    pipe,    \* the tokens written and not read
    dec,     \* HTTP/2: the place of the second task in the response
    view,    \* the client's place in the response
    pieces,  \* the pieces it has received
    pooled,  \* history: the origin's unread tokens when its connection was pooled
    astray   \* history: whether somebody met a token where none such can be

client == <<proto, left, there, stalled, window, req, out, go, view, pieces>>
reading == <<inbox, rd>>
upstream == <<resp, rest, held, fwd, pooled>>
vars == <<proto, left, there, stalled, window, req, out, inbox, go, srv, rd, resp, rest, held, fwd,
          pipe, dec, view, pieces, pooled, astray>>

RequestShape == [framing : {"none", "length", "chunked"}, pieces : 0..MaxPieces,
                 trailer : BOOLEAN, keep : {TRUE}, expect : BOOLEAN]
None == "none"
Idle == At("whole")
NoShape == [framing |-> "none", pieces |-> 0, trailer |-> FALSE, keep |-> TRUE]

TypeOK ==
    /\ proto \in {"h1", "h2"} /\ left \in 0..Requests
    /\ {there, stalled, window, go} \subseteq BOOLEAN
    /\ req \in RequestShape /\ resp \in Shape
    /\ {ToSet(s) : s \in {out, inbox, rest, pipe, pooled}} \subseteq SUBSET Token
    /\ Len(pipe) <= Room
    /\ srv \in {"reading", "body", "upstream", "relay", "closed"}
    /\ held \in Token \cup {None}
    /\ rd \in Phase /\ fwd \in Phase /\ dec \in Phase \cup {At("head")}
    /\ view \in Phase \cup {At("head"), At("reset"), At("502")}
    /\ pieces \in 0..MaxPieces /\ astray \in BOOLEAN

-----------------------------------------------------------------------------
(* The client. *)

\* HTTP/2 frames request bodies itself, and its clients expect no interim answer.
Sensible(m) == /\ m.framing = "none" => m.pieces = 0
               /\ m.trailer => m.framing = "chunked"
Asks == {m \in RequestShape : Sensible(m) /\ (m.expect => m.framing # "none")
            /\ (proto = "h2" => m.framing \in {"none", "length"} /\ ~m.expect)}

ClientBegins ==
    /\ there /\ left > 0 /\ view = Idle /\ resp.keep
    /\ \E m \in Asks :
        /\ req' = m
        /\ out' = <<"head">> \o Body(m)
        /\ go' = ~m.expect
    /\ left' = left - 1
    /\ view' = At("head")
    /\ pieces' = 0
    /\ UNCHANGED <<proto, there, stalled, window, reading, srv, upstream, pipe, dec, astray>>

ClientSends ==
    /\ there /\ out # <<>> /\ (Head(out) = "head" \/ go)
    /\ inbox' = Append(inbox, Head(out))
    /\ out' = Tail(out)
    /\ UNCHANGED <<proto, left, there, stalled, window, req, go, view, pieces, srv, rd, upstream,
                   pipe, dec, astray>>

\* The client of HTTP/1.1 parses what comes down its socket.
ClientReads ==
    /\ proto = "h1" /\ there /\ ~stalled /\ pipe # <<>>
    /\ LET tok == Head(pipe)
           starts == tok = "head"
       IN /\ view' = IF starts THEN First(resp) ELSE Step(view, tok)
          /\ pieces' = IF tok = "data" THEN pieces + 1 ELSE pieces
          /\ astray' = (astray \/ (IF starts THEN view # At("head")
                                   ELSE Step(view, tok).at = "broken"))
    /\ pipe' = Tail(pipe)
    /\ UNCHANGED <<proto, left, there, stalled, window, req, out, go, reading, srv, upstream, dec>>

\* The proxy has closed the connection.
ClientSeesEnd ==
    /\ proto = "h1" /\ there /\ ~stalled /\ srv = "closed" /\ pipe = <<>> /\ ~Over(view)
    /\ view' = IF view = At("head") THEN At("broken") ELSE Step(view, "eof")
    /\ UNCHANGED <<proto, left, there, stalled, window, req, out, go, pieces, reading, srv, upstream,
                   pipe, dec, astray>>

ClientLeaves ==
    /\ there
    /\ there' = FALSE
    /\ UNCHANGED <<proto, left, stalled, window, req, out, go, view, pieces, reading, srv, upstream,
                   pipe, dec, astray>>

\* The client stays and takes nothing more: it reads no more of its socket, or
\* returns no window.
ClientStalls ==
    /\ there /\ ~stalled
    /\ stalled' = TRUE
    /\ UNCHANGED <<proto, left, there, window, req, out, go, view, pieces, reading, srv, upstream,
                   pipe, dec, astray>>

\* WINDOW_UPDATE: there is room for a piece again.
ClientGrants ==
    /\ proto = "h2" /\ there /\ ~stalled /\ ~window
    /\ window' = TRUE
    /\ UNCHANGED <<proto, left, there, stalled, req, out, go, view, pieces, reading, srv, upstream,
                   pipe, dec, astray>>

-----------------------------------------------------------------------------
(* read_request, and the body of an HTTP/2 stream. *)

\* Mutant: the body is read first and 100 Continue answered behind it.
ReadHeadLate ==
    /\ srv = "reading" /\ inbox # <<>>
    /\ inbox' = Tail(inbox)
    /\ rd' = First(req)
    /\ srv' = IF Over(First(req)) THEN "upstream" ELSE "body"
    /\ UNCHANGED <<client, upstream, pipe, dec, astray>>

\* The head; an expected 100 Continue is written before the body is touched.
ReadHead ==
    /\ srv = "reading" /\ inbox # <<>>
    /\ inbox' = Tail(inbox)
    /\ IF Head(inbox) = "head"
       THEN /\ rd' = First(req)
            /\ go' = TRUE
            /\ srv' = IF Over(First(req)) THEN "upstream" ELSE "body"
            /\ UNCHANGED astray
       ELSE /\ srv' = "closed" /\ astray' = TRUE
            /\ UNCHANGED <<rd, go>>
    /\ UNCHANGED <<proto, left, there, stalled, window, req, out, view, pieces, upstream, pipe, dec>>

ReadBody ==
    /\ srv = "body" /\ inbox # <<>>
    /\ LET ph == Step(rd, Head(inbox))
       IN /\ rd' = ph
          /\ srv' = CASE ph.at = "whole" -> "upstream"
                      [] ph.at = "broken" -> "closed"
                      [] OTHER -> "body"
          /\ astray' = (astray \/ ph.at = "broken")
    /\ inbox' = Tail(inbox)
    /\ UNCHANGED <<client, upstream, pipe, dec>>

\* The client is gone in the middle of a request or between two.
ReadFails ==
    /\ srv \in {"reading", "body"} /\ ~there /\ inbox = <<>>
    /\ srv' = "closed"
    /\ UNCHANGED <<client, reading, upstream, pipe, dec, astray>>

-----------------------------------------------------------------------------
(* forward_one, from its answer on. *)

\* The client's socket fails once the client is gone; a duplex pipe does not as
\* long as its reader lives.
Writable == proto = "h2" \/ there

\* stream_response_body writes the head; write_400 and write_502 write one of
\* their own, with a counted body of nothing and "close".
Answers(m) ==
    /\ srv = "upstream" /\ Writable /\ Len(pipe) < Room
    /\ resp' = m
    /\ rest' = Body(m)
    /\ fwd' = First(m)
    /\ pipe' = Append(pipe, "head")
    /\ srv' = "relay"
    /\ dec' = IF proto = "h2" THEN At("head") ELSE dec
    /\ UNCHANGED <<client, reading, held, pooled, astray>>

AnswerLost ==
    /\ srv = "upstream" /\ ~Writable
    /\ srv' = "closed"
    /\ UNCHANGED <<client, reading, upstream, pipe, dec, astray>>

FwdReads ==
    /\ srv = "relay" /\ ~Over(fwd) /\ held = None /\ rest # <<>>
    /\ held' = Head(rest)
    /\ rest' = Tail(rest)
    /\ fwd' = Step(fwd, Head(rest))
    /\ UNCHANGED <<client, reading, srv, resp, pipe, dec, pooled, astray>>

\* The origin closes: at the end of its response, or before.
FwdEof ==
    /\ srv = "relay" /\ ~Over(fwd) /\ held = None
    /\ fwd' = Step(fwd, "eof")
    /\ rest' = <<>>
    /\ UNCHANGED <<client, reading, srv, resp, held, pipe, dec, pooled, astray>>

\* Mutant: a body is read without a time-out.
FwdIdleNever == FALSE

\* BODY_IDLE_TIMEOUT: the origin has sent nothing for 20 s.
FwdIdle ==
    /\ srv = "relay" /\ ~Over(fwd) /\ held = None
    /\ fwd' = At("broken")
    /\ UNCHANGED <<client, reading, srv, resp, rest, held, pipe, dec, pooled, astray>>

\* A write waits for room in the pipe, without a time-out.
FwdWrites ==
    /\ srv = "relay" /\ held # None /\ Writable /\ Len(pipe) < Room
    /\ pipe' = Append(pipe, held)
    /\ held' = None
    /\ UNCHANGED <<client, reading, srv, resp, rest, fwd, dec, pooled, astray>>

FwdWriteFails ==
    /\ srv = "relay" /\ held # None /\ ~Writable
    /\ fwd' = At("broken")
    /\ held' = None
    /\ UNCHANGED <<client, reading, srv, resp, rest, pipe, dec, pooled, astray>>

\* forward_one has returned; for HTTP/2 its end of the pipe is dropped.
FwdOver == Over(fwd) /\ held = None

\* Mutant: the loop goes on after a response that broke off.
ReusedAlways == resp.keep

\* Whether the connections of both sides can serve another request.
Reused == fwd.at = "whole" /\ Keeps(resp)

\* handle_conn goes on with the next request of the client, or closes.
ServedH1 ==
    /\ srv = "relay" /\ proto = "h1" /\ FwdOver
    /\ srv' = IF Reused THEN "reading" ELSE "closed"
    /\ pooled' = IF Reused THEN rest ELSE <<>>
    /\ UNCHANGED <<client, reading, resp, rest, held, fwd, pipe, dec, astray>>

-----------------------------------------------------------------------------
(* handle_h2_request: the other end of the pipe. *)

\* No head within UPSTREAM_BUDGET and 5 s: the task is aborted, 502.
H2NoHead ==
    /\ proto = "h2" /\ srv = "upstream"
    /\ srv' = "closed"
    /\ view' = IF there THEN At("502") ELSE view
    /\ UNCHANGED <<proto, left, there, stalled, window, req, out, go, pieces, reading, upstream,
                   pipe, dec, astray>>

\* Mutant: a body that broke off is finished like a whole one.
EndsFinished(ph) == IF Over(ph) THEN Idle ELSE At("close")

\* How the stream ends for a client that is there: finish() after a whole body
\* and a reset after any other.
Ends(ph) == IF ph.at = "whole" THEN Idle ELSE IF ph.at = "broken" THEN At("reset") ELSE At("close")

\* The head is sent on; a stream that has been reset refuses it, and the task
\* is aborted.
H2Head ==
    /\ proto = "h2" /\ srv = "relay" /\ dec = At("head") /\ pipe # <<>>
    /\ pipe' = Tail(pipe)
    /\ dec' = IF there THEN First(resp) ELSE At("broken")
    /\ srv' = IF there THEN srv ELSE "closed"
    /\ view' = IF there THEN Ends(First(resp)) ELSE view
    /\ UNCHANGED <<proto, left, there, stalled, window, req, out, go, pieces, reading, upstream, astray>>

\* Mutant: the chunks are passed on as they come.
EntityVerbatim(tok) == TRUE

\* H2StreamWriter gets the data and nothing of the framing.
Entity(tok) == tok = "data"

\* poll_write waits for capacity, without a time-out; a stream that has been
\* reset fails at once.
Passes(tok) == Entity(tok) => window \/ ~there

\* A piece that waits for the window counts as in the pipe.
H2Reads ==
    /\ proto = "h2" /\ srv = "relay" /\ dec # At("head") /\ ~Over(dec)
    /\ pipe # <<>> /\ Passes(Head(pipe))
    /\ pipe' = Tail(pipe)
    /\ LET tok == Head(pipe)
           sends == Entity(tok)
           ph == IF sends /\ ~there THEN At("broken") ELSE Step(dec, tok)
       IN /\ dec' = ph
          /\ view' = IF there THEN Ends(ph) ELSE view
          /\ pieces' = IF sends /\ there /\ tok = "data" THEN pieces + 1 ELSE pieces
          /\ window' \in IF sends /\ there THEN BOOLEAN ELSE {window}
          /\ astray' = (astray \/ (sends /\ tok # "data"))
    /\ UNCHANGED <<proto, left, there, stalled, req, out, go, reading, srv, upstream>>

\* Nothing in the pipe: its writer is gone, or BODY_IDLE_TIMEOUT has passed here.
H2Starves ==
    /\ proto = "h2" /\ srv = "relay" /\ dec # At("head") /\ ~Over(dec) /\ pipe = <<>>
    /\ LET ph == IF FwdOver THEN Step(dec, "eof") ELSE At("broken")
       IN dec' = ph /\ view' = IF there THEN Ends(ph) ELSE view
    /\ UNCHANGED <<proto, left, there, stalled, window, req, out, go, pieces, reading, srv, upstream,
                   pipe, astray>>

\* task.await: the stream's task ends with forward_one, not before.
ServedH2 ==
    /\ proto = "h2" /\ srv = "relay" /\ Over(dec) /\ FwdOver
    /\ srv' = "closed"
    /\ pooled' = IF Reused THEN rest ELSE <<>>
    /\ UNCHANGED <<client, reading, resp, rest, held, fwd, pipe, dec, astray>>

-----------------------------------------------------------------------------
Init ==
    /\ proto \in {"h1", "h2"}
    /\ left = IF proto = "h1" THEN Requests ELSE 1
    /\ there = TRUE /\ stalled = FALSE
    /\ window \in IF proto = "h1" THEN {TRUE} ELSE BOOLEAN
    /\ req = [framing |-> "none", pieces |-> 0, trailer |-> FALSE, keep |-> TRUE, expect |-> FALSE]
    /\ out = <<>> /\ inbox = <<>> /\ go = TRUE
    /\ srv = "reading" /\ rd = Idle
    /\ resp = NoShape /\ rest = <<>> /\ held = None /\ fwd = Idle
    /\ pipe = <<>> /\ dec = Idle /\ view = Idle
    /\ pieces = 0 /\ pooled = <<>> /\ astray = FALSE

Responses == {m \in Shape : Sensible(m)}

Client ==
    \/ ClientBegins \/ ClientSends \/ ClientReads \/ ClientSeesEnd \/ ClientLeaves
    \/ ClientStalls \/ ClientGrants
Read == ReadHead \/ ReadBody \/ ReadFails
Forward == FwdReads \/ FwdEof \/ FwdIdle \/ FwdWrites \/ FwdWriteFails \/ ServedH1
Upstream == (\E m \in Responses : Answers(m)) \/ AnswerLost
H2 == H2NoHead \/ H2Head \/ H2Reads \/ H2Starves \/ ServedH2

\* The HTTP/2 task has given the stream up but holds the reading end of the pipe
\* while forward_one waits for room in it: handle_h2_request waits for the task.
Stranded == proto = "h2" /\ Over(dec) /\ held # None /\ Len(pipe) = Room

\* A write waits for a client that stays and takes nothing: there is no room in
\* its socket, or the second task has no window for a piece.
Held ==
    /\ there /\ stalled
    /\ IF proto = "h1" THEN held # None /\ Len(pipe) = Room
       ELSE dec # At("head") /\ ~Over(dec) /\ pipe # <<>> /\ Entity(Head(pipe)) /\ ~window

\* Nothing is left to do; the stranded stream has nobody to wake it.
Done == (srv = "closed" \/ Stranded) /\ UNCHANGED vars

Next == Client \/ Read \/ Upstream \/ Forward \/ H2 \/ Done

\* The time-outs and the steps that nothing holds up; the client sends what it
\* may, and takes what it is sent unless it stalls.  Nothing makes it ask, and no
\* origin has to send.
Fairness ==
    /\ WF_vars(ClientSends) /\ WF_vars(ClientReads) /\ WF_vars(ClientSeesEnd)
    /\ WF_vars(ClientGrants)
    /\ WF_vars(Read) /\ WF_vars(Upstream)
    /\ WF_vars(FwdIdle) /\ WF_vars(FwdWrites) /\ WF_vars(FwdWriteFails) /\ WF_vars(ServedH1)
    /\ WF_vars(H2Head) /\ WF_vars(H2Reads) /\ WF_vars(H2Starves) /\ WF_vars(ServedH2)

Spec == Init /\ [][Next]_vars /\ Fairness

-----------------------------------------------------------------------------
(* Properties. *)

\* Each side meets at every place only what the message can have there: a request
\* starts where the one before it ended (read_request reads the trailers of a
\* chunked body for that), nothing follows a response that broke off, and no
\* byte of the chunked framing is passed to an HTTP/2 client as entity.
Aligned == TypeOK /\ ~astray

\* A client that was told its response is complete has all of the body, unless
\* the body had no framing and ended with the connection.
CompleteIsWhole == view = Idle /\ resp.framing # "close" => pieces = resp.pieces

\* A connection to an origin is pooled with nothing of its response unread.
PooledIsEmpty == pooled = <<>>

\* A client that goes on sending and taking what it is sent gets an end to its
\* request: a whole response, a refusal, a reset or the end of the connection.
\* The expected 100 Continue comes before the proxy waits for the body.
ClientServed ==
    view = At("head") ~> (Over(view) \/ view \in {At("reset"), At("502")} \/ ~there \/ stalled)

\* The relay of a response ends when the origin falls silent or closes and when
\* the client leaves.  No write has a time-out: a client that stays and takes
\* nothing more holds the relay as long as it likes (Held), and so does the pipe
\* of a stream that was given up (Stranded); nothing else does.
\* (stream_response_body, H2StreamWriter, handle_h2_request)
RelayEnds == srv = "relay" ~> (srv # "relay" \/ Stranded \/ Held)
=============================================================================
