----------------------------- MODULE HttpFraming -----------------------------
(***************************************************************************)
(* HTTP/1.1 message framing as core/src/http1.rs reads it: the same steps  *)
(* for a request body (read_request), for a response body that is relayed  *)
(* (stream_response_body) and for one that is decoded for HTTP/2           *)
(* (stream_response_body_decoded).                                         *)
(*                                                                         *)
(* A message is a sequence of tokens.  A piece of a body is one token      *)
(* whatever its size; so is a chunk's size line, the CRLF behind its data, *)
(* the last chunk's size line, a trailer line and the final blank line.    *)
(***************************************************************************)
EXTENDS Naturals, Sequences, SequencesExt

CONSTANT MaxPieces  \* bound: the pieces of a body

\* framing: how the end of the body is told; "none" for HEAD, 1xx, 204 and 304,
\* "close" for a body that runs until the peer closes.
Shape == [framing : {"none", "length", "chunked", "close"}, pieces : 0..MaxPieces,
          trailer : BOOLEAN, keep : BOOLEAN]

Token == {"head", "size", "data", "crlf", "zero", "trailer", "blank", "eof"}

\* The pieces of a body, one after the other or in chunks.
Plain(n) == [i \in 1..n |-> "data"]
Chunked(n) == [i \in 1..(3 * n) |-> <<"size", "data", "crlf">>[((i - 1) % 3) + 1]]

\* The tokens of a body.
Body(m) ==
    CASE m.framing = "none" -> <<>>
      [] m.framing \in {"length", "close"} -> Plain(m.pieces)
      [] m.framing = "chunked" ->
            Chunked(m.pieces) \o <<"zero">>
                \o (IF m.trailer THEN <<"trailer">> ELSE <<>>) \o <<"blank">>

\* A reader's place in a body, and the pieces a counted body still lacks.
Place == {"size", "chunk", "crlf", "trailers", "count", "close", "whole", "broken"}
Phase == [at : Place, lacks : 0..MaxPieces]
At(place) == [at |-> place, lacks |-> 0]
Counted(n) == IF n = 0 THEN At("whole") ELSE [at |-> "count", lacks |-> n]
Over(ph) == ph.at \in {"whole", "broken"}

\* Where reading starts, after the head: chunked wins over Content-Length, and
\* without either the body runs until the peer closes.
First(m) ==
    CASE m.framing = "none" -> At("whole")
      [] m.framing = "length" -> Counted(m.pieces)
      [] m.framing = "chunked" -> At("size")
      [] m.framing = "close" -> At("close")

\* Mutant: the message ends with its last chunk, whose empty line stays unread.
AcceptsNoTrailers == {<<"size", "size", "chunk">>, <<"chunk", "data", "crlf">>,
                      <<"crlf", "crlf", "size">>, <<"size", "zero", "whole">>,
                      <<"close", "data", "close">>, <<"close", "eof", "whole">>}

\* What a reader accepts at a place, and where it goes.
Accepts == {<<"size", "size", "chunk">>, <<"chunk", "data", "crlf">>, <<"crlf", "crlf", "size">>,
            <<"size", "zero", "trailers">>, <<"trailers", "trailer", "trailers">>,
            <<"trailers", "blank", "whole">>, <<"close", "data", "close">>,
            <<"close", "eof", "whole">>}

Step(ph, tok) ==
    LET next == {a \in Accepts : a[1] = ph.at /\ a[2] = tok}
    IN IF ph.at = "count" /\ tok = "data" THEN Counted(ph.lacks - 1)
       ELSE IF next = {} THEN At("broken")
       ELSE At((CHOOSE a \in next : TRUE)[3])

\* stream_response_body's answer: whether the connection can be kept.
Keeps(m) == m.keep /\ m.framing # "close"
=============================================================================
