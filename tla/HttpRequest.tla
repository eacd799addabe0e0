---------------------------- MODULE HttpRequest ----------------------------
(***************************************************************************)
(* The incremental request parser of server/http_request.cpp: one parser   *)
(* per connection, fed with whatever recv() returned.                      *)
(*                                                                         *)
(* Bytes are abstracted to tokens.  A request is a "head" token (request   *)
(* line and headers up to the blank line), followed, unless it is an       *)
(* OPTIONS request, by one "body" token (a multipart body, complete when   *)
(* its last byte has come).  What tells requests apart is their kind:      *)
(*   post     a POST the parser accepts and the compute task can serve     *)
(*   throws   a POST the parser accepts and whose compute task throws      *)
(*   options  a preflight, complete at the end of its headers              *)
(*   put      accepted by the parser, with a method main() does not serve  *)
(*   badhead  rejected at its headers (no length, or one over the limit)   *)
(*   badbody  rejected at its body (no boundary, no part header, ...)      *)
(***************************************************************************)
EXTENDS Naturals, Sequences

CONSTANTS Clients,   \* the TCP connections clients may open
          Nil        \* no client, no descriptor

Kinds == {"post", "throws", "options", "put", "badhead", "badbody"}

\* The n-th request a client sends; Nobody stands for no request at all.
RequestIds == [client : Clients \cup {Nil}, n : Nat]
Nobody == [client |-> Nil, n |-> 0]

Tokens == [of : RequestIds, kind : Kinds, part : {"head", "body"}]

HasBody(kind) == kind # "options"

ParseState == {"READING_HEADERS", "READING_BODY", "COMPLETE", "ERROR_STATE"}
Methods == {"none", "POST", "OPTIONS", "other"}

(***************************************************************************)
(* The parser's fields: the unconsumed tokens, the state, the "method"     *)
(* header, the request whose headers were read, with its kind, and whether *)
(* the bytes of body_start_offset_ .. expected_body_size_ have come.       *)
(***************************************************************************)
Parsers == [state : ParseState, buffer : Seq(Tokens), method : Methods,
            head : Tokens, offset : Nat]

NoHead == [of |-> Nobody, kind |-> "badhead", part |-> "head"]

\* HttpRequest::reset, and a parser just constructed: everything buffered goes.
ResetParser == [state |-> "READING_HEADERS", buffer |-> << >>, method |-> "none",
                head |-> NoHead, offset |-> 0]

\* The method token of a request line that starts where the buffer starts.
MethodOf(kind) ==
  CASE kind \in {"post", "throws", "badhead", "badbody"} -> "POST"
    [] kind = "options" -> "OPTIONS"
    [] kind = "put" -> "other"

-----------------------------------------------------------------------------
(***************************************************************************)
(* READING_BODY: wait for the body, then parse it.                         *)
(***************************************************************************)
ReadBody(r) ==
  IF Len(r.buffer) <= r.offset
  THEN r
  ELSE [r EXCEPT !.state = IF r.head.kind = "badbody" THEN "ERROR_STATE"
                                                      ELSE "COMPLETE"]

(***************************************************************************)
(* READING_HEADERS at the head token in position i.  With i > 1 the head   *)
(* follows leftovers of an earlier request, so that its request line does  *)
(* not start the buffer: the method read is none the server knows, and a   *)
(* preflight is then a request without a length.                           *)
(***************************************************************************)
ReadHead(r, i) ==
  LET t == r.buffer[i]
      m == IF i = 1 THEN MethodOf(t.kind) ELSE "other"
      s == [r EXCEPT !.method = m, !.head = t, !.offset = i]
  IN  CASE t.kind = "badhead" -> [s EXCEPT !.state = "ERROR_STATE"]
        [] t.kind = "options" -> [s EXCEPT !.state = IF m = "OPTIONS" THEN "COMPLETE"
                                                              ELSE "ERROR_STATE"]
        [] OTHER -> ReadBody([s EXCEPT !.state = "READING_BODY"])

(***************************************************************************)
(* Leftover body bytes at the front of the buffer, taken for headers: they *)
(* hold a blank line (a multipart body does, its last part need not), and  *)
(* what stands before it has no Content-Length: an error.  Or they hold    *)
(* none, and the parser waits on for the end of "headers".                 *)
(***************************************************************************)
ReadLeftovers(r) ==
  LET heads == {i \in 1..Len(r.buffer) : r.buffer[i].part = "head"}
  IN  {[r EXCEPT !.state = "ERROR_STATE"]} \cup
      IF heads = {} THEN {r}
      ELSE {ReadHead(r, i) : i \in {j \in heads : \A h \in heads : j <= h}}

\* The parsers HttpRequest::feed may leave behind.
Feed(p, toks) ==
  LET r == [p EXCEPT !.buffer = @ \o toks]
  IN  CASE p.state \in {"COMPLETE", "ERROR_STATE"} -> {p}
        [] p.state = "READING_BODY" -> {ReadBody(r)}
        [] p.state = "READING_HEADERS" ->
             IF r.buffer = << >> THEN {r}
             ELSE IF r.buffer[1].part = "head" THEN {ReadHead(r, 1)}
             ELSE ReadLeftovers(r)
=============================================================================
