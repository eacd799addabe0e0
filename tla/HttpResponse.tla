---------------------------- MODULE HttpResponse ----------------------------
(***************************************************************************)
(* The response buffer of server/http_response.cpp: one per connection,    *)
(* loaded with a whole response and written out as the socket takes it.    *)
(*                                                                         *)
(* Bytes are abstracted to units, the k-th unit of a response being what   *)
(* one send() puts on the wire: a unit of headers, and a unit of body      *)
(* where the response has one.                                             *)
(***************************************************************************)
EXTENDS HttpRequest

\* 0 stands for a response buffer with nothing loaded.
Statuses == {0, 200, 204, 400}

\* headers_.size() + file_bytes_.size(): a 204 has no body.
RespSize(status) == CASE status = 0 -> 0
                      [] status = 204 -> 1
                      [] status \in {200, 400} -> 2

\* `of` is the request whose result the body holds (a 200 only).
Responses == [status : Statuses, of : RequestIds, sent : Nat]

EmptyResponse == [status |-> 0, of |-> Nobody, sent |-> 0]

\* A slip: the headers are replaced and the body is not.
LoadHeadersOnly(r, status, of) == [r EXCEPT !.status = status]

\* HttpResponse::load: headers and body are replaced, bytes_sent_ is not touched.
Load(r, status, of) == [status |-> status, of |-> of, sent |-> r.sent]

\* HttpResponse::reset forgetting bytes_sent_: the next response starts short.
ResetKeepingCount(r) == [EmptyResponse EXCEPT !.sent = r.sent]

\* HttpResponse::reset.
Reset(r) == EmptyResponse

\* write_some's loop condition negated: nothing is left to send.
FullySent(r) == r.sent >= RespSize(r.status)

\* What the wire carries: unit k of a response.
Units == [status : Statuses, of : RequestIds, k : Nat]
NextUnit(r) == [status |-> r.status, of |-> r.of, k |-> r.sent]
=============================================================================
