----------------------------- MODULE HttpReply ------------------------------
(***************************************************************************)
(* How the Windows server chooses its reply: a request, what became of the *)
(* file it names, and the table of responses of base/http_codes.c, which   *)
(* is indexed by an enumeration of its own and has lengths only after      *)
(* setup_http_response_array().                                            *)
(***************************************************************************)
EXTENDS Integers, Sequences

\* The enumeration that indexes the table.
kHTTPCodes ==
  <<"200Ok", "201Created", "202Accepted", "204NoContent", "301MovedPerm",
    "302MovedTemp", "304NotModified", "400BadRequest", "401Unauthorized",
    "403Forbidden", "404NotFound", "500InternalError", "501NotImplemented",
    "502BadGateway", "503ServiceUnavailable">>

Response(code) == [code |-> code, spec |-> TRUE]
NotImplemented(code) == [code |-> code, spec |-> FALSE]

\* (mutant) The table has no entry for 204.
kHTTPResponseArrayShort ==
  <<Response(200), NotImplemented(201), NotImplemented(202),
    NotImplemented(301), NotImplemented(302), NotImplemented(304),
    Response(400), NotImplemented(401), NotImplemented(403), Response(404),
    Response(500), NotImplemented(501), NotImplemented(502),
    NotImplemented(503), NotImplemented(504)>>

\* The table: each status and whether it has a text.
kHTTPResponseArray ==
  <<Response(200), NotImplemented(201), NotImplemented(202),
    NotImplemented(204), NotImplemented(301), NotImplemented(302),
    NotImplemented(304), Response(400), NotImplemented(401),
    NotImplemented(403), Response(404), Response(500), NotImplemented(501),
    NotImplemented(502), NotImplemented(503)>>

\* The entries whose length setup_http_response_array() has filled in.
setup_http_response_array ==
  {i \in DOMAIN kHTTPResponseArray : kHTTPResponseArray[i].spec}

\* A request as strtok_s() finds it, and what CreateFile() and
\* GetFileSizeEx() say of the document.
Requests == [tokens : 0..3, get : BOOLEAN, http11 : BOOLEAN]
Files == {"opened", "missing", "denied", "unsized"}

\* server_handle_client_request(): there is a document to look for.
Parsed(r) == r.tokens = 3 /\ r.get /\ r.http11

\* server_transmit_resource(): the entry of the table.
Choice(r, f) ==
  CASE ~Parsed(r) -> "400BadRequest"
    [] Parsed(r) /\ f = "opened" -> "200Ok"
    [] Parsed(r) /\ f = "missing" -> "404NotFound"
    [] Parsed(r) /\ f \in {"denied", "unsized"} -> "500InternalError"

Entry(name) == CHOOSE i \in DOMAIN kHTTPCodes : kHTTPCodes[i] = name

\* What TransmitFile() is given: the status line that is sent, whether it has
\* text and a length, and whether a file follows.  200 is printed into the
\* buffer of the client, the others are sent from the table.
Reply(r, f, lengths) ==
  LET i == Entry(Choice(r, f))
  IN  [status |-> kHTTPResponseArray[i].code,
       text   |-> /\ kHTTPResponseArray[i].spec
                  /\ Choice(r, f) = "200Ok" \/ i \in lengths,
       file   |-> Parsed(r) /\ f = "opened"]
=============================================================================
