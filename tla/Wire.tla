-------------------------------- MODULE Wire --------------------------------
(***************************************************************************)
(* One lookup as text, from the client to the id service and back, on both *)
(* data paths: over TCP, where messages arrive in pieces that split        *)
(* anywhere, and over the mesh, where the bridge, the frontend, the        *)
(* sidecar and the id service each convert the JSON header.  Mesh and      *)
(* TcpServices model who sends what when; this module models what the      *)
(* conversions do to it.                                                   *)
(***************************************************************************)
EXTENDS TextFormats

CONSTANTS
  Asks,   (* What clients ask: records of via ("tcp" or "mesh"), path,     *)
          (* name, query, body and, over the mesh, headers: the client's   *)
          (* own headers, and before: the path and query that an earlier   *)
          (* request has left in the static buffers.  Over "raw" a client  *)
          (* sends just the tokens of body.                                *)
  File    (* the id service's file                                         *)

ASSUME WireAssumption ==
  /\ Len(File) <= MaxEntries
  /\ \A i \in DOMAIN File : Len(File[i].key) <= KeyCap

VARIABLES
  ask,
  at,      (* who handles it next                                          *)
  msg, n,  (* the message on its way there, and how much has arrived       *)
  seen,    (* what the frontend has found in it                            *)
  key,     (* what the id service looks up                                 *)
  result   (* what the frontend reads in the response                      *)

vars == <<ask, at, msg, n, seen, key, result>>

ReqId == <<"uuid">>
IdCap == 1
Nothing == [name |-> Missing, id |-> << >>, body |-> << >>]

(* conn_start_upstream, and a client of the TCP services.                  *)
HttpGet(path, query) == <<"GET", "SP">> \o path \o <<"?">> \o query \o <<"SP", "HTTP">> \o CRLF

(* on_request makes an HTTP request of a descriptor, always complete.      *)
OnRequest(path, query, body) ==
  <<"GET", "SP">> \o path \o (IF query = << >> THEN << >> ELSE <<"?">> \o query)
  \o <<"SP", "HTTP">> \o CRLF \o <<"CL">> \o Unary(Len(body)) \o CRLF \o CRLF \o body

OwnHeader == BridgeHeader(ask.path, ask.headers, ask.query, ReqId)

Init ==
  /\ ask \in Asks
  /\ at = "frontend"
  /\ msg = CASE ask.via = "raw" -> ask.body
             [] ask.via = "mesh" -> Combined(OwnHeader, ask.body)
             [] ask.via = "tcp" -> HttpGet(ask.path, ask.query) \o <<"CL">>
                                   \o Unary(Len(ask.body)) \o CRLF \o CRLF \o ask.body
  /\ n = 0
  /\ seen = Nothing /\ key = Missing
  /\ result = [status |-> "none", body |-> << >>]

Prefix(k) == SubSeq(msg, 1, k)
Mesh == ask.via = "mesh"

(* handle_request of the frontend: r as parsed, the rest as it came.       *)
HandleRequest(r, id) ==
  LET name == QueryGet(r.query, "name", NameCap)
      query == <<"name", "=">> \o name
  IN \/ /\ r.path = <<"/lookup">> /\ name # Missing
        /\ seen' = [name |-> name, id |-> id, body |-> r.body]
        /\ at' = IF Mesh THEN "sidecar" ELSE "id"
        /\ msg' = IF Mesh
                  THEN SerializeHeader(<<"/id", "?">> \o query, <<"/id">>, << >>, query, <<"creq">>)
                  ELSE HttpGet(<<"/id">>, query) \o CRLF
        /\ n' = 0
        /\ UNCHANGED result
     \/ /\ r.path # <<"/lookup">> \/ name = Missing
        /\ at' = "done"
        /\ result' = [status |-> IF r.path # <<"/lookup">> THEN "404" ELSE "400", body |-> << >>]
        /\ UNCHANGED <<msg, n, seen>>

(* handle_request of the id service.                                       *)
HandleId(name) ==
  LET value == KvStoreGet(KvStoreLoad(File), name)
  IN IF value = Missing THEN HttpFormatResponse("404", <<"x">>)
                        ELSE HttpFormatResponse("200", <<"id">> \o value)
-----------------------------------------------------------------------------
(* Over TCP: a read brings the message up to k tokens, and the callback    *)
(* parses all it has so far.                                               *)

ReadMore(k) ==
  /\ ~Framed(Prefix(k)).complete
  /\ n' = k
  /\ UNCHANGED <<ask, at, msg, seen, key, result>>

FrontendRead(k) ==
  /\ at = "frontend" /\ ~Mesh
  /\ Framed(Prefix(k)).complete
  /\ HandleRequest(HttpParseRequest(Prefix(k)), << >>)
  /\ UNCHANGED <<ask, key>>

IdRead(k) ==
  /\ at = "id" /\ ~Mesh
  /\ Framed(Prefix(k)).complete
  /\ key' = QueryGet(HttpParseRequest(Prefix(k)).query, "name", NameCap)
  /\ msg' = HandleId(key')
  /\ at' = "reply" /\ n' = 0
  /\ UNCHANGED <<ask, seen, result>>

UpstreamRead(k) ==
  /\ at = "reply"
  /\ Framed(Prefix(k)).complete
  /\ result' = HttpParseResponse(Prefix(k))
  /\ at' = "done"
  /\ UNCHANGED <<ask, msg, n, seen, key>>
-----------------------------------------------------------------------------
(* Over the mesh                                                           *)

(* dpumesh_read of the frontend, the request in the format of case 2.  The *)
(* buffers for path and query are static: without a value in the header    *)
(* they keep those of an earlier request.                                  *)
FrontendDescriptor ==
  LET h == Case2Header(msg)
      b == OnRequest(JsonGetStr(h, "path:", PathCap, ask.before.path),
                     JsonGetStr(h, "query_string:", QueryCap, ask.before.query), Case2Body(msg))
  IN /\ at = "frontend" /\ Mesh
     /\ HandleRequest(HttpParseRequest(b), JsonGetStr(h, "req_id_str:", IdCap, << >>))
     /\ UNCHANGED <<ask, key>>

(* _route_descriptor: no worker is found for a header that is no JSON.     *)
Route ==
  /\ at = "sidecar"
  /\ at' = IF JsonLoads(msg) THEN "id" ELSE "lost"
  /\ UNCHANGED <<ask, msg, n, seen, key, result>>

IdDescriptor ==
  LET b == OnRequest(JsonGetStr(msg, "path:", PathCap, << >>),
                     JsonGetStr(msg, "query_string:", QueryCap, << >>), << >>)
  IN /\ at = "id" /\ Mesh
     /\ key' = QueryGet(HttpParseRequest(b).query, "name", NameCap)
     /\ at' = "done"
     /\ UNCHANGED <<ask, msg, n, seen, result>>

Next ==
  \/ \E k \in (n + 1)..Len(msg) :
       \/ at \in {"frontend", "id", "reply"} /\ ~Mesh /\ ReadMore(k)
       \/ FrontendRead(k) \/ IdRead(k) \/ UpstreamRead(k)
  \/ FrontendDescriptor \/ Route \/ IdDescriptor

Spec == Init /\ [][Next]_vars
-----------------------------------------------------------------------------
(* The header of b by definition: the shortest prefix that ends in an      *)
(* empty line.                                                             *)
EndsHeader(b, h) ==
  \/ h >= 2 /\ SubSeq(b, h - 1, h) = <<"LF", "LF">>
  \/ h >= 4 /\ SubSeq(b, h - 3, h) = CRLF \o CRLF

(* However a message is split into reads, http_parse_request calls it      *)
(* complete exactly from the byte on that completes the header and the     *)
(* body announced in it, and what it takes for the body then is not        *)
(* changed by anything that follows.                                       *)
FramingExact ==
  at = "frontend" /\ ~Mesh =>
    \A k \in 0..Len(msg) :
      LET ends == {h \in 0..k : EndsHeader(msg, h)}
          h == Min(ends)
      IN /\ Framed(Prefix(k)).complete <=>
              ends # {} /\ k - h >= ParseContentLength(Prefix(h), h)
         /\ Framed(Prefix(k)).complete => Framed(Prefix(k)) = Framed(msg)

(* Every message the services themselves format is handled exactly once,   *)
(* when the last byte of it has come: this is what TcpServices assumes.    *)
HandledWhole ==
  at \in {"id", "reply"} /\ ~Mesh => \A k \in 0..Len(msg) :
    Framed(Prefix(k)).complete <=> k = Len(msg)

(* The id service looks up the name the client asked for, cut to the size  *)
(* of the buffer, whatever else the query holds, and the frontend finds    *)
(* the client's body and, over the mesh, the id that leads back to it.  No *)
(* request is lost: the header of a worker is JSON to the sidecar.         *)
QuestionKept ==
  LET name == SubSeq(ask.name, 1, Min({Len(ask.name), NameCap}))
  IN /\ seen # Nothing => seen = [name |-> name, id |-> IF Mesh THEN ReqId ELSE << >>,
                                  body |-> ask.body]
     /\ key # Missing => key = name
     /\ at \in {"done", "lost"} => key # Missing

(* The buffers have room for the query and, over the mesh, for the header  *)
(* up to the last value that is read, the id; the client's own headers     *)
(* come before query and id.                                               *)
Fits ==
  /\ Len(ask.query) <= QueryCap
  /\ Mesh => Len(OwnHeader) - Len(<<"QU", "}">>) <= HeaderCap

(* Whatever earlier requests have left in the static buffers, what the     *)
(* client asks is kept as long as it fits.                                 *)
SameQuestion == ask.via # "raw" /\ Fits => QuestionKept

(* ... and also when it does not: this fails.                              *)
SameQuestionLong == ask.via # "raw" => QuestionKept

(* The frontend receives what the file holds under the client's name, or   *)
(* 404 when there is no such name.                                         *)
RightValue ==
  ask.via # "raw" /\ Fits /\ result.status # "none" /\ Len(ask.name) <= NameCap =>
    LET hits == {i \in DOMAIN File : File[i].key = ask.name}
    IN result = IF hits = {} THEN [status |-> "404", body |-> <<"x">>]
                ELSE [status |-> "200", body |-> <<"id">> \o File[Min(hits)].value]
=============================================================================
