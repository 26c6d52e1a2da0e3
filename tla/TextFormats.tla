---------------------------- MODULE TextFormats ----------------------------
(***************************************************************************)
(* The text formats of the system as functions on sequences of tokens: the *)
(* HTTP messages of http_parse.c, the query strings and files of           *)
(* json_util.c, and the JSON headers that dpumesh.c and the daemons        *)
(* exchange.  A token is a character that some parser looks at, or a word  *)
(* that is only ever compared as a whole.  "QU" is the quotation mark,     *)
(* "BS" the backslash, "CL" the text "Content-Length:", "1" a digit of a   *)
(* unary number; a JSON key with its quotes and colon is one token, and    *)
(* header lines and members that no reader uses are left out.              *)
(***************************************************************************)
EXTENDS Naturals, SequencesExt

CONSTANTS
  PathCap, QueryCap, BodyCap,  (* tokens in a path, a query and a body     *)
  HeaderCap,                   (* tokens in the header of parse_case2_body *)
  NameCap,                     (* tokens in the name of a lookup           *)
  KeyCap, MaxEntries           (* tokens in a key and keys in a kv_store_t *)

(* The tokens of s from i up to the first one in stops, at most cap.       *)
TakeUntil(s, i, stops, cap) ==
  SubSeq(s, i, Min({Len(s) + 1, i + cap} \cup {k \in i..Len(s) : s[k] \in stops}) - 1)

(* The first position of s from i on that holds none of the tokens in S.   *)
Skip(s, i, S) == Min({Len(s) + 1} \cup {k \in i..Len(s) : s[k] \notin S})

IndexOf(s, t) == Min({Len(s) + 1} \cup {k \in DOMAIN s : s[k] = t})
-----------------------------------------------------------------------------
(* http_parse.c                                                            *)

CRLF == <<"CR", "LF">>
StartsAt(b, i, s) == i + Len(s) - 1 <= Len(b) /\ SubSeq(b, i, i + Len(s) - 1) = s

(* The length of the header, or 0.                                         *)
FindHeaderEnd(b) ==
  LET ends == {i \in DOMAIN b : StartsAt(b, i, CRLF \o CRLF) \/ StartsAt(b, i, <<"LF", "LF">>)}
  IN CASE ends = {} -> 0
       [] ends # {} /\ b[Min(ends)] = "CR" -> Min(ends) + 3
       [] OTHER -> Min(ends) + 1

LengthLines(b, h) == {i \in 1..h : b[i] = "CL" /\ (i = 1 \/ b[i - 1] = "LF")}

(* Mutant: the lines of the body are searched as well.                     *)
ParseContentLengthAnywhere(b, h) ==
  LET lines == LengthLines(b, Len(b))
      at == Skip(b, Min(lines) + 1, {"SP", "CR", "LF"})
  IN IF lines = {} THEN 0 ELSE Skip(b, at, {"1"}) - at

(* atol skips white space, line ends too, and does not know where the      *)
(* header ends.                                                            *)
ParseContentLength(b, h) ==
  LET lines == LengthLines(b, h)
      at == Skip(b, Min(lines) + 1, {"SP", "CR", "LF"})
  IN IF lines = {} THEN 0 ELSE Skip(b, at, {"1"}) - at

(* The end of both parsers: the body is complete, or more is needed.       *)
Framed(b) ==
  LET h == FindHeaderEnd(b)
      n == ParseContentLength(b, h)
  IN IF h = 0 \/ Len(b) - h < n
     THEN [complete |-> FALSE, body |-> << >>]
     ELSE [complete |-> TRUE, body |-> SubSeq(b, h + 1, h + Min({n, BodyCap}))]

(* Mutant: a question mark ends the query.                                 *)
QueryOfLineShort(b, i) == TakeUntil(b, i + 1, {"SP", "CR", "?"}, QueryCap)

QueryOfLine(b, i) == TakeUntil(b, i + 1, {"SP", "CR"}, QueryCap)

(* The request line; the method is a single token.                         *)
HttpParseRequest(b) ==
  LET first == Skip(b, IndexOf(b, "SP"), {"SP"})
      path == TakeUntil(b, first, {"SP", "?", "CR"}, PathCap)
      mark == first + Len(path)
  IN [path |-> path,
      query |-> IF mark <= Len(b) /\ b[mark] = "?" THEN QueryOfLine(b, mark) ELSE << >>,
      body |-> Framed(b).body]

HttpParseResponse(b) == [status |-> b[3], body |-> Framed(b).body]

Unary(n) == IF n = 0 THEN <<"0">> ELSE [i \in 1..n |-> "1"]

(* Mutant: the announced length is one too small.                          *)
HttpFormatResponseShort(status, body) ==
  <<"HTTP", "SP", status>> \o CRLF \o <<"CL">> \o Unary(Len(body) - 1) \o CRLF \o CRLF \o body

HttpFormatResponse(status, body) ==
  <<"HTTP", "SP", status>> \o CRLF \o <<"CL">> \o Unary(Len(body)) \o CRLF \o CRLF \o body
-----------------------------------------------------------------------------
(* json_util.c                                                             *)

Missing == <<"missing">>
QueryGet(q, key, cap) ==
  LET starts == {1} \cup {i + 1 : i \in {j \in DOMAIN q : q[j] = "&"}}
      hits == {i \in starts : i < Len(q) /\ q[i] = key /\ q[i + 1] = "="}
  IN IF hits = {} THEN Missing ELSE TakeUntil(q, Min(hits) + 2, {"&"}, cap)

(* What kv_store_load keeps of a file, a sequence of keys with values.     *)
KvStoreLoad(file) ==
  [i \in 1..Min({Len(file), MaxEntries}) |->
     [key |-> TakeUntil(file[i].key, 1, {}, KeyCap), value |-> file[i].value]]

(* Mutant: the last of several entries counts.                             *)
KvStoreGetLast(store, key) ==
  LET hits == {i \in DOMAIN store : store[i].key = key}
  IN IF hits = {} THEN Missing ELSE store[Max(hits)].value

KvStoreGet(store, key) ==
  LET hits == {i \in DOMAIN store : store[i].key = key}
  IN IF hits = {} THEN Missing ELSE store[Min(hits)].value
-----------------------------------------------------------------------------
(* JSON headers                                                            *)

(* json.dumps of a string.                                                 *)
Escape(v) ==
  LET of(t) == CASE t \in {"QU", "BS"} -> <<"BS", t>>
                 [] t = "LF" -> <<"BS", "n">>
                 [] t = "CR" -> <<"BS", "r">>
                 [] OTHER -> <<t>>
  IN FlattenSeq([i \in DOMAIN v |-> of(v[i])])

Member(key, v) == <<key, "QU">> \o v \o <<"QU">>

(* serialize_header, in C with the values as they are.                     *)
SerializeHeader(url, path, headers, query, id) ==
  <<"{">> \o Member("url:", url) \o Member("path:", path)
  \o <<"headers:", "{">> \o headers \o <<"}">>
  \o Member("query_string:", query) \o Member("req_id_str:", id) \o <<"}">>

(* The header and the message the bridge makes of a client's request.      *)
BridgeHeader(path, headers, query, id) ==
  SerializeHeader(Escape(path), Escape(path), headers, Escape(query), Escape(id))

Combined(header, body) ==
  <<"{", "header:">> \o header \o Member("body:", Escape(body)) \o <<"}">>

(* Mutant: the last token that fits is left out.                           *)
JsonGetStrShort(t, key, cap, old) ==
  LET i == IndexOf(t, key)
  IN IF i + 1 <= Len(t) /\ t[i + 1] = "QU" THEN TakeUntil(t, i + 2, {"QU"}, cap - 1) ELSE old

(* json_get_str into a buffer for cap tokens, which keeps what it holds    *)
(* when the key or its value is not there.                                 *)
JsonGetStr(t, key, cap, old) ==
  LET i == IndexOf(t, key)
  IN IF i + 1 <= Len(t) /\ t[i + 1] = "QU" THEN TakeUntil(t, i + 2, {"QU"}, cap) ELSE old

(* The header of parse_case2_body ends where as many braces have been      *)
(* closed as opened, wherever they stand; what the buffer has no room for  *)
(* is cut off.                                                             *)
Case2Header(t) ==
  LET start == IndexOf(t, "header:") + 1
      count(k, c) == Len(SelectSeq(SubSeq(t, start, k), LAMBDA x : x = c))
      ends == {k \in start..Len(t) : count(k, "{") = count(k, "}")}
  IN SubSeq(t, start, Min({Len(t), start + HeaderCap - 1} \cup ends))

(* Mutant: the escape character is kept.                                   *)
Case2BodyEscaped(t) == JsonGetStr(t, "body:", Len(t), << >>)

(* An escaped quotation mark is the only escape that is undone.            *)
Case2Body(t) ==
  LET start == IndexOf(t, "body:") + 2
      from[i \in start..(Len(t) + 2)] ==
        CASE i > Len(t) -> << >>
          [] i <= Len(t) /\ t[i] = "QU" /\ (i = start \/ t[i - 1] # "BS") -> << >>
          [] i < Len(t) /\ t[i] = "BS" /\ t[i + 1] = "QU" -> <<"QU">> \o from[i + 2]
          [] OTHER -> <<t[i]>> \o from[i + 1]
  IN from[start]

Keys == {"header:", "url:", "path:", "headers:", "query_string:", "req_id_str:", "body:"}

(* json.loads accepts t, a text made by SerializeHeader: outside strings   *)
(* there are keys and braces only, and a string follows a key.             *)
JsonLoads(t) ==
  LET lex(st, c) ==
        CASE st = "string" /\ c = "QU" -> "next"
          [] st = "string" /\ c = "BS" -> "escape"
          [] st = "string" /\ c \notin Keys \cup {"QU", "BS", "CR", "LF"} -> "string"
          [] st = "escape" /\ c \in {"QU", "BS", "n", "r"} -> "string"
          [] st = "value" /\ c = "QU" -> "string"
          [] st \in {"next", "value"} /\ c \in {"{", "}"} -> "next"
          [] st = "next" /\ c \in Keys -> "value"
          [] OTHER -> "error"
  IN FoldLeft(lex, "next", t) = "next"
=============================================================================
