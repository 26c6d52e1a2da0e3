------------------------------- MODULE MCWire -------------------------------
(***************************************************************************)
(* Names, queries and raw requests.                                        *)
(***************************************************************************)
EXTENDS Wire

Words(S, len) == UNION {[1..k -> S] : k \in 0..len}

(* The name alone, after a parameter that ends in its key, and twice.      *)
QueryWith(name) ==
  {<<"name", "=">> \o name, <<"x", "=", "name", "&", "name", "=">> \o name,
   <<"name", "=">> \o name \o <<"&", "name", "=", "y">>}

Ask(via, name, query, body) ==
  [via |-> via, path |-> <<"/lookup">>, name |-> name, query |-> query, body |-> body,
   headers |-> << >>, before |-> [path |-> <<"/lookup">>, query |-> <<"name", "=", "z">>]]

(* Lookups of names and with bodies made of the given tokens.              *)
Lookups(via, nameTokens, bodyTokens, bodyLen) ==
  UNION {{Ask(via, name, query, body) :
            query \in QueryWith(name), body \in Words(bodyTokens, bodyLen)} :
         name \in Words(nameTokens, 3)}

(* Any bytes whose Content-Length lines have a value.                      *)
Raw ==
  {Ask("raw", << >>, << >>, r) :
     r \in {s \in Words({"CR", "LF", "x", "CL", "1"}, 6)
                  \cup {<<"CL", "1", "CR", "LF">> \o t : t \in Words({"CR", "LF", "x", "1"}, 5)} :
            \A i \in DOMAIN s : s[i] = "CL" => i < Len(s) /\ s[i + 1] = "1"}}

(* Clients with a header of their own, of every length from one that fits  *)
(* to one that leaves no room for query and id, as the first or a later    *)
(* request of a worker.                                                    *)
WithHeader ==
  {[a EXCEPT !.headers = Member("x:", h), !.before.query = q] :
     a \in Lookups("mesh", {"x", "y"}, {"x"}, 1),
     h \in Words({"x"}, HeaderCap - 12), q \in {<< >>, <<"name", "=", "z">>}}

MCAsks ==
  WithHeader \cup Raw \cup Lookups("tcp", {"x", "y", "=", "?"}, {"x", "CL", "LF"}, 1)
      \cup Lookups("mesh", {"x", "y", "=", "?", "{"}, {"x", "QU", "{", "}"}, 2)

MCLong == WithHeader

(* What the mesh does not carry: braces and quotation marks in names, and  *)
(* backslashes and line ends in bodies.                                    *)
MCBrace == Lookups("mesh", {"x", "}"}, {"x"}, 2)
MCQuote == Lookups("mesh", {"x", "QU"}, {"x"}, 2)
MCBody == Lookups("mesh", {"x"}, {"x", "BS", "LF"}, 2)

MCFile ==
  <<[key |-> <<"x">>, value |-> <<"1">>], [key |-> <<"x", "y">>, value |-> <<"1", "1">>],
    [key |-> <<"x">>, value |-> <<"0">>], [key |-> <<"y">>, value |-> <<"0">>]>>
=============================================================================
