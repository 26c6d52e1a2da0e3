------------------------------- MODULE MCTcp -------------------------------
(***************************************************************************)
(* Clients of the TCP services.                                            *)
(***************************************************************************)
EXTENDS TcpServices

CONSTANTS c1, c2, c3

MCLookups == [c \in Client |-> "lookup"]
MCLong == [c \in Client |-> IF c = c3 THEN "long" ELSE "lookup"]
MCNoName == [c \in Client |-> IF c = c2 THEN "noname" ELSE "lookup"]
=============================================================================
