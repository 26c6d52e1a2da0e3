------------------------------- MODULE Lookup -------------------------------
(***************************************************************************)
(* What the application promises its clients, over TCP or over DPUmesh:    *)
(* each client is answered at most once, with what the services say to its *)
(* own question asked alone, or with a status that reports a failure.      *)
(***************************************************************************)
EXTENDS Naturals

CONSTANTS
  Client, Nil,
  Asks,               (* what each client asks                            *)
  IdKeys, AttendKeys, (* the names and ids the two services know          *)
  Failures            (* statuses that report a failure on the way        *)

VARIABLE answer       (* what each client has been told, or Nil           *)

NoBody == [name |-> Nil, id |-> Nil, att |-> Nil]
Says(status, body) == [status |-> status, body |-> body]

Expected(c) ==
  CASE Asks[c] = "noname" -> Says(400, NoBody)
    [] Asks[c] = "lookup" /\ c \in IdKeys \cap AttendKeys ->
         Says(200, [name |-> c, id |-> c, att |-> c])
    [] OTHER -> Says(404, NoBody)

Init == answer = [c \in Client |-> Nil]

Tell(c, a) == answer[c] = Nil /\ answer' = [answer EXCEPT ![c] = a]

Next ==
  \E c \in Client : \/ Tell(c, Expected(c))
                    \/ \E f \in Failures : Tell(c, Says(f, NoBody))

Spec == Init /\ [][Next]_answer
=============================================================================
