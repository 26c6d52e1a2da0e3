------------------------------- MODULE MCMesh -------------------------------
(***************************************************************************)
(* Small nodes: one worker for each service, or two frontends.             *)
(***************************************************************************)
EXTENDS Mesh

CONSTANTS f1, f2, i1, a1, c1, c2, c3

MCServiceOf == [w \in Worker |-> CASE w \in {f1, f2} -> "frontend"
                                   [] w = i1 -> "id-service"
                                   [] w = a1 -> "attend-service"]
MCPodId == [w \in Worker |-> CASE w = f1 -> 1 [] w = i1 -> 2 [] w = a1 -> 3 [] w = f2 -> 4]

MCLookups == [c \in Client |-> "lookup"]
MCOneBad == [c \in Client |-> IF c = c2 THEN "noname" ELSE "lookup"]
MCThree == [c \in Client |-> IF c = c3 THEN "noname" ELSE "lookup"]
MCRefused == [c \in Client |-> CASE c = c1 -> "nosvc" [] c = c2 -> "big" [] OTHER -> "lookup"]
=============================================================================
