----------------------------- MODULE MCStartup -----------------------------
(***************************************************************************)
(* A frontend worker, the one that replaces it, and an id-service worker.  *)
(***************************************************************************)
EXTENDS Startup

CONSTANTS f1, f2, i1

MCNameOf == [w \in Worker |-> IF w = i1 THEN "id-service-worker-0" ELSE "frontend-worker-0"]
MCServiceOf == [w \in Worker |-> IF w = i1 THEN "id-service" ELSE "frontend"]
=============================================================================
