------------------------------ MODULE Services ------------------------------
(***************************************************************************)
(* The request and response handlers of the three services in DPUmesh      *)
(* mode, as functions of what they are given.  A handler either responds   *)
(* to its client or calls an upstream service; the frontend carries its    *)
(* progress from call to call in a frontend_ctx_t.                         *)
(***************************************************************************)
EXTENDS Shm

CONSTANTS
  IdKeys,       (* the names that data/ids.json knows                *)
  AttendKeys    (* the ids that data/attendance.json knows           *)

Context == [stage : {"id", "attend"}, name : Client \cup {Nil}, id : Client \cup {Nil}]

Respond(status, body) == [act |-> "respond", status |-> status, body |-> body]
Call(svc, name, ctx) == [act |-> "call", svc |-> svc, name |-> name, ctx |-> ctx]

(* Mutant of HandleFrontend: the name is not kept in the context.          *)
HandleFrontendNameless(name) ==
  Call("id-service", name, [stage |-> "id", name |-> Nil, id |-> Nil])

HandleFrontend(name) ==
  Call("id-service", name, [stage |-> "id", name |-> name, id |-> Nil])

HandleId(name) ==
  IF name \in IdKeys THEN Respond(200, [NoBody EXCEPT !.id = name])
                     ELSE Respond(404, NoBody)

HandleAttend(id) ==
  IF id \in AttendKeys THEN Respond(200, [NoBody EXCEPT !.att = id])
                       ELSE Respond(404, NoBody)

(* handle_request of each service.                                         *)
HandleRequest(svc, h) ==
  CASE h.ask = "badpath" -> Respond(404, NoBody)
    [] h.ask = "noname" -> Respond(400, NoBody)
    [] h.ask = "lookup" /\ svc = "frontend" -> HandleFrontend(h.name)
    [] h.ask = "lookup" /\ svc = "id-service" -> HandleId(h.name)
    [] h.ask = "lookup" /\ svc = "attend-service" -> HandleAttend(h.name)

(* handle_upstream_response of the frontend.  A body without the text      *)
(* "true" counts as not attended, whatever it is.                          *)
HandleUpstreamResponse(ctx, status, body) ==
  CASE status # 200 -> Respond(status, body)
    [] status = 200 /\ ctx.stage = "id" ->
         IF body.id = Nil THEN Respond(502, NoBody)
         ELSE Call("attend-service", body.id,
                   [stage |-> "attend", name |-> ctx.name, id |-> body.id])
    [] status = 200 /\ ctx.stage = "attend" ->
         Respond(200, [name |-> ctx.name, id |-> ctx.id, att |-> body.att])
=============================================================================
