------------------------------ MODULE HostLib ------------------------------
(***************************************************************************)
(* A worker process: the DPUmesh library (common/dpumesh.c) and the event  *)
(* handlers on top of it (common/dpumesh_handler.c).  Two threads: the     *)
(* poller takes descriptors from the worker's receive queue and passes     *)
(* them on through pipes, the main thread runs the event loop.             *)
(*                                                                         *)
(* The pipe of an upstream call is named by the call's request id (each    *)
(* call makes a new pipe); 0 is "no pipe", fd -1.                          *)
(***************************************************************************)
EXTENDS Services

CONSTANTS
  MaxPending,   (* DPUMESH_MAX_PENDING                                 *)
  PipeCap       (* how many descriptors the notify pipe holds          *)

ASSUME HostAssumption ==
  /\ MaxPending \in Nat \ {0}
  /\ PipeCap \in Nat \ {0}

VARIABLES
  next_req_id,    (* of each worker                                    *)
  response_pipe,  (* response_pipe_fds: the write end per table index  *)
  inbound,        (* routing metadata of requests, per table index     *)
  notify,         (* the notify pipe                                   *)
  delivered,      (* descriptors written to the pipes of calls         *)
  waiting,        (* upstream connections with a read event            *)
  main, poller    (* the locals of the two threads                     *)

calls == <<next_req_id, response_pipe>>
pipes == <<notify, delivered, waiting>>
hostVars == <<calls, inbound, pipes, main, poller>>

TableIndex == 0 .. (MaxPending - 1)
Inbound == [req_id : Nat, rid : Client \cup {Nil}, src : Worker \cup {Nil}]

IdleMain == [pc |-> "idle", rx_header |-> Nil, rx_body |-> Nil,
             tx_header |-> Nil, tx_body |-> Nil,
             msg |-> Nil, conn |-> Nil, resp |-> Nil]
IdlePoller == [pc |-> "poll", desc |-> Nil, idx |-> 0]

HostInit ==
  /\ next_req_id = [w \in Worker |-> 1]
  /\ response_pipe = [w \in Worker |-> [i \in TableIndex |-> 0]]
  /\ inbound = [w \in Worker |->
                 [i \in TableIndex |-> [req_id |-> 0, rid |-> Nil, src |-> Nil]]]
  /\ notify = [w \in Worker |-> << >>]
  /\ delivered = [w \in Worker |-> {}]
  /\ waiting = [w \in Worker |-> {}]
  /\ main = [w \in Worker |-> IdleMain]
  /\ poller = [w \in Worker |-> IdlePoller]
-----------------------------------------------------------------------------
(* dpumesh_poller_fn                                                       *)

PollerGet(w) ==
  /\ poller[w].pc = "poll"
  /\ rx_sq[w] # << >>
  /\ rx_sq' = [rx_sq EXCEPT ![w] = Tail(@)]
  /\ poller' = [poller EXCEPT ![w].pc = "dispatch", ![w].desc = Head(rx_sq[w])]
  /\ UNCHANGED <<mem, tx_sq, sidecar_tx_sq, sidecar_rx_sq>>
  /\ UNCHANGED <<calls, inbound, pipes, main>>

(* A request goes to the notify pipe.  The write end is non-blocking and   *)
(* the result of the write is not looked at.                               *)
PollerNotify(w) ==
  /\ poller[w].pc = "dispatch"
  /\ poller[w].desc.op = "req"
  /\ notify' = [notify EXCEPT ![w] =
                  IF Len(@) < PipeCap THEN Append(@, poller[w].desc) ELSE @]
  /\ poller' = [poller EXCEPT ![w] = IdlePoller]
  /\ UNCHANGED <<calls, inbound, delivered, waiting, main, shmVars>>

(* Mutants of PipeFor: the next entry of the table; any pipe that is open. *)
PipeForNext(w, d) == response_pipe[w][(d.req_id + 1) % MaxPending]
PipeForAny(w, d) ==
  LET open == {i \in TableIndex : response_pipe[w][i] # 0}
  IN IF open = {} THEN 0 ELSE response_pipe[w][CHOOSE i \in open : TRUE]

PipeFor(w, d) == response_pipe[w][d.req_id % MaxPending]

(* A response goes to the pipe found at its table index...                 *)
PollerDeliver(w) ==
  /\ poller[w].pc = "dispatch"
  /\ poller[w].desc.op = "resp"
  /\ LET d == poller[w].desc
     IN /\ PipeFor(w, d) # 0
        /\ delivered' = [delivered EXCEPT ![w] =
                           @ \cup {[pipe |-> PipeFor(w, d), desc |-> d]}]
        /\ poller' = [poller EXCEPT ![w] = [pc |-> "close", desc |-> Nil,
                                            idx |-> d.req_id % MaxPending]]
  /\ UNCHANGED <<calls, inbound, notify, waiting, main, shmVars>>

(* ...or, when there is none, nowhere: nobody frees its buffers.           *)
PollerDrop(w) ==
  /\ poller[w].pc = "dispatch"
  /\ poller[w].desc.op = "resp"
  /\ PipeFor(w, poller[w].desc) = 0
  /\ poller' = [poller EXCEPT ![w] = IdlePoller]
  /\ UNCHANGED <<calls, inbound, pipes, main, shmVars>>

(* The table entry is cleared after the write and the close, whatever the  *)
(* main thread may have put there meanwhile.                               *)
PollerClose(w) ==
  /\ poller[w].pc = "close"
  /\ response_pipe' = [response_pipe EXCEPT ![w][poller[w].idx] = 0]
  /\ poller' = [poller EXCEPT ![w] = IdlePoller]
  /\ UNCHANGED <<next_req_id, inbound, pipes, main, shmVars>>

Poller(w) == \/ PollerGet(w) \/ PollerNotify(w) \/ PollerDeliver(w)
             \/ PollerDrop(w) \/ PollerClose(w)
-----------------------------------------------------------------------------
(* The start of dpumesh_write: the message and the locals it is sent with. *)

ResponseMsg(w, ib, status, body) ==
  [op |-> "resp", case |-> IF ib.src = Nil THEN "ingress" ELSE "local",
   req_id |-> ib.req_id,
   header |-> [ask |-> "lookup", svc |-> Nil, name |-> Nil, status |-> status,
               rid |-> ib.rid, src |-> w, dst |-> ib.src],
   body |-> body]

RequestMsg(w, svc, name) ==
  [op |-> "req", case |-> "local", req_id |-> next_req_id[w],
   header |-> [ask |-> "lookup", svc |-> svc, name |-> name, status |-> 0,
               rid |-> Nil, src |-> w, dst |-> Nil],
   body |-> NoBody]

(* Worker w, with locals m, does what the handler of connection idx says.  *)
(* ib is the inbound entry at idx.                                         *)
StartRespond(w, m, idx, ib, out) ==
  /\ out.act = "respond"
  /\ main' = [main EXCEPT ![w] =
                [m EXCEPT !.pc = "header",
                          !.msg = ResponseMsg(w, ib, out.status, out.body),
                          !.conn = [idx |-> idx, ctx |-> Nil]]]
  /\ UNCHANGED <<calls>>

StartCall(w, m, idx, out) ==
  /\ out.act = "call"
  /\ main' = [main EXCEPT ![w] =
                [m EXCEPT !.pc = "header",
                          !.msg = RequestMsg(w, out.svc, out.name),
                          !.conn = [idx |-> idx, ctx |-> out.ctx]]]
  /\ next_req_id' = [next_req_id EXCEPT ![w] = @ + 1]
  /\ response_pipe' = [response_pipe EXCEPT
                         ![w][next_req_id[w] % MaxPending] = next_req_id[w]]

(* dpumesh_read: one descriptor from the notify pipe, its metadata into    *)
(* the inbound table, and the request handler.                             *)
OnRequest(w) ==
  /\ main[w].pc \in {"idle", "reading"}
  /\ notify[w] # << >>
  /\ LET d == Head(notify[w])
         h == ReadSlot(IF d.case = "ingress" THEN d.body ELSE d.header)
         idx == d.req_id % MaxPending
         ib == [req_id |-> d.req_id, rid |-> h.rid, src |-> h.src]
         m == [IdleMain EXCEPT !.rx_header = d.header, !.rx_body = d.body]
         out == HandleRequest(ServiceOf[w], h)
     IN /\ inbound' = [inbound EXCEPT ![w][idx] = ib]
        /\ \/ StartRespond(w, m, idx, ib, out)
           \/ StartCall(w, m, idx, out)
  /\ notify' = [notify EXCEPT ![w] = Tail(@)]
  /\ UNCHANGED <<delivered, waiting, poller, shmVars>>

(* on_upstream_response_cb: the descriptor of one call is read from its    *)
(* pipe and the buffers are copied out.                                    *)
OnResponse(w) ==
  /\ main[w].pc = "idle"
  /\ \E u \in waiting[w], r \in delivered[w] :
       /\ u.pipe = r.pipe
       /\ waiting' = [waiting EXCEPT ![w] = @ \ {u}]
       /\ delivered' = [delivered EXCEPT ![w] = @ \ {r}]
       /\ main' = [main EXCEPT ![w] =
                     [IdleMain EXCEPT
                        !.pc = "free_resp",
                        !.rx_header = r.desc.header, !.rx_body = r.desc.body,
                        !.conn = [idx |-> u.idx, ctx |-> u.ctx],
                        !.resp = [status |-> ReadSlot(r.desc.header).status,
                                  body |-> ReadSlot(r.desc.body)]]]
  /\ UNCHANGED <<calls, inbound, notify, poller, shmVars>>

(* The upstream handler, once the buffers are free.                        *)
Upstream(w) ==
  /\ main[w].pc = "upstream"
  /\ LET c == main[w].conn
         r == main[w].resp
         out == HandleUpstreamResponse(c.ctx, r.status, r.body)
     IN \/ StartRespond(w, IdleMain, c.idx, inbound[w][c.idx], out)
        \/ StartCall(w, IdleMain, c.idx, out)
  /\ UNCHANGED <<inbound, pipes, poller, shmVars>>

(* The receive buffers are freed, the header first: after the handler of a *)
(* request, before the handler of a response.                              *)
FreeRxHeader(w) ==
  /\ main[w].pc \in {"free_req", "free_resp"}
  /\ main[w].rx_header # Nil
  /\ FreeSlot(main[w].rx_header)
  /\ main' = [main EXCEPT ![w].rx_header = Nil]
  /\ UNCHANGED <<calls, inbound, pipes, poller, sqs>>

(* Mutant of FreeRxBody: the header is left behind.                        *)
FreeRxBodyOnly(w) ==
  /\ main[w].pc \in {"free_req", "free_resp"}
  /\ FreeSlot(main[w].rx_body)
  /\ main' = [main EXCEPT ![w].rx_header = Nil, ![w].rx_body = Nil,
                          ![w].pc = IF @ = "free_resp" THEN "upstream" ELSE "idle"]
  /\ UNCHANGED <<calls, inbound, pipes, poller, sqs>>

(* After a request dpumesh_read goes on with the next one in the pipe, and *)
(* back to the event loop when there is none.                              *)
FreeRxBody(w) ==
  /\ main[w].pc \in {"free_req", "free_resp"}
  /\ main[w].rx_header = Nil
  /\ FreeSlot(main[w].rx_body)
  /\ main' = [main EXCEPT ![w].rx_body = Nil,
                          ![w].pc = CASE @ = "free_resp" -> "upstream"
                                      [] @ = "free_req" /\ notify[w] # << >> -> "reading"
                                      [] OTHER -> "idle"]
  /\ UNCHANGED <<calls, inbound, pipes, poller, sqs>>
-----------------------------------------------------------------------------
(* The rest of dpumesh_write: header buffer, body buffer, descriptor.      *)

WriteHeader(w) ==
  LET p == HostPool(w, "tx_header")
  IN /\ main[w].pc = "header"
     /\ \/ /\ Full(p)
           /\ main' = [main EXCEPT ![w].pc = "failed"]
           /\ UNCHANGED mem
        \/ /\ ~Full(p)
           /\ AllocWrite(p, main[w].msg.header)
           /\ main' = [main EXCEPT ![w].pc = "body", ![w].tx_header = NewRef(p)]
     /\ UNCHANGED <<calls, inbound, pipes, poller, sqs>>

WriteBody(w) ==
  LET p == HostPool(w, "tx_body")
  IN /\ main[w].pc = "body"
     /\ \/ /\ Full(p)
           /\ main' = [main EXCEPT ![w].pc = "undo"]
           /\ UNCHANGED mem
        \/ /\ ~Full(p)
           /\ AllocWrite(p, main[w].msg.body)
           /\ main' = [main EXCEPT ![w].pc = "put", ![w].tx_body = NewRef(p)]
     /\ UNCHANGED <<calls, inbound, pipes, poller, sqs>>

(* Mutant of AfterHandler: the thread remembers the buffers it has sent.   *)
AfterHandlerKeeps(m) == [m EXCEPT !.pc = IF m.rx_body = Nil THEN "idle" ELSE "free_req"]

(* Where the thread goes when the handler returns: dpumesh_read still has  *)
(* the buffers of the request to free.                                     *)
AfterHandler(m) ==
  IF m.rx_body = Nil THEN IdleMain
  ELSE [IdleMain EXCEPT !.pc = "free_req", !.rx_header = m.rx_header, !.rx_body = m.rx_body]

(* dr_put.  A call that went out gets a read event on its pipe.            *)
Enqueue(w) ==
  LET m == main[w]
      d == [op |-> m.msg.op, case |-> m.msg.case, req_id |-> m.msg.req_id,
            dst |-> Nil, header |-> m.tx_header, body |-> m.tx_body]
  IN /\ m.pc = "put"
     /\ \/ /\ Room(tx_sq[w])
           /\ tx_sq' = [tx_sq EXCEPT ![w] = Append(@, d)]
           /\ waiting' = [waiting EXCEPT ![w] =
                IF m.msg.op = "req"
                THEN @ \cup {[pipe |-> m.msg.req_id, idx |-> m.conn.idx, ctx |-> m.conn.ctx]}
                ELSE @]
           /\ main' = [main EXCEPT ![w] = AfterHandler(m)]
        \/ /\ ~Room(tx_sq[w])
           /\ main' = [main EXCEPT ![w].pc = "undo"]
           /\ UNCHANGED <<tx_sq, waiting>>
     /\ UNCHANGED <<calls, inbound, notify, delivered, poller>>
     /\ UNCHANGED <<mem, rx_sq, sidecar_tx_sq, sidecar_rx_sq>>

(* The error paths of dpumesh_write free what it had allocated.            *)
UndoHeader(w) ==
  /\ main[w].pc = "undo"
  /\ main[w].tx_header # Nil
  /\ FreeSlot(main[w].tx_header)
  /\ main' = [main EXCEPT ![w].tx_header = Nil,
                          ![w].pc = IF main[w].tx_body = Nil THEN "failed" ELSE "undo"]
  /\ UNCHANGED <<calls, inbound, pipes, poller, sqs>>

UndoBody(w) ==
  /\ main[w].pc = "undo"
  /\ main[w].tx_header = Nil
  /\ FreeSlot(main[w].tx_body)
  /\ main' = [main EXCEPT ![w].tx_body = Nil, ![w].pc = "failed"]
  /\ UNCHANGED <<calls, inbound, pipes, poller, sqs>>

(* A call that could not be sent is answered with 502; a response that     *)
(* could not be sent is forgotten.                                         *)
WriteFailed(w) ==
  LET m == main[w]
      idx == m.conn.idx
      clean == [AfterHandler(m) EXCEPT !.pc = "header"]
  IN /\ m.pc = "failed"
     /\ \/ /\ m.msg.op = "req"
           /\ StartRespond(w, clean, idx, inbound[w][idx], Respond(502, NoBody))
        \/ /\ m.msg.op = "resp"
           /\ main' = [main EXCEPT ![w] = AfterHandler(m)]
           /\ UNCHANGED <<calls>>
     /\ UNCHANGED <<inbound, pipes, poller, shmVars>>

Main(w) == \/ OnRequest(w) \/ OnResponse(w) \/ Upstream(w)
           \/ FreeRxHeader(w) \/ FreeRxBody(w)
           \/ WriteHeader(w) \/ WriteBody(w) \/ Enqueue(w)
           \/ UndoHeader(w) \/ UndoBody(w) \/ WriteFailed(w)
=============================================================================
