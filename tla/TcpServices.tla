---------------------------- MODULE TcpServices ----------------------------
(***************************************************************************)
(* The services in TCP mode: clients, the frontend and the id and attend   *)
(* services, all on common/tcp_handler.c.  Each service is one thread      *)
(* running a libevent loop, so a step is one whole callback.  The server   *)
(* side of every connection runs the same code; the client side of a call  *)
(* is the upstream half of the frontend's handler.  Bytes are counted in   *)
(* pieces: requests carry no content, a piece of a response carries the    *)
(* response it is a piece of.                                              *)
(*                                                                         *)
(* http_parse_request never fails and the services never send a malformed  *)
(* response, so the branches "bad request", "upstream bad response" and    *)
(* "bad id response" are never taken; calloc and event_new do not fail.    *)
(***************************************************************************)
EXTENDS Naturals, Sequences, FiniteSets

CONSTANTS
  Client, Nil,
  Asks,               (* what each client asks                            *)
  IdKeys, AttendKeys, (* the names and ids the two services know          *)
  ReqLen, ResLen,     (* pieces in a request and in a response            *)
  BufLen,             (* pieces that fit into rbuf, the final NUL aside   *)
  Window,             (* pieces the kernel takes before write() is short  *)
  ClientsLeave,       (* clients may close before they have the answer    *)
  ClientsSendMore,    (* clients may send a piece more than the request   *)
  UpstreamFails       (* calls may be refused, cut off or end early       *)

ASSUME TcpAssumption ==
  /\ Asks \in [Client -> {"lookup", "noname", "badpath", "long"}]
  /\ {ReqLen, ResLen, BufLen, Window} \subseteq Nat \ {0}
  /\ ReqLen <= BufLen
  /\ {ClientsLeave, ClientsSendMore, UpstreamFails} \subseteq BOOLEAN

(* One piece too many runs the handler once more, and each run makes two   *)
(* calls.                                                                  *)
MaxCalls == 4
Call == Client \X (1..MaxCalls)
Conn == Client \cup Call

VARIABLES
  net,    (* the two byte streams of each connection, and who closed it   *)
  conn,   (* conn_t of the server side of each connection                 *)
  uc,     (* conn_t of the frontend's side of each call                   *)
  ctx,    (* frontend_ctx_t, named after the call it was allocated for    *)
  peer,   (* the clients                                                  *)
  over    (* how the frontend process has ended                           *)

vars == <<net, conn, uc, ctx, peer, over>>

(* The pieces that have come to client c.                                  *)
Received(c) == peer[c].got \o net[c].res

L == INSTANCE Lookup WITH
       Failures <- {502},
       answer <- [c \in Client |-> IF Received(c) = << >> THEN Nil ELSE Head(Received(c))]

NoBody == L!NoBody
Reply(status, body) == [status |-> status, body |-> body]
BadGateway == Reply(502, NoBody)

Body == [name : Client \cup {Nil}, id : Client \cup {Nil}, att : Client \cup {Nil}]
Replies == [status : {200, 400, 404, 502}, body : Body]
Context == [stage : {"id", "attend"}, name : Client, id : Client \cup {Nil}]

(* Clients and calls are told apart, and Nil is like nothing that is kept. *)
ASSUME DistinctAssumption ==
  /\ Client \cap Call = {}
  /\ Nil \notin Client \cup Call \cup Replies \cup Context
               \cup {"frontend", "id", "attend"}

Init ==
  /\ net = [k \in Conn |-> [req |-> 0, res |-> << >>, left |-> FALSE, closed |-> FALSE]]
  /\ conn = [k \in Conn |-> [st |-> "none", rlen |-> 0, wbuf |-> Nil, wpos |-> 0]]
  /\ uc = [u \in Call |-> [st |-> "none", to |-> Nil, arg |-> Nil, ctx |-> Nil,
                           wpos |-> 0, rbuf |-> << >>]]
  /\ ctx = [u \in Call |-> Nil]
  /\ peer = [c \in Client |-> [st |-> "new", sent |-> 0, got |-> << >>]]
  /\ over = "no"

Alive(k) == k \in Client => over = "no"
-----------------------------------------------------------------------------
(* conn_free, conn_start_response, conn_start_upstream                     *)

ConnFree(k) ==
  /\ conn' = [conn EXCEPT ![k].st = "freed"]
  /\ net' = [net EXCEPT ![k].closed = TRUE]

(* Mutant: the first piece is skipped.                                     *)
StartResponseKeepsPos(k, r) ==
  conn' = [conn EXCEPT ![k].st = "write", ![k].wbuf = r, ![k].wpos = 1] /\ UNCHANGED over

(* The event for reading is replaced by one for writing.  Nothing protects *)
(* against a conn_t that has been freed: what happens then is undefined.   *)
StartResponse(k, r) ==
  \/ /\ conn[k].st # "freed"
     /\ conn' = [conn EXCEPT ![k].st = "write", ![k].wbuf = r, ![k].wpos = 0]
     /\ UNCHANGED over
  \/ /\ conn[k].st = "freed"
     /\ over' = "wild"
     /\ UNCHANGED conn

(* Mutant: one frontend_ctx_t per client instead of one per request.       *)
StartUpstreamShared(to, arg, x) ==
  [st |-> "connect", to |-> to, arg |-> arg, ctx |-> <<x[1], 1>>, wpos |-> 0, rbuf |-> << >>]

NextCall(c) == <<c, 1 + Cardinality({u \in Call : u[1] = c /\ uc[u].st # "none"})>>
StartUpstream(to, arg, x) ==
  [st |-> "connect", to |-> to, arg |-> arg, ctx |-> x, wpos |-> 0, rbuf |-> << >>]
-----------------------------------------------------------------------------
(* handle_request of the services and of the frontend                      *)

(* Mutants: 500 for an unknown name; every name is known.                  *)
HandleId500(arg) == Reply(500, NoBody)
HandleIdAny(arg) == Reply(200, [NoBody EXCEPT !.id = arg])

HandleId(arg) ==
  IF arg \in IdKeys THEN Reply(200, [NoBody EXCEPT !.id = arg]) ELSE Reply(404, NoBody)

HandleAttend(arg) ==
  IF arg \in AttendKeys THEN Reply(200, [NoBody EXCEPT !.att = arg]) ELSE Reply(404, NoBody)

ServiceReply(u) == IF uc[u].to = "id" THEN HandleId(uc[u].arg) ELSE HandleAttend(uc[u].arg)

(* n more pieces have completed the request of client c.                   *)
HandleLookup(c, n) ==
  LET u == NextCall(c)
  IN \/ /\ uc' = [uc EXCEPT ![u] = StartUpstream("id", c, u)]
        /\ ctx' = [ctx EXCEPT ![u] = [stage |-> "id", name |-> c, id |-> Nil]]
        /\ conn' = [conn EXCEPT ![c].rlen = @ + n]
        /\ UNCHANGED over
     \/ /\ UpstreamFails
        /\ StartResponse(c, BadGateway)
        /\ UNCHANGED <<uc, ctx>>

HandleRequest(k, n) ==
  \/ k \in Client /\ Asks[k] = "lookup" /\ HandleLookup(k, n)
  \/ /\ k \in Client
     /\ Asks[k] # "lookup"
     /\ StartResponse(k, Reply(IF Asks[k] = "noname" THEN 400 ELSE 404, NoBody))
     /\ UNCHANGED <<uc, ctx>>
  \/ k \in Call /\ StartResponse(k, ServiceReply(k)) /\ UNCHANGED <<uc, ctx>>

(* handle_upstream_response: call u has been answered with r; the caller   *)
(* frees u in any case.                                                    *)
HandleUpstreamResponse(u, r) ==
  LET c == u[1]
      x == uc[u].ctx
      v == NextCall(c)
      freed == [uc EXCEPT ![u].st = "freed"]
  IN \/ /\ r.status # 200
        /\ StartResponse(c, r)
        /\ ctx' = [ctx EXCEPT ![x] = Nil]
        /\ uc' = freed
     \/ /\ r.status = 200
        /\ ctx[x].stage = "attend"
        /\ StartResponse(c, Reply(200, [name |-> ctx[x].name, id |-> ctx[x].id, att |-> r.body.att]))
        /\ ctx' = [ctx EXCEPT ![x] = Nil]
        /\ uc' = freed
     \/ /\ r.status = 200
        /\ ctx[x].stage = "id"
        /\ ctx' = [ctx EXCEPT ![x].stage = "attend", ![x].id = r.body.id]
        /\ uc' = [freed EXCEPT ![v] = StartUpstream("attend", r.body.id, x)]
        /\ over' = IF conn[c].st = "freed" THEN "wild" ELSE over
        /\ UNCHANGED conn
     \/ /\ r.status = 200
        /\ ctx[x].stage = "id"
        /\ UpstreamFails
        /\ StartResponse(c, BadGateway)
        /\ ctx' = [ctx EXCEPT ![x] = Nil]
        /\ uc' = freed
-----------------------------------------------------------------------------
(* The callbacks of the server side of a connection                        *)

(* The connections waiting to be accepted by service s, all taken at once. *)
Pending(s) ==
  {k \in Conn : /\ conn[k].st = "none"
                /\ IF k \in Client THEN s = "frontend" /\ peer[k].st # "new"
                                   ELSE s = uc[k].to}
OnAccept(s) ==
  /\ s = "frontend" => over = "no"
  /\ Pending(s) # {}
  /\ conn' = [k \in Conn |-> IF k \in Pending(s) THEN [conn[k] EXCEPT !.st = "read"]
                                                 ELSE conn[k]]
  /\ UNCHANGED <<net, uc, ctx, peer, over>>

(* http_parse_request has seen the whole request of connection k.          *)
Length(k) == IF k \in Client /\ Asks[k] = "long" THEN BufLen + 1 ELSE ReqLen

(* Mutant: the last piece is not waited for.                               *)
CompleteEarly(k, len) == len + 1 >= Length(k)

Complete(k, len) == len >= Length(k)

(* The event stays armed while a call is made for the request: whatever    *)
(* else arrives runs the handler again, and the end of the stream frees    *)
(* the connection.  When rbuf is full, read() is asked for nothing and     *)
(* returns 0, as at the end of the stream.                                 *)
OnClientRead(k) ==
  /\ conn[k].st = "read" /\ Alive(k)
  /\ \/ \E n \in 1..net[k].req :
          /\ conn[k].rlen + n <= BufLen
          /\ net' = [net EXCEPT ![k].req = @ - n]
          /\ \/ /\ ~Complete(k, conn[k].rlen + n)
                /\ conn' = [conn EXCEPT ![k].rlen = @ + n]
                /\ UNCHANGED <<uc, ctx, over>>
             \/ Complete(k, conn[k].rlen + n) /\ HandleRequest(k, n)
     \/ /\ IF net[k].req = 0 THEN net[k].left ELSE conn[k].rlen = BufLen
        /\ ConnFree(k)
        /\ UNCHANGED <<uc, ctx, over>>
  /\ UNCHANGED peer

(* A write to a client that is gone fails; when the kernel reports EPIPE   *)
(* it raises SIGPIPE as well, which nothing in the program ignores.        *)
OnClientWrite(k) ==
  /\ conn[k].st = "write" /\ Alive(k)
  /\ \/ \E n \in 1..(ResLen - conn[k].wpos) :
          /\ Len(net[k].res) + n <= Window
          /\ conn' = [conn EXCEPT ![k].wpos = @ + n,
                        ![k].st = IF conn[k].wpos + n = ResLen THEN "freed" ELSE @]
          /\ net' = [net EXCEPT ![k].res = @ \o [i \in 1..n |-> conn[k].wbuf],
                                ![k].closed = conn[k].wpos + n = ResLen]
          /\ UNCHANGED over
     \/ net[k].left /\ ConnFree(k) /\ UNCHANGED over
     \/ net[k].left /\ over' = "sigpipe" /\ UNCHANGED <<conn, net>>
  /\ UNCHANGED <<uc, ctx, peer>>
-----------------------------------------------------------------------------
(* The callbacks of the frontend's side of a call                          *)

(* Mutant: the upstream connection is freed without a word to the client.  *)
UpstreamFailedSilent(u) ==
  /\ uc' = [uc EXCEPT ![u].st = "freed"]
  /\ net' = [net EXCEPT ![u].left = TRUE]
  /\ UNCHANGED <<conn, ctx, over>>

(* Every failure answers the client with 502 and frees the connection, but *)
(* not the context.                                                        *)
UpstreamFailed(u) ==
  /\ StartResponse(u[1], BadGateway)
  /\ uc' = [uc EXCEPT ![u].st = "freed"]
  /\ net' = [net EXCEPT ![u].left = TRUE]
  /\ UNCHANGED ctx

OnUpstreamConnect(u) ==
  /\ uc[u].st = "connect" /\ over = "no"
  /\ \/ net[u].closed /\ UpstreamFailed(u)
     \/ /\ ~net[u].closed
        /\ uc' = [uc EXCEPT ![u].st = "write"]
        /\ UNCHANGED <<net, conn, ctx, over>>
  /\ UNCHANGED peer

OnUpstreamWrite(u) ==
  /\ uc[u].st = "write" /\ over = "no"
  /\ \/ \E n \in 1..(ReqLen - uc[u].wpos) :
          /\ net[u].req + n <= Window
          /\ net' = [net EXCEPT ![u].req = @ + n]
          /\ uc' = [uc EXCEPT ![u].wpos = @ + n,
                              ![u].st = IF uc[u].wpos + n = ReqLen THEN "read" ELSE @]
          /\ UNCHANGED <<conn, ctx, over>>
     \/ net[u].closed /\ UpstreamFailed(u)
     \/ net[u].closed /\ over' = "sigpipe" /\ UNCHANGED <<net, conn, uc, ctx>>
  /\ UNCHANGED peer

(* The end of the stream comes after the last byte: a complete response    *)
(* has been handled by then, so what is there at the end is incomplete.    *)
OnUpstreamRead(u) ==
  /\ uc[u].st = "read" /\ over = "no"
  /\ \/ \E n \in 1..Len(net[u].res) :
          LET rbuf == uc[u].rbuf \o SubSeq(net[u].res, 1, n)
          IN \/ /\ Len(rbuf) < ResLen
                /\ net' = [net EXCEPT ![u].res = SubSeq(@, n + 1, Len(@))]
                /\ uc' = [uc EXCEPT ![u].rbuf = rbuf]
                /\ UNCHANGED <<conn, ctx, over>>
             \/ /\ Len(rbuf) = ResLen
                /\ net' = [net EXCEPT ![u].res = << >>, ![u].left = TRUE]
                /\ HandleUpstreamResponse(u, Head(rbuf))
     \/ net[u].closed /\ net[u].res = << >> /\ UpstreamFailed(u)
  /\ UNCHANGED peer
-----------------------------------------------------------------------------
(* The clients, and the ways in which a service fails                      *)

ClientConnect(c) ==
  /\ peer[c].st = "new"
  /\ peer' = [peer EXCEPT ![c].st = "talking"]
  /\ UNCHANGED <<net, conn, uc, ctx, over>>

ClientSend(c) ==
  /\ peer[c].st = "talking"
  /\ peer[c].sent < Length(c) + (IF ClientsSendMore THEN 1 ELSE 0)
  /\ net[c].req < Window
  /\ ~net[c].closed
  /\ peer' = [peer EXCEPT ![c].sent = @ + 1]
  /\ net' = [net EXCEPT ![c].req = @ + 1]
  /\ UNCHANGED <<conn, uc, ctx, over>>

ClientRead(c) ==
  /\ peer[c].st = "talking"
  /\ net[c].res # << >>
  /\ peer' = [peer EXCEPT ![c].got = @ \o net[c].res]
  /\ net' = [net EXCEPT ![c].res = << >>]
  /\ UNCHANGED <<conn, uc, ctx, over>>

ClientLeave(c) ==
  /\ ClientsLeave
  /\ peer[c].st = "talking"
  /\ peer' = [peer EXCEPT ![c].st = "gone"]
  /\ net' = [net EXCEPT ![c].left = TRUE]
  /\ UNCHANGED <<conn, uc, ctx, over>>

(* The service refuses call u, or ends while it handles it.                *)
Break(u) ==
  /\ UpstreamFails
  /\ uc[u].st \in {"connect", "write", "read"}
  /\ ~net[u].closed
  /\ ConnFree(u)
  /\ UNCHANGED <<uc, ctx, peer, over>>

(* Nobody waits for anything any more.                                     *)
Rest ==
  /\ \/ over # "no"
     \/ \A c \in Client : peer[c].st = "gone" \/ net[c].closed
  /\ UNCHANGED vars

Callback(k) ==
  \/ OnClientRead(k) \/ OnClientWrite(k)
  \/ k \in Call /\ (OnUpstreamConnect(k) \/ OnUpstreamWrite(k) \/ OnUpstreamRead(k))

Next ==
  \/ \E s \in {"frontend", "id", "attend"} : OnAccept(s)
  \/ \E k \in Conn : Callback(k)
  \/ \E c \in Client : ClientConnect(c) \/ ClientSend(c) \/ ClientRead(c) \/ ClientLeave(c)
  \/ \E u \in Call : Break(u)
  \/ Rest

Spec == Init /\ [][Next]_vars

(* Each loop dispatches every event that is ready; clients connect, send   *)
(* their request and read.                                                 *)
FairSpec ==
  /\ Spec
  /\ \A s \in {"frontend", "id", "attend"} : WF_vars(OnAccept(s))
  /\ \A k \in Conn : WF_vars(OnClientRead(k)) /\ WF_vars(OnClientWrite(k))
  /\ \A u \in Call : WF_vars(OnUpstreamConnect(u)) /\ WF_vars(OnUpstreamWrite(u))
                     /\ WF_vars(OnUpstreamRead(u))
  /\ \A c \in Client : WF_vars(ClientConnect(c)) /\ WF_vars(ClientSend(c))
                       /\ WF_vars(ClientRead(c))
-----------------------------------------------------------------------------
(* Buffers, streams and contexts keep their ranges: rbuf is never filled   *)
(* beyond its length, a write position never passes the response.          *)
TypeOK ==
  /\ \A k \in Conn :
       /\ net[k].req \in 0..Window
       /\ Len(net[k].res) <= Window
       /\ \A i \in DOMAIN net[k].res : net[k].res[i] \in Replies
       /\ net[k].left \in BOOLEAN /\ net[k].closed \in BOOLEAN
       /\ conn[k].st \in {"none", "read", "write", "freed"}
       /\ conn[k].rlen \in 0..BufLen /\ conn[k].wpos \in 0..ResLen
       /\ conn[k].wbuf \in Replies \cup {Nil}
  /\ \A u \in Call :
       /\ uc[u].st \in {"none", "connect", "write", "read", "freed"}
       /\ uc[u].wpos \in 0..ReqLen /\ Len(uc[u].rbuf) < ResLen
       /\ uc[u].ctx \in Call \cup {Nil}
       /\ ctx[u] \in Context \cup {Nil}
  /\ \A c \in Client : /\ peer[c].st \in {"new", "talking", "gone"}
                       /\ peer[c].sent \in Nat
                       /\ \A i \in DOMAIN peer[c].got : peer[c].got[i] \in Replies
  /\ over \in {"no", "wild", "sigpipe"}

Open == {u \in Call : uc[u].st \in {"connect", "write", "read"}}

(* The frontend never touches a conn_t after conn_free: while a handler    *)
(* has a call under way for a client, the client's connection stays.       *)
NoUseAfterFree == over # "wild"

(* A request that has been read completely is being worked on: as long as  *)
(* its connection is not being answered, a call for it is open, whichever  *)
(* way calls fail.  Nothing else would ever answer the client.             *)
WaitingHasCall ==
  \A c \in Client :
    conn[c].st = "read" /\ conn[c].rlen >= Length(c) => \E u \in Open : u[1] = c

(* Each frontend_ctx_t belongs to exactly one open call and each open call *)
(* has one: contexts are neither leaked nor shared nor used after free.    *)
CtxOwned ==
  over = "no" =>
    /\ \A x \in Call : ctx[x] # Nil => \E u \in Open : uc[u].ctx = x
    /\ \A u \in Open : ctx[uc[u].ctx] # Nil
    /\ \A u, v \in Open : uc[u].ctx = uc[v].ctx => u = v

(* What a client has received is a prefix of one response, and the whole   *)
(* of it when the connection closes: no response is replaced while it is   *)
(* being written, cut off or sent twice, however reads and writes split.   *)
WholeAnswer ==
  \A c \in Client :
    /\ Len(Received(c)) <= ResLen
    /\ \A i \in DOMAIN Received(c) : Received(c)[i] = Head(Received(c))
    /\ net[c].closed /\ Asks[c] # "long" => Len(Received(c)) = ResLen

(* Over TCP the services keep the promise of Lookup: the one answer that   *)
(* handle_request and handle_upstream_response give a client is the answer *)
(* to its own question, whoever else asks, or a 502.                       *)
ImplementsLookup == L!Spec

(* All clients that send their requests and wait see the connection close  *)
(* with the answer, whatever calls fail, unless SIGPIPE ends the frontend. *)
Served == <>(over # "no" \/ \A c \in Client : net[c].closed)
=============================================================================
