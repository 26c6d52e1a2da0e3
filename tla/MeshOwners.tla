----------------------------- MODULE MeshOwners -----------------------------
(***************************************************************************)
(* For any number of clients, workers, slots, queue cells and table        *)
(* entries: every buffer of the mesh is allocated as long as somebody      *)
(* refers to it and has one owner, on all success and error paths.         *)
(*                                                                         *)
(* The inductive invariant has two parts.  Shapes says what the locals of  *)
(* each thread are, depending on how far it is, and which descriptors each *)
(* queue holds.  Ownership says that there is a map own from buffers to    *)
(* owners that agrees with what every thread, queue and pipe refers to: an *)
(* action touches the owners it moves buffers between, and for all others  *)
(* nothing has changed.                                                    *)
(***************************************************************************)
EXTENDS Mesh, FiniteSetTheorems, FunctionTheorems, NaturalsInduction, WellFoundedInduction, TLAPS

(* The bridge has header and body of a request in one slot.                *)
Ingress(d) == d.op = "req" /\ d.case = "ingress"

(* Descriptors that worker w has received and has sent, that are on the    *)
(* DPU, and that have been routed to a worker.                             *)
ReceivedDesc(w) ==
  {d \in Descriptor :
     /\ d.body \in Ref /\ d.body.pool = HostPool(w, "rx_body")
     /\ Ingress(d) <=> d.header = Nil
     /\ d.header # Nil => d.header.pool = HostPool(w, "rx_header")}

SentDesc(w) ==
  {d \in Descriptor :
     /\ d.op = "req" => d.case = "local"
     /\ d.header \in Ref /\ d.header.pool = HostPool(w, "tx_header")
     /\ d.body \in Ref /\ d.body.pool = HostPool(w, "tx_body")}

TxBodyPool == Service \X {"tx_body"}
DpuDesc ==
  {d \in Descriptor :
     /\ d.op = "req" => d.case = "local"
     /\ d.header \in Ref /\ d.header.pool = DpuTxHeader
     /\ d.body \in Ref /\ d.body.pool \in TxBodyPool}

RoutedDesc ==
  {d \in Descriptor :
     /\ d.dst \in Worker
     /\ \/ d \in DpuDesc /\ d.case = "local"
        \/ /\ Ingress(d) /\ d.header = Nil
           /\ d.body \in Ref /\ d.body.pool = DpuRxBody}
-----------------------------------------------------------------------------
(* The locals of the threads.                                              *)
WritePc == {"header", "body", "put", "undo", "failed"}
Message == [op : {"req", "resp"}, case : {"ingress", "local"}, req_id : Nat, header : Header, body : Body]
Conn == [idx : TableIndex, ctx : Context \cup {Nil}]

MainShape(w, m) ==
  /\ m \in MainState
  /\ m.pc \in WritePc => m.msg \in Message /\ m.conn \in Conn
  /\ m.pc \in WritePc /\ m.msg.op = "req" => m.msg.case = "local" /\ m.conn.ctx \in Context
  /\ m.pc \in {"free_resp", "upstream"} => m.conn \in Conn /\ m.conn.ctx \in Context /\ m.resp \in Answers
  /\ m.rx_header # Nil => m.rx_header.pool = HostPool(w, "rx_header") /\ m.rx_body # Nil
  /\ m.rx_body # Nil => m.rx_body.pool = HostPool(w, "rx_body")
  /\ m.pc \in {"idle", "reading", "upstream"} => m.rx_body = Nil
  /\ m.pc \in {"free_req", "free_resp"} => m.rx_body # Nil
  /\ m.tx_header # Nil => m.tx_header.pool = HostPool(w, "tx_header")
  /\ m.tx_body # Nil => m.tx_body.pool = HostPool(w, "tx_body")
  /\ m.pc \notin {"body", "put", "undo"} => m.tx_header = Nil
  /\ m.pc \notin {"put", "undo"} => m.tx_body = Nil
  /\ m.pc \in {"body", "put"} => m.tx_header # Nil
  /\ m.pc = "put" => m.tx_body # Nil
  /\ m.pc = "undo" => m.tx_header # Nil \/ m.tx_body # Nil

PollerShape(w, p) ==
  /\ p \in [pc : {"poll", "dispatch", "close"}, desc : OptDesc, idx : TableIndex]
  /\ p.pc = "dispatch" => p.desc \in ReceivedDesc(w)
  /\ p.pc # "dispatch" => p.desc = Nil

DpaTxShape(d) ==
  /\ d \in [pc : {"poll", "copy", "requeue", "free", "put", "drop"}, src : Worker \cup {Nil},
            desc : OptDesc, header : OptRef]
  /\ d.pc = "poll" => d.desc = Nil
  /\ d.pc \in {"copy", "requeue", "free"} => d.src \in Worker /\ d.desc \in SentDesc(d.src)
  /\ d.pc \in {"put", "drop"} => d.desc \in DpuDesc
  /\ d.pc = "free" => d.header \in Ref /\ d.header.pool = DpuTxHeader
  /\ d.pc # "free" => d.header = Nil

DpaRxShape(d) ==
  /\ d \in [pc : {"poll", "body", "requeue", "free_body", "header", "free_header", "put", "drop"},
            desc : OptDesc, body : OptRef, header : OptRef]
  /\ d.pc = "poll" => d.desc = Nil
  /\ d.pc \in {"body", "requeue", "free_body"} => d.desc \in RoutedDesc
  /\ d.pc \in {"header", "free_header", "put"} =>
       d.desc # Nil /\ d.desc.dst \in Worker /\ d.desc.body = Nil
  /\ d.pc \in {"header", "free_header"} =>
       d.desc.case = "local" /\ d.desc.header \in Ref /\ d.desc.header.pool = DpuTxHeader
  /\ d.pc = "put" => d.desc.header = Nil /\ (Ingress(d.desc) <=> d.header = Nil)
  /\ d.pc = "drop" => /\ d.desc # Nil => d.desc.body = Nil /\ d.desc.header = Nil
                      /\ d.body # Nil \/ d.header # Nil
  /\ d.pc \in {"poll", "body", "requeue"} => d.body = Nil
  /\ d.pc \in {"poll", "body", "requeue", "free_body", "header"} => d.header = Nil
  /\ d.pc \in {"free_body", "header", "free_header", "put"} =>
       d.body \in Ref /\ d.body.pool = HostPool(d.desc.dst, "rx_body")
  /\ d.pc \in {"free_header", "put"} /\ d.header # Nil =>
       d.header.pool = HostPool(d.desc.dst, "rx_header")
  /\ d.pc = "free_header" => d.header # Nil

Reply == [rid : Client \cup {Nil}, status : Nat, body : Body]
ArmShape(a) ==
  /\ a \in [pc : {"poll", "route", "put", "cleanup", "free_header", "wake"}, desc : OptDesc,
            resp : Reply \cup {Nil}]
  /\ a.pc \in {"poll", "wake"} => a.desc = Nil
  /\ a.pc \in {"route", "put"} => a.desc \in DpuDesc
  /\ a.pc = "put" => a.desc.dst \in Worker /\ a.desc.case = "local"
  /\ a.pc \in {"cleanup", "free_header"} => a.desc # Nil /\ a.desc.header \in Ref
  /\ a.pc = "free_header" => a.desc.body = Nil
  /\ a.pc \in {"free_header", "wake"} => a.resp \in Reply

BridgeShape(c, b) ==
  /\ b \in [pc : {"new", "alloc", "put", "toobig", "full", "wait", "expired", "done"},
            dst : Worker \cup {Nil}, body : OptRef, answer : Answers \cup {Nil}]
  /\ b.pc \in {"alloc", "put"} => b.dst \in Worker
  /\ b.pc = "alloc" => Asks[c] # "nosvc"
  /\ b.pc \in {"put", "toobig", "full"} => b.body \in Ref /\ b.body.pool = DpuRxBody
  /\ b.pc \notin {"put", "toobig", "full"} => b.body = Nil

Waiting == [pipe : Nat, idx : TableIndex, ctx : Context]
Delivered(w) == [pipe : Nat \ {0}, desc : {d \in ReceivedDesc(w) : d.op = "resp"}]

QueueShapes ==
  /\ DOMAIN tx_sq = Worker /\ DOMAIN rx_sq = Worker
  /\ \A w \in Worker : /\ tx_sq[w] \in Seq(SentDesc(w)) /\ Len(tx_sq[w]) <= MaxDescriptors
                       /\ rx_sq[w] \in Seq(ReceivedDesc(w)) /\ Len(rx_sq[w]) <= MaxDescriptors
  /\ sidecar_tx_sq \in Seq(DpuDesc) /\ Len(sidecar_tx_sq) <= MaxDescriptors
  /\ sidecar_rx_sq \in Seq(RoutedDesc) /\ Len(sidecar_rx_sq) <= MaxDescriptors

HostShapes ==
  /\ next_req_id \in [Worker -> Nat \ {0}]
  /\ response_pipe \in [Worker -> [TableIndex -> Nat]]
  /\ inbound \in [Worker -> [TableIndex -> Inbound]]
  /\ DOMAIN notify = Worker /\ DOMAIN delivered = Worker /\ DOMAIN waiting = Worker
  /\ DOMAIN main = Worker /\ DOMAIN poller = Worker
  /\ \A w \in Worker :
       /\ notify[w] \in Seq({d \in ReceivedDesc(w) : d.op = "req"}) /\ Len(notify[w]) <= PipeCap
       /\ delivered[w] \subseteq Delivered(w)
       /\ waiting[w] \subseteq Waiting
       /\ MainShape(w, main[w]) /\ PollerShape(w, poller[w])

SidecarShapes ==
  /\ ArmShape(arm)
  /\ rr_idx \in [Service -> Nat]
  /\ DOMAIN bridge = Client
  /\ bridge_events \in [Client -> {"absent", "waiting", "set"}]
  /\ bridge_responses \in [Client -> Answers \cup {Nil, None}]
  /\ \A c \in Client : /\ BridgeShape(c, bridge[c])
                       /\ bridge_events[c] = "set" => bridge_responses[c] \in Answers

Shapes ==
  /\ mem \in [Pool -> [Slot -> Contents]]
  /\ QueueShapes /\ HostShapes
  /\ DpaTxShape(dpaTx) /\ DpaRxShape(dpaRx)
  /\ SidecarShapes
-----------------------------------------------------------------------------
(* An owner of a buffer: a thread's locals, a queue or a pipe, and what    *)
(* the buffer is there: a header, a message (header and body) or a body.   *)
Nobody == [part |-> <<"nobody", Nil>>, use |-> "none"]
Owns(own, part, use, r) == r \in Ref /\ own[r] = [part |-> part, use |-> use]

Owners(own) ==
  \A r \in Ref : own[r] = Nobody \/ own[r].use \in {"header", "message", "body"}

Memory(own, m) ==
  \A r \in Ref : /\ own[r].use \in {"header", "message"} => m[r.pool][r.slot] \in Header
                 /\ own[r].use = "body" => m[r.pool][r.slot] \in Body

HasHeader(own, part, r) == r # Nil => Owns(own, part, "header", r)
HasBody(own, part, use, r) == r # Nil => Owns(own, part, use, r)
HasAny(own, part, r) == r # Nil => Owns(own, part, "message", r) \/ Owns(own, part, "body", r)

BodyAs(d) == IF Ingress(d) THEN "message" ELSE "body"
Carries(own, part, d) ==
  d # Nil => HasHeader(own, part, d.header) /\ HasBody(own, part, BodyAs(d), d.body)

(* No buffer is in two entries of a queue.                                 *)
Apart(d, e) == d.body # e.body /\ (d.header = e.header => d.header = Nil)
Holds(own, part, q) ==
  /\ \A i \in DOMAIN q : Carries(own, part, q[i])
  /\ \A i, j \in DOMAIN q : i # j => Apart(q[i], q[j])
Pipes(own, part, D) ==
  /\ \A r \in D : Carries(own, part, r.desc)
  /\ \A r, s \in D : r # s => Apart(r.desc, s.desc)

(* The owners, and what own must be for those of them in S.                *)
Part == ({"main rx", "main tx", "poller", "tx_sq", "rx_sq", "notify", "pipe"} \X Worker)
        \cup ({"dpaTx", "dpaTx copy", "dpaRx", "dpaRx copy", "arm", "sidecar_tx_sq", "sidecar_rx_sq"}
              \X {Nil})
        \cup ({"bridge"} \X Client)

WorkerOwns(own, S, w) ==
  /\ <<"main rx", w>> \in S => /\ HasHeader(own, <<"main rx", w>>, main[w].rx_header)
                               /\ HasAny(own, <<"main rx", w>>, main[w].rx_body)
  /\ <<"main tx", w>> \in S => /\ HasHeader(own, <<"main tx", w>>, main[w].tx_header)
                               /\ HasBody(own, <<"main tx", w>>, "body", main[w].tx_body)
  /\ <<"poller", w>> \in S => Carries(own, <<"poller", w>>, poller[w].desc)
  /\ <<"tx_sq", w>> \in S => Holds(own, <<"tx_sq", w>>, tx_sq[w])
  /\ <<"rx_sq", w>> \in S => Holds(own, <<"rx_sq", w>>, rx_sq[w])
  /\ <<"notify", w>> \in S => Holds(own, <<"notify", w>>, notify[w])
  /\ <<"pipe", w>> \in S => Pipes(own, <<"pipe", w>>, delivered[w])

DpaOwns(own, S) ==
  /\ <<"dpaTx", Nil>> \in S => Carries(own, <<"dpaTx", Nil>>, dpaTx.desc)
  /\ <<"dpaTx copy", Nil>> \in S => HasHeader(own, <<"dpaTx copy", Nil>>, dpaTx.header)
  /\ <<"dpaRx", Nil>> \in S => Carries(own, <<"dpaRx", Nil>>, dpaRx.desc)
  /\ <<"dpaRx copy", Nil>> \in S =>
       /\ HasHeader(own, <<"dpaRx copy", Nil>>, dpaRx.header)
       /\ HasAny(own, <<"dpaRx copy", Nil>>, dpaRx.body)
       /\ dpaRx.pc # "drop" => HasBody(own, <<"dpaRx copy", Nil>>, BodyAs(dpaRx.desc), dpaRx.body)

SidecarOwns(own, S) ==
  /\ <<"arm", Nil>> \in S => Carries(own, <<"arm", Nil>>, arm.desc)
  /\ <<"sidecar_tx_sq", Nil>> \in S => Holds(own, <<"sidecar_tx_sq", Nil>>, sidecar_tx_sq)
  /\ <<"sidecar_rx_sq", Nil>> \in S => Holds(own, <<"sidecar_rx_sq", Nil>>, sidecar_rx_sq)
  /\ \A c \in Client : <<"bridge", c>> \in S =>
       /\ HasAny(own, <<"bridge", c>>, bridge[c].body)
       /\ bridge[c].pc = "put" => HasBody(own, <<"bridge", c>>, "message", bridge[c].body)

Agrees(own, S) ==
  (\A w \in Worker : WorkerOwns(own, S, w)) /\ DpaOwns(own, S) /\ SidecarOwns(own, S)

OwnInv(own) == Owners(own) /\ Memory(own, mem) /\ Agrees(own, Part)

IInv == Shapes /\ \E own : OwnInv(own)
-----------------------------------------------------------------------------
(* A step moves buffers only from owners in P, and changes no others.      *)
Touches(own, o, P) == \A r \in Ref : own[r].part \notin P => o[r] = own[r]

Others(P) ==
  /\ \A w \in Worker :
       /\ <<"main rx", w>> \in P \/ /\ main'[w].rx_header = main[w].rx_header
                                    /\ main'[w].rx_body = main[w].rx_body
       /\ <<"main tx", w>> \in P \/ /\ main'[w].tx_header = main[w].tx_header
                                    /\ main'[w].tx_body = main[w].tx_body
       /\ <<"poller", w>> \in P \/ poller'[w].desc = poller[w].desc
       /\ <<"tx_sq", w>> \in P \/ tx_sq'[w] = tx_sq[w]
       /\ <<"rx_sq", w>> \in P \/ rx_sq'[w] = rx_sq[w]
       /\ <<"notify", w>> \in P \/ notify'[w] = notify[w]
       /\ <<"pipe", w>> \in P \/ delivered'[w] = delivered[w]
  /\ {<<"dpaTx", Nil>>, <<"dpaTx copy", Nil>>} \subseteq P \/ dpaTx' = dpaTx
  /\ {<<"dpaRx", Nil>>, <<"dpaRx copy", Nil>>} \subseteq P \/ dpaRx' = dpaRx
  /\ <<"arm", Nil>> \in P \/ arm'.desc = arm.desc
  /\ <<"sidecar_tx_sq", Nil>> \in P \/ sidecar_tx_sq' = sidecar_tx_sq
  /\ <<"sidecar_rx_sq", Nil>> \in P \/ sidecar_rx_sq' = sidecar_rx_sq
  /\ \A c \in Client : <<"bridge", c>> \in P \/ bridge'[c] = bridge[c]

LEMMA KeepHas ==
  ASSUME NEW own, NEW o, NEW P, Touches(own, o, P), NEW part, part \notin P, NEW r
  PROVE  /\ \A use : Owns(own, part, use, r) => Owns(o, part, use, r)
         /\ HasHeader(own, part, r) => HasHeader(o, part, r)
         /\ \A use : HasBody(own, part, use, r) => HasBody(o, part, use, r)
         /\ HasAny(own, part, r) => HasAny(o, part, r)
<1>1. \A use : Owns(own, part, use, r) => Owns(o, part, use, r)
  BY DEF Touches, Owns
<1> QED  BY <1>1 DEF HasHeader, HasBody, HasAny

LEMMA KeepCarries ==
  ASSUME NEW own, NEW o, NEW P, Touches(own, o, P), NEW part, part \notin P, NEW d,
         Carries(own, part, d)
  PROVE  Carries(o, part, d)
BY KeepHas DEF Carries

LEMMA KeepHolds ==
  ASSUME NEW own, NEW o, NEW P, Touches(own, o, P), NEW part, part \notin P, NEW q,
         Holds(own, part, q)
  PROVE  Holds(o, part, q)
BY KeepCarries DEF Holds

LEMMA KeepPipes ==
  ASSUME NEW own, NEW o, NEW P, Touches(own, o, P), NEW part, part \notin P, NEW D,
         Pipes(own, part, D)
  PROVE  Pipes(o, part, D)
BY KeepCarries DEF Pipes

LEMMA Parts ==
  /\ \A w \in Worker : {<<"main rx", w>>, <<"main tx", w>>, <<"poller", w>>, <<"tx_sq", w>>,
                        <<"rx_sq", w>>, <<"notify", w>>, <<"pipe", w>>} \subseteq Part
  /\ {<<"dpaTx", Nil>>, <<"dpaTx copy", Nil>>, <<"dpaRx", Nil>>, <<"dpaRx copy", Nil>>,
      <<"arm", Nil>>, <<"sidecar_tx_sq", Nil>>, <<"sidecar_rx_sq", Nil>>} \subseteq Part
  /\ \A c \in Client : <<"bridge", c>> \in Part
<1>1. ASSUME NEW w \in Worker,
             NEW x \in {"main rx", "main tx", "poller", "tx_sq", "rx_sq", "notify", "pipe"}
      PROVE  <<x, w>> \in Part
  BY DEF Part
<1>2. ASSUME NEW x \in {"dpaTx", "dpaTx copy", "dpaRx", "dpaRx copy", "arm", "sidecar_tx_sq",
                       "sidecar_rx_sq"}
      PROVE  <<x, Nil>> \in Part
  BY DEF Part
<1>3. ASSUME NEW c \in Client
      PROVE  <<"bridge", c>> \in Part
  BY DEF Part
<1> QED  BY <1>1, <1>2, <1>3

(* The owners outside of P still agree...                                  *)
LEMMA Frame ==
  ASSUME NEW own, NEW o, NEW P, OwnInv(own), Touches(own, o, P), Others(P)
  PROVE  Agrees(o, Part \ P)'
<1>1. ASSUME NEW w \in Worker
      PROVE  WorkerOwns(o, Part \ P, w)'
  <2>0. WorkerOwns(own, Part, w)
    BY DEF OwnInv, Agrees
  <2>1. <<"main rx", w>> \notin P => /\ HasHeader(o, <<"main rx", w>>, main'[w].rx_header)
                                    /\ HasAny(o, <<"main rx", w>>, main'[w].rx_body)
    BY <2>0, Parts, KeepHas DEF WorkerOwns, Others
  <2>2. <<"main tx", w>> \notin P => /\ HasHeader(o, <<"main tx", w>>, main'[w].tx_header)
                                    /\ HasBody(o, <<"main tx", w>>, "body", main'[w].tx_body)
    BY <2>0, Parts, KeepHas DEF WorkerOwns, Others
  <2>3. <<"poller", w>> \notin P => Carries(o, <<"poller", w>>, poller'[w].desc)
    BY <2>0, Parts, KeepCarries DEF WorkerOwns, Others
  <2>4. /\ <<"tx_sq", w>> \notin P => Holds(o, <<"tx_sq", w>>, tx_sq'[w])
        /\ <<"rx_sq", w>> \notin P => Holds(o, <<"rx_sq", w>>, rx_sq'[w])
        /\ <<"notify", w>> \notin P => Holds(o, <<"notify", w>>, notify'[w])
    BY <2>0, Parts, KeepHolds DEF WorkerOwns, Others
  <2>5. <<"pipe", w>> \notin P => Pipes(o, <<"pipe", w>>, delivered'[w])
    BY <2>0, Parts, KeepPipes DEF WorkerOwns, Others
  <2> QED  BY <2>1, <2>2, <2>3, <2>4, <2>5 DEF WorkerOwns
<1>2. DpaOwns(o, Part \ P)'
  <2>0. DpaOwns(own, Part)
    BY DEF OwnInv, Agrees
  <2>1. /\ <<"dpaTx", Nil>> \notin P => Carries(o, <<"dpaTx", Nil>>, dpaTx'.desc)
        /\ <<"dpaRx", Nil>> \notin P => Carries(o, <<"dpaRx", Nil>>, dpaRx'.desc)
    BY <2>0, Parts, KeepCarries DEF DpaOwns, Others
  <2>2. <<"dpaTx copy", Nil>> \notin P => HasHeader(o, <<"dpaTx copy", Nil>>, dpaTx'.header)
    BY <2>0, Parts, KeepHas DEF DpaOwns, Others
  <2>3. <<"dpaRx copy", Nil>> \notin P =>
          /\ HasHeader(o, <<"dpaRx copy", Nil>>, dpaRx'.header)
          /\ HasAny(o, <<"dpaRx copy", Nil>>, dpaRx'.body)
          /\ dpaRx'.pc # "drop" =>
               HasBody(o, <<"dpaRx copy", Nil>>, BodyAs(dpaRx'.desc), dpaRx'.body)
    BY <2>0, Parts, KeepHas DEF DpaOwns, Others
  <2> QED  BY <2>1, <2>2, <2>3 DEF DpaOwns, BodyAs, Ingress
<1>3. SidecarOwns(o, Part \ P)'
  <2>0. SidecarOwns(own, Part)
    BY DEF OwnInv, Agrees
  <2>1. <<"arm", Nil>> \notin P => Carries(o, <<"arm", Nil>>, arm'.desc)
    BY <2>0, Parts, KeepCarries DEF SidecarOwns, Others
  <2>2. /\ <<"sidecar_tx_sq", Nil>> \notin P => Holds(o, <<"sidecar_tx_sq", Nil>>, sidecar_tx_sq')
        /\ <<"sidecar_rx_sq", Nil>> \notin P => Holds(o, <<"sidecar_rx_sq", Nil>>, sidecar_rx_sq')
    BY <2>0, Parts, KeepHolds DEF SidecarOwns, Others
  <2>3. ASSUME NEW c \in Client, <<"bridge", c>> \notin P
        PROVE  /\ HasAny(o, <<"bridge", c>>, bridge'[c].body)
               /\ bridge'[c].pc = "put" => HasBody(o, <<"bridge", c>>, "message", bridge'[c].body)
    BY <2>0, <2>3, Parts, KeepHas, ZenonT(30) DEF SidecarOwns, Others
  <2> QED  BY <2>1, <2>2, <2>3 DEF SidecarOwns
<1> QED  BY <1>1, <1>2, <1>3 DEF Agrees

(* ...and the step is done when those in P do, too.                        *)
LEMMA Join ==
  ASSUME NEW own, NEW o, NEW P, OwnInv(own), Touches(own, o, P), Others(P),
         Owners(o), Memory(o, mem'), Agrees(o, P)'
  PROVE  \E x : OwnInv(x)'
<1>0. Agrees(o, Part \ P)'
  BY Frame
<1>1. ASSUME NEW w \in Worker
      PROVE  WorkerOwns(o, Part, w)'
  BY <1>0 DEF Agrees, WorkerOwns
<1>2. DpaOwns(o, Part)'
  BY <1>0 DEF Agrees, DpaOwns
<1>3. SidecarOwns(o, Part)'
  BY <1>0 DEF Agrees, SidecarOwns
<1>4. OwnInv(o)'
  BY <1>1, <1>2, <1>3 DEF Agrees, OwnInv, Owners
<1> QED  BY <1>4
-----------------------------------------------------------------------------
(* What the steps do to the map of owners.                                 *)
Gives(own, o, r, owner) == \A x \in Ref : IF x = r THEN o[x] = owner ELSE o[x] = own[x]
Moves(own, o, d, part) ==
  \A x \in Ref : IF x = d.header \/ x = d.body
                 THEN o[x] = [part |-> part, use |-> own[x].use] ELSE o[x] = own[x]

LEMMA CanGive ==
  ASSUME NEW own, NEW r, NEW owner
  PROVE  \E o : Gives(own, o, r, owner)
<1> WITNESS [x \in Ref |-> IF x = r THEN owner ELSE own[x]]
<1> QED  BY DEF Gives

LEMMA CanMove ==
  ASSUME NEW own, NEW d, NEW part
  PROVE  \E o : Moves(own, o, d, part)
<1> WITNESS [x \in Ref |-> IF x = d.header \/ x = d.body
                         THEN [part |-> part, use |-> own[x].use] ELSE own[x]]
<1> QED  BY DEF Moves

LEMMA Moved ==
  ASSUME NEW own, NEW o, NEW d, NEW part, NEW to, d # Nil, Carries(own, part, d), Moves(own, o, d, to),
         NEW m, Owners(own), Memory(own, m)
  PROVE  Owners(o) /\ Memory(o, m) /\ Touches(own, o, {part}) /\ Carries(o, to, d)
<1>1. \A x \in Ref : own[x].part # part => x # d.header /\ x # d.body
  BY DataAssumption DEF Carries, HasHeader, HasBody, Owns
<1>2. ASSUME NEW x \in Ref
      PROVE  o[x].use = own[x].use
  <2>1. CASE x = d.header \/ x = d.body
    <3>1. o[x] = [part |-> to, use |-> own[x].use]
      BY <2>1 DEF Moves
    <3> QED  BY <3>1
  <2>2. CASE ~ (x = d.header \/ x = d.body)
    BY <2>2 DEF Moves
  <2> QED  BY <2>1, <2>2
<1>3. Touches(own, o, {part})
  BY <1>1 DEF Touches, Moves
<1>4. Memory(o, m)
  BY <1>2 DEF Memory
<1>5. ASSUME NEW x \in Ref
      PROVE  o[x] = Nobody \/ o[x].use \in {"header", "message", "body"}
  <2>1. CASE x = d.header \/ x = d.body
    <3>1. own[x].use \in {"header", "message", "body"}
      BY <2>1, DataAssumption DEF Carries, HasHeader, HasBody, Owns, BodyAs
    <3> QED  BY <3>1, <1>2
  <2>2. CASE ~ (x = d.header \/ x = d.body)
    BY <2>2 DEF Moves, Owners
  <2> QED  BY <2>1, <2>2
<1>6. Carries(o, to, d)
  BY DEF Carries, HasHeader, HasBody, Owns, Moves
<1> QED  BY <1>3, <1>4, <1>5, <1>6 DEF Owners

(* Taking the first descriptor of a queue, and putting one at its end.     *)
LEMMA Take ==
  ASSUME NEW own, NEW o, NEW D, D \subseteq Descriptor, NEW q \in Seq(D), q # << >>, NEW part, NEW to,
         part # to, \A d \in D : d.body # Nil, Holds(own, part, q), Moves(own, o, Head(q), to)
  PROVE  /\ Head(q) \in D /\ Head(q) # Nil /\ Carries(own, part, Head(q))
         /\ Tail(q) \in Seq(D) /\ Len(Tail(q)) <= Len(q)
         /\ Holds(o, part, Tail(q))
<1>1. /\ Head(q) = q[1] /\ 1 \in DOMAIN q /\ Tail(q) \in Seq(D) /\ Len(Tail(q)) = Len(q) - 1
      /\ Head(q) \in D /\ Len(q) \in Nat
      /\ \A i \in DOMAIN Tail(q) : i + 1 \in DOMAIN q /\ Tail(q)[i] = q[i + 1] /\ i + 1 # 1 /\ i \in Nat
  OBVIOUS
<1>2. Head(q) # Nil /\ \A i \in DOMAIN q : q[i] # Nil /\ q[i].body # Nil
  BY <1>1, DataAssumption
<1>3. Carries(own, part, Head(q))
  BY <1>1 DEF Holds
<1>4. ASSUME NEW i \in DOMAIN Tail(q)
      PROVE  Carries(o, part, Tail(q)[i])
  <2> DEFINE e == q[i + 1]
             d == q[1]
  <2>1. Carries(own, part, e) /\ Carries(own, part, d) /\ Apart(d, e) /\ e # Nil /\ d # Nil
        /\ e.body # Nil /\ d.body # Nil
    BY <1>1, <1>2 DEF Holds
  <2>2. /\ e.header # Nil => e.header \in Ref /\ e.header # d.header /\ e.header # d.body
        /\ e.body \in Ref /\ e.body # d.body /\ e.body # d.header
    BY <2>1 DEF Carries, HasHeader, HasBody, Owns, Apart, BodyAs
  <2>3. Carries(o, part, e)
    <3> HIDE DEF e, d
    <3>1. Moves(own, o, d, to)
      BY <1>1 DEF d
    <3> QED  BY <2>1, <2>2, <3>1 DEF Moves, Carries, HasHeader, HasBody, Owns
  <2> QED  BY <1>1, <2>3
<1>5. \A i, j \in DOMAIN Tail(q) : i # j => Apart(Tail(q)[i], Tail(q)[j])
  BY <1>1 DEF Holds
<1> QED  BY <1>1, <1>2, <1>3, <1>4, <1>5 DEF Holds

LEMMA Put ==
  ASSUME NEW own, NEW o, NEW D, D \subseteq Descriptor, NEW q \in Seq(D), NEW d \in D, NEW part,
         NEW from, part # from, \A e \in D : e.body # Nil, Holds(own, part, q), Carries(own, from, d),
         Moves(own, o, d, part)
  PROVE  /\ Append(q, d) \in Seq(D) /\ Len(Append(q, d)) = Len(q) + 1
         /\ Holds(o, part, Append(q, d))
<1> DEFINE r == Append(q, d)
<1>1. /\ r \in Seq(D) /\ Len(r) = Len(q) + 1 /\ Len(q) \in Nat
      /\ DOMAIN r = DOMAIN q \cup {Len(q) + 1} /\ Len(q) + 1 \notin DOMAIN q
      /\ r[Len(q) + 1] = d /\ \A i \in DOMAIN q : r[i] = q[i] /\ q[i] \in D
  OBVIOUS
<1> HIDE DEF r
<1>2. ASSUME NEW i \in DOMAIN q
      PROVE  Apart(q[i], d) /\ Apart(d, q[i]) /\ Carries(o, part, q[i])
  <2> DEFINE e == q[i]
  <2>1. Carries(own, part, e) /\ Carries(own, from, d) /\ e # Nil /\ d # Nil
        /\ e.body # Nil /\ d.body # Nil
    BY <1>1, DataAssumption DEF Holds
  <2> HIDE DEF e
  <2>2. /\ e.header # Nil => e.header \in Ref /\ e.header # d.header /\ e.header # d.body
        /\ e.body \in Ref /\ e.body # d.body /\ e.body # d.header
    BY <2>1 DEF Carries, HasHeader, HasBody, Owns
  <2>3. Carries(o, part, e)
    BY <2>1, <2>2 DEF Moves, Carries, HasHeader, HasBody, Owns
  <2>4. Apart(e, d) /\ Apart(d, e)
    BY <2>2 DEF Apart
  <2> QED  BY <2>3, <2>4 DEF e
<1>3. Carries(o, part, d)
  <2>1. d # Nil
    BY DataAssumption
  <2>2. d.header # Nil => Owns(o, part, "header", d.header)
    <3>1. d.header # Nil => d.header \in Ref /\ own[d.header] = [part |-> from, use |-> "header"]
      BY <2>1 DEF Carries, HasHeader, Owns
    <3>2. d.header \in Ref => o[d.header] = [part |-> part, use |-> own[d.header].use]
      BY DEF Moves
    <3> QED  BY <3>1, <3>2 DEF Owns
  <2>3. d.body # Nil => Owns(o, part, BodyAs(d), d.body)
    <3>1. d.body # Nil => d.body \in Ref /\ own[d.body] = [part |-> from, use |-> BodyAs(d)]
      BY <2>1 DEF Carries, HasBody, Owns
    <3>2. d.body \in Ref => o[d.body] = [part |-> part, use |-> own[d.body].use]
      BY DEF Moves
    <3> HIDE DEF BodyAs
    <3> QED  BY <3>1, <3>2 DEF Owns
  <2> QED  BY <2>2, <2>3 DEF Carries, HasHeader, HasBody
<1>4. \A i \in DOMAIN r : Carries(o, part, r[i])
  BY <1>1, <1>2, <1>3
<1>5. \A i, j \in DOMAIN r : i # j => Apart(r[i], r[j])
  BY <1>1, <1>2 DEF Holds
<1> QED  BY <1>1, <1>4, <1>5 DEF Holds, r
-----------------------------------------------------------------------------
(* Slots: the first free one exists, and only the slot in question changes.*)
LEMMA Least ==
  ASSUME NEW T, T \subseteq Nat, T # {}
  PROVE  \E x \in T : \A y \in T : x <= y
<1>1. PICK x \in T : \A y \in T : ~ (<<y, x>> \in OpToRel(<, Nat))
  BY NatLessThanWellFounded, WFMin
<1>2. \A y \in T : ~ (y < x)
  BY <1>1 DEF OpToRel
<1> QED  BY <1>2

LEMMA Fresh ==
  ASSUME NEW own, OwnInv(own), NEW p \in Pool, ~Full(p)
  PROVE  /\ NewRef(p) \in Ref /\ NewRef(p).pool = p /\ NewRef(p).slot = FirstFree(p)
         /\ FirstFree(p) \in Slot /\ own[NewRef(p)] = Nobody
<1> DEFINE T == {s \in Slot : mem[p][s] = Free}
<1>1. T \subseteq Nat /\ T # {}
  BY ShmAssumption DEF Full, Slot
<1>2. PICK s \in T : \A t \in T : s <= t
  BY <1>1, Least
<1>3. s \in Slot /\ mem[p][s] = Free /\ \A r \in Slot : r < s => mem[p][r] # Free
  BY <1>2, ShmAssumption DEF Slot
<1>4. FirstFree(p) \in Slot /\ mem[p][FirstFree(p)] = Free
  BY <1>3 DEF FirstFree
<1>5. NewRef(p) \in Ref /\ NewRef(p).pool = p /\ NewRef(p).slot = FirstFree(p)
  BY <1>4 DEF NewRef, Ref
<1>6. own[NewRef(p)] = Nobody
  BY <1>4, <1>5, DataAssumption DEF OwnInv, Owners, Memory
<1> QED  BY <1>4, <1>5, <1>6

LEMMA Allocated ==
  ASSUME NEW own, NEW o, mem \in [Pool -> [Slot -> Contents]], OwnInv(own), NEW p \in Pool, ~Full(p),
         NEW x, AllocWrite(p, x), NEW part, NEW use,
         Gives(own, o, NewRef(p), [part |-> part, use |-> use]),
         \/ use \in {"header", "message"} /\ x \in Header
         \/ use = "body" /\ x \in Body
  PROVE  /\ Owners(o) /\ Memory(o, mem') /\ Touches(own, o, {<<"nobody", Nil>>})
         /\ Owns(o, part, use, NewRef(p))
         /\ mem' \in [Pool -> [Slot -> Contents]]
<1>1. /\ NewRef(p) \in Ref /\ NewRef(p).pool = p /\ NewRef(p).slot = FirstFree(p)
      /\ FirstFree(p) \in Slot /\ own[NewRef(p)] = Nobody
  BY Fresh
<1>2. mem' \in [Pool -> [Slot -> Contents]]
  BY <1>1 DEF AllocWrite, Contents
<1>3. mem'[p][FirstFree(p)] = x
  BY <1>1 DEF AllocWrite
<1>4. ASSUME NEW r \in Ref, r # NewRef(p)
      PROVE  mem'[r.pool][r.slot] = mem[r.pool][r.slot]
  <2>1. r.pool \in Pool /\ r.slot \in Slot /\ ~(r.pool = p /\ r.slot = FirstFree(p))
    BY <1>1, <1>4 DEF Ref
  <2> QED  BY <1>1, <2>1 DEF AllocWrite
<1>5. o[NewRef(p)] = [part |-> part, use |-> use] /\ \A r \in Ref : r # NewRef(p) => o[r] = own[r]
  BY <1>1 DEF Gives
<1>8. ASSUME NEW r \in Ref
      PROVE  /\ o[r].use \in {"header", "message"} => mem'[r.pool][r.slot] \in Header
             /\ o[r].use = "body" => mem'[r.pool][r.slot] \in Body
             /\ o[r] = Nobody \/ o[r].use \in {"header", "message", "body"}
  <2>1. CASE r = NewRef(p)
    <3>1. o[r].use = use
      BY <2>1, <1>5
    <3> QED  BY <2>1, <3>1, <1>1, <1>3
  <2>2. CASE r # NewRef(p)
    BY <2>2, <1>4, <1>5 DEF OwnInv, Memory, Owners
  <2> QED  BY <2>1, <2>2
<1>6. Memory(o, mem') /\ Owners(o)
  BY <1>8 DEF Memory, Owners
<1>7. Touches(own, o, {<<"nobody", Nil>>})
  BY <1>1 DEF Touches, Gives, Nobody
<1> QED  BY <1>1, <1>2, <1>5, <1>6, <1>7 DEF Owns

LEMMA Freed ==
  ASSUME NEW own, NEW o, mem \in [Pool -> [Slot -> Contents]], OwnInv(own), NEW r \in Ref,
         FreeSlot(r), Gives(own, o, r, Nobody), NEW part, NEW use, Owns(own, part, use, r)
  PROVE  /\ Owners(o) /\ Memory(o, mem') /\ Touches(own, o, {part})
         /\ mem' \in [Pool -> [Slot -> Contents]]
<1>1. r.pool \in Pool /\ r.slot \in Slot
  BY DEF Ref
<1>2. mem' \in [Pool -> [Slot -> Contents]]
  BY <1>1 DEF FreeSlot, Contents
<1>3. ASSUME NEW x \in Ref, x # r
      PROVE  mem'[x.pool][x.slot] = mem[x.pool][x.slot]
  <2>1. x.pool \in Pool /\ x.slot \in Slot /\ ~(x.pool = r.pool /\ x.slot = r.slot)
    BY <1>3 DEF Ref
  <2> QED  BY <1>1, <2>1 DEF FreeSlot
<1>4. Memory(o, mem')
  BY <1>3 DEF Memory, Gives, OwnInv, Nobody
<1>5. Owners(o)
  BY DEF Owners, Gives, OwnInv
<1>6. Touches(own, o, {part})
  BY DEF Touches, Gives, Owns
<1> QED  BY <1>2, <1>4, <1>5, <1>6
-----------------------------------------------------------------------------
(* The steps of the workers.                                               *)
LEMMA Kept ==
  ASSUME NEW own, OwnInv(own), NEW P, Others(P), mem' = mem, Agrees(own, P)'
  PROVE  \E x : OwnInv(x)'
<1>1. Touches(own, own, P) /\ Owners(own) /\ Memory(own, mem')
  BY DEF Touches, OwnInv
<1> QED  BY <1>1, Join

LEMMA Owned ==
  ASSUME NEW own, NEW part, NEW r
  PROVE  /\ \A use : Owns(own, part, use, r) => r \in Ref /\ own[r].use = use
         /\ HasAny(own, part, r) /\ r # Nil => r \in Ref /\ own[r].use \in {"message", "body"}
<1>1. ASSUME NEW use, Owns(own, part, use, r)
      PROVE  r \in Ref /\ own[r].use = use
  BY <1>1 DEF Owns
<1> QED  BY <1>1 DEF HasAny

LEMMA OfWorker ==
  ASSUME NEW own, OwnInv(own), NEW w \in Worker
  PROVE  /\ HasHeader(own, <<"main rx", w>>, main[w].rx_header)
         /\ HasAny(own, <<"main rx", w>>, main[w].rx_body)
         /\ HasHeader(own, <<"main tx", w>>, main[w].tx_header)
         /\ HasBody(own, <<"main tx", w>>, "body", main[w].tx_body)
         /\ Carries(own, <<"poller", w>>, poller[w].desc)
         /\ Holds(own, <<"tx_sq", w>>, tx_sq[w])
         /\ Holds(own, <<"rx_sq", w>>, rx_sq[w])
         /\ Holds(own, <<"notify", w>>, notify[w])
         /\ Pipes(own, <<"pipe", w>>, delivered[w])
BY Parts DEF OwnInv, Agrees, WorkerOwns

LEMMA PollerGetOwns ==
  ASSUME Shapes, NEW own, OwnInv(own), NEW w \in Worker, PollerGet(w), HostOnly
  PROVE  \E x : OwnInv(x)'
<1> DEFINE d == Head(rx_sq[w])
           P == {<<"rx_sq", w>>, <<"poller", w>>}
<1>1. PICK o : Moves(own, o, d, <<"poller", w>>)
  BY CanMove
<1>2. /\ rx_sq[w] \in Seq(ReceivedDesc(w)) /\ rx_sq[w] # << >>
      /\ ReceivedDesc(w) \subseteq Descriptor /\ \A e \in ReceivedDesc(w) : e.body # Nil
  BY DataAssumption DEF Shapes, QueueShapes, PollerGet, ReceivedDesc
<1>3. d # Nil /\ Carries(own, <<"rx_sq", w>>, d) /\ Holds(o, <<"rx_sq", w>>, Tail(rx_sq[w]))
  BY <1>1, <1>2, Take, OfWorker
<1>4. Owners(o) /\ Memory(o, mem) /\ Touches(own, o, {<<"rx_sq", w>>}) /\ Carries(o, <<"poller", w>>, d)
  BY <1>1, <1>3, Moved DEF OwnInv
<1>5. /\ rx_sq'[w] = Tail(rx_sq[w]) /\ poller'[w].desc = d /\ mem' = mem
      /\ Others(P)
  BY DEF Shapes, QueueShapes, HostShapes, PollerGet, HostOnly, dpaVars, sidecarVars, pipes, calls, Others
<1>6. Agrees(o, P)'
  BY <1>3, <1>4, <1>5 DEF Agrees, WorkerOwns, DpaOwns, SidecarOwns
<1>7. Touches(own, o, P)
  BY <1>4 DEF Touches
<1> HIDE DEF P
<1> QED  BY <1>4, <1>5, <1>6, <1>7, Join

LEMMA PollerNotifyOwns ==
  ASSUME Shapes, NEW own, OwnInv(own), NEW w \in Worker, PollerNotify(w), HostOnly
  PROVE  \E x : OwnInv(x)'
<1> DEFINE d == poller[w].desc
           P == {<<"notify", w>>, <<"poller", w>>}
           D == {e \in ReceivedDesc(w) : e.op = "req"}
<1>1. /\ d \in D /\ notify[w] \in Seq(D)
      /\ D \subseteq Descriptor /\ \A e \in D : e.body # Nil
  BY DataAssumption DEF Shapes, HostShapes, PollerShape, PollerNotify, ReceivedDesc
<1>2. /\ poller'[w].desc = Nil /\ mem' = mem /\ Others(P)
      /\ notify'[w] = IF Len(notify[w]) < PipeCap THEN Append(notify[w], d) ELSE notify[w]
  BY DEF Shapes, HostShapes, PollerNotify, HostOnly, dpaVars, sidecarVars, calls, shmVars, sqs, Others,
         IdlePoller
<1>3. CASE Len(notify[w]) < PipeCap
  <2>1. PICK o : Moves(own, o, d, <<"notify", w>>)
    BY CanMove
  <2>2. d # Nil /\ Carries(own, <<"poller", w>>, d) /\ Holds(own, <<"notify", w>>, notify[w])
    BY <1>1, DataAssumption, OfWorker
  <2>3. Holds(o, <<"notify", w>>, Append(notify[w], d))
    <3> HIDE DEF D
    <3> QED  BY <1>1, <2>1, <2>2, Put
  <2>4. Owners(o) /\ Memory(o, mem) /\ Touches(own, o, {<<"poller", w>>})
    BY <2>1, <2>2, Moved DEF OwnInv
  <2>5. Agrees(o, P)'
    BY <1>2, <1>3, <2>3 DEF Agrees, WorkerOwns, DpaOwns, SidecarOwns, Carries
  <2>6. Touches(own, o, P)
    BY <2>4 DEF Touches
  <2> HIDE DEF P
  <2> QED  BY <1>2, <2>4, <2>5, <2>6, Join
<1>4. CASE ~ (Len(notify[w]) < PipeCap)
  <2>1. Agrees(own, P)'
    BY <1>2, <1>4, OfWorker DEF Agrees, WorkerOwns, DpaOwns, SidecarOwns, Carries
  <2> QED  BY <1>2, <2>1, Kept
<1> QED  BY <1>3, <1>4

LEMMA PollerDeliverOwns ==
  ASSUME Shapes, NEW own, OwnInv(own), NEW w \in Worker, PollerDeliver(w), HostOnly
  PROVE  \E x : OwnInv(x)'
<1> DEFINE d == poller[w].desc
           r == [pipe |-> PipeFor(w, d), desc |-> d]
           P == {<<"pipe", w>>, <<"poller", w>>}
<1>1. d # Nil /\ d.body # Nil /\ d \in ReceivedDesc(w) /\ Carries(own, <<"poller", w>>, d)
  BY DataAssumption, OfWorker DEF Shapes, HostShapes, PollerShape, PollerDeliver, ReceivedDesc
<1>2. /\ poller'[w].desc = Nil /\ mem' = mem /\ Others(P)
      /\ delivered'[w] = delivered[w] \cup {r}
  BY DEF Shapes, HostShapes, PollerDeliver, HostOnly, dpaVars, sidecarVars, calls, shmVars, sqs, Others
<1>3. PICK o : Moves(own, o, d, <<"pipe", w>>)
  BY CanMove
<1>4. Owners(o) /\ Memory(o, mem) /\ Touches(own, o, {<<"poller", w>>}) /\ Carries(o, <<"pipe", w>>, d)
  BY <1>1, <1>3, Moved DEF OwnInv
<1>5. ASSUME NEW s \in delivered[w]
      PROVE  Carries(o, <<"pipe", w>>, s.desc) /\ Apart(s.desc, d) /\ Apart(d, s.desc)
  <2>1. /\ Carries(own, <<"pipe", w>>, s.desc) /\ s.desc \in ReceivedDesc(w) /\ s.desc # Nil
        /\ s.desc.body # Nil
    BY OfWorker, DataAssumption, ZenonT(30) DEF Pipes, Shapes, HostShapes, Delivered, ReceivedDesc
  <2>2. Carries(o, <<"pipe", w>>, s.desc)
    BY <1>4, <2>1, KeepCarries
  <2>3. Apart(s.desc, d) /\ Apart(d, s.desc)
    <3> DEFINE e == s.desc
    <3>1. /\ e # Nil /\ d # Nil /\ e.body # Nil /\ d.body # Nil
          /\ Carries(own, <<"pipe", w>>, e) /\ Carries(own, <<"poller", w>>, d)
      BY <1>1, <2>1
    <3> HIDE DEF e, d
    <3> QED  BY <3>1 DEF Carries, HasHeader, HasBody, Owns, Apart, e
  <2> QED  BY <2>2, <2>3
<1>6. Pipes(o, <<"pipe", w>>, delivered'[w])
  <2>1. r.desc = d
    OBVIOUS
  <2> HIDE DEF d, r
  <2> QED  BY <1>2, <1>4, <1>5, <2>1, OfWorker DEF Pipes
<1>7. Agrees(o, P)'
  BY <1>2, <1>6 DEF Agrees, WorkerOwns, DpaOwns, SidecarOwns, Carries
<1>8. Touches(own, o, P)
  BY <1>4 DEF Touches
<1> HIDE DEF P
<1> QED  BY <1>2, <1>4, <1>7, <1>8, Join

LEMMA PollerForgets ==
  ASSUME Shapes, NEW own, OwnInv(own), NEW w \in Worker, PollerDrop(w) \/ PollerClose(w), HostOnly
  PROVE  \E x : OwnInv(x)'
<1> DEFINE P == {<<"poller", w>>}
<1>1. /\ poller'[w].desc = Nil /\ mem' = mem /\ Others(P)
  BY DEF Shapes, HostShapes, PollerDrop, PollerClose, HostOnly, dpaVars, sidecarVars, calls, pipes, shmVars, sqs,
         Others, IdlePoller
<1>2. Agrees(own, P)'
  BY <1>1 DEF Agrees, WorkerOwns, DpaOwns, SidecarOwns, Carries
<1> QED  BY <1>1, <1>2, Kept

LEMMA MainIs ==
  ASSUME Shapes, NEW w \in Worker
  PROVE  /\ MainShape(w, main[w]) /\ DOMAIN main = Worker /\ main[w] \in MainState
         /\ main[w].rx_body = Nil => main[w].rx_header = Nil
BY DataAssumption DEF Shapes, HostShapes, MainShape

LEMMA Starts ==
  ASSUME NEW w \in Worker, DOMAIN main = Worker, NEW m \in MainState, NEW idx, NEW ib, NEW out,
         StartRespond(w, m, idx, ib, out) \/ StartCall(w, m, idx, out)
  PROVE  /\ main'[w].rx_header = m.rx_header /\ main'[w].rx_body = m.rx_body
         /\ main'[w].tx_header = m.tx_header /\ main'[w].tx_body = m.tx_body
         /\ \A v \in Worker : v # w => main'[v] = main[v]
<1>1. CASE StartRespond(w, m, idx, ib, out)
  BY <1>1 DEF StartRespond, MainState
<1>2. CASE StartCall(w, m, idx, out)
  BY <1>2 DEF StartCall, MainState
<1> QED  BY <1>1, <1>2

LEMMA IdleMainIs ==
  ASSUME NEW h \in OptRef, NEW b \in OptRef
  PROVE  /\ IdleMain \in MainState
         /\ [IdleMain EXCEPT !.rx_header = h, !.rx_body = b] \in MainState
BY DEF IdleMain, MainState, OptRef

LEMMA OnRequestOwns ==
  ASSUME Shapes, NEW own, OwnInv(own), NEW w \in Worker, OnRequest(w), HostOnly
  PROVE  \E x : OwnInv(x)'
<1> DEFINE d == Head(notify[w])
           D == {e \in ReceivedDesc(w) : e.op = "req"}
           P == {<<"notify", w>>, <<"main rx", w>>, <<"main tx", w>>}
<1>1. PICK o : Moves(own, o, d, <<"main rx", w>>)
  BY CanMove
<1>2. /\ notify[w] \in Seq(D) /\ notify[w] # << >>
      /\ D \subseteq Descriptor /\ \A e \in D : e.body # Nil
  BY DataAssumption DEF Shapes, HostShapes, OnRequest, ReceivedDesc
<1>3. d # Nil /\ Carries(own, <<"notify", w>>, d) /\ Holds(o, <<"notify", w>>, Tail(notify[w]))
  <2> HIDE DEF D
  <2> QED  BY <1>1, <1>2, Take, OfWorker
<1>4. Owners(o) /\ Memory(o, mem) /\ Touches(own, o, {<<"notify", w>>}) /\ Carries(o, <<"main rx", w>>, d)
  BY <1>1, <1>3, Moved DEF OwnInv
<1>5. /\ notify'[w] = Tail(notify[w]) /\ mem' = mem
      /\ main'[w].rx_header = d.header /\ main'[w].rx_body = d.body
      /\ main'[w].tx_header = Nil /\ main'[w].tx_body = Nil
      /\ \A v \in Worker : v # w => main'[v] = main[v]
  <2> DEFINE m == [IdleMain EXCEPT !.rx_header = d.header, !.rx_body = d.body]
  <2>1. PICK idx, ib, out : StartRespond(w, m, idx, ib, out) \/ StartCall(w, m, idx, out)
    BY DEF OnRequest
  <2>2. d \in Descriptor
    BY <1>2
  <2>3. m \in MainState
    BY <2>2, IdleMainIs DEF Descriptor
  <2>4. /\ m.rx_header = d.header /\ m.rx_body = d.body /\ m.tx_header = Nil /\ m.tx_body = Nil
    BY DEF IdleMain
  <2>5. /\ main'[w].rx_header = m.rx_header /\ main'[w].rx_body = m.rx_body
        /\ main'[w].tx_header = m.tx_header /\ main'[w].tx_body = m.tx_body
        /\ \A v \in Worker : v # w => main'[v] = main[v]
    <3> HIDE DEF m
    <3> QED  BY <2>1, <2>3, Starts, MainIs
  <2>6. notify'[w] = Tail(notify[w]) /\ mem' = mem
    BY DEF OnRequest, shmVars, Shapes, HostShapes
  <2> QED  BY <2>4, <2>5, <2>6
<1>6. Others(P)
  BY <1>5 DEF Shapes, HostShapes, OnRequest, HostOnly, dpaVars, sidecarVars, shmVars, sqs, Others
<1>7. /\ HasHeader(o, <<"main rx", w>>, d.header)
      /\ HasAny(o, <<"main rx", w>>, d.body)
  BY <1>3, <1>4 DEF Carries, HasBody, HasAny, BodyAs
<1>8. Agrees(o, P)'
  BY <1>3, <1>5, <1>7 DEF Agrees, WorkerOwns, DpaOwns, SidecarOwns, HasHeader, HasBody
<1>9. Touches(own, o, P)
  BY <1>4 DEF Touches
<1> HIDE DEF P
<1> QED  BY <1>4, <1>5, <1>6, <1>8, <1>9, Join

LEMMA OnResponseOwns ==
  ASSUME Shapes, NEW own, OwnInv(own), NEW w \in Worker, OnResponse(w), HostOnly
  PROVE  \E x : OwnInv(x)'
<1> DEFINE P == {<<"pipe", w>>, <<"main rx", w>>, <<"main tx", w>>}
<1>1. PICK r \in delivered[w] :
        /\ delivered'[w] = delivered[w] \ {r}
        /\ main'[w].rx_header = r.desc.header /\ main'[w].rx_body = r.desc.body
        /\ main'[w].tx_header = Nil /\ main'[w].tx_body = Nil
        /\ \A v \in Worker : v # w => main'[v] = main[v] /\ delivered'[v] = delivered[v]
  BY MainIs DEF Shapes, HostShapes, OnResponse, IdleMain
<1>2. mem' = mem /\ Others(P)
  BY <1>1 DEF OnResponse, HostOnly, dpaVars, sidecarVars, shmVars, sqs, Others
<1> DEFINE d == r.desc
<1>3. d # Nil /\ d.body # Nil /\ Carries(own, <<"pipe", w>>, d)
  <2>1. delivered[w] \subseteq Delivered(w)
    BY DEF Shapes, HostShapes
  <2>2. d # Nil /\ d.body # Nil
    BY <2>1, DataAssumption DEF Delivered, ReceivedDesc
  <2>3. Carries(own, <<"pipe", w>>, d)
    BY OfWorker DEF Pipes
  <2> QED  BY <2>2, <2>3
<1>4. PICK o : Moves(own, o, d, <<"main rx", w>>)
  BY CanMove
<1>5. Owners(o) /\ Memory(o, mem) /\ Touches(own, o, {<<"pipe", w>>}) /\ Carries(o, <<"main rx", w>>, d)
  BY <1>3, <1>4, Moved DEF OwnInv
<1>6. ASSUME NEW s \in delivered[w], s # r
      PROVE  Carries(o, <<"pipe", w>>, s.desc)
  <2> DEFINE e == s.desc
  <2>a. delivered[w] \subseteq Delivered(w)
    BY DEF Shapes, HostShapes
  <2>b. e # Nil /\ e.body # Nil
    BY <1>6, <2>a, DataAssumption DEF Delivered, ReceivedDesc
  <2>c. Pipes(own, <<"pipe", w>>, delivered[w])
    BY OfWorker DEF Pipes
  <2>1. e # Nil /\ e.body # Nil /\ Carries(own, <<"pipe", w>>, e) /\ Apart(e, d)
    BY <1>1, <1>6, <2>b, <2>c DEF Pipes
  <2> HIDE DEF e, d
  <2>2. /\ e.header # Nil => e.header \in Ref /\ e.header # d.header /\ e.header # d.body
        /\ e.body \in Ref /\ e.body # d.body /\ e.body # d.header
    BY <1>3, <2>1 DEF Carries, HasHeader, HasBody, Owns, Apart, BodyAs
  <2> QED  BY <1>4, <2>1, <2>2 DEF Moves, Carries, HasHeader, HasBody, Owns, e
<1>7. Pipes(o, <<"pipe", w>>, delivered'[w])
  BY <1>1, <1>6, OfWorker DEF Pipes
<1>8. /\ HasHeader(o, <<"main rx", w>>, d.header)
      /\ HasAny(o, <<"main rx", w>>, d.body)
  BY <1>3, <1>5 DEF Carries, HasBody, HasAny, BodyAs
<1>9. Agrees(o, P)'
  BY <1>1, <1>7, <1>8 DEF Agrees, WorkerOwns, DpaOwns, SidecarOwns, HasHeader, HasBody
<1>10. Touches(own, o, P)
  BY <1>5 DEF Touches
<1> HIDE DEF P
<1> QED  BY <1>2, <1>5, <1>9, <1>10, Join

LEMMA UpstreamOwns ==
  ASSUME Shapes, NEW own, OwnInv(own), NEW w \in Worker, Upstream(w) \/ WriteFailed(w), HostOnly
  PROVE  \E x : OwnInv(x)'
<1>1. /\ main'[w].rx_header = main[w].rx_header /\ main'[w].rx_body = main[w].rx_body
      /\ main'[w].tx_header = main[w].tx_header /\ main'[w].tx_body = main[w].tx_body
      /\ \A v \in Worker : v # w => main'[v] = main[v]
  <2>1. CASE Upstream(w)
    <3>1. PICK idx, ib, out : StartRespond(w, IdleMain, idx, ib, out) \/ StartCall(w, IdleMain, idx, out)
      BY <2>1 DEF Upstream
    <3>2. IdleMain \in MainState
      BY DEF IdleMain, MainState, OptRef
    <3>3. /\ main[w].rx_header = Nil /\ main[w].rx_body = Nil
          /\ main[w].tx_header = Nil /\ main[w].tx_body = Nil
      BY <2>1, MainIs DEF Upstream, MainShape
    <3>4. /\ main'[w].rx_header = IdleMain.rx_header /\ main'[w].rx_body = IdleMain.rx_body
          /\ main'[w].tx_header = IdleMain.tx_header /\ main'[w].tx_body = IdleMain.tx_body
          /\ \A v \in Worker : v # w => main'[v] = main[v]
      BY <3>1, <3>2, Starts, MainIs
    <3> QED  BY <3>3, <3>4 DEF IdleMain
  <2>2. CASE WriteFailed(w)
    <3> DEFINE m == AfterHandler(main[w])
               n == [m EXCEPT !.pc = "header"]
    <3>1. main[w] \in MainState /\ main[w].tx_header = Nil /\ main[w].tx_body = Nil
      BY <2>2, MainIs DEF WriteFailed, MainShape
    <3>2. /\ m \in MainState /\ n \in MainState
          /\ m.rx_header = main[w].rx_header /\ m.rx_body = main[w].rx_body
          /\ m.tx_header = Nil /\ m.tx_body = Nil
          /\ n.rx_header = m.rx_header /\ n.rx_body = m.rx_body
          /\ n.tx_header = Nil /\ n.tx_body = Nil
      <4>1. main[w].rx_header \in OptRef /\ main[w].rx_body \in OptRef
        BY <3>1 DEF MainState
      <4>2. CASE main[w].rx_body = Nil
        BY <4>2, MainIs DEF AfterHandler, IdleMain, MainState, OptRef
      <4>3. CASE main[w].rx_body # Nil
        BY <4>1, <4>3 DEF AfterHandler, IdleMain, MainState, OptRef
      <4> QED  BY <4>2, <4>3
    <3>3. \/ \E idx, ib, out : StartRespond(w, n, idx, ib, out)
          \/ main' = [main EXCEPT ![w] = m]
      BY <2>2 DEF WriteFailed
    <3> HIDE DEF m, n
    <3> QED  BY <3>1, <3>2, <3>3, Starts, MainIs
  <2> QED  BY <2>1, <2>2
<1>2. mem' = mem /\ Others({})
  BY <1>1 DEF Upstream, WriteFailed, HostOnly, dpaVars, sidecarVars, pipes, shmVars, sqs, Others
<1>3. Agrees(own, {})'
  BY DEF Agrees, WorkerOwns, DpaOwns, SidecarOwns
<1> QED  BY <1>2, <1>3, Kept

LEMMA FreeRxHeaderOwns ==
  ASSUME Shapes, NEW own, OwnInv(own), NEW w \in Worker, FreeRxHeader(w), HostOnly
  PROVE  \E x : OwnInv(x)'
<1> DEFINE r == main[w].rx_header
           b == main[w].rx_body
           P == {<<"main rx", w>>}
<1>1. Owns(own, <<"main rx", w>>, "header", r) /\ r \in Ref /\ own[r].use = "header"
  <2>1. Owns(own, <<"main rx", w>>, "header", r)
    BY OfWorker DEF FreeRxHeader, HasHeader
  <2> QED  BY <2>1, Owned
<1>2. PICK o : Gives(own, o, r, Nobody)
  BY CanGive
<1>3. Owners(o) /\ Memory(o, mem') /\ Touches(own, o, P)
  BY <1>1, <1>2, Freed DEF FreeRxHeader, Shapes
<1>4. /\ main'[w].rx_header = Nil /\ main'[w].rx_body = b
      /\ Others(P)
  BY MainIs DEF FreeRxHeader, MainState, HostOnly, dpaVars, sidecarVars, pipes, sqs, Others
<1>5. HasAny(o, <<"main rx", w>>, b)
  <2>1. HasAny(own, <<"main rx", w>>, b)
    BY OfWorker
  <2>2. b # Nil => b \in Ref /\ own[b].use \in {"message", "body"}
    BY <2>1, Owned
  <2>3. b # Nil => b # r
    BY <1>1, <2>2
  <2> HIDE DEF b, r
  <2> QED  BY <1>2, <2>1, <2>2, <2>3 DEF HasAny, Owns, Gives
<1>6. Agrees(o, P)'
  BY <1>4, <1>5 DEF Agrees, WorkerOwns, DpaOwns, SidecarOwns, HasHeader
<1> HIDE DEF P
<1> QED  BY <1>3, <1>4, <1>6, Join

LEMMA FreeRxBodyOwns ==
  ASSUME Shapes, NEW own, OwnInv(own), NEW w \in Worker, FreeRxBody(w), HostOnly
  PROVE  \E x : OwnInv(x)'
<1> DEFINE r == main[w].rx_body
           P == {<<"main rx", w>>}
<1>1. PICK use : Owns(own, <<"main rx", w>>, use, r) /\ r \in Ref
  <2>1. r # Nil
    BY MainIs DEF FreeRxBody, MainShape
  <2>2. HasAny(own, <<"main rx", w>>, r)
    BY OfWorker
  <2> QED  BY <2>1, <2>2, Owned DEF HasAny
<1>2. PICK o : Gives(own, o, r, Nobody)
  BY CanGive
<1>3. Owners(o) /\ Memory(o, mem') /\ Touches(own, o, P)
  BY <1>1, <1>2, Freed DEF FreeRxBody, Shapes
<1>4. /\ main'[w].rx_header = Nil /\ main'[w].rx_body = Nil
      /\ Others(P)
  BY MainIs DEF FreeRxBody, MainState, HostOnly, dpaVars, sidecarVars, pipes, sqs, Others
<1>6. Agrees(o, P)'
  BY <1>4 DEF Agrees, WorkerOwns, DpaOwns, SidecarOwns, HasHeader, HasAny
<1> HIDE DEF P
<1> QED  BY <1>3, <1>4, <1>6, Join

LEMMA WriteHeaderOwns ==
  ASSUME Shapes, NEW own, OwnInv(own), NEW w \in Worker, WriteHeader(w), HostOnly
  PROVE  \E x : OwnInv(x)'
<1> DEFINE p == HostPool(w, "tx_header")
           P == {<<"main tx", w>>}
           Q == {<<"main tx", w>>, <<"nobody", Nil>>}
<1>0. /\ main[w].pc = "header" /\ main[w].msg.header \in Header /\ p \in Pool
      /\ main[w].tx_body = Nil
  BY MainIs, ShmAssumption DEF WriteHeader, MainShape, WritePc, Message, HostPool, Pool, Kind
<1>1. CASE Full(p)
  <2>1. mem' = mem /\ Others(P) /\ main'[w].tx_header = main[w].tx_header /\ main'[w].tx_body = main[w].tx_body
    BY <1>1, MainIs DEF WriteHeader, MainState, HostOnly, dpaVars, sidecarVars, pipes, sqs, Others
  <2>2. Agrees(own, P)'
    BY <2>1, OfWorker DEF Agrees, WorkerOwns, DpaOwns, SidecarOwns
  <2> QED  BY <2>1, <2>2, Kept
<1>2. CASE ~Full(p)
  <2>1. AllocWrite(p, main[w].msg.header) /\ main' = [main EXCEPT ![w].pc = "body", ![w].tx_header = NewRef(p)]
    BY <1>2 DEF WriteHeader
  <2>2. PICK o : Gives(own, o, NewRef(p), [part |-> <<"main tx", w>>, use |-> "header"])
    BY CanGive
  <2>3. /\ Owners(o) /\ Memory(o, mem') /\ Touches(own, o, {<<"nobody", Nil>>})
        /\ Owns(o, <<"main tx", w>>, "header", NewRef(p))
    <3> HIDE DEF p
    <3> QED  BY <1>0, <1>2, <2>1, <2>2, Allocated DEF Shapes
  <2>4. /\ main'[w].tx_header = NewRef(p) /\ main'[w].tx_body = Nil
        /\ Others(Q)
    BY <1>0, <2>1, MainIs DEF WriteHeader, MainState, HostOnly, dpaVars, sidecarVars, pipes, sqs, Others
  <2>5. Agrees(o, Q)'
    BY <2>3, <2>4 DEF Agrees, WorkerOwns, DpaOwns, SidecarOwns, HasHeader, HasBody
  <2>6. Touches(own, o, Q)
    BY <2>3 DEF Touches
  <2> HIDE DEF Q
  <2> QED  BY <2>3, <2>4, <2>5, <2>6, Join
<1> QED  BY <1>1, <1>2

LEMMA WriteBodyOwns ==
  ASSUME Shapes, NEW own, OwnInv(own), NEW w \in Worker, WriteBody(w), HostOnly
  PROVE  \E x : OwnInv(x)'
<1> DEFINE p == HostPool(w, "tx_body")
           P == {<<"main tx", w>>}
           Q == {<<"main tx", w>>, <<"nobody", Nil>>}
<1>0. /\ main[w].pc = "body" /\ main[w].msg.body \in Body /\ p \in Pool
  BY MainIs, ShmAssumption DEF WriteBody, MainShape, WritePc, Message, HostPool, Pool, Kind
<1>1. CASE Full(p)
  <2>1. mem' = mem /\ Others(P) /\ main'[w].tx_header = main[w].tx_header /\ main'[w].tx_body = main[w].tx_body
    BY <1>1, MainIs DEF WriteBody, MainState, HostOnly, dpaVars, sidecarVars, pipes, sqs, Others
  <2>2. Agrees(own, P)'
    BY <2>1, OfWorker DEF Agrees, WorkerOwns, DpaOwns, SidecarOwns
  <2> QED  BY <2>1, <2>2, Kept
<1>2. CASE ~Full(p)
  <2>1. AllocWrite(p, main[w].msg.body) /\ main' = [main EXCEPT ![w].pc = "put", ![w].tx_body = NewRef(p)]
    BY <1>2 DEF WriteBody
  <2>2. PICK o : Gives(own, o, NewRef(p), [part |-> <<"main tx", w>>, use |-> "body"])
    BY CanGive
  <2>3. /\ Owners(o) /\ Memory(o, mem') /\ Touches(own, o, {<<"nobody", Nil>>})
        /\ Owns(o, <<"main tx", w>>, "body", NewRef(p))
    <3> HIDE DEF p
    <3> QED  BY <1>0, <1>2, <2>1, <2>2, Allocated DEF Shapes
  <2>4. /\ main'[w].tx_header = main[w].tx_header /\ main'[w].tx_body = NewRef(p)
        /\ Others(Q)
    BY <1>0, <2>1, MainIs DEF WriteBody, MainState, HostOnly, dpaVars, sidecarVars, pipes, sqs, Others
  <2>5. HasHeader(o, <<"main tx", w>>, main[w].tx_header)
    <3>1. <<"main tx", w>> \notin {<<"nobody", Nil>>}
      OBVIOUS
    <3> QED  BY <2>3, <3>1, OfWorker, KeepHas
  <2>6. Agrees(o, Q)'
    BY <2>3, <2>4, <2>5 DEF Agrees, WorkerOwns, DpaOwns, SidecarOwns, HasBody
  <2>7. Touches(own, o, Q)
    BY <2>3 DEF Touches
  <2> HIDE DEF Q
  <2> QED  BY <2>3, <2>4, <2>6, <2>7, Join
<1> QED  BY <1>1, <1>2

LEMMA EnqueueOwns ==
  ASSUME Shapes, NEW own, OwnInv(own), NEW w \in Worker, Enqueue(w), HostOnly
  PROVE  \E x : OwnInv(x)'
<1> DEFINE m == main[w]
           d == [op |-> m.msg.op, case |-> m.msg.case, req_id |-> m.msg.req_id,
                 dst |-> Nil, header |-> m.tx_header, body |-> m.tx_body]
           P == {<<"main tx", w>>, <<"tx_sq", w>>}
<1>1. CASE ~Room(tx_sq[w])
  <2>1. /\ mem' = mem /\ Others({})
    BY <1>1, MainIs DEF Enqueue, MainState, HostOnly, dpaVars, sidecarVars, Others
  <2>2. Agrees(own, {})'
    BY DEF Agrees, WorkerOwns, DpaOwns, SidecarOwns
  <2> QED  BY <2>1, <2>2, Kept
<1>2. CASE Room(tx_sq[w])
  <2>1. /\ tx_sq' = [tx_sq EXCEPT ![w] = Append(@, d)] /\ main' = [main EXCEPT ![w] = AfterHandler(m)]
        /\ m.pc = "put" /\ mem' = mem
    BY <1>2 DEF Enqueue
  <2>2. m \in MainState /\ m.msg \in Message /\ m.tx_header # Nil /\ m.tx_body # Nil
    BY <2>1, MainIs DEF MainShape, WritePc
  <2>3. d \in SentDesc(w)
    <3>1. m.msg.op \in {"req", "resp"} /\ m.msg.case \in {"ingress", "local"} /\ m.msg.req_id \in Nat
          /\ m.tx_header \in Ref /\ m.tx_body \in Ref /\ (m.msg.op = "req" => m.msg.case = "local")
      BY <2>1, <2>2, MainIs DEF MainShape, MainState, Message, OptRef, WritePc
    <3>2. m.tx_header.pool = HostPool(w, "tx_header") /\ m.tx_body.pool = HostPool(w, "tx_body")
      BY <2>2, MainIs DEF MainShape
    <3>3. d \in Descriptor
      BY <3>1 DEF Descriptor, OptRef
    <3> HIDE DEF m
    <3> QED  BY <3>1, <3>2, <3>3 DEF SentDesc
  <2>4. /\ tx_sq[w] \in Seq(SentDesc(w)) /\ DOMAIN tx_sq = Worker
        /\ SentDesc(w) \subseteq Descriptor /\ \A e \in SentDesc(w) : e.body # Nil
    BY DataAssumption DEF Shapes, QueueShapes, SentDesc
  <2>5. Carries(own, <<"main tx", w>>, d) /\ d # Nil
    <3>1. d.header = m.tx_header /\ d.body = m.tx_body /\ BodyAs(d) = "body" /\ d # Nil
      BY <2>3, <2>4, DataAssumption DEF BodyAs, Ingress, SentDesc
    <3> HIDE DEF d
    <3> QED  BY <3>1, OfWorker DEF Carries
  <2>6. PICK o : Moves(own, o, d, <<"tx_sq", w>>)
    BY CanMove
  <2>7. Holds(o, <<"tx_sq", w>>, Append(tx_sq[w], d))
    <3> HIDE DEF d
    <3> QED  BY <2>3, <2>4, <2>5, <2>6, Put, OfWorker
  <2>8. Owners(o) /\ Memory(o, mem) /\ Touches(own, o, {<<"main tx", w>>})
    <3> HIDE DEF d
    <3> QED  BY <2>5, <2>6, Moved DEF OwnInv
  <2>9. /\ main'[w].tx_header = Nil /\ main'[w].tx_body = Nil
        /\ main'[w].rx_header = main[w].rx_header /\ main'[w].rx_body = main[w].rx_body
        /\ \A v \in Worker : v # w => main'[v] = main[v]
    BY <2>1, MainIs DEF AfterHandler, IdleMain
  <2>10. tx_sq'[w] = Append(tx_sq[w], d) /\ Others(P)
    BY <2>1, <2>4, <2>9 DEF Enqueue, HostOnly, dpaVars, sidecarVars, Others
  <2>11. Agrees(o, P)'
    BY <2>7, <2>9, <2>10 DEF Agrees, WorkerOwns, DpaOwns, SidecarOwns, HasHeader, HasBody
  <2>12. Touches(own, o, P)
    BY <2>8 DEF Touches
  <2> HIDE DEF P
  <2> QED  BY <2>1, <2>8, <2>10, <2>11, <2>12, Join
<1> QED  BY <1>1, <1>2

LEMMA UndoHeaderOwns ==
  ASSUME Shapes, NEW own, OwnInv(own), NEW w \in Worker, UndoHeader(w), HostOnly
  PROVE  \E x : OwnInv(x)'
<1> DEFINE r == main[w].tx_header
           b == main[w].tx_body
           P == {<<"main tx", w>>}
<1>1. Owns(own, <<"main tx", w>>, "header", r) /\ r \in Ref /\ own[r].use = "header"
  <2>1. Owns(own, <<"main tx", w>>, "header", r)
    BY OfWorker DEF UndoHeader, HasHeader
  <2> QED  BY <2>1, Owned
<1>2. PICK o : Gives(own, o, r, Nobody)
  BY CanGive
<1>3. Owners(o) /\ Memory(o, mem') /\ Touches(own, o, P)
  BY <1>1, <1>2, Freed DEF UndoHeader, Shapes
<1>4. /\ main'[w].tx_header = Nil /\ main'[w].tx_body = b
      /\ Others(P)
  BY MainIs DEF UndoHeader, MainState, HostOnly, dpaVars, sidecarVars, pipes, sqs, Others
<1>5. HasBody(o, <<"main tx", w>>, "body", b)
  <2>1. HasBody(own, <<"main tx", w>>, "body", b)
    BY OfWorker
  <2>2. b # Nil => b \in Ref /\ own[b].use = "body"
    <3>1. b # Nil => Owns(own, <<"main tx", w>>, "body", b)
      BY <2>1 DEF HasBody
    <3> HIDE DEF b
    <3> QED  BY <3>1, Owned
  <2>3. b # Nil => b # r
    BY <1>1, <2>2
  <2> HIDE DEF b, r
  <2> QED  BY <1>2, <2>1, <2>2, <2>3 DEF HasBody, Owns, Gives
<1>6. Agrees(o, P)'
  BY <1>4, <1>5 DEF Agrees, WorkerOwns, DpaOwns, SidecarOwns, HasHeader
<1> HIDE DEF P
<1> QED  BY <1>3, <1>4, <1>6, Join

LEMMA UndoBodyOwns ==
  ASSUME Shapes, NEW own, OwnInv(own), NEW w \in Worker, UndoBody(w), HostOnly
  PROVE  \E x : OwnInv(x)'
<1> DEFINE r == main[w].tx_body
           P == {<<"main tx", w>>}
<1>1. Owns(own, <<"main tx", w>>, "body", r) /\ r \in Ref
  <2>1. r # Nil
    BY MainIs DEF UndoBody, MainShape
  <2>2. HasBody(own, <<"main tx", w>>, "body", r)
    BY OfWorker
  <2> QED  BY <2>1, <2>2, Owned DEF HasBody
<1>2. PICK o : Gives(own, o, r, Nobody)
  BY CanGive
<1>3. Owners(o) /\ Memory(o, mem') /\ Touches(own, o, P)
  BY <1>1, <1>2, Freed DEF UndoBody, Shapes
<1>4. /\ main'[w].tx_header = Nil /\ main'[w].tx_body = Nil
      /\ Others(P)
  BY MainIs DEF UndoBody, MainState, HostOnly, dpaVars, sidecarVars, pipes, sqs, Others
<1>5. Agrees(o, P)'
  BY <1>4 DEF Agrees, WorkerOwns, DpaOwns, SidecarOwns, HasHeader, HasBody
<1> HIDE DEF P
<1> QED  BY <1>3, <1>4, <1>5, Join
-----------------------------------------------------------------------------
(* The steps of the DPA daemon.                                            *)
LEMMA OfDpa ==
  ASSUME NEW own, OwnInv(own)
  PROVE  /\ Carries(own, <<"dpaTx", Nil>>, dpaTx.desc)
         /\ HasHeader(own, <<"dpaTx copy", Nil>>, dpaTx.header)
         /\ Carries(own, <<"dpaRx", Nil>>, dpaRx.desc)
         /\ HasHeader(own, <<"dpaRx copy", Nil>>, dpaRx.header)
         /\ HasAny(own, <<"dpaRx copy", Nil>>, dpaRx.body)
         /\ dpaRx.pc # "drop" => HasBody(own, <<"dpaRx copy", Nil>>, BodyAs(dpaRx.desc), dpaRx.body)
BY Parts DEF OwnInv, Agrees, DpaOwns

LEMMA OfSidecar ==
  ASSUME NEW own, OwnInv(own)
  PROVE  /\ Carries(own, <<"arm", Nil>>, arm.desc)
         /\ Holds(own, <<"sidecar_tx_sq", Nil>>, sidecar_tx_sq)
         /\ Holds(own, <<"sidecar_rx_sq", Nil>>, sidecar_rx_sq)
         /\ \A c \in Client :
              /\ HasAny(own, <<"bridge", c>>, bridge[c].body)
              /\ bridge[c].pc = "put" => HasBody(own, <<"bridge", c>>, "message", bridge[c].body)
BY Parts DEF OwnInv, Agrees, SidecarOwns

LEMMA QueuedDescs ==
  ASSUME Shapes, NEW w \in Worker
  PROVE  /\ DOMAIN tx_sq = Worker /\ DOMAIN rx_sq = Worker
         /\ tx_sq[w] \in Seq(SentDesc(w)) /\ rx_sq[w] \in Seq(ReceivedDesc(w))
         /\ SentDesc(w) \subseteq Descriptor /\ \A e \in SentDesc(w) : e.body # Nil
         /\ ReceivedDesc(w) \subseteq Descriptor /\ \A e \in ReceivedDesc(w) : e.body # Nil
BY DataAssumption DEF Shapes, QueueShapes, SentDesc, ReceivedDesc

LEMMA SidecarDescs ==
  ASSUME Shapes
  PROVE  /\ sidecar_tx_sq \in Seq(DpuDesc) /\ sidecar_rx_sq \in Seq(RoutedDesc)
         /\ DpuDesc \subseteq Descriptor /\ \A e \in DpuDesc : e.body # Nil
         /\ RoutedDesc \subseteq Descriptor /\ \A e \in RoutedDesc : e.body # Nil
BY DataAssumption DEF Shapes, QueueShapes, DpuDesc, RoutedDesc

LEMMA Given ==
  ASSUME NEW own, NEW o, NEW m, Owners(own), Memory(own, m), NEW from, NEW to, NEW use, NEW r,
         use # "none", Owns(own, from, use, r), Gives(own, o, r, [part |-> to, use |-> use])
  PROVE  Owners(o) /\ Memory(o, m) /\ Touches(own, o, {from}) /\ Owns(o, to, use, r)
<1>1. /\ r \in Ref /\ own[r].use = use /\ own[r].part = from
      /\ o[r] = [part |-> to, use |-> use] /\ \A x \in Ref : x # r => o[x] = own[x]
  BY DEF Owns, Gives
<1>2. use \in {"header", "message", "body"}
  BY <1>1 DEF Owners, Nobody
<1>3. o[r].use = own[r].use
  BY <1>1
<1>4. Owners(o) /\ Memory(o, m)
  BY <1>1, <1>2, <1>3 DEF Owners, Memory
<1>5. Touches(own, o, {from})
  BY <1>1 DEF Touches
<1> QED  BY <1>1, <1>4, <1>5 DEF Owns

LEMMA Distinct ==
  ASSUME NEW own, NEW p, NEW q, NEW u, NEW v, NEW r, NEW s, Owns(own, p, u, r), Owns(own, q, v, s),
         p # q \/ u # v
  PROVE  r # s
BY DEF Owns

LEMMA TouchesBoth ==
  ASSUME NEW own, NEW o, NEW q, NEW P, NEW Q, Touches(own, o, P), Touches(o, q, Q)
  PROVE  Touches(own, q, P \cup Q)
BY DEF Touches

TxParts == {<<"dpaTx", Nil>>, <<"dpaTx copy", Nil>>}
RxParts == {<<"dpaRx", Nil>>, <<"dpaRx copy", Nil>>}

(* One of the threads changes only its locals.                             *)
LEMMA TxOnly ==
  ASSUME DpaOnly, UNCHANGED <<dpaRx, sqs>>
  PROVE  Others(TxParts) /\ Others(TxParts \cup {<<"nobody", Nil>>})
BY DEF DpaOnly, hostVars, calls, pipes, sidecarVars, sqs, Others, TxParts

LEMMA RxOnly ==
  ASSUME DpaOnly, UNCHANGED <<dpaTx, sqs>>
  PROVE  Others(RxParts) /\ Others(RxParts \cup {<<"nobody", Nil>>})
BY DEF DpaOnly, hostVars, calls, pipes, sidecarVars, sqs, Others, RxParts

LEMMA TxAgrees ==
  ASSUME NEW o, Carries(o, <<"dpaTx", Nil>>, dpaTx'.desc), HasHeader(o, <<"dpaTx copy", Nil>>, dpaTx'.header)
  PROVE  Agrees(o, TxParts)' /\ Agrees(o, TxParts \cup {<<"nobody", Nil>>})'
BY DEF Agrees, WorkerOwns, DpaOwns, SidecarOwns, TxParts

LEMMA RxAgrees ==
  ASSUME NEW o, Carries(o, <<"dpaRx", Nil>>, dpaRx'.desc), HasHeader(o, <<"dpaRx copy", Nil>>, dpaRx'.header),
         HasAny(o, <<"dpaRx copy", Nil>>, dpaRx'.body),
         dpaRx'.pc # "drop" => HasBody(o, <<"dpaRx copy", Nil>>, BodyAs(dpaRx'.desc), dpaRx'.body)
  PROVE  Agrees(o, RxParts)' /\ Agrees(o, RxParts \cup {<<"nobody", Nil>>})'
BY DEF Agrees, WorkerOwns, DpaOwns, SidecarOwns, RxParts, BodyAs, Ingress

LEMMA TxIs ==
  ASSUME Shapes
  PROVE  /\ DpaTxShape(dpaTx) /\ dpaTx.desc \in OptDesc /\ dpaTx.header \in OptRef
         /\ dpaTx \in [pc : {"poll", "copy", "requeue", "free", "put", "drop"}, src : Worker \cup {Nil},
                       desc : OptDesc, header : OptRef]
BY DEF Shapes, DpaTxShape

LEMMA TxGetOwns ==
  ASSUME Shapes, NEW own, OwnInv(own), NEW w \in Worker, TxGet(w), DpaOnly
  PROVE  \E x : OwnInv(x)'
<1> DEFINE d == Head(tx_sq[w])
           P == {<<"tx_sq", w>>} \cup TxParts
<1>1. PICK o : Moves(own, o, d, <<"dpaTx", Nil>>)
  BY CanMove
<1>2. tx_sq[w] # << >>
  BY DEF TxGet
<1>3. d # Nil /\ Carries(own, <<"tx_sq", w>>, d) /\ Holds(o, <<"tx_sq", w>>, Tail(tx_sq[w]))
  BY <1>1, <1>2, Take, OfWorker, QueuedDescs
<1>4. Owners(o) /\ Memory(o, mem) /\ Touches(own, o, {<<"tx_sq", w>>}) /\ Carries(o, <<"dpaTx", Nil>>, d)
  BY <1>1, <1>3, Moved DEF OwnInv
<1>5. /\ tx_sq'[w] = Tail(tx_sq[w]) /\ dpaTx'.desc = d /\ dpaTx'.header = Nil /\ mem' = mem
      /\ Others(P)
  BY QueuedDescs DEF TxGet, IdleTx, DpaOnly, hostVars, calls, pipes, sidecarVars, Others, TxParts
<1>6. Agrees(o, P)'
  BY <1>3, <1>4, <1>5 DEF Agrees, WorkerOwns, DpaOwns, SidecarOwns, HasHeader, TxParts
<1>7. Touches(own, o, P)
  BY <1>4 DEF Touches
<1> HIDE DEF P
<1> QED  BY <1>4, <1>5, <1>6, <1>7, Join

LEMMA TxCopyOwns ==
  ASSUME Shapes, NEW own, OwnInv(own), TxCopy, DpaOnly
  PROVE  \E x : OwnInv(x)'
<1> DEFINE P == TxParts \cup {<<"nobody", Nil>>}
           h == dpaTx.desc.header
<1>0. Others(TxParts) /\ Others(P)
  BY TxOnly DEF TxCopy
<1>1. CASE Full(DpuTxHeader)
  <2>1. mem' = mem /\ dpaTx'.desc = dpaTx.desc /\ dpaTx'.header = dpaTx.header
    BY <1>1, TxIs DEF TxCopy
  <2>2. Agrees(own, TxParts)'
    BY <2>1, OfDpa, TxAgrees
  <2> QED  BY <1>0, <2>1, <2>2, Kept
<1>2. CASE ~Full(DpuTxHeader)
  <2>1. /\ AllocWrite(DpuTxHeader, ReadSlot(h))
        /\ dpaTx'.desc = dpaTx.desc /\ dpaTx'.header = NewRef(DpuTxHeader)
    BY <1>2, TxIs DEF TxCopy
  <2>2. ReadSlot(h) \in Header
    <3>1. h # Nil /\ dpaTx.desc # Nil
      BY TxIs, DataAssumption DEF TxCopy, DpaTxShape, SentDesc
    <3>2. Owns(own, <<"dpaTx", Nil>>, "header", h)
      BY <3>1, OfDpa DEF Carries, HasHeader
    <3>3. h \in Ref /\ own[h].use = "header"
      BY <3>2, Owned, SMTT(30)
    <3> QED  BY <3>3 DEF ReadSlot, OwnInv, Memory
  <2>3. PICK o : Gives(own, o, NewRef(DpuTxHeader), [part |-> <<"dpaTx copy", Nil>>, use |-> "header"])
    BY CanGive
  <2>4. /\ Owners(o) /\ Memory(o, mem') /\ Touches(own, o, {<<"nobody", Nil>>})
        /\ Owns(o, <<"dpaTx copy", Nil>>, "header", NewRef(DpuTxHeader))
    <3>1. DpuTxHeader \in Pool
      BY DEF Pool
    <3> QED  BY <1>2, <2>1, <2>2, <2>3, <3>1, Allocated DEF Shapes
  <2>5. Carries(o, <<"dpaTx", Nil>>, dpaTx.desc)
    <3>1. <<"dpaTx", Nil>> \notin {<<"nobody", Nil>>}
      OBVIOUS
    <3> QED  BY <2>4, <3>1, OfDpa, KeepCarries
  <2>6. Agrees(o, P)'
    BY <2>1, <2>4, <2>5, TxAgrees DEF HasHeader
  <2>7. Touches(own, o, P)
    BY <2>4 DEF Touches
  <2> HIDE DEF P
  <2> QED  BY <1>0, <2>4, <2>6, <2>7, Join
<1> QED  BY <1>1, <1>2

LEMMA TxRequeueOwns ==
  ASSUME Shapes, NEW own, OwnInv(own), TxRequeue, DpaOnly
  PROVE  \E x : OwnInv(x)'
<1> DEFINE d == dpaTx.desc
<1>w. PICK w \in Worker : w = dpaTx.src
  BY TxIs DEF TxRequeue, DpaTxShape
<1> DEFINE P == {<<"tx_sq", w>>} \cup TxParts
<1>0. d \in SentDesc(w) /\ d # Nil
  BY <1>w, TxIs, DataAssumption DEF TxRequeue, DpaTxShape, SentDesc
<1>1. /\ tx_sq'[w] = PutBack(tx_sq[w], d) /\ dpaTx'.desc = Nil /\ dpaTx'.header = Nil /\ mem' = mem
      /\ \A v \in Worker : v # w => tx_sq'[v] = tx_sq[v]
  BY <1>w, QueuedDescs DEF TxRequeue, IdleTx
<1>2. Others(P)
  BY <1>1 DEF TxRequeue, DpaOnly, hostVars, calls, pipes, sidecarVars, Others, TxParts
<1>3. CASE Room(tx_sq[w])
  <2>1. PICK o : Moves(own, o, d, <<"tx_sq", w>>)
    BY CanMove
  <2>2. Carries(own, <<"dpaTx", Nil>>, d) /\ Holds(own, <<"tx_sq", w>>, tx_sq[w])
    BY <1>0, OfDpa, OfWorker
  <2>3. Holds(o, <<"tx_sq", w>>, Append(tx_sq[w], d))
    <3> HIDE DEF d
    <3> QED  BY <1>0, <2>1, <2>2, Put, QueuedDescs
  <2>4. Owners(o) /\ Memory(o, mem) /\ Touches(own, o, {<<"dpaTx", Nil>>})
    <3> HIDE DEF d
    <3> QED  BY <1>0, <2>1, <2>2, Moved DEF OwnInv
  <2>5. Agrees(o, P)'
    <3> HIDE DEF d
    <3> QED  BY <1>1, <1>3, <2>3
             DEF PutBack, Agrees, WorkerOwns, DpaOwns, SidecarOwns, Carries, HasHeader, TxParts
  <2>6. Touches(own, o, P)
    BY <2>4 DEF Touches, TxParts
  <2> HIDE DEF P
  <2> QED  BY <1>1, <1>2, <2>4, <2>5, <2>6, Join
<1>4. CASE ~Room(tx_sq[w])
  <2>1. Agrees(own, P)'
    <3> HIDE DEF d
    <3> QED  BY <1>0, <1>1, <1>4, OfWorker
             DEF PutBack, Agrees, WorkerOwns, DpaOwns, SidecarOwns, Carries, HasHeader, TxParts
  <2> HIDE DEF P
  <2> QED  BY <1>1, <1>2, <2>1, Kept
<1> QED  BY <1>3, <1>4

LEMMA TxFreeOwns ==
  ASSUME Shapes, NEW own, OwnInv(own), TxFree, DpaOnly
  PROVE  \E x : OwnInv(x)'
<1> DEFINE d == dpaTx.desc
           h == d.header
           c == dpaTx.header
<1>0. Others(TxParts)
  BY TxOnly DEF TxFree
<1>1. d # Nil /\ d \in Descriptor /\ h # Nil /\ c # Nil /\ FreeSlot(h) /\ d.body # Nil /\ BodyAs(d) = "body"
  BY TxIs, DataAssumption DEF TxFree, DpaTxShape, SentDesc, BodyAs, Ingress
<1>2. dpaTx'.desc = [d EXCEPT !.header = c] /\ dpaTx'.header = Nil
  BY TxIs DEF TxFree
<1> DEFINE e == [d EXCEPT !.header = c]
<1>3. e # Nil /\ e.header = c /\ e.body = d.body /\ BodyAs(e) = "body"
  <2>1. e.header = c /\ e.body = d.body /\ e.op = d.op /\ e.case = d.case
    BY <1>1 DEF Descriptor
  <2>2. e \in Descriptor
    BY <1>1, TxIs DEF Descriptor
  <2> QED  BY <1>1, <2>1, <2>2, DataAssumption DEF BodyAs, Ingress
<1>4. /\ Owns(own, <<"dpaTx", Nil>>, "header", h) /\ Owns(own, <<"dpaTx", Nil>>, "body", d.body)
      /\ Owns(own, <<"dpaTx copy", Nil>>, "header", c)
  BY <1>1, OfDpa DEF Carries, HasHeader, HasBody
<1> HIDE DEF d, h, c, e
<1>5. /\ h \in Ref /\ c \in Ref /\ d.body \in Ref /\ c # h /\ d.body # h /\ d.body # c
  <2>1. <<"dpaTx", Nil>> # <<"dpaTx copy", Nil>>
    OBVIOUS
  <2>2. c # h /\ d.body # h /\ d.body # c
    BY <1>4, <2>1, Distinct
  <2> QED  BY <1>4, <2>2, Owned
<1>6. PICK o : Gives(own, o, h, Nobody)
  BY CanGive
<1>7. PICK q : Gives(o, q, c, [part |-> <<"dpaTx", Nil>>, use |-> "header"])
  BY CanGive
<1>8. Owners(o) /\ Memory(o, mem') /\ Touches(own, o, {<<"dpaTx", Nil>>})
  BY <1>1, <1>4, <1>5, <1>6, Freed DEF Shapes
<1>9. Owns(o, <<"dpaTx copy", Nil>>, "header", c) /\ Owns(o, <<"dpaTx", Nil>>, "body", d.body)
  BY <1>4, <1>5, <1>6 DEF Gives, Owns
<1>10. /\ Owners(q) /\ Memory(q, mem') /\ Touches(o, q, {<<"dpaTx copy", Nil>>})
       /\ Owns(q, <<"dpaTx", Nil>>, "header", c)
  BY <1>7, <1>8, <1>9, Given
<1>11. Owns(q, <<"dpaTx", Nil>>, "body", d.body)
  BY <1>5, <1>7, <1>9 DEF Gives, Owns
<1>12. Agrees(q, TxParts)'
  <2>1. Carries(q, <<"dpaTx", Nil>>, e)
    BY <1>3, <1>10, <1>11 DEF Carries, HasHeader, HasBody
  <2>2. HasHeader(q, <<"dpaTx copy", Nil>>, Nil)
    BY DEF HasHeader
  <2> QED  BY <1>2, <2>1, <2>2, TxAgrees DEF e
<1>13. Touches(own, q, TxParts)
  BY <1>8, <1>10, TouchesBoth DEF Touches, TxParts
<1> QED  BY <1>0, <1>10, <1>12, <1>13, Join

LEMMA TxPutOwns ==
  ASSUME Shapes, NEW own, OwnInv(own), TxPut, DpaOnly
  PROVE  \E x : OwnInv(x)'
<1> DEFINE d == dpaTx.desc
           P == {<<"sidecar_tx_sq", Nil>>} \cup TxParts
<1>0. d \in DpuDesc /\ d # Nil /\ dpaTx.header = Nil
  BY TxIs, DataAssumption DEF TxPut, DpaTxShape, DpuDesc
<1>1. CASE Room(sidecar_tx_sq)
  <2>1. /\ sidecar_tx_sq' = Append(sidecar_tx_sq, d) /\ dpaTx'.desc = Nil /\ dpaTx'.header = Nil /\ mem' = mem
        /\ Others(P)
    BY <1>1 DEF TxPut, IdleTx, DpaOnly, hostVars, calls, pipes, sidecarVars, Others, TxParts
  <2>2. PICK o : Moves(own, o, d, <<"sidecar_tx_sq", Nil>>)
    BY CanMove
  <2>3. Carries(own, <<"dpaTx", Nil>>, d) /\ Holds(own, <<"sidecar_tx_sq", Nil>>, sidecar_tx_sq)
    BY OfDpa, OfSidecar
  <2> HIDE DEF d
  <2>4. Holds(o, <<"sidecar_tx_sq", Nil>>, Append(sidecar_tx_sq, d))
    BY <1>0, <2>2, <2>3, Put, SidecarDescs
  <2>5. Owners(o) /\ Memory(o, mem) /\ Touches(own, o, {<<"dpaTx", Nil>>})
    BY <1>0, <2>2, <2>3, Moved DEF OwnInv
  <2>6. Agrees(o, P)'
    BY <2>1, <2>4 DEF Agrees, WorkerOwns, DpaOwns, SidecarOwns, Carries, HasHeader, TxParts
  <2>7. Touches(own, o, P)
    BY <2>5 DEF Touches, TxParts
  <2> HIDE DEF P
  <2> QED  BY <2>1, <2>5, <2>6, <2>7, Join
<1>2. CASE ~Room(sidecar_tx_sq)
  <2>1. /\ dpaTx'.desc = dpaTx.desc /\ dpaTx'.header = dpaTx.header /\ mem' = mem
        /\ UNCHANGED <<dpaRx, sqs>>
    BY <1>2, TxIs DEF TxPut, sqs
  <2>2. Agrees(own, TxParts)'
    BY <2>1, OfDpa, TxAgrees
  <2>3. Others(TxParts)
    BY <2>1, TxOnly
  <2> QED  BY <2>1, <2>2, <2>3, Kept
<1> QED  BY <1>1, <1>2

LEMMA TxDropOwns ==
  ASSUME Shapes, NEW own, OwnInv(own), TxDrop, DpaOnly
  PROVE  \E x : OwnInv(x)'
<1> DEFINE h == dpaTx.desc.header
<1>0. Others(TxParts)
  BY TxOnly DEF TxDrop
<1>1. dpaTx.desc # Nil /\ h # Nil /\ FreeSlot(h) /\ dpaTx'.desc = Nil /\ dpaTx'.header = Nil
  BY TxIs, DataAssumption DEF TxDrop, DpaTxShape, DpuDesc, IdleTx
<1>2. Owns(own, <<"dpaTx", Nil>>, "header", h) /\ h \in Ref
  BY <1>1, OfDpa DEF Carries, HasHeader, Owns
<1>3. PICK o : Gives(own, o, h, Nobody)
  BY CanGive
<1> HIDE DEF h
<1>4. Owners(o) /\ Memory(o, mem') /\ Touches(own, o, {<<"dpaTx", Nil>>})
  BY <1>1, <1>2, <1>3, Freed DEF Shapes
<1>5. Agrees(o, TxParts)'
  BY <1>1, TxAgrees DEF Carries, HasHeader
<1>6. Touches(own, o, TxParts)
  BY <1>4 DEF Touches, TxParts
<1> QED  BY <1>0, <1>4, <1>5, <1>6, Join

LEMMA RxIs ==
  ASSUME Shapes
  PROVE  /\ DpaRxShape(dpaRx) /\ dpaRx.desc \in OptDesc /\ dpaRx.header \in OptRef /\ dpaRx.body \in OptRef
         /\ dpaRx \in [pc : {"poll", "body", "requeue", "free_body", "header", "free_header", "put", "drop"},
                       desc : OptDesc, body : OptRef, header : OptRef]
BY DEF Shapes, DpaRxShape

LEMMA RxGetOwns ==
  ASSUME Shapes, NEW own, OwnInv(own), RxGet, DpaOnly
  PROVE  \E x : OwnInv(x)'
<1> DEFINE d == Head(sidecar_rx_sq)
           P == {<<"sidecar_rx_sq", Nil>>} \cup RxParts
<1>1. PICK o : Moves(own, o, d, <<"dpaRx", Nil>>)
  BY CanMove
<1>2. sidecar_rx_sq # << >>
  BY DEF RxGet
<1>3. d # Nil /\ Carries(own, <<"sidecar_rx_sq", Nil>>, d) /\ Holds(o, <<"sidecar_rx_sq", Nil>>, Tail(sidecar_rx_sq))
  BY <1>1, <1>2, Take, OfSidecar, SidecarDescs
<1>4. /\ Owners(o) /\ Memory(o, mem) /\ Touches(own, o, {<<"sidecar_rx_sq", Nil>>})
      /\ Carries(o, <<"dpaRx", Nil>>, d)
  BY <1>1, <1>3, Moved DEF OwnInv
<1>5. /\ sidecar_rx_sq' = Tail(sidecar_rx_sq) /\ dpaRx'.desc = d /\ dpaRx'.header = Nil /\ dpaRx'.body = Nil
      /\ mem' = mem /\ Others(P)
  BY DEF RxGet, IdleRx, DpaOnly, hostVars, calls, pipes, sidecarVars, Others, RxParts
<1>6. Agrees(o, P)'
  BY <1>3, <1>4, <1>5 DEF Agrees, WorkerOwns, DpaOwns, SidecarOwns, HasHeader, HasAny, HasBody, RxParts
<1>7. Touches(own, o, P)
  BY <1>4 DEF Touches
<1> HIDE DEF P
<1> QED  BY <1>4, <1>5, <1>6, <1>7, Join

LEMMA RxCopyBodyOwns ==
  ASSUME Shapes, NEW own, OwnInv(own), RxCopyBody, DpaOnly
  PROVE  \E x : OwnInv(x)'
<1> DEFINE d == dpaRx.desc
           b == d.body
           p == HostPool(d.dst, "rx_body")
           P == RxParts \cup {<<"nobody", Nil>>}
<1>0. Others(RxParts) /\ Others(P)
  BY RxOnly DEF RxCopyBody
<1>1. d # Nil /\ d.dst \in Worker /\ b # Nil /\ dpaRx.body = Nil /\ dpaRx.header = Nil
  BY RxIs, SidecarDescs, DataAssumption DEF RxCopyBody, DpaRxShape, RoutedDesc
<1>2. CASE Full(p)
  <2>1. /\ mem' = mem /\ dpaRx'.desc = d /\ dpaRx'.header = dpaRx.header /\ dpaRx'.body = Nil
        /\ HasBody(own, <<"dpaRx copy", Nil>>, BodyAs(d), Nil)
    BY <1>1, <1>2, RxIs DEF RxCopyBody, HasBody
  <2>2. Agrees(own, RxParts)'
    BY <1>1, <2>1, OfDpa, RxAgrees
  <2> QED  BY <1>0, <2>1, <2>2, Kept
<1>3. CASE ~Full(p)
  <2>1. /\ AllocWrite(p, ReadSlot(b)) /\ dpaRx'.desc = d /\ dpaRx'.header = Nil /\ dpaRx'.body = NewRef(p)
    BY <1>1, <1>3, RxIs DEF RxCopyBody
  <2>2. p \in Pool
    BY <1>1, ShmAssumption DEF HostPool, Pool, Kind
  <2>3. \/ BodyAs(d) = "message" /\ ReadSlot(b) \in Header
        \/ BodyAs(d) = "body" /\ ReadSlot(b) \in Body
    <3>1. Owns(own, <<"dpaRx", Nil>>, BodyAs(d), b)
      BY <1>1, OfDpa DEF Carries, HasBody
    <3>2. BodyAs(d) \in {"message", "body"}
      BY DEF BodyAs
    <3> HIDE DEF b, d
    <3>3. b \in Ref /\ own[b].use = BodyAs(d)
      BY <3>1, Owned
    <3> QED  BY <3>2, <3>3 DEF ReadSlot, OwnInv, Memory
  <2>4. PICK o : Gives(own, o, NewRef(p), [part |-> <<"dpaRx copy", Nil>>, use |-> BodyAs(d)])
    BY CanGive
  <2>5. /\ Owners(o) /\ Memory(o, mem') /\ Touches(own, o, {<<"nobody", Nil>>})
        /\ Owns(o, <<"dpaRx copy", Nil>>, BodyAs(d), NewRef(p))
    <3> HIDE DEF p, b, d
    <3> QED  BY <1>3, <2>1, <2>2, <2>3, <2>4, Allocated DEF Shapes
  <2>6. Carries(o, <<"dpaRx", Nil>>, d)
    <3>1. <<"dpaRx", Nil>> \notin {<<"nobody", Nil>>}
      OBVIOUS
    <3> QED  BY <2>5, <3>1, OfDpa, KeepCarries
  <2>7. HasAny(o, <<"dpaRx copy", Nil>>, NewRef(p)) /\ HasBody(o, <<"dpaRx copy", Nil>>, BodyAs(d), NewRef(p))
    BY <2>5 DEF HasAny, HasBody, BodyAs
  <2>8. Agrees(o, P)'
    <3>1. HasHeader(o, <<"dpaRx copy", Nil>>, dpaRx'.header)
      BY <2>1 DEF HasHeader
    <3> HIDE DEF p, d
    <3> QED  BY <2>1, <2>6, <2>7, <3>1, RxAgrees
  <2>9. Touches(own, o, P)
    BY <2>5 DEF Touches
  <2> HIDE DEF P
  <2> QED  BY <1>0, <2>5, <2>8, <2>9, Join
<1> QED  BY <1>2, <1>3

LEMMA RxRequeueOwns ==
  ASSUME Shapes, NEW own, OwnInv(own), RxRequeue, DpaOnly
  PROVE  \E x : OwnInv(x)'
<1> DEFINE d == dpaRx.desc
           P == {<<"sidecar_rx_sq", Nil>>} \cup RxParts
<1>0. d \in RoutedDesc /\ d # Nil
  BY RxIs, DataAssumption DEF RxRequeue, DpaRxShape, RoutedDesc
<1>1. /\ sidecar_rx_sq' = PutBack(sidecar_rx_sq, d) /\ mem' = mem
      /\ dpaRx'.desc = Nil /\ dpaRx'.header = Nil /\ dpaRx'.body = Nil /\ Others(P)
  BY DEF RxRequeue, IdleRx, DpaOnly, hostVars, calls, pipes, sidecarVars, Others, RxParts
<1>2. Carries(own, <<"dpaRx", Nil>>, d) /\ Holds(own, <<"sidecar_rx_sq", Nil>>, sidecar_rx_sq)
  BY OfDpa, OfSidecar
<1> HIDE DEF d
<1>3. CASE Room(sidecar_rx_sq)
  <2>1. PICK o : Moves(own, o, d, <<"sidecar_rx_sq", Nil>>)
    BY CanMove
  <2>2. Holds(o, <<"sidecar_rx_sq", Nil>>, Append(sidecar_rx_sq, d))
    BY <1>0, <1>2, <2>1, Put, SidecarDescs
  <2>3. Owners(o) /\ Memory(o, mem) /\ Touches(own, o, {<<"dpaRx", Nil>>})
    BY <1>0, <1>2, <2>1, Moved DEF OwnInv
  <2>4. Agrees(o, P)'
    BY <1>1, <1>3, <2>2
    DEF PutBack, Agrees, WorkerOwns, DpaOwns, SidecarOwns, Carries, HasHeader, HasAny, HasBody, RxParts
  <2>5. Touches(own, o, P)
    BY <2>3 DEF Touches, RxParts
  <2> HIDE DEF P
  <2> QED  BY <1>1, <2>3, <2>4, <2>5, Join
<1>4. CASE ~Room(sidecar_rx_sq)
  <2>1. Agrees(own, P)'
    BY <1>1, <1>2, <1>4
    DEF PutBack, Agrees, WorkerOwns, DpaOwns, SidecarOwns, Carries, HasHeader, HasAny, HasBody, RxParts
  <2> HIDE DEF P
  <2> QED  BY <1>1, <2>1, Kept
<1> QED  BY <1>3, <1>4

LEMMA RxFreeBodyOwns ==
  ASSUME Shapes, NEW own, OwnInv(own), RxFreeBody, DpaOnly
  PROVE  \E x : OwnInv(x)'
<1> DEFINE d == dpaRx.desc
           b == d.body
           e == [d EXCEPT !.body = Nil]
<1>0. Others(RxParts)
  BY RxOnly DEF RxFreeBody
<1>1. d # Nil /\ d \in Descriptor /\ b # Nil /\ dpaRx.body # Nil /\ FreeSlot(b) /\ dpaRx.header = Nil
      /\ dpaRx.pc # "drop"
  BY RxIs, SidecarDescs, DataAssumption DEF RxFreeBody, DpaRxShape, RoutedDesc
<1>2. dpaRx'.desc = e /\ dpaRx'.body = dpaRx.body /\ dpaRx'.header = Nil
  BY <1>1, RxIs DEF RxFreeBody
<1>3. e.header = d.header /\ e.body = Nil /\ BodyAs(e) = BodyAs(d)
  BY <1>1 DEF Descriptor, BodyAs, Ingress
<1>4. /\ Owns(own, <<"dpaRx", Nil>>, BodyAs(d), b)
      /\ d.header # Nil => Owns(own, <<"dpaRx", Nil>>, "header", d.header)
      /\ BodyAs(d) # "header"
      /\ HasAny(own, <<"dpaRx copy", Nil>>, dpaRx.body)
      /\ HasBody(own, <<"dpaRx copy", Nil>>, BodyAs(d), dpaRx.body)
  BY <1>1, OfDpa DEF Carries, HasHeader, HasBody, BodyAs
<1> HIDE DEF d, b, e
<1>5. PICK o : Gives(own, o, b, Nobody)
  BY CanGive
<1>6. Owners(o) /\ Memory(o, mem') /\ Touches(own, o, {<<"dpaRx", Nil>>})
  <2>1. b \in Ref
    BY <1>4, Owned
  <2> QED  BY <1>1, <1>4, <1>5, <2>1, Freed DEF Shapes
<1>7. d.header # Nil => Owns(o, <<"dpaRx", Nil>>, "header", d.header)
  <2>1. d.header # Nil => d.header # b
    BY <1>4, Distinct
  <2> QED  BY <1>4, <1>5, <2>1 DEF Gives, Owns
<1>8. /\ HasAny(o, <<"dpaRx copy", Nil>>, dpaRx.body)
      /\ HasBody(o, <<"dpaRx copy", Nil>>, BodyAs(d), dpaRx.body)
  <2>1. <<"dpaRx copy", Nil>> \notin {<<"dpaRx", Nil>>}
    OBVIOUS
  <2> QED  BY <1>4, <1>6, <2>1, KeepHas
<1>9. Agrees(o, RxParts)'
  <2>1. Carries(o, <<"dpaRx", Nil>>, e)
    BY <1>3, <1>7 DEF Carries, HasHeader, HasBody
  <2>2. HasHeader(o, <<"dpaRx copy", Nil>>, dpaRx'.header)
    BY <1>2 DEF HasHeader
  <2> QED  BY <1>2, <1>3, <1>8, <2>1, <2>2, RxAgrees
<1>10. Touches(own, o, RxParts)
  BY <1>6 DEF Touches, RxParts
<1> QED  BY <1>0, <1>6, <1>9, <1>10, Join

LEMMA RxCopyHeaderOwns ==
  ASSUME Shapes, NEW own, OwnInv(own), RxCopyHeader, DpaOnly
  PROVE  \E x : OwnInv(x)'
<1> DEFINE d == dpaRx.desc
           h == d.header
           p == HostPool(d.dst, "rx_header")
           P == RxParts \cup {<<"nobody", Nil>>}
<1>0. Others(RxParts) /\ Others(P)
  BY RxOnly DEF RxCopyHeader
<1>1. d # Nil /\ d.dst \in Worker /\ h # Nil /\ dpaRx.header = Nil /\ dpaRx.pc # "drop"
  BY RxIs, DataAssumption DEF RxCopyHeader, DpaRxShape
<1>2. CASE Full(p)
  <2>1. mem' = mem /\ dpaRx'.desc = Nil /\ dpaRx'.header = Nil /\ dpaRx'.body = dpaRx.body /\ dpaRx'.pc = "drop"
    BY <1>1, <1>2, RxIs DEF RxCopyHeader
  <2>2. Agrees(own, RxParts)'
    BY <2>1, OfDpa, RxAgrees DEF Carries, HasHeader
  <2> QED  BY <1>0, <2>1, <2>2, Kept
<1>3. CASE ~Full(p)
  <2>1. AllocWrite(p, ReadSlot(h)) /\ dpaRx'.desc = d /\ dpaRx'.header = NewRef(p) /\ dpaRx'.body = dpaRx.body
    BY <1>1, <1>3, RxIs DEF RxCopyHeader
  <2>2. p \in Pool
    BY <1>1, ShmAssumption DEF HostPool, Pool, Kind
  <2>3. ReadSlot(h) \in Header
    <3>1. Owns(own, <<"dpaRx", Nil>>, "header", h)
      BY <1>1, OfDpa DEF Carries, HasHeader
    <3>2. h \in Ref /\ own[h].use = "header"
      BY <3>1, Owned
    <3> QED  BY <3>2 DEF ReadSlot, OwnInv, Memory
  <2>4. PICK o : Gives(own, o, NewRef(p), [part |-> <<"dpaRx copy", Nil>>, use |-> "header"])
    BY CanGive
  <2>5. /\ Owners(o) /\ Memory(o, mem') /\ Touches(own, o, {<<"nobody", Nil>>})
        /\ Owns(o, <<"dpaRx copy", Nil>>, "header", NewRef(p))
    <3> HIDE DEF p, h
    <3> QED  BY <1>3, <2>1, <2>2, <2>3, <2>4, Allocated DEF Shapes
  <2>6. /\ Carries(o, <<"dpaRx", Nil>>, d)
        /\ HasAny(o, <<"dpaRx copy", Nil>>, dpaRx.body)
        /\ HasBody(o, <<"dpaRx copy", Nil>>, BodyAs(d), dpaRx.body)
    <3>1. <<"dpaRx", Nil>> \notin {<<"nobody", Nil>>} /\ <<"dpaRx copy", Nil>> \notin {<<"nobody", Nil>>}
      OBVIOUS
    <3> QED  BY <1>1, <2>5, <3>1, OfDpa, KeepCarries, KeepHas
  <2>7. Agrees(o, P)'
    <3>1. HasHeader(o, <<"dpaRx copy", Nil>>, NewRef(p))
      BY <2>5 DEF HasHeader
    <3> HIDE DEF p, d
    <3> QED  BY <2>1, <2>6, <3>1, RxAgrees
  <2>8. Touches(own, o, P)
    BY <2>5 DEF Touches
  <2> HIDE DEF P
  <2> QED  BY <1>0, <2>5, <2>7, <2>8, Join
<1> QED  BY <1>2, <1>3

LEMMA RxFreeHeaderOwns ==
  ASSUME Shapes, NEW own, OwnInv(own), RxFreeHeader, DpaOnly
  PROVE  \E x : OwnInv(x)'
<1> DEFINE d == dpaRx.desc
           h == d.header
           e == [d EXCEPT !.header = Nil]
<1>0. Others(RxParts)
  BY RxOnly DEF RxFreeHeader
<1>1. d # Nil /\ d \in Descriptor /\ h # Nil /\ d.body = Nil /\ FreeSlot(h) /\ dpaRx.pc # "drop"
  BY RxIs, DataAssumption DEF RxFreeHeader, DpaRxShape, OptDesc
<1>2. dpaRx'.desc = e /\ dpaRx'.body = dpaRx.body /\ dpaRx'.header = dpaRx.header
  BY <1>1, RxIs DEF RxFreeHeader
<1>3. e.header = Nil /\ e.body = Nil /\ BodyAs(e) = BodyAs(d)
  BY <1>1 DEF Descriptor, BodyAs, Ingress
<1>4. Owns(own, <<"dpaRx", Nil>>, "header", h)
  BY <1>1, OfDpa DEF Carries, HasHeader
<1> HIDE DEF h, e
<1>5. PICK o : Gives(own, o, h, Nobody)
  BY CanGive
<1>6. Owners(o) /\ Memory(o, mem') /\ Touches(own, o, {<<"dpaRx", Nil>>})
  <2>1. h \in Ref
    BY <1>4, Owned
  <2> QED  BY <1>1, <1>4, <1>5, <2>1, Freed DEF Shapes
<1>7. /\ HasHeader(o, <<"dpaRx copy", Nil>>, dpaRx.header)
      /\ HasAny(o, <<"dpaRx copy", Nil>>, dpaRx.body)
      /\ HasBody(o, <<"dpaRx copy", Nil>>, BodyAs(d), dpaRx.body)
  <2>1. <<"dpaRx copy", Nil>> \notin {<<"dpaRx", Nil>>}
    OBVIOUS
  <2> QED  BY <1>1, <1>6, <2>1, OfDpa, KeepHas
<1> HIDE DEF d
<1>8. Agrees(o, RxParts)'
  <2>1. Carries(o, <<"dpaRx", Nil>>, e)
    BY <1>3 DEF Carries, HasHeader, HasBody
  <2> QED  BY <1>2, <1>3, <1>7, <2>1, RxAgrees
<1>9. Touches(own, o, RxParts)
  BY <1>6 DEF Touches, RxParts
<1> QED  BY <1>0, <1>6, <1>8, <1>9, Join

(* The descriptor that is put names the copies.                            *)
LEMMA RxPutDesc ==
  ASSUME Shapes, dpaRx.pc = "put"
  PROVE  LET e == [dpaRx.desc EXCEPT !.header = dpaRx.header, !.body = dpaRx.body]
         IN /\ e \in ReceivedDesc(dpaRx.desc.dst) /\ e # Nil /\ dpaRx.desc.dst \in Worker
            /\ e.header = dpaRx.header /\ e.body = dpaRx.body /\ BodyAs(e) = BodyAs(dpaRx.desc)
<1> DEFINE d == dpaRx.desc
           e == [d EXCEPT !.header = dpaRx.header, !.body = dpaRx.body]
<1>1. /\ d # Nil /\ d \in Descriptor /\ d.dst \in Worker
      /\ dpaRx.header \in OptRef /\ dpaRx.body \in Ref /\ dpaRx.body.pool = HostPool(d.dst, "rx_body")
      /\ Ingress(d) <=> dpaRx.header = Nil
      /\ dpaRx.header # Nil => dpaRx.header.pool = HostPool(d.dst, "rx_header")
  BY RxIs DEF DpaRxShape, OptDesc
<1> HIDE DEF d
<1>2. e.header = dpaRx.header /\ e.body = dpaRx.body /\ e.op = d.op /\ e.case = d.case /\ e.dst = d.dst
  BY <1>1 DEF Descriptor
<1>3. e \in Descriptor
  BY <1>1 DEF Descriptor, OptRef
<1>4. (Ingress(e) <=> Ingress(d)) /\ BodyAs(e) = BodyAs(d)
  BY <1>2 DEF Ingress, BodyAs
<1> HIDE DEF e
<1>5. e \in ReceivedDesc(d.dst) /\ e # Nil
  BY <1>1, <1>2, <1>3, <1>4, DataAssumption DEF ReceivedDesc
<1> QED  BY <1>1, <1>2, <1>4, <1>5 DEF d, e

LEMMA RxPutOwns ==
  ASSUME Shapes, NEW own, OwnInv(own), RxPut, DpaOnly
  PROVE  \E x : OwnInv(x)'
<1> DEFINE d == dpaRx.desc
           e == [d EXCEPT !.header = dpaRx.header, !.body = dpaRx.body]
<1>0. dpaRx.pc = "put"
  BY DEF RxPut
<1>1. PICK w \in Worker : w = d.dst
  BY <1>0, RxPutDesc
<1> DEFINE P == {<<"rx_sq", w>>} \cup RxParts
<1>2. /\ e \in ReceivedDesc(w) /\ e # Nil /\ d # Nil /\ d.header = Nil /\ d.body = Nil
      /\ e.header = dpaRx.header /\ e.body = dpaRx.body /\ BodyAs(e) = BodyAs(d)
  BY <1>0, <1>1, RxPutDesc, RxIs DEF DpaRxShape
<1>3. CASE Room(rx_sq[w])
  <2>1. /\ rx_sq'[w] = Append(rx_sq[w], e) /\ mem' = mem
        /\ dpaRx'.desc = Nil /\ dpaRx'.header = Nil /\ dpaRx'.body = Nil
        /\ \A v \in Worker : v # w => rx_sq'[v] = rx_sq[v]
    BY <1>1, <1>3, QueuedDescs DEF RxPut, IdleRx
  <2>2. Others(P)
    BY <2>1 DEF RxPut, DpaOnly, hostVars, calls, pipes, sidecarVars, Others, RxParts
  <2>3. Carries(own, <<"dpaRx copy", Nil>>, e)
    BY <1>0, <1>2, OfDpa DEF Carries
  <2> HIDE DEF e
  <2>4. PICK o : Moves(own, o, e, <<"rx_sq", w>>)
    BY CanMove
  <2>5. Holds(o, <<"rx_sq", w>>, Append(rx_sq[w], e))
    BY <1>2, <2>3, <2>4, Put, QueuedDescs, OfWorker
  <2>6. Owners(o) /\ Memory(o, mem) /\ Touches(own, o, {<<"dpaRx copy", Nil>>})
    BY <1>2, <2>3, <2>4, Moved DEF OwnInv
  <2>7. Agrees(o, P)'
    BY <2>1, <2>5
    DEF Agrees, WorkerOwns, DpaOwns, SidecarOwns, Carries, HasHeader, HasAny, HasBody, RxParts
  <2>8. Touches(own, o, P)
    BY <2>6 DEF Touches, RxParts
  <2> HIDE DEF P
  <2> QED  BY <2>1, <2>2, <2>6, <2>7, <2>8, Join
<1>4. CASE ~Room(rx_sq[w])
  <2>1. /\ mem' = mem /\ dpaRx'.desc = d /\ dpaRx'.header = dpaRx.header /\ dpaRx'.body = dpaRx.body
        /\ dpaRx'.pc = "drop" /\ UNCHANGED <<dpaTx, sqs>>
    BY <1>1, <1>4, RxIs DEF RxPut, sqs
  <2>2. Agrees(own, RxParts)' /\ Others(RxParts)
    BY <2>1, OfDpa, RxAgrees, RxOnly
  <2> QED  BY <2>1, <2>2, Kept
<1> QED  BY <1>3, <1>4

LEMMA RxDropOwns ==
  ASSUME Shapes, NEW own, OwnInv(own), RxDrop, DpaOnly
  PROVE  \E x : OwnInv(x)'
<1> DEFINE h == dpaRx.header
           b == dpaRx.body
<1>0. Others(RxParts) /\ dpaRx.pc = "drop"
  BY RxOnly DEF RxDrop
<1>1. HasHeader(own, <<"dpaRx copy", Nil>>, h) /\ HasAny(own, <<"dpaRx copy", Nil>>, b)
  BY OfDpa
<1>2. Carries(own, <<"dpaRx", Nil>>, dpaRx.desc)
  BY OfDpa
<1>3. CASE b # Nil
  <2>1. PICK use : Owns(own, <<"dpaRx copy", Nil>>, use, b) /\ use # "header"
    <3>1. Owns(own, <<"dpaRx copy", Nil>>, "message", b) \/ Owns(own, <<"dpaRx copy", Nil>>, "body", b)
      BY <1>1, <1>3 DEF HasAny
    <3>2. "message" # "header" /\ "body" # "header"
      OBVIOUS
    <3> QED  BY <3>1, <3>2, Zenon
  <2>2. PICK o : Gives(own, o, b, Nobody)
    BY CanGive
  <2>3. /\ FreeSlot(b) /\ dpaRx'.body = Nil /\ dpaRx'.header = h
        /\ dpaRx'.desc = Nil \/ dpaRx'.desc = dpaRx.desc
    BY <1>3, RxIs DEF RxDrop, IdleRx
  <2> HIDE DEF b, h
  <2>4. Owners(o) /\ Memory(o, mem') /\ Touches(own, o, {<<"dpaRx copy", Nil>>})
    <3>1. b \in Ref
      BY <2>1, Owned
    <3> QED  BY <2>1, <2>2, <2>3, <3>1, Freed DEF Shapes
  <2>5. HasHeader(o, <<"dpaRx copy", Nil>>, h)
    <3>1. h # Nil => h # b
      BY <1>1, <2>1, Distinct DEF HasHeader
    <3> QED  BY <1>1, <2>2, <3>1 DEF HasHeader, Owns, Gives
  <2>6. Carries(o, <<"dpaRx", Nil>>, dpaRx.desc)
    <3>1. <<"dpaRx", Nil>> \notin {<<"dpaRx copy", Nil>>}
      OBVIOUS
    <3> QED  BY <1>2, <2>4, <3>1, KeepCarries
  <2>7. /\ Carries(o, <<"dpaRx", Nil>>, dpaRx'.desc)
        /\ HasAny(o, <<"dpaRx copy", Nil>>, dpaRx'.body)
        /\ HasBody(o, <<"dpaRx copy", Nil>>, BodyAs(dpaRx'.desc), dpaRx'.body)
    BY <2>3, <2>6 DEF Carries, HasAny, HasBody
  <2>8. Agrees(o, RxParts)'
    BY <2>3, <2>5, <2>7, RxAgrees
  <2>9. Touches(own, o, RxParts)
    BY <2>4 DEF Touches, RxParts
  <2> QED  BY <1>0, <2>4, <2>8, <2>9, Join
<1>4. CASE b = Nil
  <2>1. h # Nil /\ FreeSlot(h) /\ dpaRx'.body = Nil /\ dpaRx'.header = Nil /\ dpaRx'.desc = Nil
    BY <1>4, RxIs DEF RxDrop, IdleRx, DpaRxShape
  <2>2. Owns(own, <<"dpaRx copy", Nil>>, "header", h)
    BY <1>1, <2>1 DEF HasHeader
  <2> HIDE DEF h
  <2>3. PICK o : Gives(own, o, h, Nobody)
    BY CanGive
  <2>4. Owners(o) /\ Memory(o, mem') /\ Touches(own, o, {<<"dpaRx copy", Nil>>})
    <3>1. h \in Ref
      BY <2>2, Owned
    <3> QED  BY <2>1, <2>2, <2>3, <3>1, Freed DEF Shapes
  <2>5. Agrees(o, RxParts)'
    BY <2>1, RxAgrees DEF Carries, HasHeader, HasAny, HasBody
  <2>6. Touches(own, o, RxParts)
    BY <2>4 DEF Touches, RxParts
  <2> QED  BY <1>0, <2>4, <2>5, <2>6, Join
<1> QED  BY <1>3, <1>4
-----------------------------------------------------------------------------
(* The steps of the sidecar.                                               *)
ArmPart == {<<"arm", Nil>>}

LEMMA ArmOnly ==
  ASSUME SidecarOnly, UNCHANGED <<bridge, sqs>>
  PROVE  Others(ArmPart)
BY DEF SidecarOnly, hostVars, calls, pipes, dpaVars, sqs, Others, ArmPart

LEMMA ArmAgrees ==
  ASSUME NEW o, Carries(o, <<"arm", Nil>>, arm'.desc)
  PROVE  Agrees(o, ArmPart)'
BY DEF Agrees, WorkerOwns, DpaOwns, SidecarOwns, ArmPart

LEMMA ArmIs ==
  ASSUME Shapes
  PROVE  /\ ArmShape(arm) /\ arm.desc \in OptDesc
         /\ arm \in [pc : {"poll", "route", "put", "cleanup", "free_header", "wake"}, desc : OptDesc,
                     resp : Reply \cup {Nil}]
BY DEF Shapes, SidecarShapes, ArmShape

LEMMA ArmGetOwns ==
  ASSUME Shapes, NEW own, OwnInv(own), ArmGet, SidecarOnly
  PROVE  \E x : OwnInv(x)'
<1> DEFINE d == Head(sidecar_tx_sq)
           P == {<<"sidecar_tx_sq", Nil>>, <<"arm", Nil>>}
<1>1. PICK o : Moves(own, o, d, <<"arm", Nil>>)
  BY CanMove
<1>2. sidecar_tx_sq # << >>
  BY DEF ArmGet
<1>3. d # Nil /\ Carries(own, <<"sidecar_tx_sq", Nil>>, d) /\ Holds(o, <<"sidecar_tx_sq", Nil>>, Tail(sidecar_tx_sq))
  BY <1>1, <1>2, Take, OfSidecar, SidecarDescs
<1>4. /\ Owners(o) /\ Memory(o, mem) /\ Touches(own, o, {<<"sidecar_tx_sq", Nil>>})
      /\ Carries(o, <<"arm", Nil>>, d)
  BY <1>1, <1>3, Moved DEF OwnInv
<1>5. /\ sidecar_tx_sq' = Tail(sidecar_tx_sq) /\ arm'.desc = d /\ mem' = mem /\ Others(P)
  BY ArmIs DEF ArmGet, SidecarOnly, hostVars, calls, pipes, dpaVars, Others
<1>6. Agrees(o, P)'
  BY <1>3, <1>4, <1>5 DEF Agrees, WorkerOwns, DpaOwns, SidecarOwns
<1>7. Touches(own, o, P)
  BY <1>4 DEF Touches
<1> HIDE DEF P
<1> QED  BY <1>4, <1>5, <1>6, <1>7, Join

(* Routing changes no buffer of the descriptor.                            *)
LEMMA RouteOwns ==
  ASSUME Shapes, NEW own, OwnInv(own), RouteRequest \/ RouteResponse, SidecarOnly
  PROVE  \E x : OwnInv(x)'
<1> DEFINE d == arm.desc
           e == arm'.desc
<1>0. Others(ArmPart) /\ mem' = mem
  BY ArmOnly DEF RouteRequest, RouteResponse, shmVars
<1>1. d # Nil /\ d \in Descriptor /\ BodyAs(d) = "body"
  BY ArmIs, DataAssumption DEF RouteRequest, RouteResponse, ArmShape, DpuDesc, BodyAs, Ingress
<1>2. /\ e.op = d.op /\ e.header = d.header /\ e.body = d.body
      /\ e.case = d.case \/ e.case = "local"
  <2>1. CASE RouteRequest
    <3>1. \/ arm' = [arm EXCEPT !.pc = "cleanup"]
          \/ \E v : arm' = [arm EXCEPT !.pc = "put", !.desc.dst = v, !.desc.case = "local"]
      BY <2>1 DEF RouteRequest
    <3>2. CASE arm' = [arm EXCEPT !.pc = "cleanup"]
      BY <3>2, ArmIs
    <3>3. ASSUME NEW v, arm' = [arm EXCEPT !.pc = "put", !.desc.dst = v, !.desc.case = "local"]
          PROVE  e.op = d.op /\ e.header = d.header /\ e.body = d.body /\ e.case = "local"
      BY <1>1, <3>3, ArmIs DEF Descriptor
    <3> QED  BY <3>1, <3>2, <3>3
  <2>2. CASE RouteResponse
    BY <1>1, <2>2, ArmIs DEF RouteResponse, Descriptor
  <2> QED  BY <2>1, <2>2
<1>3. BodyAs(e) = "body"
  BY <1>1, <1>2 DEF BodyAs, Ingress
<1>4. Carries(own, <<"arm", Nil>>, d)
  BY OfSidecar
<1> HIDE DEF d, e
<1>5. Carries(own, <<"arm", Nil>>, e)
  BY <1>1, <1>2, <1>3, <1>4 DEF Carries
<1>6. Agrees(own, ArmPart)'
  BY <1>5, ArmAgrees DEF e
<1> QED  BY <1>0, <1>6, Kept

LEMMA ArmPutOwns ==
  ASSUME Shapes, NEW own, OwnInv(own), ArmPut, SidecarOnly
  PROVE  \E x : OwnInv(x)'
<1> DEFINE d == arm.desc
           P == {<<"sidecar_rx_sq", Nil>>, <<"arm", Nil>>}
<1>0. d \in RoutedDesc /\ d # Nil
  BY ArmIs, DataAssumption DEF ArmPut, ArmShape, RoutedDesc, DpuDesc
<1>1. CASE Room(sidecar_rx_sq)
  <2>1. sidecar_rx_sq' = Append(sidecar_rx_sq, d) /\ arm'.desc = Nil /\ mem' = mem /\ Others(P)
    BY <1>1 DEF ArmPut, IdleArm, SidecarOnly, hostVars, calls, pipes, dpaVars, Others
  <2>2. PICK o : Moves(own, o, d, <<"sidecar_rx_sq", Nil>>)
    BY CanMove
  <2>3. Carries(own, <<"arm", Nil>>, d) /\ Holds(own, <<"sidecar_rx_sq", Nil>>, sidecar_rx_sq)
    BY OfSidecar
  <2> HIDE DEF d
  <2>4. Holds(o, <<"sidecar_rx_sq", Nil>>, Append(sidecar_rx_sq, d))
    BY <1>0, <2>2, <2>3, Put, SidecarDescs
  <2>5. Owners(o) /\ Memory(o, mem) /\ Touches(own, o, {<<"arm", Nil>>})
    BY <1>0, <2>2, <2>3, Moved DEF OwnInv
  <2>6. Agrees(o, P)'
    BY <2>1, <2>4 DEF Agrees, WorkerOwns, DpaOwns, SidecarOwns, Carries
  <2>7. Touches(own, o, P)
    BY <2>5 DEF Touches
  <2> HIDE DEF P
  <2> QED  BY <2>1, <2>5, <2>6, <2>7, Join
<1>2. CASE ~Room(sidecar_rx_sq)
  <2>1. arm'.desc = arm.desc /\ mem' = mem /\ UNCHANGED <<bridge, sqs>>
    BY <1>2, ArmIs DEF ArmPut, sqs
  <2>2. Agrees(own, ArmPart)' /\ Others(ArmPart)
    BY <2>1, OfSidecar, ArmAgrees, ArmOnly
  <2> QED  BY <2>1, <2>2, Kept
<1> QED  BY <1>1, <1>2

LEMMA ArmFreesBody ==
  ASSUME Shapes, NEW own, OwnInv(own), Others(ArmPart), arm.desc # Nil, arm.desc.body # Nil,
         FreeSlot(arm.desc.body), arm'.desc = [arm.desc EXCEPT !.body = Nil]
  PROVE  \E x : OwnInv(x)'
<1> DEFINE d == arm.desc
           b == d.body
           e == [d EXCEPT !.body = Nil]
<1>1. d \in Descriptor
  BY ArmIs DEF OptDesc
<1>2. e.header = d.header /\ e.body = Nil
  BY <1>1 DEF Descriptor
<1>3. /\ Owns(own, <<"arm", Nil>>, BodyAs(d), b) /\ BodyAs(d) # "header"
      /\ d.header # Nil => Owns(own, <<"arm", Nil>>, "header", d.header)
  BY OfSidecar DEF Carries, HasHeader, HasBody, BodyAs
<1>4. FreeSlot(b) /\ arm'.desc = e
  OBVIOUS
<1> HIDE DEF d, b, e
<1>5. PICK o : Gives(own, o, b, Nobody)
  BY CanGive
<1>6. Owners(o) /\ Memory(o, mem') /\ Touches(own, o, ArmPart)
  <2>1. b \in Ref
    BY <1>3, Owned
  <2> QED  BY <1>3, <1>4, <1>5, <2>1, Freed DEF Shapes, ArmPart
<1>7. d.header # Nil => Owns(o, <<"arm", Nil>>, "header", d.header)
  <2>1. d.header # Nil => d.header # b
    BY <1>3, Distinct
  <2> QED  BY <1>3, <1>5, <2>1 DEF Gives, Owns
<1>8. Agrees(o, ArmPart)'
  <2>1. Carries(o, <<"arm", Nil>>, e)
    BY <1>2, <1>7 DEF Carries, HasHeader, HasBody
  <2> QED  BY <1>4, <2>1, ArmAgrees
<1> QED  BY <1>6, <1>8, Join

LEMMA ArmFreesHeader ==
  ASSUME Shapes, NEW own, OwnInv(own), Others(ArmPart), arm.desc # Nil, arm.desc.header # Nil,
         FreeSlot(arm.desc.header), arm'.desc = Nil
  PROVE  \E x : OwnInv(x)'
<1> DEFINE h == arm.desc.header
<1>1. Owns(own, <<"arm", Nil>>, "header", h) /\ FreeSlot(h)
  BY OfSidecar DEF Carries, HasHeader
<1> HIDE DEF h
<1>2. PICK o : Gives(own, o, h, Nobody)
  BY CanGive
<1>3. Owners(o) /\ Memory(o, mem') /\ Touches(own, o, ArmPart)
  <2>1. h \in Ref
    BY <1>1, Owned
  <2> QED  BY <1>1, <1>2, <2>1, Freed DEF Shapes, ArmPart
<1>4. Agrees(o, ArmPart)'
  BY ArmAgrees DEF Carries
<1> QED  BY <1>3, <1>4, Join

LEMMA CleanupOwns ==
  ASSUME Shapes, NEW own, OwnInv(own), Cleanup, SidecarOnly
  PROVE  \E x : OwnInv(x)'
<1>1. Others(ArmPart) /\ arm.desc # Nil /\ arm.desc.header # Nil
  BY ArmOnly, ArmIs, DataAssumption DEF Cleanup, ArmShape
<1>2. CASE arm.desc.body # Nil
  <2>1. FreeSlot(arm.desc.body) /\ arm'.desc = [arm.desc EXCEPT !.body = Nil]
    BY <1>2, ArmIs DEF Cleanup
  <2> QED  BY <1>1, <1>2, <2>1, ArmFreesBody
<1>3. CASE arm.desc.body = Nil
  <2>1. FreeSlot(arm.desc.header) /\ arm'.desc = Nil
    BY <1>3 DEF Cleanup, IdleArm
  <2> QED  BY <1>1, <2>1, ArmFreesHeader
<1> QED  BY <1>2, <1>3

LEMMA DeliverOwns ==
  ASSUME Shapes, NEW own, OwnInv(own), DeliverBody \/ DeliverHeader \/ DeliverEvent, SidecarOnly
  PROVE  \E x : OwnInv(x)'
<1>1. CASE DeliverBody
  <2>1. Others(ArmPart) /\ arm.desc # Nil /\ arm.desc.body # Nil
    BY <1>1, ArmOnly, ArmIs, DataAssumption DEF DeliverBody, ArmShape, DpuDesc
  <2>2. FreeSlot(arm.desc.body) /\ arm'.desc = [arm.desc EXCEPT !.body = Nil]
    BY <1>1, ArmIs DEF DeliverBody
  <2> QED  BY <2>1, <2>2, ArmFreesBody
<1>2. CASE DeliverHeader
  <2>1. Others(ArmPart) /\ arm.desc # Nil /\ arm.desc.header # Nil
    BY <1>2, ArmOnly, ArmIs, DataAssumption DEF DeliverHeader, ArmShape
  <2>2. FreeSlot(arm.desc.header) /\ arm'.desc = Nil
    BY <1>2, ArmIs DEF DeliverHeader
  <2> QED  BY <2>1, <2>2, ArmFreesHeader
<1>3. CASE DeliverEvent
  <2>1. Others(ArmPart) /\ mem' = mem /\ arm'.desc = Nil
    BY <1>3, ArmOnly DEF DeliverEvent, shmVars, IdleArm
  <2>2. Agrees(own, ArmPart)'
    BY <2>1, ArmAgrees DEF Carries
  <2> QED  BY <2>1, <2>2, Kept
<1> QED  BY <1>1, <1>2, <1>3

LEMMA BridgeIs ==
  ASSUME Shapes, NEW c \in Client
  PROVE  /\ DOMAIN bridge = Client /\ BridgeShape(c, bridge[c])
         /\ bridge[c] \in [pc : {"new", "alloc", "put", "toobig", "full", "wait", "expired", "done"},
                           dst : Worker \cup {Nil}, body : OptRef, answer : Answers \cup {Nil}]
BY DEF Shapes, SidecarShapes, BridgeShape

LEMMA BridgeOnly ==
  ASSUME SidecarOnly, NEW c \in Client, UNCHANGED <<arm, sqs>>,
         \A b \in Client : b # c => bridge'[b] = bridge[b]
  PROVE  Others({<<"bridge", c>>}) /\ Others({<<"bridge", c>>, <<"nobody", Nil>>})
BY DEF SidecarOnly, hostVars, calls, pipes, dpaVars, sqs, Others

LEMMA BridgeAgrees ==
  ASSUME NEW o, NEW c \in Client, HasAny(o, <<"bridge", c>>, bridge'[c].body),
         bridge'[c].pc = "put" => HasBody(o, <<"bridge", c>>, "message", bridge'[c].body)
  PROVE  Agrees(o, {<<"bridge", c>>})' /\ Agrees(o, {<<"bridge", c>>, <<"nobody", Nil>>})'
BY DEF Agrees, WorkerOwns, DpaOwns, SidecarOwns

(* Steps of the bridge without a buffer.                                   *)
LEMMA BridgeWithoutBuffer ==
  ASSUME Shapes, NEW own, OwnInv(own), NEW c \in Client,
         BridgeRegister(c) \/ BridgeAnswer(c) \/ BridgeTimeout(c) \/ BridgeExpire(c), SidecarOnly
  PROVE  \E x : OwnInv(x)'
<1>1. bridge'[c].body = Nil
  BY BridgeIs DEF BridgeRegister, BridgeAnswer, BridgeTimeout, BridgeExpire, Answer, BridgeShape
<1>2. mem' = mem /\ UNCHANGED <<arm, sqs>> /\ \A b \in Client : b # c => bridge'[b] = bridge[b]
  BY BridgeIs DEF BridgeRegister, BridgeAnswer, BridgeTimeout, BridgeExpire, Answer, shmVars
<1>3. Others({<<"bridge", c>>}) /\ Agrees(own, {<<"bridge", c>>})'
  BY <1>1, <1>2, BridgeOnly, BridgeAgrees DEF HasAny, HasBody
<1> QED  BY <1>2, <1>3, Kept

LEMMA BridgeAllocOwns ==
  ASSUME Shapes, NEW own, OwnInv(own), NEW c \in Client, BridgeAlloc(c), SidecarOnly
  PROVE  \E x : OwnInv(x)'
<1> DEFINE p == DpuRxBody
           message == [ask |-> Asks[c], svc |-> "frontend", name |-> c, status |-> 0,
                       rid |-> c, src |-> Nil, dst |-> bridge[c].dst]
           P == {<<"bridge", c>>, <<"nobody", Nil>>}
<1>0. UNCHANGED <<arm, sqs>> /\ \A b \in Client : b # c => bridge'[b] = bridge[b]
  BY BridgeIs DEF BridgeAlloc, Answer
<1>1. Others({<<"bridge", c>>}) /\ Others(P)
  BY <1>0, BridgeOnly
<1>2. CASE Full(p)
  <2>1. bridge'[c].body = Nil /\ mem' = mem
    BY <1>2, BridgeIs DEF BridgeAlloc, Answer
  <2>2. Agrees(own, {<<"bridge", c>>})'
    BY <2>1, BridgeAgrees DEF HasAny, HasBody
  <2> QED  BY <1>1, <2>1, <2>2, Kept
<1>3. CASE ~Full(p)
  <2>0. p \in Pool
    BY DEF Pool
  <2>1. CASE Asks[c] # "big"
    <3>1. AllocWrite(p, message) /\ bridge'[c].pc = "put" /\ bridge'[c].body = NewRef(p)
      BY <1>3, <2>1, BridgeIs DEF BridgeAlloc
    <3>2. message \in Header
      <4>1. Asks[c] \in {"lookup", "noname", "badpath"} /\ bridge[c].dst \in Worker
        BY <2>1, BridgeIs, SidecarAssumption DEF BridgeAlloc, BridgeShape
      <4> QED  BY <4>1 DEF Header, Service
    <3>3. PICK o : Gives(own, o, NewRef(p), [part |-> <<"bridge", c>>, use |-> "message"])
      BY CanGive
    <3> HIDE DEF message, p
    <3>4. /\ Owners(o) /\ Memory(o, mem') /\ Touches(own, o, {<<"nobody", Nil>>})
          /\ Owns(o, <<"bridge", c>>, "message", NewRef(p))
      BY <1>3, <2>0, <3>1, <3>2, <3>3, Allocated DEF Shapes
    <3>5. Agrees(o, P)'
      BY <3>1, <3>4, BridgeAgrees DEF HasAny, HasBody
    <3>6. Touches(own, o, P)
      BY <3>4 DEF Touches
    <3> HIDE DEF P
    <3> QED  BY <1>1, <3>4, <3>5, <3>6, Join
  <2>2. CASE Asks[c] = "big"
    <3>1. AllocWrite(p, NoBody) /\ bridge'[c].pc = "toobig" /\ bridge'[c].body = NewRef(p)
      BY <1>3, <2>2, BridgeIs DEF BridgeAlloc
    <3>2. NoBody \in Body
      BY DEF NoBody, Body
    <3>3. PICK o : Gives(own, o, NewRef(p), [part |-> <<"bridge", c>>, use |-> "body"])
      BY CanGive
    <3> HIDE DEF p
    <3>4. /\ Owners(o) /\ Memory(o, mem') /\ Touches(own, o, {<<"nobody", Nil>>})
          /\ Owns(o, <<"bridge", c>>, "body", NewRef(p))
      BY <1>3, <2>0, <3>1, <3>2, <3>3, Allocated DEF Shapes
    <3>5. Agrees(o, P)'
      BY <3>1, <3>4, BridgeAgrees DEF HasAny
    <3>6. Touches(own, o, P)
      BY <3>4 DEF Touches
    <3> HIDE DEF P
    <3> QED  BY <1>1, <3>4, <3>5, <3>6, Join
  <2> QED  BY <2>1, <2>2
<1> QED  BY <1>2, <1>3

LEMMA BridgePutOwns ==
  ASSUME Shapes, NEW own, OwnInv(own), NEW c \in Client, BridgePut(c), SidecarOnly
  PROVE  \E x : OwnInv(x)'
<1> DEFINE d == [op |-> "req", case |-> "ingress", req_id |-> 0, dst |-> bridge[c].dst,
                 header |-> Nil, body |-> bridge[c].body]
           P == {<<"bridge", c>>, <<"sidecar_rx_sq", Nil>>}
<1>0. /\ bridge[c].pc = "put" /\ bridge[c].body \in Ref /\ bridge[c].body.pool = DpuRxBody
      /\ bridge[c].dst \in Worker
  BY BridgeIs DEF BridgePut, BridgeShape
<1>1. d \in RoutedDesc /\ d # Nil /\ BodyAs(d) = "message"
  <2>1. d \in Descriptor
    BY <1>0 DEF Descriptor, OptRef
  <2> QED  BY <1>0, <2>1, DataAssumption DEF RoutedDesc, Ingress, BodyAs
<1>2. CASE Room(sidecar_rx_sq)
  <2>1. /\ sidecar_rx_sq' = Append(sidecar_rx_sq, d) /\ bridge'[c].body = Nil /\ mem' = mem
        /\ \A b \in Client : b # c => bridge'[b] = bridge[b]
    BY <1>2, BridgeIs DEF BridgePut
  <2>2. Others(P)
    BY <2>1 DEF BridgePut, SidecarOnly, hostVars, calls, pipes, dpaVars, Others
  <2>3. Carries(own, <<"bridge", c>>, d)
    <3>1. HasBody(own, <<"bridge", c>>, "message", bridge[c].body)
      BY <1>0, OfSidecar
    <3>2. d.header = Nil /\ d.body = bridge[c].body
      OBVIOUS
    <3> HIDE DEF d
    <3> QED  BY <1>1, <3>1, <3>2 DEF Carries, HasHeader
  <2> HIDE DEF d
  <2>4. PICK o : Moves(own, o, d, <<"sidecar_rx_sq", Nil>>)
    BY CanMove
  <2>5. Holds(o, <<"sidecar_rx_sq", Nil>>, Append(sidecar_rx_sq, d))
    BY <1>1, <2>3, <2>4, Put, SidecarDescs, OfSidecar
  <2>6. Owners(o) /\ Memory(o, mem) /\ Touches(own, o, {<<"bridge", c>>})
    BY <1>1, <2>3, <2>4, Moved DEF OwnInv
  <2>7. Agrees(o, P)'
    BY <2>1, <2>5 DEF Agrees, WorkerOwns, DpaOwns, SidecarOwns, HasAny, HasBody
  <2>8. Touches(own, o, P)
    BY <2>6 DEF Touches
  <2> HIDE DEF P
  <2> QED  BY <2>1, <2>2, <2>6, <2>7, <2>8, Join
<1>3. CASE ~Room(sidecar_rx_sq)
  <2>1. /\ mem' = mem /\ UNCHANGED <<arm, sqs>> /\ \A b \in Client : b # c => bridge'[b] = bridge[b]
        /\ bridge'[c].body = bridge[c].body /\ bridge'[c].pc = "full"
    BY <1>3, BridgeIs DEF BridgePut, sqs
  <2>2. Others({<<"bridge", c>>}) /\ Agrees(own, {<<"bridge", c>>})'
    BY <2>1, BridgeOnly, BridgeAgrees, OfSidecar
  <2> QED  BY <2>1, <2>2, Kept
<1> QED  BY <1>2, <1>3

LEMMA BridgeUndoOwns ==
  ASSUME Shapes, NEW own, OwnInv(own), NEW c \in Client, BridgeUndo(c), SidecarOnly
  PROVE  \E x : OwnInv(x)'
<1> DEFINE b == bridge[c].body
<1>1. b # Nil /\ FreeSlot(b)
  BY BridgeIs, DataAssumption DEF BridgeUndo, BridgeShape
<1>2. bridge'[c].body = Nil /\ bridge'[c].pc = "done" /\ \A x \in Client : x # c => bridge'[x] = bridge[x]
  BY BridgeIs DEF BridgeUndo, Answer
<1>3. Others({<<"bridge", c>>})
  BY <1>2, BridgeOnly DEF BridgeUndo
<1>4. PICK use : Owns(own, <<"bridge", c>>, use, b)
  BY <1>1, OfSidecar DEF HasAny
<1> HIDE DEF b
<1>5. PICK o : Gives(own, o, b, Nobody)
  BY CanGive
<1>6. Owners(o) /\ Memory(o, mem') /\ Touches(own, o, {<<"bridge", c>>})
  <2>1. b \in Ref
    BY <1>4, Owned
  <2> QED  BY <1>1, <1>4, <1>5, <2>1, Freed DEF Shapes
<1>7. Agrees(o, {<<"bridge", c>>})'
  BY <1>2, BridgeAgrees DEF HasAny
<1> QED  BY <1>3, <1>6, <1>7, Join

LEMMA Unchanged ==
  ASSUME NEW own, OwnInv(own), UNCHANGED vars
  PROVE  OwnInv(own)'
BY DEF OwnInv, Agrees, WorkerOwns, DpaOwns, SidecarOwns, vars, shmVars, sqs, hostVars, calls, pipes, dpaVars,
       sidecarVars, Owners, BodyAs, Ingress

(* One owner for every buffer, step by step.                               *)
LEMMA OwnersKept ==
  ASSUME Shapes, NEW own, OwnInv(own), [Next]_vars
  PROVE  \E x : OwnInv(x)'
<1>1. CASE HostStep /\ HostOnly
  <2>1. PICK w \in Worker : Poller(w) \/ Main(w)
    BY <1>1 DEF HostStep
  <2>2. CASE Poller(w)
    BY <1>1, <2>2, PollerGetOwns, PollerNotifyOwns, PollerDeliverOwns, PollerForgets DEF Poller
  <2>3. CASE Main(w)
    BY <1>1, <2>3, OnRequestOwns, OnResponseOwns, UpstreamOwns, FreeRxHeaderOwns, FreeRxBodyOwns,
       WriteHeaderOwns, WriteBodyOwns, EnqueueOwns, UndoHeaderOwns, UndoBodyOwns DEF Main
  <2> QED  BY <2>1, <2>2, <2>3
<1>2. CASE DpaStep /\ DpaOnly
  <2>1. CASE \E w \in Worker : TxGet(w)
    BY <1>2, <2>1, TxGetOwns
  <2>2. CASE DpaTxStep
    BY <1>2, <2>2, TxCopyOwns, TxRequeueOwns, TxFreeOwns, TxPutOwns, TxDropOwns DEF DpaTxStep
  <2>3. CASE DpaRxStep
    BY <1>2, <2>3, RxGetOwns, RxCopyBodyOwns, RxRequeueOwns, RxFreeBodyOwns, RxCopyHeaderOwns,
       RxFreeHeaderOwns, RxPutOwns, RxDropOwns DEF DpaRxStep
  <2> QED  BY <1>2, <2>1, <2>2, <2>3 DEF DpaStep
<1>3. CASE SidecarStep /\ SidecarOnly
  <2>1. CASE Arm
    BY <1>3, <2>1, ArmGetOwns, RouteOwns, ArmPutOwns, CleanupOwns, DeliverOwns DEF Arm
  <2>2. CASE \E c \in Client : BridgeStep(c) \/ BridgeTimeout(c)
    BY <1>3, <2>2, BridgeWithoutBuffer, BridgeAllocOwns, BridgePutOwns, BridgeUndoOwns DEF BridgeStep
  <2> QED  BY <1>3, <2>1, <2>2 DEF SidecarStep
<1>4. CASE UNCHANGED vars
  BY <1>4, Unchanged
<1> QED  BY <1>1, <1>2, <1>3, <1>4 DEF Next, Rest
=============================================================================
