----------------------------- MODULE MeshProofs -----------------------------
(***************************************************************************)
(* For any number of clients, workers, slots, queue cells and table        *)
(* entries: the threads of the mesh keep their types, and no buffer is     *)
(* freed or reused while somebody refers to it.                            *)
(*                                                                         *)
(* MeshOwners shows that a step keeps one owner for every buffer; here it  *)
(* is shown that it keeps the shapes of queues and locals, and the two     *)
(* together are an inductive invariant.                                    *)
(***************************************************************************)
EXTENDS MeshOwners

(* In a finite set whose members have different numbers, exactly one has k *)
(* others with smaller numbers: WorkerSelector.select finds a worker.      *)
LEMMA Ranks ==
  ASSUME NEW S, IsFiniteSet(S), NEW f \in [S -> Nat], \A v, w \in S : f[v] = f[w] => v = w,
         NEW k \in Nat, k < Cardinality(S)
  PROVE  \E w \in S : Cardinality({v \in S : f[v] < f[w]}) = k
<1> DEFINE Below(w) == {v \in S : f[v] < f[w]}
           r == [w \in S |-> Cardinality(Below(w))]
           n == Cardinality(S)
           T == 0..(n-1)
<1>0. n \in Nat
  BY FS_CardinalityType
<1>1. \A w \in S : IsFiniteSet(Below(w)) /\ Cardinality(Below(w)) \in T
  <2> TAKE w \in S
  <2>1. IsFiniteSet(Below(w)) /\ Cardinality(Below(w)) <= n /\ Cardinality(Below(w)) # n
    <3>1. Below(w) \in SUBSET S /\ Below(w) # S
      OBVIOUS
    <3> HIDE DEF Below
    <3> QED  BY <3>1, FS_Subset
  <2>2. Cardinality(Below(w)) \in Nat
    BY <2>1, FS_CardinalityType
  <2> QED  BY <1>0, <2>1, <2>2
<1>2. \A v, w \in S : f[v] < f[w] => r[v] < r[w]
  <2> TAKE v, w \in S
  <2> HAVE f[v] < f[w]
  <2>1. Below(v) \in SUBSET Below(w) /\ Below(v) # Below(w)
    <3>1. v \in Below(w) /\ v \notin Below(v)
      OBVIOUS
    <3> QED  BY <3>1
  <2>2. Cardinality(Below(v)) <= Cardinality(Below(w)) /\ Cardinality(Below(v)) # Cardinality(Below(w))
    <3> HIDE DEF Below
    <3> QED  BY <1>1, <2>1, FS_Subset
  <2>3. Cardinality(Below(v)) \in Nat /\ Cardinality(Below(w)) \in Nat
    <3> HIDE DEF Below
    <3> QED  BY <1>0, <1>1
  <2> QED  BY <2>2, <2>3
<1>3. r \in Injection(S, T)
  <2>1. r \in [S -> T]
    BY <1>1
  <2>2. \A v, w \in S : r[v] = r[w] => v = w
    <3> TAKE v, w \in S
    <3>0. f[v] < f[w] \/ f[w] < f[v] \/ f[v] = f[w]
      OBVIOUS
    <3>1. r[v] \in Nat /\ r[w] \in Nat
      <4> HIDE DEF r
      <4> QED  BY <2>1, <1>0
    <3> HIDE DEF r
    <3> QED  BY <1>2, <3>0, <3>1
  <2> HIDE DEF r
  <2> QED  BY <2>1, <2>2 DEF Injection, IsInjective
<1>4. IsFiniteSet(T) /\ Cardinality(T) = n
  <2> HIDE DEF n
  <2>1. 0 \in Int /\ n - 1 \in Int
    BY <1>0
  <2>2. IsFiniteSet(0..(n-1)) /\ Cardinality(0..(n-1)) = IF 0 > n - 1 THEN 0 ELSE (n - 1) - 0 + 1
    BY <2>1, FS_Interval
  <2> QED  BY <1>0, <2>2
<1>5. r \in Surjection(S, T)
  <2> HIDE DEF r, T
  <2> QED  BY <1>3, <1>4, FS_Injection
<1>6. k \in T
  BY <1>0
<1> QED
  <2> HIDE DEF r
  <2>1. PICK w \in S : r[w] = k
    BY <1>5, <1>6 DEF Surjection
  <2> QED  BY <2>1 DEF r

LEMMA SelectedIs ==
  ASSUME Shapes, NEW s \in Service, WorkersOf(s) # {}
  PROVE  /\ Selected(s) \in Worker /\ ServiceOf[Selected(s)] = s
         /\ Advance(s) => rr_idx' \in [Service -> Nat]
<1> DEFINE S == WorkersOf(s)
           n == Cardinality(S)
           k == rr_idx[s] % n
<1>1. IsFiniteSet(S) /\ S \subseteq Worker
  BY ShmAssumption, FS_Subset DEF WorkersOf
<1>2. n \in Nat /\ n # 0
  BY <1>1, FS_CardinalityType, FS_EmptySet
<1>3. k \in Nat /\ k < n
  BY <1>2 DEF Shapes, SidecarShapes
<1>4. \E w \in S : Cardinality({v \in S : PodId[v] < PodId[w]}) = k
  <2> DEFINE f == [w \in S |-> PodId[w]]
  <2>1. f \in [S -> Nat] /\ \A v, w \in S : f[v] = f[w] => v = w
    BY <1>1, SidecarAssumption
  <2>2. PICK w \in S : Cardinality({v \in S : f[v] < f[w]}) = k
    <3> HIDE DEF S, f, k
    <3> QED  BY <1>1, <1>3, <2>1, Ranks DEF k
  <2>3. {v \in S : f[v] < f[w]} = {v \in S : PodId[v] < PodId[w]}
    BY DEF f
  <2> QED  BY <2>2, <2>3
<1>5. Selected(s) \in S
  BY <1>4 DEF Selected
<1>6. Advance(s) => rr_idx' \in [Service -> Nat]
  BY <1>3 DEF Advance, Shapes, SidecarShapes
<1>7. ServiceOf[Selected(s)] = s
  BY <1>5 DEF WorkersOf
<1> QED  BY <1>1, <1>5, <1>6, <1>7
-----------------------------------------------------------------------------
(* What a step leaves alone keeps its shape.                               *)
LEMMA AllShapes ==
  ASSUME mem' \in [Pool -> [Slot -> Contents]], QueueShapes', HostShapes', DpaTxShape(dpaTx'),
         DpaRxShape(dpaRx'), SidecarShapes'
  PROVE  Shapes'
<1>1. DpaTxShape(dpaTx)' /\ DpaRxShape(dpaRx)'
  BY DEF DpaTxShape, DpaRxShape, OptDesc, OptRef, SentDesc, DpuDesc, RoutedDesc, Ingress, HostPool, DpuTxHeader,
         Ref, Descriptor
<1>2. (mem \in [Pool -> [Slot -> Contents]])'
  BY DEF Pool, Slot, Contents
<1> QED  BY <1>1, <1>2 DEF Shapes

LEMMA HostKept ==
  ASSUME Shapes, UNCHANGED hostVars
  PROVE  HostShapes'
BY DEF Shapes, HostShapes, hostVars, calls, pipes

LEMMA QueuesKept ==
  ASSUME Shapes, UNCHANGED sqs
  PROVE  QueueShapes'
BY DEF Shapes, QueueShapes, sqs

LEMMA SidecarKept ==
  ASSUME Shapes, UNCHANGED sidecarVars
  PROVE  SidecarShapes'
BY DEF Shapes, SidecarShapes, sidecarVars

HostAt(w) ==
  /\ notify[w] \in Seq({d \in ReceivedDesc(w) : d.op = "req"}) /\ Len(notify[w]) <= PipeCap
  /\ delivered[w] \subseteq Delivered(w)
  /\ waiting[w] \subseteq Waiting
  /\ MainShape(w, main[w]) /\ PollerShape(w, poller[w])

LEMMA HostAtIs ==
  ASSUME Shapes, NEW w \in Worker
  PROVE  /\ HostAt(w)
         /\ next_req_id \in [Worker -> Nat \ {0}]
         /\ response_pipe \in [Worker -> [TableIndex -> Nat]]
         /\ inbound \in [Worker -> [TableIndex -> Inbound]]
         /\ DOMAIN notify = Worker /\ DOMAIN delivered = Worker /\ DOMAIN waiting = Worker
         /\ DOMAIN main = Worker /\ DOMAIN poller = Worker
BY DEF Shapes, HostShapes, HostAt

LEMMA HostMoved ==
  ASSUME Shapes, NEW w \in Worker, HostAt(w)',
         next_req_id' \in [Worker -> Nat \ {0}],
         response_pipe' \in [Worker -> [TableIndex -> Nat]],
         inbound' \in [Worker -> [TableIndex -> Inbound]],
         DOMAIN notify' = Worker, DOMAIN delivered' = Worker, DOMAIN waiting' = Worker,
         DOMAIN main' = Worker, DOMAIN poller' = Worker,
         \A v \in Worker : v # w =>
           /\ notify'[v] = notify[v] /\ delivered'[v] = delivered[v] /\ waiting'[v] = waiting[v]
           /\ main'[v] = main[v] /\ poller'[v] = poller[v]
  PROVE  HostShapes'
<1>1. ASSUME NEW v \in Worker
      PROVE  HostAt(v)'
  <2>1. HostAt(v)
    BY HostAtIs
  <2> QED  BY <1>1, <2>1 DEF HostAt
<1>2. /\ (next_req_id \in [Worker -> Nat \ {0}])'
      /\ (response_pipe \in [Worker -> [TableIndex -> Nat]])'
      /\ (inbound \in [Worker -> [TableIndex -> Inbound]])'
  BY DEF TableIndex, Inbound
<1> QED  BY <1>1, <1>2 DEF HostShapes, HostAt

LEMMA OtherSteps ==
  ASSUME Shapes
  PROVE  /\ HostOnly => DpaTxShape(dpaTx') /\ DpaRxShape(dpaRx') /\ SidecarShapes'
         /\ DpaOnly => HostShapes' /\ SidecarShapes'
         /\ SidecarOnly => HostShapes' /\ DpaTxShape(dpaTx') /\ DpaRxShape(dpaRx')
BY HostKept, SidecarKept DEF Shapes, HostOnly, DpaOnly, SidecarOnly, dpaVars

LEMMA Pop ==
  ASSUME NEW D, NEW q \in Seq(D), q # << >>
  PROVE  Head(q) \in D /\ Tail(q) \in Seq(D) /\ Len(q) \in Nat /\ Len(Tail(q)) <= Len(q)
OBVIOUS

LEMMA RxQueue ==
  ASSUME Shapes, NEW w \in Worker, NEW q, q \in Seq(ReceivedDesc(w)), Len(q) <= MaxDescriptors,
         rx_sq' = [rx_sq EXCEPT ![w] = q], UNCHANGED <<tx_sq, sidecar_tx_sq, sidecar_rx_sq>>
  PROVE  QueueShapes'
BY DEF Shapes, QueueShapes

LEMMA TxQueue ==
  ASSUME Shapes, NEW w \in Worker, NEW q, q \in Seq(SentDesc(w)), Len(q) <= MaxDescriptors,
         tx_sq' = [tx_sq EXCEPT ![w] = q], UNCHANGED <<rx_sq, sidecar_tx_sq, sidecar_rx_sq>>
  PROVE  QueueShapes'
BY DEF Shapes, QueueShapes

LEMMA QueueLens ==
  ASSUME Shapes, NEW w \in Worker
  PROVE  /\ Len(tx_sq[w]) \in Nat /\ Len(rx_sq[w]) \in Nat /\ Len(notify[w]) \in Nat
         /\ Len(sidecar_tx_sq) \in Nat /\ Len(sidecar_rx_sq) \in Nat
         /\ Len(tx_sq[w]) <= MaxDescriptors /\ Len(rx_sq[w]) <= MaxDescriptors /\ Len(notify[w]) <= PipeCap
         /\ Len(sidecar_tx_sq) <= MaxDescriptors /\ Len(sidecar_rx_sq) <= MaxDescriptors
<1>1. /\ tx_sq[w] \in Seq(SentDesc(w)) /\ rx_sq[w] \in Seq(ReceivedDesc(w))
      /\ sidecar_tx_sq \in Seq(DpuDesc) /\ sidecar_rx_sq \in Seq(RoutedDesc)
      /\ notify[w] \in Seq({d \in ReceivedDesc(w) : d.op = "req"})
  BY DEF Shapes, QueueShapes, HostShapes
<1>2. \A D : \A q \in Seq(D) : Len(q) \in Nat
  OBVIOUS
<1>3. /\ Len(tx_sq[w]) <= MaxDescriptors /\ Len(rx_sq[w]) <= MaxDescriptors /\ Len(notify[w]) <= PipeCap
      /\ Len(sidecar_tx_sq) <= MaxDescriptors /\ Len(sidecar_rx_sq) <= MaxDescriptors
  BY DEF Shapes, QueueShapes, HostShapes
<1> QED  BY <1>1, <1>2, <1>3

LEMMA Push ==
  ASSUME NEW D, NEW q \in Seq(D), NEW d \in D, NEW n \in Nat, Len(q) < n
  PROVE  Append(q, d) \in Seq(D) /\ Len(Append(q, d)) <= n
OBVIOUS
-----------------------------------------------------------------------------
(* The workers.                                                            *)
LEMMA PollerGetShapes ==
  ASSUME Shapes, NEW w \in Worker, PollerGet(w), HostOnly
  PROVE  Shapes'
<1>1. /\ Head(rx_sq[w]) \in ReceivedDesc(w) /\ Tail(rx_sq[w]) \in Seq(ReceivedDesc(w))
      /\ Len(Tail(rx_sq[w])) <= MaxDescriptors
  <2>1. rx_sq[w] # << >> /\ rx_sq[w] \in Seq(ReceivedDesc(w)) /\ Len(rx_sq[w]) <= MaxDescriptors
    BY QueuedDescs, QueueLens DEF PollerGet
  <2>2. Len(Tail(rx_sq[w])) \in Nat
    BY <2>1
  <2> QED  BY <2>1, <2>2, Pop, ShmAssumption
<1>2. QueueShapes'
  BY <1>1, RxQueue DEF PollerGet
<1>3. HostShapes'
  <2>1. PollerShape(w, poller'[w]) /\ DOMAIN poller' = Worker /\ \A v \in Worker : v # w => poller'[v] = poller[v]
    BY <1>1, HostAtIs, QueuedDescs DEF PollerGet, HostAt, PollerShape, OptDesc
  <2>2. HostAt(w)'
    BY <2>1, HostAtIs DEF PollerGet, pipes, HostAt
  <2> QED  BY <2>1, <2>2, HostAtIs, HostMoved DEF PollerGet, calls, pipes
<1>4. mem' \in [Pool -> [Slot -> Contents]]
  BY DEF Shapes, PollerGet
<1> QED  BY <1>2, <1>3, <1>4, OtherSteps, AllShapes

LEMMA IdlePollerIs ==
  ASSUME NEW w \in Worker
  PROVE  PollerShape(w, IdlePoller)
BY HostAssumption DEF PollerShape, IdlePoller, OptDesc, TableIndex

LEMMA PollerNotifyShapes ==
  ASSUME Shapes, NEW w \in Worker, PollerNotify(w), HostOnly
  PROVE  Shapes'
<1> DEFINE D == {d \in ReceivedDesc(w) : d.op = "req"}
           d == poller[w].desc
<1>1. d \in D /\ notify[w] \in Seq(D) /\ Len(notify[w]) <= PipeCap /\ PipeCap \in Nat
  BY HostAtIs, HostAssumption DEF HostAt, PollerShape, PollerNotify
<1>2. notify'[w] \in Seq(D) /\ Len(notify'[w]) <= PipeCap
  <2>1. notify'[w] = IF Len(notify[w]) < PipeCap THEN Append(notify[w], d) ELSE notify[w]
    BY HostAtIs DEF PollerNotify
  <2> HIDE DEF D, d
  <2> QED  BY <1>1, <2>1, Push
<1>3. poller'[w] = IdlePoller
  BY HostAtIs DEF PollerNotify
<1>4. HostAt(w)'
  <2>1. HostAt(w) /\ PollerShape(w, poller'[w])
    BY <1>3, HostAtIs, IdlePollerIs
  <2> QED  BY <1>2, <2>1 DEF PollerNotify, HostAt
<1>5. HostShapes'
  BY <1>4, HostAtIs, HostMoved DEF PollerNotify, calls
<1>6. mem' \in [Pool -> [Slot -> Contents]] /\ QueueShapes'
  BY QueuesKept DEF Shapes, PollerNotify, shmVars
<1> QED  BY <1>5, <1>6, OtherSteps, AllShapes

LEMMA PollerDeliverShapes ==
  ASSUME Shapes, NEW w \in Worker, PollerDeliver(w), HostOnly
  PROVE  Shapes'
<1> DEFINE d == poller[w].desc
           r == [pipe |-> PipeFor(w, d), desc |-> d]
<1>1. d \in ReceivedDesc(w) /\ d.op = "resp" /\ d.req_id \in Nat
  BY HostAtIs DEF HostAt, PollerShape, PollerDeliver, ReceivedDesc, Descriptor
<1>2. d.req_id % MaxPending \in TableIndex
  BY <1>1, HostAssumption DEF TableIndex
<1>3. r \in Delivered(w)
  <2>1. PipeFor(w, d) \in Nat \ {0}
    BY <1>2, HostAtIs DEF PipeFor, PollerDeliver
  <2> QED  BY <1>1, <2>1 DEF Delivered
<1>4. delivered'[w] \subseteq Delivered(w)
  BY <1>3, HostAtIs DEF PollerDeliver, HostAt
<1>5. PollerShape(w, poller'[w])
  BY <1>2, HostAtIs DEF PollerDeliver, PollerShape, OptDesc
<1>6. HostAt(w)'
  <2>1. HostAt(w)
    BY HostAtIs
  <2> QED  BY <1>4, <1>5, <2>1 DEF PollerDeliver, HostAt
<1>7. HostShapes'
  BY <1>6, HostAtIs, HostMoved DEF PollerDeliver, calls
<1>8. mem' \in [Pool -> [Slot -> Contents]] /\ QueueShapes'
  BY QueuesKept DEF Shapes, PollerDeliver, shmVars
<1> QED  BY <1>7, <1>8, OtherSteps, AllShapes

LEMMA PollerForgetsShapes ==
  ASSUME Shapes, NEW w \in Worker, PollerDrop(w) \/ PollerClose(w), HostOnly
  PROVE  Shapes'
<1>1. poller'[w] = IdlePoller
  BY HostAtIs DEF PollerDrop, PollerClose
<1>2. response_pipe' \in [Worker -> [TableIndex -> Nat]]
  BY HostAtIs DEF PollerDrop, PollerClose, calls
<1>3. HostAt(w)'
  <2>1. HostAt(w) /\ PollerShape(w, poller'[w])
    BY <1>1, HostAtIs, IdlePollerIs
  <2> QED  BY <2>1 DEF PollerDrop, PollerClose, pipes, HostAt
<1>4. HostShapes'
  BY <1>2, <1>3, HostAtIs, HostMoved DEF PollerDrop, PollerClose, calls, pipes
<1>5. mem' \in [Pool -> [Slot -> Contents]] /\ QueueShapes'
  BY QueuesKept DEF Shapes, PollerDrop, PollerClose, shmVars
<1> QED  BY <1>4, <1>5, OtherSteps, AllShapes

(* What the handlers say.                                                  *)
Says ==
  [act : {"respond"}, status : Nat, body : Body]
  \cup [act : {"call"}, svc : Service, name : Client \cup {Nil}, ctx : Context]

LEMMA HandlerSays ==
  /\ \A status \in Nat, body \in Body : Respond(status, body) \in Says
  /\ \A svc \in Service, name \in Client \cup {Nil}, ctx \in Context : Call(svc, name, ctx) \in Says
  /\ \A name \in Client \cup {Nil} :
       /\ NoBody \in Body /\ [NoBody EXCEPT !.id = name] \in Body /\ [NoBody EXCEPT !.att = name] \in Body
       /\ HandleFrontend(name) \in Says /\ HandleId(name) \in Says /\ HandleAttend(name) \in Says
<1>1. \A status \in Nat, body \in Body : Respond(status, body) \in Says
  BY DEF Respond, Says
<1>2. \A svc \in Service, name \in Client \cup {Nil}, ctx \in Context : Call(svc, name, ctx) \in Says
  BY DEF Call, Says
<1>3. \A name \in Client \cup {Nil} :
        NoBody \in Body /\ [NoBody EXCEPT !.id = name] \in Body /\ [NoBody EXCEPT !.att = name] \in Body
  BY DEF NoBody, Body
<1>4. ASSUME NEW name \in Client \cup {Nil}
      PROVE  HandleFrontend(name) \in Says /\ HandleId(name) \in Says /\ HandleAttend(name) \in Says
  <2>1. [stage |-> "id", name |-> name, id |-> Nil] \in Context /\ "id-service" \in Service
    BY DEF Context, Service
  <2>2. HandleFrontend(name) \in Says
    BY <1>2, <2>1 DEF HandleFrontend
  <2>3. 200 \in Nat /\ 404 \in Nat
    OBVIOUS
  <2>4. HandleId(name) \in Says
    BY <1>1, <1>3, <2>3, ZenonT(30) DEF HandleId
  <2>5. HandleAttend(name) \in Says
    BY <1>1, <1>3, <2>3, ZenonT(30) DEF HandleAttend
  <2> QED  BY <2>2, <2>4, <2>5
<1> QED  BY <1>1, <1>2, <1>3, <1>4

LEMMA RequestSays ==
  ASSUME NEW svc \in Service, NEW h \in Header
  PROVE  HandleRequest(svc, h) \in Says
<1>1. h.ask \in {"lookup", "noname", "badpath"} /\ h.name \in Client \cup {Nil}
  BY DEF Header
<1>2. 400 \in Nat /\ 404 \in Nat /\ NoBody \in Body
  BY DEF NoBody, Body
<1>3. CASE h.ask = "badpath"
  BY <1>2, <1>3, HandlerSays DEF HandleRequest
<1>4. CASE h.ask = "noname"
  BY <1>2, <1>4, HandlerSays DEF HandleRequest
<1>5. CASE h.ask = "lookup" /\ svc = "frontend"
  BY <1>1, <1>5, HandlerSays DEF HandleRequest
<1>6. CASE h.ask = "lookup" /\ svc = "id-service"
  BY <1>1, <1>6, HandlerSays DEF HandleRequest
<1>7. CASE h.ask = "lookup" /\ svc = "attend-service"
  BY <1>1, <1>7, HandlerSays DEF HandleRequest
<1> QED  BY <1>1, <1>3, <1>4, <1>5, <1>6, <1>7 DEF Service

LEMMA UpstreamResponseSays ==
  ASSUME NEW ctx \in Context, NEW status \in Nat, NEW body \in Body
  PROVE  HandleUpstreamResponse(ctx, status, body) \in Says
<1>1. /\ ctx.stage \in {"id", "attend"} /\ ctx.name \in Client \cup {Nil} /\ ctx.id \in Client \cup {Nil}
      /\ body.id \in Client \cup {Nil} /\ body.att \in Client \cup {Nil}
  BY DEF Context, Body
<1>2. 200 \in Nat /\ 502 \in Nat /\ NoBody \in Body
  BY DEF NoBody, Body
<1>3. CASE status # 200
  BY <1>3, HandlerSays DEF HandleUpstreamResponse
<1>4. CASE status = 200 /\ ctx.stage = "id"
  <2>1. CASE body.id = Nil
    BY <1>2, <1>4, <2>1, HandlerSays DEF HandleUpstreamResponse
  <2>2. CASE body.id # Nil
    <3>1. [stage |-> "attend", name |-> ctx.name, id |-> body.id] \in Context /\ "attend-service" \in Service
      BY <1>1 DEF Context, Service
    <3> QED  BY <1>1, <1>4, <2>2, <3>1, HandlerSays DEF HandleUpstreamResponse
  <2> QED  BY <2>1, <2>2
<1>5. CASE status = 200 /\ ctx.stage = "attend"
  <2>1. [name |-> ctx.name, id |-> ctx.id, att |-> body.att] \in Body
    BY <1>1 DEF Body
  <2> QED  BY <1>2, <1>5, <2>1, HandlerSays DEF HandleUpstreamResponse
<1> QED  BY <1>1, <1>3, <1>4, <1>5

(* The locals with which dpumesh_write begins.                             *)
LEMMA StartShape ==
  ASSUME Shapes, NEW w \in Worker, NEW m \in MainState,
         m.rx_header # Nil => m.rx_header.pool = HostPool(w, "rx_header") /\ m.rx_body # Nil,
         m.rx_body # Nil => m.rx_body.pool = HostPool(w, "rx_body"),
         m.tx_header = Nil, m.tx_body = Nil,
         NEW idx \in TableIndex, NEW ib \in Inbound, NEW out \in Says,
         StartRespond(w, m, idx, ib, out) \/ StartCall(w, m, idx, out)
  PROVE  /\ MainShape(w, main'[w]) /\ DOMAIN main' = Worker /\ \A v \in Worker : v # w => main'[v] = main[v]
         /\ next_req_id' \in [Worker -> Nat \ {0}]
         /\ response_pipe' \in [Worker -> [TableIndex -> Nat]]
<1>1. CASE StartRespond(w, m, idx, ib, out)
  <2> DEFINE msg == ResponseMsg(w, ib, out.status, out.body)
             conn == [idx |-> idx, ctx |-> Nil]
  <2>1. out.status \in Nat /\ out.body \in Body
    BY <1>1 DEF StartRespond, Says
  <2>2. msg \in Message /\ msg.op = "resp"
    <3>1. ib.req_id \in Nat /\ ib.rid \in Client \cup {Nil} /\ ib.src \in Worker \cup {Nil}
      BY DEF Inbound
    <3> QED  BY <2>1, <3>1 DEF Message, ResponseMsg, Header
  <2>3. conn \in Conn
    BY DEF Conn
  <2>4. main' = [main EXCEPT ![w] = [m EXCEPT !.pc = "header", !.msg = msg, !.conn = conn]]
        /\ UNCHANGED calls
    BY <1>1 DEF StartRespond
  <2> HIDE DEF msg, conn
  <2> QED  BY <2>2, <2>3, <2>4, HostAtIs DEF MainShape, MainState, WritePc, Message, Conn, calls
<1>2. CASE StartCall(w, m, idx, out)
  <2> DEFINE msg == RequestMsg(w, out.svc, out.name)
             conn == [idx |-> idx, ctx |-> out.ctx]
             n == next_req_id[w]
  <2>0. n \in Nat \ {0} /\ n % MaxPending \in TableIndex
    BY HostAtIs, HostAssumption DEF TableIndex
  <2>1. out.svc \in Service /\ out.name \in Client \cup {Nil} /\ out.ctx \in Context
    BY <1>2 DEF StartCall, Says
  <2>2. msg \in Message /\ msg.op = "req" /\ msg.case = "local"
    BY <2>0, <2>1, HandlerSays DEF Message, RequestMsg, Header
  <2>3. conn \in Conn /\ conn.ctx \in Context
    BY <2>1 DEF Conn
  <2>4. /\ main' = [main EXCEPT ![w] = [m EXCEPT !.pc = "header", !.msg = msg, !.conn = conn]]
        /\ next_req_id' = [next_req_id EXCEPT ![w] = n + 1]
        /\ response_pipe' = [response_pipe EXCEPT ![w][n % MaxPending] = n]
    BY <1>2, HostAtIs DEF StartCall
  <2>6. next_req_id' \in [Worker -> Nat \ {0}] /\ response_pipe' \in [Worker -> [TableIndex -> Nat]]
    <3> HIDE DEF n
    <3> QED  BY <2>0, <2>4, HostAtIs
  <2> HIDE DEF msg, conn
  <2> QED  BY <2>2, <2>3, <2>4, <2>6, HostAtIs DEF MainShape, MainState, WritePc, Message, Conn
<1> QED  BY <1>1, <1>2

(* Only the locals of one main thread change.                              *)
LEMMA MainMoved ==
  ASSUME Shapes, NEW w \in Worker, NEW m, MainShape(w, m), main' = [main EXCEPT ![w] = m],
         UNCHANGED <<calls, inbound, pipes, poller>>
  PROVE  HostShapes'
<1>1. main'[w] = m /\ DOMAIN main' = Worker /\ \A v \in Worker : v # w => main'[v] = main[v]
  BY HostAtIs
<1>2. HostAt(w)'
  <2>1. HostAt(w) /\ MainShape(w, main'[w])
    BY <1>1, HostAtIs
  <2> QED  BY <2>1 DEF HostAt, pipes
<1> QED  BY <1>1, <1>2, HostAtIs, HostMoved DEF calls, pipes

LEMMA AllocKept ==
  ASSUME Shapes, NEW p \in Pool, NEW x \in Contents, AllocWrite(p, x)
  PROVE  mem' \in [Pool -> [Slot -> Contents]]
BY DEF Shapes, AllocWrite

LEMMA FreeKept ==
  ASSUME Shapes, NEW r \in Ref, FreeSlot(r)
  PROVE  mem' \in [Pool -> [Slot -> Contents]]
BY DEF Shapes, FreeSlot, Contents

LEMMA NewRefIs ==
  ASSUME Shapes, NEW p \in Pool, ~Full(p)
  PROVE  NewRef(p) \in Ref /\ NewRef(p).pool = p
<1> DEFINE T == {s \in Slot : mem[p][s] = Free}
<1>1. T \subseteq Nat /\ T # {}
  BY ShmAssumption DEF Full, Slot
<1>2. PICK s \in T : \A t \in T : s <= t
  BY <1>1, Least
<1>3. s \in Slot /\ mem[p][s] = Free /\ \A r \in Slot : r < s => mem[p][r] # Free
  BY <1>2, ShmAssumption DEF Slot
<1>4. FirstFree(p) \in Slot
  BY <1>3 DEF FirstFree
<1> QED  BY <1>4 DEF NewRef, Ref

LEMMA HostPools ==
  ASSUME NEW w \in Worker
  PROVE  \A k \in Kind : HostPool(w, k) \in Pool
BY ShmAssumption DEF HostPool, Pool

LEMMA OnRequestShapes ==
  ASSUME Shapes, NEW own, OwnInv(own), NEW w \in Worker, OnRequest(w), HostOnly
  PROVE  Shapes'
<1> DEFINE D == {e \in ReceivedDesc(w) : e.op = "req"}
           d == Head(notify[w])
           h == ReadSlot(IF d.case = "ingress" THEN d.body ELSE d.header)
           idx == d.req_id % MaxPending
           ib == [req_id |-> d.req_id, rid |-> h.rid, src |-> h.src]
           m == [IdleMain EXCEPT !.rx_header = d.header, !.rx_body = d.body]
           out == HandleRequest(ServiceOf[w], h)
<1>1. notify[w] \in Seq(D) /\ notify[w] # << >> /\ Len(notify[w]) <= PipeCap /\ PipeCap \in Nat
  BY HostAtIs, HostAssumption DEF HostAt, OnRequest
<1>2. d \in D /\ Tail(notify[w]) \in Seq(D) /\ Len(Tail(notify[w])) <= PipeCap
  <2> HIDE DEF D
  <2>1. d \in D /\ Tail(notify[w]) \in Seq(D) /\ Len(notify[w]) \in Nat /\ Len(Tail(notify[w])) <= Len(notify[w])
    BY <1>1, Pop
  <2>2. Len(Tail(notify[w])) \in Nat
    BY <2>1
  <2> QED  BY <1>1, <2>1, <2>2
<1>3. /\ d \in ReceivedDesc(w) /\ d \in Descriptor /\ d.op = "req" /\ d.req_id \in Nat /\ d # Nil
      /\ d.case \in {"ingress", "local"}
  BY <1>2, DataAssumption DEF ReceivedDesc, Descriptor
<1>4. h \in Header
  <2>1. Carries(own, <<"notify", w>>, d)
    <3>1. d = notify[w][1] /\ 1 \in DOMAIN notify[w]
      BY <1>1
    <3> QED  BY <3>1, OfWorker DEF Holds
  <2> HIDE DEF d
  <2>2. CASE d.case = "ingress"
    <3>1. BodyAs(d) = "message" /\ d.body # Nil
      BY <1>3, <2>2, DataAssumption DEF BodyAs, Ingress, ReceivedDesc
    <3>2. Owns(own, <<"notify", w>>, "message", d.body)
      BY <1>3, <2>1, <3>1 DEF Carries, HasBody
    <3>3. d.body \in Ref /\ own[d.body].use = "message"
      BY <3>2, Owned
    <3> QED  BY <2>2, <3>3 DEF ReadSlot, OwnInv, Memory
  <2>3. CASE d.case = "local"
    <3>1. d.header # Nil
      BY <1>3, <2>3 DEF Ingress, ReceivedDesc
    <3>2. Owns(own, <<"notify", w>>, "header", d.header)
      BY <1>3, <2>1, <3>1 DEF Carries, HasHeader
    <3>3. d.header \in Ref /\ own[d.header].use = "header"
      BY <3>2, Owned
    <3> QED  BY <2>3, <3>3 DEF ReadSlot, OwnInv, Memory
  <2> QED  BY <1>3, <2>2, <2>3
<1>5. idx \in TableIndex
  BY <1>3, HostAssumption DEF TableIndex
<1>6. ib \in Inbound
  BY <1>3, <1>4 DEF Inbound, Header
<1>7. out \in Says
  <2> HIDE DEF h
  <2> QED  BY <1>4, RequestSays, ShmAssumption
<1>8. /\ m \in MainState /\ m.tx_header = Nil /\ m.tx_body = Nil
      /\ m.rx_header # Nil => m.rx_header.pool = HostPool(w, "rx_header") /\ m.rx_body # Nil
      /\ m.rx_body # Nil => m.rx_body.pool = HostPool(w, "rx_body")
  <2>1. m \in MainState
    BY <1>3, IdleMainIs DEF Descriptor
  <2>2. m.tx_header = Nil /\ m.tx_body = Nil /\ m.rx_header = d.header /\ m.rx_body = d.body
    BY DEF IdleMain
  <2> HIDE DEF m, d
  <2> QED  BY <1>3, <2>1, <2>2, DataAssumption DEF ReceivedDesc
<1>9. inbound' = [inbound EXCEPT ![w][idx] = ib] /\ (StartRespond(w, m, idx, ib, out) \/ StartCall(w, m, idx, out))
  BY DEF OnRequest
<1>10. /\ notify' = [notify EXCEPT ![w] = Tail(notify[w])] /\ UNCHANGED <<delivered, waiting, poller, shmVars>>
  BY HostAtIs DEF OnRequest
<1> HIDE DEF h, idx, ib, m, out
<1>11. /\ MainShape(w, main'[w]) /\ DOMAIN main' = Worker /\ \A v \in Worker : v # w => main'[v] = main[v]
       /\ next_req_id' \in [Worker -> Nat \ {0}]
       /\ response_pipe' \in [Worker -> [TableIndex -> Nat]]
  BY <1>5, <1>6, <1>7, <1>8, <1>9, StartShape
<1>12. inbound' \in [Worker -> [TableIndex -> Inbound]]
  BY <1>5, <1>6, <1>9, HostAtIs
<1>13. notify'[w] = Tail(notify[w]) /\ DOMAIN notify' = Worker /\ \A v \in Worker : v # w => notify'[v] = notify[v]
  BY <1>10, HostAtIs
<1>14. HostAt(w)'
  <2>1. HostAt(w)
    BY HostAtIs
  <2> QED  BY <1>2, <1>10, <1>11, <1>13, <2>1 DEF HostAt
<1>15. HostShapes'
  BY <1>10, <1>11, <1>12, <1>13, <1>14, HostAtIs, HostMoved
<1>16. mem' \in [Pool -> [Slot -> Contents]] /\ QueueShapes'
  BY <1>10, QueuesKept DEF Shapes, shmVars
<1> QED  BY <1>15, <1>16, OtherSteps, AllShapes

LEMMA OnResponseShapes ==
  ASSUME Shapes, NEW own, OwnInv(own), NEW w \in Worker, OnResponse(w), HostOnly
  PROVE  Shapes'
<1>0. PICK u \in waiting[w], r \in delivered[w] :
       /\ waiting' = [waiting EXCEPT ![w] = @ \ {u}]
       /\ delivered' = [delivered EXCEPT ![w] = @ \ {r}]
       /\ main' = [main EXCEPT ![w] =
                     [IdleMain EXCEPT
                        !.pc = "free_resp",
                        !.rx_header = r.desc.header, !.rx_body = r.desc.body,
                        !.conn = [idx |-> u.idx, ctx |-> u.ctx],
                        !.resp = [status |-> ReadSlot(r.desc.header).status,
                                  body |-> ReadSlot(r.desc.body)]]]
  BY DEF OnResponse
<1> DEFINE d == r.desc
           conn == [idx |-> u.idx, ctx |-> u.ctx]
           resp == [status |-> ReadSlot(d.header).status, body |-> ReadSlot(d.body)]
           m == [IdleMain EXCEPT !.pc = "free_resp", !.rx_header = d.header, !.rx_body = d.body,
                                 !.conn = conn, !.resp = resp]
<1>1. /\ d \in ReceivedDesc(w) /\ d \in Descriptor /\ d.op = "resp" /\ d # Nil /\ d.body # Nil /\ d.header # Nil
      /\ BodyAs(d) = "body"
  BY HostAtIs, DataAssumption, ZenonT(30) DEF HostAt, Delivered, ReceivedDesc, Ingress, BodyAs
<1>2. u.idx \in TableIndex /\ u.ctx \in Context
  BY HostAtIs DEF HostAt, Waiting
<1>3. conn \in Conn /\ conn.ctx \in Context
  BY <1>2 DEF Conn
<1>4. resp \in Answers
  <2>1. Carries(own, <<"pipe", w>>, d)
    BY OfWorker DEF Pipes
  <2>2. Owns(own, <<"pipe", w>>, "header", d.header) /\ Owns(own, <<"pipe", w>>, "body", d.body)
    BY <1>1, <2>1 DEF Carries, HasHeader, HasBody
  <2> HIDE DEF d
  <2>3. d.header \in Ref /\ own[d.header].use = "header"
    BY <2>2, Owned
  <2>4. d.body \in Ref /\ own[d.body].use = "body"
    BY <2>2, Owned
  <2>5. ReadSlot(d.header) \in Header /\ ReadSlot(d.body) \in Body
    BY <2>3, <2>4 DEF ReadSlot, OwnInv, Memory
  <2> QED  BY <2>5 DEF Answers, Header
<1>5. MainShape(w, m)
  <2> HIDE DEF d, conn, resp
  <2>1. /\ m.pc = "free_resp" /\ m.rx_header = d.header /\ m.rx_body = d.body
        /\ m.tx_header = Nil /\ m.tx_body = Nil /\ m.conn = conn /\ m.resp = resp
    BY DEF IdleMain
  <2>2. /\ d.header \in OptRef /\ d.body \in OptRef
        /\ d.header.pool = HostPool(w, "rx_header") /\ d.body.pool = HostPool(w, "rx_body")
    BY <1>1 DEF Descriptor, ReceivedDesc
  <2>3. m \in MainState
    BY <1>3, <1>4, <2>2 DEF MainState, OptRef, Conn, IdleMain
  <2> HIDE DEF m
  <2> QED  BY <1>1, <1>3, <1>4, <2>1, <2>2, <2>3 DEF MainShape, WritePc
<1>6. /\ main'[w] = m /\ DOMAIN main' = Worker /\ DOMAIN waiting' = Worker /\ DOMAIN delivered' = Worker
      /\ waiting'[w] \subseteq waiting[w] /\ delivered'[w] \subseteq delivered[w]
      /\ \A v \in Worker : v # w =>
           main'[v] = main[v] /\ waiting'[v] = waiting[v] /\ delivered'[v] = delivered[v]
  BY <1>0, HostAtIs
<1> HIDE DEF m
<1>7. HostAt(w)'
  <2>1. HostAt(w) /\ MainShape(w, main'[w])
    BY <1>5, <1>6, HostAtIs
  <2> QED  BY <1>6, <2>1 DEF HostAt, OnResponse
<1>8. HostShapes'
  BY <1>6, <1>7, HostAtIs, HostMoved DEF OnResponse, calls
<1>9. mem' \in [Pool -> [Slot -> Contents]] /\ QueueShapes'
  BY QueuesKept DEF Shapes, OnResponse, shmVars
<1> QED  BY <1>8, <1>9, OtherSteps, AllShapes

LEMMA UpstreamShapes ==
  ASSUME Shapes, NEW w \in Worker, Upstream(w), HostOnly
  PROVE  Shapes'
<1> DEFINE c == main[w].conn
           r == main[w].resp
           out == HandleUpstreamResponse(c.ctx, r.status, r.body)
<1>1. c.idx \in TableIndex /\ c.ctx \in Context /\ r.status \in Nat /\ r.body \in Body
  BY MainIs DEF Upstream, MainShape, Conn, Answers
<1>2. out \in Says /\ inbound[w][c.idx] \in Inbound
  BY <1>1, UpstreamResponseSays, HostAtIs
<1>3. IdleMain \in MainState /\ IdleMain.rx_header = Nil /\ IdleMain.rx_body = Nil
      /\ IdleMain.tx_header = Nil /\ IdleMain.tx_body = Nil
  BY DEF IdleMain, MainState, OptRef
<1>4. StartRespond(w, IdleMain, c.idx, inbound[w][c.idx], out) \/ StartCall(w, IdleMain, c.idx, out)
  BY DEF Upstream
<1> HIDE DEF c, r, out
<1>5. /\ MainShape(w, main'[w]) /\ DOMAIN main' = Worker /\ \A v \in Worker : v # w => main'[v] = main[v]
      /\ next_req_id' \in [Worker -> Nat \ {0}]
      /\ response_pipe' \in [Worker -> [TableIndex -> Nat]]
  BY <1>1, <1>2, <1>3, <1>4, StartShape
<1>6. HostAt(w)'
  <2>1. HostAt(w)
    BY HostAtIs
  <2> QED  BY <1>5, <2>1 DEF HostAt, Upstream, pipes
<1>7. HostShapes'
  BY <1>5, <1>6, HostAtIs, HostMoved DEF Upstream, pipes
<1>8. mem' \in [Pool -> [Slot -> Contents]] /\ QueueShapes'
  BY QueuesKept DEF Shapes, Upstream, shmVars
<1> QED  BY <1>7, <1>8, OtherSteps, AllShapes

LEMMA AfterHandlerIs ==
  ASSUME Shapes, NEW w \in Worker
  PROVE  LET m == AfterHandler(main[w])
         IN /\ MainShape(w, m) /\ m \in MainState
            /\ m.rx_header = main[w].rx_header /\ m.rx_body = main[w].rx_body
            /\ m.tx_header = Nil /\ m.tx_body = Nil
<1> DEFINE m == AfterHandler(main[w])
<1>1. /\ main[w].rx_header \in OptRef /\ main[w].rx_body \in OptRef
      /\ main[w].rx_header # Nil => main[w].rx_header.pool = HostPool(w, "rx_header")
      /\ main[w].rx_body # Nil => main[w].rx_body.pool = HostPool(w, "rx_body")
  BY MainIs DEF MainState, MainShape
<1>2. CASE main[w].rx_body = Nil
  <2>1. m = IdleMain /\ main[w].rx_header = Nil
    BY <1>2, MainIs DEF AfterHandler
  <2> QED  BY <1>2, <2>1 DEF IdleMain, MainState, MainShape, OptRef, WritePc
<1>3. CASE main[w].rx_body # Nil
  <2> DEFINE h == main[w].rx_header
             b == main[w].rx_body
  <2>1. m = [IdleMain EXCEPT !.pc = "free_req", !.rx_header = h, !.rx_body = b]
    BY <1>3 DEF AfterHandler
  <2>2. /\ m.pc = "free_req" /\ m.rx_header = h /\ m.rx_body = b /\ m.tx_header = Nil /\ m.tx_body = Nil
    BY <2>1 DEF IdleMain
  <2>3. m \in MainState
    <3> HIDE DEF h, b, m
    <3> QED  BY <1>1, <2>1 DEF IdleMain, MainState, OptRef, h, b
  <2> HIDE DEF m
  <2> QED  BY <1>1, <1>3, <2>2, <2>3 DEF MainShape, WritePc, m
<1> QED  BY <1>2, <1>3

LEMMA WriteFailedShapes ==
  ASSUME Shapes, NEW w \in Worker, WriteFailed(w), HostOnly
  PROVE  Shapes'
<1> DEFINE m == main[w]
           a == AfterHandler(m)
           clean == [a EXCEPT !.pc = "header"]
           idx == m.conn.idx
           out == Respond(502, NoBody)
<1>1. idx \in TableIndex /\ inbound[w][idx] \in Inbound
  BY MainIs, HostAtIs DEF WriteFailed, MainShape, WritePc, Conn
<1>2. out \in Says
  BY HandlerSays DEF NoBody, Body
<1>3. /\ clean \in MainState /\ clean.tx_header = Nil /\ clean.tx_body = Nil
      /\ clean.rx_header # Nil => clean.rx_header.pool = HostPool(w, "rx_header") /\ clean.rx_body # Nil
      /\ clean.rx_body # Nil => clean.rx_body.pool = HostPool(w, "rx_body")
  <2>1. a \in MainState /\ MainShape(w, a) /\ a.tx_header = Nil /\ a.tx_body = Nil
    BY AfterHandlerIs
  <2> HIDE DEF a
  <2> QED  BY <2>1 DEF MainState, MainShape
<1>4. \/ StartRespond(w, clean, idx, inbound[w][idx], out)
      \/ main' = [main EXCEPT ![w] = a] /\ UNCHANGED calls
  BY DEF WriteFailed
<1>5. mem' \in [Pool -> [Slot -> Contents]] /\ QueueShapes'
  BY QueuesKept DEF Shapes, WriteFailed, shmVars
<1>6. MainShape(w, a)
  BY AfterHandlerIs
<1> HIDE DEF a, clean, idx, out
<1>7. CASE main' = [main EXCEPT ![w] = a] /\ UNCHANGED calls
  <2>1. HostShapes'
    BY <1>6, <1>7, MainMoved DEF WriteFailed
  <2> QED  BY <1>5, <2>1, OtherSteps, AllShapes
<1>8. CASE StartRespond(w, clean, idx, inbound[w][idx], out)
  <2>1. /\ MainShape(w, main'[w]) /\ DOMAIN main' = Worker /\ \A v \in Worker : v # w => main'[v] = main[v]
        /\ next_req_id' \in [Worker -> Nat \ {0}]
        /\ response_pipe' \in [Worker -> [TableIndex -> Nat]]
    BY <1>1, <1>2, <1>3, <1>8, StartShape
  <2>2. HostAt(w)'
    <3>1. HostAt(w)
      BY HostAtIs
    <3> QED  BY <2>1, <3>1 DEF HostAt, WriteFailed, pipes
  <2>3. HostShapes'
    BY <2>1, <2>2, HostAtIs, HostMoved DEF WriteFailed, pipes
  <2> QED  BY <1>5, <2>3, OtherSteps, AllShapes
<1> QED  BY <1>4, <1>7, <1>8

LEMMA FreeRxShapes ==
  ASSUME Shapes, NEW w \in Worker, FreeRxHeader(w) \/ FreeRxBody(w), HostOnly
  PROVE  Shapes'
<1> DEFINE m == main[w]
<1>1. m \in MainState /\ MainShape(w, m) /\ m.pc \in {"free_req", "free_resp"}
  BY MainIs DEF FreeRxHeader, FreeRxBody
<1>2. \E n : MainShape(w, n) /\ main' = [main EXCEPT ![w] = n]
  <2>1. CASE FreeRxHeader(w)
    <3> DEFINE n == [m EXCEPT !.rx_header = Nil]
    <3>1. main' = [main EXCEPT ![w] = n]
      BY <2>1, MainIs DEF FreeRxHeader
    <3>2. MainShape(w, n)
      <4> HIDE DEF m
      <4> QED  BY <1>1 DEF MainShape, MainState, OptRef, WritePc
    <3> QED  BY <3>1, <3>2
  <2>2. CASE FreeRxBody(w)
    <3> DEFINE pc == CASE m.pc = "free_resp" -> "upstream"
                       [] m.pc = "free_req" /\ notify[w] # << >> -> "reading"
                       [] OTHER -> "idle"
               n == [m EXCEPT !.rx_body = Nil, !.pc = pc]
    <3>1. main' = [main EXCEPT ![w] = n]
      BY <2>2, MainIs DEF FreeRxBody
    <3>2. /\ m.pc = "free_resp" => pc = "upstream"
          /\ m.pc = "free_req" => pc \in {"idle", "reading"}
      OBVIOUS
    <3>3. MainShape(w, n)
      <4>1. m.rx_header = Nil
        BY <2>2 DEF FreeRxBody
      <4> HIDE DEF m, pc
      <4>2. n \in MainState
        BY <1>1, <3>2 DEF MainState, OptRef
      <4>3. /\ n.pc = pc /\ n.rx_header = Nil /\ n.rx_body = Nil /\ n.tx_header = m.tx_header
            /\ n.tx_body = m.tx_body /\ n.conn = m.conn /\ n.resp = m.resp
        BY <1>1, <4>1 DEF MainState
      <4>4. m.tx_header = Nil /\ m.tx_body = Nil
        BY <1>1 DEF MainShape
      <4>5. pc = "upstream" => m.conn \in Conn /\ m.conn.ctx \in Context /\ m.resp \in Answers
        BY <1>1, <3>2 DEF MainShape
      <4>6. pc \in {"upstream", "idle", "reading"}
        BY <1>1, <3>2
      <4> HIDE DEF n
      <4> QED  BY <4>2, <4>3, <4>4, <4>5, <4>6 DEF MainShape, WritePc
    <3> QED  BY <3>1, <3>3
  <2> QED  BY <2>1, <2>2
<1>3. mem' \in [Pool -> [Slot -> Contents]]
  <2>1. \E r \in Ref : FreeSlot(r)
    BY <1>1 DEF FreeRxHeader, FreeRxBody, MainState, MainShape, OptRef
  <2> QED  BY <2>1, FreeKept
<1>4. QueueShapes' /\ HostShapes'
  BY <1>2, QueuesKept, MainMoved DEF FreeRxHeader, FreeRxBody
<1> QED  BY <1>3, <1>4, OtherSteps, AllShapes

LEMMA WriteShapes ==
  ASSUME Shapes, NEW w \in Worker, WriteHeader(w) \/ WriteBody(w), HostOnly
  PROVE  Shapes'
<1> DEFINE m == main[w]
<1>1. m \in MainState /\ MainShape(w, m) /\ m.pc \in {"header", "body"} /\ m.msg \in Message
  BY MainIs DEF WriteHeader, WriteBody, MainShape, WritePc
<1>2. \E n : MainShape(w, n) /\ main' = [main EXCEPT ![w] = n] /\ mem' \in [Pool -> [Slot -> Contents]]
  <2>1. CASE WriteHeader(w)
    <3> DEFINE p == HostPool(w, "tx_header")
    <3>0. p \in Pool /\ m.msg.header \in Contents
      BY <1>1, HostPools DEF Kind, Message, Contents
    <3>1. CASE Full(p)
      <4> DEFINE n == [m EXCEPT !.pc = "failed"]
      <4>1. main' = [main EXCEPT ![w] = n] /\ mem' = mem
        BY <2>1, <3>1, MainIs DEF WriteHeader
      <4>2. MainShape(w, n)
        <5>1. m.pc = "header"
          BY <2>1 DEF WriteHeader
        <5> HIDE DEF m
        <5> QED  BY <1>1, <5>1 DEF MainShape, MainState, WritePc
      <4> QED  BY <4>1, <4>2 DEF Shapes
    <3>2. CASE ~Full(p)
      <4> DEFINE x == NewRef(p)
                 n == [m EXCEPT !.pc = "body", !.tx_header = x]
      <4>1. main' = [main EXCEPT ![w] = n] /\ AllocWrite(p, m.msg.header)
        BY <2>1, <3>2, MainIs DEF WriteHeader
      <4>2. mem' \in [Pool -> [Slot -> Contents]]
        BY <3>0, <4>1, AllocKept
      <4>3. x \in Ref /\ x.pool = p
        BY <3>0, <3>2, NewRefIs
      <4>4. MainShape(w, n)
        <5>1. m.pc = "header"
          BY <2>1 DEF WriteHeader
        <5> HIDE DEF m, x
        <5> QED  BY <1>1, <4>3, <5>1, DataAssumption, ZenonT(30) DEF MainShape, MainState, OptRef, WritePc
      <4> QED  BY <4>1, <4>2, <4>4
    <3> QED  BY <3>1, <3>2
  <2>2. CASE WriteBody(w)
    <3> DEFINE p == HostPool(w, "tx_body")
    <3>0. p \in Pool /\ m.msg.body \in Contents
      BY <1>1, HostPools DEF Kind, Message, Contents
    <3>1. CASE Full(p)
      <4> DEFINE n == [m EXCEPT !.pc = "undo"]
      <4>1. main' = [main EXCEPT ![w] = n] /\ mem' = mem
        BY <2>2, <3>1, MainIs DEF WriteBody
      <4>2. MainShape(w, n)
        <5>1. m.pc = "body"
          BY <2>2 DEF WriteBody
        <5> HIDE DEF m
        <5> QED  BY <1>1, <5>1 DEF MainShape, MainState, WritePc
      <4> QED  BY <4>1, <4>2 DEF Shapes
    <3>2. CASE ~Full(p)
      <4> DEFINE x == NewRef(p)
                 n == [m EXCEPT !.pc = "put", !.tx_body = x]
      <4>1. main' = [main EXCEPT ![w] = n] /\ AllocWrite(p, m.msg.body)
        BY <2>2, <3>2, MainIs DEF WriteBody
      <4>2. mem' \in [Pool -> [Slot -> Contents]]
        BY <3>0, <4>1, AllocKept
      <4>3. x \in Ref /\ x.pool = p
        BY <3>0, <3>2, NewRefIs
      <4>4. MainShape(w, n)
        <5>1. m.pc = "body"
          BY <2>2 DEF WriteBody
        <5> HIDE DEF m, x
        <5> QED  BY <1>1, <4>3, <5>1, DataAssumption, ZenonT(30) DEF MainShape, MainState, OptRef, WritePc
      <4> QED  BY <4>1, <4>2, <4>4
    <3> QED  BY <3>1, <3>2
  <2> QED  BY <2>1, <2>2
<1>3. QueueShapes' /\ HostShapes'
  BY <1>2, QueuesKept, MainMoved DEF WriteHeader, WriteBody
<1> QED  BY <1>2, <1>3, OtherSteps, AllShapes

LEMMA UndoShapes ==
  ASSUME Shapes, NEW w \in Worker, UndoHeader(w) \/ UndoBody(w), HostOnly
  PROVE  Shapes'
<1> DEFINE m == main[w]
<1>1. m \in MainState /\ MainShape(w, m) /\ m.pc = "undo"
  BY MainIs DEF UndoHeader, UndoBody
<1>2. \E n : MainShape(w, n) /\ main' = [main EXCEPT ![w] = n]
  <2>1. CASE UndoHeader(w)
    <3> DEFINE pc == IF m.tx_body = Nil THEN "failed" ELSE "undo"
               n == [m EXCEPT !.tx_header = Nil, !.pc = pc]
    <3>1. main' = [main EXCEPT ![w] = n]
      BY <2>1, MainIs DEF UndoHeader
    <3>2. (m.tx_body = Nil => pc = "failed") /\ (m.tx_body # Nil => pc = "undo")
      OBVIOUS
    <3>3. MainShape(w, n)
      <4>1. m \in MainState /\ Nil \in OptRef /\ pc \in {"undo", "failed"}
        BY <1>1 DEF OptRef
      <4>2. n \in MainState
        <5> HIDE DEF m, pc
        <5> QED  BY <4>1 DEF MainState
      <4>3. /\ n.pc = pc /\ n.tx_header = Nil /\ n.tx_body = m.tx_body /\ n.rx_header = m.rx_header
            /\ n.rx_body = m.rx_body /\ n.msg = m.msg /\ n.conn = m.conn /\ n.resp = m.resp
        <5> HIDE DEF m, pc
        <5> QED  BY <4>1 DEF MainState
      <4> HIDE DEF m, pc, n
      <4> QED  BY <1>1, <3>2, <4>1, <4>2, <4>3 DEF MainShape, WritePc
    <3> QED  BY <3>1, <3>3
  <2>2. CASE UndoBody(w)
    <3> DEFINE n == [m EXCEPT !.tx_body = Nil, !.pc = "failed"]
    <3>1. main' = [main EXCEPT ![w] = n] /\ m.tx_header = Nil
      BY <2>2, MainIs DEF UndoBody
    <3>2. MainShape(w, n)
      <4> HIDE DEF m
      <4>1. n \in MainState
        BY <1>1 DEF MainState, OptRef
      <4>2. /\ n.pc = "failed" /\ n.tx_header = Nil /\ n.tx_body = Nil /\ n.rx_header = m.rx_header
            /\ n.rx_body = m.rx_body /\ n.conn = m.conn /\ n.msg = m.msg
        BY <1>1, <3>1 DEF MainState
      <4> HIDE DEF n
      <4> QED  BY <1>1, <4>1, <4>2 DEF MainShape, WritePc
    <3> QED  BY <3>1, <3>2
  <2> QED  BY <2>1, <2>2
<1>3. mem' \in [Pool -> [Slot -> Contents]]
  <2>1. \E r \in Ref : FreeSlot(r)
    BY <1>1 DEF UndoHeader, UndoBody, MainState, MainShape, OptRef
  <2> QED  BY <2>1, FreeKept
<1>4. QueueShapes' /\ HostShapes'
  BY <1>2, QueuesKept, MainMoved DEF UndoHeader, UndoBody
<1> QED  BY <1>3, <1>4, OtherSteps, AllShapes

LEMMA EnqueueShapes ==
  ASSUME Shapes, NEW w \in Worker, Enqueue(w), HostOnly
  PROVE  Shapes'
<1> DEFINE m == main[w]
           d == [op |-> m.msg.op, case |-> m.msg.case, req_id |-> m.msg.req_id,
                 dst |-> Nil, header |-> m.tx_header, body |-> m.tx_body]
           a == AfterHandler(m)
<1>1. /\ m \in MainState /\ MainShape(w, m) /\ m.pc = "put" /\ m.msg \in Message /\ m.conn \in Conn
      /\ m.tx_header \in Ref /\ m.tx_body \in Ref
      /\ m.tx_header.pool = HostPool(w, "tx_header") /\ m.tx_body.pool = HostPool(w, "tx_body")
      /\ m.msg.op = "req" => m.msg.case = "local" /\ m.conn.ctx \in Context
  BY MainIs DEF Enqueue, MainShape, WritePc, MainState, OptRef
<1>2. mem' \in [Pool -> [Slot -> Contents]]
  BY DEF Shapes, Enqueue
<1>3. CASE Room(tx_sq[w])
  <2>1. d \in SentDesc(w)
    <3>1. m.msg.op \in {"req", "resp"} /\ m.msg.case \in {"ingress", "local"} /\ m.msg.req_id \in Nat
      BY <1>1 DEF Message
    <3>2. d \in Descriptor
      BY <1>1, <3>1 DEF Descriptor, OptRef
    <3> HIDE DEF m
    <3> QED  BY <1>1, <3>1, <3>2 DEF SentDesc
  <2>2. Append(tx_sq[w], d) \in Seq(SentDesc(w)) /\ Len(Append(tx_sq[w], d)) <= MaxDescriptors
    <3> HIDE DEF d
    <3> QED  BY <1>3, <2>1, QueuedDescs, Push, ShmAssumption DEF Room
  <2>3. /\ tx_sq' = [tx_sq EXCEPT ![w] = Append(tx_sq[w], d)]
        /\ waiting' = [waiting EXCEPT ![w] =
                IF m.msg.op = "req"
                THEN @ \cup {[pipe |-> m.msg.req_id, idx |-> m.conn.idx, ctx |-> m.conn.ctx]}
                ELSE @]
        /\ main' = [main EXCEPT ![w] = a]
    BY <1>3, QueuedDescs DEF Enqueue
  <2>4. QueueShapes'
    <3> HIDE DEF d
    <3> QED  BY <2>2, <2>3, TxQueue DEF Enqueue
  <2>5. waiting'[w] \subseteq Waiting /\ DOMAIN waiting' = Worker /\ \A v \in Worker : v # w => waiting'[v] = waiting[v]
    <3>1. m.msg.op = "req" => [pipe |-> m.msg.req_id, idx |-> m.conn.idx, ctx |-> m.conn.ctx] \in Waiting
      BY <1>1 DEF Waiting, Message, Conn
    <3>2. waiting[w] \subseteq Waiting
      BY HostAtIs DEF HostAt
    <3> HIDE DEF m
    <3> QED  BY <2>3, <3>1, <3>2, HostAtIs
  <2>6. main'[w] = a /\ DOMAIN main' = Worker /\ \A v \in Worker : v # w => main'[v] = main[v]
    BY <2>3, HostAtIs
  <2>7. HostAt(w)'
    <3>1. HostAt(w) /\ MainShape(w, main'[w])
      BY <2>6, HostAtIs, AfterHandlerIs
    <3> QED  BY <2>5, <3>1 DEF HostAt, Enqueue
  <2>8. HostShapes'
    BY <2>5, <2>6, <2>7, HostAtIs, HostMoved DEF Enqueue, calls
  <2> QED  BY <1>2, <2>4, <2>8, OtherSteps, AllShapes
<1>4. CASE ~Room(tx_sq[w])
  <2> DEFINE n == [m EXCEPT !.pc = "undo"]
  <2>1. main' = [main EXCEPT ![w] = n] /\ UNCHANGED <<sqs, calls, inbound, pipes, poller>>
    BY <1>4, MainIs DEF Enqueue, sqs, pipes
  <2>2. MainShape(w, n)
    <3> HIDE DEF m
    <3>1. n \in MainState
      BY <1>1 DEF MainState
    <3>2. /\ n.pc = "undo" /\ n.tx_header = m.tx_header /\ n.tx_body = m.tx_body /\ n.rx_header = m.rx_header
          /\ n.rx_body = m.rx_body /\ n.conn = m.conn /\ n.msg = m.msg
      BY <1>1 DEF MainState
    <3> HIDE DEF n
    <3> QED  BY <1>1, <3>1, <3>2, DataAssumption DEF MainShape, WritePc
  <2>3. QueueShapes' /\ HostShapes'
    BY <2>1, <2>2, QueuesKept, MainMoved
  <2> QED  BY <1>2, <2>3, OtherSteps, AllShapes
<1> QED  BY <1>3, <1>4
-----------------------------------------------------------------------------
(* The DPA daemon.                                                         *)
LEMMA TxGetShapes ==
  ASSUME Shapes, NEW w \in Worker, TxGet(w), DpaOnly
  PROVE  Shapes'
<1>1. /\ Head(tx_sq[w]) \in SentDesc(w) /\ Tail(tx_sq[w]) \in Seq(SentDesc(w))
      /\ Len(Tail(tx_sq[w])) <= MaxDescriptors
  <2>1. tx_sq[w] # << >> /\ tx_sq[w] \in Seq(SentDesc(w)) /\ Len(tx_sq[w]) <= MaxDescriptors
    BY QueuedDescs, QueueLens DEF TxGet
  <2>2. Len(Tail(tx_sq[w])) \in Nat
    BY <2>1
  <2> QED  BY <2>1, <2>2, Pop, ShmAssumption
<1>2. QueueShapes'
  BY <1>1, TxQueue DEF TxGet
<1>3. DpaTxShape(dpaTx')
  BY <1>1, QueuedDescs DEF TxGet, IdleTx, DpaTxShape, OptDesc, OptRef
<1>4. DpaRxShape(dpaRx') /\ mem' \in [Pool -> [Slot -> Contents]]
  BY DEF Shapes, TxGet
<1> QED  BY <1>2, <1>3, <1>4, OtherSteps, AllShapes

LEMMA TxLocalShapes ==
  ASSUME Shapes, TxCopy \/ TxFree \/ TxDrop, DpaOnly
  PROVE  Shapes'
<1>0. DpaRxShape(dpaRx') /\ QueueShapes'
  BY QueuesKept DEF Shapes, TxCopy, TxFree, TxDrop
<1>1. DpaTxShape(dpaTx') /\ mem' \in [Pool -> [Slot -> Contents]]
  <2>1. CASE TxCopy
    <3>1. /\ dpaTx.pc = "copy" /\ dpaTx.src \in Worker /\ dpaTx.desc \in SentDesc(dpaTx.src)
          /\ dpaTx.desc.header \in Ref
      BY <2>1, TxIs DEF TxCopy, DpaTxShape, SentDesc
    <3>2. CASE Full(DpuTxHeader)
      <4>1. dpaTx' = [dpaTx EXCEPT !.pc = "requeue"] /\ mem' = mem
        BY <2>1, <3>2 DEF TxCopy
      <4> QED  BY <3>1, <4>1, TxIs DEF DpaTxShape, Shapes
    <3>3. CASE ~Full(DpuTxHeader)
      <4>1. /\ dpaTx' = [dpaTx EXCEPT !.pc = "free", !.header = NewRef(DpuTxHeader)]
            /\ AllocWrite(DpuTxHeader, ReadSlot(dpaTx.desc.header))
        BY <2>1, <3>3 DEF TxCopy
      <4>2. DpuTxHeader \in Pool
        BY DEF Pool
      <4>3. ReadSlot(dpaTx.desc.header) \in Contents
        BY <3>1 DEF ReadSlot, Shapes, Ref
      <4>4. mem' \in [Pool -> [Slot -> Contents]]
        BY <4>1, <4>2, <4>3, AllocKept
      <4>5. NewRef(DpuTxHeader) \in Ref /\ NewRef(DpuTxHeader).pool = DpuTxHeader
        BY <3>3, <4>2, NewRefIs
      <4> QED  BY <3>1, <4>1, <4>4, <4>5, TxIs DEF DpaTxShape, OptRef
    <3> QED  BY <3>2, <3>3
  <2>2. CASE TxFree
    <3> DEFINE d == dpaTx.desc
               e == [d EXCEPT !.header = dpaTx.header]
    <3>1. /\ dpaTx.src \in Worker /\ d \in SentDesc(dpaTx.src) /\ d.header \in Ref
          /\ dpaTx.header \in Ref /\ dpaTx.header.pool = DpuTxHeader
      BY <2>2, TxIs DEF TxFree, DpaTxShape, SentDesc
    <3>2. mem' \in [Pool -> [Slot -> Contents]]
      BY <2>2, <3>1, FreeKept DEF TxFree
    <3>3. dpaTx' = [dpaTx EXCEPT !.pc = "put", !.desc = e, !.header = Nil]
      BY <2>2, TxIs DEF TxFree
    <3>4. e \in DpuDesc
      <4>1. d \in Descriptor /\ d.body \in Ref /\ d.body.pool \in TxBodyPool /\ (d.op = "req" => d.case = "local")
        <5>1. ServiceOf[dpaTx.src] \in Service
          BY <3>1, ShmAssumption
        <5> HIDE DEF d
        <5>2. /\ d \in Descriptor /\ d.body \in Ref /\ d.body.pool = <<ServiceOf[dpaTx.src], "tx_body">>
              /\ d.op = "req" => d.case = "local"
          BY <3>1 DEF SentDesc, HostPool
        <5> QED  BY <5>1, <5>2 DEF TxBodyPool
      <4>2. e.header = dpaTx.header /\ e.body = d.body /\ e.op = d.op /\ e.case = d.case
        BY <4>1 DEF Descriptor
      <4>3. e \in Descriptor
        BY <3>1, <4>1 DEF Descriptor, OptRef
      <4> HIDE DEF e, d
      <4> QED  BY <3>1, <4>1, <4>2, <4>3 DEF DpuDesc
    <3> HIDE DEF e
    <3> QED  BY <3>2, <3>3, <3>4, TxIs, SidecarDescs DEF DpaTxShape, OptDesc, OptRef
  <2>3. CASE TxDrop
    <3>1. dpaTx.desc.header \in Ref /\ FreeSlot(dpaTx.desc.header) /\ dpaTx' = IdleTx
      BY <2>3, TxIs DEF TxDrop, DpaTxShape, DpuDesc
    <3> QED  BY <3>1, FreeKept DEF DpaTxShape, IdleTx, OptDesc, OptRef
  <2> QED  BY <2>1, <2>2, <2>3
<1> QED  BY <1>0, <1>1, OtherSteps, AllShapes

LEMMA TxRequeueShapes ==
  ASSUME Shapes, TxRequeue, DpaOnly
  PROVE  Shapes'
<1>1. PICK w \in Worker : w = dpaTx.src /\ dpaTx.desc \in SentDesc(w)
  BY TxIs DEF TxRequeue, DpaTxShape
<1> DEFINE q == PutBack(tx_sq[w], dpaTx.desc)
<1>2. q \in Seq(SentDesc(w)) /\ Len(q) <= MaxDescriptors
  BY <1>1, QueuedDescs, QueueLens, Push, ShmAssumption DEF PutBack, Room
<1>3. tx_sq' = [tx_sq EXCEPT ![w] = q]
  BY <1>1 DEF TxRequeue
<1>4. QueueShapes'
  <2> HIDE DEF q
  <2> QED  BY <1>2, <1>3, TxQueue DEF TxRequeue
<1>5. DpaTxShape(dpaTx') /\ DpaRxShape(dpaRx') /\ mem' \in [Pool -> [Slot -> Contents]]
  BY DEF TxRequeue, Shapes, DpaTxShape, IdleTx, OptDesc, OptRef
<1> QED  BY <1>4, <1>5, OtherSteps, AllShapes

LEMMA TxPutShapes ==
  ASSUME Shapes, TxPut, DpaOnly
  PROVE  Shapes'
<1>1. dpaTx.pc = "put" /\ dpaTx.desc \in DpuDesc /\ dpaTx.header = Nil
  BY TxIs DEF TxPut, DpaTxShape
<1>2. DpaRxShape(dpaRx') /\ mem' \in [Pool -> [Slot -> Contents]]
  BY DEF TxPut, Shapes
<1>3. CASE Room(sidecar_tx_sq)
  <2>1. sidecar_tx_sq' = Append(sidecar_tx_sq, dpaTx.desc) /\ dpaTx' = IdleTx
    BY <1>3 DEF TxPut
  <2>2. sidecar_tx_sq' \in Seq(DpuDesc) /\ Len(sidecar_tx_sq') <= MaxDescriptors
    BY <1>1, <1>3, <2>1, SidecarDescs, Push, ShmAssumption DEF Room
  <2>3. QueueShapes'
    BY <2>2 DEF TxPut, Shapes, QueueShapes, DpuDesc
  <2>4. DpaTxShape(dpaTx')
    BY <2>1 DEF DpaTxShape, IdleTx, OptDesc, OptRef
  <2> QED  BY <1>2, <2>3, <2>4, OtherSteps, AllShapes
<1>4. CASE ~Room(sidecar_tx_sq)
  <2>1. dpaTx' = [dpaTx EXCEPT !.pc = "drop"] /\ UNCHANGED sqs
    BY <1>4 DEF TxPut, sqs
  <2>2. DpaTxShape(dpaTx')
    BY <1>1, <2>1, TxIs DEF DpaTxShape
  <2>3. QueueShapes'
    BY <2>1, QueuesKept
  <2> QED  BY <1>2, <2>2, <2>3, OtherSteps, AllShapes
<1> QED  BY <1>3, <1>4

LEMMA RxLocal ==
  ASSUME Shapes, DpaRxShape(dpaRx'), mem' \in [Pool -> [Slot -> Contents]], UNCHANGED <<dpaTx, sqs>>, DpaOnly
  PROVE  Shapes'
<1>1. DpaTxShape(dpaTx') /\ QueueShapes'
  BY QueuesKept DEF Shapes
<1> QED  BY <1>1, OtherSteps, AllShapes

LEMMA IdleRxIs == DpaRxShape(IdleRx)
BY DEF DpaRxShape, IdleRx, OptDesc, OptRef

LEMMA RxGetShapes ==
  ASSUME Shapes, RxGet, DpaOnly
  PROVE  Shapes'
<1> DEFINE d == Head(sidecar_rx_sq)
<1>1. d \in RoutedDesc /\ Tail(sidecar_rx_sq) \in Seq(RoutedDesc) /\ Len(Tail(sidecar_rx_sq)) <= MaxDescriptors
  <2>1. sidecar_rx_sq # << >> /\ sidecar_rx_sq \in Seq(RoutedDesc) /\ Len(sidecar_rx_sq) <= MaxDescriptors
    BY SidecarDescs DEF RxGet, Shapes, QueueShapes
  <2>2. Len(Tail(sidecar_rx_sq)) \in Nat
    BY <2>1
  <2> QED  BY <2>1, <2>2, Pop, ShmAssumption
<1>2. QueueShapes'
  BY <1>1 DEF RxGet, Shapes, QueueShapes, RoutedDesc, DpuDesc, Ingress
<1>3. DpaRxShape(dpaRx')
  <2>1. dpaRx' = [pc |-> "body", desc |-> d, body |-> Nil, header |-> Nil]
    BY DEF RxGet, IdleRx
  <2> HIDE DEF d
  <2> QED  BY <1>1, <2>1, SidecarDescs DEF DpaRxShape, OptDesc, OptRef
<1>4. DpaTxShape(dpaTx') /\ mem' \in [Pool -> [Slot -> Contents]]
  BY DEF RxGet, Shapes
<1> QED  BY <1>2, <1>3, <1>4, OtherSteps, AllShapes

LEMMA RxRequeueShapes ==
  ASSUME Shapes, RxRequeue, DpaOnly
  PROVE  Shapes'
<1> DEFINE q == PutBack(sidecar_rx_sq, dpaRx.desc)
<1>1. dpaRx.desc \in RoutedDesc
  BY RxIs DEF RxRequeue, DpaRxShape
<1>2. q \in Seq(RoutedDesc) /\ Len(q) <= MaxDescriptors
  <2>1. Len(sidecar_rx_sq) <= MaxDescriptors
    BY DEF Shapes, QueueShapes
  <2> QED  BY <1>1, <2>1, SidecarDescs, Push, ShmAssumption DEF PutBack, Room
<1>3. QueueShapes'
  <2>1. sidecar_rx_sq' = q
    BY DEF RxRequeue
  <2> HIDE DEF q
  <2> QED  BY <1>2, <2>1 DEF RxRequeue, Shapes, QueueShapes, RoutedDesc, DpuDesc, Ingress
<1>4. DpaTxShape(dpaTx') /\ DpaRxShape(dpaRx') /\ mem' \in [Pool -> [Slot -> Contents]]
  BY IdleRxIs DEF RxRequeue, Shapes
<1> QED  BY <1>3, <1>4, OtherSteps, AllShapes

LEMMA RoutedIs ==
  ASSUME NEW d \in RoutedDesc
  PROVE  /\ d \in Descriptor /\ d # Nil /\ d.dst \in Worker /\ d.body \in Ref
         /\ \/ Ingress(d) /\ d.header = Nil /\ d.case = "ingress"
            \/ ~Ingress(d) /\ d.case = "local" /\ d.header \in Ref /\ d.header.pool = DpuTxHeader
BY DataAssumption DEF RoutedDesc, DpuDesc, Ingress

LEMMA RxCopyBodyShapes ==
  ASSUME Shapes, RxCopyBody, DpaOnly
  PROVE  Shapes'
<1> DEFINE d == dpaRx.desc
           p == HostPool(d.dst, "rx_body")
<1>1. d \in RoutedDesc /\ dpaRx.pc = "body" /\ dpaRx.body = Nil /\ dpaRx.header = Nil
  BY RxIs DEF RxCopyBody, DpaRxShape
<1>2. d \in Descriptor /\ d # Nil /\ d.dst \in Worker /\ d.body \in Ref
  BY <1>1, RoutedIs
<1>3. CASE Full(p)
  <2>1. dpaRx' = [dpaRx EXCEPT !.pc = "requeue"] /\ mem' = mem
    BY <1>3 DEF RxCopyBody
  <2>2. DpaRxShape(dpaRx')
    BY <1>1, <2>1, RxIs DEF DpaRxShape
  <2> QED  BY <2>1, <2>2, RxLocal DEF Shapes, RxCopyBody
<1>4. CASE ~Full(p)
  <2> DEFINE n == NewRef(p)
  <2>1. dpaRx' = [dpaRx EXCEPT !.pc = "free_body", !.body = n] /\ AllocWrite(p, ReadSlot(d.body))
    BY <1>4 DEF RxCopyBody
  <2>2. p \in Pool
    <3> HIDE DEF d
    <3> QED  BY <1>2, HostPools DEF Kind
  <2>3. ReadSlot(d.body) \in Contents
    BY <1>2 DEF ReadSlot, Shapes, Ref
  <2>4. mem' \in [Pool -> [Slot -> Contents]]
    <3> HIDE DEF p, d
    <3> QED  BY <2>1, <2>2, <2>3, AllocKept
  <2>5. n \in Ref /\ n.pool = p
    <3> HIDE DEF p, d
    <3> QED  BY <1>4, <2>2, NewRefIs
  <2>6. DpaRxShape(dpaRx')
    <3>1. /\ dpaRx'.pc = "free_body" /\ dpaRx'.body = n /\ dpaRx'.desc = d /\ dpaRx'.header = Nil
          /\ dpaRx' \in [pc : {"poll", "body", "requeue", "free_body", "header", "free_header", "put", "drop"},
                         desc : OptDesc, body : OptRef, header : OptRef]
      <4> HIDE DEF n
      <4> QED  BY <1>1, <2>1, <2>5, RxIs DEF OptRef
    <3> HIDE DEF n, d
    <3> QED  BY <1>1, <2>5, <3>1 DEF DpaRxShape
  <2> QED  BY <2>4, <2>6, RxLocal DEF RxCopyBody
<1> QED  BY <1>3, <1>4

LEMMA RxFreeBodyShapes ==
  ASSUME Shapes, RxFreeBody, DpaOnly
  PROVE  Shapes'
<1> DEFINE d == dpaRx.desc
           e == [d EXCEPT !.body = Nil]
           pc == IF d.case = "ingress" THEN "put" ELSE "header"
<1>1. /\ d \in RoutedDesc /\ dpaRx.header = Nil /\ dpaRx.body \in Ref
      /\ dpaRx.body.pool = HostPool(d.dst, "rx_body")
  BY RxIs DEF RxFreeBody, DpaRxShape
<1>2. /\ d \in Descriptor /\ d # Nil /\ d.dst \in Worker /\ d.body \in Ref
      /\ \/ Ingress(d) /\ d.header = Nil /\ d.case = "ingress"
         \/ ~Ingress(d) /\ d.case = "local" /\ d.header \in Ref /\ d.header.pool = DpuTxHeader
  BY <1>1, RoutedIs
<1>3. mem' \in [Pool -> [Slot -> Contents]]
  BY <1>2, FreeKept DEF RxFreeBody
<1>4. /\ dpaRx'.pc = pc /\ dpaRx'.desc = e /\ dpaRx'.body = dpaRx.body /\ dpaRx'.header = Nil
      /\ dpaRx' = [pc |-> pc, desc |-> e, body |-> dpaRx.body, header |-> Nil]
  BY <1>1, RxIs DEF RxFreeBody
<1>5. /\ e \in Descriptor /\ e.body = Nil /\ e.header = d.header /\ e.dst = d.dst /\ e.case = d.case
      /\ e.op = d.op
  BY <1>2 DEF Descriptor, OptRef
<1>6. DpaRxShape(dpaRx')
  <2> HIDE DEF e, d
  <2>1. pc \in {"put", "header"} /\ (pc = "put" <=> d.case = "ingress")
    OBVIOUS
  <2> HIDE DEF pc
  <2> QED  BY <1>1, <1>2, <1>4, <1>5, <2>1, DataAssumption DEF DpaRxShape, OptDesc, OptRef, Ingress
<1> QED  BY <1>3, <1>6, RxLocal DEF RxFreeBody

LEMMA RxCopyHeaderShapes ==
  ASSUME Shapes, RxCopyHeader, DpaOnly
  PROVE  Shapes'
<1> DEFINE d == dpaRx.desc
           p == HostPool(d.dst, "rx_header")
<1>1. /\ dpaRx.pc = "header" /\ d # Nil /\ d.dst \in Worker /\ d.body = Nil /\ d.case = "local"
      /\ d.header \in Ref /\ d.header.pool = DpuTxHeader /\ dpaRx.header = Nil
      /\ dpaRx.body \in Ref /\ dpaRx.body.pool = HostPool(d.dst, "rx_body")
  BY RxIs DEF RxCopyHeader, DpaRxShape
<1>2. CASE Full(p)
  <2>1. dpaRx' = [dpaRx EXCEPT !.pc = "drop", !.desc = Nil] /\ mem' = mem
    BY <1>2 DEF RxCopyHeader
  <2>2. dpaRx' = [pc |-> "drop", desc |-> Nil, body |-> dpaRx.body, header |-> Nil]
    BY <1>1, <2>1, RxIs
  <2>3. DpaRxShape(dpaRx')
    BY <1>1, <2>2, DataAssumption DEF DpaRxShape, OptDesc, OptRef
  <2> QED  BY <2>1, <2>3, RxLocal DEF Shapes, RxCopyHeader
<1>3. CASE ~Full(p)
  <2> DEFINE n == NewRef(p)
  <2>1. dpaRx' = [dpaRx EXCEPT !.pc = "free_header", !.header = n] /\ AllocWrite(p, ReadSlot(d.header))
    BY <1>3 DEF RxCopyHeader
  <2>2. p \in Pool
    <3> HIDE DEF d
    <3> QED  BY <1>1, HostPools DEF Kind
  <2>3. ReadSlot(d.header) \in Contents
    BY <1>1 DEF ReadSlot, Shapes, Ref
  <2>4. mem' \in [Pool -> [Slot -> Contents]]
    <3> HIDE DEF p, d
    <3> QED  BY <2>1, <2>2, <2>3, AllocKept
  <2>5. n \in Ref /\ n.pool = p /\ n # Nil
    <3> HIDE DEF p, d
    <3> QED  BY <1>3, <2>2, NewRefIs, DataAssumption
  <2>6. DpaRxShape(dpaRx')
    <3>1. /\ dpaRx'.pc = "free_header" /\ dpaRx'.body = dpaRx.body /\ dpaRx'.desc = d /\ dpaRx'.header = n
          /\ dpaRx' \in [pc : {"poll", "body", "requeue", "free_body", "header", "free_header", "put", "drop"},
                         desc : OptDesc, body : OptRef, header : OptRef]
      <4> HIDE DEF n
      <4> QED  BY <1>1, <2>1, <2>5, RxIs DEF OptRef
    <3> HIDE DEF n, d
    <3> QED  BY <1>1, <2>5, <3>1 DEF DpaRxShape
  <2> QED  BY <2>4, <2>6, RxLocal DEF RxCopyHeader
<1> QED  BY <1>2, <1>3

LEMMA RxFreeHeaderShapes ==
  ASSUME Shapes, RxFreeHeader, DpaOnly
  PROVE  Shapes'
<1> DEFINE d == dpaRx.desc
           e == [d EXCEPT !.header = Nil]
<1>1. /\ d \in Descriptor /\ d # Nil /\ d.dst \in Worker /\ d.body = Nil /\ d.case = "local"
      /\ d.header \in Ref /\ dpaRx.header # Nil
      /\ dpaRx.header.pool = HostPool(d.dst, "rx_header") /\ dpaRx.header \in OptRef
      /\ dpaRx.body \in Ref /\ dpaRx.body.pool = HostPool(d.dst, "rx_body")
  BY RxIs DEF RxFreeHeader, DpaRxShape, OptDesc
<1>2. mem' \in [Pool -> [Slot -> Contents]]
  BY <1>1, FreeKept DEF RxFreeHeader
<1>3. dpaRx' = [pc |-> "put", desc |-> e, body |-> dpaRx.body, header |-> dpaRx.header]
  BY RxIs DEF RxFreeHeader
<1>4. /\ e \in Descriptor /\ e.body = Nil /\ e.header = Nil /\ e.dst = d.dst /\ e.case = "local"
  BY <1>1 DEF Descriptor, OptRef
<1>5. DpaRxShape(dpaRx')
  <2> HIDE DEF e, d
  <2> QED  BY <1>1, <1>3, <1>4, DataAssumption DEF DpaRxShape, OptDesc, OptRef, Ingress
<1> QED  BY <1>2, <1>5, RxLocal DEF RxFreeHeader

LEMMA RxPutShapes ==
  ASSUME Shapes, RxPut, DpaOnly
  PROVE  Shapes'
<1> DEFINE e == [dpaRx.desc EXCEPT !.header = dpaRx.header, !.body = dpaRx.body]
<1>1. PICK w \in Worker : w = dpaRx.desc.dst /\ e \in ReceivedDesc(w)
  BY RxPutDesc DEF RxPut
<1>2. CASE Room(rx_sq[w])
  <2>1. rx_sq' = [rx_sq EXCEPT ![w] = Append(rx_sq[w], e)] /\ dpaRx' = IdleRx
    BY <1>1, <1>2, QueuedDescs DEF RxPut
  <2> HIDE DEF e
  <2>2. Append(rx_sq[w], e) \in Seq(ReceivedDesc(w)) /\ Len(Append(rx_sq[w], e)) <= MaxDescriptors
    BY <1>1, <1>2, QueuedDescs, Push, ShmAssumption DEF Room
  <2>3. QueueShapes'
    BY <2>1, <2>2, RxQueue DEF RxPut
  <2>4. DpaRxShape(dpaRx') /\ DpaTxShape(dpaTx') /\ mem' \in [Pool -> [Slot -> Contents]]
    BY <2>1, IdleRxIs DEF Shapes, RxPut
  <2> QED  BY <2>3, <2>4, OtherSteps, AllShapes
<1>3. CASE ~Room(rx_sq[w])
  <2>1. dpaRx' = [dpaRx EXCEPT !.pc = "drop"] /\ UNCHANGED sqs
    BY <1>1, <1>3 DEF RxPut, sqs
  <2>2. /\ dpaRx.desc # Nil /\ dpaRx.desc.body = Nil /\ dpaRx.desc.header = Nil /\ dpaRx.body # Nil
    BY RxIs, DataAssumption DEF RxPut, DpaRxShape
  <2>3. DpaRxShape(dpaRx')
    <3>1. /\ dpaRx'.pc = "drop" /\ dpaRx'.body = dpaRx.body /\ dpaRx'.desc = dpaRx.desc /\ dpaRx'.header = dpaRx.header
          /\ dpaRx' \in [pc : {"poll", "body", "requeue", "free_body", "header", "free_header", "put", "drop"},
                         desc : OptDesc, body : OptRef, header : OptRef]
      BY <2>1, RxIs
    <3> QED  BY <2>2, <3>1 DEF DpaRxShape
  <2>4. mem' \in [Pool -> [Slot -> Contents]]
    BY DEF RxPut, Shapes
  <2> QED  BY <2>1, <2>3, <2>4, RxLocal DEF RxPut
<1> QED  BY <1>2, <1>3

LEMMA RxDropShapes ==
  ASSUME Shapes, RxDrop, DpaOnly
  PROVE  Shapes'
<1>1. /\ dpaRx.pc = "drop" /\ dpaRx.body \in OptRef /\ dpaRx.header \in OptRef
      /\ dpaRx.body # Nil \/ dpaRx.header # Nil
      /\ dpaRx.desc # Nil => dpaRx.desc.body = Nil /\ dpaRx.desc.header = Nil
  BY RxIs DEF RxDrop, DpaRxShape
<1>2. mem' \in [Pool -> [Slot -> Contents]]
  BY <1>1, FreeKept DEF RxDrop, OptRef
<1>3. DpaRxShape(dpaRx')
  <2>1. CASE dpaRx' = IdleRx
    BY <2>1, IdleRxIs
  <2>2. CASE dpaRx' = [dpaRx EXCEPT !.body = Nil] /\ dpaRx.header # Nil
    <3>1. dpaRx' = [pc |-> "drop", desc |-> dpaRx.desc, body |-> Nil, header |-> dpaRx.header]
      BY <1>1, <2>2, RxIs
    <3> QED  BY <1>1, <2>2, <3>1, RxIs DEF DpaRxShape, OptRef
  <2> QED  BY <2>1, <2>2 DEF RxDrop
<1> QED  BY <1>2, <1>3, RxLocal DEF RxDrop
-----------------------------------------------------------------------------
(* The sidecar.                                                            *)
LEMMA SidecarIs ==
  ASSUME Shapes
  PROVE  /\ rr_idx \in [Service -> Nat]
         /\ bridge_events \in [Client -> {"absent", "waiting", "set"}]
         /\ bridge_responses \in [Client -> Answers \cup {Nil, None}]
         /\ DOMAIN bridge = Client
         /\ \A c \in Client : /\ BridgeShape(c, bridge[c])
                              /\ bridge_events[c] = "set" => bridge_responses[c] \in Answers
BY DEF Shapes, SidecarShapes

(* The routing thread has moved, the bridge threads have not.              *)
LEMMA ArmMoved ==
  ASSUME Shapes, ArmShape(arm'), rr_idx' \in [Service -> Nat], UNCHANGED <<bridge, tables>>
  PROVE  SidecarShapes'
<1>1. ArmShape(arm)'
  BY DEF ArmShape, OptDesc, Reply, DpuDesc
<1>2. (rr_idx \in [Service -> Nat])'
  BY DEF Service
<1> QED  BY <1>1, <1>2 DEF Shapes, SidecarShapes, tables

LEMMA IdleArmIs == ArmShape(IdleArm)
BY DEF ArmShape, IdleArm, OptDesc

ArmLocals == [pc : {"poll", "route", "put", "cleanup", "free_header", "wake"}, desc : OptDesc,
              resp : Reply \cup {Nil}]

LEMMA ArmGetShapes ==
  ASSUME Shapes, ArmGet, SidecarOnly
  PROVE  Shapes'
<1> DEFINE d == Head(sidecar_tx_sq)
<1>1. d \in DpuDesc /\ Tail(sidecar_tx_sq) \in Seq(DpuDesc) /\ Len(Tail(sidecar_tx_sq)) <= MaxDescriptors
  <2>1. sidecar_tx_sq # << >> /\ sidecar_tx_sq \in Seq(DpuDesc) /\ Len(sidecar_tx_sq) <= MaxDescriptors
    BY SidecarDescs DEF ArmGet, Shapes, QueueShapes
  <2>2. Len(Tail(sidecar_tx_sq)) \in Nat
    BY <2>1
  <2> QED  BY <2>1, <2>2, Pop, ShmAssumption
<1>2. QueueShapes'
  BY <1>1 DEF ArmGet, Shapes, QueueShapes, DpuDesc
<1>3. ArmShape(arm')
  <2>1. arm' \in ArmLocals /\ arm'.pc = "route" /\ arm'.desc = d
    <3>1. arm' = [arm EXCEPT !.pc = "route", !.desc = d]
      BY DEF ArmGet
    <3> HIDE DEF d
    <3> QED  BY <1>1, <3>1, ArmIs, SidecarDescs DEF ArmLocals, OptDesc
  <2> HIDE DEF d
  <2> QED  BY <1>1, <2>1 DEF ArmShape, ArmLocals
<1>4. SidecarShapes' /\ mem' \in [Pool -> [Slot -> Contents]]
  BY <1>3, ArmMoved, SidecarIs DEF ArmGet, Shapes
<1> QED  BY <1>2, <1>4, OtherSteps, AllShapes

LEMMA ArmLocal ==
  ASSUME Shapes, ArmShape(arm'), rr_idx' \in [Service -> Nat], mem' \in [Pool -> [Slot -> Contents]],
         UNCHANGED <<bridge, tables, sqs>>, SidecarOnly
  PROVE  Shapes'
BY ArmMoved, QueuesKept, OtherSteps, AllShapes

(* What the routing thread reads in the buffers it owns.                   *)
LEMMA ArmReads ==
  ASSUME Shapes, NEW own, OwnInv(own), arm.desc \in DpuDesc
  PROVE  /\ ReadSlot(arm.desc.header) \in Header
         /\ arm.desc.op = "resp" => ReadSlot(arm.desc.body) \in Body
<1> DEFINE d == arm.desc
<1>1. d # Nil /\ d.header \in Ref /\ d.header # Nil /\ d.body \in Ref /\ d.body # Nil
  BY DataAssumption DEF DpuDesc
<1>2. Owns(own, <<"arm", Nil>>, "header", d.header) /\ Owns(own, <<"arm", Nil>>, BodyAs(d), d.body)
  BY <1>1, OfSidecar DEF Carries, HasHeader, HasBody
<1>3. d.op = "resp" => BodyAs(d) = "body"
  BY DEF BodyAs, Ingress
<1> HIDE DEF d
<1>4. own[d.header].use = "header" /\ own[d.body].use = BodyAs(d)
  BY <1>2, Owned
<1>5. ReadSlot(d.header) \in Header /\ (d.op = "resp" => ReadSlot(d.body) \in Body)
  BY <1>1, <1>3, <1>4 DEF ReadSlot, OwnInv, Memory
<1> QED  BY <1>5 DEF d

LEMMA RoutedShape ==
  ASSUME Shapes, arm.desc \in DpuDesc, NEW v \in Worker,
         arm' = [arm EXCEPT !.pc = "put", !.desc.dst = v, !.desc.case = "local"]
  PROVE  ArmShape(arm')
<1> DEFINE d == arm.desc
           e == [d EXCEPT !.dst = v, !.case = "local"]
<1>1. arm' = [pc |-> "put", desc |-> e, resp |-> arm.resp]
  BY ArmIs
<1>6. arm'.pc = "put" /\ arm'.desc = e /\ arm'.resp = arm.resp
  BY <1>1, ArmIs
<1>2. d \in Descriptor /\ d.header \in Ref /\ d.header.pool = DpuTxHeader /\ d.body \in Ref /\ d.body.pool \in TxBodyPool
  BY DEF DpuDesc
<1>3. e \in Descriptor /\ e.header = d.header /\ e.body = d.body /\ e.dst = v /\ e.case = "local"
  BY <1>2 DEF Descriptor
<1>4. arm.resp \in Reply \cup {Nil}
  BY ArmIs
<1> HIDE DEF d, e
<1>5. e \in DpuDesc
  BY <1>2, <1>3 DEF DpuDesc
<1>7. arm' \in ArmLocals
  BY <1>1, <1>3, <1>4 DEF ArmLocals, OptDesc
<1> QED  BY <1>3, <1>5, <1>6, <1>7 DEF ArmShape, ArmLocals

LEMMA RouteRequestShapes ==
  ASSUME Shapes, NEW own, OwnInv(own), RouteRequest, SidecarOnly
  PROVE  Shapes'
<1> DEFINE svc == ReadSlot(arm.desc.header).svc
<1>1. arm.desc \in DpuDesc /\ arm.pc = "route"
  BY ArmIs DEF RouteRequest, ArmShape
<1>2. svc \in Service \cup {Nil}
  BY <1>1, ArmReads DEF Header
<1>3. mem' \in [Pool -> [Slot -> Contents]] /\ UNCHANGED <<bridge, tables, sqs>>
  BY DEF RouteRequest, shmVars, Shapes
<1>4. CASE WorkersOf(svc) = {}
  <2>1. arm' = [arm EXCEPT !.pc = "cleanup"] /\ rr_idx' = rr_idx
    BY <1>4 DEF RouteRequest
  <2>2. arm.desc # Nil /\ arm.desc.header \in Ref
    BY <1>1, DataAssumption DEF DpuDesc
  <2>3. ArmShape(arm')
    BY <2>1, <2>2, ArmIs DEF ArmShape
  <2> QED  BY <1>3, <2>1, <2>3, ArmLocal, SidecarIs
<1>5. CASE WorkersOf(svc) # {}
  <2>1. PICK s \in Service : s = svc
    <3>1. WorkersOf(Nil) = {}
      BY ShmAssumption DEF WorkersOf
    <3> HIDE DEF svc
    <3> QED  BY <1>2, <1>5, <3>1
  <2>2. Advance(s) /\ arm' = [arm EXCEPT !.pc = "put", !.desc.dst = Selected(s), !.desc.case = "local"]
    BY <1>5, <2>1 DEF RouteRequest
  <2>3. Selected(s) \in Worker /\ rr_idx' \in [Service -> Nat]
    BY <1>5, <2>1, <2>2, SelectedIs
  <2>4. ArmShape(arm')
    BY <1>1, <2>2, <2>3, RoutedShape
  <2> QED  BY <1>3, <2>3, <2>4, ArmLocal
<1> QED  BY <1>4, <1>5

LEMMA RouteResponseShapes ==
  ASSUME Shapes, NEW own, OwnInv(own), RouteResponse, SidecarOnly
  PROVE  Shapes'
<1> DEFINE dst == ReadSlot(arm.desc.header).dst
<1>1. arm.desc \in DpuDesc
  BY ArmIs DEF RouteResponse, ArmShape
<1>2. PICK v \in Worker : v = dst
  BY <1>1, ArmReads DEF Header, RouteResponse
<1>3. mem' \in [Pool -> [Slot -> Contents]] /\ UNCHANGED <<bridge, tables, sqs>> /\ rr_idx' \in [Service -> Nat]
  BY SidecarIs DEF RouteResponse, shmVars, Shapes
<1>4. arm' = [arm EXCEPT !.pc = "put", !.desc.dst = v, !.desc.case = "local"]
  BY <1>2 DEF RouteResponse
<1>5. ArmShape(arm')
  BY <1>1, <1>4, RoutedShape
<1> QED  BY <1>3, <1>5, ArmLocal

LEMMA ArmPutShapes ==
  ASSUME Shapes, ArmPut, SidecarOnly
  PROVE  Shapes'
<1>1. /\ arm.pc = "put" /\ arm.desc \in DpuDesc /\ arm.desc.dst \in Worker /\ arm.desc.case = "local"
      /\ arm.desc # Nil /\ arm.desc.header \in Ref
  BY ArmIs, DataAssumption DEF ArmPut, ArmShape, DpuDesc
<1>2. mem' \in [Pool -> [Slot -> Contents]] /\ rr_idx' \in [Service -> Nat] /\ UNCHANGED <<bridge, tables>>
  BY SidecarIs DEF ArmPut, Shapes
<1>3. CASE Room(sidecar_rx_sq)
  <2>1. sidecar_rx_sq' = Append(sidecar_rx_sq, arm.desc) /\ arm' = IdleArm
    BY <1>3 DEF ArmPut
  <2>2. arm.desc \in RoutedDesc
    BY <1>1, SidecarDescs DEF RoutedDesc
  <2>3. sidecar_rx_sq' \in Seq(RoutedDesc) /\ Len(sidecar_rx_sq') <= MaxDescriptors
    BY <1>3, <2>1, <2>2, SidecarDescs, Push, ShmAssumption DEF Room
  <2>4. QueueShapes'
    BY <2>3 DEF ArmPut, Shapes, QueueShapes, RoutedDesc, DpuDesc, Ingress
  <2>5. SidecarShapes'
    BY <1>2, <2>1, IdleArmIs, ArmMoved
  <2> QED  BY <1>2, <2>4, <2>5, OtherSteps, AllShapes
<1>4. CASE ~Room(sidecar_rx_sq)
  <2>1. arm' = [arm EXCEPT !.pc = "cleanup"] /\ UNCHANGED sqs
    BY <1>4 DEF ArmPut, sqs
  <2>2. ArmShape(arm')
    BY <1>1, <2>1, ArmIs DEF ArmShape
  <2> QED  BY <1>2, <2>1, <2>2, ArmLocal
<1> QED  BY <1>3, <1>4

LEMMA CleanupShapes ==
  ASSUME Shapes, Cleanup, SidecarOnly
  PROVE  Shapes'
<1> DEFINE d == arm.desc
           e == [d EXCEPT !.body = Nil]
<1>1. arm.pc = "cleanup" /\ d \in Descriptor /\ d # Nil /\ d.header \in Ref /\ d.body \in OptRef
  BY ArmIs DEF Cleanup, ArmShape, OptDesc, Descriptor
<1>2. mem' \in [Pool -> [Slot -> Contents]]
  BY <1>1, FreeKept DEF Cleanup, OptRef
<1>3. rr_idx' \in [Service -> Nat] /\ UNCHANGED <<bridge, tables, sqs>>
  BY SidecarIs DEF Cleanup
<1>4. ArmShape(arm')
  <2>1. CASE arm' = IdleArm
    BY <2>1, IdleArmIs
  <2>2. CASE arm' = [arm EXCEPT !.desc.body = Nil]
    <3>1. arm' = [pc |-> "cleanup", desc |-> e, resp |-> arm.resp] /\ arm.resp \in Reply \cup {Nil}
      BY <1>1, <2>2, ArmIs
    <3>2. e \in Descriptor /\ e.header = d.header /\ e.body = Nil /\ e # Nil
      BY <1>1, DataAssumption DEF Descriptor, OptRef
    <3> HIDE DEF e, d
    <3> QED  BY <1>1, <3>1, <3>2 DEF ArmShape, OptDesc
  <2> QED  BY <2>1, <2>2 DEF Cleanup
<1> QED  BY <1>2, <1>3, <1>4, ArmLocal

LEMMA DeliverBodyShapes ==
  ASSUME Shapes, NEW own, OwnInv(own), DeliverBody, SidecarOnly
  PROVE  Shapes'
<1> DEFINE d == arm.desc
           h == ReadSlot(d.header)
           e == [d EXCEPT !.body = Nil]
           resp == [rid |-> h.rid, status |-> h.status, body |-> ReadSlot(d.body)]
<1>1. d \in DpuDesc /\ d.op = "resp"
  BY ArmIs DEF DeliverBody, ArmShape
<1>2. d \in Descriptor /\ d.header \in Ref /\ d.body \in Ref
  BY <1>1 DEF DpuDesc
<1>3. resp \in Reply
  <2>1. h \in Header /\ ReadSlot(d.body) \in Body
    BY <1>1, ArmReads
  <2> HIDE DEF h
  <2> QED  BY <2>1 DEF Header, Reply
<1>4. mem' \in [Pool -> [Slot -> Contents]]
  BY <1>2, FreeKept DEF DeliverBody
<1>5. arm' = [pc |-> "free_header", desc |-> e, resp |-> resp]
  BY ArmIs DEF DeliverBody
<1>6. e \in Descriptor /\ e.header = d.header /\ e.body = Nil /\ e # Nil
  BY <1>2, DataAssumption DEF Descriptor, OptRef
<1>7. ArmShape(arm')
  <2> HIDE DEF e, d, resp
  <2> QED  BY <1>2, <1>3, <1>5, <1>6 DEF ArmShape, OptDesc
<1>8. rr_idx' \in [Service -> Nat] /\ UNCHANGED <<bridge, tables, sqs>>
  BY SidecarIs DEF DeliverBody
<1> QED  BY <1>4, <1>7, <1>8, ArmLocal

LEMMA DeliverHeaderShapes ==
  ASSUME Shapes, DeliverHeader, SidecarOnly
  PROVE  Shapes'
<1>1. arm.pc = "free_header" /\ arm.desc.header \in Ref /\ arm.resp \in Reply
  BY ArmIs DEF DeliverHeader, ArmShape
<1>2. mem' \in [Pool -> [Slot -> Contents]]
  BY <1>1, FreeKept DEF DeliverHeader
<1>3. arm' = [pc |-> "wake", desc |-> Nil, resp |-> arm.resp]
  BY ArmIs DEF DeliverHeader
<1>4. ArmShape(arm')
  BY <1>1, <1>3 DEF ArmShape, OptDesc
<1>5. rr_idx' \in [Service -> Nat] /\ UNCHANGED <<bridge, tables, sqs>>
  BY SidecarIs DEF DeliverHeader
<1> QED  BY <1>2, <1>4, <1>5, ArmLocal

LEMMA DeliverEventShapes ==
  ASSUME Shapes, DeliverEvent, SidecarOnly
  PROVE  Shapes'
<1> DEFINE c == Addressee(arm.resp)
           a == [status |-> arm.resp.status, body |-> arm.resp.body]
<1>1. a \in Answers
  BY ArmIs DEF DeliverEvent, ArmShape, Reply, Answers
<1>2. /\ bridge_events' \in [Client -> {"absent", "waiting", "set"}]
      /\ bridge_responses' \in [Client -> Answers \cup {Nil, None}]
      /\ \A b \in Client : bridge_events'[b] = "set" => bridge_responses'[b] \in Answers
  <2>1. CASE UNCHANGED tables
    BY <2>1, SidecarIs DEF tables
  <2>2. CASE /\ bridge_events' = [bridge_events EXCEPT ![c] = "set"]
             /\ bridge_responses' = [bridge_responses EXCEPT ![c] = a]
    <3> HIDE DEF c, a
    <3> QED  BY <1>1, <2>2, SidecarIs
  <2> QED  BY <2>1, <2>2 DEF DeliverEvent
<1>3. /\ (bridge_events \in [Client -> {"absent", "waiting", "set"}])'
      /\ (bridge_responses \in [Client -> Answers \cup {Nil, None}])'
  BY <1>2 DEF Answers, None
<1>4. ArmShape(arm)' /\ (rr_idx \in [Service -> Nat])' /\ DOMAIN bridge' = Client
  BY IdleArmIs, SidecarIs DEF DeliverEvent, ArmShape, OptDesc, Reply, DpuDesc, IdleArm, Service
<1>5. ASSUME NEW b \in Client
      PROVE  BridgeShape(b, bridge[b])'
  BY SidecarIs DEF DeliverEvent
<1>6. SidecarShapes'
  BY <1>2, <1>3, <1>4, <1>5 DEF SidecarShapes
<1>7. mem' \in [Pool -> [Slot -> Contents]] /\ QueueShapes'
  BY QueuesKept DEF Shapes, DeliverEvent, shmVars
<1> QED  BY <1>6, <1>7, OtherSteps, AllShapes
-----------------------------------------------------------------------------
(* One bridge thread has moved, with its entries in the tables.            *)
LEMMA BridgeMoved ==
  ASSUME Shapes, SidecarOnly, NEW c \in Client, DOMAIN bridge' = Client, BridgeShape(c, bridge'[c]),
         \A b \in Client : b # c => bridge'[b] = bridge[b],
         arm' = arm, rr_idx' \in [Service -> Nat],
         NEW e \in {"absent", "waiting", "set"}, bridge_events' = [bridge_events EXCEPT ![c] = e],
         NEW a \in Answers \cup {Nil, None}, bridge_responses' = [bridge_responses EXCEPT ![c] = a],
         e = "set" => a \in Answers,
         mem' \in [Pool -> [Slot -> Contents]], QueueShapes'
  PROVE  Shapes'
<1>1. ArmShape(arm)' /\ (rr_idx \in [Service -> Nat])' /\ DOMAIN bridge' = Client
  BY SidecarIs, ArmIs DEF ArmShape, OptDesc, Reply, DpuDesc, Service
<1>2. /\ (bridge_events \in [Client -> {"absent", "waiting", "set"}])'
      /\ (bridge_responses \in [Client -> Answers \cup {Nil, None}])'
  BY SidecarIs DEF Answers, None
<1>3. ASSUME NEW d \in Client
      PROVE  BridgeShape(d, bridge'[d]) /\ (bridge_events'[d] = "set" => bridge_responses'[d] \in Answers)
  BY SidecarIs
<1>4. ASSUME NEW d \in Client
      PROVE  (BridgeShape(d, bridge[d]) /\ (bridge_events[d] = "set" => bridge_responses[d] \in Answers))'
  BY <1>3 DEF Answers
<1>5. SidecarShapes'
  BY <1>1, <1>2, <1>4 DEF SidecarShapes
<1> QED  BY <1>5, OtherSteps, AllShapes

LEMMA BridgeLocal ==
  ASSUME Shapes, SidecarOnly, NEW c \in Client, DOMAIN bridge' = Client, BridgeShape(c, bridge'[c]),
         \A b \in Client : b # c => bridge'[b] = bridge[b],
         UNCHANGED <<arm, rr_idx, tables>>, mem' \in [Pool -> [Slot -> Contents]], QueueShapes'
  PROVE  Shapes'
<1>1. /\ bridge_events[c] \in {"absent", "waiting", "set"} /\ bridge_responses[c] \in Answers \cup {Nil, None}
      /\ bridge_events[c] = "set" => bridge_responses[c] \in Answers
  BY SidecarIs
<1>2. /\ bridge_events' = [bridge_events EXCEPT ![c] = bridge_events[c]]
      /\ bridge_responses' = [bridge_responses EXCEPT ![c] = bridge_responses[c]]
      /\ arm' = arm /\ rr_idx' \in [Service -> Nat]
  BY SidecarIs DEF tables
<1> QED  BY <1>1, <1>2, BridgeMoved

BridgeLocals == [pc : {"new", "alloc", "put", "toobig", "full", "wait", "expired", "done"},
                 dst : Worker \cup {Nil}, body : OptRef, answer : Answers \cup {Nil}]

LEMMA Answering ==
  ASSUME Shapes, NEW c \in Client, NEW status \in Nat, NEW body \in Body, Answer(c, status, body)
  PROVE  /\ DOMAIN bridge' = Client /\ BridgeShape(c, bridge'[c])
         /\ \A b \in Client : b # c => bridge'[b] = bridge[b]
<1> DEFINE a == [status |-> status, body |-> body]
<1>1. a \in Answers
  BY DEF Answers
<1>2. bridge' = [bridge EXCEPT ![c].pc = "done", ![c].body = Nil, ![c].answer = a]
  BY DEF Answer
<1> HIDE DEF a
<1>3. DOMAIN bridge' = Client /\ \A b \in Client : b # c => bridge'[b] = bridge[b]
  BY <1>2, BridgeIs
<1>4. bridge'[c] = [pc |-> "done", dst |-> bridge[c].dst, body |-> Nil, answer |-> a]
  BY <1>2, BridgeIs
<1>5. BridgeShape(c, bridge'[c])
  BY <1>1, <1>4, BridgeIs DEF BridgeShape, OptRef
<1> QED  BY <1>3, <1>5

LEMMA NoBodyIs == NoBody \in Body
BY DEF NoBody, Body

LEMMA BridgeRegisterShapes ==
  ASSUME Shapes, NEW c \in Client, BridgeRegister(c), SidecarOnly
  PROVE  Shapes'
<1>1. mem' \in [Pool -> [Slot -> Contents]] /\ QueueShapes' /\ arm' = arm
  BY QueuesKept DEF Shapes, BridgeRegister, shmVars
<1>2. /\ bridge_events' = [bridge_events EXCEPT ![c] = "waiting"]
      /\ bridge_responses' = [bridge_responses EXCEPT ![c] = None]
  BY SidecarIs DEF BridgeRegister
<1>3. /\ DOMAIN bridge' = Client /\ BridgeShape(c, bridge'[c]) /\ rr_idx' \in [Service -> Nat]
      /\ \A b \in Client : b # c => bridge'[b] = bridge[b]
  <2>1. CASE WorkersOf(Target(c)) = {}
    <3>1. Answer(c, 503, NoBody) /\ rr_idx' = rr_idx
      BY <2>1 DEF BridgeRegister
    <3> QED  BY <3>1, Answering, NoBodyIs, SidecarIs
  <2>2. CASE WorkersOf(Target(c)) # {}
    <3>1. WorkersOf(Nil) = {}
      BY ShmAssumption DEF WorkersOf
    <3>2. Target(c) = "frontend" /\ Asks[c] # "nosvc" /\ "frontend" \in Service
      BY <2>2, <3>1 DEF Target, Service
    <3>3. Selected("frontend") \in Worker /\ rr_idx' \in [Service -> Nat]
      BY <2>2, <3>2, SelectedIs DEF BridgeRegister
    <3>4. bridge' = [bridge EXCEPT ![c].pc = "alloc", ![c].dst = Selected("frontend")]
      BY <2>2, <3>2 DEF BridgeRegister
    <3>5. DOMAIN bridge' = Client /\ \A b \in Client : b # c => bridge'[b] = bridge[b]
      BY <3>4, BridgeIs
    <3>6. bridge[c].pc = "new" /\ bridge[c].body = Nil /\ bridge[c].answer \in Answers \cup {Nil}
      BY BridgeIs DEF BridgeRegister, BridgeShape
    <3>7. bridge'[c] = [pc |-> "alloc", dst |-> Selected("frontend"), body |-> Nil, answer |-> bridge[c].answer]
      BY <3>4, <3>6, BridgeIs
    <3>8. BridgeShape(c, bridge'[c])
      BY <3>2, <3>3, <3>6, <3>7 DEF BridgeShape, OptRef
    <3> QED  BY <3>3, <3>5, <3>8
  <2> QED  BY <2>1, <2>2
<1> QED  BY <1>1, <1>2, <1>3, BridgeMoved

(* A bridge thread moves on with the slot r, or without one.               *)
Goes(c, pc, r) == bridge' = [bridge EXCEPT ![c].pc = pc, ![c].body = r]

LEMMA BridgePc ==
  ASSUME Shapes, NEW c \in Client, NEW pc, NEW r, Goes(c, pc, r),
         \/ pc \in {"put", "toobig", "full"} /\ r \in Ref /\ r.pool = DpuRxBody
         \/ pc \in {"wait", "expired"} /\ r = Nil,
         pc = "put" => bridge[c].dst \in Worker
  PROVE  /\ DOMAIN bridge' = Client /\ BridgeShape(c, bridge'[c])
         /\ \A b \in Client : b # c => bridge'[b] = bridge[b]
<1>1. DOMAIN bridge' = Client /\ \A b \in Client : b # c => bridge'[b] = bridge[b]
  BY BridgeIs DEF Goes
<1>2. bridge'[c] = [pc |-> pc, dst |-> bridge[c].dst, body |-> r, answer |-> bridge[c].answer]
  BY BridgeIs DEF Goes
<1>3. bridge[c].dst \in Worker \cup {Nil} /\ bridge[c].answer \in Answers \cup {Nil}
  BY BridgeIs
<1>4. BridgeShape(c, bridge'[c])
  <2>1. bridge'[c].pc = pc /\ bridge'[c].dst = bridge[c].dst /\ bridge'[c].body = r
    BY <1>2
  <2>2. bridge'[c] \in BridgeLocals
    BY <1>2, <1>3 DEF BridgeLocals, OptRef
  <2> QED  BY <2>1, <2>2 DEF BridgeShape, BridgeLocals
<1> QED  BY <1>1, <1>4

LEMMA BridgeAllocShapes ==
  ASSUME Shapes, NEW c \in Client, BridgeAlloc(c), SidecarOnly
  PROVE  Shapes'
<1> DEFINE message == [ask |-> Asks[c], svc |-> "frontend", name |-> c, status |-> 0,
                       rid |-> c, src |-> Nil, dst |-> bridge[c].dst]
<1>1. QueueShapes' /\ UNCHANGED <<arm, rr_idx, tables>>
  BY QueuesKept DEF BridgeAlloc
<1>2. bridge[c].pc = "alloc" /\ bridge[c].dst \in Worker /\ Asks[c] # "nosvc"
  BY BridgeIs DEF BridgeAlloc, BridgeShape
<1>3. /\ DOMAIN bridge' = Client /\ BridgeShape(c, bridge'[c]) /\ mem' \in [Pool -> [Slot -> Contents]]
      /\ \A b \in Client : b # c => bridge'[b] = bridge[b]
  <2>1. CASE Full(DpuRxBody)
    <3>1. Answer(c, 503, NoBody) /\ mem' = mem
      BY <2>1 DEF BridgeAlloc
    <3> QED  BY <3>1, Answering, NoBodyIs DEF Shapes
  <2>2. CASE ~Full(DpuRxBody)
    <3>1. DpuRxBody \in Pool
      BY DEF Pool
    <3>2. NewRef(DpuRxBody) \in Ref /\ NewRef(DpuRxBody).pool = DpuRxBody
      BY <2>2, <3>1, NewRefIs
    <3>3. CASE Asks[c] # "big"
      <4>1. /\ AllocWrite(DpuRxBody, message)
            /\ bridge' = [bridge EXCEPT ![c].pc = "put", ![c].body = NewRef(DpuRxBody)]
        BY <2>2, <3>3 DEF BridgeAlloc
      <4>2. message \in Contents
        <5>1. Asks[c] \in {"lookup", "noname", "badpath"}
          BY <1>2, <3>3, SidecarAssumption
        <5> QED  BY <1>2, <5>1 DEF Contents, Header, Service
      <4>3. mem' \in [Pool -> [Slot -> Contents]]
        <5> HIDE DEF message
        <5> QED  BY <3>1, <4>1, <4>2, AllocKept
      <4>4. Goes(c, "put", NewRef(DpuRxBody))
        BY <4>1 DEF Goes
      <4> QED  BY <1>2, <3>2, <4>3, <4>4, BridgePc
    <3>4. CASE Asks[c] = "big"
      <4>1. /\ AllocWrite(DpuRxBody, NoBody)
            /\ bridge' = [bridge EXCEPT ![c].pc = "toobig", ![c].body = NewRef(DpuRxBody)]
        BY <2>2, <3>4 DEF BridgeAlloc
      <4>2. NoBody \in Contents
        BY NoBodyIs DEF Contents
      <4>3. mem' \in [Pool -> [Slot -> Contents]]
        BY <3>1, <4>1, <4>2, AllocKept
      <4>4. Goes(c, "toobig", NewRef(DpuRxBody))
        BY <4>1 DEF Goes
      <4> QED  BY <3>2, <4>3, <4>4, BridgePc
    <3> QED  BY <3>3, <3>4
  <2> QED  BY <2>1, <2>2
<1> QED  BY <1>1, <1>3, BridgeLocal

LEMMA BridgePutShapes ==
  ASSUME Shapes, NEW c \in Client, BridgePut(c), SidecarOnly
  PROVE  Shapes'
<1> DEFINE d == [op |-> "req", case |-> "ingress", req_id |-> 0, dst |-> bridge[c].dst,
                 header |-> Nil, body |-> bridge[c].body]
<1>1. /\ bridge[c].pc = "put" /\ bridge[c].dst \in Worker /\ bridge[c].body \in Ref
      /\ bridge[c].body.pool = DpuRxBody
  BY BridgeIs DEF BridgePut, BridgeShape
<1>2. mem' \in [Pool -> [Slot -> Contents]] /\ UNCHANGED <<arm, rr_idx, tables>>
  BY DEF BridgePut, Shapes
<1>3. CASE Room(sidecar_rx_sq)
  <2>1. sidecar_rx_sq' = Append(sidecar_rx_sq, d) /\ bridge' = [bridge EXCEPT ![c].pc = "wait", ![c].body = Nil]
    BY <1>3 DEF BridgePut
  <2>2. d \in RoutedDesc
    <3>1. d \in Descriptor
      BY <1>1 DEF Descriptor, OptRef
    <3> QED  BY <1>1, <3>1 DEF RoutedDesc, Ingress
  <2>3. sidecar_rx_sq' \in Seq(RoutedDesc) /\ Len(sidecar_rx_sq') <= MaxDescriptors
    <3> HIDE DEF d
    <3> QED  BY <1>3, <2>1, <2>2, SidecarDescs, Push, ShmAssumption DEF Room
  <2>4. QueueShapes'
    BY <2>3 DEF BridgePut, Shapes, QueueShapes, RoutedDesc, DpuDesc, Ingress
  <2>5. Goes(c, "wait", Nil)
    BY <2>1 DEF Goes
  <2> QED  BY <1>2, <2>4, <2>5, BridgePc, BridgeLocal
<1>4. CASE ~Room(sidecar_rx_sq)
  <2>1. bridge' = [bridge EXCEPT ![c].pc = "full"] /\ UNCHANGED sqs
    BY <1>4 DEF BridgePut, sqs
  <2>2. Goes(c, "full", bridge[c].body)
    BY <2>1, BridgeIs DEF Goes
  <2> QED  BY <1>1, <1>2, <2>1, <2>2, BridgePc, BridgeLocal, QueuesKept
<1> QED  BY <1>3, <1>4

LEMMA BridgeUndoShapes ==
  ASSUME Shapes, NEW c \in Client, BridgeUndo(c), SidecarOnly
  PROVE  Shapes'
<1>1. bridge[c].body \in Ref
  BY BridgeIs DEF BridgeUndo, BridgeShape
<1>2. mem' \in [Pool -> [Slot -> Contents]] /\ QueueShapes' /\ UNCHANGED <<arm, rr_idx, tables>>
  BY <1>1, FreeKept, QueuesKept DEF BridgeUndo
<1>3. PICK status \in Nat : Answer(c, status, NoBody)
  BY DEF BridgeUndo
<1> QED  BY <1>2, <1>3, Answering, NoBodyIs, BridgeLocal

LEMMA BridgeAnswerShapes ==
  ASSUME Shapes, NEW c \in Client, BridgeAnswer(c) \/ BridgeExpire(c), SidecarOnly
  PROVE  Shapes'
<1>1. PICK status \in Nat, body \in Body : Answer(c, status, body)
  <2>1. CASE BridgeAnswer(c)
    <3>1. bridge_responses[c] \in Answers
      BY <2>1, SidecarIs DEF BridgeAnswer
    <3> QED  BY <2>1, <3>1 DEF BridgeAnswer, Answers
  <2>2. CASE BridgeExpire(c)
    BY <2>2, NoBodyIs DEF BridgeExpire
  <2> QED  BY <2>1, <2>2
<1>2. /\ bridge_events' = [bridge_events EXCEPT ![c] = "absent"]
      /\ bridge_responses' = [bridge_responses EXCEPT ![c] = Nil]
      /\ arm' = arm /\ rr_idx' \in [Service -> Nat]
  BY SidecarIs DEF BridgeAnswer, BridgeExpire, Forget
<1>3. mem' \in [Pool -> [Slot -> Contents]] /\ QueueShapes'
  BY QueuesKept DEF BridgeAnswer, BridgeExpire, shmVars, Shapes
<1> QED  BY <1>1, <1>2, <1>3, Answering, BridgeMoved

LEMMA BridgeTimeoutShapes ==
  ASSUME Shapes, NEW c \in Client, BridgeTimeout(c), SidecarOnly
  PROVE  Shapes'
<1>1. bridge[c].body = Nil
  BY BridgeIs DEF BridgeTimeout, BridgeShape
<1>2. Goes(c, "expired", Nil)
  BY <1>1, BridgeIs DEF BridgeTimeout, Goes
<1>3. mem' \in [Pool -> [Slot -> Contents]] /\ QueueShapes' /\ UNCHANGED <<arm, rr_idx, tables>>
  BY QueuesKept DEF BridgeTimeout, shmVars, Shapes
<1> QED  BY <1>2, <1>3, BridgePc, BridgeLocal
-----------------------------------------------------------------------------
(* A step keeps the shapes, the first state has them.                      *)
LEMMA ShapesKept ==
  ASSUME Shapes, NEW own, OwnInv(own), [Next]_vars
  PROVE  Shapes'
<1>1. CASE HostStep /\ HostOnly
  <2>1. PICK w \in Worker : Poller(w) \/ Main(w)
    BY <1>1 DEF HostStep
  <2>2. CASE Poller(w)
    BY <1>1, <2>2, PollerGetShapes, PollerNotifyShapes, PollerDeliverShapes, PollerForgetsShapes DEF Poller
  <2>3. CASE Main(w)
    BY <1>1, <2>3, OnRequestShapes, OnResponseShapes, UpstreamShapes, FreeRxShapes, WriteShapes,
       WriteFailedShapes, EnqueueShapes, UndoShapes DEF Main
  <2> QED  BY <2>1, <2>2, <2>3
<1>2. CASE DpaStep /\ DpaOnly
  <2>1. CASE \E w \in Worker : TxGet(w)
    BY <1>2, <2>1, TxGetShapes
  <2>2. CASE DpaTxStep
    BY <1>2, <2>2, TxLocalShapes, TxRequeueShapes, TxPutShapes DEF DpaTxStep
  <2>3. CASE DpaRxStep
    BY <1>2, <2>3, RxGetShapes, RxCopyBodyShapes, RxRequeueShapes, RxFreeBodyShapes, RxCopyHeaderShapes,
       RxFreeHeaderShapes, RxPutShapes, RxDropShapes DEF DpaRxStep
  <2> QED  BY <1>2, <2>1, <2>2, <2>3 DEF DpaStep
<1>3. CASE SidecarStep /\ SidecarOnly
  <2>1. CASE Arm
    BY <1>3, <2>1, ArmGetShapes, RouteRequestShapes, RouteResponseShapes, ArmPutShapes, CleanupShapes,
       DeliverBodyShapes, DeliverHeaderShapes, DeliverEventShapes DEF Arm
  <2>2. CASE \E c \in Client : BridgeStep(c) \/ BridgeTimeout(c)
    BY <1>3, <2>2, BridgeRegisterShapes, BridgeAllocShapes, BridgePutShapes, BridgeUndoShapes,
       BridgeAnswerShapes, BridgeTimeoutShapes DEF BridgeStep
  <2> QED  BY <1>3, <2>1, <2>2 DEF SidecarStep
<1>4. CASE UNCHANGED vars
  <2>1. UNCHANGED <<hostVars, sqs, sidecarVars>> /\ mem' = mem /\ dpaTx' = dpaTx /\ dpaRx' = dpaRx
    BY <1>4 DEF vars, shmVars, dpaVars
  <2> QED  BY <2>1, HostKept, QueuesKept, SidecarKept, AllShapes DEF Shapes
<1> QED  BY <1>1, <1>2, <1>3, <1>4 DEF Next, Rest

LEMMA InitShapes ==
  ASSUME Init
  PROVE  Shapes
<1>1. mem \in [Pool -> [Slot -> Contents]]
  BY DEF Init, ShmInit, Contents
<1>2. \A D : << >> \in Seq(D) /\ Len(<< >>) = 0
  OBVIOUS
<1>3. QueueShapes
  BY <1>2, ShmAssumption DEF Init, ShmInit, QueueShapes
<1>4. HostShapes
  <2>1. /\ next_req_id \in [Worker -> Nat \ {0}]
        /\ response_pipe \in [Worker -> [TableIndex -> Nat]]
        /\ inbound \in [Worker -> [TableIndex -> Inbound]]
    BY DEF Init, HostInit, Inbound
  <2>2. ASSUME NEW w \in Worker
        PROVE  HostAt(w)
    <3>1. MainShape(w, main[w]) /\ PollerShape(w, poller[w])
      <4>1. MainShape(w, IdleMain)
        <5>1. IdleMain \in MainState
          BY IdleMainIs DEF OptRef
        <5> QED  BY <5>1 DEF MainShape, IdleMain, WritePc
      <4> QED  BY <4>1, IdlePollerIs DEF Init, HostInit
    <3> QED  BY <1>2, <3>1, HostAssumption DEF HostAt, Init, HostInit
  <2> QED  BY <2>1, <2>2 DEF HostShapes, HostAt, Init, HostInit
<1>5. DpaTxShape(dpaTx) /\ DpaRxShape(dpaRx)
  BY IdleRxIs DEF Init, DpaInit, IdleTx, DpaTxShape, OptDesc, OptRef
<1>6. SidecarShapes
  BY IdleArmIs DEF Init, SidecarInit, SidecarShapes, BridgeShape, OptRef
<1> QED  BY <1>1, <1>3, <1>4, <1>5, <1>6 DEF Shapes

LEMMA InitOwners ==
  ASSUME Init
  PROVE  \E own : OwnInv(own)
<1> DEFINE own == [r \in Ref |-> Nobody]
<1>1. \A r \in Ref : own[r] = Nobody
  OBVIOUS
<1> HIDE DEF own
<1>2. Owners(own) /\ Memory(own, mem)
  BY <1>1 DEF Owners, Memory, Nobody
<1>3. DpaOwns(own, Part) /\ SidecarOwns(own, Part)
  BY DEF Init, ShmInit, DpaInit, SidecarInit, IdleTx, IdleRx, IdleArm, DpaOwns, SidecarOwns, Holds, Carries,
         HasHeader, HasBody, HasAny
<1>4. ASSUME NEW w \in Worker
      PROVE  WorkerOwns(own, Part, w)
  <2>1. /\ main[w].rx_header = Nil /\ main[w].rx_body = Nil /\ main[w].tx_header = Nil /\ main[w].tx_body = Nil
        /\ poller[w].desc = Nil
    BY DEF Init, HostInit, IdleMain, IdlePoller
  <2>2. tx_sq[w] = << >> /\ rx_sq[w] = << >> /\ notify[w] = << >> /\ delivered[w] = {}
    BY DEF Init, ShmInit, HostInit
  <2>3. \A part : Holds(own, part, << >>) /\ Pipes(own, part, {})
    BY DEF Holds, Pipes
  <2> QED  BY <2>1, <2>2, <2>3 DEF WorkerOwns, Carries, HasHeader, HasBody, HasAny
<1> QED  BY <1>2, <1>3, <1>4 DEF OwnInv, Agrees

LEMMA InitInvariant == Init => IInv
BY InitShapes, InitOwners DEF IInv

LEMMA StepInvariant == IInv /\ [Next]_vars => IInv'
<1> SUFFICES ASSUME IInv, [Next]_vars
             PROVE  IInv'
  OBVIOUS
<1>1. Shapes /\ \E own : OwnInv(own)
  BY DEF IInv
<1>2. PICK own : OwnInv(own)
  BY <1>1
<1>3. Shapes' /\ \E x : OwnInv(x)'
  BY <1>1, <1>2, ShapesKept, OwnersKept
<1> QED  BY <1>3 DEF IInv

LEMMA Invariance == Spec => []IInv
BY InitInvariant, StepInvariant, PTL DEF Spec

(* The shapes are more than the types.                                     *)
LEMMA ShapesAreTypes == Shapes => TypeOK
<1> SUFFICES ASSUME Shapes
             PROVE  TypeOK
  OBVIOUS
<1>1. \A p \in Pool, s \in Slot : mem[p][s] \in Contents
  BY DEF Shapes
<1>2. ASSUME NEW w \in Worker
      PROVE  /\ Len(tx_sq[w]) <= MaxDescriptors
             /\ Len(rx_sq[w]) <= MaxDescriptors
             /\ Len(notify[w]) <= PipeCap
             /\ \A i \in DOMAIN tx_sq[w] : tx_sq[w][i] \in Descriptor
             /\ \A i \in DOMAIN rx_sq[w] : rx_sq[w][i] \in Descriptor
             /\ \A i \in DOMAIN notify[w] : notify[w][i] \in Descriptor
             /\ next_req_id[w] \in Nat \ {0}
             /\ \A i \in TableIndex : response_pipe[w][i] \in Nat /\ inbound[w][i] \in Inbound
             /\ \A r \in delivered[w] : r.pipe \in Nat \ {0} /\ r.desc \in Descriptor
             /\ \A u \in waiting[w] : u.idx \in TableIndex /\ u.ctx \in Context
             /\ main[w] \in MainState
             /\ poller[w].desc \in OptDesc /\ poller[w].idx \in TableIndex
  <2>1. /\ \A i \in DOMAIN tx_sq[w] : tx_sq[w][i] \in Descriptor
        /\ \A i \in DOMAIN rx_sq[w] : rx_sq[w][i] \in Descriptor
    BY QueuedDescs
  <2>2. \A i \in DOMAIN notify[w] : notify[w][i] \in Descriptor
    <3>1. notify[w] \in Seq({d \in ReceivedDesc(w) : d.op = "req"})
      BY HostAtIs DEF HostAt
    <3>2. \A i \in DOMAIN notify[w] : notify[w][i] \in {d \in ReceivedDesc(w) : d.op = "req"}
      BY <3>1
    <3> QED  BY <3>2, QueuedDescs
  <2>3. \A r \in delivered[w] : r.pipe \in Nat \ {0} /\ r.desc \in Descriptor
    BY HostAtIs, QueuedDescs DEF HostAt, Delivered
  <2>4. \A u \in waiting[w] : u.idx \in TableIndex /\ u.ctx \in Context
    BY HostAtIs DEF HostAt, Waiting
  <2>5. main[w] \in MainState /\ poller[w].desc \in OptDesc /\ poller[w].idx \in TableIndex
    BY HostAtIs DEF HostAt, MainShape, PollerShape
  <2> QED  BY <2>1, <2>2, <2>3, <2>4, <2>5, QueueLens, HostAtIs
<1>3. /\ Len(sidecar_tx_sq) <= MaxDescriptors
      /\ Len(sidecar_rx_sq) <= MaxDescriptors
      /\ \A i \in DOMAIN sidecar_tx_sq : sidecar_tx_sq[i] \in Descriptor
      /\ \A i \in DOMAIN sidecar_rx_sq : sidecar_rx_sq[i] \in Descriptor
  BY SidecarDescs DEF Shapes, QueueShapes
<1>4. /\ dpaTx.desc \in OptDesc /\ dpaTx.header \in OptRef /\ dpaTx.src \in Worker \cup {Nil}
      /\ dpaRx.desc \in OptDesc /\ dpaRx.body \in OptRef /\ dpaRx.header \in OptRef
      /\ arm.desc \in OptDesc
  BY TxIs, RxIs, ArmIs
<1>5. /\ \A s \in Service : rr_idx[s] \in Nat
      /\ \A c \in Client :
           /\ bridge[c].body \in OptRef /\ bridge[c].dst \in Worker \cup {Nil}
           /\ bridge[c].answer \in Answers \cup {Nil}
           /\ bridge_events[c] \in {"absent", "waiting", "set"}
           /\ bridge_responses[c] \in Answers \cup {Nil, None}
  BY SidecarIs, BridgeIs
<1> QED  BY <1>1, <1>2, <1>3, <1>4, <1>5 DEF TypeOK

(* Memory, queues, pipes, tables and the locals of all threads of the mesh *)
(* keep their types, and no queue or pipe overflows.                       *)
THEOREM MeshTypes == Spec => []TypeOK
<1>1. IInv => TypeOK
  BY ShapesAreTypes DEF IInv
<1> QED  BY <1>1, Invariance, PTL
-----------------------------------------------------------------------------
(* ExclusiveBuffers: the references that one owner has are buffers it owns *)
(* and are all different.                                                  *)
Sole(own, part, H) ==
  /\ \A h \in H : h[2] # Nil =>
       h[2] \in Ref /\ own[h[2]].part = part /\ own[h[2]].use \in {"header", "message", "body"}
  /\ \A g, h \in H : g[2] # Nil /\ g[2] = h[2] => g = h

LEMMA OwnsIs ==
  ASSUME NEW own, NEW part, NEW r
  PROVE  /\ HasHeader(own, part, r) /\ r # Nil => r \in Ref /\ own[r].part = part /\ own[r].use = "header"
         /\ HasAny(own, part, r) /\ r # Nil =>
              r \in Ref /\ own[r].part = part /\ own[r].use \in {"message", "body"}
<1>1. ASSUME NEW use, Owns(own, part, use, r)
      PROVE  r \in Ref /\ own[r].part = part /\ own[r].use = use
  <2>1. r \in Ref /\ own[r] = [part |-> part, use |-> use]
    BY <1>1 DEF Owns
  <2> QED  BY <2>1
<1> QED  BY <1>1 DEF HasHeader, HasAny

LEMMA BodyIsAny ==
  ASSUME NEW own, NEW part, NEW use \in {"message", "body"}, NEW r, HasBody(own, part, use, r)
  PROVE  HasAny(own, part, r)
BY DEF HasBody, HasAny

LEMMA PairIsSole ==
  ASSUME NEW own, NEW x, NEW y, NEW i, NEW header, NEW body,
         HasHeader(own, <<x, y>>, header), HasAny(own, <<x, y>>, body)
  PROVE  Sole(own, <<x, y>>, InPair(x, y, i, header, body))
<1> DEFINE part == <<x, y>>
           g == <<<<x, y, i, "header">>, header>>
           h == <<<<x, y, i, "body">>, body>>
<1>1. InPair(x, y, i, header, body) = {g, h} /\ g[2] = header /\ h[2] = body
  BY DEF InPair
<1>2. /\ header # Nil => header \in Ref /\ own[header].part = part /\ own[header].use = "header"
      /\ body # Nil => body \in Ref /\ own[body].part = part /\ own[body].use \in {"message", "body"}
  BY OwnsIs
<1>3. header # Nil => header # body
  BY <1>2
<1> HIDE DEF g, h, part
<1>4. Sole(own, part, {g, h})
  BY <1>1, <1>2, <1>3 DEF Sole
<1> QED  BY <1>1, <1>4 DEF part

LEMMA DescIsSole ==
  ASSUME NEW own, NEW x, NEW y, NEW i, NEW d, Carries(own, <<x, y>>, d)
  PROVE  Sole(own, <<x, y>>, InDesc(x, y, i, d))
<1>1. CASE d = Nil
  BY <1>1 DEF InDesc, Sole
<1>2. CASE d # Nil
  <2>1. HasHeader(own, <<x, y>>, d.header) /\ HasBody(own, <<x, y>>, BodyAs(d), d.body)
    BY <1>2 DEF Carries
  <2>2. BodyAs(d) \in {"message", "body"}
    BY DEF BodyAs
  <2>3. HasAny(own, <<x, y>>, d.body)
    BY <2>1, <2>2, BodyIsAny
  <2> QED  BY <1>2, <2>1, <2>3, PairIsSole DEF InDesc
<1> QED  BY <1>1, <1>2

(* Descriptors with different buffers, of one owner.                       *)
LEMMA ApartAreSole ==
  ASSUME NEW own, NEW x, NEW y, NEW i, NEW j, NEW d, NEW e, Carries(own, <<x, y>>, d), Carries(own, <<x, y>>, e),
         Apart(d, e), NEW g \in InDesc(x, y, i, d), NEW h \in InDesc(x, y, j, e), g[2] # Nil
  PROVE  g[2] # h[2]
<1> DEFINE part == <<x, y>>
<1>1. d # Nil /\ e # Nil
  BY DEF InDesc
<1>2. g[2] = d.header \/ g[2] = d.body
  BY <1>1 DEF InDesc, InPair
<1>3. h[2] = e.header \/ h[2] = e.body
  BY <1>1 DEF InDesc, InPair
<1>4. /\ HasHeader(own, part, d.header) /\ HasBody(own, part, BodyAs(d), d.body)
      /\ HasHeader(own, part, e.header) /\ HasBody(own, part, BodyAs(e), e.body)
      /\ BodyAs(d) \in {"message", "body"} /\ BodyAs(e) \in {"message", "body"}
  BY <1>1 DEF Carries, BodyAs
<1> HIDE DEF part
<1>5. HasAny(own, part, d.body) /\ HasAny(own, part, e.body)
  BY <1>4, BodyIsAny
<1>6. /\ d.header # Nil => own[d.header].use = "header"
      /\ e.header # Nil => own[e.header].use = "header"
      /\ d.body # Nil => own[d.body].use \in {"message", "body"}
      /\ e.body # Nil => own[e.body].use \in {"message", "body"}
  BY <1>4, <1>5, OwnsIs
<1> QED  BY <1>2, <1>3, <1>6 DEF Apart

LEMMA QueueIsSole ==
  ASSUME NEW own, NEW x, NEW y, NEW q, Holds(own, <<x, y>>, q)
  PROVE  Sole(own, <<x, y>>, InQueue(x, y, q))
<1> DEFINE part == <<x, y>>
<1>1. \A i \in DOMAIN q : Carries(own, part, q[i]) /\ Sole(own, part, InDesc(x, y, i, q[i]))
  BY DescIsSole DEF Holds
<1>2. ASSUME NEW g \in InQueue(x, y, q), NEW h \in InQueue(x, y, q), g[2] # Nil, g[2] = h[2]
      PROVE  g = h
  <2>1. PICK i \in DOMAIN q : g \in InDesc(x, y, i, q[i])
    BY DEF InQueue
  <2>2. PICK j \in DOMAIN q : h \in InDesc(x, y, j, q[j])
    BY DEF InQueue
  <2>3. CASE i = j
    BY <1>1, <1>2, <2>1, <2>2, <2>3 DEF Sole
  <2>4. CASE i # j
    <3>1. Apart(q[i], q[j])
      BY <2>4 DEF Holds
    <3> QED  BY <1>1, <1>2, <2>1, <2>2, <3>1, ApartAreSole
  <2> QED  BY <2>3, <2>4
<1>3. ASSUME NEW h \in InQueue(x, y, q), h[2] # Nil
      PROVE  h[2] \in Ref /\ own[h[2]].part = part /\ own[h[2]].use \in {"header", "message", "body"}
  <2>1. PICK i \in DOMAIN q : h \in InDesc(x, y, i, q[i])
    BY DEF InQueue
  <2> QED  BY <1>1, <1>3, <2>1 DEF Sole
<1> HIDE DEF part
<1>4. Sole(own, part, InQueue(x, y, q))
  BY <1>2, <1>3 DEF Sole
<1> QED  BY <1>4 DEF part

LEMMA PipesAreSole ==
  ASSUME NEW own, NEW x, NEW y, NEW D, Pipes(own, <<x, y>>, D)
  PROVE  Sole(own, <<x, y>>, UNION {InDesc(x, y, r.pipe, r.desc) : r \in D})
<1> DEFINE part == <<x, y>>
           H == UNION {InDesc(x, y, r.pipe, r.desc) : r \in D}
<1>1. \A r \in D : Carries(own, part, r.desc) /\ Sole(own, part, InDesc(x, y, r.pipe, r.desc))
  BY DescIsSole DEF Pipes
<1>2. ASSUME NEW g \in H, NEW h \in H, g[2] # Nil, g[2] = h[2]
      PROVE  g = h
  <2>1. PICK r \in D : g \in InDesc(x, y, r.pipe, r.desc)
    OBVIOUS
  <2>2. PICK s \in D : h \in InDesc(x, y, s.pipe, s.desc)
    OBVIOUS
  <2>3. CASE r = s
    BY <1>1, <1>2, <2>1, <2>2, <2>3 DEF Sole
  <2>4. CASE r # s
    <3>1. Apart(r.desc, s.desc)
      BY <2>4 DEF Pipes
    <3> QED  BY <1>1, <1>2, <2>1, <2>2, <3>1, ApartAreSole
  <2> QED  BY <2>3, <2>4
<1>3. ASSUME NEW h \in H, h[2] # Nil
      PROVE  h[2] \in Ref /\ own[h[2]].part = part /\ own[h[2]].use \in {"header", "message", "body"}
  <2>1. PICK r \in D : h \in InDesc(x, y, r.pipe, r.desc)
    OBVIOUS
  <2> QED  BY <1>1, <1>3, <2>1 DEF Sole
<1>4. Sole(own, part, H)
  <2> HIDE DEF part, H
  <2> QED  BY <1>2, <1>3 DEF Sole
<1> QED  BY <1>4

(* What the owner <<x, y>> refers to.                                      *)
HeldBy(x, y) ==
  CASE x = "main rx" -> InPair(x, y, 0, main[y].rx_header, main[y].rx_body)
    [] x = "main tx" -> InPair(x, y, 0, main[y].tx_header, main[y].tx_body)
    [] x = "poller" -> InDesc(x, y, 0, poller[y].desc)
    [] x = "tx_sq" -> InQueue(x, y, tx_sq[y])
    [] x = "rx_sq" -> InQueue(x, y, rx_sq[y])
    [] x = "notify" -> InQueue(x, y, notify[y])
    [] x = "pipe" -> UNION {InDesc(x, y, r.pipe, r.desc) : r \in delivered[y]}
    [] x = "dpaTx copy" -> InPair(x, y, 0, dpaTx.header, Nil)
    [] x = "dpaRx copy" -> InPair(x, y, 0, dpaRx.header, dpaRx.body)
    [] x = "dpaTx" -> InDesc(x, y, 0, dpaTx.desc)
    [] x = "dpaRx" -> InDesc(x, y, 0, dpaRx.desc)
    [] x = "arm" -> InDesc(x, y, 0, arm.desc)
    [] x = "sidecar_tx_sq" -> InQueue(x, y, sidecar_tx_sq)
    [] x = "sidecar_rx_sq" -> InQueue(x, y, sidecar_rx_sq)
    [] x = "bridge" -> InPair(x, y, 0, Nil, bridge[y].body)

LEMMA HeldByWorkerIs ==
  ASSUME NEW y
  PROVE  /\ HeldBy("main rx", y) = InPair("main rx", y, 0, main[y].rx_header, main[y].rx_body)
         /\ HeldBy("main tx", y) = InPair("main tx", y, 0, main[y].tx_header, main[y].tx_body)
         /\ HeldBy("poller", y) = InDesc("poller", y, 0, poller[y].desc)
         /\ HeldBy("tx_sq", y) = InQueue("tx_sq", y, tx_sq[y])
         /\ HeldBy("rx_sq", y) = InQueue("rx_sq", y, rx_sq[y])
         /\ HeldBy("notify", y) = InQueue("notify", y, notify[y])
         /\ HeldBy("pipe", y) = UNION {InDesc("pipe", y, r.pipe, r.desc) : r \in delivered[y]}
BY DEF HeldBy

LEMMA HeldByOthersIs ==
  ASSUME NEW y
  PROVE  /\ HeldBy("dpaTx copy", y) = InPair("dpaTx copy", y, 0, dpaTx.header, Nil)
         /\ HeldBy("dpaRx copy", y) = InPair("dpaRx copy", y, 0, dpaRx.header, dpaRx.body)
         /\ HeldBy("dpaTx", y) = InDesc("dpaTx", y, 0, dpaTx.desc)
         /\ HeldBy("dpaRx", y) = InDesc("dpaRx", y, 0, dpaRx.desc)
         /\ HeldBy("arm", y) = InDesc("arm", y, 0, arm.desc)
         /\ HeldBy("sidecar_tx_sq", y) = InQueue("sidecar_tx_sq", y, sidecar_tx_sq)
         /\ HeldBy("sidecar_rx_sq", y) = InQueue("sidecar_rx_sq", y, sidecar_rx_sq)
         /\ HeldBy("bridge", y) = InPair("bridge", y, 0, Nil, bridge[y].body)
BY DEF HeldBy

LEMMA HeldIs ==
  ASSUME NEW own, OwnInv(own), NEW h \in Held
  PROVE  h[2] # Nil /\ \E x, y : h \in HeldBy(x, y) /\ Sole(own, <<x, y>>, HeldBy(x, y))
<1>1. h[2] # Nil
  BY DEF Held
<1>2. CASE h \in HeldByDaemons
  <2>1. CASE \E c \in Client : h \in InPair("bridge", c, 0, Nil, bridge[c].body)
    <3>1. PICK c \in Client : h \in InPair("bridge", c, 0, Nil, bridge[c].body)
      BY <2>1
    <3>2. HasAny(own, <<"bridge", c>>, bridge[c].body) /\ HasHeader(own, <<"bridge", c>>, Nil)
      BY OfSidecar DEF HasHeader
    <3>3. Sole(own, <<"bridge", c>>, HeldBy("bridge", c))
      BY <3>2, PairIsSole, HeldByOthersIs, ZenonT(30)
    <3> QED  BY <1>1, <3>1, <3>3, HeldByOthersIs
  <2>2. CASE \E x \in {"dpaTx copy", "dpaRx copy"} : h \in HeldBy(x, Nil)
    <3>1. /\ HasHeader(own, <<"dpaTx copy", Nil>>, dpaTx.header) /\ HasAny(own, <<"dpaTx copy", Nil>>, Nil)
          /\ HasHeader(own, <<"dpaRx copy", Nil>>, dpaRx.header) /\ HasAny(own, <<"dpaRx copy", Nil>>, dpaRx.body)
      BY OfDpa DEF HasAny
    <3>2. Sole(own, <<"dpaTx copy", Nil>>, HeldBy("dpaTx copy", Nil))
      <4>1. Sole(own, <<"dpaTx copy", Nil>>, InPair("dpaTx copy", Nil, 0, dpaTx.header, Nil))
        BY <3>1, PairIsSole
      <4> QED  BY <4>1, HeldByOthersIs
    <3>3. Sole(own, <<"dpaRx copy", Nil>>, HeldBy("dpaRx copy", Nil))
      <4>1. Sole(own, <<"dpaRx copy", Nil>>, InPair("dpaRx copy", Nil, 0, dpaRx.header, dpaRx.body))
        BY <3>1, PairIsSole
      <4> QED  BY <4>1, HeldByOthersIs
    <3> QED  BY <1>1, <2>2, <3>2, <3>3
  <2>3. CASE \E x \in {"dpaTx", "dpaRx", "arm"} : h \in HeldBy(x, Nil)
    <3>0. /\ Carries(own, <<"dpaTx", Nil>>, dpaTx.desc) /\ Carries(own, <<"dpaRx", Nil>>, dpaRx.desc)
          /\ Carries(own, <<"arm", Nil>>, arm.desc)
      BY OfDpa, OfSidecar
    <3>1. /\ Sole(own, <<"dpaTx", Nil>>, InDesc("dpaTx", Nil, 0, dpaTx.desc))
          /\ Sole(own, <<"dpaRx", Nil>>, InDesc("dpaRx", Nil, 0, dpaRx.desc))
          /\ Sole(own, <<"arm", Nil>>, InDesc("arm", Nil, 0, arm.desc))
      BY <3>0, DescIsSole
    <3> QED  BY <1>1, <2>3, <3>1, HeldByOthersIs
  <2>4. CASE \E x \in {"sidecar_tx_sq", "sidecar_rx_sq"} : h \in HeldBy(x, Nil)
    <3>1. /\ Sole(own, <<"sidecar_tx_sq", Nil>>, HeldBy("sidecar_tx_sq", Nil))
          /\ Sole(own, <<"sidecar_rx_sq", Nil>>, HeldBy("sidecar_rx_sq", Nil))
      BY OfSidecar, QueueIsSole, HeldByOthersIs, ZenonT(30)
    <3> QED  BY <1>1, <2>4, <3>1
  <2> QED  BY <1>2, <2>1, <2>2, <2>3, <2>4, HeldByOthersIs DEF HeldByDaemons
<1>3. CASE \E w \in Worker : h \in HeldByWorker(w)
  <2>1. PICK w \in Worker : h \in HeldByWorker(w)
    BY <1>3
  <2>2. \E x \in {"main rx", "main tx", "poller", "tx_sq", "rx_sq", "notify", "pipe"} : h \in HeldBy(x, w)
    BY <2>1, HeldByWorkerIs DEF HeldByWorker
  <2>3. Sole(own, <<"main rx", w>>, HeldBy("main rx", w))
    <3>1. HasHeader(own, <<"main rx", w>>, main[w].rx_header) /\ HasAny(own, <<"main rx", w>>, main[w].rx_body)
      BY OfWorker
    <3>2. Sole(own, <<"main rx", w>>, InPair("main rx", w, 0, main[w].rx_header, main[w].rx_body))
      BY <3>1, PairIsSole
    <3> QED  BY <3>2, HeldByWorkerIs
  <2>4. Sole(own, <<"main tx", w>>, HeldBy("main tx", w))
    <3>1. HasHeader(own, <<"main tx", w>>, main[w].tx_header) /\ HasBody(own, <<"main tx", w>>, "body", main[w].tx_body)
      BY OfWorker
    <3>2. HasAny(own, <<"main tx", w>>, main[w].tx_body)
      BY <3>1, BodyIsAny
    <3>3. Sole(own, <<"main tx", w>>, InPair("main tx", w, 0, main[w].tx_header, main[w].tx_body))
      BY <3>1, <3>2, PairIsSole
    <3> QED  BY <3>3, HeldByWorkerIs
  <2>5. Sole(own, <<"poller", w>>, HeldBy("poller", w))
    <3>1. Carries(own, <<"poller", w>>, poller[w].desc)
      BY OfWorker
    <3>2. Sole(own, <<"poller", w>>, InDesc("poller", w, 0, poller[w].desc))
      BY <3>1, DescIsSole
    <3> QED  BY <3>2, HeldByWorkerIs
  <2>6. /\ Sole(own, <<"tx_sq", w>>, HeldBy("tx_sq", w)) /\ Sole(own, <<"rx_sq", w>>, HeldBy("rx_sq", w))
        /\ Sole(own, <<"notify", w>>, HeldBy("notify", w))
    <3>1. /\ Holds(own, <<"tx_sq", w>>, tx_sq[w]) /\ Holds(own, <<"rx_sq", w>>, rx_sq[w])
          /\ Holds(own, <<"notify", w>>, notify[w])
      BY OfWorker
    <3>2. /\ Sole(own, <<"tx_sq", w>>, InQueue("tx_sq", w, tx_sq[w]))
          /\ Sole(own, <<"rx_sq", w>>, InQueue("rx_sq", w, rx_sq[w]))
          /\ Sole(own, <<"notify", w>>, InQueue("notify", w, notify[w]))
      BY <3>1, QueueIsSole
    <3> QED  BY <3>2, HeldByWorkerIs
  <2>7. Sole(own, <<"pipe", w>>, HeldBy("pipe", w))
    <3>1. Pipes(own, <<"pipe", w>>, delivered[w])
      BY OfWorker
    <3>2. Sole(own, <<"pipe", w>>, UNION {InDesc("pipe", w, r.pipe, r.desc) : r \in delivered[w]})
      BY <3>1, PipesAreSole
    <3> QED  BY <3>2, HeldByWorkerIs
  <2> QED  BY <1>1, <2>2, <2>3, <2>4, <2>5, <2>6, <2>7
<1> QED  BY <1>2, <1>3 DEF Held

LEMMA OwnersAreExclusive ==
  ASSUME NEW own, OwnInv(own)
  PROVE  ExclusiveBuffers
<1>1. ASSUME NEW h \in Held
      PROVE  ReadSlot(h[2]) # Free
  <2>1. h[2] \in Ref /\ own[h[2]].use \in {"header", "message", "body"}
    BY HeldIs DEF Sole
  <2> DEFINE r == h[2]
  <2>2. mem[r.pool][r.slot] \in Header \cup Body
    <3> HIDE DEF r
    <3>1. r \in Ref /\ own[r].use \in {"header", "message", "body"}
      BY <2>1 DEF r
    <3> QED  BY <3>1 DEF OwnInv, Memory
  <2> QED  BY <2>2, DataAssumption DEF ReadSlot
<1>2. ASSUME NEW g \in Held, NEW h \in Held, g[2] = h[2]
      PROVE  g = h
  <2>1. PICK x, y : g \in HeldBy(x, y) /\ Sole(own, <<x, y>>, HeldBy(x, y))
    BY HeldIs
  <2>2. PICK v, z : h \in HeldBy(v, z) /\ Sole(own, <<v, z>>, HeldBy(v, z))
    BY HeldIs
  <2>3. g[2] # Nil /\ h[2] # Nil
    BY HeldIs
  <2>4. own[g[2]].part = <<x, y>> /\ own[h[2]].part = <<v, z>>
    BY <2>1, <2>2, <2>3 DEF Sole
  <2>5. x = v /\ y = z
    BY <1>2, <2>4
  <2> QED  BY <1>2, <2>1, <2>2, <2>3, <2>5 DEF Sole
<1> QED  BY <1>1, <1>2 DEF ExclusiveBuffers

(* On whichever of the success and error paths of workers, daemons and     *)
(* bridge: a buffer that somebody refers to is allocated, and nobody else  *)
(* refers to it, so none is freed twice or used after it was freed.        *)
THEOREM BuffersAreExclusive == Spec => []ExclusiveBuffers
<1>1. IInv => ExclusiveBuffers
  BY OwnersAreExclusive DEF IInv
<1> QED  BY <1>1, Invariance, PTL
-----------------------------------------------------------------------------
(* QueuesNeverFull: more than m different things are not in m places.      *)
LEMMA Crowd ==
  ASSUME NEW n \in Nat, NEW m \in Nat, NEW k \in [1..(n + 1) -> 0..(m - 1)],
         \A i, j \in 1..(n + 1) : k[i] = k[j] => i = j
  PROVE  n < m
<1>1. k \in Injection(1..(n + 1), 0..(m - 1))
  BY DEF Injection, IsInjective
<1>2. IsFiniteSet(0..(m - 1)) /\ Cardinality(0..(m - 1)) = IF 0 > m - 1 THEN 0 ELSE (m - 1) - 0 + 1
  <2>1. 0 \in Int /\ m - 1 \in Int
    OBVIOUS
  <2> QED  BY <2>1, FS_Interval
<1>3. IsFiniteSet(1..(n + 1)) /\ Cardinality(1..(n + 1)) = IF 1 > n + 1 THEN 0 ELSE (n + 1) - 1 + 1
  <2>1. 1 \in Int /\ n + 1 \in Int
    OBVIOUS
  <2> QED  BY <2>1, FS_Interval
<1>4. Cardinality(1..(n + 1)) <= Cardinality(0..(m - 1))
  BY <1>1, <1>2, FS_Injection
<1> QED  BY <1>2, <1>3, <1>4

(* n different buffers of one pool, and one more.                          *)
LEMMA OnePool ==
  ASSUME NEW n \in Nat, NEW f, NEW r \in Ref,
         \A i \in 1..n : f[i] \in Ref /\ f[i].pool = r.pool /\ f[i] # r,
         \A i, j \in 1..n : i # j => f[i] # f[j]
  PROVE  n < NumSlots
<1> DEFINE g == [i \in 1..(n + 1) |-> IF i = n + 1 THEN r ELSE f[i]]
           k == [i \in 1..(n + 1) |-> g[i].slot]
<1>1. \A i \in 1..(n + 1) : g[i] \in Ref /\ g[i].pool = r.pool
  OBVIOUS
<1>2. \A i, j \in 1..(n + 1) : i # j => g[i] # g[j]
  OBVIOUS
<1> HIDE DEF g
<1>3. \A i \in 1..(n + 1) : k[i] = g[i].slot /\ k[i] \in 0..(NumSlots - 1)
  BY <1>1 DEF Ref, Slot
<1>4. \A i, j \in 1..(n + 1) : k[i] = k[j] => i = j
  <2>1. \A x, y \in Ref : x.pool = y.pool /\ x.slot = y.slot => x = y
    BY DEF Ref
  <2> QED  BY <1>1, <1>2, <1>3, <2>1
<1>5. k \in [1..(n + 1) -> 0..(NumSlots - 1)]
  BY <1>3
<1> HIDE DEF k
<1> QED  BY <1>4, <1>5, Crowd, ShmAssumption

LEMMA DpuPools == DpuTxHeader # DpuRxBody
BY DEF DpuTxHeader, DpuRxBody

(* The same with the two pools of the DPU.                                 *)
LEMMA TwoPools ==
  ASSUME NEW n \in Nat, NEW f, NEW r \in Ref, r.pool \in {DpuTxHeader, DpuRxBody},
         \A i \in 1..n : f[i] \in Ref /\ f[i].pool \in {DpuTxHeader, DpuRxBody} /\ f[i] # r,
         \A i, j \in 1..n : i # j => f[i] # f[j]
  PROVE  n < 2 * NumSlots
<1> DEFINE g == [i \in 1..(n + 1) |-> IF i = n + 1 THEN r ELSE f[i]]
           k == [i \in 1..(n + 1) |-> g[i].slot + (IF g[i].pool = DpuTxHeader THEN 0 ELSE NumSlots)]
<1>1. \A i \in 1..(n + 1) : g[i] \in Ref /\ g[i].pool \in {DpuTxHeader, DpuRxBody}
  OBVIOUS
<1>2. \A i, j \in 1..(n + 1) : i # j => g[i] # g[j]
  OBVIOUS
<1> HIDE DEF g
<1>3. \A i \in 1..(n + 1) : /\ g[i].slot \in 0..(NumSlots - 1)
                            /\ g[i].pool = DpuTxHeader => k[i] = g[i].slot
                            /\ g[i].pool # DpuTxHeader => k[i] = g[i].slot + NumSlots
  <2>1. \A i \in 1..(n + 1) : g[i].slot \in 0..(NumSlots - 1)
    BY <1>1 DEF Ref, Slot
  <2> QED  BY <2>1, ShmAssumption
<1> HIDE DEF k
<1>4. \A i, j \in 1..(n + 1) : k[i] = k[j] => i = j
  <2>1. \A x, y \in Ref : x.pool = y.pool /\ x.slot = y.slot => x = y
    BY DEF Ref
  <2>2. ASSUME NEW i \in 1..(n + 1), NEW j \in 1..(n + 1), k[i] = k[j]
        PROVE  g[i].slot = g[j].slot /\ g[i].pool = g[j].pool
    BY <1>1, <1>3, <2>2, DpuPools, ShmAssumption
  <2> QED  BY <1>1, <1>2, <2>1, <2>2
<1>5. k \in [1..(n + 1) -> 0..(2 * NumSlots - 1)]
  <2>1. \A i \in 1..(n + 1) : k[i] \in 0..(2 * NumSlots - 1)
    BY <1>1, <1>3, ShmAssumption
  <2> QED  BY <2>1 DEF k
<1>6. 2 * NumSlots \in Nat
  BY ShmAssumption
<1> QED  BY <1>4, <1>5, <1>6, Crowd

(* A queue of one owner and a body, or a header, of another: they are of   *)
(* one pool.                                                               *)
LEMMA BodyBesideQueue ==
  ASSUME NEW own, NEW part, NEW from, from # part, NEW D, D \subseteq Descriptor, NEW q \in Seq(D),
         Holds(own, part, q), NEW use, NEW r, Owns(own, from, use, r),
         \A d \in D : d.body \in Ref /\ d.body.pool = r.pool
  PROVE  Len(q) < NumSlots
<1> DEFINE n == Len(q)
           f == [i \in 1..n |-> q[i].body]
<1>1. n \in Nat /\ DOMAIN q = 1..n /\ \A i \in 1..n : q[i] \in D
  OBVIOUS
<1>2. r \in Ref /\ \A i \in 1..n : f[i] = q[i].body /\ f[i] \in Ref /\ f[i].pool = r.pool
  BY <1>1 DEF Owns
<1>3. \A i \in 1..n : f[i] # r
  <2>1. ASSUME NEW i \in 1..n
        PROVE  q[i].body # r
    <3>1. Carries(own, part, q[i]) /\ q[i] # Nil /\ q[i].body # Nil
      BY <1>1, DataAssumption DEF Holds
    <3>2. Owns(own, part, BodyAs(q[i]), q[i].body)
      BY <3>1 DEF Carries, HasBody
    <3> QED  BY <3>2, Distinct
  <2> QED  BY <1>2, <2>1
<1>4. \A i, j \in 1..n : i # j => f[i] # f[j]
  BY <1>1, <1>2 DEF Holds, Apart
<1> HIDE DEF f, n
<1>5. n < NumSlots
  BY <1>1, <1>2, <1>3, <1>4, OnePool
<1> QED  BY <1>5 DEF n

LEMMA HeaderBesideQueue ==
  ASSUME NEW own, NEW part, NEW from, from # part, NEW D, D \subseteq Descriptor, NEW q \in Seq(D),
         Holds(own, part, q), NEW use, NEW r, Owns(own, from, use, r),
         \A d \in D : d.header \in Ref /\ d.header.pool = r.pool
  PROVE  Len(q) < NumSlots
<1> DEFINE n == Len(q)
           f == [i \in 1..n |-> q[i].header]
<1>1. n \in Nat /\ DOMAIN q = 1..n /\ \A i \in 1..n : q[i] \in D
  OBVIOUS
<1>2. r \in Ref /\ \A i \in 1..n : f[i] = q[i].header /\ f[i] \in Ref /\ f[i].pool = r.pool
  BY <1>1 DEF Owns
<1>3. \A i \in 1..n : f[i] # r
  <2>1. ASSUME NEW i \in 1..n
        PROVE  q[i].header # r
    <3>1. Carries(own, part, q[i]) /\ q[i] # Nil /\ q[i].header # Nil
      BY <1>1, DataAssumption DEF Holds
    <3>2. Owns(own, part, "header", q[i].header)
      BY <3>1 DEF Carries, HasHeader
    <3> QED  BY <3>2, Distinct
  <2> QED  BY <1>2, <2>1
<1>4. \A i, j \in 1..n : i # j => f[i] # f[j]
  BY <1>1, <1>2, DataAssumption DEF Holds, Apart
<1> HIDE DEF f, n
<1>5. n < NumSlots
  BY <1>1, <1>2, <1>3, <1>4, OnePool
<1> QED  BY <1>5 DEF n

(* What a routed descriptor holds on the DPU.                              *)
Key(d) == IF Ingress(d) THEN d.body ELSE d.header

LEMMA KeyIs ==
  ASSUME NEW d \in RoutedDesc
  PROVE  /\ Key(d) \in Ref /\ Key(d).pool \in {DpuTxHeader, DpuRxBody}
         /\ \/ Ingress(d) /\ Key(d) = d.body /\ Key(d).pool = DpuRxBody
            \/ ~Ingress(d) /\ Key(d) = d.header /\ Key(d).pool = DpuTxHeader
BY DEF RoutedDesc, DpuDesc, Key, Ingress

LEMMA KeyOwned ==
  ASSUME NEW own, NEW part, NEW d \in RoutedDesc, Carries(own, part, d)
  PROVE  \E use : Owns(own, part, use, Key(d))
<1>1. d # Nil /\ Key(d) # Nil
  BY KeyIs, RoutedIs, DataAssumption
<1> QED  BY <1>1, KeyIs DEF Carries, HasHeader, HasBody

LEMMA KeyBesideQueue ==
  ASSUME Shapes, NEW own, OwnInv(own), NEW from, from # <<"sidecar_rx_sq", Nil>>, NEW use, NEW r,
         Owns(own, from, use, r), r.pool \in {DpuTxHeader, DpuRxBody}
  PROVE  Len(sidecar_rx_sq) < 2 * NumSlots
<1> DEFINE part == <<"sidecar_rx_sq", Nil>>
           q == sidecar_rx_sq
           n == Len(q)
           f == [i \in 1..n |-> Key(q[i])]
<1>1. n \in Nat /\ DOMAIN q = 1..n /\ \A i \in 1..n : q[i] \in RoutedDesc
  BY SidecarDescs
<1>2. Holds(own, part, q)
  BY OfSidecar
<1>3. r \in Ref /\ \A i \in 1..n : f[i] = Key(q[i]) /\ f[i] \in Ref /\ f[i].pool \in {DpuTxHeader, DpuRxBody}
  BY <1>1, KeyIs DEF Owns
<1>4. \A i \in 1..n : f[i] # r
  <2>1. ASSUME NEW i \in 1..n
        PROVE  Key(q[i]) # r
    <3>1. PICK u : Owns(own, part, u, Key(q[i]))
      BY <1>1, <1>2, KeyOwned DEF Holds
    <3> QED  BY <3>1, Distinct
  <2> QED  BY <1>3, <2>1
<1>5. \A i, j \in 1..n : i # j => f[i] # f[j]
  <2>1. ASSUME NEW i \in 1..n, NEW j \in 1..n, i # j
        PROVE  Key(q[i]) # Key(q[j])
    <3> DEFINE d == q[i]
               e == q[j]
    <3>1. Apart(d, e) /\ d \in RoutedDesc /\ e \in RoutedDesc
      BY <1>1, <1>2, <2>1 DEF Holds
    <3> HIDE DEF d, e
    <3>2. Key(d) # Key(e)
      BY <3>1, KeyIs, DpuPools, DataAssumption DEF Apart
    <3> QED  BY <3>2 DEF d, e
  <2> QED  BY <1>3, <2>1
<1> HIDE DEF f, n, q
<1>6. n < 2 * NumSlots
  BY <1>1, <1>3, <1>4, <1>5, TwoPools
<1> QED  BY <1>6 DEF n, q

LEMMA QueuesHaveRoom ==
  ASSUME MaxDescriptors >= 2 * NumSlots, PipeCap >= NumSlots, Shapes, NEW own, OwnInv(own)
  PROVE  QueuesNeverFull
<1>0. /\ NumSlots \in Nat \ {0} /\ MaxDescriptors \in Nat /\ PipeCap \in Nat
      /\ \A n \in Nat : /\ n < NumSlots => n < MaxDescriptors /\ n < PipeCap
                        /\ n < 2 * NumSlots => n < MaxDescriptors
  BY ShmAssumption, HostAssumption
<1>1. ASSUME NEW w \in Worker, main[w].pc = "put"
      PROVE  Room(tx_sq[w])
  <2> DEFINE r == main[w].tx_body
  <2>1. r \in Ref /\ r # Nil /\ r.pool = HostPool(w, "tx_body")
    BY <1>1, MainIs, DataAssumption DEF MainShape, MainState, OptRef
  <2>2. Owns(own, <<"main tx", w>>, "body", r) /\ Holds(own, <<"tx_sq", w>>, tx_sq[w])
    BY <2>1, OfWorker DEF HasBody
  <2>3. \A d \in SentDesc(w) : d.body \in Ref /\ d.body.pool = r.pool
    BY <2>1 DEF SentDesc
  <2>4. tx_sq[w] \in Seq(SentDesc(w)) /\ SentDesc(w) \subseteq Descriptor
    BY QueuedDescs
  <2> HIDE DEF r
  <2>5. Len(tx_sq[w]) < NumSlots
    BY <2>2, <2>3, <2>4, BodyBesideQueue
  <2> QED  BY <1>0, <2>5, QueueLens DEF Room
<1>2. ASSUME NEW w \in Worker, poller[w].pc = "dispatch", poller[w].desc.op = "req"
      PROVE  Len(notify[w]) < PipeCap
  <2> DEFINE D == {d \in ReceivedDesc(w) : d.op = "req"}
             d == poller[w].desc
             r == d.body
  <2>1. d \in ReceivedDesc(w) /\ notify[w] \in Seq(D)
    BY <1>2, HostAtIs DEF HostAt, PollerShape
  <2>2. d # Nil /\ r # Nil /\ r.pool = HostPool(w, "rx_body")
    BY <2>1, DataAssumption DEF ReceivedDesc
  <2>3. Owns(own, <<"poller", w>>, BodyAs(d), r) /\ Holds(own, <<"notify", w>>, notify[w])
    BY <2>2, OfWorker DEF Carries, HasBody
  <2>4. \A e \in D : e.body \in Ref /\ e.body.pool = r.pool
    BY <2>2 DEF ReceivedDesc
  <2>5. D \subseteq Descriptor
    BY DEF ReceivedDesc
  <2> HIDE DEF r, D, d
  <2>6. Len(notify[w]) < NumSlots
    BY <2>1, <2>3, <2>4, <2>5, BodyBesideQueue
  <2> QED  BY <1>0, <2>6, QueueLens
<1>3. ASSUME dpaTx.pc = "requeue"
      PROVE  Room(tx_sq[dpaTx.src])
  <2>1. PICK w \in Worker : w = dpaTx.src /\ dpaTx.desc \in SentDesc(w)
    BY <1>3, TxIs DEF DpaTxShape
  <2> DEFINE r == dpaTx.desc.body
  <2>2. dpaTx.desc # Nil /\ r # Nil /\ r.pool = HostPool(w, "tx_body")
    BY <2>1, DataAssumption DEF SentDesc
  <2>3. Owns(own, <<"dpaTx", Nil>>, BodyAs(dpaTx.desc), r)
    BY <2>2, OfDpa DEF Carries, HasBody
  <2>4. Holds(own, <<"tx_sq", w>>, tx_sq[w])
    BY OfWorker
  <2>5. \A d \in SentDesc(w) : d.body \in Ref /\ d.body.pool = r.pool
    BY <2>2 DEF SentDesc
  <2>6. tx_sq[w] \in Seq(SentDesc(w)) /\ SentDesc(w) \subseteq Descriptor
    BY QueuedDescs
  <2> HIDE DEF r
  <2>7. Len(tx_sq[w]) < NumSlots
    BY <2>3, <2>4, <2>5, <2>6, BodyBesideQueue
  <2> QED  BY <1>0, <2>1, <2>7, QueueLens DEF Room
<1>4. ASSUME dpaTx.pc = "put"
      PROVE  Room(sidecar_tx_sq)
  <2> DEFINE r == dpaTx.desc.header
  <2>1. dpaTx.desc # Nil /\ r # Nil /\ r.pool = DpuTxHeader
    BY <1>4, TxIs, DataAssumption DEF DpaTxShape, DpuDesc
  <2>2. Owns(own, <<"dpaTx", Nil>>, "header", r)
    BY <2>1, OfDpa DEF Carries, HasHeader
  <2>3. Holds(own, <<"sidecar_tx_sq", Nil>>, sidecar_tx_sq)
    BY OfSidecar
  <2>4. \A d \in DpuDesc : d.header \in Ref /\ d.header.pool = r.pool
    BY <2>1 DEF DpuDesc
  <2>5. sidecar_tx_sq \in Seq(DpuDesc) /\ DpuDesc \subseteq Descriptor
    BY SidecarDescs
  <2> HIDE DEF r
  <2>6. Len(sidecar_tx_sq) < NumSlots
    BY <2>2, <2>3, <2>4, <2>5, HeaderBesideQueue
  <2>7. Len(sidecar_tx_sq) \in Nat
    BY <2>5
  <2> QED  BY <1>0, <2>6, <2>7 DEF Room
<1>5. ASSUME dpaRx.pc = "put"
      PROVE  Room(rx_sq[dpaRx.desc.dst])
  <2> DEFINE r == dpaRx.body
  <2>1. PICK w \in Worker : w = dpaRx.desc.dst
    BY <1>5, RxIs DEF DpaRxShape
  <2>2. r \in Ref /\ r # Nil /\ r.pool = HostPool(w, "rx_body")
    BY <1>5, <2>1, RxIs, DataAssumption DEF DpaRxShape
  <2>3. PICK use : Owns(own, <<"dpaRx copy", Nil>>, use, r)
    BY <2>2, OfDpa DEF HasAny
  <2>4. Holds(own, <<"rx_sq", w>>, rx_sq[w])
    BY OfWorker
  <2>5. \A d \in ReceivedDesc(w) : d.body \in Ref /\ d.body.pool = r.pool
    BY <2>2 DEF ReceivedDesc
  <2>6. rx_sq[w] \in Seq(ReceivedDesc(w)) /\ ReceivedDesc(w) \subseteq Descriptor
    BY QueuedDescs
  <2> HIDE DEF r
  <2>7. Len(rx_sq[w]) < NumSlots
    BY <2>3, <2>4, <2>5, <2>6, BodyBesideQueue
  <2> QED  BY <1>0, <2>1, <2>7, QueueLens DEF Room
<1>6. ASSUME Len(sidecar_rx_sq) < 2 * NumSlots
      PROVE  Room(sidecar_rx_sq)
  <2>1. Len(sidecar_rx_sq) \in Nat
    BY SidecarDescs
  <2> QED  BY <1>0, <1>6, <2>1 DEF Room
<1>7. ASSUME dpaRx.pc = "requeue"
      PROVE  Room(sidecar_rx_sq)
  <2>1. dpaRx.desc \in RoutedDesc
    BY <1>7, RxIs DEF DpaRxShape
  <2>2. PICK use : Owns(own, <<"dpaRx", Nil>>, use, Key(dpaRx.desc))
    BY <2>1, OfDpa, KeyOwned
  <2>3. Key(dpaRx.desc).pool \in {DpuTxHeader, DpuRxBody}
    BY <2>1, KeyIs
  <2> QED  BY <1>6, <2>2, <2>3, KeyBesideQueue
<1>8. ASSUME arm.pc = "put"
      PROVE  Room(sidecar_rx_sq)
  <2>1. arm.desc # Nil /\ arm.desc.header # Nil /\ arm.desc.header.pool = DpuTxHeader
    BY <1>8, ArmIs, DataAssumption DEF ArmShape, DpuDesc
  <2>2. Owns(own, <<"arm", Nil>>, "header", arm.desc.header)
    BY <2>1, OfSidecar DEF Carries, HasHeader
  <2> QED  BY <1>6, <2>1, <2>2, KeyBesideQueue
<1>9. ASSUME NEW c \in Client, bridge[c].pc = "put"
      PROVE  Room(sidecar_rx_sq)
  <2>1. bridge[c].body # Nil /\ bridge[c].body.pool = DpuRxBody
    BY <1>9, BridgeIs, DataAssumption DEF BridgeShape
  <2>2. Owns(own, <<"bridge", c>>, "message", bridge[c].body)
    BY <1>9, <2>1, OfSidecar DEF HasBody
  <2> QED  BY <1>6, <2>1, <2>2, KeyBesideQueue
<1> QED  BY <1>1, <1>2, <1>3, <1>4, <1>5, <1>7, <1>8, <1>9 DEF QueuesNeverFull

(* With two descriptors per slot in a queue and one in the notify pipe, as *)
(* the constants of dpumesh.h and common.py give, no put of workers,       *)
(* daemons or bridge is refused and no notification lost: the buffers run  *)
(* out first.                                                              *)
THEOREM QueuesAreLargeEnough ==
  ASSUME MaxDescriptors >= 2 * NumSlots, PipeCap >= NumSlots
  PROVE  Spec => []QueuesNeverFull
<1>1. IInv => QueuesNeverFull
  BY QueuesHaveRoom DEF IInv
<1> QED  BY <1>1, Invariance, PTL
=============================================================================
