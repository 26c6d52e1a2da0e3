----------------------------- MODULE MeshCalls -----------------------------
(***************************************************************************)
(* The calls of the frontends, for any number of workers, clients and      *)
(* slots: what comes back is what was asked for, and no buffer is          *)
(* forgotten, as long as no entry of response_pipe_fds is overwritten that *)
(* a call under way still needs; and each client is told what it asked     *)
(* for, as long as no entry of the inbound table is overwritten that a     *)
(* call waits with.                                                        *)
(*                                                                         *)
(* The invariant speaks of messages: a descriptor in a queue or with a     *)
(* thread that passes it on stands for one, and so does the slot a bridge  *)
(* thread has filled.  A map `at' says for each call of each worker where  *)
(* its one message is, request or response: with a main thread that writes *)
(* it, in a buffer, or nowhere any more.  So a call has at most one        *)
(* message at a time, and what that says belongs to the call.              *)
(***************************************************************************)
EXTENDS MeshMessages

(* A message under way: what its descriptor says, the worker it has been   *)
(* routed to, and the buffers that count (a daemon that copies has two).   *)
Letter(d, dst, header, body) ==
  [op |-> d.op, id |-> d.req_id, dst |-> dst, header |-> header, body |-> body]
OnWay(d, dst) == Letter(d, dst, d.header, d.body)
Queued(q, dst) == {OnWay(d, dst) : d \in Entries(q)}

PollerLetters(w) == IF poller[w].pc = "dispatch" THEN {OnWay(poller[w].desc, w)} ELSE {}
WorkerLetters(w) ==
  Queued(tx_sq[w], Nil) \cup Queued(rx_sq[w], w) \cup Queued(notify[w], w) \cup PollerLetters(w)

TxHeader == IF dpaTx.pc = "free" THEN dpaTx.header ELSE dpaTx.desc.header
TxLetters ==
  IF dpaTx.pc \in {"copy", "requeue", "free", "put"}
  THEN {Letter(dpaTx.desc, Nil, TxHeader, dpaTx.desc.body)} ELSE {}

RxHeader == IF dpaRx.pc \in {"free_header", "put"} THEN dpaRx.header ELSE dpaRx.desc.header
RxBody == IF dpaRx.pc \in {"body", "requeue"} THEN dpaRx.desc.body ELSE dpaRx.body
RxLetters ==
  IF dpaRx.pc \in {"body", "requeue", "free_body", "header", "free_header", "put"}
  THEN {Letter(dpaRx.desc, dpaRx.desc.dst, RxHeader, RxBody)} ELSE {}

ArmLetters ==
  IF arm.pc \in {"route", "put"}
  THEN {OnWay(arm.desc, IF arm.pc = "put" THEN arm.desc.dst ELSE Nil)} ELSE {}
RoutedLetters == {OnWay(d, d.dst) : d \in Entries(sidecar_rx_sq)}

BridgeLetter(c) ==
  [op |-> "req", id |-> 0, dst |-> bridge[c].dst, header |-> Nil, body |-> bridge[c].body]
BridgeLetters == {BridgeLetter(c) : c \in {b \in Client : bridge[b].pc = "put"}}

Letters ==
  TxLetters \cup RxLetters \cup ArmLetters \cup Queued(sidecar_tx_sq, Nil) \cup RoutedLetters
  \cup BridgeLetters \cup UNION {WorkerLetters(w) : w \in Worker}

(* What is in a letter: its header, which the bridge puts in front of the  *)
(* body, and its body.                                                     *)
Mail(x) ==
  [op |-> x.op, id |-> x.id, dst |-> x.dst, ref |-> x.header,
   h |-> ReadSlot(IF x.header = Nil THEN x.body ELSE x.header),
   body |-> IF x.header = Nil THEN Nil ELSE ReadSlot(x.body)]
Mails == {Mail(x) : x \in Letters}
-----------------------------------------------------------------------------
(* No step writes to a slot that is in use.                                *)
Stable == \A r \in Ref : ReadSlot(r) # Free /\ ReadSlot(r)' # Free => ReadSlot(r)' = ReadSlot(r)

LEMMA StableSame == mem' = mem => Stable
BY DEF Stable, ReadSlot

LEMMA StableFreed ==
  ASSUME Shapes, NEW r \in Ref, FreeSlot(r)
  PROVE  Stable
BY FreedSlot DEF Stable

LEMMA SlotTaken ==
  ASSUME Shapes, NEW own, OwnInv(own), NEW p \in Pool, ~Full(p), NEW x, AllocWrite(p, x)
  PROVE  /\ Stable
         /\ \E q \in Ref : /\ q = NewRef(p) /\ q.pool = p /\ ReadSlot(q) = Free /\ ReadSlot(q)' = x
                           /\ \A r \in Ref : r # q => ReadSlot(r)' = ReadSlot(r)
<1>1. PICK q \in Ref : q = NewRef(p) /\ q.pool = p /\ q.slot = FirstFree(p)
  BY Fresh
<1>2. mem' = [mem EXCEPT ![q.pool][q.slot] = x]
  BY <1>1 DEF AllocWrite
<1>3. ReadSlot(q)' = x /\ \A r \in Ref : r # q => ReadSlot(r)' = ReadSlot(r)
  BY <1>2, SlotsBut
<1>4. ReadSlot(q) = Free
  <2>1. PICK s \in Slot : mem[p][s] = Free
    BY DEF Full
  <2>2. mem[p][FirstFree(p)] = Free
    <3> DEFINE T == {t \in Slot : mem[p][t] = Free}
    <3>1. T \subseteq Nat /\ T # {}
      BY <2>1, ShmAssumption DEF Slot
    <3>2. PICK t \in T : \A u \in T : t <= u
      BY <3>1, Least
    <3>3. t \in Slot /\ mem[p][t] = Free /\ \A r \in Slot : r < t => mem[p][r] # Free
      BY <3>2, ShmAssumption DEF Slot
    <3> QED  BY <3>3 DEF FirstFree
  <2> QED  BY <1>1, <2>2 DEF ReadSlot
<1>5. Stable
  BY <1>3, <1>4 DEF Stable
<1> QED  BY <1>1, <1>3, <1>4, <1>5

LEMMA StableWorker ==
  ASSUME Shapes, NEW own, OwnInv(own), NEW w \in Worker, Poller(w) \/ Main(w)
  PROVE  Stable
<1>1. CASE mem' = mem
  BY <1>1, StableSame
<1>2. CASE FreeRxHeader(w) \/ UndoHeader(w)
  <2>1. PICK r : r # Nil /\ FreeSlot(r) /\ r \in {main[w].rx_header, main[w].tx_header}
    BY <1>2 DEF FreeRxHeader, UndoHeader
  <2>2. r \in Ref
    BY <2>1, MainIs DEF MainShape, MainState, OptRef
  <2> QED  BY <2>1, <2>2, StableFreed
<1>3. CASE FreeRxBody(w)
  <2>1. FreeSlot(main[w].rx_body) /\ main[w].pc \in {"free_req", "free_resp"}
    BY <1>3 DEF FreeRxBody
  <2>2. main[w].rx_body \in Ref
    BY <2>1, MainIs DEF MainShape, MainState, OptRef
  <2> QED  BY <2>1, <2>2, StableFreed
<1>4. CASE UndoBody(w)
  <2>1. FreeSlot(main[w].tx_body) /\ main[w].pc = "undo" /\ main[w].tx_header = Nil
    BY <1>4 DEF UndoBody
  <2>2. main[w].tx_body \in Ref
    BY <2>1, MainIs DEF MainShape, MainState, OptRef
  <2> QED  BY <2>1, <2>2, StableFreed
<1>5. CASE WriteHeader(w) \/ WriteBody(w)
  <2>1. mem' = mem \/ \E p \in {HostPool(w, "tx_header"), HostPool(w, "tx_body")} :
                        ~Full(p) /\ \E x : AllocWrite(p, x)
    BY <1>5 DEF WriteHeader, WriteBody
  <2>2. {HostPool(w, "tx_header"), HostPool(w, "tx_body")} \subseteq Pool
    BY HostPools DEF Kind
  <2> QED  BY <2>1, <2>2, SlotTaken, StableSame
<1>6. Poller(w) => mem' = mem
  BY DEF Poller, PollerGet, PollerNotify, PollerDeliver, PollerDrop, PollerClose, shmVars
<1>7. OnRequest(w) \/ OnResponse(w) \/ Upstream(w) \/ Enqueue(w) \/ WriteFailed(w) => mem' = mem
  BY DEF OnRequest, OnResponse, Upstream, Enqueue, WriteFailed, shmVars
<1> QED  BY <1>1, <1>2, <1>3, <1>4, <1>5, <1>6, <1>7 DEF Main

LEMMA StableTx ==
  ASSUME Shapes, NEW own, OwnInv(own), (\E w \in Worker : TxGet(w)) \/ DpaTxStep
  PROVE  Stable
<1>1. (\E w \in Worker : TxGet(w)) \/ TxRequeue \/ TxPut => mem' = mem
  BY DEF TxGet, TxRequeue, TxPut
<1>2. CASE TxCopy
  <2>1. mem' = mem \/ (~Full(DpuTxHeader) /\ AllocWrite(DpuTxHeader, ReadSlot(dpaTx.desc.header)))
    BY <1>2 DEF TxCopy
  <2>2. DpuTxHeader \in Pool
    BY DEF Pool
  <2> QED  BY <2>1, <2>2, SlotTaken, StableSame
<1>3. CASE TxFree \/ TxDrop
  <2>1. FreeSlot(dpaTx.desc.header) /\ dpaTx.pc \in {"free", "drop"}
    BY <1>3 DEF TxFree, TxDrop
  <2>2. dpaTx.desc.header \in Ref
    BY <2>1, TxIs DEF DpaTxShape, SentDesc, DpuDesc
  <2> QED  BY <2>1, <2>2, StableFreed
<1> QED  BY <1>1, <1>2, <1>3, StableSame DEF DpaTxStep

LEMMA StableRx ==
  ASSUME Shapes, NEW own, OwnInv(own), DpaRxStep
  PROVE  Stable
<1>1. RxGet \/ RxRequeue \/ RxPut => mem' = mem
  BY DEF RxGet, RxRequeue, RxPut
<1>2. CASE RxCopyBody \/ RxCopyHeader
  <2>1. mem' = mem \/ \E p \in {HostPool(dpaRx.desc.dst, "rx_body"), HostPool(dpaRx.desc.dst, "rx_header")} :
                        ~Full(p) /\ \E x : AllocWrite(p, x)
    BY <1>2 DEF RxCopyBody, RxCopyHeader
  <2>2. dpaRx.desc.dst \in Worker
    BY <1>2, RxIs DEF RxCopyBody, RxCopyHeader, DpaRxShape, RoutedDesc
  <2>3. {HostPool(dpaRx.desc.dst, "rx_body"), HostPool(dpaRx.desc.dst, "rx_header")} \subseteq Pool
    BY <2>2, HostPools DEF Kind
  <2> QED  BY <2>1, <2>3, SlotTaken, StableSame
<1>3. CASE RxFreeBody
  <2>1. FreeSlot(dpaRx.desc.body) /\ dpaRx.desc.body \in Ref
    BY <1>3, RxIs, RoutedIs DEF RxFreeBody, DpaRxShape
  <2> QED  BY <2>1, StableFreed
<1>4. CASE RxFreeHeader
  <2>1. FreeSlot(dpaRx.desc.header) /\ dpaRx.desc.header \in Ref
    BY <1>4, RxIs DEF RxFreeHeader, DpaRxShape
  <2> QED  BY <2>1, StableFreed
<1>5. CASE RxDrop
  <2>1. PICK r : FreeSlot(r) /\ r # Nil /\ r \in {dpaRx.body, dpaRx.header}
    BY <1>5, RxIs DEF RxDrop, DpaRxShape
  <2>2. r \in Ref
    BY <2>1, RxIs DEF OptRef
  <2> QED  BY <2>1, <2>2, StableFreed
<1> QED  BY <1>1, <1>2, <1>3, <1>4, <1>5, StableSame DEF DpaRxStep

LEMMA StableArm ==
  ASSUME Shapes, NEW own, OwnInv(own), Arm
  PROVE  Stable
<1>1. ArmGet \/ RouteRequest \/ RouteResponse \/ ArmPut \/ DeliverEvent => mem' = mem
  BY DEF ArmGet, RouteRequest, RouteResponse, ArmPut, DeliverEvent, shmVars
<1>2. CASE Cleanup \/ DeliverBody \/ DeliverHeader
  <2>1. \/ FreeSlot(arm.desc.body) /\ arm.desc.body # Nil /\ arm.desc # Nil
        \/ FreeSlot(arm.desc.header) /\ arm.desc.header \in Ref
    BY <1>2, ArmIs, DpuDescElsewhere, DataAssumption DEF Cleanup, DeliverBody, DeliverHeader, ArmShape, DpuDesc
  <2>2. arm.desc # Nil /\ arm.desc.body # Nil => arm.desc.body \in Ref
    BY ArmIs DEF OptDesc, Descriptor, OptRef
  <2> QED  BY <2>1, <2>2, StableFreed
<1> QED  BY <1>1, <1>2, StableSame DEF Arm

LEMMA StableBridge ==
  ASSUME Shapes, NEW own, OwnInv(own), NEW c \in Client, BridgeStep(c) \/ BridgeTimeout(c)
  PROVE  Stable
<1>1. BridgeRegister(c) \/ BridgePut(c) \/ BridgeAnswer(c) \/ BridgeTimeout(c) \/ BridgeExpire(c) => mem' = mem
  BY DEF BridgeRegister, BridgePut, BridgeAnswer, BridgeTimeout, BridgeExpire, shmVars
<1>2. CASE BridgeAlloc(c)
  <2>1. mem' = mem \/ (~Full(DpuRxBody) /\ \E x : AllocWrite(DpuRxBody, x))
    BY <1>2 DEF BridgeAlloc
  <2>2. DpuRxBody \in Pool
    BY DEF Pool
  <2> QED  BY <2>1, <2>2, SlotTaken, StableSame
<1>3. CASE BridgeUndo(c)
  <2>1. FreeSlot(bridge[c].body) /\ bridge[c].body \in Ref
    BY <1>3, BridgeIs DEF BridgeUndo, BridgeShape
  <2> QED  BY <2>1, StableFreed
<1> QED  BY <1>1, <1>2, <1>3, StableSame DEF BridgeStep

LEMMA MemoryIsStable ==
  ASSUME Shapes, NEW own, OwnInv(own), [Next]_vars
  PROVE  Stable
<1>1. HostStep => Stable
  BY StableWorker DEF HostStep
<1>2. DpaStep => Stable
  BY StableTx, StableRx DEF DpaStep
<1>3. SidecarStep => Stable
  BY StableArm, StableBridge DEF SidecarStep
<1>4. Rest \/ UNCHANGED vars => Stable
  BY StableSame DEF Rest, vars, shmVars
<1> QED  BY <1>1, <1>2, <1>3, <1>4 DEF Next
-----------------------------------------------------------------------------
(* The buffers of a letter are in use, and nobody else has its header.     *)
LetterPlace == {"poller", "tx_sq", "rx_sq", "notify", "dpaTx", "dpaTx copy", "dpaRx", "dpaRx copy", "arm",
                "sidecar_tx_sq", "sidecar_rx_sq"}
Bearer(part) ==
  /\ part[1] \in LetterPlace
  /\ part = <<"dpaTx", Nil>> => dpaTx.pc # "free"
  /\ part = <<"dpaRx", Nil>> => dpaRx.pc # "free_header"

LetterIs(own, x) ==
  /\ x.op \in {"req", "resp"} /\ x.id \in Nat /\ x.dst \in Worker \cup {Nil}
  /\ x.body \in Ref /\ x.header \in OptRef
  /\ x.header = Nil => x.op = "req" /\ x.dst \in Worker /\ ReadSlot(x.body) \in Header
  /\ x.header # Nil => /\ ReadSlot(x.header) \in Header /\ ReadSlot(x.body) \in Body
                       /\ Bearer(own[x.header].part)

LEMMA LetterOf ==
  ASSUME NEW own, OwnInv(own), NEW d \in Descriptor, NEW dst \in Worker \cup {Nil}, Ingress(d) => dst \in Worker,
         NEW header, header = Nil <=> Ingress(d), NEW p, Bearer(p), HasHeader(own, p, header),
         NEW body, body # Nil, NEW q, HasBody(own, q, BodyAs(d), body)
  PROVE  LetterIs(own, Letter(d, dst, header, body))
<1> DEFINE x == Letter(d, dst, header, body)
<1>1. x.op = d.op /\ x.id = d.req_id /\ x.dst = dst /\ x.header = header /\ x.body = body
  BY DEF Letter
<1>2. d.op \in {"req", "resp"} /\ d.req_id \in Nat
  BY DEF Descriptor
<1>3. body \in Ref /\ own[body].use = BodyAs(d)
  BY DEF HasBody, Owns
<1>4. header # Nil => header \in Ref /\ own[header].part = p /\ own[header].use = "header"
  BY OwnsIs
<1>5. header # Nil => ReadSlot(header) \in Header
  BY <1>4 DEF OwnInv, Memory, ReadSlot
<1>6. Ingress(d) => ReadSlot(body) \in Header /\ d.op = "req"
  BY <1>3 DEF OwnInv, Memory, ReadSlot, BodyAs, Ingress
<1>7. ~Ingress(d) => ReadSlot(body) \in Body
  BY <1>3 DEF OwnInv, Memory, ReadSlot, BodyAs
<1> HIDE DEF x
<1>8. x.header \in OptRef
  BY <1>1, <1>4 DEF OptRef
<1>9. x.header = Nil => x.op = "req" /\ x.dst \in Worker /\ ReadSlot(x.body) \in Header
  BY <1>1, <1>6
<1>10. x.header # Nil => ReadSlot(x.header) \in Header /\ ReadSlot(x.body) \in Body /\ Bearer(own[x.header].part)
  BY <1>1, <1>4, <1>5, <1>7
<1>11. LetterIs(own, x)
  BY <1>1, <1>2, <1>3, <1>8, <1>9, <1>10 DEF LetterIs
<1> QED  BY <1>11 DEF x

LEMMA CarriedLetter ==
  ASSUME NEW own, OwnInv(own), NEW d \in Descriptor, NEW dst \in Worker \cup {Nil}, Ingress(d) => dst \in Worker,
         d.header = Nil <=> Ingress(d), d.body # Nil, NEW p, Bearer(p), Carries(own, p, d)
  PROVE  LetterIs(own, OnWay(d, dst))
<1>1. HasHeader(own, p, d.header) /\ HasBody(own, p, BodyAs(d), d.body)
  BY DataAssumption DEF Carries
<1> QED  BY <1>1, LetterOf DEF OnWay

LEMMA QueuedLetters ==
  ASSUME NEW own, OwnInv(own), NEW D, D \subseteq Descriptor,
         \A d \in D : d.body # Nil /\ (d.header = Nil <=> Ingress(d)),
         NEW q \in Seq(D), NEW p, Bearer(p), Holds(own, p, q), NEW d \in Entries(q)
  PROVE  /\ d \in D /\ Carries(own, p, d)
         /\ \A dst \in Worker \cup {Nil} : (Ingress(d) => dst \in Worker) => LetterIs(own, OnWay(d, dst))
<1>1. PICK i \in DOMAIN q : d = q[i]
  BY DEF Entries
<1>2. d \in D /\ Carries(own, p, d)
  BY <1>1 DEF Holds
<1> QED  BY <1>2, CarriedLetter

LEMMA DescKinds ==
  /\ \A w \in Worker : \A d \in ReceivedDesc(w) : d \in Descriptor /\ d.body # Nil /\ (d.header = Nil <=> Ingress(d))
  /\ \A w \in Worker : \A d \in SentDesc(w) : d \in Descriptor /\ d.body # Nil /\ d.header # Nil /\ ~Ingress(d)
  /\ \A d \in DpuDesc : d \in Descriptor /\ d.body # Nil /\ d.header # Nil /\ ~Ingress(d)
  /\ \A d \in RoutedDesc : d \in Descriptor /\ d.body # Nil /\ (d.header = Nil <=> Ingress(d)) /\ d.dst \in Worker
<1>1. Nil \notin Ref
  BY DataAssumption
<1>2. \A d \in RoutedDesc : d \in Descriptor /\ d.body # Nil /\ (d.header = Nil <=> Ingress(d)) /\ d.dst \in Worker
  BY <1>1, RoutedIs
<1>3. \A w \in Worker : \A d \in ReceivedDesc(w) : d \in Descriptor /\ d.body # Nil /\ (d.header = Nil <=> Ingress(d))
  BY <1>1 DEF ReceivedDesc
<1>4. \A w \in Worker : \A d \in SentDesc(w) : d \in Descriptor /\ d.body # Nil /\ d.header # Nil /\ ~Ingress(d)
  BY <1>1 DEF SentDesc, Ingress
<1>5. \A d \in DpuDesc : d \in Descriptor /\ d.body # Nil /\ d.header # Nil /\ ~Ingress(d)
  BY <1>1 DEF DpuDesc, Ingress
<1> QED  BY <1>2, <1>3, <1>4, <1>5

LEMMA WorkerLettersAre ==
  ASSUME Shapes, NEW own, OwnInv(own), NEW w \in Worker, NEW x \in WorkerLetters(w)
  PROVE  LetterIs(own, x)
<1>1. \A y \in {"tx_sq", "rx_sq", "notify", "poller"} : Bearer(<<y, w>>)
  BY DEF Bearer, LetterPlace
<1>2. ASSUME NEW d \in Entries(tx_sq[w]), x = OnWay(d, Nil)
      PROVE  LetterIs(own, x)
  <2>1. tx_sq[w] \in Seq(SentDesc(w)) /\ SentDesc(w) \subseteq Descriptor /\ Holds(own, <<"tx_sq", w>>, tx_sq[w])
    BY QueuedDescs, OfWorker
  <2>2. \A e \in SentDesc(w) : e.body # Nil /\ (e.header = Nil <=> Ingress(e)) /\ ~Ingress(e)
    BY DescKinds
  <2>3. d \in SentDesc(w) /\ LetterIs(own, OnWay(d, Nil))
    BY <1>1, <2>1, <2>2, QueuedLetters
  <2> QED  BY <1>2, <2>3
<1>3. ASSUME NEW d \in Entries(rx_sq[w]), x = OnWay(d, w)
      PROVE  LetterIs(own, x)
  <2>1. /\ rx_sq[w] \in Seq(ReceivedDesc(w)) /\ ReceivedDesc(w) \subseteq Descriptor
        /\ Holds(own, <<"rx_sq", w>>, rx_sq[w])
    BY QueuedDescs, OfWorker
  <2>2. \A e \in ReceivedDesc(w) : e.body # Nil /\ (e.header = Nil <=> Ingress(e))
    BY DescKinds
  <2>3. LetterIs(own, OnWay(d, w))
    BY <1>1, <2>1, <2>2, QueuedLetters
  <2> QED  BY <1>3, <2>3
<1>4. ASSUME NEW d \in Entries(notify[w]), x = OnWay(d, w)
      PROVE  LetterIs(own, x)
  <2> DEFINE D == {e \in ReceivedDesc(w) : e.op = "req"}
  <2>1. notify[w] \in Seq(D) /\ D \subseteq Descriptor /\ Holds(own, <<"notify", w>>, notify[w])
    BY QueuedDescs, OfWorker, HostAtIs DEF HostAt
  <2>2. \A e \in D : e.body # Nil /\ (e.header = Nil <=> Ingress(e))
    BY DescKinds
  <2>3. LetterIs(own, OnWay(d, w))
    BY <1>1, <2>1, <2>2, QueuedLetters
  <2> QED  BY <1>4, <2>3
<1>5. ASSUME poller[w].pc = "dispatch", x = OnWay(poller[w].desc, w)
      PROVE  LetterIs(own, x)
  <2>1. poller[w].desc \in ReceivedDesc(w) /\ Carries(own, <<"poller", w>>, poller[w].desc)
    BY <1>5, OfWorker, HostAtIs DEF HostAt, PollerShape
  <2> QED  BY <1>1, <1>5, <2>1, DescKinds, CarriedLetter
<1> QED  BY <1>2, <1>3, <1>4, <1>5 DEF WorkerLetters, Queued, PollerLetters

LEMMA DpaLettersAre ==
  ASSUME Shapes, NEW own, OwnInv(own), NEW x \in TxLetters \cup RxLetters
  PROVE  LetterIs(own, x)
<1>1. CASE x \in TxLetters
  <2>1. dpaTx.pc \in {"copy", "requeue", "free", "put"} /\ x = Letter(dpaTx.desc, Nil, TxHeader, dpaTx.desc.body)
    BY <1>1 DEF TxLetters
  <2>2. /\ dpaTx.desc \in Descriptor /\ dpaTx.desc.body # Nil /\ dpaTx.desc.header # Nil /\ ~Ingress(dpaTx.desc)
        /\ dpaTx.pc = "free" => dpaTx.header \in Ref
    BY <2>1, TxIs, DescKinds DEF DpaTxShape
  <2>3. /\ Carries(own, <<"dpaTx", Nil>>, dpaTx.desc) /\ HasHeader(own, <<"dpaTx copy", Nil>>, dpaTx.header)
    BY OfDpa
  <2>4. /\ HasHeader(own, <<"dpaTx", Nil>>, dpaTx.desc.header)
        /\ HasBody(own, <<"dpaTx", Nil>>, BodyAs(dpaTx.desc), dpaTx.desc.body)
    BY <2>2, <2>3, DataAssumption DEF Carries
  <2>5. Bearer(<<"dpaTx copy", Nil>>) /\ (dpaTx.pc # "free" => Bearer(<<"dpaTx", Nil>>))
    BY DEF Bearer, LetterPlace
  <2>6. TxHeader # Nil
    BY <2>2, DataAssumption DEF TxHeader
  <2>7. PICK p : Bearer(p) /\ HasHeader(own, p, TxHeader)
    BY <2>3, <2>4, <2>5 DEF TxHeader
  <2> QED  BY <2>1, <2>2, <2>4, <2>6, <2>7, LetterOf
<1>2. CASE x \in RxLetters
  <2> DEFINE d == dpaRx.desc
  <2>1. /\ dpaRx.pc \in {"body", "requeue", "free_body", "header", "free_header", "put"}
        /\ x = Letter(d, d.dst, RxHeader, RxBody)
    BY <1>2 DEF RxLetters
  <2>2. /\ d \in Descriptor /\ d.dst \in Worker /\ d # Nil
        /\ dpaRx.pc \in {"body", "requeue", "free_body"} => d.body # Nil /\ (d.header = Nil <=> Ingress(d))
        /\ dpaRx.pc \in {"header", "free_header"} => d.header # Nil /\ ~Ingress(d)
        /\ dpaRx.pc = "free_header" => dpaRx.header # Nil
        /\ dpaRx.pc = "put" => (Ingress(d) <=> dpaRx.header = Nil)
        /\ dpaRx.pc \in {"free_body", "header", "free_header", "put"} => dpaRx.body # Nil
    <3>1. DpaRxShape(dpaRx) /\ d \in OptDesc
      BY RxIs
    <3>2. CASE dpaRx.pc \in {"body", "requeue", "free_body"}
      BY <3>1, <3>2, DescKinds, DataAssumption DEF DpaRxShape
    <3>3. CASE dpaRx.pc \in {"header", "free_header", "put"}
      <4>1. d # Nil /\ d.dst \in Worker /\ d \in Descriptor /\ dpaRx.body # Nil
        BY <3>1, <3>3, DataAssumption DEF DpaRxShape, OptDesc
      <4>2. /\ dpaRx.pc \in {"header", "free_header"} => d.case = "local" /\ d.header # Nil
            /\ dpaRx.pc = "put" => (Ingress(d) <=> dpaRx.header = Nil)
            /\ dpaRx.pc = "free_header" => dpaRx.header # Nil
        BY <3>1, DataAssumption DEF DpaRxShape
      <4> QED  BY <3>3, <4>1, <4>2 DEF Ingress
    <3> QED  BY <2>1, <3>2, <3>3
  <2>3. /\ HasHeader(own, <<"dpaRx", Nil>>, d.header) /\ HasBody(own, <<"dpaRx", Nil>>, BodyAs(d), d.body)
        /\ HasHeader(own, <<"dpaRx copy", Nil>>, dpaRx.header)
        /\ HasBody(own, <<"dpaRx copy", Nil>>, BodyAs(d), dpaRx.body)
    BY <2>1, <2>2, OfDpa DEF Carries
  <2>4. Bearer(<<"dpaRx copy", Nil>>) /\ (dpaRx.pc # "free_header" => Bearer(<<"dpaRx", Nil>>))
    BY DEF Bearer, LetterPlace
  <2>5. RxHeader = Nil <=> Ingress(d)
    BY <2>1, <2>2 DEF RxHeader
  <2>6. RxBody # Nil
    BY <2>1, <2>2 DEF RxBody
  <2>7. PICK p : Bearer(p) /\ HasHeader(own, p, RxHeader)
    BY <2>3, <2>4 DEF RxHeader
  <2>8. PICK q : HasBody(own, q, BodyAs(d), RxBody)
    BY <2>3 DEF RxBody
  <2> HIDE DEF d
  <2> QED  BY <2>1, <2>2, <2>5, <2>6, <2>7, <2>8, LetterOf
<1> QED  BY <1>1, <1>2

LEMMA SidecarLettersAre ==
  ASSUME Shapes, NEW own, OwnInv(own),
         NEW x \in ArmLetters \cup Queued(sidecar_tx_sq, Nil) \cup RoutedLetters \cup BridgeLetters
  PROVE  LetterIs(own, x)
<1>1. \A y \in {"arm", "sidecar_tx_sq", "sidecar_rx_sq"} : Bearer(<<y, Nil>>)
  BY DEF Bearer, LetterPlace
<1>2. CASE x \in ArmLetters
  <2>1. PICK dst : arm.pc \in {"route", "put"} /\ x = OnWay(arm.desc, dst) /\ dst = (IF arm.pc = "put" THEN arm.desc.dst ELSE Nil)
    BY <1>2 DEF ArmLetters
  <2>2. /\ arm.desc \in Descriptor /\ arm.desc.body # Nil /\ arm.desc.header # Nil /\ ~Ingress(arm.desc)
        /\ dst \in Worker \cup {Nil}
    BY <2>1, ArmIs, DescKinds DEF ArmShape
  <2> QED  BY <1>1, <2>1, <2>2, OfSidecar, CarriedLetter
<1>3. ASSUME NEW d \in Entries(sidecar_tx_sq), x = OnWay(d, Nil)
      PROVE  LetterIs(own, x)
  <2>1. /\ sidecar_tx_sq \in Seq(DpuDesc) /\ DpuDesc \subseteq Descriptor
        /\ Holds(own, <<"sidecar_tx_sq", Nil>>, sidecar_tx_sq)
    BY SidecarDescs, OfSidecar
  <2>2. \A e \in DpuDesc : e.body # Nil /\ (e.header = Nil <=> Ingress(e)) /\ ~Ingress(e)
    BY DescKinds
  <2>3. d \in DpuDesc /\ LetterIs(own, OnWay(d, Nil))
    BY <1>1, <2>1, <2>2, QueuedLetters
  <2> QED  BY <1>3, <2>3
<1>4. ASSUME NEW d \in Entries(sidecar_rx_sq), x = OnWay(d, d.dst)
      PROVE  LetterIs(own, x)
  <2>1. /\ sidecar_rx_sq \in Seq(RoutedDesc) /\ RoutedDesc \subseteq Descriptor
        /\ Holds(own, <<"sidecar_rx_sq", Nil>>, sidecar_rx_sq)
    BY SidecarDescs, OfSidecar
  <2>2. \A e \in RoutedDesc : e.body # Nil /\ (e.header = Nil <=> Ingress(e)) /\ e.dst \in Worker
    BY DescKinds
  <2>3. d \in RoutedDesc /\ \A dst \in Worker \cup {Nil} : (Ingress(d) => dst \in Worker) => LetterIs(own, OnWay(d, dst))
    BY <1>1, <2>1, <2>2, QueuedLetters
  <2> QED  BY <1>4, <2>2, <2>3
<1>5. ASSUME NEW c \in Client, bridge[c].pc = "put", x = BridgeLetter(c)
      PROVE  LetterIs(own, x)
  <2>1. bridge[c].dst \in Worker /\ bridge[c].body \in Ref /\ bridge[c].body # Nil
    BY <1>5, BridgeIs, DataAssumption DEF BridgeShape
  <2>2. HasBody(own, <<"bridge", c>>, "message", bridge[c].body)
    BY <1>5, OfSidecar
  <2>3. ReadSlot(bridge[c].body) \in Header
    BY <2>1, <2>2 DEF HasBody, Owns, OwnInv, Memory, ReadSlot
  <2>4. x.op = "req" /\ x.id = 0 /\ x.dst = bridge[c].dst /\ x.header = Nil /\ x.body = bridge[c].body
    BY <1>5 DEF BridgeLetter
  <2> QED  BY <2>1, <2>3, <2>4 DEF LetterIs, OptRef
<1> QED  BY <1>2, <1>3, <1>4, <1>5 DEF Queued, RoutedLetters, BridgeLetters

LEMMA LettersAre ==
  ASSUME Shapes, NEW own, OwnInv(own), NEW x \in Letters
  PROVE  LetterIs(own, x)
<1>1. \/ \E w \in Worker : x \in WorkerLetters(w)
      \/ x \in TxLetters \cup RxLetters
      \/ x \in ArmLetters \cup Queued(sidecar_tx_sq, Nil) \cup RoutedLetters \cup BridgeLetters
  BY DEF Letters
<1> QED  BY <1>1, WorkerLettersAre, DpaLettersAre, SidecarLettersAre
-----------------------------------------------------------------------------
(* What ownership says about letters and about what the calls keep in      *)
(* buffers: all of it is in use, and no letter has a header that somebody  *)
(* else still holds.                                                       *)
Used(r) == r \in Ref /\ ReadSlot(r) # Free

LettersUsed ==
  \A x \in Letters :
    /\ x.op \in {"req", "resp"} /\ x.id \in Nat /\ x.dst \in Worker \cup {Nil} /\ x.header \in OptRef
    /\ Used(x.body)
    /\ x.header = Nil => x.op = "req" /\ x.dst \in Worker /\ ReadSlot(x.body) \in Header
    /\ x.header # Nil => Used(x.header) /\ ReadSlot(x.header) \in Header /\ ReadSlot(x.body) \in Body

HeadersApart ==
  \A x \in Letters : x.header # Nil =>
    /\ \A w \in Worker : /\ x.header # main[w].rx_header
                         /\ \A r \in delivered[w] : x.header # r.desc.header
    /\ dpaTx.pc = "free" => x.header # dpaTx.desc.header
    /\ dpaRx.pc = "free_header" => x.header # dpaRx.desc.header

LocalsUsed ==
  \A w \in Worker :
    /\ main[w].pc \in {"body", "put"} => Used(main[w].tx_header)
    /\ main[w].pc = "put" => Used(main[w].tx_body)
    /\ \A r \in delivered[w] : /\ Used(r.desc.header) /\ ReadSlot(r.desc.header) \in Header
                               /\ Used(r.desc.body) /\ ReadSlot(r.desc.body) \in Body

InUse == LettersUsed /\ HeadersApart /\ LocalsUsed

LEMMA HeldHeader ==
  ASSUME NEW own, OwnInv(own), NEW x, LetterIs(own, x), x.header # Nil, NEW part, NEW r,
         ~Bearer(part), HasHeader(own, part, r), r # Nil
  PROVE  x.header # r
<1>1. own[r].part = part
  BY OwnsIs
<1> QED  BY <1>1 DEF LetterIs

LEMMA LocalsAreUsed ==
  ASSUME Shapes, NEW own, OwnInv(own)
  PROVE  LocalsUsed
<1> SUFFICES ASSUME NEW w \in Worker
             PROVE  /\ main[w].pc \in {"body", "put"} => Used(main[w].tx_header)
                    /\ main[w].pc = "put" => Used(main[w].tx_body)
                    /\ \A r \in delivered[w] : /\ Used(r.desc.header) /\ ReadSlot(r.desc.header) \in Header
                                               /\ Used(r.desc.body) /\ ReadSlot(r.desc.body) \in Body
  BY DEF LocalsUsed
<1>1. \A x \in Header \cup Body : x # Free
  BY DataAssumption
<1>2. \A part, use, r : Owns(own, part, use, r) =>
        /\ r \in Ref
        /\ use \in {"header", "message"} => ReadSlot(r) \in Header
        /\ use = "body" => ReadSlot(r) \in Body
  <2> SUFFICES ASSUME NEW part, NEW use, NEW r, Owns(own, part, use, r)
               PROVE  /\ r \in Ref
                      /\ use \in {"header", "message"} => ReadSlot(r) \in Header
                      /\ use = "body" => ReadSlot(r) \in Body
    OBVIOUS
  <2>1. r \in Ref /\ own[r].use = use
    BY Owned
  <2> QED  BY <2>1 DEF OwnInv, Memory, ReadSlot
<1>3. /\ main[w].pc \in {"body", "put"} => main[w].tx_header # Nil
      /\ main[w].pc = "put" => main[w].tx_body # Nil
  BY MainIs DEF MainShape
<1>4. /\ HasHeader(own, <<"main tx", w>>, main[w].tx_header)
      /\ HasBody(own, <<"main tx", w>>, "body", main[w].tx_body)
      /\ Pipes(own, <<"pipe", w>>, delivered[w])
  BY OfWorker
<1>5. ASSUME NEW r \in delivered[w]
      PROVE  /\ Used(r.desc.header) /\ ReadSlot(r.desc.header) \in Header
             /\ Used(r.desc.body) /\ ReadSlot(r.desc.body) \in Body
  <2>1. r.desc \in ReceivedDesc(w) /\ r.desc.op = "resp"
    BY HostAtIs DEF HostAt, Delivered
  <2>2. /\ r.desc # Nil /\ r.desc.body # Nil /\ ~Ingress(r.desc)
        /\ r.desc.header # Nil
    BY <2>1, DescKinds, DataAssumption DEF Ingress
  <2>3. Owns(own, <<"pipe", w>>, "header", r.desc.header) /\ Owns(own, <<"pipe", w>>, "body", r.desc.body)
    BY <1>4, <2>2 DEF Pipes, Carries, HasHeader, HasBody, BodyAs
  <2> QED  BY <1>1, <1>2, <2>3 DEF Used
<1> QED  BY <1>1, <1>2, <1>3, <1>4, <1>5 DEF HasHeader, HasBody, Used

LEMMA LettersAreUsed ==
  ASSUME Shapes, NEW own, OwnInv(own)
  PROVE  LettersUsed
<1>1. \A x \in Header \cup Body : x # Free
  BY DataAssumption
<1>2. \A x \in Letters : LetterIs(own, x)
  BY LettersAre
<1> QED  BY <1>1, <1>2 DEF LettersUsed, LetterIs, Used, OptRef

LEMMA HeadersAreApart ==
  ASSUME Shapes, NEW own, OwnInv(own)
  PROVE  HeadersApart
<1> SUFFICES ASSUME NEW x \in Letters, x.header # Nil
             PROVE  /\ \A w \in Worker : /\ x.header # main[w].rx_header
                                         /\ \A r \in delivered[w] : x.header # r.desc.header
                    /\ dpaTx.pc = "free" => x.header # dpaTx.desc.header
                    /\ dpaRx.pc = "free_header" => x.header # dpaRx.desc.header
  BY DEF HeadersApart
<1>1. LetterIs(own, x)
  BY LettersAre
<1>2. ASSUME NEW w \in Worker
      PROVE  x.header # main[w].rx_header
  <2>1. HasHeader(own, <<"main rx", w>>, main[w].rx_header) /\ ~Bearer(<<"main rx", w>>)
    BY OfWorker DEF Bearer, LetterPlace
  <2> QED  BY <1>1, <2>1, HeldHeader
<1>3. ASSUME NEW w \in Worker, NEW r \in delivered[w]
      PROVE  x.header # r.desc.header
  <2>1. r.desc \in ReceivedDesc(w) /\ r.desc # Nil
    BY HostAtIs, DataAssumption DEF HostAt, Delivered, ReceivedDesc
  <2>2. HasHeader(own, <<"pipe", w>>, r.desc.header) /\ ~Bearer(<<"pipe", w>>)
    BY <2>1, OfWorker DEF Bearer, LetterPlace, Pipes, Carries
  <2> QED  BY <1>1, <2>2, HeldHeader
<1>4. ASSUME dpaTx.pc = "free"
      PROVE  x.header # dpaTx.desc.header
  <2>1. dpaTx.desc # Nil
    BY <1>4, TxIs, DescKinds, DataAssumption DEF DpaTxShape
  <2>2. HasHeader(own, <<"dpaTx", Nil>>, dpaTx.desc.header) /\ ~Bearer(<<"dpaTx", Nil>>)
    BY <1>4, <2>1, OfDpa DEF Bearer, Carries
  <2> QED  BY <1>1, <2>2, HeldHeader
<1>5. ASSUME dpaRx.pc = "free_header"
      PROVE  x.header # dpaRx.desc.header
  <2>1. dpaRx.desc # Nil
    BY <1>5, RxIs DEF DpaRxShape
  <2>2. HasHeader(own, <<"dpaRx", Nil>>, dpaRx.desc.header) /\ ~Bearer(<<"dpaRx", Nil>>)
    BY <1>5, <2>1, OfDpa DEF Bearer, Carries
  <2> QED  BY <1>1, <2>2, HeldHeader
<1> QED  BY <1>2, <1>3, <1>4, <1>5

LEMMA InvariantInUse == IInv => InUse
BY LocalsAreUsed, LettersAreUsed, HeadersAreApart DEF IInv, InUse

LEMMA NextInUse == IInv' => InUse'
BY InvariantInUse, PTL

(* What a step leaves in a letter.                                         *)
LEMMA MailSame ==
  ASSUME Stable, InUse, InUse', NEW x, x \in Letters, x \in Letters'
  PROVE  Mail(x)' = Mail(x)
<1>1. /\ Used(x.body) /\ Used(x.body)'
      /\ x.header # Nil => Used(x.header) /\ Used(x.header)'
  BY DEF InUse, LettersUsed
<1>2. ReadSlot(x.body)' = ReadSlot(x.body) /\ (x.header # Nil => ReadSlot(x.header)' = ReadSlot(x.header))
  BY <1>1 DEF Stable, Used
<1> QED  BY <1>2 DEF Mail

LEMMA MailsAre ==
  ASSUME Stable, InUse, InUse', NEW S, \A x \in Letters' : x \in Letters \/ Mail(x)' \in S
  PROVE  \A y \in Mails' : y \in Mails \cup S
<1> SUFFICES ASSUME NEW x \in Letters'
             PROVE  Mail(x)' \in Mails \cup S
  BY DEF Mails
<1> QED  BY MailSame DEF Mails
-----------------------------------------------------------------------------
(* Where the one message of a call is: with the main thread of a worker    *)
(* that writes it, in a buffer with this header, or nowhere any more.      *)
Writing(w) == [in |-> "main", of |-> w]
At(r) == [in |-> "buffer", of |-> r]
Over == [in |-> "over", of |-> Nil]
Place == {Over} \cup {Writing(w) : w \in Worker} \cup {At(r) : r \in Ref}
Whereabouts == [Worker -> [Nat -> Place]]

(* A call that is under way has its entry in response_pipe_fds.            *)
Live(at, w, k, place) ==
  /\ w \in Worker /\ k \in 1 .. (next_req_id[w] - 1)
  /\ at[w][k] = place
  /\ response_pipe[w][k % MaxPending] = k

(* What is asked in a call made with context ctx, and what is said to it.  *)
AskedSvc(ctx) == IF ctx.stage = "id" THEN "id-service" ELSE "attend-service"
AskedName(ctx) == IF ctx.stage = "id" THEN ctx.name ELSE ctx.id
Asking(h, ctx) == h.ask = "lookup" /\ h.svc = AskedSvc(ctx) /\ h.name = AskedName(ctx)
Saying(status, body, ctx) == status = UpstreamSays(ctx).status /\ body = UpstreamSays(ctx).body

RequestAt(at, h, k, place) ==
  Live(at, h.src, k, place) /\ \E u \in waiting[h.src] : u.pipe = k /\ Asking(h, u.ctx)
ResponseAt(at, w, k, place, status, body) ==
  Live(at, w, k, place) /\ \E u \in waiting[w] : u.pipe = k /\ Saying(status, body, u.ctx)

(* A letter from the bridge, from a caller, or to a caller or the bridge.  *)
GoodMail(at, y) ==
  /\ y.ref = Nil => y.op = "req" /\ ServiceOf[y.dst] = "frontend" /\ y.h.src = Nil
  /\ y.ref # Nil /\ y.op = "req" =>
       RequestAt(at, y.h, y.id, At(y.ref)) /\ (y.dst # Nil => ServiceOf[y.dst] = y.h.svc)
  /\ y.ref # Nil /\ y.op = "resp" =>
       /\ y.h.dst # Nil => ResponseAt(at, y.h.dst, y.id, At(y.ref), y.h.status, y.body)
       /\ y.dst # Nil => y.dst = y.h.dst

(* The message that main thread w writes, and the response it has read.    *)
GoodRequest(at, w, m) ==
  m.pc \in WritePc /\ m.msg.op = "req" =>
    /\ ServiceOf[w] = "frontend" /\ m.msg.header.src = w
    /\ Live(at, w, m.msg.req_id, Writing(w)) /\ Asking(m.msg.header, m.conn.ctx)
    /\ \A u \in waiting[w] : u.pipe # m.msg.req_id
GoodResponse(at, w, m) ==
  m.pc \in WritePc /\ m.msg.op = "resp" /\ m.msg.header.dst # Nil =>
    ResponseAt(at, m.msg.header.dst, m.msg.req_id, Writing(w), m.msg.header.status, m.msg.body)
Copied(m) ==
  /\ m.pc \in {"body", "put"} => ReadSlot(m.tx_header) = m.msg.header
  /\ m.pc = "put" => ReadSlot(m.tx_body) = m.msg.body
GoodAnswer(w, m) ==
  m.pc \in {"free_resp", "upstream"} =>
    ServiceOf[w] = "frontend" /\ Saying(m.resp.status, m.resp.body, m.conn.ctx)
GoodMain(at, w) ==
  GoodRequest(at, w, main[w]) /\ GoodResponse(at, w, main[w]) /\ Copied(main[w]) /\ GoodAnswer(w, main[w])

(* The tables and pipes of worker w.                                       *)
GoodInbound(w) == ServiceOf[w] = "frontend" => \A i \in TableIndex : inbound[w][i].src = Nil
GoodWaiting(w) ==
  /\ ServiceOf[w] # "frontend" => waiting[w] = {}
  /\ \A u \in waiting[w] : u.pipe \in 1 .. (next_req_id[w] - 1)
  /\ \A u, v \in waiting[w] : u.pipe = v.pipe => u = v
GoodDelivered(at, w) ==
  /\ \A r \in delivered[w] :
       /\ at[w][r.pipe] = Over
       /\ \E u \in waiting[w] :
            u.pipe = r.pipe /\ Saying(ReadSlot(r.desc.header).status, ReadSlot(r.desc.body), u.ctx)
  /\ \A r, s \in delivered[w] : r.pipe = s.pipe => r = s
GoodEntries(at, w) ==
  /\ \A i \in TableIndex : response_pipe[w][i] < next_req_id[w]
  /\ poller[w].pc = "close" =>
       response_pipe[w][poller[w].idx] # 0 /\ at[w][response_pipe[w][poller[w].idx]] = Over
  /\ \A k \in Nat : at[w][k] # Over => k \in 1 .. (next_req_id[w] - 1)
GoodTables(at, w) == GoodInbound(w) /\ GoodWaiting(w) /\ GoodDelivered(at, w) /\ GoodEntries(at, w)

(* The calls and what belongs to them; and the bridge talks to frontends.  *)
CallsAt(at) ==
  /\ at \in Whereabouts
  /\ \A y \in Mails : GoodMail(at, y)
  /\ \A w \in Worker : GoodMain(at, w) /\ GoodTables(at, w)
Calls == \E at : CallsAt(at)
BridgeRoutes == \A c \in Client : bridge[c].pc = "alloc" => ServiceOf[bridge[c].dst] = "frontend"
CallInv == Calls /\ BridgeRoutes
-----------------------------------------------------------------------------
(* The calls whose message is at a place stay as they are.                 *)
Persists(at, at2, place) ==
  \A w \in Worker, k \in Nat : Live(at, w, k, place) =>
    Live(at2, w, k, place)' /\ \A u \in waiting[w] : u.pipe = k => u \in waiting'[w]

LEMMA RequestPersists ==
  ASSUME NEW at, NEW at2, NEW place, Persists(at, at2, place), NEW h, NEW k, RequestAt(at, h, k, place)
  PROVE  RequestAt(at2, h, k, place)'
<1>1. h.src \in Worker /\ k \in Nat /\ Live(at, h.src, k, place)
  BY DEF RequestAt, Live
<1> QED  BY <1>1 DEF RequestAt, Persists

LEMMA ResponsePersists ==
  ASSUME NEW at, NEW at2, NEW place, Persists(at, at2, place), NEW w, NEW k, NEW status, NEW body,
         ResponseAt(at, w, k, place, status, body)
  PROVE  ResponseAt(at2, w, k, place, status, body)'
<1>1. w \in Worker /\ k \in Nat /\ Live(at, w, k, place)
  BY DEF ResponseAt, Live
<1> QED  BY <1>1 DEF ResponseAt, Persists

LEMMA MailPersists ==
  ASSUME NEW at, NEW at2, NEW y, GoodMail(at, y), y.ref # Nil => Persists(at, at2, At(y.ref))
  PROVE  GoodMail(at2, y)'
<1>1. y.ref # Nil /\ y.op = "req" => RequestAt(at2, y.h, y.id, At(y.ref))'
  BY RequestPersists DEF GoodMail
<1>2. y.ref # Nil /\ y.op = "resp" /\ y.h.dst # Nil =>
        ResponseAt(at2, y.h.dst, y.id, At(y.ref), y.h.status, y.body)'
  BY ResponsePersists DEF GoodMail
<1> QED  BY <1>1, <1>2 DEF GoodMail

LEMMA CopiedKept ==
  ASSUME Stable, InUse, InUse', NEW w \in Worker, main'[w] = main[w], Copied(main[w])
  PROVE  Copied(main[w])'
<1>1. /\ main[w].pc \in {"body", "put"} => Used(main[w].tx_header) /\ Used(main[w].tx_header)'
      /\ main[w].pc = "put" => Used(main[w].tx_body) /\ Used(main[w].tx_body)'
  BY DEF InUse, LocalsUsed
<1> QED  BY <1>1 DEF Stable, Used, Copied

LEMMA MainPersists ==
  ASSUME Stable, InUse, InUse', NEW at, NEW at2, NEW w \in Worker, main'[w] = main[w],
         GoodMain(at, w), Persists(at, at2, Writing(w)), waiting'[w] \subseteq waiting[w]
  PROVE  GoodMain(at2, w)'
<1> DEFINE m == main[w]
<1>1. GoodRequest(at2, w, main[w])'
  <2> SUFFICES ASSUME m.pc \in WritePc, m.msg.op = "req"
               PROVE  Live(at2, w, m.msg.req_id, Writing(w))' /\ GoodRequest(at, w, m)
    BY DEF GoodRequest, GoodMain, Asking
  <2>1. Live(at, w, m.msg.req_id, Writing(w)) /\ m.msg.req_id \in Nat
    BY DEF GoodMain, GoodRequest, Live
  <2> QED  BY <2>1 DEF Persists, GoodMain
<1>2. GoodResponse(at2, w, main[w])'
  BY ResponsePersists DEF GoodMain, GoodResponse
<1>3. Copied(main[w])'
  BY CopiedKept DEF GoodMain
<1>4. GoodAnswer(w, main[w])'
  BY DEF GoodMain, GoodAnswer
<1> QED  BY <1>1, <1>2, <1>3, <1>4 DEF GoodMain

LEMMA DeliveredKept ==
  ASSUME Stable, InUse, InUse', NEW w \in Worker, NEW r \in delivered[w], r \in delivered'[w]
  PROVE  ReadSlot(r.desc.header)' = ReadSlot(r.desc.header) /\ ReadSlot(r.desc.body)' = ReadSlot(r.desc.body)
<1>1. Used(r.desc.header) /\ Used(r.desc.body) /\ Used(r.desc.header)' /\ Used(r.desc.body)'
  BY DEF InUse, LocalsUsed
<1> QED  BY <1>1 DEF Stable, Used

(* A worker whose tables do not change, while the messages of its calls    *)
(* move on.                                                                *)
LEMMA TablesKept ==
  ASSUME Shapes, Stable, InUse, InUse', NEW at, NEW at2, NEW w \in Worker, GoodTables(at, w),
         UNCHANGED <<inbound[w], waiting[w], delivered[w], next_req_id[w], response_pipe[w]>>,
         poller'[w].pc = "close" => poller'[w] = poller[w],
         \A k \in Nat : at2[w][k] = Over <=> at[w][k] = Over
  PROVE  GoodTables(at2, w)'
<1>1. GoodInbound(w)' /\ GoodWaiting(w)'
  BY DEF GoodTables, GoodInbound, GoodWaiting
<1>2. \A r \in delivered[w] : r.pipe \in Nat
  BY HostAtIs DEF HostAt, Delivered
<1>3. GoodDelivered(at2, w)'
  <2>1. ASSUME NEW r \in delivered[w]
        PROVE  /\ at2[w][r.pipe] = Over
               /\ \E u \in waiting[w] :
                    u.pipe = r.pipe /\ Saying(ReadSlot(r.desc.header)'.status, ReadSlot(r.desc.body)', u.ctx)
    BY <1>2, DeliveredKept DEF GoodTables, GoodDelivered
  <2> QED  BY <2>1 DEF GoodTables, GoodDelivered, Saying
<1>4. GoodEntries(at2, w)'
  <2>1. response_pipe[w][poller[w].idx] \in Nat
    <3>1. poller[w].idx \in TableIndex
      BY HostAtIs DEF HostAt, PollerShape
    <3> QED  BY <3>1, HostAtIs
  <2> QED  BY <2>1 DEF GoodTables, GoodEntries
<1> QED  BY <1>1, <1>3, <1>4 DEF GoodTables
-----------------------------------------------------------------------------
(* The message of call k of worker w is at another place now.              *)
MovesCall(at, at2, w, k, place) ==
  /\ at2 \in Whereabouts /\ at2[w][k] = place
  /\ \A v \in Worker, j \in Nat : v # w \/ j # k => at2[v][j] = at[v][j]

LEMMA CanMoveCall ==
  ASSUME NEW at \in Whereabouts, NEW w \in Worker, NEW k \in Nat, NEW place \in Place
  PROVE  \E at2 : MovesCall(at, at2, w, k, place)
<1> WITNESS [at EXCEPT ![w][k] = place]
<1> QED  BY DEF MovesCall, Whereabouts

LEMMA Places ==
  /\ \A w \in Worker : Writing(w) \in Place /\ Writing(w) # Over
  /\ \A r \in Ref : At(r) \in Place
  /\ \A r : At(r) # Over
  /\ \A v, w : Writing(v) = Writing(w) => v = w
  /\ \A r, s : At(r) = At(s) => r = s
  /\ \A w, r : Writing(w) # At(r)
  /\ Over \in Place
<1>1. \A w : Writing(w).in = "main" /\ Writing(w).of = w
  BY DEF Writing
<1>2. \A r : At(r).in = "buffer" /\ At(r).of = r
  BY DEF At
<1>3. Over.in = "over"
  BY DEF Over
<1>4. Over \in Place /\ (\A w \in Worker : Writing(w) \in Place) /\ \A r \in Ref : At(r) \in Place
  BY DEF Place
<1> QED  BY <1>1, <1>2, <1>3, <1>4

LEMMA ElsewherePersists ==
  ASSUME NEW at, NEW at2, NEW w \in Worker, NEW k \in Nat, NEW to, MovesCall(at, at2, w, k, to),
         NEW place, at[w][k] # place, UNCHANGED calls, \A v \in Worker : waiting[v] \subseteq waiting'[v]
  PROVE  Persists(at, at2, place)
<1> SUFFICES ASSUME NEW v \in Worker, NEW j \in Nat, Live(at, v, j, place)
             PROVE  Live(at2, v, j, place)' /\ \A u \in waiting[v] : u.pipe = j => u \in waiting'[v]
  BY DEF Persists
<1>1. v # w \/ j # k
  BY DEF Live
<1>2. at2[v][j] = at[v][j]
  BY <1>1 DEF MovesCall
<1> QED  BY <1>2 DEF Live, calls

LEMMA SamePersists ==
  ASSUME UNCHANGED calls, (\A v \in Worker : waiting[v] \subseteq waiting'[v]), NEW at, NEW place
  PROVE  Persists(at, at, place)
BY DEF Persists, Live, calls
-----------------------------------------------------------------------------
(* Letters from step to step.                                              *)
LEMMA LettersIn ==
  /\ TxLetters \subseteq Letters /\ RxLetters \subseteq Letters /\ ArmLetters \subseteq Letters
  /\ Queued(sidecar_tx_sq, Nil) \subseteq Letters /\ RoutedLetters \subseteq Letters
  /\ BridgeLetters \subseteq Letters
  /\ \A w \in Worker : WorkerLetters(w) \subseteq Letters
BY DEF Letters

LEMMA WorkerLettersIn ==
  ASSUME NEW w \in Worker
  PROVE  /\ Queued(tx_sq[w], Nil) \subseteq WorkerLetters(w) /\ Queued(rx_sq[w], w) \subseteq WorkerLetters(w)
         /\ Queued(notify[w], w) \subseteq WorkerLetters(w) /\ PollerLetters(w) \subseteq WorkerLetters(w)
BY DEF WorkerLetters

LEMMA LettersFrom ==
  ASSUME NEW x \in Letters'
  PROVE  \/ x \in TxLetters' \cup RxLetters'
         \/ x \in ArmLetters' \cup Queued(sidecar_tx_sq, Nil)' \cup RoutedLetters' \cup BridgeLetters'
         \/ \E w \in Worker : x \in WorkerLetters(w)'
BY DEF Letters

LEMMA LettersSame ==
  /\ dpaTx' = dpaTx => TxLetters' = TxLetters
  /\ dpaRx' = dpaRx => RxLetters' = RxLetters
  /\ arm' = arm => ArmLetters' = ArmLetters
  /\ sidecar_tx_sq' = sidecar_tx_sq => Queued(sidecar_tx_sq, Nil)' = Queued(sidecar_tx_sq, Nil)
  /\ sidecar_rx_sq' = sidecar_rx_sq => RoutedLetters' = RoutedLetters
  /\ bridge' = bridge => BridgeLetters' = BridgeLetters
  /\ \A w \in Worker : UNCHANGED <<tx_sq[w], rx_sq[w], notify[w], poller[w]>> => WorkerLetters(w)' = WorkerLetters(w)
<1>1. dpaTx' = dpaTx => TxLetters' = TxLetters
  BY DEF TxLetters, TxHeader
<1>2. dpaRx' = dpaRx => RxLetters' = RxLetters
  BY DEF RxLetters, RxHeader, RxBody
<1>3. arm' = arm => ArmLetters' = ArmLetters
  BY DEF ArmLetters
<1>4. /\ sidecar_tx_sq' = sidecar_tx_sq => Queued(sidecar_tx_sq, Nil)' = Queued(sidecar_tx_sq, Nil)
      /\ sidecar_rx_sq' = sidecar_rx_sq => RoutedLetters' = RoutedLetters
  BY DEF Queued, RoutedLetters
<1>5. bridge' = bridge => BridgeLetters' = BridgeLetters
  BY DEF BridgeLetters, BridgeLetter
<1>6. ASSUME NEW w \in Worker, UNCHANGED <<tx_sq[w], rx_sq[w], notify[w], poller[w]>>
      PROVE  WorkerLetters(w)' = WorkerLetters(w)
  BY <1>6 DEF WorkerLetters, Queued, PollerLetters
<1> QED  BY <1>1, <1>2, <1>3, <1>4, <1>5, <1>6

LEMMA FirstLetter ==
  ASSUME NEW D, NEW q \in Seq(D), q # << >>, NEW dst
  PROVE  OnWay(Head(q), dst) \in Queued(q, dst) /\ Queued(Tail(q), dst) \subseteq Queued(q, dst)
BY FirstAndRest DEF Queued

LEMMA LastLetter ==
  ASSUME NEW D, NEW q \in Seq(D), NEW d \in D, NEW dst
  PROVE  Queued(Append(q, d), dst) = Queued(q, dst) \cup {OnWay(d, dst)}
BY Appended DEF Queued

LEMMA OnlyOneTx ==
  ASSUME Shapes, dpaTx.pc \in {"copy", "requeue", "free", "put"}
  PROVE  /\ TxLetters = {Letter(dpaTx.desc, Nil, TxHeader, dpaTx.desc.body)}
         /\ dpaTx.pc # "free" => TxLetters = {OnWay(dpaTx.desc, Nil)}
BY DEF TxLetters, TxHeader, OnWay

LEMMA OnlyOneRx ==
  ASSUME Shapes, dpaRx.pc \in {"body", "requeue", "free_body", "header", "free_header", "put"}
  PROVE  /\ RxLetters = {Letter(dpaRx.desc, dpaRx.desc.dst, RxHeader, RxBody)}
         /\ dpaRx.pc \in {"body", "requeue"} => RxLetters = {OnWay(dpaRx.desc, dpaRx.desc.dst)}
BY DEF RxLetters, RxHeader, RxBody, OnWay

LEMMA HostVars == UNCHANGED hostVars => UNCHANGED <<next_req_id, response_pipe, calls, inbound, notify, delivered, waiting, main, poller>>
BY DEF hostVars, calls, pipes

(* What the daemons and the bridge do to the messages.                     *)
LEMMA DaemonStep ==
  ASSUME Shapes, Stable, InUse, InUse', UNCHANGED hostVars, NEW at, NEW at2 \in Whereabouts, CallsAt(at),
         \A w \in Worker : Persists(at, at2, Writing(w)),
         \A w \in Worker, k \in Nat : at2[w][k] = Over <=> at[w][k] = Over,
         \A y \in Mails' : GoodMail(at2, y)'
  PROVE  Calls'
<1>1. UNCHANGED <<next_req_id, response_pipe, inbound, delivered, waiting, main, poller>>
  BY HostVars
<1>2. ASSUME NEW w \in Worker
      PROVE  GoodMain(at2, w)' /\ GoodTables(at2, w)'
  <2>1. GoodMain(at, w) /\ GoodTables(at, w) /\ Persists(at, at2, Writing(w))
    BY DEF CallsAt
  <2>2. GoodMain(at2, w)'
    BY <1>1, <2>1, MainPersists
  <2>3. GoodTables(at2, w)'
    BY <1>1, <2>1, TablesKept
  <2> QED  BY <2>2, <2>3
<1>3. CallsAt(at2)'
  BY <1>2 DEF CallsAt
<1> QED  BY <1>3 DEF Calls

LEMMA PassedOn ==
  ASSUME Shapes, Stable, InUse, InUse', UNCHANGED hostVars, Calls,
         NEW S, \A at, y : CallsAt(at) /\ y \in S => GoodMail(at, y),
         \A x \in Letters' : x \in Letters \/ Mail(x)' \in S
  PROVE  Calls'
<1>1. PICK at : CallsAt(at)
  BY DEF Calls
<1>2. \A place : Persists(at, at, place)
  BY HostVars, SamePersists
<1>3. ASSUME NEW y \in Mails'
      PROVE  GoodMail(at, y)'
  <2>1. y \in Mails \cup S
    BY MailsAre
  <2>2. GoodMail(at, y)
    BY <1>1, <2>1 DEF CallsAt
  <2> QED  BY <1>2, <2>2, MailPersists
<1>4. at \in Whereabouts
  BY <1>1 DEF CallsAt
<1> QED  BY <1>1, <1>2, <1>3, <1>4, DaemonStep

LEMMA Forwarded ==
  ASSUME Shapes, Stable, InUse, InUse', UNCHANGED hostVars, Calls,
         \A x \in Letters' : x \in Letters \/ Mail(x)' \in Mails
  PROVE  Calls'
<1>1. \A at, y : CallsAt(at) /\ y \in Mails => GoodMail(at, y)
  BY DEF CallsAt
<1> QED  BY <1>1, PassedOn

(* The header of letter y is in a new buffer q now.                        *)
LEMMA CallCopied ==
  ASSUME Shapes, Stable, InUse, InUse', UNCHANGED hostVars, Calls,
         NEW y \in Mails, y.ref # Nil, NEW q \in Ref, NEW z, z = [y EXCEPT !.ref = q],
         \A x \in Letters' : (x \in Letters /\ x.header # y.ref) \/ Mail(x)' = z
  PROVE  Calls'
<1>1. PICK at \in Whereabouts : CallsAt(at)
  BY DEF Calls, CallsAt
<1>2. /\ GoodMail(at, y) /\ q # Nil
      /\ DOMAIN y = {"op", "id", "dst", "ref", "h", "body"}
      /\ z.op = y.op /\ z.id = y.id /\ z.dst = y.dst /\ z.h = y.h /\ z.body = y.body /\ z.ref = q
  <2>1. DOMAIN y = {"op", "id", "dst", "ref", "h", "body"}
    BY DEF Mails, Mail
  <2> QED  BY <1>1, <2>1, DataAssumption DEF CallsAt
<1>3. ASSUME NEW x \in Letters'
      PROVE  \/ Mail(x)' \in Mails /\ Mail(x)'.ref # y.ref
             \/ Mail(x)' = z
  <2>1. CASE x \in Letters /\ x.header # y.ref
    <3>1. Mail(x)' = Mail(x)
      BY <2>1, MailSame
    <3>2. Mail(x) \in Mails /\ Mail(x).ref = x.header
      BY <2>1 DEF Mails, Mail
    <3> QED  BY <2>1, <3>1, <3>2
  <2> QED  BY <2>1
<1>4. \A e \in Mails' : (e \in Mails /\ e.ref # y.ref) \/ e = z
  BY <1>3 DEF Mails
<1>5. CASE y.op = "resp" /\ y.h.dst = Nil
  <2>1. \A place : Persists(at, at, place)
    BY HostVars, SamePersists
  <2>2. GoodMail(at, z)
    BY <1>2, <1>5 DEF GoodMail
  <2>3. \A e \in Mails' : GoodMail(at, e)'
    BY <1>1, <1>4, <2>1, <2>2, MailPersists DEF CallsAt
  <2> QED  BY <1>1, <2>1, <2>3, DaemonStep
<1>6. ASSUME NEW w, NEW k, Live(at, w, k, At(y.ref)),
             \A at2 : Live(at2, w, k, At(q)) => GoodMail(at2, z)
      PROVE  Calls'
  <2>1. w \in Worker /\ k \in Nat /\ at[w][k] = At(y.ref) /\ At(q) \in Place
    BY <1>6, Places DEF Live
  <2>2. PICK at2 : MovesCall(at, at2, w, k, At(q))
    BY <2>1, CanMoveCall
  <2>3. \A place : place # At(y.ref) => Persists(at, at2, place)
    BY <2>1, <2>2, HostVars, ElsewherePersists
  <2>4. Live(at2, w, k, At(q))
    BY <1>6, <2>2 DEF Live, MovesCall
  <2>5. GoodMail(at2, z)'
    <3>1. GoodMail(at2, z)
      BY <1>6, <2>4
    <3>2. \A place : Persists(at2, at2, place)
      BY HostVars, SamePersists
    <3> QED  BY <3>1, <3>2, MailPersists
  <2>6. ASSUME NEW e \in Mails', e # z
        PROVE  GoodMail(at2, e)'
    <3>1. e \in Mails /\ e.ref # y.ref /\ GoodMail(at, e)
      BY <1>1, <1>4, <2>6 DEF CallsAt
    <3>2. At(e.ref) # At(y.ref)
      BY <3>1, Places
    <3> QED  BY <2>3, <3>1, <3>2, MailPersists
  <2>7. \A v \in Worker : Persists(at, at2, Writing(v))
    BY <2>3, Places
  <2>8. \A v \in Worker, j \in Nat : at2[v][j] = Over <=> at[v][j] = Over
    BY <2>1, <2>2, Places DEF MovesCall
  <2>9. at2 \in Whereabouts
    BY <2>2 DEF MovesCall
  <2> QED  BY <1>1, <2>5, <2>6, <2>7, <2>8, <2>9, DaemonStep
<1>7. CASE y.op = "req"
  <2>1. RequestAt(at, y.h, y.id, At(y.ref)) /\ (y.dst # Nil => ServiceOf[y.dst] = y.h.svc)
    BY <1>2, <1>7 DEF GoodMail
  <2>2. \A at2 : Live(at2, y.h.src, y.id, At(q)) => GoodMail(at2, z)
    BY <1>2, <1>7, <2>1 DEF GoodMail, RequestAt
  <2> QED  BY <1>6, <2>1, <2>2 DEF RequestAt
<1>8. CASE y.op = "resp" /\ y.h.dst # Nil
  <2>1. ResponseAt(at, y.h.dst, y.id, At(y.ref), y.h.status, y.body) /\ (y.dst # Nil => y.dst = y.h.dst)
    BY <1>2, <1>8 DEF GoodMail
  <2>2. \A at2 : Live(at2, y.h.dst, y.id, At(q)) => GoodMail(at2, z)
    BY <1>2, <1>8, <2>1 DEF GoodMail, ResponseAt
  <2> QED  BY <1>6, <2>1, <2>2 DEF ResponseAt
<1>9. y.op \in {"req", "resp"}
  BY DEF Mails, Mail, InUse, LettersUsed
<1> QED  BY <1>5, <1>7, <1>8, <1>9
-----------------------------------------------------------------------------
(* The DPA daemon.                                                         *)
TxSame == UNCHANGED <<rx_sq, hostVars, dpaRx, arm, bridge, sidecar_rx_sq>>

LEMMA TxElsewhere ==
  ASSUME TxSame, NEW x \in Letters'
  PROVE  \/ x \in Letters
         \/ x \in TxLetters'
         \/ x \in Queued(sidecar_tx_sq, Nil)' /\ sidecar_tx_sq' # sidecar_tx_sq
         \/ \E w \in Worker : x \in Queued(tx_sq[w], Nil)' /\ tx_sq'[w] # tx_sq[w]
<1>1. UNCHANGED <<notify, poller>>
  BY HostVars DEF TxSame
<1>2. CASE x \in RxLetters' \cup ArmLetters' \cup RoutedLetters' \cup BridgeLetters'
  <2>1. RxLetters' = RxLetters /\ ArmLetters' = ArmLetters /\ RoutedLetters' = RoutedLetters
        /\ BridgeLetters' = BridgeLetters
    BY LettersSame DEF TxSame
  <2> QED  BY <1>2, <2>1, LettersIn
<1>3. ASSUME NEW w \in Worker, x \in WorkerLetters(w)'
      PROVE  x \in WorkerLetters(w) \/ (x \in Queued(tx_sq[w], Nil)' /\ tx_sq'[w] # tx_sq[w])
  BY <1>1, <1>3 DEF WorkerLetters, PollerLetters, TxSame, Queued
<1>4. x \in Queued(sidecar_tx_sq, Nil)' => x \in Letters \/ sidecar_tx_sq' # sidecar_tx_sq
  BY LettersSame, LettersIn
<1> QED  BY <1>2, <1>3, <1>4, LettersFrom, LettersIn

LEMMA TxMoves ==
  ASSUME Shapes, (\E w \in Worker : TxGet(w)) \/ TxRequeue \/ TxFree \/ TxPut \/ TxDrop, DpaOnly
  PROVE  Letters' \subseteq Letters
<1> SUFFICES ASSUME NEW x \in Letters', x \notin Letters
             PROVE  FALSE
  OBVIOUS
<1>1. TxSame
  BY DEF TxSame, DpaOnly, sidecarVars, sqs, TxGet, TxRequeue, TxFree, TxPut, TxDrop
<1>2. \/ x \in TxLetters'
      \/ x \in Queued(sidecar_tx_sq, Nil)' /\ sidecar_tx_sq' # sidecar_tx_sq
      \/ \E w \in Worker : x \in Queued(tx_sq[w], Nil)' /\ tx_sq'[w] # tx_sq[w]
  BY <1>1, TxElsewhere
<1>3. ASSUME NEW w \in Worker, TxGet(w)
      PROVE  FALSE
  <2>1. /\ tx_sq[w] # << >> /\ tx_sq' = [tx_sq EXCEPT ![w] = Tail(@)] /\ sidecar_tx_sq' = sidecar_tx_sq
        /\ dpaTx' = [IdleTx EXCEPT !.pc = "copy", !.src = w, !.desc = Head(tx_sq[w])]
    BY <1>3 DEF TxGet
  <2>2. tx_sq[w] \in Seq(SentDesc(w)) /\ DOMAIN tx_sq = Worker
    BY QueuedDescs
  <2>3. OnWay(Head(tx_sq[w]), Nil) \in Queued(tx_sq[w], Nil) /\ Queued(Tail(tx_sq[w]), Nil) \subseteq Queued(tx_sq[w], Nil)
    BY <2>1, <2>2, FirstLetter
  <2>4. dpaTx'.pc = "copy" /\ dpaTx'.desc = Head(tx_sq[w])
    BY <2>1 DEF IdleTx
  <2>5. TxLetters' = {OnWay(Head(tx_sq[w]), Nil)}
    BY <2>4 DEF TxLetters, TxHeader, OnWay
  <2>6. ASSUME NEW v \in Worker, x \in Queued(tx_sq[v], Nil)', tx_sq'[v] # tx_sq[v]
        PROVE  x \in Queued(tx_sq[w], Nil)
    <3>1. v = w /\ tx_sq'[w] = Tail(tx_sq[w])
      BY <2>1, <2>2, <2>6
    <3> QED  BY <2>3, <2>6, <3>1 DEF Queued
  <2> QED  BY <1>2, <2>1, <2>3, <2>5, <2>6, WorkerLettersIn, LettersIn
<1>4. CASE TxRequeue
  <2> DEFINE s == dpaTx.src
             d == dpaTx.desc
  <2>1. /\ dpaTx.pc = "requeue" /\ dpaTx' = IdleTx /\ sidecar_tx_sq' = sidecar_tx_sq
        /\ tx_sq' = [tx_sq EXCEPT ![s] = PutBack(@, d)]
    BY <1>4 DEF TxRequeue
  <2>2. s \in Worker /\ d \in SentDesc(s)
    BY <2>1, TxIs DEF DpaTxShape
  <2>3. tx_sq[s] \in Seq(SentDesc(s)) /\ DOMAIN tx_sq = Worker
    BY <2>2, QueuedDescs
  <2>4. TxLetters' = {} /\ TxLetters = {OnWay(d, Nil)}
    BY <2>1, OnlyOneTx DEF TxLetters, IdleTx
  <2>5. Queued(Append(tx_sq[s], d), Nil) = Queued(tx_sq[s], Nil) \cup {OnWay(d, Nil)}
    BY <2>2, <2>3, LastLetter
  <2>6. ASSUME NEW v \in Worker, x \in Queued(tx_sq[v], Nil)', tx_sq'[v] # tx_sq[v]
        PROVE  x \in Queued(tx_sq[s], Nil) \cup TxLetters
    <3>1. v = s /\ tx_sq'[s] = Append(tx_sq[s], d)
      BY <2>1, <2>2, <2>3, <2>6 DEF PutBack
    <3> QED  BY <2>4, <2>5, <2>6, <3>1 DEF Queued
  <2> QED  BY <1>2, <2>1, <2>2, <2>4, <2>6, WorkerLettersIn, LettersIn
<1>5. CASE TxFree
  <2>1. /\ dpaTx.pc = "free" /\ sidecar_tx_sq' = sidecar_tx_sq /\ tx_sq' = tx_sq
        /\ dpaTx' = [dpaTx EXCEPT !.pc = "put", !.desc.header = dpaTx.header, !.header = Nil]
    BY <1>5 DEF TxFree, sqs
  <2>2. dpaTx.desc \in Descriptor
    BY <2>1, TxIs, DescKinds DEF DpaTxShape
  <2>3. /\ dpaTx'.pc = "put" /\ dpaTx'.desc.op = dpaTx.desc.op /\ dpaTx'.desc.req_id = dpaTx.desc.req_id
        /\ dpaTx'.desc.body = dpaTx.desc.body /\ dpaTx'.desc.header = dpaTx.header
    BY <2>1, <2>2, TxIs DEF Descriptor
  <2>4. TxLetters' = TxLetters
    BY <2>1, <2>3 DEF TxLetters, TxHeader, Letter
  <2> QED  BY <1>2, <2>1, <2>4, LettersIn
<1>6. CASE TxPut
  <2>1. /\ dpaTx.pc = "put" /\ tx_sq' = tx_sq
        /\ \/ sidecar_tx_sq' = Append(sidecar_tx_sq, dpaTx.desc) /\ dpaTx' = IdleTx
           \/ sidecar_tx_sq' = sidecar_tx_sq /\ dpaTx' = [dpaTx EXCEPT !.pc = "drop"]
    BY <1>6 DEF TxPut
  <2>2. dpaTx.desc \in DpuDesc /\ sidecar_tx_sq \in Seq(DpuDesc)
    BY <2>1, TxIs, SidecarDescs DEF DpaTxShape
  <2>3. dpaTx'.pc \in {"poll", "drop"}
    BY <2>1, TxIs DEF IdleTx
  <2>4. TxLetters' = {} /\ TxLetters = {OnWay(dpaTx.desc, Nil)}
    BY <2>1, <2>3, OnlyOneTx DEF TxLetters
  <2>5. Queued(Append(sidecar_tx_sq, dpaTx.desc), Nil) = Queued(sidecar_tx_sq, Nil) \cup {OnWay(dpaTx.desc, Nil)}
    BY <2>2, LastLetter
  <2>6. x \in Queued(sidecar_tx_sq, Nil)' => x \in Queued(sidecar_tx_sq, Nil) \cup TxLetters
    BY <2>1, <2>4, <2>5 DEF Queued
  <2> QED  BY <1>2, <2>1, <2>4, <2>6, LettersIn
<1>7. CASE TxDrop
  <2>1. dpaTx' = IdleTx /\ sidecar_tx_sq' = sidecar_tx_sq /\ tx_sq' = tx_sq
    BY <1>7 DEF TxDrop, sqs
  <2>2. TxLetters' = {}
    BY <2>1 DEF TxLetters, IdleTx
  <2> QED  BY <1>2, <2>1, <2>2
<1> QED  BY <1>3, <1>4, <1>5, <1>6, <1>7
-----------------------------------------------------------------------------
RxSame == UNCHANGED <<tx_sq, hostVars, dpaTx, arm, bridge, sidecar_tx_sq>>

LEMMA RxElsewhere ==
  ASSUME RxSame, NEW x \in Letters'
  PROVE  \/ x \in Letters
         \/ x \in RxLetters'
         \/ x \in RoutedLetters' /\ sidecar_rx_sq' # sidecar_rx_sq
         \/ \E w \in Worker : x \in Queued(rx_sq[w], w)' /\ rx_sq'[w] # rx_sq[w]
<1>1. UNCHANGED <<notify, poller>>
  BY HostVars DEF RxSame
<1>2. CASE x \in TxLetters' \cup ArmLetters' \cup Queued(sidecar_tx_sq, Nil)' \cup BridgeLetters'
  <2>1. TxLetters' = TxLetters /\ ArmLetters' = ArmLetters
        /\ Queued(sidecar_tx_sq, Nil)' = Queued(sidecar_tx_sq, Nil) /\ BridgeLetters' = BridgeLetters
    BY LettersSame DEF RxSame
  <2> QED  BY <1>2, <2>1, LettersIn
<1>3. ASSUME NEW w \in Worker, x \in WorkerLetters(w)'
      PROVE  x \in WorkerLetters(w) \/ (x \in Queued(rx_sq[w], w)' /\ rx_sq'[w] # rx_sq[w])
  BY <1>1, <1>3 DEF WorkerLetters, PollerLetters, RxSame, Queued
<1>4. x \in RoutedLetters' => x \in Letters \/ sidecar_rx_sq' # sidecar_rx_sq
  BY LettersSame, LettersIn
<1> QED  BY <1>2, <1>3, <1>4, LettersFrom, LettersIn

LEMMA RxMoves ==
  ASSUME Shapes, DpaOnly,
         \/ RxGet \/ RxRequeue \/ RxFreeBody \/ RxFreeHeader \/ RxPut \/ RxDrop
         \/ RxCopyBody /\ dpaRx' = [dpaRx EXCEPT !.pc = "requeue"]
         \/ RxCopyHeader /\ dpaRx' = [dpaRx EXCEPT !.pc = "drop", !.desc = Nil]
  PROVE  Letters' \subseteq Letters
<1> SUFFICES ASSUME NEW x \in Letters', x \notin Letters
             PROVE  FALSE
  OBVIOUS
<1> DEFINE d == dpaRx.desc
           w == dpaRx.desc.dst
<1>1. RxSame
  BY DEF RxSame, DpaOnly, sidecarVars, sqs, RxGet, RxRequeue, RxFreeBody, RxFreeHeader, RxPut, RxDrop,
         RxCopyBody, RxCopyHeader
<1>2. \/ x \in RxLetters'
      \/ x \in RoutedLetters' /\ sidecar_rx_sq' # sidecar_rx_sq
      \/ \E v \in Worker : x \in Queued(rx_sq[v], v)' /\ rx_sq'[v] # rx_sq[v]
  BY <1>1, RxElsewhere
<1>3. sidecar_rx_sq \in Seq(RoutedDesc)
  BY SidecarDescs
<1>4. CASE RxGet
  <2>1. /\ sidecar_rx_sq # << >> /\ sidecar_rx_sq' = Tail(sidecar_rx_sq) /\ rx_sq' = rx_sq
        /\ dpaRx' = [IdleRx EXCEPT !.pc = "body", !.desc = Head(sidecar_rx_sq)]
    BY <1>4 DEF RxGet
  <2>2. Head(sidecar_rx_sq) \in Entries(sidecar_rx_sq) /\ Entries(Tail(sidecar_rx_sq)) \subseteq Entries(sidecar_rx_sq)
    BY <1>3, <2>1, FirstAndRest
  <2>3. dpaRx'.pc = "body" /\ dpaRx'.desc = Head(sidecar_rx_sq)
    BY <2>1 DEF IdleRx
  <2>4. RxLetters' = {OnWay(Head(sidecar_rx_sq), Head(sidecar_rx_sq).dst)}
    BY <2>3 DEF RxLetters, RxHeader, RxBody, OnWay
  <2>5. RoutedLetters' \subseteq RoutedLetters /\ RxLetters' \subseteq RoutedLetters
    BY <2>1, <2>2, <2>4 DEF RoutedLetters
  <2> QED  BY <1>2, <2>1, <2>5, LettersIn
<1>5. CASE RxRequeue
  <2>1. /\ dpaRx.pc = "requeue" /\ dpaRx' = IdleRx /\ rx_sq' = rx_sq
        /\ sidecar_rx_sq' \in {sidecar_rx_sq, Append(sidecar_rx_sq, d)}
    BY <1>5 DEF RxRequeue, PutBack
  <2>2. d \in RoutedDesc
    BY <2>1, RxIs DEF DpaRxShape
  <2>3. RxLetters' = {} /\ RxLetters = {OnWay(d, d.dst)}
    BY <2>1, OnlyOneRx DEF RxLetters, IdleRx
  <2>4. Entries(Append(sidecar_rx_sq, d)) = Entries(sidecar_rx_sq) \cup {d}
    BY <1>3, <2>2, Appended
  <2>5. x \in RoutedLetters' => x \in RoutedLetters \cup RxLetters
    <3> SUFFICES ASSUME NEW e \in Entries(sidecar_rx_sq'), x = OnWay(e, e.dst)
                 PROVE  x \in RoutedLetters \cup RxLetters
      BY DEF RoutedLetters
    <3>1. e \in Entries(sidecar_rx_sq) \/ e = d
      BY <2>1, <2>4
    <3> QED  BY <2>3, <3>1 DEF RoutedLetters
  <2> QED  BY <1>2, <2>1, <2>3, <2>5, LettersIn
<1>6. CASE RxFreeBody
  <2>1. /\ dpaRx.pc = "free_body" /\ rx_sq' = rx_sq /\ sidecar_rx_sq' = sidecar_rx_sq
        /\ dpaRx' = [dpaRx EXCEPT !.desc.body = Nil, !.pc = IF d.case = "ingress" THEN "put" ELSE "header"]
    BY <1>6 DEF RxFreeBody, sqs
  <2>2. d \in RoutedDesc /\ dpaRx.header = Nil
    BY <2>1, RxIs DEF DpaRxShape
  <2>3. d \in Descriptor /\ (d.case = "ingress" => d.header = Nil)
    BY <2>2, RoutedIs
  <2>4. /\ dpaRx'.pc = (IF d.case = "ingress" THEN "put" ELSE "header")
        /\ dpaRx'.desc.op = d.op /\ dpaRx'.desc.req_id = d.req_id /\ dpaRx'.desc.dst = d.dst
        /\ dpaRx'.desc.header = d.header /\ dpaRx'.header = Nil /\ dpaRx'.body = dpaRx.body
    BY <2>1, <2>2, <2>3, RxIs DEF Descriptor
  <2>5. RxHeader' = RxHeader /\ RxBody' = RxBody
    BY <2>1, <2>3, <2>4 DEF RxHeader, RxBody
  <2>6. RxLetters' = RxLetters
    BY <2>1, <2>4, <2>5 DEF RxLetters, Letter
  <2> QED  BY <1>2, <2>1, <2>6, LettersIn
<1>7. CASE RxFreeHeader
  <2>1. /\ dpaRx.pc = "free_header" /\ rx_sq' = rx_sq /\ sidecar_rx_sq' = sidecar_rx_sq
        /\ dpaRx' = [dpaRx EXCEPT !.pc = "put", !.desc.header = Nil]
    BY <1>7 DEF RxFreeHeader, sqs
  <2>2. d \in Descriptor
    BY <2>1, RxIs DEF DpaRxShape, OptDesc
  <2>3. /\ dpaRx'.pc = "put" /\ dpaRx'.desc.op = d.op /\ dpaRx'.desc.req_id = d.req_id /\ dpaRx'.desc.dst = d.dst
        /\ dpaRx'.header = dpaRx.header /\ dpaRx'.body = dpaRx.body
    BY <2>1, <2>2, RxIs DEF Descriptor
  <2>4. RxLetters' = RxLetters
    BY <2>1, <2>3 DEF RxLetters, Letter, RxHeader, RxBody
  <2> QED  BY <1>2, <2>1, <2>4, LettersIn
<1>8. CASE RxPut
  <2>1. dpaRx.pc = "put" /\ sidecar_rx_sq' = sidecar_rx_sq /\ w \in Worker /\ d \in Descriptor
    BY <1>8, RxIs DEF RxPut, DpaRxShape, OptDesc
  <2> DEFINE e == [d EXCEPT !.header = dpaRx.header, !.body = dpaRx.body]
  <2>2. dpaRx'.pc \in {"poll", "drop"}
    BY <1>8, RxIs DEF RxPut, IdleRx
  <2>3. RxLetters' = {}
    BY <2>2 DEF RxLetters
  <2>4. e.op = d.op /\ e.req_id = d.req_id /\ e.header = dpaRx.header /\ e.body = dpaRx.body
    BY <2>1 DEF Descriptor
  <2>5. RxLetters = {OnWay(e, w)}
    BY <2>1, <2>4 DEF RxLetters, RxHeader, RxBody, Letter, OnWay
  <2>6. rx_sq' = rx_sq \/ rx_sq' = [rx_sq EXCEPT ![w] = Append(@, e)]
    BY <1>8 DEF RxPut
  <2>7. e \in ReceivedDesc(w) /\ rx_sq[w] \in Seq(ReceivedDesc(w)) /\ DOMAIN rx_sq = Worker
    BY <2>1, RxPutDesc, QueuedDescs
  <2> HIDE DEF e
  <2>8. Queued(Append(rx_sq[w], e), w) = Queued(rx_sq[w], w) \cup {OnWay(e, w)}
    BY <2>7, LastLetter
  <2>9. ASSUME NEW v \in Worker, x \in Queued(rx_sq[v], v)', rx_sq'[v] # rx_sq[v]
        PROVE  x \in Queued(rx_sq[w], w) \cup RxLetters
    <3>1. v = w /\ rx_sq'[w] = Append(rx_sq[w], e)
      BY <2>6, <2>7, <2>9
    <3> QED  BY <2>5, <2>8, <2>9, <3>1 DEF Queued
  <2> QED  BY <1>2, <2>1, <2>3, <2>9, WorkerLettersIn, LettersIn
<1>9. CASE RxDrop
  <2>1. sidecar_rx_sq' = sidecar_rx_sq /\ rx_sq' = rx_sq /\ dpaRx'.pc \in {"poll", "drop"}
    BY <1>9, RxIs DEF RxDrop, sqs, IdleRx
  <2> QED  BY <1>2, <2>1 DEF RxLetters
<1>10. CASE RxCopyBody /\ dpaRx' = [dpaRx EXCEPT !.pc = "requeue"]
  <2>1. dpaRx.pc = "body" /\ sidecar_rx_sq' = sidecar_rx_sq /\ rx_sq' = rx_sq
    BY <1>10 DEF RxCopyBody, sqs
  <2>2. dpaRx'.pc = "requeue" /\ dpaRx'.desc = d
    BY <1>10, RxIs
  <2>3. RxLetters' = RxLetters
    BY <2>1, <2>2 DEF RxLetters, RxHeader, RxBody
  <2> QED  BY <1>2, <2>1, <2>3, LettersIn
<1>11. CASE RxCopyHeader /\ dpaRx' = [dpaRx EXCEPT !.pc = "drop", !.desc = Nil]
  <2>1. sidecar_rx_sq' = sidecar_rx_sq /\ rx_sq' = rx_sq /\ dpaRx'.pc = "drop"
    BY <1>11, RxIs DEF RxCopyHeader, sqs
  <2> QED  BY <1>2, <2>1 DEF RxLetters
<1> QED  BY <1>4, <1>5, <1>6, <1>7, <1>8, <1>9, <1>10, <1>11
-----------------------------------------------------------------------------
(* The header of letter x is in a new buffer, which makes it letter e, and *)
(* nobody else has the old one.                                            *)
Copies(x, e) ==
  /\ x \in Letters /\ x.header # Nil /\ e \in Letters' /\ e.header \in Ref
  /\ e.op = x.op /\ e.id = x.id /\ e.dst = x.dst /\ e.body = x.body
  /\ ReadSlot(e.header)' = ReadSlot(x.header)
  /\ \A l \in Letters' : l # e => l \in Letters /\ l.header # x.header
HeaderCopied == \E x, e : Copies(x, e)

(* What the copied letter says.                                            *)
LEMMA CopiedMail ==
  ASSUME Stable, InUse, InUse', NEW x, NEW e, Copies(x, e)
  PROVE  Mail(e)' = [Mail(x) EXCEPT !.ref = e.header]
<1>1. PICK b, q : b = x.body /\ q = e.header
  OBVIOUS
<1>2. ReadSlot(b)' = ReadSlot(b)
  <2>1. Used(b) /\ Used(b)'
    BY <1>1 DEF InUse, LettersUsed, Copies
  <2> QED  BY <2>1 DEF Stable, Used
<1>3. q \in Ref /\ q # Nil /\ ReadSlot(q)' = ReadSlot(x.header)
  BY <1>1, DataAssumption DEF Copies
<1>4. Mail(e)' = [op |-> x.op, id |-> x.id, dst |-> x.dst, ref |-> q, h |-> ReadSlot(q)', body |-> ReadSlot(b)']
  BY <1>1, <1>3 DEF Mail, Copies
<1>5. Mail(x) = [op |-> x.op, id |-> x.id, dst |-> x.dst, ref |-> x.header, h |-> ReadSlot(x.header), body |-> ReadSlot(b)]
  BY <1>1 DEF Mail, Copies
<1> QED  BY <1>1, <1>2, <1>3, <1>4, <1>5

LEMMA HeaderCopiedCalls ==
  ASSUME Shapes, Stable, InUse, InUse', UNCHANGED hostVars, Calls, HeaderCopied
  PROVE  Calls'
<1>1. PICK x, e : Copies(x, e)
  BY DEF HeaderCopied
<1>2. PICK y, q : y = Mail(x) /\ q = e.header
  OBVIOUS
<1>3. y \in Mails /\ y.ref = x.header /\ y.ref # Nil /\ q \in Ref
  BY <1>1, <1>2 DEF Mails, Mail, Copies
<1>4. PICK z : z = [y EXCEPT !.ref = q]
  OBVIOUS
<1>5. Mail(e)' = z
  BY <1>1, <1>2, <1>4, CopiedMail
<1>6. \A l \in Letters' : (l \in Letters /\ l.header # y.ref) \/ Mail(l)' = z
  BY <1>1, <1>3, <1>5 DEF Copies
<1> QED  BY <1>3, <1>4, <1>6, CallCopied

LEMMA TxCopies ==
  ASSUME Shapes, NEW own, OwnInv(own), InUse', TxCopy, DpaOnly
  PROVE  Letters' \subseteq Letters \/ HeaderCopied
<1> DEFINE d == dpaTx.desc
<1>1. UNCHANGED hostVars /\ TxSame /\ tx_sq' = tx_sq /\ sidecar_tx_sq' = sidecar_tx_sq /\ dpaTx.pc = "copy"
  BY DEF TxSame, DpaOnly, sidecarVars, sqs, TxCopy
<1>2. \A x \in Letters' : x \in Letters \/ x \in TxLetters'
  BY <1>1, TxElsewhere
<1>3. TxLetters = {OnWay(d, Nil)} /\ d \in Descriptor /\ d.header # Nil
  BY <1>1, OnlyOneTx, TxIs, DescKinds DEF DpaTxShape
<1>4. CASE dpaTx' = [dpaTx EXCEPT !.pc = "requeue"]
  <2>1. dpaTx'.pc = "requeue" /\ dpaTx'.desc = d
    BY <1>4, TxIs
  <2>2. TxLetters' = TxLetters
    BY <1>1, <2>1 DEF TxLetters, TxHeader
  <2> QED  BY <1>1, <1>2, <2>2, LettersIn
<1>5. CASE /\ ~Full(DpuTxHeader) /\ AllocWrite(DpuTxHeader, ReadSlot(d.header))
           /\ dpaTx' = [dpaTx EXCEPT !.pc = "free", !.header = NewRef(DpuTxHeader)]
  <2>1. PICK q \in Ref : q = NewRef(DpuTxHeader) /\ ReadSlot(q)' = ReadSlot(d.header)
    <3>1. DpuTxHeader \in Pool
      BY DEF Pool
    <3>2. PICK x : x = ReadSlot(d.header)
      OBVIOUS
    <3> QED  BY <1>5, <3>1, <3>2, SlotTaken
  <2>2. dpaTx'.pc = "free" /\ dpaTx'.desc = d /\ dpaTx'.header = q
    BY <1>5, <2>1, TxIs
  <2>3. PICK x, e : x = OnWay(d, Nil) /\ e = Letter(d, Nil, q, d.body)
    OBVIOUS
  <2>4. TxLetters' = {e} /\ e \in Letters' /\ x \in Letters
    <3>1. TxLetters' = {e}
      BY <2>2, <2>3 DEF TxLetters, TxHeader
    <3>2. TxLetters' \subseteq Letters'
      BY DEF Letters
    <3> QED  BY <1>3, <2>3, <3>1, <3>2, LettersIn
  <2>5. /\ x.header = d.header /\ e.header = q /\ e.body = x.body
        /\ e.op = x.op /\ e.id = x.id /\ e.dst = x.dst
    BY <2>3 DEF OnWay, Letter
  <2>6. ASSUME NEW l \in Letters', l # e
        PROVE  l \in Letters /\ l.header # x.header
    <3>1. l.header # Nil => l.header # dpaTx'.desc.header
      BY <2>2 DEF InUse, HeadersApart
    <3> QED  BY <1>2, <1>3, <2>2, <2>4, <2>5, <2>6, <3>1
  <2>7. Copies(x, e)
    BY <1>3, <2>1, <2>4, <2>5, <2>6 DEF Copies
  <2> QED  BY <2>7 DEF HeaderCopied
<1> QED  BY <1>4, <1>5 DEF TxCopy

LEMMA RxCopiesHeader ==
  ASSUME Shapes, NEW own, OwnInv(own), InUse', RxCopyHeader, DpaOnly
  PROVE  Letters' \subseteq Letters \/ HeaderCopied
<1> DEFINE d == dpaRx.desc
           p == HostPool(dpaRx.desc.dst, "rx_header")
<1>1. /\ UNCHANGED hostVars /\ RxSame /\ rx_sq' = rx_sq /\ sidecar_rx_sq' = sidecar_rx_sq
      /\ dpaRx.pc = "header"
  BY DEF RxSame, DpaOnly, sidecarVars, sqs, RxCopyHeader
<1>2. \A x \in Letters' : x \in Letters \/ x \in RxLetters'
  BY <1>1, RxElsewhere
<1>3. /\ RxLetters = {Letter(d, d.dst, d.header, dpaRx.body)} /\ d.header # Nil /\ d.dst \in Worker
  BY <1>1, RxIs, DataAssumption DEF RxLetters, RxHeader, RxBody, DpaRxShape
<1>4. CASE dpaRx' = [dpaRx EXCEPT !.pc = "drop", !.desc = Nil]
  BY <1>1, <1>4, RxMoves
<1>5. CASE /\ ~Full(p) /\ AllocWrite(p, ReadSlot(d.header))
           /\ dpaRx' = [dpaRx EXCEPT !.pc = "free_header", !.header = NewRef(p)]
  <2>1. PICK q \in Ref : q = NewRef(p) /\ ReadSlot(q)' = ReadSlot(d.header)
    <3>1. p \in Pool
      BY <1>3, HostPools DEF Kind
    <3>2. PICK x : x = ReadSlot(d.header)
      OBVIOUS
    <3> QED  BY <1>5, <3>1, <3>2, SlotTaken
  <2>2. dpaRx'.pc = "free_header" /\ dpaRx'.desc = d /\ dpaRx'.header = q /\ dpaRx'.body = dpaRx.body
    BY <1>5, <2>1, RxIs
  <2>3. PICK x, e : x = Letter(d, d.dst, d.header, dpaRx.body) /\ e = Letter(d, d.dst, q, dpaRx.body)
    OBVIOUS
  <2>4. RxLetters' = {e} /\ e \in Letters' /\ x \in Letters
    <3>1. RxLetters' = {e}
      BY <2>2, <2>3 DEF RxLetters, RxHeader, RxBody
    <3>2. RxLetters' \subseteq Letters'
      BY DEF Letters
    <3> QED  BY <1>3, <2>3, <3>1, <3>2, LettersIn
  <2>5. /\ x.header = d.header /\ e.header = q /\ e.body = x.body
        /\ e.op = x.op /\ e.id = x.id /\ e.dst = x.dst
    BY <2>3 DEF Letter
  <2>6. ASSUME NEW l \in Letters', l # e
        PROVE  l \in Letters /\ l.header # x.header
    <3>1. l.header # Nil => l.header # dpaRx'.desc.header
      BY <2>2 DEF InUse, HeadersApart
    <3> QED  BY <1>2, <1>3, <2>2, <2>4, <2>5, <2>6, <3>1
  <2>7. Copies(x, e)
    BY <1>3, <2>1, <2>4, <2>5, <2>6 DEF Copies
  <2> QED  BY <2>7 DEF HeaderCopied
<1> QED  BY <1>4, <1>5 DEF RxCopyHeader

LEMMA RxCopiesBody ==
  ASSUME Shapes, NEW own, OwnInv(own), Stable, InUse, InUse', RxCopyBody, DpaOnly
  PROVE  \A x \in Letters' : x \in Letters \/ Mail(x)' \in Mails
<1> DEFINE d == dpaRx.desc
           p == HostPool(dpaRx.desc.dst, "rx_body")
<1>1. /\ UNCHANGED hostVars /\ RxSame /\ rx_sq' = rx_sq /\ sidecar_rx_sq' = sidecar_rx_sq
      /\ dpaRx.pc = "body"
  BY DEF RxSame, DpaOnly, sidecarVars, sqs, RxCopyBody
<1>2. \A x \in Letters' : x \in Letters \/ x \in RxLetters'
  BY <1>1, RxElsewhere
<1>3. RxLetters = {Letter(d, d.dst, d.header, d.body)} /\ d \in RoutedDesc /\ d.dst \in Worker
  BY <1>1, RxIs, RoutedIs DEF RxLetters, RxHeader, RxBody, DpaRxShape
<1>4. CASE dpaRx' = [dpaRx EXCEPT !.pc = "requeue"]
  BY <1>1, <1>4, RxMoves
<1>5. CASE /\ ~Full(p) /\ AllocWrite(p, ReadSlot(d.body))
           /\ dpaRx' = [dpaRx EXCEPT !.pc = "free_body", !.body = NewRef(p)]
  <2>1. PICK q \in Ref : q = NewRef(p) /\ ReadSlot(q)' = ReadSlot(d.body)
    <3>1. p \in Pool
      BY <1>3, HostPools DEF Kind
    <3>2. PICK x : x = ReadSlot(d.body)
      OBVIOUS
    <3> QED  BY <1>5, <3>1, <3>2, SlotTaken
  <2>2. dpaRx'.pc = "free_body" /\ dpaRx'.desc = d /\ dpaRx'.body = q
    BY <1>5, <2>1, RxIs
  <2>3. PICK x, e : x = Letter(d, d.dst, d.header, d.body) /\ e = Letter(d, d.dst, d.header, q)
    OBVIOUS
  <2>4. RxLetters' = {e} /\ e \in Letters' /\ x \in Letters
    <3>1. RxLetters' = {e}
      BY <2>2, <2>3 DEF RxLetters, RxHeader, RxBody
    <3>2. RxLetters' \subseteq Letters'
      BY DEF Letters
    <3> QED  BY <1>3, <2>3, <3>1, <3>2, LettersIn
  <2>5. PICK h, b : h = d.header /\ b = d.body
    OBVIOUS
  <2>6. /\ x.header = h /\ e.header = h /\ x.body = b /\ e.body = q
        /\ e.op = x.op /\ e.id = x.id /\ e.dst = x.dst
    BY <2>3, <2>5 DEF Letter
  <2>7. h # Nil => ReadSlot(h)' = ReadSlot(h)
    <3>1. h # Nil => Used(h) /\ Used(h)'
      BY <2>4, <2>6 DEF InUse, LettersUsed
    <3> QED  BY <3>1 DEF Stable, Used
  <2>8. Mail(e)' = Mail(x) /\ Mail(x) \in Mails
    <3>1. Mail(x) = [op |-> x.op, id |-> x.id, dst |-> x.dst, ref |-> h,
                     h |-> ReadSlot(IF h = Nil THEN b ELSE h), body |-> IF h = Nil THEN Nil ELSE ReadSlot(b)]
      BY <2>6 DEF Mail
    <3>2. Mail(e)' = [op |-> x.op, id |-> x.id, dst |-> x.dst, ref |-> h,
                      h |-> IF h = Nil THEN ReadSlot(q)' ELSE ReadSlot(h)',
                      body |-> IF h = Nil THEN Nil ELSE ReadSlot(q)']
      BY <2>6 DEF Mail
    <3>3. ReadSlot(q)' = ReadSlot(b)
      BY <2>1, <2>5
    <3>4. Mail(x) \in Mails
      BY <2>4 DEF Mails
    <3>5. CASE h = Nil
      BY <3>1, <3>2, <3>3, <3>4, <3>5
    <3>6. CASE h # Nil
      BY <2>7, <3>1, <3>2, <3>3, <3>4, <3>6
    <3> QED  BY <3>5, <3>6
  <2> QED  BY <1>2, <2>4, <2>8
<1> QED  BY <1>4, <1>5 DEF RxCopyBody

LEMMA DpaCalls ==
  ASSUME Shapes, NEW own, OwnInv(own), Stable, InUse, InUse', Calls, DpaStep, DpaOnly
  PROVE  Calls'
<1>1. UNCHANGED hostVars
  BY DEF DpaOnly
<1>2. CASE TxCopy
  BY <1>1, <1>2, TxCopies, Forwarded, HeaderCopiedCalls
<1>3. CASE RxCopyBody
  BY <1>1, <1>3, RxCopiesBody, Forwarded
<1>4. CASE RxCopyHeader
  BY <1>1, <1>4, RxCopiesHeader, Forwarded, HeaderCopiedCalls
<1>5. CASE (\E w \in Worker : TxGet(w)) \/ TxRequeue \/ TxFree \/ TxPut \/ TxDrop
  BY <1>1, <1>5, TxMoves, Forwarded
<1>6. CASE RxGet \/ RxRequeue \/ RxFreeBody \/ RxFreeHeader \/ RxPut \/ RxDrop
  BY <1>1, <1>6, RxMoves, Forwarded
<1> QED  BY <1>2, <1>3, <1>4, <1>5, <1>6 DEF DpaStep, DpaTxStep, DpaRxStep
-----------------------------------------------------------------------------
SidecarSame == UNCHANGED <<tx_sq, rx_sq, hostVars, dpaTx, dpaRx>>

LEMMA SidecarElsewhere ==
  ASSUME SidecarSame, NEW x \in Letters'
  PROVE  \/ x \in Letters
         \/ x \in ArmLetters' /\ arm' # arm
         \/ x \in BridgeLetters' /\ bridge' # bridge
         \/ x \in Queued(sidecar_tx_sq, Nil)' /\ sidecar_tx_sq' # sidecar_tx_sq
         \/ x \in RoutedLetters' /\ sidecar_rx_sq' # sidecar_rx_sq
<1>1. UNCHANGED <<notify, poller>>
  BY HostVars DEF SidecarSame
<1>2. CASE x \in TxLetters' \cup RxLetters'
  <2>1. TxLetters' = TxLetters /\ RxLetters' = RxLetters
    BY LettersSame DEF SidecarSame
  <2> QED  BY <1>2, <2>1, LettersIn
<1>3. ASSUME NEW w \in Worker, x \in WorkerLetters(w)'
      PROVE  x \in WorkerLetters(w)
  BY <1>1, <1>3 DEF WorkerLetters, PollerLetters, SidecarSame, Queued
<1>4. /\ x \in ArmLetters' => x \in Letters \/ arm' # arm
      /\ x \in BridgeLetters' => x \in Letters \/ bridge' # bridge
      /\ x \in Queued(sidecar_tx_sq, Nil)' => x \in Letters \/ sidecar_tx_sq' # sidecar_tx_sq
      /\ x \in RoutedLetters' => x \in Letters \/ sidecar_rx_sq' # sidecar_rx_sq
  BY LettersSame, LettersIn
<1> QED  BY <1>2, <1>3, <1>4, LettersFrom, LettersIn

LEMMA ArmMoves ==
  ASSUME Shapes, SidecarOnly,
         \/ ArmGet \/ ArmPut \/ Cleanup \/ DeliverBody \/ DeliverHeader \/ DeliverEvent
         \/ RouteRequest /\ arm' = [arm EXCEPT !.pc = "cleanup"]
  PROVE  Letters' \subseteq Letters
<1> SUFFICES ASSUME NEW x \in Letters', x \notin Letters
             PROVE  FALSE
  OBVIOUS
<1> DEFINE d == arm.desc
<1>1. SidecarSame /\ bridge' = bridge
  BY DEF SidecarSame, SidecarOnly, dpaVars, shmVars, sqs, ArmGet, ArmPut, Cleanup, DeliverBody, DeliverHeader,
         DeliverEvent, RouteRequest
<1>2. \/ x \in ArmLetters'
      \/ x \in Queued(sidecar_tx_sq, Nil)' /\ sidecar_tx_sq' # sidecar_tx_sq
      \/ x \in RoutedLetters' /\ sidecar_rx_sq' # sidecar_rx_sq
  BY <1>1, SidecarElsewhere
<1>3. sidecar_tx_sq \in Seq(DpuDesc) /\ sidecar_rx_sq \in Seq(RoutedDesc)
  BY SidecarDescs
<1>4. CASE ArmGet
  <2>1. /\ sidecar_tx_sq # << >> /\ sidecar_tx_sq' = Tail(sidecar_tx_sq) /\ sidecar_rx_sq' = sidecar_rx_sq
        /\ arm' = [arm EXCEPT !.pc = "route", !.desc = Head(sidecar_tx_sq)]
    BY <1>4 DEF ArmGet
  <2>2. /\ OnWay(Head(sidecar_tx_sq), Nil) \in Queued(sidecar_tx_sq, Nil)
        /\ Queued(Tail(sidecar_tx_sq), Nil) \subseteq Queued(sidecar_tx_sq, Nil)
    BY <1>3, <2>1, FirstLetter
  <2>3. arm'.pc = "route" /\ arm'.desc = Head(sidecar_tx_sq)
    BY <2>1, ArmIs
  <2>4. ArmLetters' = {OnWay(Head(sidecar_tx_sq), Nil)}
    BY <2>3 DEF ArmLetters
  <2>5. Queued(sidecar_tx_sq, Nil)' \subseteq Queued(sidecar_tx_sq, Nil)
    BY <2>1, <2>2 DEF Queued
  <2> QED  BY <1>2, <2>1, <2>2, <2>4, <2>5, LettersIn
<1>5. CASE ArmPut
  <2>1. /\ arm.pc = "put" /\ sidecar_tx_sq' = sidecar_tx_sq /\ arm'.pc \in {"poll", "cleanup"}
        /\ sidecar_rx_sq' \in {sidecar_rx_sq, Append(sidecar_rx_sq, d)}
    BY <1>5, ArmIs DEF ArmPut, IdleArm
  <2>2. ArmLetters' = {} /\ ArmLetters = {OnWay(d, d.dst)}
    BY <2>1 DEF ArmLetters
  <2>3. d \in RoutedDesc
    BY <2>1, ArmIs DEF ArmShape, RoutedDesc, DpuDesc
  <2>4. Entries(Append(sidecar_rx_sq, d)) = Entries(sidecar_rx_sq) \cup {d}
    BY <1>3, <2>3, Appended
  <2>5. x \in RoutedLetters' => x \in RoutedLetters \cup ArmLetters
    <3> SUFFICES ASSUME NEW e \in Entries(sidecar_rx_sq'), x = OnWay(e, e.dst)
                 PROVE  x \in RoutedLetters \cup ArmLetters
      BY DEF RoutedLetters
    <3>1. e \in Entries(sidecar_rx_sq) \/ e = d
      BY <2>1, <2>4
    <3> QED  BY <2>2, <3>1 DEF RoutedLetters
  <2> QED  BY <1>2, <2>1, <2>2, <2>5, LettersIn
<1>6. CASE \/ Cleanup \/ DeliverBody \/ DeliverHeader \/ DeliverEvent
           \/ RouteRequest /\ arm' = [arm EXCEPT !.pc = "cleanup"]
  <2>1. sidecar_tx_sq' = sidecar_tx_sq /\ sidecar_rx_sq' = sidecar_rx_sq
    BY <1>6 DEF Cleanup, DeliverBody, DeliverHeader, DeliverEvent, RouteRequest, shmVars, sqs
  <2>2. Cleanup => arm'.pc \in {"cleanup", "poll"}
    BY ArmIs DEF Cleanup, IdleArm
  <2>3. DeliverBody \/ DeliverHeader \/ DeliverEvent => arm'.pc \in {"free_header", "wake", "poll"}
    <3>1. DOMAIN arm = {"pc", "desc", "resp"}
      BY ArmIs
    <3>2. DeliverBody => arm'.pc = "free_header"
      BY <3>1 DEF DeliverBody
    <3>3. DeliverHeader => arm'.pc = "wake"
      BY <3>1 DEF DeliverHeader
    <3>4. DeliverEvent => arm' = IdleArm
      BY DEF DeliverEvent
    <3> QED  BY <3>2, <3>3, <3>4 DEF IdleArm
  <2>4. RouteRequest /\ arm' = [arm EXCEPT !.pc = "cleanup"] => arm'.pc = "cleanup"
    BY ArmIs
  <2>5. arm'.pc \in {"cleanup", "free_header", "wake", "poll"}
    BY <1>6, <2>2, <2>3, <2>4
  <2> QED  BY <1>2, <2>1, <2>5 DEF ArmLetters
<1> QED  BY <1>4, <1>5, <1>6

(* The routing thread has chosen a receiver.                               *)
LEMMA Addressed ==
  ASSUME Shapes, SidecarOnly, shmVars' = shmVars, bridge' = bridge,
         arm.pc = "route", NEW v, arm' = [arm EXCEPT !.pc = "put", !.desc.dst = v, !.desc.case = "local"]
  PROVE  \E y \in Mails : /\ y.dst = Nil /\ y.ref # Nil /\ y.op = arm.desc.op /\ y.h = ReadSlot(arm.desc.header)
                          /\ \A l \in Letters' : l \in Letters \/ Mail(l)' = [y EXCEPT !.dst = v]
<1> DEFINE d == arm.desc
<1>1. SidecarSame /\ mem' = mem /\ sidecar_tx_sq' = sidecar_tx_sq /\ sidecar_rx_sq' = sidecar_rx_sq
  BY DEF SidecarSame, SidecarOnly, dpaVars, shmVars, sqs
<1>2. d \in Descriptor /\ d.header # Nil
  BY ArmIs, DescKinds DEF ArmShape
<1>3. /\ arm'.pc = "put" /\ arm'.desc.dst = v /\ arm'.desc.op = d.op /\ arm'.desc.req_id = d.req_id
      /\ arm'.desc.header = d.header /\ arm'.desc.body = d.body
  BY <1>2, ArmIs DEF Descriptor
<1>4. PICK x, e : x = OnWay(d, Nil) /\ e = Letter(d, v, d.header, d.body)
  OBVIOUS
<1>5. ArmLetters' = {e} /\ ArmLetters = {x} /\ x \in Letters
  <2>1. ArmLetters' = {e}
    BY <1>3, <1>4 DEF ArmLetters, OnWay, Letter
  <2>2. ArmLetters = {x}
    BY <1>4 DEF ArmLetters
  <2> QED  BY <2>1, <2>2, LettersIn
<1>6. \A l \in Letters' : l \in Letters \/ l = e
  BY <1>1, <1>5, SidecarElsewhere
<1>7. PICK y : y = Mail(x)
  OBVIOUS
<1>8. y \in Mails /\ y.dst = Nil /\ y.ref = d.header /\ y.op = d.op /\ y.h = ReadSlot(d.header)
  BY <1>2, <1>4, <1>5, <1>7 DEF Mails, Mail, OnWay, Letter
<1>9. Mail(e)' = [y EXCEPT !.dst = v]
  <2>1. ReadSlot(d.header)' = ReadSlot(d.header) /\ ReadSlot(d.body)' = ReadSlot(d.body)
    BY <1>1, <1>3 DEF ReadSlot
  <2>2. PICK h, b : h = d.header /\ b = d.body
    OBVIOUS
  <2>3. ReadSlot(h)' = ReadSlot(h) /\ ReadSlot(b)' = ReadSlot(b)
    BY <1>1 DEF ReadSlot
  <2>4. /\ x.header = h /\ e.header = h /\ x.body = b /\ e.body = b
        /\ e.op = x.op /\ e.id = x.id /\ e.dst = v
    BY <1>4, <2>2 DEF OnWay, Letter
  <2>5. y = [op |-> x.op, id |-> x.id, dst |-> x.dst, ref |-> h, h |-> ReadSlot(h), body |-> ReadSlot(b)]
    BY <1>2, <1>7, <2>2, <2>4 DEF Mail
  <2>6. Mail(e)' = [op |-> x.op, id |-> x.id, dst |-> v, ref |-> h, h |-> ReadSlot(h)', body |-> ReadSlot(b)']
    BY <1>2, <2>2, <2>4 DEF Mail
  <2> QED  BY <2>3, <2>5, <2>6
<1> QED  BY <1>2, <1>6, <1>8, <1>9

LEMMA Rerouted ==
  ASSUME Shapes, InUse, InUse', SidecarOnly, Calls, shmVars' = shmVars, bridge' = bridge,
         arm.pc = "route", NEW v, arm' = [arm EXCEPT !.pc = "put", !.desc.dst = v, !.desc.case = "local"],
         \A at, y : CallsAt(at) /\ GoodMail(at, y) /\ y.dst = Nil /\ y.ref # Nil /\ y.op = arm.desc.op
                      /\ y.h = ReadSlot(arm.desc.header) => GoodMail(at, [y EXCEPT !.dst = v])
  PROVE  Calls'
<1>1. PICK y \in Mails : /\ y.dst = Nil /\ y.ref # Nil /\ y.op = arm.desc.op /\ y.h = ReadSlot(arm.desc.header)
                        /\ \A l \in Letters' : l \in Letters \/ Mail(l)' = [y EXCEPT !.dst = v]
  BY Addressed
<1>2. PICK z : z = [y EXCEPT !.dst = v]
  OBVIOUS
<1>3. \A at, m : CallsAt(at) /\ m \in {z} => GoodMail(at, m)
  BY <1>1, <1>2 DEF CallsAt
<1>4. \A l \in Letters' : l \in Letters \/ Mail(l)' \in {z}
  BY <1>1, <1>2
<1>5. Stable /\ UNCHANGED hostVars
  BY StableSame DEF SidecarOnly, shmVars
<1> QED  BY <1>3, <1>4, <1>5, PassedOn

LEMMA RouteCalls ==
  ASSUME Shapes, NEW own, OwnInv(own), InUse, InUse', Calls, RouteRequest \/ RouteResponse, SidecarOnly
  PROVE  Calls'
<1> DEFINE h == ReadSlot(arm.desc.header)
<1>1. shmVars' = shmVars /\ bridge' = bridge /\ arm.pc = "route"
  BY DEF RouteRequest, RouteResponse
<1>2. CASE RouteRequest /\ arm' = [arm EXCEPT !.pc = "cleanup"]
  <2>1. Letters' \subseteq Letters
    BY <1>2, ArmMoves
  <2>2. Stable /\ UNCHANGED hostVars
    BY <1>1, StableSame DEF SidecarOnly, shmVars
  <2> QED  BY <2>1, <2>2, Forwarded
<1>3. ASSUME RouteRequest, WorkersOf(h.svc) # {},
             arm' = [arm EXCEPT !.pc = "put", !.desc.dst = Selected(h.svc), !.desc.case = "local"]
      PROVE  Calls'
  <2>1. h.svc \in Service
    BY <1>3, ShmAssumption DEF WorkersOf
  <2>2. PICK v : v = Selected(h.svc)
    OBVIOUS
  <2>3. v \in Worker /\ ServiceOf[v] = h.svc
    BY <1>3, <2>1, <2>2, SelectedIs
  <2>4. arm.desc.op = "req"
    BY <1>3 DEF RouteRequest
  <2>5. ASSUME NEW at, NEW y, GoodMail(at, y), y.ref # Nil, y.op = "req", y.h = h
        PROVE  GoodMail(at, [y EXCEPT !.dst = v])
    <3>1. PICK z : z = [y EXCEPT !.dst = v]
      OBVIOUS
    <3>2. z.ref = y.ref /\ z.op = y.op /\ z.h = y.h /\ z.id = y.id /\ (z.dst = v \/ z.dst = y.dst)
      BY <3>1
    <3>3. GoodMail(at, z)
      BY <2>3, <2>5, <3>2 DEF GoodMail
    <3> QED  BY <3>1, <3>3
  <2> QED  BY <1>1, <1>3, <2>2, <2>4, <2>5, Rerouted
<1>4. CASE RouteResponse
  <2>1. /\ arm.desc.op = "resp" /\ arm' = [arm EXCEPT !.pc = "put", !.desc.dst = h.dst, !.desc.case = "local"]
    BY <1>4 DEF RouteResponse
  <2>2. ASSUME NEW at, NEW y, GoodMail(at, y), y.ref # Nil, y.op = "resp", y.h = h
        PROVE  GoodMail(at, [y EXCEPT !.dst = h.dst])
    <3>1. PICK z : z = [y EXCEPT !.dst = h.dst]
      OBVIOUS
    <3>2. z.ref = y.ref /\ z.op = y.op /\ z.h = y.h /\ z.id = y.id /\ z.body = y.body /\ (z.dst = h.dst \/ z.dst = y.dst)
      BY <3>1
    <3>3. GoodMail(at, z)
      BY <2>2, <3>2 DEF GoodMail
    <3> QED  BY <3>1, <3>3
  <2> QED  BY <1>1, <2>1, <2>2, Rerouted
<1> QED  BY <1>2, <1>3, <1>4 DEF RouteRequest
-----------------------------------------------------------------------------
LEMMA BridgeMoves ==
  ASSUME Shapes, SidecarOnly, NEW c \in Client,
         \/ BridgeRegister(c) \/ BridgePut(c) \/ BridgeUndo(c) \/ BridgeAnswer(c) \/ BridgeTimeout(c)
         \/ BridgeExpire(c)
         \/ BridgeAlloc(c) /\ bridge'[c].pc # "put"
  PROVE  Letters' \subseteq Letters
<1> SUFFICES ASSUME NEW x \in Letters', x \notin Letters
             PROVE  FALSE
  OBVIOUS
<1>1. SidecarSame /\ arm' = arm /\ sidecar_tx_sq' = sidecar_tx_sq
  BY DEF SidecarSame, SidecarOnly, dpaVars, shmVars, sqs, BridgeRegister, BridgePut, BridgeUndo, BridgeAnswer,
         BridgeTimeout, BridgeExpire, BridgeAlloc
<1>2. \/ x \in BridgeLetters'
      \/ x \in RoutedLetters' /\ sidecar_rx_sq' # sidecar_rx_sq
  BY <1>1, SidecarElsewhere
<1>3. /\ \A b \in Client : b # c => bridge'[b] = bridge[b]
      /\ bridge'[c].pc # "put"
  <2>1. DOMAIN bridge = Client /\ DOMAIN bridge[c] = {"pc", "dst", "body", "answer"}
    BY BridgeIs
  <2>2. CASE BridgeRegister(c)
    BY <2>1, <2>2 DEF BridgeRegister, Answer
  <2>3. CASE BridgePut(c) \/ BridgeUndo(c) \/ BridgeAnswer(c)
    BY <2>1, <2>3 DEF BridgePut, BridgeUndo, BridgeAnswer, Answer
  <2>4. CASE BridgeTimeout(c) \/ BridgeExpire(c)
    BY <2>1, <2>4 DEF BridgeTimeout, BridgeExpire, Answer
  <2>5. CASE BridgeAlloc(c) /\ bridge'[c].pc # "put"
    BY <2>1, <2>5 DEF BridgeAlloc, Answer
  <2> QED  BY <2>2, <2>3, <2>4, <2>5
<1>4. BridgeLetters' \subseteq BridgeLetters
  BY <1>3 DEF BridgeLetters, BridgeLetter
<1>5. sidecar_rx_sq' # sidecar_rx_sq => BridgePut(c)
  BY DEF shmVars, sqs, BridgeRegister, BridgePut, BridgeUndo, BridgeAnswer, BridgeTimeout, BridgeExpire, BridgeAlloc
<1>6. ASSUME BridgePut(c), x \in RoutedLetters', sidecar_rx_sq' # sidecar_rx_sq
      PROVE  x \in RoutedLetters \cup BridgeLetters
  <2> DEFINE d == [op |-> "req", case |-> "ingress", req_id |-> 0, dst |-> bridge[c].dst,
                   header |-> Nil, body |-> bridge[c].body]
  <2>1. bridge[c].pc = "put" /\ sidecar_rx_sq' = Append(sidecar_rx_sq, d)
    BY <1>6 DEF BridgePut
  <2>2. bridge[c].dst \in Worker /\ bridge[c].body \in Ref /\ bridge[c].body.pool = DpuRxBody
    BY <2>1, BridgeIs DEF BridgeShape
  <2>3. d \in RoutedDesc
    BY <2>2 DEF RoutedDesc, Descriptor, Ingress, OptRef
  <2>4. BridgeLetter(c) = OnWay(d, d.dst) /\ BridgeLetter(c) \in BridgeLetters
    BY <2>1 DEF BridgeLetter, OnWay, Letter, BridgeLetters
  <2> HIDE DEF d
  <2>5. Entries(sidecar_rx_sq') = Entries(sidecar_rx_sq) \cup {d}
    BY <2>1, <2>3, SidecarDescs, Appended
  <2> QED  BY <1>6, <2>4, <2>5 DEF RoutedLetters
<1> QED  BY <1>2, <1>4, <1>5, <1>6, LettersIn

(* A request comes from the bridge.                                        *)
LEMMA BridgeWrites ==
  ASSUME Shapes, NEW own, OwnInv(own), NEW c \in Client, BridgeAlloc(c), bridge'[c].pc = "put", SidecarOnly
  PROVE  \E z : /\ z.op = "req" /\ z.ref = Nil /\ z.dst = bridge[c].dst
                /\ z.h = [ask |-> Asks[c], svc |-> "frontend", name |-> c, status |-> 0,
                          rid |-> c, src |-> Nil, dst |-> bridge[c].dst]
                /\ \A l \in Letters' : l \in Letters \/ Mail(l)' = z
<1> DEFINE message == [ask |-> Asks[c], svc |-> "frontend", name |-> c, status |-> 0,
                       rid |-> c, src |-> Nil, dst |-> bridge[c].dst]
<1>1. DOMAIN bridge = Client /\ DOMAIN bridge[c] = {"pc", "dst", "body", "answer"}
  BY BridgeIs
<1>2. /\ bridge[c].pc = "alloc" /\ ~Full(DpuRxBody) /\ AllocWrite(DpuRxBody, message)
      /\ bridge' = [bridge EXCEPT ![c].pc = "put", ![c].body = NewRef(DpuRxBody)]
  BY <1>1 DEF BridgeAlloc, Answer
<1>3. PICK q \in Ref : q = NewRef(DpuRxBody) /\ ReadSlot(q)' = message
  <2>1. DpuRxBody \in Pool
    BY DEF Pool
  <2>2. PICK m : m = message
    OBVIOUS
  <2> QED  BY <1>2, <2>1, <2>2, SlotTaken
<1>4. PICK e : e = [op |-> "req", id |-> 0, dst |-> bridge[c].dst, header |-> Nil, body |-> q]
  OBVIOUS
<1>5. /\ \A b \in Client : b # c => bridge'[b] = bridge[b]
      /\ bridge'[c].dst = bridge[c].dst /\ bridge'[c].body = q
  BY <1>1, <1>2, <1>3
<1>6. BridgeLetters' \subseteq BridgeLetters \cup {e}
  BY <1>4, <1>5 DEF BridgeLetters, BridgeLetter
<1>7. SidecarSame /\ arm' = arm /\ sidecar_tx_sq' = sidecar_tx_sq /\ sidecar_rx_sq' = sidecar_rx_sq
  BY DEF BridgeAlloc, SidecarSame, SidecarOnly, dpaVars, sqs
<1>8. \A l \in Letters' : l \in Letters \/ l = e
  BY <1>6, <1>7, SidecarElsewhere, LettersIn
<1>9. PICK z : z = Mail(e)'
  OBVIOUS
<1>10. z.op = "req" /\ z.ref = Nil /\ z.dst = bridge[c].dst /\ z.h = message
  BY <1>3, <1>4, <1>9 DEF Mail
<1> QED  BY <1>8, <1>9, <1>10

LEMMA BridgeAllocCalls ==
  ASSUME Shapes, NEW own, OwnInv(own), Stable, InUse, InUse', Calls, BridgeRoutes,
         NEW c \in Client, BridgeAlloc(c), SidecarOnly
  PROVE  Calls'
<1>1. UNCHANGED hostVars
  BY DEF SidecarOnly
<1>2. CASE bridge'[c].pc # "put"
  BY <1>1, <1>2, BridgeMoves, Forwarded
<1>3. ASSUME bridge'[c].pc = "put"
      PROVE  Calls'
  <2>1. PICK z : /\ z.op = "req" /\ z.ref = Nil /\ z.dst = bridge[c].dst
                 /\ z.h = [ask |-> Asks[c], svc |-> "frontend", name |-> c, status |-> 0,
                           rid |-> c, src |-> Nil, dst |-> bridge[c].dst]
                 /\ \A l \in Letters' : l \in Letters \/ Mail(l)' = z
    BY <1>3, BridgeWrites
  <2>2. z.h.src = Nil /\ bridge[c].pc = "alloc"
    BY <2>1 DEF BridgeAlloc
  <2>3. \A at, y : CallsAt(at) /\ y \in {z} => GoodMail(at, y)
    BY <2>1, <2>2 DEF GoodMail, BridgeRoutes
  <2>4. \A l \in Letters' : l \in Letters \/ Mail(l)' \in {z}
    BY <2>1
  <2> QED  BY <1>1, <2>3, <2>4, PassedOn
<1> QED  BY <1>2, <1>3

LEMMA SidecarCalls ==
  ASSUME Shapes, NEW own, OwnInv(own), Stable, InUse, InUse', CallInv, SidecarStep, SidecarOnly
  PROVE  Calls'
<1>1. UNCHANGED hostVars /\ Calls /\ BridgeRoutes
  BY DEF SidecarOnly, CallInv
<1>2. CASE ArmGet \/ ArmPut \/ Cleanup \/ DeliverBody \/ DeliverHeader \/ DeliverEvent
  BY <1>1, <1>2, ArmMoves, Forwarded
<1>3. CASE RouteRequest \/ RouteResponse
  BY <1>1, <1>3, RouteCalls
<1>4. ASSUME NEW c \in Client, BridgeStep(c) \/ BridgeTimeout(c)
      PROVE  Calls'
  <2>1. CASE BridgeAlloc(c)
    BY <1>1, <2>1, BridgeAllocCalls
  <2>2. CASE ~BridgeAlloc(c)
    BY <1>1, <1>4, <2>2, BridgeMoves, Forwarded DEF BridgeStep
  <2> QED  BY <2>1, <2>2
<1> QED  BY <1>2, <1>3, <1>4 DEF SidecarStep, Arm

LEMMA RoutesKept ==
  ASSUME Shapes, BridgeRoutes, [Next]_vars
  PROVE  BridgeRoutes'
<1>1. CASE bridge' = bridge
  BY <1>1 DEF BridgeRoutes
<1>2. ASSUME NEW c \in Client, BridgeStep(c) \/ BridgeTimeout(c)
      PROVE  BridgeRoutes'
  <2>1. DOMAIN bridge = Client /\ DOMAIN bridge[c] = {"pc", "dst", "body", "answer"}
    BY BridgeIs
  <2>2. CASE BridgeRegister(c)
    <3>1. WorkersOf(Target(c)) # {} => Target(c) \in Service
      BY ShmAssumption DEF WorkersOf
    <3>2. Target(c) \in Service => Target(c) = "frontend"
      BY ShmAssumption DEF Target
    <3>3. WorkersOf(Target(c)) # {} => ServiceOf[Selected(Target(c))] = "frontend"
      BY <3>1, <3>2, SelectedIs
    <3>4. \A b \in Client : /\ b # c => bridge'[b] = bridge[b]
                            /\ bridge'[c].pc = "alloc" =>
                                 WorkersOf(Target(c)) # {} /\ bridge'[c].dst = Selected(Target(c))
      BY <2>1, <2>2 DEF BridgeRegister, Answer
    <3> QED  BY <3>3, <3>4 DEF BridgeRoutes
  <2>3. CASE BridgeAlloc(c) \/ BridgePut(c) \/ BridgeUndo(c)
    <3>1. bridge'[c].pc # "alloc" /\ \A b \in Client : b # c => bridge'[b] = bridge[b]
      BY <2>1, <2>3 DEF BridgeAlloc, BridgePut, BridgeUndo, Answer
    <3> QED  BY <3>1 DEF BridgeRoutes
  <2>4. CASE BridgeAnswer(c) \/ BridgeTimeout(c) \/ BridgeExpire(c)
    <3>1. bridge'[c].pc # "alloc" /\ \A b \in Client : b # c => bridge'[b] = bridge[b]
      BY <2>1, <2>4 DEF BridgeAnswer, BridgeTimeout, BridgeExpire, Answer
    <3> QED  BY <3>1 DEF BridgeRoutes
  <2> QED  BY <1>2, <2>2, <2>3, <2>4 DEF BridgeStep
<1>3. CASE Arm
  BY <1>1, <1>3 DEF Arm, ArmGet, RouteRequest, RouteResponse, ArmPut, Cleanup, DeliverBody, DeliverHeader, DeliverEvent
<1>4. HostOnly \/ DpaOnly \/ UNCHANGED vars => bridge' = bridge
  BY DEF HostOnly, DpaOnly, vars, sidecarVars
<1> QED  BY <1>1, <1>2, <1>3, <1>4 DEF Next, SidecarStep, Rest
-----------------------------------------------------------------------------
(* The workers.                                                            *)
LEMMA WorkerElsewhere ==
  ASSUME HostOnly, UNCHANGED <<sidecar_tx_sq, sidecar_rx_sq>>, NEW w \in Worker,
         \A v \in Worker : v # w =>
           tx_sq'[v] = tx_sq[v] /\ rx_sq'[v] = rx_sq[v] /\ notify'[v] = notify[v] /\ poller'[v] = poller[v],
         NEW x \in Letters'
  PROVE  x \in Letters \/ x \in WorkerLetters(w)'
<1>1. CASE x \notin UNION {WorkerLetters(v)' : v \in Worker}
  <2>1. /\ TxLetters' = TxLetters /\ RxLetters' = RxLetters /\ ArmLetters' = ArmLetters
        /\ Queued(sidecar_tx_sq, Nil)' = Queued(sidecar_tx_sq, Nil) /\ RoutedLetters' = RoutedLetters
        /\ BridgeLetters' = BridgeLetters
    BY LettersSame DEF HostOnly, dpaVars, sidecarVars
  <2> QED  BY <1>1, <2>1, LettersFrom, LettersIn
<1>2. ASSUME NEW v \in Worker, v # w, x \in WorkerLetters(v)'
      PROVE  x \in Letters
  BY <1>2, LettersSame, LettersIn
<1> QED  BY <1>1, <1>2

LEMMA PollerMoves ==
  ASSUME Shapes, NEW w \in Worker, Poller(w), HostOnly
  PROVE  Letters' \subseteq Letters
<1> SUFFICES ASSUME NEW x \in Letters', x \notin Letters
             PROVE  FALSE
  OBVIOUS
<1>1. DOMAIN rx_sq = Worker /\ DOMAIN notify = Worker /\ DOMAIN poller = Worker /\ DOMAIN poller[w] = {"pc", "desc", "idx"}
  BY QueuedDescs, HostAtIs DEF HostAt, PollerShape
<1>2. UNCHANGED <<tx_sq, sidecar_tx_sq, sidecar_rx_sq>>
  BY DEF Poller, PollerGet, PollerNotify, PollerDeliver, PollerDrop, PollerClose, shmVars, sqs
<1>3. \A v \in Worker : v # w => rx_sq'[v] = rx_sq[v] /\ notify'[v] = notify[v] /\ poller'[v] = poller[v]
  BY <1>1 DEF Poller, PollerGet, PollerNotify, PollerDeliver, PollerDrop, PollerClose, shmVars, sqs, pipes
<1>4. x \in WorkerLetters(w)'
  BY <1>2, <1>3, WorkerElsewhere
<1>5. CASE PollerGet(w)
  <2>1. /\ rx_sq[w] # << >> /\ rx_sq'[w] = Tail(rx_sq[w]) /\ notify' = notify
        /\ poller'[w].pc = "dispatch" /\ poller'[w].desc = Head(rx_sq[w])
    BY <1>1, <1>5 DEF PollerGet, pipes
  <2>2. OnWay(Head(rx_sq[w]), w) \in Queued(rx_sq[w], w) /\ Queued(Tail(rx_sq[w]), w) \subseteq Queued(rx_sq[w], w)
    BY <2>1, QueuedDescs, FirstLetter
  <2>3. WorkerLetters(w)' \subseteq WorkerLetters(w)
    BY <1>2, <2>1, <2>2 DEF WorkerLetters, PollerLetters, Queued
  <2> QED  BY <1>4, <2>3, LettersIn
<1>6. CASE ~PollerGet(w)
  <2>1. rx_sq' = rx_sq /\ poller'[w].pc # "dispatch"
    BY <1>1, <1>6 DEF Poller, PollerNotify, PollerDeliver, PollerDrop, PollerClose, shmVars, sqs, IdlePoller
  <2>2. PollerLetters(w)' = {}
    BY <2>1 DEF PollerLetters
  <2>3. notify'[w] = notify[w] \/ (PollerNotify(w) /\ notify'[w] = Append(notify[w], poller[w].desc))
    <3>1. PollerNotify(w) => notify'[w] \in {notify[w], Append(notify[w], poller[w].desc)}
      BY <1>1 DEF PollerNotify
    <3>2. PollerDeliver(w) \/ PollerDrop(w) \/ PollerClose(w) => notify' = notify
      BY DEF PollerDeliver, PollerDrop, PollerClose, pipes
    <3> QED  BY <1>6, <3>1, <3>2 DEF Poller
  <2>4. Queued(notify[w], w)' \subseteq Queued(notify[w], w) \cup PollerLetters(w)
    <3> DEFINE D == {d \in ReceivedDesc(w) : d.op = "req"}
    <3>1. notify[w] \in Seq(D)
      BY HostAtIs DEF HostAt
    <3>2. PollerNotify(w) => poller[w].desc \in D /\ PollerLetters(w) = {OnWay(poller[w].desc, w)}
      BY HostAtIs DEF HostAt, PollerShape, PollerNotify, PollerLetters
    <3> HIDE DEF D
    <3>3. PollerNotify(w) => Queued(Append(notify[w], poller[w].desc), w) = Queued(notify[w], w) \cup PollerLetters(w)
      BY <3>1, <3>2, LastLetter
    <3> QED  BY <2>3, <3>3 DEF Queued
  <2>5. WorkerLetters(w)' \subseteq WorkerLetters(w)
    BY <1>2, <2>1, <2>2, <2>4 DEF WorkerLetters, Queued
  <2> QED  BY <1>4, <2>5, LettersIn
<1> QED  BY <1>5, <1>6

LEMMA MainMoves ==
  ASSUME Shapes, NEW w \in Worker, Main(w), HostOnly, Enqueue(w) => tx_sq' = tx_sq
  PROVE  Letters' \subseteq Letters
<1> SUFFICES ASSUME NEW x \in Letters', x \notin Letters
             PROVE  FALSE
  OBVIOUS
<1>1. DOMAIN notify = Worker
  BY HostAtIs
<1>2. sqs' = sqs /\ poller' = poller
  BY DEF Main, OnRequest, OnResponse, Upstream, FreeRxHeader, FreeRxBody, WriteHeader, WriteBody, Enqueue,
         UndoHeader, UndoBody, WriteFailed, shmVars, sqs
<1>3. notify' = notify \/ (notify[w] # << >> /\ notify' = [notify EXCEPT ![w] = Tail(@)])
  BY DEF Main, OnRequest, OnResponse, Upstream, FreeRxHeader, FreeRxBody, WriteHeader, WriteBody, Enqueue,
         UndoHeader, UndoBody, WriteFailed, pipes
<1>4. x \in WorkerLetters(w)'
  <2>1. \A v \in Worker : v # w => notify'[v] = notify[v]
    BY <1>1, <1>3
  <2> QED  BY <1>2, <2>1, WorkerElsewhere DEF sqs
<1>5. Queued(notify[w], w)' \subseteq Queued(notify[w], w)
  <2>1. notify[w] # << >> => Queued(Tail(notify[w]), w) \subseteq Queued(notify[w], w)
    BY HostAtIs, FirstLetter DEF HostAt
  <2> QED  BY <1>1, <1>3, <2>1 DEF Queued
<1>6. WorkerLetters(w)' \subseteq WorkerLetters(w)
  BY <1>2, <1>5 DEF WorkerLetters, PollerLetters, Queued, sqs
<1> QED  BY <1>4, <1>6, LettersIn

(* What worker w does, its calls and tables apart, leaves the others as    *)
(* they are.                                                               *)
OthersSame(w) ==
  \A v \in Worker : v # w =>
    UNCHANGED <<main[v], inbound[v], waiting[v], delivered[v], next_req_id[v], response_pipe[v], poller[v]>>

LEMMA WorkersAlone ==
  ASSUME Shapes, NEW w \in Worker, Poller(w) \/ Main(w)
  PROVE  OthersSame(w)
<1>1. /\ DOMAIN main = Worker /\ DOMAIN inbound = Worker /\ DOMAIN waiting = Worker /\ DOMAIN delivered = Worker
      /\ DOMAIN next_req_id = Worker /\ DOMAIN response_pipe = Worker /\ DOMAIN poller = Worker
  BY HostAtIs
<1>2. CASE Poller(w)
  BY <1>1, <1>2 DEF Poller, PollerGet, PollerNotify, PollerDeliver, PollerDrop, PollerClose, OthersSame, calls, pipes
<1>3. CASE OnRequest(w)
  BY <1>1, <1>3 DEF OnRequest, StartRespond, StartCall, OthersSame, calls
<1>4. CASE OnResponse(w)
  BY <1>1, <1>4 DEF OnResponse, OthersSame, calls
<1>5. CASE Upstream(w)
  BY <1>1, <1>5 DEF Upstream, StartRespond, StartCall, OthersSame, calls, pipes
<1>6. CASE WriteFailed(w)
  BY <1>1, <1>6 DEF WriteFailed, StartRespond, OthersSame, calls, pipes
<1>7. CASE FreeRxHeader(w) \/ FreeRxBody(w) \/ WriteHeader(w) \/ WriteBody(w)
  BY <1>1, <1>7 DEF FreeRxHeader, FreeRxBody, WriteHeader, WriteBody, OthersSame, calls, pipes
<1>8. CASE Enqueue(w) \/ UndoHeader(w) \/ UndoBody(w)
  BY <1>1, <1>8 DEF Enqueue, UndoHeader, UndoBody, OthersSame, calls, pipes
<1> QED  BY <1>2, <1>3, <1>4, <1>5, <1>6, <1>7, <1>8 DEF Main

LEMMA WorkerStep ==
  ASSUME Shapes, Stable, InUse, InUse', NEW at, CallsAt(at), NEW at2 \in Whereabouts, NEW w \in Worker, OthersSame(w),
         \A v \in Worker : v # w => Persists(at, at2, Writing(v)),
         \A v \in Worker, k \in Nat : v # w => (at2[v][k] = Over <=> at[v][k] = Over),
         \A y \in Mails' : GoodMail(at2, y)',
         GoodMain(at2, w)', GoodTables(at2, w)'
  PROVE  Calls'
<1>1. ASSUME NEW v \in Worker, v # w
      PROVE  GoodMain(at2, v)' /\ GoodTables(at2, v)'
  <2>1. GoodMain(at, v) /\ GoodTables(at, v) /\ Persists(at, at2, Writing(v))
    BY <1>1 DEF CallsAt
  <2>2. UNCHANGED <<main[v], inbound[v], waiting[v], delivered[v], next_req_id[v], response_pipe[v], poller[v]>>
    BY <1>1 DEF OthersSame
  <2>3. GoodMain(at2, v)'
    BY <2>1, <2>2, MainPersists
  <2>4. GoodTables(at2, v)'
    BY <1>1, <2>1, <2>2, TablesKept
  <2> QED  BY <2>3, <2>4
<1>2. CallsAt(at2)'
  BY <1>1 DEF CallsAt
<1> QED  BY <1>2 DEF Calls

(* The mails that stay where they are.                                     *)
LEMMA MailsStay ==
  ASSUME Stable, InUse, InUse', NEW at, CallsAt(at), NEW at2, Letters' \subseteq Letters,
         \A x \in Letters' : x.header # Nil => Persists(at, at2, At(x.header))
  PROVE  \A y \in Mails' : GoodMail(at2, y)'
<1> SUFFICES ASSUME NEW y \in Mails'
             PROVE  GoodMail(at2, y)'
  OBVIOUS
<1>1. PICK x \in Letters' : y = Mail(x)'
  BY DEF Mails
<1>2. x \in Letters /\ Mail(x)' = Mail(x)
  BY MailSame
<1>3. y = Mail(x) /\ y \in Mails /\ y.ref = x.header
  BY <1>1, <1>2 DEF Mails, Mail
<1>4. GoodMail(at, y) /\ (y.ref # Nil => Persists(at, at2, At(y.ref)))
  BY <1>3 DEF CallsAt
<1> QED  BY <1>4, MailPersists
-----------------------------------------------------------------------------
LEMMA TablesMoved ==
  ASSUME Shapes, Shapes', Stable, InUse, InUse', NEW at, NEW at2, NEW w \in Worker, GoodTables(at, w), GoodInbound(w)',
         waiting'[w] = waiting[w], delivered'[w] = delivered[w], next_req_id[w] <= next_req_id'[w],
         \A u \in waiting[w] : at[w][u.pipe] = Over => at2[w][u.pipe] = Over,
         GoodEntries(at2, w)'
  PROVE  GoodTables(at2, w)'
<1>1. next_req_id[w] \in Nat /\ next_req_id'[w] \in Nat
  <2>1. next_req_id \in [Worker -> Nat \ {0}] /\ next_req_id' \in [Worker -> Nat \ {0}]
    BY DEF Shapes, HostShapes
  <2> QED  BY <2>1
<1>2. GoodWaiting(w)'
  BY <1>1 DEF GoodTables, GoodWaiting
<1>3. GoodDelivered(at2, w)'
  <2>1. ASSUME NEW r \in delivered[w]
        PROVE  /\ at2[w][r.pipe] = Over
               /\ \E u \in waiting[w] :
                    u.pipe = r.pipe /\ Saying(ReadSlot(r.desc.header)'.status, ReadSlot(r.desc.body)', u.ctx)
    <3>1. /\ at[w][r.pipe] = Over
          /\ \E u \in waiting[w] : u.pipe = r.pipe /\ Saying(ReadSlot(r.desc.header).status, ReadSlot(r.desc.body), u.ctx)
      BY DEF GoodTables, GoodDelivered
    <3>2. ReadSlot(r.desc.header)' = ReadSlot(r.desc.header) /\ ReadSlot(r.desc.body)' = ReadSlot(r.desc.body)
      BY DeliveredKept
    <3> QED  BY <3>1, <3>2
  <2> QED  BY <2>1 DEF GoodTables, GoodDelivered, Saying
<1> QED  BY <1>2, <1>3 DEF GoodTables

LEMMA SameCalls ==
  ASSUME Shapes, Stable, InUse, InUse', NEW at, CallsAt(at), NEW w \in Worker, OthersSame(w), Letters' \subseteq Letters,
         UNCHANGED <<calls, inbound, waiting, delivered>>, poller'[w].pc = "close" => poller'[w] = poller[w],
         GoodMain(at, w)'
  PROVE  Calls'
<1>1. \A place : Persists(at, at, place)
  BY SamePersists
<1>2. \A y \in Mails' : GoodMail(at, y)'
  BY <1>1, MailsStay
<1>3. GoodTables(at, w)'
  <2>1. GoodTables(at, w)
    BY DEF CallsAt
  <2> QED  BY <2>1, TablesKept DEF calls
<1>4. at \in Whereabouts
  BY DEF CallsAt
<1> QED  BY <1>1, <1>2, <1>3, <1>4, WorkerStep

LEMMA PollerForwards ==
  ASSUME Shapes, InUse, InUse', Calls, NEW w \in Worker, PollerGet(w) \/ PollerNotify(w), HostOnly
  PROVE  Calls'
<1>1. PICK at : CallsAt(at)
  BY DEF Calls
<1>2. UNCHANGED <<calls, inbound, waiting, delivered, main, mem>>
  BY DEF PollerGet, PollerNotify, pipes, shmVars
<1>3. poller'[w].pc # "close"
  <2>1. DOMAIN poller = Worker /\ DOMAIN poller[w] = {"pc", "desc", "idx"}
    BY HostAtIs DEF HostAt, PollerShape
  <2> QED  BY <2>1 DEF PollerGet, PollerNotify, IdlePoller
<1>4. Stable /\ OthersSame(w) /\ Letters' \subseteq Letters
  BY <1>2, StableSame, WorkersAlone, PollerMoves DEF Poller
<1>5. GoodMain(at, w)'
  BY <1>1, <1>2, <1>4, SamePersists, MainPersists DEF CallsAt
<1> QED  BY <1>1, <1>2, <1>3, <1>4, <1>5, SameCalls

LEMMA PollerCloses ==
  ASSUME Shapes, Shapes', InUse, InUse', Calls, NEW w \in Worker, PollerClose(w), HostOnly
  PROVE  Calls'
<1> DEFINE i == poller[w].idx
<1>1. PICK at : CallsAt(at)
  BY DEF Calls
<1>2. UNCHANGED <<next_req_id, inbound, waiting, delivered, main, mem>>
  BY DEF PollerClose, pipes, shmVars
<1>3. i \in TableIndex /\ poller[w].pc = "close" /\ poller'[w].pc = "poll"
  BY HostAtIs DEF HostAt, PollerShape, PollerClose, IdlePoller
<1>4. Stable /\ OthersSame(w) /\ Letters' \subseteq Letters
  BY <1>2, StableSame, WorkersAlone, PollerMoves DEF Poller
<1>5. /\ response_pipe'[w][i] = 0
      /\ \A v \in Worker, j \in TableIndex : v # w \/ j # i => response_pipe'[v][j] = response_pipe[v][j]
  BY <1>3, HostAtIs DEF PollerClose
<1>6. response_pipe[w][i] # 0 /\ at[w][response_pipe[w][i]] = Over
  BY <1>1, <1>3 DEF CallsAt, GoodTables, GoodEntries
<1>7. \A k \in Nat : k % MaxPending \in TableIndex
  BY HostAssumption DEF TableIndex
<1>8. ASSUME NEW place, place # Over
      PROVE  Persists(at, at, place)
  <2> SUFFICES ASSUME NEW v \in Worker, NEW k \in Nat, Live(at, v, k, place)
               PROVE  Live(at, v, k, place)'
    BY <1>2 DEF Persists
  <2>1. v # w \/ k % MaxPending # i
    BY <1>6, <1>8 DEF Live
  <2>2. response_pipe'[v][k % MaxPending] = k
    BY <1>5, <1>7, <2>1 DEF Live
  <2> QED  BY <1>2, <2>2 DEF Live
<1>9. \A y \in Mails' : GoodMail(at, y)'
  <2>1. \A r : Persists(at, at, At(r))
    BY <1>8, Places
  <2> QED  BY <1>1, <1>4, <2>1, MailsStay
<1>10. \A v \in Worker : Persists(at, at, Writing(v))
  BY <1>8, Places
<1>11. GoodMain(at, w)'
  BY <1>1, <1>2, <1>4, <1>10, MainPersists DEF CallsAt
<1>12. GoodTables(at, w)'
  <2>1. GoodTables(at, w) /\ GoodInbound(w)'
    BY <1>1, <1>2 DEF CallsAt, GoodTables, GoodInbound
  <2>2. GoodEntries(at, w)'
    <3>1. \A j \in TableIndex : response_pipe'[w][j] < next_req_id[w]
      <4>1. next_req_id[w] \in Nat \ {0}
        BY HostAtIs
      <4> QED  BY <1>5, <2>1, <4>1 DEF GoodTables, GoodEntries
    <3> QED  BY <1>2, <1>3, <2>1, <3>1 DEF GoodTables, GoodEntries
  <2>3. next_req_id[w] <= next_req_id'[w]
    <3>1. next_req_id[w] \in Nat \ {0}
      BY HostAtIs
    <3> QED  BY <1>2, <3>1
  <2> QED  BY <1>2, <1>4, <2>1, <2>2, <2>3, TablesMoved
<1>13. at \in Whereabouts
  BY <1>1 DEF CallsAt
<1> QED  BY <1>1, <1>4, <1>9, <1>10, <1>11, <1>12, <1>13, WorkerStep
-----------------------------------------------------------------------------
(* A response that the poller has is for a call that waits for it.         *)
LEMMA Arrived ==
  ASSUME Shapes, InUse, NEW at, CallsAt(at), NEW w \in Worker, poller[w].pc = "dispatch", poller[w].desc.op = "resp"
  PROVE  LET d == poller[w].desc
         IN /\ d \in ReceivedDesc(w) /\ d.header \in Ref /\ d.req_id \in Nat \ {0} /\ PipeFor(w, d) = d.req_id
            /\ Live(at, w, d.req_id, At(d.header))
            /\ \E u \in waiting[w] : u.pipe = d.req_id /\ Saying(ReadSlot(d.header).status, ReadSlot(d.body), u.ctx)
<1> DEFINE d == poller[w].desc
<1>1. d \in ReceivedDesc(w)
  BY HostAtIs DEF HostAt, PollerShape
<1>2. d \in Descriptor /\ d.header # Nil /\ d.header \in Ref
  BY <1>1, DescKinds DEF Ingress, ReceivedDesc, Descriptor, OptRef
<1>3. PICK y : y = Mail(OnWay(d, w))
  OBVIOUS
<1>4. y \in Mails
  <2>1. OnWay(d, w) \in Letters
    BY WorkerLettersIn, LettersIn DEF PollerLetters
  <2> QED  BY <1>3, <2>1 DEF Mails
<1>5. /\ y.op = "resp" /\ y.id = d.req_id /\ y.dst = w /\ y.ref = d.header /\ y.h = ReadSlot(d.header)
      /\ y.body = ReadSlot(d.body)
  BY <1>2, <1>3 DEF Mail, OnWay, Letter
<1>6. GoodMail(at, y) /\ w # Nil
  BY <1>4, ShmAssumption DEF CallsAt
<1>7. ResponseAt(at, w, d.req_id, At(d.header), ReadSlot(d.header).status, ReadSlot(d.body))
  <2>1. y.h.dst = w
    BY <1>2, <1>5, <1>6 DEF GoodMail
  <2> QED  BY <1>2, <1>5, <1>6, <2>1 DEF GoodMail
<1>8. d.req_id \in 1 .. (next_req_id[w] - 1) /\ PipeFor(w, d) = d.req_id
  BY <1>7 DEF ResponseAt, Live, PipeFor
<1>9. next_req_id[w] \in Nat
  BY HostAtIs
<1> QED  BY <1>1, <1>2, <1>7, <1>8, <1>9 DEF ResponseAt

LEMMA NothingDropped ==
  ASSUME Shapes, InUse, Calls, NEW w \in Worker
  PROVE  ~PollerDrop(w)
<1> SUFFICES ASSUME PollerDrop(w)
             PROVE  FALSE
  OBVIOUS
<1>1. PICK at : CallsAt(at)
  BY DEF Calls
<1>2. poller[w].pc = "dispatch" /\ poller[w].desc.op = "resp" /\ PipeFor(w, poller[w].desc) = 0
  BY DEF PollerDrop
<1>3. PipeFor(w, poller[w].desc) # 0
  BY <1>1, <1>2, Arrived
<1> QED  BY <1>2, <1>3

LEMMA PollerDelivers ==
  ASSUME Shapes, InUse, InUse', Calls, NEW w \in Worker, PollerDeliver(w), HostOnly
  PROVE  Calls'
<1>1. PICK at \in Whereabouts : CallsAt(at)
  BY DEF Calls, CallsAt
<1>2. PICK d : d = poller[w].desc
  OBVIOUS
<1>3. PICK k : k = d.req_id
  OBVIOUS
<1>4. poller[w].pc = "dispatch" /\ d.op = "resp"
  BY <1>2 DEF PollerDeliver
<1>5. /\ d.header \in Ref /\ k \in Nat \ {0} /\ PipeFor(w, d) = k
      /\ Live(at, w, k, At(d.header))
      /\ \E u \in waiting[w] : u.pipe = k /\ Saying(ReadSlot(d.header).status, ReadSlot(d.body), u.ctx)
  BY <1>1, <1>2, <1>3, <1>4, Arrived
<1>6. UNCHANGED <<calls, inbound, waiting, main, mem>>
  BY DEF PollerDeliver, shmVars
<1>7. PICK r : r = [pipe |-> k, desc |-> d]
  OBVIOUS
<1>8. /\ delivered'[w] = delivered[w] \cup {r}
      /\ poller'[w] = [pc |-> "close", desc |-> Nil, idx |-> k % MaxPending]
  <2>1. DOMAIN poller = Worker /\ DOMAIN delivered = Worker
    BY HostAtIs
  <2> QED  BY <1>2, <1>3, <1>5, <1>7, <2>1 DEF PollerDeliver
<1>9. Stable /\ OthersSame(w) /\ Letters' \subseteq Letters
  BY <1>6, StableSame, WorkersAlone, PollerMoves DEF Poller
<1>10. PICK at2 : MovesCall(at, at2, w, k, Over)
  BY <1>1, <1>5, Places, CanMoveCall
<1>11. at[w][k] = At(d.header)
  BY <1>5 DEF Live
<1>12. \A place : place # At(d.header) => Persists(at, at2, place)
  BY <1>5, <1>6, <1>10, <1>11, ElsewherePersists
<1>13. \A y \in Mails' : GoodMail(at2, y)'
  <2>1. ASSUME NEW x \in Letters', x.header # Nil
        PROVE  Persists(at, at2, At(x.header))
    <3>1. r \in delivered'[w]
      BY <1>8
    <3>2. x.header # r.desc.header
      BY <2>1, <3>1 DEF InUse, HeadersApart
    <3> QED  BY <1>7, <1>12, <3>2, Places
  <2> QED  BY <1>1, <1>9, <2>1, MailsStay
<1>14. \A v \in Worker : Persists(at, at2, Writing(v))
  BY <1>12, Places
<1>15. GoodMain(at2, w)'
  BY <1>1, <1>6, <1>9, <1>14, MainPersists DEF CallsAt
<1>16. \A j \in Nat : j # k => at2[w][j] = at[w][j]
  BY <1>10 DEF MovesCall
<1>17. at2[w][k] = Over
  BY <1>10 DEF MovesCall
<1>18. GoodTables(at, w)
  BY <1>1 DEF CallsAt
<1>19. GoodInbound(w)' /\ GoodWaiting(w)'
  BY <1>6, <1>18 DEF GoodTables, GoodInbound, GoodWaiting, calls
<1>20. GoodDelivered(at2, w)'
  <2>1. \A s \in delivered[w] : s.pipe \in Nat
    BY HostAtIs DEF HostAt, Delivered
  <2>2. \A s \in delivered[w] : s.pipe # k /\ at2[w][s.pipe] = Over
    BY <1>11, <1>16, <1>18, <2>1, Places DEF GoodTables, GoodDelivered
  <2>3. \A s \in delivered'[w] : s = r \/ s \in delivered[w]
    BY <1>8
  <2>4. r.pipe = k /\ r.desc = d
    BY <1>7
  <2>5. \A s \in delivered[w] : /\ ReadSlot(s.desc.header)' = ReadSlot(s.desc.header)
                                /\ ReadSlot(s.desc.body)' = ReadSlot(s.desc.body)
    BY <1>6 DEF ReadSlot
  <2>6. ReadSlot(d.header)' = ReadSlot(d.header) /\ ReadSlot(d.body)' = ReadSlot(d.body)
    BY <1>6 DEF ReadSlot
  <2>7. ASSUME NEW s \in delivered'[w]
        PROVE  /\ at2[w][s.pipe] = Over
               /\ \E u \in waiting[w] :
                    u.pipe = s.pipe /\ Saying(ReadSlot(s.desc.header)'.status, ReadSlot(s.desc.body)', u.ctx)
    <3>1. CASE s = r
      BY <1>5, <1>17, <2>4, <2>6, <3>1
    <3>2. CASE s \in delivered[w]
      BY <1>18, <2>2, <2>5, <3>2 DEF GoodTables, GoodDelivered
    <3> QED  BY <2>3, <3>1, <3>2
  <2>8. \A s, t \in delivered'[w] : s.pipe = t.pipe => s = t
    BY <1>18, <2>2, <2>3, <2>4 DEF GoodTables, GoodDelivered
  <2> QED  BY <1>6, <2>7, <2>8 DEF GoodDelivered, Saying
<1>21. GoodEntries(at2, w)'
  <2>1. response_pipe[w][k % MaxPending] = k
    BY <1>5 DEF Live
  <2>2. \A j \in Nat : at2[w][j] # Over => j \in 1 .. (next_req_id[w] - 1)
    BY <1>16, <1>17, <1>18 DEF GoodTables, GoodEntries
  <2>3. poller'[w].pc = "close" /\ poller'[w].idx = k % MaxPending
    BY <1>8
  <2>4. \A i \in TableIndex : response_pipe[w][i] < next_req_id[w]
    BY <1>18 DEF GoodTables, GoodEntries
  <2>5. UNCHANGED <<response_pipe, next_req_id>>
    BY <1>6 DEF calls
  <2> QED  BY <1>5, <1>17, <2>1, <2>2, <2>3, <2>4, <2>5 DEF GoodEntries
<1>22. GoodTables(at2, w)'
  BY <1>19, <1>20, <1>21 DEF GoodTables
<1>23. \A v \in Worker, j \in Nat : v # w => at2[v][j] = at[v][j]
  BY <1>10 DEF MovesCall
<1>24. at2 \in Whereabouts
  BY <1>10 DEF MovesCall
<1> QED  BY <1>1, <1>9, <1>13, <1>14, <1>15, <1>22, <1>23, <1>24, WorkerStep

LEMMA PollerCalls ==
  ASSUME Shapes, Shapes', InUse, InUse', Calls, NEW w \in Worker, Poller(w), HostOnly
  PROVE  Calls'
BY PollerForwards, PollerCloses, PollerDelivers, NothingDropped DEF Poller
-----------------------------------------------------------------------------
(* A step of a main thread after which it writes what it wrote before, or  *)
(* a response to the bridge.                                               *)
GoesOn(w) ==
  /\ main'[w].pc \in WritePc =>
       \/ main[w].pc \in WritePc /\ main'[w].msg = main[w].msg /\ main'[w].conn = main[w].conn
       \/ main'[w].msg.op = "resp" /\ main'[w].msg.header.dst = Nil
  /\ main'[w].pc \in {"free_resp", "upstream"} =>
       main[w].pc \in {"free_resp", "upstream"} /\ main'[w].resp = main[w].resp /\ main'[w].conn = main[w].conn

LEMMA MainGoesOn ==
  ASSUME Shapes, Stable, InUse, InUse', Calls, NEW w \in Worker, Main(w), HostOnly, Enqueue(w) => tx_sq' = tx_sq,
         UNCHANGED <<calls, inbound, waiting, delivered, poller>>, GoesOn(w), Copied(main[w])'
  PROVE  Calls'
<1>1. PICK at : CallsAt(at)
  BY DEF Calls
<1>2. OthersSame(w) /\ Letters' \subseteq Letters
  BY WorkersAlone, MainMoves
<1>3. \A place : Persists(at, at, place)
  BY SamePersists
<1>4. GoodMain(at, w)
  BY <1>1 DEF CallsAt
<1>5. GoodRequest(at, w, main[w])'
  <2> SUFFICES ASSUME main'[w].pc \in WritePc, main'[w].msg.op = "req"
               PROVE  GoodRequest(at, w, main[w])'
    BY DEF GoodRequest
  <2>1. main[w].pc \in WritePc /\ main'[w].msg = main[w].msg /\ main'[w].conn = main[w].conn
    BY DEF GoesOn
  <2>2. GoodRequest(at, w, main[w])
    BY <1>4 DEF GoodMain
  <2> QED  BY <2>1, <2>2 DEF GoodRequest, Live, Asking, calls
<1>6. GoodResponse(at, w, main[w])'
  <2> SUFFICES ASSUME main'[w].pc \in WritePc, main'[w].msg.op = "resp", main'[w].msg.header.dst # Nil
               PROVE  GoodResponse(at, w, main[w])'
    BY DEF GoodResponse
  <2>1. main[w].pc \in WritePc /\ main'[w].msg = main[w].msg
    BY DEF GoesOn
  <2>2. GoodResponse(at, w, main[w])
    BY <1>4 DEF GoodMain
  <2> QED  BY <1>3, <2>1, <2>2, ResponsePersists DEF GoodResponse
<1>7. GoodAnswer(w, main[w])'
  BY <1>4 DEF GoesOn, GoodMain, GoodAnswer, Saying
<1>8. GoodMain(at, w)'
  BY <1>5, <1>6, <1>7 DEF GoodMain
<1> QED  BY <1>1, <1>2, <1>8, SameCalls

LEMMA FreeRxCalls ==
  ASSUME Shapes, Stable, InUse, InUse', Calls, NEW w \in Worker, FreeRxHeader(w) \/ FreeRxBody(w), HostOnly
  PROVE  Calls'
<1>1. DOMAIN main = Worker /\ main[w] \in MainState
  BY MainIs
<1>2. /\ main[w].pc \in {"free_req", "free_resp"}
      /\ main'[w].pc \in {"free_req", "free_resp", "upstream", "reading", "idle"}
      /\ main'[w].pc \in {"free_resp", "upstream"} => main[w].pc = "free_resp"
      /\ main'[w].conn = main[w].conn /\ main'[w].resp = main[w].resp
  <2>1. CASE FreeRxHeader(w)
    <3>1. main'[w] = [main[w] EXCEPT !.rx_header = Nil]
      BY <1>1, <2>1 DEF FreeRxHeader
    <3> QED  BY <1>1, <2>1, <3>1 DEF FreeRxHeader, MainState
  <2>2. CASE FreeRxBody(w)
    <3>1. PICK pc : /\ main'[w] = [main[w] EXCEPT !.rx_body = Nil, !.pc = pc]
                    /\ pc = CASE main[w].pc = "free_resp" -> "upstream"
                              [] main[w].pc = "free_req" /\ notify[w] # << >> -> "reading"
                              [] OTHER -> "idle"
      BY <1>1, <2>2 DEF FreeRxBody
    <3>2. pc \in {"upstream", "reading", "idle"} /\ (pc = "upstream" => main[w].pc = "free_resp")
      BY <3>1
    <3>3. main'[w].pc = pc /\ main'[w].conn = main[w].conn /\ main'[w].resp = main[w].resp
      BY <1>1, <3>1 DEF MainState
    <3> QED  BY <2>2, <3>2, <3>3 DEF FreeRxBody
  <2> QED  BY <2>1, <2>2
<1>3. GoesOn(w) /\ Copied(main[w])'
  BY <1>2 DEF GoesOn, Copied, WritePc
<1>4. UNCHANGED <<calls, inbound, waiting, delivered, poller>> /\ (Enqueue(w) => tx_sq' = tx_sq) /\ Main(w)
  BY DEF FreeRxHeader, FreeRxBody, pipes, sqs, Main
<1> QED  BY <1>3, <1>4, MainGoesOn

LEMMA WriteCalls ==
  ASSUME Shapes, NEW own, OwnInv(own), Stable, InUse, InUse', Calls, NEW w \in Worker,
         WriteHeader(w) \/ WriteBody(w), HostOnly
  PROVE  Calls'
<1>1. DOMAIN main = Worker /\ main[w] \in MainState
  BY MainIs
<1>2. PICK at : CallsAt(at)
  BY DEF Calls
<1>3. Copied(main[w])
  BY <1>2 DEF CallsAt, GoodMain
<1>4. HostPool(w, "tx_header") \in Pool /\ HostPool(w, "tx_body") \in Pool
  BY HostPools DEF Kind
<1>5. /\ main[w].pc \in WritePc /\ main'[w].pc \in WritePc
      /\ main'[w].msg = main[w].msg /\ main'[w].conn = main[w].conn
      /\ Copied(main[w])'
  <2>1. CASE WriteHeader(w) /\ Full(HostPool(w, "tx_header"))
    <3>1. main'[w] = [main[w] EXCEPT !.pc = "failed"] /\ main[w].pc = "header"
      BY <1>1, <2>1 DEF WriteHeader
    <3> QED  BY <1>1, <3>1 DEF MainState, WritePc, Copied
  <2>2. CASE WriteHeader(w) /\ ~Full(HostPool(w, "tx_header"))
    <3>1. PICK q \in Ref : q = NewRef(HostPool(w, "tx_header"))
      BY <1>4, <2>2, SlotTaken DEF WriteHeader
    <3>2. ReadSlot(q)' = main[w].msg.header
      BY <1>4, <2>2, <3>1, SlotTaken DEF WriteHeader
    <3>3. main'[w] = [main[w] EXCEPT !.pc = "body", !.tx_header = q] /\ main[w].pc = "header"
      BY <1>1, <2>2, <3>1 DEF WriteHeader
    <3>4. main'[w].pc = "body" /\ main'[w].tx_header = q /\ main'[w].msg = main[w].msg /\ main'[w].conn = main[w].conn
      BY <1>1, <3>3 DEF MainState
    <3>5. Copied(main[w])'
      BY <3>2, <3>4 DEF Copied
    <3> QED  BY <3>3, <3>4, <3>5 DEF WritePc
  <2>3. CASE WriteBody(w) /\ Full(HostPool(w, "tx_body"))
    <3>1. main'[w] = [main[w] EXCEPT !.pc = "undo"] /\ main[w].pc = "body"
      BY <1>1, <2>3 DEF WriteBody
    <3> QED  BY <1>1, <3>1 DEF MainState, WritePc, Copied
  <2>4. CASE WriteBody(w) /\ ~Full(HostPool(w, "tx_body"))
    <3>1. PICK q \in Ref : q = NewRef(HostPool(w, "tx_body"))
      BY <1>4, <2>4, SlotTaken DEF WriteBody
    <3>2. ReadSlot(q)' = main[w].msg.body
      BY <1>4, <2>4, <3>1, SlotTaken DEF WriteBody
    <3>3. main'[w] = [main[w] EXCEPT !.pc = "put", !.tx_body = q] /\ main[w].pc = "body"
      BY <1>1, <2>4, <3>1 DEF WriteBody
    <3>4. /\ main'[w].pc = "put" /\ main'[w].tx_body = q /\ main'[w].tx_header = main[w].tx_header
          /\ main'[w].msg = main[w].msg /\ main'[w].conn = main[w].conn
      BY <1>1, <3>3 DEF MainState
    <3>5. PICK r : r = main[w].tx_header
      OBVIOUS
    <3>6. ReadSlot(r) = main[w].msg.header /\ Used(r)
      BY <1>3, <3>3, <3>5 DEF Copied, InUse, LocalsUsed
    <3>7. Used(main[w].tx_header)'
      BY <3>4 DEF InUse, LocalsUsed
    <3>9. ReadSlot(r)' = main[w].msg.header
      BY <3>4, <3>5, <3>6, <3>7 DEF Used, Stable
    <3>8. Copied(main[w])'
      BY <3>2, <3>4, <3>5, <3>9 DEF Copied
    <3> QED  BY <3>3, <3>4, <3>8 DEF WritePc
  <2> QED  BY <2>1, <2>2, <2>3, <2>4
<1>6. GoesOn(w)
  BY <1>5 DEF GoesOn, WritePc
<1>7. UNCHANGED <<calls, inbound, waiting, delivered, poller>> /\ (Enqueue(w) => tx_sq' = tx_sq) /\ Main(w)
  BY DEF WriteHeader, WriteBody, pipes, sqs, Main
<1> QED  BY <1>5, <1>6, <1>7, MainGoesOn

LEMMA UndoCalls ==
  ASSUME Shapes, Stable, InUse, InUse', Calls, NEW w \in Worker,
         UndoHeader(w) \/ UndoBody(w) \/ (Enqueue(w) /\ ~Room(tx_sq[w])), HostOnly
  PROVE  Calls'
<1>1. DOMAIN main = Worker /\ main[w] \in MainState
  BY MainIs
<1>2. PICK m : main' = [main EXCEPT ![w] = m] /\ \E pc, header, body :
                 /\ m = [main[w] EXCEPT !.pc = pc, !.tx_header = header, !.tx_body = body]
                 /\ pc \in {"undo", "failed"}
  <2>1. CASE UndoHeader(w)
    <3> DEFINE pc == IF main[w].tx_body = Nil THEN "failed" ELSE "undo"
               m == [main[w] EXCEPT !.pc = pc, !.tx_header = Nil, !.tx_body = main[w].tx_body]
    <3>1. main' = [main EXCEPT ![w] = [main[w] EXCEPT !.tx_header = Nil, !.pc = pc]]
      BY <1>1, <2>1 DEF UndoHeader
    <3>2. m = [main[w] EXCEPT !.tx_header = Nil, !.pc = pc] /\ pc \in {"undo", "failed"}
      BY <1>1 DEF MainState
    <3> QED  BY <3>1, <3>2
  <2>2. CASE UndoBody(w)
    <3> DEFINE m == [main[w] EXCEPT !.pc = "failed", !.tx_header = main[w].tx_header, !.tx_body = Nil]
    <3>1. main' = [main EXCEPT ![w] = [main[w] EXCEPT !.tx_body = Nil, !.pc = "failed"]]
      BY <1>1, <2>2 DEF UndoBody
    <3>2. m = [main[w] EXCEPT !.tx_body = Nil, !.pc = "failed"]
      BY <1>1 DEF MainState
    <3> QED  BY <3>1, <3>2
  <2>3. CASE Enqueue(w) /\ ~Room(tx_sq[w])
    <3> DEFINE m == [main[w] EXCEPT !.pc = "undo", !.tx_header = main[w].tx_header, !.tx_body = main[w].tx_body]
    <3>1. main' = [main EXCEPT ![w] = [main[w] EXCEPT !.pc = "undo"]]
      BY <1>1, <2>3 DEF Enqueue
    <3>2. m = [main[w] EXCEPT !.pc = "undo"]
      BY <1>1 DEF MainState
    <3> QED  BY <3>1, <3>2
  <2> QED  BY <2>1, <2>2, <2>3
<1>3. main'[w] = m /\ m.pc \in {"undo", "failed"} /\ m.msg = main[w].msg /\ m.conn = main[w].conn
  BY <1>1, <1>2 DEF MainState
<1>4. main[w].pc \in WritePc
  BY DEF UndoHeader, UndoBody, Enqueue, WritePc
<1>5. GoesOn(w) /\ Copied(main[w])'
  BY <1>3, <1>4 DEF GoesOn, Copied, WritePc
<1>6. UNCHANGED <<calls, inbound, waiting, delivered, poller>> /\ (Enqueue(w) => tx_sq' = tx_sq) /\ Main(w)
  BY <1>3 DEF UndoHeader, UndoBody, Enqueue, pipes, sqs, Main
<1> QED  BY <1>5, <1>6, MainGoesOn
-----------------------------------------------------------------------------
(* A message of call k of worker w, request or response, is being written  *)
(* or is on its way.                                                       *)
UnderWay(w, k) ==
  \/ \E v \in Worker :
       /\ main[v].pc \in WritePc /\ main[v].msg.req_id = k
       /\ (IF main[v].msg.op = "req" THEN v ELSE main[v].msg.header.dst) = w
  \/ \E y \in Mails :
       /\ y.ref # Nil /\ y.id = k
       /\ (IF y.op = "req" THEN y.h.src ELSE y.h.dst) = w

(* A frontend puts no call in an entry of response_pipe_fds that an        *)
(* earlier call still needs: that call has a message under way, or the     *)
(* poller has written its response and is about to clear the entry.        *)
(* dpumesh_write does not look: with 256 entries this fails when a call    *)
(* starts while the call 256 before it is still under way.  An entry that  *)
(* nobody needs any more is overwritten freely, and there are such: a call *)
(* that could not be sent (dpumesh.c:832, 836, 864) or whose message the   *)
(* sidecar or a service has dropped never gives its entry back.            *)
EntriesFree ==
  \A w \in Worker, i \in TableIndex :
    response_pipe[w][i] # 0 /\ response_pipe'[w][i] \notin {0, response_pipe[w][i]} =>
      ~UnderWay(w, response_pipe[w][i]) /\ ~(poller[w].pc = "close" /\ poller[w].idx = i)

(* A call without a message under way may be taken for over.               *)
LEMMA ForgetCall ==
  ASSUME Shapes, NEW at, CallsAt(at), NEW w \in Worker, NEW k \in Nat, ~UnderWay(w, k)
  PROVE  \E at2 : CallsAt(at2) /\ at2[w][k] = Over
<1>1. PICK at2 : MovesCall(at, at2, w, k, Over)
  BY Places, CanMoveCall DEF CallsAt
<1>2. /\ at2 \in Whereabouts /\ at2[w][k] = Over
      /\ \A v \in Worker, j \in Nat : v # w \/ j # k => at2[v][j] = at[v][j]
  BY <1>1 DEF MovesCall
<1>3. ASSUME NEW v, NEW j, NEW place, Live(at, v, j, place), v # w \/ j # k
      PROVE  Live(at2, v, j, place)
  <2>1. v \in Worker /\ j \in Nat
    BY <1>3 DEF Live
  <2> QED  BY <1>2, <1>3, <2>1 DEF Live
<1>4. ASSUME NEW y \in Mails
      PROVE  GoodMail(at2, y)
  <2>1. y.ref # Nil /\ y.id = k => (IF y.op = "req" THEN y.h.src ELSE y.h.dst) # w
    BY DEF UnderWay
  <2>2. GoodMail(at, y)
    BY DEF CallsAt
  <2>3. y.ref # Nil /\ y.op = "req" => RequestAt(at2, y.h, y.id, At(y.ref))
    BY <1>3, <2>1, <2>2 DEF GoodMail, RequestAt
  <2>4. y.ref # Nil /\ y.op = "resp" /\ y.h.dst # Nil =>
          ResponseAt(at2, y.h.dst, y.id, At(y.ref), y.h.status, y.body)
    BY <1>3, <2>1, <2>2 DEF GoodMail, ResponseAt
  <2> QED  BY <2>2, <2>3, <2>4 DEF GoodMail
<1>5. ASSUME NEW v \in Worker
      PROVE  GoodMain(at2, v)
  <2>1. main[v].pc \in WritePc /\ main[v].msg.req_id = k =>
          (IF main[v].msg.op = "req" THEN v ELSE main[v].msg.header.dst) # w
    BY DEF UnderWay
  <2>2. GoodMain(at, v)
    BY DEF CallsAt
  <2>3. GoodRequest(at2, v, main[v])
    BY <1>3, <2>1, <2>2 DEF GoodMain, GoodRequest
  <2>4. GoodResponse(at2, v, main[v])
    BY <1>3, <2>1, <2>2 DEF GoodMain, GoodResponse, ResponseAt
  <2> QED  BY <2>2, <2>3, <2>4 DEF GoodMain
<1>6. \A v \in Worker, j \in Nat : at[v][j] = Over => at2[v][j] = Over
  BY <1>2
<1>7. ASSUME NEW v \in Worker
      PROVE  GoodTables(at2, v)
  <2>1. GoodTables(at, v)
    BY DEF CallsAt
  <2>2. \A r \in delivered[v] : r.pipe \in Nat
    BY HostAtIs DEF HostAt, Delivered
  <2>3. GoodDelivered(at2, v)
    BY <1>6, <2>1, <2>2 DEF GoodTables, GoodDelivered
  <2>4. poller[v].idx \in TableIndex /\ response_pipe[v][poller[v].idx] \in Nat
    BY HostAtIs DEF HostAt, PollerShape
  <2>5. GoodEntries(at2, v)
    <3>1. \A j \in Nat : at2[v][j] # Over => at[v][j] # Over
      BY <1>6
    <3> QED  BY <1>6, <2>1, <2>4, <3>1 DEF GoodTables, GoodEntries
  <2> QED  BY <2>1, <2>3, <2>5 DEF GoodTables
<1> QED  BY <1>2, <1>4, <1>5, <1>7 DEF CallsAt

LEMMA StartsCall ==
  ASSUME Shapes, Shapes', InUse, InUse', EntriesFree, Calls, NEW w \in Worker, Main(w), HostOnly,
         Enqueue(w) => tx_sq' = tx_sq, UNCHANGED <<waiting, delivered, poller, mem>>,
         ServiceOf[w] = "frontend", GoodInbound(w)',
         NEW m \in MainState, NEW idx, NEW out, StartCall(w, m, idx, out),
         out.svc = AskedSvc(out.ctx), out.name = AskedName(out.ctx)
  PROVE  Calls'
<1>2. PICK n : n = next_req_id[w]
  OBVIOUS
<1>3. n \in Nat \ {0} /\ n % MaxPending \in TableIndex
  BY <1>2, HostAtIs, HostAssumption DEF TableIndex
<1>4. PICK i \in TableIndex : i = n % MaxPending
  BY <1>3
<1>19. PICK old \in Nat : old = response_pipe[w][i]
  BY HostAtIs
<1>5. /\ next_req_id'[w] = n + 1 /\ response_pipe'[w][i] = n
      /\ \A v \in Worker : v # w => next_req_id'[v] = next_req_id[v] /\ response_pipe'[v] = response_pipe[v]
      /\ \A j \in TableIndex : j # i => response_pipe'[w][j] = response_pipe[w][j]
  BY <1>2, <1>4, HostAtIs DEF StartCall
<1>6. /\ main'[w].pc = "header" /\ main'[w].msg = RequestMsg(w, out.svc, out.name) /\ main'[w].conn.ctx = out.ctx
  BY MainIs DEF StartCall, MainState
<1>20. PICK at3 : CallsAt(at3)
  BY DEF Calls
<1>21. old < n /\ (poller[w].pc = "close" /\ poller[w].idx = i => old # 0)
  BY <1>2, <1>19, <1>20 DEF CallsAt, GoodTables, GoodEntries
<1>22. old # 0 => ~UnderWay(w, old) /\ ~(poller[w].pc = "close" /\ poller[w].idx = i)
  <2>1. old # n
    BY <1>3, <1>21
  <2> QED  BY <1>3, <1>5, <1>19, <2>1 DEF EntriesFree
<1>1. PICK at \in Whereabouts : CallsAt(at) /\ at[w][old] = Over
  <2>1. CASE old = 0
    <3>1. at3[w][old] # Over => old \in 1 .. (next_req_id[w] - 1)
      BY <1>20 DEF CallsAt, GoodTables, GoodEntries
    <3> QED  BY <1>20, <2>1, <3>1 DEF CallsAt
  <2>2. CASE old # 0
    <3>1. PICK at4 : CallsAt(at4) /\ at4[w][old] = Over
      BY <1>20, <1>22, <2>2, ForgetCall
    <3> QED  BY <3>1 DEF CallsAt
  <2> QED  BY <2>1, <2>2
<1>7. GoodTables(at, w) /\ GoodMain(at, w)
  BY <1>1 DEF CallsAt
<1>8. ~(poller[w].pc = "close" /\ poller[w].idx = i)
  BY <1>21, <1>22
<1>9. at[w][n] = Over
  BY <1>2, <1>3, <1>7 DEF GoodTables, GoodEntries
<1>10. PICK at2 : MovesCall(at, at2, w, n, Writing(w))
  BY <1>1, <1>3, Places, CanMoveCall
<1>11. /\ at2 \in Whereabouts /\ at2[w][n] = Writing(w)
       /\ \A k \in Nat : k # n => at2[w][k] = at[w][k]
       /\ \A v \in Worker, k \in Nat : v # w => at2[v][k] = at[v][k]
  BY <1>10 DEF MovesCall
<1>12. ASSUME NEW place, place # Over
       PROVE  Persists(at, at2, place)
  <2> SUFFICES ASSUME NEW v \in Worker, NEW k \in Nat, Live(at, v, k, place)
               PROVE  Live(at2, v, k, place)'
    BY DEF Persists
  <2>1. k % MaxPending \in TableIndex
    BY HostAssumption DEF TableIndex
  <2>2. CASE v # w
    BY <1>5, <1>11, <2>2 DEF Live
  <2>3. CASE v = w
    <3>1. k \in 1 .. (n - 1) /\ response_pipe[w][k % MaxPending] = k /\ at[w][k] = place
      BY <1>2, <2>3 DEF Live
    <3>2. k # n /\ k # 0 /\ k \in 1 .. (next_req_id'[w] - 1)
      BY <1>3, <1>5, <3>1
    <3>3. k % MaxPending # i
      BY <1>1, <1>12, <1>19, <3>1, <3>2
    <3>4. response_pipe'[w][k % MaxPending] = k /\ at2[w][k] = place
      BY <1>5, <1>11, <2>1, <3>1, <3>2, <3>3
    <3> QED  BY <1>5, <2>3, <3>2, <3>4 DEF Live
  <2> QED  BY <2>2, <2>3
<1>13. Stable /\ OthersSame(w) /\ Letters' \subseteq Letters
  BY StableSame, WorkersAlone, MainMoves
<1>14. \A y \in Mails' : GoodMail(at2, y)'
  BY <1>1, <1>12, <1>13, Places, MailsStay
<1>15. \A v \in Worker : Persists(at, at2, Writing(v))
  BY <1>12, Places
<1>16. GoodMain(at2, w)'
  <2>1. /\ main'[w].msg.op = "req" /\ main'[w].msg.req_id = n /\ main'[w].msg.header.src = w
        /\ main'[w].msg.header.ask = "lookup" /\ main'[w].msg.header.svc = out.svc
        /\ main'[w].msg.header.name = out.name
    BY <1>2, <1>6 DEF RequestMsg
  <2>2. Live(at2, w, n, Writing(w))'
    BY <1>3, <1>4, <1>5, <1>11 DEF Live
  <2>3. \A u \in waiting[w] : u.pipe # n
    BY <1>2, <1>3, <1>7 DEF GoodTables, GoodWaiting
  <2>4. GoodRequest(at2, w, main[w])'
    BY <1>6, <2>1, <2>2, <2>3 DEF GoodRequest, Asking
  <2> QED  BY <1>6, <2>1, <2>4 DEF GoodMain, GoodResponse, Copied, GoodAnswer
<1>17. GoodEntries(at2, w)'
  <2>1. \A j \in TableIndex : response_pipe'[w][j] < next_req_id'[w]
    <3>1. \A j \in TableIndex : response_pipe[w][j] \in Nat /\ response_pipe[w][j] < n
      BY <1>2, <1>7, HostAtIs DEF GoodTables, GoodEntries
    <3> QED  BY <1>3, <1>5, <3>1
  <2>2. ASSUME poller[w].pc = "close"
        PROVE  response_pipe'[w][poller[w].idx] # 0 /\ at2[w][response_pipe'[w][poller[w].idx]] = Over
    <3>1. poller[w].idx \in TableIndex
      BY HostAtIs DEF HostAt, PollerShape
    <3>2. PICK k : k = response_pipe[w][poller[w].idx]
      OBVIOUS
    <3>3. k # 0 /\ at[w][k] = Over /\ k \in Nat /\ k < n
      BY <1>2, <1>7, <2>2, <3>1, <3>2, HostAtIs DEF GoodTables, GoodEntries
    <3>4. response_pipe'[w][poller[w].idx] = k
      BY <1>5, <1>8, <2>2, <3>1, <3>2, <3>3
    <3> QED  BY <1>3, <1>11, <3>3, <3>4
  <2>3. \A k \in Nat : at2[w][k] # Over => k \in 1 .. (next_req_id'[w] - 1)
    BY <1>2, <1>3, <1>5, <1>7, <1>11 DEF GoodTables, GoodEntries
  <2> QED  BY <2>1, <2>2, <2>3 DEF GoodEntries
<1>18. GoodTables(at2, w)'
  <2>1. \A u \in waiting[w] : at[w][u.pipe] = Over => at2[w][u.pipe] = Over
    BY <1>2, <1>3, <1>7, <1>11 DEF GoodTables, GoodWaiting
  <2>2. next_req_id[w] <= next_req_id'[w]
    BY <1>2, <1>3, <1>5
  <2> QED  BY <1>7, <1>13, <1>17, <2>1, <2>2, TablesMoved
<1> QED  BY <1>1, <1>11, <1>13, <1>14, <1>15, <1>16, <1>18, WorkerStep

LEMMA WriteFailedCalls ==
  ASSUME Shapes, InUse, InUse', Calls, NEW w \in Worker, WriteFailed(w), HostOnly
  PROVE  Calls'
<1>1. PICK at : CallsAt(at)
  BY DEF Calls
<1>2. UNCHANGED <<calls, inbound, waiting, delivered, poller, mem>> /\ ~Enqueue(w) /\ Main(w)
  BY DEF WriteFailed, StartRespond, shmVars, Enqueue, Main, pipes
<1>3. DOMAIN main = Worker /\ MainShape(w, main[w]) /\ main[w].pc \in WritePc
  BY MainIs DEF WriteFailed, WritePc
<1>4. Stable
  BY <1>2, StableSame
<1>5. GoesOn(w) /\ Copied(main[w])'
  <2>1. CASE main[w].msg.op = "req"
    <3> DEFINE ib == inbound[w][main[w].conn.idx]
               m == [AfterHandler(main[w]) EXCEPT !.pc = "header"]
    <3>1. main[w].conn.idx \in TableIndex
      BY <1>3 DEF MainShape, Conn
    <3>2. ib.src = Nil
      <4>1. ServiceOf[w] = "frontend" /\ GoodInbound(w)
        BY <1>1, <1>3, <2>1 DEF CallsAt, GoodMain, GoodRequest, GoodTables
      <4> QED  BY <3>1, <4>1 DEF GoodInbound
    <3>3. StartRespond(w, m, main[w].conn.idx, ib, Respond(502, NoBody))
      BY <2>1 DEF WriteFailed
    <3>4. m \in MainState
      BY AfterHandlerIs, AfterHandlerKeepsRx
    <3> HIDE DEF m, ib
    <3>5. main'[w].pc = "header" /\ main'[w].msg = ResponseMsg(w, ib, 502, NoBody)
      BY <1>3, <3>3, <3>4 DEF StartRespond, MainState, Respond
    <3>6. main'[w].msg.op = "resp" /\ main'[w].msg.header.dst = Nil
      BY <3>2, <3>5 DEF ResponseMsg
    <3> QED  BY <3>5, <3>6 DEF GoesOn, Copied
  <2>2. CASE main[w].msg.op = "resp"
    <3>1. main'[w] = AfterHandler(main[w])
      BY <1>3, <2>2 DEF WriteFailed
    <3>2. AfterHandler(main[w]).pc \in {"idle", "free_req"}
      BY DEF AfterHandler, IdleMain
    <3> QED  BY <3>1, <3>2 DEF GoesOn, Copied, WritePc
  <2> QED  BY <2>1, <2>2 DEF WriteFailed
<1> QED  BY <1>2, <1>4, <1>5, MainGoesOn

(* What the frontend does with an answer.                                  *)
LEMMA UpstreamOutcome ==
  ASSUME NEW ctx \in Context, NEW status \in Nat, NEW body \in Body, NEW out,
         out = HandleUpstreamResponse(ctx, status, body)
  PROVE  \/ out.act = "respond"
         \/ out.act = "call" /\ out.svc = AskedSvc(out.ctx) /\ out.name = AskedName(out.ctx)
<1>1. CASE status = 200 /\ ctx.stage = "id" /\ body.id # Nil
  BY <1>1 DEF HandleUpstreamResponse, Call, AskedSvc, AskedName
<1>2. CASE ~(status = 200 /\ ctx.stage = "id" /\ body.id # Nil)
  BY <1>2 DEF HandleUpstreamResponse, Respond, Context
<1> QED  BY <1>1, <1>2

LEMMA UpstreamCalls ==
  ASSUME Shapes, Shapes', InUse, InUse', EntriesFree, Calls, NEW w \in Worker, Upstream(w), HostOnly
  PROVE  Calls'
<1> DEFINE c == main[w].conn
           r == main[w].resp
           out == HandleUpstreamResponse(c.ctx, r.status, r.body)
<1>1. PICK at : CallsAt(at)
  BY DEF Calls
<1>2. UNCHANGED <<inbound, waiting, delivered, poller, mem>> /\ ~Enqueue(w) /\ Main(w)
  BY DEF Upstream, shmVars, Enqueue, Main, pipes
<1>3. DOMAIN main = Worker /\ MainShape(w, main[w]) /\ main[w].pc = "upstream"
  BY MainIs DEF Upstream
<1>4. c.idx \in TableIndex /\ c.ctx \in Context /\ r.status \in Nat /\ r.body \in Body
  BY <1>3 DEF MainShape, Conn, Answers
<1>5. ServiceOf[w] = "frontend" /\ GoodInbound(w)
  BY <1>1, <1>3 DEF CallsAt, GoodMain, GoodAnswer, GoodTables
<1>6. Stable /\ IdleMain \in MainState
  BY <1>2, StableSame, IdleMainIs DEF OptRef
<1>7. StartRespond(w, IdleMain, c.idx, inbound[w][c.idx], out) \/ StartCall(w, IdleMain, c.idx, out)
  BY DEF Upstream
<1>8. CASE StartRespond(w, IdleMain, c.idx, inbound[w][c.idx], out)
  <2> HIDE DEF out
  <2>1. main'[w].pc = "header" /\ main'[w].msg = ResponseMsg(w, inbound[w][c.idx], out.status, out.body)
    BY <1>3, <1>6, <1>8 DEF StartRespond, MainState
  <2>2. main'[w].msg.op = "resp" /\ main'[w].msg.header.dst = Nil
    BY <1>4, <1>5, <2>1 DEF ResponseMsg, GoodInbound
  <2>3. GoesOn(w) /\ Copied(main[w])' /\ UNCHANGED calls
    BY <1>8, <2>1, <2>2 DEF GoesOn, Copied, StartRespond
  <2> QED  BY <1>2, <1>6, <2>3, MainGoesOn
<1>9. CASE StartCall(w, IdleMain, c.idx, out)
  <2>1. out.act = "call"
    BY <1>9 DEF StartCall
  <2>2. out.svc = AskedSvc(out.ctx) /\ out.name = AskedName(out.ctx)
    <3> HIDE DEF c, r
    <3>1. \/ out.act = "respond"
          \/ out.act = "call" /\ out.svc = AskedSvc(out.ctx) /\ out.name = AskedName(out.ctx)
      BY <1>4, UpstreamOutcome
    <3> QED  BY <2>1, <3>1
  <2>3. GoodInbound(w)'
    BY <1>2, <1>5 DEF GoodInbound
  <2> HIDE DEF out, c, r
  <2> QED  BY <1>2, <1>5, <1>6, <1>9, <2>2, <2>3, StartsCall
<1> QED  BY <1>7, <1>8, <1>9
-----------------------------------------------------------------------------
LEMMA EntriesKept ==
  ASSUME Shapes, NEW at, NEW at2, NEW w \in Worker, GoodEntries(at, w),
         UNCHANGED <<response_pipe[w], next_req_id[w], poller[w]>>,
         \A j \in Nat : at2[w][j] = Over <=> at[w][j] = Over
  PROVE  GoodEntries(at2, w)'
<1>1. poller[w].idx \in TableIndex /\ \A i \in TableIndex : response_pipe[w][i] \in Nat
  BY HostAtIs DEF HostAt, PollerShape
<1> QED  BY <1>1 DEF GoodEntries

LEMMA OnResponseCalls ==
  ASSUME Shapes, InUse, InUse', Calls, NEW w \in Worker, OnResponse(w), HostOnly
  PROVE  Calls'
<1>1. PICK at \in Whereabouts : CallsAt(at)
  BY DEF Calls, CallsAt
<1>2. PICK u \in waiting[w], r \in delivered[w] :
        /\ u.pipe = r.pipe
        /\ waiting' = [waiting EXCEPT ![w] = @ \ {u}]
        /\ delivered' = [delivered EXCEPT ![w] = @ \ {r}]
        /\ main' = [main EXCEPT ![w] =
                     [IdleMain EXCEPT
                        !.pc = "free_resp",
                        !.rx_header = r.desc.header, !.rx_body = r.desc.body,
                        !.conn = [idx |-> u.idx, ctx |-> u.ctx],
                        !.resp = [status |-> ReadSlot(r.desc.header).status,
                                  body |-> ReadSlot(r.desc.body)]]]
  BY DEF OnResponse
<1>3. UNCHANGED <<calls, inbound, poller, mem>> /\ ~Enqueue(w) /\ Main(w)
  BY DEF OnResponse, shmVars, Enqueue, Main
<1>4. Stable /\ OthersSame(w) /\ Letters' \subseteq Letters
  BY <1>3, StableSame, WorkersAlone, MainMoves
<1>5. waiting'[w] = waiting[w] \ {u} /\ delivered'[w] = delivered[w] \ {r}
  BY <1>2, HostAtIs
<1>6. GoodTables(at, w)
  BY <1>1 DEF CallsAt
<1>7. /\ at[w][u.pipe] = Over
      /\ Saying(ReadSlot(r.desc.header).status, ReadSlot(r.desc.body), u.ctx)
  BY <1>2, <1>6 DEF GoodTables, GoodDelivered, GoodWaiting
<1>8. ASSUME NEW place, place # Over
      PROVE  Persists(at, at, place)
  <2> SUFFICES ASSUME NEW v \in Worker, NEW k \in Nat, Live(at, v, k, place), NEW x \in waiting[v], x.pipe = k
               PROVE  x \in waiting'[v]
    BY <1>3 DEF Persists, Live, calls
  <2>1. CASE v # w
    BY <1>2, <2>1, HostAtIs
  <2>2. CASE v = w
    BY <1>5, <1>7, <1>8, <2>2 DEF Live
  <2> QED  BY <2>1, <2>2
<1>9. \A y \in Mails' : GoodMail(at, y)'
  BY <1>1, <1>4, <1>8, Places, MailsStay
<1>10. \A v \in Worker : Persists(at, at, Writing(v))
  BY <1>8, Places
<1>11. GoodMain(at, w)'
  <2>1. /\ main'[w].pc = "free_resp" /\ main'[w].conn.ctx = u.ctx
        /\ main'[w].resp.status = ReadSlot(r.desc.header).status
        /\ main'[w].resp.body = ReadSlot(r.desc.body)
    BY <1>2, HostAtIs DEF IdleMain
  <2>2. ServiceOf[w] = "frontend"
    BY <1>2, <1>6 DEF GoodTables, GoodWaiting
  <2>3. GoodAnswer(w, main[w])'
    BY <1>7, <2>1, <2>2 DEF GoodAnswer, Saying
  <2> QED  BY <2>1, <2>3 DEF GoodMain, GoodRequest, GoodResponse, Copied, WritePc
<1>12. GoodInbound(w)' /\ GoodWaiting(w)' /\ GoodEntries(at, w)'
  <2>1. GoodInbound(w)' /\ GoodWaiting(w)'
    BY <1>3, <1>5, <1>6 DEF GoodTables, GoodInbound, GoodWaiting, calls
  <2> QED  BY <1>3, <1>6, <2>1, EntriesKept DEF GoodTables, calls
<1>13. GoodDelivered(at, w)'
  <2>1. ASSUME NEW s \in delivered[w], s # r
        PROVE  \E x \in waiting[w] \ {u} :
                 x.pipe = s.pipe /\ Saying(ReadSlot(s.desc.header)'.status, ReadSlot(s.desc.body)', x.ctx)
    <3>1. PICK x \in waiting[w] : x.pipe = s.pipe /\ Saying(ReadSlot(s.desc.header).status, ReadSlot(s.desc.body), x.ctx)
      BY <1>6 DEF GoodTables, GoodDelivered
    <3>2. x # u
      BY <1>2, <1>6, <2>1, <3>1 DEF GoodTables, GoodDelivered
    <3>3. /\ ReadSlot(s.desc.header)' = ReadSlot(s.desc.header)
          /\ ReadSlot(s.desc.body)' = ReadSlot(s.desc.body)
      BY <1>3 DEF ReadSlot
    <3> QED  BY <3>1, <3>2, <3>3
  <2>2. \A s \in delivered'[w] : s \in delivered[w] /\ s # r
    BY <1>5
  <2>3. \A s \in delivered'[w] : at[w][s.pipe] = Over
    BY <1>6, <2>2 DEF GoodTables, GoodDelivered
  <2>4. \A s, t \in delivered'[w] : s.pipe = t.pipe => s = t
    BY <1>6, <2>2 DEF GoodTables, GoodDelivered
  <2> QED  BY <1>5, <2>1, <2>2, <2>3, <2>4 DEF GoodDelivered, Saying
<1>14. GoodTables(at, w)'
  BY <1>12, <1>13 DEF GoodTables
<1> QED  BY <1>1, <1>4, <1>9, <1>10, <1>11, <1>14, WorkerStep
-----------------------------------------------------------------------------
(* The descriptor that main thread w sends.                                *)
LEMMA Sends ==
  ASSUME Shapes, NEW w \in Worker, Enqueue(w), Room(tx_sq[w]), HostOnly
  PROVE  LET m == main[w]
         IN \E x0 : /\ x0 = [op |-> m.msg.op, id |-> m.msg.req_id, dst |-> Nil, header |-> m.tx_header, body |-> m.tx_body]
                    /\ \A x \in Letters' : x \in Letters \/ x = x0
                    /\ x0 \in Letters'
<1> DEFINE m == main[w]
           d == [op |-> m.msg.op, case |-> m.msg.case, req_id |-> m.msg.req_id,
                 dst |-> Nil, header |-> m.tx_header, body |-> m.tx_body]
           x0 == [op |-> m.msg.op, id |-> m.msg.req_id, dst |-> Nil, header |-> m.tx_header, body |-> m.tx_body]
<1>1. tx_sq' = [tx_sq EXCEPT ![w] = Append(tx_sq[w], d)] /\ UNCHANGED <<rx_sq, notify, poller, sidecar_tx_sq, sidecar_rx_sq>>
  BY DEF Enqueue
<1>2. OnWay(d, Nil) = x0
  BY DEF OnWay, Letter
<1>3. d \in SentDesc(w)
  <2>1. /\ MainShape(w, m) /\ m.pc = "put" /\ m.msg \in Message
        /\ m.tx_header \in Ref /\ m.tx_body \in Ref
        /\ m.tx_header.pool = HostPool(w, "tx_header") /\ m.tx_body.pool = HostPool(w, "tx_body")
        /\ m.msg.op = "req" => m.msg.case = "local"
    BY MainIs DEF Enqueue, MainShape, WritePc, MainState, OptRef
  <2>2. m.msg.op \in {"req", "resp"} /\ m.msg.case \in {"ingress", "local"} /\ m.msg.req_id \in Nat
    BY <2>1 DEF Message
  <2>3. d \in Descriptor
    BY <2>1, <2>2 DEF Descriptor, OptRef
  <2> HIDE DEF m
  <2> QED  BY <2>1, <2>2, <2>3 DEF SentDesc
<1> HIDE DEF d, x0
<1>4. tx_sq'[w] = Append(tx_sq[w], d) /\ \A v \in Worker : v # w => tx_sq'[v] = tx_sq[v]
  BY <1>1, QueuedDescs
<1>5. Queued(tx_sq[w], Nil)' = Queued(tx_sq[w], Nil) \cup {x0}
  <2>1. Queued(Append(tx_sq[w], d), Nil) = Queued(tx_sq[w], Nil) \cup {x0}
    BY <1>2, <1>3, QueuedDescs, LastLetter
  <2> QED  BY <1>4, <2>1 DEF Queued
<1>6. ASSUME NEW x \in Letters'
      PROVE  x \in Letters \/ x = x0
  <2>1. CASE x \in WorkerLetters(w)'
    <3>1. x \in WorkerLetters(w) \/ x = x0
      BY <1>1, <1>5, <2>1 DEF WorkerLetters, PollerLetters, Queued
    <3> QED  BY <3>1, LettersIn
  <2>2. CASE x \notin WorkerLetters(w)'
    BY <1>1, <1>4, <2>2, WorkerElsewhere
  <2> QED  BY <2>1, <2>2
<1>7. x0 \in Letters'
  BY <1>5 DEF Letters, WorkerLetters
<1> QED  BY <1>6, <1>7 DEF x0

LEMMA EnqueueCalls ==
  ASSUME Shapes, InUse, InUse', Calls, NEW w \in Worker, Enqueue(w), Room(tx_sq[w]), HostOnly
  PROVE  Calls'
<1>1. PICK at \in Whereabouts : CallsAt(at)
  BY DEF Calls, CallsAt
<1>2. PICK m : m = main[w]
  OBVIOUS
<1>3. /\ MainShape(w, m) /\ m.pc = "put" /\ m.msg \in Message /\ m.tx_header \in Ref /\ m.tx_body \in Ref
      /\ m.conn \in Conn
  BY <1>2, MainIs DEF Enqueue, MainShape, WritePc, MainState, OptRef
<1>4. PICK h, k, e : h = m.msg.header /\ k = m.msg.req_id /\ e = m.tx_header
  OBVIOUS
<1>5. /\ k \in Nat /\ e \in Ref /\ e # Nil /\ h \in Header /\ m.msg.op \in {"req", "resp"}
      /\ ReadSlot(e) = h /\ ReadSlot(m.tx_body) = m.msg.body
      /\ GoodRequest(at, w, m) /\ GoodResponse(at, w, m) /\ GoodTables(at, w)
  BY <1>1, <1>2, <1>3, <1>4, DataAssumption DEF Message, CallsAt, GoodMain, Copied
<1>6. /\ UNCHANGED <<calls, inbound, delivered, poller, mem>> /\ Main(w)
      /\ main'[w].pc \in {"idle", "free_req"}
      /\ \A v \in Worker : waiting[v] \subseteq waiting'[v]
      /\ \A v \in Worker : v # w => waiting'[v] = waiting[v]
      /\ waiting'[w] = IF m.msg.op = "req" THEN waiting[w] \cup {[pipe |-> k, idx |-> m.conn.idx, ctx |-> m.conn.ctx]}
                       ELSE waiting[w]
  <2>1. UNCHANGED <<calls, inbound, delivered, poller, mem>> /\ Main(w)
    BY DEF Enqueue, Main
  <2>2. main'[w] = AfterHandler(m)
    BY <1>2, HostAtIs DEF Enqueue
  <2>3. main'[w].pc \in {"idle", "free_req"}
    BY <2>2 DEF AfterHandler, IdleMain
  <2>4. waiting' = [waiting EXCEPT ![w] = IF m.msg.op = "req"
                THEN @ \cup {[pipe |-> k, idx |-> m.conn.idx, ctx |-> m.conn.ctx]}
                ELSE @]
    BY <1>2, <1>4 DEF Enqueue
  <2>5. /\ \A v \in Worker : v # w => waiting'[v] = waiting[v]
        /\ waiting'[w] = IF m.msg.op = "req" THEN waiting[w] \cup {[pipe |-> k, idx |-> m.conn.idx, ctx |-> m.conn.ctx]}
                       ELSE waiting[w]
    BY <2>4, HostAtIs
  <2>6. \A v \in Worker : waiting[v] \subseteq waiting'[v]
    BY <2>5
  <2> QED  BY <2>1, <2>3, <2>5, <2>6
<1>7. Stable /\ OthersSame(w)
  BY <1>6, StableSame, WorkersAlone
<1>8. PICK x0 : /\ x0 = [op |-> m.msg.op, id |-> k, dst |-> Nil, header |-> e, body |-> m.tx_body]
                /\ \A x \in Letters' : x \in Letters \/ x = x0
  BY <1>2, <1>4, Sends
<1>9. PICK y0 : y0 = [op |-> m.msg.op, id |-> k, dst |-> Nil, ref |-> e, h |-> h, body |-> m.msg.body]
  OBVIOUS
<1>10. Mail(x0)' = y0
  BY <1>5, <1>6, <1>8, <1>9 DEF Mail, ReadSlot
<1>11. \A y \in Mails' : y \in Mails \cup {y0}
  BY <1>7, <1>8, <1>10, MailsAre
<1>12. ASSUME NEW at2 \in Whereabouts, \A place : place # Writing(w) => Persists(at, at2, place),
              \A v \in Worker, j \in Nat : at2[v][j] = Over <=> at[v][j] = Over,
              GoodMail(at2, y0)'
       PROVE  Calls'
  <2>1. \A y \in Mails' : GoodMail(at2, y)'
    <3> SUFFICES ASSUME NEW y \in Mails', y \in Mails
                 PROVE  GoodMail(at2, y)'
      BY <1>11, <1>12
    <3>1. GoodMail(at, y) /\ Persists(at, at2, At(y.ref))
      BY <1>1, <1>12, Places DEF CallsAt
    <3> QED  BY <3>1, MailPersists
  <2>2. \A v \in Worker : v # w => Persists(at, at2, Writing(v))
    BY <1>12, Places
  <2>3. GoodMain(at2, w)'
    BY <1>6 DEF GoodMain, GoodRequest, GoodResponse, Copied, GoodAnswer, WritePc
  <2>4. GoodInbound(w)' /\ GoodEntries(at2, w)'
    <3>1. GoodInbound(w)'
      BY <1>5, <1>6 DEF GoodTables, GoodInbound
    <3> QED  BY <1>5, <1>6, <1>12, <3>1, EntriesKept DEF GoodTables, calls
  <2>5. GoodWaiting(w)'
    <3>1. CASE m.msg.op = "resp"
      BY <1>5, <1>6, <3>1 DEF GoodTables, GoodWaiting, calls
    <3>2. CASE m.msg.op = "req"
      <4>1. PICK u0 : u0 = [pipe |-> k, idx |-> m.conn.idx, ctx |-> m.conn.ctx]
        OBVIOUS
      <4>2. u0.pipe = k /\ waiting'[w] = waiting[w] \cup {u0}
        BY <1>6, <3>2, <4>1
      <4>3. /\ ServiceOf[w] = "frontend" /\ k \in 1 .. (next_req_id[w] - 1)
            /\ \A u \in waiting[w] : u.pipe # k
        BY <1>3, <1>4, <1>5, <3>2 DEF GoodRequest, Live, WritePc
      <4> QED  BY <1>5, <1>6, <4>2, <4>3 DEF GoodTables, GoodWaiting, calls
    <3> QED  BY <1>5, <3>1, <3>2
  <2>6. GoodDelivered(at2, w)'
    <3>1. \A r \in delivered[w] : r.pipe \in Nat
      BY HostAtIs DEF HostAt, Delivered
    <3>2. \A r \in delivered[w] : /\ ReadSlot(r.desc.header)' = ReadSlot(r.desc.header)
                                  /\ ReadSlot(r.desc.body)' = ReadSlot(r.desc.body)
      BY <1>6 DEF ReadSlot
    <3>3. ASSUME NEW r \in delivered[w]
          PROVE  /\ at2[w][r.pipe] = Over
                 /\ \E u \in waiting'[w] :
                      u.pipe = r.pipe /\ Saying(ReadSlot(r.desc.header)'.status, ReadSlot(r.desc.body)', u.ctx)
      BY <1>5, <1>6, <1>12, <3>1, <3>2 DEF GoodTables, GoodDelivered
    <3> QED  BY <1>5, <1>6, <3>3 DEF GoodTables, GoodDelivered, Saying
  <2>7. GoodTables(at2, w)'
    BY <2>4, <2>5, <2>6 DEF GoodTables
  <2> QED  BY <1>1, <1>7, <1>12, <2>1, <2>2, <2>3, <2>7, WorkerStep
<1>13. At(e) \in Place /\ At(e) # Over /\ Writing(w) # Over
  BY <1>5, Places
<1>17. ASSUME NEW v \in Worker, NEW j \in Nat, at[v][j] = Writing(w)
       PROVE  \E at2 \in Whereabouts :
                /\ at2[v][j] = At(e)
                /\ \A place : place # Writing(w) => Persists(at, at2, place)
                /\ \A x \in Worker, i \in Nat : at2[x][i] = Over <=> at[x][i] = Over
  <2>1. PICK at2 : MovesCall(at, at2, v, j, At(e))
    BY <1>13, CanMoveCall
  <2>2. \A place : place # Writing(w) => Persists(at, at2, place)
    BY <1>6, <1>17, <2>1, ElsewherePersists
  <2>3. at2 \in Whereabouts /\ at2[v][j] = At(e) /\ \A x \in Worker, i \in Nat : at2[x][i] = Over <=> at[x][i] = Over
    BY <1>13, <1>17, <2>1 DEF MovesCall
  <2> QED  BY <2>2, <2>3
<1>14. CASE m.msg.op = "req"
  <2>1. h.src = w /\ Live(at, w, k, Writing(w)) /\ Asking(h, m.conn.ctx)
    BY <1>3, <1>4, <1>5, <1>14 DEF GoodRequest, WritePc
  <2>2. at[w][k] = Writing(w)
    BY <2>1 DEF Live
  <2>3. PICK at2 \in Whereabouts : /\ at2[w][k] = At(e)
                                   /\ \A place : place # Writing(w) => Persists(at, at2, place)
                                   /\ \A x \in Worker, j \in Nat : at2[x][j] = Over <=> at[x][j] = Over
    BY <1>5, <1>17, <2>2
  <2>4. GoodMail(at2, y0)'
    <3>1. Live(at2, w, k, At(e))'
      BY <1>6, <2>1, <2>3 DEF Live, calls
    <3>2. \E u \in waiting'[w] : u.pipe = k /\ Asking(h, u.ctx)
      <4>1. PICK u : u = [pipe |-> k, idx |-> m.conn.idx, ctx |-> m.conn.ctx]
        OBVIOUS
      <4>2. u \in waiting'[w] /\ u.pipe = k /\ u.ctx = m.conn.ctx
        BY <1>6, <1>14, <4>1
      <4> QED  BY <2>1, <4>2
    <3>3. RequestAt(at2, h, k, At(e))'
      BY <2>1, <3>1, <3>2 DEF RequestAt, Asking
    <3> QED  BY <1>5, <1>9, <1>14, <3>3 DEF GoodMail
  <2> QED  BY <1>12, <2>3, <2>4
<1>15. CASE m.msg.op = "resp" /\ h.dst # Nil
  <2>1. ResponseAt(at, h.dst, k, Writing(w), h.status, m.msg.body)
    BY <1>3, <1>4, <1>5, <1>15 DEF GoodResponse, WritePc
  <2>2. h.dst \in Worker /\ at[h.dst][k] = Writing(w) /\ Live(at, h.dst, k, Writing(w))
    BY <2>1 DEF ResponseAt, Live
  <2>3. PICK at2 \in Whereabouts : /\ at2[h.dst][k] = At(e)
                                   /\ \A place : place # Writing(w) => Persists(at, at2, place)
                                   /\ \A x \in Worker, j \in Nat : at2[x][j] = Over <=> at[x][j] = Over
    BY <1>5, <1>17, <2>2
  <2>4. GoodMail(at2, y0)'
    <3>1. Live(at2, h.dst, k, At(e))'
      BY <1>6, <2>2, <2>3 DEF Live, calls
    <3>2. \E u \in waiting'[h.dst] : u.pipe = k /\ Saying(h.status, m.msg.body, u.ctx)
      BY <1>6, <2>1, <2>2 DEF ResponseAt
    <3>3. ResponseAt(at2, h.dst, k, At(e), h.status, m.msg.body)'
      BY <3>1, <3>2 DEF ResponseAt, Saying
    <3> QED  BY <1>5, <1>9, <1>15, <3>3 DEF GoodMail
  <2> QED  BY <1>12, <2>3, <2>4
<1>16. CASE m.msg.op = "resp" /\ h.dst = Nil
  <2>1. \A place : Persists(at, at, place)
    BY <1>6, SamePersists
  <2>2. GoodMail(at, y0)'
    BY <1>5, <1>9, <1>16 DEF GoodMail
  <2> QED  BY <1>1, <1>12, <2>1, <2>2
<1> QED  BY <1>5, <1>14, <1>15, <1>16
-----------------------------------------------------------------------------
(* The request that a main thread reads.                                   *)
LEMMA RequestTaken ==
  ASSUME Shapes, InUse, NEW at, CallsAt(at), NEW w \in Worker, notify[w] # << >>
  PROVE  LET d == Head(notify[w])
             h == ReadSlot(IF d.case = "ingress" THEN d.body ELSE d.header)
         IN /\ d \in ReceivedDesc(w) /\ d.op = "req" /\ d.req_id \in Nat /\ h \in Header
            /\ d.case = "ingress" => ServiceOf[w] = "frontend" /\ h.src = Nil /\ d.header = Nil
            /\ d.case # "ingress" => /\ d.header \in Ref /\ RequestAt(at, h, d.req_id, At(d.header))
                                     /\ ServiceOf[w] = h.svc
<1> DEFINE D == {e \in ReceivedDesc(w) : e.op = "req"}
<1>1. PICK d : d = Head(notify[w])
  OBVIOUS
<1>2. notify[w] \in Seq(D)
  BY HostAtIs DEF HostAt
<1>3. d \in ReceivedDesc(w) /\ d.op = "req" /\ OnWay(d, w) \in Queued(notify[w], w)
  BY <1>1, <1>2, Pop, FirstLetter
<1>4. d \in Descriptor /\ d.body \in Ref /\ d.req_id \in Nat /\ (d.case = "ingress" <=> d.header = Nil) /\ d.header \in OptRef
  BY <1>3 DEF ReceivedDesc, Descriptor, Ingress
<1>5. PICK y : y = Mail(OnWay(d, w))
  OBVIOUS
<1>6. /\ y.op = "req" /\ y.id = d.req_id /\ y.dst = w /\ y.ref = d.header
      /\ y.h = ReadSlot(IF d.case = "ingress" THEN d.body ELSE d.header)
  BY <1>3, <1>4, <1>5 DEF Mail, OnWay, Letter
<1>7. OnWay(d, w) \in Letters
  BY <1>3, WorkerLettersIn, LettersIn
<1>8. y \in Mails /\ GoodMail(at, y) /\ w # Nil
  BY <1>5, <1>7, ShmAssumption DEF Mails, CallsAt
<1>9. y.h \in Header
  BY <1>4, <1>6, <1>7 DEF InUse, LettersUsed, OnWay, Letter
<1>10. d.case = "ingress" => ServiceOf[w] = "frontend" /\ y.h.src = Nil /\ d.header = Nil
  BY <1>4, <1>6, <1>8 DEF GoodMail
<1>11. d.case # "ingress" => d.header \in Ref /\ RequestAt(at, y.h, d.req_id, At(d.header)) /\ ServiceOf[w] = y.h.svc
  BY <1>4, <1>6, <1>8 DEF GoodMail, OptRef
<1> QED  BY <1>1, <1>3, <1>4, <1>6, <1>9, <1>10, <1>11

(* What a service says to a call.                                          *)
LEMMA ServiceSays ==
  ASSUME NEW h \in Header, NEW ctx \in Context, Asking(h, ctx), NEW out, out = HandleRequest(h.svc, h)
  PROVE  /\ h.svc # "frontend" /\ out.act = "respond"
         /\ out.status = UpstreamSays(ctx).status /\ out.body = UpstreamSays(ctx).body
<1>1. CASE ctx.stage = "id"
  <2>1. h.svc = "id-service" /\ h.name = ctx.name /\ h.ask = "lookup"
    BY <1>1 DEF Asking, AskedSvc, AskedName
  <2>2. out = HandleId(ctx.name)
    BY <2>1 DEF HandleRequest
  <2> QED  BY <1>1, <2>1, <2>2 DEF UpstreamSays, HandleId, Respond
<1>2. CASE ctx.stage # "id"
  <2>1. h.svc = "attend-service" /\ h.name = ctx.id /\ h.ask = "lookup"
    BY <1>2 DEF Asking, AskedSvc, AskedName
  <2>2. out = HandleAttend(ctx.id)
    BY <2>1 DEF HandleRequest
  <2> QED  BY <1>2, <2>1, <2>2 DEF UpstreamSays, HandleAttend, Respond
<1> QED  BY <1>1, <1>2

LEMMA FrontendOutcome ==
  ASSUME NEW h \in Header, NEW out, out = HandleRequest("frontend", h)
  PROVE  \/ out.act = "respond"
         \/ out.act = "call" /\ out.svc = AskedSvc(out.ctx) /\ out.name = AskedName(out.ctx)
<1>1. CASE h.ask = "lookup"
  <2>1. out = HandleFrontend(h.name)
    BY <1>1 DEF HandleRequest
  <2> QED  BY <2>1 DEF HandleFrontend, Call, AskedSvc, AskedName
<1>2. CASE h.ask # "lookup"
  BY <1>2 DEF HandleRequest, Respond, Header
<1> QED  BY <1>1, <1>2

LEMMA OnRequestCalls ==
  ASSUME Shapes, Shapes', InUse, InUse', EntriesFree, Calls, NEW w \in Worker, OnRequest(w), HostOnly
  PROVE  Calls'
<1>1. PICK at \in Whereabouts : CallsAt(at)
  BY DEF Calls, CallsAt
<1>2. PICK d : d = Head(notify[w])
  OBVIOUS
<1>3. PICK h : h = ReadSlot(IF d.case = "ingress" THEN d.body ELSE d.header)
  OBVIOUS
<1>4. PICK idx, ib, m, out :
        /\ idx = d.req_id % MaxPending /\ ib = [req_id |-> d.req_id, rid |-> h.rid, src |-> h.src]
        /\ m = [IdleMain EXCEPT !.rx_header = d.header, !.rx_body = d.body]
        /\ out = HandleRequest(ServiceOf[w], h)
  OBVIOUS
<1>5. /\ inbound' = [inbound EXCEPT ![w][idx] = ib]
      /\ StartRespond(w, m, idx, ib, out) \/ StartCall(w, m, idx, out)
      /\ UNCHANGED <<delivered, waiting, poller, mem>> /\ ~Enqueue(w) /\ Main(w)
      /\ notify[w] # << >> /\ main[w].pc \in {"idle", "reading"}
  BY <1>2, <1>3, <1>4 DEF OnRequest, shmVars, Enqueue, Main
<1>6. /\ d \in ReceivedDesc(w) /\ d.op = "req" /\ d.req_id \in Nat /\ h \in Header
      /\ d.case = "ingress" => ServiceOf[w] = "frontend" /\ h.src = Nil /\ d.header = Nil
      /\ d.case # "ingress" => /\ d.header \in Ref /\ RequestAt(at, h, d.req_id, At(d.header))
                               /\ ServiceOf[w] = h.svc
  BY <1>1, <1>2, <1>3, <1>5, RequestTaken
<1>7. m \in MainState /\ m.rx_header = d.header
  <2>1. d.header \in OptRef /\ d.body \in OptRef
    BY <1>6 DEF ReceivedDesc, Descriptor
  <2> QED  BY <1>4, <2>1, IdleMainIs DEF IdleMain
<1>8. idx \in TableIndex
  BY <1>4, <1>6, HostAssumption DEF TableIndex
<1>9. Stable /\ OthersSame(w) /\ Letters' \subseteq Letters
  BY <1>5, StableSame, WorkersAlone, MainMoves
<1>10. GoodTables(at, w) /\ (ServiceOf[w] = "frontend" => GoodInbound(w))
  BY <1>1 DEF CallsAt, GoodTables
<1>11. inbound'[w] = [inbound[w] EXCEPT ![idx] = ib]
  BY <1>5, HostAtIs
<1>12. ASSUME StartRespond(w, m, idx, ib, out)
       PROVE  /\ main'[w].pc = "header" /\ main'[w].msg = ResponseMsg(w, ib, out.status, out.body)
              /\ main'[w].rx_header = d.header /\ UNCHANGED calls
  BY <1>7, <1>12, MainIs DEF StartRespond, MainState
<1>13. CASE d.case = "ingress"
  <2>1. ServiceOf[w] = "frontend" /\ ib.src = Nil
    BY <1>4, <1>6, <1>13
  <2>2. GoodInbound(w)'
    BY <1>8, <1>10, <1>11, <2>1, HostAtIs DEF GoodInbound
  <2>3. CASE StartRespond(w, m, idx, ib, out)
    <3>1. /\ main'[w].pc = "header" /\ main'[w].msg.op = "resp" /\ main'[w].msg.header.dst = Nil /\ UNCHANGED calls
      BY <1>12, <2>1, <2>3 DEF ResponseMsg
    <3>2. \A place : Persists(at, at, place)
      BY <1>5, <3>1, SamePersists
    <3>3. \A y \in Mails' : GoodMail(at, y)'
      BY <1>1, <1>9, <3>2, MailsStay
    <3>4. GoodMain(at, w)'
      BY <3>1 DEF GoodMain, GoodRequest, GoodResponse, Copied, GoodAnswer
    <3>5. GoodEntries(at, w)'
      BY <1>5, <1>10, <3>1, EntriesKept DEF GoodTables, calls
    <3>6. next_req_id[w] <= next_req_id'[w]
      <4>1. next_req_id[w] \in Nat \ {0} /\ next_req_id' = next_req_id
        BY <3>1, HostAtIs DEF calls
      <4> QED  BY <4>1
    <3>7. GoodTables(at, w)'
      BY <1>5, <1>9, <1>10, <2>2, <3>5, <3>6, TablesMoved
    <3> QED  BY <1>1, <1>9, <3>2, <3>3, <3>4, <3>7, WorkerStep
  <2>4. CASE StartCall(w, m, idx, out)
    <3>1. out.act = "call"
      BY <2>4 DEF StartCall
    <3>2. out.svc = AskedSvc(out.ctx) /\ out.name = AskedName(out.ctx)
      BY <1>4, <1>6, <2>1, <3>1, FrontendOutcome
    <3> QED  BY <1>5, <1>7, <2>1, <2>2, <2>4, <3>2, StartsCall
  <2> QED  BY <1>5, <2>3, <2>4
<1>14. CASE d.case # "ingress"
  <2>1. PICK k, v : k = d.req_id /\ v = h.src
    OBVIOUS
  <2>2. Live(at, v, k, At(d.header)) /\ ServiceOf[w] = h.svc /\ d.header \in Ref
    BY <1>6, <1>14, <2>1 DEF RequestAt
  <2>3. PICK u \in waiting[v] : u.pipe = k /\ Asking(h, u.ctx)
    BY <1>6, <1>14, <2>1 DEF RequestAt
  <2>4. v \in Worker /\ k \in Nat /\ at[v][k] = At(d.header) /\ v # Nil
    BY <1>6, <2>1, <2>2, ShmAssumption DEF Live
  <2>5. u.ctx \in Context
    BY <2>3, <2>4, HostAtIs DEF HostAt, Waiting
  <2>6. /\ ServiceOf[w] # "frontend" /\ out.act = "respond"
        /\ out.status = UpstreamSays(u.ctx).status /\ out.body = UpstreamSays(u.ctx).body
    BY <1>4, <1>6, <2>2, <2>3, <2>5, ServiceSays
  <2>7. StartRespond(w, m, idx, ib, out)
    BY <1>5, <2>6 DEF StartCall
  <2>8. /\ main'[w].pc = "header" /\ main'[w].msg = ResponseMsg(w, ib, out.status, out.body)
        /\ main'[w].rx_header = d.header /\ UNCHANGED calls
    BY <1>12, <2>7
  <2>9. /\ main'[w].msg.op = "resp" /\ main'[w].msg.req_id = k /\ main'[w].msg.header.dst = v
        /\ main'[w].msg.header.status = out.status /\ main'[w].msg.body = out.body
    BY <1>4, <2>1, <2>8 DEF ResponseMsg
  <2>10. PICK at2 : MovesCall(at, at2, v, k, Writing(w))
    BY <2>4, Places, CanMoveCall
  <2>11. \A place : place # At(d.header) => Persists(at, at2, place)
    BY <1>5, <2>4, <2>8, <2>10, ElsewherePersists
  <2>12. /\ at2 \in Whereabouts /\ at2[v][k] = Writing(w)
         /\ \A x \in Worker, j \in Nat : at2[x][j] = Over <=> at[x][j] = Over
    BY <2>4, <2>10, Places DEF MovesCall
  <2>13. \A y \in Mails' : GoodMail(at2, y)'
    <3>1. ASSUME NEW x \in Letters', x.header # Nil
          PROVE  Persists(at, at2, At(x.header))
      <4>1. x.header # main'[w].rx_header
        BY <3>1 DEF InUse, HeadersApart
      <4> QED  BY <2>8, <2>11, <4>1, Places
    <3> QED  BY <1>1, <1>9, <3>1, MailsStay
  <2>14. \A x \in Worker : Persists(at, at2, Writing(x))
    BY <2>11, Places
  <2>15. GoodMain(at2, w)'
    <3>1. Live(at2, v, k, Writing(w))'
      BY <2>2, <2>8, <2>12 DEF Live, calls
    <3>2. u \in waiting'[v]
      BY <1>5, <2>3
    <3>3. ResponseAt(at2, v, k, Writing(w), out.status, out.body)'
      BY <2>3, <2>6, <3>1, <3>2 DEF ResponseAt, Saying
    <3>4. GoodResponse(at2, w, main[w])'
      BY <2>9, <3>3 DEF GoodResponse
    <3> QED  BY <2>8, <2>9, <3>4 DEF GoodMain, GoodRequest, Copied, GoodAnswer
  <2>16. GoodTables(at2, w)'
    <3>1. GoodInbound(w)'
      BY <2>6 DEF GoodInbound
    <3>2. GoodEntries(at2, w)'
      BY <1>5, <1>10, <2>8, <2>12, EntriesKept DEF GoodTables, calls
    <3>3. next_req_id[w] <= next_req_id'[w]
      <4>1. next_req_id[w] \in Nat \ {0} /\ next_req_id' = next_req_id
        BY <2>8, HostAtIs DEF calls
      <4> QED  BY <4>1
    <3>4. \A x \in waiting[w] : at[w][x.pipe] = Over => at2[w][x.pipe] = Over
      <4>1. \A x \in waiting[w] : x.pipe \in Nat
        BY HostAtIs DEF HostAt, Waiting
      <4> QED  BY <2>12, <4>1
    <3> QED  BY <1>5, <1>9, <1>10, <3>1, <3>2, <3>3, <3>4, TablesMoved
  <2> QED  BY <1>1, <1>9, <2>12, <2>13, <2>14, <2>15, <2>16, WorkerStep
<1> QED  BY <1>13, <1>14

LEMMA MainCalls ==
  ASSUME Shapes, Shapes', NEW own, OwnInv(own), InUse, InUse', EntriesFree, Calls, NEW w \in Worker, Main(w), HostOnly
  PROVE  Calls'
<1>1. Stable
  BY StableWorker
<1>2. FreeRxHeader(w) \/ FreeRxBody(w) \/ WriteHeader(w) \/ WriteBody(w) => Calls'
  BY <1>1, FreeRxCalls, WriteCalls
<1>3. UndoHeader(w) \/ UndoBody(w) \/ Enqueue(w) => Calls'
  BY <1>1, UndoCalls, EnqueueCalls
<1>4. OnRequest(w) \/ OnResponse(w) \/ Upstream(w) \/ WriteFailed(w) => Calls'
  BY OnRequestCalls, OnResponseCalls, UpstreamCalls, WriteFailedCalls
<1> QED  BY <1>2, <1>3, <1>4 DEF Main
-----------------------------------------------------------------------------
(* In the beginning there is nothing on its way.                           *)
LEMMA NoLetters == Init => Letters = {}
<1> SUFFICES ASSUME Init
             PROVE  Letters = {}
  OBVIOUS
<1>1. TxLetters = {} /\ RxLetters = {} /\ ArmLetters = {} /\ BridgeLetters = {}
  BY DEF Init, DpaInit, SidecarInit, TxLetters, RxLetters, ArmLetters, BridgeLetters, IdleTx, IdleRx, IdleArm
<1>2. \A dst : Queued(<< >>, dst) = {}
  BY DEF Queued, Entries
<1>3. Queued(sidecar_tx_sq, Nil) = {} /\ RoutedLetters = {}
  BY <1>2 DEF Init, ShmInit, RoutedLetters, Entries
<1>4. \A w \in Worker : WorkerLetters(w) = {}
  BY <1>2 DEF Init, ShmInit, HostInit, WorkerLetters, PollerLetters, IdlePoller
<1> QED  BY <1>1, <1>3, <1>4 DEF Letters

LEMMA InitCalls == Init => CallInv
<1> SUFFICES ASSUME Init
             PROVE  CallInv
  OBVIOUS
<1> DEFINE at == [w \in Worker |-> [k \in Nat |-> Over]]
<1>1. at \in Whereabouts /\ \A w \in Worker, k \in Nat : at[w][k] = Over
  BY Places DEF Whereabouts
<1>2. Mails = {}
  BY NoLetters DEF Mails
<1>3. ASSUME NEW w \in Worker
      PROVE  GoodMain(at, w) /\ GoodTables(at, w)
  <2>1. /\ main[w].pc = "idle" /\ poller[w].pc = "poll" /\ waiting[w] = {} /\ delivered[w] = {}
        /\ next_req_id[w] = 1 /\ \A i \in TableIndex : response_pipe[w][i] = 0 /\ inbound[w][i].src = Nil
    BY DEF Init, HostInit, IdleMain, IdlePoller
  <2>2. GoodMain(at, w)
    BY <2>1 DEF GoodMain, GoodRequest, GoodResponse, Copied, GoodAnswer, WritePc
  <2>3. GoodEntries(at, w)
    BY <1>1, <2>1 DEF GoodEntries
  <2>4. GoodInbound(w) /\ GoodWaiting(w) /\ GoodDelivered(at, w)
    BY <2>1 DEF GoodInbound, GoodWaiting, GoodDelivered
  <2> QED  BY <2>2, <2>3, <2>4 DEF GoodTables
<1> HIDE DEF at
<1>4. CallsAt(at)
  BY <1>1, <1>2, <1>3 DEF CallsAt
<1>5. BridgeRoutes
  BY DEF Init, SidecarInit, BridgeRoutes
<1> QED  BY <1>4, <1>5 DEF CallInv, Calls

LEMMA StutterCalls ==
  ASSUME Shapes, InUse, InUse', Calls, UNCHANGED vars
  PROVE  Calls'
<1>1. Stable /\ UNCHANGED hostVars
  BY StableSame DEF vars, shmVars
<1>2. Letters' = Letters
  BY LettersSame DEF vars, shmVars, sqs, hostVars, pipes, dpaVars, sidecarVars, Letters
<1> QED  BY <1>1, <1>2, Forwarded

LEMMA CallsKept ==
  ASSUME IInv, CallInv, [Next]_vars, [EntriesFree]_vars
  PROVE  CallInv'
<1>1. Shapes /\ Shapes' /\ IInv'
  BY StepInvariant DEF IInv
<1>2. PICK own : OwnInv(own)
  BY DEF IInv
<1>3. Stable /\ InUse /\ InUse' /\ Calls /\ BridgeRoutes
  BY <1>1, <1>2, MemoryIsStable, InvariantInUse, NextInUse DEF CallInv
<1>4. EntriesFree
  BY DEF EntriesFree, vars, hostVars, calls
<1>5. HostStep /\ HostOnly => Calls'
  BY <1>1, <1>2, <1>3, <1>4, PollerCalls, MainCalls DEF HostStep
<1>6. DpaStep /\ DpaOnly => Calls'
  BY <1>1, <1>2, <1>3, DpaCalls
<1>7. SidecarStep /\ SidecarOnly => Calls'
  BY <1>1, <1>2, <1>3, SidecarCalls
<1>8. Rest \/ UNCHANGED vars => Calls'
  BY <1>1, <1>3, StutterCalls DEF Rest
<1>9. BridgeRoutes'
  BY <1>1, <1>3, RoutesKept
<1> QED  BY <1>5, <1>6, <1>7, <1>8, <1>9 DEF Next, CallInv

LEMMA CallInvariance == Spec /\ [][EntriesFree]_vars => [](IInv /\ CallInv)
<1>1. Init => IInv /\ CallInv
  BY InitInvariant, InitCalls
<1>2. IInv /\ CallInv /\ [Next]_vars /\ [EntriesFree]_vars => IInv' /\ CallInv'
  BY StepInvariant, CallsKept
<1> QED  BY <1>1, <1>2, PTL DEF Spec

LEMMA CallsAnswered == CallInv => ResponseToCaller
<1> SUFFICES ASSUME CallInv, NEW w \in Worker, NEW u \in waiting[w], NEW r \in delivered[w], u.pipe = r.pipe
             PROVE  /\ ReadSlot(r.desc.header).status = UpstreamSays(u.ctx).status
                    /\ ReadSlot(r.desc.body) = UpstreamSays(u.ctx).body
  BY DEF ResponseToCaller
<1>1. PICK at : GoodDelivered(at, w) /\ GoodWaiting(w)
  BY DEF CallInv, Calls, CallsAt, GoodTables
<1>2. PICK v \in waiting[w] :
        v.pipe = r.pipe /\ Saying(ReadSlot(r.desc.header).status, ReadSlot(r.desc.body), v.ctx)
  BY <1>1 DEF GoodDelivered
<1>3. v = u
  BY <1>1, <1>2 DEF GoodWaiting
<1> QED  BY <1>2, <1>3 DEF Saying

(* The response in the pipe of an upstream call is what the service said   *)
(* to that very call: dpumesh_write puts the pipe of a call at its id      *)
(* modulo DPUMESH_MAX_PENDING, and dpumesh_poller_fn finds it there again, *)
(* as long as no call is put over one that is still under way.             *)
THEOREM ResponsesToCallers == Spec /\ [][EntriesFree]_vars => []ResponseToCaller
BY CallInvariance, CallsAnswered, PTL
-----------------------------------------------------------------------------
(* Who refers to a buffer: the locals of the threads, the queues and the   *)
(* pipes, each with a predicate of its own.                                *)
Names(d, r) == d # Nil /\ r \in {d.header, d.body}
QueueNames(q, r) == \E d \in Entries(q) : Names(d, r)
PipesName(D, r) == \E x \in D : Names(x.desc, r)
MainNames(m, r) == r \in {m.rx_header, m.rx_body, m.tx_header, m.tx_body}

WorkerNames(w, r) ==
  \/ MainNames(main[w], r) \/ Names(poller[w].desc, r) \/ PipesName(delivered[w], r)
  \/ QueueNames(tx_sq[w], r) \/ QueueNames(rx_sq[w], r) \/ QueueNames(notify[w], r)
TxNames(r) == r = dpaTx.header \/ Names(dpaTx.desc, r)
RxNames(r) == r \in {dpaRx.header, dpaRx.body} \/ Names(dpaRx.desc, r)
SidecarNames(r) == Names(arm.desc, r) \/ \E c \in Client : r = bridge[c].body
DpuNames(r) == QueueNames(sidecar_tx_sq, r) \/ QueueNames(sidecar_rx_sq, r)

Named(r) ==
  (\E w \in Worker : WorkerNames(w, r)) \/ TxNames(r) \/ RxNames(r) \/ SidecarNames(r) \/ DpuNames(r)

(* Every buffer is referred to, and no thread is about to forget one: the  *)
(* transmit thread of the DPA daemon does so when it drops a message.      *)
Accounted == \A r \in Ref : ReadSlot(r) # Free => Named(r)
LeakInv == Accounted /\ dpaTx.pc # "drop"

LEMMA QueueFront ==
  ASSUME NEW D, NEW q \in Seq(D), q # << >>, NEW r, QueueNames(q, r)
  PROVE  Names(Head(q), r) \/ QueueNames(Tail(q), r)
<1>1. PICK i \in DOMAIN q : Names(q[i], r)
  BY DEF QueueNames, Entries
<1>2. CASE i = 1
  BY <1>1, <1>2
<1>3. CASE i # 1
  <2>1. Tail(q)[i - 1] = q[i] /\ i - 1 \in DOMAIN Tail(q)
    BY <1>3
  <2> QED  BY <1>1, <2>1 DEF QueueNames, Entries
<1> QED  BY <1>2, <1>3

LEMMA QueueBack ==
  ASSUME NEW D, NEW q \in Seq(D), NEW d \in D, d # Nil, NEW r
  PROVE  QueueNames(Append(q, d), r) <=> QueueNames(q, r) \/ r \in {d.header, d.body}
BY Appended DEF QueueNames, Names
-----------------------------------------------------------------------------
(* The parts of Named that a component leaves alone.                       *)
LEMMA WorkerSame ==
  ASSUME NEW w \in Worker, NEW r,
         UNCHANGED <<main[w], poller[w], delivered[w], tx_sq[w], rx_sq[w], notify[w]>>
  PROVE  WorkerNames(w, r)' <=> WorkerNames(w, r)
BY DEF WorkerNames

LEMMA HostKeeps ==
  ASSUME Accounted, NEW w \in Worker, HostOnly, UNCHANGED <<sidecar_tx_sq, sidecar_rx_sq>>,
         \A v \in Worker : v # w =>
           UNCHANGED <<main[v], poller[v], delivered[v], tx_sq[v], rx_sq[v], notify[v]>>,
         \A r \in Ref : ReadSlot(r)' # Free =>
           WorkerNames(w, r)' \/ (ReadSlot(r) # Free /\ ~WorkerNames(w, r))
  PROVE  Accounted'
<1> SUFFICES ASSUME NEW r \in Ref, ReadSlot(r)' # Free
             PROVE  Named(r)'
  BY DEF Accounted
<1>1. CASE WorkerNames(w, r)'
  BY <1>1 DEF Named
<1>2. CASE ReadSlot(r) # Free /\ ~WorkerNames(w, r)
  <2>1. Named(r)
    BY <1>2 DEF Accounted
  <2>2. \A v \in Worker : v # w => (WorkerNames(v, r)' <=> WorkerNames(v, r))
    BY WorkerSame
  <2>3. /\ TxNames(r)' <=> TxNames(r)
        /\ RxNames(r)' <=> RxNames(r)
        /\ SidecarNames(r)' <=> SidecarNames(r)
        /\ DpuNames(r)' <=> DpuNames(r)
    BY DEF HostOnly, dpaVars, sidecarVars, TxNames, RxNames, SidecarNames, DpuNames
  <2> QED  BY <1>2, <2>1, <2>2, <2>3 DEF Named
<1> QED  BY <1>1, <1>2

LEMMA TxKeeps ==
  ASSUME Accounted, DpaOnly, UNCHANGED <<dpaRx, rx_sq, sidecar_rx_sq>>,
         \A r \in Ref : ReadSlot(r)' # Free =>
           \/ TxNames(r)' \/ QueueNames(sidecar_tx_sq, r)' \/ (\E w \in Worker : QueueNames(tx_sq[w], r)')
           \/ /\ ReadSlot(r) # Free /\ ~TxNames(r) /\ ~QueueNames(sidecar_tx_sq, r)
              /\ \A w \in Worker : ~QueueNames(tx_sq[w], r)
  PROVE  Accounted'
<1> SUFFICES ASSUME NEW r \in Ref, ReadSlot(r)' # Free
             PROVE  Named(r)'
  BY DEF Accounted
<1>1. CASE TxNames(r)' \/ QueueNames(sidecar_tx_sq, r)' \/ (\E w \in Worker : QueueNames(tx_sq[w], r)')
  BY <1>1 DEF Named, WorkerNames, DpuNames
<1>2. CASE /\ ReadSlot(r) # Free /\ ~TxNames(r) /\ ~QueueNames(sidecar_tx_sq, r)
           /\ \A w \in Worker : ~QueueNames(tx_sq[w], r)
  <2>1. Named(r)
    BY <1>2 DEF Accounted
  <2>2. UNCHANGED <<main, poller, delivered, notify, rx_sq, arm, bridge>>
    BY HostVars DEF DpaOnly, sidecarVars
  <2>3. \A w \in Worker : WorkerNames(w, r) => WorkerNames(w, r)'
    BY <1>2, <2>2 DEF WorkerNames
  <2>4. RxNames(r)' <=> RxNames(r)
    BY DEF RxNames
  <2>5. SidecarNames(r)' <=> SidecarNames(r)
    BY <2>2 DEF SidecarNames
  <2>6. DpuNames(r) => DpuNames(r)'
    BY <1>2 DEF DpuNames
  <2> QED  BY <1>2, <2>1, <2>3, <2>4, <2>5, <2>6 DEF Named
<1> QED  BY <1>1, <1>2

LEMMA RxKeeps ==
  ASSUME Accounted, DpaOnly, UNCHANGED <<dpaTx, tx_sq, sidecar_tx_sq>>,
         \A r \in Ref : ReadSlot(r)' # Free =>
           \/ RxNames(r)' \/ QueueNames(sidecar_rx_sq, r)' \/ (\E w \in Worker : QueueNames(rx_sq[w], r)')
           \/ /\ ReadSlot(r) # Free /\ ~RxNames(r) /\ ~QueueNames(sidecar_rx_sq, r)
              /\ \A w \in Worker : ~QueueNames(rx_sq[w], r)
  PROVE  Accounted'
<1> SUFFICES ASSUME NEW r \in Ref, ReadSlot(r)' # Free
             PROVE  Named(r)'
  BY DEF Accounted
<1>1. CASE RxNames(r)' \/ QueueNames(sidecar_rx_sq, r)' \/ (\E w \in Worker : QueueNames(rx_sq[w], r)')
  BY <1>1 DEF Named, WorkerNames, DpuNames
<1>2. CASE /\ ReadSlot(r) # Free /\ ~RxNames(r) /\ ~QueueNames(sidecar_rx_sq, r)
           /\ \A w \in Worker : ~QueueNames(rx_sq[w], r)
  <2>1. Named(r)
    BY <1>2 DEF Accounted
  <2>2. UNCHANGED <<main, poller, delivered, notify, tx_sq, arm, bridge>>
    BY HostVars DEF DpaOnly, sidecarVars
  <2>3. \A w \in Worker : WorkerNames(w, r) => WorkerNames(w, r)'
    BY <1>2, <2>2 DEF WorkerNames
  <2>4. TxNames(r)' <=> TxNames(r)
    BY DEF TxNames
  <2>5. SidecarNames(r)' <=> SidecarNames(r)
    BY <2>2 DEF SidecarNames
  <2>6. DpuNames(r) => DpuNames(r)'
    BY <1>2 DEF DpuNames
  <2> QED  BY <1>2, <2>1, <2>3, <2>4, <2>5, <2>6 DEF Named
<1> QED  BY <1>1, <1>2

LEMMA SidecarKeeps ==
  ASSUME Accounted, SidecarOnly, UNCHANGED <<tx_sq, rx_sq>>,
         \A r \in Ref : ReadSlot(r)' # Free =>
           \/ SidecarNames(r)' \/ DpuNames(r)'
           \/ ReadSlot(r) # Free /\ ~SidecarNames(r) /\ ~DpuNames(r)
  PROVE  Accounted'
<1> SUFFICES ASSUME NEW r \in Ref, ReadSlot(r)' # Free
             PROVE  Named(r)'
  BY DEF Accounted
<1>1. CASE SidecarNames(r)' \/ DpuNames(r)'
  BY <1>1 DEF Named
<1>2. CASE ReadSlot(r) # Free /\ ~SidecarNames(r) /\ ~DpuNames(r)
  <2>1. Named(r)
    BY <1>2 DEF Accounted
  <2>2. UNCHANGED <<main, poller, delivered, notify, tx_sq, rx_sq, dpaTx, dpaRx>>
    BY HostVars DEF SidecarOnly, dpaVars
  <2>3. \A w \in Worker : WorkerNames(w, r)' <=> WorkerNames(w, r)
    BY <2>2 DEF WorkerNames
  <2>4. TxNames(r)' <=> TxNames(r)
    BY <2>2 DEF TxNames
  <2>5. RxNames(r)' <=> RxNames(r)
    BY <2>2 DEF RxNames
  <2> QED  BY <1>2, <2>1, <2>3, <2>4, <2>5 DEF Named
<1> QED  BY <1>1, <1>2
-----------------------------------------------------------------------------
(* The transmit thread of the DPA daemon.                                  *)
LEMMA NilIsNoRef == Nil \notin Ref /\ Nil \notin Descriptor
BY DataAssumption

LEMMA TxGetKeeps ==
  ASSUME Shapes, LeakInv, NEW w \in Worker, TxGet(w), DpaOnly
  PROVE  LeakInv'
<1>1. PICK d : d = Head(tx_sq[w])
  OBVIOUS
<1>2. /\ dpaTx.header = Nil /\ dpaTx.desc = Nil /\ tx_sq[w] \in Seq(SentDesc(w)) /\ tx_sq[w] # << >>
      /\ DOMAIN tx_sq = Worker /\ d # Nil
  <2>1. d \in SentDesc(w) /\ SentDesc(w) \subseteq Descriptor
    BY <1>1, QueuedDescs DEF TxGet
  <2> QED  BY <2>1, TxIs, QueuedDescs, NilIsNoRef DEF TxGet, DpaTxShape
<1>3. /\ dpaTx'.pc = "copy" /\ dpaTx'.desc = d /\ tx_sq'[w] = Tail(tx_sq[w])
      /\ \A v \in Worker : v # w => tx_sq'[v] = tx_sq[v]
      /\ UNCHANGED <<dpaRx, mem, rx_sq, sidecar_tx_sq, sidecar_rx_sq>>
  BY <1>1, <1>2 DEF TxGet, IdleTx
<1>4. ASSUME NEW r \in Ref, ReadSlot(r)' # Free
      PROVE  /\ ReadSlot(r) # Free /\ ~TxNames(r)
             /\ QueueNames(tx_sq[w], r) => TxNames(r)' \/ QueueNames(tx_sq[w], r)'
             /\ \A v \in Worker : v # w => (QueueNames(tx_sq[v], r)' <=> QueueNames(tx_sq[v], r))
             /\ QueueNames(sidecar_tx_sq, r)' <=> QueueNames(sidecar_tx_sq, r)
  <2>1. ReadSlot(r) # Free
    BY <1>3, <1>4 DEF ReadSlot
  <2>2. ~TxNames(r)
    BY <1>2, NilIsNoRef DEF TxNames, Names
  <2>3. QueueNames(tx_sq[w], r) => Names(d, r) \/ QueueNames(Tail(tx_sq[w]), r)
    BY <1>1, <1>2, QueueFront
  <2>4. QueueNames(Tail(tx_sq[w]), r) => QueueNames(tx_sq[w], r)'
    BY <1>3 DEF QueueNames
  <2>5. Names(d, r) => TxNames(r)'
    BY <1>3 DEF TxNames, Names
  <2> QED  BY <1>3, <2>1, <2>2, <2>3, <2>4, <2>5 DEF QueueNames
<1> QED  BY <1>3, <1>4, TxKeeps DEF LeakInv

LEMMA TxCopyKeeps ==
  ASSUME Shapes, NEW own, OwnInv(own), LeakInv, TxCopy, DpaOnly
  PROVE  LeakInv'
<1>1. /\ dpaTx.header = Nil /\ UNCHANGED <<dpaRx, sqs, tx_sq, rx_sq, sidecar_tx_sq, sidecar_rx_sq>>
      /\ dpaTx'.desc = dpaTx.desc /\ dpaTx'.pc # "drop"
  BY TxIs DEF TxCopy, DpaTxShape, sqs
<1>2. ASSUME NEW r \in Ref, ReadSlot(r)' # Free
      PROVE  TxNames(r)' \/ (ReadSlot(r) # Free /\ (TxNames(r) => TxNames(r)'))
  <2>1. CASE Full(DpuTxHeader)
    <3>1. UNCHANGED mem
      BY <2>1 DEF TxCopy
    <3> QED  BY <1>1, <1>2, <3>1, NilIsNoRef DEF TxNames, Names, ReadSlot
  <2>2. CASE ~Full(DpuTxHeader)
    <3>1. AllocWrite(DpuTxHeader, ReadSlot(dpaTx.desc.header)) /\ dpaTx'.header = NewRef(DpuTxHeader)
      BY <2>2, TxIs DEF TxCopy
    <3>2. r # NewRef(DpuTxHeader) => ReadSlot(r)' = ReadSlot(r)
      BY <2>2, <3>1, SlotTaken DEF Pool
    <3> QED  BY <1>1, <1>2, <3>1, <3>2, NilIsNoRef DEF TxNames, Names
  <2> QED  BY <2>1, <2>2
<1>3. \A r : (QueueNames(sidecar_tx_sq, r)' <=> QueueNames(sidecar_tx_sq, r))
             /\ \A w \in Worker : QueueNames(tx_sq[w], r)' <=> QueueNames(tx_sq[w], r)
  BY <1>1 DEF QueueNames
<1> QED  BY <1>1, <1>2, <1>3, TxKeeps DEF LeakInv

LEMMA TxRequeueKeeps ==
  ASSUME Shapes, LeakInv, QueuesNeverFull, TxRequeue, DpaOnly
  PROVE  LeakInv'
<1>1. PICK w, d : w = dpaTx.src /\ d = dpaTx.desc
  OBVIOUS
<1>2. /\ w \in Worker /\ d \in SentDesc(w) /\ dpaTx.header = Nil /\ d # Nil /\ DOMAIN tx_sq = Worker
      /\ tx_sq[w] \in Seq(SentDesc(w))
  BY <1>1, TxIs, QueuedDescs, NilIsNoRef DEF TxRequeue, DpaTxShape
<1>3. /\ dpaTx'.pc = "poll" /\ tx_sq'[w] = Append(tx_sq[w], d)
      /\ \A v \in Worker : v # w => tx_sq'[v] = tx_sq[v]
      /\ UNCHANGED <<dpaRx, mem, rx_sq, sidecar_tx_sq, sidecar_rx_sq>>
  BY <1>1, <1>2 DEF TxRequeue, QueuesNeverFull, PutBack, IdleTx
<1>4. ASSUME NEW r \in Ref, ReadSlot(r)' # Free
      PROVE  /\ ReadSlot(r) # Free
             /\ TxNames(r) \/ QueueNames(tx_sq[w], r) => QueueNames(tx_sq[w], r)'
             /\ \A v \in Worker : v # w => (QueueNames(tx_sq[v], r)' <=> QueueNames(tx_sq[v], r))
             /\ QueueNames(sidecar_tx_sq, r)' <=> QueueNames(sidecar_tx_sq, r)
  <2>1. ReadSlot(r) # Free
    BY <1>3, <1>4 DEF ReadSlot
  <2>2. QueueNames(Append(tx_sq[w], d), r) <=> QueueNames(tx_sq[w], r) \/ r \in {d.header, d.body}
    BY <1>2, QueueBack
  <2>3. QueueNames(tx_sq[w], r)' <=> QueueNames(Append(tx_sq[w], d), r)
    BY <1>3 DEF QueueNames
  <2>4. TxNames(r) => r \in {d.header, d.body}
    BY <1>1, <1>2, NilIsNoRef DEF TxNames, Names
  <2> QED  BY <1>3, <2>1, <2>2, <2>3, <2>4 DEF QueueNames
<1> QED  BY <1>2, <1>3, <1>4, TxKeeps DEF LeakInv

LEMMA TxFreeKeeps ==
  ASSUME Shapes, LeakInv, TxFree, DpaOnly
  PROVE  LeakInv'
<1>1. PICK d, q : d = dpaTx.desc /\ q = d.header
  OBVIOUS
<1>2. q \in Ref /\ d \in Descriptor /\ d # Nil
  BY <1>1, TxIs, QueuedDescs, NilIsNoRef DEF TxFree, DpaTxShape, SentDesc
<1>3. /\ dpaTx'.pc = "put" /\ dpaTx'.desc # Nil /\ dpaTx'.desc.header = dpaTx.header /\ dpaTx'.desc.body = d.body
      /\ UNCHANGED <<dpaRx, tx_sq, rx_sq, sidecar_tx_sq, sidecar_rx_sq>> /\ FreeSlot(q)
  <2>1. dpaTx' = [dpaTx EXCEPT !.pc = "put", !.desc.header = dpaTx.header, !.header = Nil] /\ FreeSlot(q)
        /\ UNCHANGED <<dpaRx, sqs>>
    BY <1>1 DEF TxFree
  <2>2. PICK e : e = [d EXCEPT !.header = dpaTx.header]
    OBVIOUS
  <2>3. e \in Descriptor /\ e.header = dpaTx.header /\ e.body = d.body
    BY <1>2, <2>2, TxIs DEF Descriptor
  <2>4. dpaTx'.desc = e /\ dpaTx'.pc = "put"
    BY <1>1, <2>1, <2>2, TxIs
  <2> QED  BY <2>1, <2>3, <2>4, NilIsNoRef DEF sqs
<1>4. ASSUME NEW r \in Ref, ReadSlot(r)' # Free
      PROVE  ReadSlot(r) # Free /\ (TxNames(r) => TxNames(r)')
  <2>1. r # q /\ ReadSlot(r) # Free
    BY <1>2, <1>3, <1>4, FreedSlot
  <2> QED  BY <1>1, <1>3, <2>1 DEF TxNames, Names
<1>5. \A r : (QueueNames(sidecar_tx_sq, r)' <=> QueueNames(sidecar_tx_sq, r))
             /\ \A w \in Worker : QueueNames(tx_sq[w], r)' <=> QueueNames(tx_sq[w], r)
  BY <1>3 DEF QueueNames
<1> QED  BY <1>3, <1>4, <1>5, TxKeeps DEF LeakInv

LEMMA TxPutKeeps ==
  ASSUME Shapes, LeakInv, QueuesNeverFull, TxPut, DpaOnly
  PROVE  LeakInv'
<1>1. PICK d : d = dpaTx.desc
  OBVIOUS
<1>2. d \in DpuDesc /\ d # Nil /\ dpaTx.header = Nil /\ sidecar_tx_sq \in Seq(DpuDesc)
  BY <1>1, TxIs, SidecarDescs, NilIsNoRef DEF TxPut, DpaTxShape
<1>3. /\ dpaTx'.pc = "poll" /\ sidecar_tx_sq' = Append(sidecar_tx_sq, d)
      /\ UNCHANGED <<dpaRx, mem, tx_sq, rx_sq, sidecar_rx_sq>>
  BY <1>1 DEF TxPut, QueuesNeverFull, IdleTx
<1>4. ASSUME NEW r \in Ref, ReadSlot(r)' # Free
      PROVE  /\ ReadSlot(r) # Free
             /\ TxNames(r) \/ QueueNames(sidecar_tx_sq, r) => QueueNames(sidecar_tx_sq, r)'
             /\ \A v \in Worker : QueueNames(tx_sq[v], r)' <=> QueueNames(tx_sq[v], r)
  <2>1. ReadSlot(r) # Free
    BY <1>3, <1>4 DEF ReadSlot
  <2>2. QueueNames(Append(sidecar_tx_sq, d), r) <=> QueueNames(sidecar_tx_sq, r) \/ r \in {d.header, d.body}
    BY <1>2, QueueBack
  <2>3. QueueNames(sidecar_tx_sq, r)' <=> QueueNames(Append(sidecar_tx_sq, d), r)
    BY <1>3 DEF QueueNames
  <2>4. TxNames(r) => r \in {d.header, d.body}
    BY <1>1, <1>2, NilIsNoRef DEF TxNames, Names
  <2> QED  BY <1>3, <2>1, <2>2, <2>3, <2>4 DEF QueueNames
<1> QED  BY <1>3, <1>4, TxKeeps DEF LeakInv
-----------------------------------------------------------------------------
(* The receive thread of the DPA daemon.                                   *)
LEMMA RxQuiet ==
  ASSUME UNCHANGED <<sidecar_rx_sq, rx_sq>>, NEW r
  PROVE  /\ QueueNames(sidecar_rx_sq, r)' <=> QueueNames(sidecar_rx_sq, r)
         /\ \A w \in Worker : QueueNames(rx_sq[w], r)' <=> QueueNames(rx_sq[w], r)
BY DEF QueueNames

LEMMA RxGetKeeps ==
  ASSUME Shapes, Accounted, RxGet, DpaOnly
  PROVE  Accounted'
<1>1. PICK d : d = Head(sidecar_rx_sq)
  OBVIOUS
<1>2. /\ dpaRx.header = Nil /\ dpaRx.body = Nil /\ dpaRx.desc = Nil
      /\ sidecar_rx_sq \in Seq(RoutedDesc) /\ sidecar_rx_sq # << >> /\ d # Nil
  <2>1. d \in RoutedDesc /\ RoutedDesc \subseteq Descriptor
    BY <1>1, SidecarDescs DEF RxGet
  <2> QED  BY <2>1, RxIs, SidecarDescs, NilIsNoRef DEF RxGet, DpaRxShape
<1>3. /\ dpaRx'.desc = d /\ sidecar_rx_sq' = Tail(sidecar_rx_sq)
      /\ UNCHANGED <<dpaTx, mem, tx_sq, rx_sq, sidecar_tx_sq>>
  BY <1>1, <1>2 DEF RxGet, IdleRx
<1>4. ASSUME NEW r \in Ref, ReadSlot(r)' # Free
      PROVE  /\ ReadSlot(r) # Free /\ ~RxNames(r)
             /\ QueueNames(sidecar_rx_sq, r) => RxNames(r)' \/ QueueNames(sidecar_rx_sq, r)'
             /\ \A v \in Worker : QueueNames(rx_sq[v], r)' <=> QueueNames(rx_sq[v], r)
  <2>1. ReadSlot(r) # Free
    BY <1>3, <1>4 DEF ReadSlot
  <2>2. ~RxNames(r)
    BY <1>2, NilIsNoRef DEF RxNames, Names
  <2>3. QueueNames(sidecar_rx_sq, r) => Names(d, r) \/ QueueNames(Tail(sidecar_rx_sq), r)
    BY <1>1, <1>2, QueueFront
  <2>4. QueueNames(Tail(sidecar_rx_sq), r) => QueueNames(sidecar_rx_sq, r)'
    BY <1>3 DEF QueueNames
  <2>5. Names(d, r) => RxNames(r)'
    BY <1>3 DEF RxNames, Names
  <2> QED  BY <1>3, <2>1, <2>2, <2>3, <2>4, <2>5 DEF QueueNames
<1> QED  BY <1>3, <1>4, RxKeeps

LEMMA RxCopyBodyKeeps ==
  ASSUME Shapes, NEW own, OwnInv(own), Accounted, RxCopyBody, DpaOnly
  PROVE  Accounted'
<1>1. PICK p : p = HostPool(dpaRx.desc.dst, "rx_body")
  OBVIOUS
<1>2. /\ p \in Pool /\ dpaRx.body = Nil /\ dpaRx'.desc = dpaRx.desc /\ dpaRx'.header = dpaRx.header
      /\ UNCHANGED <<dpaTx, sqs, tx_sq, rx_sq, sidecar_tx_sq, sidecar_rx_sq>>
  <2>1. dpaRx.desc.dst \in Worker /\ dpaRx.body = Nil
    BY RxIs DEF RxCopyBody, DpaRxShape, RoutedDesc
  <2> QED  BY <1>1, <2>1, RxIs, ShmAssumption DEF RxCopyBody, sqs, HostPool, Pool, Kind
<1>3. ASSUME NEW r \in Ref, ReadSlot(r)' # Free
      PROVE  RxNames(r)' \/ (ReadSlot(r) # Free /\ (RxNames(r) => RxNames(r)'))
  <2>1. CASE Full(p)
    <3>1. UNCHANGED mem
      BY <1>1, <2>1 DEF RxCopyBody
    <3> QED  BY <1>2, <1>3, <3>1, NilIsNoRef DEF RxNames, Names, ReadSlot
  <2>2. CASE ~Full(p)
    <3>1. AllocWrite(p, ReadSlot(dpaRx.desc.body)) /\ dpaRx'.body = NewRef(p)
      BY <1>1, <2>2, RxIs DEF RxCopyBody
    <3>2. r # NewRef(p) => ReadSlot(r)' = ReadSlot(r)
      BY <1>2, <2>2, <3>1, SlotTaken
    <3> QED  BY <1>2, <1>3, <3>1, <3>2, NilIsNoRef DEF RxNames, Names
  <2> QED  BY <2>1, <2>2
<1> QED  BY <1>2, <1>3, RxQuiet, RxKeeps

LEMMA RxRequeueKeeps ==
  ASSUME Shapes, Accounted, QueuesNeverFull, RxRequeue, DpaOnly
  PROVE  Accounted'
<1>1. PICK d : d = dpaRx.desc
  OBVIOUS
<1>2. /\ d \in RoutedDesc /\ dpaRx.header = Nil /\ dpaRx.body = Nil /\ d # Nil
      /\ sidecar_rx_sq \in Seq(RoutedDesc)
  BY <1>1, RxIs, SidecarDescs, NilIsNoRef DEF RxRequeue, DpaRxShape
<1>3. /\ sidecar_rx_sq' = Append(sidecar_rx_sq, d)
      /\ UNCHANGED <<dpaTx, mem, tx_sq, rx_sq, sidecar_tx_sq>>
  BY <1>1, <1>2 DEF RxRequeue, QueuesNeverFull, PutBack
<1>4. ASSUME NEW r \in Ref, ReadSlot(r)' # Free
      PROVE  /\ ReadSlot(r) # Free
             /\ RxNames(r) \/ QueueNames(sidecar_rx_sq, r) => QueueNames(sidecar_rx_sq, r)'
             /\ \A v \in Worker : QueueNames(rx_sq[v], r)' <=> QueueNames(rx_sq[v], r)
  <2>1. ReadSlot(r) # Free
    BY <1>3, <1>4 DEF ReadSlot
  <2>2. QueueNames(Append(sidecar_rx_sq, d), r) <=> QueueNames(sidecar_rx_sq, r) \/ r \in {d.header, d.body}
    BY <1>2, QueueBack
  <2>3. QueueNames(sidecar_rx_sq, r)' <=> QueueNames(Append(sidecar_rx_sq, d), r)
    BY <1>3 DEF QueueNames
  <2>4. RxNames(r) => r \in {d.header, d.body}
    BY <1>1, <1>2, NilIsNoRef DEF RxNames, Names
  <2> QED  BY <1>3, <2>1, <2>2, <2>3, <2>4 DEF QueueNames
<1> QED  BY <1>3, <1>4, RxKeeps

LEMMA RxFreeBodyKeeps ==
  ASSUME Shapes, Accounted, RxFreeBody, DpaOnly
  PROVE  Accounted'
<1>1. PICK d, q : d = dpaRx.desc /\ q = d.body
  OBVIOUS
<1>2. q \in Ref /\ d \in Descriptor /\ d # Nil
  BY <1>1, RxIs, SidecarDescs, NilIsNoRef DEF RxFreeBody, DpaRxShape, RoutedDesc, DpuDesc
<1>3. /\ dpaRx'.desc # Nil /\ dpaRx'.desc.header = d.header /\ dpaRx'.body = dpaRx.body /\ dpaRx'.header = dpaRx.header
      /\ UNCHANGED <<dpaTx, tx_sq, rx_sq, sidecar_tx_sq, sidecar_rx_sq>> /\ FreeSlot(q)
  <2>1. PICK e : e = [d EXCEPT !.body = Nil]
    OBVIOUS
  <2>2. e \in Descriptor /\ e.header = d.header
    BY <1>2, <2>1 DEF Descriptor, OptRef
  <2>3. dpaRx'.desc = e /\ dpaRx'.body = dpaRx.body /\ dpaRx'.header = dpaRx.header
    BY <1>1, <2>1, RxIs DEF RxFreeBody
  <2> QED  BY <1>1, <2>2, <2>3, NilIsNoRef DEF RxFreeBody, sqs
<1>4. ASSUME NEW r \in Ref, ReadSlot(r)' # Free
      PROVE  ReadSlot(r) # Free /\ (RxNames(r) => RxNames(r)')
  <2>1. r # q /\ ReadSlot(r) # Free
    BY <1>2, <1>3, <1>4, FreedSlot
  <2> QED  BY <1>1, <1>3, <2>1 DEF RxNames, Names
<1> QED  BY <1>3, <1>4, RxQuiet, RxKeeps

LEMMA RxCopyHeaderKeeps ==
  ASSUME Shapes, NEW own, OwnInv(own), Accounted, HeaderRoomAfterBody, RxCopyHeader, DpaOnly
  PROVE  Accounted'
<1>1. PICK p : p = HostPool(dpaRx.desc.dst, "rx_header")
  OBVIOUS
<1>2. /\ p \in Pool /\ dpaRx.header = Nil /\ ~Full(p)
      /\ UNCHANGED <<dpaTx, sqs, tx_sq, rx_sq, sidecar_tx_sq, sidecar_rx_sq>>
  <2>1. dpaRx.desc.dst \in Worker /\ dpaRx.header = Nil
    BY RxIs DEF RxCopyHeader, DpaRxShape
  <2> QED  BY <1>1, <2>1, RxIs, ShmAssumption DEF RxCopyHeader, sqs, HostPool, Pool, Kind, HeaderRoomAfterBody
<1>3. /\ AllocWrite(p, ReadSlot(dpaRx.desc.header)) /\ dpaRx'.header = NewRef(p)
      /\ dpaRx'.desc = dpaRx.desc /\ dpaRx'.body = dpaRx.body
  BY <1>1, <1>2, RxIs DEF RxCopyHeader
<1>4. ASSUME NEW r \in Ref, ReadSlot(r)' # Free
      PROVE  RxNames(r)' \/ (ReadSlot(r) # Free /\ (RxNames(r) => RxNames(r)'))
  <2>1. r # NewRef(p) => ReadSlot(r)' = ReadSlot(r)
    BY <1>2, <1>3, SlotTaken
  <2> QED  BY <1>2, <1>3, <1>4, <2>1, NilIsNoRef DEF RxNames, Names
<1> QED  BY <1>2, <1>4, RxQuiet, RxKeeps

LEMMA RxFreeHeaderKeeps ==
  ASSUME Shapes, Accounted, RxFreeHeader, DpaOnly
  PROVE  Accounted'
<1>1. PICK d, q : d = dpaRx.desc /\ q = d.header
  OBVIOUS
<1>2. q \in Ref /\ d \in Descriptor /\ d # Nil /\ d.body = Nil
  BY <1>1, RxIs, NilIsNoRef DEF RxFreeHeader, DpaRxShape, OptDesc
<1>3. /\ dpaRx'.body = dpaRx.body /\ dpaRx'.header = dpaRx.header
      /\ UNCHANGED <<dpaTx, tx_sq, rx_sq, sidecar_tx_sq, sidecar_rx_sq>> /\ FreeSlot(q)
  BY <1>1, RxIs DEF RxFreeHeader, sqs
<1>4. ASSUME NEW r \in Ref, ReadSlot(r)' # Free
      PROVE  ReadSlot(r) # Free /\ (RxNames(r) => RxNames(r)')
  <2>1. r # q /\ ReadSlot(r) # Free
    BY <1>2, <1>3, <1>4, FreedSlot
  <2> QED  BY <1>1, <1>2, <1>3, <2>1, NilIsNoRef DEF RxNames, Names
<1> QED  BY <1>3, <1>4, RxQuiet, RxKeeps

LEMMA RxPutKeeps ==
  ASSUME Shapes, Accounted, QueuesNeverFull, RxPut, DpaOnly
  PROVE  Accounted'
<1>1. PICK w, e : w = dpaRx.desc.dst /\ e = [dpaRx.desc EXCEPT !.header = dpaRx.header, !.body = dpaRx.body]
  OBVIOUS
<1>2. /\ w \in Worker /\ e \in ReceivedDesc(w) /\ e # Nil /\ e.header = dpaRx.header /\ e.body = dpaRx.body
      /\ DOMAIN rx_sq = Worker /\ rx_sq[w] \in Seq(ReceivedDesc(w))
      /\ dpaRx.desc.header = Nil /\ dpaRx.desc.body = Nil
  BY <1>1, RxPutDesc, RxIs, QueuedDescs DEF RxPut, DpaRxShape
<1>3. /\ rx_sq'[w] = Append(rx_sq[w], e)
      /\ \A v \in Worker : v # w => rx_sq'[v] = rx_sq[v]
      /\ UNCHANGED <<dpaTx, mem, tx_sq, sidecar_tx_sq, sidecar_rx_sq>>
  BY <1>1, <1>2 DEF RxPut, QueuesNeverFull
<1>4. ASSUME NEW r \in Ref, ReadSlot(r)' # Free
      PROVE  /\ ReadSlot(r) # Free
             /\ RxNames(r) \/ QueueNames(rx_sq[w], r) => QueueNames(rx_sq[w], r)'
             /\ \A v \in Worker : v # w => (QueueNames(rx_sq[v], r)' <=> QueueNames(rx_sq[v], r))
             /\ QueueNames(sidecar_rx_sq, r)' <=> QueueNames(sidecar_rx_sq, r)
  <2>1. ReadSlot(r) # Free
    BY <1>3, <1>4 DEF ReadSlot
  <2>2. QueueNames(Append(rx_sq[w], e), r) <=> QueueNames(rx_sq[w], r) \/ r \in {e.header, e.body}
    BY <1>2, QueueBack
  <2>3. QueueNames(rx_sq[w], r)' <=> QueueNames(Append(rx_sq[w], e), r)
    BY <1>3 DEF QueueNames
  <2>4. RxNames(r) => r \in {e.header, e.body}
    BY <1>2, NilIsNoRef DEF RxNames, Names
  <2> QED  BY <1>3, <2>1, <2>2, <2>3, <2>4 DEF QueueNames
<1> QED  BY <1>2, <1>3, <1>4, RxKeeps

LEMMA RxDropKeeps ==
  ASSUME Shapes, Accounted, RxDrop, DpaOnly
  PROVE  Accounted'
<1>1. /\ dpaRx.desc # Nil => dpaRx.desc.header = Nil /\ dpaRx.desc.body = Nil
      /\ UNCHANGED <<dpaTx, tx_sq, rx_sq, sidecar_tx_sq, sidecar_rx_sq>>
  BY RxIs DEF RxDrop, DpaRxShape, sqs
<1>2. PICK q \in Ref : FreeSlot(q) /\ \/ q = dpaRx.body /\ (dpaRx.header # Nil => dpaRx'.header = dpaRx.header)
                                      \/ q = dpaRx.header /\ dpaRx.body = Nil
  BY RxIs DEF RxDrop, DpaRxShape, OptRef
<1>3. ASSUME NEW r \in Ref, ReadSlot(r)' # Free
      PROVE  ReadSlot(r) # Free /\ (RxNames(r) => RxNames(r)')
  <2>1. r # q /\ ReadSlot(r) # Free
    BY <1>2, <1>3, FreedSlot
  <2>2. RxNames(r) => r \in {dpaRx.header, dpaRx.body}
    BY <1>1, NilIsNoRef DEF RxNames, Names
  <2> QED  BY <1>2, <2>1, <2>2, NilIsNoRef DEF RxNames
<1> QED  BY <1>1, <1>3, RxQuiet, RxKeeps

LEMMA DpaKeeps ==
  ASSUME Shapes, NEW own, OwnInv(own), LeakInv, QueuesNeverFull, HeaderRoomAfterBody, DpaStep, DpaOnly
  PROVE  LeakInv'
<1>1. CASE DpaRxStep
  <2>1. Accounted'
    BY <1>1, RxGetKeeps, RxCopyBodyKeeps, RxRequeueKeeps, RxFreeBodyKeeps, RxCopyHeaderKeeps,
       RxFreeHeaderKeeps, RxPutKeeps, RxDropKeeps DEF DpaRxStep, LeakInv
  <2>2. UNCHANGED dpaTx
    BY <1>1 DEF DpaRxStep, RxGet, RxCopyBody, RxRequeue, RxFreeBody, RxCopyHeader, RxFreeHeader, RxPut, RxDrop
  <2> QED  BY <2>1, <2>2 DEF LeakInv
<1>2. CASE DpaTxStep
  <2>1. ~TxDrop
    BY DEF TxDrop, LeakInv
  <2> QED  BY <1>2, <2>1, TxCopyKeeps, TxRequeueKeeps, TxFreeKeeps, TxPutKeeps DEF DpaTxStep
<1> QED  BY <1>1, <1>2, TxGetKeeps DEF DpaStep
-----------------------------------------------------------------------------
(* The routing thread of the sidecar.                                      *)
LEMMA ArmKeeps ==
  ASSUME Accounted, SidecarOnly, UNCHANGED <<bridge, tx_sq, rx_sq>>,
         \A r \in Ref : ReadSlot(r)' # Free =>
           /\ ReadSlot(r) # Free
           /\ Names(arm.desc, r) \/ DpuNames(r) => Names(arm.desc, r)' \/ DpuNames(r)'
  PROVE  Accounted'
<1>1. ASSUME NEW r \in Ref, ReadSlot(r)' # Free
      PROVE  \/ SidecarNames(r)' \/ DpuNames(r)'
             \/ ReadSlot(r) # Free /\ ~SidecarNames(r) /\ ~DpuNames(r)
  <2>1. (\E c \in Client : r = bridge[c].body) => SidecarNames(r)'
    BY DEF SidecarNames
  <2>2. Names(arm.desc, r)' => SidecarNames(r)'
    BY DEF SidecarNames
  <2> QED  BY <1>1, <2>1, <2>2 DEF SidecarNames
<1> QED  BY <1>1, SidecarKeeps

LEMMA ArmGetKeeps ==
  ASSUME Shapes, Accounted, ArmGet, SidecarOnly
  PROVE  Accounted'
<1>1. PICK d : d = Head(sidecar_tx_sq)
  OBVIOUS
<1>2. arm.desc = Nil /\ sidecar_tx_sq \in Seq(DpuDesc) /\ sidecar_tx_sq # << >> /\ d # Nil
  <2>1. d \in DpuDesc /\ DpuDesc \subseteq Descriptor
    BY <1>1, SidecarDescs DEF ArmGet
  <2> QED  BY <2>1, ArmIs, SidecarDescs, NilIsNoRef DEF ArmGet, ArmShape
<1>3. /\ arm'.desc = d /\ sidecar_tx_sq' = Tail(sidecar_tx_sq)
      /\ UNCHANGED <<bridge, mem, tx_sq, rx_sq, sidecar_rx_sq>>
  BY <1>1, ArmIs DEF ArmGet
<1>4. ASSUME NEW r \in Ref, ReadSlot(r)' # Free
      PROVE  /\ ReadSlot(r) # Free
             /\ Names(arm.desc, r) \/ DpuNames(r) => Names(arm.desc, r)' \/ DpuNames(r)'
  <2>1. ReadSlot(r) # Free
    BY <1>3, <1>4 DEF ReadSlot
  <2>2. ~Names(arm.desc, r)
    BY <1>2 DEF Names
  <2>3. QueueNames(sidecar_tx_sq, r) => Names(d, r) \/ QueueNames(Tail(sidecar_tx_sq), r)
    BY <1>1, <1>2, QueueFront
  <2>4. /\ QueueNames(Tail(sidecar_tx_sq), r) => QueueNames(sidecar_tx_sq, r)'
        /\ QueueNames(sidecar_rx_sq, r) => QueueNames(sidecar_rx_sq, r)'
        /\ Names(d, r) => Names(arm.desc, r)'
    BY <1>3 DEF QueueNames, Names
  <2> QED  BY <2>1, <2>2, <2>3, <2>4 DEF DpuNames
<1> QED  BY <1>3, <1>4, ArmKeeps

LEMMA RouteKeeps ==
  ASSUME Shapes, Shapes', Accounted, RouteRequest \/ RouteResponse, SidecarOnly
  PROVE  Accounted'
<1>1. PICK d : d = arm.desc
  OBVIOUS
<1>2. /\ arm'.desc # Nil /\ arm'.desc.header = d.header /\ arm'.desc.body = d.body
      /\ UNCHANGED <<bridge, shmVars>>
  <2>1. d \in Descriptor
    BY <1>1, ArmIs DEF RouteRequest, RouteResponse, ArmShape, DpuDesc
  <2>2. arm'.desc.header = d.header /\ arm'.desc.body = d.body /\ arm'.pc \in {"put", "cleanup"}
        /\ UNCHANGED <<bridge, shmVars>>
    <3>1. \/ arm' = [arm EXCEPT !.pc = "cleanup"]
          \/ \E x : arm' = [arm EXCEPT !.pc = "put", !.desc.dst = x, !.desc.case = "local"]
      BY DEF RouteRequest, RouteResponse
    <3>2. UNCHANGED <<bridge, shmVars>>
      BY DEF RouteRequest, RouteResponse
    <3>3. CASE arm' = [arm EXCEPT !.pc = "cleanup"]
      BY <1>1, <3>2, <3>3, ArmIs
    <3>4. CASE \E x : arm' = [arm EXCEPT !.pc = "put", !.desc.dst = x, !.desc.case = "local"]
      <4>1. PICK x : arm' = [arm EXCEPT !.pc = "put", !.desc.dst = x, !.desc.case = "local"]
        BY <3>4
      <4>2. arm'.desc = [d EXCEPT !.dst = x, !.case = "local"] /\ arm'.pc = "put"
        BY <1>1, <4>1, ArmIs
      <4> QED  BY <2>1, <3>2, <4>2 DEF Descriptor
    <3> QED  BY <3>1, <3>3, <3>4
  <2>3. ArmShape(arm)'
    BY DEF Shapes, SidecarShapes
  <2> QED  BY <2>2, <2>3, NilIsNoRef DEF ArmShape, DpuDesc
<1>3. ASSUME NEW r \in Ref, ReadSlot(r)' # Free
      PROVE  /\ ReadSlot(r) # Free
             /\ Names(arm.desc, r) \/ DpuNames(r) => Names(arm.desc, r)' \/ DpuNames(r)'
  BY <1>1, <1>2, <1>3 DEF shmVars, sqs, ReadSlot, Names, DpuNames
<1> QED  BY <1>2, <1>3, ArmKeeps DEF shmVars, sqs

LEMMA ArmPutKeeps ==
  ASSUME Shapes, Accounted, ArmPut, SidecarOnly
  PROVE  Accounted'
<1>1. PICK d : d = arm.desc
  OBVIOUS
<1>2. d \in RoutedDesc /\ d # Nil /\ sidecar_rx_sq \in Seq(RoutedDesc)
  <2>1. d \in DpuDesc /\ d.dst \in Worker /\ d.case = "local" /\ d # Nil
    BY <1>1, ArmIs, SidecarDescs, NilIsNoRef DEF ArmPut, ArmShape
  <2> QED  BY <2>1, SidecarDescs DEF RoutedDesc
<1>3. UNCHANGED <<bridge, mem, tx_sq, rx_sq, sidecar_tx_sq>>
  BY DEF ArmPut
<1>4. ASSUME NEW r \in Ref
      PROVE  DpuNames(r) => DpuNames(r)'
  <2>1. QueueNames(Append(sidecar_rx_sq, d), r) <=> QueueNames(sidecar_rx_sq, r) \/ r \in {d.header, d.body}
    BY <1>2, QueueBack
  <2>2. sidecar_rx_sq' = Append(sidecar_rx_sq, d) \/ sidecar_rx_sq' = sidecar_rx_sq
    BY <1>1 DEF ArmPut
  <2>3. QueueNames(sidecar_rx_sq, r) => QueueNames(sidecar_rx_sq, r)'
    BY <2>1, <2>2 DEF QueueNames
  <2> QED  BY <1>3, <2>3 DEF DpuNames, QueueNames
<1>5. ASSUME NEW r \in Ref
      PROVE  Names(arm.desc, r) => Names(arm.desc, r)' \/ DpuNames(r)'
  <2>1. CASE sidecar_rx_sq' = Append(sidecar_rx_sq, d)
    <3>1. QueueNames(Append(sidecar_rx_sq, d), r) <=> QueueNames(sidecar_rx_sq, r) \/ r \in {d.header, d.body}
      BY <1>2, QueueBack
    <3> QED  BY <1>1, <2>1, <3>1 DEF DpuNames, QueueNames, Names
  <2>2. CASE arm'.desc = arm.desc
    BY <2>2 DEF Names
  <2> QED  BY <1>1, <2>1, <2>2, ArmIs DEF ArmPut
<1> QED  BY <1>3, <1>4, <1>5, ArmKeeps DEF ReadSlot

LEMMA ArmFreesKeeps ==
  ASSUME Shapes, Accounted, SidecarOnly, UNCHANGED <<bridge, sqs>>,
         \/ /\ arm.desc # Nil /\ arm.desc.body \in Ref /\ FreeSlot(arm.desc.body)
            /\ arm'.desc # Nil /\ arm'.desc.header = arm.desc.header
         \/ arm.desc # Nil /\ arm.desc.header \in Ref /\ arm.desc.body = Nil /\ FreeSlot(arm.desc.header)
  PROVE  Accounted'
<1>1. ASSUME NEW r \in Ref, ReadSlot(r)' # Free
      PROVE  /\ ReadSlot(r) # Free
             /\ Names(arm.desc, r) \/ DpuNames(r) => Names(arm.desc, r)' \/ DpuNames(r)'
  <2>1. DpuNames(r)' <=> DpuNames(r)
    BY DEF DpuNames, sqs
  <2>2. CASE /\ arm.desc # Nil /\ arm.desc.body \in Ref /\ FreeSlot(arm.desc.body)
             /\ arm'.desc # Nil /\ arm'.desc.header = arm.desc.header
    <3>1. r # arm.desc.body /\ ReadSlot(r) # Free
      BY <1>1, <2>2, FreedSlot
    <3> QED  BY <2>1, <2>2, <3>1 DEF Names
  <2>3. CASE arm.desc # Nil /\ arm.desc.header \in Ref /\ arm.desc.body = Nil /\ FreeSlot(arm.desc.header)
    <3>1. r # arm.desc.header /\ ReadSlot(r) # Free
      BY <1>1, <2>3, FreedSlot
    <3> QED  BY <2>1, <2>3, <3>1, NilIsNoRef DEF Names
  <2> QED  BY <2>2, <2>3
<1> QED  BY <1>1, ArmKeeps DEF sqs

LEMMA CleanupKeeps ==
  ASSUME Shapes, Accounted, Cleanup \/ DeliverBody \/ DeliverHeader, SidecarOnly
  PROVE  Accounted'
<1>1. PICK d : d = arm.desc
  OBVIOUS
<1>2. d \in Descriptor /\ d # Nil /\ d.header \in Ref /\ d.body \in OptRef /\ (DeliverHeader => d.body = Nil)
      /\ (DeliverBody => d.body \in Ref)
  BY <1>1, ArmIs, SidecarDescs, NilIsNoRef
     DEF Cleanup, DeliverBody, DeliverHeader, ArmShape, DpuDesc, OptDesc, Descriptor
<1>3. ASSUME d.body \in Ref, FreeSlot(d.body), arm'.desc = [d EXCEPT !.body = Nil]
      PROVE  arm'.desc # Nil /\ arm'.desc.header = d.header
  <2>1. PICK e : e = [d EXCEPT !.body = Nil]
    OBVIOUS
  <2>2. e \in Descriptor /\ e.header = d.header
    BY <1>2, <2>1 DEF Descriptor, OptRef
  <2> QED  BY <1>3, <2>1, <2>2, NilIsNoRef
<1>4. UNCHANGED <<bridge, sqs>>
  BY DEF Cleanup, DeliverBody, DeliverHeader
<1>5. \/ d.body \in Ref /\ FreeSlot(d.body) /\ arm'.desc = [d EXCEPT !.body = Nil]
      \/ d.body = Nil /\ FreeSlot(d.header)
  <2>1. CASE Cleanup
    BY <1>1, <1>2, <2>1, ArmIs DEF Cleanup, OptRef
  <2>2. CASE DeliverBody
    BY <1>1, <1>2, <2>2, ArmIs DEF DeliverBody
  <2>3. CASE DeliverHeader
    BY <1>1, <1>2, <2>3 DEF DeliverHeader
  <2> QED  BY <2>1, <2>2, <2>3
<1> QED  BY <1>1, <1>2, <1>3, <1>4, <1>5, ArmFreesKeeps

LEMMA DeliverEventKeeps ==
  ASSUME Shapes, Accounted, DeliverEvent, SidecarOnly
  PROVE  Accounted'
<1>1. arm.desc = Nil /\ UNCHANGED <<bridge, shmVars>>
  BY ArmIs DEF DeliverEvent, ArmShape
<1> QED  BY <1>1, ArmKeeps DEF Names, DpuNames, ReadSlot, shmVars, sqs
-----------------------------------------------------------------------------
(* The bridge threads.                                                     *)
LEMMA BridgeKeeps ==
  ASSUME Accounted, SidecarOnly, UNCHANGED <<arm, tx_sq, rx_sq, sidecar_tx_sq>>, NEW c \in Client,
         \A b \in Client : b # c => bridge'[b] = bridge[b],
         \A r \in Ref : ReadSlot(r)' # Free =>
           \/ r = bridge'[c].body
           \/ /\ ReadSlot(r) # Free
              /\ QueueNames(sidecar_rx_sq, r) \/ r = bridge[c].body => QueueNames(sidecar_rx_sq, r)'
  PROVE  Accounted'
<1>1. ASSUME NEW r \in Ref, ReadSlot(r)' # Free
      PROVE  \/ SidecarNames(r)' \/ DpuNames(r)'
             \/ ReadSlot(r) # Free /\ ~SidecarNames(r) /\ ~DpuNames(r)
  <2>1. CASE r = bridge'[c].body
    BY <2>1 DEF SidecarNames
  <2>2. CASE /\ ReadSlot(r) # Free
             /\ QueueNames(sidecar_rx_sq, r) \/ r = bridge[c].body => QueueNames(sidecar_rx_sq, r)'
    <3>1. SidecarNames(r) => r = bridge[c].body \/ SidecarNames(r)'
      BY DEF SidecarNames
    <3>2. DpuNames(r) => QueueNames(sidecar_rx_sq, r) \/ DpuNames(r)'
      BY DEF DpuNames
    <3>3. QueueNames(sidecar_rx_sq, r)' => DpuNames(r)'
      BY DEF DpuNames
    <3> QED  BY <2>2, <3>1, <3>2, <3>3
  <2> QED  BY <1>1, <2>1, <2>2
<1> QED  BY <1>1, SidecarKeeps

LEMMA BridgeQuietKeeps ==
  ASSUME Shapes, Accounted, NEW c \in Client, SidecarOnly,
         BridgeRegister(c) \/ BridgeAnswer(c) \/ BridgeTimeout(c) \/ BridgeExpire(c)
  PROVE  Accounted'
<1>1. /\ bridge[c].body = Nil /\ DOMAIN bridge = Client /\ UNCHANGED <<arm, shmVars>>
  BY BridgeIs DEF BridgeRegister, BridgeAnswer, BridgeTimeout, BridgeExpire, BridgeShape
<1>2. \A b \in Client : b # c => bridge'[b] = bridge[b]
  BY <1>1 DEF BridgeRegister, BridgeAnswer, BridgeTimeout, BridgeExpire, Answer
<1> QED  BY <1>1, <1>2, BridgeKeeps, NilIsNoRef DEF shmVars, sqs, ReadSlot, QueueNames

LEMMA BridgeAllocKeeps ==
  ASSUME Shapes, NEW own, OwnInv(own), Accounted, NEW c \in Client, BridgeAlloc(c), SidecarOnly
  PROVE  Accounted'
<1>1. /\ bridge[c].body = Nil /\ DOMAIN bridge = Client /\ UNCHANGED <<arm, sqs>>
      /\ \A b \in Client : b # c => bridge'[b] = bridge[b]
  BY BridgeIs DEF BridgeAlloc, BridgeShape, Answer
<1>2. \/ UNCHANGED mem
      \/ ~Full(DpuRxBody) /\ bridge'[c].body = NewRef(DpuRxBody) /\ \E x : AllocWrite(DpuRxBody, x)
  BY <1>1, BridgeIs DEF BridgeAlloc
<1>3. ASSUME NEW r \in Ref, ReadSlot(r)' # Free
      PROVE  r = bridge'[c].body \/ ReadSlot(r) # Free
  <2>1. CASE UNCHANGED mem
    BY <1>3, <2>1 DEF ReadSlot
  <2>2. CASE ~Full(DpuRxBody) /\ bridge'[c].body = NewRef(DpuRxBody) /\ \E x : AllocWrite(DpuRxBody, x)
    <3>1. PICK x : AllocWrite(DpuRxBody, x)
      BY <2>2
    <3>2. r # NewRef(DpuRxBody) => ReadSlot(r)' = ReadSlot(r)
      BY <2>2, <3>1, SlotTaken DEF Pool
    <3> QED  BY <1>3, <2>2, <3>2
  <2> QED  BY <1>2, <2>1, <2>2
<1> QED  BY <1>1, <1>3, BridgeKeeps, NilIsNoRef DEF sqs, QueueNames

LEMMA BridgePutKeeps ==
  ASSUME Shapes, Accounted, NEW c \in Client, BridgePut(c), SidecarOnly
  PROVE  Accounted'
<1>1. PICK d : d = [op |-> "req", case |-> "ingress", req_id |-> 0, dst |-> bridge[c].dst,
                    header |-> Nil, body |-> bridge[c].body]
  OBVIOUS
<1>2. /\ d \in RoutedDesc /\ d # Nil /\ d.body = bridge[c].body /\ sidecar_rx_sq \in Seq(RoutedDesc)
      /\ DOMAIN bridge = Client
  <2>1. bridge[c].dst \in Worker /\ bridge[c].body \in Ref /\ bridge[c].body.pool = DpuRxBody
    BY BridgeIs DEF BridgePut, BridgeShape
  <2>2. d \in RoutedDesc
    BY <1>1, <2>1 DEF RoutedDesc, Descriptor, Ingress, OptRef
  <2> QED  BY <1>1, <2>2, BridgeIs, SidecarDescs, NilIsNoRef
<1>3. /\ \A b \in Client : b # c => bridge'[b] = bridge[b]
      /\ UNCHANGED <<arm, mem, tx_sq, rx_sq, sidecar_tx_sq>>
      /\ \/ sidecar_rx_sq' = Append(sidecar_rx_sq, d)
         \/ sidecar_rx_sq' = sidecar_rx_sq /\ bridge'[c].body = bridge[c].body
  BY <1>1, <1>2, BridgeIs DEF BridgePut
<1>4. ASSUME NEW r \in Ref
      PROVE  \/ r = bridge'[c].body
             \/ QueueNames(sidecar_rx_sq, r) \/ r = bridge[c].body => QueueNames(sidecar_rx_sq, r)'
  <2>1. QueueNames(Append(sidecar_rx_sq, d), r) <=> QueueNames(sidecar_rx_sq, r) \/ r \in {d.header, d.body}
    BY <1>2, QueueBack
  <2> QED  BY <1>2, <1>3, <2>1 DEF QueueNames
<1> QED  BY <1>3, <1>4, BridgeKeeps DEF ReadSlot

LEMMA BridgeUndoKeeps ==
  ASSUME Shapes, Accounted, NEW c \in Client, BridgeUndo(c), SidecarOnly
  PROVE  Accounted'
<1>1. PICK q : q = bridge[c].body
  OBVIOUS
<1>2. /\ q \in Ref /\ FreeSlot(q) /\ DOMAIN bridge = Client /\ UNCHANGED <<arm, sqs>>
      /\ \A b \in Client : b # c => bridge'[b] = bridge[b]
  BY <1>1, BridgeIs DEF BridgeUndo, BridgeShape, Answer
<1>3. ASSUME NEW r \in Ref, ReadSlot(r)' # Free
      PROVE  ReadSlot(r) # Free /\ r # bridge[c].body
  BY <1>1, <1>2, <1>3, FreedSlot
<1> QED  BY <1>2, <1>3, BridgeKeeps DEF sqs, QueueNames

LEMMA SidecarStepKeeps ==
  ASSUME Shapes, Shapes', NEW own, OwnInv(own), LeakInv, SidecarStep, SidecarOnly
  PROVE  LeakInv'
<1>1. Arm => Accounted'
  BY ArmGetKeeps, RouteKeeps, ArmPutKeeps, CleanupKeeps, DeliverEventKeeps DEF Arm, LeakInv
<1>2. ASSUME NEW c \in Client, BridgeStep(c) \/ BridgeTimeout(c)
      PROVE  Accounted'
  BY <1>2, BridgeQuietKeeps, BridgeAllocKeeps, BridgePutKeeps, BridgeUndoKeeps DEF BridgeStep, LeakInv
<1>3. UNCHANGED dpaTx
  BY DEF SidecarOnly, dpaVars
<1> QED  BY <1>1, <1>2, <1>3 DEF SidecarStep, LeakInv
-----------------------------------------------------------------------------
(* The workers.                                                            *)
LEMMA WorkerAlone ==
  ASSUME Shapes, NEW w \in Worker, Poller(w) \/ Main(w)
  PROVE  /\ UNCHANGED <<sidecar_tx_sq, sidecar_rx_sq>>
         /\ \A v \in Worker : v # w =>
              UNCHANGED <<main[v], poller[v], delivered[v], tx_sq[v], rx_sq[v], notify[v]>>
<1>1. DOMAIN notify = Worker /\ DOMAIN tx_sq = Worker /\ DOMAIN rx_sq = Worker
  BY HostAtIs, QueuedDescs
<1>2. CASE Poller(w)
  <2>1. PollerGet(w) => /\ UNCHANGED <<sidecar_tx_sq, sidecar_rx_sq, notify, tx_sq>>
                        /\ \A v \in Worker : v # w => rx_sq'[v] = rx_sq[v]
    BY <1>1 DEF PollerGet, pipes
  <2>2. PollerNotify(w) => /\ UNCHANGED <<sidecar_tx_sq, sidecar_rx_sq, rx_sq, tx_sq>>
                           /\ \A v \in Worker : v # w => notify'[v] = notify[v]
    BY <1>1 DEF PollerNotify, shmVars, sqs
  <2>3. PollerDeliver(w) \/ PollerDrop(w) \/ PollerClose(w) =>
          UNCHANGED <<sidecar_tx_sq, sidecar_rx_sq, rx_sq, tx_sq, notify>>
    BY DEF PollerDeliver, PollerDrop, PollerClose, shmVars, sqs, pipes
  <2> QED  BY <1>2, <2>1, <2>2, <2>3, WorkersAlone DEF Poller, OthersSame
<1>3. CASE Main(w)
  <2>1. OnRequest(w) => /\ UNCHANGED <<sidecar_tx_sq, sidecar_rx_sq, rx_sq, tx_sq>>
                        /\ \A v \in Worker : v # w => notify'[v] = notify[v]
    BY <1>1 DEF OnRequest, shmVars, sqs
  <2>2. Enqueue(w) => /\ UNCHANGED <<sidecar_tx_sq, sidecar_rx_sq, rx_sq, notify>>
                      /\ \A v \in Worker : v # w => tx_sq'[v] = tx_sq[v]
    BY <1>1 DEF Enqueue
  <2>3. OnResponse(w) \/ Upstream(w) \/ WriteFailed(w) =>
          UNCHANGED <<sidecar_tx_sq, sidecar_rx_sq, rx_sq, tx_sq, notify>>
    BY DEF OnResponse, Upstream, WriteFailed, shmVars, sqs, pipes
  <2>4. FreeRxHeader(w) \/ FreeRxBody(w) \/ WriteHeader(w) \/ WriteBody(w) \/ UndoHeader(w) \/ UndoBody(w) =>
          UNCHANGED <<sidecar_tx_sq, sidecar_rx_sq, rx_sq, tx_sq, notify>>
    BY DEF FreeRxHeader, FreeRxBody, WriteHeader, WriteBody, UndoHeader, UndoBody, sqs, pipes
  <2> QED  BY <1>3, <2>1, <2>2, <2>3, <2>4, WorkersAlone DEF Main, OthersSame
<1> QED  BY <1>2, <1>3

(* What the step of a worker must do.                                      *)
Passes(w) ==
  \A r \in Ref : ReadSlot(r)' # Free =>
    WorkerNames(w, r)' \/ (ReadSlot(r) # Free /\ ~WorkerNames(w, r))

LEMMA MainPasses ==
  ASSUME NEW w \in Worker, UNCHANGED <<poller[w], delivered[w], tx_sq[w], rx_sq[w], notify[w]>>,
         \A r \in Ref : ReadSlot(r)' # Free =>
           MainNames(main[w], r)' \/ (ReadSlot(r) # Free /\ ~MainNames(main[w], r))
  PROVE  Passes(w)
BY DEF Passes, WorkerNames

LEMMA PollerGetPasses ==
  ASSUME Shapes, NEW w \in Worker, PollerGet(w)
  PROVE  Passes(w)
<1>1. PICK d : d = Head(rx_sq[w])
  OBVIOUS
<1>2. /\ poller[w].desc = Nil /\ rx_sq[w] \in Seq(ReceivedDesc(w)) /\ rx_sq[w] # << >> /\ d # Nil
      /\ DOMAIN rx_sq = Worker /\ DOMAIN poller = Worker
  <2>1. d \in ReceivedDesc(w) /\ ReceivedDesc(w) \subseteq Descriptor
    BY <1>1, QueuedDescs DEF PollerGet
  <2> QED  BY <2>1, HostAtIs, QueuedDescs, NilIsNoRef DEF PollerGet, HostAt, PollerShape
<1>3. /\ poller'[w].desc = d /\ rx_sq'[w] = Tail(rx_sq[w])
      /\ UNCHANGED <<mem, tx_sq, notify, delivered, main>>
  BY <1>1, <1>2, HostAtIs DEF PollerGet, pipes, HostAt, PollerShape
<1>4. ASSUME NEW r \in Ref
      PROVE  WorkerNames(w, r) => WorkerNames(w, r)'
  <2>1. QueueNames(rx_sq[w], r) => Names(d, r) \/ QueueNames(Tail(rx_sq[w]), r)
    BY <1>1, <1>2, QueueFront
  <2>2. /\ QueueNames(Tail(rx_sq[w]), r) => QueueNames(rx_sq[w], r)'
        /\ Names(d, r) => Names(poller[w].desc, r)'
        /\ ~Names(poller[w].desc, r)
    BY <1>2, <1>3 DEF QueueNames, Names
  <2>3. /\ MainNames(main[w], r)' <=> MainNames(main[w], r)
        /\ PipesName(delivered[w], r)' <=> PipesName(delivered[w], r)
        /\ QueueNames(tx_sq[w], r)' <=> QueueNames(tx_sq[w], r)
        /\ QueueNames(notify[w], r)' <=> QueueNames(notify[w], r)
    BY <1>3 DEF MainNames, PipesName, QueueNames
  <2> QED  BY <2>1, <2>2, <2>3 DEF WorkerNames
<1> QED  BY <1>3, <1>4 DEF Passes, ReadSlot

LEMMA PollerNotifyPasses ==
  ASSUME Shapes, QueuesNeverFull, NEW w \in Worker, PollerNotify(w)
  PROVE  Passes(w)
<1>1. PICK d, D : d = poller[w].desc /\ D = {e \in ReceivedDesc(w) : e.op = "req"}
  OBVIOUS
<1>2. d \in D /\ d # Nil /\ notify[w] \in Seq(D) /\ DOMAIN notify = Worker /\ DOMAIN poller = Worker
  <2>1. d \in ReceivedDesc(w) /\ d.op = "req" /\ ReceivedDesc(w) \subseteq Descriptor
    BY <1>1, HostAtIs, QueuedDescs DEF PollerNotify, HostAt, PollerShape
  <2> QED  BY <1>1, <2>1, HostAtIs, NilIsNoRef DEF HostAt
<1>3. notify'[w] = Append(notify[w], d) /\ UNCHANGED <<mem, tx_sq, rx_sq, delivered, main>>
  BY <1>1, <1>2 DEF PollerNotify, QueuesNeverFull, shmVars, sqs
<1>4. ASSUME NEW r \in Ref
      PROVE  WorkerNames(w, r) => WorkerNames(w, r)'
  <2>1. QueueNames(Append(notify[w], d), r) <=> QueueNames(notify[w], r) \/ r \in {d.header, d.body}
    BY <1>2, QueueBack
  <2>2. /\ QueueNames(notify[w], r) => QueueNames(notify[w], r)'
        /\ Names(poller[w].desc, r) => QueueNames(notify[w], r)'
    BY <1>1, <1>3, <2>1 DEF QueueNames, Names
  <2>3. /\ MainNames(main[w], r)' <=> MainNames(main[w], r)
        /\ PipesName(delivered[w], r)' <=> PipesName(delivered[w], r)
        /\ QueueNames(tx_sq[w], r)' <=> QueueNames(tx_sq[w], r)
        /\ QueueNames(rx_sq[w], r)' <=> QueueNames(rx_sq[w], r)
    BY <1>3 DEF MainNames, PipesName, QueueNames
  <2> QED  BY <2>2, <2>3 DEF WorkerNames
<1> QED  BY <1>3, <1>4 DEF Passes, ReadSlot

LEMMA PollerDeliverPasses ==
  ASSUME Shapes, NEW w \in Worker, PollerDeliver(w)
  PROVE  Passes(w)
<1>1. PICK d, x : d = poller[w].desc /\ x = [pipe |-> PipeFor(w, d), desc |-> d]
  OBVIOUS
<1>2. /\ delivered'[w] = delivered[w] \cup {x} /\ x.desc = d
      /\ UNCHANGED <<mem, tx_sq, rx_sq, notify, main>>
  BY <1>1, HostAtIs DEF PollerDeliver, shmVars, sqs
<1>3. ASSUME NEW r \in Ref
      PROVE  WorkerNames(w, r) => WorkerNames(w, r)'
  <2>1. /\ PipesName(delivered[w], r) => PipesName(delivered[w], r)'
        /\ Names(poller[w].desc, r) => PipesName(delivered[w], r)'
    BY <1>1, <1>2 DEF PipesName
  <2>2. /\ MainNames(main[w], r)' <=> MainNames(main[w], r)
        /\ QueueNames(tx_sq[w], r)' <=> QueueNames(tx_sq[w], r)
        /\ QueueNames(rx_sq[w], r)' <=> QueueNames(rx_sq[w], r)
        /\ QueueNames(notify[w], r)' <=> QueueNames(notify[w], r)
    BY <1>2 DEF MainNames, QueueNames
  <2> QED  BY <2>1, <2>2 DEF WorkerNames
<1> QED  BY <1>2, <1>3 DEF Passes, ReadSlot

LEMMA PollerClosePasses ==
  ASSUME Shapes, NEW w \in Worker, PollerClose(w)
  PROVE  Passes(w)
<1>1. poller[w].desc = Nil /\ UNCHANGED <<mem, tx_sq, rx_sq, notify, delivered, main>>
  BY HostAtIs DEF PollerClose, shmVars, sqs, pipes, HostAt, PollerShape
<1>2. ASSUME NEW r \in Ref
      PROVE  WorkerNames(w, r) => WorkerNames(w, r)'
  BY <1>1 DEF WorkerNames, Names, QueueNames, MainNames, PipesName
<1> QED  BY <1>1, <1>2 DEF Passes, ReadSlot
-----------------------------------------------------------------------------
LEMMA OnRequestPasses ==
  ASSUME Shapes, NEW w \in Worker, OnRequest(w)
  PROVE  Passes(w)
<1>1. PICK d, D : d = Head(notify[w]) /\ D = {e \in ReceivedDesc(w) : e.op = "req"}
  OBVIOUS
<1>2. /\ notify[w] \in Seq(D) /\ notify[w] # << >> /\ d \in Descriptor
      /\ d.header \in OptRef /\ d.body \in OptRef
  <2>1. notify[w] \in Seq(D) /\ notify[w] # << >>
    BY <1>1, HostAtIs DEF OnRequest, HostAt
  <2>2. d \in D /\ ReceivedDesc(w) \subseteq Descriptor
    BY <1>1, <2>1, QueuedDescs
  <2> QED  BY <1>1, <2>1, <2>2 DEF Descriptor
<1>3. notify'[w] = Tail(notify[w]) /\ UNCHANGED <<mem, tx_sq, rx_sq, delivered, poller>>
  BY HostAtIs DEF OnRequest, shmVars, sqs
<1>4. /\ main[w].rx_header = Nil /\ main[w].rx_body = Nil /\ main[w].tx_header = Nil /\ main[w].tx_body = Nil
  BY MainIs DEF OnRequest, MainShape
<1>5. main'[w].rx_header = d.header /\ main'[w].rx_body = d.body
  <2>1. PICK m : m = [IdleMain EXCEPT !.rx_header = d.header, !.rx_body = d.body]
    OBVIOUS
  <2>2. m \in MainState /\ m.rx_header = d.header /\ m.rx_body = d.body
    BY <1>2, <2>1, IdleMainIs DEF MainState, IdleMain
  <2>3. \E idx, ib, out : StartRespond(w, m, idx, ib, out) \/ StartCall(w, m, idx, out)
    BY <1>1, <2>1 DEF OnRequest
  <2> QED  BY <2>2, <2>3, Starts, HostAtIs
<1>6. ASSUME NEW r \in Ref
      PROVE  WorkerNames(w, r) => WorkerNames(w, r)'
  <2>1. QueueNames(notify[w], r) => Names(d, r) \/ QueueNames(Tail(notify[w]), r)
    BY <1>1, <1>2, QueueFront
  <2>2. /\ QueueNames(Tail(notify[w]), r) => QueueNames(notify[w], r)'
        /\ Names(d, r) => MainNames(main[w], r)'
        /\ ~MainNames(main[w], r)
    BY <1>3, <1>4, <1>5, NilIsNoRef DEF QueueNames, Names, MainNames
  <2>3. /\ Names(poller[w].desc, r)' <=> Names(poller[w].desc, r)
        /\ PipesName(delivered[w], r)' <=> PipesName(delivered[w], r)
        /\ QueueNames(tx_sq[w], r)' <=> QueueNames(tx_sq[w], r)
        /\ QueueNames(rx_sq[w], r)' <=> QueueNames(rx_sq[w], r)
    BY <1>3 DEF Names, PipesName, QueueNames
  <2> QED  BY <2>1, <2>2, <2>3 DEF WorkerNames
<1> QED  BY <1>3, <1>6 DEF Passes, ReadSlot

LEMMA OnResponsePasses ==
  ASSUME Shapes, NEW w \in Worker, OnResponse(w)
  PROVE  Passes(w)
<1>1. main[w].rx_header = Nil /\ main[w].rx_body = Nil /\ main[w].tx_header = Nil /\ main[w].tx_body = Nil
  BY MainIs DEF OnResponse, MainShape
<1>2. PICK x \in delivered[w] : /\ delivered'[w] = delivered[w] \ {x}
                                /\ main'[w].rx_header = x.desc.header /\ main'[w].rx_body = x.desc.body
  <2>1. PICK u \in waiting[w], x \in delivered[w] :
          /\ delivered' = [delivered EXCEPT ![w] = @ \ {x}]
          /\ main' = [main EXCEPT ![w] =
                        [IdleMain EXCEPT
                           !.pc = "free_resp",
                           !.rx_header = x.desc.header, !.rx_body = x.desc.body,
                           !.conn = [idx |-> u.idx, ctx |-> u.ctx],
                           !.resp = [status |-> ReadSlot(x.desc.header).status,
                                     body |-> ReadSlot(x.desc.body)]]]
    BY DEF OnResponse
  <2>2. main'[w].rx_header = x.desc.header /\ main'[w].rx_body = x.desc.body /\ delivered'[w] = delivered[w] \ {x}
    BY <2>1, HostAtIs DEF IdleMain
  <2> QED  BY <2>2
<1>3. UNCHANGED <<mem, tx_sq, rx_sq, notify, poller>>
  BY DEF OnResponse, shmVars, sqs
<1>4. ASSUME NEW r \in Ref
      PROVE  WorkerNames(w, r) => WorkerNames(w, r)'
  <2>1. /\ PipesName(delivered[w], r) => MainNames(main[w], r)' \/ PipesName(delivered[w], r)'
        /\ ~MainNames(main[w], r)
    BY <1>1, <1>2, NilIsNoRef DEF PipesName, MainNames, Names
  <2>2. /\ Names(poller[w].desc, r)' <=> Names(poller[w].desc, r)
        /\ QueueNames(tx_sq[w], r)' <=> QueueNames(tx_sq[w], r)
        /\ QueueNames(rx_sq[w], r)' <=> QueueNames(rx_sq[w], r)
        /\ QueueNames(notify[w], r)' <=> QueueNames(notify[w], r)
    BY <1>3 DEF Names, QueueNames
  <2> QED  BY <2>1, <2>2 DEF WorkerNames
<1> QED  BY <1>3, <1>4 DEF Passes, ReadSlot
-----------------------------------------------------------------------------
LEMMA EnqueuePasses ==
  ASSUME Shapes, QueuesNeverFull, NEW w \in Worker, Enqueue(w)
  PROVE  Passes(w)
<1>1. PICK d : d = [op |-> main[w].msg.op, case |-> main[w].msg.case, req_id |-> main[w].msg.req_id,
                    dst |-> Nil, header |-> main[w].tx_header, body |-> main[w].tx_body]
  OBVIOUS
<1>2. /\ d \in SentDesc(w) /\ d # Nil /\ d.header = main[w].tx_header /\ d.body = main[w].tx_body
      /\ tx_sq[w] \in Seq(SentDesc(w)) /\ DOMAIN tx_sq = Worker
  <2>1. /\ main[w].msg \in Message /\ (main[w].msg.op = "req" => main[w].msg.case = "local")
        /\ main[w].tx_header \in Ref /\ main[w].tx_header.pool = HostPool(w, "tx_header")
        /\ main[w].tx_body \in Ref /\ main[w].tx_body.pool = HostPool(w, "tx_body")
    BY MainIs DEF Enqueue, MainShape, MainState, WritePc, OptRef
  <2>2. d \in SentDesc(w)
    BY <1>1, <2>1 DEF SentDesc, Descriptor, Message, OptRef
  <2> QED  BY <1>1, <2>2, QueuedDescs, NilIsNoRef
<1>3. /\ tx_sq'[w] = Append(tx_sq[w], d) /\ main' = [main EXCEPT ![w] = AfterHandler(main[w])]
      /\ UNCHANGED <<mem, rx_sq, notify, delivered, poller>>
  BY <1>1, <1>2 DEF Enqueue, QueuesNeverFull
<1>4. main'[w].rx_header = main[w].rx_header /\ main'[w].rx_body = main[w].rx_body
  BY <1>3, AfterHandlerIs, HostAtIs
<1>5. ASSUME NEW r \in Ref
      PROVE  WorkerNames(w, r) => WorkerNames(w, r)'
  <2>1. QueueNames(Append(tx_sq[w], d), r) <=> QueueNames(tx_sq[w], r) \/ r \in {d.header, d.body}
    BY <1>2, QueueBack
  <2>2. /\ QueueNames(tx_sq[w], r) => QueueNames(tx_sq[w], r)'
        /\ r \in {d.header, d.body} => QueueNames(tx_sq[w], r)'
    BY <1>3, <2>1 DEF QueueNames
  <2>3. MainNames(main[w], r) => MainNames(main[w], r)' \/ r \in {d.header, d.body}
    BY <1>2, <1>4 DEF MainNames
  <2>4. /\ Names(poller[w].desc, r)' <=> Names(poller[w].desc, r)
        /\ PipesName(delivered[w], r)' <=> PipesName(delivered[w], r)
        /\ QueueNames(rx_sq[w], r)' <=> QueueNames(rx_sq[w], r)
        /\ QueueNames(notify[w], r)' <=> QueueNames(notify[w], r)
    BY <1>3 DEF Names, PipesName, QueueNames
  <2> QED  BY <2>2, <2>3, <2>4 DEF WorkerNames
<1> QED  BY <1>3, <1>5 DEF Passes, ReadSlot

LEMMA StartsPass ==
  ASSUME Shapes, NEW w \in Worker, Upstream(w) \/ WriteFailed(w)
  PROVE  Passes(w)
<1>1. UNCHANGED <<mem, tx_sq, rx_sq, notify, delivered, poller>>
  BY DEF Upstream, WriteFailed, shmVars, sqs, pipes
<1>2. main[w].tx_header = Nil /\ main[w].tx_body = Nil
  BY MainIs DEF Upstream, WriteFailed, MainShape
<1>3. main[w].rx_header # Nil => main[w].rx_body # Nil
  BY MainIs DEF MainShape
<1>4. main'[w].rx_header = main[w].rx_header /\ main'[w].rx_body = main[w].rx_body
  <2>1. CASE Upstream(w)
    <3>1. main[w].rx_header = Nil /\ main[w].rx_body = Nil
      BY <1>3, <2>1, MainIs DEF Upstream, MainShape
    <3>2. \E idx, ib, out : StartRespond(w, IdleMain, idx, ib, out) \/ StartCall(w, IdleMain, idx, out)
      BY <2>1 DEF Upstream
    <3>3. IdleMain \in MainState /\ IdleMain.rx_header = Nil /\ IdleMain.rx_body = Nil
      BY IdleMainIs DEF IdleMain, OptRef
    <3> QED  BY <3>1, <3>2, <3>3, Starts, HostAtIs
  <2>2. CASE WriteFailed(w)
    <3>1. PICK m, clean : m = AfterHandler(main[w]) /\ clean = [m EXCEPT !.pc = "header"]
      OBVIOUS
    <3>2. m \in MainState /\ m.rx_header = main[w].rx_header /\ m.rx_body = main[w].rx_body
      BY <3>1, AfterHandlerIs
    <3>3. clean \in MainState /\ clean.rx_header = m.rx_header /\ clean.rx_body = m.rx_body
      BY <3>1, <3>2 DEF MainState
    <3>4. \/ \E idx, ib, out : StartRespond(w, clean, idx, ib, out)
          \/ main' = [main EXCEPT ![w] = m]
      BY <2>2, <3>1 DEF WriteFailed
    <3> QED  BY <3>2, <3>3, <3>4, Starts, HostAtIs
  <2> QED  BY <2>1, <2>2
<1>5. ASSUME NEW r \in Ref
      PROVE  MainNames(main[w], r) => MainNames(main[w], r)'
  BY <1>2, <1>4, NilIsNoRef DEF MainNames
<1> QED  BY <1>1, <1>5, MainPasses DEF ReadSlot

(* A buffer of the main thread is freed, or one is allocated for it.       *)
LEMMA FreesPass ==
  ASSUME Shapes, NEW w \in Worker, UNCHANGED <<poller, delivered, notify, sqs>>,
         NEW q \in Ref, FreeSlot(q),
         \A r \in Ref : MainNames(main[w], r) => MainNames(main[w], r)' \/ r = q
  PROVE  Passes(w)
<1>1. ASSUME NEW r \in Ref, ReadSlot(r)' # Free
      PROVE  r # q /\ ReadSlot(r) # Free
  BY <1>1, FreedSlot
<1> QED  BY <1>1, MainPasses DEF sqs

LEMMA AllocPasses ==
  ASSUME Shapes, NEW own, OwnInv(own), NEW w \in Worker, UNCHANGED <<poller, delivered, notify, sqs>>,
         NEW p \in Pool, NEW q, q = NewRef(p),
         UNCHANGED mem \/ (~Full(p) /\ MainNames(main[w], q)' /\ \E x : AllocWrite(p, x)),
         \A r \in Ref : MainNames(main[w], r) => MainNames(main[w], r)'
  PROVE  Passes(w)
<1>1. ASSUME NEW r \in Ref, ReadSlot(r)' # Free
      PROVE  ReadSlot(r) # Free \/ MainNames(main[w], r)'
  <2>1. CASE UNCHANGED mem
    BY <1>1, <2>1 DEF ReadSlot
  <2>2. CASE ~Full(p) /\ MainNames(main[w], q)' /\ \E x : AllocWrite(p, x)
    <3>1. PICK x : AllocWrite(p, x)
      BY <2>2
    <3>2. r # q => ReadSlot(r)' = ReadSlot(r)
      BY <2>2, <3>1, SlotTaken
    <3> QED  BY <1>1, <2>2, <3>2
  <2> QED  BY <2>1, <2>2
<1> QED  BY <1>1, MainPasses DEF sqs

LEMMA FreeStepsPass ==
  ASSUME Shapes, NEW w \in Worker,
         FreeRxHeader(w) \/ FreeRxBody(w) \/ UndoHeader(w) \/ UndoBody(w)
  PROVE  Passes(w)
<1>1. UNCHANGED <<poller, delivered, notify, sqs>>
  BY DEF FreeRxHeader, FreeRxBody, UndoHeader, UndoBody, pipes
<1>2. CASE FreeRxHeader(w)
  <2>1. /\ main[w].rx_header \in Ref /\ FreeSlot(main[w].rx_header)
        /\ UNCHANGED <<main[w].rx_body, main[w].tx_header, main[w].tx_body>>
    BY <1>2, MainIs DEF FreeRxHeader, MainState, OptRef
  <2> QED  BY <1>1, <2>1, FreesPass DEF MainNames
<1>3. CASE FreeRxBody(w)
  <2>1. /\ main[w].rx_body \in Ref /\ FreeSlot(main[w].rx_body)
        /\ UNCHANGED <<main[w].rx_header, main[w].tx_header, main[w].tx_body>>
    BY <1>3, MainIs DEF FreeRxBody, MainState, MainShape, OptRef
  <2> QED  BY <1>1, <2>1, FreesPass DEF MainNames
<1>4. CASE UndoHeader(w)
  <2>1. /\ main[w].tx_header \in Ref /\ FreeSlot(main[w].tx_header)
        /\ UNCHANGED <<main[w].rx_header, main[w].rx_body, main[w].tx_body>>
    BY <1>4, MainIs DEF UndoHeader, MainState, OptRef
  <2> QED  BY <1>1, <2>1, FreesPass DEF MainNames
<1>5. CASE UndoBody(w)
  <2>1. /\ main[w].tx_body \in Ref /\ FreeSlot(main[w].tx_body)
        /\ UNCHANGED <<main[w].rx_header, main[w].rx_body, main[w].tx_header>>
    BY <1>5, MainIs DEF UndoBody, MainState, MainShape, OptRef
  <2> QED  BY <1>1, <2>1, FreesPass DEF MainNames
<1> QED  BY <1>2, <1>3, <1>4, <1>5

LEMMA WriteStepsPass ==
  ASSUME Shapes, NEW own, OwnInv(own), NEW w \in Worker, WriteHeader(w) \/ WriteBody(w)
  PROVE  Passes(w)
<1>1. UNCHANGED <<poller, delivered, notify, sqs>>
  BY DEF WriteHeader, WriteBody, pipes
<1>2. HostPool(w, "tx_header") \in Pool /\ HostPool(w, "tx_body") \in Pool
  BY ShmAssumption DEF HostPool, Pool, Kind
<1>3. CASE WriteHeader(w)
  <2>1. PICK p, q : p = HostPool(w, "tx_header") /\ q = NewRef(p)
    OBVIOUS
  <2>2. /\ main[w].tx_header = Nil
        /\ UNCHANGED <<main[w].rx_header, main[w].rx_body, main[w].tx_body>>
        /\ UNCHANGED mem \/ (~Full(p) /\ main'[w].tx_header = q /\ \E x : AllocWrite(p, x))
    BY <1>3, <2>1, MainIs DEF WriteHeader, MainState, MainShape
  <2>3. \A r \in Ref : MainNames(main[w], r) => MainNames(main[w], r)'
    BY <2>2, NilIsNoRef DEF MainNames
  <2>4. main'[w].tx_header = q => MainNames(main[w], q)'
    BY DEF MainNames
  <2> QED  BY <1>1, <1>2, <2>1, <2>2, <2>3, <2>4, AllocPasses
<1>4. CASE WriteBody(w)
  <2>1. PICK p, q : p = HostPool(w, "tx_body") /\ q = NewRef(p)
    OBVIOUS
  <2>2. /\ main[w].tx_body = Nil
        /\ UNCHANGED <<main[w].rx_header, main[w].rx_body, main[w].tx_header>>
        /\ UNCHANGED mem \/ (~Full(p) /\ main'[w].tx_body = q /\ \E x : AllocWrite(p, x))
    BY <1>4, <2>1, MainIs DEF WriteBody, MainState, MainShape
  <2>3. \A r \in Ref : MainNames(main[w], r) => MainNames(main[w], r)'
    BY <2>2, NilIsNoRef DEF MainNames
  <2>4. main'[w].tx_body = q => MainNames(main[w], q)'
    BY DEF MainNames
  <2> QED  BY <1>1, <1>2, <2>1, <2>2, <2>3, <2>4, AllocPasses
<1> QED  BY <1>3, <1>4
-----------------------------------------------------------------------------
LEMMA HostStepKeeps ==
  ASSUME Shapes, NEW own, OwnInv(own), InUse, Calls, LeakInv, QueuesNeverFull, HostStep, HostOnly
  PROVE  LeakInv'
<1>1. PICK w \in Worker : Poller(w) \/ Main(w)
  BY DEF HostStep
<1>2. Passes(w)
  <2>1. ~PollerDrop(w)
    BY NothingDropped
  <2>2. CASE Poller(w)
    BY <2>1, <2>2, PollerGetPasses, PollerNotifyPasses, PollerDeliverPasses, PollerClosePasses DEF Poller
  <2>3. CASE Main(w)
    BY <2>3, OnRequestPasses, OnResponsePasses, StartsPass, FreeStepsPass, WriteStepsPass, EnqueuePasses DEF Main
  <2> QED  BY <1>1, <2>2, <2>3
<1>3. Accounted'
  BY <1>1, <1>2, WorkerAlone, HostKeeps DEF Passes, LeakInv
<1>4. UNCHANGED dpaTx
  BY DEF HostOnly, dpaVars
<1> QED  BY <1>3, <1>4 DEF LeakInv

LEMMA InitLeak == Init => LeakInv
<1> SUFFICES ASSUME Init
             PROVE  LeakInv
  OBVIOUS
<1>1. ASSUME NEW r \in Ref
      PROVE  ReadSlot(r) = Free
  <2>1. r.pool \in Pool /\ r.slot \in Slot
    BY DEF Ref
  <2> QED  BY <2>1 DEF Init, ShmInit, ReadSlot
<1>2. dpaTx.pc # "drop"
  BY DEF Init, DpaInit, IdleTx
<1> QED  BY <1>1, <1>2 DEF LeakInv, Accounted

LEMMA LeakKept ==
  ASSUME MaxDescriptors >= 2 * NumSlots, PipeCap >= NumSlots, PairInv, CallInv, LeakInv, [Next]_vars
  PROVE  LeakInv'
<1>1. Shapes /\ Shapes' /\ MateInv /\ Calls
  BY StepInvariant DEF PairInv, IInv, CallInv
<1>2. PICK own : OwnInv(own)
  BY DEF PairInv, IInv
<1>3. InUse
  BY InvariantInUse DEF PairInv
<1>4. QueuesNeverFull /\ HeaderRoomAfterBody
  BY <1>1, <1>2, QueuesHaveRoom, RoomForHeader
<1>5. HostStep /\ HostOnly => LeakInv'
  BY <1>1, <1>2, <1>3, <1>4, HostStepKeeps
<1>6. DpaStep /\ DpaOnly => LeakInv'
  BY <1>1, <1>2, <1>4, DpaKeeps
<1>7. SidecarStep /\ SidecarOnly => LeakInv'
  BY <1>1, <1>2, SidecarStepKeeps
<1>8. UNCHANGED vars => LeakInv'
  <2> SUFFICES ASSUME UNCHANGED vars
               PROVE  LeakInv'
    OBVIOUS
  <2>1. UNCHANGED <<mem, tx_sq, rx_sq, sidecar_tx_sq, sidecar_rx_sq, notify, delivered, main, poller,
                    dpaTx, dpaRx, arm, bridge>>
    BY DEF vars, shmVars, sqs, hostVars, pipes, dpaVars, sidecarVars
  <2>2. \A r : Named(r)' <=> Named(r)
    BY <2>1 DEF Named, WorkerNames, TxNames, RxNames, SidecarNames, DpuNames
  <2> QED  BY <2>1, <2>2 DEF LeakInv, Accounted, ReadSlot
<1> QED  BY <1>5, <1>6, <1>7, <1>8 DEF Next, Rest
-----------------------------------------------------------------------------
(* What is named is held.                                                  *)
Holder(H, r) == \E h \in H : h[2] = r

LEMMA InPairIs ==
  ASSUME NEW what, NEW who, NEW i, NEW h, NEW b, NEW r, r \in {h, b}
  PROVE  Holder(InPair(what, who, i, h, b), r)
BY DEF Holder, InPair

LEMMA InDescIs ==
  ASSUME NEW what, NEW who, NEW i, NEW d, NEW r, Names(d, r)
  PROVE  Holder(InDesc(what, who, i, d), r)
BY InPairIs DEF InDesc, Names

LEMMA InQueueIs ==
  ASSUME NEW what, NEW who, NEW q, NEW r, QueueNames(q, r)
  PROVE  Holder(InQueue(what, who, q), r)
<1>1. PICK j \in DOMAIN q : Names(q[j], r)
  BY DEF QueueNames, Entries
<1>2. Holder(InDesc(what, who, j, q[j]), r)
  BY <1>1, InDescIs
<1>3. InDesc(what, who, j, q[j]) \subseteq InQueue(what, who, q)
  BY <1>1 DEF InQueue
<1> QED  BY <1>2, <1>3 DEF Holder

LEMMA NamedHeld ==
  ASSUME NEW r \in Ref, Named(r)
  PROVE  r \in HeldRefs
<1>1. ASSUME NEW w \in Worker, WorkerNames(w, r)
      PROVE  Holder(HeldByWorker(w), r)
  <2>1. CASE MainNames(main[w], r)
    <3>1. \/ Holder(InPair("main rx", w, 0, main[w].rx_header, main[w].rx_body), r)
          \/ Holder(InPair("main tx", w, 0, main[w].tx_header, main[w].tx_body), r)
      BY <2>1, InPairIs DEF MainNames
    <3> QED  BY <3>1 DEF Holder, HeldByWorker
  <2>2. CASE PipesName(delivered[w], r)
    <3>1. PICK x \in delivered[w] : Names(x.desc, r)
      BY <2>2 DEF PipesName
    <3>2. Holder(InDesc("pipe", w, x.pipe, x.desc), r)
      BY <3>1, InDescIs
    <3>3. InDesc("pipe", w, x.pipe, x.desc) \subseteq UNION {InDesc("pipe", w, y.pipe, y.desc) : y \in delivered[w]}
      OBVIOUS
    <3> QED  BY <3>2, <3>3 DEF Holder, HeldByWorker
  <2>3. /\ Names(poller[w].desc, r) => Holder(InDesc("poller", w, 0, poller[w].desc), r)
        /\ QueueNames(tx_sq[w], r) => Holder(InQueue("tx_sq", w, tx_sq[w]), r)
        /\ QueueNames(rx_sq[w], r) => Holder(InQueue("rx_sq", w, rx_sq[w]), r)
        /\ QueueNames(notify[w], r) => Holder(InQueue("notify", w, notify[w]), r)
    BY InPairIs, InDescIs, InQueueIs
  <2> QED  BY <1>1, <2>1, <2>2, <2>3 DEF WorkerNames, HeldByWorker, Holder
<1>2. ASSUME TxNames(r) \/ RxNames(r) \/ SidecarNames(r) \/ DpuNames(r)
      PROVE  Holder(HeldByDaemons, r)
  <2>1. /\ r = dpaTx.header => Holder(InPair("dpaTx copy", Nil, 0, dpaTx.header, Nil), r)
        /\ r \in {dpaRx.header, dpaRx.body} => Holder(InPair("dpaRx copy", Nil, 0, dpaRx.header, dpaRx.body), r)
        /\ Names(dpaTx.desc, r) => Holder(InDesc("dpaTx", Nil, 0, dpaTx.desc), r)
        /\ Names(dpaRx.desc, r) => Holder(InDesc("dpaRx", Nil, 0, dpaRx.desc), r)
        /\ Names(arm.desc, r) => Holder(InDesc("arm", Nil, 0, arm.desc), r)
        /\ QueueNames(sidecar_tx_sq, r) => Holder(InQueue("sidecar_tx_sq", Nil, sidecar_tx_sq), r)
        /\ QueueNames(sidecar_rx_sq, r) => Holder(InQueue("sidecar_rx_sq", Nil, sidecar_rx_sq), r)
    BY InPairIs, InDescIs, InQueueIs
  <2>2. ASSUME NEW c \in Client, r = bridge[c].body
        PROVE  Holder(HeldByDaemons, r)
    <3>1. Holder(InPair("bridge", c, 0, Nil, bridge[c].body), r)
      BY <2>2, InPairIs
    <3>2. InPair("bridge", c, 0, Nil, bridge[c].body)
            \subseteq UNION {InPair("bridge", b, 0, Nil, bridge[b].body) : b \in Client}
      OBVIOUS
    <3> QED  BY <3>1, <3>2 DEF Holder, HeldByDaemons
  <2>3. TxNames(r) \/ RxNames(r) \/ Names(arm.desc, r) \/ DpuNames(r) => Holder(HeldByDaemons, r)
    BY <2>1 DEF TxNames, RxNames, DpuNames, HeldByDaemons, Holder
  <2> QED  BY <1>2, <2>2, <2>3 DEF SidecarNames
<1>3. Holder(HeldByDaemons \cup UNION {HeldByWorker(w) : w \in Worker}, r)
  BY <1>1, <1>2 DEF Named, Holder
<1> QED  BY <1>3, NilIsNoRef DEF Holder, Held, HeldRefs

LEMMA NoneLeaks == LeakInv => NoLeak
<1> SUFFICES ASSUME LeakInv, NEW p \in Pool, NEW s \in Slot, mem[p][s] # Free
             PROVE  [pool |-> p, slot |-> s] \in HeldRefs
  BY DEF NoLeak
<1>1. PICK r : r = [pool |-> p, slot |-> s]
  OBVIOUS
<1>2. r \in Ref /\ ReadSlot(r) # Free
  BY <1>1 DEF Ref, ReadSlot
<1> QED  BY <1>1, <1>2, NamedHeld DEF LeakInv, Accounted

(* No path of the workers, the daemons and the bridge forgets a buffer: as *)
(* long as no call is put over one under way, a response finds the pipe of *)
(* its call; the receivers free the header before the body; and no queue   *)
(* and no pipe is ever full.                                               *)
THEOREM NothingLeaks ==
  ASSUME MaxDescriptors >= 2 * NumSlots, PipeCap >= NumSlots
  PROVE  Spec /\ [][EntriesFree]_vars => []NoLeak
<1>1. Init => LeakInv
  BY InitLeak
<1>2. PairInv /\ CallInv /\ LeakInv /\ [Next]_vars => LeakInv'
  BY LeakKept
<1>3. LeakInv => NoLeak
  BY NoneLeaks
<1> QED  BY <1>1, <1>2, <1>3, PairInvariance, CallInvariance, PTL DEF Spec
-----------------------------------------------------------------------------
(* What may be said to a client that comes from the services, and a        *)
(* request of a client as the bridge writes it.                            *)
Told(c, status, body) ==
  c \in Client /\ L!Says(status, body) \in {L!Expected(c), L!Says(502, L!NoBody)}
OwnQuestion(h) == h.rid \in Client /\ h.name = h.rid /\ h.ask = Asks[h.rid]

(* A message from the bridge asks what its client asks, and one to the     *)
(* bridge says what may be said to the client named in its header.         *)
TrueMail(y) ==
  /\ y.ref = Nil => OwnQuestion(y.h)
  /\ y.ref # Nil /\ y.op = "resp" /\ y.h.dst = Nil => Told(y.h.rid, y.h.status, y.body)
TrueMails == \A y \in Mails : TrueMail(y)

(* A frontend_ctx_t belongs to the client whose request is in the inbound  *)
(* table where the answer will look for it.                                *)
TrueContext(ib, ctx) ==
  /\ ctx.name \in Client /\ Asks[ctx.name] = "lookup" /\ ib.rid = ctx.name
  /\ ctx.stage = "attend" => ctx.id = ctx.name /\ ctx.name \in IdKeys

Continuing(m) == m.pc \in {"free_resp", "upstream"} \/ (m.pc \in WritePc /\ m.msg.op = "req")
Reporting(m) == m.pc \in WritePc /\ m.msg.op = "resp" /\ m.msg.header.dst = Nil
TrueMain(table, m) ==
  /\ Continuing(m) => TrueContext(table[m.conn.idx], m.conn.ctx)
  /\ Reporting(m) => Told(m.msg.header.rid, m.msg.header.status, m.msg.body)
TrueWaiting(table, calling) == \A u \in calling : TrueContext(table[u.idx], u.ctx)
TrueWorker(w) == TrueMain(inbound[w], main[w]) /\ TrueWaiting(inbound[w], waiting[w])

TrueArm == arm.pc \in {"free_header", "wake"} => Told(arm.resp.rid, arm.resp.status, arm.resp.body)
TrueEntry(c) ==
  bridge_events[c] = "set" => Told(c, bridge_responses[c].status, bridge_responses[c].body)
TrueAnswer(c) ==
  /\ bridge[c].pc # "done" => bridge[c].answer = Nil
  /\ bridge[c].pc = "done" =>
       bridge[c].answer = L!Expected(c) \/ bridge[c].answer.status \in {413, 502, 503, 504}

TrueInv ==
  /\ TrueMails /\ TrueArm
  /\ \A w \in Worker : TrueWorker(w)
  /\ \A c \in Client : TrueEntry(c) /\ TrueAnswer(c)

(* No entry of the inbound table is overwritten while a frontend waits for *)
(* the response to a call it has made for the request in it.  The bridge   *)
(* sends every request with req_id 0, so a frontend then handles one       *)
(* request at a time; a call whose message has been lost waits for ever,   *)
(* and its frontend then gets no further request.                          *)
InboundKept ==
  \A w \in Worker : \A u \in waiting[w] : inbound'[w][u.idx] = inbound[w][u.idx]
-----------------------------------------------------------------------------
(* What the handlers say to a client.                                      *)
LEMMA Refused ==
  ASSUME NEW c \in Client
  PROVE  /\ Asks[c] = "noname" => Told(c, 400, NoBody)
         /\ Asks[c] = "badpath" => Told(c, 404, NoBody)
<1>1. Asks[c] = "noname" => L!Expected(c) = L!Says(400, L!NoBody)
  BY DEF L!Expected
<1>2. Asks[c] = "badpath" => L!Expected(c) = L!Says(404, L!NoBody)
  BY DEF L!Expected
<1>3. NoBody = L!NoBody
  BY DEF NoBody, L!NoBody
<1> QED  BY <1>1, <1>2, <1>3 DEF Told

LEMMA NotFound ==
  ASSUME NEW c \in Client, Asks[c] = "lookup", c \notin IdKeys \cap AttendKeys
  PROVE  Told(c, 404, NoBody)
<1>1. L!Expected(c) = L!Says(404, L!NoBody)
  BY DEF L!Expected
<1>2. NoBody = L!NoBody
  BY DEF NoBody, L!NoBody
<1> QED  BY <1>1, <1>2 DEF Told

LEMMA Found ==
  ASSUME NEW c \in Client, Asks[c] = "lookup", c \in IdKeys \cap AttendKeys
  PROVE  Told(c, 200, [name |-> c, id |-> c, att |-> c])
BY DEF L!Expected, Told

LEMMA GaveUp ==
  ASSUME NEW c \in Client
  PROVE  Told(c, 502, NoBody)
BY DEF Told, NoBody, L!NoBody

(* What the frontend does with the request of a client.                    *)
LEMMA QuestionHandled ==
  ASSUME NEW h \in Header, OwnQuestion(h), NEW out, out = HandleRequest("frontend", h)
  PROVE  \/ out.act = "respond" /\ Told(h.rid, out.status, out.body)
         \/ out.act = "call" /\ \A ib : ib.rid = h.rid => TrueContext(ib, out.ctx)
<1>1. h.rid \in Client /\ h.ask = Asks[h.rid] /\ h.name = h.rid /\ h.ask \in {"lookup", "noname", "badpath"}
  BY DEF OwnQuestion, Header
<1>2. CASE h.ask = "badpath"
  <2>1. out = Respond(404, NoBody)
    BY <1>2 DEF HandleRequest
  <2>2. out.act = "respond" /\ out.status = 404 /\ out.body = NoBody
    BY <2>1 DEF Respond
  <2>3. PICK c \in Client : c = h.rid /\ Asks[c] = "badpath"
    BY <1>1, <1>2
  <2>4. Told(h.rid, 404, NoBody)
    BY <2>3, Refused
  <2> QED  BY <2>2, <2>4
<1>3. CASE h.ask = "noname"
  <2>1. out = Respond(400, NoBody)
    BY <1>3 DEF HandleRequest
  <2>2. out.act = "respond" /\ out.status = 400 /\ out.body = NoBody
    BY <2>1 DEF Respond
  <2>3. PICK c \in Client : c = h.rid /\ Asks[c] = "noname"
    BY <1>1, <1>3
  <2>4. Told(h.rid, 400, NoBody)
    BY <2>3, Refused
  <2> QED  BY <2>2, <2>4
<1>4. CASE h.ask = "lookup"
  <2>1. out = HandleFrontend(h.name)
    BY <1>4 DEF HandleRequest
  <2>2. out.act = "call" /\ out.ctx.stage = "id" /\ out.ctx.name = h.name
    BY <2>1 DEF HandleFrontend, Call
  <2> QED  BY <1>1, <1>4, <2>2 DEF TrueContext
<1> QED  BY <1>1, <1>2, <1>3, <1>4

(* What the frontend does with what a service said about a client.         *)
LEMMA AnswerHandled ==
  ASSUME NEW ctx \in Context, NEW ib, TrueContext(ib, ctx), NEW status, NEW body, Saying(status, body, ctx),
         NEW out, out = HandleUpstreamResponse(ctx, status, body)
  PROVE  \/ out.act = "respond" /\ Told(ib.rid, out.status, out.body)
         \/ out.act = "call" /\ TrueContext(ib, out.ctx)
<1>1. PICK c : c = ctx.name
  OBVIOUS
<1>2. /\ c \in Client /\ c # Nil /\ Asks[c] = "lookup" /\ ib.rid = c /\ ctx.stage \in {"id", "attend"}
      /\ ctx.stage = "attend" => ctx.id = c /\ c \in IdKeys
  BY <1>1, ShmAssumption DEF TrueContext, Context
<1>3. CASE ctx.stage = "id" /\ c \in IdKeys
  <2>1. status = 200 /\ body = [NoBody EXCEPT !.id = c]
    BY <1>1, <1>3 DEF Saying, UpstreamSays, HandleId, Respond
  <2>2. body.id = c
    BY <2>1 DEF NoBody
  <2>3. out = Call("attend-service", c, [stage |-> "attend", name |-> c, id |-> c])
    BY <1>1, <1>2, <1>3, <2>1, <2>2 DEF HandleUpstreamResponse
  <2> QED  BY <1>2, <1>3, <2>3 DEF Call, TrueContext
<1>4. CASE ctx.stage = "id" /\ c \notin IdKeys
  <2>1. status = 404 /\ body = NoBody
    BY <1>1, <1>4 DEF Saying, UpstreamSays, HandleId, Respond
  <2>2. out = Respond(404, NoBody)
    BY <2>1 DEF HandleUpstreamResponse
  <2> QED  BY <1>2, <1>4, <2>2, NotFound DEF Respond
<1>5. CASE ctx.stage = "attend" /\ c \in AttendKeys
  <2>1. status = 200 /\ body = [NoBody EXCEPT !.att = c]
    BY <1>2, <1>5 DEF Saying, UpstreamSays, HandleAttend, Respond
  <2>2. body.att = c
    BY <2>1 DEF NoBody
  <2>3. out = Respond(200, [name |-> c, id |-> c, att |-> c])
    BY <1>1, <1>2, <1>5, <2>1, <2>2 DEF HandleUpstreamResponse
  <2> QED  BY <1>2, <1>5, <2>3, Found DEF Respond
<1>6. CASE ctx.stage = "attend" /\ c \notin AttendKeys
  <2>1. status = 404 /\ body = NoBody
    BY <1>2, <1>6 DEF Saying, UpstreamSays, HandleAttend, Respond
  <2>2. out = Respond(404, NoBody)
    BY <2>1 DEF HandleUpstreamResponse
  <2> QED  BY <1>2, <1>6, <2>2, NotFound DEF Respond
<1> QED  BY <1>2, <1>3, <1>4, <1>5, <1>6
-----------------------------------------------------------------------------
(* The mail stays true when letters are passed on, copied or routed.       *)
LEMMA TrueLetters ==
  ASSUME Stable, InUse, InUse', TrueMails, \A x \in Letters' : x \in Letters \/ TrueMail(Mail(x)')
  PROVE  TrueMails'
<1> SUFFICES ASSUME NEW y \in Mails'
             PROVE  TrueMail(y)
  BY DEF TrueMails
<1>1. PICK x \in Letters' : y = Mail(x)'
  BY DEF Mails
<1>2. CASE x \in Letters
  <2>1. y = Mail(x)
    BY <1>1, <1>2, MailSame
  <2> QED  BY <1>2, <2>1 DEF TrueMails, Mails
<1>3. CASE TrueMail(Mail(x)')
  BY <1>1, <1>3
<1> QED  BY <1>1, <1>2, <1>3

LEMMA TrueCopied ==
  ASSUME Stable, InUse, InUse', TrueMails, HeaderCopied
  PROVE  TrueMails'
<1>1. PICK x, e : Copies(x, e)
  BY DEF HeaderCopied
<1>2. Mail(e)' = [Mail(x) EXCEPT !.ref = e.header] /\ Mail(x) \in Mails
  BY <1>1, CopiedMail DEF Copies, Mails
<1>3. PICK y, q : y = Mail(x) /\ q = e.header
  OBVIOUS
<1>4. y.ref # Nil /\ q # Nil /\ TrueMail(y) /\ Mail(e)' = [y EXCEPT !.ref = q]
  BY <1>1, <1>2, <1>3, DataAssumption DEF Copies, Mail, TrueMails
<1>5. DOMAIN y = {"op", "id", "dst", "ref", "h", "body"}
  BY <1>3 DEF Mail
<1>6. PICK z : z = Mail(e)'
  OBVIOUS
<1>7. z.ref # Nil /\ z.op = y.op /\ z.h = y.h /\ z.body = y.body
  BY <1>4, <1>5, <1>6
<1>8. TrueMail(z)
  BY <1>4, <1>7 DEF TrueMail
<1>9. \A l \in Letters' : l \in Letters \/ l = e
  BY <1>1 DEF Copies
<1> QED  BY <1>6, <1>8, <1>9, TrueLetters

(* The DPA daemon changes nothing but where the letters are.               *)
LEMMA TrueDpa ==
  ASSUME Shapes, NEW own, OwnInv(own), Stable, InUse, InUse', TrueInv, DpaStep, DpaOnly
  PROVE  TrueInv'
<1>1. TrueMails
  BY DEF TrueInv
<1>2. Letters' \subseteq Letters => TrueMails'
  BY <1>1, TrueLetters
<1>3. TrueMails'
  <2>1. CASE (\E w \in Worker : TxGet(w)) \/ TxRequeue \/ TxFree \/ TxPut \/ TxDrop
    BY <1>2, <2>1, TxMoves
  <2>2. CASE TxCopy
    BY <1>1, <1>2, <2>2, TxCopies, TrueCopied
  <2>3. CASE RxGet \/ RxRequeue \/ RxFreeBody \/ RxFreeHeader \/ RxPut \/ RxDrop
    BY <1>2, <2>3, RxMoves
  <2>4. CASE RxCopyBody
    <3>1. \A x \in Letters' : x \in Letters \/ Mail(x)' \in Mails
      BY <2>4, RxCopiesBody
    <3> QED  BY <1>1, <3>1, TrueLetters DEF TrueMails
  <2>5. CASE RxCopyHeader
    BY <1>1, <1>2, <2>5, RxCopiesHeader, TrueCopied
  <2> QED  BY <2>1, <2>2, <2>3, <2>4, <2>5 DEF DpaStep, DpaTxStep, DpaRxStep
<1>4. UNCHANGED <<inbound, main, waiting, arm, bridge, bridge_events, bridge_responses>>
  BY DEF DpaOnly, hostVars, sidecarVars, pipes, tables
<1> QED  BY <1>3, <1>4 DEF TrueInv, TrueArm, TrueWorker, TrueEntry, TrueAnswer
-----------------------------------------------------------------------------
(* The steps of the sidecar, as far as the workers are concerned.          *)
LEMMA TrueSidecar ==
  ASSUME TrueInv, SidecarOnly, TrueMails', TrueArm', \A c \in Client : TrueEntry(c)' /\ TrueAnswer(c)'
  PROVE  TrueInv'
<1>1. UNCHANGED <<inbound, main, waiting>>
  BY DEF SidecarOnly, hostVars, pipes
<1> QED  BY <1>1 DEF TrueInv, TrueWorker

(* The routing thread sends on what came in, and hands the bridge what is  *)
(* in the letter it has.                                                   *)
LEMMA TrueRouted ==
  ASSUME Shapes, NEW own, OwnInv(own), Stable, InUse, InUse', TrueMails, RouteRequest \/ RouteResponse, SidecarOnly
  PROVE  TrueMails'
<1>1. shmVars' = shmVars /\ bridge' = bridge /\ arm.pc = "route"
  BY DEF RouteRequest, RouteResponse
<1>2. CASE arm' = [arm EXCEPT !.pc = "cleanup"] /\ RouteRequest
  BY <1>2, ArmMoves, TrueLetters
<1>3. ASSUME NEW v, arm' = [arm EXCEPT !.pc = "put", !.desc.dst = v, !.desc.case = "local"]
      PROVE  TrueMails'
  <2>1. PICK y \in Mails : /\ y.dst = Nil /\ y.ref # Nil /\ y.op = arm.desc.op /\ y.h = ReadSlot(arm.desc.header)
                           /\ \A l \in Letters' : l \in Letters \/ Mail(l)' = [y EXCEPT !.dst = v]
    BY <1>1, <1>3, Addressed
  <2>2. TrueMail(y) /\ DOMAIN y = {"op", "id", "dst", "ref", "h", "body"}
    BY DEF TrueMails, Mails, Mail
  <2>3. PICK z : z = [y EXCEPT !.dst = v]
    OBVIOUS
  <2>4. z.ref = y.ref /\ z.op = y.op /\ z.h = y.h /\ z.body = y.body
    BY <2>2, <2>3
  <2>5. TrueMail(z)
    BY <2>2, <2>4 DEF TrueMail
  <2>6. \A l \in Letters' : l \in Letters \/ Mail(l)' = z
    BY <2>1, <2>3
  <2> QED  BY <2>5, <2>6, TrueLetters
<1> QED  BY <1>2, <1>3 DEF RouteRequest, RouteResponse

LEMMA TrueDelivered ==
  ASSUME Shapes, InUse, TrueMails, DeliverBody
  PROVE  TrueArm'
<1>1. PICK d : d = arm.desc
  OBVIOUS
<1>2. /\ arm.pc = "route" /\ d.op = "resp" /\ ReadSlot(d.header).dst = Nil
      /\ arm' = [arm EXCEPT !.pc = "free_header", !.desc.body = Nil,
                            !.resp = [rid |-> ReadSlot(d.header).rid, status |-> ReadSlot(d.header).status,
                                      body |-> ReadSlot(d.body)]]
  BY <1>1 DEF DeliverBody
<1>3. d.header \in Ref /\ d.header # Nil
  BY <1>1, <1>2, ArmIs, DataAssumption DEF ArmShape, DpuDesc
<1>4. OnWay(d, Nil) \in Letters
  BY <1>1, <1>2, LettersIn DEF ArmLetters
<1>5. PICK y : y = Mail(OnWay(d, Nil))
  OBVIOUS
<1>6. /\ TrueMail(y) /\ y.ref = d.header /\ y.op = "resp" /\ y.h = ReadSlot(d.header) /\ y.body = ReadSlot(d.body)
  BY <1>2, <1>3, <1>4, <1>5 DEF TrueMails, Mails, Mail, OnWay, Letter
<1>7. Told(ReadSlot(d.header).rid, ReadSlot(d.header).status, ReadSlot(d.body))
  BY <1>2, <1>3, <1>6 DEF TrueMail
<1>8. arm'.resp = [rid |-> ReadSlot(d.header).rid, status |-> ReadSlot(d.header).status, body |-> ReadSlot(d.body)]
  BY <1>2, ArmIs
<1> QED  BY <1>7, <1>8 DEF TrueArm

LEMMA TrueByArm ==
  ASSUME Shapes, NEW own, OwnInv(own), Stable, InUse, InUse', TrueInv, Arm, SidecarOnly
  PROVE  TrueInv'
<1>1. TrueMails /\ TrueArm /\ \A c \in Client : TrueEntry(c) /\ TrueAnswer(c)
  BY DEF TrueInv
<1>2. TrueMails'
  <2>1. CASE RouteRequest \/ RouteResponse
    BY <1>1, <2>1, TrueRouted
  <2>2. CASE ~(RouteRequest \/ RouteResponse)
    BY <1>1, <2>2, ArmMoves, TrueLetters DEF Arm
  <2> QED  BY <2>1, <2>2
<1>3. bridge' = bridge
  BY DEF Arm, ArmGet, RouteRequest, RouteResponse, ArmPut, Cleanup, DeliverBody, DeliverHeader, DeliverEvent
<1>4. TrueArm'
  <2>1. CASE DeliverBody
    BY <1>1, <2>1, TrueDelivered
  <2>2. CASE DeliverHeader
    <3>1. arm'.resp = arm.resp /\ arm.pc = "free_header"
      BY <2>2, ArmIs DEF DeliverHeader
    <3> QED  BY <1>1, <3>1 DEF TrueArm
  <2>3. CASE ArmGet \/ RouteRequest \/ RouteResponse \/ ArmPut \/ Cleanup \/ DeliverEvent
    <3>1. arm'.pc \in {"poll", "route", "put", "cleanup"}
      <4>1. RouteRequest \/ RouteResponse => arm'.pc \in {"put", "cleanup"}
        BY ArmIs DEF RouteRequest, RouteResponse
      <4>2. ArmGet => arm'.pc = "route"
        BY ArmIs DEF ArmGet
      <4>4. ArmPut \/ DeliverEvent => arm'.pc \in {"poll", "cleanup"}
        BY ArmIs DEF ArmPut, DeliverEvent, IdleArm
      <4>3. Cleanup => arm'.pc \in {"poll", "cleanup"}
        BY ArmIs DEF Cleanup, IdleArm
      <4> QED  BY <2>3, <4>1, <4>2, <4>3, <4>4
    <3> QED  BY <3>1 DEF TrueArm
  <2> QED  BY <2>1, <2>2, <2>3 DEF Arm
<1>5. \A c \in Client : TrueEntry(c)'
  <2>1. CASE UNCHANGED tables
    BY <1>1, <2>1 DEF TrueEntry, tables
  <2>2. CASE DeliverEvent /\ ~UNCHANGED tables
    <3>1. PICK c, r : c = Addressee(arm.resp) /\ r = [status |-> arm.resp.status, body |-> arm.resp.body]
      OBVIOUS
    <3>2. /\ bridge_responses' = [bridge_responses EXCEPT ![c] = r] /\ arm.pc = "wake"
          /\ bridge_events' = [bridge_events EXCEPT ![c] = "set"]
      BY <2>2, <3>1 DEF DeliverEvent
    <3>3. Told(c, r.status, r.body)
      BY <1>1, <3>1, <3>2 DEF TrueArm, Addressee
    <3> QED  BY <1>1, <3>2, <3>3, SidecarIs DEF TrueEntry
  <2> QED
    BY <2>1, <2>2 DEF Arm, ArmGet, RouteRequest, RouteResponse, ArmPut, Cleanup, DeliverBody, DeliverHeader
<1>6. \A c \in Client : TrueAnswer(c)'
  BY <1>1, <1>3 DEF TrueAnswer
<1> QED  BY <1>2, <1>4, <1>5, <1>6, TrueSidecar
-----------------------------------------------------------------------------
(* What a bridge thread tells its client.                                  *)
LEMMA BridgeTells ==
  ASSUME Shapes, NEW c \in Client, TrueEntry(c), BridgeStep(c) \/ BridgeTimeout(c)
  PROVE  /\ \A b \in Client : b # c => bridge'[b] = bridge[b]
         /\ bridge[c].pc # "done"
         /\ \/ bridge'[c].answer = bridge[c].answer /\ bridge'[c].pc # "done"
            \/ /\ bridge'[c].pc = "done"
               /\ \/ bridge'[c].answer = L!Expected(c)
                  \/ \E f \in {413, 502, 503, 504} : bridge'[c].answer = L!Says(f, L!NoBody)
<1>1. /\ DOMAIN bridge = Client
      /\ bridge[c] \in [pc : {"new", "alloc", "put", "toobig", "full", "wait", "expired", "done"},
                        dst : Worker \cup {Nil}, body : OptRef, answer : Answers \cup {Nil}]
  BY BridgeIs
<1>2. NoBody = L!NoBody
  BY DEF NoBody, L!NoBody
<1>3. ASSUME NEW status, NEW body, Answer(c, status, body)
      PROVE  /\ \A b \in Client : b # c => bridge'[b] = bridge[b]
             /\ bridge'[c].pc = "done" /\ bridge'[c].answer = L!Says(status, body)
  BY <1>1, <1>3 DEF Answer, L!Says
<1>4. ASSUME NEW f \in {413, 503, 504}, Answer(c, f, NoBody)
      PROVE  /\ \A b \in Client : b # c => bridge'[b] = bridge[b]
             /\ bridge'[c].pc = "done"
             /\ \E g \in {413, 502, 503, 504} : bridge'[c].answer = L!Says(g, L!NoBody)
  BY <1>2, <1>3, <1>4
<1>5. CASE BridgeRegister(c)
  <2>1. \/ Answer(c, 503, NoBody)
        \/ bridge' = [bridge EXCEPT ![c].pc = "alloc", ![c].dst = Selected(Target(c))]
    BY <1>5 DEF BridgeRegister
  <2>2. bridge[c].pc = "new"
    BY <1>5 DEF BridgeRegister
  <2> QED  BY <1>1, <1>4, <2>1, <2>2
<1>6. CASE BridgeAlloc(c)
  <2>1. \/ Answer(c, 503, NoBody)
        \/ \E r : \E pc \in {"put", "toobig"} : bridge' = [bridge EXCEPT ![c].pc = pc, ![c].body = r]
    BY <1>6 DEF BridgeAlloc
  <2>2. bridge[c].pc = "alloc"
    BY <1>6 DEF BridgeAlloc
  <2> QED  BY <1>1, <1>4, <2>1, <2>2
<1>7. CASE BridgePut(c)
  <2>1. \/ bridge' = [bridge EXCEPT ![c].pc = "wait", ![c].body = Nil]
        \/ bridge' = [bridge EXCEPT ![c].pc = "full"]
    BY <1>7 DEF BridgePut
  <2>2. bridge[c].pc = "put"
    BY <1>7 DEF BridgePut
  <2> QED  BY <1>1, <2>1, <2>2
<1>8. CASE BridgeUndo(c)
  <2>1. bridge[c].pc \in {"toobig", "full"} /\ \E f \in {413, 503} : Answer(c, f, NoBody)
    BY <1>8 DEF BridgeUndo
  <2> QED  BY <1>4, <2>1
<1>9. CASE BridgeAnswer(c)
  <2>1. /\ bridge[c].pc = "wait" /\ bridge_events[c] = "set"
        /\ Answer(c, bridge_responses[c].status, bridge_responses[c].body)
    BY <1>9 DEF BridgeAnswer
  <2>2. L!Says(bridge_responses[c].status, bridge_responses[c].body) \in {L!Expected(c), L!Says(502, L!NoBody)}
    BY <2>1 DEF TrueEntry, Told
  <2> QED  BY <1>3, <2>1, <2>2
<1>10. CASE BridgeTimeout(c)
  <2>1. bridge[c].pc = "wait" /\ bridge' = [bridge EXCEPT ![c].pc = "expired"]
    BY <1>10 DEF BridgeTimeout
  <2> QED  BY <1>1, <2>1
<1>11. CASE BridgeExpire(c)
  <2>1. bridge[c].pc = "expired" /\ Answer(c, 504, NoBody)
    BY <1>11 DEF BridgeExpire
  <2> QED  BY <1>4, <2>1
<1> QED  BY <1>5, <1>6, <1>7, <1>8, <1>9, <1>10, <1>11 DEF BridgeStep

LEMMA TrueByBridge ==
  ASSUME Shapes, NEW own, OwnInv(own), Stable, InUse, InUse', TrueInv, NEW c \in Client,
         BridgeStep(c) \/ BridgeTimeout(c), SidecarOnly
  PROVE  TrueInv'
<1>1. TrueMails /\ TrueArm /\ \A b \in Client : TrueEntry(b) /\ TrueAnswer(b)
  BY DEF TrueInv
<1>2. TrueMails'
  <2>1. CASE BridgeAlloc(c) /\ bridge'[c].pc = "put"
    <3>1. PICK z : /\ z.op = "req" /\ z.ref = Nil
                   /\ z.h = [ask |-> Asks[c], svc |-> "frontend", name |-> c, status |-> 0,
                             rid |-> c, src |-> Nil, dst |-> bridge[c].dst]
                   /\ \A l \in Letters' : l \in Letters \/ Mail(l)' = z
      BY <2>1, BridgeWrites
    <3>2. TrueMail(z)
      BY <3>1 DEF TrueMail, OwnQuestion
    <3> QED  BY <1>1, <3>1, <3>2, TrueLetters
  <2>2. CASE ~(BridgeAlloc(c) /\ bridge'[c].pc = "put")
    BY <1>1, <2>2, BridgeMoves, TrueLetters DEF BridgeStep
  <2> QED  BY <2>1, <2>2
<1>3. arm' = arm
  BY DEF BridgeStep, BridgeRegister, BridgeAlloc, BridgePut, BridgeUndo, BridgeAnswer, BridgeTimeout, BridgeExpire
<1>4. TrueArm'
  BY <1>1, <1>3 DEF TrueArm
<1>5. ASSUME NEW b \in Client
      PROVE  TrueEntry(b)'
  <2>1. \/ UNCHANGED tables
        \/ /\ bridge_events' = [bridge_events EXCEPT ![c] = "waiting"]
           /\ bridge_responses' = [bridge_responses EXCEPT ![c] = None]
        \/ /\ bridge_events' = [bridge_events EXCEPT ![c] = "absent"]
           /\ bridge_responses' = [bridge_responses EXCEPT ![c] = Nil]
    BY DEF BridgeStep, BridgeRegister, BridgeAlloc, BridgePut, BridgeUndo, BridgeAnswer, BridgeTimeout, BridgeExpire,
           Forget
  <2>2. bridge_events'[b] = "set" => bridge_events[b] = "set" /\ bridge_responses'[b] = bridge_responses[b]
    BY <2>1, SidecarIs DEF tables
  <2> QED  BY <1>1, <2>2 DEF TrueEntry
<1>6. ASSUME NEW b \in Client
      PROVE  TrueAnswer(b)'
  <2>1. /\ b # c => bridge'[b] = bridge[b]
        /\ bridge[c].pc # "done"
        /\ \/ bridge'[c].answer = bridge[c].answer /\ bridge'[c].pc # "done"
           \/ /\ bridge'[c].pc = "done"
              /\ \/ bridge'[c].answer = L!Expected(c)
                 \/ \E f \in {413, 502, 503, 504} : bridge'[c].answer = L!Says(f, L!NoBody)
    BY <1>1, BridgeTells
  <2>2. (\E f \in {413, 502, 503, 504} : bridge'[c].answer = L!Says(f, L!NoBody))
           => bridge'[c].answer.status \in {413, 502, 503, 504}
    BY DEF L!Says
  <2> QED  BY <1>1, <2>1, <2>2 DEF TrueAnswer
<1> QED  BY <1>2, <1>4, <1>5, <1>6, TrueSidecar
-----------------------------------------------------------------------------
(* A step of worker w concerns no one else.                                *)
LEMMA TrueHost ==
  ASSUME TrueInv, HostOnly, NEW w \in Worker, OthersSame(w), TrueMails', TrueWorker(w)'
  PROVE  TrueInv'
<1>1. UNCHANGED <<arm, bridge, bridge_events, bridge_responses>>
  BY DEF HostOnly, sidecarVars, tables
<1>2. \A v \in Worker : TrueWorker(v)'
  BY DEF TrueInv, TrueWorker, OthersSame
<1> QED  BY <1>1, <1>2 DEF TrueInv, TrueArm, TrueEntry, TrueAnswer

LEMMA TruePoller ==
  ASSUME Shapes, Stable, InUse, InUse', TrueInv, NEW w \in Worker, Poller(w), HostOnly
  PROVE  TrueInv'
<1>1. TrueMails'
  BY PollerMoves, TrueLetters DEF TrueInv
<1>2. UNCHANGED <<inbound, waiting, main>>
  BY DEF Poller, PollerGet, PollerNotify, PollerDeliver, PollerDrop, PollerClose, pipes
<1>3. TrueWorker(w)'
  BY <1>2 DEF TrueInv, TrueWorker
<1> QED  BY <1>1, <1>3, WorkersAlone, TrueHost

(* The main thread goes on with what it has begun.                         *)
LEMMA TrueGoingOn ==
  ASSUME Shapes, NEW w \in Worker, TrueMain(inbound[w], main[w]), inbound' = inbound,
         \/ FreeRxHeader(w) \/ FreeRxBody(w) \/ WriteHeader(w) \/ WriteBody(w) \/ Enqueue(w)
         \/ UndoHeader(w) \/ UndoBody(w)
  PROVE  TrueMain(inbound[w], main[w])'
<1>1. DOMAIN main = Worker /\ main[w] \in MainState
  BY MainIs
<1>2. PICK m : m = main[w]
  OBVIOUS
<1>3. /\ main'[w].pc \in WritePc =>
           m.pc \in WritePc /\ main'[w].msg = m.msg /\ main'[w].conn = m.conn
      /\ main'[w].pc \in {"free_resp", "upstream"} =>
           m.pc \in {"free_resp", "upstream"} /\ main'[w].conn = m.conn
  <2>1. CASE FreeRxHeader(w)
    <3>1. main'[w] = [m EXCEPT !.rx_header = Nil]
      BY <1>1, <1>2, <2>1 DEF FreeRxHeader
    <3> QED  BY <1>1, <1>2, <3>1 DEF MainState
  <2>2. CASE FreeRxBody(w)
    <3>1. PICK pc : /\ main'[w] = [m EXCEPT !.rx_body = Nil, !.pc = pc]
                    /\ pc = CASE m.pc = "free_resp" -> "upstream"
                              [] m.pc = "free_req" /\ notify[w] # << >> -> "reading"
                              [] OTHER -> "idle"
      BY <1>1, <1>2, <2>2 DEF FreeRxBody
    <3>2. pc \in {"upstream", "reading", "idle"} /\ (pc = "upstream" => m.pc = "free_resp")
      BY <3>1
    <3>3. main'[w].pc = pc /\ main'[w].conn = m.conn
      BY <1>1, <1>2, <3>1 DEF MainState
    <3> QED  BY <3>2, <3>3 DEF WritePc
  <2>3. CASE WriteHeader(w) \/ WriteBody(w)
    <3>1. /\ m.pc \in {"header", "body"}
          /\ \E r : \E pc \in {"failed", "body", "undo", "put"} :
               \/ main' = [main EXCEPT ![w].pc = pc]
               \/ main' = [main EXCEPT ![w].pc = pc, ![w].tx_header = r]
               \/ main' = [main EXCEPT ![w].pc = pc, ![w].tx_body = r]
      BY <1>2, <2>3 DEF WriteHeader, WriteBody
    <3> QED  BY <1>1, <1>2, <3>1 DEF MainState, WritePc
  <2>4. CASE UndoHeader(w) \/ UndoBody(w)
    <3>1. /\ m.pc = "undo"
          /\ \E pc \in {"failed", "undo"} :
               \/ main' = [main EXCEPT ![w].tx_header = Nil, ![w].pc = pc]
               \/ main' = [main EXCEPT ![w].tx_body = Nil, ![w].pc = pc]
      BY <1>2, <2>4 DEF UndoHeader, UndoBody
    <3> QED  BY <1>1, <1>2, <3>1 DEF MainState, WritePc
  <2>5. CASE Enqueue(w)
    <3>1. m.pc = "put" /\ (main' = [main EXCEPT ![w].pc = "undo"] \/ main' = [main EXCEPT ![w] = AfterHandler(m)])
      BY <1>2, <2>5 DEF Enqueue
    <3>2. AfterHandler(m).pc \in {"idle", "free_req"}
      BY DEF AfterHandler, IdleMain
    <3> QED  BY <1>1, <1>2, <3>1, <3>2 DEF MainState, WritePc
  <2> QED  BY <2>1, <2>2, <2>3, <2>4, <2>5
<1>4. /\ Continuing(main'[w]) => Continuing(m) /\ main'[w].conn = m.conn
      /\ Reporting(main'[w]) => Reporting(m) /\ main'[w].msg = m.msg
  BY <1>3 DEF Continuing, Reporting, WritePc
<1> QED  BY <1>2, <1>4 DEF TrueMain

(* A step of the main thread that only its own locals can make untrue.     *)
LEMMA TrueStep ==
  ASSUME Shapes, Stable, InUse, InUse', TrueInv, NEW w \in Worker, Main(w), HostOnly, Enqueue(w) => tx_sq' = tx_sq,
         waiting'[w] \subseteq waiting[w], \A u \in waiting[w] : inbound'[w][u.idx] = inbound[w][u.idx],
         TrueMain(inbound[w], main[w])'
  PROVE  TrueInv'
<1>1. Letters' \subseteq Letters /\ OthersSame(w)
  BY MainMoves, WorkersAlone
<1>2. TrueMails' /\ TrueWaiting(inbound[w], waiting[w])
  BY <1>1, TrueLetters DEF TrueInv, TrueWorker
<1>3. TrueWaiting(inbound[w], waiting[w])'
  BY <1>2 DEF TrueWaiting
<1>4. TrueWorker(w)'
  BY <1>3 DEF TrueWorker
<1> QED  BY <1>1, <1>2, <1>4, TrueHost

LEMMA TrueGoes ==
  ASSUME Shapes, NEW own, OwnInv(own), InUse, InUse', TrueInv, NEW w \in Worker, HostOnly,
         \/ FreeRxHeader(w) \/ FreeRxBody(w) \/ WriteHeader(w) \/ WriteBody(w)
         \/ (Enqueue(w) /\ ~Room(tx_sq[w])) \/ UndoHeader(w) \/ UndoBody(w)
  PROVE  TrueInv'
<1>1. Main(w) /\ UNCHANGED <<inbound, waiting>> /\ (Enqueue(w) => tx_sq' = tx_sq)
  BY DEF Main, FreeRxHeader, FreeRxBody, WriteHeader, WriteBody, Enqueue, UndoHeader, UndoBody, pipes, sqs
<1>2. Stable
  BY <1>1, StableWorker
<1>3. TrueMain(inbound[w], main[w])'
  BY <1>1, TrueGoingOn DEF TrueInv, TrueWorker
<1> QED  BY <1>1, <1>2, <1>3, TrueStep

(* The main thread begins with a response or a call.                       *)
LEMMA TrueRespond ==
  ASSUME Shapes, NEW w \in Worker, NEW m \in MainState, NEW idx, NEW ib, NEW out, StartRespond(w, m, idx, ib, out),
         ib.src = Nil => Told(ib.rid, out.status, out.body)
  PROVE  TrueMain(inbound[w], main[w])'
<1>1. main'[w].pc = "header" /\ main'[w].msg = ResponseMsg(w, ib, out.status, out.body)
  BY MainIs DEF StartRespond, MainState
<1>2. PICK n : n = main'[w]
  OBVIOUS
<1>3. /\ n.pc = "header" /\ n.msg.op = "resp" /\ n.msg.header.dst = ib.src /\ n.msg.header.rid = ib.rid
      /\ n.msg.header.status = out.status /\ n.msg.body = out.body
  BY <1>1, <1>2 DEF ResponseMsg
<1>4. ~Continuing(n) /\ (Reporting(n) => Told(n.msg.header.rid, n.msg.header.status, n.msg.body))
  BY <1>3 DEF Continuing, Reporting
<1> QED  BY <1>2, <1>4 DEF TrueMain

LEMMA TrueCall ==
  ASSUME Shapes, NEW w \in Worker, NEW m \in MainState, NEW idx, NEW out, StartCall(w, m, idx, out),
         TrueContext(inbound'[w][idx], out.ctx)
  PROVE  TrueMain(inbound[w], main[w])'
<1>1. /\ main'[w].pc = "header" /\ main'[w].msg.op = "req"
      /\ main'[w].conn = [idx |-> idx, ctx |-> out.ctx]
  BY MainIs DEF StartCall, RequestMsg, MainState
<1>2. main'[w].conn.idx = idx /\ main'[w].conn.ctx = out.ctx /\ ~Reporting(main'[w])
  BY <1>1 DEF Reporting
<1> QED  BY <1>2 DEF TrueMain

LEMMA TrueOnResponse ==
  ASSUME Shapes, InUse, InUse', TrueInv, NEW w \in Worker, OnResponse(w), HostOnly
  PROVE  TrueInv'
<1>1. PICK u \in waiting[w], r \in delivered[w] :
        /\ u.pipe = r.pipe
        /\ waiting' = [waiting EXCEPT ![w] = @ \ {u}]
        /\ delivered' = [delivered EXCEPT ![w] = @ \ {r}]
        /\ main' = [main EXCEPT ![w] =
                     [IdleMain EXCEPT
                        !.pc = "free_resp",
                        !.rx_header = r.desc.header, !.rx_body = r.desc.body,
                        !.conn = [idx |-> u.idx, ctx |-> u.ctx],
                        !.resp = [status |-> ReadSlot(r.desc.header).status,
                                  body |-> ReadSlot(r.desc.body)]]]
  BY ZenonT(30) DEF OnResponse
<1>2. UNCHANGED <<inbound, mem>> /\ ~Enqueue(w) /\ Main(w)
  BY ZenonT(30) DEF OnResponse, shmVars, Enqueue, Main
<1>3. waiting'[w] \subseteq waiting[w]
  BY <1>1, HostAtIs
<1>4. main'[w].pc = "free_resp" /\ main'[w].conn.idx = u.idx /\ main'[w].conn.ctx = u.ctx
  BY <1>1, MainIs DEF IdleMain
<1>5. TrueContext(inbound[w][u.idx], u.ctx)
  BY DEF TrueInv, TrueWorker, TrueWaiting
<1>6. TrueMain(inbound[w], main[w])'
  BY <1>2, <1>4, <1>5 DEF TrueMain, Reporting, WritePc
<1> QED  BY <1>2, <1>3, <1>6, StableSame, TrueStep

LEMMA TrueUpstream ==
  ASSUME Shapes, InUse, InUse', Calls, TrueInv, NEW w \in Worker, Upstream(w), HostOnly
  PROVE  TrueInv'
<1>1. PICK c, r, ib, out :
        /\ c = main[w].conn /\ r = main[w].resp /\ ib = inbound[w][c.idx]
        /\ out = HandleUpstreamResponse(c.ctx, r.status, r.body)
  OBVIOUS
<1>2. /\ main[w].pc = "upstream"
      /\ StartRespond(w, IdleMain, c.idx, ib, out) \/ StartCall(w, IdleMain, c.idx, out)
      /\ UNCHANGED <<inbound, waiting, mem>> /\ ~Enqueue(w) /\ Main(w)
  BY <1>1 DEF Upstream, pipes, shmVars, Enqueue, Main
<1>3. c.ctx \in Context
  BY <1>1, <1>2, MainIs DEF MainShape
<1>4. Saying(r.status, r.body, c.ctx)
  BY <1>1, <1>2 DEF Calls, CallsAt, GoodMain, GoodAnswer
<1>5. TrueContext(ib, c.ctx)
  BY <1>1, <1>2 DEF TrueInv, TrueWorker, TrueMain, Continuing
<1>6. \/ out.act = "respond" /\ Told(ib.rid, out.status, out.body)
      \/ out.act = "call" /\ TrueContext(ib, out.ctx)
  BY <1>1, <1>3, <1>4, <1>5, AnswerHandled
<1>7. IdleMain \in MainState
  BY DEF IdleMain, MainState, OptRef
<1>8. TrueMain(inbound[w], main[w])'
  <2>1. CASE StartRespond(w, IdleMain, c.idx, ib, out)
    <3>1. Told(ib.rid, out.status, out.body)
      BY <1>6, <2>1 DEF StartRespond
    <3> QED  BY <1>7, <2>1, <3>1, TrueRespond
  <2>2. CASE StartCall(w, IdleMain, c.idx, out)
    <3>1. TrueContext(ib, out.ctx) /\ inbound'[w][c.idx] = ib
      BY <1>1, <1>2, <1>6, <2>2 DEF StartCall
    <3> QED  BY <1>7, <2>2, <3>1, TrueCall
  <2> QED  BY <1>2, <2>1, <2>2
<1> QED  BY <1>2, <1>8, StableSame, TrueStep

LEMMA TrueWriteFailed ==
  ASSUME Shapes, InUse, InUse', TrueInv, NEW w \in Worker, WriteFailed(w), HostOnly
  PROVE  TrueInv'
<1>1. PICK m, ib : m = main[w] /\ ib = inbound[w][m.conn.idx]
  OBVIOUS
<1>2. m.pc = "failed" /\ UNCHANGED <<inbound, waiting, mem>> /\ ~Enqueue(w) /\ Main(w)
  BY <1>1 DEF WriteFailed, pipes, shmVars, Enqueue, Main
<1>3. TrueMain(inbound[w], main[w])'
  <2>1. CASE m.msg.op = "req"
    <3> DEFINE clean == [AfterHandler(m) EXCEPT !.pc = "header"]
               out == Respond(502, NoBody)
    <3>1. StartRespond(w, clean, m.conn.idx, ib, out)
      BY <1>1, <2>1 DEF WriteFailed
    <3>2. clean \in MainState
      BY <1>1, AfterHandlerIs, AfterHandlerKeepsRx
    <3>3. TrueContext(ib, m.conn.ctx)
      BY <1>1, <1>2, <2>1 DEF TrueInv, TrueWorker, TrueMain, Continuing, WritePc
    <3>4. PICK c \in Client : c = ib.rid
      BY <3>3 DEF TrueContext
    <3>5. out.status = 502 /\ out.body = NoBody
      BY DEF Respond
    <3>6. Told(ib.rid, out.status, out.body)
      BY <3>4, <3>5, GaveUp
    <3> HIDE DEF clean, out
    <3> QED  BY <3>1, <3>2, <3>6, TrueRespond
  <2>2. CASE m.msg.op = "resp"
    <3>1. main'[w] = AfterHandler(m)
      BY <1>1, <2>2, MainIs DEF WriteFailed
    <3>2. main'[w].pc \in {"idle", "free_req"}
      BY <3>1 DEF AfterHandler, IdleMain
    <3> QED  BY <3>2 DEF TrueMain, Continuing, Reporting, WritePc
  <2> QED  BY <1>1, <2>1, <2>2 DEF WriteFailed
<1> QED  BY <1>2, <1>3, StableSame, TrueStep

(* What the descriptor of a request from the bridge refers to.             *)
LEMMA QuestionTaken ==
  ASSUME Shapes, TrueMails, NEW w \in Worker, notify[w] # << >>, NEW d, d = Head(notify[w]), d.case = "ingress"
  PROVE  OwnQuestion(ReadSlot(d.body))
<1> DEFINE D == {e \in ReceivedDesc(w) : e.op = "req"}
<1>1. notify[w] \in Seq(D)
  BY HostAtIs DEF HostAt
<1>2. d \in ReceivedDesc(w) /\ d.op = "req" /\ OnWay(d, w) \in Queued(notify[w], w)
  BY <1>1, Pop, FirstLetter
<1>3. d.header = Nil
  BY <1>2 DEF ReceivedDesc, Ingress
<1>4. OnWay(d, w) \in Letters
  BY <1>2, WorkerLettersIn, LettersIn
<1>5. PICK y : y = Mail(OnWay(d, w))
  OBVIOUS
<1>6. y.ref = Nil /\ y.h = ReadSlot(d.body)
  BY <1>3, <1>5 DEF Mail, OnWay, Letter
<1>7. TrueMail(y)
  BY <1>4, <1>5 DEF TrueMails, Mails
<1> QED  BY <1>6, <1>7 DEF TrueMail

(* A request from the bridge is a client's own; the requests of others are *)
(* answered at once, and not to a client.                                  *)
LEMMA TrueOnRequest ==
  ASSUME Shapes, InUse, InUse', InboundKept, Calls, TrueInv, NEW w \in Worker, OnRequest(w), HostOnly
  PROVE  TrueInv'
<1>1. PICK at : CallsAt(at)
  BY DEF Calls
<1>2. PICK d : d = Head(notify[w])
  OBVIOUS
<1>3. PICK h : h = ReadSlot(IF d.case = "ingress" THEN d.body ELSE d.header)
  OBVIOUS
<1>4. PICK idx, ib, m, out :
        /\ idx = d.req_id % MaxPending /\ ib = [req_id |-> d.req_id, rid |-> h.rid, src |-> h.src]
        /\ m = [IdleMain EXCEPT !.rx_header = d.header, !.rx_body = d.body]
        /\ out = HandleRequest(ServiceOf[w], h)
  OBVIOUS
<1>5. /\ inbound' = [inbound EXCEPT ![w][idx] = ib]
      /\ StartRespond(w, m, idx, ib, out) \/ StartCall(w, m, idx, out)
      /\ UNCHANGED <<waiting, mem>> /\ ~Enqueue(w) /\ Main(w)
      /\ notify[w] # << >>
  BY <1>2, <1>3, <1>4, ZenonT(30) DEF OnRequest, shmVars, Enqueue, Main
<1>6. /\ d \in ReceivedDesc(w) /\ d.req_id \in Nat /\ h \in Header
      /\ d.case = "ingress" => ServiceOf[w] = "frontend"
      /\ d.case # "ingress" => RequestAt(at, h, d.req_id, At(d.header)) /\ ServiceOf[w] = h.svc
  BY <1>1, <1>2, <1>3, <1>5, RequestTaken
<1>7. m \in MainState
  <2>1. d.header \in OptRef /\ d.body \in OptRef
    BY <1>6 DEF ReceivedDesc, Descriptor
  <2> QED  BY <1>4, <2>1 DEF IdleMain, MainState, OptRef
<1>8. inbound'[w][idx] = ib /\ ib.rid = h.rid /\ ib.src = h.src
  <2>1. idx \in TableIndex
    BY <1>4, <1>6, HostAssumption DEF TableIndex
  <2>2. inbound'[w] = [inbound[w] EXCEPT ![idx] = ib] /\ DOMAIN inbound[w] = TableIndex
    BY <1>5, HostAtIs
  <2> QED  BY <1>4, <2>1, <2>2
<1>9. TrueMain(inbound[w], main[w])'
  <2>1. CASE d.case = "ingress"
    <3>1. OwnQuestion(h)
      BY <1>2, <1>3, <1>5, <2>1, QuestionTaken DEF TrueInv
    <3>2. out = HandleRequest("frontend", h)
      BY <1>4, <1>6, <2>1
    <3>3. \/ out.act = "respond" /\ Told(h.rid, out.status, out.body)
          \/ out.act = "call" /\ \A e : e.rid = h.rid => TrueContext(e, out.ctx)
      BY <1>6, <3>1, <3>2, QuestionHandled
    <3>4. CASE StartRespond(w, m, idx, ib, out)
      <4>1. Told(ib.rid, out.status, out.body)
        BY <1>8, <3>3, <3>4 DEF StartRespond
      <4> QED  BY <1>7, <3>4, <4>1, TrueRespond
    <3>5. CASE StartCall(w, m, idx, out)
      <4>1. out.act = "call"
        BY <3>5 DEF StartCall
      <4>2. TrueContext(ib, out.ctx)
        BY <1>8, <3>3, <4>1
      <4> QED  BY <1>7, <1>8, <3>5, <4>2, TrueCall
    <3> QED  BY <1>5, <3>4, <3>5
  <2>2. CASE d.case # "ingress"
    <3>1. PICK v : v = h.src
      OBVIOUS
    <3>2. v \in Worker /\ \E u \in waiting[v] : Asking(h, u.ctx)
      BY <1>6, <2>2, <3>1 DEF RequestAt, Live
    <3>3. PICK u \in waiting[v] : Asking(h, u.ctx)
      BY <3>2
    <3>4. u.ctx \in Context
      BY <3>2, <3>3, HostAtIs DEF HostAt, Waiting
    <3>5. out.act = "respond"
      BY <1>4, <1>6, <2>2, <3>3, <3>4, ServiceSays
    <3>6. StartRespond(w, m, idx, ib, out) /\ ib.src # Nil
      BY <1>5, <1>8, <3>1, <3>2, <3>5, ShmAssumption DEF StartCall
    <3> QED  BY <1>7, <3>6, TrueRespond
  <2> QED  BY <2>1, <2>2
<1>10. waiting'[w] \subseteq waiting[w] /\ \A u \in waiting[w] : inbound'[w][u.idx] = inbound[w][u.idx]
  BY <1>5 DEF InboundKept
<1> QED  BY <1>5, <1>9, <1>10, StableSame, TrueStep

(* A message that main thread w sends: a call leaves its context with the  *)
(* waiting ones.                                                           *)
LEMMA TrueEnqueue ==
  ASSUME Shapes, InUse, InUse', Calls, TrueInv, NEW w \in Worker, Enqueue(w), Room(tx_sq[w]), HostOnly
  PROVE  TrueInv'
<1>1. PICK at : CallsAt(at)
  BY DEF Calls
<1>2. PICK m : m = main[w]
  OBVIOUS
<1>3. /\ MainShape(w, m) /\ m.pc = "put" /\ m.msg \in Message /\ m.tx_header \in Ref /\ m.tx_body \in Ref
  BY <1>2, MainIs DEF Enqueue, MainShape, WritePc, MainState, OptRef
<1>4. PICK k, u0 : k = m.msg.req_id /\ u0 = [pipe |-> k, idx |-> m.conn.idx, ctx |-> m.conn.ctx]
  OBVIOUS
<1>5. /\ ReadSlot(m.tx_header) = m.msg.header /\ ReadSlot(m.tx_body) = m.msg.body /\ m.tx_header # Nil
  BY <1>1, <1>2, <1>3, DataAssumption DEF CallsAt, GoodMain, Copied
<1>6. UNCHANGED <<inbound, mem>> /\ Main(w)
  BY DEF Enqueue, Main
<1>7. waiting'[w] = IF m.msg.op = "req" THEN waiting[w] \cup {u0} ELSE waiting[w]
  <2>1. waiting' = [waiting EXCEPT ![w] = IF m.msg.op = "req" THEN @ \cup {u0} ELSE @]
    BY <1>2, <1>4 DEF Enqueue
  <2> QED  BY <2>1, HostAtIs
<1>8. PICK x0 : /\ x0 = [op |-> m.msg.op, id |-> k, dst |-> Nil, header |-> m.tx_header, body |-> m.tx_body]
                /\ \A x \in Letters' : x \in Letters \/ x = x0
  BY <1>2, <1>4, Sends
<1>9. PICK y0 : y0 = [op |-> m.msg.op, id |-> k, dst |-> Nil, ref |-> m.tx_header, h |-> m.msg.header, body |-> m.msg.body]
  OBVIOUS
<1>10. Mail(x0)' = y0
  BY <1>5, <1>6, <1>8, <1>9 DEF Mail, ReadSlot
<1>11. TrueMain(inbound[w], m) /\ TrueWaiting(inbound[w], waiting[w]) /\ TrueMails
  BY <1>2 DEF TrueInv, TrueWorker
<1>12. TrueMail(y0)
  BY <1>3, <1>5, <1>9, <1>11 DEF TrueMail, TrueMain, Reporting, WritePc
<1>13. Stable /\ OthersSame(w)
  BY <1>6, StableSame, WorkersAlone
<1>14. TrueMails'
  BY <1>8, <1>10, <1>11, <1>12, <1>13, TrueLetters
<1>15. TrueWaiting(inbound[w], waiting[w])'
  <2>1. CASE m.msg.op = "resp"
    BY <1>6, <1>7, <1>11, <2>1
  <2>2. CASE m.msg.op = "req"
    <3>1. TrueContext(inbound[w][u0.idx], u0.ctx)
      BY <1>3, <1>4, <1>11, <2>2 DEF TrueMain, Continuing, WritePc
    <3>2. \A u \in waiting'[w] : u \in waiting[w] \/ u = u0
      BY <1>7, <2>2
    <3> QED  BY <1>6, <1>11, <3>1, <3>2 DEF TrueWaiting
  <2> QED  BY <1>3, <2>1, <2>2 DEF Message
<1>16. TrueMain(inbound[w], main[w])'
  BY <1>2, <1>6, <1>11, TrueGoingOn
<1>17. TrueWorker(w)'
  BY <1>15, <1>16 DEF TrueWorker
<1> QED  BY <1>13, <1>14, <1>17, TrueHost

LEMMA TrueByMain ==
  ASSUME Shapes, NEW own, OwnInv(own), InUse, InUse', InboundKept, Calls, TrueInv, NEW w \in Worker, Main(w), HostOnly
  PROVE  TrueInv'
<1>1. OnRequest(w) \/ OnResponse(w) \/ Upstream(w) \/ WriteFailed(w) => TrueInv'
  BY TrueOnRequest, TrueOnResponse, TrueUpstream, TrueWriteFailed
<1>2. Enqueue(w) => TrueInv'
  BY TrueEnqueue, TrueGoes
<1>3. FreeRxHeader(w) \/ FreeRxBody(w) \/ WriteHeader(w) \/ WriteBody(w) \/ UndoHeader(w) \/ UndoBody(w) => TrueInv'
  BY TrueGoes
<1> QED  BY <1>1, <1>2, <1>3 DEF Main
-----------------------------------------------------------------------------
LEMMA InitTrue == Init => TrueInv
<1> SUFFICES ASSUME Init
             PROVE  TrueInv
  OBVIOUS
<1>1. TrueMails
  BY NoLetters DEF TrueMails, Mails
<1>2. arm.pc = "poll"
  BY DEF Init, SidecarInit, IdleArm
<1>3. \A w \in Worker : main[w].pc = "idle" /\ waiting[w] = {}
  BY DEF Init, HostInit, IdleMain
<1>4. \A c \in Client : bridge_events[c] = "absent" /\ bridge[c].pc = "new" /\ bridge[c].answer = Nil
  BY DEF Init, SidecarInit
<1>5. TrueArm
  BY <1>2 DEF TrueArm
<1>6. \A w \in Worker : TrueWorker(w)
  BY <1>3 DEF TrueWorker, TrueMain, TrueWaiting, Continuing, Reporting, WritePc
<1>7. \A c \in Client : TrueEntry(c) /\ TrueAnswer(c)
  BY <1>4 DEF TrueEntry, TrueAnswer
<1> QED  BY <1>1, <1>5, <1>6, <1>7 DEF TrueInv

LEMMA StutterTrue ==
  ASSUME InUse, InUse', TrueInv, UNCHANGED vars
  PROVE  TrueInv'
<1>1. Stable /\ UNCHANGED <<hostVars, sidecarVars>>
  BY StableSame DEF vars, shmVars
<1>2. Letters' = Letters
  BY LettersSame DEF vars, shmVars, sqs, hostVars, pipes, dpaVars, sidecarVars, Letters
<1>3. TrueMails'
  BY <1>1, <1>2, TrueLetters DEF TrueInv
<1>4. UNCHANGED <<inbound, main, waiting, arm, bridge, bridge_events, bridge_responses>>
  BY <1>1 DEF hostVars, sidecarVars, pipes, tables
<1> QED  BY <1>3, <1>4 DEF TrueInv, TrueArm, TrueWorker, TrueEntry, TrueAnswer

LEMMA TrueKept ==
  ASSUME IInv, CallInv, TrueInv, [Next]_vars, [InboundKept]_vars
  PROVE  TrueInv'
<1>1. Shapes /\ IInv'
  BY StepInvariant DEF IInv
<1>2. PICK own : OwnInv(own)
  BY DEF IInv
<1>3. Stable /\ InUse /\ InUse' /\ Calls
  BY <1>1, <1>2, MemoryIsStable, InvariantInUse, NextInUse DEF CallInv
<1>4. InboundKept
  BY DEF InboundKept, vars, hostVars
<1>5. HostStep /\ HostOnly => TrueInv'
  BY <1>1, <1>2, <1>3, <1>4, TruePoller, TrueByMain DEF HostStep
<1>6. DpaStep /\ DpaOnly => TrueInv'
  BY <1>1, <1>2, <1>3, TrueDpa
<1>7. SidecarStep /\ SidecarOnly => TrueInv'
  BY <1>1, <1>2, <1>3, TrueByArm, TrueByBridge DEF SidecarStep
<1>8. Rest \/ UNCHANGED vars => TrueInv'
  BY <1>3, StutterTrue DEF Rest
<1> QED  BY <1>5, <1>6, <1>7, <1>8 DEF Next

LEMMA TrueInvariance == Spec /\ [][EntriesFree]_vars /\ [][InboundKept]_vars => [](IInv /\ CallInv /\ TrueInv)
<1>1. Init => IInv /\ CallInv /\ TrueInv
  BY InitInvariant, InitCalls, InitTrue
<1>2. /\ IInv /\ CallInv /\ TrueInv /\ [Next]_vars /\ [EntriesFree]_vars /\ [InboundKept]_vars
      => IInv' /\ CallInv' /\ TrueInv'
  BY StepInvariant, CallsKept, TrueKept
<1> QED  BY <1>1, <1>2, PTL DEF Spec

(* What the bridge tells a client is the client's own answer or one of the *)
(* statuses 413, 502, 503 and 504.                                         *)
THEOREM MeshOwnAnswers == Spec /\ [][EntriesFree]_vars /\ [][InboundKept]_vars => []OwnAnswer
<1>1. TrueInv => OwnAnswer
  BY DEF TrueInv, TrueAnswer, OwnAnswer
<1> QED  BY <1>1, TrueInvariance, PTL

LEMMA TellsOnce ==
  ASSUME Shapes, TrueInv, NEW c \in Client, BridgeStep(c) \/ BridgeTimeout(c)
  PROVE  L!Next \/ UNCHANGED [b \in Client |-> bridge[b].answer]
<1> DEFINE given == [b \in Client |-> bridge[b].answer]
           told == [b \in Client |-> bridge'[b].answer]
<1>1. /\ \A b \in Client : b # c => bridge'[b] = bridge[b]
      /\ bridge[c].pc # "done"
      /\ \/ bridge'[c].answer = bridge[c].answer /\ bridge'[c].pc # "done"
         \/ /\ bridge'[c].pc = "done"
            /\ \/ bridge'[c].answer = L!Expected(c)
               \/ \E f \in {413, 502, 503, 504} : bridge'[c].answer = L!Says(f, L!NoBody)
  BY BridgeTells DEF TrueInv
<1>2. given[c] = Nil
  BY <1>1 DEF TrueInv, TrueAnswer
<1>3. CASE bridge'[c].answer = bridge[c].answer
  BY <1>1, <1>3
<1>4. ASSUME NEW a, bridge'[c].answer = a
      PROVE  L!Tell(c, a)
  <2>1. \A b \in Client : told[b] = IF b = c THEN a ELSE given[b]
    BY <1>1, <1>4
  <2>2. told = [given EXCEPT ![c] = a]
    BY <2>1
  <2> QED  BY <1>2, <2>2 DEF L!Tell
<1> QED  BY <1>1, <1>3, <1>4 DEF L!Next

(* Over DPUmesh the services keep the promise of Lookup, for every number  *)
(* of clients, workers and slots and whichever way messages are lost:      *)
(* handle_client tells each client once, its own answer or that the mesh   *)
(* has failed, as long as no entry of response_pipe_fds is overwritten     *)
(* that a call under way still needs and no entry of the inbound table     *)
(* that a call waits with.                                                 *)
THEOREM MeshKeepsPromise == Spec /\ [][EntriesFree]_vars /\ [][InboundKept]_vars => ImplementsLookup
<1>1. Init => L!Init
  BY DEF Init, SidecarInit, L!Init
<1>2. IInv /\ TrueInv /\ [Next]_vars => [L!Next]_([c \in Client |-> bridge[c].answer])
  <2> SUFFICES ASSUME IInv, TrueInv, [Next]_vars
               PROVE  [L!Next]_([c \in Client |-> bridge[c].answer])
    OBVIOUS
  <2>1. CASE bridge' = bridge
    BY <2>1
  <2>2. CASE SidecarStep /\ bridge' # bridge
    <3>1. PICK c \in Client : BridgeStep(c) \/ BridgeTimeout(c)
      BY <2>2 DEF SidecarStep, Arm, ArmGet, RouteRequest, RouteResponse, ArmPut, Cleanup, DeliverBody,
                  DeliverHeader, DeliverEvent
    <3> QED  BY <3>1, TellsOnce DEF IInv
  <2> QED
    BY <2>1, <2>2 DEF Next, HostOnly, DpaOnly, Rest, vars, sidecarVars
<1> QED  BY <1>1, <1>2, TrueInvariance, PTL DEF Spec, ImplementsLookup, L!Spec
=============================================================================
