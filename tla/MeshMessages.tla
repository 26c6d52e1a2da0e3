----------------------------- MODULE MeshMessages -----------------------------
(***************************************************************************)
(* What the messages in the buffers have to do with the threads that read  *)
(* them, for any number of workers, clients and slots.                     *)
(*                                                                         *)
(* HeaderFindsRoom: when the DPA daemon has copied the body of a message   *)
(* to its receiver, there is room for the header.  The receivers free a    *)
(* header before its body and the daemon allocates the body first, so      *)
(* every header in a receive pool goes with a body of its own in the body  *)
(* pool of the same service, also after both have been lost.  The          *)
(* inductive invariant is that there is such a map mate; the body that     *)
(* still waits for its header is the mate of none, so one header slot is   *)
(* free.                                                                   *)
(*                                                                         *)
(* EntriesArePopped: the bridge leaves no entries of clients it has        *)
(* answered.  The thread that delivers a response knows only the id in its *)
(* header; the inductive invariant is that no thread can read a header     *)
(* with the id of a client whose bridge thread has not sent its request.   *)
(***************************************************************************)
EXTENDS MeshProofs

RxHeaders == {r \in Ref : \E s \in Service : r.pool = <<s, "rx_header">>}
RxBodies == {r \in Ref : \E s \in Service : r.pool = <<s, "rx_body">>}
BodyPool(p) == <<p[1], "rx_body">>

RxRefs == RxHeaders \cup RxBodies
Taken == {r \in RxRefs : ReadSlot(r) # Free}

(* The receive buffers that are held together: <<header, body>>.           *)
Entries(q) == {q[i] : i \in DOMAIN q}
DescsAt(w) ==
  Entries(rx_sq[w]) \cup Entries(notify[w])
  \cup {r.desc : r \in delivered[w]} \cup ({poller[w].desc} \ {Nil})
PairOf(d) == <<d.header, d.body>>
PairIf(header, body) == IF body = Nil THEN {} ELSE {<<header, body>>}
MainPairs(w) == PairIf(main[w].rx_header, main[w].rx_body)
WorkerPairs(w) == {PairOf(d) : d \in DescsAt(w)} \cup MainPairs(w)
DpaPairs == PairIf(dpaRx.header, dpaRx.body)
RxPairs == DpaPairs \cup UNION {WorkerPairs(w) : w \in Worker}

(* The header whose body RxDrop has freed already, if there is one.        *)
Orphans == IF dpaRx.body = Nil THEN {dpaRx.header} \ {Nil} ELSE {}

(* T: the buffers taken, O: the orphans, P: the pairs that are held.       *)
Mated(T, O) == (T \cap RxHeaders) \ O
Mates(mate, T, O, P) ==
  /\ \A h \in Mated(T, O) : mate[h] \in T /\ mate[h].pool = BodyPool(h.pool)
  /\ \A g, h \in Mated(T, O) : mate[g] = mate[h] => g = h
  /\ \A p \in P : p[1] # Nil => mate[p[1]] = p[2]
  /\ \A p \in P : p[1] = Nil => \A h \in Mated(T, O) : mate[h] # p[2]

MateInv == \E mate : Mates(mate, Taken, Orphans, RxPairs)
CopiedHeader == dpaRx.header # Nil => dpaRx.header \in RxHeaders
ArmElsewhere == arm.desc # Nil => {arm.desc.header, arm.desc.body} \cap RxRefs = {}
-----------------------------------------------------------------------------
(* How the map changes when buffers are taken and freed.                   *)
LEMMA FewerPairs ==
  ASSUME NEW mate, NEW T, NEW O, NEW P, NEW P2, Mates(mate, T, O, P), P2 \subseteq P
  PROVE  Mates(mate, T, O, P2)
BY DEF Mates

LEMMA BodyTaken ==
  ASSUME NEW mate, NEW T, NEW O, NEW P, NEW P2, Mates(mate, T, O, P),
         NEW b, b \notin T, b \notin RxHeaders, P2 \subseteq P \cup {<<Nil, b>>}
  PROVE  Mates(mate, T \cup {b}, O, P2)
<1>1. Mated(T \cup {b}, O) = Mated(T, O)
  BY DEF Mated
<1>2. \A p \in P2 : p \in P \/ (p[1] = Nil /\ p[2] = b)
  OBVIOUS
<1>3. \A h \in Mated(T, O) : mate[h] # b
  BY DEF Mates
<1>4. \A p \in P2 : p[1] # Nil => mate[p[1]] = p[2]
  BY <1>2 DEF Mates
<1>5. \A p \in P2 : p[1] = Nil => \A h \in Mated(T, O) : mate[h] # p[2]
  BY <1>2, <1>3 DEF Mates
<1>6. \A h \in Mated(T, O) : mate[h] \in T \cup {b} /\ mate[h].pool = BodyPool(h.pool)
  BY DEF Mates
<1>7. \A g, h \in Mated(T, O) : mate[g] = mate[h] => g = h
  BY DEF Mates
<1> QED  BY <1>1, <1>4, <1>5, <1>6, <1>7 DEF Mates

LEMMA HeaderTaken ==
  ASSUME NEW mate, NEW T, NEW O, NEW P, NEW P2, Mates(mate, T, O, P),
         NEW h \in RxHeaders, h \notin T, h # Nil, NEW b \in T, b.pool = BodyPool(h.pool), <<Nil, b>> \in P,
         \A p \in P2 : \/ p = <<h, b>>
                       \/ p \in P /\ p[1] # h /\ p[2] # b
  PROVE  \E m : Mates(m, T \cup {h}, O \ {h}, P2)
<1> DEFINE m == [x \in RxHeaders \cup {q[1] : q \in P} |-> IF x = h THEN b ELSE mate[x]]
<1>1. m[h] = b
  OBVIOUS
<1>2. \A g \in RxHeaders : g # h => m[g] = mate[g]
  OBVIOUS
<1>3. \A p \in P : p[1] # h => m[p[1]] = mate[p[1]]
  OBVIOUS
<1> HIDE DEF m
<1>4. \A g \in Mated(T \cup {h}, O \ {h}) : g = h \/ (g \in Mated(T, O) /\ g # h)
  BY DEF Mated
<1>5. \A g \in Mated(T, O) : g \in RxHeaders /\ mate[g] \in T /\ mate[g].pool = BodyPool(g.pool) /\ mate[g] # b
  BY DEF Mates, Mated
<1>6. \A g \in Mated(T \cup {h}, O \ {h}) : m[g] \in T /\ m[g].pool = BodyPool(g.pool)
  BY <1>1, <1>2, <1>4, <1>5
<1>7. \A f, g \in Mated(T \cup {h}, O \ {h}) : m[f] = m[g] => f = g
  <2> TAKE f, g \in Mated(T \cup {h}, O \ {h})
  <2>1. f # h /\ g # h => (mate[f] = mate[g] => f = g) /\ m[f] = mate[f] /\ m[g] = mate[g]
    BY <1>2, <1>4, <1>5 DEF Mates
  <2>2. \A k \in Mated(T \cup {h}, O \ {h}) : k # h => m[k] # b
    BY <1>2, <1>4, <1>5
  <2> QED  BY <1>1, <2>1, <2>2
<1>8. \A p \in P2 : p[1] # Nil => m[p[1]] = p[2]
  BY <1>1, <1>3 DEF Mates
<1>9. \A p \in P2 : p[1] = Nil => \A g \in Mated(T \cup {h}, O \ {h}) : m[g] # p[2]
  <2> SUFFICES ASSUME NEW p \in P2, p[1] = Nil, NEW g \in Mated(T \cup {h}, O \ {h})
               PROVE  m[g] # p[2]
    OBVIOUS
  <2>1. p \in P /\ p[2] # b
    OBVIOUS
  <2>2. g # h => mate[g] # p[2] /\ m[g] = mate[g]
    BY <1>2, <1>4, <1>5, <2>1 DEF Mates
  <2> QED  BY <1>1, <2>1, <2>2
<1>10. Mates(m, T \cup {h}, O \ {h}, P2)
  BY <1>6, <1>7, <1>8, <1>9 DEF Mates
<1> QED  BY <1>10

LEMMA BodyFreed ==
  ASSUME NEW mate, NEW T, NEW O, NEW P, NEW P2, Mates(mate, T, O, P), NEW h, NEW b, <<h, b>> \in P,
         h # Nil => h \in Mated(T, O), P2 \subseteq P
  PROVE  Mates(mate, T \ {b}, O \cup ({h} \ {Nil}), P2)
<1>1. \A g \in Mated(T \ {b}, O \cup ({h} \ {Nil})) : g \in Mated(T, O) /\ (h # Nil => g # h)
  BY DEF Mated
<1>2. \A g \in Mated(T \ {b}, O \cup ({h} \ {Nil})) : mate[g] # b
  <2>1. h # Nil => mate[h] = b
    BY DEF Mates
  <2>2. h = Nil => \A g \in Mated(T, O) : mate[g] # b
    BY DEF Mates
  <2> QED  BY <1>1, <2>1, <2>2 DEF Mates
<1> QED  BY <1>1, <1>2 DEF Mates

LEMMA HeaderFreed ==
  ASSUME NEW mate, NEW T, NEW O, NEW P, NEW P2, Mates(mate, T, O, P), NEW h \in RxHeaders, NEW b,
         \/ P2 \subseteq P
         \/ /\ <<h, b>> \in P /\ h # Nil /\ h \in Mated(T, O) /\ P2 \subseteq P \cup {<<Nil, b>>}
  PROVE  Mates(mate, T \ {h}, O \ {h}, P2)
<1>1. \A g \in Mated(T \ {h}, O \ {h}) : g \in Mated(T, O) /\ g # h
  BY DEF Mated
<1>2. \A g \in Mated(T, O) : mate[g] \in T /\ mate[g].pool = BodyPool(g.pool) /\ mate[g] # h
  BY DEF Mates, RxHeaders, BodyPool
<1>3. \A p \in P2 : p \in P \/ (p[1] = Nil /\ p[2] = b /\ mate[h] = b /\ h \in Mated(T, O))
  BY DEF Mates
<1>4. \A f, g \in Mated(T, O) : mate[f] = mate[g] => f = g
  BY DEF Mates
<1>5. \A p \in P2 : p[1] # Nil => mate[p[1]] = p[2]
  BY <1>3 DEF Mates
<1>6. \A p \in P2 : p[1] = Nil => \A g \in Mated(T \ {h}, O \ {h}) : mate[g] # p[2]
  <2>1. \A p \in P : p[1] = Nil => \A g \in Mated(T, O) : mate[g] # p[2]
    BY DEF Mates
  <2> QED  BY <1>1, <1>3, <1>4, <2>1
<1>7. \A g \in Mated(T \ {h}, O \ {h}) : mate[g] \in T \ {h} /\ mate[g].pool = BodyPool(g.pool)
  BY <1>1, <1>2
<1>8. \A f, g \in Mated(T \ {h}, O \ {h}) : mate[f] = mate[g] => f = g
  BY <1>1, <1>4
<1> QED  BY <1>5, <1>6, <1>7, <1>8 DEF Mates
-----------------------------------------------------------------------------
(* What the pairs consist of: buffers that are allocated, in receive pools *)
(* of one service.                                                         *)
LEMMA DescsAre ==
  ASSUME Shapes, NEW own, OwnInv(own), NEW w \in Worker, NEW d \in DescsAt(w)
  PROVE  /\ d \in ReceivedDesc(w) /\ d # Nil
         /\ \E x \in {"rx_sq", "notify", "pipe", "poller"} : Carries(own, <<x, w>>, d)
<1>1. CASE \E i \in DOMAIN rx_sq[w] : d = rx_sq[w][i]
  <2>1. rx_sq[w] \in Seq(ReceivedDesc(w)) /\ ReceivedDesc(w) \subseteq Descriptor
    BY QueuedDescs
  <2>2. Holds(own, <<"rx_sq", w>>, rx_sq[w])
    BY OfWorker
  <2> QED  BY <1>1, <2>1, <2>2, DataAssumption DEF Holds
<1>2. CASE \E i \in DOMAIN notify[w] : d = notify[w][i]
  <2>1. notify[w] \in Seq({e \in ReceivedDesc(w) : e.op = "req"}) /\ ReceivedDesc(w) \subseteq Descriptor
    BY HostAtIs, QueuedDescs DEF HostAt
  <2>2. Holds(own, <<"notify", w>>, notify[w])
    BY OfWorker
  <2> QED  BY <1>2, <2>1, <2>2, DataAssumption, SMTT(30) DEF Holds
<1>3. CASE \E r \in delivered[w] : d = r.desc
  <2>1. delivered[w] \subseteq Delivered(w) /\ ReceivedDesc(w) \subseteq Descriptor
    BY HostAtIs, QueuedDescs DEF HostAt
  <2>2. Pipes(own, <<"pipe", w>>, delivered[w])
    BY OfWorker
  <2> QED  BY <1>3, <2>1, <2>2, DataAssumption DEF Pipes, Delivered
<1>4. CASE d = poller[w].desc /\ d # Nil
  <2>1. PollerShape(w, poller[w]) /\ ReceivedDesc(w) \subseteq Descriptor
    BY HostAtIs, QueuedDescs DEF HostAt
  <2>2. Carries(own, <<"poller", w>>, poller[w].desc)
    BY OfWorker
  <2> QED  BY <1>4, <2>1, <2>2 DEF PollerShape
<1> QED  BY <1>1, <1>2, <1>3, <1>4 DEF DescsAt, Entries

LEMMA InRxPool ==
  ASSUME NEW w \in Worker, NEW r \in Ref
  PROVE  /\ r.pool = HostPool(w, "rx_header") =>
              r \in RxHeaders /\ BodyPool(r.pool) = HostPool(w, "rx_body")
         /\ r.pool = HostPool(w, "rx_body") => r \in RxBodies
<1>1. ServiceOf[w] \in Service
  BY ShmAssumption
<1> QED  BY <1>1 DEF RxHeaders, RxBodies, HostPool, BodyPool

(* A pair of service s whose buffers belong to part.                       *)
GoodPair(own, part, w, p) ==
  /\ p[2] \in Ref /\ p[2].pool = HostPool(w, "rx_body") /\ own[p[2]].part = part
  /\ p[1] # Nil => p[1] \in Ref /\ p[1].pool = HostPool(w, "rx_header") /\ own[p[1]].part = part
  /\ ReadSlot(p[2]) # Free /\ (p[1] # Nil => ReadSlot(p[1]) # Free)

LEMMA Good ==
  ASSUME NEW own, OwnInv(own), NEW part, NEW w, NEW header, NEW body, body # Nil,
         HasHeader(own, part, header), HasAny(own, part, body),
         body.pool = HostPool(w, "rx_body"), header # Nil => header.pool = HostPool(w, "rx_header")
  PROVE  GoodPair(own, part, w, <<header, body>>)
<1>1. body \in Ref /\ own[body].part = part /\ own[body].use \in {"message", "body"}
  BY OwnsIs
<1>2. header # Nil => header \in Ref /\ own[header].part = part /\ own[header].use = "header"
  BY OwnsIs
<1>3. ReadSlot(body) # Free /\ (header # Nil => ReadSlot(header) # Free)
  BY <1>1, <1>2, DataAssumption DEF OwnInv, Memory, ReadSlot
<1> QED  BY <1>1, <1>2, <1>3 DEF GoodPair

LEMMA WorkerPairsAre ==
  ASSUME Shapes, NEW own, OwnInv(own), NEW w \in Worker, NEW p \in WorkerPairs(w)
  PROVE  \E x \in {"rx_sq", "notify", "pipe", "poller", "main rx"} : GoodPair(own, <<x, w>>, w, p)
<1>1. CASE \E d \in DescsAt(w) : p = PairOf(d)
  <2>1. PICK d \in DescsAt(w) : p = PairOf(d)
    BY <1>1
  <2>2. d \in ReceivedDesc(w) /\ d # Nil
    BY DescsAre
  <2>3. PICK x \in {"rx_sq", "notify", "pipe", "poller"} : Carries(own, <<x, w>>, d)
    BY DescsAre
  <2>4. /\ d.body # Nil /\ d.body.pool = HostPool(w, "rx_body")
        /\ d.header # Nil => d.header.pool = HostPool(w, "rx_header")
    BY <2>2, DataAssumption DEF ReceivedDesc
  <2>5. HasHeader(own, <<x, w>>, d.header) /\ HasBody(own, <<x, w>>, BodyAs(d), d.body)
    BY <2>2, <2>3 DEF Carries
  <2>6. HasAny(own, <<x, w>>, d.body)
    BY <2>5, BodyIsAny DEF BodyAs
  <2>7. GoodPair(own, <<x, w>>, w, <<d.header, d.body>>)
    BY <2>4, <2>5, <2>6, Good
  <2> QED  BY <2>1, <2>7 DEF PairOf
<1>2. CASE p = <<main[w].rx_header, main[w].rx_body>> /\ main[w].rx_body # Nil
  <2>1. /\ main[w].rx_body.pool = HostPool(w, "rx_body")
        /\ main[w].rx_header # Nil => main[w].rx_header.pool = HostPool(w, "rx_header")
    BY <1>2, MainIs DEF MainShape
  <2>2. HasHeader(own, <<"main rx", w>>, main[w].rx_header) /\ HasAny(own, <<"main rx", w>>, main[w].rx_body)
    BY OfWorker
  <2>3. GoodPair(own, <<"main rx", w>>, w, <<main[w].rx_header, main[w].rx_body>>)
    BY <1>2, <2>1, <2>2, Good
  <2> QED  BY <1>2, <2>3
<1> QED  BY <1>1, <1>2 DEF WorkerPairs, MainPairs, PairIf
-----------------------------------------------------------------------------
(* Memory: which receive buffers are taken after a step.                   *)
LEMMA TakenFreed ==
  ASSUME Shapes, NEW r \in Ref, FreeSlot(r)
  PROVE  Taken' = Taken \ {r}
<1>1. r.pool \in Pool /\ r.slot \in Slot
  BY DEF Ref
<1>2. ASSUME NEW x \in Ref
      PROVE  /\ x # r => ReadSlot(x)' = ReadSlot(x)
             /\ x = r => ReadSlot(x)' = Free
  <2>1. x.pool \in Pool /\ x.slot \in Slot /\ (x # r => ~(x.pool = r.pool /\ x.slot = r.slot))
    BY DEF Ref
  <2> QED  BY <1>1, <2>1 DEF FreeSlot, Shapes, ReadSlot
<1>3. \A x \in RxRefs : x \in Ref
  BY DEF RxRefs, RxHeaders, RxBodies
<1> QED  BY <1>2, <1>3 DEF Taken

LEMMA TakenAlloc ==
  ASSUME Shapes, NEW own, OwnInv(own), NEW p \in Pool, ~Full(p), NEW x, x # Free, AllocWrite(p, x)
  PROVE  /\ NewRef(p) \in Ref /\ NewRef(p).pool = p /\ NewRef(p) \notin Taken
         /\ NewRef(p) \in RxRefs => Taken' = Taken \cup {NewRef(p)}
         /\ NewRef(p) \notin RxRefs => Taken' = Taken
<1>1. /\ NewRef(p) \in Ref /\ NewRef(p).pool = p /\ NewRef(p).slot = FirstFree(p)
      /\ FirstFree(p) \in Slot
  BY Fresh
<1>2. ReadSlot(NewRef(p)) = Free
  <2> DEFINE S == {s \in Slot : mem[p][s] = Free}
  <2>1. S \subseteq Nat /\ S # {}
    BY ShmAssumption DEF Full, Slot
  <2>2. PICK s \in S : \A t \in S : s <= t
    BY <2>1, Least
  <2>3. s \in Slot /\ mem[p][s] = Free /\ \A t \in Slot : t < s => mem[p][t] # Free
    BY <2>2, ShmAssumption DEF Slot
  <2>4. mem[p][FirstFree(p)] = Free
    BY <2>3 DEF FirstFree
  <2> QED  BY <1>1, <2>4 DEF ReadSlot
<1>3. PICK n : n = NewRef(p)
  OBVIOUS
<1>4. ASSUME NEW r \in Ref
      PROVE  /\ r # n => ReadSlot(r)' = ReadSlot(r)
             /\ r = n => ReadSlot(r)' = x
  <2>1. r.pool \in Pool /\ r.slot \in Slot /\ (r # n => ~(r.pool = p /\ r.slot = FirstFree(p)))
    BY <1>1, <1>3 DEF Ref
  <2> QED  BY <1>1, <1>3, <2>1 DEF AllocWrite, Shapes, ReadSlot
<1>5. \A r \in RxRefs : r \in Ref
  BY DEF RxRefs, RxHeaders, RxBodies
<1>6. n \notin Taken
  BY <1>2, <1>3 DEF Taken
<1>7. n \in RxRefs => Taken' = Taken \cup {n}
  BY <1>4, <1>5 DEF Taken
<1>8. n \notin RxRefs => Taken' = Taken
  BY <1>4, <1>5 DEF Taken
<1> QED  BY <1>1, <1>3, <1>6, <1>7, <1>8

LEMMA OutsideRx ==
  ASSUME NEW r \in Ref,
         \/ r.pool \in {DpuTxHeader, DpuRxBody}
         \/ \E w : \E k \in {"tx_header", "tx_body"} : r.pool = HostPool(w, k)
         \/ \E s : r.pool = <<s, "tx_body">>
  PROVE  r \notin RxRefs
BY DEF RxRefs, RxHeaders, RxBodies, DpuTxHeader, DpuRxBody, HostPool, Service

LEMMA HeadersAndBodies == RxHeaders \cap RxBodies = {}
BY DEF RxHeaders, RxBodies
-----------------------------------------------------------------------------
(* Steps that hold no pair they did not hold before.                       *)
LEMMA Quiet ==
  ASSUME MateInv, Taken' = Taken, DpaPairs' \subseteq DpaPairs, Orphans' = Orphans,
         \A w \in Worker : WorkerPairs(w)' \subseteq WorkerPairs(w)
  PROVE  MateInv'
<1>1. PICK mate : Mates(mate, Taken, Orphans, RxPairs)
  BY DEF MateInv
<1>2. RxPairs' \subseteq RxPairs
  BY DEF RxPairs
<1>3. PICK T, O, P, P2 : T = Taken /\ O = Orphans /\ P = RxPairs /\ P2 = RxPairs'
  OBVIOUS
<1>4. Mates(mate, T, O, P2)
  BY <1>1, <1>2, <1>3, FewerPairs
<1>5. Mates(mate, Taken, Orphans, RxPairs)'
  <2>1. Taken' = T /\ Orphans' = O /\ RxPairs' = P2
    BY <1>3
  <2> QED  BY <1>4, <2>1 DEF Mates, Mated
<1> QED  BY <1>5 DEF MateInv

LEMMA WorkersSame ==
  ASSUME UNCHANGED <<rx_sq, hostVars>>, NEW w \in Worker
  PROVE  WorkerPairs(w)' = WorkerPairs(w)
BY DEF WorkerPairs, DescsAt, MainPairs, hostVars, pipes

LEMMA DpaSame ==
  ASSUME dpaRx' = dpaRx
  PROVE  DpaPairs' = DpaPairs /\ Orphans' = Orphans
BY DEF DpaPairs, Orphans

LEMMA OtherWorkers ==
  ASSUME NEW w \in Worker, NEW v \in Worker, v # w,
         rx_sq'[v] = rx_sq[v], notify'[v] = notify[v], delivered'[v] = delivered[v],
         poller'[v] = poller[v], main'[v] = main[v]
  PROVE  WorkerPairs(v)' = WorkerPairs(v)
BY DEF WorkerPairs, DescsAt, MainPairs

LEMMA FirstAndRest ==
  ASSUME NEW D, NEW q \in Seq(D), q # << >>
  PROVE  Head(q) \in Entries(q) /\ Entries(Tail(q)) \subseteq Entries(q)
BY DEF Entries

LEMMA Appended ==
  ASSUME NEW D, NEW q \in Seq(D), NEW d \in D
  PROVE  Entries(Append(q, d)) = Entries(q) \cup {d}
<1>1. DOMAIN Append(q, d) = 1..(Len(q) + 1) /\ DOMAIN q = 1..Len(q) /\ Len(q) \in Nat
  OBVIOUS
<1>2. /\ \A i \in 1..Len(q) : Append(q, d)[i] = q[i]
      /\ Append(q, d)[Len(q) + 1] = d
  OBVIOUS
<1> QED  BY <1>1, <1>2 DEF Entries
-----------------------------------------------------------------------------
(* The workers.                                                            *)
LEMMA FewerDescs ==
  ASSUME NEW w \in Worker, DescsAt(w)' \subseteq DescsAt(w), MainPairs(w)' \subseteq WorkerPairs(w)
  PROVE  WorkerPairs(w)' \subseteq WorkerPairs(w)
BY DEF WorkerPairs, PairOf

LEMMA PollerMates ==
  ASSUME Shapes, MateInv, NEW w \in Worker, Poller(w), HostOnly
  PROVE  MateInv'
<1>1. mem' = mem /\ dpaRx' = dpaRx /\ main' = main
  BY DEF HostOnly, dpaVars, Poller, PollerGet, PollerNotify, PollerDeliver, PollerDrop, PollerClose, shmVars
<1>2. Taken' = Taken
  BY <1>1 DEF Taken, ReadSlot
<1>3. DOMAIN rx_sq = Worker /\ DOMAIN notify = Worker /\ DOMAIN delivered = Worker /\ DOMAIN poller = Worker
  BY QueuedDescs, HostAtIs
<1>4. ASSUME NEW v \in Worker, v # w
      PROVE  WorkerPairs(v)' \subseteq WorkerPairs(v)
  <2>1. /\ rx_sq'[v] = rx_sq[v] /\ notify'[v] = notify[v] /\ delivered'[v] = delivered[v]
        /\ poller'[v] = poller[v]
    BY <1>3, <1>4 DEF Poller, PollerGet, PollerNotify, PollerDeliver, PollerDrop, PollerClose, shmVars, sqs, pipes
  <2> QED  BY <1>1, <1>4, <2>1, OtherWorkers
<1>5. DescsAt(w)' \subseteq DescsAt(w)
  <2>1. CASE PollerGet(w)
    <3>1. rx_sq[w] \in Seq(ReceivedDesc(w)) /\ rx_sq[w] # << >> /\ rx_sq'[w] = Tail(rx_sq[w])
      BY <1>3, <2>1, QueuedDescs DEF PollerGet
    <3>2. Head(rx_sq[w]) \in Entries(rx_sq[w]) /\ Entries(rx_sq'[w]) \subseteq Entries(rx_sq[w])
      BY <3>1, FirstAndRest
    <3>3. poller'[w].desc = Head(rx_sq[w]) /\ UNCHANGED <<notify, delivered>>
      BY <1>3, <2>1 DEF PollerGet, pipes
    <3> QED  BY <3>2, <3>3 DEF DescsAt
  <2>2. CASE PollerNotify(w)
    <3> DEFINE D == {e \in ReceivedDesc(w) : e.op = "req"}
    <3>1. poller[w].desc \in D /\ notify[w] \in Seq(D) /\ poller[w].desc # Nil
      BY <2>2, HostAtIs, QueuedDescs, DataAssumption DEF HostAt, PollerShape, PollerNotify
    <3>2. Entries(notify'[w]) \subseteq Entries(notify[w]) \cup {poller[w].desc}
      <4>1. notify'[w] = IF Len(notify[w]) < PipeCap THEN Append(notify[w], poller[w].desc) ELSE notify[w]
        BY <1>3, <2>2 DEF PollerNotify
      <4> HIDE DEF D
      <4> QED  BY <3>1, <4>1, Appended
    <3>3. poller'[w].desc = Nil /\ UNCHANGED <<rx_sq, delivered>>
      BY <1>3, <2>2 DEF PollerNotify, IdlePoller, shmVars, sqs
    <3> QED  BY <3>1, <3>2, <3>3 DEF DescsAt
  <2>3. CASE PollerDeliver(w)
    <3>1. poller[w].desc # Nil
      BY <2>3, HostAtIs, QueuedDescs, DataAssumption DEF HostAt, PollerShape, PollerDeliver
    <3>2. \A r \in delivered'[w] : r \in delivered[w] \/ r.desc = poller[w].desc
      BY <1>3, <2>3 DEF PollerDeliver
    <3>3. poller'[w].desc = Nil /\ UNCHANGED <<rx_sq, notify>>
      BY <1>3, <2>3 DEF PollerDeliver, shmVars, sqs
    <3> QED  BY <3>1, <3>2, <3>3 DEF DescsAt
  <2>4. CASE PollerDrop(w) \/ PollerClose(w)
    <3>1. poller'[w].desc = Nil /\ UNCHANGED <<rx_sq, notify, delivered>>
      BY <1>3, <2>4 DEF PollerDrop, PollerClose, IdlePoller, shmVars, sqs, pipes
    <3> QED  BY <3>1 DEF DescsAt
  <2> QED  BY <2>1, <2>2, <2>3, <2>4 DEF Poller
<1>6. MainPairs(w)' \subseteq WorkerPairs(w)
  BY <1>1 DEF MainPairs, WorkerPairs
<1>7. \A v \in Worker : WorkerPairs(v)' \subseteq WorkerPairs(v)
  BY <1>4, <1>5, <1>6, FewerDescs
<1> QED  BY <1>1, <1>2, <1>7, DpaSame, Quiet

(* The main thread of w has moved; its receive buffers were its own or     *)
(* came with a descriptor.                                                 *)
LEMMA MainQuiet ==
  ASSUME Shapes, MateInv, NEW w \in Worker, HostOnly, Taken' = Taken, rx_sq' = rx_sq, poller' = poller,
         \A v \in Worker : v # w =>
           main'[v] = main[v] /\ notify'[v] = notify[v] /\ delivered'[v] = delivered[v],
         DescsAt(w)' \subseteq DescsAt(w), MainPairs(w)' \subseteq WorkerPairs(w)
  PROVE  MateInv'
<1>1. dpaRx' = dpaRx
  BY DEF HostOnly, dpaVars
<1>2. \A v \in Worker : v # w => WorkerPairs(v)' \subseteq WorkerPairs(v)
  BY OtherWorkers
<1>3. \A v \in Worker : WorkerPairs(v)' \subseteq WorkerPairs(v)
  BY <1>2, FewerDescs
<1> QED  BY <1>1, <1>3, DpaSame, Quiet

LEMMA OnRequestMates ==
  ASSUME Shapes, MateInv, NEW w \in Worker, OnRequest(w), HostOnly
  PROVE  MateInv'
<1>1. DOMAIN main = Worker /\ DOMAIN notify = Worker
  BY HostAtIs
<1>2. mem' = mem /\ rx_sq' = rx_sq /\ poller' = poller /\ delivered' = delivered
  BY DEF OnRequest, shmVars, sqs
<1>3. Taken' = Taken
  BY <1>2 DEF Taken, ReadSlot
<1> DEFINE D == {e \in ReceivedDesc(w) : e.op = "req"}
           d == Head(notify[w])
<1>4. notify[w] \in Seq(D) /\ notify[w] # << >> /\ notify'[w] = Tail(notify[w])
  BY <1>1, HostAtIs DEF HostAt, OnRequest
<1>5. d \in D /\ d \in Entries(notify[w]) /\ Entries(notify'[w]) \subseteq Entries(notify[w])
  <2> HIDE DEF D
  <2> QED  BY <1>4, FirstAndRest, Pop
<1>6. /\ main'[w].rx_header = d.header /\ main'[w].rx_body = d.body
      /\ \A v \in Worker : v # w => main'[v] = main[v] /\ notify'[v] = notify[v]
  <2> DEFINE m == [IdleMain EXCEPT !.rx_header = d.header, !.rx_body = d.body]
  <2>1. PICK idx, ib, out : StartRespond(w, m, idx, ib, out) \/ StartCall(w, m, idx, out)
    BY DEF OnRequest
  <2>2. m \in MainState
    BY <1>5, IdleMainIs, QueuedDescs DEF Descriptor
  <2>3. m.rx_header = d.header /\ m.rx_body = d.body
    BY DEF IdleMain
  <2>4. /\ main'[w].rx_header = m.rx_header /\ main'[w].rx_body = m.rx_body
        /\ \A v \in Worker : v # w => main'[v] = main[v]
    <3> HIDE DEF m
    <3> QED  BY <1>1, <2>1, <2>2, Starts
  <2>5. \A v \in Worker : v # w => notify'[v] = notify[v]
    BY <1>1 DEF OnRequest
  <2> QED  BY <2>3, <2>4, <2>5
<1>7. DescsAt(w)' \subseteq DescsAt(w) /\ Head(notify[w]) \in DescsAt(w)
  BY <1>2, <1>5 DEF DescsAt
<1>8. MainPairs(w)' \subseteq WorkerPairs(w)
  BY <1>6, <1>7 DEF MainPairs, PairIf, WorkerPairs, PairOf
<1> QED  BY <1>2, <1>3, <1>6, <1>7, <1>8, MainQuiet

LEMMA OnResponseMates ==
  ASSUME Shapes, MateInv, NEW w \in Worker, OnResponse(w), HostOnly
  PROVE  MateInv'
<1>1. DOMAIN main = Worker /\ DOMAIN delivered = Worker
  BY HostAtIs
<1>2. mem' = mem /\ rx_sq' = rx_sq /\ poller' = poller /\ notify' = notify
  BY DEF OnResponse, shmVars, sqs
<1>3. Taken' = Taken
  BY <1>2 DEF Taken, ReadSlot
<1>4. PICK r \in delivered[w] :
        /\ delivered' = [delivered EXCEPT ![w] = @ \ {r}]
        /\ main'[w].rx_header = r.desc.header /\ main'[w].rx_body = r.desc.body
        /\ \A v \in Worker : v # w => main'[v] = main[v]
  BY <1>1, ZenonT(30) DEF OnResponse, IdleMain
<1>5. DescsAt(w)' \subseteq DescsAt(w) /\ r.desc \in DescsAt(w)
  BY <1>1, <1>2, <1>4 DEF DescsAt
<1>6. MainPairs(w)' \subseteq WorkerPairs(w)
  BY <1>4, <1>5 DEF MainPairs, PairIf, WorkerPairs, PairOf
<1>7. \A v \in Worker : v # w => main'[v] = main[v] /\ notify'[v] = notify[v] /\ delivered'[v] = delivered[v]
  BY <1>1, <1>2, <1>4
<1> QED  BY <1>2, <1>3, <1>5, <1>6, <1>7, MainQuiet

(* Steps of the main thread that keep its receive buffers, if it has any.  *)
LEMMA MainKeeps ==
  ASSUME Shapes, MateInv, NEW w \in Worker, HostOnly, Taken' = Taken, rx_sq' = rx_sq, poller' = poller,
         notify' = notify, delivered' = delivered,
         \A v \in Worker : v # w => main'[v] = main[v],
         main'[w].rx_body \in {main[w].rx_body, Nil},
         main'[w].rx_body # Nil => main'[w].rx_header = main[w].rx_header
  PROVE  MateInv'
<1>1. DescsAt(w)' \subseteq DescsAt(w)
  BY DEF DescsAt
<1>2. MainPairs(w)' \subseteq WorkerPairs(w)
  BY DEF MainPairs, PairIf, WorkerPairs
<1> QED  BY <1>1, <1>2, MainQuiet

LEMMA AfterHandlerKeepsRx ==
  ASSUME NEW m
  PROVE  /\ AfterHandler(m).rx_body = m.rx_body
         /\ m.rx_body # Nil => AfterHandler(m).rx_header = m.rx_header
         /\ AfterHandler(m) \in MainState => [AfterHandler(m) EXCEPT !.pc = "header"] \in MainState
         /\ [AfterHandler(m) EXCEPT !.pc = "header"].rx_body = m.rx_body
         /\ m.rx_body # Nil => [AfterHandler(m) EXCEPT !.pc = "header"].rx_header = m.rx_header
<1>1. CASE m.rx_body = Nil
  BY <1>1 DEF AfterHandler, IdleMain, MainState
<1>2. CASE m.rx_body # Nil
  BY <1>2 DEF AfterHandler, IdleMain, MainState
<1> QED  BY <1>1, <1>2

LEMMA WriteMates ==
  ASSUME Shapes, NEW own, OwnInv(own), MateInv, NEW w \in Worker,
         WriteHeader(w) \/ WriteBody(w) \/ UndoHeader(w) \/ UndoBody(w), HostOnly
  PROVE  MateInv'
<1>1. /\ MainShape(w, main[w]) /\ DOMAIN main = Worker /\ main[w] \in MainState
  BY MainIs
<1>2. /\ rx_sq' = rx_sq /\ poller' = poller /\ notify' = notify /\ delivered' = delivered
      /\ \A v \in Worker : v # w => main'[v] = main[v]
      /\ main'[w].rx_body = main[w].rx_body /\ main'[w].rx_header = main[w].rx_header
  BY <1>1 DEF WriteHeader, WriteBody, UndoHeader, UndoBody, sqs, pipes, MainState
<1>3. Taken' = Taken
  <2>1. CASE mem' = mem
    BY <2>1 DEF Taken, ReadSlot
  <2>2. ASSUME NEW k \in {"tx_header", "tx_body"}, NEW x, x # Free, ~Full(HostPool(w, k)),
               AllocWrite(HostPool(w, k), x)
        PROVE  Taken' = Taken
    <3>1. HostPool(w, k) \in Pool
      BY HostPools DEF Kind
    <3>2. PICK p : p = HostPool(w, k)
      OBVIOUS
    <3>3. NewRef(p) \in Ref /\ NewRef(p).pool = p /\ (NewRef(p) \notin RxRefs => Taken' = Taken)
      BY <2>2, <3>1, <3>2, TakenAlloc
    <3>4. NewRef(p) \notin RxRefs
      BY <3>2, <3>3, OutsideRx
    <3> QED  BY <3>3, <3>4
  <2>3. CASE WriteHeader(w)
    <3>1. main[w].msg.header # Free
      BY <1>1, <2>3, DataAssumption DEF WriteHeader, MainShape, WritePc, Message
    <3> QED  BY <2>1, <2>2, <2>3, <3>1 DEF WriteHeader
  <2>4. CASE WriteBody(w)
    <3>1. main[w].msg.body # Free
      BY <1>1, <2>4, DataAssumption DEF WriteBody, MainShape, WritePc, Message
    <3> QED  BY <2>1, <2>2, <2>4, <3>1 DEF WriteBody
  <2>5. ASSUME NEW r \in Ref, FreeSlot(r), \E k \in {"tx_header", "tx_body"} : r.pool = HostPool(w, k)
        PROVE  Taken' = Taken
    <3>1. r \notin RxRefs
      BY <2>5, OutsideRx
    <3>2. Taken' = Taken \ {r}
      BY <2>5, TakenFreed
    <3> QED  BY <3>1, <3>2 DEF Taken
  <2>6. CASE UndoHeader(w)
    <3>1. /\ main[w].tx_header \in Ref /\ main[w].tx_header.pool = HostPool(w, "tx_header")
          /\ FreeSlot(main[w].tx_header)
      BY <1>1, <2>6 DEF UndoHeader, MainShape, MainState, OptRef
    <3> QED  BY <2>5, <3>1
  <2>7. CASE UndoBody(w)
    <3>1. /\ main[w].tx_body \in Ref /\ main[w].tx_body.pool = HostPool(w, "tx_body")
          /\ FreeSlot(main[w].tx_body)
      BY <1>1, <2>7 DEF UndoBody, MainShape, MainState, OptRef
    <3> QED  BY <2>5, <3>1
  <2> QED  BY <2>3, <2>4, <2>6, <2>7
<1> QED  BY <1>2, <1>3, MainKeeps

LEMMA EnqueueMates ==
  ASSUME Shapes, MateInv, NEW w \in Worker, Enqueue(w), HostOnly
  PROVE  MateInv'
<1>1. main[w] \in MainState /\ DOMAIN main = Worker
  BY MainIs
<1>2. /\ rx_sq' = rx_sq /\ poller' = poller /\ notify' = notify /\ delivered' = delivered /\ mem' = mem
  BY DEF Enqueue
<1>3. /\ \A v \in Worker : v # w => main'[v] = main[v]
      /\ main'[w] = AfterHandler(main[w]) \/ main'[w] = [main[w] EXCEPT !.pc = "undo"]
  BY <1>1 DEF Enqueue
<1>4. /\ main'[w].rx_body = main[w].rx_body
      /\ main'[w].rx_body # Nil => main'[w].rx_header = main[w].rx_header
  <2>1. CASE main'[w] = AfterHandler(main[w])
    BY <2>1, AfterHandlerKeepsRx
  <2>2. CASE main'[w] = [main[w] EXCEPT !.pc = "undo"]
    BY <1>1, <2>2 DEF MainState
  <2> QED  BY <1>3, <2>1, <2>2
<1>5. Taken' = Taken
  BY <1>2 DEF Taken, ReadSlot
<1> QED  BY <1>2, <1>3, <1>4, <1>5, MainKeeps

LEMMA HandlerMates ==
  ASSUME Shapes, MateInv, NEW w \in Worker, Upstream(w) \/ WriteFailed(w), HostOnly
  PROVE  MateInv'
<1>1. main[w] \in MainState /\ DOMAIN main = Worker
  BY MainIs
<1>2. /\ rx_sq' = rx_sq /\ poller' = poller /\ notify' = notify /\ delivered' = delivered /\ mem' = mem
  BY DEF Upstream, WriteFailed, pipes, shmVars, sqs
<1>3. /\ \A v \in Worker : v # w => main'[v] = main[v]
      /\ main'[w].rx_body \in {main[w].rx_body, Nil}
      /\ main'[w].rx_body # Nil => main'[w].rx_header = main[w].rx_header
  <2>1. CASE Upstream(w)
    <3>1. PICK idx, ib, out : StartRespond(w, IdleMain, idx, ib, out) \/ StartCall(w, IdleMain, idx, out)
      BY <2>1 DEF Upstream
    <3>2. IdleMain \in MainState /\ IdleMain.rx_body = Nil
      BY IdleMainIs DEF OptRef, IdleMain
    <3> QED  BY <1>1, <3>1, <3>2, Starts
  <2>2. CASE WriteFailed(w)
    <3> DEFINE m == main[w]
               clean == [AfterHandler(m) EXCEPT !.pc = "header"]
    <3>1. CASE m.msg.op = "req"
      <4>1. PICK idx, ib, out : StartRespond(w, clean, idx, ib, out)
        BY <2>2, <3>1 DEF WriteFailed
      <4>2. AfterHandler(m) \in MainState
        <5>1. m.rx_header \in OptRef /\ m.rx_body \in OptRef
          BY <1>1 DEF MainState
        <5>2. IdleMain \in MainState
          BY <5>1, IdleMainIs
        <5>3. CASE m.rx_body = Nil
          BY <5>2, <5>3 DEF AfterHandler
        <5>4. CASE m.rx_body # Nil
          BY <5>1, <5>2, <5>4 DEF AfterHandler, MainState
        <5> QED  BY <5>3, <5>4
      <4>3. clean \in MainState /\ clean.rx_body = m.rx_body /\ (m.rx_body # Nil => clean.rx_header = m.rx_header)
        BY <4>2, AfterHandlerKeepsRx
      <4> HIDE DEF clean
      <4> QED  BY <1>1, <4>1, <4>3, Starts
    <3>2. CASE m.msg.op = "resp"
      BY <1>1, <2>2, <3>2, AfterHandlerKeepsRx DEF WriteFailed
    <3> QED  BY <2>2, <3>1, <3>2 DEF WriteFailed
  <2> QED  BY <2>1, <2>2
<1>4. Taken' = Taken
  BY <1>2 DEF Taken, ReadSlot
<1> QED  BY <1>2, <1>3, <1>4, MainKeeps
-----------------------------------------------------------------------------
(* Steps that take or free receive buffers.                                *)
LEMMA Afterwards ==
  ASSUME NEW mate, NEW T, NEW O, NEW P, Mates(mate, T, O, P), Taken' = T, Orphans' = O, RxPairs' = P
  PROVE  MateInv'
<1>1. Mates(mate, Taken, Orphans, RxPairs)'
  BY DEF Mates, Mated
<1> QED  BY <1>1 DEF MateInv

LEMMA Before ==
  ASSUME MateInv
  PROVE  \E mate, T, O, P : T = Taken /\ O = Orphans /\ P = RxPairs /\ Mates(mate, T, O, P)
BY DEF MateInv

LEMMA HeaderCopy ==
  ASSUME NEW own, OwnInv(own), dpaRx.header # Nil
  PROVE  own[dpaRx.header].part = <<"dpaRx copy", Nil>>
<1>1. PICK part : part = <<"dpaRx copy", Nil>> /\ HasHeader(own, part, dpaRx.header)
  BY OfDpa
<1>2. PICK r : r = dpaRx.header
  OBVIOUS
<1>3. HasHeader(own, part, r) /\ r # Nil
  BY <1>1, <1>2
<1>4. own[r] = [part |-> part, use |-> "header"]
  BY <1>3 DEF HasHeader, Owns
<1>5. own[r].part = part
  BY <1>4
<1> QED  BY <1>1, <1>2, <1>5

LEMMA MainPairIs ==
  ASSUME Shapes, NEW own, OwnInv(own), NEW w \in Worker, main[w].rx_body # Nil
  PROVE  /\ <<main[w].rx_header, main[w].rx_body>> \in RxPairs
         /\ main[w].rx_body \in Ref /\ main[w].rx_body \in RxBodies
         /\ main[w].rx_header # Nil =>
              /\ main[w].rx_header \in Ref /\ main[w].rx_header \in RxHeaders
              /\ main[w].rx_header \in Mated(Taken, Orphans) /\ main[w].rx_header \notin Orphans
<1>1. <<main[w].rx_header, main[w].rx_body>> \in RxPairs
  BY DEF RxPairs, WorkerPairs, MainPairs, PairIf
<1>2. GoodPair(own, <<"main rx", w>>, w, <<main[w].rx_header, main[w].rx_body>>)
  <2>1. /\ main[w].rx_body.pool = HostPool(w, "rx_body")
        /\ main[w].rx_header # Nil => main[w].rx_header.pool = HostPool(w, "rx_header")
    BY MainIs DEF MainShape
  <2> QED  BY <2>1, OfWorker, Good
<1>3. /\ main[w].rx_body \in Ref /\ main[w].rx_body \in RxBodies
  BY <1>2, InRxPool DEF GoodPair
<1>4. ASSUME main[w].rx_header # Nil
      PROVE  /\ main[w].rx_header \in Ref /\ main[w].rx_header \in RxHeaders
             /\ main[w].rx_header \in Mated(Taken, Orphans) /\ main[w].rx_header \notin Orphans
  <2>1. /\ main[w].rx_header \in Ref /\ main[w].rx_header.pool = HostPool(w, "rx_header")
        /\ own[main[w].rx_header].part = <<"main rx", w>> /\ ReadSlot(main[w].rx_header) # Free
    BY <1>2, <1>4 DEF GoodPair
  <2>2. main[w].rx_header \in RxHeaders
    BY <2>1, InRxPool
  <2>3. main[w].rx_header # dpaRx.header
    <3>2. dpaRx.header # Nil => own[dpaRx.header].part = <<"dpaRx copy", Nil>>
      BY HeaderCopy
    <3>3. <<"main rx", w>> # <<"dpaRx copy", Nil>>
      OBVIOUS
    <3> QED  BY <1>4, <2>1, <3>2, <3>3
  <2> QED  BY <2>1, <2>2, <2>3 DEF Mated, Taken, RxRefs, Orphans
<1> QED  BY <1>1, <1>3, <1>4

LEMMA FreeRxHeaderMates ==
  ASSUME Shapes, NEW own, OwnInv(own), MateInv, NEW w \in Worker, FreeRxHeader(w), HostOnly
  PROVE  MateInv'
<1>1. PICK h, b : h = main[w].rx_header /\ b = main[w].rx_body
  OBVIOUS
<1>2. h # Nil /\ b # Nil
  BY <1>1, MainIs DEF FreeRxHeader
<1>3. h \in Ref /\ h \in RxHeaders /\ h \in Mated(Taken, Orphans) /\ h \notin Orphans /\ <<h, b>> \in RxPairs
  BY <1>1, <1>2, MainPairIs
<1>4. Taken' = Taken \ {h}
  BY <1>1, <1>3, TakenFreed DEF FreeRxHeader
<1>5. Orphans' = Orphans /\ DpaPairs' = DpaPairs
  BY DpaSame DEF HostOnly, dpaVars
<1>6. RxPairs' \subseteq RxPairs \cup {<<Nil, b>>}
  <2>1. /\ UNCHANGED <<rx_sq, notify, delivered, poller>> /\ \A v \in Worker : v # w => main'[v] = main[v]
        /\ main'[w].rx_header = Nil /\ main'[w].rx_body = b
    BY <1>1, MainIs DEF FreeRxHeader, pipes, sqs, MainState
  <2>2. ASSUME NEW v \in Worker
        PROVE  WorkerPairs(v)' \subseteq WorkerPairs(v) \cup {<<Nil, b>>}
    BY <2>1 DEF WorkerPairs, DescsAt, MainPairs, PairIf
  <2> QED  BY <1>5, <2>2 DEF RxPairs
<1>7. PICK mate, T, O, P : T = Taken /\ O = Orphans /\ P = RxPairs /\ Mates(mate, T, O, P)
  BY Before
<1>8. PICK P2 : P2 = RxPairs'
  OBVIOUS
<1>9. Mates(mate, T \ {h}, O \ {h}, P2)
  BY <1>2, <1>3, <1>6, <1>7, <1>8, HeaderFreed
<1>10. Taken' = T \ {h} /\ Orphans' = O \ {h} /\ RxPairs' = P2
  BY <1>3, <1>4, <1>5, <1>7, <1>8
<1> QED  BY <1>9, <1>10, Afterwards

LEMMA FreeRxBodyMates ==
  ASSUME Shapes, NEW own, OwnInv(own), MateInv, NEW w \in Worker, FreeRxBody(w), HostOnly
  PROVE  MateInv'
<1>1. PICK b : b = main[w].rx_body
  OBVIOUS
<1>2. main[w].rx_header = Nil /\ b # Nil
  BY <1>1, MainIs DEF FreeRxBody, MainShape
<1>3. b \in Ref /\ <<Nil, b>> \in RxPairs
  BY <1>1, <1>2, MainPairIs
<1>4. Taken' = Taken \ {b}
  BY <1>1, <1>3, TakenFreed DEF FreeRxBody
<1>5. Orphans' = Orphans /\ DpaPairs' = DpaPairs
  BY DpaSame DEF HostOnly, dpaVars
<1>6. RxPairs' \subseteq RxPairs
  <2>1. /\ UNCHANGED <<rx_sq, notify, delivered, poller>> /\ \A v \in Worker : v # w => main'[v] = main[v]
        /\ main'[w].rx_body = Nil
    BY MainIs DEF FreeRxBody, pipes, sqs, MainState
  <2>2. ASSUME NEW v \in Worker
        PROVE  WorkerPairs(v)' \subseteq WorkerPairs(v)
    BY <2>1 DEF WorkerPairs, DescsAt, MainPairs, PairIf
  <2> QED  BY <1>5, <2>2 DEF RxPairs
<1>7. PICK mate, T, O, P : T = Taken /\ O = Orphans /\ P = RxPairs /\ Mates(mate, T, O, P)
  BY Before
<1>8. PICK P2 : P2 = RxPairs'
  OBVIOUS
<1>9. Mates(mate, T \ {b}, O \cup ({Nil} \ {Nil}), P2)
  BY <1>3, <1>6, <1>7, <1>8, BodyFreed
<1>10. Mates(mate, T \ {b}, O, P2)
  <2>1. O \cup ({Nil} \ {Nil}) = O
    OBVIOUS
  <2> QED  BY <1>9, <2>1
<1>11. Taken' = T \ {b} /\ Orphans' = O /\ RxPairs' = P2
  BY <1>4, <1>5, <1>7, <1>8
<1> QED  BY <1>10, <1>11, Afterwards
-----------------------------------------------------------------------------
(* The daemon that copies to the receivers.                                *)
LEMMA RxSteps ==
  ASSUME DpaOnly, rx_sq' = rx_sq
  PROVE  RxPairs' = DpaPairs' \cup UNION {WorkerPairs(w) : w \in Worker}
<1>1. \A w \in Worker : WorkerPairs(w)' = WorkerPairs(w)
  BY WorkersSame DEF DpaOnly
<1> QED  BY <1>1 DEF RxPairs

LEMMA CopiesAre ==
  ASSUME Shapes, NEW own, OwnInv(own)
  PROVE  /\ dpaRx.body # Nil => dpaRx.body \in Ref /\ ReadSlot(dpaRx.body) # Free
         /\ dpaRx.header # Nil => dpaRx.header \in Ref /\ ReadSlot(dpaRx.header) # Free
         /\ dpaRx.body # Nil => \A w \in Worker : \A p \in WorkerPairs(w) : p[2] # dpaRx.body
<1>1. PICK part : /\ part = <<"dpaRx copy", Nil>>
                  /\ HasHeader(own, part, dpaRx.header) /\ HasAny(own, part, dpaRx.body)
  BY OfDpa
<1>2. dpaRx.body # Nil =>
        dpaRx.body \in Ref /\ own[dpaRx.body].part = part /\ own[dpaRx.body].use \in {"message", "body"}
  BY <1>1, OwnsIs
<1>3. dpaRx.header # Nil => dpaRx.header \in Ref /\ own[dpaRx.header].use = "header"
  BY <1>1, OwnsIs, ZenonT(30)
<1>4. \A r \in Ref : own[r].use \in {"header", "message", "body"} => ReadSlot(r) # Free
  BY DataAssumption DEF OwnInv, Memory, ReadSlot
<1>5. ASSUME dpaRx.body # Nil, NEW w \in Worker, NEW p \in WorkerPairs(w)
      PROVE  p[2] # dpaRx.body
  <2>1. PICK x \in {"rx_sq", "notify", "pipe", "poller", "main rx"} : GoodPair(own, <<x, w>>, w, p)
    BY WorkerPairsAre
  <2>2. own[p[2]].part = <<x, w>>
    BY <2>1 DEF GoodPair
  <2>3. <<x, w>> # <<"dpaRx copy", Nil>>
    OBVIOUS
  <2> QED  BY <1>1, <1>2, <1>5, <2>2, <2>3
<1> QED  BY <1>2, <1>3, <1>4, <1>5

LEMMA HeadersHeld ==
  ASSUME Shapes, NEW own, OwnInv(own), NEW w \in Worker, NEW p \in WorkerPairs(w), p[1] # Nil
  PROVE  p[1] \in Taken
<1>1. PICK x \in {"rx_sq", "notify", "pipe", "poller", "main rx"} : GoodPair(own, <<x, w>>, w, p)
  BY WorkerPairsAre
<1>2. p[1] \in Ref /\ p[1].pool = HostPool(w, "rx_header") /\ ReadSlot(p[1]) # Free
  BY <1>1 DEF GoodPair
<1> QED  BY <1>2, InRxPool DEF Taken, RxRefs

LEMMA RxCopyBodyMates ==
  ASSUME Shapes, NEW own, OwnInv(own), MateInv, RxCopyBody, DpaOnly
  PROVE  MateInv'
<1>1. /\ dpaRx.pc = "body" /\ dpaRx.desc \in RoutedDesc /\ dpaRx.body = Nil /\ dpaRx.header = Nil /\ rx_sq' = rx_sq
  BY RxIs DEF RxCopyBody, DpaRxShape, sqs
<1>2. PICK p : p = HostPool(dpaRx.desc.dst, "rx_body")
  OBVIOUS
<1>3. dpaRx.desc.dst \in Worker /\ p \in Pool
  BY <1>1, <1>2, HostPools DEF RoutedDesc, Kind
<1>4. CASE Full(p)
  <2>1. mem' = mem /\ dpaRx' = [dpaRx EXCEPT !.pc = "requeue"]
    BY <1>2, <1>4 DEF RxCopyBody
  <2>2. dpaRx'.body = dpaRx.body /\ dpaRx'.header = dpaRx.header
    BY <2>1, RxIs
  <2>3. Taken' = Taken /\ DpaPairs' \subseteq DpaPairs /\ Orphans' = Orphans
    BY <2>1, <2>2 DEF Taken, ReadSlot, DpaPairs, Orphans
  <2>4. \A w \in Worker : WorkerPairs(w)' \subseteq WorkerPairs(w)
    BY <1>1, WorkersSame DEF DpaOnly
  <2> QED  BY <2>3, <2>4, Quiet
<1>5. CASE ~Full(p)
  <2>1. PICK b : b = NewRef(p)
    OBVIOUS
  <2>2. AllocWrite(p, ReadSlot(dpaRx.desc.body)) /\ dpaRx' = [dpaRx EXCEPT !.pc = "free_body", !.body = b]
    BY <1>2, <1>5, <2>1 DEF RxCopyBody
  <2>3. ReadSlot(dpaRx.desc.body) # Free
    <3>1. dpaRx.desc # Nil /\ dpaRx.desc.body \in Ref
      BY <1>1, SidecarDescs, DataAssumption DEF RoutedDesc, DpuDesc
    <3>2. Carries(own, <<"dpaRx", Nil>>, dpaRx.desc)
      BY OfDpa
    <3>3. HasBody(own, <<"dpaRx", Nil>>, BodyAs(dpaRx.desc), dpaRx.desc.body)
      BY <3>1, <3>2 DEF Carries
    <3>4. HasAny(own, <<"dpaRx", Nil>>, dpaRx.desc.body)
      BY <3>3, BodyIsAny DEF BodyAs
    <3>5. own[dpaRx.desc.body].use \in {"message", "body"}
      BY <3>1, <3>4, OwnsIs, DataAssumption
    <3> QED  BY <3>1, <3>5, DataAssumption DEF OwnInv, Memory, ReadSlot
  <2>4. b \in Ref /\ b.pool = p /\ b \notin Taken /\ (b \in RxRefs => Taken' = Taken \cup {b})
    BY <1>3, <1>5, <2>1, <2>2, <2>3, TakenAlloc
  <2>5. b \in RxBodies /\ b \in RxRefs /\ b \notin RxHeaders /\ b # Nil
    BY <1>2, <1>3, <2>4, InRxPool, HeadersAndBodies, DataAssumption DEF RxRefs
  <2>6. dpaRx'.body = b /\ dpaRx'.header = Nil
    BY <1>1, <2>2, RxIs
  <2>7. Orphans = {} /\ Orphans' = {} /\ DpaPairs' = {<<Nil, b>>}
    BY <1>1, <2>5, <2>6 DEF Orphans, DpaPairs, PairIf
  <2>8. RxPairs' \subseteq RxPairs \cup {<<Nil, b>>}
    BY <1>1, <2>7, RxSteps DEF RxPairs
  <2>9. PICK mate, T, O, P : T = Taken /\ O = Orphans /\ P = RxPairs /\ Mates(mate, T, O, P)
    BY Before
  <2>10. PICK P2 : P2 = RxPairs'
    OBVIOUS
  <2>11. Mates(mate, T \cup {b}, O, P2)
    BY <2>4, <2>5, <2>8, <2>9, <2>10, BodyTaken
  <2>12. Taken' = T \cup {b} /\ Orphans' = O /\ RxPairs' = P2
    BY <2>4, <2>5, <2>7, <2>9, <2>10
  <2> QED  BY <2>11, <2>12, Afterwards
<1> QED  BY <1>4, <1>5

LEMMA RxCopyHeaderMates ==
  ASSUME Shapes, NEW own, OwnInv(own), MateInv, RxCopyHeader, DpaOnly
  PROVE  MateInv'
<1>1. /\ dpaRx.pc = "header" /\ dpaRx.header = Nil /\ rx_sq' = rx_sq /\ dpaRx.desc.dst \in Worker
      /\ dpaRx.body \in Ref /\ dpaRx.body.pool = HostPool(dpaRx.desc.dst, "rx_body")
      /\ dpaRx.desc # Nil /\ dpaRx.desc.header \in Ref
  BY RxIs DEF RxCopyHeader, DpaRxShape, sqs
<1>2. PICK p : p = HostPool(dpaRx.desc.dst, "rx_header")
  OBVIOUS
<1>3. p \in Pool
  BY <1>1, <1>2, HostPools DEF Kind
<1>4. CASE Full(p)
  <2>1. mem' = mem /\ dpaRx' = [dpaRx EXCEPT !.pc = "drop", !.desc = Nil]
    BY <1>2, <1>4 DEF RxCopyHeader
  <2>2. dpaRx'.body = dpaRx.body /\ dpaRx'.header = dpaRx.header
    BY <2>1, RxIs
  <2>3. Taken' = Taken /\ DpaPairs' \subseteq DpaPairs /\ Orphans' = Orphans
    BY <2>1, <2>2 DEF Taken, ReadSlot, DpaPairs, Orphans
  <2>4. \A w \in Worker : WorkerPairs(w)' \subseteq WorkerPairs(w)
    BY <1>1, WorkersSame DEF DpaOnly
  <2> QED  BY <2>3, <2>4, Quiet
<1>5. CASE ~Full(p)
  <2>1. PICK h, b : h = NewRef(p) /\ b = dpaRx.body
    OBVIOUS
  <2>2. AllocWrite(p, ReadSlot(dpaRx.desc.header)) /\ dpaRx' = [dpaRx EXCEPT !.pc = "free_header", !.header = h]
    BY <1>2, <1>5, <2>1 DEF RxCopyHeader
  <2>3. ReadSlot(dpaRx.desc.header) # Free
    <3>1. HasHeader(own, <<"dpaRx", Nil>>, dpaRx.desc.header)
      BY <1>1, OfDpa DEF Carries
    <3>2. own[dpaRx.desc.header].use = "header"
      BY <1>1, <3>1, OwnsIs, DataAssumption
    <3> QED  BY <1>1, <3>2, DataAssumption DEF OwnInv, Memory, ReadSlot
  <2>4. h \in Ref /\ h.pool = p /\ h \notin Taken /\ (h \in RxRefs => Taken' = Taken \cup {h})
    BY <1>3, <1>5, <2>1, <2>2, <2>3, TakenAlloc
  <2>5. h \in RxHeaders /\ h \in RxRefs /\ h # Nil /\ BodyPool(h.pool) = b.pool
    BY <1>1, <1>2, <2>1, <2>4, InRxPool, DataAssumption DEF RxRefs
  <2>6. b \in Taken /\ b # Nil
    <3>1. b # Nil /\ b \in RxBodies
      BY <1>1, <2>1, InRxPool, DataAssumption
    <3>2. ReadSlot(b) # Free
      BY <2>1, <3>1, CopiesAre
    <3> QED  BY <3>1, <3>2 DEF Taken, RxRefs
  <2>7. dpaRx'.body = b /\ dpaRx'.header = h
    BY <1>1, <2>1, <2>2, RxIs
  <2>8. /\ Orphans = {} /\ Orphans' = {} /\ DpaPairs' = {<<h, b>>}
        /\ DpaPairs = {<<Nil, b>>}
    BY <1>1, <2>1, <2>6, <2>7 DEF Orphans, DpaPairs, PairIf
  <2>9. ASSUME NEW q \in RxPairs'
        PROVE  \/ q = <<h, b>>
               \/ q \in RxPairs /\ q[1] # h /\ q[2] # b
    <3>1. q = <<h, b>> \/ \E w \in Worker : q \in WorkerPairs(w)
      BY <1>1, <2>8, RxSteps
    <3>2. ASSUME NEW w \in Worker, q \in WorkerPairs(w)
          PROVE  q \in RxPairs /\ q[1] # h /\ q[2] # b
      <4>1. q[2] # b
        BY <2>1, <2>6, <3>2, CopiesAre
      <4>2. q[1] # h
        BY <2>4, <2>5, <3>2, HeadersHeld
      <4> QED  BY <3>2, <4>1, <4>2 DEF RxPairs
    <3> QED  BY <3>1, <3>2
  <2>10. PICK mate, T, O, P : T = Taken /\ O = Orphans /\ P = RxPairs /\ Mates(mate, T, O, P)
    BY Before
  <2>11. PICK P2 : P2 = RxPairs'
    OBVIOUS
  <2>12. \E m : Mates(m, T \cup {h}, O \ {h}, P2)
    <3>1. <<Nil, b>> \in P
      BY <2>8, <2>10 DEF RxPairs
    <3>2. h \notin T /\ b \in T
      BY <2>4, <2>6, <2>10
    <3>3. \A q \in P2 : \/ q = <<h, b>>
                        \/ q \in P /\ q[1] # h /\ q[2] # b
      BY <2>9, <2>10, <2>11
    <3> QED  BY <2>5, <2>10, <3>1, <3>2, <3>3, HeaderTaken
  <2>13. Taken' = T \cup {h} /\ Orphans' = O \ {h} /\ RxPairs' = P2
    BY <2>4, <2>5, <2>8, <2>10, <2>11
  <2> QED  BY <2>12, <2>13, Afterwards
<1> QED  BY <1>4, <1>5

(* The receive thread keeps its copies, or hands them over.                *)
LEMMA RxKeepMates ==
  ASSUME Shapes, NEW own, OwnInv(own), MateInv, RxGet \/ RxRequeue \/ RxFreeBody \/ RxFreeHeader, DpaOnly
  PROVE  MateInv'
<1>1. rx_sq' = rx_sq /\ dpaRx'.body = dpaRx.body /\ dpaRx'.header = dpaRx.header
  <2>1. CASE RxGet \/ RxRequeue
    <3>1. dpaRx.body = Nil /\ dpaRx.header = Nil
      BY <2>1, RxIs DEF RxGet, RxRequeue, DpaRxShape
    <3>2. CASE RxGet
      BY <3>1, <3>2 DEF RxGet, IdleRx
    <3>3. CASE RxRequeue
      BY <3>1, <3>3 DEF RxRequeue, IdleRx
    <3> QED  BY <2>1, <3>2, <3>3
  <2>2. CASE RxFreeBody \/ RxFreeHeader
    BY <2>2, RxIs DEF RxFreeBody, RxFreeHeader, DpaRxShape, sqs
  <2> QED  BY <2>1, <2>2
<1>2. DpaPairs' \subseteq DpaPairs /\ Orphans' = Orphans
  BY <1>1 DEF DpaPairs, Orphans
<1>3. \A w \in Worker : WorkerPairs(w)' \subseteq WorkerPairs(w)
  BY <1>1, WorkersSame DEF DpaOnly
<1>4. Taken' = Taken
  <2>1. CASE RxGet \/ RxRequeue
    BY <2>1 DEF RxGet, RxRequeue, Taken, ReadSlot
  <2>2. ASSUME NEW r \in Ref, FreeSlot(r), r \notin RxRefs
        PROVE  Taken' = Taken
    BY <2>2, TakenFreed DEF Taken
  <2>3. CASE RxFreeBody
    <3>1. dpaRx.desc \in RoutedDesc
      BY <2>3, RxIs DEF RxFreeBody, DpaRxShape
    <3>2. /\ dpaRx.desc.body \in Ref /\ FreeSlot(dpaRx.desc.body)
          /\ dpaRx.desc.body.pool = DpuRxBody \/ \E s : dpaRx.desc.body.pool = <<s, "tx_body">>
      BY <2>3, <3>1 DEF RxFreeBody, RoutedDesc, DpuDesc, TxBodyPool
    <3> QED  BY <2>2, <3>2, OutsideRx
  <2>4. CASE RxFreeHeader
    <3>1. /\ dpaRx.desc.header \in Ref /\ FreeSlot(dpaRx.desc.header) /\ dpaRx.desc.header.pool = DpuTxHeader
      BY <2>4, RxIs DEF RxFreeHeader, DpaRxShape
    <3> QED  BY <2>2, <3>1, OutsideRx
  <2> QED  BY <2>1, <2>3, <2>4
<1> QED  BY <1>2, <1>3, <1>4, Quiet

LEMMA RxPutMates ==
  ASSUME Shapes, NEW own, OwnInv(own), MateInv, RxPut, DpaOnly
  PROVE  MateInv'
<1>1. mem' = mem /\ UNCHANGED hostVars
  BY DEF RxPut, DpaOnly
<1>2. Taken' = Taken
  BY <1>1 DEF Taken, ReadSlot
<1>3. PICK w : w = dpaRx.desc.dst
  OBVIOUS
<1>4. /\ w \in Worker /\ dpaRx.pc = "put" /\ dpaRx.body # Nil /\ dpaRx.desc \in Descriptor
  BY <1>3, RxIs, DataAssumption DEF RxPut, DpaRxShape, OptDesc
<1>5. CASE Room(rx_sq[w])
  <2>1. PICK d : d = [dpaRx.desc EXCEPT !.header = dpaRx.header, !.body = dpaRx.body]
    OBVIOUS
  <2>2. rx_sq' = [rx_sq EXCEPT ![w] = Append(@, d)] /\ dpaRx' = IdleRx
    BY <1>3, <1>5, <2>1 DEF RxPut
  <2>3. d.header = dpaRx.header /\ d.body = dpaRx.body
    BY <1>4, <2>1 DEF Descriptor
  <2>4. DOMAIN rx_sq = Worker /\ rx_sq[w] \in Seq(ReceivedDesc(w))
    BY <1>4, QueuedDescs
  <2>5. Entries(rx_sq'[w]) = Entries(rx_sq[w]) \cup {d}
    <3> DEFINE D == ReceivedDesc(w) \cup {d}
    <3>1. rx_sq[w] \in Seq(D) /\ d \in D
      BY <2>4
    <3> HIDE DEF D
    <3>2. rx_sq'[w] = Append(rx_sq[w], d)
      BY <1>4, <2>2, <2>4
    <3> QED  BY <3>1, <3>2, Appended
  <2>6. DpaPairs' = {} /\ Orphans' = {} /\ Orphans = {} /\ DpaPairs = {PairOf(d)}
    BY <1>4, <2>2, <2>3 DEF DpaPairs, PairIf, Orphans, IdleRx, PairOf
  <2>7. ASSUME NEW v \in Worker
        PROVE  WorkerPairs(v)' \subseteq WorkerPairs(v) \cup DpaPairs
    <3>1. CASE v = w
      BY <1>1, <2>5, <2>6, <3>1 DEF WorkerPairs, DescsAt, MainPairs, hostVars, pipes
    <3>2. CASE v # w
      BY <1>1, <2>2, <2>4, <3>2, OtherWorkers, <1>4 DEF hostVars, pipes
    <3> QED  BY <3>1, <3>2
  <2>8. RxPairs' \subseteq RxPairs
    BY <2>6, <2>7 DEF RxPairs
  <2>9. PICK mate, T, O, P : T = Taken /\ O = Orphans /\ P = RxPairs /\ Mates(mate, T, O, P)
    BY Before
  <2>10. PICK P2 : P2 = RxPairs'
    OBVIOUS
  <2>11. Mates(mate, T, O, P2)
    BY <2>8, <2>9, <2>10, FewerPairs
  <2>12. Taken' = T /\ Orphans' = O /\ RxPairs' = P2
    BY <1>2, <2>6, <2>9, <2>10
  <2> QED  BY <2>11, <2>12, Afterwards
<1>6. CASE ~Room(rx_sq[w])
  <2>1. rx_sq' = rx_sq /\ dpaRx' = [dpaRx EXCEPT !.pc = "drop"]
    BY <1>3, <1>6 DEF RxPut
  <2>2. dpaRx'.body = dpaRx.body /\ dpaRx'.header = dpaRx.header
    BY <2>1, RxIs
  <2>3. DpaPairs' \subseteq DpaPairs /\ Orphans' = Orphans
    BY <2>2 DEF DpaPairs, Orphans
  <2>4. \A v \in Worker : WorkerPairs(v)' \subseteq WorkerPairs(v)
    BY <1>1, <2>1, WorkersSame
  <2> QED  BY <1>2, <2>3, <2>4, Quiet
<1> QED  BY <1>5, <1>6

LEMMA RxDropMates ==
  ASSUME Shapes, NEW own, OwnInv(own), MateInv, CopiedHeader, RxDrop, DpaOnly
  PROVE  MateInv'
<1>1. PICK h, b : h = dpaRx.header /\ b = dpaRx.body
  OBVIOUS
<1>2. rx_sq' = rx_sq /\ dpaRx.pc = "drop"
  BY DEF RxDrop, sqs
<1>3. PICK mate, T, O, P : T = Taken /\ O = Orphans /\ P = RxPairs /\ Mates(mate, T, O, P)
  BY Before
<1>4. PICK P2 : P2 = RxPairs'
  OBVIOUS
<1>5. CASE b # Nil
  <2>1. FreeSlot(b) /\ dpaRx' = IF h = Nil THEN IdleRx ELSE [dpaRx EXCEPT !.body = Nil]
    BY <1>1, <1>5 DEF RxDrop
  <2>2. b \in Ref /\ Taken' = Taken \ {b}
    BY <1>1, <1>5, <2>1, CopiesAre, TakenFreed
  <2>3. dpaRx'.body = Nil /\ dpaRx'.header = h
    <3>1. CASE h = Nil
      BY <2>1, <3>1 DEF IdleRx
    <3>2. CASE h # Nil
      BY <1>1, <2>1, <3>2, RxIs
    <3> QED  BY <3>1, <3>2
  <2>4. O = {} /\ Orphans' = O \cup ({h} \ {Nil}) /\ DpaPairs' = {} /\ <<h, b>> \in P
    BY <1>1, <1>3, <1>5, <2>3 DEF Orphans, DpaPairs, PairIf, RxPairs
  <2>5. P2 \subseteq P
    BY <1>2, <1>3, <1>4, <2>4, RxSteps DEF RxPairs
  <2>6. h # Nil => h \in Mated(T, O)
    <3>1. h # Nil => h \in RxHeaders
      BY <1>1 DEF CopiedHeader
    <3>2. h # Nil => ReadSlot(h) # Free
      BY <1>1, CopiesAre
    <3> QED  BY <1>3, <2>4, <3>1, <3>2 DEF Mated, Taken, RxRefs
  <2>7. Mates(mate, T \ {b}, O \cup ({h} \ {Nil}), P2)
    BY <1>3, <2>4, <2>5, <2>6, BodyFreed
  <2>8. Taken' = T \ {b}
    BY <1>3, <2>2
  <2> QED  BY <1>4, <2>4, <2>7, <2>8, Afterwards
<1>6. CASE b = Nil
  <2>1. FreeSlot(h) /\ dpaRx' = IdleRx /\ h # Nil
    BY <1>1, <1>2, <1>6, RxIs DEF RxDrop, DpaRxShape
  <2>2. h \in Ref /\ h \in RxHeaders /\ Taken' = Taken \ {h}
    BY <1>1, <1>2, <2>1, CopiesAre, TakenFreed DEF CopiedHeader
  <2>3. O = {h} /\ Orphans' = O \ {h} /\ DpaPairs' = {}
    BY <1>1, <1>3, <1>6, <2>1 DEF Orphans, DpaPairs, PairIf, IdleRx
  <2>4. P2 \subseteq P
    BY <1>2, <1>3, <1>4, <2>3, RxSteps DEF RxPairs
  <2>5. Mates(mate, T \ {h}, O \ {h}, P2)
    BY <1>3, <2>2, <2>4, HeaderFreed
  <2>6. Taken' = T \ {h}
    BY <1>3, <2>2
  <2> QED  BY <1>4, <2>3, <2>5, <2>6, Afterwards
<1> QED  BY <1>5, <1>6

LEMMA CopiedHeaderKept ==
  ASSUME Shapes, NEW own, OwnInv(own), CopiedHeader, [Next]_vars
  PROVE  CopiedHeader'
<1>1. CASE dpaRx'.header \in {dpaRx.header, Nil}
  BY <1>1 DEF CopiedHeader
<1>2. CASE RxCopyHeader
  <2>1. dpaRx.desc.dst \in Worker
    BY <1>2, RxIs DEF RxCopyHeader, DpaRxShape
  <2>2. PICK p : p = HostPool(dpaRx.desc.dst, "rx_header")
    OBVIOUS
  <2>3. p \in Pool
    BY <2>1, <2>2, HostPools DEF Kind
  <2>4. CASE Full(p)
    BY <1>1, <1>2, <2>2, <2>4, RxIs DEF RxCopyHeader
  <2>5. CASE ~Full(p)
    <3>1. dpaRx'.header = NewRef(p)
      BY <1>2, <2>2, <2>5, RxIs DEF RxCopyHeader
    <3>2. NewRef(p) \in Ref /\ NewRef(p).pool = p
      BY <2>3, <2>5, Fresh
    <3> QED  BY <2>1, <2>2, <3>1, <3>2, InRxPool DEF CopiedHeader
  <2> QED  BY <2>4, <2>5
<1>3. CASE dpaRx' = dpaRx
  BY <1>1, <1>3
<1>4. CASE DpaRxStep
  <2>1. CASE RxGet \/ RxRequeue
    <3>1. CASE RxGet
      BY <1>1, <3>1 DEF RxGet, IdleRx
    <3>2. CASE RxRequeue
      BY <1>1, <3>2 DEF RxRequeue, IdleRx
    <3> QED  BY <2>1, <3>1, <3>2
  <2>2. CASE RxCopyBody \/ RxFreeBody \/ RxFreeHeader
    BY <1>1, <2>2, RxIs DEF RxCopyBody, RxFreeBody, RxFreeHeader
  <2>3. CASE RxPut \/ RxDrop
    BY <1>1, <2>3, RxIs DEF RxPut, RxDrop, IdleRx
  <2> QED  BY <1>2, <1>4, <2>1, <2>2, <2>3 DEF DpaRxStep
<1>5. CASE HostOnly \/ SidecarOnly \/ UNCHANGED vars
  BY <1>3, <1>5 DEF HostOnly, SidecarOnly, vars, dpaVars
<1>6. CASE (\E w \in Worker : TxGet(w)) \/ DpaTxStep
  BY <1>3, <1>6 DEF TxGet, DpaTxStep, TxCopy, TxRequeue, TxFree, TxPut, TxDrop
<1> QED  BY <1>4, <1>5, <1>6 DEF Next, Rest, DpaStep
-----------------------------------------------------------------------------
(* The steps of the transmit thread and of the sidecar leave the receive   *)
(* buffers alone.                                                          *)
LEMMA OutsideStep ==
  ASSUME Shapes, MateInv, UNCHANGED <<rx_sq, hostVars, dpaRx>>,
         \/ mem' = mem
         \/ \E r \in Ref : r \notin RxRefs /\ FreeSlot(r)
         \/ Taken' = Taken
  PROVE  MateInv'
<1>1. Taken' = Taken
  <2>1. CASE mem' = mem
    BY <2>1 DEF Taken, ReadSlot
  <2>2. CASE \E r \in Ref : r \notin RxRefs /\ FreeSlot(r)
    <3>1. PICK r \in Ref : r \notin RxRefs /\ FreeSlot(r)
      BY <2>2
    <3> QED  BY <3>1, TakenFreed DEF Taken
  <2> QED  BY <2>1, <2>2
<1>2. \A w \in Worker : WorkerPairs(w)' \subseteq WorkerPairs(w)
  BY WorkersSame
<1> QED  BY <1>1, <1>2, DpaSame, Quiet

LEMMA DpuDescElsewhere ==
  ASSUME NEW d \in DpuDesc
  PROVE  d # Nil /\ d.header \in Ref /\ d.header \notin RxRefs /\ d.body \in Ref /\ d.body \notin RxRefs
<1>1. d \in Descriptor /\ d.header \in Ref /\ d.header.pool = DpuTxHeader /\ d.body \in Ref
  BY DEF DpuDesc
<1>2. \E s : d.body.pool = <<s, "tx_body">>
  BY DEF DpuDesc, TxBodyPool
<1> QED  BY <1>1, <1>2, OutsideRx, DataAssumption

LEMMA NilElsewhere == Nil \notin RxRefs
BY DataAssumption DEF RxRefs, RxHeaders, RxBodies

LEMMA ArmElsewhereKept ==
  ASSUME Shapes, ArmElsewhere, [Next]_vars
  PROVE  ArmElsewhere'
<1>1. CASE arm'.desc = arm.desc \/ arm'.desc = Nil
  BY <1>1 DEF ArmElsewhere
<1>2. ASSUME arm.desc \in Descriptor, arm.desc # Nil, arm'.desc.header = arm.desc.header,
             arm'.desc.body \in {arm.desc.body, Nil}
      PROVE  ArmElsewhere'
  BY <1>2, NilElsewhere DEF ArmElsewhere
<1>3. CASE ArmGet
  <2>1. Head(sidecar_tx_sq) \in DpuDesc
    BY <1>3, SidecarDescs DEF ArmGet
  <2>2. arm'.desc = Head(sidecar_tx_sq)
    BY <1>3, ArmIs DEF ArmGet
  <2> QED  BY <2>1, <2>2, DpuDescElsewhere DEF ArmElsewhere
<1>4. CASE RouteRequest \/ RouteResponse
  <2>1. arm.desc \in DpuDesc
    BY <1>4, ArmIs DEF RouteRequest, RouteResponse, ArmShape
  <2>2. arm.desc \in Descriptor /\ arm.desc # Nil
    BY <2>1, DataAssumption DEF DpuDesc
  <2>3. \/ arm'.desc = arm.desc
        \/ \E v : arm'.desc = [arm.desc EXCEPT !.dst = v, !.case = "local"]
    BY <1>4, ArmIs DEF RouteRequest, RouteResponse
  <2>4. CASE \E v : arm'.desc = [arm.desc EXCEPT !.dst = v, !.case = "local"]
    <3>1. arm'.desc.header = arm.desc.header /\ arm'.desc.body = arm.desc.body
      BY <2>2, <2>4 DEF Descriptor
    <3> QED  BY <1>2, <2>2, <3>1
  <2> QED  BY <1>1, <2>3, <2>4
<1>5. CASE ArmPut \/ DeliverHeader \/ DeliverEvent
  <2>1. CASE ArmPut
    BY <1>1, <2>1, ArmIs DEF ArmPut, IdleArm
  <2>2. CASE DeliverHeader
    BY <1>1, <2>2, ArmIs DEF DeliverHeader
  <2>3. CASE DeliverEvent
    BY <1>1, <2>3 DEF DeliverEvent, IdleArm
  <2> QED  BY <1>5, <2>1, <2>2, <2>3
<1>6. CASE Cleanup \/ DeliverBody
  <2>1. arm.desc \in Descriptor /\ arm.desc # Nil
    BY <1>6, ArmIs, DataAssumption DEF Cleanup, DeliverBody, ArmShape, OptDesc, DpuDesc
  <2>2. arm'.desc = Nil \/ arm'.desc = [arm.desc EXCEPT !.body = Nil]
    <3>1. CASE Cleanup
      BY <3>1, ArmIs DEF Cleanup, IdleArm
    <3>2. CASE DeliverBody
      BY <3>2, ArmIs DEF DeliverBody
    <3> QED  BY <1>6, <3>1, <3>2
  <2>3. CASE arm'.desc = [arm.desc EXCEPT !.body = Nil]
    <3>1. arm'.desc.header = arm.desc.header /\ arm'.desc.body = Nil
      BY <2>1, <2>3 DEF Descriptor
    <3> QED  BY <1>2, <2>1, <3>1
  <2> QED  BY <1>1, <2>2, <2>3
<1>7. CASE arm' = arm
  BY <1>1, <1>7
<1>8. CASE HostOnly \/ DpaOnly \/ UNCHANGED vars
  BY <1>7, <1>8 DEF HostOnly, DpaOnly, vars, sidecarVars
<1>9. CASE \E c \in Client : BridgeStep(c) \/ BridgeTimeout(c)
  BY <1>7, <1>9 DEF BridgeStep, BridgeTimeout, BridgeRegister, BridgeAlloc, BridgePut, BridgeUndo, BridgeAnswer, BridgeExpire
<1> QED  BY <1>3, <1>4, <1>5, <1>6, <1>8, <1>9 DEF Next, Rest, SidecarStep, Arm

LEMMA TxMates ==
  ASSUME Shapes, NEW own, OwnInv(own), MateInv, (\E w \in Worker : TxGet(w)) \/ DpaTxStep, DpaOnly
  PROVE  MateInv'
<1>1. UNCHANGED <<rx_sq, hostVars, dpaRx>>
  BY DEF TxGet, DpaTxStep, TxCopy, TxRequeue, TxFree, TxPut, TxDrop, DpaOnly, sqs
<1>2. \/ mem' = mem
      \/ \E r \in Ref : r \notin RxRefs /\ FreeSlot(r)
      \/ Taken' = Taken
  <2>1. CASE (\E w \in Worker : TxGet(w)) \/ TxRequeue \/ TxPut
    BY <2>1 DEF TxGet, TxRequeue, TxPut
  <2>2. CASE TxFree
    <3>1. dpaTx.src \in Worker /\ dpaTx.desc \in SentDesc(dpaTx.src)
      BY <2>2, TxIs DEF TxFree, DpaTxShape
    <3>2. dpaTx.desc.header \in Ref /\ dpaTx.desc.header.pool = HostPool(dpaTx.src, "tx_header")
      BY <3>1 DEF SentDesc
    <3>3. dpaTx.desc.header \notin RxRefs
      BY <3>2, OutsideRx
    <3> QED  BY <2>2, <3>2, <3>3 DEF TxFree
  <2>3. CASE TxDrop
    <3>1. dpaTx.desc \in DpuDesc
      BY <2>3, TxIs DEF TxDrop, DpaTxShape
    <3> QED  BY <2>3, <3>1, DpuDescElsewhere DEF TxDrop
  <2>4. CASE TxCopy
    <3>1. dpaTx.src \in Worker /\ dpaTx.desc \in SentDesc(dpaTx.src)
      BY <2>4, TxIs DEF TxCopy, DpaTxShape
    <3>2. dpaTx.desc.header \in Ref /\ dpaTx.desc # Nil
      BY <3>1, DataAssumption DEF SentDesc
    <3>3. ReadSlot(dpaTx.desc.header) # Free
      <4>1. HasHeader(own, <<"dpaTx", Nil>>, dpaTx.desc.header)
        BY <3>2, OfDpa DEF Carries
      <4>2. own[dpaTx.desc.header].use = "header"
        BY <3>2, <4>1, OwnsIs, DataAssumption
      <4> QED  BY <3>2, <4>2, DataAssumption DEF OwnInv, Memory, ReadSlot
    <3>4. CASE ~Full(DpuTxHeader) /\ AllocWrite(DpuTxHeader, ReadSlot(dpaTx.desc.header))
      <4>1. DpuTxHeader \in Pool
        BY DEF Pool
      <4>2. /\ NewRef(DpuTxHeader) \in Ref /\ NewRef(DpuTxHeader).pool = DpuTxHeader
            /\ NewRef(DpuTxHeader) \notin RxRefs => Taken' = Taken
        BY <3>3, <3>4, <4>1, TakenAlloc
      <4>3. NewRef(DpuTxHeader) \notin RxRefs
        BY <4>2, OutsideRx
      <4> QED  BY <4>2, <4>3
    <3> QED  BY <2>4, <3>4 DEF TxCopy
  <2> QED  BY <2>1, <2>2, <2>3, <2>4 DEF DpaTxStep
<1> QED  BY <1>1, <1>2, OutsideStep

LEMMA SidecarMates ==
  ASSUME Shapes, NEW own, OwnInv(own), MateInv, ArmElsewhere, SidecarStep, SidecarOnly
  PROVE  MateInv'
<1>1. UNCHANGED <<rx_sq, hostVars, dpaRx>>
  <2>1. CASE Arm
    BY <2>1 DEF Arm, ArmGet, RouteRequest, RouteResponse, ArmPut, Cleanup, DeliverBody, DeliverHeader,
      DeliverEvent, SidecarOnly, dpaVars, shmVars, sqs
  <2>2. CASE \E c \in Client : BridgeStep(c) \/ BridgeTimeout(c)
    BY <2>2 DEF BridgeStep, BridgeTimeout, BridgeRegister, BridgeAlloc, BridgePut, BridgeUndo, BridgeAnswer,
      BridgeExpire, SidecarOnly, dpaVars, shmVars, sqs
  <2> QED  BY <2>1, <2>2 DEF SidecarStep
<1>2. ASSUME NEW x, x # Free, ~Full(DpuRxBody), AllocWrite(DpuRxBody, x)
      PROVE  Taken' = Taken
  <2>1. DpuRxBody \in Pool
    BY DEF Pool
  <2>2. /\ NewRef(DpuRxBody) \in Ref /\ NewRef(DpuRxBody).pool = DpuRxBody
        /\ NewRef(DpuRxBody) \notin RxRefs => Taken' = Taken
    BY <1>2, <2>1, TakenAlloc
  <2>3. NewRef(DpuRxBody) \notin RxRefs
    BY <2>2, OutsideRx
  <2> QED  BY <2>2, <2>3
<1>3. \/ mem' = mem
      \/ \E r \in Ref : r \notin RxRefs /\ FreeSlot(r)
      \/ Taken' = Taken
  <2>1. CASE ArmGet \/ RouteRequest \/ RouteResponse \/ ArmPut \/ DeliverEvent
    BY <2>1 DEF ArmGet, RouteRequest, RouteResponse, ArmPut, DeliverEvent, shmVars
  <2>2. CASE Cleanup \/ DeliverBody \/ DeliverHeader
    <3>1. arm.desc # Nil /\ arm.desc \in Descriptor /\ arm.desc.header \in Ref /\ arm.desc.body \in OptRef
      BY <2>2, ArmIs, DataAssumption DEF Cleanup, DeliverBody, DeliverHeader, ArmShape, OptDesc, DpuDesc, Descriptor
    <3>2. arm.desc.header \notin RxRefs /\ arm.desc.body \notin RxRefs
      BY <3>1 DEF ArmElsewhere
    <3>3. FreeSlot(arm.desc.header) \/ (arm.desc.body \in Ref /\ FreeSlot(arm.desc.body))
      BY <2>2, <3>1, ArmIs DEF Cleanup, DeliverBody, DeliverHeader, ArmShape, DpuDesc, OptRef
    <3> QED  BY <3>1, <3>2, <3>3
  <2>3. ASSUME NEW c \in Client, BridgeAlloc(c)
        PROVE  mem' = mem \/ Taken' = Taken
    <3>1. NoBody # Free
      BY NoBodyIs, DataAssumption
    <3> DEFINE message == [ask |-> Asks[c], svc |-> "frontend", name |-> c, status |-> 0,
                           rid |-> c, src |-> Nil, dst |-> bridge[c].dst]
    <3>2. CASE Asks[c] # "big" /\ ~Full(DpuRxBody)
      <4>1. AllocWrite(DpuRxBody, message)
        BY <2>3, <3>2 DEF BridgeAlloc
      <4>2. message \in Header
        <5>1. bridge[c].dst \in Worker /\ Asks[c] # "nosvc"
          BY <2>3, BridgeIs DEF BridgeAlloc, BridgeShape
        <5>2. Asks[c] \in {"lookup", "noname", "badpath"}
          BY <3>2, <5>1, SidecarAssumption
        <5> QED  BY <5>1, <5>2 DEF Header, Service
      <4>3. message # Free
        BY <4>2, DataAssumption
      <4> HIDE DEF message
      <4> QED  BY <1>2, <3>2, <4>1, <4>3
    <3>3. CASE Asks[c] = "big" /\ ~Full(DpuRxBody)
      <4>1. AllocWrite(DpuRxBody, NoBody)
        BY <2>3, <3>3 DEF BridgeAlloc
      <4> QED  BY <1>2, <3>1, <3>3, <4>1
    <3> QED  BY <2>3, <3>2, <3>3 DEF BridgeAlloc
  <2>4. ASSUME NEW c \in Client, BridgeUndo(c)
        PROVE  \E r \in Ref : r \notin RxRefs /\ FreeSlot(r)
    <3>1. bridge[c].body \in Ref /\ bridge[c].body.pool = DpuRxBody /\ FreeSlot(bridge[c].body)
      BY <2>4, BridgeIs DEF BridgeUndo, BridgeShape
    <3> QED  BY <3>1, OutsideRx
  <2>5. ASSUME NEW c \in Client,
               BridgeRegister(c) \/ BridgePut(c) \/ BridgeAnswer(c) \/ BridgeExpire(c) \/ BridgeTimeout(c)
        PROVE  mem' = mem
    BY <2>5 DEF BridgeRegister, BridgePut, BridgeAnswer, BridgeExpire, BridgeTimeout, shmVars
  <2> QED  BY <2>1, <2>2, <2>3, <2>4, <2>5 DEF SidecarStep, Arm, BridgeStep
<1> QED  BY <1>1, <1>3, OutsideStep
-----------------------------------------------------------------------------
LEMMA MatesKept ==
  ASSUME Shapes, NEW own, OwnInv(own), MateInv, CopiedHeader, ArmElsewhere, [Next]_vars
  PROVE  MateInv'
<1>1. CASE HostStep /\ HostOnly
  <2>1. PICK w \in Worker : Poller(w) \/ Main(w)
    BY <1>1 DEF HostStep
  <2>2. CASE Poller(w)
    BY <1>1, <2>2, PollerMates
  <2>3. CASE Main(w)
    BY <1>1, <2>3, OnRequestMates, OnResponseMates, HandlerMates, FreeRxHeaderMates, FreeRxBodyMates, WriteMates,
       EnqueueMates DEF Main
  <2> QED  BY <2>1, <2>2, <2>3
<1>2. CASE DpaStep /\ DpaOnly
  <2>1. CASE DpaRxStep
    BY <1>2, <2>1, RxKeepMates, RxCopyBodyMates, RxCopyHeaderMates, RxPutMates, RxDropMates DEF DpaRxStep
  <2> QED  BY <1>2, <2>1, TxMates DEF DpaStep
<1>3. CASE SidecarStep /\ SidecarOnly
  BY <1>3, SidecarMates
<1>4. CASE UNCHANGED vars
  <2>1. UNCHANGED <<rx_sq, hostVars, dpaRx>> /\ mem' = mem
    BY <1>4 DEF vars, shmVars, sqs, dpaVars
  <2> QED  BY <2>1, OutsideStep
<1> QED  BY <1>1, <1>2, <1>3, <1>4 DEF Next, Rest

LEMMA InitMates == Init => MateInv /\ CopiedHeader /\ ArmElsewhere
<1> SUFFICES ASSUME Init
             PROVE  MateInv /\ CopiedHeader /\ ArmElsewhere
  OBVIOUS
<1>1. Taken = {}
  <2>1. ASSUME NEW r \in RxRefs
        PROVE  ReadSlot(r) = Free
    <3>1. r.pool \in Pool /\ r.slot \in Slot
      BY DEF RxRefs, RxHeaders, RxBodies, Ref
    <3> QED  BY <3>1 DEF Init, ShmInit, ReadSlot
  <2> QED  BY <2>1 DEF Taken
<1>2. RxPairs = {}
  <2>1. DpaPairs = {}
    BY DEF Init, DpaInit, IdleRx, DpaPairs, PairIf
  <2>2. ASSUME NEW w \in Worker
        PROVE  WorkerPairs(w) = {}
    <3>1. rx_sq[w] = << >> /\ notify[w] = << >> /\ delivered[w] = {} /\ poller[w] = IdlePoller /\ main[w] = IdleMain
      BY DEF Init, ShmInit, HostInit
    <3>2. DOMAIN << >> = {}
      OBVIOUS
    <3>3. DescsAt(w) = {}
      BY <3>1, <3>2 DEF DescsAt, Entries, IdlePoller
    <3>4. MainPairs(w) = {}
      BY <3>1 DEF MainPairs, PairIf, IdleMain
    <3> QED  BY <3>3, <3>4 DEF WorkerPairs
  <2> QED  BY <2>1, <2>2 DEF RxPairs
<1>3. \A mate : Mates(mate, {}, Orphans, {})
  BY DEF Mates, Mated
<1>4. CopiedHeader /\ ArmElsewhere
  BY DEF Init, DpaInit, SidecarInit, IdleRx, IdleArm, CopiedHeader, ArmElsewhere
<1> QED  BY <1>1, <1>2, <1>3, <1>4 DEF MateInv

PairInv == IInv /\ MateInv /\ CopiedHeader /\ ArmElsewhere

LEMMA PairInvariance == Spec => []PairInv
<1>1. Init => PairInv
  BY InitInvariant, InitMates DEF PairInv
<1>2. PairInv /\ [Next]_vars => PairInv'
  <2> SUFFICES ASSUME PairInv, [Next]_vars
               PROVE  PairInv'
    OBVIOUS
  <2>1. PICK own : OwnInv(own)
    BY DEF PairInv, IInv
  <2>2. IInv'
    BY StepInvariant DEF PairInv
  <2>3. MateInv' /\ CopiedHeader' /\ ArmElsewhere'
    BY <2>1, MatesKept, CopiedHeaderKept, ArmElsewhereKept DEF PairInv, IInv
  <2> QED  BY <2>2, <2>3 DEF PairInv
<1> QED  BY <1>1, <1>2, PTL DEF Spec

(* The body that waits for its header is the mate of no header, so the     *)
(* headers of its service are fewer than the slots.                        *)
LEMMA RoomForHeader ==
  ASSUME Shapes, NEW own, OwnInv(own), MateInv
  PROVE  HeaderRoomAfterBody
<1> SUFFICES ASSUME dpaRx.pc = "header", Full(HostPool(dpaRx.desc.dst, "rx_header"))
             PROVE  FALSE
  BY DEF HeaderRoomAfterBody
<1>1. PICK w, b : w = dpaRx.desc.dst /\ b = dpaRx.body
  OBVIOUS
<1>2. w \in Worker /\ b \in Ref /\ b.pool = HostPool(w, "rx_body") /\ dpaRx.header = Nil /\ b # Nil
  BY <1>1, RxIs, DataAssumption DEF DpaRxShape
<1>3. Orphans = {} /\ <<Nil, b>> \in RxPairs
  BY <1>1, <1>2 DEF Orphans, RxPairs, DpaPairs, PairIf
<1>4. PICK mate : Mates(mate, Taken, Orphans, RxPairs)
  BY DEF MateInv
<1> DEFINE hdr(i) == [pool |-> HostPool(w, "rx_header"), slot |-> i - 1]
           f == [i \in 1..NumSlots |-> mate[hdr(i)]]
<1>5. ASSUME NEW i \in 1..NumSlots
      PROVE  /\ hdr(i) \in Mated(Taken, Orphans)
             /\ mate[hdr(i)] \in Ref /\ mate[hdr(i)].pool = b.pool /\ mate[hdr(i)] # b
  <2>1. i - 1 \in Slot
    BY ShmAssumption DEF Slot
  <2>2. HostPool(w, "rx_header") \in Pool
    BY <1>2, HostPools DEF Kind
  <2>3. hdr(i) \in Ref /\ hdr(i).pool = HostPool(w, "rx_header") /\ hdr(i).slot = i - 1
    BY <2>1, <2>2 DEF Ref
  <2>4. PICK h : h = hdr(i)
    OBVIOUS
  <2>5. h \in RxHeaders /\ BodyPool(h.pool) = b.pool
    BY <1>2, <2>3, <2>4, InRxPool
  <2>6. ReadSlot(h) # Free
    BY <1>1, <2>1, <2>3, <2>4 DEF Full, ReadSlot
  <2>7. h \in Mated(Taken, Orphans)
    BY <1>3, <2>5, <2>6 DEF Mated, Taken, RxRefs
  <2>8. mate[h] \in Taken /\ mate[h].pool = b.pool
    BY <1>4, <2>5, <2>7 DEF Mates
  <2>9. mate[h] # b
    BY <1>3, <1>4, <2>7 DEF Mates
  <2>10. mate[h] \in Ref
    BY <2>8 DEF Taken, RxRefs, RxHeaders, RxBodies
  <2> QED  BY <2>4, <2>7, <2>8, <2>9, <2>10
<1>6. ASSUME NEW i \in 1..NumSlots, NEW j \in 1..NumSlots, i # j
      PROVE  mate[hdr(i)] # mate[hdr(j)]
  <2>1. hdr(i).slot = i - 1 /\ hdr(j).slot = j - 1
    OBVIOUS
  <2>2. hdr(i) # hdr(j)
    BY <1>6, <2>1, ShmAssumption
  <2>3. hdr(i) \in Mated(Taken, Orphans) /\ hdr(j) \in Mated(Taken, Orphans)
    BY <1>5
  <2> HIDE DEF hdr
  <2> QED  BY <1>4, <2>2, <2>3 DEF Mates
<1> HIDE DEF hdr
<1>7. \A i \in 1..NumSlots : f[i] = mate[hdr(i)]
  OBVIOUS
<1> HIDE DEF f
<1>8. \A i \in 1..NumSlots : f[i] \in Ref /\ f[i].pool = b.pool /\ f[i] # b
  BY <1>5, <1>7
<1>9. \A i, j \in 1..NumSlots : i # j => f[i] # f[j]
  BY <1>6, <1>7
<1>10. NumSlots \in Nat
  BY ShmAssumption
<1>11. NumSlots < NumSlots
  BY <1>2, <1>8, <1>9, <1>10, OnePool
<1> QED  BY <1>10, <1>11

(* When _dma_case3 has copied a body and freed its source, there is always *)
(* room for the header, however few slots and many workers a service has:  *)
(* the branch of the daemon that would lose the message is never taken.    *)
THEOREM HeaderFindsRoom == Spec => []HeaderRoomAfterBody
<1>1. PairInv => HeaderRoomAfterBody
  BY RoomForHeader DEF PairInv, IInv
<1> QED  BY <1>1, PairInvariance, PTL

-----------------------------------------------------------------------------
(* The answer that a client gets is that of a service, or a failure that   *)
(* its bridge thread has found.                                            *)
Codes == {0, 200, 400, 404, 502}

(* A client whose request is on its way or over.  Only then is there a     *)
(* header with its id that a thread may come to read; until then its       *)
(* bridge thread has the only one, in a buffer of its own.                 *)
Sent(c) == bridge[c].pc \in {"wait", "expired"} \/ (bridge[c].pc = "done" /\ bridge_events[c] = "absent")
OwnRequest(c, r) == bridge[c].pc \in {"put", "full"} /\ bridge[c].body = r

SafeId(id) == id # Nil => Sent(id)
Safe(x) == x \in Header => x.status \in Codes /\ SafeId(x.rid)
SafeAt(r) == Safe(ReadSlot(r)) \/ (ReadSlot(r).status \in Codes /\ OwnRequest(ReadSlot(r).rid, r))
Stored == \A r \in Ref : SafeAt(r)

SafeMain(m) ==
  /\ m.pc \in WritePc => m.msg.header.status \in Codes /\ SafeId(m.msg.header.rid)
  /\ m.pc \in {"free_resp", "upstream"} => m.resp.status \in Codes
InWorker(w) == SafeMain(main[w]) /\ \A i \in TableIndex : SafeId(inbound[w][i].rid)

InArm == arm.pc \in {"free_header", "wake"} => arm.resp.status \in Codes /\ SafeId(arm.resp.rid)

(* The entries of a client, by how far its bridge thread is.               *)
EntryKept(c) == bridge_events[c] = "waiting" /\ bridge_responses[c] = None
EntryGone(c) == bridge_events[c] = "absent" /\ bridge_responses[c] = Nil
Entry(c) ==
  /\ bridge[c].pc = "new" => bridge_events[c] = "absent"
  /\ bridge[c].pc \in {"alloc", "put", "toobig", "full"} => EntryKept(c)
  /\ bridge[c].pc \in {"wait", "expired"} => bridge_events[c] # "absent"
  /\ bridge[c].pc = "done" =>
       IF bridge[c].answer.status \in {413, 503} THEN EntryKept(c) ELSE EntryGone(c)
  /\ bridge_events[c] = "set" =>
       bridge[c].pc \in {"wait", "expired"} /\ bridge_responses[c].status \in Codes

Requested == Stored /\ InArm /\ (\A w \in Worker : InWorker(w)) /\ \A c \in Client : Entry(c)

-----------------------------------------------------------------------------
(* A step keeps what is stored if each slot stays as it was, with the      *)
(* request of a client that is its own or has been sent, or gets contents  *)
(* that anybody may read.                                                  *)
SentKept == \A c \in Client : Sent(c) => Sent(c)'
SlotKept(r) ==
  /\ ReadSlot(r)' = ReadSlot(r)
  /\ \A c \in Client : OwnRequest(c, r) => OwnRequest(c, r)' \/ Sent(c)'

LEMMA SafeIdKept ==
  ASSUME SentKept, NEW id \in Client \cup {Nil}, SafeId(id)
  PROVE  SafeId(id)'
BY DEF SentKept, SafeId

LEMMA SafeKept ==
  ASSUME SentKept, NEW x, Safe(x)
  PROVE  Safe(x)'
<1> SUFFICES ASSUME x \in Header
             PROVE  x.status \in Codes /\ SafeId(x.rid)'
  BY DEF Safe, Header
<1>1. x.status \in Codes /\ SafeId(x.rid) /\ x.rid \in Client \cup {Nil}
  BY DEF Safe, Header
<1> QED  BY <1>1, SafeIdKept

LEMMA StoredKept ==
  ASSUME SentKept, Stored, \A r \in Ref : SlotKept(r) \/ SafeAt(r)'
  PROVE  Stored'
<1>1. ASSUME NEW r \in Ref, SlotKept(r)
      PROVE  SafeAt(r)'
  <2>1. PICK x : x = ReadSlot(r) /\ x = ReadSlot(r)'
    BY <1>1 DEF SlotKept
  <2>2. Safe(x) \/ (x \in Header /\ x.status \in Codes /\ OwnRequest(x.rid, r))
    BY <2>1 DEF Stored, SafeAt, Safe
  <2>3. CASE Safe(x)
    <3>1. Safe(x)'
      BY <2>3, SafeKept
    <3> QED  BY <2>1, <3>1 DEF SafeAt, Safe, SafeId, Sent
  <2>4. CASE x \in Header /\ x.status \in Codes /\ OwnRequest(x.rid, r)
    <3>1. x.rid \in Client \cup {Nil}
      BY <2>4 DEF Header
    <3>2. CASE x.rid = Nil
      BY <2>1, <2>4, <3>2 DEF SafeAt, Safe, SafeId
    <3>3. CASE x.rid \in Client
      <4>1. OwnRequest(x.rid, r)' \/ Sent(x.rid)'
        BY <1>1, <2>4, <3>3 DEF SlotKept
      <4> QED  BY <2>1, <2>4, <4>1 DEF SafeAt, Safe, SafeId
    <3> QED  BY <3>1, <3>2, <3>3
  <2> QED  BY <2>2, <2>3, <2>4
<1> QED  BY <1>1 DEF Stored

(* A body, like a free slot, is not a header.                              *)
LEMMA NotHeader == Free \notin Header /\ \A x \in Body : x \notin Header
<1>1. ASSUME NEW x \in Body, x \in Header
      PROVE  FALSE
  <2>1. DOMAIN x = {"name", "id", "att"}
    BY DEF Body
  <2>2. "ask" \in DOMAIN x
    BY <1>1 DEF Header
  <2> QED  BY <2>1, <2>2
<1> QED  BY <1>1, DataAssumption

LEMMA SlotsBut ==
  ASSUME Shapes, NEW q \in Ref, NEW x, mem' = [mem EXCEPT ![q.pool][q.slot] = x]
  PROVE  ReadSlot(q)' = x /\ \A r \in Ref : r # q => ReadSlot(r)' = ReadSlot(r)
<1>1. q.pool \in Pool /\ q.slot \in Slot /\ mem \in [Pool -> [Slot -> Contents]]
  BY DEF Ref, Shapes
<1>2. mem'[q.pool][q.slot] = x
  BY <1>1
<1>3. ASSUME NEW r \in Ref, r # q
      PROVE  mem'[r.pool][r.slot] = mem[r.pool][r.slot]
  <2>1. r.pool # q.pool \/ r.slot # q.slot
    BY <1>3 DEF Ref
  <2>2. r.pool \in Pool /\ r.slot \in Slot
    BY DEF Ref
  <2> QED  BY <1>1, <2>1, <2>2
<1> QED  BY <1>2, <1>3 DEF ReadSlot

LEMMA FreedSlot ==
  ASSUME Shapes, NEW q \in Ref, FreeSlot(q)
  PROVE  ReadSlot(q)' = Free /\ \A r \in Ref : r # q => ReadSlot(r)' = ReadSlot(r)
<1>1. mem' = [mem EXCEPT ![q.pool][q.slot] = Free]
  BY DEF FreeSlot
<1> QED  BY <1>1, SlotsBut

(* While the bridge threads stand still.                                   *)
Still == UNCHANGED <<bridge, bridge_events>>

LEMMA StillKeeps ==
  ASSUME Still
  PROVE  SentKept /\ (\A c \in Client, r \in Ref : OwnRequest(c, r) => OwnRequest(c, r)')
         /\ \A x : Safe(x) => Safe(x)'
<1>1. \A x : SafeId(x) => SafeId(x)'
  BY DEF Still, SafeId, Sent
<1> QED  BY <1>1 DEF Still, SentKept, Sent, OwnRequest, Safe

LEMMA MemoryKept ==
  ASSUME Stored, Still, mem' = mem
  PROVE  Stored'
BY StillKeeps, StoredKept DEF SlotKept, ReadSlot

LEMMA WrittenKept ==
  ASSUME Shapes, Stored, Still, NEW q \in Ref, NEW x, mem' = [mem EXCEPT ![q.pool][q.slot] = x], Safe(x)
  PROVE  Stored'
<1>1. ReadSlot(q)' = x /\ \A r \in Ref : r # q => ReadSlot(r)' = ReadSlot(r)
  BY SlotsBut
<1>2. Safe(x)'
  BY StillKeeps
<1>3. SafeAt(q)'
  BY <1>1, <1>2 DEF SafeAt, Safe, SafeId, Sent
<1> QED  BY <1>1, <1>3, StillKeeps, StoredKept DEF SlotKept

LEMMA FreedKept ==
  ASSUME Shapes, Stored, Still, NEW r \in Ref, FreeSlot(r)
  PROVE  Stored'
BY WrittenKept, NotHeader DEF FreeSlot, Safe

LEMMA AllocatedKept ==
  ASSUME Shapes, Stored, Still, NEW p \in Pool, ~Full(p), NEW x, AllocWrite(p, x), Safe(x)
  PROVE  Stored'
<1>1. NewRef(p) \in Ref /\ NewRef(p).pool = p /\ NewRef(p).slot = FirstFree(p)
  BY NewRefIs DEF NewRef
<1>2. mem' = [mem EXCEPT ![NewRef(p).pool][NewRef(p).slot] = x]
  BY <1>1 DEF AllocWrite
<1> QED  BY <1>1, <1>2, WrittenKept

(* What a thread reads that is not the bridge's.                           *)
LEMMA Readable ==
  ASSUME Stored, NEW own, OwnInv(own), NEW part, NEW use, NEW r, Owns(own, part, use, r),
         \A c \in Client : part # <<"bridge", c>>
  PROVE  /\ r \in Ref /\ Safe(ReadSlot(r))
         /\ use \in {"header", "message"} => ReadSlot(r) \in Header
<1>1. r \in Ref /\ own[r].part = part /\ own[r].use = use
  BY DEF Owns
<1>2. ASSUME ReadSlot(r) \in Header, NEW c \in Client, OwnRequest(c, r)
      PROVE  FALSE
  <2>1. r # Nil /\ HasAny(own, <<"bridge", c>>, bridge[c].body) /\ bridge[c].body = r
    BY <1>1, <1>2, OfSidecar, DataAssumption DEF OwnRequest
  <2>2. own[r].part = <<"bridge", c>>
    BY <2>1, OwnsIs
  <2> QED  BY <1>1, <2>2
<1>3. Safe(ReadSlot(r))
  <2> SUFFICES ASSUME ReadSlot(r) \in Header
               PROVE  Safe(ReadSlot(r))
    BY DEF Safe
  <2>1. ReadSlot(r).rid \in Client \cup {Nil}
    BY DEF Header
  <2> QED  BY <1>1, <1>2, <2>1 DEF Stored, SafeAt, Safe, SafeId
<1>4. use \in {"header", "message"} => ReadSlot(r) \in Header
  BY <1>1 DEF OwnInv, Memory, ReadSlot
<1> QED  BY <1>1, <1>3, <1>4

-----------------------------------------------------------------------------
(* The workers.                                                            *)
LEMMA SafeMainKept ==
  ASSUME Still, NEW m, SafeMain(m)
  PROVE  SafeMain(m)'
<1>1. \A x : SafeId(x) => SafeId(x)'
  BY DEF Still, SafeId, Sent
<1> QED  BY <1>1 DEF SafeMain

LEMMA HostStill == HostOnly => Still /\ UNCHANGED sidecarVars
BY DEF HostOnly, sidecarVars, tables, Still

LEMMA SidecarStill ==
  ASSUME InArm, \A c \in Client : Entry(c), UNCHANGED sidecarVars
  PROVE  InArm' /\ \A c \in Client : Entry(c)'
BY DEF InArm, Entry, EntryKept, EntryGone, None, SafeId, Sent, sidecarVars, tables

LEMMA WorkerMoved ==
  ASSUME Shapes, Requested, HostOnly, NEW w \in Worker, Stored', SafeMain(main'[w]),
         \A v \in Worker : v # w => main'[v] = main[v] /\ inbound'[v] = inbound[v],
         \A i \in TableIndex : SafeId(inbound'[w][i].rid)
  PROVE  Requested'
<1>1. Still /\ InArm' /\ \A c \in Client : Entry(c)'
  BY HostStill, SidecarStill DEF Requested
<1>2. \A x : SafeId(x) => SafeId(x)'
  BY <1>1 DEF Still, SafeId, Sent
<1>3. ASSUME NEW v \in Worker
      PROVE  InWorker(v)'
  <2>1. SafeMain(main'[v]) /\ \A i \in TableIndex : SafeId(inbound'[v][i].rid)
    BY DEF Requested, InWorker
  <2>2. PICK m : m = main'[v]
    OBVIOUS
  <2>3. SafeMain(m)'
    BY <1>1, <2>1, <2>2, SafeMainKept
  <2>4. (\A i \in TableIndex : SafeId(inbound[v][i].rid))'
    BY <1>2, <2>1 DEF TableIndex
  <2> QED  BY <2>2, <2>3, <2>4 DEF InWorker, SafeMain
<1> QED  BY <1>1, <1>3 DEF Requested

LEMMA PollerRequested ==
  ASSUME Shapes, Requested, NEW w \in Worker, Poller(w), HostOnly
  PROVE  Requested'
<1>1. main' = main /\ inbound' = inbound /\ mem' = mem
  BY DEF Poller, PollerGet, PollerNotify, PollerDeliver, PollerDrop, PollerClose, shmVars
<1>2. Stored'
  BY <1>1, HostStill, MemoryKept DEF Requested
<1> QED  BY <1>1, <1>2, WorkerMoved DEF Requested, InWorker

LEMMA SafeStart ==
  ASSUME Shapes, NEW w \in Worker, NEW m \in MainState, NEW idx, NEW ib, SafeId(ib.rid), NEW out,
         out.act = "respond" => out.status \in Codes,
         StartRespond(w, m, idx, ib, out) \/ StartCall(w, m, idx, out)
  PROVE  SafeMain(main'[w]) /\ \A v \in Worker : v # w => main'[v] = main[v]
<1>1. DOMAIN main = Worker
  BY HostAtIs
<1>2. ASSUME NEW msg, NEW conn, main' = [main EXCEPT ![w] = [m EXCEPT !.pc = "header", !.msg = msg, !.conn = conn]],
             msg.header.status \in Codes, SafeId(msg.header.rid)
      PROVE  SafeMain(main'[w]) /\ \A v \in Worker : v # w => main'[v] = main[v]
  <2>1. main'[w] = [m EXCEPT !.pc = "header", !.msg = msg, !.conn = conn]
    BY <1>1, <1>2
  <2>2. main'[w].pc = "header" /\ main'[w].msg = msg
    BY <2>1 DEF MainState
  <2> QED  BY <1>1, <1>2, <2>2 DEF SafeMain
<1>3. CASE StartRespond(w, m, idx, ib, out)
  <2>1. PICK msg : msg = ResponseMsg(w, ib, out.status, out.body)
    OBVIOUS
  <2>2. msg.header.status = out.status /\ msg.header.rid = ib.rid
    BY <2>1 DEF ResponseMsg
  <2>3. msg.header.status \in Codes /\ SafeId(msg.header.rid)
    BY <1>3, <2>2 DEF StartRespond
  <2>4. PICK conn : main' = [main EXCEPT ![w] = [m EXCEPT !.pc = "header", !.msg = msg, !.conn = conn]]
    BY <1>3, <2>1 DEF StartRespond
  <2> QED  BY <1>2, <2>3, <2>4
<1>4. CASE StartCall(w, m, idx, out)
  <2>1. PICK msg : msg = RequestMsg(w, out.svc, out.name)
    OBVIOUS
  <2>2. msg.header.status = 0 /\ msg.header.rid = Nil
    BY <2>1 DEF RequestMsg
  <2>3. PICK conn : main' = [main EXCEPT ![w] = [m EXCEPT !.pc = "header", !.msg = msg, !.conn = conn]]
    BY <1>4, <2>1 DEF StartCall
  <2>4. msg.header.status \in Codes /\ SafeId(msg.header.rid)
    BY <2>2 DEF SafeId, Codes
  <2> QED  BY <1>2, <2>3, <2>4
<1> QED  BY <1>3, <1>4

LEMMA RequestCodes ==
  ASSUME NEW svc \in Service, NEW h \in Header, HandleRequest(svc, h).act = "respond"
  PROVE  HandleRequest(svc, h).status \in Codes
<1>1. h.ask \in {"lookup", "noname", "badpath"}
  BY DEF Header
<1>2. CASE h.ask \in {"noname", "badpath"}
  BY <1>2 DEF HandleRequest, Respond, Codes
<1>3. CASE h.ask = "lookup" /\ svc = "frontend"
  BY <1>3 DEF HandleRequest, HandleFrontend, Call
<1>4. CASE h.ask = "lookup" /\ svc = "id-service"
  BY <1>4 DEF HandleRequest, HandleId, Respond, Codes
<1>5. CASE h.ask = "lookup" /\ svc = "attend-service"
  BY <1>5 DEF HandleRequest, HandleAttend, Respond, Codes
<1> QED  BY <1>1, <1>2, <1>3, <1>4, <1>5 DEF Service

LEMMA UpstreamCodes ==
  ASSUME NEW ctx \in Context, NEW status \in Codes, NEW body,
         HandleUpstreamResponse(ctx, status, body).act = "respond"
  PROVE  HandleUpstreamResponse(ctx, status, body).status \in Codes
<1>1. ctx.stage \in {"id", "attend"}
  BY DEF Context
<1>2. CASE status # 200
  BY <1>2 DEF HandleUpstreamResponse, Respond
<1>3. CASE status = 200 /\ ctx.stage = "id" /\ body.id = Nil
  BY <1>3 DEF HandleUpstreamResponse, Respond, Codes
<1>4. CASE status = 200 /\ ctx.stage = "id" /\ body.id # Nil
  BY <1>4 DEF HandleUpstreamResponse, Call
<1>5. CASE status = 200 /\ ctx.stage = "attend"
  BY <1>5 DEF HandleUpstreamResponse, Respond, Codes
<1> QED  BY <1>1, <1>2, <1>3, <1>4, <1>5

LEMMA NotifiedHeader ==
  ASSUME Shapes, Requested, NEW own, OwnInv(own), NEW w \in Worker, notify[w] # << >>
  PROVE  LET d == Head(notify[w])
             h == ReadSlot(IF d.case = "ingress" THEN d.body ELSE d.header)
         IN /\ d \in Descriptor /\ d.req_id % MaxPending \in TableIndex
            /\ h \in Header /\ SafeId(h.rid)
<1> DEFINE D == {e \in ReceivedDesc(w) : e.op = "req"}
<1>1. PICK d : d = Head(notify[w])
  OBVIOUS
<1>2. d \in D /\ Carries(own, <<"notify", w>>, d)
  <2>1. notify[w] \in Seq(D)
    BY HostAtIs DEF HostAt
  <2>2. d \in D /\ d = notify[w][1] /\ 1 \in DOMAIN notify[w]
    BY <1>1, <2>1
  <2> QED  BY <2>2, OfWorker DEF Holds
<1>3. /\ d \in ReceivedDesc(w) /\ d \in Descriptor /\ d.op = "req" /\ d.req_id \in Nat /\ d # Nil
      /\ d.case \in {"ingress", "local"}
  BY <1>2, DataAssumption DEF ReceivedDesc, Descriptor
<1>4. PICK r, use : /\ r = (IF d.case = "ingress" THEN d.body ELSE d.header)
                    /\ use \in {"header", "message"} /\ Owns(own, <<"notify", w>>, use, r)
  <2>1. CASE d.case = "ingress"
    <3>1. BodyAs(d) = "message" /\ d.body # Nil
      BY <1>3, <2>1, DataAssumption DEF BodyAs, Ingress, ReceivedDesc
    <3> QED  BY <1>2, <1>3, <2>1, <3>1 DEF Carries, HasBody
  <2>2. CASE d.case = "local"
    <3>1. d.header # Nil
      BY <1>3, <2>2 DEF Ingress, ReceivedDesc
    <3> QED  BY <1>2, <1>3, <2>2, <3>1 DEF Carries, HasHeader
  <2> QED  BY <1>3, <2>1, <2>2
<1>5. ReadSlot(r) \in Header /\ Safe(ReadSlot(r))
  <2>1. \A c \in Client : <<"notify", w>> # <<"bridge", c>>
    OBVIOUS
  <2> QED  BY <1>4, <2>1, Readable DEF Requested
<1>6. d.req_id % MaxPending \in TableIndex
  BY <1>3, HostAssumption DEF TableIndex
<1> QED  BY <1>1, <1>3, <1>4, <1>5, <1>6 DEF Safe

LEMMA OnRequestRequested ==
  ASSUME Shapes, Requested, NEW own, OwnInv(own), NEW w \in Worker, OnRequest(w), HostOnly
  PROVE  Requested'
<1> DEFINE d == Head(notify[w])
           h == ReadSlot(IF d.case = "ingress" THEN d.body ELSE d.header)
           idx == d.req_id % MaxPending
           ib == [req_id |-> d.req_id, rid |-> h.rid, src |-> h.src]
           m == [IdleMain EXCEPT !.rx_header = d.header, !.rx_body = d.body]
           out == HandleRequest(ServiceOf[w], h)
<1>1. d \in Descriptor /\ idx \in TableIndex /\ h \in Header /\ SafeId(h.rid)
  BY NotifiedHeader DEF OnRequest
<1>2. inbound' = [inbound EXCEPT ![w][idx] = ib] /\ (StartRespond(w, m, idx, ib, out) \/ StartCall(w, m, idx, out))
  BY DEF OnRequest
<1>3. m \in MainState
  BY <1>1, IdleMainIs DEF Descriptor
<1>4. out.act = "respond" => out.status \in Codes
  <2> HIDE DEF h
  <2> QED  BY <1>1, RequestCodes, ShmAssumption
<1>5. SafeId(ib.rid)
  BY <1>1
<1> HIDE DEF d, h, idx, ib, m, out
<1>6. SafeMain(main'[w]) /\ \A v \in Worker : v # w => main'[v] = main[v]
  BY <1>2, <1>3, <1>4, <1>5, SafeStart
<1>7. /\ \A v \in Worker : v # w => inbound'[v] = inbound[v]
      /\ \A i \in TableIndex : SafeId(inbound'[w][i].rid)
  <2>1. /\ \A v \in Worker : v # w => inbound'[v] = inbound[v]
        /\ \A i \in TableIndex : inbound'[w][i] = IF i = idx THEN ib ELSE inbound[w][i]
    BY <1>1, <1>2, HostAtIs
  <2> QED  BY <1>5, <2>1 DEF Requested, InWorker
<1>8. Stored'
  <2>1. mem' = mem
    BY DEF OnRequest, shmVars
  <2> QED  BY <2>1, HostStill, MemoryKept DEF Requested
<1> QED  BY <1>6, <1>7, <1>8, WorkerMoved


LEMMA OnResponseRequested ==
  ASSUME Shapes, Requested, NEW own, OwnInv(own), NEW w \in Worker, OnResponse(w), HostOnly
  PROVE  Requested'
<1>1. PICK u \in waiting[w], r \in delivered[w] :
        main' = [main EXCEPT ![w] =
                   [IdleMain EXCEPT
                      !.pc = "free_resp",
                      !.rx_header = r.desc.header, !.rx_body = r.desc.body,
                      !.conn = [idx |-> u.idx, ctx |-> u.ctx],
                      !.resp = [status |-> ReadSlot(r.desc.header).status,
                                body |-> ReadSlot(r.desc.body)]]]
  BY DEF OnResponse
<1>2. ReadSlot(r.desc.header).status \in Codes
  <2>1. r.desc \in ReceivedDesc(w) /\ r.desc.op = "resp"
    BY HostAtIs DEF HostAt, Delivered
  <2>2. r.desc # Nil /\ r.desc.header # Nil
    BY <2>1, DataAssumption DEF ReceivedDesc, Ingress
  <2>3. Carries(own, <<"pipe", w>>, r.desc)
    BY OfWorker DEF Pipes
  <2>4. Owns(own, <<"pipe", w>>, "header", r.desc.header)
    BY <2>2, <2>3 DEF Carries, HasHeader
  <2>5. \A c \in Client : <<"pipe", w>> # <<"bridge", c>>
    OBVIOUS
  <2>6. ReadSlot(r.desc.header) \in Header /\ Safe(ReadSlot(r.desc.header))
    BY <2>4, <2>5, Readable DEF Requested
  <2> QED  BY <2>6 DEF Safe
<1>3. main'[w].pc = "free_resp" /\ main'[w].resp.status \in Codes /\ \A v \in Worker : v # w => main'[v] = main[v]
  BY <1>1, <1>2, HostAtIs DEF IdleMain
<1>4. SafeMain(main'[w])
  BY <1>3 DEF SafeMain, WritePc
<1>5. Stored' /\ inbound' = inbound
  BY HostStill, MemoryKept DEF Requested, OnResponse, shmVars
<1> QED  BY <1>3, <1>4, <1>5, WorkerMoved DEF Requested, InWorker

LEMMA HandlerRequested ==
  ASSUME Shapes, Requested, NEW w \in Worker, Upstream(w) \/ WriteFailed(w), HostOnly
  PROVE  Requested'
<1>1. Stored' /\ inbound' = inbound
  BY HostStill, MemoryKept DEF Requested, Upstream, WriteFailed, shmVars
<1>2. SafeMain(main'[w]) /\ \A v \in Worker : v # w => main'[v] = main[v]
  <2>1. CASE Upstream(w)
    <3> DEFINE c == main[w].conn
               r == main[w].resp
               out == HandleUpstreamResponse(c.ctx, r.status, r.body)
    <3>1. c.idx \in TableIndex /\ c.ctx \in Context /\ r.status \in Codes
      BY <2>1, MainIs DEF Upstream, MainShape, Conn, Requested, InWorker, SafeMain
    <3>2. out.act = "respond" => out.status \in Codes
      BY <3>1, UpstreamCodes
    <3>3. IdleMain \in MainState
      BY DEF IdleMain, MainState, OptRef
    <3>4. SafeId(inbound[w][c.idx].rid)
      BY <3>1 DEF Requested, InWorker
    <3>5. StartRespond(w, IdleMain, c.idx, inbound[w][c.idx], out) \/ StartCall(w, IdleMain, c.idx, out)
      BY <2>1 DEF Upstream
    <3> HIDE DEF c, r, out
    <3> QED  BY <3>2, <3>3, <3>4, <3>5, SafeStart
  <2>2. CASE WriteFailed(w)
    <3> DEFINE m == main[w]
               idx == m.conn.idx
               clean == [AfterHandler(m) EXCEPT !.pc = "header"]
               out == Respond(502, NoBody)
    <3>1. AfterHandler(m) \in MainState /\ idx \in TableIndex
      BY <2>2, MainIs, AfterHandlerIs DEF WriteFailed, MainShape, WritePc, Conn
    <3>2. CASE m.msg.op = "req"
      <4>1. clean \in MainState
        <5> HIDE DEF m
        <5> QED  BY <3>1 DEF MainState
      <4>2. out.act = "respond" /\ out.status \in Codes
        BY DEF Respond, Codes
      <4>3. SafeId(inbound[w][idx].rid)
        BY <3>1 DEF Requested, InWorker
      <4>4. StartRespond(w, clean, idx, inbound[w][idx], out)
        BY <2>2, <3>2 DEF WriteFailed
      <4> HIDE DEF m, idx, clean, out
      <4> QED  BY <4>1, <4>2, <4>3, <4>4, SafeStart
    <3>3. CASE m.msg.op # "req"
      <4>1. main' = [main EXCEPT ![w] = AfterHandler(m)]
        BY <2>2, <3>3 DEF WriteFailed
      <4>2. main'[w] = AfterHandler(m) /\ \A v \in Worker : v # w => main'[v] = main[v]
        BY <4>1, HostAtIs
      <4>3. AfterHandler(m).pc \in {"idle", "free_req"}
        BY DEF AfterHandler, IdleMain
      <4> QED  BY <4>2, <4>3 DEF SafeMain, WritePc
    <3> QED  BY <3>2, <3>3
  <2> QED  BY <2>1, <2>2
<1> QED  BY <1>1, <1>2, WorkerMoved DEF Requested, InWorker

(* Steps that leave message and response alone.                            *)
LEMMA SafeMainAfter ==
  ASSUME Shapes, Requested, NEW w \in Worker,
         main'[w].msg = main[w].msg, main'[w].resp = main[w].resp,
         main'[w].pc \in WritePc => main[w].pc \in WritePc,
         main'[w].pc \in {"free_resp", "upstream"} => main[w].pc \in {"free_resp", "upstream"}
  PROVE  SafeMain(main'[w])
BY DEF Requested, InWorker, SafeMain

LEMMA FreeRxRequested ==
  ASSUME Shapes, Requested, NEW w \in Worker, FreeRxHeader(w) \/ FreeRxBody(w), HostOnly
  PROVE  Requested'
<1>1. main[w].rx_header # Nil => main[w].rx_header \in Ref
  BY MainIs DEF MainState, OptRef
<1>2. main[w].pc \in {"free_req", "free_resp"} => main[w].rx_body \in Ref
  BY MainIs DEF MainShape, MainState, OptRef
<1>3. Stored' /\ inbound' = inbound
  BY <1>1, <1>2, HostStill, FreedKept DEF Requested, FreeRxHeader, FreeRxBody
<1>4. DOMAIN main = Worker /\ main[w] \in MainState
  BY MainIs
<1>5. /\ main'[w].msg = main[w].msg /\ main'[w].resp = main[w].resp
      /\ main'[w].pc \notin WritePc
      /\ main'[w].pc \in {"free_resp", "upstream"} => main[w].pc \in {"free_resp", "upstream"}
      /\ \A v \in Worker : v # w => main'[v] = main[v]
  <2>1. CASE FreeRxHeader(w)
    <3>1. main' = [main EXCEPT ![w].rx_header = Nil] /\ main[w].pc \in {"free_req", "free_resp"}
      BY <2>1 DEF FreeRxHeader
    <3>2. main'[w] = [main[w] EXCEPT !.rx_header = Nil] /\ \A v \in Worker : v # w => main'[v] = main[v]
      BY <1>4, <3>1
    <3>3. main'[w].msg = main[w].msg /\ main'[w].resp = main[w].resp /\ main'[w].pc = main[w].pc
      BY <1>4, <3>2 DEF MainState
    <3> QED  BY <3>1, <3>2, <3>3 DEF WritePc
  <2>2. CASE FreeRxBody(w)
    <3>1. PICK pc : pc = CASE main[w].pc = "free_resp" -> "upstream"
                           [] main[w].pc = "free_req" /\ notify[w] # << >> -> "reading"
                           [] OTHER -> "idle"
      OBVIOUS
    <3>2. main'[w] = [main[w] EXCEPT !.rx_body = Nil, !.pc = pc] /\ \A v \in Worker : v # w => main'[v] = main[v]
      BY <1>4, <2>2, <3>1 DEF FreeRxBody
    <3>3. main'[w].msg = main[w].msg /\ main'[w].resp = main[w].resp /\ main'[w].pc = pc
      BY <1>4, <3>2 DEF MainState
    <3>4. pc \in {"upstream", "reading", "idle"} /\ (pc = "upstream" => main[w].pc = "free_resp")
      BY <3>1
    <3> QED  BY <3>2, <3>3, <3>4 DEF WritePc
  <2> QED  BY <2>1, <2>2
<1>6. SafeMain(main'[w])
  BY <1>5, SafeMainAfter
<1> QED  BY <1>3, <1>5, <1>6, WorkerMoved DEF Requested, InWorker

LEMMA WriteRequested ==
  ASSUME Shapes, Requested, NEW w \in Worker, HostOnly,
         WriteHeader(w) \/ WriteBody(w) \/ UndoHeader(w) \/ UndoBody(w)
  PROVE  Requested'
<1>1. DOMAIN main = Worker /\ main[w] \in MainState /\ MainShape(w, main[w]) /\ main[w].pc \in WritePc
  BY MainIs DEF WriteHeader, WriteBody, UndoHeader, UndoBody, WritePc
<1>2. main[w].msg \in Message /\ main[w].msg.header.status \in Codes /\ SafeId(main[w].msg.header.rid)
  BY <1>1 DEF MainShape, Requested, InWorker, SafeMain
<1>3. Stored' /\ inbound' = inbound
  <2>1. CASE WriteHeader(w)
    <3>1. HostPool(w, "tx_header") \in Pool
      BY HostPools DEF Kind
    <3>2. Safe(main[w].msg.header)
      BY <1>2 DEF Safe
    <3> QED  BY <2>1, <3>1, <3>2, HostStill, AllocatedKept, MemoryKept DEF WriteHeader, Requested
  <2>2. CASE WriteBody(w)
    <3>1. HostPool(w, "tx_body") \in Pool
      BY HostPools DEF Kind
    <3>2. Safe(main[w].msg.body)
      BY <1>2, NotHeader DEF Safe, Message
    <3> QED  BY <2>2, <3>1, <3>2, HostStill, AllocatedKept, MemoryKept DEF WriteBody, Requested
  <2>3. CASE UndoHeader(w)
    <3>1. main[w].tx_header \in Ref
      BY <1>1, <2>3 DEF UndoHeader, MainState, OptRef
    <3> QED  BY <2>3, <3>1, HostStill, FreedKept DEF UndoHeader, Requested
  <2>4. CASE UndoBody(w)
    <3>1. main[w].tx_body \in Ref
      BY <1>1, <2>4 DEF UndoBody, MainShape, MainState, OptRef
    <3> QED  BY <2>4, <3>1, HostStill, FreedKept DEF UndoBody, Requested
  <2> QED  BY <2>1, <2>2, <2>3, <2>4
<1>4. /\ main'[w].msg = main[w].msg /\ main'[w].resp = main[w].resp /\ main'[w].pc \in WritePc
      /\ \A v \in Worker : v # w => main'[v] = main[v]
  <2>1. CASE WriteHeader(w)
    BY <1>1, <2>1 DEF WriteHeader, MainState, WritePc
  <2>2. CASE WriteBody(w)
    BY <1>1, <2>2 DEF WriteBody, MainState, WritePc
  <2>3. CASE UndoHeader(w) \/ UndoBody(w)
    BY <1>1, <2>3 DEF UndoHeader, UndoBody, MainState, WritePc
  <2> QED  BY <2>1, <2>2, <2>3
<1>5. SafeMain(main'[w])
  BY <1>1, <1>4, SafeMainAfter DEF WritePc
<1> QED  BY <1>3, <1>4, <1>5, WorkerMoved DEF Requested, InWorker

LEMMA EnqueueRequested ==
  ASSUME Shapes, Requested, NEW w \in Worker, Enqueue(w), HostOnly
  PROVE  Requested'
<1>1. DOMAIN main = Worker /\ main[w] \in MainState
  BY MainIs
<1>2. Stored' /\ inbound' = inbound
  BY HostStill, MemoryKept DEF Requested, Enqueue
<1>3. SafeMain(main'[w]) /\ \A v \in Worker : v # w => main'[v] = main[v]
  <2>1. CASE main' = [main EXCEPT ![w] = AfterHandler(main[w])]
    <3>1. main'[w] = AfterHandler(main[w])
      BY <1>1, <2>1
    <3>2. AfterHandler(main[w]).pc \in {"idle", "free_req"}
      BY DEF AfterHandler, IdleMain
    <3> QED  BY <1>1, <2>1, <3>1, <3>2 DEF SafeMain, WritePc
  <2>2. CASE main[w].pc = "put" /\ main' = [main EXCEPT ![w].pc = "undo"]
    <3>1. /\ main'[w].msg = main[w].msg /\ main'[w].resp = main[w].resp /\ main'[w].pc = "undo"
          /\ \A v \in Worker : v # w => main'[v] = main[v]
      BY <1>1, <2>2 DEF MainState
    <3> QED  BY <2>2, <3>1, SafeMainAfter DEF WritePc
  <2> QED  BY <2>1, <2>2 DEF Enqueue
<1> QED  BY <1>2, <1>3, WorkerMoved DEF Requested, InWorker

-----------------------------------------------------------------------------
(* The DPA daemon.                                                         *)
LEMMA DpaFrame ==
  ASSUME Requested, DpaOnly, Stored'
  PROVE  Requested'
<1>1. Still /\ InArm' /\ \A c \in Client : Entry(c)'
  BY SidecarStill DEF Requested, DpaOnly, Still, sidecarVars, tables
<1>2. \A w \in Worker : main'[w] = main[w] /\ inbound'[w] = inbound[w]
  BY DEF DpaOnly, hostVars
<1>3. \A x : SafeId(x) => SafeId(x)'
  BY <1>1 DEF Still, SafeId, Sent
<1>4. \A w \in Worker : InWorker(w)'
  BY <1>2, <1>3 DEF Requested, InWorker, SafeMain, TableIndex
<1> QED  BY <1>1, <1>4 DEF Requested

LEMMA TxRequested ==
  ASSUME Shapes, Requested, NEW own, OwnInv(own), (\E w \in Worker : TxGet(w)) \/ DpaTxStep, DpaOnly
  PROVE  Requested'
<1>1. Stored /\ Still
  BY DEF Requested, DpaOnly, Still, sidecarVars, tables
<1>2. CASE (\E w \in Worker : TxGet(w)) \/ TxRequeue \/ TxPut
  BY <1>1, <1>2, MemoryKept, DpaFrame DEF TxGet, TxRequeue, TxPut
<1>3. CASE TxFree \/ TxDrop
  <2>1. dpaTx.desc.header \in Ref /\ FreeSlot(dpaTx.desc.header)
    BY <1>3, TxIs DEF TxFree, TxDrop, DpaTxShape, SentDesc, DpuDesc
  <2> QED  BY <1>1, <2>1, FreedKept, DpaFrame
<1>4. CASE TxCopy
  <2>1. dpaTx.src \in Worker /\ dpaTx.desc \in SentDesc(dpaTx.src)
    BY <1>4, TxIs DEF TxCopy, DpaTxShape
  <2>2. dpaTx.desc.header \in Ref /\ dpaTx.desc # Nil /\ dpaTx.desc.header # Nil
    BY <2>1, DataAssumption DEF SentDesc
  <2>3. Owns(own, <<"dpaTx", Nil>>, "header", dpaTx.desc.header)
    BY <2>2, OfDpa DEF Carries, HasHeader
  <2>4. \A c \in Client : <<"dpaTx", Nil>> # <<"bridge", c>>
    OBVIOUS
  <2>5. Safe(ReadSlot(dpaTx.desc.header))
    BY <1>1, <2>3, <2>4, Readable
  <2>6. DpuTxHeader \in Pool
    BY DEF Pool
  <2>7. Stored'
    BY <1>1, <1>4, <2>5, <2>6, AllocatedKept, MemoryKept DEF TxCopy
  <2> QED  BY <2>7, DpaFrame
<1> QED  BY <1>2, <1>3, <1>4 DEF DpaTxStep

LEMMA RxRequested ==
  ASSUME Shapes, Requested, NEW own, OwnInv(own), DpaRxStep, DpaOnly
  PROVE  Requested'
<1>1. Stored /\ Still
  BY DEF Requested, DpaOnly, Still, sidecarVars, tables
<1>2. \A c \in Client : <<"dpaRx", Nil>> # <<"bridge", c>>
  OBVIOUS
<1>3. CASE RxGet \/ RxRequeue \/ RxPut
  BY <1>1, <1>3, MemoryKept, DpaFrame DEF RxGet, RxRequeue, RxPut
<1>4. CASE RxFreeBody \/ RxFreeHeader \/ RxDrop
  <2>1. \E r \in Ref : FreeSlot(r)
    <3>1. CASE RxFreeBody
      <4>1. dpaRx.desc \in RoutedDesc
        BY <3>1, RxIs DEF RxFreeBody, DpaRxShape
      <4> QED  BY <3>1, <4>1, RoutedIs DEF RxFreeBody
    <3>2. CASE RxFreeHeader
      BY <3>2, RxIs DEF RxFreeHeader, DpaRxShape
    <3>3. CASE RxDrop
      <4>1. dpaRx.body \in OptRef /\ dpaRx.header \in OptRef /\ (dpaRx.body # Nil \/ dpaRx.header # Nil)
        BY <3>3, RxIs DEF RxDrop, DpaRxShape
      <4> QED  BY <3>3, <4>1 DEF RxDrop, OptRef
    <3> QED  BY <1>4, <3>1, <3>2, <3>3
  <2> QED  BY <1>1, <2>1, FreedKept, DpaFrame
<1>5. CASE RxCopyBody
  <2>1. dpaRx.desc \in RoutedDesc
    BY <1>5, RxIs DEF RxCopyBody, DpaRxShape
  <2>2. /\ dpaRx.desc # Nil /\ dpaRx.desc.dst \in Worker /\ dpaRx.desc.body # Nil
    BY <2>1, RoutedIs, DataAssumption
  <2>3. Owns(own, <<"dpaRx", Nil>>, BodyAs(dpaRx.desc), dpaRx.desc.body)
    BY <2>2, OfDpa DEF Carries, HasBody
  <2>4. Safe(ReadSlot(dpaRx.desc.body))
    BY <1>1, <1>2, <2>3, Readable
  <2>5. HostPool(dpaRx.desc.dst, "rx_body") \in Pool
    BY <2>2, HostPools DEF Kind
  <2>6. Stored'
    BY <1>1, <1>5, <2>4, <2>5, AllocatedKept, MemoryKept DEF RxCopyBody
  <2> QED  BY <2>6, DpaFrame
<1>6. CASE RxCopyHeader
  <2>1. /\ dpaRx.desc # Nil /\ dpaRx.desc.dst \in Worker /\ dpaRx.desc.header # Nil
    BY <1>6, RxIs, DataAssumption DEF RxCopyHeader, DpaRxShape
  <2>2. Owns(own, <<"dpaRx", Nil>>, "header", dpaRx.desc.header)
    BY <2>1, OfDpa DEF Carries, HasHeader
  <2>3. Safe(ReadSlot(dpaRx.desc.header))
    BY <1>1, <1>2, <2>2, Readable
  <2>4. HostPool(dpaRx.desc.dst, "rx_header") \in Pool
    BY <2>1, HostPools DEF Kind
  <2>5. Stored'
    BY <1>1, <1>6, <2>3, <2>4, AllocatedKept, MemoryKept DEF RxCopyHeader
  <2> QED  BY <2>5, DpaFrame
<1> QED  BY <1>3, <1>4, <1>5, <1>6 DEF DpaRxStep
-----------------------------------------------------------------------------
(* The sidecar: its routing thread.                                        *)
LEMMA HostSafe ==
  ASSUME Shapes, Requested, SentKept, SidecarOnly
  PROVE  \A w \in Worker : InWorker(w)'
<1> SUFFICES ASSUME NEW w \in Worker
             PROVE  InWorker(w)'
  OBVIOUS
<1>1. main' = main /\ inbound' = inbound
  BY DEF SidecarOnly, hostVars
<1>2. SafeMain(main[w])'
  <2>1. main[w].pc \in WritePc => main[w].msg.header.rid \in Client \cup {Nil}
    BY MainIs DEF MainShape, Message, Header
  <2>2. PICK id : id = main[w].msg.header.rid
    OBVIOUS
  <2>3. main[w].pc \in WritePc => SafeId(id)'
    BY <2>1, <2>2, SafeIdKept DEF Requested, InWorker, SafeMain
  <2> QED  BY <1>1, <2>2, <2>3 DEF Requested, InWorker, SafeMain, SafeId, Sent
<1>3. ASSUME NEW i \in TableIndex
      PROVE  SafeId(inbound[w][i].rid)'
  <2>1. PICK id : id = inbound[w][i].rid
    OBVIOUS
  <2>2. id \in Client \cup {Nil} /\ SafeId(id)
    BY <2>1, HostAtIs DEF Inbound, Requested, InWorker
  <2>3. SafeId(id)'
    BY <2>2, SafeIdKept
  <2> QED  BY <1>1, <2>1, <2>3 DEF SafeId, Sent
<1> QED  BY <1>2, <1>3 DEF InWorker, TableIndex

LEMMA ArmSafe ==
  ASSUME Shapes, Requested, SentKept, arm'.resp = arm.resp,
         arm'.pc \in {"free_header", "wake"} => arm.pc \in {"free_header", "wake"}
  PROVE  InArm'
<1> SUFFICES ASSUME arm'.pc \in {"free_header", "wake"}
             PROVE  (arm.resp.status \in Codes /\ SafeId(arm.resp.rid))'
  BY DEF InArm
<1>1. arm.resp.status \in Codes /\ SafeId(arm.resp.rid) /\ arm.resp.rid \in Client \cup {Nil}
  BY ArmIs DEF Requested, InArm, ArmShape, Reply
<1>2. PICK id : id = arm.resp.rid /\ id = arm'.resp.rid
  OBVIOUS
<1>3. SafeId(id)'
  BY <1>1, <1>2, SafeIdKept
<1> QED  BY <1>1, <1>2, <1>3 DEF SafeId, Sent

LEMMA ArmRequested ==
  ASSUME Shapes, Requested, NEW own, OwnInv(own), SidecarOnly,
         Arm, ~DeliverEvent
  PROVE  Requested'
<1>1. UNCHANGED <<bridge, bridge_events, bridge_responses>>
  BY DEF Arm, ArmGet, RouteRequest, RouteResponse, ArmPut, Cleanup, DeliverBody, DeliverHeader, tables
<1>2. Stored /\ Still /\ SentKept
  BY <1>1, StillKeeps DEF Requested, Still
<1>3. Stored'
  <2>1. CASE ArmGet \/ RouteRequest \/ RouteResponse \/ ArmPut
    BY <1>2, <2>1, MemoryKept DEF ArmGet, RouteRequest, RouteResponse, ArmPut, shmVars
  <2>2. CASE Cleanup \/ DeliverBody \/ DeliverHeader
    <3>1. /\ arm.pc \in {"cleanup", "free_header", "route"}
          /\ arm.desc # Nil /\ arm.desc \in Descriptor /\ arm.desc.header \in Ref /\ arm.desc.body \in OptRef
      BY <2>2, ArmIs, DataAssumption DEF Cleanup, DeliverBody, DeliverHeader, ArmShape, OptDesc, DpuDesc, Descriptor
    <3>2. FreeSlot(arm.desc.header) \/ (arm.desc.body \in Ref /\ FreeSlot(arm.desc.body))
      BY <2>2, <3>1, ArmIs DEF Cleanup, DeliverBody, DeliverHeader, ArmShape, DpuDesc, OptRef
    <3> QED  BY <1>2, <3>1, <3>2, FreedKept
  <2> QED  BY <2>1, <2>2 DEF Arm
<1>4. InArm'
  <2>1. CASE ArmGet \/ RouteRequest \/ RouteResponse \/ ArmPut \/ Cleanup
    <3>1. CASE ArmGet \/ RouteResponse
      BY <3>1, ArmIs DEF ArmGet, RouteResponse, InArm
    <3>2. CASE RouteRequest
      BY <3>2, ArmIs DEF RouteRequest, InArm
    <3>3. CASE ArmPut
      BY <3>3, ArmIs DEF ArmPut, IdleArm, InArm
    <3>4. CASE Cleanup
      BY <3>4, ArmIs DEF Cleanup, IdleArm, InArm
    <3> QED  BY <2>1, <3>1, <3>2, <3>3, <3>4
  <2>2. CASE DeliverHeader
    <3>1. arm.pc = "free_header" /\ arm'.resp = arm.resp
      BY <2>2, ArmIs DEF DeliverHeader
    <3> QED  BY <1>2, <3>1, ArmSafe
  <2>3. CASE DeliverBody
    <3>1. PICK h : h = ReadSlot(arm.desc.header)
      OBVIOUS
    <3>2. arm'.resp.status = h.status /\ arm'.resp.rid = h.rid
      BY <2>3, <3>1, ArmIs DEF DeliverBody
    <3>3. arm.desc # Nil /\ arm.desc.header # Nil
      BY <2>3, ArmIs, DataAssumption DEF DeliverBody, ArmShape, DpuDesc
    <3>4. Owns(own, <<"arm", Nil>>, "header", arm.desc.header)
      BY <3>3, OfSidecar DEF Carries, HasHeader
    <3>5. \A c \in Client : <<"arm", Nil>> # <<"bridge", c>>
      OBVIOUS
    <3>6. h \in Header /\ Safe(h)
      BY <1>2, <3>1, <3>4, <3>5, Readable
    <3>7. h.status \in Codes /\ SafeId(h.rid)
      BY <3>6 DEF Safe
    <3> QED  BY <1>1, <3>2, <3>7 DEF InArm, SafeId, Sent
  <2> QED  BY <2>1, <2>2, <2>3 DEF Arm
<1>5. \A c \in Client : Entry(c)'
  BY <1>1 DEF Requested, Entry, EntryKept, EntryGone, None
<1> QED  BY <1>2, <1>3, <1>4, <1>5, HostSafe DEF Requested

LEMMA EventRequested ==
  ASSUME Shapes, Requested, DeliverEvent, SidecarOnly
  PROVE  Requested'
<1>1. PICK c : c = arm.resp.rid
  OBVIOUS
<1>2. arm.resp.status \in Codes /\ SafeId(c) /\ c \in Client \cup {Nil}
  BY <1>1, ArmIs DEF DeliverEvent, Requested, InArm, ArmShape, Reply
<1>3. Nil \notin Client /\ DOMAIN bridge_events = Client /\ DOMAIN bridge_responses = Client
  BY SidecarIs, ShmAssumption
<1>4. bridge' = bridge /\ mem' = mem /\ arm' = IdleArm
  BY DEF DeliverEvent, shmVars
<1>5. \/ UNCHANGED tables
      \/ /\ c \in Client /\ bridge_events[c] # "absent"
         /\ bridge_events' = [bridge_events EXCEPT ![c] = "set"]
         /\ bridge_responses' = [bridge_responses EXCEPT ![c] =
              [status |-> arm.resp.status, body |-> arm.resp.body]]
  <2>1. CASE c = Nil
    <3>1. ASSUME NEW T, NEW f \in [Client -> T], NEW x
          PROVE  [f EXCEPT ![Nil] = x] = f
      BY <1>3
    <3>2. [bridge_events EXCEPT ![c] = "set"] = bridge_events
      BY <2>1, <3>1, SidecarIs
    <3>3. \A x : [bridge_responses EXCEPT ![c] = x] = bridge_responses
      BY <2>1, <3>1, SidecarIs
    <3> QED  BY <1>1, <3>2, <3>3 DEF DeliverEvent, Addressee, tables
  <2>2. CASE c \in Client
    BY <1>1, <2>2 DEF DeliverEvent, Addressee
  <2> QED  BY <1>2, <2>1, <2>2
<1>6. InArm'
  BY <1>4 DEF InArm, IdleArm
<1>7. CASE UNCHANGED tables
  <2>1. Still /\ SentKept /\ Stored'
    BY <1>4, <1>7, StillKeeps, MemoryKept DEF Requested, Still, tables
  <2>2. \A d \in Client : Entry(d)'
    BY <1>4, <1>7 DEF Requested, Entry, EntryKept, EntryGone, None, tables
  <2> QED  BY <1>6, <2>1, <2>2, HostSafe DEF Requested
<1>8. CASE /\ c \in Client /\ bridge_events[c] # "absent"
           /\ bridge_events' = [bridge_events EXCEPT ![c] = "set"]
           /\ bridge_responses' = [bridge_responses EXCEPT ![c] =
                [status |-> arm.resp.status, body |-> arm.resp.body]]
  <2>1. bridge[c].pc \in {"wait", "expired"}
    BY <1>2, <1>3, <1>8 DEF SafeId, Sent
  <2>2. /\ bridge_events'[c] = "set" /\ bridge_responses'[c].status = arm.resp.status
        /\ \A d \in Client : d # c => bridge_events'[d] = bridge_events[d] /\ bridge_responses'[d] = bridge_responses[d]
    BY <1>3, <1>8
  <2>3. SentKept
    BY <1>4, <2>1, <2>2 DEF SentKept, Sent
  <2>4. Stored'
    BY <1>4, <2>3, StoredKept DEF Requested, SlotKept, ReadSlot, OwnRequest
  <2>5. Entry(c)'
    BY <1>2, <1>4, <2>1, <2>2 DEF Entry
  <2>6. \A d \in Client : d # c => Entry(d)'
    BY <1>4, <2>2 DEF Requested, Entry, EntryKept, EntryGone, None
  <2> QED  BY <1>6, <2>3, <2>4, <2>5, <2>6, HostSafe DEF Requested
<1> QED  BY <1>5, <1>7, <1>8

-----------------------------------------------------------------------------
(* The bridge threads.                                                     *)
LEMMA BridgeFrame ==
  ASSUME Shapes, Requested, SidecarOnly, arm' = arm, NEW c \in Client, Entry(c)', Sent(c) => Sent(c)',
         \A b \in Client : b # c => /\ bridge'[b] = bridge[b] /\ bridge_events'[b] = bridge_events[b]
                                    /\ bridge_responses'[b] = bridge_responses[b],
         \A r \in Ref : \/ SafeAt(r)'
                        \/ ReadSlot(r)' = ReadSlot(r) /\ (OwnRequest(c, r) => OwnRequest(c, r)' \/ Sent(c)')
  PROVE  Requested'
<1>1. SentKept
  <2>1. \A b \in Client : b # c => (Sent(b) => Sent(b)')
    BY DEF Sent
  <2> QED  BY <2>1 DEF SentKept
<1>2. Stored'
  <2>1. \A b \in Client, r \in Ref : b # c => (OwnRequest(b, r) => OwnRequest(b, r)')
    BY DEF OwnRequest
  <2>2. \A r \in Ref : SlotKept(r) \/ SafeAt(r)'
    BY <2>1 DEF SlotKept
  <2> QED  BY <1>1, <2>2, StoredKept DEF Requested
<1>3. InArm'
  BY <1>1, ArmSafe
<1>4. \A b \in Client : Entry(b)'
  <2>1. \A b \in Client : b # c => Entry(b)'
    BY DEF Requested, Entry, EntryKept, EntryGone, None
  <2> QED  BY <2>1
<1> QED  BY <1>1, <1>2, <1>3, <1>4, HostSafe DEF Requested

LEMMA BridgeLocalsAre ==
  ASSUME Shapes, NEW c \in Client
  PROVE  /\ DOMAIN bridge = Client /\ DOMAIN bridge_events = Client /\ DOMAIN bridge_responses = Client
         /\ DOMAIN bridge[c] = {"pc", "dst", "body", "answer"}
         /\ bridge_events[c] \in {"absent", "waiting", "set"}
BY SidecarIs, BridgeIs

LEMMA AnsweredIs ==
  ASSUME Shapes, NEW c \in Client, NEW status, NEW body, Answer(c, status, body)
  PROVE  /\ bridge'[c].pc = "done" /\ bridge'[c].answer.status = status /\ bridge'[c].body = Nil
         /\ \A b \in Client : b # c => bridge'[b] = bridge[b]
<1>1. PICK a : a = [status |-> status, body |-> body]
  OBVIOUS
<1>2. bridge' = [bridge EXCEPT ![c].pc = "done", ![c].body = Nil, ![c].answer = a]
  BY <1>1 DEF Answer
<1>3. bridge'[c].pc = "done" /\ bridge'[c].answer = a /\ bridge'[c].body = Nil
  BY <1>2, BridgeIs
<1>4. a.status = status
  BY <1>1
<1> QED  BY <1>2, <1>3, <1>4, BridgeIs

LEMMA RegisterRequested ==
  ASSUME Shapes, Requested, NEW c \in Client, BridgeRegister(c), SidecarOnly
  PROVE  Requested'
<1>1. Entry(c) /\ bridge[c].pc = "new"
  BY DEF BridgeRegister, Requested
<1>2. /\ bridge_events'[c] = "waiting" /\ bridge_responses'[c] = None
      /\ \A b \in Client : b # c => /\ bridge_events'[b] = bridge_events[b]
                                    /\ bridge_responses'[b] = bridge_responses[b]
  BY BridgeLocalsAre DEF BridgeRegister
<1>3. arm' = arm /\ mem' = mem
  BY DEF BridgeRegister, shmVars
<1>4. /\ \/ bridge'[c].pc = "done" /\ bridge'[c].answer.status = 503
         \/ bridge'[c].pc = "alloc"
      /\ \A b \in Client : b # c => bridge'[b] = bridge[b]
  <2>1. CASE Answer(c, 503, NoBody)
    BY <2>1, AnsweredIs
  <2>2. CASE bridge' = [bridge EXCEPT ![c].pc = "alloc", ![c].dst = Selected(Target(c))]
    BY <2>2, BridgeLocalsAre
  <2> QED  BY <2>1, <2>2 DEF BridgeRegister
<1>5. Entry(c)'
  BY <1>2, <1>4 DEF Entry, EntryKept, None
<1>6. ~Sent(c) /\ \A r \in Ref : ~OwnRequest(c, r) /\ ReadSlot(r)' = ReadSlot(r)
  BY <1>1, <1>3 DEF Sent, OwnRequest, ReadSlot
<1> QED  BY <1>2, <1>3, <1>4, <1>5, <1>6, BridgeFrame

LEMMA AllocRequested ==
  ASSUME Shapes, Requested, NEW c \in Client, BridgeAlloc(c), SidecarOnly
  PROVE  Requested'
<1> DEFINE message == [ask |-> Asks[c], svc |-> "frontend", name |-> c, status |-> 0,
                       rid |-> c, src |-> Nil, dst |-> bridge[c].dst]
<1>1. Entry(c) /\ bridge[c].pc = "alloc"
  BY DEF BridgeAlloc, Requested
<1>2. arm' = arm /\ bridge_events' = bridge_events /\ bridge_responses' = bridge_responses
  BY DEF BridgeAlloc, tables
<1>3. ~Sent(c) /\ \A r \in Ref : ~OwnRequest(c, r)
  BY <1>1 DEF Sent, OwnRequest
<1>4. CASE Full(DpuRxBody)
  <2>1. Answer(c, 503, NoBody) /\ mem' = mem
    BY <1>4 DEF BridgeAlloc
  <2>2. bridge'[c].pc = "done" /\ bridge'[c].answer.status = 503 /\ \A b \in Client : b # c => bridge'[b] = bridge[b]
    BY <2>1, AnsweredIs
  <2>3. Entry(c)'
    BY <1>1, <1>2, <2>2 DEF Entry, EntryKept, None
  <2>4. \A r \in Ref : ReadSlot(r)' = ReadSlot(r)
    BY <2>1 DEF ReadSlot
  <2> QED  BY <1>2, <1>3, <2>2, <2>3, <2>4, BridgeFrame
<1>5. ASSUME ~Full(DpuRxBody), NEW pc \in {"put", "toobig"}, NEW x, AllocWrite(DpuRxBody, x),
             bridge' = [bridge EXCEPT ![c].pc = pc, ![c].body = NewRef(DpuRxBody)],
             x \in Header => pc = "put" /\ x.status \in Codes /\ x.rid = c
      PROVE  Requested'
  <2>1. DpuRxBody \in Pool
    BY DEF Pool
  <2>2. PICK q \in Ref : mem' = [mem EXCEPT ![q.pool][q.slot] = x] /\ q = NewRef(DpuRxBody)
    BY <1>5, <2>1, NewRefIs DEF AllocWrite, NewRef
  <2>3. ReadSlot(q)' = x /\ \A r \in Ref : r # q => ReadSlot(r)' = ReadSlot(r)
    BY <2>2, SlotsBut
  <2>4. bridge'[c].pc = pc /\ bridge'[c].body = q /\ \A b \in Client : b # c => bridge'[b] = bridge[b]
    BY <1>5, <2>2, BridgeIs
  <2>5. Entry(c)'
    BY <1>1, <1>2, <2>4 DEF Entry, EntryKept, None
  <2>6. SafeAt(q)'
    <3>1. CASE x \in Header
      <4>1. (bridge[c].pc \in {"put", "full"} /\ bridge[c].body = q)'
        BY <1>5, <2>4, <3>1
      <4>2. ReadSlot(q)'.status \in Codes /\ ReadSlot(q)'.rid = c
        BY <1>5, <2>3, <3>1
      <4> QED  BY <4>1, <4>2 DEF SafeAt, OwnRequest, Codes
    <3>2. CASE x \notin Header
      BY <2>3, <3>2 DEF SafeAt, Safe, Header, Service
    <3> QED  BY <3>1, <3>2
  <2> QED  BY <1>2, <1>3, <2>3, <2>4, <2>5, <2>6, BridgeFrame
<1>6. CASE ~Full(DpuRxBody) /\ Asks[c] # "big"
  <2>1. AllocWrite(DpuRxBody, message) /\ bridge' = [bridge EXCEPT ![c].pc = "put", ![c].body = NewRef(DpuRxBody)]
    BY <1>6 DEF BridgeAlloc
  <2>2. message.status \in Codes /\ message.rid = c
    BY DEF Codes
  <2> HIDE DEF message
  <2> QED  BY <1>5, <1>6, <2>1, <2>2
<1>7. CASE ~Full(DpuRxBody) /\ Asks[c] = "big"
  <2>1. AllocWrite(DpuRxBody, NoBody) /\ bridge' = [bridge EXCEPT ![c].pc = "toobig", ![c].body = NewRef(DpuRxBody)]
    BY <1>7 DEF BridgeAlloc
  <2>2. NoBody \notin Header
    BY NoBodyIs, NotHeader
  <2> QED  BY <1>5, <1>7, <2>1, <2>2
<1> QED  BY <1>4, <1>6, <1>7

LEMMA PutRequested ==
  ASSUME Shapes, Requested, NEW c \in Client, BridgePut(c), SidecarOnly
  PROVE  Requested'
<1>1. Entry(c) /\ bridge[c].pc = "put"
  BY DEF BridgePut, Requested
<1>2. arm' = arm /\ mem' = mem /\ bridge_events' = bridge_events /\ bridge_responses' = bridge_responses
  BY DEF BridgePut, tables
<1>3. \A r \in Ref : ReadSlot(r)' = ReadSlot(r)
  BY <1>2 DEF ReadSlot
<1>4. CASE bridge' = [bridge EXCEPT ![c].pc = "wait", ![c].body = Nil]
  <2>1. bridge'[c].pc = "wait" /\ \A b \in Client : b # c => bridge'[b] = bridge[b]
    BY <1>4, BridgeLocalsAre
  <2>2. Entry(c)' /\ Sent(c)'
    BY <1>1, <1>2, <2>1 DEF Entry, EntryKept, None, Sent
  <2> QED  BY <1>2, <1>3, <2>1, <2>2, BridgeFrame
<1>5. CASE bridge' = [bridge EXCEPT ![c].pc = "full"]
  <2>1. /\ bridge'[c].pc = "full" /\ bridge'[c].body = bridge[c].body
        /\ \A b \in Client : b # c => bridge'[b] = bridge[b]
    BY <1>5, BridgeLocalsAre
  <2>2. Entry(c)' /\ ~Sent(c)
    BY <1>1, <1>2, <2>1 DEF Entry, EntryKept, None, Sent
  <2>3. \A r \in Ref : OwnRequest(c, r) => OwnRequest(c, r)'
    BY <2>1 DEF OwnRequest
  <2> QED  BY <1>2, <1>3, <2>1, <2>2, <2>3, BridgeFrame
<1> QED  BY <1>4, <1>5 DEF BridgePut

LEMMA UndoRequested ==
  ASSUME Shapes, Requested, NEW c \in Client, BridgeUndo(c), SidecarOnly
  PROVE  Requested'
<1>1. Entry(c) /\ bridge[c].pc \in {"toobig", "full"} /\ bridge[c].body \in Ref /\ FreeSlot(bridge[c].body)
  BY BridgeIs DEF BridgeUndo, Requested, BridgeShape
<1>2. arm' = arm /\ bridge_events' = bridge_events /\ bridge_responses' = bridge_responses
  BY DEF BridgeUndo, tables
<1>3. PICK status \in {413, 503} : Answer(c, status, NoBody)
  BY DEF BridgeUndo
<1>4. /\ bridge'[c].pc = "done" /\ bridge'[c].answer.status \in {413, 503}
      /\ \A b \in Client : b # c => bridge'[b] = bridge[b]
  BY <1>3, AnsweredIs
<1>5. Entry(c)' /\ ~Sent(c)
  BY <1>1, <1>2, <1>4 DEF Entry, EntryKept, None, Sent
<1>6. PICK q \in Ref : q = bridge[c].body
  BY <1>1
<1>7. ReadSlot(q)' = Free /\ \A r \in Ref : r # q => ReadSlot(r)' = ReadSlot(r)
  <2>1. FreeSlot(q)
    BY <1>1, <1>6
  <2> QED  BY <2>1, FreedSlot
<1>8. SafeAt(q)'
  <2>1. ReadSlot(q)' \notin Header
    BY <1>7, NotHeader
  <2> QED  BY <2>1 DEF SafeAt, Safe, Header, Service
<1>9. \A r \in Ref : r # q => ~OwnRequest(c, r)
  BY <1>6 DEF OwnRequest
<1> QED  BY <1>2, <1>4, <1>5, <1>7, <1>8, <1>9, BridgeFrame

LEMMA WaitRequested ==
  ASSUME Shapes, Requested, NEW c \in Client, BridgeAnswer(c) \/ BridgeTimeout(c) \/ BridgeExpire(c), SidecarOnly
  PROVE  Requested'
<1>1. Entry(c) /\ bridge[c].pc \in {"wait", "expired"} /\ arm' = arm /\ mem' = mem
  BY DEF BridgeAnswer, BridgeTimeout, BridgeExpire, Requested, shmVars
<1>2. \A r \in Ref : ~OwnRequest(c, r) /\ ReadSlot(r)' = ReadSlot(r)
  BY <1>1 DEF OwnRequest, ReadSlot
<1>3. CASE BridgeTimeout(c)
  <2>1. bridge_events' = bridge_events /\ bridge_responses' = bridge_responses
    BY <1>3 DEF BridgeTimeout, tables
  <2>2. bridge'[c].pc = "expired" /\ \A b \in Client : b # c => bridge'[b] = bridge[b]
    BY <1>3, BridgeLocalsAre DEF BridgeTimeout
  <2>3. Entry(c)' /\ Sent(c)'
    BY <1>1, <2>1, <2>2 DEF Entry, EntryKept, None, Sent
  <2> QED  BY <1>1, <1>2, <2>1, <2>2, <2>3, BridgeFrame
<1>4. CASE BridgeAnswer(c) \/ BridgeExpire(c)
  <2>1. PICK status, body : Answer(c, status, body) /\ status \in Codes \cup {504}
    <3>1. CASE BridgeAnswer(c)
      BY <1>1, <3>1 DEF BridgeAnswer, Entry
    <3>2. CASE BridgeExpire(c)
      BY <3>2 DEF BridgeExpire
    <3> QED  BY <1>4, <3>1, <3>2
  <2>2. /\ bridge'[c].pc = "done" /\ bridge'[c].answer.status = status
        /\ \A b \in Client : b # c => bridge'[b] = bridge[b]
    BY <2>1, AnsweredIs
  <2>3. /\ bridge_events'[c] = "absent" /\ bridge_responses'[c] = Nil
        /\ \A b \in Client : b # c => /\ bridge_events'[b] = bridge_events[b]
                                      /\ bridge_responses'[b] = bridge_responses[b]
    BY <1>4, BridgeLocalsAre DEF BridgeAnswer, BridgeExpire, Forget
  <2>4. Entry(c)' /\ Sent(c)'
    BY <2>1, <2>2, <2>3 DEF Entry, EntryGone, Sent, Codes
  <2> QED  BY <1>1, <1>2, <2>2, <2>3, <2>4, BridgeFrame
<1> QED  BY <1>3, <1>4
-----------------------------------------------------------------------------
LEMMA RequestedKept ==
  ASSUME Shapes, NEW own, OwnInv(own), Requested, [Next]_vars
  PROVE  Requested'
<1>1. CASE HostStep /\ HostOnly
  <2>1. PICK w \in Worker : Poller(w) \/ Main(w)
    BY <1>1 DEF HostStep
  <2> QED  BY <1>1, <2>1, PollerRequested, OnRequestRequested, OnResponseRequested, HandlerRequested,
              FreeRxRequested, WriteRequested, EnqueueRequested DEF Main
<1>2. CASE DpaStep /\ DpaOnly
  BY <1>2, TxRequested, RxRequested DEF DpaStep
<1>3. CASE SidecarStep /\ SidecarOnly
  <2>1. CASE Arm
    BY <1>3, <2>1, ArmRequested, EventRequested
  <2>2. ASSUME NEW c \in Client, BridgeStep(c) \/ BridgeTimeout(c)
        PROVE  Requested'
    BY <1>3, <2>2, RegisterRequested, AllocRequested, PutRequested, UndoRequested, WaitRequested DEF BridgeStep
  <2> QED  BY <1>3, <2>1, <2>2 DEF SidecarStep
<1>4. CASE UNCHANGED vars
  <2>1. hostVars' = hostVars /\ sidecarVars' = sidecarVars /\ mem' = mem
    BY <1>4 DEF vars, shmVars
  <2>2. DpaOnly /\ Still
    BY <2>1 DEF DpaOnly, Still, sidecarVars, tables
  <2> QED  BY <2>1, <2>2, MemoryKept, DpaFrame DEF Requested
<1> QED  BY <1>1, <1>2, <1>3, <1>4 DEF Next, Rest

LEMMA InitRequested == Init => Requested
<1> SUFFICES ASSUME Init
             PROVE  Requested
  OBVIOUS
<1>1. Stored
  <2>1. ASSUME NEW r \in Ref
        PROVE  ReadSlot(r) = Free
    <3>1. r.pool \in Pool /\ r.slot \in Slot
      BY DEF Ref
    <3> QED  BY <3>1 DEF Init, ShmInit, ReadSlot
  <2> QED  BY <2>1, NotHeader DEF Stored, SafeAt, Safe
<1>2. InArm
  BY DEF Init, SidecarInit, IdleArm, InArm
<1>3. ASSUME NEW w \in Worker
      PROVE  InWorker(w)
  <2>1. main[w] = IdleMain /\ \A i \in TableIndex : inbound[w][i].rid = Nil
    BY DEF Init, HostInit
  <2> QED  BY <2>1 DEF InWorker, SafeMain, SafeId, IdleMain, WritePc
<1>4. ASSUME NEW c \in Client
      PROVE  Entry(c)
  <2>1. bridge[c].pc = "new" /\ bridge_events[c] = "absent" /\ bridge_responses[c] = Nil
    BY DEF Init, SidecarInit
  <2> QED  BY <2>1 DEF Entry
<1> QED  BY <1>1, <1>2, <1>3, <1>4 DEF Requested

(* A client that its bridge thread has answered has left nothing in        *)
(* _bridge_events and _bridge_responses, whenever its response came and    *)
(* whether it had given up waiting; a client which the bridge itself       *)
(* refuses keeps an entry in both, still waited for and still None.        *)
THEOREM EntriesArePopped == Spec => []BridgeEntries
<1>1. Init => IInv /\ Requested
  BY InitInvariant, InitRequested
<1>2. IInv /\ Requested /\ [Next]_vars => (IInv /\ Requested)'
  <2> SUFFICES ASSUME IInv, Requested, [Next]_vars
               PROVE  IInv' /\ Requested'
    OBVIOUS
  <2>1. IInv'
    BY StepInvariant
  <2>2. Requested'
    BY RequestedKept DEF IInv
  <2> QED  BY <2>1, <2>2
<1>3. Requested => BridgeEntries
  BY DEF Requested, Entry, EntryKept, EntryGone, BridgeEntries
<1> QED  BY <1>1, <1>2, <1>3, PTL DEF Spec
=============================================================================
