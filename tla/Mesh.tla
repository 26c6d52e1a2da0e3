-------------------------------- MODULE Mesh --------------------------------
(***************************************************************************)
(* The whole data path of one node: bridge clients, the sidecar, the DPA   *)
(* daemon and the workers of the three services, around the shared memory. *)
(* Each step is one step of one thread; a thread touches shared memory in  *)
(* operations that hold the file lock of one pool or one queue.            *)
(***************************************************************************)
EXTENDS HostLib, DpaDaemon, Sidecar

vars == <<shmVars, hostVars, dpaVars, sidecarVars>>

Init == ShmInit /\ HostInit /\ DpaInit /\ SidecarInit

(* What the steps of one component leave alone.                            *)
HostOnly == UNCHANGED <<dpaVars, sidecarVars>>
DpaOnly == UNCHANGED <<hostVars, sidecarVars>>
SidecarOnly == UNCHANGED <<hostVars, dpaVars>>

HostStep == \E w \in Worker : Poller(w) \/ Main(w)

DpaStep == (\E w \in Worker : TxGet(w)) \/ DpaTxStep \/ DpaRxStep

SidecarStep == Arm \/ \E c \in Client : BridgeStep(c) \/ BridgeTimeout(c)

(* Every client has its answer: nothing more has to happen.                *)
Rest ==
  /\ \A c \in Client : bridge[c].pc = "done"
  /\ UNCHANGED vars

Next ==
  \/ HostStep /\ HostOnly
  \/ DpaStep /\ DpaOnly
  \/ SidecarStep /\ SidecarOnly
  \/ Rest

Spec == Init /\ [][Next]_vars

(* Every thread keeps running; the transmit thread of the DPA daemon looks *)
(* at the queues of all workers in turn.                                   *)
Fairness ==
  /\ \A w \in Worker :
       /\ WF_vars(Poller(w) /\ HostOnly)
       /\ WF_vars(Main(w) /\ HostOnly)
       /\ SF_vars(TxGet(w) /\ DpaOnly)
  /\ WF_vars(DpaTxStep /\ DpaOnly)
  /\ WF_vars(DpaRxStep /\ DpaOnly)
  /\ WF_vars(Arm /\ SidecarOnly)
  /\ \A c \in Client : WF_vars(BridgeStep(c) /\ SidecarOnly)

FairSpec == Spec /\ Fairness

(* The 30 seconds of event.wait pass, whatever the others do.              *)
TimedSpec == FairSpec /\ \A c \in Client : WF_vars(BridgeTimeout(c) /\ SidecarOnly)
-----------------------------------------------------------------------------
Contents == Header \cup Body \cup {Free}
OptDesc == Descriptor \cup {Nil}
Answers == [status : Nat, body : Body]

MainState ==
  [pc : {"idle", "reading", "free_req", "free_resp", "upstream", "header", "body", "put",
         "undo", "failed"},
   rx_header : OptRef, rx_body : OptRef, tx_header : OptRef, tx_body : OptRef,
   msg : [op : {"req", "resp"}, case : {"ingress", "local"}, req_id : Nat,
          header : Header, body : Body] \cup {Nil},
   conn : [idx : TableIndex, ctx : Context \cup {Nil}] \cup {Nil},
   resp : Answers \cup {Nil}]

(* Memory, queues, pipes, tables and the locals of all threads keep their  *)
(* types, and no queue or pipe holds more than it has room for.            *)
TypeOK ==
  /\ \A p \in Pool, s \in Slot : mem[p][s] \in Contents
  /\ \A w \in Worker :
       /\ Len(tx_sq[w]) <= MaxDescriptors
       /\ Len(rx_sq[w]) <= MaxDescriptors
       /\ Len(notify[w]) <= PipeCap
       /\ \A i \in DOMAIN tx_sq[w] : tx_sq[w][i] \in Descriptor
       /\ \A i \in DOMAIN rx_sq[w] : rx_sq[w][i] \in Descriptor
       /\ \A i \in DOMAIN notify[w] : notify[w][i] \in Descriptor
       /\ next_req_id[w] \in Nat \ {0}
       /\ \A i \in TableIndex : response_pipe[w][i] \in Nat /\ inbound[w][i] \in Inbound
       /\ \A r \in delivered[w] : r.pipe \in Nat \ {0} /\ r.desc \in Descriptor
       /\ \A u \in waiting[w] : u.idx \in TableIndex /\ u.ctx \in Context
       /\ main[w] \in MainState
       /\ poller[w].desc \in OptDesc /\ poller[w].idx \in TableIndex
  /\ Len(sidecar_tx_sq) <= MaxDescriptors
  /\ Len(sidecar_rx_sq) <= MaxDescriptors
  /\ \A i \in DOMAIN sidecar_tx_sq : sidecar_tx_sq[i] \in Descriptor
  /\ \A i \in DOMAIN sidecar_rx_sq : sidecar_rx_sq[i] \in Descriptor
  /\ dpaTx.desc \in OptDesc /\ dpaTx.header \in OptRef /\ dpaTx.src \in Worker \cup {Nil}
  /\ dpaRx.desc \in OptDesc /\ dpaRx.body \in OptRef /\ dpaRx.header \in OptRef
  /\ arm.desc \in OptDesc
  /\ \A s \in Service : rr_idx[s] \in Nat
  /\ \A c \in Client :
       /\ bridge[c].body \in OptRef /\ bridge[c].dst \in Worker \cup {Nil}
       /\ bridge[c].answer \in Answers \cup {Nil}
       /\ bridge_events[c] \in {"absent", "waiting", "set"}
       /\ bridge_responses[c] \in Answers \cup {Nil, None}
-----------------------------------------------------------------------------
(* Who holds which buffer: <<holder, reference>> for each reference in a   *)
(* queued descriptor or in the locals of a thread.                         *)
InPair(what, who, i, header, body) ==
  {<<<<what, who, i, "header">>, header>>, <<<<what, who, i, "body">>, body>>}
InDesc(what, who, i, d) == IF d = Nil THEN {} ELSE InPair(what, who, i, d.header, d.body)
InQueue(what, who, q) == UNION {InDesc(what, who, i, q[i]) : i \in DOMAIN q}

HeldByWorker(w) ==
  InPair("main rx", w, 0, main[w].rx_header, main[w].rx_body)
  \cup InPair("main tx", w, 0, main[w].tx_header, main[w].tx_body)
  \cup InDesc("poller", w, 0, poller[w].desc)
  \cup InQueue("tx_sq", w, tx_sq[w])
  \cup InQueue("rx_sq", w, rx_sq[w])
  \cup InQueue("notify", w, notify[w])
  \cup UNION {InDesc("pipe", w, r.pipe, r.desc) : r \in delivered[w]}

HeldByDaemons ==
  InPair("dpaTx copy", Nil, 0, dpaTx.header, Nil)
  \cup InPair("dpaRx copy", Nil, 0, dpaRx.header, dpaRx.body)
  \cup InDesc("dpaTx", Nil, 0, dpaTx.desc)
  \cup InDesc("dpaRx", Nil, 0, dpaRx.desc)
  \cup InDesc("arm", Nil, 0, arm.desc)
  \cup InQueue("sidecar_tx_sq", Nil, sidecar_tx_sq)
  \cup InQueue("sidecar_rx_sq", Nil, sidecar_rx_sq)
  \cup UNION {InPair("bridge", c, 0, Nil, bridge[c].body) : c \in Client}

Held == {h \in HeldByDaemons \cup UNION {HeldByWorker(w) : w \in Worker} : h[2] # Nil}
HeldRefs == {h[2] : h \in Held}

(* Every buffer that a thread or a queued descriptor refers to is          *)
(* allocated and referred to nowhere else: no double free, no use after    *)
(* free, on whichever of the success and error paths of the workers, the   *)
(* daemons and the bridge.                                                 *)
ExclusiveBuffers ==
  /\ \A h \in Held : ReadSlot(h[2]) # Free
  /\ \A g, h \in Held : g[2] = h[2] => g = h

(* Every allocated buffer is still referred to by somebody who will free   *)
(* it: with enough slots and queue entries the handling of a request by    *)
(* workers, daemons and bridge leaks nothing.                              *)
NoLeak ==
  \A p \in Pool, s \in Slot :
    mem[p][s] # Free => [pool |-> p, slot |-> s] \in HeldRefs

(* _dma_case3 has freed the source body by the time it asks for a header   *)
(* slot, so failing there would lose the message.  It never fails, however *)
(* small the pools are: receivers free the header before the body.         *)
HeaderRoomAfterBody ==
  dpaRx.pc = "header" => ~Full(HostPool(dpaRx.desc.dst, "rx_header"))

(* No put is ever refused and no notification is lost, when a queue holds  *)
(* two descriptors per slot and the notify pipe one: the buffers run out   *)
(* before the queues do.                                                   *)
QueuesNeverFull ==
  /\ \A w \in Worker :
       /\ main[w].pc = "put" => Room(tx_sq[w])
       /\ poller[w].pc = "dispatch" /\ poller[w].desc.op = "req" => Len(notify[w]) < PipeCap
  /\ dpaTx.pc = "requeue" => Room(tx_sq[dpaTx.src])
  /\ dpaTx.pc = "put" => Room(sidecar_tx_sq)
  /\ dpaRx.pc = "requeue" => Room(sidecar_rx_sq)
  /\ dpaRx.pc = "put" => Room(rx_sq[dpaRx.desc.dst])
  /\ arm.pc = "put" => Room(sidecar_rx_sq)
  /\ \A c \in Client : bridge[c].pc = "put" => Room(sidecar_rx_sq)

L == INSTANCE Lookup WITH
       Failures <- {413, 502, 503, 504}, answer <- [c \in Client |-> bridge[c].answer]

(* A client that is told anything but a failure of the mesh (413, 502,     *)
(* 503, 504) is told the answer to its own question, whatever the other    *)
(* clients ask at the same time.                                           *)
OwnAnswer ==
  \A c \in Client :
    bridge[c].answer # Nil /\ bridge[c].answer.status \notin {413, 502, 503, 504}
      => bridge[c].answer = L!Expected(c)

(* Over DPUmesh the services keep the promise of Lookup: the bridge tells  *)
(* each client once, and what it tells is the client's own answer or that  *)
(* the mesh has failed.                                                    *)
ImplementsLookup == L!Spec

(* What the upstream service says to a call made with context ctx.         *)
UpstreamSays(ctx) ==
  IF ctx.stage = "id" THEN HandleId(ctx.name) ELSE HandleAttend(ctx.id)

(* The descriptor in the pipe of an upstream call is the response to that  *)
(* call: the frontend never continues one request with what the id or the  *)
(* attend service said about another.                                      *)
ResponseToCaller ==
  \A w \in Worker : \A u \in waiting[w], r \in delivered[w] :
    u.pipe = r.pipe =>
      /\ ReadSlot(r.desc.header).status = UpstreamSays(u.ctx).status
      /\ ReadSlot(r.desc.body) = UpstreamSays(u.ctx).body

(* A response that comes after event.wait has given up leaves nothing in   *)
(* _bridge_events or _bridge_responses, whether it comes before or after   *)
(* the entries are popped.  The clients that the bridge itself refuses     *)
(* keep an entry in both tables for ever: those error paths pop neither.   *)
BridgeEntries ==
  \A c \in Client : bridge[c].pc = "done" =>
    IF bridge[c].answer.status \in {413, 503}
    THEN bridge_events[c] = "waiting" /\ bridge_responses[c] = None
    ELSE bridge_events[c] = "absent" /\ bridge_responses[c] = Nil

(* All clients are answered: under FairSpec without the bridge's timeout   *)
(* having to fire; under TimedSpec also when a service has no workers or a *)
(* message has been dropped on the way.                                    *)
Answered == <>(\A c \in Client : bridge[c].pc = "done")
=============================================================================
