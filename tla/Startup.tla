------------------------------ MODULE Startup ------------------------------
(***************************************************************************)
(* Start, end and replacement of workers and of the DPA daemon: pod ids    *)
(* from the counter file, the registry file, the buffer pools of a service *)
(* and the queues of a worker as dpumesh_init creates them, next to the    *)
(* daemons that look workers up and send to them.  One pool stands for the *)
(* four of a service, one queue for the two of a worker (the other has     *)
(* been created before it).                                                *)
(***************************************************************************)
EXTENDS Naturals, Sequences, FiniteSets

CONSTANTS
  Worker,         (* processes: each starts once                          *)
  NameOf,         (* "<app>-worker-<n>": a replacement has the old name   *)
  ServiceOf,
  Slot, Nil,
  RegistryCap,    (* entries that fit into the 8192 bytes of newbuf       *)
  DaemonsFirst,   (* the deployment starts workers after the daemons      *)
  MaxDpaStarts,   (* bound on starts of the DPA daemon                    *)
  MaxSent         (* bound on messages to workers                         *)

ASSUME StartupAssumption ==
  /\ \A v, w \in Worker : NameOf[v] = NameOf[w] => ServiceOf[v] = ServiceOf[w]
  /\ {RegistryCap, MaxDpaStarts, MaxSent} \subseteq Nat
  /\ DaemonsFirst \in BOOLEAN
  /\ IsFiniteSet(Worker)
  /\ Nil \notin Worker \cup Slot \cup 1..Cardinality(Worker)
  /\ \A S \in SUBSET Worker : S # Nil

PodId == 1..Cardinality(Worker)
Service == {ServiceOf[w] : w \in Worker}

VARIABLES
  counter, counterLock,    (* pod_id_counter and its lock's holder        *)
  registry, registryLock,  (* pod_registry: its text and its lock         *)
  open,                    (* who has which of these files, as it is      *)
                           (* named now, open for writing                 *)
  torn,                    (* auxiliary: the files in whose rewriting a   *)
                           (* worker has been killed                      *)
  used,                    (* bitmap of each service's pool               *)
  ring,                    (* per pod id: the workers whose mapping is of *)
                           (* the queue file that has that name now       *)
  msgs,                    (* slots of the messages in that queue         *)
  proc,                    (* locals of each worker                       *)
  dpa,                     (* locals of the DPA daemon                    *)
  known,                   (* DMAManager._known_pods                      *)
  send, sent               (* the message a daemon is handling            *)

files == <<counter, counterLock, registry, registryLock, open, torn>>
shm == <<used, ring, msgs>>
daemons == <<dpa, known, send, sent>>
vars == <<files, shm, proc, daemons>>

Empty == [text |-> "ok", entries |-> << >>]
Blank == [text |-> "blank", entries |-> << >>]
NoSend == [id |-> Nil, svc |-> Nil, slot |-> Nil]

Init ==
  /\ counter = 0 /\ counterLock = Nil
  /\ registry = Empty /\ registryLock = Nil
  /\ open = {} /\ torn = {}
  /\ used = [s \in Service |-> {}]
  /\ ring = [i \in PodId |-> Nil]
  /\ msgs = [i \in PodId |-> << >>]
  /\ proc = [w \in Worker |-> [pc |-> "off", cur |-> 0, buf |-> Empty, id |-> Nil, held |-> Nil]]
  /\ dpa = [pc |-> "off", starts |-> 0, todo |-> {}]
  /\ known = {} /\ send = NoSend /\ sent = 0

Running(w) == proc[w].pc = "run"
(* Worker w runs and its queue is the file that has the name now.          *)
Mapped(w) == Running(w) /\ ring[proc[w].id] # Nil /\ w \in ring[proc[w].id]
GoTo(w, pc) == proc' = [proc EXCEPT ![w].pc = pc]
-----------------------------------------------------------------------------
(* dpumesh_init: a pod id, under the lock of the counter.  The lock is on  *)
(* the file that has the name when it is opened.                           *)

(* The deployment replaces a worker that has gone.                         *)
Start(w) ==
  /\ proc[w].pc = "off"
  /\ DaemonsFirst => dpa.pc = "run"
  /\ \A v \in Worker \ {w} : NameOf[v] = NameOf[w] => proc[v].pc \in {"off", "dead"}
  /\ GoTo(w, "lock_id")
  /\ UNCHANGED <<files, shm, daemons>>

LockCounter(w) ==
  /\ proc[w].pc = "lock_id"
  /\ counterLock = Nil
  /\ counterLock' = w
  /\ GoTo(w, "read_id")
  /\ UNCHANGED <<counter, registry, registryLock, open, torn, shm, daemons>>

ReadCounter(w) ==
  /\ proc[w].pc = "read_id"
  /\ proc' = [proc EXCEPT ![w].pc = "open_id", ![w].cur = counter]
  /\ UNCHANGED <<files, shm, daemons>>

(* fopen(..., "w") empties the file.  What is printed reaches it with      *)
(* fclose; until then it is empty, which reads as 0 does: the next id is 1.*)
OpenCounter(w) ==
  /\ proc[w].pc = "open_id"
  /\ counter' = 0
  /\ open' = open \cup {<<"counter", w>>}
  /\ GoTo(w, "write_id")
  /\ UNCHANGED <<counterLock, registry, registryLock, torn, shm, daemons>>

Unlocked(lock, w) == IF lock = w THEN Nil ELSE lock

(* Mutants: the next id is used but not stored; ids are skipped.           *)
NewIdKept(w) == [id |-> proc[w].cur + 1, counter |-> proc[w].cur]
NewIdSkips(w) == [id |-> proc[w].cur + 1, counter |-> proc[w].cur + 2]

NewId(w) == [id |-> proc[w].cur + 1, counter |-> proc[w].cur + 1]

(* What is written to a file that has been removed meanwhile is lost.      *)
WriteCounter(w) ==
  /\ proc[w].pc = "write_id"
  /\ counter' = IF <<"counter", w>> \in open THEN NewId(w).counter ELSE counter
  /\ open' = open \ {<<"counter", w>>}
  /\ counterLock' = Unlocked(counterLock, w)
  /\ proc' = [proc EXCEPT ![w].pc = "lock_reg", ![w].id = NewId(w).id]
  /\ UNCHANGED <<registry, registryLock, torn, shm, daemons>>
-----------------------------------------------------------------------------
(* pod_registry_register: the file is read, and written with one entry     *)
(* more, also when the name is there already.                              *)

LockRegistry(w) ==
  /\ proc[w].pc = "lock_reg"
  /\ registryLock = Nil
  /\ registryLock' = w
  /\ GoTo(w, "read_reg")
  /\ UNCHANGED <<counter, counterLock, registry, open, torn, shm, daemons>>

ReadRegistry(w) ==
  /\ proc[w].pc = "read_reg"
  /\ proc' = [proc EXCEPT ![w].pc = "open_reg", ![w].buf = registry]
  /\ UNCHANGED <<files, shm, daemons>>

OpenRegistry(w) ==
  /\ proc[w].pc = "open_reg"
  /\ registry' = Blank
  /\ open' = open \cup {<<"registry", w>>}
  /\ GoTo(w, "write_reg")
  /\ UNCHANGED <<counter, counterLock, registryLock, torn, shm, daemons>>

Broken == [text |-> "broken", entries |-> << >>]

(* Mutant: the text is written anew for each entry.                        *)
WithEntryOnly(text, e) == [text |-> "ok", entries |-> <<e>>]

(* Only a text that ends in the closing brace of the object can be added   *)
(* to; newbuf cuts off what does not fit, and that brace with it.  To an   *)
(* empty file, or one with the first part of a text, an entry is added     *)
(* without the opening brace, or inside another entry.                     *)
WithEntry(text, e) ==
  IF text.text = "ok" /\ Len(text.entries) < RegistryCap
  THEN [text EXCEPT !.entries = Append(@, e)]
  ELSE Broken

(* A text written over another one keeps the tail of a longer one.         *)
Overwritten(old, new) == IF old.text = "blank" THEN {new} ELSE {new, Broken}

WriteRegistry(w) ==
  /\ proc[w].pc = "write_reg"
  /\ LET text == WithEntry(proc[w].buf,
                   [name |-> NameOf[w], id |-> proc[w].id, svc |-> ServiceOf[w]])
     IN registry' \in IF <<"registry", w>> \in open THEN Overwritten(registry, text) ELSE {registry}
  /\ open' = open \ {<<"registry", w>>}
  /\ registryLock' = Unlocked(registryLock, w)
  /\ GoTo(w, "pools")
  /\ UNCHANGED <<counter, counterLock, torn, shm, daemons>>
-----------------------------------------------------------------------------
(* bp_init and dr_init with create = 1, without any lock                   *)

CreatePools(w) ==
  /\ proc[w].pc = "pools"
  /\ used' = [used EXCEPT ![ServiceOf[w]] = {}]
  /\ GoTo(w, "ring")
  /\ UNCHANGED <<files, ring, msgs, daemons>>

CreateRing(w) ==
  LET i == proc[w].id
  IN /\ proc[w].pc = "ring"
     /\ ring' = [ring EXCEPT ![i] = IF @ = Nil THEN {w} ELSE @ \cup {w}]
     /\ msgs' = IF ring[i] = Nil THEN [msgs EXCEPT ![i] = << >>] ELSE msgs
     /\ GoTo(w, "reset")
     /\ UNCHANGED <<files, used, daemons>>

(* Mutant: the bitmaps are cleared after the queues.                       *)
ResetRingThenPools(w) ==
  /\ proc[w].pc = "reset"
  /\ msgs' = [msgs EXCEPT ![proc[w].id] = << >>]
  /\ used' = [used EXCEPT ![ServiceOf[w]] = {}]
  /\ GoTo(w, "run")
  /\ UNCHANGED <<files, ring, daemons>>

(* The file has its size, so daemons can map it, but its header is cleared *)
(* only now.                                                               *)
ResetRing(w) ==
  /\ proc[w].pc = "reset"
  /\ msgs' = [msgs EXCEPT ![proc[w].id] = << >>]
  /\ GoTo(w, "run")
  /\ UNCHANGED <<files, used, ring, daemons>>

InitStep(w) ==
  \/ LockCounter(w) \/ ReadCounter(w) \/ OpenCounter(w) \/ WriteCounter(w)
  \/ LockRegistry(w) \/ ReadRegistry(w) \/ OpenRegistry(w) \/ WriteRegistry(w)
  \/ CreatePools(w) \/ CreateRing(w) \/ ResetRing(w)
-----------------------------------------------------------------------------
(* A running worker takes a message from its queue, or a slot for one of   *)
(* its own, and gives the slot back.                                       *)

Receive(w) ==
  LET i == proc[w].id
  IN /\ proc[w].held = Nil
     /\ Mapped(w) /\ msgs[i] # << >>
     /\ proc' = [proc EXCEPT ![w].held = Head(msgs[i])]
     /\ msgs' = [msgs EXCEPT ![i] = Tail(@)]
     /\ UNCHANGED <<files, used, ring, daemons>>

FreeSlots(s) == Slot \ used[s]
AllocSlot(w) ==
  /\ Running(w)
  /\ proc[w].held = Nil
  /\ \E s \in FreeSlots(ServiceOf[w]) :
       /\ used' = [used EXCEPT ![ServiceOf[w]] = @ \cup {s}]
       /\ proc' = [proc EXCEPT ![w].held = s]
  /\ UNCHANGED <<files, ring, msgs, daemons>>

FreeSlot(w) ==
  /\ Running(w)
  /\ proc[w].held # Nil
  /\ used' = [used EXCEPT ![ServiceOf[w]] = @ \ {proc[w].held}]
  /\ proc' = [proc EXCEPT ![w].held = Nil]
  /\ UNCHANGED <<files, ring, msgs, daemons>>

(* The process ends, wherever it is.  Its locks and open files go, what it *)
(* has not written yet with them; everything else stays, also a file that  *)
(* it has emptied.                                                         *)
Kill(w) ==
  /\ proc[w].pc \notin {"off", "dead"}
  /\ proc' = [proc EXCEPT ![w].pc = "dead", ![w].held = Nil]
  /\ counterLock' = Unlocked(counterLock, w)
  /\ registryLock' = Unlocked(registryLock, w)
  /\ open' = open \ {<<"counter", w>>, <<"registry", w>>}
  /\ torn' = torn \cup {f \in {"counter", "registry"} : <<f, w>> \in open}
  /\ UNCHANGED <<counter, registry, shm, daemons>>
-----------------------------------------------------------------------------
(* DMAManager.run: remove what /dev/shm/<prefix>_* lists, one by one, then *)
(* set up the counter and the registry, without their locks.               *)

FileNames ==
  {<<"counter", 0>>, <<"counter.lock", 0>>, <<"registry", 0>>, <<"registry.lock", 0>>}
  \cup {<<"ring", i>> : i \in {j \in PodId : ring[j] # Nil}}

DpaStart ==
  /\ dpa.pc = "off"
  /\ dpa' = [pc |-> "remove", starts |-> dpa.starts + 1, todo |-> FileNames]
  /\ UNCHANGED <<files, shm, proc, known, send, sent>>

DpaRemove(f) ==
  /\ dpa.pc = "remove"
  /\ f \in dpa.todo
  /\ dpa' = [dpa EXCEPT !.todo = @ \ {f}]
  /\ counter' = IF f[1] = "counter" THEN 0 ELSE counter
  /\ counterLock' = IF f[1] = "counter.lock" THEN Nil ELSE counterLock
  /\ registry' = IF f[1] = "registry" THEN Empty ELSE registry
  /\ registryLock' = IF f[1] = "registry.lock" THEN Nil ELSE registryLock
  /\ open' = {o \in open : o[1] # f[1]}
  /\ ring' = IF f[1] = "ring" THEN [ring EXCEPT ![f[2]] = Nil] ELSE ring
  /\ UNCHANGED <<torn, used, msgs, proc, known, send, sent>>

DpaCounter ==
  /\ dpa.pc = "remove" /\ dpa.todo = {}
  /\ counter' = 0
  /\ dpa' = [dpa EXCEPT !.pc = "truncate"]
  /\ UNCHANGED <<counterLock, registry, registryLock, open, torn, shm, proc, known, send, sent>>

(* PodRegistry.clear: open(..., 'w'), then the two braces; what a worker   *)
(* has written in between keeps its tail.                                  *)
DpaTruncate ==
  /\ dpa.pc = "truncate"
  /\ registry' = Blank
  /\ dpa' = [dpa EXCEPT !.pc = "dump"]
  /\ UNCHANGED <<counter, counterLock, registryLock, open, torn, shm, proc, known, send, sent>>

DpaDump ==
  /\ dpa.pc = "dump"
  /\ registry' = IF registry.text = "blank" THEN Empty ELSE Broken
  /\ dpa' = [dpa EXCEPT !.pc = "run"]
  /\ UNCHANGED <<counter, counterLock, registryLock, open, torn, shm, proc, known, send, sent>>

DpaKill ==
  /\ dpa.pc # "off"
  /\ dpa.starts < MaxDpaStarts
  /\ dpa' = [dpa EXCEPT !.pc = "off"]
  /\ known' = {}
  /\ send' = NoSend
  /\ UNCHANGED <<files, shm, proc, sent>>
-----------------------------------------------------------------------------
(* What json.load makes of the registry: of entries with one name the last *)
(* counts; a text that is no JSON has none.                                *)
Data ==
  {registry.entries[i] : i \in {j \in DOMAIN registry.entries :
     \A k \in DOMAIN registry.entries :
       k > j => registry.entries[k].name # registry.entries[j].name}}

(* _scan_pods                                                              *)
Scan ==
  /\ dpa.pc = "run"
  /\ registryLock = Nil
  /\ known' = known \cup {e.id : e \in Data}
  /\ UNCHANGED <<files, shm, proc, dpa, send, sent>>

(* WorkerSelector.select: any worker of a service may be next.             *)
Select ==
  /\ dpa.pc = "run"
  /\ send = NoSend
  /\ sent < MaxSent
  /\ registryLock = Nil
  /\ \E e \in Data : send' = [id |-> e.id, svc |-> e.svc, slot |-> Nil]
  /\ sent' = sent + 1
  /\ UNCHANGED <<files, shm, proc, dpa, known>>

(* _dma_case3: without the queues of the worker, which come after the      *)
(* pools, there are no PodResources, and the message is dropped.           *)
Deliver ==
  /\ dpa.pc = "run"
  /\ send.id # Nil /\ send.slot = Nil
  /\ \/ /\ ring[send.id] = Nil
        /\ send' = NoSend
        /\ UNCHANGED used
     \/ /\ ring[send.id] # Nil
        /\ \E s \in FreeSlots(send.svc) :
             /\ used' = [used EXCEPT ![send.svc] = @ \cup {s}]
             /\ send' = [send EXCEPT !.slot = s]
  /\ UNCHANGED <<files, ring, msgs, proc, dpa, known, sent>>

Put ==
  /\ send.slot # Nil
  /\ msgs' = [msgs EXCEPT ![send.id] = Append(@, send.slot)]
  /\ send' = NoSend
  /\ UNCHANGED <<files, used, ring, proc, dpa, known, sent>>

Dpa == \/ DpaStart \/ (\E f \in dpa.todo : DpaRemove(f))
       \/ DpaCounter \/ DpaTruncate \/ DpaDump

Next ==
  \/ \E w \in Worker : Start(w) \/ InitStep(w) \/ Receive(w) \/ AllocSlot(w) \/ FreeSlot(w) \/ Kill(w)
  \/ Dpa \/ Scan \/ Select \/ Deliver \/ Put

Spec == Init /\ [][Next]_vars

(* The same with a DPA daemon that ends and is started again.              *)
RestartSpec == Init /\ [][Next \/ DpaKill]_vars

(* The deployment starts everything; processes that are not killed go on;  *)
(* the kernel hands locks to every waiter.                                 *)
FairSpec ==
  /\ Spec
  /\ \A w \in Worker : SF_vars(Start(w) \/ InitStep(w))
  /\ SF_vars(Dpa \/ Scan)
-----------------------------------------------------------------------------
(* Every word and file of shared memory, and every local of a process,     *)
(* keeps its range: ids fit the counter, messages are slots of the pool.   *)
TypeOK ==
  /\ counter \in 0..Cardinality(Worker)
  /\ {counterLock, registryLock} \subseteq Worker \cup {Nil}
  /\ registry.text \in {"ok", "blank", "broken"}
  /\ \A i \in DOMAIN registry.entries :
       registry.entries[i] \in [name : {NameOf[w] : w \in Worker}, id : PodId, svc : Service]
  /\ \A s \in Service : used[s] \subseteq Slot
  /\ \A i \in PodId :
       /\ ring[i] = Nil \/ ring[i] \subseteq Worker
       /\ \A n \in DOMAIN msgs[i] : msgs[i][n] \in Slot
  /\ \A w \in Worker : /\ proc[w].id \in PodId \cup {Nil}
                       /\ proc[w].held \in Slot \cup {Nil}
  /\ known \subseteq PodId

Alive(w) == proc[w].pc \notin {"off", "dead"}

(* README.md:149 calls pod_id a unique id: no two living workers have the  *)
(* same one, and so the same queues.  A worker killed after fopen has      *)
(* emptied the counter breaks this: ids start at 1 again.                  *)
PodIdUnique ==
  \A v, w \in Worker :
    v # w /\ Alive(v) /\ Alive(w) /\ proc[v].id # Nil => proc[v].id # proc[w].id

(* The same, whichever workers are killed and replaced and wherever they   *)
(* are, as long as none is killed between emptying the counter and writing *)
(* it: nothing else, a torn registry included, makes an id come twice.     *)
UniqueIds == "counter" \notin torn => PodIdUnique

(* Who reads the registry under its lock is led to every running worker:   *)
(* its name is there, with its own pod id, and the queue files of that id  *)
(* are those it has mapped.  A worker killed after fopen has emptied the   *)
(* registry breaks this, for good.                                         *)
LeadsToAll ==
  registryLock = Nil =>
  \A w \in Worker : Running(w) =>
    /\ [name |-> NameOf[w], id |-> proc[w].id, svc |-> ServiceOf[w]] \in Data
    /\ Mapped(w)

(* The same as long as no worker is killed between emptying the registry   *)
(* and writing it, wherever else workers are killed and whatever becomes   *)
(* of the counter.                                                         *)
Reachable == "registry" \notin torn => LeadsToAll

(* The queue of a running worker loses no message to another process that  *)
(* starts or ends: it changes by a put at its end or by the worker's get;  *)
(* unless a torn counter has let two workers have one queue.               *)
QueueKept ==
  [][\A w \in Worker : "counter" \notin torn /\ Running(w) /\ Running(w)' =>
       LET q == msgs[proc[w].id]
           r == msgs'[proc[w].id]
       IN \/ r = q
          \/ q # << >> /\ r = Tail(q) /\ proc[w].held = Nil /\ proc'[w].held = Head(q)
          \/ r # << >> /\ q = SubSeq(r, 1, Len(r) - 1)]_vars

(* The slots of service s that somebody uses: the daemon for its message,  *)
(* messages that a running worker will find, and the workers.              *)
InQueue(w) == {<<"queue", w, n, msgs[proc[w].id][n]>> : n \in DOMAIN msgs[proc[w].id]}
Users(s) ==
  {<<"daemon", Nil, 0, d.slot>> : d \in {m \in {send} : m.svc = s}}
  \cup {<<"worker", w, 0, proc[w].held>> : w \in {v \in Worker : ServiceOf[v] = s}}
  \cup UNION {InQueue(w) : w \in {v \in Worker : Mapped(v) /\ ServiceOf[v] = s}}

(* Every slot of the service in use is marked in the bitmap and in use     *)
(* only once.                                                              *)
PoolKept(s) ==
  /\ \A u \in Users(s) : u[4] # Nil => u[4] \in used[s]
  /\ \A u, v \in Users(s) : u[4] = v[4] /\ u[4] # Nil => u = v

(* The first worker of a service clears no bitmap that somebody relies on, *)
(* although it is registered, and daemons may send to it, before bp_init:  *)
(* they wait for its queues, which come last; a torn counter excepted.     *)
FirstPoolKept ==
  "counter" \notin torn => \A s \in Service :
    Cardinality({w \in Worker : ServiceOf[w] = s /\ proc[w].pc # "off"}) <= 1 => PoolKept(s)

(* The same for every worker: bp_init of one that starts later, or in the  *)
(* place of another, clears no bitmap that somebody relies on.             *)
PoolExclusive == \A s \in Service : PoolKept(s)

(* However often workers start and end, the DPA daemon comes to know all   *)
(* that are running, so that what they send is picked up; unless one is    *)
(* killed between emptying the registry and writing it.                    *)
Discovered ==
  []<>("registry" \notin torn => \A w \in Worker : Running(w) => proc[w].id \in known)
=============================================================================
