--------------------------- MODULE StartupProofs ---------------------------
(***************************************************************************)
(* For any number of workers, services and slots, with workers killed at   *)
(* any step: when the deployment starts workers after the DPA daemon       *)
(* (DaemonsFirst) and the registry has room for all of them, pod ids are   *)
(* unique and no start or end of a process takes a message or a slot from  *)
(* another until a worker is killed between emptying the counter and       *)
(* writing it, and the registry leads to every running worker until one is *)
(* killed between emptying the registry and writing it.  MCStartupRace,    *)
(* MCStartupFull, MCStartupTorn and MCStartupTornRegistry show that none   *)
(* of these conditions can be dropped.                                     *)
(***************************************************************************)
EXTENDS Startup, FiniteSetTheorems, SequenceTheorems, TLAPS

EntryOf(w) == [name |-> NameOf[w], id |-> proc[w].id, svc |-> ServiceOf[w]]
Entry == [name : {NameOf[w] : w \in Worker}, id : PodId, svc : Service]
Text == [text : {"ok", "blank", "broken"}, entries : Seq(Entry)]

CountingPc == {"read_id", "open_id", "write_id"}
RegisteringPc == {"read_reg", "open_reg", "write_reg"}
EarlyPc == {"off", "lock_id"} \cup CountingPc
MiddlePc == {"lock_reg", "pools", "ring"} \cup RegisteringPc
LatePc == {"reset", "run"}
Pc == EarlyPc \cup MiddlePc \cup LatePc \cup {"dead"}

ProcType == [pc : Pc, cur : Nat, buf : Text, id : PodId \cup {Nil}, held : Slot \cup {Nil}]

Types ==
  /\ counter \in Nat
  /\ counterLock \in Worker \cup {Nil} /\ registryLock \in Worker \cup {Nil}
  /\ registry \in Text
  /\ open \subseteq {"counter", "registry"} \X Worker
  /\ used \in [Service -> SUBSET Slot]
  /\ ring \in [PodId -> (SUBSET Worker) \cup {Nil}]
  /\ msgs \in [PodId -> Seq(Slot)]
  /\ proc \in [Worker -> ProcType]
  /\ known \subseteq PodId
  /\ send \in [id : PodId \cup {Nil}, svc : Service \cup {Nil}, slot : Slot \cup {Nil}]

(* The last number and the last text, also while a worker has emptied the  *)
(* file to write the next one.                                             *)
LastId == IF counterLock \in Worker /\ proc[counterLock].pc = "write_id"
          THEN proc[counterLock].cur ELSE counter
LastText == IF registryLock \in Worker /\ proc[registryLock].pc = "write_reg"
            THEN proc[registryLock].buf ELSE registry

(* Until the DPA daemon has set the files up, no worker runs.              *)
Quiet ==
  /\ dpa.pc \in {"off", "remove", "truncate", "dump", "run"}
  /\ dpa.pc # "run" =>
       /\ counter = 0 /\ registry.entries = << >>
       /\ registry.text = IF dpa.pc = "dump" THEN "blank" ELSE "ok"
       /\ \A w \in Worker : proc[w].pc = "off"
       /\ \A i \in PodId : ring[i] = Nil
       /\ send = NoSend
  /\ dpa.pc = "run" /\ "registry" \notin torn => LastText.text = "ok"

(* The locks are held by exactly the workers between lock and unlock, and  *)
(* the files are open for writing in those between fopen and fclose.       *)
Locks ==
  \A w \in Worker : /\ counterLock = w <=> proc[w].pc \in CountingPc
                    /\ registryLock = w <=> proc[w].pc \in RegisteringPc
                    /\ <<"counter", w>> \in open <=> proc[w].pc = "write_id"
                    /\ <<"registry", w>> \in open <=> proc[w].pc = "write_reg"

(* What was read under a lock is still so when the file is emptied, and    *)
(* the file is still empty when it is written.                             *)
Copies ==
  \A w \in Worker : /\ proc[w].pc = "open_id" => proc[w].cur = counter
                    /\ proc[w].pc = "write_id" => counter = 0
                    /\ proc[w].pc = "open_reg" => proc[w].buf = registry
                    /\ proc[w].pc = "write_reg" => registry = Blank

(* The counter never exceeds the number of ids that were handed out.       *)
WithId == {w \in Worker : proc[w].id # Nil}
Counted == LastId <= Cardinality(WithId)

(* An id is handed out once, killed workers included, unless one has been  *)
(* killed before it wrote the counter.                                     *)
Ids ==
  /\ \A w \in Worker :
       /\ "counter" \notin torn /\ proc[w].id # Nil => proc[w].id <= LastId
       /\ proc[w].pc \in EarlyPc => proc[w].id = Nil
       /\ proc[w].pc \in MiddlePc \cup LatePc => proc[w].id # Nil
       /\ proc[w].pc # "run" => proc[w].held = Nil
  /\ \A v, w \in Worker :
       "counter" \notin torn /\ v # w /\ proc[v].id # Nil => proc[v].id # proc[w].id

(* A worker starts when no other of its name is alive.                     *)
Names == \A v, w \in Worker : v # w /\ Alive(v) /\ Alive(w) => NameOf[v] # NameOf[w]

(* A worker's entry is the last one of its name once it has been written,  *)
(* unless one has been killed before it wrote the registry.                *)
Registered ==
  "registry" \notin torn =>
  \A w \in Worker : proc[w].pc \in {"pools", "ring", "reset", "run"} =>
    \E i \in DOMAIN LastText.entries :
      /\ LastText.entries[i] = EntryOf(w)
      /\ \A k \in DOMAIN LastText.entries : k > i => LastText.entries[k].name # NameOf[w]

(* There are no more entries than workers that may have written one.       *)
Writers == {w \in Worker : proc[w].pc \in {"pools", "ring", "reset", "run", "dead"}}
Written == Len(LastText.entries) <= Cardinality(Writers)

(* Entries, and so what the daemon sends to, name a worker of the service. *)
Known(id, svc) == \E w \in Worker : proc[w].id = id /\ ServiceOf[w] = svc
Entries ==
  /\ \A i \in DOMAIN LastText.entries : Known(LastText.entries[i].id, LastText.entries[i].svc)
  /\ send.id # Nil => Known(send.id, send.svc)
  /\ send.id = Nil => send.slot = Nil /\ send.svc = Nil

(* The queue of an id exists from the moment its worker creates it.        *)
Queues ==
  /\ \A w \in Worker :
       /\ proc[w].pc \in LatePc => ring[proc[w].id] # Nil /\ w \in ring[proc[w].id]
       /\ "counter" \notin torn /\ proc[w].pc \in MiddlePc => ring[proc[w].id] = Nil
  /\ "counter" \notin torn => \A i \in PodId : i > LastId => ring[i] = Nil

(* Worker w, the only one of its service, shares the pool with the daemon. *)
Alone(s) ==
  /\ "counter" \notin torn
  /\ \A v, w \in Worker :
       ServiceOf[v] = s /\ ServiceOf[w] = s /\ proc[v].pc # "off" /\ proc[w].pc # "off" => v = w

SlotSent(s) == send.svc = s /\ send.slot # Nil
Shared(s, w) ==
  LET q == msgs[proc[w].id]
  IN /\ proc[w].held # Nil => proc[w].held \in used[s]
     /\ \A n \in DOMAIN q : q[n] \in used[s] /\ q[n] # proc[w].held
     /\ \A m, n \in DOMAIN q : q[m] = q[n] => m = n
     /\ SlotSent(s) => send.slot # proc[w].held /\ \A n \in DOMAIN q : q[n] # send.slot
Pools ==
  \A s \in Service : Alone(s) =>
    /\ SlotSent(s) => /\ send.slot \in used[s]
                      /\ \A w \in Worker : ServiceOf[w] = s => proc[w].pc \in LatePc \cup {"off",
                           "dead"}
    /\ \A w \in Worker : ServiceOf[w] = s /\ proc[w].pc = "run" => Shared(s, w)

IInv == /\ Types /\ Quiet /\ Locks /\ Copies /\ Counted /\ Ids /\ Names /\ Registered /\ Written
        /\ Entries /\ Queues /\ Pools
-----------------------------------------------------------------------------
LEMMA OwnId ==
  ASSUME IInv, NEW w \in Worker, proc[w].pc \in MiddlePc \cup LatePc
  PROVE  proc[w].id \in PodId
BY DEF IInv, Types, ProcType, Ids

(* The set of workers is finite, and so are its subsets.                   *)
LEMMA Count ==
  ASSUME NEW S \in SUBSET Worker
  PROVE  /\ IsFiniteSet(S) /\ Cardinality(S) \in Nat /\ Cardinality(Worker) \in Nat
         /\ Cardinality(S) <= Cardinality(Worker)
BY StartupAssumption, FS_Subset, FS_CardinalityType

LEMMA CountOneMore ==
  ASSUME NEW S \in SUBSET Worker, NEW w \in Worker, w \notin S
  PROVE  /\ Cardinality(S \cup {w}) = Cardinality(S) + 1
         /\ Cardinality(S) + 1 <= Cardinality(Worker)
<1>1. Cardinality(S \cup {w}) = Cardinality(S) + 1
  BY Count, FS_AddElement
<1>2. Cardinality(S \cup {w}) <= Cardinality(Worker)
  <2>1. S \cup {w} \in SUBSET Worker
    OBVIOUS
  <2> QED  BY <2>1, Count
<1> QED  BY <1>1, <1>2

LEMMA HeldType ==
  ASSUME proc \in [Worker -> ProcType], NEW w \in Worker, NEW x \in Slot \cup {Nil},
         proc' = [proc EXCEPT ![w].held = x]
  PROVE  proc' \in [Worker -> ProcType]
BY DEF ProcType

LEMMA IdType ==
  ASSUME proc \in [Worker -> ProcType], NEW w \in Worker, NEW i \in PodId,
         proc' = [proc EXCEPT ![w].pc = "lock_reg", ![w].id = i]
  PROVE  proc' \in [Worker -> ProcType]
<1>1. "lock_reg" \in Pc
  BY DEF Pc, MiddlePc
<1> QED  BY <1>1 DEF ProcType

LEMMA EntryType ==
  ASSUME IInv
  PROVE  /\ registry \in Text /\ LastText \in Text
         /\ \A i \in DOMAIN registry.entries : registry.entries[i] \in Entry
         /\ \A i \in DOMAIN LastText.entries : LastText.entries[i] \in Entry
<1>1. registry \in Text /\ LastText \in Text
  BY DEF IInv, Types, ProcType, LastText
<1> QED  BY <1>1 DEF Text

LEMMA StartInv ==
  ASSUME DaemonsFirst, Cardinality(Worker) <= RegistryCap, IInv, NEW w \in Worker, Start(w)
  PROVE  IInv'
<1>0. UNCHANGED <<open, torn, counter, counterLock, registry, registryLock, used, ring, msgs, dpa,
    known, send>>
  BY DEF Start, GoTo, files, shm, daemons
<1>a. /\ \A u \in Worker \ {w} : proc'[u] = proc[u]
      /\ proc[w].pc = "off" /\ proc'[w].pc = "lock_id"
      /\ proc'[w].cur = proc[w].cur /\ proc'[w].buf = proc[w].buf
      /\ proc'[w].id = proc[w].id /\ proc'[w].held = proc[w].held
  BY DEF Start, GoTo, IInv, Types, ProcType
<1>k. LastId' = LastId /\ LastText' = LastText
  BY <1>0, <1>a, StartupAssumption DEF IInv, Locks, CountingPc, RegisteringPc, LastId, LastText
<1>1. Types'
  <2>1. proc' \in [Worker -> ProcType]
    BY <1>0, <1>a DEF Start, GoTo, IInv, Types, ProcType, Pc, EarlyPc, MiddlePc, LatePc,
        CountingPc, RegisteringPc
  <2> QED  BY <1>0, <1>a, <2>1 DEF IInv, Types, Start, GoTo
<1>2. Quiet'
  BY <1>0, <1>k, <1>a, StartupAssumption DEF IInv, Start, GoTo, Quiet
<1>3. Locks'
  BY <1>0, <1>k, <1>a, StartupAssumption DEF IInv, Locks, EarlyPc, MiddlePc, LatePc, CountingPc,
      RegisteringPc
<1>4. Copies'
  BY <1>0, <1>k, <1>a, StartupAssumption DEF IInv, Copies, Locks, CountingPc, RegisteringPc
<1>5. Counted'
  <2>1. WithId' = WithId
    BY <1>0, <1>k, <1>a DEF WithId
  <2> QED  BY <1>0, <1>k, <2>1 DEF IInv, Counted
<1>6. Ids'
  BY <1>0, <1>k, <1>a, StartupAssumption DEF IInv, Ids, EarlyPc, MiddlePc, LatePc, CountingPc,
      RegisteringPc
<1>7. Names'
  BY <1>0, <1>k, <1>a, StartupAssumption DEF IInv, Start, GoTo, Names, Alive
<1>8. Registered'
  BY <1>0, <1>k, <1>a, StartupAssumption DEF IInv, Registered, EntryOf, Names, Alive
<1>9. Written'
  <2>1. Writers' = Writers
    BY <1>0, <1>k, <1>a DEF Writers
  <2> QED  BY <1>0, <1>k, <2>1 DEF IInv, Written
<1>10. Entries'
  BY <1>0, <1>k, <1>a, StartupAssumption DEF IInv, Entries, Known
<1>11. Queues'
  BY <1>0, <1>k, <1>a, StartupAssumption DEF IInv, Queues, Ids, EarlyPc, MiddlePc, LatePc,
      CountingPc, RegisteringPc
<1>12. Pools'
  <2> SUFFICES ASSUME NEW s \in Service, Alone(s)'
               PROVE  /\ SlotSent(s)' => /\ send'.slot \in used'[s]
                                         /\ \A v \in Worker : ServiceOf[v] = s =>
                                              proc'[v].pc \in LatePc \cup {"off", "dead"}
                      /\ \A v \in Worker : ServiceOf[v] = s /\ proc'[v].pc = "run" => Shared(s, v)'
    BY DEF Pools
  <2>1. Alone(s) /\ (SlotSent(s)' <=> SlotSent(s))
    BY <1>0, <1>k, <1>a DEF Alone, SlotSent
  <2>2. ASSUME SlotSent(s)
        PROVE  /\ send.slot \in used[s]
               /\ \A v \in Worker : ServiceOf[v] = s => proc[v].pc \in LatePc \cup {"off", "dead"}
    BY <2>1, <2>2 DEF IInv, Pools
  <2>3. ASSUME SlotSent(s), NEW v \in Worker, ServiceOf[v] = s
        PROVE  proc'[v].pc \in LatePc \cup {"off", "dead"}
    <3>1. CASE v # w
      BY <1>a, <2>2, <2>3, <3>1
    <3>2. CASE v = w
      <4>1. PICK u \in Worker : proc[u].id # Nil /\ ServiceOf[u] = s
        BY <2>3 DEF IInv, Entries, Known, SlotSent
      <4>2. u # w /\ proc[u].pc # "off"
        BY <1>a, <4>1 DEF IInv, Ids, EarlyPc
      <4> QED  BY <1>a, <2>3, <3>2, <4>1, <4>2 DEF Alone
    <3> QED  BY <3>1, <3>2
  <2>4. ASSUME SlotSent(s)
        PROVE  send'.slot \in used'[s]
    BY <1>0, <1>k, <2>2, <2>4
  <2>5. ASSUME NEW v \in Worker, ServiceOf[v] = s, proc'[v].pc = "run", v # w
        PROVE  Shared(s, v)'
    <3>1. proc'[v] = proc[v] /\ Shared(s, v)
      BY <1>a, <2>1, <2>5 DEF IInv, Pools
    <3>2. msgs'[proc[v].id] = msgs[proc[v].id]
      BY <1>0
    <3>3. used'[s] = used[s]
      BY <1>0
    <3> QED  BY <1>0, <1>k, <3>1, <3>2, <3>3 DEF Shared, SlotSent
  <2>6. ASSUME proc'[w].pc = "run", ServiceOf[w] = s
        PROVE  Shared(s, w)'
    BY <1>a, <2>6
  <2> QED  BY <2>1, <2>2, <2>3, <2>4, <2>5, <2>6
<1> QED  BY <1>1, <1>2, <1>3, <1>4, <1>5, <1>6, <1>7, <1>8, <1>9, <1>10, <1>11, <1>12 DEF IInv

LEMMA LockCounterInv ==
  ASSUME DaemonsFirst, Cardinality(Worker) <= RegistryCap, IInv, NEW w \in Worker, LockCounter(w)
  PROVE  IInv'
<1>0. UNCHANGED <<open, torn, counter, registry, registryLock, used, ring, msgs, dpa, known, send>>
  BY DEF LockCounter, GoTo, files, shm, daemons
<1>a. /\ \A u \in Worker \ {w} : proc'[u] = proc[u]
      /\ proc[w].pc = "lock_id" /\ proc'[w].pc = "read_id"
      /\ proc'[w].cur = proc[w].cur /\ proc'[w].buf = proc[w].buf
      /\ proc'[w].id = proc[w].id /\ proc'[w].held = proc[w].held
      /\ counterLock = Nil /\ counterLock' = w
  BY DEF LockCounter, GoTo, IInv, Types, ProcType
<1>k. LastId' = LastId /\ LastText' = LastText
  BY <1>0, <1>a, StartupAssumption DEF IInv, Locks, CountingPc, RegisteringPc, LastId, LastText
<1>1. Types'
  <2>1. proc' \in [Worker -> ProcType]
    BY <1>0, <1>a DEF LockCounter, GoTo, IInv, Types, ProcType, Pc, EarlyPc, MiddlePc,
        LatePc, CountingPc, RegisteringPc
  <2> QED  BY <1>0, <1>a, <2>1 DEF IInv, Types, LockCounter, GoTo
<1>2. Quiet'
  BY <1>0, <1>k, <1>a, StartupAssumption DEF IInv, Quiet
<1>3. Locks'
  BY <1>0, <1>k, <1>a, StartupAssumption DEF IInv, Locks, EarlyPc, MiddlePc, LatePc, CountingPc,
      RegisteringPc
<1>4. Copies'
  BY <1>0, <1>k, <1>a, StartupAssumption DEF IInv, Copies, Locks, CountingPc, RegisteringPc
<1>5. Counted'
  <2>1. WithId' = WithId
    BY <1>0, <1>k, <1>a DEF WithId
  <2> QED  BY <1>0, <1>k, <2>1 DEF IInv, Counted
<1>6. Ids'
  BY <1>0, <1>k, <1>a, StartupAssumption DEF IInv, Ids, EarlyPc, MiddlePc, LatePc, CountingPc,
      RegisteringPc
<1>7. Names'
  BY <1>0, <1>k, <1>a, StartupAssumption DEF IInv, LockCounter, GoTo, Names, Alive
<1>8. Registered'
  BY <1>0, <1>k, <1>a, StartupAssumption DEF IInv, Registered, EntryOf, Names, Alive
<1>9. Written'
  <2>1. Writers' = Writers
    BY <1>0, <1>k, <1>a DEF Writers
  <2> QED  BY <1>0, <1>k, <2>1 DEF IInv, Written
<1>10. Entries'
  BY <1>0, <1>k, <1>a, StartupAssumption DEF IInv, Entries, Known
<1>11. Queues'
  BY <1>0, <1>k, <1>a, StartupAssumption DEF IInv, Queues, Ids, EarlyPc, MiddlePc, LatePc,
      CountingPc, RegisteringPc
<1>12. Pools'
  <2> SUFFICES ASSUME NEW s \in Service, Alone(s)'
               PROVE  /\ SlotSent(s)' => /\ send'.slot \in used'[s]
                                         /\ \A v \in Worker : ServiceOf[v] = s =>
                                              proc'[v].pc \in LatePc \cup {"off", "dead"}
                      /\ \A v \in Worker : ServiceOf[v] = s /\ proc'[v].pc = "run" => Shared(s, v)'
    BY DEF Pools
  <2>1. Alone(s) /\ (SlotSent(s)' <=> SlotSent(s))
    BY <1>0, <1>k, <1>a DEF Alone, SlotSent
  <2>2. ASSUME SlotSent(s)
        PROVE  /\ send.slot \in used[s]
               /\ \A v \in Worker : ServiceOf[v] = s => proc[v].pc \in LatePc \cup {"off", "dead"}
    BY <2>1, <2>2 DEF IInv, Pools
  <2>3. ASSUME SlotSent(s), NEW v \in Worker, ServiceOf[v] = s
        PROVE  proc'[v].pc \in LatePc \cup {"off", "dead"}
    BY <1>0, <1>k, <1>a, <2>2, <2>3 DEF LatePc, MiddlePc, RegisteringPc
  <2>4. ASSUME SlotSent(s)
        PROVE  send'.slot \in used'[s]
    BY <1>0, <1>k, <2>2, <2>4
  <2>5. ASSUME NEW v \in Worker, ServiceOf[v] = s, proc'[v].pc = "run", v # w
        PROVE  Shared(s, v)'
    <3>1. proc'[v] = proc[v] /\ Shared(s, v)
      BY <1>a, <2>1, <2>5 DEF IInv, Pools
    <3>2. msgs'[proc[v].id] = msgs[proc[v].id]
      BY <1>0
    <3>3. used'[s] = used[s]
      BY <1>0
    <3> QED  BY <1>0, <1>k, <3>1, <3>2, <3>3 DEF Shared, SlotSent
  <2>6. ASSUME proc'[w].pc = "run", ServiceOf[w] = s
        PROVE  Shared(s, w)'
    BY <1>a, <2>6
  <2> QED  BY <2>1, <2>2, <2>3, <2>4, <2>5, <2>6
<1> QED  BY <1>1, <1>2, <1>3, <1>4, <1>5, <1>6, <1>7, <1>8, <1>9, <1>10, <1>11, <1>12 DEF IInv

LEMMA ReadCounterInv ==
  ASSUME DaemonsFirst, Cardinality(Worker) <= RegistryCap, IInv, NEW w \in Worker, ReadCounter(w)
  PROVE  IInv'
<1>0. UNCHANGED <<open, torn, counter, counterLock, registry, registryLock, used, ring, msgs, dpa,
    known, send>>
  BY DEF ReadCounter, files, shm, daemons
<1>a. /\ \A u \in Worker \ {w} : proc'[u] = proc[u]
      /\ proc[w].pc = "read_id" /\ proc'[w].pc = "open_id"
      /\ proc'[w].buf = proc[w].buf /\ proc'[w].id = proc[w].id
      /\ proc'[w].held = proc[w].held
      /\ proc'[w].cur = counter
  BY DEF ReadCounter, IInv, Types, ProcType
<1>k. LastId' = LastId /\ LastText' = LastText
  BY <1>0, <1>a, StartupAssumption DEF IInv, Locks, CountingPc, RegisteringPc, LastId, LastText
<1>1. Types'
  <2>1. proc' \in [Worker -> ProcType]
    <3>1. "open_id" \in Pc
      BY DEF Pc, EarlyPc, MiddlePc, CountingPc, RegisteringPc
    <3>2. counter \in Nat /\ proc \in [Worker -> ProcType]
      BY DEF IInv, Types
    <3> QED  BY <3>1, <3>2 DEF ReadCounter, ProcType
  <2> QED  BY <1>0, <1>a, <2>1 DEF IInv, Types, ReadCounter
<1>2. Quiet'
  BY <1>0, <1>k, <1>a, StartupAssumption DEF IInv, Quiet
<1>3. Locks'
  BY <1>0, <1>k, <1>a, StartupAssumption DEF IInv, Locks, EarlyPc, MiddlePc, LatePc, CountingPc,
      RegisteringPc
<1>4. Copies'
  BY <1>0, <1>k, <1>a, StartupAssumption DEF IInv, Copies, Locks, CountingPc, RegisteringPc
<1>5. Counted'
  <2>1. WithId' = WithId
    BY <1>0, <1>k, <1>a DEF WithId
  <2> QED  BY <1>0, <1>k, <2>1 DEF IInv, Counted
<1>6. Ids'
  BY <1>0, <1>k, <1>a, StartupAssumption DEF IInv, Ids, EarlyPc, MiddlePc, LatePc, CountingPc,
      RegisteringPc
<1>7. Names'
  BY <1>0, <1>k, <1>a, StartupAssumption DEF IInv, ReadCounter, Names, Alive
<1>8. Registered'
  BY <1>0, <1>k, <1>a, StartupAssumption DEF IInv, Registered, EntryOf, Names, Alive
<1>9. Written'
  <2>1. Writers' = Writers
    BY <1>0, <1>k, <1>a DEF Writers
  <2> QED  BY <1>0, <1>k, <2>1 DEF IInv, Written
<1>10. Entries'
  BY <1>0, <1>k, <1>a, StartupAssumption DEF IInv, Entries, Known
<1>11. Queues'
  BY <1>0, <1>k, <1>a, StartupAssumption DEF IInv, Queues, Ids, EarlyPc, MiddlePc, LatePc,
      CountingPc, RegisteringPc
<1>12. Pools'
  <2> SUFFICES ASSUME NEW s \in Service, Alone(s)'
               PROVE  /\ SlotSent(s)' => /\ send'.slot \in used'[s]
                                         /\ \A v \in Worker : ServiceOf[v] = s =>
                                              proc'[v].pc \in LatePc \cup {"off", "dead"}
                      /\ \A v \in Worker : ServiceOf[v] = s /\ proc'[v].pc = "run" => Shared(s, v)'
    BY DEF Pools
  <2>1. Alone(s) /\ (SlotSent(s)' <=> SlotSent(s))
    BY <1>0, <1>k, <1>a DEF Alone, SlotSent
  <2>2. ASSUME SlotSent(s)
        PROVE  /\ send.slot \in used[s]
               /\ \A v \in Worker : ServiceOf[v] = s => proc[v].pc \in LatePc \cup {"off", "dead"}
    BY <2>1, <2>2 DEF IInv, Pools
  <2>3. ASSUME SlotSent(s), NEW v \in Worker, ServiceOf[v] = s
        PROVE  proc'[v].pc \in LatePc \cup {"off", "dead"}
    BY <1>0, <1>k, <1>a, <2>2, <2>3 DEF LatePc, MiddlePc, RegisteringPc
  <2>4. ASSUME SlotSent(s)
        PROVE  send'.slot \in used'[s]
    BY <1>0, <1>k, <2>2, <2>4
  <2>5. ASSUME NEW v \in Worker, ServiceOf[v] = s, proc'[v].pc = "run", v # w
        PROVE  Shared(s, v)'
    <3>1. proc'[v] = proc[v] /\ Shared(s, v)
      BY <1>a, <2>1, <2>5 DEF IInv, Pools
    <3>2. msgs'[proc[v].id] = msgs[proc[v].id]
      BY <1>0
    <3>3. used'[s] = used[s]
      BY <1>0
    <3> QED  BY <1>0, <1>k, <3>1, <3>2, <3>3 DEF Shared, SlotSent
  <2>6. ASSUME proc'[w].pc = "run", ServiceOf[w] = s
        PROVE  Shared(s, w)'
    BY <1>a, <2>6
  <2> QED  BY <2>1, <2>2, <2>3, <2>4, <2>5, <2>6
<1> QED  BY <1>1, <1>2, <1>3, <1>4, <1>5, <1>6, <1>7, <1>8, <1>9, <1>10, <1>11, <1>12 DEF IInv

LEMMA OpenCounterInv ==
  ASSUME DaemonsFirst, Cardinality(Worker) <= RegistryCap, IInv, NEW w \in Worker, OpenCounter(w)
  PROVE  IInv'
<1>0. UNCHANGED <<torn, counterLock, registry, registryLock, used, ring, msgs, dpa, known, send>>
  BY DEF OpenCounter, GoTo, files, shm, daemons
<1>a. /\ \A u \in Worker \ {w} : proc'[u] = proc[u]
      /\ proc[w].pc = "open_id" /\ proc'[w].pc = "write_id"
      /\ proc'[w].buf = proc[w].buf /\ proc'[w].id = proc[w].id
      /\ proc'[w].held = proc[w].held
      /\ proc'[w].cur = proc[w].cur
      /\ counter' = 0 /\ open' = open \cup {<<"counter", w>>}
  BY DEF OpenCounter, GoTo, IInv, Types, ProcType
<1>k. LastId' = LastId /\ LastText' = LastText
  BY <1>0, <1>a, StartupAssumption DEF IInv, Locks, CountingPc, RegisteringPc, LastId,
    LastText, Copies
<1>1. Types'
  <2>1. proc' \in [Worker -> ProcType]
    BY <1>0, <1>a DEF OpenCounter, GoTo, IInv, Types, ProcType, Pc, EarlyPc, MiddlePc,
        LatePc, CountingPc, RegisteringPc
  <2> QED  BY <1>0, <1>a, <2>1 DEF IInv, Types, OpenCounter
<1>2. Quiet'
  BY <1>0, <1>k, <1>a, StartupAssumption DEF IInv, Quiet
<1>3. Locks'
  BY <1>0, <1>k, <1>a, StartupAssumption DEF IInv, Locks, EarlyPc, MiddlePc, LatePc, CountingPc,
      RegisteringPc
<1>4. Copies'
  BY <1>0, <1>k, <1>a, StartupAssumption DEF IInv, Copies, Locks, CountingPc, RegisteringPc
<1>5. Counted'
  <2>1. WithId' = WithId
    BY <1>0, <1>k, <1>a DEF WithId
  <2> QED  BY <1>0, <1>k, <2>1 DEF IInv, Counted
<1>6. Ids'
  BY <1>0, <1>k, <1>a, StartupAssumption DEF IInv, Ids, EarlyPc, MiddlePc, LatePc, CountingPc,
      RegisteringPc
<1>7. Names'
  BY <1>0, <1>k, <1>a, StartupAssumption DEF IInv, OpenCounter, Names, Alive
<1>8. Registered'
  BY <1>0, <1>k, <1>a, StartupAssumption DEF IInv, Registered, EntryOf, Names, Alive
<1>9. Written'
  <2>1. Writers' = Writers
    BY <1>0, <1>k, <1>a DEF Writers
  <2> QED  BY <1>0, <1>k, <2>1 DEF IInv, Written
<1>10. Entries'
  BY <1>0, <1>k, <1>a, StartupAssumption DEF IInv, Entries, Known
<1>11. Queues'
  BY <1>0, <1>k, <1>a, StartupAssumption DEF IInv, Queues, Ids, EarlyPc, MiddlePc, LatePc,
      CountingPc, RegisteringPc
<1>12. Pools'
  <2> SUFFICES ASSUME NEW s \in Service, Alone(s)'
               PROVE  /\ SlotSent(s)' => /\ send'.slot \in used'[s]
                                         /\ \A v \in Worker : ServiceOf[v] = s =>
                                              proc'[v].pc \in LatePc \cup {"off", "dead"}
                      /\ \A v \in Worker : ServiceOf[v] = s /\ proc'[v].pc = "run" => Shared(s, v)'
    BY DEF Pools
  <2>1. Alone(s) /\ (SlotSent(s)' <=> SlotSent(s))
    BY <1>0, <1>k, <1>a DEF Alone, SlotSent
  <2>2. ASSUME SlotSent(s)
        PROVE  /\ send.slot \in used[s]
               /\ \A v \in Worker : ServiceOf[v] = s => proc[v].pc \in LatePc \cup {"off", "dead"}
    BY <2>1, <2>2 DEF IInv, Pools
  <2>3. ASSUME SlotSent(s), NEW v \in Worker, ServiceOf[v] = s
        PROVE  proc'[v].pc \in LatePc \cup {"off", "dead"}
    BY <1>0, <1>k, <1>a, <2>2, <2>3 DEF LatePc, MiddlePc, RegisteringPc
  <2>4. ASSUME SlotSent(s)
        PROVE  send'.slot \in used'[s]
    BY <1>0, <1>k, <2>2, <2>4
  <2>5. ASSUME NEW v \in Worker, ServiceOf[v] = s, proc'[v].pc = "run", v # w
        PROVE  Shared(s, v)'
    <3>1. proc'[v] = proc[v] /\ Shared(s, v)
      BY <1>a, <2>1, <2>5 DEF IInv, Pools
    <3>2. msgs'[proc[v].id] = msgs[proc[v].id]
      BY <1>0
    <3>3. used'[s] = used[s]
      BY <1>0
    <3> QED  BY <1>0, <1>k, <3>1, <3>2, <3>3 DEF Shared, SlotSent
  <2>6. ASSUME proc'[w].pc = "run", ServiceOf[w] = s
        PROVE  Shared(s, w)'
    BY <1>a, <2>6
  <2> QED  BY <2>1, <2>2, <2>3, <2>4, <2>5, <2>6
<1> QED  BY <1>1, <1>2, <1>3, <1>4, <1>5, <1>6, <1>7, <1>8, <1>9, <1>10, <1>11, <1>12 DEF IInv

LEMMA WriteCounterInv ==
  ASSUME DaemonsFirst, Cardinality(Worker) <= RegistryCap, IInv, NEW w \in Worker, WriteCounter(w)
  PROVE  IInv'
<1>0. UNCHANGED <<torn, registry, registryLock, used, ring, msgs, dpa, known, send>>
  BY DEF WriteCounter, NewId, Unlocked, files, shm, daemons
<1>a. /\ \A u \in Worker \ {w} : proc'[u] = proc[u]
      /\ proc[w].pc = "write_id" /\ proc'[w].pc = "lock_reg"
      /\ proc'[w].buf = proc[w].buf /\ proc'[w].held = proc[w].held
      /\ proc'[w].cur = proc[w].cur /\ proc'[w].id = proc[w].cur + 1
      /\ open' = open \ {<<"counter", w>>}
  BY DEF WriteCounter, NewId, IInv, Types, ProcType
<1>b. /\ proc[w].id = Nil /\ counterLock = w /\ counterLock' = Nil
      /\ counter' = proc[w].cur + 1
  BY <1>a DEF WriteCounter, NewId, Unlocked, IInv, Locks, CountingPc, Ids, EarlyPc
<1>k. /\ LastId = proc[w].cur /\ LastId' = LastId + 1 /\ LastText' = LastText
      /\ proc'[w].id = LastId + 1 /\ counter' = LastId + 1
  BY <1>0, <1>a, <1>b, StartupAssumption DEF IInv, Locks, RegisteringPc, LastId, LastText
<1>c. LastId + 1 \in PodId /\ LastId \in Nat
  <2>1. WithId \in SUBSET Worker /\ w \notin WithId
    BY <1>b DEF WithId
  <2>2. LastId \in Nat
    BY <1>k DEF IInv, Types, ProcType
  <2>3. LastId + 1 <= Cardinality(Worker) /\ Cardinality(Worker) \in Nat
    <3>1. LastId <= Cardinality(WithId)
      BY DEF IInv, Counted
    <3>2. /\ Cardinality(WithId) \in Nat /\ Cardinality(Worker) \in Nat
          /\ Cardinality(WithId) + 1 <= Cardinality(Worker)
      BY <2>1, CountOneMore, Count
    <3> QED  BY <2>2, <3>1, <3>2
  <2> QED  BY <2>2, <2>3 DEF PodId
<1>d. LastId + 1 # Nil /\ Nil \notin PodId /\ \A i \in PodId : i \in Nat
  BY <1>c, StartupAssumption DEF PodId
<1>1. Types'
  <2>1. proc' \in [Worker -> ProcType]
    <3>1. proc' = [proc EXCEPT ![w].pc = "lock_reg", ![w].id = LastId + 1]
      BY <1>k DEF WriteCounter, NewId
    <3> QED  BY <1>c, <3>1, IdType DEF IInv, Types
  <2> QED  BY <1>0, <1>a, <1>b, <1>c, <1>k, <2>1 DEF IInv, Types
<1>2. Quiet'
  BY <1>0, <1>k, <1>a, <1>b, <1>c, <1>d, StartupAssumption DEF IInv, Quiet
<1>3. Locks'
  BY <1>0, <1>k, <1>a, <1>b, <1>c, <1>d, StartupAssumption DEF IInv, Locks, EarlyPc, MiddlePc,
      LatePc, CountingPc, RegisteringPc
<1>4. Copies'
  BY <1>0, <1>k, <1>a, <1>b, <1>c, <1>d, StartupAssumption DEF IInv, Copies, Locks, CountingPc,
      RegisteringPc
<1>5. Counted'
  <2>1. WithId \in SUBSET Worker /\ w \notin WithId
    BY <1>b DEF WithId
  <2>2. WithId' = WithId \cup {w}
    BY <1>a, <1>b, <1>d, <1>k DEF WithId
  <2> QED  BY <1>c, <1>k, <2>1, <2>2, Count, CountOneMore DEF IInv, Counted
<1>6. Ids'
  <2>1. \A v \in Worker : "counter" \notin torn /\ proc[v].id # Nil =>
                              proc[v].id \in Nat /\ proc[v].id <= LastId
    BY <1>d DEF IInv, Types, ProcType, Ids
  <2>2. \A v \in Worker : "counter" \notin torn /\ proc'[v].id # Nil => proc'[v].id <= LastId'
    BY <1>a, <1>c, <1>k, <2>1
  <2>3. \A v \in Worker : /\ proc'[v].pc \in EarlyPc => proc'[v].id = Nil
                          /\ proc'[v].pc \in MiddlePc \cup LatePc => proc'[v].id # Nil
                          /\ proc'[v].pc # "run" => proc'[v].held = Nil
    BY <1>a, <1>b, <1>d, <1>k DEF IInv, Ids, EarlyPc, MiddlePc, LatePc, CountingPc, RegisteringPc
  <2>4. \A u, v \in Worker :
          "counter" \notin torn /\ u # v /\ proc'[u].id # Nil => proc'[u].id # proc'[v].id
    BY <1>a, <1>b, <1>c, <1>d, <1>k, <2>1 DEF IInv, Ids
  <2> QED  BY <1>0, <2>2, <2>3, <2>4 DEF Ids, EarlyPc, MiddlePc, LatePc, CountingPc, RegisteringPc
<1>7. Names'
  BY <1>0, <1>k, <1>a, <1>b, <1>c, <1>d, StartupAssumption DEF IInv, WriteCounter, NewId,
      Unlocked, Names, Alive
<1>8. Registered'
  <2>1. \A v \in Worker : proc'[v].pc \in {"pools", "ring", "reset", "run"} =>
                              proc'[v] = proc[v] /\ EntryOf(v)' = EntryOf(v)
    BY <1>a DEF EntryOf
  <2> QED  BY <1>0, <1>k, <2>1 DEF IInv, Registered
<1>9. Written'
  <2>1. Writers' = Writers
    BY <1>0, <1>k, <1>a, <1>b, <1>c, <1>d DEF Writers
  <2> QED  BY <1>0, <1>k, <2>1 DEF IInv, Written
<1>10. Entries'
  <2>2. ASSUME NEW i \in DOMAIN LastText.entries
        PROVE  \E v \in Worker : /\ proc'[v].id = LastText.entries[i].id
                                 /\ ServiceOf[v] = LastText.entries[i].svc
    <3>1. LastText.entries[i].id \in PodId
      BY EntryType DEF Entry
    <3>2. PICK v \in Worker : /\ proc[v].id = LastText.entries[i].id
                              /\ ServiceOf[v] = LastText.entries[i].svc
      BY DEF IInv, Entries, Known
    <3>3. v # w
      BY <1>b, <1>d, <3>1, <3>2
    <3> QED  BY <1>a, <3>2, <3>3
  <2>3. ASSUME send.id # Nil
        PROVE  \E v \in Worker : proc'[v].id = send.id /\ ServiceOf[v] = send.svc
    BY <1>a, <1>b, <2>3 DEF IInv, Entries, Known
  <2> QED  BY <1>0, <1>k, <2>2, <2>3 DEF IInv, Entries, Known
<1>11. Queues'
  <2>1. LastId' > LastId /\ \A i \in PodId : i > LastId' => i > LastId
    BY <1>c, <1>d, <1>k
  <2>2. "counter" \notin torn => \A i \in PodId : i > LastId' => ring'[i] = Nil
    BY <1>0, <2>1 DEF IInv, Queues
  <2>3. "counter" \notin torn => ring'[proc'[w].id] = Nil
    BY <1>0, <1>c, <1>k, <2>1 DEF IInv, Queues
  <2> QED  BY <1>0, <1>k, <1>a, <2>2, <2>3 DEF IInv, Queues, PodId, MiddlePc, LatePc, RegisteringPc
<1>12. Pools'
  <2> SUFFICES ASSUME NEW s \in Service, Alone(s)'
               PROVE  /\ SlotSent(s)' => /\ send'.slot \in used'[s]
                                         /\ \A v \in Worker : ServiceOf[v] = s =>
                                              proc'[v].pc \in LatePc \cup {"off", "dead"}
                      /\ \A v \in Worker : ServiceOf[v] = s /\ proc'[v].pc = "run" => Shared(s, v)'
    BY DEF Pools
  <2>1. Alone(s) /\ (SlotSent(s)' <=> SlotSent(s))
    BY <1>0, <1>k, <1>a DEF Alone, SlotSent
  <2>2. ASSUME SlotSent(s)
        PROVE  /\ send.slot \in used[s]
               /\ \A v \in Worker : ServiceOf[v] = s => proc[v].pc \in LatePc \cup {"off", "dead"}
    BY <2>1, <2>2 DEF IInv, Pools
  <2>3. ASSUME SlotSent(s), NEW v \in Worker, ServiceOf[v] = s
        PROVE  proc'[v].pc \in LatePc \cup {"off", "dead"}
    BY <1>0, <1>k, <1>a, <2>2, <2>3 DEF LatePc, MiddlePc, RegisteringPc
  <2>4. ASSUME SlotSent(s)
        PROVE  send'.slot \in used'[s]
    BY <1>0, <1>k, <2>2, <2>4
  <2>5. ASSUME NEW v \in Worker, ServiceOf[v] = s, proc'[v].pc = "run", v # w
        PROVE  Shared(s, v)'
    <3>1. proc'[v] = proc[v] /\ Shared(s, v)
      BY <1>a, <2>1, <2>5 DEF IInv, Pools
    <3>2. msgs'[proc[v].id] = msgs[proc[v].id]
      BY <1>0
    <3>3. used'[s] = used[s]
      BY <1>0
    <3> QED  BY <1>0, <1>k, <3>1, <3>2, <3>3 DEF Shared, SlotSent
  <2>6. ASSUME proc'[w].pc = "run", ServiceOf[w] = s
        PROVE  Shared(s, w)'
    BY <1>a, <2>6
  <2> QED  BY <2>1, <2>2, <2>3, <2>4, <2>5, <2>6
<1> QED  BY <1>1, <1>2, <1>3, <1>4, <1>5, <1>6, <1>7, <1>8, <1>9, <1>10, <1>11, <1>12 DEF IInv

LEMMA LockRegistryInv ==
  ASSUME DaemonsFirst, Cardinality(Worker) <= RegistryCap, IInv, NEW w \in Worker, LockRegistry(w)
  PROVE  IInv'
<1>0. UNCHANGED <<open, torn, counter, counterLock, registry, used, ring, msgs, dpa, known, send>>
  BY DEF LockRegistry, GoTo, files, shm, daemons
<1>a. /\ \A u \in Worker \ {w} : proc'[u] = proc[u]
      /\ proc[w].pc = "lock_reg" /\ proc'[w].pc = "read_reg"
      /\ proc'[w].cur = proc[w].cur /\ proc'[w].buf = proc[w].buf
      /\ proc'[w].id = proc[w].id /\ proc'[w].held = proc[w].held
      /\ registryLock = Nil /\ registryLock' = w
  BY DEF LockRegistry, GoTo, IInv, Types, ProcType
<1>k. LastId' = LastId /\ LastText' = LastText
  BY <1>0, <1>a, StartupAssumption DEF IInv, Locks, CountingPc, RegisteringPc, LastId, LastText
<1>1. Types'
  <2>1. proc' \in [Worker -> ProcType]
    BY <1>0, <1>a DEF LockRegistry, GoTo, IInv, Types, ProcType, Pc, EarlyPc, MiddlePc,
        LatePc, CountingPc, RegisteringPc
  <2> QED  BY <1>0, <1>a, <2>1 DEF IInv, Types, LockRegistry, GoTo
<1>2. Quiet'
  BY <1>0, <1>k, <1>a, StartupAssumption DEF IInv, Quiet
<1>3. Locks'
  BY <1>0, <1>k, <1>a, StartupAssumption DEF IInv, Locks, EarlyPc, MiddlePc, LatePc, CountingPc,
      RegisteringPc
<1>4. Copies'
  BY <1>0, <1>k, <1>a, StartupAssumption DEF IInv, Copies, Locks, CountingPc, RegisteringPc
<1>5. Counted'
  <2>1. WithId' = WithId
    BY <1>0, <1>k, <1>a DEF WithId
  <2> QED  BY <1>0, <1>k, <2>1 DEF IInv, Counted
<1>6. Ids'
  BY <1>0, <1>k, <1>a, StartupAssumption DEF IInv, Ids, EarlyPc, MiddlePc, LatePc, CountingPc,
      RegisteringPc
<1>7. Names'
  BY <1>0, <1>k, <1>a, StartupAssumption DEF IInv, LockRegistry, GoTo, Names, Alive
<1>8. Registered'
  BY <1>0, <1>k, <1>a, StartupAssumption DEF IInv, Registered, EntryOf, Names, Alive
<1>9. Written'
  <2>1. Writers' = Writers
    BY <1>0, <1>k, <1>a DEF Writers
  <2> QED  BY <1>0, <1>k, <2>1 DEF IInv, Written
<1>10. Entries'
  BY <1>0, <1>k, <1>a, StartupAssumption DEF IInv, Entries, Known
<1>11. Queues'
  BY <1>0, <1>k, <1>a, StartupAssumption DEF IInv, Queues, Ids, EarlyPc, MiddlePc, LatePc,
      CountingPc, RegisteringPc
<1>12. Pools'
  <2> SUFFICES ASSUME NEW s \in Service, Alone(s)'
               PROVE  /\ SlotSent(s)' => /\ send'.slot \in used'[s]
                                         /\ \A v \in Worker : ServiceOf[v] = s =>
                                              proc'[v].pc \in LatePc \cup {"off", "dead"}
                      /\ \A v \in Worker : ServiceOf[v] = s /\ proc'[v].pc = "run" => Shared(s, v)'
    BY DEF Pools
  <2>1. Alone(s) /\ (SlotSent(s)' <=> SlotSent(s))
    BY <1>0, <1>k, <1>a DEF Alone, SlotSent
  <2>2. ASSUME SlotSent(s)
        PROVE  /\ send.slot \in used[s]
               /\ \A v \in Worker : ServiceOf[v] = s => proc[v].pc \in LatePc \cup {"off", "dead"}
    BY <2>1, <2>2 DEF IInv, Pools
  <2>3. ASSUME SlotSent(s), NEW v \in Worker, ServiceOf[v] = s
        PROVE  proc'[v].pc \in LatePc \cup {"off", "dead"}
    BY <1>0, <1>k, <1>a, <2>2, <2>3 DEF LatePc, MiddlePc, RegisteringPc
  <2>4. ASSUME SlotSent(s)
        PROVE  send'.slot \in used'[s]
    BY <1>0, <1>k, <2>2, <2>4
  <2>5. ASSUME NEW v \in Worker, ServiceOf[v] = s, proc'[v].pc = "run", v # w
        PROVE  Shared(s, v)'
    <3>1. proc'[v] = proc[v] /\ Shared(s, v)
      BY <1>a, <2>1, <2>5 DEF IInv, Pools
    <3>2. msgs'[proc[v].id] = msgs[proc[v].id]
      BY <1>0
    <3>3. used'[s] = used[s]
      BY <1>0
    <3> QED  BY <1>0, <1>k, <3>1, <3>2, <3>3 DEF Shared, SlotSent
  <2>6. ASSUME proc'[w].pc = "run", ServiceOf[w] = s
        PROVE  Shared(s, w)'
    BY <1>a, <2>6
  <2> QED  BY <2>1, <2>2, <2>3, <2>4, <2>5, <2>6
<1> QED  BY <1>1, <1>2, <1>3, <1>4, <1>5, <1>6, <1>7, <1>8, <1>9, <1>10, <1>11, <1>12 DEF IInv

LEMMA ReadRegistryInv ==
  ASSUME DaemonsFirst, Cardinality(Worker) <= RegistryCap, IInv, NEW w \in Worker, ReadRegistry(w)
  PROVE  IInv'
<1>0. UNCHANGED <<open, torn, counter, counterLock, registry, registryLock, used, ring, msgs, dpa,
    known, send>>
  BY DEF ReadRegistry, files, shm, daemons
<1>a. /\ \A u \in Worker \ {w} : proc'[u] = proc[u]
      /\ proc[w].pc = "read_reg" /\ proc'[w].pc = "open_reg"
      /\ proc'[w].cur = proc[w].cur /\ proc'[w].id = proc[w].id
      /\ proc'[w].held = proc[w].held
      /\ proc'[w].buf = registry
  BY DEF ReadRegistry, IInv, Types, ProcType
<1>k. LastId' = LastId /\ LastText' = LastText
  BY <1>0, <1>a, StartupAssumption DEF IInv, Locks, CountingPc, RegisteringPc, LastId, LastText
<1>1. Types'
  <2>1. proc' \in [Worker -> ProcType]
    <3>1. "open_reg" \in Pc
      BY DEF Pc, EarlyPc, MiddlePc, CountingPc, RegisteringPc
    <3>2. registry \in Text /\ proc \in [Worker -> ProcType]
      BY DEF IInv, Types
    <3> QED  BY <3>1, <3>2 DEF ReadRegistry, ProcType
  <2> QED  BY <1>0, <1>a, <2>1 DEF IInv, Types, ReadRegistry
<1>2. Quiet'
  BY <1>0, <1>k, <1>a, StartupAssumption DEF IInv, Quiet
<1>3. Locks'
  BY <1>0, <1>k, <1>a, StartupAssumption DEF IInv, Locks, EarlyPc, MiddlePc, LatePc, CountingPc,
      RegisteringPc
<1>4. Copies'
  BY <1>0, <1>k, <1>a, StartupAssumption DEF IInv, Copies, Locks, CountingPc, RegisteringPc
<1>5. Counted'
  <2>1. WithId' = WithId
    BY <1>0, <1>k, <1>a DEF WithId
  <2> QED  BY <1>0, <1>k, <2>1 DEF IInv, Counted
<1>6. Ids'
  BY <1>0, <1>k, <1>a, StartupAssumption DEF IInv, Ids, EarlyPc, MiddlePc, LatePc, CountingPc,
      RegisteringPc
<1>7. Names'
  BY <1>0, <1>k, <1>a, StartupAssumption DEF IInv, ReadRegistry, Names, Alive
<1>8. Registered'
  BY <1>0, <1>k, <1>a, StartupAssumption DEF IInv, Registered, EntryOf, Names, Alive
<1>9. Written'
  <2>1. Writers' = Writers
    BY <1>0, <1>k, <1>a DEF Writers
  <2> QED  BY <1>0, <1>k, <2>1 DEF IInv, Written
<1>10. Entries'
  BY <1>0, <1>k, <1>a, StartupAssumption DEF IInv, Entries, Known
<1>11. Queues'
  BY <1>0, <1>k, <1>a, StartupAssumption DEF IInv, Queues, Ids, EarlyPc, MiddlePc, LatePc,
      CountingPc, RegisteringPc
<1>12. Pools'
  <2> SUFFICES ASSUME NEW s \in Service, Alone(s)'
               PROVE  /\ SlotSent(s)' => /\ send'.slot \in used'[s]
                                         /\ \A v \in Worker : ServiceOf[v] = s =>
                                              proc'[v].pc \in LatePc \cup {"off", "dead"}
                      /\ \A v \in Worker : ServiceOf[v] = s /\ proc'[v].pc = "run" => Shared(s, v)'
    BY DEF Pools
  <2>1. Alone(s) /\ (SlotSent(s)' <=> SlotSent(s))
    BY <1>0, <1>k, <1>a DEF Alone, SlotSent
  <2>2. ASSUME SlotSent(s)
        PROVE  /\ send.slot \in used[s]
               /\ \A v \in Worker : ServiceOf[v] = s => proc[v].pc \in LatePc \cup {"off", "dead"}
    BY <2>1, <2>2 DEF IInv, Pools
  <2>3. ASSUME SlotSent(s), NEW v \in Worker, ServiceOf[v] = s
        PROVE  proc'[v].pc \in LatePc \cup {"off", "dead"}
    BY <1>0, <1>k, <1>a, <2>2, <2>3 DEF LatePc, MiddlePc, RegisteringPc
  <2>4. ASSUME SlotSent(s)
        PROVE  send'.slot \in used'[s]
    BY <1>0, <1>k, <2>2, <2>4
  <2>5. ASSUME NEW v \in Worker, ServiceOf[v] = s, proc'[v].pc = "run", v # w
        PROVE  Shared(s, v)'
    <3>1. proc'[v] = proc[v] /\ Shared(s, v)
      BY <1>a, <2>1, <2>5 DEF IInv, Pools
    <3>2. msgs'[proc[v].id] = msgs[proc[v].id]
      BY <1>0
    <3>3. used'[s] = used[s]
      BY <1>0
    <3> QED  BY <1>0, <1>k, <3>1, <3>2, <3>3 DEF Shared, SlotSent
  <2>6. ASSUME proc'[w].pc = "run", ServiceOf[w] = s
        PROVE  Shared(s, w)'
    BY <1>a, <2>6
  <2> QED  BY <2>1, <2>2, <2>3, <2>4, <2>5, <2>6
<1> QED  BY <1>1, <1>2, <1>3, <1>4, <1>5, <1>6, <1>7, <1>8, <1>9, <1>10, <1>11, <1>12 DEF IInv

LEMMA OpenRegistryInv ==
  ASSUME DaemonsFirst, Cardinality(Worker) <= RegistryCap, IInv, NEW w \in Worker, OpenRegistry(w)
  PROVE  IInv'
<1>0. UNCHANGED <<torn, counter, counterLock, registryLock, used, ring, msgs, dpa, known, send>>
  BY DEF OpenRegistry, GoTo, files, shm, daemons
<1>a. /\ \A u \in Worker \ {w} : proc'[u] = proc[u]
      /\ proc[w].pc = "open_reg" /\ proc'[w].pc = "write_reg"
      /\ proc'[w].buf = proc[w].buf /\ proc'[w].id = proc[w].id
      /\ proc'[w].held = proc[w].held
      /\ proc'[w].cur = proc[w].cur
      /\ registry' = Blank /\ open' = open \cup {<<"registry", w>>}
  BY DEF OpenRegistry, GoTo, IInv, Types, ProcType
<1>k. LastId' = LastId /\ LastText' = LastText
  BY <1>0, <1>a, StartupAssumption DEF IInv, Locks, CountingPc, RegisteringPc, LastId,
    LastText, Copies
<1>1. Types'
  <2>1. proc' \in [Worker -> ProcType]
    BY <1>0, <1>a DEF OpenRegistry, GoTo, IInv, Types, ProcType, Pc, EarlyPc, MiddlePc,
        LatePc, CountingPc, RegisteringPc
  <2> QED  BY <1>0, <1>a, <2>1 DEF IInv, Types, Blank, Text
<1>2. Quiet'
  BY <1>0, <1>k, <1>a, StartupAssumption DEF IInv, Quiet
<1>3. Locks'
  BY <1>0, <1>k, <1>a, StartupAssumption DEF IInv, Locks, EarlyPc, MiddlePc, LatePc, CountingPc,
      RegisteringPc
<1>4. Copies'
  BY <1>0, <1>k, <1>a, StartupAssumption DEF IInv, Copies, Locks, CountingPc, RegisteringPc
<1>5. Counted'
  <2>1. WithId' = WithId
    BY <1>0, <1>k, <1>a DEF WithId
  <2> QED  BY <1>0, <1>k, <2>1 DEF IInv, Counted
<1>6. Ids'
  BY <1>0, <1>k, <1>a, StartupAssumption DEF IInv, Ids, EarlyPc, MiddlePc, LatePc, CountingPc,
      RegisteringPc
<1>7. Names'
  BY <1>0, <1>k, <1>a, StartupAssumption DEF IInv, OpenRegistry, Names, Alive
<1>8. Registered'
  BY <1>0, <1>k, <1>a, StartupAssumption DEF IInv, Registered, EntryOf, Names, Alive
<1>9. Written'
  <2>1. Writers' = Writers
    BY <1>0, <1>k, <1>a DEF Writers
  <2> QED  BY <1>0, <1>k, <2>1 DEF IInv, Written
<1>10. Entries'
  BY <1>0, <1>k, <1>a, StartupAssumption DEF IInv, Entries, Known
<1>11. Queues'
  BY <1>0, <1>k, <1>a, StartupAssumption DEF IInv, Queues, Ids, EarlyPc, MiddlePc, LatePc,
      CountingPc, RegisteringPc
<1>12. Pools'
  <2> SUFFICES ASSUME NEW s \in Service, Alone(s)'
               PROVE  /\ SlotSent(s)' => /\ send'.slot \in used'[s]
                                         /\ \A v \in Worker : ServiceOf[v] = s =>
                                              proc'[v].pc \in LatePc \cup {"off", "dead"}
                      /\ \A v \in Worker : ServiceOf[v] = s /\ proc'[v].pc = "run" => Shared(s, v)'
    BY DEF Pools
  <2>1. Alone(s) /\ (SlotSent(s)' <=> SlotSent(s))
    BY <1>0, <1>k, <1>a DEF Alone, SlotSent
  <2>2. ASSUME SlotSent(s)
        PROVE  /\ send.slot \in used[s]
               /\ \A v \in Worker : ServiceOf[v] = s => proc[v].pc \in LatePc \cup {"off", "dead"}
    BY <2>1, <2>2 DEF IInv, Pools
  <2>3. ASSUME SlotSent(s), NEW v \in Worker, ServiceOf[v] = s
        PROVE  proc'[v].pc \in LatePc \cup {"off", "dead"}
    BY <1>0, <1>k, <1>a, <2>2, <2>3 DEF LatePc, MiddlePc, RegisteringPc
  <2>4. ASSUME SlotSent(s)
        PROVE  send'.slot \in used'[s]
    BY <1>0, <1>k, <2>2, <2>4
  <2>5. ASSUME NEW v \in Worker, ServiceOf[v] = s, proc'[v].pc = "run", v # w
        PROVE  Shared(s, v)'
    <3>1. proc'[v] = proc[v] /\ Shared(s, v)
      BY <1>a, <2>1, <2>5 DEF IInv, Pools
    <3>2. msgs'[proc[v].id] = msgs[proc[v].id]
      BY <1>0
    <3>3. used'[s] = used[s]
      BY <1>0
    <3> QED  BY <1>0, <1>k, <3>1, <3>2, <3>3 DEF Shared, SlotSent
  <2>6. ASSUME proc'[w].pc = "run", ServiceOf[w] = s
        PROVE  Shared(s, w)'
    BY <1>a, <2>6
  <2> QED  BY <2>1, <2>2, <2>3, <2>4, <2>5, <2>6
<1> QED  BY <1>1, <1>2, <1>3, <1>4, <1>5, <1>6, <1>7, <1>8, <1>9, <1>10, <1>11, <1>12 DEF IInv

LEMMA WriteRegistryInv ==
  ASSUME DaemonsFirst, Cardinality(Worker) <= RegistryCap, IInv, NEW w \in Worker, WriteRegistry(w)
  PROVE  IInv'
<1>0. UNCHANGED <<torn, counter, counterLock, used, ring, msgs, dpa, known, send>>
  BY DEF WriteRegistry, GoTo, files, shm, daemons
<1>a. /\ \A u \in Worker \ {w} : proc'[u] = proc[u]
      /\ proc[w].pc = "write_reg" /\ proc'[w].pc = "pools"
      /\ proc'[w].cur = proc[w].cur /\ proc'[w].buf = proc[w].buf
      /\ proc'[w].id = proc[w].id /\ proc'[w].held = proc[w].held
  BY DEF WriteRegistry, GoTo, IInv, Types, ProcType
<1>b. proc[w].id \in PodId /\ EntryOf(w) \in Entry
  BY <1>a, OwnId DEF MiddlePc, RegisteringPc, EntryOf, Entry, Service
<1>c. Writers \in SUBSET Worker /\ w \notin Writers
  BY <1>a DEF Writers
<1>d. /\ LastText = proc[w].buf /\ LastText \in Text /\ Len(LastText.entries) < RegistryCap
      /\ registryLock = w /\ registryLock' = Nil /\ open' = open \ {<<"registry", w>>}
  <2>1. LastText \in Text /\ Len(LastText.entries) \in Nat
    BY EntryType DEF Text
  <2>2. Len(LastText.entries) < Cardinality(Worker)
    <3>1. Len(LastText.entries) <= Cardinality(Writers)
      BY DEF IInv, Written
    <3>2. /\ Cardinality(Writers) \in Nat /\ Cardinality(Worker) \in Nat
          /\ Cardinality(Writers) + 1 <= Cardinality(Worker)
      BY <1>c, Count, CountOneMore
    <3> QED  BY <2>1, <3>1, <3>2
  <2>3. /\ registryLock = w /\ registryLock' = Nil /\ LastText = proc[w].buf
        /\ open' = open \ {<<"registry", w>>}
    BY <1>a DEF IInv, Locks, RegisteringPc, WriteRegistry, Unlocked, LastText
  <2> QED  BY <2>1, <2>2, <2>3, Count, StartupAssumption
<1>e. registry' = WithEntry(LastText, EntryOf(w))
  <2>1. registry.text = "blank" /\ <<"registry", w>> \in open
    <3>1. registry = Blank /\ <<"registry", w>> \in open
      BY <1>a DEF IInv, Copies, Locks
    <3> QED  BY <3>1 DEF Blank
  <2> QED  BY <1>d, <2>1 DEF WriteRegistry, Overwritten, EntryOf
<1>k. LastId' = LastId /\ LastText' = registry'
  BY <1>0, <1>a, <1>d, StartupAssumption DEF IInv, Locks, CountingPc, LastId, LastText
<1>f. ASSUME LastText.text = "ok"
      PROVE  /\ registry' \in Text /\ registry'.text = "ok"
             /\ registry'.entries = Append(LastText.entries, EntryOf(w))
             /\ Len(registry'.entries) = Len(LastText.entries) + 1
             /\ registry'.entries[Len(LastText.entries) + 1] = EntryOf(w)
             /\ \A i \in DOMAIN LastText.entries : registry'.entries[i] = LastText.entries[i]
             /\ DOMAIN LastText.entries = 1..Len(LastText.entries)
             /\ DOMAIN registry'.entries = 1..(Len(LastText.entries) + 1)
  <2>1. registry' = [LastText EXCEPT !.entries = Append(@, EntryOf(w))]
    BY <1>d, <1>e, <1>f DEF WithEntry
  <2> QED  BY <1>b, <1>d, <1>f, <2>1, SMTT(30) DEF Text
<1>g. EntryOf(w)' = EntryOf(w) /\ Len(LastText.entries) \in Nat
  BY <1>a, <1>d DEF EntryOf, Text
<1>h. ASSUME LastText.text # "ok"
      PROVE  registry' \in Text /\ registry'.entries = << >> /\ "registry" \in torn
  <2>1. registry' = Broken
    BY <1>e, <1>h DEF WithEntry
  <2>2. "registry" \in torn
    BY <1>a, <1>h DEF IInv, Quiet
  <2> QED  BY <2>1, <2>2 DEF Broken, Text
<1>t. registry' \in Text /\ ("registry" \notin torn => registry'.text = "ok")
  BY <1>f, <1>h
<1>1. Types'
  <2>1. proc' \in [Worker -> ProcType]
    BY <1>0, <1>a, <1>b, <1>d, <1>t DEF WriteRegistry, GoTo, IInv,
        Types, ProcType, Pc, EarlyPc, MiddlePc, LatePc, CountingPc, RegisteringPc
  <2> QED  BY <1>0, <1>a, <1>b, <1>d, <1>t, <2>1 DEF IInv, Types,
      WriteRegistry, GoTo
<1>2. Quiet'
  BY <1>0, <1>k, <1>a, <1>b, <1>d, <1>t, StartupAssumption DEF IInv, Quiet
<1>3. Locks'
  BY <1>0, <1>k, <1>a, <1>b, <1>d, <1>t, StartupAssumption DEF IInv, Locks,
      EarlyPc, MiddlePc, LatePc, CountingPc, RegisteringPc
<1>4. Copies'
  BY <1>0, <1>k, <1>a, <1>b, <1>d, <1>t, StartupAssumption DEF IInv, Copies,
      Locks, CountingPc, RegisteringPc
<1>5. Counted'
  <2>1. WithId' = WithId
    BY <1>0, <1>k, <1>a, <1>b, <1>d, <1>t DEF WithId
  <2> QED  BY <1>0, <1>k, <2>1 DEF IInv, Counted
<1>6. Ids'
  BY <1>0, <1>k, <1>a, <1>b, <1>d, <1>t, StartupAssumption DEF IInv, Ids,
      EarlyPc, MiddlePc, LatePc, CountingPc, RegisteringPc
<1>7. Names'
  BY <1>0, <1>k, <1>a, <1>b, <1>d, <1>t, StartupAssumption DEF IInv,
      WriteRegistry, GoTo, Names, Alive
<1>8. Registered'
  <2> SUFFICES ASSUME NEW v \in Worker, "registry" \notin torn, proc'[v].pc \in {"pools", "ring",
      "reset", "run"}
               PROVE  \E i \in DOMAIN registry'.entries :
                        /\ registry'.entries[i] = EntryOf(v)'
                        /\ \A k \in DOMAIN registry'.entries :
                             k > i => registry'.entries[k].name # NameOf[v]
    BY <1>0, <1>k DEF Registered
  <2>0. LastText.text = "ok"
    BY <1>h
  <2>1. CASE v = w
    BY <1>f, <1>g, <2>0, <2>1
  <2>2. CASE v # w
    <3>1. proc'[v] = proc[v] /\ EntryOf(v)' = EntryOf(v)
      BY <1>a, <2>2 DEF EntryOf
    <3>2. PICK i \in DOMAIN LastText.entries :
            /\ LastText.entries[i] = EntryOf(v)
            /\ \A k \in DOMAIN LastText.entries : k > i => LastText.entries[k].name # NameOf[v]
      BY <3>1 DEF IInv, Registered
    <3>3. EntryOf(w).name # NameOf[v]
      BY <1>a, <2>2, <3>1 DEF IInv, Names, Alive, EntryOf
    <3> QED  BY <1>f, <1>g, <2>0, <3>1, <3>2, <3>3
  <2> QED  BY <2>1, <2>2
<1>9. Written'
  <2>1. Writers' = Writers \cup {w}
    BY <1>a DEF Writers
  <2>2. Writers \cup {w} \in SUBSET Worker
    BY <1>c
  <2>3. CASE LastText.text = "ok"
    BY <1>c, <1>f, <1>g, <1>k, <2>1, <2>3, Count, CountOneMore DEF IInv, Written
  <2>4. CASE LastText.text # "ok"
    <3>1. Len(registry'.entries) = 0
      BY <1>h, <2>4
    <3> QED  BY <1>k, <2>1, <2>2, <3>1, Count DEF Written
  <2> QED  BY <2>3, <2>4
<1>10. Entries'
  <2>1. \A v \in Worker : proc'[v].id = proc[v].id
    BY <1>a
  <2>2. EntryOf(w).id = proc[w].id /\ EntryOf(w).svc = ServiceOf[w]
    BY DEF EntryOf
  <2>3. ASSUME NEW i \in DOMAIN registry'.entries
        PROVE  \E v \in Worker : /\ proc'[v].id = registry'.entries[i].id
                                 /\ ServiceOf[v] = registry'.entries[i].svc
    <3>0. LastText.text = "ok"
      BY <1>h
    <3>1. CASE i = Len(LastText.entries) + 1
      BY <1>f, <2>1, <2>2, <3>0, <3>1
    <3>2. CASE i \in DOMAIN LastText.entries
      BY <1>f, <2>1, <3>0, <3>2 DEF IInv, Entries, Known
    <3> QED  BY <1>f, <1>g, <3>0, <3>1, <3>2
  <2> QED  BY <1>0, <1>k, <2>1, <2>3 DEF IInv, Entries, Known
<1>11. Queues'
  BY <1>0, <1>k, <1>a, <1>b, <1>d, <1>t, StartupAssumption DEF IInv, Queues,
      Ids, EarlyPc, MiddlePc, LatePc, CountingPc, RegisteringPc
<1>12. Pools'
  <2> SUFFICES ASSUME NEW s \in Service, Alone(s)'
               PROVE  /\ SlotSent(s)' => /\ send'.slot \in used'[s]
                                         /\ \A v \in Worker : ServiceOf[v] = s =>
                                              proc'[v].pc \in LatePc \cup {"off", "dead"}
                      /\ \A v \in Worker : ServiceOf[v] = s /\ proc'[v].pc = "run" => Shared(s, v)'
    BY DEF Pools
  <2>1. Alone(s) /\ (SlotSent(s)' <=> SlotSent(s))
    BY <1>0, <1>k, <1>a DEF Alone, SlotSent
  <2>2. ASSUME SlotSent(s)
        PROVE  /\ send.slot \in used[s]
               /\ \A v \in Worker : ServiceOf[v] = s => proc[v].pc \in LatePc \cup {"off", "dead"}
    BY <2>1, <2>2 DEF IInv, Pools
  <2>3. ASSUME SlotSent(s), NEW v \in Worker, ServiceOf[v] = s
        PROVE  proc'[v].pc \in LatePc \cup {"off", "dead"}
    BY <1>0, <1>k, <1>a, <2>2, <2>3 DEF LatePc, MiddlePc, RegisteringPc
  <2>4. ASSUME SlotSent(s)
        PROVE  send'.slot \in used'[s]
    BY <1>0, <1>k, <2>2, <2>4
  <2>5. ASSUME NEW v \in Worker, ServiceOf[v] = s, proc'[v].pc = "run", v # w
        PROVE  Shared(s, v)'
    <3>1. proc'[v] = proc[v] /\ Shared(s, v)
      BY <1>a, <2>1, <2>5 DEF IInv, Pools
    <3>2. msgs'[proc[v].id] = msgs[proc[v].id]
      BY <1>0
    <3>3. used'[s] = used[s]
      BY <1>0
    <3> QED  BY <1>0, <1>k, <3>1, <3>2, <3>3 DEF Shared, SlotSent
  <2>6. ASSUME proc'[w].pc = "run", ServiceOf[w] = s
        PROVE  Shared(s, w)'
    BY <1>a, <2>6
  <2> QED  BY <2>1, <2>2, <2>3, <2>4, <2>5, <2>6
<1> QED  BY <1>1, <1>2, <1>3, <1>4, <1>5, <1>6, <1>7, <1>8, <1>9, <1>10, <1>11, <1>12 DEF IInv

LEMMA CreatePoolsInv ==
  ASSUME DaemonsFirst, Cardinality(Worker) <= RegistryCap, IInv, NEW w \in Worker, CreatePools(w)
  PROVE  IInv'
<1>0. UNCHANGED <<open, torn, counter, counterLock, registry, registryLock, ring, msgs, dpa, known,
    send>>
  BY DEF CreatePools, GoTo, files, shm, daemons
<1>a. /\ \A u \in Worker \ {w} : proc'[u] = proc[u]
      /\ proc[w].pc = "pools" /\ proc'[w].pc = "ring"
      /\ proc'[w].cur = proc[w].cur /\ proc'[w].buf = proc[w].buf
      /\ proc'[w].id = proc[w].id /\ proc'[w].held = proc[w].held
  BY DEF CreatePools, GoTo, IInv, Types, ProcType
<1>k. LastId' = LastId /\ LastText' = LastText
  BY <1>0, <1>a, StartupAssumption DEF IInv, Locks, CountingPc, RegisteringPc, LastId, LastText
<1>1. Types'
  <2>1. proc' \in [Worker -> ProcType]
    BY <1>0, <1>a DEF CreatePools, GoTo, IInv, Types, ProcType, Pc, EarlyPc, MiddlePc,
        LatePc, CountingPc, RegisteringPc
  <2> QED  BY <1>0, <1>a, <2>1 DEF IInv, Types, CreatePools, GoTo
<1>2. Quiet'
  BY <1>0, <1>k, <1>a, StartupAssumption DEF IInv, Quiet
<1>3. Locks'
  BY <1>0, <1>k, <1>a, StartupAssumption DEF IInv, Locks, EarlyPc, MiddlePc, LatePc, CountingPc,
      RegisteringPc
<1>4. Copies'
  BY <1>0, <1>k, <1>a, StartupAssumption DEF IInv, Copies, Locks, CountingPc, RegisteringPc
<1>5. Counted'
  <2>1. WithId' = WithId
    BY <1>0, <1>k, <1>a DEF WithId
  <2> QED  BY <1>0, <1>k, <2>1 DEF IInv, Counted
<1>6. Ids'
  BY <1>0, <1>k, <1>a, StartupAssumption DEF IInv, Ids, EarlyPc, MiddlePc, LatePc, CountingPc,
      RegisteringPc
<1>7. Names'
  BY <1>0, <1>k, <1>a, StartupAssumption DEF IInv, CreatePools, GoTo, Names, Alive
<1>8. Registered'
  BY <1>0, <1>k, <1>a, StartupAssumption DEF IInv, Registered, EntryOf, Names, Alive
<1>9. Written'
  <2>1. Writers' = Writers
    BY <1>0, <1>k, <1>a DEF Writers
  <2> QED  BY <1>0, <1>k, <2>1 DEF IInv, Written
<1>10. Entries'
  BY <1>0, <1>k, <1>a, StartupAssumption DEF IInv, Entries, Known
<1>11. Queues'
  BY <1>0, <1>k, <1>a, StartupAssumption DEF IInv, Queues, Ids, EarlyPc, MiddlePc, LatePc,
      CountingPc, RegisteringPc
<1>12. Pools'
  <2> SUFFICES ASSUME NEW s \in Service, Alone(s)'
               PROVE  /\ SlotSent(s)' => /\ send'.slot \in used'[s]
                                         /\ \A v \in Worker : ServiceOf[v] = s =>
                                              proc'[v].pc \in LatePc \cup {"off", "dead"}
                      /\ \A v \in Worker : ServiceOf[v] = s /\ proc'[v].pc = "run" => Shared(s, v)'
    BY DEF Pools
  <2>1. Alone(s) /\ (SlotSent(s)' <=> SlotSent(s))
    BY <1>0, <1>k, <1>a DEF Alone, SlotSent
  <2>2. ASSUME SlotSent(s)
        PROVE  /\ send.slot \in used[s]
               /\ \A v \in Worker : ServiceOf[v] = s => proc[v].pc \in LatePc \cup {"off", "dead"}
    BY <2>1, <2>2 DEF IInv, Pools
  <2>3. ASSUME SlotSent(s), NEW v \in Worker, ServiceOf[v] = s
        PROVE  proc'[v].pc \in LatePc \cup {"off", "dead"}
    BY <1>0, <1>k, <1>a, <2>2, <2>3 DEF LatePc, MiddlePc, RegisteringPc
  <2>4. ASSUME SlotSent(s)
        PROVE  send'.slot \in used'[s]
    <3>1. ServiceOf[w] # s
      BY <1>a, <2>2, <2>4 DEF LatePc
    <3> QED  BY <1>0, <1>k, <2>2, <2>4, <3>1 DEF CreatePools, IInv, Types
  <2>5. ASSUME NEW v \in Worker, ServiceOf[v] = s, proc'[v].pc = "run", v # w
        PROVE  Shared(s, v)'
    <3>1. proc'[v] = proc[v] /\ Shared(s, v)
      BY <1>a, <2>1, <2>5 DEF IInv, Pools
    <3>2. msgs'[proc[v].id] = msgs[proc[v].id]
      BY <1>0
    <3>3. used'[s] = used[s]
      BY <1>0, <1>k, <1>a, <2>5, <3>1 DEF Alone, IInv, Types, CreatePools, GoTo
    <3> QED  BY <1>0, <1>k, <3>1, <3>2, <3>3 DEF Shared, SlotSent
  <2>6. ASSUME proc'[w].pc = "run", ServiceOf[w] = s
        PROVE  Shared(s, w)'
    BY <1>a, <2>6
  <2> QED  BY <2>1, <2>2, <2>3, <2>4, <2>5, <2>6
<1> QED  BY <1>1, <1>2, <1>3, <1>4, <1>5, <1>6, <1>7, <1>8, <1>9, <1>10, <1>11, <1>12 DEF IInv

LEMMA CreateRingInv ==
  ASSUME DaemonsFirst, Cardinality(Worker) <= RegistryCap, IInv, NEW w \in Worker, CreateRing(w)
  PROVE  IInv'
<1>0. UNCHANGED <<open, torn, counter, counterLock, registry, registryLock, used, dpa, known, send>>
  BY DEF CreateRing, GoTo, files, shm, daemons
<1>a. /\ \A u \in Worker \ {w} : proc'[u] = proc[u]
      /\ proc[w].pc = "ring" /\ proc'[w].pc = "reset"
      /\ proc'[w].cur = proc[w].cur /\ proc'[w].buf = proc[w].buf
      /\ proc'[w].id = proc[w].id /\ proc'[w].held = proc[w].held
  BY DEF CreateRing, GoTo, IInv, Types, ProcType
<1>k. LastId' = LastId /\ LastText' = LastText
  BY <1>0, <1>a, StartupAssumption DEF IInv, Locks, CountingPc, RegisteringPc, LastId, LastText
<1>b. proc[w].id \in PodId
  BY <1>a, OwnId DEF MiddlePc
<1>r. PICK R \in SUBSET Worker, q \in Seq(Slot) :
        /\ ring' = [ring EXCEPT ![proc[w].id] = R] /\ w \in R
        /\ ring[proc[w].id] # Nil => ring[proc[w].id] \subseteq R
        /\ msgs' = [msgs EXCEPT ![proc[w].id] = q]
  <2>1. ring[proc[w].id] \in (SUBSET Worker) \cup {Nil} /\ msgs[proc[w].id] \in Seq(Slot)
    BY <1>b DEF IInv, Types
  <2>2. CASE ring[proc[w].id] = Nil
    <3>1. /\ ring' = [ring EXCEPT ![proc[w].id] = {w}]
          /\ msgs' = [msgs EXCEPT ![proc[w].id] = << >>]
      BY <2>2 DEF CreateRing
    <3>2. {w} \in SUBSET Worker /\ << >> \in Seq(Slot)
      OBVIOUS
    <3> QED  BY <2>2, <3>1, <3>2
  <2>3. CASE ring[proc[w].id] # Nil
    <3>1. /\ ring' = [ring EXCEPT ![proc[w].id] = ring[proc[w].id] \cup {w}]
          /\ msgs' = [msgs EXCEPT ![proc[w].id] = msgs[proc[w].id]]
      BY <1>b, <2>3 DEF CreateRing, IInv, Types
    <3>2. ring[proc[w].id] \cup {w} \in SUBSET Worker
      BY <2>1, <2>3
    <3> QED  BY <2>1, <3>1, <3>2
  <2> QED  BY <2>2, <2>3
<1>c. R # Nil /\ Nil \notin PodId
  BY StartupAssumption DEF PodId
<1>1. Types'
  <2>1. proc' \in [Worker -> ProcType]
    BY <1>0, <1>a DEF CreateRing, GoTo, IInv, Types, ProcType, Pc, EarlyPc,
        MiddlePc, LatePc, CountingPc, RegisteringPc
  <2> QED  BY <1>0, <1>b, <1>r, <2>1 DEF IInv, Types
<1>2. Quiet'
  BY <1>0, <1>k, <1>a DEF IInv, Quiet
<1>3. Locks'
  BY <1>0, <1>k, <1>a, <1>b, <1>c, StartupAssumption DEF IInv, Locks, EarlyPc, MiddlePc, LatePc,
      CountingPc, RegisteringPc
<1>4. Copies'
  BY <1>0, <1>k, <1>a, <1>b, <1>c, StartupAssumption DEF IInv, Copies, Locks, CountingPc,
      RegisteringPc
<1>5. Counted'
  <2>1. WithId' = WithId
    BY <1>0, <1>k, <1>a, <1>b, <1>c DEF WithId
  <2> QED  BY <1>0, <1>k, <2>1 DEF IInv, Counted
<1>6. Ids'
  BY <1>0, <1>k, <1>a, <1>b, <1>c, StartupAssumption DEF IInv, Ids, EarlyPc, MiddlePc, LatePc,
      CountingPc, RegisteringPc
<1>7. Names'
  BY <1>0, <1>k, <1>a, <1>b, <1>c, StartupAssumption DEF IInv, CreateRing, GoTo, Names, Alive
<1>8. Registered'
  BY <1>0, <1>k, <1>a DEF IInv, Registered, EntryOf
<1>9. Written'
  <2>1. Writers' = Writers
    BY <1>0, <1>k, <1>a, <1>b, <1>c DEF Writers
  <2> QED  BY <1>0, <1>k, <2>1 DEF IInv, Written
<1>10. Entries'
  BY <1>0, <1>k, <1>a, <1>b, <1>c, StartupAssumption DEF IInv, Entries, Known
<1>11. Queues'
  <2>1. /\ "counter" \notin torn => proc[w].id <= LastId
        /\ LastId \in Nat /\ \A i \in PodId : i \in Nat
    BY <1>b, <1>c DEF IInv, Types, ProcType, LastId, Ids, PodId
  <2>2. "counter" \notin torn => \A i \in PodId : i > LastId => ring'[i] = Nil
    BY <1>b, <1>r, <2>1 DEF IInv, Types, Queues
  <2>3. \A v \in Worker : /\ proc'[v].pc \in LatePc => ring'[proc'[v].id] # Nil
                               /\ v \in ring'[proc'[v].id]
                          /\ "counter" \notin torn
                               /\ proc'[v].pc \in MiddlePc => ring'[proc'[v].id] = Nil
    <3>1. ring'[proc[w].id] = R
      BY <1>b, <1>r DEF IInv, Types
    <3>2. \A i \in PodId : i # proc[w].id => ring'[i] = ring[i]
      BY <1>r DEF IInv, Types
    <3>3. \A v \in Worker : v # w /\ proc[v].pc \in LatePc \cup MiddlePc =>
             /\ proc[v].id \in PodId
             /\ "counter" \notin torn => proc[v].id # proc[w].id
      BY <1>b, OwnId DEF IInv, Ids
    <3> SUFFICES ASSUME NEW v \in Worker
                 PROVE  /\ proc'[v].pc \in LatePc => ring'[proc'[v].id] # Nil
                             /\ v \in ring'[proc'[v].id]
                        /\ "counter" \notin torn
                             /\ proc'[v].pc \in MiddlePc => ring'[proc'[v].id] = Nil
      OBVIOUS
    <3>4. CASE v = w
      BY <1>a, <1>c, <1>r, <3>1, <3>4 DEF MiddlePc, RegisteringPc
    <3>5. CASE v # w
      <4>1. proc'[v] = proc[v]
        BY <1>a, <3>5
      <4>2. ASSUME proc[v].pc \in LatePc
            PROVE  ring'[proc[v].id] # Nil /\ v \in ring'[proc[v].id]
        <5>1. ring[proc[v].id] # Nil /\ v \in ring[proc[v].id]
          BY <4>2 DEF IInv, Queues
        <5> QED  BY <1>c, <1>r, <3>1, <3>2, <3>3, <3>5, <4>2, <5>1
      <4>3. ASSUME proc[v].pc \in MiddlePc, "counter" \notin torn
            PROVE  ring'[proc[v].id] = Nil
        BY <3>2, <3>3, <3>5, <4>3 DEF IInv, Queues
      <4> QED  BY <4>1, <4>2, <4>3
    <3> QED  BY <3>4, <3>5
  <2> QED  BY <1>0, <1>k, <2>2, <2>3 DEF Queues
<1>12. Pools'
  <2> SUFFICES ASSUME NEW s \in Service, Alone(s)'
               PROVE  /\ SlotSent(s)' => /\ send'.slot \in used'[s]
                                         /\ \A v \in Worker : ServiceOf[v] = s =>
                                              proc'[v].pc \in LatePc \cup {"off", "dead"}
                      /\ \A v \in Worker : ServiceOf[v] = s /\ proc'[v].pc = "run" => Shared(s, v)'
    BY DEF Pools
  <2>1. Alone(s) /\ (SlotSent(s)' <=> SlotSent(s))
    BY <1>0, <1>k, <1>a DEF Alone, SlotSent
  <2>2. ASSUME SlotSent(s)
        PROVE  /\ send.slot \in used[s]
               /\ \A v \in Worker : ServiceOf[v] = s => proc[v].pc \in LatePc \cup {"off", "dead"}
    BY <2>1, <2>2 DEF IInv, Pools
  <2>3. ASSUME SlotSent(s), NEW v \in Worker, ServiceOf[v] = s
        PROVE  proc'[v].pc \in LatePc \cup {"off", "dead"}
    BY <1>0, <1>k, <1>a, <2>2, <2>3 DEF LatePc, MiddlePc, RegisteringPc
  <2>4. ASSUME SlotSent(s)
        PROVE  send'.slot \in used'[s]
    BY <1>0, <1>k, <2>2, <2>4
  <2>5. ASSUME NEW v \in Worker, ServiceOf[v] = s, proc'[v].pc = "run", v # w
        PROVE  Shared(s, v)'
    <3>1. proc'[v] = proc[v] /\ Shared(s, v)
      BY <1>a, <2>1, <2>5 DEF IInv, Pools
    <3>2. msgs'[proc[v].id] = msgs[proc[v].id]
      BY <1>a, <1>b, <1>r, <2>1, <2>5, <3>1 DEF Alone, IInv, Types, ProcType, Ids,
        LatePc
    <3>3. used'[s] = used[s]
      BY <1>0
    <3> QED  BY <1>0, <1>k, <3>1, <3>2, <3>3 DEF Shared, SlotSent
  <2>6. ASSUME proc'[w].pc = "run", ServiceOf[w] = s
        PROVE  Shared(s, w)'
    BY <1>a, <2>6
  <2> QED  BY <2>1, <2>2, <2>3, <2>4, <2>5, <2>6
<1> QED  BY <1>1, <1>2, <1>3, <1>4, <1>5, <1>6, <1>7, <1>8, <1>9, <1>10, <1>11, <1>12 DEF IInv

LEMMA ResetRingInv ==
  ASSUME DaemonsFirst, Cardinality(Worker) <= RegistryCap, IInv, NEW w \in Worker, ResetRing(w)
  PROVE  IInv'
<1>0. UNCHANGED <<open, torn, counter, counterLock, registry, registryLock, used, ring, dpa, known,
    send>>
  BY DEF ResetRing, GoTo, files, shm, daemons
<1>a. /\ \A u \in Worker \ {w} : proc'[u] = proc[u]
      /\ proc[w].pc = "reset" /\ proc'[w].pc = "run"
      /\ proc'[w].cur = proc[w].cur /\ proc'[w].buf = proc[w].buf
      /\ proc'[w].id = proc[w].id /\ proc'[w].held = proc[w].held
  BY DEF ResetRing, GoTo, IInv, Types, ProcType
<1>k. LastId' = LastId /\ LastText' = LastText
  BY <1>0, <1>a, StartupAssumption DEF IInv, Locks, CountingPc, RegisteringPc, LastId, LastText
<1>b. proc[w].id \in PodId /\ msgs' = [msgs EXCEPT ![proc[w].id] = << >>]
  BY <1>a, OwnId DEF ResetRing, LatePc
<1>1. Types'
  <2>1. proc' \in [Worker -> ProcType]
    BY <1>0, <1>a, <1>b DEF ResetRing, GoTo, IInv, Types, ProcType, Pc, EarlyPc, MiddlePc,
        LatePc, CountingPc, RegisteringPc
  <2> QED  BY <1>0, <1>a, <1>b, <2>1 DEF IInv, Types, ResetRing, GoTo
<1>2. Quiet'
  BY <1>0, <1>k, <1>a, <1>b, StartupAssumption DEF IInv, Quiet
<1>3. Locks'
  BY <1>0, <1>k, <1>a, <1>b, StartupAssumption DEF IInv, Locks, EarlyPc, MiddlePc, LatePc,
      CountingPc, RegisteringPc
<1>4. Copies'
  BY <1>0, <1>k, <1>a, <1>b, StartupAssumption DEF IInv, Copies, Locks, CountingPc,
      RegisteringPc
<1>5. Counted'
  <2>1. WithId' = WithId
    BY <1>0, <1>k, <1>a, <1>b DEF WithId
  <2> QED  BY <1>0, <1>k, <2>1 DEF IInv, Counted
<1>6. Ids'
  BY <1>0, <1>k, <1>a, <1>b, StartupAssumption DEF IInv, Ids, EarlyPc, MiddlePc, LatePc,
      CountingPc, RegisteringPc
<1>7. Names'
  BY <1>0, <1>k, <1>a, <1>b, StartupAssumption DEF IInv, ResetRing, GoTo, Names, Alive
<1>8. Registered'
  BY <1>0, <1>k, <1>a DEF IInv, Registered, EntryOf
<1>9. Written'
  <2>1. Writers' = Writers
    BY <1>0, <1>k, <1>a, <1>b DEF Writers
  <2> QED  BY <1>0, <1>k, <2>1 DEF IInv, Written
<1>10. Entries'
  BY <1>0, <1>k, <1>a, <1>b, StartupAssumption DEF IInv, Entries, Known
<1>11. Queues'
  BY <1>0, <1>k, <1>a, <1>b, StartupAssumption DEF IInv, Queues, Ids, EarlyPc, MiddlePc, LatePc,
      CountingPc, RegisteringPc
<1>12. Pools'
  <2> SUFFICES ASSUME NEW s \in Service, Alone(s)'
               PROVE  /\ SlotSent(s)' => /\ send'.slot \in used'[s]
                                         /\ \A v \in Worker : ServiceOf[v] = s =>
                                              proc'[v].pc \in LatePc \cup {"off", "dead"}
                      /\ \A v \in Worker : ServiceOf[v] = s /\ proc'[v].pc = "run" => Shared(s, v)'
    BY DEF Pools
  <2>1. Alone(s) /\ (SlotSent(s)' <=> SlotSent(s))
    BY <1>0, <1>k, <1>a DEF Alone, SlotSent
  <2>2. ASSUME SlotSent(s)
        PROVE  /\ send.slot \in used[s]
               /\ \A v \in Worker : ServiceOf[v] = s => proc[v].pc \in LatePc \cup {"off", "dead"}
    BY <2>1, <2>2 DEF IInv, Pools
  <2>3. ASSUME SlotSent(s), NEW v \in Worker, ServiceOf[v] = s
        PROVE  proc'[v].pc \in LatePc \cup {"off", "dead"}
    BY <1>0, <1>k, <1>a, <2>2, <2>3 DEF LatePc, MiddlePc, RegisteringPc
  <2>4. ASSUME SlotSent(s)
        PROVE  send'.slot \in used'[s]
    BY <1>0, <1>k, <2>2, <2>4
  <2>5. ASSUME NEW v \in Worker, ServiceOf[v] = s, proc'[v].pc = "run", v # w
        PROVE  Shared(s, v)'
    <3>1. proc'[v] = proc[v] /\ Shared(s, v)
      BY <1>a, <2>1, <2>5 DEF IInv, Pools
    <3>2. msgs'[proc[v].id] = msgs[proc[v].id]
      BY <1>0, <1>k, <1>a, <1>b, <2>1, <2>5, <3>1 DEF Alone, IInv, Types, ProcType, Ids,
        LatePc
    <3>3. used'[s] = used[s]
      BY <1>0
    <3> QED  BY <1>0, <1>k, <3>1, <3>2, <3>3 DEF Shared, SlotSent
  <2>6. ASSUME proc'[w].pc = "run", ServiceOf[w] = s
        PROVE  Shared(s, w)'
    <3>1. msgs'[proc'[w].id] = << >> /\ proc'[w].held = Nil
      BY <1>a, <1>b DEF IInv, Types, Ids
    <3> QED  BY <3>1 DEF Shared, SlotSent
  <2> QED  BY <2>1, <2>2, <2>3, <2>4, <2>5, <2>6
<1> QED  BY <1>1, <1>2, <1>3, <1>4, <1>5, <1>6, <1>7, <1>8, <1>9, <1>10, <1>11, <1>12 DEF IInv

LEMMA ReceiveInv ==
  ASSUME DaemonsFirst, Cardinality(Worker) <= RegistryCap, IInv, NEW w \in Worker, Receive(w)
  PROVE  IInv'
<1>0. UNCHANGED <<open, torn, counter, counterLock, registry, registryLock, used, ring, dpa, known,
    send>>
  BY DEF Receive, Mapped, Running, files, shm, daemons
<1>a. /\ \A u \in Worker \ {w} : proc'[u] = proc[u]
      /\ proc[w].pc = "run" /\ proc'[w].pc = "run"
      /\ proc'[w].cur = proc[w].cur /\ proc'[w].buf = proc[w].buf
      /\ proc'[w].id = proc[w].id
  BY DEF Receive, Mapped, Running, IInv, Types, ProcType
<1>k. LastId' = LastId /\ LastText' = LastText
  BY <1>0, <1>a, StartupAssumption DEF IInv, Locks, CountingPc, RegisteringPc, LastId, LastText
<1>b. /\ proc[w].id \in PodId /\ msgs[proc[w].id] \in Seq(Slot) /\ msgs[proc[w].id] # << >>
      /\ proc[w].held = Nil /\ proc'[w].held = Head(msgs[proc[w].id])
      /\ msgs' = [msgs EXCEPT ![proc[w].id] = Tail(@)]
  BY <1>a, OwnId DEF Receive, Mapped, IInv, Types, ProcType, LatePc
<1>c. /\ Head(msgs[proc[w].id]) \in Slot
      /\ msgs[proc[w].id][1] = Head(msgs[proc[w].id]) /\ 1 \in DOMAIN msgs[proc[w].id]
      /\ msgs'[proc[w].id] = Tail(msgs[proc[w].id]) /\ Tail(msgs[proc[w].id]) \in Seq(Slot)
      /\ \A n \in DOMAIN Tail(msgs[proc[w].id]) :
           /\ n + 1 \in DOMAIN msgs[proc[w].id] /\ n + 1 # 1 /\ n \in Nat
           /\ Tail(msgs[proc[w].id])[n] = msgs[proc[w].id][n + 1]
  <2>1. msgs'[proc[w].id] = Tail(msgs[proc[w].id])
    BY <1>b DEF IInv, Types
  <2>2. Head(msgs[proc[w].id]) \in Slot
    BY <1>b
  <2> DEFINE q == msgs[proc[w].id]
  <2>3. q \in Seq(Slot) /\ q # << >>
    BY <1>b
  <2> HIDE DEF q
  <2>4. /\ q[1] = Head(q) /\ 1 \in DOMAIN q /\ Tail(q) \in Seq(Slot)
        /\ \A n \in DOMAIN Tail(q) : /\ n + 1 \in DOMAIN q /\ n + 1 # 1 /\ n \in Nat
                                     /\ Tail(q)[n] = q[n + 1]
    BY <2>3
  <2> QED  BY <2>1, <2>2, <2>4 DEF q
<1>1. Types'
  <2>1. proc' = [proc EXCEPT ![w].held = Head(msgs[proc[w].id])]
    BY DEF Receive
  <2>2. proc' \in [Worker -> ProcType]
    BY <1>c, <2>1, HeldType DEF IInv, Types
  <2> QED  BY <1>0, <1>b, <1>c, <2>2 DEF IInv, Types
<1>2. Quiet'
  BY <1>0, <1>k, <1>a, <1>b, <1>c, StartupAssumption DEF IInv, Quiet
<1>3. Locks'
  BY <1>0, <1>a DEF IInv, Locks, CountingPc, RegisteringPc
<1>4. Copies'
  BY <1>0, <1>k, <1>a, <1>b, <1>c, StartupAssumption DEF IInv, Copies, Locks, CountingPc,
      RegisteringPc
<1>5. Counted'
  <2>1. WithId' = WithId
    BY <1>0, <1>k, <1>a, <1>b, <1>c DEF WithId
  <2> QED  BY <1>0, <1>k, <2>1 DEF IInv, Counted
<1>6. Ids'
  BY <1>0, <1>k, <1>a, <1>b, <1>c, StartupAssumption DEF IInv, Ids, EarlyPc, MiddlePc, LatePc,
      CountingPc, RegisteringPc
<1>7. Names'
  BY <1>0, <1>k, <1>a, <1>b, <1>c, StartupAssumption DEF IInv, Receive, Mapped, Running, Names,
      Alive
<1>8. Registered'
  BY <1>0, <1>k, <1>a DEF IInv, Registered, EntryOf
<1>9. Written'
  <2>1. Writers' = Writers
    BY <1>0, <1>k, <1>a, <1>b, <1>c DEF Writers
  <2> QED  BY <1>0, <1>k, <2>1 DEF IInv, Written
<1>10. Entries'
  BY <1>0, <1>k, <1>a, <1>b, <1>c, SMTT(30) DEF IInv, Entries, Known
<1>11. Queues'
  BY <1>0, <1>k, <1>a, <1>b, <1>c, StartupAssumption DEF IInv, Queues, Ids, EarlyPc, MiddlePc,
      LatePc, CountingPc, RegisteringPc
<1>12. Pools'
  <2> SUFFICES ASSUME NEW s \in Service, Alone(s)'
               PROVE  /\ SlotSent(s)' => /\ send'.slot \in used'[s]
                                         /\ \A v \in Worker : ServiceOf[v] = s =>
                                              proc'[v].pc \in LatePc \cup {"off", "dead"}
                      /\ \A v \in Worker : ServiceOf[v] = s /\ proc'[v].pc = "run" => Shared(s, v)'
    BY DEF Pools
  <2>1. Alone(s) /\ (SlotSent(s)' <=> SlotSent(s))
    BY <1>0, <1>k, <1>a DEF Alone, SlotSent
  <2>2. ASSUME SlotSent(s)
        PROVE  /\ send.slot \in used[s]
               /\ \A v \in Worker : ServiceOf[v] = s => proc[v].pc \in LatePc \cup {"off", "dead"}
    BY <2>1, <2>2 DEF IInv, Pools
  <2>3. ASSUME SlotSent(s), NEW v \in Worker, ServiceOf[v] = s
        PROVE  proc'[v].pc \in LatePc \cup {"off", "dead"}
    BY <1>0, <1>k, <1>a, <2>2, <2>3 DEF LatePc, MiddlePc, RegisteringPc
  <2>4. ASSUME SlotSent(s)
        PROVE  send'.slot \in used'[s]
    BY <1>0, <1>k, <2>2, <2>4
  <2>5. ASSUME NEW v \in Worker, ServiceOf[v] = s, proc'[v].pc = "run", v # w
        PROVE  Shared(s, v)'
    <3>1. proc'[v] = proc[v] /\ Shared(s, v)
      BY <1>a, <2>1, <2>5 DEF IInv, Pools
    <3>2. msgs'[proc[v].id] = msgs[proc[v].id]
      BY <1>0, <1>k, <1>a, <1>b, <1>c, <2>1, <2>5, <3>1 DEF Alone, IInv, Types, ProcType, Ids,
        LatePc
    <3>3. used'[s] = used[s]
      BY <1>0
    <3> QED  BY <1>0, <1>k, <3>1, <3>2, <3>3 DEF Shared, SlotSent
  <2>6. ASSUME proc'[w].pc = "run", ServiceOf[w] = s
        PROVE  Shared(s, w)'
    <3>1. Shared(s, w)
      BY <1>a, <2>1, <2>6 DEF IInv, Pools
    <3>2. Head(msgs[proc[w].id]) # Nil
      BY <1>c, StartupAssumption
    <3> DEFINE q == msgs[proc[w].id]
    <3>3. msgs'[proc'[w].id] = Tail(q) /\ proc'[w].held = q[1] /\ used'[s] = used[s]
      BY <1>0, <1>k, <1>a, <1>b, <1>c
    <3>4. \A n \in DOMAIN Tail(q) : Tail(q)[n] \in used[s] /\ Tail(q)[n] # q[1]
      BY <1>c, <3>1 DEF Shared
    <3>5. \A m, n \in DOMAIN Tail(q) : Tail(q)[m] = Tail(q)[n] => m = n
      <4> TAKE m, n \in DOMAIN Tail(q)
      <4>1. Tail(q)[m] = Tail(q)[n] => m + 1 = n + 1
        BY <1>c, <3>1 DEF Shared
      <4> QED  BY <1>c, <4>1
    <3>6. SlotSent(s)' => send'.slot # q[1] /\ \A n \in DOMAIN Tail(q) : Tail(q)[n] # send'.slot
      BY <1>0, <1>k, <1>c, <2>1, <3>1 DEF Shared
    <3> QED  BY <1>c, <3>1, <3>3, <3>4, <3>5, <3>6 DEF Shared
  <2> QED  BY <2>1, <2>2, <2>3, <2>4, <2>5, <2>6
<1> QED  BY <1>1, <1>2, <1>3, <1>4, <1>5, <1>6, <1>7, <1>8, <1>9, <1>10, <1>11, <1>12 DEF IInv

LEMMA AllocSlotInv ==
  ASSUME DaemonsFirst, Cardinality(Worker) <= RegistryCap, IInv, NEW w \in Worker, AllocSlot(w)
  PROVE  IInv'
<1>0. UNCHANGED <<open, torn, counter, counterLock, registry, registryLock, ring, msgs, dpa, known,
    send>>
  BY DEF AllocSlot, FreeSlots, Running, files, shm, daemons
<1>a. /\ \A u \in Worker \ {w} : proc'[u] = proc[u]
      /\ proc[w].pc = "run" /\ proc'[w].pc = "run"
      /\ proc'[w].cur = proc[w].cur /\ proc'[w].buf = proc[w].buf
      /\ proc'[w].id = proc[w].id
  BY DEF AllocSlot, FreeSlots, Running, IInv, Types, ProcType
<1>k. LastId' = LastId /\ LastText' = LastText
  BY <1>0, <1>a, StartupAssumption DEF IInv, Locks, CountingPc, RegisteringPc, LastId, LastText
<1>b. PICK x \in Slot : /\ x \notin used[ServiceOf[w]] /\ proc'[w].held = x /\ proc[w].held = Nil
                        /\ used' = [used EXCEPT ![ServiceOf[w]] = @ \cup {x}]
                        /\ proc' = [proc EXCEPT ![w].held = x]
  <2>1. PICK x \in Slot \ used[ServiceOf[w]] :
            /\ used' = [used EXCEPT ![ServiceOf[w]] = @ \cup {x}]
            /\ proc' = [proc EXCEPT ![w].held = x]
    BY DEF AllocSlot, FreeSlots
  <2>2. proc[w].held = Nil
    BY DEF AllocSlot
  <2>3. proc'[w].held = x
    BY <2>1 DEF IInv, Types, ProcType
  <2> QED  BY <2>1, <2>2, <2>3
<1>c. ServiceOf[w] \in Service /\ x # Nil
  BY StartupAssumption DEF Service
<1>1. Types'
  <2>1. proc' \in [Worker -> ProcType]
    BY <1>b, HeldType DEF IInv, Types
  <2> QED  BY <1>0, <1>b, <1>c, <2>1 DEF IInv, Types
<1>2. Quiet'
  BY <1>0, <1>k, <1>a, <1>b, <1>c, StartupAssumption DEF IInv, Quiet
<1>3. Locks'
  BY <1>0, <1>k, <1>a, <1>b, <1>c, StartupAssumption DEF IInv, Locks, EarlyPc, MiddlePc, LatePc,
      CountingPc, RegisteringPc
<1>4. Copies'
  BY <1>0, <1>k, <1>a, <1>b, <1>c, StartupAssumption DEF IInv, Copies, Locks, CountingPc,
      RegisteringPc
<1>5. Counted'
  <2>1. WithId' = WithId
    BY <1>0, <1>k, <1>a, <1>b, <1>c DEF WithId
  <2> QED  BY <1>0, <1>k, <2>1 DEF IInv, Counted
<1>6. Ids'
  BY <1>0, <1>k, <1>a, <1>b, <1>c, StartupAssumption DEF IInv, Ids, EarlyPc, MiddlePc, LatePc,
      CountingPc, RegisteringPc
<1>7. Names'
  BY <1>0, <1>k, <1>a, <1>b, <1>c, StartupAssumption DEF IInv, AllocSlot, FreeSlots, Running,
      Names, Alive
<1>8. Registered'
  BY <1>0, <1>k, <1>a DEF IInv, Registered, EntryOf
<1>9. Written'
  <2>1. Writers' = Writers
    BY <1>0, <1>k, <1>a, <1>b, <1>c DEF Writers
  <2> QED  BY <1>0, <1>k, <2>1 DEF IInv, Written
<1>10. Entries'
  BY <1>0, <1>k, <1>a, <1>b, <1>c, StartupAssumption DEF IInv, Entries, Known
<1>11. Queues'
  BY <1>0, <1>k, <1>a, <1>b, <1>c, StartupAssumption DEF IInv, Queues, Ids, EarlyPc, MiddlePc,
      LatePc, CountingPc, RegisteringPc
<1>12. Pools'
  <2> SUFFICES ASSUME NEW s \in Service, Alone(s)'
               PROVE  /\ SlotSent(s)' => /\ send'.slot \in used'[s]
                                         /\ \A v \in Worker : ServiceOf[v] = s =>
                                              proc'[v].pc \in LatePc \cup {"off", "dead"}
                      /\ \A v \in Worker : ServiceOf[v] = s /\ proc'[v].pc = "run" => Shared(s, v)'
    BY DEF Pools
  <2>1. Alone(s) /\ (SlotSent(s)' <=> SlotSent(s))
    BY <1>0, <1>k, <1>a DEF Alone, SlotSent
  <2>2. ASSUME SlotSent(s)
        PROVE  /\ send.slot \in used[s]
               /\ \A v \in Worker : ServiceOf[v] = s => proc[v].pc \in LatePc \cup {"off", "dead"}
    BY <2>1, <2>2 DEF IInv, Pools
  <2>3. ASSUME SlotSent(s), NEW v \in Worker, ServiceOf[v] = s
        PROVE  proc'[v].pc \in LatePc \cup {"off", "dead"}
    BY <1>0, <1>k, <1>a, <2>2, <2>3 DEF LatePc, MiddlePc, RegisteringPc
  <2>4. ASSUME SlotSent(s)
        PROVE  send'.slot \in used'[s]
    BY <1>0, <1>k, <1>b, <1>c, <2>2, <2>4 DEF IInv, Types
  <2>5. ASSUME NEW v \in Worker, ServiceOf[v] = s, proc'[v].pc = "run", v # w
        PROVE  Shared(s, v)'
    <3>1. proc'[v] = proc[v] /\ Shared(s, v)
      BY <1>a, <2>1, <2>5 DEF IInv, Pools
    <3>2. msgs'[proc[v].id] = msgs[proc[v].id]
      BY <1>0
    <3>3. used'[s] = used[s]
      BY <1>0, <1>k, <1>a, <1>b, <1>c, <2>5, <3>1 DEF Alone, IInv, Types, AllocSlot, FreeSlots,
          Running
    <3> QED  BY <1>0, <1>k, <3>1, <3>2, <3>3 DEF Shared, SlotSent
  <2>6. ASSUME proc'[w].pc = "run", ServiceOf[w] = s
        PROVE  Shared(s, w)'
    <3>1. Shared(s, w)
      BY <1>a, <2>1, <2>6 DEF IInv, Pools
    <3>2. used'[s] = used[s] \cup {x} /\ x \notin used[s]
      BY <1>b, <1>c, <2>6 DEF IInv, Types
    <3> QED  BY <1>0, <1>k, <1>a, <1>b, <1>c, <2>2, <3>1, <3>2 DEF Shared, SlotSent
  <2> QED  BY <2>1, <2>2, <2>3, <2>4, <2>5, <2>6
<1> QED  BY <1>1, <1>2, <1>3, <1>4, <1>5, <1>6, <1>7, <1>8, <1>9, <1>10, <1>11, <1>12 DEF IInv

LEMMA FreeSlotInv ==
  ASSUME DaemonsFirst, Cardinality(Worker) <= RegistryCap, IInv, NEW w \in Worker, FreeSlot(w)
  PROVE  IInv'
<1>0. UNCHANGED <<open, torn, counter, counterLock, registry, registryLock, ring, msgs, dpa, known,
    send>>
  BY DEF FreeSlot, Running, files, shm, daemons
<1>a. /\ \A u \in Worker \ {w} : proc'[u] = proc[u]
      /\ proc[w].pc = "run" /\ proc'[w].pc = "run"
      /\ proc'[w].cur = proc[w].cur /\ proc'[w].buf = proc[w].buf
      /\ proc'[w].id = proc[w].id
      /\ proc[w].held # Nil /\ proc'[w].held = Nil
  BY DEF FreeSlot, Running, IInv, Types, ProcType
<1>k. LastId' = LastId /\ LastText' = LastText
  BY <1>0, <1>a, StartupAssumption DEF IInv, Locks, CountingPc, RegisteringPc, LastId, LastText
<1>1. Types'
  <2>1. proc' \in [Worker -> ProcType]
    BY <1>0, <1>a DEF FreeSlot, Running, IInv, Types, ProcType, Pc, EarlyPc, MiddlePc,
        LatePc, CountingPc, RegisteringPc
  <2> QED  BY <1>0, <1>a, <2>1 DEF IInv, Types, FreeSlot, Running
<1>2. Quiet'
  BY <1>0, <1>k, <1>a, StartupAssumption DEF IInv, Quiet
<1>3. Locks'
  BY <1>0, <1>k, <1>a, StartupAssumption DEF IInv, Locks, EarlyPc, MiddlePc, LatePc, CountingPc,
      RegisteringPc
<1>4. Copies'
  BY <1>0, <1>k, <1>a, StartupAssumption DEF IInv, Copies, Locks, CountingPc, RegisteringPc
<1>5. Counted'
  <2>1. WithId' = WithId
    BY <1>0, <1>k, <1>a DEF WithId
  <2> QED  BY <1>0, <1>k, <2>1 DEF IInv, Counted
<1>6. Ids'
  BY <1>0, <1>k, <1>a, StartupAssumption DEF IInv, Ids, EarlyPc, MiddlePc, LatePc, CountingPc,
      RegisteringPc
<1>7. Names'
  BY <1>0, <1>k, <1>a, StartupAssumption DEF IInv, FreeSlot, Running, Names, Alive
<1>8. Registered'
  BY <1>0, <1>k, <1>a, StartupAssumption DEF IInv, Registered, EntryOf, Names, Alive
<1>9. Written'
  <2>1. Writers' = Writers
    BY <1>0, <1>k, <1>a DEF Writers
  <2> QED  BY <1>0, <1>k, <2>1 DEF IInv, Written
<1>10. Entries'
  BY <1>0, <1>k, <1>a, StartupAssumption DEF IInv, Entries, Known
<1>11. Queues'
  BY <1>0, <1>k, <1>a, StartupAssumption DEF IInv, Queues, Ids, EarlyPc, MiddlePc, LatePc,
      CountingPc, RegisteringPc
<1>12. Pools'
  <2> SUFFICES ASSUME NEW s \in Service, Alone(s)'
               PROVE  /\ SlotSent(s)' => /\ send'.slot \in used'[s]
                                         /\ \A v \in Worker : ServiceOf[v] = s =>
                                              proc'[v].pc \in LatePc \cup {"off", "dead"}
                      /\ \A v \in Worker : ServiceOf[v] = s /\ proc'[v].pc = "run" => Shared(s, v)'
    BY DEF Pools
  <2>1. Alone(s) /\ (SlotSent(s)' <=> SlotSent(s))
    BY <1>0, <1>k, <1>a DEF Alone, SlotSent
  <2>2. ASSUME SlotSent(s)
        PROVE  /\ send.slot \in used[s]
               /\ \A v \in Worker : ServiceOf[v] = s => proc[v].pc \in LatePc \cup {"off", "dead"}
    BY <2>1, <2>2 DEF IInv, Pools
  <2>3. ASSUME SlotSent(s), NEW v \in Worker, ServiceOf[v] = s
        PROVE  proc'[v].pc \in LatePc \cup {"off", "dead"}
    BY <1>0, <1>k, <1>a, <2>2, <2>3 DEF LatePc, MiddlePc, RegisteringPc
  <2>4. ASSUME SlotSent(s)
        PROVE  send'.slot \in used'[s]
    <3>1. ServiceOf[w] = s => send.slot # proc[w].held
      BY <1>a, <2>1, <2>4 DEF IInv, Pools, Shared
    <3> QED  BY <1>0, <1>k, <2>2, <2>4, <3>1 DEF FreeSlot, IInv, Types
  <2>5. ASSUME NEW v \in Worker, ServiceOf[v] = s, proc'[v].pc = "run", v # w
        PROVE  Shared(s, v)'
    <3>1. proc'[v] = proc[v] /\ Shared(s, v)
      BY <1>a, <2>1, <2>5 DEF IInv, Pools
    <3>2. msgs'[proc[v].id] = msgs[proc[v].id]
      BY <1>0
    <3>3. used'[s] = used[s]
      BY <1>0, <1>k, <1>a, <2>5, <3>1 DEF Alone, IInv, Types, FreeSlot, Running
    <3> QED  BY <1>0, <1>k, <3>1, <3>2, <3>3 DEF Shared, SlotSent
  <2>6. ASSUME proc'[w].pc = "run", ServiceOf[w] = s
        PROVE  Shared(s, w)'
    <3>1. Shared(s, w)
      BY <1>a, <2>1, <2>6 DEF IInv, Pools
    <3>2. used'[s] = used[s] \ {proc[w].held}
      BY <2>6 DEF FreeSlot, IInv, Types
    <3>3. SlotSent(s)' => send.slot # Nil
      BY <1>0, <1>k DEF SlotSent
    <3>4. \A n \in DOMAIN msgs[proc[w].id] : msgs[proc[w].id][n] # Nil
      BY <1>a, OwnId, StartupAssumption DEF IInv, Types, LatePc
    <3> QED  BY <1>0, <1>k, <1>a, <2>1, <3>1, <3>2, <3>3, <3>4 DEF Shared
  <2> QED  BY <2>1, <2>2, <2>3, <2>4, <2>5, <2>6
<1> QED  BY <1>1, <1>2, <1>3, <1>4, <1>5, <1>6, <1>7, <1>8, <1>9, <1>10, <1>11, <1>12 DEF IInv

LEMMA KillInv ==
  ASSUME DaemonsFirst, Cardinality(Worker) <= RegistryCap, IInv, NEW w \in Worker, Kill(w)
  PROVE  IInv'
<1>0. UNCHANGED <<counter, registry, used, ring, msgs, dpa, known, send>>
  BY DEF Kill, Unlocked, files, shm, daemons
<1>a. /\ \A u \in Worker \ {w} : proc'[u] = proc[u]
      /\ proc'[w].pc = "dead"
      /\ proc'[w].cur = proc[w].cur /\ proc'[w].buf = proc[w].buf
      /\ proc'[w].id = proc[w].id
      /\ proc'[w].held = Nil /\ proc[w].pc \notin {"off", "dead"}
  BY DEF Kill, Unlocked, IInv, Types, ProcType
<1>b. /\ counterLock' = IF counterLock = w THEN Nil ELSE counterLock
      /\ registryLock' = IF registryLock = w THEN Nil ELSE registryLock
      /\ open' = open \ {<<"counter", w>>, <<"registry", w>>}
  BY DEF Kill, Unlocked
<1>t. /\ torn \subseteq torn'
      /\ proc[w].pc = "write_id" => "counter" \in torn'
      /\ proc[w].pc = "write_reg" => "registry" \in torn'
  BY DEF Kill, IInv, Locks
<1>k. /\ proc[w].pc # "write_id" => LastId' = LastId
      /\ proc[w].pc = "write_id" => LastId' = 0
  <2>1. CASE counterLock = w
    BY <1>0, <1>b, <2>1, StartupAssumption DEF IInv, Copies, LastId
  <2>2. CASE counterLock # w
    BY <1>0, <1>a, <1>b, <2>2, StartupAssumption DEF IInv, Locks, CountingPc, LastId
  <2> QED  BY <2>1, <2>2
<1>l. /\ proc[w].pc # "write_reg" => LastText' = LastText
      /\ proc[w].pc = "write_reg" => LastText' = Blank
  <2>1. CASE registryLock = w
    BY <1>0, <1>b, <2>1, StartupAssumption DEF IInv, Copies, LastText
  <2>2. CASE registryLock # w
    BY <1>0, <1>a, <1>b, <2>2, StartupAssumption DEF IInv, Locks, RegisteringPc, LastText
  <2> QED  BY <2>1, <2>2
<1>1. Types'
  <2>1. proc' \in [Worker -> ProcType]
    BY <1>0, <1>a, ZenonT(30) DEF Kill, Unlocked, IInv, Types, ProcType, Pc, EarlyPc, MiddlePc,
        LatePc, CountingPc, RegisteringPc
  <2> QED  BY <1>0, <1>b, <2>1 DEF IInv, Types
<1>2. Quiet'
  BY <1>0, <1>a, <1>l, <1>t DEF IInv, Quiet
<1>3. Locks'
  BY <1>a, <1>b, StartupAssumption, ZenonT(30) DEF IInv, Locks, CountingPc, RegisteringPc
<1>4. Copies'
  BY <1>0, <1>a, StartupAssumption DEF IInv, Copies, Locks, CountingPc, RegisteringPc
<1>5. Counted'
  <2>1. WithId' = WithId
    BY <1>0, <1>a DEF WithId
  <2>2. WithId \in SUBSET Worker
    BY DEF WithId
  <2>3. CASE proc[w].pc # "write_id"
    BY <1>k, <2>1, <2>3 DEF IInv, Counted
  <2>4. CASE proc[w].pc = "write_id"
    BY <1>k, <2>1, <2>2, <2>4, Count DEF Counted
  <2> QED  BY <2>3, <2>4
<1>6. Ids'
  <2>1. "counter" \notin torn' => "counter" \notin torn /\ LastId' = LastId
    BY <1>k, <1>t
  <2> QED  BY <1>a, <2>1 DEF IInv, Ids, EarlyPc, MiddlePc, LatePc, CountingPc, RegisteringPc
<1>7. Names'
  BY <1>0, <1>a, StartupAssumption DEF IInv, Kill, Unlocked, Names, Alive
<1>8. Registered'
  <2>1. "registry" \notin torn' => "registry" \notin torn /\ LastText' = LastText
    BY <1>l, <1>t
  <2>2. \A v \in Worker : proc'[v].pc \in {"pools", "ring", "reset", "run"} =>
                              proc'[v] = proc[v] /\ EntryOf(v)' = EntryOf(v)
    BY <1>a DEF EntryOf
  <2> QED  BY <2>1, <2>2 DEF IInv, Registered
<1>9. Written'
  <2>1. Writers' = Writers \cup {w} /\ Writers \in SUBSET Worker
    BY <1>a DEF Writers
  <2>2. Cardinality(Writers) <= Cardinality(Writers') /\ Cardinality(Writers') \in Nat
    BY <2>1, Count, CountOneMore
  <2>3. Len(LastText.entries) \in Nat
    BY EntryType DEF Text
  <2>4. CASE proc[w].pc # "write_reg"
    BY <1>l, <2>1, <2>2, <2>3, <2>4, Count DEF IInv, Written
  <2>5. CASE proc[w].pc = "write_reg"
    BY <1>l, <2>2, <2>5 DEF Written, Blank
  <2> QED  BY <2>4, <2>5
<1>10. Entries'
  <2>1. \A v \in Worker : proc'[v].id = proc[v].id
    BY <1>a
  <2>2. LastText' = LastText \/ LastText'.entries = << >>
    BY <1>l DEF Blank
  <2> QED  BY <1>0, <2>1, <2>2 DEF IInv, Entries, Known
<1>11. Queues'
  <2>1. "counter" \notin torn' => "counter" \notin torn /\ LastId' = LastId
    BY <1>k, <1>t
  <2> QED  BY <1>0, <1>a, <2>1 DEF IInv, Queues, MiddlePc, LatePc, RegisteringPc
<1>12. Pools'
  <2> SUFFICES ASSUME NEW s \in Service, Alone(s)'
               PROVE  /\ SlotSent(s)' => /\ send'.slot \in used'[s]
                                         /\ \A v \in Worker : ServiceOf[v] = s =>
                                              proc'[v].pc \in LatePc \cup {"off", "dead"}
                      /\ \A v \in Worker : ServiceOf[v] = s /\ proc'[v].pc = "run" => Shared(s, v)'
    BY DEF Pools
  <2>1. Alone(s) /\ (SlotSent(s)' <=> SlotSent(s))
    BY <1>0, <1>a, <1>t DEF Alone, SlotSent
  <2>2. ASSUME SlotSent(s)
        PROVE  /\ send.slot \in used[s]
               /\ \A v \in Worker : ServiceOf[v] = s => proc[v].pc \in LatePc \cup {"off", "dead"}
    BY <2>1, <2>2 DEF IInv, Pools
  <2>3. ASSUME SlotSent(s), NEW v \in Worker, ServiceOf[v] = s
        PROVE  proc'[v].pc \in LatePc \cup {"off", "dead"}
    BY <1>0, <1>a, <2>2, <2>3 DEF LatePc, MiddlePc, RegisteringPc
  <2>4. ASSUME SlotSent(s)
        PROVE  send'.slot \in used'[s]
    BY <1>0, <2>2, <2>4
  <2>5. ASSUME NEW v \in Worker, ServiceOf[v] = s, proc'[v].pc = "run", v # w
        PROVE  Shared(s, v)'
    <3>1. proc'[v] = proc[v] /\ Shared(s, v)
      BY <1>a, <2>1, <2>5 DEF IInv, Pools
    <3>2. msgs'[proc[v].id] = msgs[proc[v].id]
      BY <1>0
    <3>3. used'[s] = used[s]
      BY <1>0
    <3> QED  BY <1>0, <3>1, <3>2, <3>3 DEF Shared, SlotSent
  <2>6. ASSUME proc'[w].pc = "run", ServiceOf[w] = s
        PROVE  Shared(s, w)'
    BY <1>a, <2>6
  <2> QED  BY <2>1, <2>2, <2>3, <2>4, <2>5, <2>6
<1> QED  BY <1>1, <1>2, <1>3, <1>4, <1>5, <1>6, <1>7, <1>8, <1>9, <1>10, <1>11, <1>12 DEF IInv
-----------------------------------------------------------------------------
(* While the DPA daemon sets the files up there is nobody to disturb.      *)
LEMMA SetUp ==
  ASSUME IInv, dpa.pc # "run"
  PROVE  /\ counter = 0 /\ counterLock = Nil /\ registryLock = Nil
         /\ open = {} /\ LastId = 0 /\ LastText = registry
         /\ registry \in Text /\ registry.entries = << >>
         /\ registry.text = IF dpa.pc = "dump" THEN "blank" ELSE "ok"
         /\ \A i \in PodId : ring[i] = Nil
         /\ \A w \in Worker : proc[w].pc = "off"
         /\ send = NoSend
<1>1. open = {}
  <2> SUFFICES ASSUME NEW o \in open
               PROVE  FALSE
    OBVIOUS
  <2>1. PICK f \in {"counter", "registry"}, w \in Worker : o = <<f, w>>
    BY DEF IInv, Types
  <2>2. proc[w].pc = "off"
    BY DEF IInv, Quiet
  <2> QED  BY <2>1, <2>2 DEF IInv, Locks
<1> QED  BY <1>1, StartupAssumption DEF IInv, Types, Quiet, Locks, CountingPc, RegisteringPc,
    LastId, LastText

LEMMA SetUpInv ==
  ASSUME IInv, dpa.pc # "run", dpa'.pc \in {"remove", "truncate", "dump", "run"},
         UNCHANGED <<open, torn, counter, counterLock, registryLock, used, ring, msgs, proc, known,
             send>>,
         registry' \in Text, registry'.entries = << >>,
         registry'.text = IF dpa'.pc = "dump" THEN "blank" ELSE "ok"
  PROVE  IInv'
<1>0. LastId' = LastId /\ LastText' = registry'
  BY SetUp, StartupAssumption DEF LastId, LastText
<1>1. Types' /\ Quiet'
  BY <1>0, SetUp DEF IInv, Types, Quiet
<1>2. Locks' /\ Counted' /\ Ids' /\ Names' /\ Queues'
  BY <1>0 DEF IInv, Locks, Counted, WithId, Ids, Names, Alive, Queues
<1>3. Copies' /\ Registered'
  BY SetUp DEF Copies, Registered
<1>4. Entries' /\ Pools'
  BY <1>0, SetUp DEF Entries, NoSend, Pools, SlotSent
<1>5. Written'
  <2>1. Len(registry'.entries) = 0
    OBVIOUS
  <2>2. Writers' \in SUBSET Worker
    BY DEF Writers
  <2> QED  BY <1>0, <2>1, <2>2, Count DEF Written
<1> QED  BY <1>1, <1>2, <1>3, <1>4, <1>5 DEF IInv

LEMMA EmptyText == Empty \in Text /\ Empty.entries = << >> /\ Empty.text = "ok"
BY DEF Empty, Text

LEMMA DpaStartInv ==
  ASSUME IInv, DpaStart
  PROVE  IInv'
<1>1. UNCHANGED <<open, torn, counter, counterLock, registryLock, used, ring, msgs, proc, known,
    send, registry>>
  BY DEF DpaStart, files, shm
<1>2. dpa.pc = "off" /\ dpa'.pc = "remove"
  BY DEF DpaStart
<1> QED  BY <1>1, <1>2, SetUp, SetUpInv

LEMMA DpaRemoveInv ==
  ASSUME IInv, NEW f, DpaRemove(f)
  PROVE  IInv'
<1>1. dpa.pc = "remove" /\ dpa'.pc = "remove"
  <2>1. dpa.pc = "remove" /\ dpa' = [dpa EXCEPT !.todo = @ \ {f}]
    BY DEF DpaRemove
  <2> QED  BY <2>1
<1>2. registry = Empty
  BY <1>1, SetUp DEF Text, Empty
<1>3. ring' = ring
  <2>1. ring' = ring \/ ring' = [ring EXCEPT ![f[2]] = Nil]
    BY DEF DpaRemove
  <2>2. [ring EXCEPT ![f[2]] = Nil] = ring
    BY <1>1, SetUp DEF IInv, Types
  <2> QED  BY <2>1, <2>2
<1>4. UNCHANGED <<open, torn, counter, counterLock, registryLock, registry>>
  BY <1>1, <1>2, SetUp DEF DpaRemove
<1>5. UNCHANGED <<used, msgs, proc, known, send>>
  BY DEF DpaRemove
<1> QED  BY <1>1, <1>2, <1>3, <1>4, <1>5, EmptyText, SetUpInv

LEMMA DpaCounterInv ==
  ASSUME IInv, DpaCounter
  PROVE  IInv'
<1>1. dpa.pc = "remove" /\ dpa'.pc = "truncate"
  BY DEF DpaCounter
<1>2. UNCHANGED <<open, torn, counter, counterLock, registryLock, used, ring, msgs, proc, known,
    send, registry>>
  BY <1>1, SetUp DEF DpaCounter, shm
<1> QED  BY <1>1, <1>2, SetUp, SetUpInv

LEMMA DpaTruncateInv ==
  ASSUME IInv, DpaTruncate
  PROVE  IInv'
<1>1. dpa.pc = "truncate" /\ dpa'.pc = "dump"
  BY DEF DpaTruncate
<1>2. UNCHANGED <<open, torn, counter, counterLock, registryLock, used, ring, msgs, proc, known,
    send>>
  BY DEF DpaTruncate, shm
<1>3. registry' \in Text /\ registry'.entries = << >> /\ registry'.text = "blank"
  BY DEF DpaTruncate, Text, Blank
<1> QED  BY <1>1, <1>2, <1>3, SetUpInv

LEMMA DpaDumpInv ==
  ASSUME IInv, DpaDump
  PROVE  IInv'
<1>1. dpa.pc = "dump" /\ dpa'.pc = "run"
  BY DEF DpaDump
<1>2. UNCHANGED <<open, torn, counter, counterLock, registryLock, used, ring, msgs, proc, known,
    send>>
  BY DEF DpaDump, shm
<1>3. registry' = Empty
  BY <1>1, SetUp DEF DpaDump
<1> QED  BY <1>1, <1>2, <1>3, EmptyText, SetUpInv
-----------------------------------------------------------------------------
(* What the daemon reads from the registry are entries of it.              *)
LEMMA DataEntries ==
  ASSUME IInv, registryLock = Nil, NEW e \in Data
  PROVE  e \in Entry /\ Known(e.id, e.svc)
<1>1. LastText = registry
  BY StartupAssumption DEF LastText
<1> QED  BY <1>1, EntryType DEF IInv, Entries, Data

LEMMA ScanInv ==
  ASSUME IInv, Scan
  PROVE  IInv'
<1>0. UNCHANGED <<open, torn, counter, counterLock, registry, registryLock, used, ring, msgs, proc,
    dpa, send>>
  BY DEF Scan, files, shm
<1>1. known' \subseteq PodId
  BY DataEntries DEF Scan, IInv, Types, Entry
<1>k. LastId' = LastId /\ LastText' = LastText
  BY <1>0 DEF LastId, LastText
<1>2. Types'
  BY <1>0, <1>1 DEF IInv, Types
<1>3. /\ Quiet' /\ Locks' /\ Copies' /\ Counted' /\ Ids' /\ Names' /\ Registered' /\ Written'
      /\ Entries' /\ Queues' /\ Pools'
  BY <1>0, <1>k DEF IInv, Quiet, Locks, Copies, Counted, WithId, Ids, Names, Alive, Registered,
      EntryOf,
    Written, Writers, Entries, Known, Queues, Pools, Alone, SlotSent, Shared
<1> QED  BY <1>2, <1>3 DEF IInv

(* A step of the daemon that changes only its message, pools and queues.   *)
LEMMA SendInv ==
  ASSUME IInv, dpa.pc = "run",
         UNCHANGED <<open, torn, counter, counterLock, registry, registryLock, ring, proc, dpa,
             known>>,
         Types', Entries', Pools'
  PROVE  IInv'
<1>1. LastId' = LastId /\ LastText' = LastText
  BY DEF LastId, LastText
<1> QED  BY <1>1 DEF IInv, Quiet, Locks, Copies, Counted, WithId, Ids, Names, Alive, Registered,
    EntryOf, Written, Writers, Queues

LEMMA SelectInv ==
  ASSUME IInv, Select
  PROVE  IInv'
<1>0. UNCHANGED <<open, torn, counter, counterLock, registry, registryLock, used, ring, msgs, proc,
    dpa, known>>
  BY DEF Select, files, shm
<1>1. PICK e \in Data : send' = [id |-> e.id, svc |-> e.svc, slot |-> Nil]
  BY DEF Select
<1>k. LastText' = LastText
  BY <1>0 DEF LastText
<1>2. e \in Entry /\ e.id # Nil /\ Known(e.id, e.svc)
  BY DataEntries, StartupAssumption DEF Select, Entry, PodId
<1>3. Types'
  BY <1>0, <1>1, <1>2 DEF IInv, Types, Entry
<1>4. Entries'
  BY <1>0, <1>1, <1>2, <1>k DEF IInv, Entries, Known
<1>5. Pools'
  <2>1. ASSUME NEW s \in Service
        PROVE  ~SlotSent(s)' /\ (Alone(s)' <=> Alone(s))
    BY <1>0, <1>1 DEF SlotSent, Alone
  <2>2. ASSUME NEW s \in Service, NEW w \in Worker, Shared(s, w)
        PROVE  Shared(s, w)'
    BY <1>0, <2>1, <2>2 DEF Shared
  <2> QED  BY <1>0, <2>1, <2>2 DEF IInv, Pools
<1> QED  BY <1>0, <1>3, <1>4, <1>5, SendInv DEF Select

(* The worker that a message is for; its queue exists only if it is, or    *)
(* was, past the creation of its pools.                                    *)
LEMMA Addressee ==
  ASSUME IInv, send.id # Nil
  PROVE  /\ send.id \in PodId /\ send.svc \in Service
         /\ \E v \in Worker : /\ proc[v].id = send.id /\ ServiceOf[v] = send.svc
                              /\ proc[v].pc # "off"
                              /\ "counter" \notin torn
                                   /\ ring[send.id] # Nil => proc[v].pc \in LatePc \cup {"dead"}
<1>1. PICK v \in Worker : proc[v].id = send.id /\ ServiceOf[v] = send.svc
  BY DEF IInv, Entries, Known
<1>2. proc[v].pc \in Pc
  BY DEF IInv, Types, ProcType
<1>3. proc[v].pc \notin EarlyPc
  BY <1>1 DEF IInv, Ids
<1>4. "counter" \notin torn /\ ring[send.id] # Nil => proc[v].pc \notin MiddlePc
  BY <1>1 DEF IInv, Queues
<1>5. send.id \in PodId /\ send.svc \in Service
  BY <1>1 DEF IInv, Types, Service
<1> QED  BY <1>1, <1>2, <1>3, <1>4, <1>5 DEF Pc, EarlyPc

LEMMA DeliverInv ==
  ASSUME IInv, Deliver
  PROVE  IInv'
<1>0. /\ UNCHANGED <<open, torn, counter, counterLock, registry, registryLock, ring, msgs, proc,
           dpa, known>>
      /\ dpa.pc = "run" /\ send.id # Nil /\ send.slot = Nil
  BY DEF Deliver, files
<1>k. LastText' = LastText
  BY <1>0 DEF LastText
<1>1. CASE send' = NoSend /\ UNCHANGED used
  <2>1. Types' /\ Entries'
    BY <1>0, <1>1, <1>k DEF IInv, Types, Entries, Known, NoSend
  <2>2. ASSUME NEW s \in Service
        PROVE  ~SlotSent(s)' /\ (Alone(s)' <=> Alone(s))
    BY <1>0, <1>1 DEF SlotSent, Alone, NoSend
  <2>3. ASSUME NEW s \in Service, NEW w \in Worker, Shared(s, w)
        PROVE  Shared(s, w)'
    BY <1>0, <1>1, <2>2, <2>3 DEF Shared
  <2>4. Pools'
    BY <1>0, <1>1, <2>2, <2>3 DEF IInv, Pools
  <2> QED  BY <1>0, <2>1, <2>4, SendInv
<1>2. ASSUME ring[send.id] # Nil, NEW x \in FreeSlots(send.svc),
             used' = [used EXCEPT ![send.svc] = @ \cup {x}], send' = [send EXCEPT !.slot = x]
      PROVE  IInv'
  <2>0. PICK v \in Worker : /\ proc[v].id = send.id /\ ServiceOf[v] = send.svc
                            /\ proc[v].pc # "off"
                            /\ "counter" \notin torn => proc[v].pc \in LatePc \cup {"dead"}
    BY <1>0, <1>2, Addressee
  <2>1. /\ x \in Slot /\ x # Nil /\ x \notin used[send.svc] /\ send.svc \in Service
        /\ send.id \in PodId
    BY <1>0, Addressee, StartupAssumption DEF FreeSlots
  <2>2. /\ send'.id = send.id /\ send'.svc = send.svc /\ send'.slot = x
        /\ used'[send.svc] = used[send.svc] \cup {x}
        /\ \A s \in Service : s # send.svc => used'[s] = used[s]
    BY <1>2, <2>1 DEF IInv, Types
  <2>3. Types'
    BY <1>0, <1>2, <2>1 DEF IInv, Types
  <2>4. Entries'
    BY <1>0, <1>k, <2>2 DEF IInv, Entries, Known
  <2>5. Pools'
    <3> SUFFICES ASSUME NEW s \in Service, Alone(s)
                 PROVE  /\ SlotSent(s)' => /\ send'.slot \in used'[s]
                                           /\ \A w \in Worker : ServiceOf[w] = s =>
                                                proc[w].pc \in LatePc \cup {"off", "dead"}
                        /\ \A w \in Worker : ServiceOf[w] = s /\ proc[w].pc = "run" => Shared(s, w)'
      BY <1>0 DEF Pools, Alone
    <3>1. CASE s # send.svc
      <4>1. ~SlotSent(s)' /\ ~SlotSent(s)
        BY <1>0, <2>2, <3>1 DEF SlotSent
      <4>2. \A w \in Worker : Shared(s, w) => Shared(s, w)'
        BY <1>0, <2>2, <3>1, <4>1 DEF Shared
      <4> QED  BY <4>1, <4>2 DEF IInv, Pools
    <3>2. CASE s = send.svc
      <4>1. \A w \in Worker : ServiceOf[w] = s => proc[w].pc \in LatePc \cup {"off", "dead"}
        BY <2>0, <3>2 DEF Alone
      <4>2. ASSUME NEW w \in Worker, ServiceOf[w] = s, proc[w].pc = "run"
            PROVE  Shared(s, w)'
        <5>1. Shared(s, w)
          BY <4>2 DEF IInv, Pools
        <5> QED  BY <1>0, <2>1, <2>2, <3>2, <5>1 DEF Shared
      <4> QED  BY <2>2, <3>2, <4>1, <4>2
    <3> QED  BY <3>1, <3>2
  <2> QED  BY <1>0, <2>3, <2>4, <2>5, SendInv
<1> QED  BY <1>1, <1>2 DEF Deliver

(* What appending does to a queue.                                         *)
LEMMA Appended ==
  ASSUME NEW S, NEW q \in Seq(S), NEW x \in S
  PROVE  /\ Append(q, x) \in Seq(S) /\ Append(q, x) # << >>
         /\ DOMAIN Append(q, x) = DOMAIN q \cup {Len(q) + 1} /\ Len(q) + 1 \notin DOMAIN q
         /\ Append(q, x)[Len(q) + 1] = x
         /\ \A n \in DOMAIN q : Append(q, x)[n] = q[n]
         /\ SubSeq(Append(q, x), 1, Len(Append(q, x)) - 1) = q
<1>1. /\ Append(q, x) \in Seq(S) /\ Append(q, x) # << >> /\ Len(Append(q, x)) = Len(q) + 1
      /\ DOMAIN Append(q, x) = DOMAIN q \cup {Len(q) + 1} /\ Len(q) + 1 \notin DOMAIN q
      /\ Append(q, x)[Len(q) + 1] = x
      /\ \A n \in DOMAIN q : Append(q, x)[n] = q[n]
  OBVIOUS
<1>2. SubSeq(Append(q, x), 1, Len(Append(q, x)) - 1) = q
  <2>1. Len(Append(q, x)) - 1 = Len(q) /\ Len(q) \in Nat
    BY <1>1
  <2>2. SubSeq(Append(q, x), 1, Len(q)) = q
    BY <1>1, <2>1
  <2> QED  BY <2>1, <2>2
<1> QED  BY <1>1, <1>2

LEMMA PutInv ==
  ASSUME IInv, Put
  PROVE  IInv'
<1>0. /\ UNCHANGED <<open, torn, counter, counterLock, registry, registryLock, used, ring, proc,
           dpa, known>>
      /\ send.slot # Nil /\ send.id # Nil /\ send' = NoSend
      /\ msgs' = [msgs EXCEPT ![send.id] = Append(@, send.slot)]
  BY DEF Put, files, IInv, Entries
<1>k. LastText' = LastText
  BY <1>0 DEF LastText
<1>1. /\ dpa.pc = "run" /\ send.slot \in Slot /\ send.id \in PodId /\ send.svc \in Service
      /\ msgs[send.id] \in Seq(Slot)
  BY <1>0, SetUp, Addressee DEF NoSend, IInv, Types
<1>2. PICK v \in Worker : proc[v].id = send.id /\ ServiceOf[v] = send.svc /\ proc[v].pc # "off"
  BY <1>0, Addressee
<1>3. /\ msgs'[send.id] = Append(msgs[send.id], send.slot)
      /\ \A i \in PodId : i # send.id => msgs'[i] = msgs[i]
  BY <1>0, <1>1 DEF IInv, Types
<1>4. Types'
  BY <1>0, <1>1, Appended DEF IInv, Types, NoSend
<1>5. Entries'
  BY <1>0, <1>k DEF IInv, Entries, Known, NoSend
<1>6. Pools'
  <2> SUFFICES ASSUME NEW s \in Service, Alone(s), NEW w \in Worker, ServiceOf[w] = s,
                      proc[w].pc = "run"
               PROVE  Shared(s, w)'
    BY <1>0 DEF Pools, Alone, SlotSent, NoSend
  <2>1. Shared(s, w) /\ proc[w].id \in PodId
    BY OwnId DEF IInv, Pools, LatePc
  <2>2. ~SlotSent(s)'
    BY <1>0 DEF SlotSent, NoSend
  <2>3. CASE w # v
    <3>1. msgs'[proc[w].id] = msgs[proc[w].id]
      BY <1>0, <1>2, <1>3, <2>1, <2>3 DEF IInv, Ids, Alone
    <3>2. UNCHANGED <<used, proc>>
      BY <1>0
    <3> QED  BY <2>1, <2>2, <3>1, <3>2 DEF Shared
  <2>4. CASE w = v
    <3>1. SlotSent(s) /\ send.slot \in used[s]
      BY <1>0, <1>2, <2>4 DEF SlotSent, IInv, Pools
    <3> DEFINE q == msgs[send.id]
    <3>2. \A n \in DOMAIN q : q[n] \in used[s] /\ q[n] # proc[w].held /\ q[n] # send.slot
      BY <1>2, <2>1, <2>4, <3>1 DEF Shared
    <3>3. \A m, n \in DOMAIN q : q[m] = q[n] => m = n
      BY <1>2, <2>1, <2>4 DEF Shared
    <3>4. proc[w].held # send.slot /\ (proc[w].held # Nil => proc[w].held \in used[s])
      BY <2>1, <3>1 DEF Shared
    <3> DEFINE r == Append(q, send.slot)
    <3>5. /\ DOMAIN r = DOMAIN q \cup {Len(q) + 1} /\ Len(q) + 1 \notin DOMAIN q
          /\ r[Len(q) + 1] = send.slot /\ \A n \in DOMAIN q : r[n] = q[n]
      BY <1>1, Appended
    <3>6. msgs'[proc'[w].id] = r
      BY <1>0, <1>2, <1>3, <2>4
    <3> HIDE DEF q, r
    <3>7. \A n \in DOMAIN r : r[n] \in used[s] /\ r[n] # proc[w].held
      BY <3>1, <3>2, <3>4, <3>5
    <3>8. \A m, n \in DOMAIN r : r[m] = r[n] => m = n
      BY <3>2, <3>3, <3>5
    <3> QED  BY <1>0, <2>2, <3>4, <3>6, <3>7, <3>8 DEF Shared
  <2> QED  BY <2>3, <2>4
<1> QED  BY <1>0, <1>1, <1>4, <1>5, <1>6, SendInv
-----------------------------------------------------------------------------
LEMMA InitInv == Init => IInv
<1> SUFFICES ASSUME Init
             PROVE  IInv
  OBVIOUS
<1>1. Empty \in Text /\ Empty.entries = << >> /\ Empty.text = "ok"
  BY EmptyText
<1>2. /\ \A w \in Worker : proc[w].pc = "off" /\ proc[w].id = Nil /\ proc[w].held = Nil
      /\ open = {} /\ torn = {} /\ counter = 0 /\ counterLock = Nil /\ registryLock = Nil
      /\ registry = Empty /\ send = NoSend /\ dpa.pc = "off"
      /\ \A i \in PodId : ring[i] = Nil
  BY DEF Init
<1>k. LastId = 0 /\ LastText = registry
  BY <1>2, StartupAssumption DEF LastId, LastText
<1>3. Types
  BY <1>1 DEF Init, Types, ProcType, Pc, EarlyPc, NoSend
<1>4. Quiet /\ Copies /\ Ids /\ Names /\ Registered /\ Entries /\ Queues
  BY <1>1, <1>2, <1>k DEF Quiet, Copies, Ids, MiddlePc, LatePc, RegisteringPc, Names, Alive,
      Registered,
    Entries, NoSend, Queues
<1>5. Locks
  BY <1>2, StartupAssumption DEF Locks, CountingPc, RegisteringPc
<1>6. Counted
  <2>1. WithId = {}
    BY <1>2 DEF WithId
  <2> QED  BY <1>k, <2>1, FS_EmptySet DEF Counted
<1>7. Written
  <2>1. Writers = {}
    BY <1>2 DEF Writers
  <2>2. Len(registry.entries) = 0
    BY <1>1, <1>2
  <2>3. Cardinality(Writers) = 0
    BY <2>1, FS_EmptySet
  <2> QED  BY <1>k, <2>2, <2>3 DEF Written
<1>8. Pools
  BY <1>2 DEF Pools, SlotSent, NoSend
<1> QED  BY <1>3, <1>4, <1>5, <1>6, <1>7, <1>8 DEF IInv

LEMMA StutterInv ==
  ASSUME IInv, UNCHANGED vars
  PROVE  IInv'
<1>1. UNCHANGED <<open, torn, counter, counterLock, registry, registryLock, used, ring, msgs, proc,
    dpa, known, send>>
  BY DEF vars, files, shm, daemons
<1>k. LastId' = LastId /\ LastText' = LastText
  BY <1>1 DEF LastId, LastText
<1>2. Types' /\ Quiet' /\ Locks' /\ Copies'
  BY <1>1, <1>k DEF IInv, Types, Quiet, Locks, Copies
<1>3. Counted' /\ Ids' /\ Names'
  BY <1>1, <1>k DEF IInv, Counted, WithId, Ids, Names, Alive
<1>4. Registered'
  BY <1>1, <1>k DEF IInv, Registered, EntryOf
<1>5. Written' /\ Entries'
  BY <1>1, <1>k DEF IInv, Written, Writers, Entries, Known
<1>6. Queues'
  BY <1>1, <1>k DEF IInv, Queues
<1>7. Pools'
  <2>1. \A s \in Service : Alone(s)' <=> Alone(s)
    BY <1>1 DEF Alone
  <2>2. \A s \in Service : SlotSent(s)' <=> SlotSent(s)
    BY <1>1 DEF SlotSent
  <2>3. \A s \in Service, w \in Worker : Shared(s, w)' <=> Shared(s, w)
    BY <1>1, <2>2 DEF Shared
  <2> QED  BY <1>1, <2>1, <2>2, <2>3 DEF IInv, Pools
<1> QED  BY <1>2, <1>3, <1>4, <1>5, <1>6, <1>7 DEF IInv

LEMMA NextInv ==
  ASSUME DaemonsFirst, Cardinality(Worker) <= RegistryCap, IInv, [Next]_vars
  PROVE  IInv'
<1>1. ASSUME NEW w \in Worker, InitStep(w)
      PROVE  IInv'
  BY <1>1, LockCounterInv, ReadCounterInv, OpenCounterInv, WriteCounterInv, LockRegistryInv,
    ReadRegistryInv, OpenRegistryInv, WriteRegistryInv, CreatePoolsInv, CreateRingInv,
        ResetRingInv DEF InitStep
<1>2. ASSUME Dpa
      PROVE  IInv'
  BY <1>2, DpaStartInv, DpaRemoveInv, DpaCounterInv, DpaTruncateInv, DpaDumpInv DEF Dpa
<1> QED  BY <1>1, <1>2, StartInv, ReceiveInv, AllocSlotInv, FreeSlotInv, KillInv, ScanInv,
    SelectInv,
  DeliverInv, PutInv, StutterInv DEF Next

LEMMA Invariance ==
  ASSUME DaemonsFirst, Cardinality(Worker) <= RegistryCap
  PROVE  Spec => []IInv
BY InitInv, NextInv, PTL DEF Spec
-----------------------------------------------------------------------------
LEMMA IInvTypeOK ==
  ASSUME IInv
  PROVE  TypeOK
<1>1. counter \in 0..Cardinality(Worker)
  <2>1. WithId \in SUBSET Worker
    BY DEF WithId
  <2>2. Cardinality(WithId) \in Nat /\ Cardinality(WithId) <= Cardinality(Worker)
        /\ Cardinality(Worker) \in Nat
    BY <2>1, Count
  <2>3. counter \in Nat /\ counter <= LastId /\ LastId \in Nat
    BY StartupAssumption DEF IInv, Types, ProcType, LastId, Copies
  <2> QED  BY <2>2, <2>3 DEF IInv, Counted
<1>2. /\ {counterLock, registryLock} \subseteq Worker \cup {Nil}
      /\ \A s \in Service : used[s] \subseteq Slot
      /\ known \subseteq PodId
  BY DEF IInv, Types
<1>3. /\ registry.text \in {"ok", "blank", "broken"}
      /\ \A i \in DOMAIN registry.entries :
           registry.entries[i] \in [name : {NameOf[w] : w \in Worker}, id : PodId, svc : Service]
  BY EntryType DEF IInv, Types, Text, Entry
<1>4. \A i \in PodId : /\ ring[i] = Nil \/ ring[i] \subseteq Worker
                       /\ \A n \in DOMAIN msgs[i] : msgs[i][n] \in Slot
  BY DEF IInv, Types
<1>5. \A w \in Worker : /\ proc[w].id \in PodId \cup {Nil}
                        /\ proc[w].held \in Slot \cup {Nil}
  BY DEF IInv, Types, ProcType
<1> QED  BY <1>1, <1>2, <1>3, <1>4, <1>5 DEF TypeOK

LEMMA IInvReachable ==
  ASSUME IInv
  PROVE  Reachable
<1> SUFFICES ASSUME registryLock = Nil, "registry" \notin torn, NEW w \in Worker, Running(w)
             PROVE  EntryOf(w) \in Data /\ Mapped(w)
  BY DEF Reachable, LeadsToAll, EntryOf
<1>0. LastText = registry
  BY StartupAssumption DEF LastText
<1>1. Mapped(w)
  BY DEF Mapped, Running, IInv, Queues, LatePc
<1>2. PICK i \in DOMAIN registry.entries :
        /\ registry.entries[i] = EntryOf(w)
        /\ \A k \in DOMAIN registry.entries : k > i => registry.entries[k].name # NameOf[w]
  BY <1>0 DEF Running, IInv, Registered
<1>3. EntryOf(w).name = NameOf[w]
  BY DEF EntryOf
<1> QED  BY <1>1, <1>2, <1>3 DEF Data

LEMMA IInvFirstPoolKept ==
  ASSUME IInv
  PROVE  FirstPoolKept
<1> SUFFICES ASSUME "counter" \notin torn, NEW s \in Service,
                    Cardinality({w \in Worker : ServiceOf[w] = s /\ proc[w].pc # "off"}) <= 1
             PROVE  PoolKept(s)
  BY DEF FirstPoolKept
<1>1. Alone(s)
  <2> SUFFICES ASSUME NEW v \in Worker, NEW w \in Worker, ServiceOf[v] = s, ServiceOf[w] = s,
                      proc[v].pc # "off", proc[w].pc # "off"
               PROVE  v = w
    BY DEF Alone
  <2> SUFFICES ASSUME v # w
               PROVE  FALSE
    OBVIOUS
  <2> DEFINE P == {u \in Worker : ServiceOf[u] = s /\ proc[u].pc # "off"}
  <2>1. P \in SUBSET Worker /\ {v, w} \subseteq P
    OBVIOUS
  <2>2. {v, w} \in SUBSET Worker /\ {v} \in SUBSET Worker /\ w \notin {v}
    OBVIOUS
  <2>3. Cardinality({v} \cup {w}) = Cardinality({v}) + 1
    BY <2>2, CountOneMore
  <2>4. Cardinality({v}) = 1
    BY FS_Singleton
  <2>5. {v} \cup {w} = {v, w}
    OBVIOUS
  <2>6. Cardinality({v, w}) <= Cardinality(P) /\ Cardinality(P) \in Nat
    BY <2>1, Count, FS_Subset
  <2>7. Cardinality(P) <= 1
    OBVIOUS
  <2> HIDE DEF P
  <2> QED  BY <2>3, <2>4, <2>5, <2>6, <2>7, SMTT(30)
<1>2. /\ SlotSent(s) => send.slot \in used[s]
      /\ \A w \in Worker : ServiceOf[w] = s /\ proc[w].pc = "run" => Shared(s, w)
  BY <1>1 DEF IInv, Pools
<1>3. \A w \in Worker : proc[w].held # Nil => proc[w].pc = "run"
  BY DEF IInv, Ids
<1>4. ASSUME NEW u \in Users(s)
      PROVE  \/ u = <<"daemon", Nil, 0, send.slot>> /\ send.svc = s
             \/ \E w \in Worker : ServiceOf[w] = s /\ u = <<"worker", w, 0, proc[w].held>>
             \/ \E w \in Worker : /\ ServiceOf[w] = s /\ proc[w].pc = "run"
                                  /\ \E n \in DOMAIN msgs[proc[w].id] :
                                       u = <<"queue", w, n, msgs[proc[w].id][n]>>
  BY DEF Users, InQueue, Mapped, Running
<1>5. ASSUME NEW u \in Users(s), u[4] # Nil
      PROVE  \/ u = <<"daemon", Nil, 0, send.slot>> /\ SlotSent(s)
             \/ \E w \in Worker : /\ ServiceOf[w] = s /\ proc[w].pc = "run" /\ proc[w].held # Nil
                                  /\ u = <<"worker", w, 0, proc[w].held>>
             \/ \E w \in Worker : /\ ServiceOf[w] = s /\ proc[w].pc = "run"
                                  /\ \E n \in DOMAIN msgs[proc[w].id] :
                                       u = <<"queue", w, n, msgs[proc[w].id][n]>>
  BY <1>3, <1>4, <1>5 DEF SlotSent
<1>6. \A v, w \in Worker :
        ServiceOf[v] = s /\ ServiceOf[w] = s /\ proc[v].pc = "run" /\ proc[w].pc = "run" => v = w
  BY <1>1 DEF Alone
<1>7. ASSUME NEW u \in Users(s), u[4] # Nil
      PROVE  u[4] \in used[s]
  BY <1>2, <1>5, <1>7 DEF Shared
<1>8. ASSUME NEW u \in Users(s), NEW v \in Users(s), u[4] = v[4], u[4] # Nil
      PROVE  u = v
  <2>1. CASE u = <<"daemon", Nil, 0, send.slot>> \/ v = <<"daemon", Nil, 0, send.slot>>
    BY <1>2, <1>5, <1>8, <2>1, SMTT(30) DEF Shared
  <2>2. ASSUME NEW w \in Worker, ServiceOf[w] = s, proc[w].pc = "run",
               u = <<"worker", w, 0, proc[w].held>>
        PROVE  u = v
    BY <1>2, <1>5, <1>6, <1>8, <2>1, <2>2 DEF Shared
  <2>3. ASSUME NEW w \in Worker, ServiceOf[w] = s, proc[w].pc = "run",
               v = <<"worker", w, 0, proc[w].held>>
        PROVE  u = v
    BY <1>2, <1>5, <1>6, <1>8, <2>1, <2>3 DEF Shared
  <2>4. ASSUME NEW w \in Worker, ServiceOf[w] = s, proc[w].pc = "run",
               NEW m \in DOMAIN msgs[proc[w].id], u = <<"queue", w, m, msgs[proc[w].id][m]>>,
               NEW n \in DOMAIN msgs[proc[w].id], v = <<"queue", w, n, msgs[proc[w].id][n]>>
        PROVE  u = v
    BY <1>2, <1>8, <2>4 DEF Shared
  <2> QED  BY <1>5, <1>6, <1>8, <2>1, <2>2, <2>3, <2>4
<1> QED  BY <1>7, <1>8 DEF PoolKept

(* However workers and their replacements start, end and interleave, the   *)
(* counter, the registry text, the bitmaps, the queues and what processes  *)
(* have read of them stay in their ranges; an id never exceeds the number  *)
(* of starts.                                                              *)
THEOREM StartupTypes ==
  ASSUME DaemonsFirst, Cardinality(Worker) <= RegistryCap
  PROVE  Spec => []TypeOK
BY Invariance, IInvTypeOK, PTL

(* dpumesh_init never gives two living workers one pod id before a worker  *)
(* is killed between the truncation of the counter (dpumesh.c:280) and the *)
(* write (281): what a worker has read under the lock is still so when it  *)
(* empties the file, whoever else is killed, also in rewriting the         *)
(* registry.                                                               *)
THEOREM IdsAreUnique ==
  ASSUME DaemonsFirst, Cardinality(Worker) <= RegistryCap
  PROVE  Spec => []UniqueIds
<1>1. IInv => UniqueIds
  BY DEF IInv, Ids, UniqueIds, PodIdUnique
<1> QED  BY <1>1, Invariance, PTL

(* Once dpumesh_init has returned, the registry leads daemons, who read it *)
(* under its lock, to the worker and to the very queue files it has        *)
(* mapped, until it ends, or some worker is killed between the truncation  *)
(* of the registry (dpumesh.c:320) and the write (321).                    *)
THEOREM WorkersAreReachable ==
  ASSUME DaemonsFirst, Cardinality(Worker) <= RegistryCap
  PROVE  Spec => []Reachable
BY Invariance, IInvReachable, PTL

(* The first worker of a service, registered before its bitmaps are        *)
(* cleared, takes no slot from the daemon and gives none out twice, as     *)
(* long as the counter is not torn.                                        *)
THEOREM FirstPoolIsKept ==
  ASSUME DaemonsFirst, Cardinality(Worker) <= RegistryCap
  PROVE  Spec => []FirstPoolKept
BY Invariance, IInvFirstPoolKept, PTL

(* A step that leaves a worker running changes its queue only by a put of  *)
(* the daemon or by the worker's own get.                                  *)
LEMMA QueueStep ==
  ASSUME IInv, [Next]_vars, "counter" \notin torn, NEW w \in Worker, Running(w), Running(w)'
  PROVE  LET q == msgs[proc[w].id]
             r == msgs'[proc[w].id]
         IN \/ r = q
            \/ q # << >> /\ r = Tail(q) /\ proc[w].held = Nil /\ proc'[w].held = Head(q)
            \/ r # << >> /\ q = SubSeq(r, 1, Len(r) - 1)
<1> DEFINE i == proc[w].id
           Kept == \/ msgs'[i] = msgs[i]
                   \/ /\ msgs[i] # << >> /\ msgs'[i] = Tail(msgs[i])
                      /\ proc[w].held = Nil /\ proc'[w].held = Head(msgs[i])
                   \/ msgs'[i] # << >> /\ msgs[i] = SubSeq(msgs'[i], 1, Len(msgs'[i]) - 1)
<1> SUFFICES Kept
  OBVIOUS
<1>0. /\ i \in PodId /\ proc[w].pc = "run" /\ msgs \in [PodId -> Seq(Slot)]
      /\ proc \in [Worker -> ProcType]
  BY OwnId DEF LatePc, Running, IInv, Types
<1>1. ASSUME msgs' = msgs
      PROVE  Kept
  BY <1>1
<1>2. ASSUME NEW v \in Worker, NEW q, msgs' = [msgs EXCEPT ![proc[v].id] = q], v # w,
             proc[v].pc \in MiddlePc \cup LatePc
      PROVE  Kept
  <2>1. proc[v].id # i
    BY <1>0, <1>2 DEF IInv, Ids, LatePc
  <2> QED  BY <1>0, <1>2, <2>1
<1>3. ASSUME NEW v \in Worker, InitStep(v)
      PROVE  Kept
  <2>1. CASE CreateRing(v)
    <3>1. v # w /\ proc[v].pc \in MiddlePc
      BY <1>0, <2>1 DEF CreateRing, MiddlePc
    <3>2. msgs' = msgs \/ msgs' = [msgs EXCEPT ![proc[v].id] = << >>]
      BY <2>1 DEF CreateRing
    <3> QED  BY <1>1, <1>2, <3>1, <3>2
  <2>2. CASE ResetRing(v)
    <3>1. v # w /\ proc[v].pc \in LatePc /\ msgs' = [msgs EXCEPT ![proc[v].id] = << >>]
      BY <1>0, <2>2 DEF ResetRing, LatePc
    <3> QED  BY <1>2, <3>1
  <2>3. CASE \/ LockCounter(v) \/ ReadCounter(v) \/ OpenCounter(v) \/ WriteCounter(v)
             \/ LockRegistry(v) \/ ReadRegistry(v) \/ OpenRegistry(v) \/ WriteRegistry(v)
             \/ CreatePools(v)
    <3>1. msgs' = msgs
      BY <2>3 DEF LockCounter, ReadCounter, OpenCounter, WriteCounter, LockRegistry, ReadRegistry,
        OpenRegistry, WriteRegistry, CreatePools, shm
    <3> QED  BY <1>1, <3>1
  <2> QED  BY <1>3, <2>1, <2>2, <2>3 DEF InitStep
<1>4. ASSUME NEW v \in Worker, Receive(v)
      PROVE  Kept
  <2>0. /\ proc[v].pc = "run" /\ msgs' = [msgs EXCEPT ![proc[v].id] = Tail(@)]
        /\ proc[v].held = Nil /\ msgs[proc[v].id] # << >>
        /\ proc' = [proc EXCEPT ![v].held = Head(msgs[proc[v].id])]
    BY <1>4 DEF Receive, Mapped, Running
  <2>1. CASE v = w
    <3>1. proc'[w].held = Head(msgs[i])
      BY <1>0, <2>0, <2>1 DEF ProcType
    <3>2. msgs'[i] = Tail(msgs[i])
      BY <1>0, <2>0, <2>1
    <3> QED  BY <2>0, <2>1, <3>1, <3>2
  <2>2. CASE v # w
    BY <1>2, <2>0, <2>2 DEF LatePc
  <2> QED  BY <2>1, <2>2
<1>5. ASSUME Put
      PROVE  Kept
  <2>1. /\ msgs' = [msgs EXCEPT ![send.id] = Append(@, send.slot)]
        /\ send.slot \in Slot
    BY <1>5 DEF Put, IInv, Types
  <2>2. CASE send.id = i
    <3>1. msgs'[i] = Append(msgs[i], send.slot) /\ msgs[i] \in Seq(Slot)
      BY <1>0, <2>1, <2>2
    <3> QED  BY <2>1, <3>1, Appended
  <2>3. CASE send.id # i
    BY <1>0, <2>1, <2>3
  <2> QED  BY <2>2, <2>3
<1>6. ASSUME \/ Dpa \/ Scan \/ Select \/ Deliver \/ UNCHANGED vars
             \/ \E v \in Worker : Start(v) \/ AllocSlot(v) \/ FreeSlot(v) \/ Kill(v)
      PROVE  msgs' = msgs
  BY <1>6 DEF Dpa, DpaStart, DpaRemove, DpaCounter, DpaTruncate, DpaDump, Scan, Select, Deliver,
    Start, AllocSlot, FreeSlot, Kill, vars, shm
<1> QED  BY <1>1, <1>3, <1>4, <1>5, <1>6 DEF Next

(* Nobody who starts, ends or sends takes a message out of the queue of a  *)
(* running worker, as long as the counter is not torn.                     *)
THEOREM QueuesAreKept ==
  ASSUME DaemonsFirst, Cardinality(Worker) <= RegistryCap
  PROVE  Spec => QueueKept
<1>1. IInv /\ [Next]_vars =>
        [\A w \in Worker : "counter" \notin torn /\ Running(w) /\ Running(w)' =>
           LET q == msgs[proc[w].id]
               r == msgs'[proc[w].id]
           IN \/ r = q
              \/ q # << >> /\ r = Tail(q) /\ proc[w].held = Nil /\ proc'[w].held = Head(q)
              \/ r # << >> /\ q = SubSeq(r, 1, Len(r) - 1)]_vars
  BY QueueStep
<1> QED  BY <1>1, Invariance, PTL DEF Spec, QueueKept
=============================================================================
