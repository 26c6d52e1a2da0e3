-------------------------------- MODULE Shm --------------------------------
(***************************************************************************)
(* The shared memory of one node, as the workers and the two daemons see   *)
(* it: buffer pools and submission queues.                                 *)
(*                                                                         *)
(* A queue is a bounded sequence, the abstraction that DescriptorRing      *)
(* implements.  A pool maps a slot to Free (its bitmap byte is 0) or to    *)
(* what its owner has written; alloc and the write that follows it are one *)
(* step, since nobody else knows the new slot, and every alloc and free is *)
(* a step of its own.  BufferPool says which threads may rely on that.     *)
(*                                                                         *)
(* A buffer reference stands for a descriptor's (pool type, pod id, slot)  *)
(* triple, which resolve_pool turns into the pool; Nil is slot -1.         *)
(***************************************************************************)
EXTENDS Integers, Sequences, FiniteSets

CONSTANTS
  Client,          (* bridge clients; the name and the id a client asks   *)
                   (* about are called like the client itself             *)
  Worker,          (* the registered workers                              *)
  ServiceOf,       (* the service each worker belongs to                  *)
  NumSlots,        (* DPUMESH_NUM_SLOTS                                   *)
  MaxDescriptors,  (* DPUMESH_MAX_DESCRIPTORS                             *)
  Free,            (* the contents of a slot nobody has allocated         *)
  Nil              (* no reference, no worker, the empty string           *)

Service == {"frontend", "id-service", "attend-service"}

ASSUME ShmAssumption ==
  /\ ServiceOf \in [Worker -> Service]
  /\ NumSlots \in Nat \ {0}
  /\ MaxDescriptors \in Nat \ {0}
  /\ IsFiniteSet(Worker)
  /\ Nil \notin Client \cup Worker \cup Service

VARIABLES
  mem,             (* mem[p][s]: slot s of pool p                         *)
  tx_sq, rx_sq,    (* the queues of each worker                           *)
  sidecar_tx_sq,   (* DPA daemon -> sidecar                               *)
  sidecar_rx_sq    (* sidecar -> DPA daemon                               *)

sqs == <<tx_sq, rx_sq, sidecar_tx_sq, sidecar_rx_sq>>
shmVars == <<mem, sqs>>

Slot == 0 .. (NumSlots - 1)
Kind == {"tx_header", "tx_body", "rx_header", "rx_body"}

(* Each service has four pools, shared by its workers; of the pools of the *)
(* DPU two are used.                                                       *)
DpuTxHeader == <<"dpu", "tx_header">>
DpuRxBody == <<"dpu", "rx_body">>
Pool == (Service \X Kind) \cup {DpuTxHeader, DpuRxBody}
HostPool(w, kind) == <<ServiceOf[w], kind>>

Ref == [pool : Pool, slot : Slot]
OptRef == Ref \cup {Nil}

(* What a serialized header says, where somebody reads it: what is asked   *)
(* (ask, name) of which service, or the status; the id of the bridge       *)
(* request; the worker that sent it and the one it is for.  Workers number *)
(* their own requests too ("creq-7"), but nobody looks such an id up: Nil. *)
Header == [ask : {"lookup", "noname", "badpath"}, svc : Service \cup {Nil},
           name : Client \cup {Nil}, status : Nat, rid : Client \cup {Nil},
           src : Worker \cup {Nil}, dst : Worker \cup {Nil}]

(* The fields of a JSON body; Nil where a field is absent.                 *)
Body == [name : Client \cup {Nil}, id : Client \cup {Nil}, att : Client \cup {Nil}]
NoBody == [name |-> Nil, id |-> Nil, att |-> Nil]

Descriptor == [op : {"req", "resp"}, case : {"ingress", "local"}, req_id : Nat,
               dst : Worker \cup {Nil}, header : OptRef, body : OptRef]

(* Free and Nil are like nothing that is stored.                           *)
ASSUME DataAssumption ==
  /\ Free \notin Header \cup Body
  /\ Nil \notin Ref \cup Descriptor

ShmInit ==
  /\ mem = [p \in Pool |-> [s \in Slot |-> Free]]
  /\ tx_sq = [w \in Worker |-> << >>]
  /\ rx_sq = [w \in Worker |-> << >>]
  /\ sidecar_tx_sq = << >>
  /\ sidecar_rx_sq = << >>

(* alloc: the first slot whose bitmap byte is 0, or -1.                    *)
Full(p) == \A s \in Slot : mem[p][s] # Free
FirstFree(p) ==
  CHOOSE s \in Slot : mem[p][s] = Free /\ \A r \in Slot : r < s => mem[p][r] # Free
NewRef(p) == [pool |-> p, slot |-> FirstFree(p)]
AllocWrite(p, x) == mem' = [mem EXCEPT ![p][FirstFree(p)] = x]

(* Mutant of FreeSlot: slot 0 counts as no slot.                           *)
FreeSlotButZero(r) == IF r.slot = 0 THEN UNCHANGED mem ELSE mem' = [mem EXCEPT ![r.pool][r.slot] = Free]

FreeSlot(r) == mem' = [mem EXCEPT ![r.pool][r.slot] = Free]
ReadSlot(r) == mem[r.pool][r.slot]

(* Mutants of Room: one cell too few, one too many.                        *)
RoomButOne(q) == Len(q) + 1 < MaxDescriptors
RoomAndOne(q) == Len(q) <= MaxDescriptors

(* put refuses when the queue is full.                                     *)
Room(q) == Len(q) < MaxDescriptors

(* The daemons put a descriptor back without looking at the result.        *)
PutBack(q, d) == IF Room(q) THEN Append(q, d) ELSE q
=============================================================================
