--------------------------- MODULE DescriptorRing ---------------------------
(***************************************************************************)
(* A submission queue as it lies in shared memory: a header of three words *)
(* (head, tail, count) followed by Capacity descriptor cells, protected by *)
(* an advisory lock on a side file.  Worker threads (dr_put, dr_get of     *)
(* common/dpumesh.c) and the two daemons (DescriptorRing.put, .get of      *)
(* dpumesh/common.py) run the same steps: take the lock, read the header,  *)
(* copy one cell, write the header back, drop the lock.                    *)
(*                                                                         *)
(* A process may be killed inside a call.  The kernel then drops its lock, *)
(* and whatever it had already stored stays in shared memory.  One window  *)
(* is left out: a kill between the stores of the index and of the count    *)
(* leaves a torn header, which nothing in the code repairs.                *)
(***************************************************************************)
EXTENDS Integers, Sequences

CONSTANTS
  Proc,       (* threads and processes that share the ring          *)
  Desc,       (* descriptors                                        *)
  Capacity,   (* DPUMESH_MAX_DESCRIPTORS                            *)
  Nil         (* no process, no descriptor                          *)

ASSUME RingAssumption ==
  /\ Capacity \in Nat \ {0}
  /\ Nil \notin Proc
  /\ Nil \notin Desc

VARIABLES
  head, tail, count,   (* the header words                          *)
  cells,               (* the descriptor cells                      *)
  lock,                (* the holder of the flock, or Nil           *)
  pc,                  (* where each process stands in its call     *)
  loc,                 (* its local copies: header words and cell   *)
  result               (* the answer of its last call               *)

vars == <<head, tail, count, cells, lock, pc, loc, result>>

Index == 0 .. (Capacity - 1)

Local == [op : {"put", "get"}, desc : Desc \cup {Nil},
          head : Index, tail : Index, count : 0 .. Capacity]

Result == [op : {"put", "get"}, ok : BOOLEAN, desc : Desc \cup {Nil}] \cup {Nil}

Holding == {"read", "copy", "index", "count", "release"}

(* The locals of a process that is not inside a call.                      *)
NoLocal == [op |-> "get", desc |-> Nil, head |-> 0, tail |-> 0, count |-> 0]

(* dr_init with create set zeroes the header and leaves the cells alone.   *)
Init ==
  /\ head = 0 /\ tail = 0 /\ count = 0
  /\ cells = [i \in Index |-> Nil]
  /\ lock = Nil
  /\ pc = [p \in Proc |-> "idle"]
  /\ loc = [p \in Proc |-> NoLocal]
  /\ result = [p \in Proc |-> Nil]

Goto(p, from, to) == pc[p] = from /\ pc' = [pc EXCEPT ![p] = to]

CallPut(p, d) ==
  /\ Goto(p, "idle", "acquire")
  /\ loc' = [loc EXCEPT ![p].op = "put", ![p].desc = d]
  /\ UNCHANGED <<head, tail, count, cells, lock, result>>

CallGet(p) ==
  /\ Goto(p, "idle", "acquire")
  /\ UNCHANGED <<head, tail, count, cells, lock, loc, result>>

(* Mutant of Acquire: the lock file could not be opened and nobody minds.  *)
AcquireUnguarded(p) ==
  /\ Goto(p, "acquire", "read")
  /\ lock' = p
  /\ UNCHANGED <<head, tail, count, cells, loc, result>>

(* flock(LOCK_EX) blocks until nobody else holds the lock file.            *)
Acquire(p) ==
  /\ Goto(p, "acquire", "read")
  /\ lock = Nil
  /\ lock' = p
  /\ UNCHANGED <<head, tail, count, cells, loc, result>>

(* Mutant of Blocked: off by one at the full ring.                         *)
BlockedLate(p) == \/ loc[p].op = "put" /\ count > Capacity
                  \/ loc[p].op = "get" /\ count = 0

Blocked(p) == \/ loc[p].op = "put" /\ count >= Capacity
              \/ loc[p].op = "get" /\ count = 0

(* The header is copied to locals; a full or an empty ring ends the call.  *)
ReadHeader(p) ==
  /\ ~Blocked(p)
  /\ Goto(p, "read", "copy")
  /\ loc' = [loc EXCEPT ![p].head = head, ![p].tail = tail, ![p].count = count]
  /\ UNCHANGED <<head, tail, count, cells, lock, result>>

Refuse(p) ==
  /\ Blocked(p)
  /\ Goto(p, "read", "release")
  /\ result' = [result EXCEPT ![p] =
                  [op |-> loc[p].op, ok |-> FALSE, desc |-> loc[p].desc]]
  /\ UNCHANGED <<head, tail, count, cells, lock, loc>>

(* memcpy of the 64 bytes at the local tail (put) or head (get).           *)
CopyIn(p) ==
  /\ loc[p].op = "put"
  /\ Goto(p, "copy", "index")
  /\ cells' = [cells EXCEPT ![loc[p].tail] = loc[p].desc]
  /\ UNCHANGED <<head, tail, count, lock, loc, result>>

CopyOut(p) ==
  /\ loc[p].op = "get"
  /\ Goto(p, "copy", "index")
  /\ loc' = [loc EXCEPT ![p].desc = cells[loc[p].head]]
  /\ UNCHANGED <<head, tail, count, cells, lock, result>>

(* The header is written back from the locals.  Only one of the indices    *)
(* changes, so the stores of both are one visible step...                  *)
StoreIndexPut(p) ==
  /\ head' = loc[p].head
  /\ tail' = (loc[p].tail + 1) % Capacity

StoreIndexGet(p) ==
  /\ head' = (loc[p].head + 1) % Capacity
  /\ tail' = loc[p].tail

StoreIndex(p) ==
  /\ Goto(p, "index", "count")
  /\ \/ loc[p].op = "put" /\ StoreIndexPut(p)
     \/ loc[p].op = "get" /\ StoreIndexGet(p)
  /\ UNCHANGED <<count, cells, lock, loc, result>>

(* ...and then the count, which is what the next caller looks at.          *)
StoreCount(p) ==
  /\ Goto(p, "count", "release")
  /\ count' = IF loc[p].op = "put" THEN loc[p].count + 1 ELSE loc[p].count - 1
  /\ result' = [result EXCEPT ![p] =
                  [op |-> loc[p].op, ok |-> TRUE, desc |-> loc[p].desc]]
  /\ UNCHANGED <<head, tail, cells, lock, loc>>

(* Mutant of Release: a return path without LOCK_UN.                       *)
ReleaseKeepsLock(p) ==
  /\ Goto(p, "release", "idle")
  /\ loc' = [loc EXCEPT ![p] = NoLocal]
  /\ UNCHANGED <<head, tail, count, cells, lock, result>>

(* flock(LOCK_UN), close, return: the locals are gone.                     *)
Release(p) ==
  /\ Goto(p, "release", "idle")
  /\ lock' = Nil
  /\ loc' = [loc EXCEPT ![p] = NoLocal]
  /\ UNCHANGED <<head, tail, count, cells, result>>

(* The process is killed inside a call and started again.                  *)
Crash(p) ==
  /\ pc[p] \notin {"idle", "count"}
  /\ pc' = [pc EXCEPT ![p] = "idle"]
  /\ lock' = IF lock = p THEN Nil ELSE lock
  /\ loc' = [loc EXCEPT ![p] = NoLocal]
  /\ UNCHANGED <<head, tail, count, cells, result>>

Step(p) ==
  \/ Acquire(p) \/ ReadHeader(p) \/ Refuse(p) \/ CopyIn(p) \/ CopyOut(p)
  \/ StoreIndex(p) \/ StoreCount(p) \/ Release(p)

Next ==
  \E p \in Proc :
    \/ \E d \in Desc : CallPut(p, d)
    \/ CallGet(p)
    \/ Step(p)
    \/ Crash(p)

Spec == Init /\ [][Next]_vars

(* A process inside a call keeps running, and the kernel hands a contended *)
(* flock to every waiter in turn.                                          *)
FairSpec == /\ Spec
            /\ \A p \in Proc : WF_vars(Step(p)) /\ SF_vars(Acquire(p))
-----------------------------------------------------------------------------
(* Header words, cells and locals keep their ranges; the count never       *)
(* exceeds the capacity.                                                   *)
TypeOK ==
  /\ head \in Index /\ tail \in Index /\ count \in 0 .. Capacity
  /\ cells \in [Index -> Desc \cup {Nil}]
  /\ lock \in Proc \cup {Nil}
  /\ pc \in [Proc -> {"idle", "acquire"} \cup Holding]
  /\ loc \in [Proc -> Local]
  /\ result \in [Proc -> Result]

(* A get takes effect when it stores the count.  Until then the cell whose *)
(* index it has already passed still belongs to the queue.                 *)
QueueHead ==
  IF lock # Nil /\ pc[lock] = "count" /\ loc[lock].op = "get"
  THEN loc[lock].head
  ELSE head

(* The live cells, oldest first: the queue that the ring represents.       *)
Contents == [i \in 1 .. count |-> cells[(QueueHead + (i - 1)) % Capacity]]

Fifo == INSTANCE BoundedFifo WITH queue <- Contents

(* Whatever the interleaving of workers and daemons, and whoever is killed *)
(* inside a call, the ring behaves as one bounded first-in first-out queue *)
(* in which each put and each get takes effect at a single instant.        *)
ImplementsFifo == Fifo!Spec

(* No process waits forever on the lock file or inside a call: the pollers *)
(* of the worker and of both daemons always come back from dr_get.         *)
CallsReturn == \A p \in Proc : pc[p] # "idle" ~> pc[p] = "idle"
=============================================================================
