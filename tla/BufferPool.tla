----------------------------- MODULE BufferPool -----------------------------
(***************************************************************************)
(* One buffer pool as it lies in shared memory: a bitmap byte per slot,    *)
(* then the slots.  bp_alloc and bp_free of common/dpumesh.c, alloc and    *)
(* free of BufferPool in dpumesh/common.py change the bitmap under an      *)
(* advisory file lock; reading and writing a slot takes no lock at all.    *)
(*                                                                         *)
(* The C code addresses the mapping directly.  The Python code goes        *)
(* through the file position of one mmap object, which every thread of     *)
(* the process shares: each access is a seek followed by a read or write   *)
(* that moves the position on.  CursorOf says which position a thread      *)
(* uses; a C thread has one of its own.                                    *)
(*                                                                         *)
(* Threads hand slots to each other (through descriptors, which are not    *)
(* modelled here): a claim is a slot number some thread has been given,    *)
(* together with the data it expects to find there.                        *)
(***************************************************************************)
EXTENDS Integers, FiniteSets

CONSTANTS
  Thread,     (* the threads that use the pool                      *)
  Cursor,     (* positions in the mapping                           *)
  CursorOf,   (* the position each thread works with                *)
  NumSlots,   (* DPUMESH_NUM_SLOTS, NUM_SLOTS                       *)
  Data,       (* what is stored in slots                            *)
  Junk,       (* bytes nobody meant to be there                     *)
  Nil

ASSUME PoolAssumption ==
  /\ CursorOf \in [Thread -> Cursor]
  /\ NumSlots \in Nat \ {0}
  /\ Nil \notin Thread
  /\ Junk \notin Data

Slot == 0 .. (NumSlots - 1)

(* A position is in front of a bitmap byte, at the start of a slot, or     *)
(* behind the data that a slot holds.                                      *)
Position == [area : {"bit", "slot", "behind"}, slot : Slot]
Bit(s) == [area |-> "bit", slot |-> s]
Start(s) == [area |-> "slot", slot |-> s]
Behind(s) == [area |-> "behind", slot |-> s]

VARIABLES
  bitmap,     (* bitmap[s] = 1: slot s is taken                     *)
  store,      (* what slot s holds                                  *)
  lock,       (* the holder of the lock file, or Nil                *)
  cursor,     (* where each position stands                         *)
  pc, loc,    (* where each thread stands, and its local variables  *)
  claims,     (* the slots handed out and not yet freed             *)
  read        (* what the last read of a thread wanted and found    *)

vars == <<bitmap, store, lock, cursor, pc, loc, claims, read>>

Claim == [holder : Thread, slot : Slot, data : Data]

Locked == {"seek0", "scan", "seek_bit", "mark", "unlock",
           "f_seek", "f_clear", "f_unlock"}
Unlocked == {"idle", "lock", "seek_slot", "write", "r_seek", "r_read", "f_lock"}

NoLocal == [slot |-> 0, data |-> Junk]

(* A new pool: the bitmap is cleared.                                      *)
Init ==
  /\ bitmap = [s \in Slot |-> 0]
  /\ store = [s \in Slot |-> Junk]
  /\ lock = Nil
  /\ cursor = [c \in Cursor |-> Bit(0)]
  /\ pc = [t \in Thread |-> "idle"]
  /\ loc = [t \in Thread |-> NoLocal]
  /\ claims = {}
  /\ read = [t \in Thread |-> [want |-> Junk, got |-> Junk]]

Goto(t, from, to) == pc[t] = from /\ pc' = [pc EXCEPT ![t] = to]

MoveTo(t, pos) == cursor' = [cursor EXCEPT ![CursorOf[t]] = pos]
At(t) == cursor[CursorOf[t]]

(* Mutant of AcquireLock: it does not wait.                                *)
AcquireAtOnce(t) == lock' = t

(* flock(LOCK_EX) and LOCK_UN on a descriptor opened for this one call.    *)
AcquireLock(t) == lock = Nil /\ lock' = t
ReleaseLock(t) == lock' = Nil

(* seek, as a step of its own: the other threads run between the seek and  *)
(* the access.                                                             *)
Seek(t, from, to, pos) ==
  /\ Goto(t, from, to)
  /\ MoveTo(t, pos)
  /\ UNCHANGED <<bitmap, store, lock, loc, claims, read>>

(* One byte is stored in front of the position.                            *)
PutByte(t, b) ==
  /\ bitmap' = IF At(t).area = "bit" THEN [bitmap EXCEPT ![At(t).slot] = b] ELSE bitmap
  /\ store' = IF At(t).area = "slot" THEN [store EXCEPT ![At(t).slot] = Junk] ELSE store
  /\ MoveTo(t, IF At(t).area # "bit" THEN Behind(At(t).slot)
               ELSE IF At(t).slot + 1 \in Slot THEN Bit(At(t).slot + 1)
               ELSE Start(0))

(* A message is stored in front of the position.  It is longer than what   *)
(* is left of the bitmap and shorter than a slot.                          *)
PutData(t, d) ==
  /\ bitmap' = IF At(t).area = "bit"
               THEN [s \in Slot |-> IF s >= At(t).slot THEN 1 ELSE bitmap[s]]
               ELSE bitmap
  /\ store' = CASE At(t).area = "bit" -> [store EXCEPT ![0] = Junk]
                [] At(t).area = "slot" -> [store EXCEPT ![At(t).slot] = d]
                [] OTHER -> store
  /\ MoveTo(t, Behind(IF At(t).area = "bit" THEN 0 ELSE At(t).slot))
-----------------------------------------------------------------------------
(* alloc: lock, read the bitmap, set the first clear byte, unlock; the     *)
(* caller then writes the slot without the lock.                           *)
CallAlloc(t, d) ==
  /\ Goto(t, "idle", "lock")
  /\ loc' = [loc EXCEPT ![t].data = d]
  /\ UNCHANGED <<bitmap, store, lock, cursor, claims, read>>

AllocLock(t) ==
  /\ Goto(t, "lock", "seek0")
  /\ AcquireLock(t)
  /\ UNCHANGED <<bitmap, store, cursor, loc, claims, read>>

AllocSeek(t) == Seek(t, "seek0", "scan", Bit(0))

FirstClear(s) == bitmap[s] = 0 /\ \A r \in Slot : r < s => bitmap[r] # 0

(* Read from anywhere but the first bitmap byte, the bytes taken for the   *)
(* bitmap may show any slot as the first free one, or none.                *)
Scan(t) ==
  /\ pc[t] = "scan"
  /\ \/ \E s \in Slot :
          /\ At(t) = Bit(0) => FirstClear(s)
          /\ Goto(t, "scan", "seek_bit")
          /\ loc' = [loc EXCEPT ![t].slot = s]
     \/ /\ At(t) = Bit(0) => \A s \in Slot : bitmap[s] # 0
        /\ Goto(t, "scan", "f_unlock")
        /\ loc' = [loc EXCEPT ![t] = NoLocal]
  /\ MoveTo(t, Start(0))
  /\ UNCHANGED <<bitmap, store, lock, claims, read>>

SeekBit(t) == Seek(t, "seek_bit", "mark", Bit(loc[t].slot))

(* Mutant of Mark: the byte written says free.                             *)
MarkFree(t) ==
  /\ Goto(t, "mark", "unlock")
  /\ PutByte(t, 0)
  /\ UNCHANGED <<lock, loc, claims, read>>

Mark(t) ==
  /\ Goto(t, "mark", "unlock")
  /\ PutByte(t, 1)
  /\ UNCHANGED <<lock, loc, claims, read>>

AllocUnlock(t) ==
  /\ Goto(t, "unlock", "seek_slot")
  /\ ReleaseLock(t)
  /\ UNCHANGED <<bitmap, store, cursor, loc, claims, read>>

SeekSlot(t) == Seek(t, "seek_slot", "write", Start(loc[t].slot))

Write(t) ==
  /\ Goto(t, "write", "idle")
  /\ PutData(t, loc[t].data)
  /\ claims' = claims \cup {[holder |-> t, slot |-> loc[t].slot, data |-> loc[t].data]}
  /\ loc' = [loc EXCEPT ![t] = NoLocal]
  /\ UNCHANGED <<lock, read>>

(* The slot number travels to another thread in a descriptor.              *)
HandOver(t, u, c) ==
  /\ c \in claims /\ c.holder = t /\ pc[t] = "idle"
  /\ claims' = (claims \ {c}) \cup {[c EXCEPT !.holder = u]}
  /\ UNCHANGED <<bitmap, store, lock, cursor, pc, loc, read>>

(* read: no lock.                                                          *)
CallRead(t, c) ==
  /\ c \in claims /\ c.holder = t
  /\ Goto(t, "idle", "r_seek")
  /\ loc' = [loc EXCEPT ![t] = [slot |-> c.slot, data |-> c.data]]
  /\ UNCHANGED <<bitmap, store, lock, cursor, claims, read>>

ReadSeek(t) == Seek(t, "r_seek", "r_read", Start(loc[t].slot))

Read(t) ==
  /\ Goto(t, "r_read", "idle")
  /\ read' = [read EXCEPT ![t] =
                [want |-> loc[t].data,
                 got |-> IF At(t).area = "slot" THEN store[At(t).slot] ELSE Junk]]
  /\ MoveTo(t, Behind(IF At(t).area = "bit" THEN 0 ELSE At(t).slot))
  /\ loc' = [loc EXCEPT ![t] = NoLocal]
  /\ UNCHANGED <<bitmap, store, lock, claims>>

(* free: lock, clear the byte, unlock.                                     *)
CallFree(t, c) ==
  /\ c \in claims /\ c.holder = t
  /\ Goto(t, "idle", "f_lock")
  /\ loc' = [loc EXCEPT ![t].slot = c.slot]
  /\ claims' = claims \ {c}
  /\ UNCHANGED <<bitmap, store, lock, cursor, read>>

FreeLock(t) ==
  /\ Goto(t, "f_lock", "f_seek")
  /\ AcquireLock(t)
  /\ UNCHANGED <<bitmap, store, cursor, loc, claims, read>>

(* Mutant of FreeSeek: off by one.                                         *)
FreeSeekNext(t) == Seek(t, "f_seek", "f_clear", Bit(loc[t].slot + 1))

FreeSeek(t) == Seek(t, "f_seek", "f_clear", Bit(loc[t].slot))

Clear(t) ==
  /\ Goto(t, "f_clear", "f_unlock")
  /\ PutByte(t, 0)
  /\ loc' = [loc EXCEPT ![t] = NoLocal]
  /\ UNCHANGED <<lock, claims, read>>

FreeUnlock(t) ==
  /\ Goto(t, "f_unlock", "idle")
  /\ ReleaseLock(t)
  /\ UNCHANGED <<bitmap, store, cursor, loc, claims, read>>

(* A process is killed: its threads stop where they are, the kernel drops  *)
(* its lock, and the slots it had been given are never freed.              *)
Crash(c) ==
  LET dead == {t \in Thread : CursorOf[t] = c}
  IN /\ \E t \in dead : pc[t] # "idle"
     /\ pc' = [t \in Thread |-> IF t \in dead THEN "idle" ELSE pc[t]]
     /\ loc' = [t \in Thread |-> IF t \in dead THEN NoLocal ELSE loc[t]]
     /\ claims' = {k \in claims : k.holder \notin dead}
     /\ lock' = IF lock \in dead THEN Nil ELSE lock
     /\ UNCHANGED <<bitmap, store, cursor, read>>

Next ==
  \/ \E t \in Thread :
       \/ \E d \in Data : CallAlloc(t, d)
       \/ AllocLock(t) \/ AllocSeek(t) \/ Scan(t) \/ SeekBit(t) \/ Mark(t)
       \/ AllocUnlock(t) \/ SeekSlot(t) \/ Write(t)
       \/ \E c \in claims :
            \/ \E u \in Thread \ {t} : HandOver(t, u, c)
            \/ CallRead(t, c)
            \/ CallFree(t, c)
       \/ ReadSeek(t) \/ Read(t)
       \/ FreeLock(t) \/ FreeSeek(t) \/ Clear(t) \/ FreeUnlock(t)
  \/ \E c \in Cursor : Crash(c)

Spec == Init /\ [][Next]_vars
-----------------------------------------------------------------------------
(* Bitmap, slots, positions and locals keep their ranges.                  *)
TypeOK ==
  /\ bitmap \in [Slot -> {0, 1}]
  /\ store \in [Slot -> Data \cup {Junk}]
  /\ lock \in Thread \cup {Nil}
  /\ cursor \in [Cursor -> Position]
  /\ pc \in [Thread -> Locked \cup Unlocked]
  /\ loc \in [Thread -> [slot : Slot, data : Data \cup {Junk}]]
  /\ claims \subseteq Claim
  /\ read \in [Thread -> [want : Data \cup {Junk}, got : Data \cup {Junk}]]

(* No slot is given out twice: two claims never share a slot, and a slot   *)
(* under a claim is marked as taken in the bitmap, however the allocations *)
(* and frees of workers and daemons interleave and whoever is killed.      *)
ExclusiveSlots ==
  /\ \A c, k \in claims : c.slot = k.slot => c = k
  /\ \A c \in claims : bitmap[c.slot] = 1

(* DMASimulator.copy_buffer and bp_read rely on it: whoever was handed a   *)
(* slot finds in it the data that was put there for it.                    *)
ReadsBack == \A t \in Thread : read[t].got = read[t].want

(* No two threads work with the same mmap object.                          *)
PrivateCursors == \A t, u \in Thread : CursorOf[t] = CursorOf[u] => t = u
=============================================================================
