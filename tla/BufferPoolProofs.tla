-------------------------- MODULE BufferPoolProofs --------------------------
(***************************************************************************)
(* For any number of threads and slots, when no two threads share an mmap  *)
(* object (PrivateCursors): no slot is given out twice, and every read     *)
(* finds what was written.  MCPoolShared shows that the assumption cannot  *)
(* be dropped.                                                             *)
(***************************************************************************)
EXTENDS BufferPool, TLAPS

Allocating == {"lock", "seek0", "scan", "seek_bit", "mark", "unlock", "seek_slot", "write"}

(* Where a thread has a slot of its own that is not under a claim.         *)
Owning == {"unlock", "seek_slot", "write", "f_lock", "f_seek", "f_clear"}

(* The holder of the lock is exactly the thread between lock and unlock.   *)
Exclusion == \A t \in Thread : lock = t <=> pc[t] \in Locked

(* After its seek a thread finds its position where it left it.            *)
Positions ==
  \A t \in Thread :
    /\ pc[t] = "scan" => At(t) = Bit(0)
    /\ pc[t] \in {"mark", "f_clear"} => At(t) = Bit(loc[t].slot)
    /\ pc[t] \in {"write", "r_read"} => At(t) = Start(loc[t].slot)

(* A caller of alloc has data to write; between calls there are no locals. *)
Arguments ==
  \A t \in Thread : /\ pc[t] \in Allocating => loc[t].data \in Data
                    /\ pc[t] \in {"idle", "f_unlock"} => loc[t] = NoLocal

(* The slot that the scan found is still free when its byte is set.        *)
Chosen == \A t \in Thread : pc[t] \in {"seek_bit", "mark"} => bitmap[loc[t].slot] = 0

(* A slot in the hands of one thread is taken, and nobody else has it.     *)
Owned ==
  \A t \in Thread : pc[t] \in Owning =>
    /\ bitmap[loc[t].slot] = 1
    /\ \A c \in claims : c.slot # loc[t].slot
    /\ \A u \in Thread \ {t} : pc[u] \in Owning => loc[u].slot # loc[t].slot

(* A thread that reads keeps its claim.                                    *)
Reading ==
  \A t \in Thread : pc[t] \in {"r_seek", "r_read"} =>
    [holder |-> t, slot |-> loc[t].slot, data |-> loc[t].data] \in claims

(* A claimed slot holds the data of the claim.                             *)
Stored == \A c \in claims : store[c.slot] = c.data

IInv == /\ TypeOK /\ Exclusion /\ Positions /\ Arguments /\ Chosen /\ Owned
        /\ ExclusiveSlots /\ Reading /\ Stored /\ ReadsBack
-----------------------------------------------------------------------------
LEMMA InitInv == Init => IInv
BY PoolAssumption
DEF Init, IInv, TypeOK, Slot, Position, Bit, Locked, Unlocked, NoLocal, Exclusion, Positions,
    Arguments, Allocating, Chosen, Owned, Owning, ExclusiveSlots, Reading, Stored, ReadsBack

LEMMA PositionType ==
  ASSUME NEW s \in Slot
  PROVE  0 \in Slot /\ Bit(s) \in Position /\ Start(s) \in Position /\ Behind(s) \in Position
BY PoolAssumption DEF Slot, Position, Bit, Start, Behind

LEMMA MoveType ==
  ASSUME cursor \in [Cursor -> Position], NEW t \in Thread, NEW p \in Position, MoveTo(t, p)
  PROVE  cursor' \in [Cursor -> Position]
BY PoolAssumption DEF MoveTo

LEMMA CallAllocInv ==
  ASSUME PrivateCursors, IInv, NEW t \in Thread, NEW d \in Data, CallAlloc(t, d)
  PROVE  IInv'
<1>1. TypeOK'
  BY PoolAssumption
  DEF IInv, CallAlloc, Goto, TypeOK, Claim, Position, Bit, Start, Behind, Locked,
      Unlocked, NoLocal, Slot, At, Positions, Arguments, Allocating
<1>2. Exclusion'
  BY PoolAssumption DEF IInv, CallAlloc, Goto, TypeOK, Exclusion, Locked
<1>3. Positions'
  BY PoolAssumption DEF IInv, CallAlloc, Goto, TypeOK, Positions, At, PrivateCursors
<1>4. Arguments'
  BY PoolAssumption DEF IInv, CallAlloc, Goto, TypeOK, Arguments, Allocating, NoLocal
<1>5. Chosen'
  BY PoolAssumption
  DEF IInv, CallAlloc, Goto, TypeOK, Chosen, Exclusion, Locked, Positions, At, Bit,
      Start
<1>6. Owned'
  BY PoolAssumption
  DEF IInv, CallAlloc, Goto, TypeOK, Owned, Owning, Exclusion, Locked, Chosen,
      Positions, At, Bit, Start, ExclusiveSlots, Claim
<1>7. ExclusiveSlots'
  BY PoolAssumption
  DEF IInv, CallAlloc, Goto, TypeOK, ExclusiveSlots, Owned, Owning, Positions, At, Bit,
      Start, Claim, Exclusion, Locked, Chosen
<1>8. Reading'
  BY PoolAssumption DEF IInv, CallAlloc, Goto, TypeOK, Reading, Claim
<1>9. Stored'
  BY PoolAssumption
  DEF IInv, CallAlloc, Goto, TypeOK, Stored, Positions, At, Bit, Start, Owned, Owning,
      Claim
<1>10. ReadsBack'
  BY PoolAssumption
  DEF IInv, CallAlloc, Goto, TypeOK, ReadsBack, Reading, Stored, Positions, At, Start
<1> QED  BY <1>1, <1>2, <1>3, <1>4, <1>5, <1>6, <1>7, <1>8, <1>9, <1>10 DEF IInv

LEMMA AllocLockInv ==
  ASSUME PrivateCursors, IInv, NEW t \in Thread, AllocLock(t)
  PROVE  IInv'
<1>1. TypeOK'
  BY PoolAssumption
  DEF IInv, AllocLock, Goto, AcquireLock, TypeOK, Claim, Position, Bit, Start, Behind,
      Locked, Unlocked, NoLocal, Slot, At, Positions, Arguments, Allocating
<1>2. Exclusion'
  BY PoolAssumption DEF IInv, AllocLock, Goto, AcquireLock, TypeOK, Exclusion, Locked
<1>3. Positions'
  BY PoolAssumption
  DEF IInv, AllocLock, Goto, AcquireLock, TypeOK, Positions, At, PrivateCursors
<1>4. Arguments'
  BY PoolAssumption
  DEF IInv, AllocLock, Goto, AcquireLock, TypeOK, Arguments, Allocating, NoLocal
<1>5. Chosen'
  BY PoolAssumption
  DEF IInv, AllocLock, Goto, AcquireLock, TypeOK, Chosen, Exclusion, Locked, Positions,
      At, Bit, Start
<1>6. Owned'
  BY PoolAssumption
  DEF IInv, AllocLock, Goto, AcquireLock, TypeOK, Owned, Owning, Exclusion, Locked,
      Chosen, Positions, At, Bit, Start, ExclusiveSlots, Claim
<1>7. ExclusiveSlots'
  BY PoolAssumption
  DEF IInv, AllocLock, Goto, AcquireLock, TypeOK, ExclusiveSlots, Owned, Owning,
      Positions, At, Bit, Start, Claim, Exclusion, Locked, Chosen
<1>8. Reading'
  BY PoolAssumption DEF IInv, AllocLock, Goto, AcquireLock, TypeOK, Reading, Claim
<1>9. Stored'
  BY PoolAssumption
  DEF IInv, AllocLock, Goto, AcquireLock, TypeOK, Stored, Positions, At, Bit, Start,
      Owned, Owning, Claim
<1>10. ReadsBack'
  BY PoolAssumption
  DEF IInv, AllocLock, Goto, AcquireLock, TypeOK, ReadsBack, Reading, Stored, Positions,
      At, Start
<1> QED  BY <1>1, <1>2, <1>3, <1>4, <1>5, <1>6, <1>7, <1>8, <1>9, <1>10 DEF IInv

LEMMA AllocSeekInv ==
  ASSUME PrivateCursors, IInv, NEW t \in Thread, AllocSeek(t)
  PROVE  IInv'
<1>1. TypeOK'
  BY PositionType, PoolAssumption
  DEF IInv, TypeOK, AllocSeek, Seek, Goto, MoveTo, Locked, Unlocked, Slot
<1>2. Exclusion'
  BY PoolAssumption DEF IInv, AllocSeek, Goto, Seek, MoveTo, TypeOK, Exclusion, Locked
<1>3. Positions'
  BY PoolAssumption
  DEF IInv, AllocSeek, Goto, Seek, MoveTo, TypeOK, Positions, At, PrivateCursors
<1>4. Arguments'
  BY PoolAssumption
  DEF IInv, AllocSeek, Goto, Seek, MoveTo, TypeOK, Arguments, Allocating, NoLocal
<1>5. Chosen'
  BY PoolAssumption
  DEF IInv, AllocSeek, Goto, Seek, MoveTo, TypeOK, Chosen, Exclusion, Locked, Positions,
      At, Bit, Start
<1>6. Owned'
  BY PoolAssumption
  DEF IInv, AllocSeek, Goto, Seek, MoveTo, TypeOK, Owned, Owning, Exclusion, Locked,
      Chosen, Positions, At, Bit, Start, ExclusiveSlots, Claim
<1>7. ExclusiveSlots'
  BY PoolAssumption
  DEF IInv, AllocSeek, Goto, Seek, MoveTo, TypeOK, ExclusiveSlots, Owned, Owning,
      Positions, At, Bit, Start, Claim, Exclusion, Locked, Chosen
<1>8. Reading'
  BY PoolAssumption DEF IInv, AllocSeek, Goto, Seek, MoveTo, TypeOK, Reading, Claim
<1>9. Stored'
  BY PoolAssumption
  DEF IInv, AllocSeek, Goto, Seek, MoveTo, TypeOK, Stored, Positions, At, Bit, Start,
      Owned, Owning, Claim
<1>10. ReadsBack'
  BY PoolAssumption
  DEF IInv, AllocSeek, Goto, Seek, MoveTo, TypeOK, ReadsBack, Reading, Stored,
      Positions, At, Start
<1> QED  BY <1>1, <1>2, <1>3, <1>4, <1>5, <1>6, <1>7, <1>8, <1>9, <1>10 DEF IInv

LEMMA ScanInv ==
  ASSUME PrivateCursors, IInv, NEW t \in Thread, Scan(t)
  PROVE  IInv'
<1>a. /\ pc[t] = "scan"
      /\ UNCHANGED <<bitmap, store, lock, claims, read>>
      /\ \/ \E s \in Slot : /\ bitmap[s] = 0
                            /\ pc' = [pc EXCEPT ![t] = "seek_bit"]
                            /\ loc' = [loc EXCEPT ![t].slot = s]
         \/ /\ pc' = [pc EXCEPT ![t] = "f_unlock"]
            /\ loc' = [loc EXCEPT ![t] = NoLocal]
  BY DEF IInv, Positions, Scan, Goto, FirstClear
<1>b. /\ cursor' \in [Cursor -> Position]
      /\ \A u \in Thread \ {t} : At(u)' = At(u)
  BY PositionType, MoveType, PoolAssumption
  DEF IInv, TypeOK, Slot, Scan, MoveTo, At, PrivateCursors
<1>1. TypeOK'
  <2>1. loc' \in [Thread -> [slot : Slot, data : Data \cup {Junk}]]
    <3>1. CASE loc' = [loc EXCEPT ![t] = NoLocal]
      BY <3>1, PositionType, PoolAssumption DEF IInv, TypeOK, NoLocal, Slot
    <3>2. CASE \E s \in Slot : loc' = [loc EXCEPT ![t].slot = s]
      BY <3>2 DEF IInv, TypeOK
    <3> QED  BY <1>a, <3>1, <3>2
  <2> QED  BY <1>a, <1>b, <2>1 DEF IInv, TypeOK, Locked, Unlocked
<1>2. Exclusion'
  BY PoolAssumption, <1>a, <1>b DEF IInv, TypeOK, Exclusion, Locked
<1>3. Positions'
  BY PoolAssumption, <1>a, <1>b, SMTT(30) DEF IInv, TypeOK, Positions, At, PrivateCursors
<1>4. Arguments'
  BY PoolAssumption, <1>a, <1>b, SMTT(30) DEF IInv, TypeOK, Arguments, Allocating, NoLocal
<1>5. Chosen'
  BY PoolAssumption, <1>a, <1>b, SMTT(30)
  DEF IInv, TypeOK, Chosen, Exclusion, Locked, Positions, At, Bit, Start
<1>6. Owned'
  <2>1. \A v \in Thread : pc'[v] \in Owning => v # t /\ pc[v] \in Owning /\ loc'[v] = loc[v]
    BY <1>a DEF IInv, TypeOK, Owning
  <2> QED  BY <1>a, <2>1 DEF IInv, Owned
<1>7. ExclusiveSlots'
  BY PoolAssumption, <1>a, <1>b
  DEF IInv, TypeOK, ExclusiveSlots, Owned, Owning, Positions, At, Bit, Start, Claim,
      Exclusion, Locked, Chosen
<1>8. Reading'
  BY PoolAssumption, <1>a, <1>b DEF IInv, TypeOK, Reading, Claim
<1>9. Stored'
  BY PoolAssumption, <1>a, <1>b
  DEF IInv, TypeOK, Stored, Positions, At, Bit, Start, Owned, Owning, Claim
<1>10. ReadsBack'
  BY PoolAssumption, <1>a, <1>b
  DEF IInv, TypeOK, ReadsBack, Reading, Stored, Positions, At, Start
<1> QED  BY <1>1, <1>2, <1>3, <1>4, <1>5, <1>6, <1>7, <1>8, <1>9, <1>10 DEF IInv

LEMMA SeekBitInv ==
  ASSUME PrivateCursors, IInv, NEW t \in Thread, SeekBit(t)
  PROVE  IInv'
<1>1. TypeOK'
  BY PoolAssumption
  DEF IInv, SeekBit, Goto, Seek, MoveTo, TypeOK, Claim, Position, Bit, Start, Behind,
      Locked, Unlocked, NoLocal, Slot, At, Positions, Arguments, Allocating
<1>2. Exclusion'
  BY PoolAssumption DEF IInv, SeekBit, Goto, Seek, MoveTo, TypeOK, Exclusion, Locked
<1>3. Positions'
  BY PoolAssumption
  DEF IInv, SeekBit, Goto, Seek, MoveTo, TypeOK, Positions, At, PrivateCursors
<1>4. Arguments'
  BY PoolAssumption
  DEF IInv, SeekBit, Goto, Seek, MoveTo, TypeOK, Arguments, Allocating, NoLocal
<1>5. Chosen'
  BY PoolAssumption
  DEF IInv, SeekBit, Goto, Seek, MoveTo, TypeOK, Chosen, Exclusion, Locked, Positions,
      At, Bit, Start
<1>6. Owned'
  BY PoolAssumption
  DEF IInv, SeekBit, Goto, Seek, MoveTo, TypeOK, Owned, Owning, Exclusion, Locked,
      Chosen, Positions, At, Bit, Start, ExclusiveSlots, Claim
<1>7. ExclusiveSlots'
  BY PoolAssumption
  DEF IInv, SeekBit, Goto, Seek, MoveTo, TypeOK, ExclusiveSlots, Owned, Owning,
      Positions, At, Bit, Start, Claim, Exclusion, Locked, Chosen
<1>8. Reading'
  BY PoolAssumption DEF IInv, SeekBit, Goto, Seek, MoveTo, TypeOK, Reading, Claim
<1>9. Stored'
  BY PoolAssumption
  DEF IInv, SeekBit, Goto, Seek, MoveTo, TypeOK, Stored, Positions, At, Bit, Start,
      Owned, Owning, Claim
<1>10. ReadsBack'
  BY PoolAssumption
  DEF IInv, SeekBit, Goto, Seek, MoveTo, TypeOK, ReadsBack, Reading, Stored, Positions,
      At, Start
<1> QED  BY <1>1, <1>2, <1>3, <1>4, <1>5, <1>6, <1>7, <1>8, <1>9, <1>10 DEF IInv

LEMMA MarkInv ==
  ASSUME PrivateCursors, IInv, NEW t \in Thread, Mark(t)
  PROVE  IInv'
<1>a. /\ At(t).area = "bit" /\ At(t).slot = loc[t].slot /\ loc[t].slot \in Slot
      /\ bitmap' = [bitmap EXCEPT ![loc[t].slot] = 1]
      /\ store' = store
  <2>1. loc[t].slot \in Slot
    BY DEF IInv, TypeOK
  <2>2. At(t) = Bit(loc[t].slot)
    BY DEF IInv, Positions, Mark, Goto
  <2>3. At(t).area = "bit" /\ At(t).slot = loc[t].slot
    BY <2>2 DEF Bit
  <2> QED  BY <2>1, <2>3 DEF Mark, PutByte
<1>b. /\ cursor' \in [Cursor -> Position]
      /\ \A u \in Thread \ {t} : At(u)' = At(u)
  <2>1. PICK p \in Position : MoveTo(t, p)
    <3>1. CASE loc[t].slot + 1 \in Slot
      BY <1>a, <3>1, PositionType DEF Mark, PutByte
    <3>2. CASE loc[t].slot + 1 \notin Slot
      BY <1>a, <3>2, PositionType DEF Mark, PutByte
    <3> QED  BY <3>1, <3>2
  <2> QED  BY <2>1, MoveType, PoolAssumption DEF IInv, TypeOK, MoveTo, At, PrivateCursors
<1>1. TypeOK'
  BY <1>a, <1>b DEF IInv, TypeOK, Mark, Goto, Locked, Unlocked
<1>2. Exclusion'
  BY PoolAssumption, <1>a, <1>b DEF IInv, Mark, Goto, TypeOK, Exclusion, Locked
<1>3. Positions'
  BY PoolAssumption, <1>a, <1>b
  DEF IInv, Mark, Goto, TypeOK, Positions, At, PrivateCursors
<1>4. Arguments'
  BY PoolAssumption, <1>a, <1>b
  DEF IInv, Mark, Goto, TypeOK, Arguments, Allocating, NoLocal
<1>5. Chosen'
  BY PoolAssumption, <1>a, <1>b
  DEF IInv, Mark, Goto, TypeOK, Chosen, Exclusion, Locked, Positions, At, Bit, Start
<1>6. Owned'
  BY PoolAssumption, <1>a, <1>b
  DEF IInv, Mark, Goto, TypeOK, Owned, Owning, Exclusion, Locked, Chosen, Positions, At,
      Bit, Start, ExclusiveSlots, Claim
<1>7. ExclusiveSlots'
  BY PoolAssumption, <1>a, <1>b
  DEF IInv, Mark, Goto, TypeOK, ExclusiveSlots, Owned, Owning, Positions, At, Bit,
      Start, Claim, Exclusion, Locked, Chosen
<1>8. Reading'
  BY PoolAssumption, <1>a, <1>b DEF IInv, Mark, Goto, TypeOK, Reading, Claim
<1>9. Stored'
  BY PoolAssumption, <1>a, <1>b
  DEF IInv, Mark, Goto, TypeOK, Stored, Positions, At, Bit, Start, Owned, Owning, Claim
<1>10. ReadsBack'
  BY PoolAssumption, <1>a, <1>b
  DEF IInv, Mark, Goto, TypeOK, ReadsBack, Reading, Stored, Positions, At, Start
<1> QED  BY <1>1, <1>2, <1>3, <1>4, <1>5, <1>6, <1>7, <1>8, <1>9, <1>10 DEF IInv

LEMMA AllocUnlockInv ==
  ASSUME PrivateCursors, IInv, NEW t \in Thread, AllocUnlock(t)
  PROVE  IInv'
<1>1. TypeOK'
  BY PoolAssumption
  DEF IInv, AllocUnlock, Goto, ReleaseLock, TypeOK, Claim, Position, Bit, Start, Behind,
      Locked, Unlocked, NoLocal, Slot, At, Positions, Arguments, Allocating
<1>2. Exclusion'
  BY PoolAssumption DEF IInv, AllocUnlock, Goto, ReleaseLock, TypeOK, Exclusion, Locked
<1>3. Positions'
  BY PoolAssumption
  DEF IInv, AllocUnlock, Goto, ReleaseLock, TypeOK, Positions, At, PrivateCursors
<1>4. Arguments'
  BY PoolAssumption
  DEF IInv, AllocUnlock, Goto, ReleaseLock, TypeOK, Arguments, Allocating, NoLocal
<1>5. Chosen'
  BY PoolAssumption
  DEF IInv, AllocUnlock, Goto, ReleaseLock, TypeOK, Chosen, Exclusion, Locked,
      Positions, At, Bit, Start
<1>6. Owned'
  BY PoolAssumption
  DEF IInv, AllocUnlock, Goto, ReleaseLock, TypeOK, Owned, Owning, Exclusion, Locked,
      Chosen, Positions, At, Bit, Start, ExclusiveSlots, Claim
<1>7. ExclusiveSlots'
  BY PoolAssumption
  DEF IInv, AllocUnlock, Goto, ReleaseLock, TypeOK, ExclusiveSlots, Owned, Owning,
      Positions, At, Bit, Start, Claim, Exclusion, Locked, Chosen
<1>8. Reading'
  BY PoolAssumption DEF IInv, AllocUnlock, Goto, ReleaseLock, TypeOK, Reading, Claim
<1>9. Stored'
  BY PoolAssumption
  DEF IInv, AllocUnlock, Goto, ReleaseLock, TypeOK, Stored, Positions, At, Bit, Start,
      Owned, Owning, Claim
<1>10. ReadsBack'
  BY PoolAssumption
  DEF IInv, AllocUnlock, Goto, ReleaseLock, TypeOK, ReadsBack, Reading, Stored,
      Positions, At, Start
<1> QED  BY <1>1, <1>2, <1>3, <1>4, <1>5, <1>6, <1>7, <1>8, <1>9, <1>10 DEF IInv

LEMMA SeekSlotInv ==
  ASSUME PrivateCursors, IInv, NEW t \in Thread, SeekSlot(t)
  PROVE  IInv'
<1>1. TypeOK'
  BY PoolAssumption
  DEF IInv, SeekSlot, Goto, Seek, MoveTo, TypeOK, Claim, Position, Bit, Start, Behind,
      Locked, Unlocked, NoLocal, Slot, At, Positions, Arguments, Allocating
<1>2. Exclusion'
  BY PoolAssumption DEF IInv, SeekSlot, Goto, Seek, MoveTo, TypeOK, Exclusion, Locked
<1>3. Positions'
  BY PoolAssumption
  DEF IInv, SeekSlot, Goto, Seek, MoveTo, TypeOK, Positions, At, PrivateCursors
<1>4. Arguments'
  BY PoolAssumption
  DEF IInv, SeekSlot, Goto, Seek, MoveTo, TypeOK, Arguments, Allocating, NoLocal
<1>5. Chosen'
  BY PoolAssumption
  DEF IInv, SeekSlot, Goto, Seek, MoveTo, TypeOK, Chosen, Exclusion, Locked, Positions,
      At, Bit, Start
<1>6. Owned'
  BY PoolAssumption
  DEF IInv, SeekSlot, Goto, Seek, MoveTo, TypeOK, Owned, Owning, Exclusion, Locked,
      Chosen, Positions, At, Bit, Start, ExclusiveSlots, Claim
<1>7. ExclusiveSlots'
  BY PoolAssumption
  DEF IInv, SeekSlot, Goto, Seek, MoveTo, TypeOK, ExclusiveSlots, Owned, Owning,
      Positions, At, Bit, Start, Claim, Exclusion, Locked, Chosen
<1>8. Reading'
  BY PoolAssumption DEF IInv, SeekSlot, Goto, Seek, MoveTo, TypeOK, Reading, Claim
<1>9. Stored'
  BY PoolAssumption
  DEF IInv, SeekSlot, Goto, Seek, MoveTo, TypeOK, Stored, Positions, At, Bit, Start,
      Owned, Owning, Claim
<1>10. ReadsBack'
  BY PoolAssumption
  DEF IInv, SeekSlot, Goto, Seek, MoveTo, TypeOK, ReadsBack, Reading, Stored, Positions,
      At, Start
<1> QED  BY <1>1, <1>2, <1>3, <1>4, <1>5, <1>6, <1>7, <1>8, <1>9, <1>10 DEF IInv

LEMMA WriteInv ==
  ASSUME PrivateCursors, IInv, NEW t \in Thread, Write(t)
  PROVE  IInv'
<1>a. /\ At(t).area = "slot" /\ At(t).slot = loc[t].slot
      /\ loc[t].slot \in Slot /\ loc[t].data \in Data
      /\ store' = [store EXCEPT ![loc[t].slot] = loc[t].data]
      /\ bitmap' = bitmap
  <2>1. loc[t].slot \in Slot
    BY DEF IInv, TypeOK
  <2>2. At(t) = Start(loc[t].slot) /\ loc[t].data \in Data
    BY DEF IInv, Positions, Arguments, Allocating, Write, Goto
  <2>3. At(t).area = "slot" /\ At(t).slot = loc[t].slot
    BY <2>2 DEF Start
  <2> QED  BY <2>1, <2>2, <2>3 DEF Write, PutData
<1>b. /\ cursor' \in [Cursor -> Position]
      /\ \A u \in Thread \ {t} : At(u)' = At(u)
  <2>1. PICK p \in Position : MoveTo(t, p)
    BY <1>a, PositionType DEF Write, PutData
  <2> QED  BY <2>1, MoveType, PoolAssumption DEF IInv, TypeOK, MoveTo, At, PrivateCursors
<1>1. TypeOK'
  BY <1>a, <1>b, PositionType DEF IInv, TypeOK, Write, Goto, Claim, NoLocal, Locked, Unlocked
<1>2. Exclusion'
  BY PoolAssumption, <1>a, <1>b DEF IInv, Write, Goto, TypeOK, Exclusion, Locked
<1>3. Positions'
  BY PoolAssumption, <1>a, <1>b
  DEF IInv, Write, Goto, TypeOK, Positions, At, PrivateCursors
<1>4. Arguments'
  BY PoolAssumption, <1>a, <1>b
  DEF IInv, Write, Goto, TypeOK, Arguments, Allocating, NoLocal
<1>5. Chosen'
  BY PoolAssumption, <1>a, <1>b
  DEF IInv, Write, Goto, TypeOK, Chosen, Exclusion, Locked, Positions, At, Bit, Start
<1>6. Owned'
  BY PoolAssumption, <1>a, <1>b
  DEF IInv, Write, Goto, TypeOK, Owned, Owning, Exclusion, Locked, Chosen, Positions,
      At, Bit, Start, ExclusiveSlots, Claim
<1>7. ExclusiveSlots'
  BY PoolAssumption, <1>a, <1>b
  DEF IInv, Write, Goto, TypeOK, ExclusiveSlots, Owned, Owning, Positions, At, Bit,
      Start, Claim, Exclusion, Locked, Chosen
<1>8. Reading'
  BY PoolAssumption, <1>a, <1>b DEF IInv, Write, Goto, TypeOK, Reading, Claim
<1>9. Stored'
  BY PoolAssumption, <1>a, <1>b
  DEF IInv, Write, Goto, TypeOK, Stored, Positions, At, Bit, Start, Owned, Owning, Claim
<1>10. ReadsBack'
  BY PoolAssumption, <1>a, <1>b
  DEF IInv, Write, Goto, TypeOK, ReadsBack, Reading, Stored, Positions, At, Start
<1> QED  BY <1>1, <1>2, <1>3, <1>4, <1>5, <1>6, <1>7, <1>8, <1>9, <1>10 DEF IInv

LEMMA HandOverInv ==
  ASSUME PrivateCursors, IInv, NEW t \in Thread, NEW u \in Thread \ {t}, NEW c \in claims,
         HandOver(t, u, c)
  PROVE  IInv'
<1>1. TypeOK'
  BY PoolAssumption
  DEF IInv, HandOver, Goto, TypeOK, Claim, Position, Bit, Start, Behind, Locked,
      Unlocked, NoLocal, Slot, At, Positions, Arguments, Allocating
<1>2. Exclusion'
  BY PoolAssumption DEF IInv, HandOver, Goto, TypeOK, Exclusion, Locked
<1>3. Positions'
  BY PoolAssumption DEF IInv, HandOver, Goto, TypeOK, Positions, At, PrivateCursors
<1>4. Arguments'
  BY PoolAssumption DEF IInv, HandOver, Goto, TypeOK, Arguments, Allocating, NoLocal
<1>5. Chosen'
  BY PoolAssumption
  DEF IInv, HandOver, Goto, TypeOK, Chosen, Exclusion, Locked, Positions, At, Bit, Start
<1>6. Owned'
  BY PoolAssumption
  DEF IInv, HandOver, Goto, TypeOK, Owned, Owning, Exclusion, Locked, Chosen, Positions,
      At, Bit, Start, ExclusiveSlots, Claim
<1>7. ExclusiveSlots'
  <2>1. c \in Claim /\ [c EXCEPT !.holder = u].slot = c.slot
    BY DEF IInv, TypeOK, Claim
  <2>2. \A k \in claims' : \E j \in claims : /\ k.slot = j.slot
                                             /\ k = IF j = c THEN [c EXCEPT !.holder = u] ELSE j
    BY <2>1 DEF HandOver
  <2> QED  BY <2>2 DEF IInv, ExclusiveSlots, HandOver
<1>8. Reading'
  BY PoolAssumption DEF IInv, HandOver, Goto, TypeOK, Reading, Claim
<1>9. Stored'
  <2>1. c \in Claim /\ [c EXCEPT !.holder = u] = [holder |-> u, slot |-> c.slot, data |-> c.data]
    BY DEF IInv, TypeOK, Claim
  <2> QED  BY <2>1 DEF IInv, Stored, HandOver
<1>10. ReadsBack'
  BY PoolAssumption
  DEF IInv, HandOver, Goto, TypeOK, ReadsBack, Reading, Stored, Positions, At, Start
<1> QED  BY <1>1, <1>2, <1>3, <1>4, <1>5, <1>6, <1>7, <1>8, <1>9, <1>10 DEF IInv

LEMMA CallReadInv ==
  ASSUME PrivateCursors, IInv, NEW t \in Thread, NEW c \in claims, CallRead(t, c)
  PROVE  IInv'
<1>1. TypeOK'
  BY PoolAssumption
  DEF IInv, CallRead, Goto, TypeOK, Claim, Position, Bit, Start, Behind, Locked,
      Unlocked, NoLocal, Slot, At, Positions, Arguments, Allocating
<1>2. Exclusion'
  BY PoolAssumption DEF IInv, CallRead, Goto, TypeOK, Exclusion, Locked
<1>3. Positions'
  BY PoolAssumption DEF IInv, CallRead, Goto, TypeOK, Positions, At, PrivateCursors
<1>4. Arguments'
  BY PoolAssumption DEF IInv, CallRead, Goto, TypeOK, Arguments, Allocating, NoLocal
<1>5. Chosen'
  BY PoolAssumption
  DEF IInv, CallRead, Goto, TypeOK, Chosen, Exclusion, Locked, Positions, At, Bit, Start
<1>6. Owned'
  BY PoolAssumption
  DEF IInv, CallRead, Goto, TypeOK, Owned, Owning, Exclusion, Locked, Chosen, Positions,
      At, Bit, Start, ExclusiveSlots, Claim
<1>7. ExclusiveSlots'
  BY PoolAssumption
  DEF IInv, CallRead, Goto, TypeOK, ExclusiveSlots, Owned, Owning, Positions, At, Bit,
      Start, Claim, Exclusion, Locked, Chosen
<1>8. Reading'
  BY PoolAssumption DEF IInv, CallRead, Goto, TypeOK, Reading, Claim
<1>9. Stored'
  BY PoolAssumption
  DEF IInv, CallRead, Goto, TypeOK, Stored, Positions, At, Bit, Start, Owned, Owning,
      Claim
<1>10. ReadsBack'
  BY PoolAssumption
  DEF IInv, CallRead, Goto, TypeOK, ReadsBack, Reading, Stored, Positions, At, Start
<1> QED  BY <1>1, <1>2, <1>3, <1>4, <1>5, <1>6, <1>7, <1>8, <1>9, <1>10 DEF IInv

LEMMA ReadSeekInv ==
  ASSUME PrivateCursors, IInv, NEW t \in Thread, ReadSeek(t)
  PROVE  IInv'
<1>1. TypeOK'
  BY PoolAssumption
  DEF IInv, ReadSeek, Goto, Seek, MoveTo, TypeOK, Claim, Position, Bit, Start, Behind,
      Locked, Unlocked, NoLocal, Slot, At, Positions, Arguments, Allocating
<1>2. Exclusion'
  BY PoolAssumption DEF IInv, ReadSeek, Goto, Seek, MoveTo, TypeOK, Exclusion, Locked
<1>3. Positions'
  BY PoolAssumption
  DEF IInv, ReadSeek, Goto, Seek, MoveTo, TypeOK, Positions, At, PrivateCursors
<1>4. Arguments'
  BY PoolAssumption
  DEF IInv, ReadSeek, Goto, Seek, MoveTo, TypeOK, Arguments, Allocating, NoLocal
<1>5. Chosen'
  BY PoolAssumption
  DEF IInv, ReadSeek, Goto, Seek, MoveTo, TypeOK, Chosen, Exclusion, Locked, Positions,
      At, Bit, Start
<1>6. Owned'
  BY PoolAssumption
  DEF IInv, ReadSeek, Goto, Seek, MoveTo, TypeOK, Owned, Owning, Exclusion, Locked,
      Chosen, Positions, At, Bit, Start, ExclusiveSlots, Claim
<1>7. ExclusiveSlots'
  BY PoolAssumption
  DEF IInv, ReadSeek, Goto, Seek, MoveTo, TypeOK, ExclusiveSlots, Owned, Owning,
      Positions, At, Bit, Start, Claim, Exclusion, Locked, Chosen
<1>8. Reading'
  BY PoolAssumption DEF IInv, ReadSeek, Goto, Seek, MoveTo, TypeOK, Reading, Claim
<1>9. Stored'
  BY PoolAssumption
  DEF IInv, ReadSeek, Goto, Seek, MoveTo, TypeOK, Stored, Positions, At, Bit, Start,
      Owned, Owning, Claim
<1>10. ReadsBack'
  BY PoolAssumption
  DEF IInv, ReadSeek, Goto, Seek, MoveTo, TypeOK, ReadsBack, Reading, Stored, Positions,
      At, Start
<1> QED  BY <1>1, <1>2, <1>3, <1>4, <1>5, <1>6, <1>7, <1>8, <1>9, <1>10 DEF IInv

LEMMA ReadInv ==
  ASSUME PrivateCursors, IInv, NEW t \in Thread, Read(t)
  PROVE  IInv'
<1>a. /\ At(t).area = "slot" /\ At(t).slot = loc[t].slot /\ loc[t].slot \in Slot
      /\ read' = [read EXCEPT ![t] = [want |-> loc[t].data, got |-> store[loc[t].slot]]]
  <2>1. loc[t].slot \in Slot
    BY DEF IInv, TypeOK
  <2>2. At(t) = Start(loc[t].slot)
    BY DEF IInv, Positions, Read, Goto
  <2>3. At(t).area = "slot" /\ At(t).slot = loc[t].slot
    BY <2>2 DEF Start
  <2> QED  BY <2>1, <2>3 DEF Read
<1>b. /\ cursor' \in [Cursor -> Position]
      /\ \A u \in Thread \ {t} : At(u)' = At(u)
  <2>1. PICK p \in Position : MoveTo(t, p)
    BY <1>a, PositionType DEF Read
  <2> QED  BY <2>1, MoveType, PoolAssumption DEF IInv, TypeOK, MoveTo, At, PrivateCursors
<1>1. TypeOK'
  BY <1>a, <1>b, PositionType DEF IInv, TypeOK, Read, Goto, NoLocal, Locked, Unlocked
<1>2. Exclusion'
  BY PoolAssumption, <1>a, <1>b DEF IInv, Read, Goto, TypeOK, Exclusion, Locked
<1>3. Positions'
  BY PoolAssumption, <1>a, <1>b
  DEF IInv, Read, Goto, TypeOK, Positions, At, PrivateCursors
<1>4. Arguments'
  BY PoolAssumption, <1>a, <1>b
  DEF IInv, Read, Goto, TypeOK, Arguments, Allocating, NoLocal
<1>5. Chosen'
  BY PoolAssumption, <1>a, <1>b
  DEF IInv, Read, Goto, TypeOK, Chosen, Exclusion, Locked, Positions, At, Bit, Start
<1>6. Owned'
  BY PoolAssumption, <1>a, <1>b
  DEF IInv, Read, Goto, TypeOK, Owned, Owning, Exclusion, Locked, Chosen, Positions, At,
      Bit, Start, ExclusiveSlots, Claim
<1>7. ExclusiveSlots'
  BY PoolAssumption, <1>a, <1>b
  DEF IInv, Read, Goto, TypeOK, ExclusiveSlots, Owned, Owning, Positions, At, Bit,
      Start, Claim, Exclusion, Locked, Chosen
<1>8. Reading'
  BY PoolAssumption, <1>a, <1>b DEF IInv, Read, Goto, TypeOK, Reading, Claim
<1>9. Stored'
  BY PoolAssumption, <1>a, <1>b
  DEF IInv, Read, Goto, TypeOK, Stored, Positions, At, Bit, Start, Owned, Owning, Claim
<1>10. ReadsBack'
  <2>1. [holder |-> t, slot |-> loc[t].slot, data |-> loc[t].data] \in claims
    BY DEF IInv, Reading, Read, Goto
  <2>2. store[loc[t].slot] = loc[t].data
    BY <2>1 DEF IInv, Stored
  <2> QED  BY <1>a, <2>2 DEF IInv, TypeOK, ReadsBack
<1> QED  BY <1>1, <1>2, <1>3, <1>4, <1>5, <1>6, <1>7, <1>8, <1>9, <1>10 DEF IInv

LEMMA CallFreeInv ==
  ASSUME PrivateCursors, IInv, NEW t \in Thread, NEW c \in claims, CallFree(t, c)
  PROVE  IInv'
<1>1. TypeOK'
  <2>1. c.slot \in Slot
    BY DEF IInv, TypeOK, Claim
  <2>2. loc' \in [Thread -> [slot : Slot, data : Data \cup {Junk}]]
    BY <2>1 DEF IInv, TypeOK, CallFree
  <2> QED  BY <2>2 DEF IInv, TypeOK, CallFree, Goto, Locked, Unlocked
<1>2. Exclusion'
  BY PoolAssumption DEF IInv, CallFree, Goto, TypeOK, Exclusion, Locked
<1>3. Positions'
  BY PoolAssumption DEF IInv, CallFree, Goto, TypeOK, Positions, At, PrivateCursors
<1>4. Arguments'
  BY PoolAssumption DEF IInv, CallFree, Goto, TypeOK, Arguments, Allocating, NoLocal
<1>5. Chosen'
  BY PoolAssumption
  DEF IInv, CallFree, Goto, TypeOK, Chosen, Exclusion, Locked, Positions, At, Bit, Start
<1>6. Owned'
  BY PoolAssumption
  DEF IInv, CallFree, Goto, TypeOK, Owned, Owning, Exclusion, Locked, Chosen, Positions,
      At, Bit, Start, ExclusiveSlots, Claim
<1>7. ExclusiveSlots'
  BY PoolAssumption
  DEF IInv, CallFree, Goto, TypeOK, ExclusiveSlots, Owned, Owning, Positions, At, Bit,
      Start, Claim, Exclusion, Locked, Chosen
<1>8. Reading'
  BY PoolAssumption DEF IInv, CallFree, Goto, TypeOK, Reading, Claim
<1>9. Stored'
  BY PoolAssumption
  DEF IInv, CallFree, Goto, TypeOK, Stored, Positions, At, Bit, Start, Owned, Owning,
      Claim
<1>10. ReadsBack'
  BY PoolAssumption
  DEF IInv, CallFree, Goto, TypeOK, ReadsBack, Reading, Stored, Positions, At, Start
<1> QED  BY <1>1, <1>2, <1>3, <1>4, <1>5, <1>6, <1>7, <1>8, <1>9, <1>10 DEF IInv

LEMMA FreeLockInv ==
  ASSUME PrivateCursors, IInv, NEW t \in Thread, FreeLock(t)
  PROVE  IInv'
<1>1. TypeOK'
  BY PoolAssumption
  DEF IInv, FreeLock, Goto, AcquireLock, TypeOK, Claim, Position, Bit, Start, Behind,
      Locked, Unlocked, NoLocal, Slot, At, Positions, Arguments, Allocating
<1>2. Exclusion'
  BY PoolAssumption DEF IInv, FreeLock, Goto, AcquireLock, TypeOK, Exclusion, Locked
<1>3. Positions'
  BY PoolAssumption
  DEF IInv, FreeLock, Goto, AcquireLock, TypeOK, Positions, At, PrivateCursors
<1>4. Arguments'
  BY PoolAssumption
  DEF IInv, FreeLock, Goto, AcquireLock, TypeOK, Arguments, Allocating, NoLocal
<1>5. Chosen'
  BY PoolAssumption
  DEF IInv, FreeLock, Goto, AcquireLock, TypeOK, Chosen, Exclusion, Locked, Positions,
      At, Bit, Start
<1>6. Owned'
  BY PoolAssumption
  DEF IInv, FreeLock, Goto, AcquireLock, TypeOK, Owned, Owning, Exclusion, Locked,
      Chosen, Positions, At, Bit, Start, ExclusiveSlots, Claim
<1>7. ExclusiveSlots'
  BY PoolAssumption
  DEF IInv, FreeLock, Goto, AcquireLock, TypeOK, ExclusiveSlots, Owned, Owning,
      Positions, At, Bit, Start, Claim, Exclusion, Locked, Chosen
<1>8. Reading'
  BY PoolAssumption DEF IInv, FreeLock, Goto, AcquireLock, TypeOK, Reading, Claim
<1>9. Stored'
  BY PoolAssumption
  DEF IInv, FreeLock, Goto, AcquireLock, TypeOK, Stored, Positions, At, Bit, Start,
      Owned, Owning, Claim
<1>10. ReadsBack'
  BY PoolAssumption
  DEF IInv, FreeLock, Goto, AcquireLock, TypeOK, ReadsBack, Reading, Stored, Positions,
      At, Start
<1> QED  BY <1>1, <1>2, <1>3, <1>4, <1>5, <1>6, <1>7, <1>8, <1>9, <1>10 DEF IInv

LEMMA FreeSeekInv ==
  ASSUME PrivateCursors, IInv, NEW t \in Thread, FreeSeek(t)
  PROVE  IInv'
<1>1. TypeOK'
  BY PoolAssumption
  DEF IInv, FreeSeek, Goto, Seek, MoveTo, TypeOK, Claim, Position, Bit, Start, Behind,
      Locked, Unlocked, NoLocal, Slot, At, Positions, Arguments, Allocating
<1>2. Exclusion'
  BY PoolAssumption DEF IInv, FreeSeek, Goto, Seek, MoveTo, TypeOK, Exclusion, Locked
<1>3. Positions'
  BY PoolAssumption
  DEF IInv, FreeSeek, Goto, Seek, MoveTo, TypeOK, Positions, At, PrivateCursors
<1>4. Arguments'
  BY PoolAssumption
  DEF IInv, FreeSeek, Goto, Seek, MoveTo, TypeOK, Arguments, Allocating, NoLocal
<1>5. Chosen'
  BY PoolAssumption
  DEF IInv, FreeSeek, Goto, Seek, MoveTo, TypeOK, Chosen, Exclusion, Locked, Positions,
      At, Bit, Start
<1>6. Owned'
  BY PoolAssumption
  DEF IInv, FreeSeek, Goto, Seek, MoveTo, TypeOK, Owned, Owning, Exclusion, Locked,
      Chosen, Positions, At, Bit, Start, ExclusiveSlots, Claim
<1>7. ExclusiveSlots'
  BY PoolAssumption
  DEF IInv, FreeSeek, Goto, Seek, MoveTo, TypeOK, ExclusiveSlots, Owned, Owning,
      Positions, At, Bit, Start, Claim, Exclusion, Locked, Chosen
<1>8. Reading'
  BY PoolAssumption DEF IInv, FreeSeek, Goto, Seek, MoveTo, TypeOK, Reading, Claim
<1>9. Stored'
  BY PoolAssumption
  DEF IInv, FreeSeek, Goto, Seek, MoveTo, TypeOK, Stored, Positions, At, Bit, Start,
      Owned, Owning, Claim
<1>10. ReadsBack'
  BY PoolAssumption
  DEF IInv, FreeSeek, Goto, Seek, MoveTo, TypeOK, ReadsBack, Reading, Stored, Positions,
      At, Start
<1> QED  BY <1>1, <1>2, <1>3, <1>4, <1>5, <1>6, <1>7, <1>8, <1>9, <1>10 DEF IInv

LEMMA ClearInv ==
  ASSUME PrivateCursors, IInv, NEW t \in Thread, Clear(t)
  PROVE  IInv'
<1>a. /\ At(t).area = "bit" /\ At(t).slot = loc[t].slot /\ loc[t].slot \in Slot
      /\ bitmap' = [bitmap EXCEPT ![loc[t].slot] = 0]
      /\ store' = store
  <2>1. loc[t].slot \in Slot
    BY DEF IInv, TypeOK
  <2>2. At(t) = Bit(loc[t].slot)
    BY DEF IInv, Positions, Clear, Goto
  <2>3. At(t).area = "bit" /\ At(t).slot = loc[t].slot
    BY <2>2 DEF Bit
  <2> QED  BY <2>1, <2>3 DEF Clear, PutByte
<1>b. /\ cursor' \in [Cursor -> Position]
      /\ \A u \in Thread \ {t} : At(u)' = At(u)
  <2>1. PICK p \in Position : MoveTo(t, p)
    <3>1. CASE loc[t].slot + 1 \in Slot
      BY <1>a, <3>1, PositionType DEF Clear, PutByte
    <3>2. CASE loc[t].slot + 1 \notin Slot
      BY <1>a, <3>2, PositionType DEF Clear, PutByte
    <3> QED  BY <3>1, <3>2
  <2> QED  BY <2>1, MoveType, PoolAssumption DEF IInv, TypeOK, MoveTo, At, PrivateCursors
<1>1. TypeOK'
  BY <1>a, <1>b, PositionType DEF IInv, TypeOK, Clear, Goto, NoLocal, Locked, Unlocked
<1>2. Exclusion'
  BY PoolAssumption, <1>a, <1>b DEF IInv, Clear, Goto, TypeOK, Exclusion, Locked
<1>3. Positions'
  BY PoolAssumption, <1>a, <1>b
  DEF IInv, Clear, Goto, TypeOK, Positions, At, PrivateCursors
<1>4. Arguments'
  BY PoolAssumption, <1>a, <1>b
  DEF IInv, Clear, Goto, TypeOK, Arguments, Allocating, NoLocal
<1>5. Chosen'
  BY PoolAssumption, <1>a, <1>b
  DEF IInv, Clear, Goto, TypeOK, Chosen, Exclusion, Locked, Positions, At, Bit, Start
<1>6. Owned'
  BY PoolAssumption, <1>a, <1>b
  DEF IInv, Clear, Goto, TypeOK, Owned, Owning, Exclusion, Locked, Chosen, Positions,
      At, Bit, Start, ExclusiveSlots, Claim
<1>7. ExclusiveSlots'
  BY PoolAssumption, <1>a, <1>b
  DEF IInv, Clear, Goto, TypeOK, ExclusiveSlots, Owned, Owning, Positions, At, Bit,
      Start, Claim, Exclusion, Locked, Chosen
<1>8. Reading'
  BY PoolAssumption, <1>a, <1>b DEF IInv, Clear, Goto, TypeOK, Reading, Claim
<1>9. Stored'
  BY PoolAssumption, <1>a, <1>b
  DEF IInv, Clear, Goto, TypeOK, Stored, Positions, At, Bit, Start, Owned, Owning, Claim
<1>10. ReadsBack'
  BY PoolAssumption, <1>a, <1>b
  DEF IInv, Clear, Goto, TypeOK, ReadsBack, Reading, Stored, Positions, At, Start
<1> QED  BY <1>1, <1>2, <1>3, <1>4, <1>5, <1>6, <1>7, <1>8, <1>9, <1>10 DEF IInv

LEMMA FreeUnlockInv ==
  ASSUME PrivateCursors, IInv, NEW t \in Thread, FreeUnlock(t)
  PROVE  IInv'
<1>1. TypeOK'
  BY PoolAssumption
  DEF IInv, FreeUnlock, Goto, ReleaseLock, TypeOK, Claim, Position, Bit, Start, Behind,
      Locked, Unlocked, NoLocal, Slot, At, Positions, Arguments, Allocating
<1>2. Exclusion'
  BY PoolAssumption DEF IInv, FreeUnlock, Goto, ReleaseLock, TypeOK, Exclusion, Locked
<1>3. Positions'
  BY PoolAssumption
  DEF IInv, FreeUnlock, Goto, ReleaseLock, TypeOK, Positions, At, PrivateCursors
<1>4. Arguments'
  BY PoolAssumption
  DEF IInv, FreeUnlock, Goto, ReleaseLock, TypeOK, Arguments, Allocating, NoLocal
<1>5. Chosen'
  BY PoolAssumption
  DEF IInv, FreeUnlock, Goto, ReleaseLock, TypeOK, Chosen, Exclusion, Locked, Positions,
      At, Bit, Start
<1>6. Owned'
  BY PoolAssumption
  DEF IInv, FreeUnlock, Goto, ReleaseLock, TypeOK, Owned, Owning, Exclusion, Locked,
      Chosen, Positions, At, Bit, Start, ExclusiveSlots, Claim
<1>7. ExclusiveSlots'
  BY PoolAssumption
  DEF IInv, FreeUnlock, Goto, ReleaseLock, TypeOK, ExclusiveSlots, Owned, Owning,
      Positions, At, Bit, Start, Claim, Exclusion, Locked, Chosen
<1>8. Reading'
  BY PoolAssumption DEF IInv, FreeUnlock, Goto, ReleaseLock, TypeOK, Reading, Claim
<1>9. Stored'
  BY PoolAssumption
  DEF IInv, FreeUnlock, Goto, ReleaseLock, TypeOK, Stored, Positions, At, Bit, Start,
      Owned, Owning, Claim
<1>10. ReadsBack'
  BY PoolAssumption
  DEF IInv, FreeUnlock, Goto, ReleaseLock, TypeOK, ReadsBack, Reading, Stored,
      Positions, At, Start
<1> QED  BY <1>1, <1>2, <1>3, <1>4, <1>5, <1>6, <1>7, <1>8, <1>9, <1>10 DEF IInv

LEMMA CrashInv ==
  ASSUME PrivateCursors, IInv, NEW k \in Cursor, Crash(k)
  PROVE  IInv'
<1>1. TypeOK'
  BY PoolAssumption
  DEF IInv, Crash, TypeOK, Claim, Position, Bit, Start, Behind, Locked, Unlocked,
      NoLocal, Slot, At, Positions, Arguments, Allocating
<1>2. Exclusion'
  BY PoolAssumption DEF IInv, Crash, TypeOK, Exclusion, Locked
<1>3. Positions'
  BY PoolAssumption DEF IInv, Crash, TypeOK, Positions, At, PrivateCursors
<1>4. Arguments'
  BY PoolAssumption DEF IInv, Crash, TypeOK, Arguments, Allocating, NoLocal
<1>5. Chosen'
  BY PoolAssumption
  DEF IInv, Crash, TypeOK, Chosen, Exclusion, Locked, Positions, At, Bit, Start
<1>6. Owned'
  BY PoolAssumption
  DEF IInv, Crash, TypeOK, Owned, Owning, Exclusion, Locked, Chosen, Positions, At, Bit,
      Start, ExclusiveSlots, Claim
<1>7. ExclusiveSlots'
  BY PoolAssumption
  DEF IInv, Crash, TypeOK, ExclusiveSlots, Owned, Owning, Positions, At, Bit, Start,
      Claim, Exclusion, Locked, Chosen
<1>8. Reading'
  BY PoolAssumption DEF IInv, Crash, TypeOK, Reading, Claim
<1>9. Stored'
  BY PoolAssumption
  DEF IInv, Crash, TypeOK, Stored, Positions, At, Bit, Start, Owned, Owning, Claim
<1>10. ReadsBack'
  BY PoolAssumption
  DEF IInv, Crash, TypeOK, ReadsBack, Reading, Stored, Positions, At, Start
<1> QED  BY <1>1, <1>2, <1>3, <1>4, <1>5, <1>6, <1>7, <1>8, <1>9, <1>10 DEF IInv

LEMMA StutterInv == IInv /\ UNCHANGED vars => IInv'
BY DEF vars, IInv, TypeOK, Exclusion, Positions, At, Arguments, Chosen, Owned, ExclusiveSlots,
       Reading, Stored, ReadsBack

LEMMA NextInv == ASSUME PrivateCursors PROVE IInv /\ [Next]_vars => IInv'
<1> SUFFICES ASSUME IInv, Next PROVE IInv'
  BY StutterInv
<1>1. CASE \E k \in Cursor : Crash(k)
  BY <1>1, CrashInv
<1>2. ASSUME NEW t \in Thread, \E d \in Data : CallAlloc(t, d) PROVE IInv'
  BY <1>2, CallAllocInv
<1>3. ASSUME NEW t \in Thread, NEW c \in claims,
             (\E u \in Thread \ {t} : HandOver(t, u, c)) \/ CallRead(t, c) \/ CallFree(t, c)
      PROVE  IInv'
  BY <1>3, HandOverInv, CallReadInv, CallFreeInv
<1>4. ASSUME NEW t \in Thread,
             \/ AllocLock(t) \/ AllocSeek(t) \/ Scan(t) \/ SeekBit(t) \/ Mark(t)
             \/ AllocUnlock(t) \/ SeekSlot(t) \/ Write(t)
      PROVE  IInv'
  BY <1>4, AllocLockInv, AllocSeekInv, ScanInv, SeekBitInv, MarkInv, AllocUnlockInv,
     SeekSlotInv, WriteInv
<1>5. ASSUME NEW t \in Thread,
             ReadSeek(t) \/ Read(t) \/ FreeLock(t) \/ FreeSeek(t) \/ Clear(t) \/ FreeUnlock(t)
      PROVE  IInv'
  BY <1>5, ReadSeekInv, ReadInv, FreeLockInv, FreeSeekInv, ClearInv, FreeUnlockInv
<1> QED  BY <1>1, <1>2, <1>3, <1>4, <1>5 DEF Next

LEMMA Invariance == ASSUME PrivateCursors PROVE Spec => []IInv
<1>1. IInv /\ [Next]_vars => IInv'
  BY NextInv
<1> QED  BY <1>1, InitInv, PTL DEF Spec

(* bp_alloc never hands out a slot that somebody still has, and bp_free    *)
(* never frees one: for any number of threads with mappings of their own,  *)
(* whoever is killed.                                                      *)
THEOREM PoolExclusive == ASSUME PrivateCursors PROVE Spec => []ExclusiveSlots
BY Invariance, PTL DEF IInv

(* bp_write and bp_read need no lock: under the same assumption a reader   *)
(* finds in its slot exactly what was written for it.                      *)
THEOREM PoolReadsBack == ASSUME PrivateCursors PROVE Spec => []ReadsBack
BY Invariance, PTL DEF IInv

(* What bp_alloc, bp_free, bp_read and bp_write keep in the bitmap, the    *)
(* slots and their locals stays in range, whoever is killed.               *)
THEOREM PoolTypeCorrect == ASSUME PrivateCursors PROVE Spec => []TypeOK
BY Invariance, PTL DEF IInv
=============================================================================
