------------------------ MODULE DescriptorRingProofs ------------------------
(***************************************************************************)
(* For any number of processes, any descriptors and any capacity: the ring *)
(* is well typed, only the holder of the lock is inside the critical       *)
(* section, and the ring implements BoundedFifo.                           *)
(***************************************************************************)
EXTENDS DescriptorRing, SequenceTheorems, TLAPS

(* The holder of the lock is exactly the process between lock and unlock.  *)
Exclusion == \A p \in Proc : lock = p <=> pc[p] \in Holding

(* What a process put into its locals when it called.                      *)
Arguments ==
  \A p \in Proc :
    /\ pc[p] = "idle" => loc[p] = NoLocal
    /\ pc[p] # "idle" /\ loc[p].op = "put" => loc[p].desc \in Desc
    /\ pc[p] \in {"acquire", "read", "copy"} /\ loc[p].op = "get" => loc[p].desc = Nil

(* The call was not refused: there is room for a put, something for a get. *)
Admitted ==
  \A p \in Proc : pc[p] \in {"copy", "index", "count"} =>
    /\ loc[p].op = "put" => loc[p].count < Capacity
    /\ loc[p].op = "get" => loc[p].count > 0

(* The local copies of the header are the header, until it is stored.      *)
Snapshot ==
  \A p \in Proc :
    /\ pc[p] \in {"copy", "index"} =>
         loc[p].head = head /\ loc[p].tail = tail /\ loc[p].count = count
    /\ pc[p] = "count" =>
         /\ loc[p].count = count
         /\ loc[p].op = "put" => head = loc[p].head /\ tail = (loc[p].tail + 1) % Capacity
         /\ loc[p].op = "get" => head = (loc[p].head + 1) % Capacity /\ tail = loc[p].tail

(* The indices lie count cells apart, but for the time between the stores  *)
(* of an index and of the count; then the locals of the writer do.         *)
Apart(h, t, n) == t = (h + n) % Capacity
Spacing ==
  /\ (\A p \in Proc : pc[p] # "count") => Apart(head, tail, count)
  /\ \A p \in Proc : pc[p] = "count" => Apart(loc[p].head, loc[p].tail, loc[p].count)

(* The cell has been copied: into the ring, or out of it.                  *)
Copied ==
  \A p \in Proc : pc[p] \in {"index", "count"} =>
    /\ loc[p].op = "put" => cells[loc[p].tail] = loc[p].desc
    /\ loc[p].op = "get" => cells[loc[p].head] = loc[p].desc

IInv == TypeOK /\ Exclusion /\ Arguments /\ Admitted /\ Snapshot /\ Spacing /\ Copied
-----------------------------------------------------------------------------
(* Arithmetic on the circle of indices.                                    *)
LEMMA NextIndex == ASSUME NEW i \in Index PROVE (i + 1) % Capacity \in Index
BY RingAssumption DEF Index

LEMMA StepPut ==
  ASSUME NEW h \in Index, NEW n \in 0 .. Capacity, n < Capacity
  PROVE  (((h + n) % Capacity) + 1) % Capacity = (h + (n + 1)) % Capacity
BY RingAssumption DEF Index

LEMMA StepGet ==
  ASSUME NEW h \in Index, NEW n \in 0 .. Capacity, n > 0
  PROVE  (((h + 1) % Capacity) + (n - 1)) % Capacity = (h + n) % Capacity
BY RingAssumption DEF Index

(* Distinct offsets below the capacity name distinct cells.                *)
LEMMA OffsetsDiffer ==
  ASSUME NEW h \in Index, NEW n \in Index, NEW k \in Index, k < n
  PROVE  (h + k) % Capacity # (h + n) % Capacity
BY RingAssumption DEF Index

LEMMA OffsetIndex ==
  ASSUME NEW h \in Index, NEW n \in Nat PROVE (h + n) % Capacity \in Index
BY RingAssumption DEF Index
-----------------------------------------------------------------------------
(* The invariant holds at the start, and every action keeps each part.     *)
LEMMA InitInv == Init => IInv
BY RingAssumption
DEF Init, IInv, TypeOK, Index, Local, Result, Holding, NoLocal, Exclusion, Arguments,
    Admitted, Snapshot, Spacing, Apart, Copied

LEMMA CallPutInv ==
  ASSUME IInv, NEW p \in Proc, NEW d \in Desc, CallPut(p, d)
  PROVE  IInv'
<1>1. TypeOK'
  <2>1. loc'[p] \in Local /\ loc' = [loc EXCEPT ![p] = loc'[p]]
    BY DEF IInv, TypeOK, CallPut, Local
  <2> QED  BY <2>1 DEF IInv, CallPut, Goto, TypeOK, Holding
<1>2. Exclusion'
  BY RingAssumption DEF IInv, CallPut, Goto, TypeOK, Local, Exclusion, Holding
<1>3. Arguments'
  BY RingAssumption DEF IInv, CallPut, Goto, TypeOK, Local, Arguments, NoLocal
<1>4. Admitted'
  BY RingAssumption DEF IInv, CallPut, Goto, TypeOK, Local, Admitted
<1>5. Snapshot'
  BY RingAssumption DEF IInv, CallPut, Goto, TypeOK, Local, Exclusion, Snapshot, Holding
<1>6. Spacing'
  BY RingAssumption
  DEF IInv, CallPut, Goto, TypeOK, Local, Exclusion, Snapshot, Spacing, Apart, Holding
<1>7. Copied'
  BY RingAssumption
  DEF IInv, CallPut, Goto, TypeOK, Local, Exclusion, Snapshot, Copied, Holding
<1> QED  BY <1>1, <1>2, <1>3, <1>4, <1>5, <1>6, <1>7 DEF IInv

LEMMA CallGetInv ==
  ASSUME IInv, NEW p \in Proc, CallGet(p)
  PROVE  IInv'
<1>1. TypeOK'
  BY RingAssumption
  DEF IInv, CallGet, Goto, TypeOK, Index, Local, Result, Holding, NoLocal
<1>2. Exclusion'
  BY RingAssumption DEF IInv, CallGet, Goto, TypeOK, Local, Exclusion, Holding
<1>3. Arguments'
  BY RingAssumption DEF IInv, CallGet, Goto, TypeOK, Local, Arguments, NoLocal
<1>4. Admitted'
  BY RingAssumption DEF IInv, CallGet, Goto, TypeOK, Local, Admitted
<1>5. Snapshot'
  BY RingAssumption DEF IInv, CallGet, Goto, TypeOK, Local, Exclusion, Snapshot, Holding
<1>6. Spacing'
  BY RingAssumption
  DEF IInv, CallGet, Goto, TypeOK, Local, Exclusion, Snapshot, Spacing, Apart, Holding
<1>7. Copied'
  BY RingAssumption
  DEF IInv, CallGet, Goto, TypeOK, Local, Exclusion, Snapshot, Copied, Holding
<1> QED  BY <1>1, <1>2, <1>3, <1>4, <1>5, <1>6, <1>7 DEF IInv

LEMMA AcquireInv ==
  ASSUME IInv, NEW p \in Proc, Acquire(p)
  PROVE  IInv'
<1>1. TypeOK'
  BY RingAssumption
  DEF IInv, Acquire, Goto, TypeOK, Index, Local, Result, Holding, NoLocal
<1>2. Exclusion'
  BY RingAssumption DEF IInv, Acquire, Goto, TypeOK, Local, Exclusion, Holding
<1>3. Arguments'
  BY RingAssumption DEF IInv, Acquire, Goto, TypeOK, Local, Arguments, NoLocal
<1>4. Admitted'
  BY RingAssumption DEF IInv, Acquire, Goto, TypeOK, Local, Admitted
<1>5. Snapshot'
  BY RingAssumption DEF IInv, Acquire, Goto, TypeOK, Local, Exclusion, Snapshot, Holding
<1>6. Spacing'
  BY RingAssumption
  DEF IInv, Acquire, Goto, TypeOK, Local, Exclusion, Snapshot, Spacing, Apart, Holding
<1>7. Copied'
  BY RingAssumption
  DEF IInv, Acquire, Goto, TypeOK, Local, Exclusion, Snapshot, Copied, Holding
<1> QED  BY <1>1, <1>2, <1>3, <1>4, <1>5, <1>6, <1>7 DEF IInv

LEMMA ReadHeaderInv ==
  ASSUME IInv, NEW p \in Proc, ReadHeader(p)
  PROVE  IInv'
<1>1. TypeOK'
  <2>1. loc'[p] \in Local /\ loc' = [loc EXCEPT ![p] = loc'[p]]
    BY DEF IInv, TypeOK, ReadHeader, Local
  <2> QED  BY <2>1 DEF IInv, ReadHeader, Goto, TypeOK, Holding
<1>2. Exclusion'
  BY RingAssumption
  DEF IInv, ReadHeader, Goto, Blocked, TypeOK, Local, Exclusion, Holding
<1>3. Arguments'
  BY RingAssumption
  DEF IInv, ReadHeader, Goto, Blocked, TypeOK, Local, Arguments, NoLocal
<1>4. Admitted'
  BY RingAssumption DEF IInv, ReadHeader, Goto, Blocked, TypeOK, Local, Admitted
<1>5. Snapshot'
  BY RingAssumption
  DEF IInv, ReadHeader, Goto, Blocked, TypeOK, Local, Exclusion, Snapshot, Holding
<1>6. Spacing'
  BY RingAssumption
  DEF IInv, ReadHeader, Goto, Blocked, TypeOK, Local, Exclusion, Snapshot, Spacing,
      Apart, Holding
<1>7. Copied'
  BY RingAssumption
  DEF IInv, ReadHeader, Goto, Blocked, TypeOK, Local, Exclusion, Snapshot, Copied,
      Holding
<1> QED  BY <1>1, <1>2, <1>3, <1>4, <1>5, <1>6, <1>7 DEF IInv

LEMMA RefuseInv ==
  ASSUME IInv, NEW p \in Proc, Refuse(p)
  PROVE  IInv'
<1>1. TypeOK'
  BY RingAssumption
  DEF IInv, Refuse, Goto, Blocked, TypeOK, Index, Local, Result, Holding, NoLocal
<1>2. Exclusion'
  BY RingAssumption DEF IInv, Refuse, Goto, Blocked, TypeOK, Local, Exclusion, Holding
<1>3. Arguments'
  BY RingAssumption DEF IInv, Refuse, Goto, Blocked, TypeOK, Local, Arguments, NoLocal
<1>4. Admitted'
  BY RingAssumption DEF IInv, Refuse, Goto, Blocked, TypeOK, Local, Admitted
<1>5. Snapshot'
  BY RingAssumption
  DEF IInv, Refuse, Goto, Blocked, TypeOK, Local, Exclusion, Snapshot, Holding
<1>6. Spacing'
  BY RingAssumption
  DEF IInv, Refuse, Goto, Blocked, TypeOK, Local, Exclusion, Snapshot, Spacing, Apart,
      Holding
<1>7. Copied'
  BY RingAssumption
  DEF IInv, Refuse, Goto, Blocked, TypeOK, Local, Exclusion, Snapshot, Copied, Holding
<1> QED  BY <1>1, <1>2, <1>3, <1>4, <1>5, <1>6, <1>7 DEF IInv

LEMMA CopyInInv ==
  ASSUME IInv, NEW p \in Proc, CopyIn(p)
  PROVE  IInv'
<1>1. TypeOK'
  BY RingAssumption
  DEF IInv, CopyIn, Goto, TypeOK, Index, Local, Result, Holding, NoLocal
<1>2. Exclusion'
  BY RingAssumption DEF IInv, CopyIn, Goto, TypeOK, Local, Exclusion, Holding
<1>3. Arguments'
  BY RingAssumption DEF IInv, CopyIn, Goto, TypeOK, Local, Arguments, NoLocal
<1>4. Admitted'
  BY RingAssumption DEF IInv, CopyIn, Goto, TypeOK, Local, Admitted
<1>5. Snapshot'
  BY RingAssumption DEF IInv, CopyIn, Goto, TypeOK, Local, Exclusion, Snapshot, Holding
<1>6. Spacing'
  BY RingAssumption
  DEF IInv, CopyIn, Goto, TypeOK, Local, Exclusion, Snapshot, Spacing, Apart, Holding
<1>7. Copied'
  BY RingAssumption
  DEF IInv, CopyIn, Goto, TypeOK, Local, Exclusion, Snapshot, Copied, Holding
<1> QED  BY <1>1, <1>2, <1>3, <1>4, <1>5, <1>6, <1>7 DEF IInv

LEMMA CopyOutInv ==
  ASSUME IInv, NEW p \in Proc, CopyOut(p)
  PROVE  IInv'
<1>1. TypeOK'
  BY RingAssumption, ZenonT(30)
  DEF IInv, CopyOut, Goto, TypeOK, Index, Local, Result, Holding, NoLocal
<1>2. Exclusion'
  BY RingAssumption DEF IInv, CopyOut, Goto, TypeOK, Local, Exclusion, Holding
<1>3. Arguments'
  BY RingAssumption DEF IInv, CopyOut, Goto, TypeOK, Local, Arguments, NoLocal
<1>4. Admitted'
  BY RingAssumption DEF IInv, CopyOut, Goto, TypeOK, Local, Admitted
<1>5. Snapshot'
  BY RingAssumption DEF IInv, CopyOut, Goto, TypeOK, Local, Exclusion, Snapshot, Holding
<1>6. Spacing'
  BY RingAssumption
  DEF IInv, CopyOut, Goto, TypeOK, Local, Exclusion, Snapshot, Spacing, Apart, Holding
<1>7. Copied'
  BY RingAssumption
  DEF IInv, CopyOut, Goto, TypeOK, Local, Exclusion, Snapshot, Copied, Holding
<1> QED  BY <1>1, <1>2, <1>3, <1>4, <1>5, <1>6, <1>7 DEF IInv

LEMMA StoreIndexInv ==
  ASSUME IInv, NEW p \in Proc, StoreIndex(p)
  PROVE  IInv'
<1>1. TypeOK'
  <2>1. loc[p].head \in Index /\ loc[p].tail \in Index
    BY DEF IInv, TypeOK, Local
  <2>2. head' \in Index /\ tail' \in Index
    BY <2>1, NextIndex DEF StoreIndex, StoreIndexPut, StoreIndexGet
  <2> QED  BY <2>2 DEF IInv, StoreIndex, Goto, TypeOK, Holding
<1>2. Exclusion'
  BY RingAssumption
  DEF IInv, StoreIndex, Goto, StoreIndexPut, StoreIndexGet, TypeOK, Local, Exclusion,
      Holding
<1>3. Arguments'
  BY RingAssumption
  DEF IInv, StoreIndex, Goto, StoreIndexPut, StoreIndexGet, TypeOK, Local, Arguments,
      NoLocal
<1>4. Admitted'
  BY RingAssumption
  DEF IInv, StoreIndex, Goto, StoreIndexPut, StoreIndexGet, TypeOK, Local, Admitted
<1>5. Snapshot'
  BY RingAssumption
  DEF IInv, StoreIndex, Goto, StoreIndexPut, StoreIndexGet, TypeOK, Local, Exclusion,
      Snapshot, Holding
<1>6. Spacing'
  BY RingAssumption
  DEF IInv, StoreIndex, Goto, StoreIndexPut, StoreIndexGet, TypeOK, Local, Exclusion,
      Snapshot, Spacing, Apart, Holding
<1>7. Copied'
  BY RingAssumption
  DEF IInv, StoreIndex, Goto, StoreIndexPut, StoreIndexGet, TypeOK, Local, Exclusion,
      Snapshot, Copied, Holding
<1> QED  BY <1>1, <1>2, <1>3, <1>4, <1>5, <1>6, <1>7 DEF IInv

LEMMA StoreCountInv ==
  ASSUME IInv, NEW p \in Proc, StoreCount(p)
  PROVE  IInv'
<1>1. TypeOK'
  <2>1. loc[p] \in Local
    BY DEF IInv, TypeOK
  <2>2. count' \in 0 .. Capacity
    BY <2>1, RingAssumption DEF IInv, Admitted, StoreCount, Goto, Local
  <2>3. [op |-> loc[p].op, ok |-> TRUE, desc |-> loc[p].desc] \in Result
    BY <2>1 DEF Local, Result
  <2> QED  BY <2>2, <2>3 DEF IInv, StoreCount, Goto, TypeOK, Holding
<1>2. Exclusion'
  BY RingAssumption DEF IInv, StoreCount, Goto, TypeOK, Local, Exclusion, Holding
<1>3. Arguments'
  BY RingAssumption DEF IInv, StoreCount, Goto, TypeOK, Local, Arguments, NoLocal
<1>4. Admitted'
  BY RingAssumption DEF IInv, StoreCount, Goto, TypeOK, Local, Admitted
<1>5. Snapshot'
  BY RingAssumption
  DEF IInv, StoreCount, Goto, TypeOK, Local, Exclusion, Snapshot, Holding
<1>6. Spacing'
  <2>1. /\ loc[p].op \in {"put", "get"} /\ loc[p].head \in Index
        /\ loc[p].tail \in Index /\ loc[p].count \in 0 .. Capacity
    BY DEF IInv, TypeOK, Local
  <2>2. Apart(loc[p].head, loc[p].tail, loc[p].count)
    BY DEF IInv, Spacing, StoreCount, Goto
  <2>3. \A q \in Proc : pc'[q] # "count"
    BY DEF IInv, TypeOK, Exclusion, Holding, StoreCount, Goto
  <2>4. Apart(head, tail, count')
    <3>1. CASE loc[p].op = "put"
      BY <2>1, <2>2, <3>1, StepPut DEF IInv, Admitted, Snapshot, Apart, StoreCount, Goto
    <3>2. CASE loc[p].op = "get"
      BY <2>1, <2>2, <3>2, StepGet DEF IInv, Admitted, Snapshot, Apart, StoreCount, Goto
    <3> QED  BY <2>1, <3>1, <3>2
  <2> QED  BY <2>3, <2>4 DEF Spacing, Apart, StoreCount
<1>7. Copied'
  BY RingAssumption
  DEF IInv, StoreCount, Goto, TypeOK, Local, Exclusion, Snapshot, Copied, Holding
<1> QED  BY <1>1, <1>2, <1>3, <1>4, <1>5, <1>6, <1>7 DEF IInv

LEMMA ReleaseInv ==
  ASSUME IInv, NEW p \in Proc, Release(p)
  PROVE  IInv'
<1>1. TypeOK'
  BY RingAssumption
  DEF IInv, Release, Goto, TypeOK, Index, Local, Result, Holding, NoLocal
<1>2. Exclusion'
  BY RingAssumption DEF IInv, Release, Goto, TypeOK, Local, Exclusion, Holding
<1>3. Arguments'
  BY RingAssumption DEF IInv, Release, Goto, TypeOK, Local, Arguments, NoLocal
<1>4. Admitted'
  BY RingAssumption DEF IInv, Release, Goto, TypeOK, Local, Admitted
<1>5. Snapshot'
  BY RingAssumption DEF IInv, Release, Goto, TypeOK, Local, Exclusion, Snapshot, Holding
<1>6. Spacing'
  BY RingAssumption
  DEF IInv, Release, Goto, TypeOK, Local, Exclusion, Snapshot, Spacing, Apart, Holding
<1>7. Copied'
  BY RingAssumption
  DEF IInv, Release, Goto, TypeOK, Local, Exclusion, Snapshot, Copied, Holding
<1> QED  BY <1>1, <1>2, <1>3, <1>4, <1>5, <1>6, <1>7 DEF IInv

LEMMA CrashInv ==
  ASSUME IInv, NEW p \in Proc, Crash(p)
  PROVE  IInv'
<1>1. TypeOK'
  BY RingAssumption
  DEF IInv, Crash, Goto, TypeOK, Index, Local, Result, Holding, NoLocal
<1>2. Exclusion'
  BY RingAssumption DEF IInv, Crash, Goto, TypeOK, Local, Exclusion, Holding
<1>3. Arguments'
  BY RingAssumption DEF IInv, Crash, Goto, TypeOK, Local, Arguments, NoLocal
<1>4. Admitted'
  BY RingAssumption DEF IInv, Crash, Goto, TypeOK, Local, Admitted
<1>5. Snapshot'
  BY RingAssumption DEF IInv, Crash, Goto, TypeOK, Local, Exclusion, Snapshot, Holding
<1>6. Spacing'
  BY RingAssumption
  DEF IInv, Crash, Goto, TypeOK, Local, Exclusion, Snapshot, Spacing, Apart, Holding
<1>7. Copied'
  BY RingAssumption
  DEF IInv, Crash, Goto, TypeOK, Local, Exclusion, Snapshot, Copied, Holding
<1> QED  BY <1>1, <1>2, <1>3, <1>4, <1>5, <1>6, <1>7 DEF IInv

LEMMA StutterInv == IInv /\ UNCHANGED vars => IInv'
BY DEF vars, IInv, TypeOK, Exclusion, Arguments, Admitted, Snapshot, Spacing, Apart, Copied

LEMMA NextInv == IInv /\ [Next]_vars => IInv'
<1> SUFFICES ASSUME IInv, Next PROVE IInv'
  BY StutterInv
<1>1. PICK p \in Proc : (\E d \in Desc : CallPut(p, d)) \/ CallGet(p) \/ Step(p) \/ Crash(p)
  BY DEF Next
<1>2. CASE \E d \in Desc : CallPut(p, d)
  BY <1>2, CallPutInv
<1>3. CASE Step(p)
  BY <1>3, AcquireInv, ReadHeaderInv, RefuseInv, CopyInInv, CopyOutInv, StoreIndexInv,
     StoreCountInv, ReleaseInv DEF Step
<1> QED  BY <1>1, <1>2, <1>3, CallGetInv, CrashInv

LEMMA Invariance == Spec => []IInv
BY InitInv, NextInv, PTL DEF Spec

(* Every word of the ring and every local of dr_put and dr_get stays in    *)
(* its range: in particular the count never leaves 0 .. Capacity and no    *)
(* index ever leaves the array of cells.                                   *)
THEOREM TypeCorrect == Spec => []TypeOK
BY Invariance, PTL DEF IInv

-----------------------------------------------------------------------------
(* The refinement.  Only the holder of the lock can be about to store the  *)
(* count, so it alone decides where the queue starts.                      *)
ContentsOK ==
  /\ QueueHead \in Index
  /\ Contents \in Seq(Desc \cup {Nil})
  /\ Len(Contents) = count

LEMMA ContentsSeq == IInv => ContentsOK
<1> SUFFICES ASSUME IInv PROVE ContentsOK
  OBVIOUS
<1>1. QueueHead \in Index
  BY DEF IInv, TypeOK, Local, QueueHead
<1>2. \A i \in 1 .. count : (QueueHead + (i - 1)) % Capacity \in Index
  BY <1>1, OffsetIndex DEF IInv, TypeOK
<1>3. Contents \in [1 .. count -> Desc \cup {Nil}]
  BY <1>2 DEF Contents, IInv, TypeOK
<1> QED  BY <1>1, <1>3 DEF ContentsOK, IInv, TypeOK

LEMMA AppendExtends ==
  ASSUME NEW S, NEW s \in Seq(S), NEW t \in Seq(S), NEW d \in S,
         Len(t) = Len(s) + 1, t[Len(s) + 1] = d, \A i \in 1 .. Len(s) : t[i] = s[i]
  PROVE  t = Append(s, d)
<1>1. /\ Append(s, d) \in Seq(S) /\ Len(Append(s, d)) = Len(t)
      /\ \A i \in 1 .. Len(t) : t[i] = Append(s, d)[i]
  BY AppendProperties
<1> QED  BY <1>1, SeqEqual

LEMMA TailShifts ==
  ASSUME NEW S, NEW s \in Seq(S), NEW t \in Seq(S), s # << >>,
         Len(t) = Len(s) - 1, \A i \in 1 .. Len(t) : t[i] = s[i + 1]
  PROVE  t = Tail(s)
<1>1. /\ Tail(s) \in Seq(S) /\ Len(Tail(s)) = Len(t)
      /\ \A i \in 1 .. Len(t) : t[i] = Tail(s)[i]
  BY HeadTailProperties
<1> QED  BY <1>1, SeqEqual

(* Steps that touch neither the cells nor the count nor an index.          *)
LEMMA OutsideSteps ==
  ASSUME IInv, NEW p \in Proc,
         \/ \E d \in Desc : CallPut(p, d)
         \/ CallGet(p) \/ Acquire(p) \/ ReadHeader(p) \/ CopyOut(p) \/ Release(p) \/ Crash(p)
  PROVE  Contents' = Contents /\ result' = result
<1>1. UNCHANGED <<head, count, cells, result>>
  BY DEF CallPut, CallGet, Acquire, ReadHeader, CopyOut, Release, Crash
<1>2. pc[p] # "count" /\ pc'[p] # "count"
  BY DEF IInv, TypeOK, CallPut, CallGet, Acquire, ReadHeader, CopyOut, Release, Crash, Goto
<1>3. \A q \in Proc \ {p} : pc'[q] = pc[q] /\ loc'[q] = loc[q] /\ (lock' = q <=> lock = q)
  BY RingAssumption DEF IInv, TypeOK, Exclusion, Holding, CallPut, CallGet, Acquire,
     ReadHeader, CopyOut, Release, Crash, Goto
<1>4. lock' \in Proc \cup {Nil}
  BY DEF IInv, TypeOK, CallPut, CallGet, Acquire, ReadHeader, CopyOut, Release, Crash
<1>5. QueueHead' = QueueHead
  BY <1>1, <1>2, <1>3, <1>4, RingAssumption DEF IInv, TypeOK, QueueHead
<1> QED  BY <1>1, <1>5 DEF Contents

(* The cell that a put fills does not belong to the queue yet.             *)
LEMMA CopyInOutside ==
  ASSUME IInv, NEW p \in Proc, CopyIn(p)
  PROVE  Contents' = Contents /\ result' = result
<1>1. lock = p /\ lock' = p /\ pc[p] = "copy" /\ pc'[p] = "index"
  BY DEF IInv, TypeOK, Exclusion, Holding, CopyIn, Goto
<1>2. QueueHead = head /\ QueueHead' = head
  BY <1>1, RingAssumption DEF QueueHead, CopyIn
<1>3. /\ count < Capacity /\ loc[p].tail = (head + count) % Capacity
      /\ head \in Index /\ count \in Index
  <2>1. \A q \in Proc : pc[q] # "count"
    BY <1>1 DEF IInv, Exclusion, Holding
  <2>2. loc[p].tail = tail /\ tail = (head + count) % Capacity
    BY <1>1, <2>1 DEF IInv, Snapshot, Spacing, Apart
  <2>3. count < Capacity
    BY <1>1 DEF IInv, Admitted, Snapshot, CopyIn
  <2>4. head \in Index /\ count \in 0 .. Capacity
    BY DEF IInv, TypeOK
  <2> QED  BY <2>2, <2>3, <2>4, RingAssumption DEF Index
<1>4. \A i \in 1 .. count : cells'[(head + (i - 1)) % Capacity] = cells[(head + (i - 1)) % Capacity]
  <2> TAKE i \in 1 .. count
  <2>1. i - 1 \in Index /\ i - 1 < count
    BY <1>3, RingAssumption DEF Index
  <2>2. (head + (i - 1)) % Capacity # loc[p].tail
    BY <1>3, <2>1, OffsetsDiffer
  <2>3. (head + (i - 1)) % Capacity \in Index
    BY <1>3, <2>1, OffsetIndex DEF Index
  <2> QED  BY <2>2, <2>3 DEF CopyIn, IInv, TypeOK
<1> QED  BY <1>2, <1>4 DEF Contents, CopyIn

(* The store of an index moves the head past a cell that still counts.     *)
LEMMA StoreIndexOutside ==
  ASSUME IInv, NEW p \in Proc, StoreIndex(p)
  PROVE  Contents' = Contents /\ result' = result
<1>1. lock = p /\ lock' = p /\ pc[p] = "index" /\ pc'[p] = "count"
  BY DEF IInv, TypeOK, Exclusion, Holding, StoreIndex, Goto
<1>2. QueueHead = head
  BY <1>1, RingAssumption DEF QueueHead
<1>3. QueueHead' = head
  BY <1>1, RingAssumption
  DEF QueueHead, IInv, TypeOK, Local, Snapshot, StoreIndex, StoreIndexPut, StoreIndexGet
<1> QED  BY <1>2, <1>3 DEF Contents, StoreIndex

(* The store of the count is the instant at which a call takes effect.     *)
LEMMA StoreCountPut ==
  ASSUME IInv, NEW p \in Proc, StoreCount(p), loc[p].op = "put"
  PROVE  Fifo!Put(p, loc[p].desc) /\ loc[p].desc \in Desc
<1>1. lock = p /\ lock' = p /\ pc[p] = "count" /\ pc'[p] = "release"
  BY DEF IInv, TypeOK, Exclusion, Holding, StoreCount, Goto
<1>2. QueueHead = head /\ QueueHead' = head
  BY <1>1, RingAssumption DEF QueueHead, StoreCount
<1>3. /\ count < Capacity /\ count' = count + 1 /\ count \in Nat
      /\ cells[(head + count) % Capacity] = loc[p].desc
      /\ loc[p].desc \in Desc
  BY <1>1 DEF IInv, TypeOK, Arguments, Admitted, Snapshot, Spacing, Apart, Copied, StoreCount
<1>4. Contents' = Append(Contents, loc[p].desc)
  <2>1. IInv'
    BY StoreCountInv
  <2>2. /\ Contents \in Seq(Desc \cup {Nil}) /\ Len(Contents) = count
        /\ Contents' \in Seq(Desc \cup {Nil}) /\ Len(Contents') = count + 1
    <3>1. Contents' \in Seq(Desc \cup {Nil}) /\ Len(Contents') = count'
      <4>1. ContentsOK'
        BY <2>1, ContentsSeq, PTL
      <4> QED  BY <4>1 DEF ContentsOK
    <3> QED  BY <1>3, <3>1, ContentsSeq DEF ContentsOK
  <2>3. \A i \in 1 .. count : Contents'[i] = Contents[i]
    BY <1>2, <1>3 DEF Contents, StoreCount
  <2>4. Contents'[count + 1] = loc[p].desc
    BY <1>2, <1>3 DEF Contents, StoreCount
  <2> QED  BY <1>3, <2>2, <2>3, <2>4, AppendExtends
<1>5. result' = [result EXCEPT ![p] = [op |-> "put", ok |-> TRUE, desc |-> loc[p].desc]]
  BY DEF StoreCount
<1> QED  BY <1>3, <1>4, <1>5, ContentsSeq DEF ContentsOK, Fifo!Put, Fifo!Answer

LEMMA StoreCountGet ==
  ASSUME IInv, NEW p \in Proc, StoreCount(p), loc[p].op = "get"
  PROVE  Fifo!Get(p)
<1>1. lock = p /\ lock' = p /\ pc[p] = "count" /\ pc'[p] = "release"
  BY DEF IInv, TypeOK, Exclusion, Holding, StoreCount, Goto
<1>2. /\ QueueHead = loc[p].head /\ loc[p].head \in Index
      /\ QueueHead' = (loc[p].head + 1) % Capacity
  BY <1>1, RingAssumption DEF QueueHead, IInv, TypeOK, Local, Snapshot, StoreCount
<1>3. count > 0 /\ count' = count - 1 /\ count \in 0 .. Capacity
  BY <1>1 DEF IInv, TypeOK, Admitted, Snapshot, StoreCount
<1>4. Contents # << >> /\ Head(Contents) = loc[p].desc
  <2>1. Contents[1] = cells[(loc[p].head + 0) % Capacity]
    BY <1>2, <1>3 DEF Contents
  <2>2. (loc[p].head + 0) % Capacity = loc[p].head
    BY <1>2, RingAssumption DEF Index
  <2>3. cells[loc[p].head] = loc[p].desc
    BY <1>1 DEF IInv, Copied
  <2> QED  BY <1>3, <2>1, <2>2, <2>3, ContentsSeq DEF ContentsOK
<1>5. Contents' = Tail(Contents)
  <2>1. IInv'
    BY StoreCountInv
  <2>2. /\ Contents \in Seq(Desc \cup {Nil}) /\ Len(Contents) = count
        /\ Contents' \in Seq(Desc \cup {Nil}) /\ Len(Contents') = count - 1
    <3>1. Contents' \in Seq(Desc \cup {Nil}) /\ Len(Contents') = count'
      <4>1. ContentsOK'
        BY <2>1, ContentsSeq, PTL
      <4> QED  BY <4>1 DEF ContentsOK
    <3> QED  BY <1>3, <3>1, ContentsSeq DEF ContentsOK
  <2>3. \A i \in 1 .. (count - 1) : Contents'[i] = Contents[i + 1]
    <3> TAKE i \in 1 .. (count - 1)
    <3>1. Contents'[i] = cells[(((loc[p].head + 1) % Capacity) + (i - 1)) % Capacity]
      BY <1>2, <1>3 DEF Contents, StoreCount
    <3>2. Contents[i + 1] = cells[(loc[p].head + i) % Capacity]
      BY <1>2, <1>3 DEF Contents
    <3>3. (((loc[p].head + 1) % Capacity) + (i - 1)) % Capacity = (loc[p].head + i) % Capacity
      <4>1. i \in 0 .. Capacity /\ i > 0
        BY <1>3, RingAssumption
      <4> QED  BY <1>2, <4>1, StepGet
    <3> QED  BY <3>1, <3>2, <3>3
  <2> QED  BY <1>3, <1>4, <2>2, <2>3, TailShifts
<1>6. result' = [result EXCEPT ![p] = [op |-> "get", ok |-> TRUE, desc |-> loc[p].desc]]
  BY DEF StoreCount
<1> QED  BY <1>4, <1>5, <1>6 DEF Fifo!Get, Fifo!Answer

(* A refused call reads the header while the queue is full or empty.       *)
LEMMA RefuseAnswers ==
  ASSUME IInv, NEW p \in Proc, Refuse(p)
  PROVE  Fifo!GetEmpty(p) \/ \E d \in Desc : Fifo!PutFull(p, d)
<1>1. lock = p /\ lock' = p /\ pc[p] = "read" /\ pc'[p] = "release"
  BY DEF IInv, TypeOK, Exclusion, Holding, Refuse, Goto
<1>2. QueueHead' = QueueHead
  BY <1>1, RingAssumption DEF QueueHead, Refuse
<1>3. Contents' = Contents
  BY <1>2 DEF Contents, Refuse
<1>4. CASE loc[p].op = "put"
  <2>1. Len(Contents) = Capacity /\ loc[p].desc \in Desc
    BY <1>1, <1>4, ContentsSeq, RingAssumption
    DEF ContentsOK, Refuse, Blocked, IInv, TypeOK, Arguments
  <2>2. Fifo!PutFull(p, loc[p].desc)
    BY <1>3, <1>4, <2>1 DEF Refuse, Fifo!PutFull, Fifo!Answer
  <2> QED  BY <2>1, <2>2
<1>5. CASE loc[p].op = "get"
  <2>1. Contents = << >> /\ loc[p].desc = Nil
    BY <1>1, <1>5, ContentsSeq DEF ContentsOK, Refuse, Blocked, IInv, TypeOK, Arguments
  <2> QED  BY <1>3, <1>5, <2>1 DEF Refuse, Fifo!GetEmpty, Fifo!Answer
<1> QED  BY <1>4, <1>5 DEF IInv, TypeOK, Local

(* Every step of the ring is a step of the queue or leaves it unchanged.   *)
LEMMA StepSimulation == IInv /\ [Next]_vars => [Fifo!Next]_(Fifo!vars)
<1> SUFFICES ASSUME IInv, Next PROVE Fifo!Next \/ (Contents' = Contents /\ result' = result)
  BY DEF vars, Fifo!vars, Contents, QueueHead
<1>1. PICK p \in Proc : (\E d \in Desc : CallPut(p, d)) \/ CallGet(p) \/ Step(p) \/ Crash(p)
  BY DEF Next
<1>2. CASE StoreCount(p)
  <2>1. loc[p].op \in {"put", "get"}
    BY DEF IInv, TypeOK, Local
  <2> QED  BY <1>2, <2>1, StoreCountPut, StoreCountGet DEF Fifo!Next
<1>3. CASE Refuse(p)
  BY <1>3, RefuseAnswers DEF Fifo!Next
<1>4. CASE CopyIn(p) \/ StoreIndex(p)
  BY <1>4, CopyInOutside, StoreIndexOutside
<1> QED  BY <1>1, <1>2, <1>3, <1>4, OutsideSteps DEF Step

(* dr_put and dr_get, run by any number of workers and daemons that may be *)
(* killed in the middle, behave as atomic operations on one bounded queue. *)
THEOREM Refinement == Spec => ImplementsFifo
<1>1. Init => Fifo!Init
  BY RingAssumption DEF Init, Fifo!Init, Contents
<1> QED  BY <1>1, StepSimulation, Invariance, PTL DEF Spec, ImplementsFifo, Fifo!Spec
=============================================================================
