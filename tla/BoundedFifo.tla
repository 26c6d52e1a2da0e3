---------------------------- MODULE BoundedFifo ----------------------------
(***************************************************************************)
(* What a submission queue promises to the processes that share it: a      *)
(* first-in first-out queue of at most Capacity descriptors.  A put either *)
(* appends its descriptor or is refused because the queue is full; a get   *)
(* either takes the oldest descriptor or finds the queue empty.  Nothing   *)
(* is said of locks, indices or memory.                                    *)
(***************************************************************************)
EXTENDS Naturals, Sequences

CONSTANTS
  Proc,       (* the processes that share the queue                 *)
  Desc,       (* the descriptors they exchange                      *)
  Capacity,   (* how many descriptors fit                           *)
  Nil         (* what a process holds before its first answer       *)

VARIABLES
  queue,      (* the descriptors put and not yet taken, oldest first *)
  result      (* the answer of each process' last finished call      *)

vars == <<queue, result>>

Init ==
  /\ queue = << >>
  /\ result = [p \in Proc |-> Nil]

Answer(p, r) == result' = [result EXCEPT ![p] = r]

Put(p, d) ==
  /\ Len(queue) < Capacity
  /\ queue' = Append(queue, d)
  /\ Answer(p, [op |-> "put", ok |-> TRUE, desc |-> d])

PutFull(p, d) ==
  /\ Len(queue) = Capacity
  /\ Answer(p, [op |-> "put", ok |-> FALSE, desc |-> d])
  /\ UNCHANGED queue

Get(p) ==
  /\ queue # << >>
  /\ queue' = Tail(queue)
  /\ Answer(p, [op |-> "get", ok |-> TRUE, desc |-> Head(queue)])

GetEmpty(p) ==
  /\ queue = << >>
  /\ Answer(p, [op |-> "get", ok |-> FALSE, desc |-> Nil])
  /\ UNCHANGED queue

Next ==
  \E p \in Proc :
    \/ \E d \in Desc : Put(p, d) \/ PutFull(p, d)
    \/ Get(p)
    \/ GetEmpty(p)

Spec == Init /\ [][Next]_vars
=============================================================================
