---------------------------- MODULE MCBufferPool ----------------------------
(***************************************************************************)
(* MCOwn gives every thread a position of its own, as the C workers and    *)
(* the pools used by a single daemon thread have; MCShared is one Python   *)
(* process whose two threads use the same pool object, as the two polling  *)
(* threads of the DPA daemon use the pool of DPU headers.                  *)
(***************************************************************************)
EXTENDS BufferPool

MCOwn == [t \in Thread |-> t]
MCShared == [t \in Thread |-> CHOOSE c \in Cursor : TRUE]
=============================================================================
