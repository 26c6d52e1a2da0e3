-------------------------- MODULE MCDescriptorRing --------------------------
(***************************************************************************)
(* Two processes on a ring of three cells (two for liveness): the indices  *)
(* wrap, and the ring is empty, partly full and full within a few calls.   *)
(***************************************************************************)
EXTENDS DescriptorRing
=============================================================================
