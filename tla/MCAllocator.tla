----------------------------- MODULE MCAllocator ----------------------------
(* Small instances of Allocator for TLC. *)
EXTENDS Allocator

(* Two iterations are enough for two outputs; SelAlloc has one. *)
TwoIters == [t \in Types |-> IF t = "select" THEN 1 ELSE 2]
AllTypes == Types
=============================================================================
