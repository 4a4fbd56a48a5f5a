------------------------------- MODULE MCKHeap -------------------------------
(***************************************************************************)
(* Model checking of KHeap: pages of four units, a heap of two pages that  *)
(* may shrink to one and grow to four.                                     *)
(***************************************************************************)
EXTENDS KHeap
==============================================================================
