----------------------------- MODULE MCPageAlloc -----------------------------
(***************************************************************************)
(* Model checking of PageAlloc: fifteen or eight page frames behind one    *)
(* low page, page tables of two or three entries, a heap that is free to   *)
(* grow over the pages mapped at boot and past them into page tables of    *)
(* its own.                                                                *)
(***************************************************************************)
EXTENDS PageAlloc

(* What an entry nobody wrote may hold: nothing, something not present, or *)
(* what looks like a mapping of the low page, of the first page behind it, *)
(* or of a page behind all memory.                                         *)
MCStale == {Zero, Absent, 0, LowPages, Beyond}
==============================================================================
