---------------------------- MODULE BoundedFifo ----------------------------
(***************************************************************************)
(* What a character queue promises its users: at most Capacity elements,   *)
(* first in, first out; a put into a full queue is refused and changes     *)
(* nothing, a get from an empty one returns Nothing.                       *)
(***************************************************************************)
EXTENDS Integers, Sequences

CONSTANTS Capacity, Elements, Nothing

VARIABLES q, ret   \* the contents, and what the last operation returned

Init == q = <<>> /\ ret = 0

Clear == q' = <<>> /\ ret' = ret

Put(e) ==
  \/ Len(q) < Capacity /\ q' = Append(q, e) /\ ret' = 0
  \/ Len(q) = Capacity /\ q' = q /\ ret' = -1

Get ==
  \/ q # <<>> /\ q' = Tail(q) /\ ret' = Head(q)
  \/ q = <<>> /\ q' = q /\ ret' = Nothing

Next == Clear \/ Get \/ \E e \in Elements : Put(e)

Spec == Init /\ [][Next]_<<q, ret>>
=============================================================================
