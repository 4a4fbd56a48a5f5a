--------------------------- MODULE RequestQueues ---------------------------
(***************************************************************************)
(* What the disk request queues promise (drivers/hd.c): a request waits    *)
(* once, requests are dispatched in the order they came, and none is lost  *)
(* or repeated on the way.                                                 *)
(***************************************************************************)
EXTENDS Integers, Sequences

CONSTANT Requests

VARIABLES waiting, dispatched

vars == <<waiting, dispatched>>

Init == waiting = <<>> /\ dispatched = <<>>

Seen == LET all == waiting \o dispatched IN {all[i] : i \in 1 .. Len(all)}

Enqueue(r) ==
  /\ r \notin Seen
  /\ waiting' = Append(waiting, r)
  /\ UNCHANGED dispatched

Dispatch ==
  /\ waiting # <<>>
  /\ waiting' = Tail(waiting)
  /\ dispatched' = Append(dispatched, Head(waiting))

Next == Dispatch \/ \E r \in Requests : Enqueue(r)

Spec == Init /\ [][Next]_vars
=============================================================================
