----------------------------- MODULE Allocator ------------------------------
(***************************************************************************)
(* What a heap promises its callers (mm/kheap.h): a block is memory, large *)
(* enough, that is its caller's alone until he gives it back.  Once the    *)
(* heap is out of order, or larger than the memory it has to itself, it    *)
(* promises nothing.                                                       *)
(***************************************************************************)
EXTENDS Integers, FiniteSets

CONSTANTS
  Sizes,   \* what callers ask for
  Slack    \* what a block may have in excess

VARIABLES
  content,  \* of each block: what its cells hold
  broken

vars == <<content, broken>>

Blocks == DOMAIN content
Cells(b) == DOMAIN content[b]
Kept(B) == \A b \in B : content'[b] = content[b]

Init == Blocks = {} /\ ~broken

(* The memory may hold anything at first.                                  *)
Allocate(s) ==
  /\ \E b \in DOMAIN content' \ Blocks :
       /\ DOMAIN content' = Blocks \cup {b}
       /\ Cardinality(DOMAIN content'[b]) \in s .. s + Slack
       /\ \A h \in Blocks : DOMAIN content'[b] \cap Cells(h) = {}
  /\ Kept(Blocks)

Write(b) ==
  /\ DOMAIN content' = Blocks /\ DOMAIN content'[b] = Cells(b)
  /\ Kept(Blocks \ {b})

GiveBack(b) ==
  /\ DOMAIN content' = Blocks \ {b}
  /\ Kept(Blocks \ {b})

Ordered ==
  /\ ~broken /\ ~broken'
  /\ \/ \E s \in Sizes : Allocate(s)
     \/ \E b \in Blocks : Write(b) \/ GiveBack(b)

Next == Ordered \/ broken'

Spec == Init /\ [][Next]_vars
=============================================================================
