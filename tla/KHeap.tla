-------------------------------- MODULE KHeap --------------------------------
(***************************************************************************)
(* The kernel heap: alloc and free of kernel/kheap.c with the ordered      *)
(* array (kernel/ordered_array.c) that lists its holes.                    *)
(*                                                                         *)
(* Addresses are offsets from heap->start_address, in units that hold a    *)
(* header or a footer, so that two of these lie in the same place or in    *)
(* different ones.  A memory cell is a header, a footer or anything else.  *)
(* Cells keep what was written until something else is written: a header   *)
(* stays readable inside the hole or the block that swallowed it.  The     *)
(* callers all run in main's task and no handler allocates, so a call is   *)
(* one step.  No caller asks for alignment once the heap exists: page_align*)
(* is 0.                                                                   *)
(*                                                                         *)
(* An address is a cell of its own as long as no two pages of the heap are *)
(* on the same page of memory.  A heap that grows meets pages that are     *)
(* mapped already, to memory that its other pages may be on.  PageAlloc has*)
(* that part of the code; its OwnedExclusively says how many pages of heap *)
(* have memory to themselves: 511 in the kernel, whose heap has 128 at boot.*)
(*                                                                         *)
(* There are steps of the code that leave the heap out of order; from      *)
(* there on leftovers in memory decide, and the model stops.               *)
(***************************************************************************)
EXTENDS Integers, FiniteSets, SequencesExt

CONSTANTS
  Page,       \* units of a page
  InitPages,  \* KHEAP_INITIAL_SIZE, less the index
  MinPages,   \* HEAP_MIN_SIZE
  OwnPages,   \* the pages that have memory to themselves, PageAlloc's OwnPages
  Sizes       \* bound: the sizes callers ask for

ASSUME HeapAssumption ==
  /\ {Page, InitPages, MinPages, OwnPages} \subseteq Nat
  /\ Page >= 2 /\ 1 <= MinPages /\ MinPages <= InitPages /\ InitPages < OwnPages
  /\ Sizes \subseteq Nat

VARIABLES
  mem,      \* memory from start_address on, each cell a cell of its own
  index,    \* heap->index: the header addresses of the holes
  end,      \* end_address
  mapped,   \* the pages that have an address
  live,     \* the blocks the callers hold: address of the header, extent
  flaw      \* "none", or how the heap got out of order

vars == <<mem, index, end, mapped, live, flaw>>

Cell == 0 .. OwnPages * Page - 1
Overhead == 2                       \* sizeof(header_t) + sizeof(footer_t)
PageOf(a) == a \div Page
Other == [kind |-> "other"]
Header(hole, size) == [kind |-> "header", hole |-> hole, size |-> size]
Footer(a) == [kind |-> "footer", header |-> a]
IsHole(c) == c.kind = "header" /\ c.hole

Flaws == {
  "aliased",    \* alloc took in pages that may be on the memory of others
  "overgrown",  \* alloc added the new pages to a hole in the middle of the heap
  "mislaid",    \* free united a hole with the next; its footer names the old header
  "unlisted",   \* free took an old header past the end for a hole on the right
  "cramped",    \* contract left too little for a header and a footer
  "fault"}      \* free looked past the end, where nothing is mapped: a halt

(* create_heap: one hole, whose footer nobody writes.                      *)
Init ==
  /\ mem = [a \in Cell |-> IF a = 0 THEN Header(TRUE, InitPages * Page) ELSE Other]
  /\ index = <<0>>
  /\ end = InitPages * Page
  /\ mapped = {PageOf(a) : a \in Cell}
  /\ live = {}
  /\ flaw = "none"
------------------------------------------------------------------------------
(* The rounding of expand and contract: a page more for a multiple of the  *)
(* page size; less than a page is not rounded.                             *)
Unrounded(n) == n
Rounded(n) == IF n >= Page THEN (n \div Page + 1) * Page ELSE n
Contracted(n) == Max({Rounded(n), MinPages * Page})

(* insert_ordered_array with header_less_than: before the first hole that  *)
(* is not smaller.                                                         *)
Insert(ix, a, m) ==
  LET notLess == {i \in DOMAIN ix : m[ix[i]].size >= m[a].size}
  IN  InsertAt(ix, Min(notLess \cup {Len(ix) + 1}), a)

(* The search for a hole in the index, and remove_ordered_array, which     *)
(* drops the last hole when the search has found none.                     *)
RemoveHole(ix, a) ==
  IF a \in ToSet(ix) THEN RemoveFirst(ix, a) ELSE SubSeq(ix, 1, Len(ix) - 1)

(* find_smallest_hole: the first in the index that is large enough.        *)
Fitting(m, ix, n) == {i \in DOMAIN ix : m[ix[i]].size >= n}

(* A rest too small for a header and a footer stays with the block.        *)
GrantedExactly(size, n) == n
Granted(size, n) == IF size - n < Overhead THEN size ELSE n

(* alloc, line 273 on: take n units out of a hole; the rest of it, if any, *)
(* is a new hole.                                                          *)
Take(m, ix, e, n) ==
  LET pos == ix[Min(Fitting(m, ix, n))]
      size == m[pos].size
      got == Granted(size, n)
      rest == pos + got
      block == [m EXCEPT ![pos] = Header(FALSE, got), ![rest - 1] = Footer(pos)]
      split == [block EXCEPT ![rest] = Header(TRUE, size - got)]
      hole == IF pos + size - 1 < e THEN [split EXCEPT ![pos + size - 1] = Footer(rest)]
              ELSE split
  IN  /\ mem' = IF size = got THEN block ELSE hole
      /\ index' = IF size = got THEN RemoveHole(ix, pos)
                  ELSE Insert(RemoveHole(ix, pos), rest, hole)
      /\ live' = live \cup {[at |-> pos, extent |-> got]}

Running == flaw = "none"

Alloc(s) ==
  /\ Running
  /\ Fitting(mem, index, s + Overhead) # {}
  /\ Take(mem, index, end, s + Overhead)
  /\ UNCHANGED <<end, mapped, flaw>>

(* No hole fits: expand, give the new pages to the hole at the highest     *)
(* address, wherever it ends, and try again.                               *)
Appended(len) ==
  [mem EXCEPT ![end] = Header(TRUE, len - end), ![len - 1] = Footer(end)]
Extended(h, size) ==
  [mem EXCEPT ![h].size = size, ![h + size - 1] = Footer(h)]

Grow(n, len) ==
  LET h == Max(ToSet(index))
  IN  /\ end' = len
      /\ mapped' = mapped \cup {PageOf(a) : a \in end .. len - 1}
      /\ IF index = <<>>
         THEN Take(Appended(len), <<end>>, len, n) /\ UNCHANGED flaw
         ELSE /\ Take(Extended(h, mem[h].size + len - end), index, len, n)
              /\ flaw' = IF h + mem[h].size = end THEN "none" ELSE "overgrown"

(* free looks at the page past the end, so that one has to be private too. *)
AllocGrow(s) ==
  LET n == s + Overhead
      len == Rounded(end + n)
  IN  /\ Running
      /\ Fitting(mem, index, n) = {}
      /\ IF PageOf(len) < OwnPages THEN Grow(n, len)
         ELSE flaw' = "aliased" /\ UNCHANGED <<mem, index, end, mapped, live>>

(* The callers fill their blocks.                                          *)
Payload(b) == b.at + 1 .. b.at + b.extent - 2
Use(b) ==
  /\ Running
  /\ mem' = [a \in Cell |-> IF a \in Payload(b) THEN Other ELSE mem[a]]
  /\ UNCHANGED <<index, end, mapped, live, flaw>>
------------------------------------------------------------------------------
(* free: the hole that ends where the block at a begins, else a itself.    *)
(* What lies before the first block is the end of the index array, which   *)
(* holds no magic number.                                                  *)
NoLeftHole(a) == a
LeftHole(a) ==
  IF a > 0 /\ mem[a - 1].kind = "footer" /\ IsHole(mem[mem[a - 1].header])
  THEN mem[a - 1].header ELSE a

(* The block becomes part of the hole top; then its footer says so.        *)
UnifyKeepingFooter(a, top) ==
  LET freed == [mem EXCEPT ![a].hole = TRUE]
  IN  IF top = a THEN freed ELSE [freed EXCEPT ![top].size = @ + mem[a].size]
UnifyFromNewSize(a, top) ==
  LET freed == [mem EXCEPT ![a].hole = TRUE]
  IN  IF top = a THEN freed
      ELSE [freed EXCEPT ![top].size = @ + mem[a].size,
                         ![a + mem[top].size + mem[a].size - 1] = Footer(top)]
UnifyLeft(a, top) ==
  LET freed == [mem EXCEPT ![a].hole = TRUE]
  IN  IF top = a THEN freed
      ELSE [freed EXCEPT ![top].size = @ + mem[a].size,
                         ![a + mem[a].size - 1] = Footer(top)]

(* The hole top takes in the hole at th, whose footer goes on naming th.   *)
UnifyRight(m, top, th) == [m EXCEPT ![top].size = @ + m[th].size]

(* contract keeps one page past the new end.  When one of those removed    *)
(* comes back, it is on the page of memory that one of them was on, before *)
(* or now, or on another: was says which.                                  *)
KeptPages(len) == {p \in mapped : p <= PageOf(len) \/ p >= PageOf(end)}
Removed(len) == (0 .. OwnPages - 1) \ KeptPages(len)
Elsewhere == OwnPages
ShrunkTo(m, top, size, was) ==
  [a \in Cell |->
     CASE a = top            -> Header(TRUE, size)
       [] a = top + size - 1 -> Footer(top)
       [] PageOf(a) \in DOMAIN was ->
            IF was[PageOf(a)] = Elsewhere THEN Other ELSE m[was[PageOf(a)] * Page + (a % Page)]
       [] OTHER              -> m[a]]

(* free, lines 375 on: a hole that ends the heap gives up its pages and    *)
(* gets a footer.  Where only one unit remains, the footer would overwrite *)
(* the header.                                                             *)
Release(hd, top, m, ix) ==
  LET len == Contracted(top)
      rest == m[top].size - (end - len)
  IN  IF rest < Overhead
      THEN flaw' = "cramped" /\ UNCHANGED <<mem, index, end, mapped>>
      ELSE /\ \E was \in [Removed(len) -> Removed(len) \cup {Elsewhere}] :
                mem' = ShrunkTo(m, top, rest, was)
           /\ index' = IF top = hd THEN Insert(ix, hd, mem') ELSE ix
           /\ end' = len
           /\ mapped' = KeptPages(len)
           /\ UNCHANGED flaw

Free(b) ==
  LET hd == b.at
      th == hd + mem[hd].size
      top == LeftHole(hd)
      left == UnifyLeft(hd, top)
      right == IsHole(left[th])
      m == IF right THEN UnifyRight(left, top, th) ELSE left
      next == IF right THEN th + left[th].size ELSE th
      ix == IF right THEN RemoveHole(index, th) ELSE index
  IN  /\ Running
      /\ live' = live \ {b}
      /\ IF PageOf(th) \notin mapped
         THEN flaw' = "fault" /\ UNCHANGED <<mem, index, end, mapped>>
         ELSE IF next = end THEN Release(hd, top, m, ix)
         ELSE /\ mem' = m
              /\ index' = IF top = hd THEN Insert(ix, hd, m) ELSE ix
              /\ flaw' = IF ~right THEN "none"
                         ELSE IF th \in ToSet(index) THEN "mislaid" ELSE "unlisted"
              /\ UNCHANGED <<end, mapped>>

Stopped == ~Running /\ UNCHANGED vars

Next ==
  \/ \E s \in Sizes : Alloc(s) \/ AllocGrow(s)
  \/ \E b \in live : Use(b) \/ Free(b)
  \/ Stopped

Spec == Init /\ [][Next]_vars
------------------------------------------------------------------------------
TypeOK ==
  /\ mem \in [Cell -> {Other} \cup [kind : {"header"}, hole : BOOLEAN, size : Nat]
                              \cup [kind : {"footer"}, header : Cell]]
  /\ index \in Seq(Cell)
  /\ end \in {p * Page : p \in MinPages .. OwnPages}
  /\ mapped \subseteq 0 .. OwnPages - 1
  /\ live \subseteq [at : Cell, extent : 0 .. OwnPages * Page]
  /\ flaw \in Flaws \cup {"none"}

Starts == {b.at : b \in live} \cup ToSet(index)
Tile(a) == a .. a + mem[a].size - 1

(* Until the heap is out of order, the blocks and the holes, as their      *)
(* headers give them, share out the heap between them: nothing is lost,    *)
(* nothing is in two of them, all of it is mapped, and the index lists     *)
(* each hole once (kheap.c:222-403, ordered_array.c:38-87).                *)
TilesTheHeap ==
  Running =>
    /\ \A b \in live : mem[b.at] = Header(FALSE, b.extent)
    /\ \A a \in ToSet(index) : IsHole(mem[a])
    /\ IsInjective(index)
    /\ \A c \in 0 .. end - 1 : PageOf(c) \in mapped
    /\ \A a \in Starts : Tile(a) \subseteq 0 .. end - 1
    /\ \A c \in 0 .. end - 1 : Cardinality({a \in Starts : c \in Tile(a)}) = 1

(* ... each of them ends in a footer that leads back to its header, which  *)
(* is where free looks for the left neighbour; only create_heap's hole has *)
(* none (kheap.c:213-217, 305-323, 344-353, 380-386).                      *)
FootersLeadBack ==
  Running /\ live # {} =>
    \A a \in Starts : mem[a + mem[a].size - 1] = Footer(a)

(* ... and no two holes touch: memory given back in pieces is one hole     *)
(* again (kheap.c:343-373).                                                *)
HolesUnited ==
  Running => \A a \in ToSet(index) : a + mem[a].size \notin ToSet(index)

Content == [b \in live |-> [c \in Payload(b) |-> mem[c]]]

(* A heap that is in order, and no larger than the memory it has to itself,*)
(* is an allocator: whatever holes a block comes from and its neighbours   *)
(* turn into, its addresses are of the size asked for, its holder's alone, *)
(* and keep what he writes until he frees it (kheap.c:222-403).            *)
Heap == INSTANCE Allocator
          WITH Slack <- Overhead - 1, broken <- ~Running, content <- Content

ImplementsAllocator == Heap!Spec

(* ASSERT(iterator < heap->index.size) (kheap.c:371): the hole that free   *)
(* finds on the right of the block is in the index.                        *)
RightHoleIsIndexed ==
  \A b \in live :
    LET th == b.at + mem[b.at].size
    IN  Running /\ PageOf(th) \in mapped /\ IsHole(mem[th])
          => th \in ToSet(index)
==============================================================================
