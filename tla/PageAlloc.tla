------------------------------ MODULE PageAlloc ------------------------------
(***************************************************************************)
(* Physical pages and page tables (mm/memory.c) and the users of them: the *)
(* pages main maps at boot, the growing and shrinking kernel heap (expand  *)
(* and contract of kernel/kheap.c) and the page fault handler.             *)
(*                                                                         *)
(* Everything counts in pages.  mem_map[i] is about physical page          *)
(* LowPages + i.  setup.s maps linear page v to physical page v for all of *)
(* memory before mem_map exists, and mem_map never learns of it: the heap  *)
(* that grows meets pages that are mapped already and takes them as they   *)
(* are, although get_free_page hands out, or has handed out, the memory    *)
(* behind them.  The code runs in one task and no handler that returns     *)
(* touches the pages, so a call is sequential; the loops are modelled a    *)
(* page at a time.                                                         *)
(***************************************************************************)
EXTENDS Integers, FiniteSets

CONSTANTS
  LowPages,     \* LOW_MEM in pages
  NFrames,      \* PAGING_PAGES
  TablePages,   \* entries of a page table, 1024
  Dirs,         \* bound: page directory entries
  Scratch,      \* the page at 0x200000 that main maps first
  IndexStart,   \* KHEAP_START: the heap's index, then its pages
  HeapStart,    \* heap->start_address
  InitEnd,      \* KHEAP_START + KHEAP_INITIAL_SIZE
  HeapMin,      \* HEAP_MIN_SIZE in pages
  HeapMax,      \* bound: pages of heap
  Sizes,        \* bound: the heap sizes that alloc and free ask for
  Stale         \* what an entry of a page never cleared may hold

Frames == 0 .. NFrames - 1
Memory == 0 .. LowPages + NFrames - 1      \* physical pages
Linear == 0 .. Dirs * TablePages - 1       \* linear pages
Dir(v) == v \div TablePages
Zero   == -1                               \* no address: get_page_addr answers 0
Absent == -2                               \* an address, but the present bit clear
Beyond == LowPages + NFrames               \* present, a page behind all memory
Entries == Memory \cup {Zero, Absent, Beyond}
NoTable == -1                              \* directory entry that is 0
BootTable == -2                            \* pg0 and pg1 of setup.s

ASSUME LayoutAssumption ==
  /\ {LowPages, NFrames, TablePages, Dirs} \subseteq Nat \ {0}
  /\ (LowPages + NFrames) % TablePages = 0
  /\ {Scratch, IndexStart, HeapStart} \subseteq LowPages .. LowPages + NFrames - 1
  /\ Scratch < IndexStart /\ IndexStart <= HeapStart
  /\ InitEnd \in HeapStart + 1 .. LowPages + NFrames /\ InitEnd - Scratch < NFrames
ASSUME HeapAssumption ==
  /\ HeapMin \in 1 .. InitEnd - HeapStart
  /\ HeapMax \in InitEnd - HeapStart .. Dirs * TablePages - HeapStart
  /\ Sizes \subseteq HeapMin .. HeapMax
ASSUME StaleAssumption == Stale \subseteq Entries

VARIABLES
  memMap,     \* mem_map: 0 free, 1 used
  table,      \* page directory: no table, a boot table, or the frame of one
  pte,        \* the entries of all page tables, by linear page
  heapPages,  \* end_address - start_address
  job,        \* the loop under way: kind, page index, target
  installed,  \* history: the linear pages whose entry put_page wrote last
  kept,       \* history: the pages the heap took as it found them mapped
  peak,       \* history: the most pages the heap was asked to have
  stray,      \* history: a page table is not where it is looked for, or open
              \* to stray stores: from here on the contents of memory decide
  stopped     \* a page fault has been handled

vars == <<memMap, table, pte, heapPages, job, installed, kept, peak, stray, stopped>>

Idle == [kind |-> "idle", at |-> 0, to |-> 0]

Init ==
  /\ memMap = [f \in Frames |-> 0]
  /\ table = [d \in 0 .. Dirs - 1 |->
                IF d * TablePages < LowPages + NFrames THEN BootTable ELSE NoTable]
  /\ pte = [v \in Linear |-> IF v \in Memory THEN v ELSE Zero]
  /\ heapPages = 0
  /\ job = [kind |-> "boot", at |-> Scratch, to |-> InitEnd]
  /\ installed = {} /\ kept = {} /\ peak = InitEnd - HeapStart
  /\ stray = FALSE /\ stopped = FALSE
------------------------------------------------------------------------------
(* get_free_page: the highest free page; the loop ends at 0 without a look *)
(* at mem_map[0], so 0 is the answer when no other page is free.           *)
FirstFree(map) ==
  LET free == {f \in Frames \ {0} : map[f] = 0}
  IN  IF free = {} THEN 0 ELSE CHOOSE f \in free : \A g \in free : g <= f
Unmarked(map, f) == map
Mark(map, f) == [map EXCEPT ![f] = 1]

(* Page tables are read and written at their physical address, through the *)
(* linear page of that number.                                             *)
Reachable(t) == t >= 0 => pte[LowPages + t] = LowPages + t

(* put_page(get_free_page(), v): a missing page table takes a second free  *)
(* page, which is not cleared.                                             *)
MapNew(v) ==
  LET f == FirstFree(memMap)
      used == Mark(memMap, f)
      g == FirstFree(used)
      new == table[Dir(v)] = NoTable
      t == IF new THEN g ELSE table[Dir(v)]
  IN  /\ memMap' = IF new THEN Mark(used, g) ELSE used
      /\ table' = [table EXCEPT ![Dir(v)] = t]
      /\ \E junk \in [{u \in Linear : new /\ Dir(u) = Dir(v) /\ u # v} -> Stale] :
           pte' = [u \in Linear |-> IF u = v THEN LowPages + f
                                    ELSE IF u \in DOMAIN junk THEN junk[u]
                                    ELSE pte[u]]
      /\ installed' = installed \cup {v} /\ kept' = kept \ {v}
      /\ stray' = (stray \/ memMap[f] = 1 \/ (new /\ used[g] = 1) \/ ~Reachable(t))

(* get_page_addr(v) # 0: also true of an entry that is not present.        *)
HasAddr(v) == table[Dir(v)] # NoTable /\ pte[v] # Zero

(* A page with an address is left as it is.                                *)
Keep(v) ==
  /\ kept' = IF v \in installed THEN kept ELSE kept \cup {v}
  /\ stray' = (stray \/ ~Reachable(table[Dir(v)]))
  /\ UNCHANGED <<memMap, table, pte, installed>>

(* free_page(p), p a physical page: pages below LOW_MEM are left alone; a  *)
(* page that is free already wraps to 65535 and is set to 0 again; a page  *)
(* behind memory is a message, and a store behind mem_map.                 *)
FreePageUnreset(p) ==
  memMap' = IF p - LowPages \in Frames THEN [memMap EXCEPT ![p - LowPages] = @ - 1] ELSE memMap
FreePageForgotten(p) == memMap' = memMap
FreePage(p) ==
  memMap' = IF p - LowPages \in Frames THEN [memMap EXCEPT ![p - LowPages] = 0] ELSE memMap

RemovePage(v) ==
  /\ IF table[Dir(v)] # NoTable /\ pte[v] >= 0
     THEN /\ FreePage(pte[v])
          /\ pte' = [pte EXCEPT ![v] = Zero]
          /\ installed' = installed \ {v} /\ kept' = kept \ {v}
     ELSE UNCHANGED <<memMap, pte, installed, kept>>
  /\ stray' = (stray \/ ~Reachable(table[Dir(v)]) \/ pte[v] = Beyond)
InUse == installed \cup kept

(* A page in use lies over the kernel, which is all in low memory with the *)
(* page directory and the boot tables, or over a page table: the next use  *)
(* of the heap may write into them.                                        *)
Trampling ==
  \E v \in InUse : \/ pte[v] \in 0 .. LowPages - 1
                   \/ \E d \in DOMAIN table : table[d] >= 0 /\ table[d] = pte[v] - LowPages

------------------------------------------------------------------------------
Running == ~stray /\ ~stopped
At(kind) == Running /\ job.kind = kind /\ job.at # job.to
Advance(i) == job' = [job EXCEPT !.at = i]

(* main: the scratch page, and a page for each page of index and heap.     *)
BootPage ==
  /\ At("boot")
  /\ MapNew(job.at)
  /\ Advance(IF job.at = Scratch THEN IndexStart ELSE job.at + 1)
  /\ UNCHANGED <<heapPages, peak, stopped>>

(* create_heap                                                             *)
CreateHeap ==
  /\ Running /\ job.kind = "boot" /\ job.at = job.to
  /\ heapPages' = InitEnd - HeapStart
  /\ job' = Idle /\ stray' = Trampling
  /\ UNCHANGED <<memMap, table, pte, installed, kept, peak, stopped>>

(* expand(new_size), called by alloc with more than the heap has; rounding *)
(* adds a page to a size that is a multiple of the page size.              *)
Expand(n) ==
  /\ Running /\ job.kind = "idle" /\ heapPages > 0
  /\ n > heapPages
  /\ job' = [kind |-> "expand", at |-> heapPages, to |-> n]
  /\ peak' = IF n > peak THEN n ELSE peak
  /\ UNCHANGED <<memMap, table, pte, heapPages, installed, kept, stray, stopped>>

(* One turn of its loop: a page that has an address already is kept.       *)
ExpandPage ==
  /\ At("expand")
  /\ LET v == HeapStart + job.at IN IF HasAddr(v) THEN Keep(v) ELSE MapNew(v)
  /\ Advance(job.at + 1)
  /\ UNCHANGED <<heapPages, peak, stopped>>

(* contract(new_size), called by free with less than the heap has: rounded *)
(* up, and to HEAP_MIN_SIZE.                                               *)
Contract(n) ==
  /\ Running /\ job.kind = "idle" /\ heapPages > 0
  /\ n <= heapPages
  /\ job' = [kind |-> "contract", at |-> heapPages - 1, to |-> n]
  /\ UNCHANGED <<memMap, table, pte, heapPages, installed, kept, peak, stray, stopped>>

(* One turn of its loop, while (new_size < i): page new_size itself stays. *)
OneFewerKept == job.to - 2
LastKept == job.to

ContractPage ==
  /\ Running /\ job.kind = "contract" /\ job.at > LastKept
  /\ RemovePage(HeapStart + job.at)
  /\ Advance(job.at - 1)
  /\ UNCHANGED <<table, heapPages, peak, stopped>>

(* heap->end_address = heap->start_address + new_size; what follows uses   *)
(* the heap.                                                               *)
Resized ==
  /\ Running
  /\ \/ job.kind = "expand" /\ job.at = job.to
     \/ job.kind = "contract" /\ job.at <= LastKept
  /\ heapPages' = job.to
  /\ job' = Idle /\ stray' = Trampling
  /\ UNCHANGED <<memMap, table, pte, installed, kept, peak, stopped>>

(* A page fault: no_page(error, address) is handed the fault address as    *)
(* its error and what was in eax as its address, and maps a page there;    *)
(* the iret that follows, inside a call, ends in a general protection      *)
(* fault, whose handler halts.                                             *)
NoPage(v) ==
  /\ Running /\ job.kind = "idle"
  /\ MapNew(v)
  /\ stopped' = TRUE
  /\ UNCHANGED <<heapPages, job, peak>>

Stopped == ~Running /\ UNCHANGED vars

Next ==
  \/ BootPage \/ CreateHeap
  \/ \E n \in Sizes : Expand(n) \/ Contract(n)
  \/ ExpandPage \/ ContractPage \/ Resized
  \/ \E v \in Linear : NoPage(v)
  \/ Stopped

Spec == Init /\ [][Next]_vars
------------------------------------------------------------------------------
TypeOK ==
  /\ memMap \in [Frames -> {0, 1}]
  /\ table \in [0 .. Dirs - 1 -> Frames \cup {NoTable, BootTable}]
  /\ pte \in [Linear -> Entries]
  /\ heapPages \in 0 .. HeapMax
  /\ job \in [kind : {"idle", "boot", "expand", "contract"},
              at : 0 .. Dirs * TablePages, to : 0 .. Dirs * TablePages]
  /\ installed \subseteq Linear /\ kept \subseteq Linear /\ peak \in 0 .. HeapMax
  /\ {stray, stopped} \subseteq BOOLEAN

(* The pages of the heap that are not under a loop's hands.                *)
Heap == HeapStart .. HeapStart + (IF job.kind = "contract" THEN job.to ELSE heapPages) - 1

(* A heap that never went past the memory mapped at boot is mapped to      *)
(* memory from its start to its end, through every loop of expand and      *)
(* contract: the kernel takes no page fault, which would halt it, inside   *)
(* its own heap (memory.c:51-82, kheap.c:104-154).  Past that memory an    *)
(* entry of a table that was not cleared may pass for an address.          *)
HeapBacked ==
  HeapStart + peak <= LowPages + NFrames =>
    \A v \in Heap : table[Dir(v)] # NoTable /\ pte[v] - LowPages \in Frames

(* The heap pages that have memory to themselves.  Their frames, those of  *)
(* the index and the scratch page's are the highest of memory, and it is   *)
(* from the low end that a growing heap takes pages as they are: up to     *)
(* here the two do not meet, whatever was removed and installed again.     *)
OwnPages == (LowPages + NFrames - 1 + IndexStart - 2 * HeapStart) \div 2

(* A heap that never had more than OwnPages pages: no two pages in use are *)
(* on the same page of memory, none lies over the kernel or over a page    *)
(* table, those installed are marked used, and there always was a free one *)
(* (memory.c:10-82, kheap.c:104-154).                                      *)
OwnedExclusively ==
  ~stopped /\ peak <= OwnPages =>
    /\ \A v \in InUse : \A u \in InUse \ {v} : pte[u] # pte[v]
    /\ \A v \in InUse : pte[v] - LowPages \in Frames
    /\ \A v \in installed : memMap[pte[v] - LowPages] = 1
    /\ ~Trampling /\ ~stray

(* ... and every used page is installed somewhere or holds a page table:   *)
(* shrinking and growing the heap loses no memory, although contract keeps *)
(* one page too many mapped (kheap.c:145).                                 *)
NoLostPages ==
  ~stopped /\ peak <= OwnPages =>
    Cardinality({f \in Frames : memMap[f] = 1})
      = Cardinality(installed) + Cardinality({d \in DOMAIN table : table[d] >= 0})

(* Every page get_free_page returns, for a mapping or for a page table,    *)
(* was free: no page is handed out twice (memory.c:9).                     *)
FoundPageWasFree ==
  [][LET pages == {pte'[v] - LowPages : v \in installed' \ installed}
         tables == {table'[d] : d \in {e \in DOMAIN table : table'[e] # table[e]}}
     IN  pages \cap tables = {} /\ \A f \in pages \cup tables : memMap[f] = 0]_vars
==============================================================================
