--------------------------- MODULE PageAllocProofs ---------------------------
(***************************************************************************)
(* Proofs about PageAlloc, for every layout of memory and heap, every size *)
(* of the page tables, and whatever words pages never cleared hold.        *)
(***************************************************************************)
EXTENDS PageAlloc, FiniteSetTheorems, WellFoundedInduction, TLAPS

LEMMA Constants ==
  /\ LowPages \in Nat /\ LowPages > 0 /\ NFrames \in Nat /\ NFrames > 0
  /\ TablePages \in Nat /\ TablePages > 0 /\ Dirs \in Nat /\ Dirs > 0
  /\ Scratch \in Nat /\ IndexStart \in Nat /\ HeapStart \in Nat /\ InitEnd \in Nat
  /\ Scratch < IndexStart /\ IndexStart <= HeapStart /\ HeapStart < InitEnd
  /\ InitEnd <= LowPages + NFrames /\ HeapStart > 0
  /\ HeapMin \in Nat /\ HeapMin > 0 /\ HeapMax \in Nat /\ Dirs * TablePages \in Nat
  /\ InitEnd - HeapStart <= HeapMax /\ HeapStart + HeapMax <= Dirs * TablePages
  /\ \A n \in Sizes : n \in Nat /\ HeapMin <= n /\ n <= HeapMax
<1>1. /\ LowPages \in Nat /\ LowPages > 0 /\ NFrames \in Nat /\ NFrames > 0
      /\ TablePages \in Nat /\ TablePages > 0 /\ Dirs \in Nat /\ Dirs > 0
  BY LayoutAssumption
<1>2. Dirs * TablePages \in Nat BY <1>1
<1>3. {Scratch, IndexStart, HeapStart} \subseteq LowPages .. LowPages + NFrames - 1
  BY LayoutAssumption
<1>4. /\ Scratch \in Int /\ Scratch >= LowPages /\ IndexStart \in Int
      /\ IndexStart >= LowPages /\ HeapStart \in Int /\ HeapStart >= LowPages
  BY <1>1, <1>3
<1>5. /\ Scratch < IndexStart /\ IndexStart <= HeapStart
      /\ InitEnd \in HeapStart + 1 .. LowPages + NFrames
  BY LayoutAssumption
<1>a. InitEnd \in Nat /\ HeapStart < InitEnd /\ InitEnd <= LowPages + NFrames
  BY <1>1, <1>4, <1>5
<1>6. HeapMin \in 1 .. InitEnd - HeapStart
      /\ HeapMax \in InitEnd - HeapStart .. Dirs * TablePages - HeapStart
      /\ Sizes \subseteq HeapMin .. HeapMax
  BY HeapAssumption
<1> QED BY <1>1, <1>2, <1>4, <1>5, <1>6, <1>a

LEMMA DirType ==
  ASSUME NEW v \in Linear PROVE Dir(v) \in 0 .. Dirs - 1
<1> DEFINE q == v \div TablePages
<1>1. v \in Nat /\ v < Dirs * TablePages BY Constants DEF Linear
<1>2. q \in Int /\ v = TablePages * q + (v % TablePages)
      /\ v % TablePages \in 0 .. TablePages - 1
  BY <1>1, Constants
<1>3. TablePages * q <= v /\ v < TablePages * (q + 1) BY <1>1, <1>2, Constants
<1> HIDE DEF q
<1>4. q >= 0 BY <1>1, <1>2, <1>3, Constants
<1>5. q < Dirs BY <1>1, <1>2, <1>3, Constants
<1> QED BY <1>2, <1>4, <1>5, Constants DEF Dir, q

LEMMA LeastNat ==
  ASSUME NEW T, T \subseteq Nat, T # {}
  PROVE  \E n \in T : \A m \in T : n <= m
<1> DEFINE R == {ss \in Nat \X Nat : ss[1] < ss[2]}
<1>1. IsWellFoundedOn(R, Nat) BY NatLessThanWellFounded, Zenon DEF OpToRel
<1>2. \E x \in T : \A y \in T : ~ (<<y, x>> \in R)
  <2> HIDE DEF R
  <2> QED BY <1>1, WFMin
<1>3. PICK x \in T : \A y \in T : ~ (<<y, x>> \in R) BY <1>2
<1>4. \A y \in T : ~(y < x) BY <1>3
<1> QED BY <1>4

(* The scan for a free page ends at a page; if any but page 0 is free, at  *)
(* the highest one that is.                                                *)
LEMMA FirstFreeIsHighest ==
  ASSUME NEW map
  PROVE  /\ FirstFree(map) \in Frames
         /\ \A h \in Frames \ {0} :
              map[h] = 0 => map[FirstFree(map)] = 0 /\ h <= FirstFree(map)
<1> DEFINE free == {f \in Frames \ {0} : map[f] = 0}
           Top(f) == \A g \in free : g <= f
<1>1. free \subseteq Frames /\ 0 \in Frames BY Constants DEF Frames
<1>2. FirstFree(map) = IF free = {} THEN 0 ELSE CHOOSE f \in free : Top(f)
  BY DEF FirstFree
<1>a. \A h \in Frames \ {0} : map[h] = 0 <=> h \in free OBVIOUS
<1>b. \A h \in free : map[h] = 0 OBVIOUS
<1> HIDE DEF free
<1>3. CASE free = {} BY <1>1, <1>2, <1>3, <1>a
<1>4. CASE free # {}
  <2> DEFINE T == {NFrames - f : f \in free}
  <2>0. \A f \in free : NFrames - f \in Nat BY <1>1, Constants DEF Frames
  <2>1. T \subseteq Nat /\ T # {} BY <1>4, <2>0
  <2>2. PICK n \in T : \A m \in T : n <= m
    <3> HIDE DEF T
    <3> QED BY <2>1, LeastNat
  <2>3. PICK f \in free : n = NFrames - f BY <2>2
  <2>4. ASSUME NEW g \in free PROVE g <= f
    <3>1. f \in Int /\ g \in Int /\ NFrames \in Int BY <1>1, Constants DEF Frames
    <3>2. NFrames - f <= NFrames - g BY <2>2, <2>3
    <3> QED BY <3>1, <3>2
  <2>5. \E h \in free : Top(h) BY <2>4
  <2> HIDE DEF Top
  <2>6. FirstFree(map) \in free /\ Top(FirstFree(map)) BY <1>2, <1>4, <2>5
  <2>7. \A h \in free : h <= FirstFree(map) BY <2>6 DEF Top
  <2> QED BY <1>1, <1>a, <1>b, <2>6, <2>7
<1> QED BY <1>3, <1>4
-----------------------------------------------------------------------------
(* What the entries are.  It takes no bound on the heap: a page in a boot  *)
(* table is as setup.s mapped it, as put_page mapped it, or removed.       *)
Kept(v) == table[Dir(v)] # NoTable /\ pte[v] # Zero
EntriesInv ==
  /\ installed \cap kept = {}
  /\ \A v \in installed : table[Dir(v)] # NoTable /\ pte[v] - LowPages \in Frames
  /\ \A v \in kept : Kept(v)
  /\ \A v \in Linear \ installed : table[Dir(v)] = BootTable => pte[v] \in {v, Zero}
  /\ \A v \in Linear : v < LowPages + NFrames => table[Dir(v)] = BootTable

(* How far each loop has come.                                             *)
HeapOf(n) == HeapStart .. HeapStart + n - 1
Backed(n) == HeapOf(n) \subseteq InUse

BootInv ==
  job.kind = "boot" =>
    /\ heapPages = 0 /\ job.to = InitEnd /\ peak = InitEnd - HeapStart
    /\ job.at \in {Scratch} \cup IndexStart .. InitEnd
    /\ installed = IF job.at = Scratch THEN {}
                   ELSE {Scratch} \cup IndexStart .. job.at - 1
IdleInv == job.kind = "idle" => Backed(heapPages)
ExpandInv ==
  job.kind = "expand" =>
    /\ heapPages <= job.at /\ job.at <= job.to /\ job.to <= peak
    /\ Backed(job.at)
ContractInv ==
  job.kind = "contract" =>
    /\ job.at \in job.to - 1 .. heapPages - 1 /\ job.to \in 1 .. heapPages
    /\ Backed(job.at + 1)
LoopsInv == heapPages <= peak /\ BootInv /\ IdleInv /\ ExpandInv /\ ContractInv

(* A heap that was never larger than OwnPages: the pages in use have their *)
(* places below Reach, get_free_page hands out frames from Top on, and     *)
(* nothing but installed pages uses one.                                   *)
Used == {f \in Frames : memMap[f] = 1}
Reach == {Scratch} \cup IndexStart .. HeapStart + peak - 1
Room == 1 + HeapStart - IndexStart + peak
Top == NFrames - Room
OwnState ==
  /\ ~stray
  /\ InUse \subseteq Reach
  /\ \A f \in Used : f >= Top
  /\ \A v \in installed : memMap[pte[v] - LowPages] = 1
  /\ \A v \in installed : \A u \in installed \ {v} : pte[u] # pte[v]
  /\ Cardinality(Used) = Cardinality(installed)
  /\ \A d \in DOMAIN table : ~(table[d] >= 0)
OwnInv == ~stopped /\ peak <= OwnPages => OwnState

Inv == TypeOK /\ LoopsInv /\ EntriesInv /\ OwnInv

(* What put_page does to the entries and pages, with the page f it finds   *)
(* for the mapping and the page g for a missing page table.                *)
Mapped(v, f, g) ==
  LET new == table[Dir(v)] = NoTable
  IN  /\ memMap' = [x \in Frames |-> IF x = f \/ (new /\ x = g) THEN 1 ELSE memMap[x]]
      /\ table' = [d \in 0 .. Dirs - 1 |-> IF new /\ d = Dir(v) THEN g ELSE table[d]]
      /\ pte' \in [Linear -> Entries] /\ pte'[v] = LowPages + f
      /\ \A u \in Linear \ {v} : pte'[u] = pte[u] \/ (new /\ Dir(u) = Dir(v))
      /\ installed' = installed \cup {v} /\ kept' = kept \ {v} /\ stray' \in BOOLEAN
      /\ ~stray /\ ~new /\ table[Dir(v)] = BootTable /\ memMap[f] = 0 => ~stray'

LEMMA MapNewMaps ==
  ASSUME TypeOK, NEW v \in Linear, MapNew(v)
  PROVE  \E f, g \in Frames : f = FirstFree(memMap) /\ Mapped(v, f, g)
<1> DEFINE f == FirstFree(memMap)
           used == Mark(memMap, f)
           g == FirstFree(used)
           new == table[Dir(v)] = NoTable
           t == IF new THEN g ELSE table[Dir(v)]
<1>1. f \in Frames /\ g \in Frames BY FirstFreeIsHighest
<1>2. Dir(v) \in 0 .. Dirs - 1 BY DirType
<1>3. /\ memMap' = IF new THEN Mark(used, g) ELSE used
      /\ table' = [table EXCEPT ![Dir(v)] = t]
      /\ \E junk \in [{u \in Linear : new /\ Dir(u) = Dir(v) /\ u # v} -> Stale] :
           pte' = [u \in Linear |-> IF u = v THEN LowPages + f
                                    ELSE IF u \in DOMAIN junk THEN junk[u]
                                    ELSE pte[u]]
      /\ installed' = installed \cup {v} /\ kept' = kept \ {v}
      /\ stray' = (stray \/ memMap[f] = 1 \/ (new /\ used[g] = 1) \/ ~Reachable(t))
  BY DEF MapNew
<1>4. /\ memMap \in [Frames -> {0, 1}] /\ pte \in [Linear -> Entries]
      /\ table \in [0 .. Dirs - 1 -> Frames \cup {NoTable, BootTable}]
  BY DEF TypeOK
<1>5. used = [x \in Frames |-> IF x = f THEN 1 ELSE memMap[x]]
  BY <1>1, <1>4 DEF Mark
<1> HIDE DEF f, g
<1>6. memMap' = [x \in Frames |-> IF x = f \/ (new /\ x = g) THEN 1 ELSE memMap[x]]
  BY <1>1, <1>3, <1>5 DEF Mark
<1>7. table' = [d \in 0 .. Dirs - 1 |-> IF new /\ d = Dir(v) THEN g ELSE table[d]]
  BY <1>2, <1>3, <1>4
<1>8. LowPages + f \in Entries BY <1>1, Constants DEF Frames, Memory, Entries
<1>9. /\ pte' \in [Linear -> Entries] /\ pte'[v] = LowPages + f
      /\ \A u \in Linear \ {v} : pte'[u] = pte[u] \/ (new /\ Dir(u) = Dir(v))
  BY <1>3, <1>4, <1>8, StaleAssumption
<1>10. stray' \in BOOLEAN BY <1>3
<1>11. ASSUME ~stray, ~new, table[Dir(v)] = BootTable, memMap[f] = 0 PROVE ~stray'
  <2>1. t = -2 BY <1>11 DEF BootTable
  <2>2. Reachable(t) BY <2>1 DEF Reachable
  <2>3. ~(memMap[f] = 1) BY <1>11
  <2> QED BY <1>3, <1>11, <2>2, <2>3, Zenon
<1>12. Mapped(v, f, g) BY <1>3, <1>6, <1>7, <1>9, <1>10, <1>11 DEF Mapped
<1> QED BY <1>1, <1>12 DEF f
-----------------------------------------------------------------------------
(* put_page keeps the entries what they are.                               *)
LEMMA MapNewKeepsEntries ==
  ASSUME TypeOK, EntriesInv, NEW v \in Linear, MapNew(v)
  PROVE  /\ memMap' \in [Frames -> {0, 1}] /\ pte' \in [Linear -> Entries]
         /\ table' \in [0 .. Dirs - 1 -> Frames \cup {NoTable, BootTable}]
         /\ installed' = installed \cup {v} /\ kept' = kept \ {v}
         /\ installed' \subseteq Linear /\ kept' \subseteq Linear
         /\ stray' \in BOOLEAN /\ EntriesInv'
<1>1. PICK f \in Frames, g \in Frames : Mapped(v, f, g) BY MapNewMaps
<1> DEFINE new == table[Dir(v)] = NoTable
<1>2. /\ memMap' = [x \in Frames |-> IF x = f \/ (new /\ x = g) THEN 1 ELSE memMap[x]]
      /\ table' = [d \in 0 .. Dirs - 1 |-> IF new /\ d = Dir(v) THEN g ELSE table[d]]
      /\ pte' \in [Linear -> Entries] /\ pte'[v] = LowPages + f
      /\ \A u \in Linear \ {v} : pte'[u] = pte[u] \/ (new /\ Dir(u) = Dir(v))
      /\ installed' = installed \cup {v} /\ kept' = kept \ {v} /\ stray' \in BOOLEAN
  BY <1>1 DEF Mapped
<1>3. /\ memMap \in [Frames -> {0, 1}] /\ pte \in [Linear -> Entries]
      /\ table \in [0 .. Dirs - 1 -> Frames \cup {NoTable, BootTable}]
      /\ installed \subseteq Linear /\ kept \subseteq Linear
  BY DEF TypeOK
<1>4. \A u \in Linear : Dir(u) \in 0 .. Dirs - 1 BY DirType
<1>5. f \in Int /\ f >= 0 /\ g \in Int /\ g >= 0 /\ LowPages \in Int /\ LowPages > 0
  BY Constants DEF Frames
<1>6. g # NoTable /\ g # BootTable BY <1>5 DEF NoTable, BootTable
<1>7. ASSUME NEW u \in Linear \ {v}, table[Dir(u)] # NoTable
      PROVE  pte'[u] = pte[u] /\ table'[Dir(u)] = table[Dir(u)]
  BY <1>2, <1>4, <1>7
<1>8. table'[Dir(v)] # NoTable /\ pte'[v] - LowPages \in Frames
  BY <1>2, <1>4, <1>5, <1>6
<1>9. \A u \in Linear : table'[Dir(u)] = BootTable => table[Dir(u)] = BootTable
  BY <1>2, <1>4, <1>6
<1>10. memMap' \in [Frames -> {0, 1}]
       /\ table' \in [0 .. Dirs - 1 -> Frames \cup {NoTable, BootTable}]
  BY <1>2, <1>3
<1>11. ASSUME NEW u \in installed'
       PROVE  table'[Dir(u)] # NoTable /\ pte'[u] - LowPages \in Frames
  <2>1. CASE u = v BY <1>8, <2>1
  <2>2. CASE u # v
    <3>1. u \in installed /\ u \in Linear \ {v} BY <1>2, <1>3, <2>2
    <3>2. table[Dir(u)] # NoTable /\ pte[u] - LowPages \in Frames BY <3>1 DEF EntriesInv
    <3> QED BY <1>7, <3>1, <3>2
  <2> QED BY <2>1, <2>2
<1>12. ASSUME NEW u \in kept' PROVE Kept(u)'
  <2>1. u \in kept /\ u \in Linear \ {v} BY <1>2, <1>3
  <2>2. table[Dir(u)] # NoTable /\ pte[u] # Zero BY <2>1 DEF EntriesInv, Kept
  <2> QED BY <1>7, <2>1, <2>2 DEF Kept
<1>13. ASSUME NEW u \in Linear \ installed', table'[Dir(u)] = BootTable
       PROVE  pte'[u] \in {u, Zero}
  <2>1. u \in Linear \ {v} /\ u \in Linear \ installed BY <1>2
  <2>2. table[Dir(u)] = BootTable BY <1>9, <1>13, <2>1
  <2>3. pte'[u] = pte[u] BY <1>7, <2>1, <2>2 DEF BootTable, NoTable
  <2> QED BY <2>1, <2>2, <2>3 DEF EntriesInv
<1>14. ASSUME NEW u \in Linear, u < LowPages + NFrames PROVE table'[Dir(u)] = BootTable
  <2>1. table[Dir(u)] = BootTable BY <1>14 DEF EntriesInv
  <2>2. new => Dir(u) # Dir(v) BY <2>1 DEF BootTable, NoTable
  <2> QED BY <1>2, <1>4, <2>1, <2>2
<1>15. installed' \cap kept' = {} BY <1>2 DEF EntriesInv
<1>16. EntriesInv' BY <1>11, <1>12, <1>13, <1>14, <1>15 DEF EntriesInv, Dir, Linear
<1> QED BY <1>2, <1>3, <1>10, <1>16

LEMMA FiniteParts ==
  ASSUME TypeOK
  PROVE  /\ IsFiniteSet(Used) /\ IsFiniteSet(installed)
         /\ Cardinality(Used) \in Nat /\ Cardinality(installed) \in Nat
<1>1. IsFiniteSet(Frames) /\ IsFiniteSet(Linear)
  <2>1. NFrames - 1 \in Int /\ Dirs * TablePages - 1 \in Int /\ 0 \in Int BY Constants
  <2> QED BY <2>1, FS_Interval DEF Frames, Linear
<1>2. Used \subseteq Frames /\ installed \subseteq Linear BY DEF Used, TypeOK
<1>3. IsFiniteSet(Used) /\ IsFiniteSet(installed) BY <1>1, <1>2, FS_Subset
<1> QED BY <1>3, FS_CardinalityType

(* The places of the pages in use are Room many, and the memory behind     *)
(* those that are kept lies below Top.                                     *)
LEMMA OwnNumbers ==
  ASSUME NEW p \in Int, p >= 0, p <= OwnPages
  PROVE  /\ HeapStart + p < LowPages + NFrames
         /\ 1 + HeapStart - IndexStart + p < NFrames
         /\ HeapStart + p - 1 - LowPages < NFrames - (1 + HeapStart - IndexStart + p)
<1> DEFINE x == LowPages + NFrames - 1 + IndexStart - 2 * HeapStart
<1>1. x \in Int BY Constants
<1>2. OwnPages = x \div 2 BY DEF OwnPages
<1> HIDE DEF x
<1>3. PICK q \in Int : q = x \div 2 BY <1>1
<1>4. 2 * q <= x BY <1>1, <1>3
<1>a. p <= q BY <1>2, <1>3
<1>5. 2 * p <= x BY <1>1, <1>4, <1>a
<1>6. 2 * p <= LowPages + NFrames - 1 + IndexStart - 2 * HeapStart BY <1>5 DEF x
<1>7. IndexStart <= LowPages + NFrames - 1 /\ IndexStart > LowPages
  BY Constants, LayoutAssumption
<1> QED BY <1>6, <1>7, Constants

LEMMA ReachSize ==
  ASSUME NEW p \in Int, p >= 0
  PROVE  /\ IsFiniteSet({Scratch} \cup IndexStart .. HeapStart + p - 1)
         /\ Cardinality({Scratch} \cup IndexStart .. HeapStart + p - 1)
              = 1 + HeapStart - IndexStart + p
<1> DEFINE I == IndexStart .. HeapStart + p - 1
<1>1. IndexStart \in Int /\ HeapStart + p - 1 \in Int BY Constants
<1>2. /\ IsFiniteSet(I)
      /\ Cardinality(I) = IF IndexStart > HeapStart + p - 1 THEN 0
                          ELSE (HeapStart + p - 1) - IndexStart + 1
  BY <1>1, FS_Interval
<1>3. Cardinality(I) = HeapStart + p - IndexStart BY <1>2, Constants
<1>4. Scratch \notin I BY Constants
<1>5. IsFiniteSet(I \cup {Scratch}) /\ Cardinality(I \cup {Scratch}) = Cardinality(I) + 1
  <2> HIDE DEF I
  <2> QED BY <1>2, <1>4, FS_AddElement
<1>6. I \cup {Scratch} = {Scratch} \cup I OBVIOUS
<1>7. Cardinality(I) + 1 = 1 + HeapStart - IndexStart + p BY <1>3, Constants
<1> QED BY <1>5, <1>6, <1>7

(* A set of frames from Top on that is smaller than their number leaves    *)
(* one of them free.                                                       *)
LEMMA SomeFree ==
  ASSUME NEW S \in SUBSET Frames, NEW k \in Nat, k <= NFrames, NEW c \in Nat,
         IsFiniteSet(S), Cardinality(S) = c, c < k
  PROVE  \E h \in Frames : h >= NFrames - k /\ h \notin S
<1> DEFINE I == NFrames - k .. NFrames - 1
<1>1. NFrames - k \in Int /\ NFrames - 1 \in Int BY Constants
<1>2. IsFiniteSet(I) /\ Cardinality(I) = IF NFrames - k > NFrames - 1 THEN 0
                                       ELSE (NFrames - 1) - (NFrames - k) + 1
  BY <1>1, FS_Interval
<1>3. Cardinality(I) = k BY <1>2, Constants
<1>4. I \subseteq Frames BY Constants DEF Frames
<1>5. ~(I \subseteq S)
  <2>1. I \subseteq S => Cardinality(I) <= Cardinality(S)
    <3> HIDE DEF I
    <3> QED BY FS_Subset
  <2> QED BY <1>3, <2>1
<1>6. PICK h \in I : h \notin S BY <1>5
<1>7. h >= NFrames - k BY <1>1, <1>6
<1> QED BY <1>4, <1>6, <1>7

LEMMA InstalledAreFrames ==
  ASSUME TypeOK, EntriesInv
  PROVE  \A v \in installed : /\ v \in Linear /\ pte[v] \in Int /\ LowPages \in Int
                              /\ pte[v] - LowPages \in Frames
<1>1. installed \subseteq Linear /\ pte \in [Linear -> Entries] BY DEF TypeOK
<1>2. Entries \subseteq Int BY Constants DEF Entries, Memory, Zero, Absent, Beyond
<1>3. LowPages \in Int BY Constants
<1>4. \A v \in installed : v \in Linear /\ pte[v] \in Int BY <1>1, <1>2
<1>5. \A v \in installed : pte[v] - LowPages \in Frames BY DEF EntriesInv
<1> QED BY <1>3, <1>4, <1>5

(* put_page in a heap that has its memory to itself: one of the frames     *)
(* from Top on is free, and none of those is behind a page that is kept.   *)
LEMMA MapNewOwns ==
  ASSUME TypeOK, EntriesInv, OwnState, peak <= OwnPages, peak' = peak,
         NEW v \in Linear, v \in Reach, v \notin installed, MapNew(v)
  PROVE  OwnState'
<1>1. PICK f \in Frames, g \in Frames : f = FirstFree(memMap) /\ Mapped(v, f, g)
  BY MapNewMaps
<1>2. /\ peak \in Int /\ peak >= 0 /\ HeapStart + peak < LowPages + NFrames
      /\ Room < NFrames /\ Room \in Nat /\ Top >= 1 /\ Top \in Int
  <2>1. peak \in Int /\ peak >= 0 BY Constants DEF TypeOK
  <2>2. HeapStart + peak < LowPages + NFrames /\ 1 + HeapStart - IndexStart + peak < NFrames
    BY <2>1, OwnNumbers
  <2> QED BY <2>1, <2>2, Constants DEF Room, Top
<1>3. table[Dir(v)] = BootTable
  <2>1. v < LowPages + NFrames BY <1>2, Constants DEF Reach
  <2> QED BY <2>1 DEF EntriesInv
<1>4. /\ memMap' = [x \in Frames |-> IF x = f THEN 1 ELSE memMap[x]]
      /\ table' = [d \in 0 .. Dirs - 1 |-> table[d]] /\ pte'[v] = LowPages + f
      /\ \A u \in Linear \ {v} : pte'[u] = pte[u]
      /\ installed' = installed \cup {v} /\ kept' = kept \ {v}
      /\ ~stray /\ memMap[f] = 0 => ~stray'
  BY <1>1, <1>3 DEF Mapped, BootTable, NoTable
<1>5. /\ memMap \in [Frames -> {0, 1}]
      /\ table \in [0 .. Dirs - 1 -> Frames \cup {NoTable, BootTable}]
      /\ installed \subseteq Linear
  BY DEF TypeOK
<1>6. /\ IsFiniteSet(Used) /\ IsFiniteSet(installed)
      /\ Cardinality(Used) \in Nat /\ Cardinality(installed) \in Nat
  BY FiniteParts
<1>7. Cardinality(installed') = Cardinality(installed) + 1 /\ IsFiniteSet(installed')
  BY <1>4, <1>6, FS_AddElement
<1>8. Cardinality(Used) < Room
  <2>1. IsFiniteSet(Reach) /\ Cardinality(Reach) = Room
    BY <1>2, ReachSize DEF Reach, Room
  <2>2. installed' \subseteq Reach BY <1>4 DEF OwnState, InUse
  <2>3. Cardinality(installed') <= Cardinality(Reach) BY <2>1, <2>2, FS_Subset
  <2> QED BY <1>2, <1>6, <1>7, <2>1, <2>3 DEF OwnState
<1>9. memMap[f] = 0 /\ f >= Top
  <2>1. Used \in SUBSET Frames BY DEF Used
  <2>2. PICK h \in Frames : h >= NFrames - Room /\ h \notin Used
    <3>1. Room <= NFrames BY <1>2, Constants
    <3> QED BY <1>2, <1>6, <1>8, <2>1, <3>1, SomeFree
  <2>3. h # 0 /\ h \in Int /\ f \in Int BY <1>2, <2>2, Constants DEF Top, Frames
  <2>4. memMap[h] = 0 BY <1>5, <2>2 DEF Used
  <2>5. memMap[f] = 0 /\ h <= f BY <1>1, <2>3, <2>4, FirstFreeIsHighest
  <2> QED BY <1>2, <2>2, <2>3, <2>5 DEF Top
<1>10. ~stray' BY <1>4, <1>9 DEF OwnState
<1>11. Reach' = Reach /\ Top' = Top BY DEF Reach, Top, Room
<1>12. InUse' \subseteq Reach' BY <1>4, <1>11 DEF OwnState, InUse
<1>13. Used' = Used \cup {f} /\ f \notin Used
  <2>1. \A x \in Frames : memMap'[x] = 1 <=> (x = f \/ memMap[x] = 1) BY <1>4
  <2> QED BY <1>9, <2>1 DEF Used
<1>14. \A x \in Used' : x >= Top' BY <1>9, <1>11, <1>13 DEF OwnState
<1>15. ASSUME NEW u \in installed
       PROVE  /\ pte'[u] = pte[u] /\ pte[u] - LowPages \in Frames /\ pte[u] # LowPages + f
              /\ memMap'[pte'[u] - LowPages] = 1
  <2>1. pte'[u] = pte[u] BY <1>4, <1>5
  <2>2. /\ pte[u] - LowPages \in Frames /\ pte[u] \in Int /\ LowPages \in Int
        /\ memMap[pte[u] - LowPages] = 1
    BY InstalledAreFrames DEF OwnState
  <2>3. pte[u] # LowPages + f
    <3>1. f \in Int BY <1>1, Constants DEF Frames
    <3>2. pte[u] - LowPages # f BY <1>9, <2>2
    <3> QED BY <2>2, <3>1, <3>2
  <2> QED BY <1>4, <2>1, <2>2, <2>3
<1>16. memMap'[pte'[v] - LowPages] = 1
  <2>1. (LowPages + f) - LowPages = f BY <1>1, Constants DEF Frames
  <2> QED BY <1>4, <2>1
<1>17. \A u \in installed' : memMap'[pte'[u] - LowPages] = 1 BY <1>4, <1>15, <1>16
<1>18. ASSUME NEW u \in installed', NEW w \in installed' \ {u} PROVE pte'[w] # pte'[u]
  <2>1. CASE u = v
    <3>1. w \in installed BY <1>4, <2>1
    <3> QED BY <1>4, <1>15, <2>1, <3>1
  <2>2. CASE w = v
    <3>1. u \in installed BY <1>4, <2>2
    <3> QED BY <1>4, <1>15, <2>2, <3>1
  <2>3. CASE u # v /\ w # v
    <3>1. u \in installed /\ w \in installed \ {u} BY <1>4, <2>3
    <3>2. pte[w] # pte[u] BY <3>1 DEF OwnState
    <3> QED BY <1>15, <3>1, <3>2
  <2> QED BY <2>1, <2>2, <2>3
<1>19. Cardinality(Used') = Cardinality(installed')
  <2>1. Cardinality(Used \cup {f}) = Cardinality(Used) + 1 BY <1>6, <1>13, FS_AddElement
  <2> QED BY <1>7, <1>13, <2>1 DEF OwnState
<1>20. \A d \in DOMAIN table' : ~(table'[d] >= 0)
  <2>1. DOMAIN table = 0 .. Dirs - 1 BY <1>5
  <2> QED BY <1>4, <2>1 DEF OwnState
<1> QED BY <1>10, <1>12, <1>14, <1>17, <1>18, <1>19, <1>20 DEF OwnState
-----------------------------------------------------------------------------
(* remove_page keeps the entries what they are.                            *)
LEMMA RemovePageKeepsEntries ==
  ASSUME TypeOK, EntriesInv, NEW v \in Linear, RemovePage(v), UNCHANGED table
  PROVE  /\ memMap' \in [Frames -> {0, 1}] /\ pte' \in [Linear -> Entries]
         /\ installed' \subseteq Linear /\ kept' \subseteq Linear /\ stray' \in BOOLEAN
         /\ InUse \ {v} \subseteq InUse' /\ EntriesInv'
<1>1. /\ memMap \in [Frames -> {0, 1}] /\ pte \in [Linear -> Entries]
      /\ installed \subseteq Linear /\ kept \subseteq Linear
  BY DEF TypeOK
<1>2. stray' \in BOOLEAN BY DEF RemovePage
<1>3. CASE ~(table[Dir(v)] # NoTable /\ pte[v] >= 0)
  <2>1. UNCHANGED <<memMap, pte, installed, kept, table>> BY <1>3 DEF RemovePage
  <2> QED BY <1>1, <1>2, <2>1 DEF EntriesInv, InUse, Kept
<1>4. CASE table[Dir(v)] # NoTable /\ pte[v] >= 0
  <2>1. /\ memMap' = IF pte[v] - LowPages \in Frames
                     THEN [memMap EXCEPT ![pte[v] - LowPages] = 0] ELSE memMap
        /\ pte' = [pte EXCEPT ![v] = Zero]
        /\ installed' = installed \ {v} /\ kept' = kept \ {v}
    BY <1>4 DEF RemovePage, FreePage
  <2>2. \A u \in Linear : pte'[u] = IF u = v THEN Zero ELSE pte[u] BY <1>1, <2>1
  <2>3. memMap' \in [Frames -> {0, 1}] /\ pte' \in [Linear -> Entries]
    BY <1>1, <2>1 DEF Entries
  <2>4. EntriesInv'
    <3>1. installed' \cap kept' = {} BY <2>1 DEF EntriesInv
    <3>2. \A u \in installed' : table'[Dir(u)] # NoTable /\ pte'[u] - LowPages \in Frames
      BY <1>1, <2>1, <2>2 DEF EntriesInv
    <3>3. \A u \in kept' : Kept(u)' BY <1>1, <2>1, <2>2 DEF EntriesInv, Kept
    <3>4. \A u \in Linear \ installed' :
            table'[Dir(u)] = BootTable => pte'[u] \in {u, Zero}
      BY <2>1, <2>2 DEF EntriesInv
    <3>5. \A u \in Linear : u < LowPages + NFrames => table'[Dir(u)] = BootTable
      BY DEF EntriesInv
    <3> QED BY <3>1, <3>2, <3>3, <3>4, <3>5 DEF EntriesInv, Dir, Linear
  <2>5. InUse \ {v} \subseteq InUse' BY <2>1 DEF InUse
  <2> QED BY <1>1, <1>2, <2>1, <2>3, <2>4, <2>5
<1> QED BY <1>3, <1>4

(* A kept page of such a heap has the memory of its own number, below Top. *)
LEMMA KeptAreLow ==
  ASSUME TypeOK, EntriesInv, OwnState, peak <= OwnPages, NEW v \in kept
  PROVE  /\ v \in Linear /\ table[Dir(v)] = BootTable /\ pte[v] = v
         /\ v \in Int /\ v >= LowPages /\ v - LowPages \in Frames /\ v - LowPages < Top
<1>1. peak \in Int /\ peak >= 0 BY Constants DEF TypeOK
<1>2. /\ HeapStart + peak < LowPages + NFrames
      /\ HeapStart + peak - 1 - LowPages < NFrames - (1 + HeapStart - IndexStart + peak)
  BY <1>1, OwnNumbers
<1>3. v \in Reach /\ v \in Linear /\ v \notin installed
  BY DEF OwnState, InUse, TypeOK, EntriesInv
<1>4. Scratch >= LowPages /\ IndexStart >= LowPages BY LayoutAssumption, Constants
<1>5. v \in Int /\ v >= LowPages /\ v <= HeapStart + peak - 1
  BY <1>1, <1>3, <1>4, Constants DEF Reach
<1>6. v < LowPages + NFrames /\ v - LowPages < Top /\ v - LowPages \in Frames
  BY <1>1, <1>2, <1>5, Constants DEF Top, Room, Frames
<1>7. table[Dir(v)] = BootTable BY <1>3, <1>6 DEF EntriesInv
<1>8. pte[v] = v BY <1>3, <1>7 DEF EntriesInv, Kept
<1> QED BY <1>3, <1>5, <1>6, <1>7, <1>8

(* remove_page in such a heap: an installed page gives its frame back, a   *)
(* kept page the frame of its number, which nobody uses.                   *)
LEMMA RemovePageOwns ==
  ASSUME TypeOK, EntriesInv, OwnState, peak <= OwnPages,
         NEW v \in Linear, v < LowPages + NFrames, v \in InUse, RemovePage(v),
         UNCHANGED <<table, peak>>
  PROVE  OwnState'
<1>1. /\ memMap \in [Frames -> {0, 1}] /\ pte \in [Linear -> Entries]
      /\ table \in [0 .. Dirs - 1 -> Frames \cup {NoTable, BootTable}]
      /\ installed \subseteq Linear
  BY DEF TypeOK
<1>2. table[Dir(v)] = BootTable BY DEF EntriesInv
<1>3. Reachable(table[Dir(v)]) BY <1>2 DEF Reachable, BootTable
<1>4. Reach' = Reach /\ Top' = Top BY DEF Reach, Top, Room
<1>5. pte[v] # Beyond
  <2>1. CASE v \in installed
    <3>1. pte[v] - LowPages \in Frames BY <2>1 DEF EntriesInv
    <3> QED BY <3>1, Constants DEF Frames, Beyond
  <2>2. CASE v \notin installed
    <3>1. pte[v] \in {v, Zero} BY <1>2, <2>2 DEF EntriesInv
    <3> QED BY <3>1, Constants DEF Zero, Beyond, Linear
  <2> QED BY <2>1, <2>2
<1>6. ~stray' BY <1>3, <1>5 DEF RemovePage, OwnState
<1>7. CASE ~(pte[v] >= 0)
  <2>1. UNCHANGED <<memMap, pte, installed, kept, table>> BY <1>7 DEF RemovePage
  <2> QED BY <1>4, <1>6, <2>1 DEF OwnState, InUse, Used
<1>8. CASE pte[v] >= 0
  <2> DEFINE f == pte[v] - LowPages
  <2>1. /\ memMap' = IF f \in Frames THEN [memMap EXCEPT ![f] = 0] ELSE memMap
        /\ pte' = [pte EXCEPT ![v] = Zero]
        /\ installed' = installed \ {v} /\ kept' = kept \ {v}
    BY <1>2, <1>8 DEF RemovePage, FreePage, BootTable, NoTable
  <2>2. \A u \in Linear : u # v => pte'[u] = pte[u] BY <1>1, <2>1
  <2>3. InUse' \subseteq Reach' BY <1>4, <2>1 DEF OwnState, InUse
  <2>4. \A d \in DOMAIN table' : ~(table'[d] >= 0) BY DEF OwnState
  <2>5. \A u \in installed' : \A w \in installed' \ {u} : pte'[w] # pte'[u]
    BY <1>1, <2>1, <2>2 DEF OwnState
  <2>6. Used' \subseteq Used BY <1>1, <2>1 DEF Used
  <2>7. \A x \in Used' : x >= Top' BY <1>4, <2>6 DEF OwnState
  <2>8. \A u \in installed : u # v => pte[u] - LowPages # f
    <3> SUFFICES ASSUME NEW u \in installed, u # v PROVE pte[u] - LowPages # f
      OBVIOUS
    <3>1. /\ memMap[pte[u] - LowPages] = 1 /\ pte[u] - LowPages \in Frames
          /\ pte[u] \in Int /\ LowPages \in Int
      BY InstalledAreFrames DEF OwnState
    <3>2. CASE v \in installed
      <4>1. pte[v] # pte[u] /\ pte[v] \in Int BY <3>2, InstalledAreFrames DEF OwnState
      <4> QED BY <3>1, <4>1
    <3>3. CASE v \in kept
      <4>1. f < Top /\ f \in Int /\ Top \in Int
        <5>1. pte[v] = v /\ v \in Int /\ v - LowPages < Top BY <3>3, KeptAreLow
        <5>2. Top \in Int BY Constants DEF Top, Room, TypeOK
        <5> QED BY <3>1, <5>1, <5>2
      <4>2. pte[u] - LowPages >= Top BY <3>1 DEF OwnState, Used
      <4> HIDE DEF f
      <4> QED BY <3>1, <4>1, <4>2
    <3> QED BY <3>2, <3>3 DEF InUse
  <2>9. ASSUME NEW u \in installed' PROVE memMap'[pte'[u] - LowPages] = 1
    <3>1. u \in installed /\ u # v /\ pte'[u] = pte[u] BY <1>1, <2>1, <2>2
    <3>2. memMap[pte[u] - LowPages] = 1 /\ pte[u] - LowPages \in Frames
      BY <3>1, InstalledAreFrames DEF OwnState
    <3>3. pte[u] - LowPages # f BY <2>8, <3>1
    <3> HIDE DEF f
    <3> QED BY <1>1, <2>1, <3>1, <3>2, <3>3
  <2>10. Cardinality(Used') = Cardinality(installed')
    <3>1. /\ IsFiniteSet(Used) /\ IsFiniteSet(installed)
          /\ Cardinality(Used) \in Nat /\ Cardinality(installed) \in Nat
      BY FiniteParts
    <3>2. CASE v \in installed
      <4>1. f \in Frames /\ memMap[f] = 1 BY <3>2, InstalledAreFrames DEF OwnState
      <4>2. f \in Used BY <4>1 DEF Used
      <4>3. Used' = Used \ {f}
        <5> HIDE DEF f
        <5>1. \A x \in Frames : memMap'[x] = 1 <=> (x # f /\ memMap[x] = 1)
          BY <1>1, <2>1, <4>1
        <5> QED BY <5>1 DEF Used
      <4>4. Cardinality(Used \ {f}) = Cardinality(Used) - 1 BY <3>1, <4>2, FS_RemoveElement
      <4>5. Cardinality(installed \ {v}) = Cardinality(installed) - 1
        BY <3>1, <3>2, FS_RemoveElement
      <4> QED BY <2>1, <4>3, <4>4, <4>5 DEF OwnState
    <3>3. CASE v \in kept
      <4>1. f \in Frames /\ f < Top /\ f \in Int /\ Top \in Int
        <5>1. pte[v] = v /\ v - LowPages \in Frames /\ v - LowPages < Top BY <3>3, KeptAreLow
        <5>2. Top \in Int /\ Frames \subseteq Int BY Constants DEF Top, Room, TypeOK, Frames
        <5> QED BY <5>1, <5>2
      <4>2. memMap[f] # 1
        <5> HIDE DEF f
        <5> QED BY <4>1 DEF OwnState, Used
      <4>3. Used' = Used
        <5> HIDE DEF f
        <5>1. \A x \in Frames : memMap'[x] = 1 <=> memMap[x] = 1 BY <1>1, <2>1, <4>1, <4>2
        <5> QED BY <5>1 DEF Used
      <4>4. v \notin installed BY <3>3 DEF EntriesInv
      <4>5. installed' = installed BY <2>1, <4>4
      <4> QED BY <4>3, <4>5 DEF OwnState
    <3> QED BY <3>2, <3>3 DEF InUse
  <2> QED BY <1>6, <2>3, <2>4, <2>5, <2>7, <2>9, <2>10 DEF OwnState
<1> QED BY <1>7, <1>8
-----------------------------------------------------------------------------
LEMMA InvInit == Init => Inv
<1> SUFFICES ASSUME Init PROVE Inv OBVIOUS
<1>1. /\ 0 \in 0 .. HeapMax /\ {Scratch, InitEnd} \subseteq 0 .. Dirs * TablePages
      /\ InitEnd - HeapStart \in 0 .. HeapMax
  BY Constants
<1>2. pte \in [Linear -> Entries] BY DEF Init, Entries
<1>3. TypeOK BY <1>1, <1>2 DEF Init, TypeOK
<1>4. LoopsInv
  <2>1. heapPages <= peak BY Constants DEF Init
  <2> QED BY <2>1 DEF Init, LoopsInv, BootInv, IdleInv, ExpandInv, ContractInv
<1>5. EntriesInv
  <2>1. \A v \in Linear : pte[v] \in {v, Zero} BY DEF Init
  <2>2. ASSUME NEW v \in Linear, v < LowPages + NFrames PROVE table[Dir(v)] = BootTable
    <3>1. Dir(v) \in 0 .. Dirs - 1 BY DirType
    <3>2. PICK q \in Int : q = Dir(v) BY <3>1
    <3>3. q * TablePages <= v
      <4>1. v \in Int /\ q = v \div TablePages BY <3>2, Constants DEF Linear, Dir
      <4>2. v = TablePages * q + (v % TablePages) /\ v % TablePages \in 0 .. TablePages - 1
        BY <4>1, Constants
      <4> QED BY <4>1, <4>2, Constants
    <3>4. q * TablePages < LowPages + NFrames
      <4>1. v \in Int /\ q * TablePages \in Int BY Constants DEF Linear
      <4> QED BY <2>2, <3>3, <4>1, Constants
    <3> QED BY <3>1, <3>2, <3>4 DEF Init
  <2> QED BY <2>1, <2>2 DEF Init, EntriesInv
<1>6. OwnInv
  <2>1. Used = {} /\ installed = {} BY DEF Init, Used
  <2>2. \A d \in DOMAIN table : ~(table[d] >= 0) BY DEF Init, NoTable, BootTable
  <2> QED BY <2>1, <2>2 DEF Init, OwnInv, OwnState, InUse
<1> QED BY <1>3, <1>4, <1>5, <1>6 DEF Inv

(* Pages of the heap are linear pages.                                     *)
LEMMA HeapInLinear ==
  ASSUME NEW n \in Int, n <= HeapMax
  PROVE  HeapOf(n) \subseteq Linear
BY Constants DEF HeapOf, Linear

(* The type of the loop under way.                                         *)
LEMMA JobType ==
  ASSUME Inv
  PROVE  /\ job \in [kind : {"idle", "boot", "expand", "contract"},
                     at : 0 .. Dirs * TablePages, to : 0 .. Dirs * TablePages]
         /\ job.at \in Int /\ job.at >= 0 /\ job.to \in Int /\ job.to >= 0
         /\ heapPages \in Int /\ heapPages >= 0 /\ heapPages <= HeapMax
         /\ peak \in Int /\ peak >= 0 /\ peak <= HeapMax /\ heapPages <= peak
<1>1. job.at \in 0 .. Dirs * TablePages /\ job.to \in 0 .. Dirs * TablePages
      /\ heapPages \in 0 .. HeapMax /\ peak \in 0 .. HeapMax
  BY DEF Inv, TypeOK
<1> QED BY <1>1, Constants DEF Inv, TypeOK, LoopsInv

LEMMA BootPageInv == ASSUME Inv, BootPage PROVE Inv'
<1> DEFINE v == job.at
           next == IF v = Scratch THEN IndexStart ELSE v + 1
<1>1. /\ ~stray /\ ~stopped /\ job.kind = "boot" /\ v # job.to /\ MapNew(v)
      /\ job' = [job EXCEPT !.at = next] /\ UNCHANGED <<heapPages, peak, stopped>>
  BY DEF BootPage, At, Running, Advance
<1>2. /\ TypeOK /\ EntriesInv
      /\ job \in [kind : {"idle", "boot", "expand", "contract"},
                  at : 0 .. Dirs * TablePages, to : 0 .. Dirs * TablePages]
  BY DEF Inv, TypeOK
<1>3. /\ heapPages = 0 /\ job.to = InitEnd /\ v \in {Scratch} \cup IndexStart .. InitEnd
      /\ peak = InitEnd - HeapStart
      /\ installed = IF v = Scratch THEN {} ELSE {Scratch} \cup IndexStart .. v - 1
  BY <1>1 DEF Inv, LoopsInv, BootInv
<1>4. v \in Nat /\ v < InitEnd /\ v \in Linear /\ v \notin installed /\ v \in Reach
  <2>1. v \in Nat /\ v < InitEnd BY <1>1, <1>3, Constants
  <2>2. v \in Linear BY <2>1, Constants DEF Linear
  <2>3. v \notin installed BY <1>3, <2>1, Constants
  <2>4. v \in Reach BY <1>3, <2>1, Constants DEF Reach
  <2> QED BY <2>1, <2>2, <2>3, <2>4
<1>5. /\ memMap' \in [Frames -> {0, 1}] /\ pte' \in [Linear -> Entries]
      /\ table' \in [0 .. Dirs - 1 -> Frames \cup {NoTable, BootTable}]
      /\ installed' = installed \cup {v} /\ installed' \subseteq Linear
      /\ kept' \subseteq Linear /\ stray' \in BOOLEAN /\ EntriesInv'
  BY <1>1, <1>2, <1>4, MapNewKeepsEntries
<1>6. next \in IndexStart .. InitEnd BY <1>3, <1>4, Constants
<1>7. job' = [kind |-> "boot", at |-> next, to |-> InitEnd] BY <1>1, <1>2, <1>3
<1>8. OwnInv'
  <2> SUFFICES ASSUME peak <= OwnPages PROVE OwnState' BY <1>1 DEF OwnInv
  <2>1. OwnState BY <1>1 DEF Inv, OwnInv
  <2> QED BY <1>1, <1>2, <1>4, <2>1, MapNewOwns
<1> HIDE DEF v, next
<1>9. TypeOK'
  <2>1. next \in 0 .. Dirs * TablePages /\ InitEnd \in 0 .. Dirs * TablePages
    BY <1>6, Constants
  <2> QED BY <1>1, <1>5, <1>7, <2>1 DEF Inv, TypeOK
<1>10. LoopsInv'
  <2>1. installed' = {Scratch} \cup IndexStart .. next - 1
    <3>1. CASE v = Scratch
      <4>1. next = IndexStart BY <3>1 DEF next
      <4>2. IndexStart .. IndexStart - 1 = {} BY Constants
      <4> QED BY <1>3, <1>5, <3>1, <4>1, <4>2
    <3>2. CASE v # Scratch
      <4>1. v \in IndexStart .. InitEnd /\ next = v + 1 BY <1>3, <3>2 DEF next
      <4>2. IndexStart .. next - 1 = (IndexStart .. v - 1) \cup {v} BY <4>1, Constants
      <4> QED BY <1>3, <1>5, <3>2, <4>2
    <3> QED BY <3>1, <3>2
  <2>2. next # Scratch BY <1>6, Constants
  <2>3. BootInv' BY <1>1, <1>3, <1>6, <1>7, <2>1, <2>2 DEF BootInv
  <2>4. heapPages' <= peak' BY <1>1 DEF Inv, LoopsInv
  <2> QED BY <1>7, <2>3, <2>4 DEF LoopsInv, IdleInv, ExpandInv, ContractInv
<1> QED BY <1>5, <1>8, <1>9, <1>10 DEF Inv

(* A step that leaves the pages alone; a larger heap widens Reach.         *)
LEMMA PagesUnchanged ==
  ASSUME Inv, UNCHANGED <<memMap, table, pte, installed, kept, stopped>>,
         NEW p \in Int, peak' = p, peak <= p,
         stray' = stray \/ stray' = Trampling
  PROVE  EntriesInv' /\ OwnInv' /\ InUse' = InUse
<1>1. EntriesInv' BY DEF Inv, EntriesInv, Kept
<1>2. InUse' = InUse BY DEF InUse
<1>3. OwnInv'
  <2> SUFFICES ASSUME ~stopped, p <= OwnPages PROVE OwnState' BY DEF OwnInv
  <2>1. peak \in Int /\ peak >= 0 BY JobType
  <2>2. OwnPages \in Int
    <3>1. LowPages + NFrames - 1 + IndexStart - 2 * HeapStart \in Int BY Constants
    <3> QED BY <3>1 DEF OwnPages
  <2>3. peak <= OwnPages BY <2>1, <2>2
  <2>4. OwnState BY <2>3 DEF Inv, OwnInv
  <2>5. ~Trampling
    <3> SUFFICES ASSUME NEW v \in InUse PROVE pte[v] \notin 0 .. LowPages - 1
      BY <2>4 DEF Trampling, OwnState
    <3>1. CASE v \in installed
      <4>1. pte[v] - LowPages \in Frames BY <3>1 DEF Inv, EntriesInv
      <4> QED BY <4>1, Constants DEF Frames
    <3>2. CASE v \in kept
      <4>1. pte[v] = v /\ v >= LowPages /\ v \in Int BY <2>3, <2>4, <3>2, KeptAreLow DEF Inv
      <4> QED BY <4>1, Constants
    <3> QED BY <3>1, <3>2 DEF InUse
  <2>6. ~stray' BY <2>4, <2>5 DEF OwnState
  <2>7. InUse' \subseteq Reach'
    <3>1. Reach \subseteq Reach' BY <2>1, Constants DEF Reach
    <3> QED BY <1>2, <2>4, <3>1 DEF OwnState
  <2>8. \A f \in Used' : f >= Top'
    <3>1. Used' = Used /\ Used \subseteq Int BY Constants DEF Used, Frames
    <3>2. Top' <= Top /\ Top' \in Int /\ Top \in Int BY <2>1, Constants DEF Top, Room
    <3> SUFFICES ASSUME NEW f \in Used PROVE f >= Top' BY <3>1
    <3>3. f >= Top /\ f \in Int BY <2>4, <3>1 DEF OwnState
    <3> HIDE DEF Top
    <3> QED BY <3>2, <3>3
  <2> QED BY <2>4, <2>6, <2>7, <2>8 DEF OwnState, Used
<1> QED BY <1>1, <1>2, <1>3

LEMMA CreateHeapInv == ASSUME Inv, CreateHeap PROVE Inv'
<1>1. /\ job.kind = "boot" /\ job.at = job.to /\ heapPages' = InitEnd - HeapStart
      /\ job' = [kind |-> "idle", at |-> 0, to |-> 0] /\ stray' = Trampling
      /\ UNCHANGED <<memMap, table, pte, installed, kept, peak, stopped>>
  BY DEF CreateHeap, Idle
<1>2. peak \in Int BY JobType
<1>3. EntriesInv' /\ OwnInv' /\ InUse' = InUse BY <1>1, <1>2, PagesUnchanged
<1>4. TypeOK'
  <2>1. InitEnd - HeapStart \in 0 .. HeapMax /\ 0 \in 0 .. Dirs * TablePages BY Constants
  <2>2. stray' \in BOOLEAN BY <1>1 DEF Trampling
  <2> QED BY <1>1, <2>1, <2>2 DEF Inv, TypeOK
<1>5. HeapOf(InitEnd - HeapStart) \subseteq installed
  <2>1. job.at = InitEnd /\ InitEnd # Scratch BY <1>1, Constants DEF Inv, LoopsInv, BootInv
  <2>2. installed = {Scratch} \cup IndexStart .. InitEnd - 1
    BY <1>1, <2>1 DEF Inv, LoopsInv, BootInv
  <2> QED BY <2>2, Constants DEF HeapOf
<1>6. Backed(heapPages)' BY <1>1, <1>3, <1>5 DEF Backed, HeapOf, InUse
<1>7. heapPages' <= peak' BY <1>1, Constants DEF Inv, LoopsInv, BootInv
<1>8. LoopsInv' BY <1>1, <1>6, <1>7 DEF LoopsInv, BootInv, IdleInv, ExpandInv, ContractInv
<1> QED BY <1>3, <1>4, <1>8 DEF Inv

LEMMA ExpandInvStep == ASSUME Inv, NEW n \in Sizes, Expand(n) PROVE Inv'
<1>1. /\ job.kind = "idle" /\ n > heapPages /\ UNCHANGED heapPages
      /\ job' = [kind |-> "expand", at |-> heapPages, to |-> n]
      /\ peak' = IF n > peak THEN n ELSE peak
      /\ UNCHANGED <<memMap, table, pte, installed, kept, stray, stopped>>
  BY DEF Expand
<1>2. /\ heapPages \in Int /\ 0 <= heapPages /\ heapPages <= HeapMax
      /\ n \in Int /\ n <= HeapMax /\ peak \in Int /\ peak >= 0 /\ heapPages <= peak
      /\ peak <= HeapMax
  BY JobType, Constants
<1>3. PICK p \in Int : p = peak' BY <1>1, <1>2
<1>4. peak <= p /\ n <= p /\ p <= HeapMax BY <1>1, <1>2, <1>3
<1>5. EntriesInv' /\ OwnInv' /\ InUse' = InUse BY <1>1, <1>3, <1>4, PagesUnchanged
<1>6. TypeOK'
  <2>1. /\ heapPages \in 0 .. Dirs * TablePages /\ n \in 0 .. Dirs * TablePages
        /\ p \in 0 .. HeapMax
    BY <1>1, <1>2, <1>4, Constants
  <2> QED BY <1>1, <1>3, <2>1 DEF Inv, TypeOK
<1>7. Backed(job.at)' BY <1>1, <1>5 DEF Inv, LoopsInv, IdleInv, Backed, HeapOf
<1>8. ExpandInv' BY <1>1, <1>2, <1>3, <1>4, <1>7 DEF ExpandInv
<1>9. heapPages' <= peak' BY <1>1, <1>2, <1>3, <1>4
<1>10. LoopsInv' BY <1>1, <1>8, <1>9 DEF LoopsInv, BootInv, IdleInv, ContractInv
<1> QED BY <1>5, <1>6, <1>10 DEF Inv

LEMMA ContractInvStep == ASSUME Inv, NEW n \in Sizes, Contract(n) PROVE Inv'
<1>1. /\ job.kind = "idle" /\ n <= heapPages /\ UNCHANGED <<heapPages, peak>>
      /\ job' = [kind |-> "contract", at |-> heapPages - 1, to |-> n]
      /\ UNCHANGED <<memMap, table, pte, installed, kept, stray, stopped>>
  BY DEF Contract
<1>2. /\ heapPages \in Int /\ 0 <= heapPages /\ heapPages <= HeapMax
      /\ n \in Int /\ 1 <= n /\ n <= HeapMax /\ peak \in Int /\ heapPages <= peak
  BY JobType, Constants
<1>3. EntriesInv' /\ OwnInv' /\ InUse' = InUse BY <1>1, <1>2, PagesUnchanged
<1>4. TypeOK'
  <2>1. heapPages - 1 \in 0 .. Dirs * TablePages /\ n \in 0 .. Dirs * TablePages
    BY <1>1, <1>2, Constants
  <2> QED BY <1>1, <2>1 DEF Inv, TypeOK
<1>5. Backed(job.at + 1)'
  <2>1. (heapPages - 1) + 1 = heapPages BY <1>2
  <2> QED BY <1>1, <1>3, <2>1 DEF Inv, LoopsInv, IdleInv, Backed, HeapOf
<1>6. ContractInv'
  <2>1. heapPages - 1 \in n - 1 .. heapPages - 1 /\ n \in 1 .. heapPages BY <1>1, <1>2
  <2> QED BY <1>1, <1>5, <2>1 DEF ContractInv
<1>7. LoopsInv' BY <1>1, <1>2, <1>6 DEF LoopsInv, BootInv, IdleInv, ExpandInv
<1> QED BY <1>3, <1>4, <1>7 DEF Inv

LEMMA ExpandPageInv == ASSUME Inv, ExpandPage PROVE Inv'
<1>0. PICK v : v = HeapStart + job.at OBVIOUS
<1>1. /\ ~stray /\ ~stopped /\ job.kind = "expand" /\ job.at # job.to
      /\ job' = [job EXCEPT !.at = job.at + 1] /\ UNCHANGED <<heapPages, peak, stopped>>
      /\ IF HasAddr(v) THEN Keep(v) ELSE MapNew(v)
  BY <1>0 DEF ExpandPage, At, Running, Advance
<1>2. TypeOK /\ EntriesInv BY DEF Inv
<1>3. heapPages <= job.at /\ job.at <= job.to /\ job.to <= peak /\ Backed(job.at)
  BY <1>1 DEF Inv, LoopsInv, ExpandInv
<1>4. /\ job.at \in Nat /\ job.to \in Nat /\ job.at < job.to /\ v \in Linear /\ v \in Nat
      /\ v \in Reach
  <2>1. /\ job.at \in Nat /\ job.to \in Nat /\ job.at < job.to
        /\ peak \in Int /\ peak <= HeapMax
    BY <1>1, <1>3, JobType
  <2>2. v \in Nat /\ v < HeapStart + HeapMax BY <1>0, <1>3, <2>1, Constants
  <2>3. v \in Linear BY <2>2, Constants DEF Linear
  <2>4. v \in Reach BY <1>0, <1>3, <2>1, Constants DEF Reach
  <2> QED BY <2>1, <2>2, <2>3, <2>4
<1>5. job' = [kind |-> "expand", at |-> job.at + 1, to |-> job.to] BY <1>1, JobType
<1>6. HeapOf(job.at + 1) = HeapOf(job.at) \cup {v} BY <1>0, <1>4, Constants DEF HeapOf
<1>7. /\ memMap' \in [Frames -> {0, 1}] /\ pte' \in [Linear -> Entries]
      /\ table' \in [0 .. Dirs - 1 -> Frames \cup {NoTable, BootTable}]
      /\ installed' \subseteq Linear /\ kept' \subseteq Linear
      /\ stray' \in BOOLEAN /\ InUse' = InUse \cup {v} /\ EntriesInv' /\ OwnInv'
  <2>1. CASE HasAddr(v)
    <3>1. /\ kept' = IF v \in installed THEN kept ELSE kept \cup {v}
          /\ stray' = (stray \/ ~Reachable(table[Dir(v)]))
          /\ UNCHANGED <<memMap, table, pte, installed, stopped>>
      BY <1>1, <2>1 DEF Keep
    <3>2. InUse' = InUse \cup {v} BY <3>1 DEF InUse
    <3>3. EntriesInv'
      <4>1. Kept(v) BY <2>1 DEF HasAddr, Kept
      <4>2. \A u \in kept' : Kept(u)' BY <1>2, <3>1, <4>1 DEF EntriesInv, Kept
      <4>3. installed' \cap kept' = {} BY <1>2, <3>1 DEF EntriesInv
      <4> QED BY <1>2, <3>1, <4>2, <4>3 DEF EntriesInv
    <3>4. OwnInv'
      <4> SUFFICES ASSUME peak <= OwnPages PROVE OwnState' BY <1>1 DEF OwnInv
      <4>1. OwnState BY <1>1 DEF Inv, OwnInv
      <4>2. ~stray'
        <5>1. Dir(v) \in DOMAIN table BY <1>2, <1>4, DirType DEF TypeOK
        <5>2. ~(table[Dir(v)] >= 0) BY <4>1, <5>1 DEF OwnState
        <5> QED BY <1>1, <3>1, <5>2 DEF Reachable
      <4>3. Reach' = Reach /\ Top' = Top BY <1>1 DEF Reach, Top, Room
      <4> QED BY <1>4, <3>1, <3>2, <4>1, <4>2, <4>3 DEF OwnState, Used
    <3>5. /\ memMap' \in [Frames -> {0, 1}] /\ pte' \in [Linear -> Entries]
          /\ table' \in [0 .. Dirs - 1 -> Frames \cup {NoTable, BootTable}]
          /\ installed' \subseteq Linear /\ kept' \subseteq Linear /\ stray' \in BOOLEAN
      BY <1>2, <1>4, <3>1 DEF TypeOK
    <3> QED BY <3>2, <3>3, <3>4, <3>5
  <2>2. CASE ~HasAddr(v)
    <3>1. MapNew(v) BY <1>1, <2>2
    <3>2. v \notin InUse
      <4>1. CASE v \in installed
        <5>1. table[Dir(v)] # NoTable /\ pte[v] - LowPages \in Frames
          BY <1>2, <4>1 DEF EntriesInv
        <5>2. pte[v] # Zero BY <5>1, Constants DEF Frames, Zero
        <5> QED BY <2>2, <5>1, <5>2 DEF HasAddr
      <4>2. CASE v \in kept BY <1>2, <2>2, <4>2 DEF EntriesInv, Kept, HasAddr
      <4> QED BY <4>1, <4>2 DEF InUse
    <3>3. /\ memMap' \in [Frames -> {0, 1}] /\ pte' \in [Linear -> Entries]
          /\ table' \in [0 .. Dirs - 1 -> Frames \cup {NoTable, BootTable}]
          /\ installed' = installed \cup {v} /\ kept' = kept \ {v}
          /\ installed' \subseteq Linear /\ kept' \subseteq Linear
          /\ stray' \in BOOLEAN /\ EntriesInv'
      BY <1>2, <1>4, <3>1, MapNewKeepsEntries
    <3>4. OwnInv'
      <4> SUFFICES ASSUME peak <= OwnPages PROVE OwnState' BY <1>1 DEF OwnInv
      <4>1. OwnState BY <1>1 DEF Inv, OwnInv
      <4>2. v \notin installed BY <3>2 DEF InUse
      <4> QED BY <1>1, <1>2, <1>4, <3>1, <4>1, <4>2, MapNewOwns
    <3> QED BY <3>2, <3>3, <3>4 DEF InUse
  <2> QED BY <2>1, <2>2
<1>8. TypeOK'
  <2>1. job.at + 1 \in 0 .. Dirs * TablePages /\ job.to \in 0 .. Dirs * TablePages
    <3>1. job.to <= HeapMax BY <1>3, JobType, Constants
    <3> QED BY <1>4, <3>1, Constants
  <2> QED BY <1>1, <1>5, <1>7, <2>1 DEF Inv, TypeOK
<1>9. ExpandInv'
  <2>2. HeapOf(job.at + 1) \subseteq InUse' BY <1>3, <1>6, <1>7 DEF Backed
  <2>3. Backed(job.at)' BY <1>5, <2>2 DEF Backed, HeapOf
  <2>4. heapPages <= job.at + 1 /\ job.at + 1 <= job.to BY <1>3, <1>4, JobType
  <2> QED BY <1>1, <1>3, <1>5, <2>3, <2>4 DEF ExpandInv
<1>10. heapPages' <= peak' BY <1>1 DEF Inv, LoopsInv
<1>11. LoopsInv' BY <1>5, <1>9, <1>10 DEF LoopsInv, BootInv, IdleInv, ContractInv
<1> QED BY <1>7, <1>8, <1>11 DEF Inv

LEMMA ContractPageInv == ASSUME Inv, ContractPage PROVE Inv'
<1>0. PICK v : v = HeapStart + job.at OBVIOUS
<1>1. /\ ~stray /\ ~stopped /\ job.kind = "contract" /\ job.at > job.to /\ RemovePage(v)
      /\ job' = [job EXCEPT !.at = job.at - 1]
      /\ UNCHANGED <<table, heapPages, peak, stopped>>
  BY <1>0 DEF ContractPage, Running, Advance, LastKept
<1>2. TypeOK /\ EntriesInv BY DEF Inv
<1>3. /\ job.at \in job.to - 1 .. heapPages - 1 /\ job.to \in 1 .. heapPages
      /\ Backed(job.at + 1)
  BY <1>1 DEF Inv, LoopsInv, ContractInv
<1>4. /\ job.at \in Nat /\ job.to \in Nat /\ job.at < heapPages /\ heapPages <= HeapMax
      /\ job.to >= 1 /\ v \in Linear /\ v \in Nat /\ heapPages <= peak /\ heapPages \in Int
      /\ peak \in Int
  <2>1. /\ job.at \in Nat /\ job.to \in Nat /\ job.to >= 1 /\ job.at < heapPages
        /\ heapPages <= HeapMax
    BY <1>3, JobType
  <2> QED BY <1>0, <2>1, JobType, Constants DEF Linear
<1>5. job' = [kind |-> "contract", at |-> job.at - 1, to |-> job.to] BY <1>1, JobType
<1>6. v \in InUse /\ HeapOf(job.at) = HeapOf(job.at + 1) \ {v}
  <2>1. v \in HeapOf(job.at + 1) BY <1>0, <1>4, Constants DEF HeapOf
  <2>2. HeapOf(job.at) = HeapOf(job.at + 1) \ {v} BY <1>0, <1>4, Constants DEF HeapOf
  <2> QED BY <1>3, <2>1, <2>2 DEF Backed
<1>7. /\ memMap' \in [Frames -> {0, 1}] /\ pte' \in [Linear -> Entries]
      /\ installed' \subseteq Linear /\ kept' \subseteq Linear /\ stray' \in BOOLEAN
      /\ InUse \ {v} \subseteq InUse' /\ EntriesInv'
  BY <1>1, <1>2, <1>4, RemovePageKeepsEntries
<1>8. OwnInv'
  <2> SUFFICES ASSUME peak <= OwnPages PROVE OwnState' BY <1>1 DEF OwnInv
  <2>1. OwnState BY <1>1 DEF Inv, OwnInv
  <2>2. v < LowPages + NFrames
    <3>1. HeapStart + peak < LowPages + NFrames BY JobType, OwnNumbers
    <3> QED BY <1>0, <1>4, <3>1, Constants
  <2> QED BY <1>1, <1>2, <1>4, <1>6, <2>1, <2>2, RemovePageOwns
<1>9. TypeOK'
  <2>1. job.at - 1 \in 0 .. Dirs * TablePages /\ job.to \in 0 .. Dirs * TablePages
    BY <1>1, <1>3, <1>4, Constants
  <2> QED BY <1>1, <1>2, <1>5, <1>7, <2>1 DEF TypeOK
<1>10. ContractInv'
  <2>1. (job.at - 1) + 1 = job.at BY <1>4
  <2>2. HeapOf(job.at) \subseteq InUse' BY <1>3, <1>6, <1>7 DEF Backed
  <2>3. Backed(job.at + 1)' BY <1>5, <2>1, <2>2 DEF Backed, HeapOf
  <2>4. job.at - 1 \in job.to - 1 .. heapPages - 1 BY <1>1, <1>4
  <2> QED BY <1>1, <1>3, <1>5, <2>3, <2>4 DEF ContractInv
<1>11. heapPages' <= peak' BY <1>1, <1>4
<1>12. LoopsInv' BY <1>5, <1>10, <1>11 DEF LoopsInv, BootInv, IdleInv, ExpandInv
<1> QED BY <1>7, <1>8, <1>9, <1>12 DEF Inv

LEMMA ResizedInv == ASSUME Inv, Resized PROVE Inv'
<1>1. /\ heapPages' = job.to /\ job' = [kind |-> "idle", at |-> 0, to |-> 0]
      /\ stray' = Trampling
      /\ UNCHANGED <<memMap, table, pte, installed, kept, peak, stopped>>
      /\ \/ job.kind = "expand" /\ job.at = job.to
         \/ job.kind = "contract" /\ job.at <= job.to
  BY DEF Resized, Idle, LastKept
<1>2. EntriesInv' /\ OwnInv' /\ InUse' = InUse BY <1>1, JobType, PagesUnchanged
<1>3. Backed(job.to) /\ job.to <= peak
  <2>1. CASE job.kind = "expand" /\ job.at = job.to
    BY <2>1 DEF Inv, LoopsInv, ExpandInv
  <2>2. CASE job.kind = "contract" /\ job.at <= job.to
    <3>1. /\ job.at \in job.to - 1 .. heapPages - 1 /\ job.to \in 1 .. heapPages
          /\ Backed(job.at + 1)
      BY <2>2 DEF Inv, LoopsInv, ContractInv
    <3>2. job.to <= job.at + 1 /\ job.to <= peak BY <3>1, JobType
    <3>3. HeapOf(job.to) \subseteq HeapOf(job.at + 1) BY <3>2, JobType, Constants DEF HeapOf
    <3> QED BY <3>1, <3>2, <3>3 DEF Backed
  <2> QED BY <1>1, <2>1, <2>2
<1>4. Backed(heapPages)' BY <1>1, <1>2, <1>3 DEF Backed, HeapOf
<1>5. LoopsInv' BY <1>1, <1>3, <1>4 DEF LoopsInv, BootInv, IdleInv, ExpandInv, ContractInv
<1>6. TypeOK'
  <2>1. job.to \in 0 .. HeapMax /\ 0 \in 0 .. Dirs * TablePages
    BY <1>3, JobType, Constants
  <2>2. stray' \in BOOLEAN BY <1>1 DEF Trampling
  <2> QED BY <1>1, <2>1, <2>2 DEF Inv, TypeOK
<1> QED BY <1>2, <1>5, <1>6 DEF Inv

LEMMA NoPageInv == ASSUME Inv, NEW v \in Linear, NoPage(v) PROVE Inv'
<1>1. /\ job.kind = "idle" /\ MapNew(v) /\ stopped' = TRUE
      /\ UNCHANGED <<heapPages, job, peak>>
  BY DEF NoPage
<1>2. /\ memMap' \in [Frames -> {0, 1}] /\ pte' \in [Linear -> Entries]
      /\ table' \in [0 .. Dirs - 1 -> Frames \cup {NoTable, BootTable}]
      /\ installed' = installed \cup {v} /\ kept' = kept \ {v}
      /\ installed' \subseteq Linear /\ kept' \subseteq Linear
      /\ stray' \in BOOLEAN /\ EntriesInv'
  BY <1>1, MapNewKeepsEntries DEF Inv
<1>3. TypeOK' BY <1>1, <1>2 DEF Inv, TypeOK
<1>4. Backed(heapPages)'
  <2>1. InUse \subseteq InUse' BY <1>2 DEF InUse
  <2> QED BY <1>1, <2>1 DEF Inv, LoopsInv, IdleInv, Backed, HeapOf
<1>5. heapPages' <= peak' BY <1>1 DEF Inv, LoopsInv
<1>6. LoopsInv' BY <1>1, <1>4, <1>5 DEF LoopsInv, BootInv, IdleInv, ExpandInv, ContractInv
<1>7. OwnInv' BY <1>1 DEF OwnInv
<1> QED BY <1>2, <1>3, <1>6, <1>7 DEF Inv

LEMMA StutterInv == ASSUME Inv, UNCHANGED vars PROVE Inv'
<1>1. UNCHANGED <<memMap, table, pte, heapPages, job, installed, kept, peak, stray, stopped>>
  BY DEF vars
<1>2. TypeOK' BY <1>1 DEF Inv, TypeOK
<1>3. EntriesInv' /\ OwnInv' /\ InUse' = InUse BY <1>1, JobType, PagesUnchanged
<1>4. /\ BootInv' = BootInv /\ IdleInv' = IdleInv
      /\ ExpandInv' = ExpandInv /\ ContractInv' = ContractInv
  BY <1>1, <1>3 DEF BootInv, IdleInv, ExpandInv, ContractInv, Backed, HeapOf
<1>5. heapPages' <= peak' BY <1>1 DEF Inv, LoopsInv
<1> QED BY <1>2, <1>3, <1>4, <1>5 DEF Inv, LoopsInv

LEMMA InvNext == Inv /\ [Next]_vars => Inv'
<1> SUFFICES ASSUME Inv, [Next]_vars PROVE Inv' OBVIOUS
<1>1. CASE BootPage BY <1>1, BootPageInv
<1>2. CASE CreateHeap BY <1>2, CreateHeapInv
<1>3. CASE \E n \in Sizes : Expand(n) \/ Contract(n)
  BY <1>3, ExpandInvStep, ContractInvStep
<1>4. CASE ExpandPage BY <1>4, ExpandPageInv
<1>5. CASE ContractPage BY <1>5, ContractPageInv
<1>6. CASE Resized BY <1>6, ResizedInv
<1>7. CASE \E v \in Linear : NoPage(v) BY <1>7, NoPageInv
<1>8. CASE Stopped \/ UNCHANGED vars BY <1>8, StutterInv DEF Stopped
<1> QED BY <1>1, <1>2, <1>3, <1>4, <1>5, <1>6, <1>7, <1>8 DEF Next

LEMMA Invariance == Spec => []Inv
BY InvInit, InvNext, PTL DEF Spec
-----------------------------------------------------------------------------
(* Type correctness, whatever word an uncleared page table holds: a loop   *)
(* never leaves the linear pages, an entry is one of the kinds the model   *)
(* tells apart, and get_free_page always answers a page of memory.         *)
THEOREM TypeCorrect == Spec => []TypeOK
<1>1. Inv => TypeOK BY DEF Inv
<1> QED BY <1>1, Invariance, PTL

(* A heap no larger than the memory mapped at boot allows is mapped to     *)
(* memory from its start to its end, through each turn of the loops of     *)
(* expand and contract (kheap.c:104-154): what one leaves out or removes   *)
(* too much is never inside it.                                            *)
THEOREM HeapIsBacked == Spec => []HeapBacked
<1>1. Inv => HeapBacked
  <2> SUFFICES ASSUME Inv, HeapStart + peak <= LowPages + NFrames, NEW v \in Heap
      PROVE table[Dir(v)] # NoTable /\ pte[v] - LowPages \in Frames
    BY DEF HeapBacked
  <2>1. v \in InUse /\ v \in HeapOf(peak)
    <3>1. job.kind \in {"idle", "boot", "expand", "contract"} BY DEF Inv, TypeOK
    <3>2. CASE job.kind = "idle"
      <4>1. v \in HeapOf(heapPages) BY <3>2 DEF Heap, HeapOf
      <4>2. v \in HeapOf(peak) BY <4>1, JobType, Constants DEF HeapOf
      <4> QED BY <3>2, <4>1, <4>2 DEF Inv, LoopsInv, IdleInv, Backed
    <3>3. CASE job.kind = "boot"
      BY <3>3, Constants DEF Inv, LoopsInv, BootInv, Heap
    <3>4. CASE job.kind = "expand"
      <4>1. heapPages <= job.at /\ Backed(job.at) BY <3>4 DEF Inv, LoopsInv, ExpandInv
      <4>2. v \in HeapOf(heapPages) BY <3>4 DEF Heap, HeapOf
      <4>3. v \in HeapOf(peak) /\ v \in HeapOf(job.at)
        BY <4>1, <4>2, JobType, Constants DEF HeapOf
      <4> QED BY <4>1, <4>3 DEF Backed
    <3>5. CASE job.kind = "contract"
      <4>1. /\ job.at \in job.to - 1 .. heapPages - 1 /\ job.to \in 1 .. heapPages
            /\ Backed(job.at + 1)
        BY <3>5 DEF Inv, LoopsInv, ContractInv
      <4>2. v \in HeapOf(job.to) BY <3>5 DEF Heap, HeapOf
      <4>3. v \in HeapOf(peak) /\ v \in HeapOf(job.at + 1)
        BY <4>1, <4>2, JobType, Constants DEF HeapOf
      <4> QED BY <4>1, <4>3 DEF Backed
    <3> QED BY <3>1, <3>2, <3>3, <3>4, <3>5
  <2>2. v \in Int /\ v >= LowPages /\ v < LowPages + NFrames /\ v \in Linear
    <3>1. HeapOf(peak) \subseteq Linear BY JobType, HeapInLinear
    <3>2. HeapStart >= LowPages BY LayoutAssumption, Constants
    <3> QED BY <2>1, <3>1, <3>2, JobType, Constants DEF HeapOf
  <2>3. table[Dir(v)] = BootTable BY <2>2 DEF Inv, EntriesInv
  <2>4. CASE v \in installed BY <2>4 DEF Inv, EntriesInv
  <2>5. CASE v \in kept
    <3>1. pte[v] = v BY <2>2, <2>3, <2>5 DEF Inv, EntriesInv, Kept
    <3> QED BY <2>2, <2>3, <3>1, Constants DEF Frames, BootTable, NoTable
  <2> QED BY <2>1, <2>4, <2>5 DEF InUse
<1> QED BY <1>1, Invariance, PTL

(* In a heap that was never larger than OwnPages no two pages in use are   *)
(* on the same page of memory, none lies over the kernel or a page table,  *)
(* and get_free_page always found a free page                              *)
(* (memory.c:10-82, kheap.c:104-154).                                      *)
THEOREM PagesOwned == Spec => []OwnedExclusively
<1>1. Inv => OwnedExclusively
  <2> SUFFICES ASSUME Inv, ~stopped, peak <= OwnPages
      PROVE  /\ \A v \in InUse : \A u \in InUse \ {v} : pte[u] # pte[v]
             /\ \A v \in InUse : pte[v] - LowPages \in Frames
             /\ \A v \in installed : memMap[pte[v] - LowPages] = 1
             /\ ~Trampling /\ ~stray
    BY DEF OwnedExclusively
  <2>1. OwnState /\ TypeOK /\ EntriesInv BY DEF Inv, OwnInv
  <2>2. \A v \in kept : /\ pte[v] = v /\ v \in Int /\ v - LowPages \in Frames
                        /\ v - LowPages < Top
    BY <2>1, KeptAreLow
  <2>3. \A v \in installed : /\ pte[v] \in Int /\ pte[v] - LowPages \in Frames
                             /\ pte[v] - LowPages >= Top
    BY <2>1, InstalledAreFrames DEF OwnState, Used
  <2>4. Top \in Int BY JobType, Constants DEF Top, Room
  <2>5. ASSUME NEW v \in InUse, NEW u \in InUse \ {v} PROVE pte[u] # pte[v]
    <3>1. CASE u \in installed /\ v \in installed BY <2>1, <2>5, <3>1 DEF OwnState
    <3>2. CASE u \in kept /\ v \in kept BY <2>2, <2>5, <3>2
    <3>3. ASSUME NEW x \in installed, NEW y \in kept PROVE pte[x] # pte[y]
      <4>1. pte[x] - LowPages >= Top /\ pte[y] - LowPages < Top BY <2>2, <2>3
      <4>2. pte[x] - LowPages \in Int /\ pte[y] - LowPages \in Int
        BY <2>2, <2>3, Constants DEF Frames
      <4> HIDE DEF Top
      <4> QED BY <2>4, <4>1, <4>2
    <3> QED BY <3>1, <3>2, <3>3 DEF InUse
  <2>6. \A v \in InUse : pte[v] - LowPages \in Frames /\ pte[v] \in Int
    BY <2>2, <2>3 DEF InUse
  <2>7. ~Trampling
    <3> SUFFICES ASSUME NEW v \in InUse PROVE pte[v] \notin 0 .. LowPages - 1
      BY <2>1 DEF Trampling, OwnState
    <3> QED BY <2>6, Constants DEF Frames
  <2> QED BY <2>1, <2>5, <2>6, <2>7 DEF OwnState
<1> QED BY <1>1, Invariance, PTL

(* ... and each used page is installed or holds a page table: no sequence  *)
(* of expansions and contractions loses memory.                            *)
THEOREM PagesCounted == Spec => []NoLostPages
<1>1. Inv => NoLostPages
  <2> SUFFICES ASSUME Inv, ~stopped, peak <= OwnPages
      PROVE  Cardinality(Used)
               = Cardinality(installed) + Cardinality({d \in DOMAIN table : table[d] >= 0})
    BY DEF NoLostPages, Used
  <2>1. OwnState /\ TypeOK BY DEF Inv, OwnInv
  <2>2. {d \in DOMAIN table : table[d] >= 0} = {} BY <2>1 DEF OwnState
  <2>3. Cardinality({d \in DOMAIN table : table[d] >= 0}) = 0 BY <2>2, FS_EmptySet
  <2>4. Cardinality(installed) \in Nat BY <2>1, FiniteParts
  <2>5. Cardinality(Used) = Cardinality(installed) BY <2>1 DEF OwnState
  <2> QED BY <2>3, <2>4, <2>5
<1> QED BY <1>1, Invariance, PTL
==============================================================================
