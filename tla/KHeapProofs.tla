----------------------------- MODULE KHeapProofs ------------------------------
(***************************************************************************)
(* Proofs about KHeap, for every size of a page, of the heap and of memory,*)
(* whatever sizes are asked for.                                           *)
(***************************************************************************)
EXTENDS KHeap, SequenceTheorems, FiniteSetTheorems, WellFoundedInduction, TLAPS

LEMMA Constants ==
  /\ Page \in Nat /\ Page >= 2 /\ OwnPages \in Nat
  /\ InitPages \in Nat /\ MinPages \in Nat
  /\ 1 <= MinPages /\ MinPages <= InitPages /\ InitPages < OwnPages
  /\ \A s \in Sizes : s \in Nat
BY HeapAssumption

LEMMA Cells ==
  /\ OwnPages * Page \in Nat /\ MinPages * Page \in Nat /\ InitPages * Page \in Nat
  /\ \A c : c \in Cell <=> c \in Nat /\ c < OwnPages * Page
BY Constants DEF Cell

(* Pages: products and quotients by a symbolic Page.                       *)
LEMMA TimesGrows ==
  ASSUME NEW p \in Int, NEW q \in Int
  PROVE  p <= q <=> p * Page <= q * Page
<1>1. (q - p) * Page = q * Page - p * Page BY Constants
<1>2. p <= q => p * Page <= q * Page
  <2>1. \A d \in Nat : d * Page >= 0 BY Constants
  <2> QED BY <1>1, <2>1, Constants
<1>3. q < p => q * Page < p * Page
  <2>1. \A d \in Nat \ {0} : d * Page > 0 BY Constants
  <2>2. (p - q) * Page = p * Page - q * Page BY Constants
  <2> QED BY <2>1, <2>2, Constants
<1> QED BY <1>2, <1>3, Constants

LEMMA PageBounds ==
  ASSUME NEW x \in Nat
  PROVE  /\ PageOf(x) \in Nat
         /\ PageOf(x) * Page <= x /\ x < (PageOf(x) + 1) * Page
<1>1. x = Page * (x \div Page) + (x % Page) /\ x % Page \in 0 .. Page - 1
      /\ x \div Page \in Int
  BY Constants
<1>2. x \div Page >= 0
  <2>1. \A d \in Int : d < 0 => Page * d <= -Page BY Constants
  <2> QED BY <1>1, <2>1, Constants
<1> QED BY <1>1, <1>2, Constants DEF PageOf

LEMMA PageBelow ==
  ASSUME NEW x \in Nat, NEW q \in Nat
  PROVE  /\ x < q * Page <=> PageOf(x) < q
<1>1. /\ PageOf(x) \in Nat /\ PageOf(x) * Page <= x /\ x < (PageOf(x) + 1) * Page
  BY PageBounds
<1>2. q <= PageOf(x) <=> q * Page <= PageOf(x) * Page BY <1>1, TimesGrows
<1>3. PageOf(x) + 1 <= q <=> (PageOf(x) + 1) * Page <= q * Page BY <1>1, TimesGrows
<1>4. q * Page \in Nat /\ PageOf(x) * Page \in Nat /\ (PageOf(x) + 1) * Page \in Nat
  BY <1>1, Constants
<1> QED BY <1>1, <1>2, <1>3, <1>4

LEMMA PageGrows ==
  ASSUME NEW x \in Nat, NEW y \in Nat, x <= y PROVE PageOf(x) <= PageOf(y)
<1>1. PageOf(x) \in Nat /\ PageOf(y) \in Nat BY PageBounds
<1>2. y < (PageOf(y) + 1) * Page /\ (PageOf(y) + 1) * Page \in Nat
  BY <1>1, PageBounds, Constants
<1>3. x < (PageOf(y) + 1) * Page BY <1>2
<1> QED BY <1>1, <1>3, PageBelow

LEMMA LeastNat ==
  ASSUME NEW T, T \subseteq Nat, T # {}
  PROVE  \E n \in T : \A m \in T : n <= m
<1> DEFINE R == {ss \in Nat \X Nat : ss[1] < ss[2]}
<1>1. IsWellFoundedOn(R, Nat) BY NatLessThanWellFounded, Zenon DEF OpToRel
<1>2. \E x \in T : \A y \in T : ~ (<<y, x>> \in R)
  <2> HIDE DEF R
  <2> QED BY <1>1, WFMin
<1>3. PICK x \in T : \A y \in T : ~ (<<y, x>> \in R) BY <1>2
<1>4. \A y \in T : ~(y < x) BY <1>3
<1> QED BY <1>4
-----------------------------------------------------------------------------
(* The ordered array.                                                      *)
LEMMA Elements ==
  ASSUME NEW s \in Seq(Cell)
  PROVE  /\ Len(s) \in Nat /\ DOMAIN s = 1 .. Len(s)
         /\ \A i \in 1 .. Len(s) : s[i] \in Cell
         /\ ToSet(s) \subseteq Cell
         /\ \A c : c \in ToSet(s) <=> \E i \in 1 .. Len(s) : s[i] = c
BY LenProperties DEF ToSet

LEMMA Inserted ==
  ASSUME NEW s \in Seq(Cell), NEW i \in 1 .. Len(s) + 1, NEW a \in Cell
  PROVE  /\ InsertAt(s, i, a) \in Seq(Cell)
         /\ ToSet(InsertAt(s, i, a)) = ToSet(s) \cup {a}
         /\ IsInjective(s) /\ a \notin ToSet(s) => IsInjective(InsertAt(s, i, a))
<1> DEFINE l == SubSeq(s, 1, i - 1)
           r == SubSeq(s, i, Len(s))
           t == InsertAt(s, i, a)
<1>0. Len(s) \in Nat /\ i \in Int BY LenProperties
<1>1. l \in Seq(Cell) /\ Len(l) = i - 1 /\ \A j \in 1 .. i - 1 : l[j] = s[j]
  BY <1>0, SubSeqProperties
<1>2. r \in Seq(Cell) /\ Len(r) = Len(s) - i + 1
      /\ \A j \in 1 .. Len(s) - i + 1 : r[j] = s[i + j - 1]
  BY <1>0, SubSeqProperties
<1>3. <<a>> \in Seq(Cell) /\ Len(<<a>>) = 1 /\ <<a>>[1] = a OBVIOUS
<1> HIDE DEF l, r
<1>4. l \o <<a>> \in Seq(Cell) /\ Len(l \o <<a>>) = i
      /\ \A j \in 1 .. i : (l \o <<a>>)[j] = IF j < i THEN s[j] ELSE a
  BY <1>0, <1>1, <1>3, ConcatProperties
<1>5. t = (l \o <<a>>) \o r BY DEF InsertAt, l, r
<1>6. t \in Seq(Cell) /\ Len(t) = Len(s) + 1
      /\ \A j \in 1 .. Len(s) + 1 :
           t[j] = IF j < i THEN s[j] ELSE IF j = i THEN a ELSE s[j - 1]
  <2> HIDE DEF t
  <2>1. t \in Seq(Cell) /\ Len(t) = Len(s) + 1 BY <1>0, <1>2, <1>4, <1>5, ConcatProperties
  <2>2. ASSUME NEW j \in 1 .. Len(s) + 1
        PROVE  t[j] = IF j < i THEN s[j] ELSE IF j = i THEN a ELSE s[j - 1]
    <3>1. CASE j <= i BY <1>0, <1>2, <1>4, <1>5, <3>1, ConcatProperties
    <3>2. CASE j > i
      <4>1. t[j] = r[j - i] BY <1>0, <1>2, <1>4, <1>5, <3>2, ConcatProperties
      <4> QED BY <1>0, <1>2, <3>2, <4>1
    <3> QED BY <1>0, <3>1, <3>2
  <2> QED BY <2>1, <2>2
<1> HIDE DEF t
<1>7. ToSet(t) = ToSet(s) \cup {a}
  <2>1. \A c : c \in ToSet(t) <=> \E j \in 1 .. Len(s) + 1 : t[j] = c BY <1>6, Elements
  <2>2. ASSUME NEW c, c \in ToSet(s) PROVE c \in ToSet(t)
    <3>1. PICK j \in 1 .. Len(s) : s[j] = c BY <2>2, Elements
    <3>2. CASE j < i BY <1>0, <1>6, <2>1, <3>1, <3>2
    <3>3. CASE j >= i
      <4>1. t[j + 1] = c /\ j + 1 \in 1 .. Len(s) + 1 BY <1>0, <1>6, <3>1, <3>3
      <4> QED BY <2>1, <4>1
    <3> QED BY <1>0, <3>2, <3>3
  <2>3. a \in ToSet(t) BY <1>0, <1>6, <2>1
  <2>4. ASSUME NEW c, c \in ToSet(t), c # a PROVE c \in ToSet(s)
    <3>1. PICK j \in 1 .. Len(s) + 1 : t[j] = c BY <2>1, <2>4
    <3>2. CASE j < i
      <4>1. j \in 1 .. Len(s) /\ s[j] = c BY <1>0, <1>6, <3>1, <3>2
      <4> QED BY <4>1, Elements
    <3>3. CASE j > i
      <4>1. j - 1 \in 1 .. Len(s) /\ s[j - 1] = c BY <1>0, <1>6, <3>1, <3>3
      <4> QED BY <4>1, Elements
    <3> QED BY <1>0, <1>6, <2>4, <3>1, <3>2, <3>3
  <2> QED BY <2>2, <2>3, <2>4
<1>8. ASSUME IsInjective(s), a \notin ToSet(s) PROVE IsInjective(t)
  <2>1. \A j \in 1 .. Len(s) : s[j] # a BY <1>8, Elements
  <2>2. \A j, k \in 1 .. Len(s) : s[j] = s[k] => j = k BY <1>8, Elements DEF IsInjective
  <2>3. ASSUME NEW j \in 1 .. Len(s) + 1, NEW k \in 1 .. Len(s) + 1, j < k
        PROVE  t[j] # t[k]
    <3>1. CASE k < i BY <1>0, <1>6, <2>2, <2>3, <3>1
    <3>2. CASE k = i BY <1>0, <1>6, <2>1, <2>3, <3>2
    <3>3. CASE k > i
      <4>1. t[k] = s[k - 1] /\ k - 1 \in 1 .. Len(s) BY <1>0, <1>6, <3>3
      <4>2. CASE j < i BY <1>0, <1>6, <2>2, <2>3, <3>3, <4>1, <4>2
      <4>3. CASE j = i BY <1>0, <1>6, <2>1, <4>1, <4>3
      <4>4. CASE j > i
        <5>1. t[j] = s[j - 1] /\ j - 1 \in 1 .. Len(s) /\ j - 1 # k - 1
          BY <1>0, <1>6, <2>3, <4>4
        <5> QED BY <2>2, <4>1, <5>1
      <4> QED BY <1>0, <4>2, <4>3, <4>4
    <3> QED BY <1>0, <3>1, <3>2, <3>3
  <2>4. ASSUME NEW j \in 1 .. Len(s) + 1, NEW k \in 1 .. Len(s) + 1, t[j] = t[k]
        PROVE  j = k
    BY <1>0, <2>3, <2>4
  <2>5. DOMAIN t = 1 .. Len(s) + 1 BY <1>6, LenProperties
  <2> QED BY <2>4, <2>5 DEF IsInjective
<1> QED BY <1>6, <1>7, <1>8 DEF t

LEMMA RemovedAt ==
  ASSUME NEW s \in Seq(Cell), NEW i \in 1 .. Len(s)
  PROVE  /\ RemoveAt(s, i) \in Seq(Cell)
         /\ IsInjective(s) => /\ ToSet(RemoveAt(s, i)) = ToSet(s) \ {s[i]}
                              /\ IsInjective(RemoveAt(s, i))
<1> DEFINE l == SubSeq(s, 1, i - 1)
           r == SubSeq(s, i + 1, Len(s))
           t == RemoveAt(s, i)
<1>0. Len(s) \in Nat /\ i \in Int /\ Len(s) >= 1 BY LenProperties
<1>1. l \in Seq(Cell) /\ Len(l) = i - 1 /\ \A j \in 1 .. i - 1 : l[j] = s[j]
  BY <1>0, SubSeqProperties
<1>2. r \in Seq(Cell) /\ Len(r) = Len(s) - i
      /\ \A j \in 1 .. Len(s) - i : r[j] = s[i + j]
  <2>1. i + 1 \in 1 .. Len(s) + 1 /\ Len(s) \in i + 1 - 1 .. Len(s) BY <1>0
  <2>2. r \in Seq(Cell) /\ Len(r) = Len(s) - (i + 1) + 1
        /\ \A j \in 1 .. Len(s) - (i + 1) + 1 : r[j] = s[(i + 1) + j - 1]
    BY <1>0, <2>1, SubSeqProperties
  <2> HIDE DEF r
  <2> QED BY <1>0, <2>2
<1>3. t = l \o r BY DEF RemoveAt
<1> HIDE DEF l, r, t
<1>4. t \in Seq(Cell) /\ Len(t) = Len(s) - 1
  <2>1. l \o r \in Seq(Cell) /\ Len(l \o r) = Len(l) + Len(r) BY <1>1, <1>2, ConcatProperties
  <2> QED BY <1>0, <1>1, <1>2, <1>3, <2>1
<1>5. ASSUME NEW j \in 1 .. Len(s) - 1
      PROVE  t[j] = IF j < i THEN s[j] ELSE s[j + 1]
  <2>1. CASE j < i BY <1>0, <1>1, <1>2, <1>3, <2>1, ConcatProperties
  <2>2. CASE j >= i
    <3>1. t[j] = r[j - (i - 1)] BY <1>0, <1>1, <1>2, <1>3, <2>2, ConcatProperties
    <3> QED BY <1>0, <1>2, <2>2, <3>1
  <2> QED BY <1>0, <2>1, <2>2
<1>6. ASSUME IsInjective(s)
      PROVE  ToSet(t) = ToSet(s) \ {s[i]} /\ IsInjective(t)
  <2>1. \A j, k \in 1 .. Len(s) : s[j] = s[k] => j = k BY <1>6, Elements DEF IsInjective
  <2>2. ASSUME NEW c, c \in ToSet(s), c # s[i] PROVE c \in ToSet(t)
    <3>1. PICK j \in 1 .. Len(s) : s[j] = c BY <2>2, Elements
    <3>2. CASE j < i
      <4>1. j \in 1 .. Len(s) - 1 /\ t[j] = c BY <1>0, <1>5, <3>1, <3>2
      <4> QED BY <1>4, <4>1, Elements
    <3>3. CASE j > i
      <4>1. j - 1 \in 1 .. Len(s) - 1 /\ t[j - 1] = c BY <1>0, <1>5, <3>1, <3>3
      <4> QED BY <1>4, <4>1, Elements
    <3> QED BY <1>0, <2>2, <3>1, <3>2, <3>3
  <2>3. ASSUME NEW c, c \in ToSet(t) PROVE c \in ToSet(s) /\ c # s[i]
    <3>1. PICK j \in 1 .. Len(s) - 1 : t[j] = c BY <1>4, <2>3, Elements
    <3>2. CASE j < i
      <4>1. c = s[j] /\ j \in 1 .. Len(s) /\ j # i BY <1>0, <1>5, <3>1, <3>2
      <4> QED BY <2>1, <4>1, Elements
    <3>3. CASE j >= i
      <4>1. c = s[j + 1] /\ j + 1 \in 1 .. Len(s) /\ j + 1 # i BY <1>0, <1>5, <3>1, <3>3
      <4> QED BY <2>1, <4>1, Elements
    <3> QED BY <1>0, <3>2, <3>3
  <2>4. ASSUME NEW j \in 1 .. Len(s) - 1, NEW k \in 1 .. Len(s) - 1, t[j] = t[k]
        PROVE  j = k
    <3> DEFINE o(x) == IF x < i THEN x ELSE x + 1
    <3>1. o(j) \in 1 .. Len(s) /\ o(k) \in 1 .. Len(s) BY <1>0
    <3>2. t[j] = s[o(j)] /\ t[k] = s[o(k)] BY <1>5
    <3>3. o(j) = o(k) BY <2>1, <2>4, <3>1, <3>2
    <3> QED BY <1>0, <3>3
  <2>5. DOMAIN t = 1 .. Len(s) - 1 BY <1>4, LenProperties
  <2> QED BY <2>2, <2>3, <2>4, <2>5 DEF IsInjective
<1> QED BY <1>4, <1>6 DEF t

(* The minimum and the maximum of finite sets of numbers.                  *)
LEMMA MinOf ==
  ASSUME NEW T, T \subseteq Nat, T # {}
  PROVE  Min(T) \in T /\ \A x \in T : Min(T) <= x
<1>1. \E n \in T : \A m \in T : n <= m BY LeastNat
<1> QED BY <1>1 DEF Min

LEMMA MaxOf ==
  ASSUME NEW T, T \subseteq Nat, T # {}, NEW n \in Nat, \A x \in T : x <= n
  PROVE  Max(T) \in T /\ \A x \in T : x <= Max(T)
<1> DEFINE U == {n - x : x \in T}
<1>0. \A x \in T : x \in Nat /\ n - x \in Nat OBVIOUS
<1>1. U \subseteq Nat /\ U # {} BY <1>0
<1>2. PICK u \in U : \A v \in U : u <= v
  <2> HIDE DEF U
  <2> QED BY <1>1, LeastNat
<1>3. PICK x \in T : u = n - x BY <1>2
<1>4. ASSUME NEW y \in T PROVE x >= y
  <2>1. u <= n - y BY <1>2
  <2> QED BY <1>3, <2>1
<1> QED BY <1>3, <1>4 DEF Max

LEMMA InsertedHole ==
  ASSUME NEW s \in Seq(Cell), NEW a \in Cell, NEW m
  PROVE  /\ Insert(s, a, m) \in Seq(Cell)
         /\ ToSet(Insert(s, a, m)) = ToSet(s) \cup {a}
         /\ IsInjective(s) /\ a \notin ToSet(s) => IsInjective(Insert(s, a, m))
<1> DEFINE T == {i \in DOMAIN s : m[s[i]].size >= m[a].size} \cup {Len(s) + 1}
<1>1. T \subseteq 1 .. Len(s) + 1 /\ Len(s) \in Nat /\ T # {} BY LenProperties
<1>2. Min(T) \in T
  <2>1. T \subseteq Nat BY <1>1
  <2> HIDE DEF T
  <2> QED BY <1>1, <2>1, MinOf
<1>3. Insert(s, a, m) = InsertAt(s, Min(T), a) BY DEF Insert
<1>4. Min(T) \in 1 .. Len(s) + 1 BY <1>1, <1>2
<1> HIDE DEF T
<1>5. PICK i \in 1 .. Len(s) + 1 : Insert(s, a, m) = InsertAt(s, i, a) BY <1>3, <1>4
<1> QED BY <1>5, Inserted

LEMMA RemovedHole ==
  ASSUME NEW s \in Seq(Cell), NEW a
  PROVE  /\ RemoveHole(s, a) \in Seq(Cell)
         /\ IsInjective(s) /\ a \in ToSet(s) =>
              /\ ToSet(RemoveHole(s, a)) = ToSet(s) \ {a}
              /\ IsInjective(RemoveHole(s, a))
<1>1. CASE a \notin ToSet(s)
  <2>1. Len(s) \in Nat BY LenProperties
  <2>2. SubSeq(s, 1, Len(s) - 1) \in Seq(Cell) BY <2>1, SubSeqProperties
  <2> QED BY <1>1, <2>2 DEF RemoveHole
<1>2. CASE a \in ToSet(s)
  <2> DEFINE T == {i \in 1 .. Len(s) : s[i] = a}
  <2>1. \E i \in 1 .. Len(s) : s[i] = a BY <1>2, Elements
  <2>2. T # {} /\ T \subseteq Nat BY <2>1
  <2>3. Min(T) \in T
    <3> HIDE DEF T
    <3> QED BY <2>2, MinOf
  <2>4. RemoveHole(s, a) = RemoveAt(s, Min(T))
    BY <1>2, <2>1, <2>2 DEF RemoveHole, RemoveFirst, SelectInSeq
  <2>5. Min(T) \in 1 .. Len(s) /\ s[Min(T)] = a BY <2>3
  <2> HIDE DEF T
  <2> QED BY <2>4, <2>5, RemovedAt
<1> QED BY <1>1, <1>2
-----------------------------------------------------------------------------
(* What memory holds.                                                      *)
Contents ==
  {Other} \cup [kind : {"header"}, hole : BOOLEAN, size : Nat]
          \cup [kind : {"footer"}, header : Cell]
Memory == [Cell -> Contents]
Block == [at : Cell, extent : 0 .. OwnPages * Page]

LEMMA Hole ==
  ASSUME NEW n \in Nat
  PROVE  /\ Header(TRUE, n) \in Contents /\ Header(TRUE, n).kind = "header"
         /\ Header(TRUE, n).size = n /\ IsHole(Header(TRUE, n))
BY DEF Contents, Header, IsHole

LEMMA Taken ==
  ASSUME NEW n \in Nat
  PROVE  /\ Header(FALSE, n) \in Contents /\ Header(FALSE, n).kind = "header"
         /\ Header(FALSE, n).size = n /\ ~IsHole(Header(FALSE, n))
BY DEF Contents, Header, IsHole

LEMMA NotHole == \A n : ~IsHole(Header(FALSE, n))
BY DEF Header, IsHole

LEMMA Foot ==
  ASSUME NEW a \in Cell
  PROVE  Footer(a) \in Contents /\ Footer(a).kind = "footer" /\ Footer(a).header = a
BY DEF Contents, Footer

(* Fields of a header are written one at a time.                           *)
LEMMA Resized ==
  ASSUME NEW c, NEW n, c = Header(TRUE, n), NEW x
  PROVE  [c EXCEPT !.size = x] = Header(TRUE, x)
<1>1. \A h : [Header(h, n) EXCEPT !.size = x] = Header(h, x) BY DEF Header
<1> QED BY <1>1, Zenon

LEMMA Marked ==
  ASSUME NEW c, NEW n, c = Header(FALSE, n)
  PROVE  [c EXCEPT !.hole = TRUE] = Header(TRUE, n)
<1>1. \A h, x : [Header(h, n) EXCEPT !.hole = x] = Header(x, n) BY DEF Header
<1> QED BY <1>1, Zenon

LEMMA Read ==
  ASSUME NEW c \in Contents
  PROVE  /\ c.kind = "header" => c.size \in Nat
         /\ IsHole(c) => c = Header(TRUE, c.size) /\ c.size \in Nat
         /\ c.kind = "footer" => c.header \in Cell
<1>1. c.kind = "header" => c \in [kind : {"header"}, hole : BOOLEAN, size : Nat]
  BY DEF Contents, Other
<1>2. c.kind = "footer" => c \in [kind : {"footer"}, header : Cell] BY DEF Contents, Other
<1>3. IsHole(c) => c = Header(TRUE, c.size) BY <1>1, Zenon DEF IsHole, Header
<1>4. IsHole(c) => c.kind = "header" BY DEF IsHole
<1> QED BY <1>1, <1>2, <1>3, <1>4

LEMMA Rest == Other \in Contents /\ Other.kind = "other"
BY DEF Contents, Other

(* Headers anywhere, also inside blocks and holes and behind the end, are  *)
(* of something that held a header and a footer.                           *)
Sane(m) == \A c \in Cell : m[c].kind = "header" => m[c].size >= Overhead

(* The headers at the addresses S share out what lies below e.             *)
Tiling(m, S, e) ==
  /\ 0 \in S /\ S \subseteq 0 .. e - 1
  /\ \A a \in S : /\ m[a].size \in Nat /\ m[a].size >= Overhead
                  /\ a + m[a].size \in S \cup {e}
  /\ \A a, b \in S : a < b => a + m[a].size <= b

(* The heap with the blocks B and the holes at the addresses H.            *)
StartsOf(B, H) == {b.at : b \in B} \cup H
Described(m, B, H) ==
  /\ \A b \in B : m[b.at] = Header(FALSE, b.extent)
  /\ \A a \in H : IsHole(m[a])
Ended(m, S) == \A a \in S : m[a + m[a].size - 1] = Footer(a)
United(m, H) == \A a \in H : a + m[a].size \notin H

Shape(m, B, H, e) ==
  /\ Described(m, B, H) /\ Tiling(m, StartsOf(B, H), e) /\ United(m, H)
  /\ B # {} => Ended(m, StartsOf(B, H))
-----------------------------------------------------------------------------
(* Tilings.                                                                *)
LEMMA Apart ==
  ASSUME NEW m, NEW S, NEW e \in Nat, Tiling(m, S, e), NEW a \in S, NEW b \in S, a # b
  PROVE  /\ a \in Nat /\ b \in Nat /\ a < e /\ m[a].size \in Nat /\ m[a].size >= 2
         /\ a + m[a].size <= e /\ m[b].size \in Nat /\ m[b].size >= 2
         /\ a + m[a].size <= b \/ b + m[b].size <= a
BY DEF Tiling, Overhead

LEMMA Tile1 ==
  ASSUME NEW m, NEW S, NEW e \in Nat, Tiling(m, S, e), NEW a \in S
  PROVE  /\ a \in Nat /\ a < e /\ m[a].size \in Nat /\ m[a].size >= 2
         /\ a + m[a].size <= e /\ a + m[a].size \in S \cup {e}
BY DEF Tiling, Overhead

(* Every address lies in a tile.                                           *)
LEMMA Covered ==
  ASSUME NEW m, NEW S, NEW e \in Nat, Tiling(m, S, e), NEW c \in 0 .. e - 1
  PROVE  \E a \in S : a <= c /\ c < a + m[a].size
<1> DEFINE T == {c - x : x \in {y \in S : y <= c}}
<1>1. \A x \in S : x \in Nat BY DEF Tiling
<1>2. T \subseteq Nat BY <1>1
<1>3. c - 0 \in T BY DEF Tiling
<1>4. PICK n \in T : \A k \in T : n <= k
  <2> HIDE DEF T
  <2> QED BY <1>2, <1>3, LeastNat
<1>5. PICK a \in S : a <= c /\ n = c - a BY <1>4
<1>6. ASSUME a + m[a].size <= c PROVE FALSE
  <2>1. /\ m[a].size \in Nat /\ m[a].size >= 2 /\ a + m[a].size \in S \cup {e}
    BY Tile1
  <2>2. a + m[a].size \in S BY <1>1, <1>6, <2>1
  <2>3. c - (a + m[a].size) \in T BY <1>6, <2>2
  <2>4. n <= c - (a + m[a].size) BY <1>4, <2>3
  <2> QED BY <1>1, <1>5, <2>1, <2>4
<1>7. m[a].size \in Nat BY Tile1
<1> QED BY <1>1, <1>5, <1>6, <1>7

LEMMA TilingSame ==
  ASSUME NEW m, NEW k, NEW S, NEW e \in Nat, Tiling(m, S, e),
         \A a \in S : k[a].size = m[a].size
  PROVE  Tiling(k, S, e)
BY DEF Tiling

Sized(m, a, n) == m[a].size = n

(* No tile begins inside another.                                          *)
LEMMA Between ==
  ASSUME NEW m, NEW S, NEW e \in Nat, Tiling(m, S, e), NEW p \in Nat, p \in S,
         NEW z \in Nat, Sized(m, p, z), NEW r \in Nat, p < r, r < p + z
  PROVE  r \notin S
<1>1. SUFFICES ASSUME r \in S PROVE FALSE
  OBVIOUS
<1>2. p + m[p].size <= r \/ r + m[r].size <= p BY <1>1, Apart
<1>3. m[r].size \in Nat /\ m[p].size = z BY <1>1, Tile1 DEF Sized
<1> QED BY <1>2, <1>3

(* A tile is split in two.                                                 *)
LEMMA TilingSplit ==
  ASSUME NEW m, NEW k, NEW S, NEW e \in Nat, Tiling(m, S, e), NEW p \in Nat, p \in S,
         NEW z \in Nat, Sized(m, p, z), NEW g \in Nat, g >= 2, Sized(k, p, g),
         NEW r \in Nat, p + g = r, NEW y \in Nat, y >= 2, Sized(k, r, y), g + y = z,
         \A a \in S \ {p} : k[a].size = m[a].size
  PROVE  Tiling(k, S \cup {r}, e)
<1>0. m[p].size = z /\ k[p].size = g /\ k[r].size = y BY DEF Sized
<1>1. /\ p \in Nat /\ p < e /\ m[p].size \in Nat /\ p + m[p].size <= e
      /\ p + m[p].size \in S \cup {e}
  BY Tile1
<1>2. r \notin S
  <2>1. p < r /\ r < p + z OBVIOUS
  <2> QED BY <2>1, Between
<1>3. S \cup {r} \subseteq 0 .. e - 1 /\ 0 \in S \cup {r}
  BY <1>0, <1>1 DEF Tiling
<1>4. ASSUME NEW a \in S \cup {r}
      PROVE  /\ k[a].size \in Nat /\ k[a].size >= Overhead
             /\ a + k[a].size \in S \cup {r} \cup {e}
  <2>1. CASE a = p BY <1>0, <1>1, <2>1 DEF Overhead
  <2>2. CASE a = r
    <3>1. a + k[a].size = p + m[p].size BY <1>0, <1>1, <2>2
    <3> QED BY <1>0, <1>1, <2>2, <3>1 DEF Overhead
  <2>3. CASE a \in S \ {p} BY <2>3 DEF Tiling
  <2> QED BY <2>1, <2>2, <2>3
<1>5. ASSUME NEW a \in S \cup {r}, NEW b \in S \cup {r}, a < b
      PROVE  a + k[a].size <= b
  <2>1. CASE a \in S \ {p} /\ b \in S BY <1>5, <2>1 DEF Tiling
  <2>2. CASE a \in S \ {p} /\ b = r
    <3>1. a + m[a].size <= p \/ p + m[p].size <= a BY <2>2, Apart
    <3>2. a \in Nat /\ m[a].size \in Nat BY <2>2, Tile1
    <3> QED BY <1>0, <1>1, <1>5, <2>2, <3>1, <3>2
  <2>3. CASE a = p /\ b \in S
    <3>1. b \in Nat /\ p + m[p].size <= b
      <4>1. b \in Nat /\ p < b BY <1>1, <1>5, <2>3 DEF Tiling
      <4> QED BY <2>3, <4>1 DEF Tiling
    <3> QED BY <1>0, <1>1, <2>3, <3>1
  <2>4. CASE a = p /\ b = r BY <1>0, <1>1, <2>4
  <2>5. CASE a = r /\ b \in S
    <3>1. b \in Nat /\ p < b BY <1>0, <1>1, <1>5, <2>5 DEF Tiling
    <3>2. p + m[p].size <= b BY <2>5, <3>1 DEF Tiling
    <3> QED BY <1>0, <1>1, <2>5, <3>1, <3>2
  <2>6. CASE a = r /\ b = r BY <1>0, <1>1, <1>5, <2>6
  <2> QED BY <2>1, <2>2, <2>3, <2>4, <2>5, <2>6
<1> QED BY <1>2, <1>3, <1>4, <1>5 DEF Tiling

(* Two tiles become one.                                                   *)
LEMMA TilingJoin ==
  ASSUME NEW m, NEW k, NEW S, NEW e \in Nat, Tiling(m, S, e),
         NEW p \in Nat, p \in S, NEW q \in Nat, q \in S,
         NEW x \in Nat, Sized(m, p, x), NEW y \in Nat, Sized(m, q, y),
         NEW z \in Nat, Sized(k, p, z), p + x = q, z = x + y,
         \A a \in S \ {p, q} : k[a].size = m[a].size
  PROVE  Tiling(k, S \ {q}, e)
<1>0. m[p].size = x /\ m[q].size = y /\ k[p].size = z BY DEF Sized
<1>1. /\ p \in Nat /\ m[p].size \in Nat /\ m[p].size >= 2
      /\ q \in Nat /\ m[q].size \in Nat /\ m[q].size >= 2 /\ q + m[q].size \in S \cup {e}
      /\ q + m[q].size <= e
  BY Tile1
<1>2. S \ {q} \subseteq 0 .. e - 1 /\ 0 \in S \ {q}
  <2>1. q # 0 BY <1>0, <1>1
  <2> QED BY <2>1 DEF Tiling
<1>3. ASSUME NEW a \in S \ {q}
      PROVE  /\ k[a].size \in Nat /\ k[a].size >= Overhead
             /\ a + k[a].size \in (S \ {q}) \cup {e}
  <2>1. CASE a = p
    <3>1. p + k[p].size = q + m[q].size BY <1>0, <1>1
    <3>2. q + m[q].size # q BY <1>1
    <3> QED BY <1>0, <1>1, <2>1, <3>1, <3>2 DEF Overhead
  <2>2. CASE a # p
    <3>1. /\ a \in Nat /\ m[a].size \in Nat /\ m[a].size >= 2
          /\ a + m[a].size \in S \cup {e}
      BY Tile1
    <3>2. a + m[a].size # q
      <4>1. a + m[a].size <= p \/ p + m[p].size <= a BY <2>2, Apart
      <4> QED BY <1>0, <1>1, <3>1, <4>1
    <3> QED BY <2>2, <3>1, <3>2 DEF Overhead
  <2> QED BY <2>1, <2>2
<1>4. ASSUME NEW a \in S \ {q}, NEW b \in S \ {q}, a < b
      PROVE  a + k[a].size <= b
  <2>1. CASE a = p
    <3>1. b \in Nat /\ q <= b BY <1>0, <1>1, <1>4, <2>1 DEF Tiling
    <3>2. q + m[q].size <= b BY <1>0, <1>1, <1>4, <3>1 DEF Tiling
    <3> QED BY <1>0, <1>1, <2>1, <3>1, <3>2
  <2>2. CASE a # p BY <1>4, <2>2 DEF Tiling
  <2> QED BY <2>1, <2>2
<1> QED BY <1>1, <1>2, <1>3, <1>4 DEF Tiling

(* The last tile, and with it the tiled space, is lengthened or shortened. *)
LEMMA TilingLast ==
  ASSUME NEW m, NEW k, NEW S, NEW e \in Nat, Tiling(m, S, e), NEW p \in Nat, p \in S,
         m[p].size = e - p, NEW f \in Nat, f >= p + 2, k[p].size = f - p,
         \A a \in S \ {p} : k[a].size = m[a].size
  PROVE  Tiling(k, S, f)
<1>1. p \in Nat /\ m[p].size \in Nat BY Tile1
<1>2. ASSUME NEW a \in S \ {p}
      PROVE  /\ a \in Nat /\ m[a].size \in Nat /\ m[a].size >= 2
             /\ a + m[a].size <= p /\ a + m[a].size \in S
  <2>1. /\ a \in Nat /\ a < e /\ m[a].size \in Nat /\ m[a].size >= 2
        /\ a + m[a].size \in S \cup {e}
    BY Tile1
  <2>2. a + m[a].size <= p \/ p + m[p].size <= a BY Apart
  <2> QED BY <1>1, <2>1, <2>2
<1>3. 0 \in S /\ S \subseteq 0 .. f - 1
  <2>1. \A a \in S : a \in Nat /\ a <= p
    <3>1. \A a \in S \ {p} : a \in Nat /\ a <= p BY <1>1, <1>2
    <3> QED BY <3>1
  <2> QED BY <1>1, <2>1 DEF Tiling
<1>4. \A a \in S : /\ k[a].size \in Nat /\ k[a].size >= Overhead
                   /\ a + k[a].size \in S \cup {f}
  BY <1>1, <1>2 DEF Overhead
<1>5. \A a, b \in S : a < b => a + k[a].size <= b
  <2> SUFFICES ASSUME NEW a \in S, NEW b \in S, a < b PROVE a + k[a].size <= b
    OBVIOUS
  <2>1. CASE a = p
    <3>1. b \in Nat /\ b # p BY <1>1, <1>3, <2>1
    <3>2. b <= p BY <1>1, <1>2, <3>1
    <3> QED BY <1>1, <2>1, <3>1, <3>2
  <2>2. CASE a # p BY <2>2 DEF Tiling
  <2> QED BY <2>1, <2>2
<1> QED BY <1>2, <1>3, <1>4, <1>5 DEF Tiling

(* A tile is added at the end.                                             *)
LEMMA TilingAppend ==
  ASSUME NEW m, NEW k, NEW S, NEW e \in Nat, Tiling(m, S, e),
         NEW x \in Nat, x >= 2, NEW f \in Nat, e + x = f, k[e].size = x,
         \A a \in S : k[a].size = m[a].size
  PROVE  Tiling(k, S \cup {e}, f)
<1>1. \A a \in S : /\ a \in Nat /\ a < e /\ m[a].size \in Nat /\ m[a].size >= 2
                   /\ a + m[a].size <= e /\ a + m[a].size \in S \cup {e}
  BY Tile1
<1>2. 0 \in S \cup {e} /\ S \cup {e} \subseteq 0 .. f - 1 BY <1>1 DEF Tiling
<1>3. \A a \in S \cup {e} : /\ k[a].size \in Nat /\ k[a].size >= Overhead
                            /\ a + k[a].size \in S \cup {e} \cup {f}
  BY <1>1 DEF Overhead
<1>4. \A a, b \in S \cup {e} : a < b => a + k[a].size <= b
  BY <1>1 DEF Tiling
<1> QED BY <1>2, <1>3, <1>4 DEF Tiling
(* A step that changes cells of one tile only leaves the others alone.     *)
LEMMA Frame ==
  ASSUME NEW m, NEW k, NEW S, NEW e \in Nat, e <= OwnPages * Page, Tiling(m, S, e),
         NEW p \in S, \A c \in Cell : c < p \/ c >= p + m[p].size => k[c] = m[c],
         NEW a \in S \ {p}
  PROVE  /\ \A c \in a .. a + m[a].size - 1 : k[c] = m[c]
         /\ k[a] = m[a] /\ k[a + m[a].size - 1] = m[a + m[a].size - 1]
<1>1. /\ a \in Nat /\ p \in Nat /\ m[a].size \in Nat /\ m[a].size >= 2 /\ a + m[a].size <= e
      /\ m[p].size \in Nat /\ (a + m[a].size <= p \/ p + m[p].size <= a)
  BY Apart
<1>2. ASSUME NEW c \in a .. a + m[a].size - 1 PROVE k[c] = m[c]
  <2>1. c \in Nat /\ a <= c /\ c < a + m[a].size BY <1>1
  <2>2. c < OwnPages * Page BY <1>1, <2>1, Cells
  <2>3. c \in Cell BY <2>1, <2>2, Cells
  <2>4. c < p \/ c >= p + m[p].size BY <1>1, <2>1
  <2> QED BY <2>3, <2>4
<1>3. a \in a .. a + m[a].size - 1 /\ a + m[a].size - 1 \in a .. a + m[a].size - 1 BY <1>1
<1> QED BY <1>2, <1>3

(* Where the blocks and holes are.                                         *)
LEMMA InCell ==
  ASSUME NEW m, NEW S, NEW e \in Nat, e <= OwnPages * Page, Tiling(m, S, e), NEW a \in S
  PROVE  a \in Cell /\ a + m[a].size - 1 \in Cell
<1>1. a \in Nat /\ a < e /\ m[a].size \in Nat /\ m[a].size >= 2 /\ a + m[a].size <= e BY Tile1
<1> QED BY <1>1, Cells

LEMMA BlockNotHole ==
  ASSUME NEW m, NEW B, NEW H, Described(m, B, H), NEW b \in B, NEW a \in H
  PROVE  b.at # a /\ b.at \in StartsOf(B, H) /\ a \in StartsOf(B, H)
BY NotHole DEF Described, StartsOf

LEMMA SameBlock ==
  ASSUME NEW m, NEW B \in SUBSET Block, NEW H, Described(m, B, H),
         NEW b \in B, NEW d \in B, b.at = d.at
  PROVE  b = d
<1>1. m[b.at] = Header(FALSE, b.extent) /\ m[b.at] = Header(FALSE, d.extent)
  BY DEF Described
<1>2. b.extent = d.extent BY <1>1 DEF Header
<1> QED BY <1>2 DEF Block

(* Only the hole of an empty heap may lack its footer.                     *)
LEMMA OthersEnded ==
  ASSUME NEW m, NEW B, NEW H, NEW e \in Nat, Shape(m, B, H, e), NEW p \in H,
         NEW a \in StartsOf(B, H) \ {p}
  PROVE  m[a + m[a].size - 1] = Footer(a)
<1>1. CASE B # {} BY <1>1 DEF Shape, Ended
<1>2. CASE B = {}
  <2> DEFINE S == StartsOf(B, H)
  <2>1. S = H /\ p \in S /\ a \in S BY <1>2 DEF StartsOf
  <2>2. Tiling(m, S, e) /\ 0 \in S BY DEF Shape, Tiling
  <2>3. ASSUME NEW x \in S PROVE x = 0
    <3>1. 0 + m[0].size \in S \cup {e} /\ 0 + m[0].size \notin S
      BY <2>1, <2>2, Tile1 DEF Shape, United
    <3>2. m[0].size = e
      <4>1. m[0].size \in Nat BY <2>2, Tile1
      <4> QED BY <3>1, <4>1
    <3>3. x \in Nat /\ x < e BY <2>2, Tile1
    <3>4. x > 0 => 0 + m[0].size <= x BY <2>2, <3>3 DEF Tiling
    <3> QED BY <3>2, <3>3, <3>4
  <2> QED BY <2>1, <2>3
<1> QED BY <1>1, <1>2
LEMMA BlockAt ==
  ASSUME NEW m, NEW B \in SUBSET Block, NEW H, Described(m, B, H), NEW b \in B
  PROVE  /\ b.at \in Cell /\ b.extent \in Nat /\ m[b.at].size = b.extent
         /\ Payload(b) \subseteq b.at .. b.at + m[b.at].size - 1
<1>1. b.at \in Cell /\ b.at \in Nat /\ b.extent \in Nat BY Cells DEF Block
<1>2. m[b.at] = Header(FALSE, b.extent) BY DEF Described
<1>3. m[b.at].size = b.extent BY <1>1, <1>2, Taken
<1> QED BY <1>1, <1>3 DEF Payload

LEMMA PayloadsApart ==
  ASSUME NEW m, NEW B \in SUBSET Block, NEW H, NEW e \in Nat, Shape(m, B, H, e),
         NEW b \in B, NEW d \in B, b # d
  PROVE  Payload(b) \cap Payload(d) = {}
<1>1. Described(m, B, H) /\ Tiling(m, StartsOf(B, H), e) BY DEF Shape
<1>2. b.at \in StartsOf(B, H) /\ d.at \in StartsOf(B, H) /\ b.at # d.at
  BY <1>1, SameBlock DEF StartsOf
<1>3. /\ b.at \in Nat /\ d.at \in Nat /\ m[b.at].size \in Nat /\ m[d.at].size \in Nat
      /\ b.at + m[b.at].size <= d.at \/ d.at + m[d.at].size <= b.at
  BY <1>1, <1>2, Apart
<1>4. /\ Payload(b) \subseteq b.at .. b.at + m[b.at].size - 1
      /\ Payload(d) \subseteq d.at .. d.at + m[d.at].size - 1
  BY <1>1, BlockAt
<1>5. ASSUME NEW c \in Payload(b), c \in Payload(d) PROVE FALSE BY <1>3, <1>4, <1>5
<1> QED BY <1>5

LEMMA PayloadInCell ==
  ASSUME NEW m, NEW B \in SUBSET Block, NEW H, NEW e \in Nat, e <= OwnPages * Page,
         Shape(m, B, H, e), NEW b \in B
  PROVE  Payload(b) \subseteq Cell
<1>1. Described(m, B, H) /\ Tiling(m, StartsOf(B, H), e) /\ b.at \in StartsOf(B, H)
  BY DEF Shape, StartsOf
<1>2. b.at \in Nat /\ m[b.at].size \in Nat /\ b.at + m[b.at].size <= e BY <1>1, Tile1
<1>3. Payload(b) \subseteq b.at .. b.at + m[b.at].size - 1 BY <1>1, BlockAt
<1>4. ASSUME NEW c \in Payload(b) PROVE c \in Cell
  <2>1. c \in Nat /\ c < e BY <1>2, <1>3
  <2>2. c < OwnPages * Page BY <2>1, Cells
  <2> QED BY <2>1, <2>2, Cells
<1> QED BY <1>4
-----------------------------------------------------------------------------
(* The blocks B, and what they hold, are left alone.                       *)
Spared(m, k, B) == \A b \in B : \A c \in Payload(b) : k[c] = m[c]

(* A step from m to k that spares B has led to the blocks D, the holes H.  *)
Led(m, k, B, D, H, e) == Sane(k) /\ Shape(k, D, H, e) /\ Spared(m, k, B)

(* alloc.  The whole hole at p becomes a block.                            *)
LEMMA TakeWhole ==
  ASSUME NEW m \in Memory, NEW B \in SUBSET Block, NEW H, NEW e \in Nat, e <= OwnPages * Page,
         Shape(m, B, H, e), Sane(m), NEW p \in Nat, p \in H,
         NEW z \in Nat, z = m[p].size,
         NEW l, l = p + z - 1,
         NEW k \in Memory, k[p] = Header(FALSE, z), k[l] = Footer(p),
         \A c \in Cell \ {p, l} : k[c] = m[c],
         NEW d, d = [at |-> p, extent |-> z]
  PROVE  Led(m, k, B, B \cup {d}, H \ {p}, e)
<1> DEFINE S == StartsOf(B, H)
           T == StartsOf(B \cup {d}, H \ {p})
<1>1. p \in S /\ Tiling(m, S, e) /\ Described(m, B, H) /\ United(m, H) BY DEF Shape, StartsOf
<1>2. p \in Nat /\ p < e /\ z \in Nat /\ z >= 2 /\ p + z <= e BY <1>1, Tile1
<1>3. p \in Cell /\ p + z - 1 \in Cell /\ p + z - 1 # p BY <1>1, <1>2, InCell
<1>4. \A c \in Cell : c < p \/ c >= p + m[p].size => k[c] = m[c]
  BY <1>2, <1>3, Cells
<1>5. d \in Block BY <1>2, <1>3, Cells DEF Block
<1>6. k[p].size = z BY <1>2, Taken
<1>7. ASSUME NEW a \in S \ {p}
      PROVE  /\ \A c \in a .. a + m[a].size - 1 : k[c] = m[c]
             /\ k[a] = m[a] /\ k[a + m[a].size - 1] = m[a + m[a].size - 1]
  BY <1>1, <1>4, Frame
<1>8. T = S BY DEF StartsOf
<1>9. ASSUME NEW b \in B PROVE b.at \in S \ {p} /\ m[b.at] = Header(FALSE, b.extent)
  BY <1>1, BlockNotHole DEF Described
<1>10. Described(k, B \cup {d}, H \ {p})
  <2>1. \A b \in B : k[b.at] = Header(FALSE, b.extent) BY <1>7, <1>9
  <2>2. k[d.at] = Header(FALSE, d.extent) OBVIOUS
  <2>3. \A a \in H \ {p} : IsHole(k[a])
    <3>1. \A a \in H \ {p} : a \in S \ {p} /\ IsHole(m[a]) BY <1>1 DEF StartsOf, Described
    <3> QED BY <1>7, <3>1
  <2> QED BY <2>1, <2>2, <2>3 DEF Described
<1>11. Tiling(k, T, e)
  <2>1. \A a \in S : k[a].size = m[a].size BY <1>6, <1>7
  <2> QED BY <1>1, <1>8, <2>1, TilingSame
<1>12. United(k, H \ {p})
  <2>1. \A a \in H \ {p} : a \in S \ {p} BY DEF StartsOf
  <2> QED BY <1>1, <1>7, <2>1 DEF United
<1>13. Ended(k, T)
  <2>1. \A a \in S \ {p} : m[a + m[a].size - 1] = Footer(a) BY OthersEnded
  <2>2. \A a \in S \ {p} : k[a + k[a].size - 1] = Footer(a) BY <1>7, <2>1
  <2> QED BY <1>6, <1>8, <2>2 DEF Ended
<1>14. Sane(k)
  <2>1. Header(FALSE, z).size >= Overhead /\ Footer(p).kind # "header"
    BY <1>2, <1>3, Taken, Foot DEF Overhead
  <2> QED BY <1>3, <2>1 DEF Sane
<1>15. Spared(m, k, B)
  <2> SUFFICES ASSUME NEW b \in B, NEW c \in Payload(b) PROVE k[c] = m[c]
    BY DEF Spared
  <2>2. c \in b.at .. b.at + m[b.at].size - 1 BY <1>1, BlockAt
  <2> QED BY <1>7, <1>9, <2>2
<1> QED BY <1>4, <1>5, <1>10, <1>11, <1>12, <1>13, <1>14, <1>15 DEF Shape, Led

(* The hole at p is split: a block of g units and a smaller hole.          *)
Parted(p, z, g, y, f, r, l) ==
  p + g = r /\ f = r - 1 /\ l = p + z - 1 /\ z - g = y /\ g >= 2 /\ g + 2 <= z
Split(m, k, p, g, y, f, r, l) ==
  /\ k[p] = Header(FALSE, g) /\ k[f] = Footer(p)
  /\ k[r] = Header(TRUE, y) /\ k[l] = Footer(r)
  /\ \A c \in Cell \ {p, f, r, l} : k[c] = m[c]

LEMMA TakePart ==
  ASSUME NEW m \in Memory, NEW B \in SUBSET Block, NEW H, NEW e \in Nat, e <= OwnPages * Page,
         Shape(m, B, H, e), Sane(m), NEW p \in Nat, p \in H,
         NEW z \in Nat, z = m[p].size, NEW g \in Nat, NEW y \in Nat, NEW f, NEW r \in Nat, NEW l,
         Parted(p, z, g, y, f, r, l), NEW k \in Memory, Split(m, k, p, g, y, f, r, l),
         NEW d, d = [at |-> p, extent |-> g]
  PROVE  Led(m, k, B, B \cup {d}, (H \ {p}) \cup {r}, e)
<1> DEFINE S == StartsOf(B, H)
           H2 == (H \ {p}) \cup {r}
           T == StartsOf(B \cup {d}, H2)
<1>0. /\ p + g = r /\ f = r - 1 /\ l = p + z - 1 /\ z - g = y /\ g >= 2 /\ g + 2 <= z
      /\ k[p] = Header(FALSE, g) /\ k[f] = Footer(p)
      /\ k[r] = Header(TRUE, y) /\ k[l] = Footer(r)
      /\ \A c \in Cell \ {p, f, r, l} : k[c] = m[c]
  BY DEF Parted, Split
<1>1. p \in S /\ Tiling(m, S, e) /\ Described(m, B, H) /\ United(m, H) BY DEF Shape, StartsOf
<1>2. p \in Nat /\ p < e /\ z \in Nat /\ z >= 2 /\ p + z <= e /\ p + z \in S \cup {e}
  BY <1>0, <1>1, Tile1
<1>3. /\ p \in Cell /\ p + z - 1 \in Cell /\ r \in Cell /\ r - 1 \in Cell
      /\ z - g \in Nat /\ z - g >= 2
      /\ p # r - 1 /\ p # r /\ p # p + z - 1 /\ r - 1 # r /\ r - 1 # p + z - 1 /\ r # p + z - 1
  BY <1>0, <1>1, <1>2, InCell, Cells
<1>4. \A c \in Cell : c < p \/ c >= p + m[p].size => k[c] = m[c]
  BY <1>0, <1>2, <1>3, Cells
<1>5. d \in Block BY <1>0, <1>2, <1>3, Cells DEF Block
<1>6. k[p].size = g /\ k[r].size = z - g BY <1>0, <1>3, Hole, Taken
<1>6a. /\ g \in Nat /\ r \in Nat /\ y \in Nat /\ p \in Nat /\ z \in Nat
       /\ p + g = r /\ g + y = z /\ g >= 2
  BY <1>0
<1>6b. /\ p + k[p].size - 1 = r - 1 /\ r + k[r].size = p + z
       /\ r + k[r].size - 1 = p + z - 1
  <2>1. k[p].size = g /\ k[r].size = y BY <1>0, <1>6
  <2> QED BY ONLY <1>6a, <2>1
<1>7. ASSUME NEW a \in S \ {p}
      PROVE  /\ \A c \in a .. a + m[a].size - 1 : k[c] = m[c]
             /\ k[a] = m[a] /\ k[a + m[a].size - 1] = m[a + m[a].size - 1]
  BY <1>0, <1>1, <1>4, Frame
<1>8. T = S \cup {r} BY DEF StartsOf
<1>9. ASSUME NEW b \in B PROVE b.at \in S \ {p} /\ m[b.at] = Header(FALSE, b.extent)
  BY <1>0, <1>1, BlockNotHole DEF Described
<1>10a. r \notin S
  <2>1. Sized(m, p, z) /\ p < r /\ r < p + z BY <1>0 DEF Sized
  <2> QED BY <1>0, <1>1, <2>1, Between
<1>10. Tiling(k, T, e)
  <2>1. \A a \in S \ {p} : k[a].size = m[a].size BY <1>0, <1>7
  <2>2. Tiling(k, S \cup {r}, e)
    <3>1. Sized(m, p, z) /\ Sized(k, p, g) /\ Sized(k, r, y) BY <1>0, <1>3, <1>6 DEF Sized
    <3>2. g + y = z /\ y >= 2 BY <1>0, <1>3
    <3> HIDE DEF S
    <3> QED BY ONLY <1>1, <1>6a, <2>1, <3>1, <3>2, e \in Nat, TilingSplit
  <2> QED BY <1>0, <1>8, <2>2
<1>11. Described(k, B \cup {d}, H2)
  <2>1. \A b \in B : k[b.at] = Header(FALSE, b.extent) BY <1>0, <1>7, <1>9
  <2>2. k[d.at] = Header(FALSE, d.extent) BY <1>0
  <2>3. \A a \in H \ {p} : IsHole(k[a])
    <3>1. \A a \in H \ {p} : a \in S \ {p} /\ IsHole(m[a]) BY <1>0, <1>1 DEF StartsOf, Described
    <3> QED BY <1>0, <1>7, <3>1
  <2>4. IsHole(k[r]) BY <1>0, <1>3, Hole
  <2> QED BY <1>0, <2>1, <2>2, <2>3, <2>4 DEF Described
<1>12. United(k, H2)
  <2>1. ASSUME NEW a \in H \ {p} PROVE a + k[a].size \notin H2
    <3>1. a \in S \ {p} /\ k[a] = m[a] BY <1>0, <1>7 DEF StartsOf
    <3>2. a + m[a].size \in S \cup {e} BY <1>0, <1>1, <3>1, Tile1
    <3>3. a + m[a].size # r BY <1>0, <1>2, <1>3, <1>10a, <3>2
    <3> QED BY <1>0, <1>1, <3>1, <3>3 DEF United
  <2>2. r + k[r].size \notin H2
    <3>1. r + k[r].size = p + z BY <1>0, <1>6b
    <3>2. p + z \notin H BY <1>0, <1>1 DEF United
    <3>3. p + z # r BY ONLY <1>0, <1>2, <1>3, <1>6a
    <3> QED BY ONLY <1>0, <3>1, <3>2, <3>3
  <2> QED BY <1>0, <2>1, <2>2 DEF United
<1>13. Ended(k, T)
  <2>1. \A a \in S \ {p} : m[a + m[a].size - 1] = Footer(a) BY <1>0, OthersEnded
  <2>2. \A a \in S \ {p} : k[a + k[a].size - 1] = Footer(a) BY <1>0, <1>7, <2>1
  <2>3. k[p + k[p].size - 1] = Footer(p) BY <1>0, <1>6b
  <2>5. k[r + k[r].size - 1] = Footer(r) BY <1>0, <1>6b
  <2> QED BY <1>0, <1>8, <2>2, <2>3, <2>5 DEF Ended
<1>14. Sane(k)
  <2>1. k[p].size >= Overhead /\ k[r].size >= Overhead BY <1>0, <1>3, <1>6 DEF Overhead
  <2>2. k[f].kind # "header" /\ k[l].kind # "header" BY <1>0, <1>3, Foot
  <2> QED BY <1>0, <2>1, <2>2 DEF Sane
<1>15. Spared(m, k, B)
  <2> SUFFICES ASSUME NEW b \in B, NEW c \in Payload(b) PROVE k[c] = m[c]
    BY DEF Spared
  <2>2. c \in b.at .. b.at + m[b.at].size - 1 BY <1>0, <1>1, BlockAt
  <2> QED BY <1>0, <1>7, <1>9, <2>2
<1>16. r \in Cell /\ r \notin H BY <1>0, <1>3, <1>10a DEF StartsOf
<1>18. Shape(k, B \cup {d}, H2, e) BY <1>0, <1>10, <1>11, <1>12, <1>13 DEF Shape
<1> QED BY <1>0, <1>14, <1>15, <1>16, <1>18 DEF Led
-----------------------------------------------------------------------------
(* A heap in order but for the hole at p, which may lack its footer and    *)
(* touch the next hole.                                                    *)
Loose(m, B, H, e, p) ==
  /\ Sane(m) /\ Described(m, B, H) /\ Tiling(m, StartsOf(B, H), e)
  /\ p \in H /\ \A a \in H \ {p} : a + m[a].size \notin H
  /\ \A a \in StartsOf(B, H) \ {p} : m[a + m[a].size - 1] = Footer(a)

(* The last hole, at p, gets x units, up to l; the heap ends at f.         *)
Regrown(m, k, p, x, l, f) ==
  /\ x >= 2 /\ p + x = f /\ l = f - 1
  /\ k[p] = Header(TRUE, x) /\ k[l] = Footer(p)
  /\ \A c \in Cell : c < p => k[c] = m[c]
  /\ \A c \in Cell \ {p, l} : k[c] = Other \/ \E d \in Cell : k[c] = m[d]

(* The hole at the end of the heap, with the heap, is lengthened or        *)
(* shortened; what lies behind it may be lost, or be what lay elsewhere.   *)
LEMMA LastResized ==
  ASSUME NEW m \in Memory, NEW B \in SUBSET Block, NEW H, NEW e \in Nat, e <= OwnPages * Page,
         NEW p \in Nat, Loose(m, B, H, e, p), NEW z \in Nat, Sized(m, p, z), p + z = e,
         NEW x \in Nat, NEW f \in Nat, f <= OwnPages * Page, NEW l,
         NEW k \in Memory, Regrown(m, k, p, x, l, f)
  PROVE  Led(m, k, B, B, H, f)
<1> USE DEF Loose, Sized, Regrown
<1> DEFINE S == StartsOf(B, H)
<1>1. p \in S /\ p \in Nat /\ p < e BY Tile1 DEF StartsOf
<1>2. p \in Cell /\ f - 1 \in Cell BY <1>1, Cells
<1>3. k[p].size = x /\ IsHole(k[p]) BY Hole
<1>4. ASSUME NEW a \in S \ {p}
      PROVE  /\ a \in Nat /\ m[a].size \in Nat /\ m[a].size >= 2 /\ a + m[a].size <= p
             /\ \A c \in a .. a + m[a].size - 1 : k[c] = m[c]
             /\ k[a] = m[a] /\ k[a + m[a].size - 1] = m[a + m[a].size - 1]
  <2>1. /\ a \in Nat /\ m[a].size \in Nat /\ m[a].size >= 2
        /\ (a + m[a].size <= p \/ p + m[p].size <= a) /\ a < e
    BY <1>1, Apart
  <2>2. a + m[a].size <= p BY <2>1
  <2>3. ASSUME NEW c \in a .. a + m[a].size - 1 PROVE k[c] = m[c]
    <3>1. c \in Nat /\ c < p BY <1>1, <2>1, <2>2
    <3>2. c \in Cell BY <1>2, <3>1, Cells
    <3> QED BY <3>1, <3>2
  <2>4. a \in a .. a + m[a].size - 1 /\ a + m[a].size - 1 \in a .. a + m[a].size - 1 BY <2>1
  <2> QED BY <2>1, <2>2, <2>3, <2>4
<1>5. Tiling(k, S, f)
  <2>1. \A a \in S \ {p} : k[a].size = m[a].size BY <1>4
  <2>2. Tiling(m, S, e) OBVIOUS
  <2>3. e - p = z /\ f - p = x /\ f >= p + 2 OBVIOUS
  <2>4. m[p].size = e - p /\ k[p].size = f - p BY <1>3, <2>3
  <2> HIDE DEF S
  <2> QED BY ONLY <1>1, <2>1, <2>2, <2>3, <2>4, TilingLast, e \in Nat, f \in Nat
<1>6. Described(k, B, H)
  <2>1. ASSUME NEW b \in B PROVE k[b.at] = Header(FALSE, b.extent)
    <3>1. b.at \in S \ {p} BY BlockNotHole
    <3> QED BY <1>4, <3>1 DEF Described
  <2>2. ASSUME NEW a \in H PROVE IsHole(k[a])
    <3>1. CASE a = p BY <1>3, <3>1
    <3>2. CASE a # p
      <4>1. a \in S \ {p} BY <3>2 DEF StartsOf
      <4> QED BY <1>4, <4>1 DEF Described
    <3> QED BY <3>1, <3>2
  <2> QED BY <2>1, <2>2 DEF Described
<1>7. United(k, H)
  <2>1. ASSUME NEW a \in H \ {p} PROVE a + k[a].size \notin H
    <3>1. a \in S \ {p} BY DEF StartsOf
    <3> QED BY <1>4, <3>1
  <2>2. p + k[p].size = f BY <1>1, <1>3
  <2>3. f \notin H
    <3>1. ASSUME f \in H PROVE FALSE
      <4>1. f \in S \ {p} BY <1>1, <3>1 DEF StartsOf
      <4> QED BY <1>1, <1>4, <4>1
    <3> QED BY <3>1
  <2> QED BY <2>1, <2>2, <2>3 DEF United
<1>8. Ended(k, S)
  <2>1. \A a \in S \ {p} : k[a + k[a].size - 1] = Footer(a) BY <1>4
  <2>2a. p + x = f OBVIOUS
  <2>2. p + k[p].size - 1 = f - 1 BY ONLY <2>2a, <1>1, <1>3, x \in Nat, f \in Nat
  <2>3. k[p + k[p].size - 1] = Footer(p) BY <2>2
  <2> QED BY <2>1, <2>3 DEF Ended
<1>9. Sane(k)
  <2>1. Footer(p).kind # "header" /\ Other.kind # "header" BY <1>2, Foot, Rest
  <2>2. k[p].size >= Overhead BY <1>3 DEF Overhead
  <2> QED BY <1>2, <2>1, <2>2 DEF Sane
<1>10. ASSUME NEW b \in B, NEW c \in Payload(b) PROVE k[c] = m[c]
  <2>1. b.at \in S \ {p} BY BlockNotHole
  <2>2. c \in b.at .. b.at + m[b.at].size - 1 BY BlockAt
  <2> QED BY <1>4, <2>1, <2>2
<1> QED BY <1>5, <1>6, <1>7, <1>8, <1>9, <1>10 DEF Shape, Led, Spared

(* Without a hole, the new pages become one.                               *)
LEMMA HoleAppended ==
  ASSUME NEW m \in Memory, NEW B \in SUBSET Block, NEW e \in Nat, e <= OwnPages * Page,
         Shape(m, B, {}, e), Sane(m),
         NEW x \in Nat, NEW f \in Nat, f <= OwnPages * Page, NEW l,
         NEW k \in Memory, Regrown(m, k, e, x, l, f), \A c \in Cell \ {e, l} : k[c] = m[c]
  PROVE  Led(m, k, B, B, {e}, f)
<1> USE DEF Regrown
<1> DEFINE S == StartsOf(B, {})
           T == StartsOf(B, {e})
<1>1. e \in Cell /\ f - 1 \in Cell BY Cells
<1>2. k[e].size = x /\ IsHole(k[e]) BY Hole
<1>3. Tiling(m, S, e) /\ Described(m, B, {}) BY DEF Shape
<1>4. ASSUME NEW a \in S
      PROVE  /\ a \in Nat /\ m[a].size \in Nat /\ m[a].size >= 2 /\ a + m[a].size <= e
             /\ \A c \in a .. a + m[a].size - 1 : k[c] = m[c]
             /\ k[a] = m[a] /\ k[a + m[a].size - 1] = m[a + m[a].size - 1]
  <2>1. /\ a \in Nat /\ m[a].size \in Nat /\ m[a].size >= 2 /\ a + m[a].size <= e
    BY <1>3, Tile1
  <2>2. ASSUME NEW c \in a .. a + m[a].size - 1 PROVE k[c] = m[c]
    <3>1. c \in Nat /\ c < e BY <2>1
    <3>2. c \in Cell BY <1>1, <3>1, Cells
    <3> QED BY <3>1, <3>2
  <2>3. a \in a .. a + m[a].size - 1 /\ a + m[a].size - 1 \in a .. a + m[a].size - 1 BY <2>1
  <2> QED BY <2>1, <2>2, <2>3
<1>5. T = S \cup {e} /\ S = {b.at : b \in B} BY DEF StartsOf
<1>6. Tiling(k, T, f)
  <2>1. \A a \in S : k[a].size = m[a].size BY <1>4
  <2> HIDE DEF S, T
  <2> QED BY <1>2, <1>3, <1>5, <2>1, TilingAppend
<1>7. Described(k, B, {e})
  <2>1. \A b \in B : b.at \in S BY DEF StartsOf
  <2> QED BY <1>2, <1>3, <1>4, <2>1 DEF Described
<1>3b. e + x = f OBVIOUS
<1>3a. e + k[e].size = f BY ONLY <1>2, <1>3b
<1>8. United(k, {e})
  <2>1. e # f OBVIOUS
  <2> QED BY ONLY <1>3a, <2>1 DEF United
<1>9. Ended(k, T)
  <2>1. Ended(m, S) BY DEF Shape, Ended, StartsOf
  <2>2. \A a \in S : k[a + k[a].size - 1] = Footer(a) BY <1>4, <2>1 DEF Ended
  <2>3. e + k[e].size - 1 = f - 1 BY ONLY <1>2, <1>3b, e \in Nat, x \in Nat
  <2>4. k[e + k[e].size - 1] = Footer(e) BY <2>3
  <2> QED BY <1>5, <2>2, <2>4 DEF Ended
<1>10. Sane(k)
  <2>1. Footer(e).kind # "header" BY <1>1, Foot
  <2>2. k[e].size >= Overhead BY <1>1, <1>2 DEF Overhead
  <2> QED BY <1>1, <2>1, <2>2 DEF Sane
<1>11. ASSUME NEW b \in B, NEW c \in Payload(b) PROVE k[c] = m[c]
  <2>1. b.at \in S BY <1>5
  <2>2. c \in b.at .. b.at + m[b.at].size - 1 BY <1>3, BlockAt
  <2> QED BY <1>4, <2>1, <2>2
<1> QED BY <1>6, <1>7, <1>8, <1>9, <1>10, <1>11 DEF Shape, Led, Spared
-----------------------------------------------------------------------------
(* free.  The block b has become a hole or part of one; that hole, at p,   *)
(* may touch the next one.                                                 *)
Freed(m, k, B, H, e, p) ==
  /\ Sane(k) /\ Described(k, B, H) /\ Tiling(k, StartsOf(B, H), e) /\ Ended(k, StartsOf(B, H))
  /\ p \in H /\ \A a \in H \ {p} : a + k[a].size \notin H
  /\ Spared(m, k, B)

(* ... without a hole on the left: it is one of its own.                   *)
LEMMA FreedAlone ==
  ASSUME NEW m \in Memory, NEW B \in SUBSET Block, NEW H, NEW e \in Nat, e <= OwnPages * Page,
         Shape(m, B, H, e), Sane(m), NEW b \in B, NEW p \in Nat, p = b.at,
         NEW x \in Nat, x = b.extent, \A a \in H : a + m[a].size # p,
         NEW k \in Memory, k[p] = Header(TRUE, x),
         \A c \in Cell \ {p} : k[c] = m[c]
  PROVE  Freed(m, k, B \ {b}, H \cup {p}, e, p)
<1> DEFINE S == StartsOf(B, H)
<1>1. /\ Described(m, B, H) /\ Tiling(m, S, e) /\ Ended(m, S) /\ United(m, H)
      /\ p \in S /\ p \notin H
  BY BlockNotHole DEF Shape, StartsOf
<1>2. p \in Cell /\ m[p].size = x /\ x >= 2
  <2>1. p \in Cell /\ m[p].size = x BY <1>1, BlockAt
  <2>2. m[p].size >= 2 BY <1>1, Tile1
  <2> QED BY <2>1, <2>2
<1>3. k[p].size = x /\ IsHole(k[p]) BY Hole
<1>4. StartsOf(B \ {b}, H \cup {p}) = S BY DEF StartsOf
<1>5. ASSUME NEW a \in S \ {p}
      PROVE  /\ \A c \in a .. a + m[a].size - 1 : k[c] = m[c]
             /\ k[a] = m[a] /\ k[a + m[a].size - 1] = m[a + m[a].size - 1]
  <2>1. \A c \in Cell : c < p \/ c >= p + m[p].size => k[c] = m[c] BY <1>2, Cells
  <2> QED BY <1>1, <2>1, Frame
<1>6. ASSUME NEW d \in B \ {b} PROVE d.at \in S \ {p}
  BY <1>1, SameBlock, BlockNotHole DEF StartsOf
<1>7. Tiling(k, S, e)
  <2>1. \A a \in S : k[a].size = m[a].size BY <1>2, <1>3, <1>5
  <2> QED BY <1>1, <2>1, TilingSame
<1>8. Described(k, B \ {b}, H \cup {p})
  <2>1. \A d \in B \ {b} : k[d.at] = Header(FALSE, d.extent) BY <1>1, <1>5, <1>6 DEF Described
  <2>2. \A a \in H : a \in S \ {p} BY <1>1 DEF StartsOf
  <2>3. \A a \in H : IsHole(k[a]) BY <1>1, <1>5, <2>2 DEF Described
  <2> QED BY <1>3, <2>1, <2>3 DEF Described
<1>9. Ended(k, S)
  <2>1. \A a \in S \ {p} : k[a + k[a].size - 1] = Footer(a) BY <1>1, <1>5 DEF Ended
  <2>2. PICK z \in Nat : z = p + x - 1 /\ z # p BY <1>2
  <2>3. p + m[p].size - 1 = z /\ p + k[p].size - 1 = z
    BY ONLY <1>2, <1>3, <2>2, p \in Nat, x \in Nat
  <2>4. m[z] = Footer(p) BY <1>1, <2>3 DEF Ended
  <2>5. z \in Cell BY <1>1, <2>3, InCell
  <2>6. k[p + k[p].size - 1] = Footer(p) BY <2>2, <2>3, <2>4, <2>5
  <2> QED BY <2>1, <2>6 DEF Ended
<1>10. \A a \in H : a + k[a].size \notin H \cup {p}
  <2>1. \A a \in H : a \in S \ {p} BY <1>1 DEF StartsOf
  <2> QED BY <1>1, <1>5, <2>1 DEF United
<1>11. Sane(k)
  <2>1. k[p].size >= Overhead BY ONLY <1>2, <1>3 DEF Overhead
  <2> QED BY <2>1 DEF Sane
<1>12. ASSUME NEW d \in B \ {b}, NEW c \in Payload(d) PROVE k[c] = m[c]
  <2>1. c \in d.at .. d.at + m[d.at].size - 1 BY <1>1, BlockAt
  <2> QED BY <1>5, <1>6, <2>1
<1> QED BY <1>4, <1>7, <1>8, <1>9, <1>10, <1>11, <1>12 DEF Freed, Spared

(* ... as the end of the hole on the left.                                 *)
LeftTakes(m, k, p, q, x, y, z, f) ==
  /\ y = z + x /\ f = q + x - 1
  /\ k[p] = Header(TRUE, y) /\ k[q] = Header(TRUE, x) /\ k[f] = Footer(p)
  /\ \A c \in Cell \ {p, q, f} : k[c] = m[c]

LEMMA FreedLeft ==
  ASSUME NEW m \in Memory, NEW B \in SUBSET Block, NEW H, NEW e \in Nat, e <= OwnPages * Page,
         Shape(m, B, H, e), Sane(m), NEW b \in B, NEW q \in Nat, q = b.at,
         NEW p \in Nat, p \in H, NEW z \in Nat, Sized(m, p, z), p + z = q,
         NEW x \in Nat, x = b.extent, NEW y \in Nat, NEW f \in Nat,
         NEW k \in Memory, LeftTakes(m, k, p, q, x, y, z, f)
  PROVE  Freed(m, k, B \ {b}, H, e, p)
<1> USE DEF Sized, LeftTakes
<1> DEFINE S == StartsOf(B, H)
<1>1. /\ Described(m, B, H) /\ Tiling(m, S, e) /\ Ended(m, S) /\ United(m, H)
      /\ q \in S /\ q \notin H /\ p \in S
  BY BlockNotHole DEF Shape, StartsOf
<1>2. q \in Cell /\ m[q].size = x /\ x >= 2
  <2>1. b.at \in Cell /\ m[b.at].size = b.extent BY <1>1, BlockAt
  <2>2. m[q].size >= 2 BY <1>1, Tile1
  <2> QED BY <2>1, <2>2
<1>3. p \in Cell /\ z >= 2 /\ p < q
  <2>1. m[p].size >= 2 BY <1>1, Tile1
  <2> QED BY <1>1, <2>1, InCell
<1>4. k[p].size = y /\ IsHole(k[p]) /\ k[q].size = x BY Hole
<1>4a. p + y = q + x /\ p + y - 1 = f OBVIOUS
<1>5. ASSUME NEW a \in S \ {p, q}
      PROVE  /\ \A c \in a .. a + m[a].size - 1 : k[c] = m[c]
             /\ k[a] = m[a] /\ k[a + m[a].size - 1] = m[a + m[a].size - 1]
  <2>1. /\ a \in Nat /\ m[a].size \in Nat /\ m[a].size >= 2 /\ a + m[a].size <= e
        /\ (a + m[a].size <= p \/ p + m[p].size <= a)
        /\ (a + m[a].size <= q \/ q + m[q].size <= a)
    BY <1>1, Apart
  <2>2. a + m[a].size <= p \/ q + x <= a BY <1>2, <1>3, <2>1
  <2>3. ASSUME NEW c \in a .. a + m[a].size - 1 PROVE k[c] = m[c]
    <3>1. c \in Nat /\ a <= c /\ c < a + m[a].size /\ c < e BY <2>1
    <3>2. c \in Cell BY <3>1, Cells
    <3>3. c < p \/ q + x <= c BY ONLY <2>1, <2>2, <3>1, p \in Nat, q \in Nat, x \in Nat
    <3>4. c \notin {p, q, f}
      BY ONLY <1>2, <1>3, <3>1, <3>3, p \in Nat, q \in Nat, x \in Nat, f = q + x - 1
    <3> QED BY <3>2, <3>4
  <2>4. a \in a .. a + m[a].size - 1 /\ a + m[a].size - 1 \in a .. a + m[a].size - 1 BY <2>1
  <2> QED BY <2>3, <2>4
<1>6. ASSUME NEW d \in B \ {b} PROVE d.at \in S \ {p, q}
  BY <1>1, SameBlock, BlockNotHole DEF StartsOf
<1>7. StartsOf(B \ {b}, H) = S \ {q}
  <2>1. \A d \in B : d.at = q <=> d = b BY <1>1, SameBlock
  <2> QED BY <1>1, <2>1 DEF StartsOf
<1>8. Tiling(k, S \ {q}, e)
  <2>1. \A a \in S \ {p, q} : k[a].size = m[a].size BY <1>5
  <2>2. Sized(m, p, z) /\ Sized(m, q, x) /\ Sized(k, p, y) BY <1>2, <1>4 DEF Sized
  <2> HIDE DEF S, Sized
  <2> QED BY ONLY <1>1, <2>1, <2>2, TilingJoin, e \in Nat, p \in Nat, q \in Nat,
             x \in Nat, y \in Nat, z \in Nat, p + z = q, y = z + x
<1>9. Described(k, B \ {b}, H)
  <2>1. \A d \in B \ {b} : k[d.at] = Header(FALSE, d.extent) BY <1>1, <1>5, <1>6 DEF Described
  <2>2. \A a \in H \ {p} : a \in S \ {p, q} BY <1>1 DEF StartsOf
  <2>3. \A a \in H \ {p} : IsHole(k[a]) BY <1>1, <1>5, <2>2 DEF Described
  <2> QED BY <1>4, <2>1, <2>3 DEF Described
<1>10. p + k[p].size - 1 = f BY ONLY <1>4, <1>4a
<1>11. Ended(k, S \ {q})
  <2>1. \A a \in S \ {p, q} : k[a + k[a].size - 1] = Footer(a) BY <1>1, <1>5 DEF Ended
  <2>2. k[p + k[p].size - 1] = Footer(p) BY <1>10
  <2> QED BY <2>1, <2>2 DEF Ended
<1>12. \A a \in H \ {p} : a + k[a].size \notin H
  <2>1. \A a \in H \ {p} : a \in S \ {p, q} BY <1>1 DEF StartsOf
  <2> QED BY <1>1, <1>5, <2>1 DEF United
<1>13. Sane(k)
  <2>1. y >= 2 BY <1>2
  <2>3. k[p].size >= Overhead /\ k[q].size >= Overhead
    BY ONLY <1>2, <1>4, <2>1 DEF Overhead
  <2>2. Footer(p).kind # "header" BY <1>3, Foot
  <2> QED BY <2>2, <2>3 DEF Sane
<1>14. ASSUME NEW d \in B \ {b}, NEW c \in Payload(d) PROVE k[c] = m[c]
  <2>1. c \in d.at .. d.at + m[d.at].size - 1 BY <1>1, BlockAt
  <2> QED BY <1>5, <1>6, <2>1
<1> QED BY <1>7, <1>8, <1>9, <1>11, <1>12, <1>13, <1>14 DEF Freed, Spared

(* One cell is written.                                                    *)
Put(m, k, a, v) == k \in Memory /\ \A c \in Cell : k[c] = IF c = a THEN v ELSE m[c]

(* The hole at p has taken in its right neighbour.                         *)
Rejoined(m, w, B, H, e, p) == Loose(w, B, H, e, p) /\ Spared(m, w, B)

(* The hole on the right joins it, without a footer.                       *)
LEMMA FreedRight ==
  ASSUME NEW m, NEW k \in Memory, NEW B \in SUBSET Block, NEW H, NEW e \in Nat,
         e <= OwnPages * Page, NEW p \in Nat, Freed(m, k, B, H, e, p),
         NEW x \in Nat, Sized(k, p, x), NEW q \in Nat, q \in H, p + x = q,
         NEW y \in Nat, Sized(k, q, y), NEW z \in Nat, z = x + y,
         NEW w, Put(k, w, p, Header(TRUE, z))
  PROVE  Rejoined(m, w, B, H \ {q}, e, p)
<1>0. p \in Cell /\ w \in Memory /\ w[p] = Header(TRUE, z) /\ \A c \in Cell \ {p} : w[c] = k[c]
  BY InCell DEF Freed, StartsOf, Put
<1> USE <1>0 DEF Freed, Sized, Rejoined
<1> DEFINE S == StartsOf(B, H)
<1>1. /\ Described(k, B, H) /\ Tiling(k, S, e) /\ Ended(k, S)
      /\ p \in S /\ q \in S /\ p \in H
  BY DEF Freed, StartsOf
<1>2. y >= 2 /\ x >= 2 /\ p \in Cell
  <2>1. k[p].size >= 2 /\ k[q].size >= 2 /\ p \in Cell BY <1>1, Tile1, InCell
  <2> QED BY <2>1
<1>3. p < q /\ z >= 2 BY <1>2
<1>4. w[p].size = z /\ IsHole(w[p]) BY Hole
<1>5. ASSUME NEW a \in S \ {p}
      PROVE  /\ \A c \in a .. a + k[a].size - 1 : w[c] = k[c]
             /\ w[a] = k[a] /\ w[a + k[a].size - 1] = k[a + k[a].size - 1]
  <2>1. \A c \in Cell : c < p \/ c >= p + k[p].size => w[c] = k[c] BY <1>2, Cells
  <2> QED BY <1>1, <2>1, Frame
<1>6. \A b \in B : b.at \in S \ {p, q} BY <1>1, BlockNotHole
<1>7. StartsOf(B, H \ {q}) = S \ {q} BY <1>6 DEF StartsOf
<1>8. Tiling(w, S \ {q}, e)
  <2>1. \A a \in S \ {p, q} : w[a].size = k[a].size BY <1>5
  <2>2. Sized(k, p, x) /\ Sized(k, q, y) /\ Sized(w, p, z) BY <1>4 DEF Sized
  <2> HIDE DEF S, Sized
  <2> QED BY ONLY <1>1, <2>1, <2>2, TilingJoin, e \in Nat, p \in Nat, q \in Nat,
             x \in Nat, y \in Nat, z \in Nat, q = p + x, z = x + y
<1>9. Described(w, B, H \ {q})
  <2>1. \A b \in B : w[b.at] = Header(FALSE, b.extent) BY <1>1, <1>5, <1>6 DEF Described
  <2>2. \A a \in H \ {p} : a \in S \ {p} BY DEF StartsOf
  <2>3. \A a \in H \ {p} : IsHole(w[a]) BY <1>1, <1>5, <2>2 DEF Described
  <2> QED BY <1>4, <2>1, <2>3 DEF Described
<1>10. \A a \in (H \ {q}) \ {p} : a + w[a].size \notin H \ {q}
  <2>1. \A a \in H \ {p} : a \in S \ {p} BY DEF StartsOf
  <2>2. \A a \in H \ {p} : a + k[a].size \notin H BY DEF Freed
  <2> QED BY <1>5, <2>1, <2>2
<1>11. \A a \in (S \ {q}) \ {p} : w[a + w[a].size - 1] = Footer(a)
  BY <1>1, <1>5 DEF Ended
<1>12. Sane(w)
  <2>1. w[p].size >= Overhead BY ONLY <1>3, <1>4 DEF Overhead
  <2> QED BY <2>1 DEF Sane
<1>13. ASSUME NEW b \in B, NEW c \in Payload(b) PROVE w[c] = k[c]
  <2>1. c \in b.at .. b.at + k[b.at].size - 1 BY <1>1, BlockAt
  <2> QED BY <1>5, <1>6, <2>1
<1>14. Spared(m, w, B) BY <1>13 DEF Spared
<1>15. p \in H \ {q} BY <1>1, <1>3, <1>2
<1> QED BY <1>7, <1>8, <1>9, <1>10, <1>11, <1>12, <1>14, <1>15 DEF Loose

(* LeftHole finds the hole that ends where the block b begins, if any.     *)
LEMMA LeftFound ==
  ASSUME NEW H, end \in Nat, end <= OwnPages * Page, mem \in Memory, live \in SUBSET Block,
         Shape(mem, live, H, end), NEW b \in live, NEW p, p = LeftHole(b.at)
  PROVE  \/ p = b.at /\ \A a \in H : a + mem[a].size # b.at
         \/ p \in H /\ p # b.at /\ p + mem[p].size = b.at
<1> DEFINE S == StartsOf(live, H)
           q == b.at
<1>1. /\ Described(mem, live, H) /\ Tiling(mem, S, end) /\ Ended(mem, S) /\ q \in S
  BY DEF Shape, StartsOf
<1>2. q \in Nat /\ q < end BY <1>1, Tile1
<1>3. \A a \in H : a \in S BY DEF StartsOf
<1>4. CASE q = 0
  <2>1. \A a \in H : a + mem[a].size # q
    <3>1. \A a \in S : a \in Nat /\ mem[a].size \in Nat /\ mem[a].size >= 2 BY <1>1, Tile1
    <3> QED BY <1>3, <1>4, <3>1
  <2>2. p = q BY <1>4 DEF LeftHole
  <2> QED BY <2>1, <2>2
<1>5. CASE q > 0
  <2>1. q - 1 \in 0 .. end - 1 BY <1>2, <1>5
  <2>2. PICK s \in S : s <= q - 1 /\ q - 1 < s + mem[s].size
    <3> HIDE DEF S, q
    <3> QED BY <1>1, <2>1, Covered
  <2>3. s \in Nat /\ mem[s].size \in Nat /\ mem[s].size >= 2 /\ s \in Cell
    BY <1>1, Tile1, InCell
  <2>4. s + mem[s].size = q /\ s # q
    <3>1. s # q BY <1>2, <2>2, <2>3
    <3>2. /\ s + mem[s].size <= q \/ q + mem[q].size <= s
          /\ mem[q].size \in Nat
      BY <1>1, <3>1, Apart
    <3> QED BY <1>2, <2>2, <2>3, <3>1, <3>2
  <2>5. mem[q - 1] = Footer(s)
    <3>1. s + mem[s].size - 1 = q - 1 BY ONLY <1>2, <2>3, <2>4
    <3> QED BY <1>1, <3>1 DEF Ended
  <2>6. mem[q - 1].kind = "footer" /\ mem[q - 1].header = s BY <2>3, <2>5, Foot
  <2>7. p = IF IsHole(mem[s]) THEN s ELSE q BY <1>5, <2>6 DEF LeftHole
  <2>8. IsHole(mem[s]) <=> s \in H
    <3>1. s \in H => IsHole(mem[s]) BY <1>1 DEF Described
    <3>2. ASSUME s \notin H PROVE ~IsHole(mem[s])
      <4>1. PICK d \in live : s = d.at BY <3>2 DEF StartsOf
      <4>2. mem[s] = Header(FALSE, d.extent) BY <1>1, <4>1 DEF Described
      <4> QED BY <4>2, NotHole
    <3> QED BY <3>1, <3>2
  <2>9. CASE s \in H BY <2>4, <2>7, <2>8, <2>9
  <2>10. CASE s \notin H
    <3>1. ASSUME NEW a \in H, a + mem[a].size = q PROVE FALSE
      <4>1. a # s /\ a \in S BY <1>3, <2>10
      <4>2. /\ a \in Nat /\ mem[a].size \in Nat /\ mem[a].size >= 2
            /\ (a + mem[a].size <= s \/ s + mem[s].size <= a)
        BY <1>1, <4>1, Apart
      <4> QED BY <1>2, <2>3, <2>4, <3>1, <4>2
    <3> QED BY <2>7, <2>8, <2>10, <3>1
  <2> QED BY <2>9, <2>10
<1> QED BY <1>2, <1>4, <1>5
-----------------------------------------------------------------------------
Backed == \A c \in 0 .. end - 1 : PageOf(c) \in mapped

InOrder ==
  /\ Sane(mem) /\ Shape(mem, live, ToSet(index), end)
  /\ IsInjective(index) /\ Backed

Inv == TypeOK /\ (Running => InOrder)

LEMMA Types ==
  TypeOK <=> /\ mem \in Memory /\ index \in Seq(Cell) /\ live \in SUBSET Block
             /\ end \in {p * Page : p \in MinPages .. OwnPages}
             /\ mapped \subseteq 0 .. OwnPages - 1
             /\ flaw \in Flaws \cup {"none"}
BY DEF TypeOK, Memory, Contents, Block

LEMMA Ends ==
  ASSUME NEW e \in {p * Page : p \in MinPages .. OwnPages}
  PROVE  e \in Nat /\ MinPages * Page <= e /\ Page <= e /\ e <= OwnPages * Page
<1>1. PICK p \in MinPages .. OwnPages : e = p * Page OBVIOUS
<1>2. p \in Int /\ 1 <= p BY <1>1, Constants
<1>3. MinPages * Page <= p * Page /\ p * Page <= OwnPages * Page
  BY <1>1, <1>2, Constants, TimesGrows
<1>4. 1 * Page <= p * Page BY <1>2, TimesGrows
<1>5. p * Page \in Nat BY <1>2, Constants
<1> QED BY <1>1, <1>3, <1>4, <1>5, Constants

(* What Take does, in terms of the hole that it finds, of z units from pos *)
(* to last, and of its rest, y units from rest on.                         *)
TakeAt(m, ix, e, pos, z, got, y, before, rest, last) ==
  LET block == [m EXCEPT ![pos] = Header(FALSE, got), ![before] = Footer(pos)]
      split == [block EXCEPT ![rest] = Header(TRUE, y)]
      hole == IF last < e THEN [split EXCEPT ![last] = Footer(rest)] ELSE split
  IN  /\ mem' = IF z = got THEN block ELSE hole
      /\ index' = IF z = got THEN RemoveHole(ix, pos)
                  ELSE Insert(RemoveHole(ix, pos), rest, hole)
      /\ live' = live \cup {[at |-> pos, extent |-> got]}

LEMMA TakeIs ==
  ASSUME NEW m, NEW ix, NEW e, NEW n, Take(m, ix, e, n),
         NEW pos, pos = ix[Min(Fitting(m, ix, n))], NEW z, z = m[pos].size,
         NEW got, got = Granted(z, n), NEW y, y = z - got,
         NEW rest, rest = pos + got, NEW before, before = rest - 1,
         NEW last, last = pos + z - 1
  PROVE  TakeAt(m, ix, e, pos, z, got, y, before, rest, last)
<1> DEFINE P == ix[Min(Fitting(m, ix, n))]
           Z == m[P].size
           G == Granted(Z, n)
<1>1. TakeAt(m, ix, e, P, Z, G, Z - G, (P + G) - 1, P + G, P + Z - 1)
  BY Zenon DEF Take, TakeAt
<1>2. /\ pos = P /\ z = Z /\ got = G /\ y = Z - G /\ rest = P + G
      /\ before = (P + G) - 1 /\ last = P + Z - 1
  BY Zenon
<1> HIDE DEF P, Z, G
<1> QED BY <1>1, <1>2, Zenon

TakesAll(m, ix, a, z, l) ==
  /\ mem' \in Memory /\ mem'[a] = Header(FALSE, z) /\ mem'[l] = Footer(a)
  /\ \A c \in Cell \ {a, l} : mem'[c] = m[c]
  /\ index' = RemoveHole(ix, a)
  /\ live' = live \cup {[at |-> a, extent |-> z]}
TakesSome(m, ix, a, n, y, f, r, l) ==
  /\ mem' \in Memory /\ mem'[a] = Header(FALSE, n) /\ mem'[f] = Footer(a)
  /\ mem'[r] = Header(TRUE, y) /\ mem'[l] = Footer(r)
  /\ \A c \in Cell \ {a, f, r, l} : mem'[c] = m[c]
  /\ index' = Insert(RemoveHole(ix, a), r, mem')
  /\ live' = live \cup {[at |-> a, extent |-> n]}
Takes(m, ix, e, n, a, z, l) ==
  /\ z = m[a].size /\ z >= n /\ a + z <= e /\ l = a + z - 1
  /\ \/ z - n < 2 /\ TakesAll(m, ix, a, z, l)
     \/ \E r \in Cell, f \in Cell, y \in Nat :
          /\ a + n = r /\ f = r - 1 /\ n + 2 <= z /\ z - n = y
          /\ TakesSome(m, ix, a, n, y, f, r, l)

LEMMA TakeWhat ==
  ASSUME NEW m \in Memory, NEW ix \in Seq(Cell), NEW e \in Nat, e <= OwnPages * Page,
         \A a \in ToSet(ix) : IsHole(m[a]) /\ a + m[a].size <= e,
         NEW n \in Nat, n >= 2, Fitting(m, ix, n) # {}, Take(m, ix, e, n)
  PROVE  \E a \in ToSet(ix), z \in Nat, l \in Cell : Takes(m, ix, e, n, a, z, l)
<1>1. PICK i \in 1 .. Len(ix) : i = Min(Fitting(m, ix, n)) /\ m[ix[i]].size >= n
  <2> DEFINE F == {j \in DOMAIN ix : m[ix[j]].size >= n}
  <2>0. F = Fitting(m, ix, n) BY DEF Fitting
  <2>1. F \subseteq Nat BY Elements
  <2>2. Min(F) \in F
    <3>1. F # {} BY <2>0
    <3> HIDE DEF F
    <3> QED BY <2>1, <3>1, MinOf
  <2>3. Min(F) \in 1 .. Len(ix) /\ m[ix[Min(F)]].size >= n BY <2>2, Elements
  <2> HIDE DEF F
  <2> QED BY <2>0, <2>3
<1>2. PICK a \in ToSet(ix) : a = ix[i] BY Elements
<1>3. a \in Cell /\ a \in Nat BY Elements, Cells
<1>4. PICK z \in Nat : z = m[a].size
  <2>1. m[a] \in Contents BY <1>3 DEF Memory
  <2>2. IsHole(m[a]) OBVIOUS
  <2> QED BY <2>1, <2>2, Read
<1>5. z >= n /\ a + z <= e BY <1>1, <1>2, <1>4
<1>6. a + z - 1 \in Nat /\ a + z - 1 < OwnPages * Page /\ OwnPages * Page \in Nat
  BY <1>3, <1>5, Cells
<1>7. PICK l \in Cell : l = a + z - 1 /\ l # a
  <2>1. a + z - 1 \in Cell BY <1>6, Cells
  <2>2. a + z - 1 # a BY <1>3, <1>5
  <2> QED BY <2>1, <2>2
<1>8. a = ix[Min(Fitting(m, ix, n))] BY <1>1, <1>2
<1>9. CASE z - n < 2
  <2>1. Granted(z, n) = z BY <1>9 DEF Granted, Overhead
  <2>2. PICK r \in Nat : r = a + z BY <1>3
  <2>3. l = r - 1 BY <1>3, <1>7, <2>2
  <2>4. TakeAt(m, ix, e, a, z, z, z - z, l, r, l)
    BY <1>4, <1>7, <1>8, <2>1, <2>2, <2>3, TakeIs
  <2>5. PICK k : k = [m EXCEPT ![a] = Header(FALSE, z), ![l] = Footer(a)] OBVIOUS
  <2>6. mem' = k /\ index' = RemoveHole(ix, a) /\ live' = live \cup {[at |-> a, extent |-> z]}
    BY <2>4, <2>5, Zenon DEF TakeAt
  <2>7. Header(FALSE, z) \in Contents /\ Footer(a) \in Contents BY <1>3, Taken, Foot
  <2>8. /\ k \in Memory
        /\ \A c \in Cell : k[c] = IF c = l THEN Footer(a)
                                  ELSE IF c = a THEN Header(FALSE, z) ELSE m[c]
    BY <1>3, <2>5, <2>7 DEF Memory
  <2>9. TakesAll(m, ix, a, z, l) BY <1>3, <1>7, <2>6, <2>8 DEF TakesAll
  <2> QED BY <1>3, <1>4, <1>5, <1>7, <1>9, <2>9 DEF Takes
<1>10. CASE z - n >= 2
  <2>1. PICK r \in Cell : a + n = r /\ r \in Nat
    <3>1. a + n \in Nat /\ a + n < OwnPages * Page BY <1>3, <1>5, <1>6, <1>10
    <3> QED BY <3>1, Cells
  <2>2. PICK f \in Cell : f = r - 1
    <3>1. r - 1 \in Nat /\ r - 1 < OwnPages * Page BY <1>3, <2>1, Cells
    <3> QED BY <3>1, Cells
  <2>3. PICK y \in Nat : y = z - n BY <1>10
  <2>4. Granted(z, n) = n /\ z # n BY <1>10 DEF Granted, Overhead
  <2>5. TakeAt(m, ix, e, a, z, n, y, f, r, l)
    BY <1>4, <1>7, <1>8, <2>1, <2>2, <2>3, <2>4, TakeIs
  <2>6. l < e BY <1>3, <1>5, <1>7
  <2>7. PICK k : k = [m EXCEPT ![a] = Header(FALSE, n), ![f] = Footer(a),
                               ![r] = Header(TRUE, y), ![l] = Footer(r)]
    OBVIOUS
  <2>8. mem' = k /\ index' = Insert(RemoveHole(ix, a), r, k)
        /\ live' = live \cup {[at |-> a, extent |-> n]}
    BY <2>4, <2>5, <2>6, <2>7, Zenon DEF TakeAt
  <2>9. /\ Header(FALSE, n) \in Contents /\ Header(TRUE, y) \in Contents
        /\ Footer(a) \in Contents /\ Footer(r) \in Contents
    BY <1>3, Taken, Hole, Foot
  <2>10. a # f /\ a # r /\ a # l /\ f # r /\ f # l /\ r # l
    BY <1>3, <1>7, <1>10, <2>1, <2>2
  <2>11. /\ k \in Memory
         /\ \A c \in Cell : k[c] = IF c = l THEN Footer(r) ELSE IF c = r THEN Header(TRUE, y)
                                   ELSE IF c = f THEN Footer(a)
                                   ELSE IF c = a THEN Header(FALSE, n) ELSE m[c]
    BY <1>3, <2>7, <2>9 DEF Memory
  <2>12. TakesSome(m, ix, a, n, y, f, r, l)
    BY <1>3, <1>7, <2>8, <2>10, <2>11 DEF TakesSome
  <2>13. n + 2 <= z BY <1>10
  <2> QED BY <1>3, <1>4, <1>5, <1>7, <2>1, <2>2, <2>3, <2>12, <2>13 DEF Takes
<1> QED BY <1>9, <1>10

(* The heap grants a block that was none, of n units or one more.          *)
Grants(n) == \E d : d \notin live /\ live' = live \cup {d} /\ d.extent \in {n, n + 1}

LEMMA TakeGrants ==
  ASSUME NEW m \in Memory, NEW ix \in Seq(Cell), NEW e \in Nat, e <= OwnPages * Page,
         Shape(m, live, ToSet(ix), e),
         NEW n \in Nat, n >= 2, Fitting(m, ix, n) # {}, Take(m, ix, e, n)
  PROVE  Grants(n)
<1>1. \A a \in ToSet(ix) : IsHole(m[a]) /\ a + m[a].size <= e
  <2>1. \A a \in ToSet(ix) : a \in StartsOf(live, ToSet(ix)) BY DEF StartsOf
  <2> QED BY <2>1, Tile1 DEF Shape, Described
<1>2. PICK a \in ToSet(ix), z \in Nat, l \in Cell : Takes(m, ix, e, n, a, z, l)
  BY <1>1, TakeWhat
<1>3. ASSUME NEW x PROVE [at |-> a, extent |-> x] \notin live
  <2>1. \A b \in live : b.at # a BY BlockNotHole DEF Shape
  <2>2. [at |-> a, extent |-> x].at = a OBVIOUS
  <2> QED BY <2>1, <2>2
<1>4. CASE z - n < 2 /\ TakesAll(m, ix, a, z, l)
  <2>1. z \in {n, n + 1} BY <1>2, <1>4 DEF Takes
  <2>2. PICK d : d = [at |-> a, extent |-> z] OBVIOUS
  <2>3. live' = live \cup {d} BY <1>4, <2>2 DEF TakesAll
  <2> QED BY <1>3, <2>1, <2>2, <2>3 DEF Grants
<1>5. ASSUME NEW r, NEW f, NEW y, TakesSome(m, ix, a, n, y, f, r, l) PROVE Grants(n)
  <2>1. PICK d : d = [at |-> a, extent |-> n] OBVIOUS
  <2>2. live' = live \cup {d} BY <1>5, <2>1 DEF TakesSome
  <2> QED BY <1>3, <2>1, <2>2 DEF Grants
<1> QED BY <1>2, <1>4, <1>5 DEF Takes

(* The types, whether or not the heap is in order.                         *)
LEMMA TakeTypes ==
  ASSUME NEW m \in Memory, NEW ix \in Seq(Cell), NEW e \in Nat, e <= OwnPages * Page,
         \A a \in ToSet(ix) : IsHole(m[a]) /\ a + m[a].size <= e,
         NEW n \in Nat, n >= 2, Fitting(m, ix, n) # {}, Take(m, ix, e, n),
         live \in SUBSET Block
  PROVE  mem' \in Memory /\ index' \in Seq(Cell) /\ live' \in SUBSET Block
<1>1. PICK a \in ToSet(ix), z \in Nat, l \in Cell : Takes(m, ix, e, n, a, z, l)
  BY TakeWhat
<1>2. RemoveHole(ix, a) \in Seq(Cell) /\ a \in Cell /\ a \in Nat
  BY RemovedHole, Elements, Cells
<1>3. \A x \in Nat : x <= z => [at |-> a, extent |-> x] \in Block
  <2>1. z <= OwnPages * Page BY <1>1, <1>2, Cells DEF Takes
  <2> QED BY <1>2, <2>1, Cells DEF Block
<1>4. CASE TakesAll(m, ix, a, z, l) BY <1>2, <1>3, <1>4 DEF TakesAll
<1>5. ASSUME NEW r \in Cell, NEW f \in Cell, NEW y \in Nat, n + 2 <= z,
             TakesSome(m, ix, a, n, y, f, r, l)
      PROVE  mem' \in Memory /\ index' \in Seq(Cell) /\ live' \in SUBSET Block
  <2>1. mem' \in Memory /\ index' \in Seq(Cell) BY <1>2, <1>5, InsertedHole DEF TakesSome
  <2>2. [at |-> a, extent |-> n] \in Block BY <1>3, <1>5
  <2> QED BY <1>5, <2>1, <2>2 DEF TakesSome
<1> QED BY <1>1, <1>4, <1>5 DEF Takes

(* ... and the order, where there is one.                                  *)
LEMMA TakeOrder ==
  ASSUME NEW m \in Memory, NEW ix \in Seq(Cell), NEW e \in Nat, e <= OwnPages * Page,
         Sane(m), Shape(m, live, ToSet(ix), e), IsInjective(ix),
         NEW n \in Nat, n >= 2, Fitting(m, ix, n) # {}, Take(m, ix, e, n),
         live \in SUBSET Block
  PROVE  /\ mem' \in Memory /\ index' \in Seq(Cell) /\ live' \in SUBSET Block
         /\ Led(m, mem', live, live', ToSet(index'), e) /\ IsInjective(index')
<1>1. \A a \in ToSet(ix) : IsHole(m[a]) /\ a + m[a].size <= e
  <2>1. \A a \in ToSet(ix) : a \in StartsOf(live, ToSet(ix)) BY DEF StartsOf
  <2> QED BY <2>1, Tile1 DEF Shape, Described
<1>2. mem' \in Memory /\ index' \in Seq(Cell) /\ live' \in SUBSET Block
  BY <1>1, TakeTypes
<1>3. PICK a \in ToSet(ix), z \in Nat, l \in Cell : Takes(m, ix, e, n, a, z, l)
  BY <1>1, TakeWhat
<1>4. PICK iy \in Seq(Cell) : /\ iy = RemoveHole(ix, a) /\ ToSet(iy) = ToSet(ix) \ {a}
                              /\ IsInjective(iy)
  BY RemovedHole
<1>5. PICK H : H = ToSet(ix) OBVIOUS
<1>6. PICK k \in Memory : k = mem' BY <1>2
<1>6a. z = m[a].size /\ z >= n /\ l = a + z - 1 BY <1>3 DEF Takes
<1>6b. a \in H /\ a \in Nat BY <1>5, Elements, Cells
<1>7. CASE TakesAll(m, ix, a, z, l)
  <2>1. PICK d : d = [at |-> a, extent |-> z] OBVIOUS
  <2>2. /\ k[a] = Header(FALSE, z) /\ k[l] = Footer(a)
        /\ \A c \in Cell \ {a, l} : k[c] = m[c]
        /\ live' = live \cup {d} /\ index' = iy
    BY <1>4, <1>6, <1>7, <2>1 DEF TakesAll
  <2>3. Led(m, k, live, live \cup {d}, H \ {a}, e)
    BY <1>5, <1>6a, <1>6b, <2>1, <2>2, TakeWhole
  <2>4. ToSet(index') = H \ {a} /\ IsInjective(index') BY <1>4, <1>5, <2>2
  <2> QED BY <1>2, <1>6, <2>2, <2>3, <2>4
<1>8. ASSUME NEW r \in Cell, NEW f \in Cell, NEW y \in Nat, a + n = r, f = r - 1,
             n + 2 <= z, z - n = y, TakesSome(m, ix, a, n, y, f, r, l)
      PROVE  Led(m, mem', live, live', ToSet(index'), e) /\ IsInjective(index')
  <2>1. PICK d : d = [at |-> a, extent |-> n] OBVIOUS
  <2>2. /\ k[a] = Header(FALSE, n) /\ k[f] = Footer(a)
        /\ k[r] = Header(TRUE, y) /\ k[l] = Footer(r)
        /\ \A c \in Cell \ {a, f, r, l} : k[c] = m[c]
        /\ live' = live \cup {d} /\ index' = Insert(iy, r, k)
    BY <1>4, <1>6, <1>8, <2>1 DEF TakesSome
  <2>3. r \in Nat BY Cells
  <2>3a. r \notin H
    <3>1. a \in StartsOf(live, H) /\ (r \in H => r \in StartsOf(live, H)) BY <1>6b DEF StartsOf
    <3>2. Sized(m, a, z) /\ a < r /\ r < a + z
      <4>1. Sized(m, a, z) BY <1>6a DEF Sized
      <4>2. a < r /\ r < a + z
        <5>1. a \in Nat /\ r \in Nat /\ n + 2 <= z /\ a + n = r BY <1>6b, <1>8, <2>3
        <5> QED BY ONLY <5>1, n \in Nat, z \in Nat, n >= 2
      <4> QED BY <4>1, <4>2
    <3>3. Tiling(m, StartsOf(live, H), e) BY <1>5 DEF Shape
    <3> QED BY <1>6b, <2>3, <3>1, <3>2, <3>3, Between
  <2>4. Led(m, k, live, live \cup {d}, (H \ {a}) \cup {r}, e)
    <3>1. Parted(a, z, n, y, f, r, l) BY <1>6a, <1>8 DEF Parted
    <3>2. Split(m, k, a, n, y, f, r, l) BY <2>2 DEF Split
    <3>3. Shape(m, live, H, e) BY <1>5
    <3> QED BY <1>6a, <1>6b, <2>1, <2>3, <3>1, <3>2, <3>3, TakePart
  <2>5. ToSet(index') = (H \ {a}) \cup {r} /\ IsInjective(index')
    BY <1>4, <1>5, <2>2, <2>3a, InsertedHole
  <2> QED BY <1>6, <2>2, <2>4, <2>5
<1> QED BY <1>2, <1>3, <1>7, <1>8 DEF Takes
-----------------------------------------------------------------------------
LEMMA RoundedUp ==
  ASSUME NEW x \in Nat, x >= Page
  PROVE  Rounded(x) = (PageOf(x) + 1) * Page /\ Rounded(x) > x /\ Rounded(x) \in Nat
<1>1. PageOf(x) \in Nat /\ x < (PageOf(x) + 1) * Page BY PageBounds
<1>2. (PageOf(x) + 1) * Page \in Nat BY <1>1, Constants
<1> QED BY <1>1, <1>2 DEF Rounded, PageOf

LEMMA PagesBelow ==
  ASSUME NEW c \in Nat, c < OwnPages * Page PROVE PageOf(c) \in 0 .. OwnPages - 1
<1>1. PageOf(c) \in Nat /\ OwnPages \in Nat BY PageBounds, Constants
<1> QED BY <1>1, PageBelow

LEMMA InitInv == Init => Inv
<1> SUFFICES ASSUME Init PROVE Inv OBVIOUS
<1> DEFINE z == InitPages * Page
<1>1. /\ z \in {p * Page : p \in MinPages .. OwnPages} /\ end = z
  <2>1. InitPages \in MinPages .. OwnPages BY Constants
  <2>2. end = z BY DEF Init
  <2> QED BY <2>1, <2>2
<1>2. z \in Nat /\ z >= Page /\ z <= OwnPages * Page /\ end = z BY <1>1, Ends
<1>3. 0 \in Cell BY <1>2, Constants, Cells
<1> HIDE DEF z
<1>4. Header(TRUE, z) \in Contents /\ Header(TRUE, z).size = z /\ IsHole(Header(TRUE, z))
      /\ Other \in Contents /\ Other.kind # "header"
  BY <1>2, Hole, Rest
<1>5. /\ mem \in Memory /\ mem[0] = Header(TRUE, z)
      /\ \A c \in Cell : c # 0 => mem[c] = Other
  BY <1>3, <1>4 DEF Init, Memory, z
<1>6. /\ index = <<0>> /\ live = {} /\ flaw = "none"
      /\ mapped = {PageOf(a) : a \in Cell}
  BY DEF Init
<1>7. index \in Seq(Cell) /\ ToSet(index) = {0} /\ IsInjective(index)
  BY <1>3, <1>6 DEF ToSet, IsInjective
<1>8. \A c \in Cell : PageOf(c) \in 0 .. OwnPages - 1 BY Cells, PagesBelow
<1>9. TypeOK BY <1>1, <1>5, <1>6, <1>7, <1>8, Types
<1>10. StartsOf(live, ToSet(index)) = {0} BY <1>6, <1>7 DEF StartsOf
<1>11. mem[0].size = z /\ 0 + mem[0].size = end /\ z >= 2
  <2>1. mem[0].size = z BY <1>4, <1>5
  <2> QED BY <1>2, <2>1, Constants
<1>12. Shape(mem, live, ToSet(index), end)
  <2>1. Described(mem, live, ToSet(index)) BY <1>4, <1>5, <1>6, <1>7 DEF Described
  <2>2. Tiling(mem, {0}, end) BY <1>2, <1>11, Constants DEF Tiling, Overhead
  <2>3. United(mem, {0}) BY <1>2, <1>11, Constants DEF United
  <2> QED BY <1>6, <1>7, <1>10, <2>1, <2>2, <2>3 DEF Shape
<1>13. Sane(mem)
  <2> SUFFICES ASSUME NEW c \in Cell, mem[c].kind = "header" PROVE mem[c].size >= Overhead
    BY DEF Sane
  <2>1. c = 0 BY <1>4, <1>5
  <2> QED BY <1>11, <2>1 DEF Overhead
<1>14. Backed
  <2> SUFFICES ASSUME NEW c \in 0 .. end - 1 PROVE PageOf(c) \in mapped BY DEF Backed
  <2>1. c \in Nat /\ c < OwnPages * Page BY <1>2, Cells
  <2>2. c \in Cell BY <2>1, Cells
  <2> QED BY <1>6, <2>2
<1> QED BY <1>7, <1>9, <1>12, <1>13, <1>14 DEF Inv, InOrder

(* What a step makes of the blocks that stay.                              *)
Kept == flaw' = "none" => Spared(mem, mem', live \cap live')
Granting(s) == flaw' = "none" => Grants(s + Overhead)

LEMMA AllocInv ==
  ASSUME Inv, NEW s \in Sizes, Alloc(s) PROVE Inv' /\ Kept /\ Granting(s)
<1> DEFINE n == s + Overhead
<1>1. /\ Running /\ flaw = "none" /\ TypeOK /\ InOrder /\ Fitting(mem, index, n) # {}
      /\ Take(mem, index, end, n)
      /\ UNCHANGED <<end, mapped, flaw>>
  BY DEF Inv, Alloc, Running
<1>2. /\ mem \in Memory /\ index \in Seq(Cell) /\ live \in SUBSET Block
      /\ end \in Nat /\ end <= OwnPages * Page
  BY <1>1, Types, Ends
<1>3. n \in Nat /\ n >= 2 BY Constants DEF Overhead
<1> HIDE DEF n
<1>4. /\ mem' \in Memory /\ index' \in Seq(Cell) /\ live' \in SUBSET Block
      /\ Led(mem, mem', live, live', ToSet(index'), end) /\ IsInjective(index')
  BY <1>1, <1>2, <1>3, TakeOrder DEF InOrder
<1>5. TypeOK' BY <1>1, <1>4, Types DEF TypeOK, Memory, Contents, Block
<1>6. Backed' BY <1>1 DEF InOrder, Backed
<1>7. InOrder' BY <1>1, <1>4, <1>6 DEF InOrder, Led
<1>8. Grants(n) BY <1>1, <1>2, <1>3, TakeGrants DEF InOrder
<1> QED BY <1>4, <1>5, <1>7, <1>8 DEF Inv, Kept, Led, Spared, Granting, n

LEMMA UseInv ==
  ASSUME Inv, NEW b \in live, Use(b)
  PROVE  Inv' /\ live' = live /\ Running' /\ Spared(mem, mem', live \ {b})
<1> DEFINE S == StartsOf(live, ToSet(index))
<1>1. /\ Running /\ TypeOK /\ InOrder /\ UNCHANGED <<index, end, mapped, live, flaw>>
      /\ mem' = [a \in Cell |-> IF a \in Payload(b) THEN Other ELSE mem[a]]
  BY DEF Inv, Use
<1>2. /\ mem \in Memory /\ index \in Seq(Cell) /\ live \in SUBSET Block
      /\ end \in Nat /\ end <= OwnPages * Page
  BY <1>1, Types, Ends
<1>3. PICK k \in Memory :
        /\ k = mem'
        /\ \A a \in Cell : k[a] = IF a \in Payload(b) THEN Other ELSE mem[a]
  BY <1>1, <1>2, Rest DEF Memory
<1>4. /\ Described(mem, live, ToSet(index)) /\ Tiling(mem, S, end)
      /\ United(mem, ToSet(index)) /\ Ended(mem, S) /\ Sane(mem) /\ b.at \in S
  BY <1>1 DEF InOrder, Shape, StartsOf
<1>5. b.at \in Nat /\ b.extent \in Nat /\ mem[b.at].size = b.extent
  BY <1>2, <1>4, BlockAt, Tile1
<1>6. ASSUME NEW a \in S PROVE k[a] = mem[a] /\ k[a + mem[a].size - 1] = mem[a + mem[a].size - 1]
  <2>1. /\ a \in Nat /\ mem[a].size \in Nat /\ mem[a].size >= 2
        /\ a \in Cell /\ a + mem[a].size - 1 \in Cell
    BY <1>2, <1>4, Tile1, InCell
  <2>2. a \notin Payload(b) /\ a + mem[a].size - 1 \notin Payload(b)
    <3>1. CASE a = b.at BY <1>5, <2>1, <3>1 DEF Payload
    <3>2. CASE a # b.at
      <4>1. a + mem[a].size <= b.at \/ b.at + mem[b.at].size <= a
        BY <1>2, <1>4, <3>2, Apart
      <4> QED BY <1>5, <2>1, <4>1 DEF Payload
    <3> QED BY <3>1, <3>2
  <2> QED BY <1>3, <2>1, <2>2
<1>7. Described(k, live, ToSet(index))
  <2>1. \A d \in live : d.at \in S BY DEF StartsOf
  <2>2. \A a \in ToSet(index) : a \in S BY DEF StartsOf
  <2> QED BY <1>4, <1>6, <2>1, <2>2 DEF Described
<1>8. Tiling(k, S, end)
  <2>1. \A a \in S : k[a].size = mem[a].size BY <1>6
  <2> HIDE DEF S
  <2> QED BY <1>2, <1>4, <2>1, TilingSame
<1>9. United(k, ToSet(index))
  <2>1. \A a \in ToSet(index) : a \in S BY DEF StartsOf
  <2> QED BY <1>4, <1>6, <2>1 DEF United
<1>10. Ended(k, S) BY <1>4, <1>6 DEF Ended
<1>11. Sane(k) BY <1>3, <1>4, Rest DEF Sane
<1>12. Shape(k, live, ToSet(index), end) BY <1>7, <1>8, <1>9, <1>10 DEF Shape
<1>13. TypeOK' BY <1>1, <1>2, <1>3, Types DEF TypeOK, Memory, Contents, Block
<1>14. InOrder' BY <1>1, <1>3, <1>11, <1>12 DEF InOrder, Backed
<1>15. \A d \in live \ {b} : Payload(d) \cap Payload(b) = {}
  BY <1>1, <1>2, PayloadsApart DEF InOrder
<1>16. \A d \in live : Payload(d) \subseteq Cell
  BY <1>1, <1>2, PayloadInCell DEF InOrder
<1>17. Spared(mem, mem', live \ {b}) BY <1>3, <1>15, <1>16 DEF Spared
<1>18. Running' BY <1>1 DEF Running
<1> QED BY <1>1, <1>13, <1>14, <1>17, <1>18 DEF Inv

LEMMA TypesNext ==
  TypeOK' <=> /\ mem' \in Memory /\ index' \in Seq(Cell) /\ live' \in SUBSET Block
              /\ end' \in {p * Page : p \in MinPages .. OwnPages}
              /\ mapped' \subseteq 0 .. OwnPages - 1
              /\ flaw' \in Flaws \cup {"none"}
BY DEF TypeOK, Memory, Contents, Block

(* The heap after expand.                                                  *)
LEMMA Longer ==
  ASSUME Inv, NEW n \in Nat, n >= 2, NEW len, len = Rounded(end + n), len <= OwnPages * Page,
         end' = len, mapped' = mapped \cup {PageOf(a) : a \in end .. len - 1}
  PROVE  /\ len \in Nat /\ len > end + n
         /\ end' \in {p * Page : p \in MinPages .. OwnPages}
         /\ mapped' \subseteq 0 .. OwnPages - 1
         /\ Backed => Backed'
<1>1. end \in {p * Page : p \in MinPages .. OwnPages} /\ mapped \subseteq 0 .. OwnPages - 1
  BY Types DEF Inv
<1>2. end \in Nat /\ end >= Page /\ end >= MinPages * Page BY <1>1, Ends
<1>3. PICK x \in Nat : x = end + n BY <1>2
<1>4. x >= Page BY <1>2, <1>3, Constants
<1>5. /\ len = (PageOf(x) + 1) * Page /\ len > x /\ len \in Nat /\ PageOf(x) \in Nat
  BY <1>3, <1>4, RoundedUp, PageBounds
<1>6. PICK p \in Nat : p = PageOf(x) + 1 BY <1>5
<1>7. p \in MinPages .. OwnPages
  <2>1. p <= OwnPages <=> p * Page <= OwnPages * Page BY Constants, TimesGrows
  <2>2. MinPages <= p <=> MinPages * Page <= p * Page BY Constants, TimesGrows
  <2> QED BY <1>2, <1>3, <1>5, <1>6, <2>1, <2>2, Constants, Cells
<1>8. \A a \in end .. len - 1 : PageOf(a) \in 0 .. OwnPages - 1
  <2> SUFFICES ASSUME NEW a \in end .. len - 1 PROVE PageOf(a) \in 0 .. OwnPages - 1
    OBVIOUS
  <2>1. a \in Nat /\ a < OwnPages * Page BY <1>2, <1>5, Cells
  <2> QED BY <2>1, PagesBelow
<1>9. ASSUME Backed PROVE Backed'
  <2> SUFFICES ASSUME NEW c \in 0 .. len - 1 PROVE PageOf(c) \in mapped'
    BY DEF Backed
  <2>1. CASE c < end BY <1>2, <1>9, <2>1 DEF Backed
  <2>2. CASE c >= end BY <1>2, <2>2
  <2> QED BY <1>2, <2>1, <2>2
<1>10. len > end + n BY <1>3, <1>5
<1> QED BY <1>1, <1>5, <1>6, <1>7, <1>8, <1>9, <1>10

Written(m, k, a, x, l, y) ==
  k \in Memory /\ \A c \in Cell : k[c] = IF c = l THEN y ELSE IF c = a THEN x ELSE m[c]

LEMMA ExtendedIs ==
  ASSUME mem \in Memory, NEW h \in Cell, NEW n, mem[h] = Header(TRUE, n), NEW x \in Nat,
         NEW l \in Cell, l = h + x - 1
  PROVE  Written(mem, Extended(h, x), h, Header(TRUE, x), l, Footer(h))
<1> DEFINE W(u, c) == [u EXCEPT ![c] = Footer(h)]
           u1 == [mem EXCEPT ![h].size = x]
           u2 == [mem EXCEPT ![h] = Header(TRUE, x)]
<1>0. [mem[h] EXCEPT !.size = x] = Header(TRUE, x) BY Resized, Zenon
<1>1. u1 = u2 BY <1>0
<1>2. Extended(h, x) = W(u1, h + x - 1) BY Zenon DEF Extended
<1>3. Extended(h, x) = W(u2, l)
  <2> HIDE DEF W, u1, u2
  <2> QED BY <1>1, <1>2
<1>4. PICK k : k = W(u2, l) OBVIOUS
<1>5. Header(TRUE, x) \in Contents /\ Footer(h) \in Contents BY Hole, Foot
<1>6. k = [mem EXCEPT ![h] = Header(TRUE, x), ![l] = Footer(h)] BY <1>4
<1> HIDE DEF W, u2
<1>7. /\ k \in Memory
      /\ \A c \in Cell : k[c] = IF c = l THEN Footer(h)
                                ELSE IF c = h THEN Header(TRUE, x) ELSE mem[c]
  BY <1>5, <1>6 DEF Memory
<1> QED BY <1>3, <1>4, <1>7 DEF Written

LEMMA AppendedIs ==
  ASSUME mem \in Memory, end \in Cell, NEW f \in Nat, NEW x \in Nat, x = f - end,
         NEW l \in Cell, l = f - 1
  PROVE  Written(mem, Appended(f), end, Header(TRUE, x), l, Footer(end))
<1> DEFINE A(u, c) == [mem EXCEPT ![end] = Header(TRUE, u), ![c] = Footer(end)]
<1>1. Appended(f) = A(f - end, f - 1) BY Zenon DEF Appended
<1>2. Appended(f) = A(x, l)
  <2> HIDE DEF A
  <2> QED BY <1>1
<1>3. Header(TRUE, x) \in Contents /\ Footer(end) \in Contents BY Hole, Foot
<1>4. PICK k : k = A(x, l) OBVIOUS
<1>5. k = [mem EXCEPT ![end] = Header(TRUE, x), ![l] = Footer(end)] BY <1>4
<1> HIDE DEF A
<1>6. /\ k \in Memory
      /\ \A c \in Cell : k[c] = IF c = l THEN Footer(end)
                                ELSE IF c = end THEN Header(TRUE, x) ELSE mem[c]
  BY <1>3, <1>5 DEF Memory
<1> QED BY <1>2, <1>4, <1>6 DEF Written

(* The part of alloc that expands the heap within the memory of its own.   *)
Grown(s) ==
  LET n == s + Overhead
      len == Rounded(end + n)
  IN  len <= OwnPages * Page /\ Grow(n, len)

LEMMA NewHoleInv ==
  ASSUME Inv, Running, NEW s \in Sizes, Grown(s), index = <<>>
  PROVE  Inv' /\ Kept /\ Granting(s)
<1> DEFINE n == s + Overhead
           len == Rounded(end + n)
<1>1. n \in Nat /\ n >= 2 BY Constants DEF Overhead
<1>2. /\ Running /\ flaw = "none" /\ TypeOK /\ InOrder
      /\ len <= OwnPages * Page /\ end' = len
      /\ mapped' = mapped \cup {PageOf(a) : a \in end .. len - 1}
      /\ Take(Appended(len), <<end>>, len, n) /\ UNCHANGED flaw
  BY DEF Inv, Grown, Grow, Running
<1>3. /\ mem \in Memory /\ live \in SUBSET Block /\ end \in Nat /\ end <= OwnPages * Page
  BY <1>2, Types, Ends
<1> HIDE DEF n
<1>4. PICK f : f = len OBVIOUS
<1>5. /\ f \in Nat /\ f > end + n /\ end' \in {p * Page : p \in MinPages .. OwnPages}
      /\ mapped' \subseteq 0 .. OwnPages - 1 /\ Backed'
  BY <1>1, <1>2, <1>4, Longer DEF InOrder
<1>6. f <= OwnPages * Page /\ end' = f /\ Take(Appended(f), <<end>>, f, n) BY <1>2, <1>4
<1> HIDE DEF len
<1>7. PICK x \in Nat : x = f - end /\ end + x = f /\ x >= n /\ x >= 2 BY <1>1, <1>3, <1>5
<1>8. PICK l \in Cell : l = f - 1 /\ l # end
  <2>1. f - 1 \in Nat /\ f - 1 < OwnPages * Page /\ f - 1 # end
    BY <1>1, <1>3, <1>5, <1>6, <1>7, Cells
  <2> QED BY <2>1, Cells
<1>9. end \in Cell BY <1>1, <1>3, <1>5, <1>6, Cells
<1>10. PICK k \in Memory :
         /\ k = Appended(f)
         /\ \A c \in Cell : k[c] = IF c = l THEN Footer(end)
                                   ELSE IF c = end THEN Header(TRUE, x) ELSE mem[c]
  <2>1. Written(mem, Appended(f), end, Header(TRUE, x), l, Footer(end))
    BY <1>3, <1>5, <1>7, <1>8, <1>9, AppendedIs
  <2> QED BY <2>1 DEF Written
<1>11. ToSet(index) = {} BY DEF ToSet
<1>12. Regrown(mem, k, end, x, l, f) /\ \A c \in Cell \ {end, l} : k[c] = mem[c]
  <2>1. \A c \in Cell : c < end => c # l /\ c # end BY <1>3, <1>5, <1>7, <1>8, Cells
  <2> QED BY <1>7, <1>8, <1>9, <1>10, <2>1 DEF Regrown
<1>13. Led(mem, k, live, live, {end}, f)
  <2>1. Shape(mem, live, {}, end) /\ Sane(mem) BY <1>2, <1>11 DEF InOrder
  <2> QED BY <1>3, <1>5, <1>6, <1>12, <2>1, HoleAppended
<1>14. PICK ix \in Seq(Cell) : ix = <<end>>
  <2>1. <<end>> \in Seq(Cell) BY <1>9
  <2> QED BY <2>1
<1>15. ToSet(ix) = {end} /\ IsInjective(ix) /\ ix[1] = end /\ DOMAIN ix = {1}
  BY <1>14 DEF ToSet, IsInjective
<1>16. Fitting(k, ix, n) # {}
  <2>1. k[ix[1]].size = x BY <1>8, <1>9, <1>10, <1>15, Hole
  <2>2. 1 \in DOMAIN ix /\ k[ix[1]].size >= n BY <1>7, <1>15, <2>1
  <2> QED BY <2>2 DEF Fitting
<1>17. Take(k, ix, f, n) BY <1>6, <1>10, <1>14
<1>18. Sane(k) /\ Shape(k, live, ToSet(ix), f) /\ Spared(mem, k, live)
  BY <1>13, <1>15 DEF Led
<1>19. /\ mem' \in Memory /\ index' \in Seq(Cell) /\ live' \in SUBSET Block
       /\ Led(k, mem', live, live', ToSet(index'), f) /\ IsInjective(index')
  BY <1>1, <1>3, <1>5, <1>6, <1>15, <1>16, <1>17, <1>18, TakeOrder
<1>20. TypeOK' BY <1>2, <1>5, <1>19, Types, TypesNext
<1>21. InOrder' BY <1>5, <1>6, <1>19 DEF InOrder, Led
<1>22. Grants(n) BY <1>1, <1>3, <1>5, <1>6, <1>16, <1>17, <1>18, TakeGrants
<1> QED BY <1>18, <1>19, <1>20, <1>21, <1>22 DEF Inv, Kept, Led, Spared, Granting, n

LEMMA LastHoleInv ==
  ASSUME Inv, Running, NEW s \in Sizes, Grown(s), index # <<>>
  PROVE  Inv' /\ Kept /\ Granting(s)
<1> DEFINE n == s + Overhead
           len == Rounded(end + n)
           g == Max(ToSet(index))
<1>1. n \in Nat /\ n >= 2 BY Constants DEF Overhead
<1>2. /\ Running /\ flaw = "none" /\ TypeOK /\ InOrder
      /\ len <= OwnPages * Page /\ end' = len
      /\ mapped' = mapped \cup {PageOf(a) : a \in end .. len - 1}
      /\ Take(Extended(g, mem[g].size + len - end), index, len, n)
      /\ flaw' = IF g + mem[g].size = end THEN "none" ELSE "overgrown"
  BY DEF Inv, Grown, Grow, Running
<1>3. /\ mem \in Memory /\ index \in Seq(Cell) /\ live \in SUBSET Block
      /\ end \in Nat /\ end <= OwnPages * Page
  BY <1>2, Types, Ends
<1> HIDE DEF n
<1>4. PICK f : f = len OBVIOUS
<1>5. /\ f \in Nat /\ f > end + n /\ end' \in {p * Page : p \in MinPages .. OwnPages}
      /\ mapped' \subseteq 0 .. OwnPages - 1 /\ Backed'
  BY <1>1, <1>2, <1>4, Longer DEF InOrder
<1>6. PICK h \in ToSet(index) : h = g /\ \A a \in ToSet(index) : a <= h
  <2> DEFINE T == ToSet(index)
  <2>1. Len(index) >= 1 /\ Len(index) \in Nat BY <1>2, <1>3, LenProperties, EmptySeq
  <2>2. index[1] \in T BY <1>3, <2>1, Elements
  <2>3. T \subseteq Nat /\ \A a \in T : a <= OwnPages * Page BY <1>3, Elements, Cells
  <2>4. Max(T) \in T /\ \A a \in T : a <= Max(T)
    <3> HIDE DEF T
    <3> QED BY <2>2, <2>3, MaxOf, Cells
  <2> QED BY <2>4
<1>7. \A a \in ToSet(index) : /\ a \in Nat /\ a \in Cell /\ IsHole(mem[a]) /\ mem[a].size \in Nat
                              /\ mem[a].size >= 2 /\ a + mem[a].size <= end
  <2>1. \A a \in ToSet(index) : a \in StartsOf(live, ToSet(index)) BY DEF StartsOf
  <2> QED BY <1>2, <1>3, <2>1, Tile1, InCell DEF InOrder, Shape, Described
<1>8. PICK z \in Nat : z = mem[h].size /\ mem[h] = Header(TRUE, z)
  <2>1. mem[h] \in Contents BY <1>3, <1>7 DEF Memory
  <2> QED BY <1>7, <2>1, Read
<1>9. PICK x \in Nat : x = z + f - end BY <1>5, <1>3, <1>1
<1>10. /\ f <= OwnPages * Page /\ end' = f /\ Take(Extended(h, x), index, f, n)
       /\ flaw' = IF h + z = end THEN "none" ELSE "overgrown"
  BY <1>2, <1>4, <1>6, <1>8, <1>9
<1> HIDE DEF len, g
<1>11. /\ h \in Nat /\ h \in Cell /\ h + z <= end /\ h + x <= f /\ x >= n /\ x >= 2
  <2>1. h \in Nat /\ h \in Cell /\ h + z <= end BY <1>6, <1>7, <1>8
  <2> QED BY <1>1, <1>3, <1>5, <1>9, <2>1
<1>12. PICK l \in Cell : l = h + x - 1 /\ l > h /\ l # h
  <2>1. h + x - 1 \in Nat /\ h + x - 1 < OwnPages * Page /\ h + x - 1 > h
    BY <1>5, <1>10, <1>11, Cells
  <2> QED BY <1>11, <2>1, Cells
<1>13. PICK k \in Memory :
         /\ k = Extended(h, x)
         /\ \A c \in Cell : k[c] = IF c = l THEN Footer(h)
                                   ELSE IF c = h THEN Header(TRUE, x) ELSE mem[c]
  <2>1. Written(mem, Extended(h, x), h, Header(TRUE, x), l, Footer(h))
    BY <1>3, <1>8, <1>11, <1>12, ExtendedIs
  <2> QED BY <2>1 DEF Written
<1>14. /\ k[h] = Header(TRUE, x) /\ k[l] = Footer(h)
       /\ \A c \in Cell \ {h, l} : k[c] = mem[c]
       /\ Take(k, index, f, n) /\ k[h].size = x /\ IsHole(k[h])
  BY <1>10, <1>11, <1>12, <1>13, Hole
<1>15. Fitting(k, index, n) # {}
  <2>1. PICK i \in 1 .. Len(index) : index[i] = h BY <1>3, Elements
  <2>2. i \in DOMAIN index /\ k[index[i]].size >= n BY <1>3, <1>11, <1>14, <2>1, Elements
  <2> QED BY <2>2 DEF Fitting
<1>16. CASE h + z = end
  <2>1. h + x = f /\ l = f - 1 BY <1>3, <1>5, <1>9, <1>11, <1>12, <1>16
  <2>2. Regrown(mem, k, h, x, l, f)
    <3>1. \A c \in Cell : c < h => c # l /\ c # h BY <1>11, <1>12, Cells
    <3> QED BY <1>11, <1>14, <2>1, <3>1 DEF Regrown
  <2>3. PICK H : H = ToSet(index) OBVIOUS
  <2>4. Shape(mem, live, H, end) /\ Sane(mem) /\ h \in H BY <1>2, <2>3 DEF InOrder
  <2>5. Loose(mem, live, H, end, h)
    <3>1. \A a \in StartsOf(live, H) \ {h} : mem[a + mem[a].size - 1] = Footer(a)
      BY <1>3, <2>4, OthersEnded
    <3> QED BY <2>4, <3>1 DEF Loose, Shape, United
  <2>6. Sized(mem, h, z) BY <1>8 DEF Sized
  <2>7. Led(mem, k, live, live, H, f)
    BY <1>3, <1>5, <1>10, <1>11, <1>16, <2>2, <2>5, <2>6, LastResized
  <2>8. Sane(k) /\ Shape(k, live, ToSet(index), f) /\ Spared(mem, k, live) /\ IsInjective(index)
    BY <1>2, <2>3, <2>7 DEF Led, InOrder
  <2>9. /\ mem' \in Memory /\ index' \in Seq(Cell) /\ live' \in SUBSET Block
        /\ Led(k, mem', live, live', ToSet(index'), f) /\ IsInjective(index')
    BY <1>1, <1>3, <1>5, <1>10, <1>14, <1>15, <2>8, TakeOrder
  <2>10. TypeOK' BY <1>5, <1>10, <1>16, <2>9, TypesNext
  <2>11. InOrder' BY <1>5, <1>10, <2>9 DEF InOrder, Led
  <2>12. Grants(n) BY <1>1, <1>3, <1>5, <1>10, <1>14, <1>15, <2>8, TakeGrants
  <2> QED BY <2>8, <2>9, <2>10, <2>11, <2>12 DEF Inv, Kept, Led, Spared, Granting, n
<1>17. CASE h + z # end
  <2>1. \A a \in ToSet(index) : IsHole(k[a]) /\ a + k[a].size <= f
    <3> SUFFICES ASSUME NEW a \in ToSet(index) PROVE IsHole(k[a]) /\ a + k[a].size <= f
      OBVIOUS
    <3>1. CASE a = h BY <1>11, <1>14, <3>1
    <3>2. CASE a # h
      <4>1. a \in Cell /\ a # l /\ a \in Nat
        <5>1. a <= h /\ a \in Nat /\ a \in Cell BY <1>6, <1>7
        <5> QED BY <1>11, <1>12, <5>1
      <4>2. k[a] = mem[a] BY <1>14, <3>2, <4>1
      <4> QED BY <1>1, <1>3, <1>5, <1>7, <4>2
    <3> QED BY <3>1, <3>2
  <2>2. mem' \in Memory /\ index' \in Seq(Cell) /\ live' \in SUBSET Block
    BY <1>1, <1>3, <1>5, <1>10, <1>14, <1>15, <2>1, TakeTypes
  <2>3. flaw' = "overgrown" /\ flaw' \in Flaws BY <1>10, <1>17 DEF Flaws
  <2>4. TypeOK' BY <1>5, <2>2, <2>3, TypesNext
  <2> QED BY <2>3, <2>4 DEF Inv, Kept, Running, Granting
<1> QED BY <1>16, <1>17

LEMMA AllocGrowInv ==
  ASSUME Inv, NEW s \in Sizes, AllocGrow(s)
  PROVE  Inv' /\ Kept /\ Granting(s)
<1> DEFINE len == Rounded(end + (s + Overhead))
<1>1. /\ Running /\ TypeOK
      /\ IF PageOf(len) < OwnPages THEN Grow(s + Overhead, len)
         ELSE flaw' = "aliased" /\ UNCHANGED <<mem, index, end, mapped, live>>
  BY DEF Inv, AllocGrow
<1>2. CASE PageOf(len) < OwnPages
  <2>1. PICK x \in Nat : x = end + (s + Overhead) /\ x >= Page
    <3>1. end \in Nat /\ end >= Page BY <1>1, Types, Ends
    <3> QED BY <3>1, Constants DEF Overhead
  <2>2. Rounded(x) \in Nat BY <2>1, RoundedUp
  <2>3. len \in Nat BY <2>1, <2>2
  <2>4. len < OwnPages * Page BY <1>2, <2>3, PageBelow, Constants
  <2>5. len <= OwnPages * Page BY <2>3, <2>4, Cells
  <2>6. Grown(s) BY <1>1, <1>2, <2>5 DEF Grown
  <2> QED BY <1>1, <2>6, NewHoleInv, LastHoleInv
<1>3. CASE ~(PageOf(len) < OwnPages)
  <2>1. flaw' = "aliased" /\ UNCHANGED <<mem, index, end, mapped, live>> BY <1>1, <1>3
  <2>2. TypeOK' BY <1>1, <2>1, Types, TypesNext DEF Flaws
  <2> QED BY <2>1, <2>2 DEF Inv, Kept, Running, Granting
<1> QED BY <1>2, <1>3
-----------------------------------------------------------------------------
(* The new end after contract.                                             *)
LEMMA ContractedTo ==
  ASSUME NEW e \in {p * Page : p \in MinPages .. OwnPages}, NEW x \in Nat, x < e
  PROVE  Contracted(x) \in {p * Page : p \in MinPages .. OwnPages} /\ Contracted(x) <= e
<1> DEFINE low == MinPages * Page
           T == {Rounded(x), low}
<1>1. PICK q \in MinPages .. OwnPages : e = q * Page OBVIOUS
<1>2. q \in Nat /\ low <= e /\ low \in Nat /\ Page <= low
  <2>1. 1 * Page <= low BY TimesGrows, Constants
  <2> QED BY <1>1, <2>1, Ends, Constants, Cells
<1>3. CASE x < Page
  <2>1. Rounded(x) = x BY <1>3, Constants DEF Rounded
  <2>2. \A y \in T : y <= low BY <1>2, <1>3, <2>1, Constants
  <2>3. Max(T) = low
    <3>1. Max(T) \in T /\ \A y \in T : y <= Max(T)
      <4>1. T \subseteq Nat /\ T # {} BY <1>2, <2>1
      <4> HIDE DEF T
      <4> QED BY <1>2, <2>2, <4>1, MaxOf
    <3>2. low \in T /\ Max(T) \in Nat /\ low \in Nat BY <1>2, <2>1, <3>1
    <3> HIDE DEF T, low
    <3> QED BY <2>2, <3>1, <3>2
  <2>4. Contracted(x) = low BY <2>3 DEF Contracted
  <2>5. MinPages \in MinPages .. OwnPages BY Constants
  <2> QED BY <1>2, <2>4, <2>5
<1>4. CASE x >= Page
  <2>1. /\ Rounded(x) = (PageOf(x) + 1) * Page /\ Rounded(x) \in Nat
        /\ PageOf(x) \in Nat
    BY <1>4, RoundedUp, PageBounds
  <2>2. PICK r \in Nat : r = PageOf(x) + 1 /\ Rounded(x) = r * Page BY <2>1
  <2>3. r <= q
    <3>1. x < q * Page BY <1>1
    <3>2. PageOf(x) < q BY <1>2, <3>1, PageBelow
    <3> QED BY <1>2, <2>1, <2>2, <3>2
  <2>4. r * Page <= q * Page BY <1>2, <2>3, TimesGrows
  <2>5. Max(T) \in T /\ \A y \in T : y <= Max(T)
    <3>1. T \subseteq Nat /\ T # {} /\ \A y \in T : y <= e BY <1>1, <1>2, <2>1, <2>2, <2>4
    <3> HIDE DEF T
    <3> QED BY <1>1, <1>2, <3>1, MaxOf, Ends
  <2>6. CASE Max(T) = low
    <3>1. MinPages \in MinPages .. OwnPages BY Constants
    <3> QED BY <1>2, <2>6, <3>1 DEF Contracted
  <2>7. CASE Max(T) = r * Page
    <3>1. low <= r * Page BY <2>5, <2>7
    <3>2. MinPages <= r BY <3>1, TimesGrows, Constants
    <3>3. r \in MinPages .. OwnPages BY <1>1, <2>3, <3>2, Constants
    <3>4. Contracted(x) = r * Page BY <2>7 DEF Contracted
    <3> QED BY <1>1, <2>4, <3>3, <3>4
  <2> QED BY <2>2, <2>5, <2>6, <2>7
<1> QED BY <1>1, <1>2, <1>3, <1>4, Constants, Ends

(* The rest of the hole top ends the heap at len; the pages removed hold   *)
(* what was says.                                                          *)
LEMMA ShrunkWhat ==
  ASSUME NEW m \in Memory, NEW top \in Cell, NEW size \in Nat, size >= 2,
         NEW len \in Nat, top + size = len, NEW l \in Cell, l = len - 1,
         Backed, end \in Nat, len <= end,
         NEW was \in [Removed(len) -> Removed(len) \cup {Elsewhere}]
  PROVE  /\ ShrunkTo(m, top, size, was) \in Memory
         /\ Regrown(m, ShrunkTo(m, top, size, was), top, size, l, len)
<1>1. top \in Nat /\ top < len /\ l < len /\ l # top /\ l \in Nat /\ top + size - 1 = l
  BY Cells
<1>2. \A c \in Cell : c < len => PageOf(c) \notin Removed(len)
  <2> SUFFICES ASSUME NEW c \in Cell, c < len PROVE PageOf(c) \notin Removed(len) OBVIOUS
  <2>1. c \in Nat BY Cells
  <2>2. PageOf(c) <= PageOf(len) BY <2>1, PageGrows
  <2>3. c \in 0 .. end - 1 BY <2>1
  <2>4. PageOf(c) \in mapped BY <2>3 DEF Backed
  <2> QED BY <2>2, <2>4 DEF Removed, KeptPages
<1>3. PICK k : k = ShrunkTo(m, top, size, was) OBVIOUS
<1> DEFINE Back(a) == IF was[PageOf(a)] = Elsewhere THEN Other
                      ELSE m[was[PageOf(a)] * Page + (a % Page)]
<1>4. k = [a \in Cell |-> CASE a = top                     -> Header(TRUE, size)
                             [] a = top + size - 1          -> Footer(top)
                             [] PageOf(a) \in Removed(len) -> Back(a)
                             [] OTHER                       -> m[a]]
  BY <1>3 DEF ShrunkTo
<1>5. Header(TRUE, size) \in Contents /\ Footer(top) \in Contents /\ Other \in Contents
  BY Hole, Foot, Rest
<1>6. ASSUME NEW a \in Cell, PageOf(a) \in Removed(len)
      PROVE  Back(a) = Other \/ \E d \in Cell : Back(a) = m[d]
  <2>1. CASE was[PageOf(a)] = Elsewhere BY <2>1
  <2>2. CASE was[PageOf(a)] # Elsewhere
    <3>1. PICK q \in Removed(len) : was[PageOf(a)] = q BY <1>6, <2>2
    <3>2. q \in Nat /\ q + 1 <= OwnPages BY <3>1, Constants DEF Removed
    <3>3. PICK r \in Nat : r = a % Page /\ r < Page BY Constants, Cells
    <3>4. q * Page \in Nat /\ (q + 1) * Page <= OwnPages * Page /\ (q + 1) * Page = q * Page + Page
      BY <3>2, TimesGrows, Constants
    <3>5. q * Page + r \in Nat /\ q * Page + r < OwnPages * Page
      BY <3>3, <3>4, Cells, Constants
    <3>6. q * Page + r \in Cell BY <3>5, Cells
    <3>7. Back(a) = m[q * Page + r] BY <2>2, <3>1, <3>3
    <3> QED BY <3>6, <3>7
  <2> QED BY <2>1, <2>2
<1> HIDE DEF Back
<1>7. k[top] = Header(TRUE, size) BY <1>1, <1>2, <1>4
<1>8. k[l] = Footer(top) BY <1>1, <1>2, <1>4
<1>9. ASSUME NEW c \in Cell \ {top, l}
      PROVE  k[c] = IF PageOf(c) \in Removed(len) THEN Back(c) ELSE m[c]
  BY <1>1, <1>4
<1>10. \A c \in Cell \ {top, l} : k[c] = Other \/ \E d \in Cell : k[c] = m[d]
  BY <1>6, <1>9
<1>11. k \in Memory
  <2>1. \A c \in Cell : k[c] \in Contents BY <1>5, <1>7, <1>8, <1>10 DEF Memory
  <2>2. k = [a \in Cell |-> k[a]] BY <1>4
  <2> QED BY <2>1, <2>2 DEF Memory
<1>12. \A c \in Cell : c < top => k[c] = m[c]
  <2> SUFFICES ASSUME NEW c \in Cell, c < top PROVE k[c] = m[c] OBVIOUS
  <2>1. c \in Nat /\ c < len /\ c # top /\ c # l BY <1>1, Cells
  <2> QED BY <1>2, <1>9, <2>1
<1>13. Regrown(m, k, top, size, l, len) BY <1>7, <1>8, <1>10, <1>12 DEF Regrown
<1> QED BY <1>3, <1>11, <1>13

(* free's last part, from a heap m with the holes of ix and at top.        *)
LEMMA ReleaseInv ==
  ASSUME TypeOK, Running, Backed,
         NEW m \in Memory, NEW B \in SUBSET Block, NEW ix \in Seq(Cell),
         NEW top \in Cell, NEW hd \in Cell, NEW G, G = ToSet(ix) \cup {top},
         IsInjective(ix), top = hd <=> top \notin ToSet(ix),
         Loose(m, B, G, end, top), NEW z \in Nat, Sized(m, top, z), top + z = end,
         Spared(mem, m, B), Release(hd, top, m, ix), live' = B, B \subseteq live
  PROVE  Inv' /\ Kept
<1>0. /\ mem \in Memory /\ index \in Seq(Cell) /\ mapped \subseteq 0 .. OwnPages - 1
      /\ end \in {p * Page : p \in MinPages .. OwnPages}
      /\ end \in Nat /\ end <= OwnPages * Page /\ flaw = "none"
  BY Types, Ends DEF Running
<1>1. m[top].size = z BY DEF Sized
<1>2. top \in Nat /\ z >= 2 /\ top < end
  <2>1. top \in StartsOf(B, G) BY DEF StartsOf
  <2>2. Tiling(m, StartsOf(B, G), end) BY DEF Loose
  <2>3. m[top].size >= 2 BY <1>0, <2>1, <2>2, Tile1
  <2>4. z >= 2 BY <1>1, <2>3
  <2> QED BY <1>0, <2>4, Cells
<1>3. PICK len : len = Contracted(top) OBVIOUS
<1>4. len \in {p * Page : p \in MinPages .. OwnPages} /\ len <= end
  BY <1>0, <1>2, <1>3, ContractedTo
<1>5. len \in Nat /\ len <= OwnPages * Page BY <1>4, Ends
<1>6. PICK rest : rest = m[top].size - (end - len) OBVIOUS
<1>7. rest \in Int /\ top + rest = len
  <2>1. rest = z - (end - len) BY <1>1, <1>6
  <2> QED BY <1>0, <1>2, <1>5, <2>1
<1>8. CASE rest < Overhead
  <2>1. flaw' = "cramped" /\ UNCHANGED <<mem, index, end, mapped>>
    BY <1>3, <1>6, <1>8 DEF Release
  <2>2. flaw' \in Flaws BY <2>1 DEF Flaws
  <2>3. TypeOK' BY <1>0, <2>1, <2>2, TypesNext
  <2> QED BY <2>1, <2>3 DEF Inv, Kept, Running
<1>9. CASE ~(rest < Overhead)
  <2>1. rest \in Nat /\ rest >= 2 BY <1>7, <1>9 DEF Overhead
  <2>0. PICK was \in [Removed(len) -> Removed(len) \cup {Elsewhere}] :
          mem' = ShrunkTo(m, top, rest, was)
    BY <1>3, <1>6, <1>9 DEF Release
  <2>2. PICK k : k = ShrunkTo(m, top, rest, was) OBVIOUS
  <2>3. /\ mem' = k /\ index' = (IF top = hd THEN Insert(ix, hd, k) ELSE ix)
        /\ end' = len /\ mapped' = KeptPages(len) /\ UNCHANGED flaw
    BY <1>3, <1>6, <1>9, <2>0, <2>2 DEF Release
  <2>4. PICK l \in Cell : l = len - 1
    <3>1. len - 1 \in Nat /\ len - 1 < OwnPages * Page BY <1>2, <1>5, <1>7, <2>1, Cells
    <3> QED BY <3>1, Cells
  <2>5. k \in Memory /\ Regrown(m, k, top, rest, l, len)
    BY <1>0, <1>4, <1>5, <1>7, <2>1, <2>2, <2>4, ShrunkWhat
  <2>6. Led(m, k, B, B, G, len)
    BY <1>0, <1>2, <1>5, <2>1, <2>5, LastResized
  <2>7. index' \in Seq(Cell) /\ ToSet(index') = G /\ IsInjective(index')
    <3>1. CASE top = hd
      <4>1. top \notin ToSet(ix) /\ index' = Insert(ix, top, k) BY <2>3, <3>1
      <4> QED BY <4>1, InsertedHole
    <3>2. CASE top # hd BY <2>3, <3>2
    <3> QED BY <3>1, <3>2
  <2>8. Backed'
    <3> SUFFICES ASSUME NEW c \in 0 .. len - 1 PROVE PageOf(c) \in KeptPages(len)
      BY <2>3 DEF Backed
    <3>1. c \in Nat /\ c <= len /\ c \in 0 .. end - 1 BY <1>0, <1>4, <1>5
    <3>2. PageOf(c) <= PageOf(len) BY <1>5, <3>1, PageGrows
    <3>3. PageOf(c) \in mapped BY <3>1 DEF Backed
    <3> QED BY <3>2, <3>3 DEF KeptPages
  <2>9. mapped' \subseteq 0 .. OwnPages - 1 BY <1>0, <2>3 DEF KeptPages
  <2>10. TypeOK' BY <1>0, <1>4, <2>3, <2>5, <2>7, <2>9, TypesNext
  <2>11. InOrder' BY <2>3, <2>6, <2>7, <2>8 DEF InOrder, Led
  <2>12. Spared(mem, mem', live \cap live') BY <2>3, <2>6 DEF Led, Spared
  <2> QED BY <2>10, <2>11, <2>12 DEF Inv, Kept
<1> QED BY <1>8, <1>9
-----------------------------------------------------------------------------
LEMMA PutHole ==
  ASSUME NEW m \in Memory, NEW a \in Cell, NEW x \in Nat,
         NEW k, k = [m EXCEPT ![a] = Header(TRUE, x)]
  PROVE  Put(m, k, a, Header(TRUE, x))
<1>1. Header(TRUE, x) \in Contents BY Hole
<1> QED BY <1>1 DEF Put, Memory

(* UnifyLeft, unless it finds no hole on the left.                         *)
LEMMA UnifyLeftIs ==
  ASSUME mem \in Memory, NEW q \in Cell, NEW x \in Nat, mem[q] = Header(FALSE, x),
         NEW p \in Cell, p # q, NEW z \in Nat, mem[p] = Header(TRUE, z),
         NEW y \in Nat, y = z + x, NEW f \in Cell, f = q + x - 1, f # p, f # q
  PROVE  UnifyLeft(q, p) \in Memory /\ LeftTakes(mem, UnifyLeft(q, p), p, q, x, y, z, f)
<1> DEFINE freed == [mem EXCEPT ![q].hole = TRUE]
           W(v, c) == [[freed EXCEPT ![p].size = v] EXCEPT ![c] = Footer(p)]
<1>1. mem[q].size = x /\ mem[p].size = z BY Hole, Taken
<1>2. PICK h \in Memory : h = freed /\ Put(mem, h, q, Header(TRUE, x))
  <2>1. [mem[q] EXCEPT !.hole = TRUE] = Header(TRUE, x) BY Marked, Zenon
  <2>2. PICK h : h = [mem EXCEPT ![q] = Header(TRUE, x)] OBVIOUS
  <2>3. h = freed BY <2>1, <2>2
  <2>4. Put(mem, h, q, Header(TRUE, x)) BY <2>2, PutHole
  <2> QED BY <2>3, <2>4 DEF Put
<1>3. h[p] = Header(TRUE, z) /\ h[p].size = z BY <1>1, <1>2 DEF Put
<1>4. PICK k : k = UnifyLeft(q, p) OBVIOUS
<1>5. k = [[freed EXCEPT ![p].size = freed[p].size + mem[q].size]
             EXCEPT ![q + mem[q].size - 1] = Footer(p)]
  BY <1>4, Zenon DEF UnifyLeft
<1>6. k = W(freed[p].size + mem[q].size, q + mem[q].size - 1) BY <1>5
<1>7. freed[p].size + mem[q].size = y /\ q + mem[q].size - 1 = f
  <2> HIDE DEF freed
  <2> QED BY <1>1, <1>2, <1>3
<1>8. k = W(y, f)
  <2> HIDE DEF W, freed
  <2> QED BY <1>6, <1>7
<1>9. k = [[h EXCEPT ![p].size = y] EXCEPT ![f] = Footer(p)]
  <2> HIDE DEF freed
  <2> QED BY <1>2, <1>8
<1>10. PICK g : g = [h EXCEPT ![p].size = y] OBVIOUS
<1>11. g = [h EXCEPT ![p] = Header(TRUE, y)]
  <2>1. [h[p] EXCEPT !.size = y] = Header(TRUE, y) BY <1>3, Resized, Zenon
  <2> QED BY <1>10, <2>1
<1>12. Put(h, g, p, Header(TRUE, y)) BY <1>11, PutHole
<1>13. k = [g EXCEPT ![f] = Footer(p)] BY <1>9, <1>10
<1>14. Footer(p) \in Contents BY Foot
<1>15. k \in Memory /\ \A c \in Cell : k[c] = IF c = f THEN Footer(p) ELSE g[c]
  BY <1>12, <1>13, <1>14 DEF Put, Memory
<1>16. LeftTakes(mem, k, p, q, x, y, z, f) BY <1>2, <1>12, <1>15 DEF LeftTakes, Put
<1> QED BY <1>4, <1>15, <1>16

(* The block b, as a hole or as the end of the one on the left.            *)
LeftDone(k, b, H, top) ==
  /\ k \in Memory /\ top \in Cell /\ Freed(mem, k, live \ {b}, H \cup {top}, end, top)
  /\ top = b.at <=> top \notin H
  /\ \E y \in Nat : Sized(k, top, y) /\ top + y = b.at + mem[b.at].size

LEMMA UnifyLeftWhat ==
  ASSUME TypeOK, Running, InOrder, NEW b \in live, NEW H, H = ToSet(index),
         NEW top, top = LeftHole(b.at), NEW k, k = UnifyLeft(b.at, top)
  PROVE  LeftDone(k, b, H, top)
<1>1. /\ mem \in Memory /\ index \in Seq(Cell) /\ live \in SUBSET Block
      /\ end \in Nat /\ end <= OwnPages * Page
  BY Types, Ends
<1>2. /\ Shape(mem, live, H, end) /\ Sane(mem) /\ Described(mem, live, H)
      /\ Tiling(mem, StartsOf(live, H), end) /\ b.at \in StartsOf(live, H)
  BY DEF InOrder, Shape, StartsOf
<1>3. PICK q \in Cell, x \in Nat : q = b.at /\ x = b.extent /\ mem[q].size = x
  <2>1. b.at \in Cell /\ b.extent \in Nat /\ mem[b.at].size = b.extent BY <1>1, <1>2, BlockAt
  <2> QED BY <2>1
<1>4. mem[q] = Header(FALSE, x) BY <1>2, <1>3 DEF Described
<1>5. q \in Nat /\ x >= 2
  <2>1. mem[q].size >= 2 BY <1>1, <1>2, <1>3, Tile1
  <2> QED BY <1>3, <2>1, Cells
<1>6. \/ top = q /\ \A a \in H : a + mem[a].size # q
      \/ top \in H /\ top # q /\ top + mem[top].size = q
  BY <1>1, <1>2, <1>3, LeftFound
<1>7. q \notin H BY <1>2, <1>3, BlockNotHole
<1>8. CASE top = q
  <2>1. \A a \in H : a + mem[a].size # q BY <1>6, <1>7, <1>8
  <2>2. k = [mem EXCEPT ![q].hole = TRUE] BY <1>3, <1>8 DEF UnifyLeft
  <2>3. [mem[q] EXCEPT !.hole = TRUE] = Header(TRUE, x) BY <1>4, Marked, Zenon
  <2>4. k = [mem EXCEPT ![q] = Header(TRUE, x)] BY <2>2, <2>3
  <2>5. Put(mem, k, q, Header(TRUE, x)) BY <1>1, <2>4, PutHole
  <2>6. k \in Memory /\ k[q] = Header(TRUE, x) /\ \A c \in Cell \ {q} : k[c] = mem[c]
    BY <2>5 DEF Put
  <2>7. Freed(mem, k, live \ {b}, H \cup {q}, end, q)
    BY <1>1, <1>2, <1>3, <1>5, <2>1, <2>6, FreedAlone
  <2>8. Sized(k, q, x) BY <2>6, Hole DEF Sized
  <2> QED BY <1>3, <1>7, <1>8, <2>6, <2>7, <2>8 DEF LeftDone
<1>9. CASE top # q
  <2>1. top \in H /\ top + mem[top].size = q BY <1>6, <1>9
  <2>2. top \in StartsOf(live, H) BY <2>1 DEF StartsOf
  <2>3. top \in Cell /\ top \in Nat BY <1>1, <1>2, <2>2, InCell, Cells
  <2>4. PICK z \in Nat : z = mem[top].size /\ mem[top] = Header(TRUE, z)
    <3>1. mem[top] \in Contents /\ IsHole(mem[top])
      BY <1>1, <1>2, <2>1, <2>3 DEF Memory, Described
    <3> QED BY <3>1, Read
  <2>5. z >= 2 /\ top + z = q
    <3>1. mem[top].size >= 2 BY <1>1, <1>2, <2>2, Tile1
    <3> QED BY <2>1, <2>4, <3>1
  <2>6. PICK y \in Nat : y = z + x OBVIOUS
  <2>7. PICK f \in Cell : f = q + x - 1 /\ f # q /\ f # top
    <3>1. q + mem[q].size - 1 \in Cell BY <1>1, <1>2, <1>3, InCell
    <3>2. q + x - 1 \in Cell BY <1>3, <3>1
    <3>3. q + x - 1 # q /\ q + x - 1 # top BY <1>5, <2>3, <2>5
    <3> QED BY <3>2, <3>3
  <2>8. k \in Memory /\ LeftTakes(mem, k, top, q, x, y, z, f)
    BY <1>1, <1>3, <1>4, <1>9, <2>3, <2>4, <2>6, <2>7, UnifyLeftIs
  <2>9. Sized(mem, top, z) BY <2>4 DEF Sized
  <2>10. f \in Nat BY Cells
  <2>11. Freed(mem, k, live \ {b}, H, end, top)
    BY <1>1, <1>2, <1>3, <1>5, <2>1, <2>3, <2>5, <2>8, <2>9, <2>10, FreedLeft
  <2>12. H \cup {top} = H BY <2>1
  <2>13. Sized(k, top, y)
    <3>1. k[top] = Header(TRUE, y) BY <2>8 DEF LeftTakes
    <3> QED BY <3>1, Hole DEF Sized
  <2>14. top + y = q + x BY <1>5, <2>3, <2>5, <2>6
  <2>15. top = b.at <=> top \notin H BY <1>3, <1>9, <2>1
  <2> QED BY <1>3, <2>3, <2>8, <2>11, <2>12, <2>13, <2>14, <2>15 DEF LeftDone
<1> QED BY <1>8, <1>9

LEMMA UnifyRightWhat ==
  ASSUME NEW m \in Memory, NEW top \in Cell, NEW x \in Nat, m[top] = Header(TRUE, x),
         NEW th, NEW y \in Nat, Sized(m, th, y), NEW z \in Nat, z = x + y
  PROVE  Put(m, UnifyRight(m, top, th), top, Header(TRUE, z))
<1> DEFINE W(v) == [m EXCEPT ![top].size = v]
<1>1. m[top].size = x /\ m[th].size = y BY Hole DEF Sized
<1>2. PICK k : k = UnifyRight(m, top, th) OBVIOUS
<1>3. k = W(m[top].size + m[th].size) BY <1>2, Zenon DEF UnifyRight
<1>4. m[top].size + m[th].size = z BY <1>1
<1>5. k = W(z)
  <2> HIDE DEF W
  <2> QED BY <1>3, <1>4
<1>6. k = [m EXCEPT ![top] = Header(TRUE, z)]
  <2>1. [m[top] EXCEPT !.size = z] = Header(TRUE, z) BY Resized, Zenon
  <2> QED BY <1>5, <2>1
<1> QED BY <1>2, <1>6, PutHole

LEMMA FreeInv ==
  ASSUME Inv, NEW b \in live, Free(b) PROVE Inv' /\ Kept
<1> DEFINE hd == b.at
           B == live \ {b}
<1>1. PICK th, top, left : /\ th = hd + mem[hd].size /\ top = LeftHole(hd)
                           /\ left = UnifyLeft(hd, top)
  OBVIOUS
<1>2. PICK m, next, ix :
        /\ m = (IF IsHole(left[th]) THEN UnifyRight(left, top, th) ELSE left)
        /\ next = (IF IsHole(left[th]) THEN th + left[th].size ELSE th)
        /\ ix = (IF IsHole(left[th]) THEN RemoveHole(index, th) ELSE index)
  OBVIOUS
<1>3. /\ Running /\ TypeOK /\ InOrder /\ live' = B
      /\ IF PageOf(th) \notin mapped
         THEN flaw' = "fault" /\ UNCHANGED <<mem, index, end, mapped>>
         ELSE IF next = end THEN Release(hd, top, m, ix)
         ELSE /\ mem' = m
              /\ index' = IF top = hd THEN Insert(ix, hd, m) ELSE ix
              /\ flaw' = IF ~IsHole(left[th]) THEN "none"
                         ELSE IF th \in ToSet(index) THEN "mislaid" ELSE "unlisted"
              /\ UNCHANGED <<end, mapped>>
  BY <1>1, <1>2 DEF Inv, Free
<1>4. /\ mem \in Memory /\ index \in Seq(Cell) /\ live \in SUBSET Block
      /\ B \in SUBSET Block /\ mapped \subseteq 0 .. OwnPages - 1
      /\ end \in {p * Page : p \in MinPages .. OwnPages}
      /\ end \in Nat /\ end <= OwnPages * Page
  BY <1>3, Types, Ends
<1>5. PICK H : H = ToSet(index) OBVIOUS
<1>5a. LeftDone(left, b, H, top)
  <2>1. top = LeftHole(b.at) /\ left = UnifyLeft(b.at, top) BY <1>1
  <2> QED BY <1>3, <1>5, <2>1, UnifyLeftWhat
<1>6. /\ left \in Memory /\ top \in Cell /\ (top = hd <=> top \notin H)
      /\ Freed(mem, left, B, H \cup {top}, end, top)
  BY <1>5a DEF LeftDone
<1>6a. PICK x \in Nat : Sized(left, top, x) /\ top + x = th
  BY <1>1, <1>5a DEF LeftDone
<1>7. PICK G : G = H \cup {top} OBVIOUS
<1>8. /\ Described(left, B, G) /\ Tiling(left, StartsOf(B, G), end)
      /\ Ended(left, StartsOf(B, G)) /\ top \in G /\ Sane(left)
      /\ \A a \in G \ {top} : a + left[a].size \notin G
      /\ top \in StartsOf(B, G) /\ Spared(mem, left, B)
  BY <1>6, <1>7 DEF Freed, StartsOf
<1>9. /\ top \in Nat /\ x >= 2 /\ th \in Nat
      /\ th <= end /\ th \in StartsOf(B, G) \cup {end} /\ th # top
  <2>1. left[top].size = x BY <1>6a DEF Sized
  <2>2. /\ top \in Nat /\ left[top].size >= 2 /\ top + left[top].size <= end
        /\ top + left[top].size \in StartsOf(B, G) \cup {end}
    BY <1>4, <1>8, Tile1
  <2>3. x >= 2 /\ top + x <= end /\ top + x \in StartsOf(B, G) \cup {end} BY <2>1, <2>2
  <2> QED BY <1>6a, <2>2, <2>3
<1>10. /\ hd \in Cell /\ index \in Seq(Cell) /\ IsInjective(index) /\ Backed
  <2>1. hd \in Cell BY <1>4 DEF Block
  <2> QED BY <1>3, <1>4, <2>1 DEF InOrder
<1>11. CASE PageOf(th) \notin mapped
  <2>1. flaw' = "fault" /\ UNCHANGED <<mem, index, end, mapped>> BY <1>3, <1>11
  <2>2. flaw' \in Flaws BY <2>1 DEF Flaws
  <2>3. TypeOK' BY <1>3, <1>4, <2>1, <2>2, TypesNext
  <2> QED BY <2>1, <2>3 DEF Inv, Running, Kept
<1>12. CASE PageOf(th) \in mapped
  <2>1. th \in Cell
    <3>1. PageOf(th) < OwnPages /\ OwnPages \in Nat BY <1>4, <1>12, <1>9, PageBounds, Constants
    <3> QED BY <1>9, <3>1, PageBelow, Cells
  <2>3. CASE ~IsHole(left[th])
    <3>1. m = left /\ next = th /\ ix = index BY <1>2, <2>3
    <3>2. th \notin G BY <1>8, <2>3 DEF Described
    <3>3. CASE next = end
      <4>1. Release(hd, top, left, index) BY <1>3, <1>12, <3>1, <3>3
      <4>2. Loose(left, B, G, end, top) BY <1>8 DEF Ended, Loose
      <4>3. top + x = end BY <1>6a, <3>1, <3>3
      <4> QED BY <1>3, <1>4, <1>5, <1>6, <1>6a, <1>7, <1>8, <1>10, <4>1, <4>2, <4>3, ReleaseInv
    <3>4. CASE next # end
      <4>1. /\ mem' = left /\ index' = (IF top = hd THEN Insert(index, hd, left) ELSE index)
            /\ flaw' = "none" /\ UNCHANGED <<end, mapped>>
        BY <1>3, <1>12, <2>3, <3>1, <3>4
      <4>2. index' \in Seq(Cell) /\ ToSet(index') = G /\ IsInjective(index')
        <5>1. CASE top = hd
          <6>1. top \notin ToSet(index) /\ index' = Insert(index, top, left)
            BY <1>5, <1>6, <4>1, <5>1
          <6> QED BY <1>5, <1>6, <1>7, <1>10, <6>1, InsertedHole
        <5>2. CASE top # hd BY <1>5, <1>6, <1>7, <1>10, <4>1, <5>2
        <5> QED BY <5>1, <5>2
      <4>3. United(left, G)
        <5>1. left[top].size = x BY <1>6a DEF Sized
        <5>2. top + left[top].size \notin G BY <1>6a, <3>2, <5>1
        <5> QED BY <1>8, <5>2 DEF United
      <4>4. Shape(left, B, G, end) BY <1>8, <4>3 DEF Shape
      <4>5. TypeOK' BY <1>3, <1>4, <1>6, <4>1, <4>2, TypesNext
      <4>6. Backed' BY <1>10, <4>1 DEF Backed
      <4>7. InOrder' BY <1>3, <1>8, <4>1, <4>2, <4>4, <4>6 DEF InOrder
      <4>8. Spared(mem, mem', live \cap live') BY <1>3, <1>8, <4>1 DEF Spared
      <4> QED BY <4>5, <4>7, <4>8 DEF Inv, Kept
    <3> QED BY <3>3, <3>4
  <2>4. CASE IsHole(left[th])
    <3>1. m = UnifyRight(left, top, th) /\ next = th + left[th].size
          /\ ix = RemoveHole(index, th)
      BY <1>2, <2>4
    <3>2. left[top] = Header(TRUE, x)
      <4>1. IsHole(left[top]) /\ left[top] \in Contents BY <1>6, <1>8 DEF Described, Memory
      <4>2. left[top].size = x BY <1>6a DEF Sized
      <4> QED BY <4>1, <4>2, Read
    <3>3. PICK y \in Nat : Sized(left, th, y) /\ y >= 2 /\ next = th + y
      <4>1. left[th] \in Contents /\ left[th].kind = "header"
        BY <1>6, <2>1, <2>4 DEF Memory, IsHole
      <4>2. left[th].size \in Nat /\ left[th].size >= 2
        BY <1>8, <2>1, <4>1, Read DEF Sane, Overhead
      <4> QED BY <3>1, <4>2 DEF Sized
    <3>4. PICK z \in Nat : z = x + y OBVIOUS
    <3>5. Put(left, m, top, Header(TRUE, z))
      BY <1>6, <3>1, <3>2, <3>3, <3>4, UnifyRightWhat
    <3>6. m \in Memory /\ m[top] = Header(TRUE, z) /\ \A c \in Cell \ {top} : m[c] = left[c]
      BY <1>6, <3>5 DEF Put
    <3>7. ix \in Seq(Cell) BY <1>10, <3>1, RemovedHole
    <3>8. CASE next = end
      <4>1. Release(hd, top, m, ix) BY <1>3, <1>12, <3>8
      <4>2. th # end BY <1>4, <1>9, <3>3, <3>8
      <4>3. th \in G
        <5>1. ASSUME NEW d \in B, d.at = th PROVE FALSE
          <6>1. left[th] = Header(FALSE, d.extent) BY <1>8, <5>1 DEF Described
          <6> QED BY <2>4, <6>1, NotHole
        <5> QED BY <1>9, <4>2, <5>1 DEF StartsOf
      <4>4. th \in ToSet(index) BY <1>5, <1>7, <1>9, <4>3
      <4>5. ToSet(ix) = H \ {th} /\ IsInjective(ix) BY <1>5, <1>10, <3>1, <4>4, RemovedHole
      <4>6. PICK K : K = G \ {th} OBVIOUS
      <4>7. K = ToSet(ix) \cup {top} BY <1>7, <1>9, <4>5, <4>6
      <4>8. Freed(mem, left, B, G, end, top) BY <1>6, <1>7
      <4>9. Rejoined(mem, m, B, K, end, top)
        BY <1>4, <1>6, <1>6a, <1>9, <3>3, <3>4, <3>5, <4>3, <4>6, <4>8, FreedRight
      <4>10. Sized(m, top, z) /\ top + z = end
        <5>1. Sized(m, top, z) BY <3>6, Hole DEF Sized
        <5> QED BY <1>6a, <1>9, <3>3, <3>4, <3>8, <5>1
      <4>11. top = hd <=> top \notin ToSet(ix) BY <1>6, <1>9, <4>5
      <4> QED BY <1>3, <1>4, <1>6, <1>10, <3>6, <3>7, <4>1, <4>5, <4>7, <4>9, <4>10, <4>11,
                 ReleaseInv DEF Rejoined
    <3>9. CASE next # end
      <4>1. /\ mem' = m /\ index' = (IF top = hd THEN Insert(ix, hd, m) ELSE ix)
            /\ flaw' \in {"mislaid", "unlisted"} /\ UNCHANGED <<end, mapped>>
        BY <1>3, <1>12, <2>4, <3>9
      <4>2. index' \in Seq(Cell) BY <1>10, <3>7, <4>1, InsertedHole
      <4>3. flaw' \in Flaws /\ flaw' # "none" BY <4>1 DEF Flaws
      <4>4. TypeOK' BY <1>3, <1>4, <3>6, <4>1, <4>2, <4>3, TypesNext
      <4> QED BY <4>3, <4>4 DEF Inv, Kept, Running
    <3> QED BY <3>8, <3>9
  <2> QED BY <2>3, <2>4
<1> QED BY <1>11, <1>12

LEMMA NextInv == Inv /\ [Next]_vars => Inv'
<1> SUFFICES ASSUME Inv, [Next]_vars PROVE Inv' OBVIOUS
<1>1. ASSUME NEW s \in Sizes, Alloc(s) PROVE Inv' BY <1>1, AllocInv
<1>2. ASSUME NEW s \in Sizes, AllocGrow(s) PROVE Inv' BY <1>2, AllocGrowInv
<1>3. ASSUME NEW b \in live, Use(b) PROVE Inv' BY <1>3, UseInv
<1>4. ASSUME NEW b \in live, Free(b) PROVE Inv' BY <1>4, FreeInv
<1>5. CASE UNCHANGED vars
  BY <1>5 DEF vars, Inv, InOrder, Running, Backed, TypeOK
<1> QED BY <1>1, <1>2, <1>3, <1>4, <1>5 DEF Next, Stopped

LEMMA Invariant == Spec => []Inv
BY InitInv, NextInv, PTL DEF Spec

(* Whatever the callers ask for and give back, in order or not, memory     *)
(* holds headers and footers, the index lists cells, and the end is on a   *)
(* page between the least and the greatest the heap may have               *)
(* (kheap.c:130-188).                                                      *)
THEOREM TypeCorrect == Spec => []TypeOK
BY Invariant, PTL DEF Inv

(* Until one of the flaws happens, alloc and free share the heap out       *)
(* between the blocks and the holes: nothing is lost, nothing is in two of *)
(* them, all of it is mapped, and the index lists each hole once           *)
(* (kheap.c:222-403, ordered_array.c:38-87).                               *)
THEOREM TilesCorrect == Spec => []TilesTheHeap
<1>1. Inv => TilesTheHeap
  <2> SUFFICES ASSUME Inv, Running PROVE TilesTheHeap!2
    BY DEF TilesTheHeap
  <2>1. /\ Described(mem, live, ToSet(index)) /\ Tiling(mem, Starts, end)
        /\ IsInjective(index) /\ \A c \in 0 .. end - 1 : PageOf(c) \in mapped
    BY DEF Inv, InOrder, Shape, Backed, Starts, StartsOf
  <2>2. end \in Nat BY Types, Ends DEF Inv
  <2>3. ASSUME NEW a \in Starts PROVE Tile(a) \subseteq 0 .. end - 1
    <3>1. a \in Nat /\ mem[a].size \in Nat /\ a + mem[a].size <= end BY <2>1, <2>2, Tile1
    <3> QED BY <2>2, <3>1 DEF Tile
  <2>4. ASSUME NEW c \in 0 .. end - 1 PROVE Cardinality({a \in Starts : c \in Tile(a)}) = 1
    <3>1. PICK a \in Starts : a <= c /\ c < a + mem[a].size BY <2>1, <2>2, Covered
    <3>2. \A x \in Starts : c \in Tile(x) <=> x <= c /\ c < x + mem[x].size
      <4>1. \A x \in Starts : x \in Nat /\ mem[x].size \in Nat BY <2>1, <2>2, Tile1
      <4> QED BY <4>1 DEF Tile
    <3>3. ASSUME NEW x \in Starts, c \in Tile(x) PROVE x = a
      <4>1. x <= c /\ c < x + mem[x].size BY <3>2, <3>3
      <4>2. ASSUME x # a PROVE FALSE
        <5>1. /\ x \in Nat /\ a \in Nat /\ mem[x].size \in Nat /\ mem[a].size \in Nat
              /\ (x + mem[x].size <= a \/ a + mem[a].size <= x)
          BY <2>1, <2>2, <4>2, Apart
        <5> QED BY <3>1, <4>1, <5>1
      <4> QED BY <4>2
    <3>4. {x \in Starts : c \in Tile(x)} = {a} BY <3>1, <3>2, <3>3
    <3> QED BY <3>4, FS_Singleton
  <2> QED BY <2>1, <2>3, <2>4 DEF Described
<1> QED BY <1>1, Invariant, PTL

(* Until then, and while there is a block, every block and every hole ends *)
(* in a footer that leads back to its header, where free looks for its     *)
(* left neighbour (kheap.c:213-217, 305-323, 344-353, 380-386).            *)
THEOREM FootersCorrect == Spec => []FootersLeadBack
<1>1. Inv => FootersLeadBack
  BY DEF Inv, InOrder, Shape, Ended, FootersLeadBack, Starts, StartsOf
<1> QED BY <1>1, Invariant, PTL

(* Until then, free leaves no two holes that touch: memory given back in   *)
(* pieces is one hole again (kheap.c:343-373).                             *)
THEOREM HolesStayUnited == Spec => []HolesUnited
<1>1. Inv => HolesUnited BY DEF Inv, InOrder, Shape, United, HolesUnited
<1> QED BY <1>1, Invariant, PTL

(* What the callers see of the heap.                                       *)
LEMMA Seen ==
  /\ DOMAIN Content = live
  /\ \A b \in live : DOMAIN Content[b] = Payload(b) /\ \A c \in Payload(b) : Content[b][c] = mem[c]
BY DEF Content

LEMMA SeenNext ==
  /\ DOMAIN Content' = live'
  /\ \A b \in live' :
       DOMAIN Content'[b] = Payload(b) /\ \A c \in Payload(b) : Content'[b][c] = mem'[c]
BY DEF Content

LEMMA SparedSeen ==
  ASSUME NEW B \in SUBSET (live \cap live'), Spared(mem, mem', B)
  PROVE  \A b \in B : Content'[b] = Content[b]
<1> SUFFICES ASSUME NEW b \in B PROVE Content'[b] = Content[b] OBVIOUS
<1>1. Content[b] = [c \in Payload(b) |-> mem[c]] BY DEF Content
<1>2. Content'[b] = [c \in Payload(b) |-> mem'[c]] BY DEF Content
<1>3. \A c \in Payload(b) : mem'[c] = mem[c] BY DEF Spared
<1> QED BY <1>1, <1>2, <1>3

LEMMA PayloadSize ==
  ASSUME NEW b \in Block, NEW n \in Nat, n >= 2, b.extent \in {n, n + 1}
  PROVE  Cardinality(Payload(b)) = b.extent - 2
<1>1. b.at \in Nat /\ b.extent \in Nat /\ b.extent >= 2 BY Cells DEF Block
<1>2. PICK x \in Int, y \in Int : x = b.at + 1 /\ y = b.at + b.extent - 2 BY <1>1
<1>3. Cardinality(x .. y) = IF x > y THEN 0 ELSE y - x + 1 BY FS_Interval
<1>4. Payload(b) = x .. y BY <1>2 DEF Payload
<1>5. CASE b.extent = 2
  <2>1. x > y BY <1>1, <1>2, <1>5
  <2> QED BY <1>3, <1>4, <1>5, <2>1
<1>6. CASE b.extent # 2
  <2>1. ~(x > y) /\ y - x + 1 = b.extent - 2 BY <1>1, <1>2, <1>6
  <2> QED BY <1>3, <1>4, <2>1
<1> QED BY <1>5, <1>6

LEMMA AllocRefines ==
  ASSUME Inv, Inv', Running, Running', NEW s \in Sizes, Kept, Granting(s)
  PROVE  Heap!Allocate(s)
<1> DEFINE n == s + Overhead
<1>1. s \in Nat /\ n \in Nat /\ n >= 2 /\ n = s + 2 BY Constants DEF Overhead
<1>2. flaw' = "none" BY DEF Running
<1>3. PICK d : d \notin live /\ live' = live \cup {d} /\ d.extent \in {n, n + 1}
  BY <1>2 DEF Granting, Grants
<1> HIDE DEF n
<1>4. /\ live' \in SUBSET Block /\ end' \in Nat /\ Shape(mem', live', ToSet(index'), end')
  <2>1. TypeOK' /\ InOrder' BY DEF Inv
  <2> QED BY <2>1, TypesNext, Ends DEF InOrder
<1>5. d \in Block /\ d \in live' BY <1>3, <1>4
<1>6. Cardinality(Payload(d)) \in s .. s + (Overhead - 1)
  <2>1. Cardinality(Payload(d)) = d.extent - 2 BY <1>1, <1>3, <1>5, PayloadSize
  <2> QED BY <1>1, <1>3, <2>1 DEF Overhead
<1>7. \A h \in live : Payload(d) \cap Payload(h) = {}
  <2> SUFFICES ASSUME NEW h \in live PROVE Payload(d) \cap Payload(h) = {} OBVIOUS
  <2>1. h \in live' /\ h # d BY <1>3
  <2> QED BY <1>4, <1>5, <2>1, PayloadsApart
<1>8. \A b \in live : Content'[b] = Content[b]
  <2>1. live \cap live' = live BY <1>3
  <2>2. Spared(mem, mem', live) BY <1>2, <2>1 DEF Kept
  <2> QED BY <2>1, <2>2, SparedSeen
<1>9. \E b \in DOMAIN Content' \ DOMAIN Content :
        /\ DOMAIN Content' = DOMAIN Content \cup {b}
        /\ Cardinality(DOMAIN Content'[b]) \in s .. s + (Overhead - 1)
        /\ \A h \in DOMAIN Content : DOMAIN Content'[b] \cap DOMAIN Content[h] = {}
  BY <1>3, <1>5, <1>6, <1>7, Seen, SeenNext
<1>10. \A S : Heap!Cardinality(S) = Cardinality(S)
  BY DEF Heap!Cardinality, Cardinality
<1> QED BY <1>8, <1>9, <1>10, Seen DEF Heap!Allocate, Heap!Blocks, Heap!Cells, Heap!Kept

LEMMA UseRefines ==
  ASSUME Inv, NEW b \in live, Use(b) PROVE Running' /\ Heap!Write(b)
<1>1. live' = live /\ Running' /\ Spared(mem, mem', live \ {b}) BY UseInv
<1>2. \A d \in live \ {b} : Content'[d] = Content[d] BY <1>1, SparedSeen
<1>3. DOMAIN Content' = DOMAIN Content /\ DOMAIN Content'[b] = DOMAIN Content[b]
  BY <1>1, Seen, SeenNext
<1> QED BY <1>1, <1>2, <1>3, Seen DEF Heap!Write, Heap!Blocks, Heap!Cells, Heap!Kept

LEMMA FreeRefines ==
  ASSUME Inv, NEW b \in live, Free(b), Running' PROVE Heap!GiveBack(b)
<1>1. Kept /\ live' = live \ {b} BY FreeInv DEF Free
<1>2. Spared(mem, mem', live \ {b})
  <2>1. flaw' = "none" /\ live \cap live' = live \ {b} BY <1>1 DEF Running
  <2> QED BY <1>1, <2>1 DEF Kept
<1>3. \A d \in live \ {b} : Content'[d] = Content[d] BY <1>1, <1>2, SparedSeen
<1> QED BY <1>1, <1>3, Seen, SeenNext DEF Heap!GiveBack, Heap!Blocks, Heap!Kept

(* Until one of the flaws happens, and within the pages that have memory to*)
(* themselves, the heap is an allocator: whatever hole a block comes from  *)
(* and whatever its neighbours turn into, its addresses are of the size    *)
(* asked for, its holder's alone, and keep what he writes until he frees it*)
(* (kheap.c:222-403).                                                      *)
THEOREM Refinement == Spec => ImplementsAllocator
<1>1. Init => Heap!Init
  BY Seen DEF Init, Heap!Init, Heap!Blocks, Running
<1>2. Inv /\ Inv' /\ [Next]_vars => [Heap!Next]_(Heap!vars)
  <2> SUFFICES ASSUME Inv, Inv', Next, Running' PROVE [Heap!Next]_(Heap!vars)
    BY DEF Heap!Next, Heap!vars, vars, Content, Running
  <2>1. ASSUME NEW s \in Sizes, Alloc(s) \/ AllocGrow(s) PROVE Heap!Ordered
    <3>1. Running BY <2>1 DEF Alloc, AllocGrow
    <3>2. Kept /\ Granting(s) BY <2>1, AllocInv, AllocGrowInv
    <3>3. Heap!Allocate(s) BY <3>1, <3>2, AllocRefines
    <3> QED BY <3>1, <3>3 DEF Heap!Ordered
  <2>2. ASSUME NEW b \in live, Use(b) PROVE Heap!Ordered
    <3>1. Running BY <2>2 DEF Use
    <3> QED BY <2>2, <3>1, UseRefines, Seen DEF Heap!Ordered, Heap!Blocks
  <2>3. ASSUME NEW b \in live, Free(b) PROVE Heap!Ordered
    <3>1. Running BY <2>3 DEF Free
    <3> QED BY <2>3, <3>1, FreeRefines, Seen DEF Heap!Ordered, Heap!Blocks
  <2>4. ~Stopped BY DEF Stopped, Running, vars
  <2> QED BY <2>1, <2>2, <2>3, <2>4 DEF Next, Heap!Next
<1> QED BY <1>1, <1>2, Invariant, PTL DEF Spec, ImplementsAllocator, Heap!Spec
===============================================================================
